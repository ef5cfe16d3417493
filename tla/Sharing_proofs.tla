--------------------------- MODULE Sharing_proofs ---------------------------
(***************************************************************************)
(* The safety of Sharing, for every set of accounts, devices and notes and *)
(* every bound: its type invariant, and the four properties that hold      *)
(* whatever the interleaving.                                              *)
(*                                                                         *)
(* None of the four is inductive: a list on the server is right because it *)
(* was right when it was queued, queued because it was right when it was   *)
(* computed, and computed from what a device saw, on the server, in its    *)
(* own queue or in its cache.  The invariant below therefore says of every *)
(* place a list passes through that it holds only good lists, and of every *)
(* pending call that what it will put in a list has been offered.  What is *)
(* good only depends on the history variable offered, and stays good as    *)
(* offered grows.                                                          *)
(***************************************************************************)
EXTENDS Sharing, TLAPS, SequenceTheorems

\* Lists an account may hold: one mode per note, each offered.
GoodEntries(u) ==
    {es \in SUBSET Entry : /\ OneEntry(es)
                           /\ \A e \in es : [note |-> e.note, user |-> u, mode |-> e.mode] \in offered}

\* Lists the notes of owner u may have: one mode per account, each account
\* offered some note of u.
GoodPeople(u) ==
    {ps \in SUBSET Person : /\ OnePerson(ps)
                            /\ \A p \in ps : \E o \in offered : o.user = p.user /\ Owner[o.note] = u}

MaySave(n, u) == u = Owner[n] \/ [note |-> n, user |-> u, mode |-> "edit"] \in offered

\* The note was offered to the account, in some mode.
Named(os, n, u) == \E o \in os : o.note = n /\ o.user = u

\* What a call will put in a list has been offered; all calls but dropNote are
\* the owner's.
GoodCalls(d) ==
    {c \in Call : /\ ScreenKnown(d, c)
                  /\ c.op \in {"shareNote", "modeNote"} =>
                         [note |-> c.note, user |-> c.user, mode |-> c.mode] \in offered
                  /\ c.op = "shareUser" => Named(offered, c.note, c.user)
                  /\ c.op # "dropNote" => Owner[c.note] = Account[d]}

GoodWrites(d) ==
    {w \in Write : /\ w.kind = "user" => w.entries \in GoodEntries(w.user)
                   /\ w.people \in GoodPeople(Owner[w.note])
                   /\ w.kind \in {"save", "create"} => MaySave(w.note, w.user)
                   /\ w.then \subseteq GoodCalls(d)}

GoodRows(d) ==
    {r \in Row : /\ r.people \in GoodPeople(Owner[r.note])
                 /\ r.mode = "edit" => MaySave(r.note, Account[d])}

GoodScreens(d) ==
    {s \in Screen : /\ s.at \in Editors \cup Shares => Owner[s.note] = Account[d]
                    /\ s.at \in Shares => Len(isEdit[d]) >= 1
                    /\ s.at = "shared" => /\ s.people \in GoodPeople(Owner[s.note])
                                          /\ s.mode = "edit" => MaySave(s.note, Account[d])}

DeviceOK(d) ==
    /\ screen[d] \in GoodScreens(d)
    /\ isEdit[d] \in Seq(Mode)
    /\ people[d] \in GoodPeople(Account[d])
    /\ rows[d] \in SUBSET GoodRows(d)
    /\ calls[d] \in SUBSET GoodCalls(d)
    /\ queue[d] \in Seq(SUBSET GoodWrites(d))
    /\ taps[d] \in 0 .. MaxTaps[d]

ServerOK == /\ sharedNotes \in [User -> SUBSET Entry]
            /\ \A u \in User : sharedNotes[u] \in GoodEntries(u)
            /\ docs \in [Note -> Doc]
            /\ \A n \in Note : /\ docs[n].people \in GoodPeople(Owner[n])
                               /\ MaySave(n, docs[n].by)

Shapes == /\ screen \in [Device -> Screen]
          /\ isEdit \in [Device -> Seq(Mode)]
          /\ people \in [Device -> SUBSET Person]
          /\ rows \in [Device -> SUBSET Row]
          /\ calls \in [Device -> SUBSET Call]
          /\ queue \in [Device -> Seq(SUBSET Write)]
          /\ taps \in [Device -> Nat]

HistoryOK == /\ offered \subseteq Offer
             /\ \A o \in offered : o.user # Owner[o.note]
             /\ wanted \subseteq Offer
             /\ crashes \in 0 .. MaxCrashes

IInv == ServerOK /\ Shapes /\ (\A d \in Device : DeviceOK(d)) /\ HistoryOK

-----------------------------------------------------------------------------
(* What a device sees *)

LEMMA SeqElement == ASSUME NEW S, NEW q \in Seq(S), NEW i \in DOMAIN q
                    PROVE  q[i] \in S
BY LenProperties, ElementOfSeq

LEMMA QueueElement ==
    ASSUME IInv, NEW d \in Device, NEW i \in DOMAIN queue[d], NEW w \in queue[d][i]
    PROVE  w \in GoodWrites(d)
<1>1. queue[d] \in Seq(SUBSET GoodWrites(d))
  BY DEF IInv, DeviceOK
<1>. QED
  BY <1>1, SeqElement

\* What a device sees of an account's list is the server's or one of its own
\* unsent writes, hence good.
LEMMA UserSeenGood ==
    ASSUME IInv, NEW d \in Device, NEW u \in User, NEW es \in UserSeen(d, u)
    PROVE  es \in GoodEntries(u)
<1>1. CASE es = sharedNotes[u]
  BY <1>1 DEF IInv, ServerOK
<1>2. CASE es # sharedNotes[u]
  <2>1. PICK i \in DOMAIN queue[d] : \E w \in queue[d][i] : w.kind = "user" /\ w.user = u /\ es = w.entries
    BY <1>2 DEF UserSeen, Newest
  <2>. QED
    BY <2>1, QueueElement DEF GoodWrites
<1>. QED
  BY <1>1, <1>2

\* The same for the list of a note.
LEMMA PeopleSeenGood ==
    ASSUME IInv, NEW d \in Device, NEW n \in Note, NEW ps \in PeopleSeen(d, n)
    PROVE  ps \in GoodPeople(Owner[n])
<1>1. CASE ps = docs[n].people
  BY <1>1 DEF IInv, ServerOK
<1>2. CASE ps # docs[n].people
  <2>1. PICK i \in DOMAIN queue[d] : \E w \in queue[d][i] : w.note = n /\ ps = w.people
    BY <1>2 DEF PeopleSeen, Newest
  <2>. QED
    BY <2>1, QueueElement DEF GoodWrites
<1>. QED
  BY <1>1, <1>2

-----------------------------------------------------------------------------
(* The frame: a step changes one device *)

\* What is good stays good when more is offered and no share settings screen
\* is forgotten.
LEMMA Keeps ==
    ASSUME offered \subseteq offered', NEW d, Len(isEdit[d]) <= Len(isEdit'[d]),
           Len(isEdit[d]) \in Nat, Len(isEdit'[d]) \in Nat
    PROVE  /\ \A u : GoodEntries(u) \subseteq GoodEntries(u)'
           /\ \A u : GoodPeople(u) \subseteq GoodPeople(u)'
           /\ \A n, u : MaySave(n, u) => MaySave(n, u)'
           /\ GoodCalls(d) \subseteq GoodCalls(d)'
           /\ GoodWrites(d) \subseteq GoodWrites(d)'
           /\ GoodRows(d) \subseteq GoodRows(d)'
           /\ GoodScreens(d) \subseteq GoodScreens(d)'
<1>1. \A u : GoodEntries(u) \subseteq GoodEntries(u)'
  BY DEF GoodEntries
<1>2. \A u : GoodPeople(u) \subseteq GoodPeople(u)'
  BY DEF GoodPeople
<1>3. \A n, u : MaySave(n, u) => MaySave(n, u)'
  BY DEF MaySave
<1>4. GoodCalls(d) \subseteq GoodCalls(d)'
  BY DEF GoodCalls, ScreenKnown, Named, Call
<1>5. GoodWrites(d) \subseteq GoodWrites(d)'
  BY <1>1, <1>2, <1>3, <1>4 DEF GoodWrites
<1>6. GoodRows(d) \subseteq GoodRows(d)'
  BY <1>2, <1>3 DEF GoodRows
<1>7. GoodScreens(d) \subseteq GoodScreens(d)'
  BY <1>2, <1>3 DEF GoodScreens
<1>. QED
  BY <1>1, <1>2, <1>3, <1>4, <1>5, <1>6, <1>7

\* Only d's own part of the state changes.
Local(d) ==
    /\ screen' = [screen EXCEPT ![d] = screen'[d]]
    /\ isEdit' = [isEdit EXCEPT ![d] = isEdit'[d]]
    /\ people' = [people EXCEPT ![d] = people'[d]]
    /\ rows' = [rows EXCEPT ![d] = rows'[d]]
    /\ calls' = [calls EXCEPT ![d] = calls'[d]]
    /\ queue' = [queue EXCEPT ![d] = queue'[d]]
    /\ taps' = [taps EXCEPT ![d] = taps'[d]]

\* A step of d preserves the invariant if it leaves d, the server and the
\* history in order.
LEMMA Frame ==
    ASSUME IInv, NEW d \in Device, Local(d), DeviceOK(d)', offered \subseteq offered',
           ServerOK', HistoryOK'
    PROVE  IInv'
<1>1. ASSUME NEW e \in Device, e # d
      PROVE  DeviceOK(e)'
  <2>1. /\ screen'[e] = screen[e] /\ isEdit'[e] = isEdit[e] /\ people'[e] = people[e]
        /\ rows'[e] = rows[e] /\ calls'[e] = calls[e] /\ queue'[e] = queue[e]
        /\ taps'[e] = taps[e]
    BY <1>1 DEF Local, IInv, Shapes
  <2>2. DeviceOK(e)
    BY DEF IInv
  <2>3. Len(isEdit[e]) \in Nat
    BY <2>2, LenProperties DEF DeviceOK
  <2>4. /\ GoodScreens(e) \subseteq GoodScreens(e)' /\ GoodRows(e) \subseteq GoodRows(e)'
        /\ GoodCalls(e) \subseteq GoodCalls(e)' /\ GoodWrites(e) \subseteq GoodWrites(e)'
        /\ GoodPeople(Account[e]) \subseteq GoodPeople(Account[e])'
    BY <2>1, <2>3, Keeps
  <2>5. queue[e] \in Seq(SUBSET GoodWrites(e)')
    BY <2>2, <2>4, SeqMonotonic DEF DeviceOK
  <2>. QED
    BY <2>1, <2>2, <2>4, <2>5 DEF DeviceOK
<1>2. Shapes'
  <2>1. GoodWrites(d)' \subseteq Write
    BY DEF GoodWrites
  <2>2. queue'[d] \in Seq(SUBSET Write)
    BY <2>1, SeqMonotonic DEF DeviceOK
  <2>3. /\ screen'[d] \in Screen /\ isEdit'[d] \in Seq(Mode) /\ people'[d] \in SUBSET Person
        /\ rows'[d] \in SUBSET Row /\ calls'[d] \in SUBSET Call
    BY DEF DeviceOK, GoodScreens, GoodPeople, GoodRows, GoodCalls
  <2>4. taps'[d] \in Nat
    BY BoundAssumption DEF DeviceOK
  <2>. QED
    BY <2>2, <2>3, <2>4 DEF Local, IInv, Shapes
<1>. QED
  BY <1>1, <1>2 DEF IInv

\* What d holds stays good through a step that forgets nothing.
LEMMA Rest ==
    ASSUME IInv, NEW d \in Device, offered \subseteq offered',
           isEdit'[d] \in Seq(Mode), Len(isEdit[d]) <= Len(isEdit'[d])
    PROVE  /\ Len(isEdit[d]) \in Nat /\ Len(isEdit'[d]) \in Nat
           /\ \A u : GoodEntries(u) \subseteq GoodEntries(u)'
           /\ \A u : GoodPeople(u) \subseteq GoodPeople(u)'
           /\ \A n, u : MaySave(n, u) => MaySave(n, u)'
           /\ GoodCalls(d) \subseteq GoodCalls(d)'
           /\ GoodWrites(d) \subseteq GoodWrites(d)'
           /\ screen[d] \in GoodScreens(d)'
           /\ people[d] \in GoodPeople(Account[d])'
           /\ rows[d] \in SUBSET GoodRows(d)'
           /\ calls[d] \in SUBSET GoodCalls(d)'
           /\ queue[d] \in Seq(SUBSET GoodWrites(d)')
           /\ UNCHANGED server => ServerOK'
<1>1. DeviceOK(d)
  BY DEF IInv
<1>2. Len(isEdit[d]) \in Nat /\ Len(isEdit'[d]) \in Nat
  BY <1>1, LenProperties DEF DeviceOK
<1>3. /\ \A u : GoodEntries(u) \subseteq GoodEntries(u)'
      /\ \A u : GoodPeople(u) \subseteq GoodPeople(u)'
      /\ \A n, u : MaySave(n, u) => MaySave(n, u)'
      /\ GoodCalls(d) \subseteq GoodCalls(d)'
      /\ GoodWrites(d) \subseteq GoodWrites(d)'
      /\ GoodRows(d) \subseteq GoodRows(d)'
      /\ GoodScreens(d) \subseteq GoodScreens(d)'
  BY <1>2, Keeps
<1>4. queue[d] \in Seq(SUBSET GoodWrites(d)')
  BY <1>1, <1>3, SeqMonotonic DEF DeviceOK
<1>5. UNCHANGED server => ServerOK'
  BY <1>3 DEF IInv, ServerOK, server
<1>. QED
  BY <1>1, <1>2, <1>3, <1>4, <1>5 DEF DeviceOK

\* A batch of good writes keeps the queue good.
LEMMA EnqueueGood ==
    ASSUME NEW d \in Device, queue \in [Device -> Seq(SUBSET Write)],
           NEW S, queue[d] \in Seq(SUBSET S), NEW batch \in SUBSET S, Enqueue(d, batch)
    PROVE  queue'[d] \in Seq(SUBSET S) /\ queue' = [queue EXCEPT ![d] = queue'[d]]
<1>1. Append(queue[d], batch) \in Seq(SUBSET S)
  BY AppendProperties
<1>. QED
  BY <1>1 DEF Enqueue

LEMMA EmptyIsGood == ASSUME NEW u PROVE {} \in GoodEntries(u) /\ {} \in GoodPeople(u)
BY DEF GoodEntries, GoodPeople, OneEntry, OnePerson

\* The note of a screen.
LEMMA ScreenNote ==
    ASSUME NEW s \in Screen
    PROVE  /\ s.at \in Editors \cup Shares => s.note \in Note
           /\ s.at = "shared" => s.note \in Note /\ s.people \in SUBSET Person /\ s.mode \in Mode
BY DEF Screen, Home, OwnerScreen, SharedScreen, Editors, Shares

LEMMA HomeIsGood == ASSUME NEW d PROVE Home \in GoodScreens(d)
BY DEF GoodScreens, Home, Screen, Editors, Shares

-----------------------------------------------------------------------------
(* Calls and writes that are good whoever makes them *)

\* Calls about one of d's own notes that put nothing in a list.
LEMMA PlainGood ==
    ASSUME NEW d \in Device, NEW n \in Note, Owner[n] = Account[d],
           NEW op \in {"load", "check", "detail"}, NEW vc \in Nat, vc <= Len(isEdit[d])
    PROVE  Plain(d, op, n, vc) \in GoodCalls(d)
BY AccountAssumption DEF Plain, NewCall, GoodCalls, ScreenKnown, Call, Ops, Mode

LEMMA DropAllGood ==
    ASSUME NEW d \in Device, NEW n \in Note, Owner[n] = Account[d], Len(isEdit[d]) \in Nat
    PROVE  DropAllCalls(d, n) \in SUBSET GoodCalls(d)
BY AccountAssumption DEF DropAllCalls, NewCall, GoodCalls, ScreenKnown, Call, Ops, Mode

\* A write of one of d's own notes with a good list of people.
LEMMA NoteWriteGood ==
    ASSUME NEW d \in Device, NEW n \in Note, MaySave(n, Account[d]),
           NEW kind \in Kinds \ {"user"}, NEW ps \in GoodPeople(Owner[n]),
           NEW then \in SUBSET GoodCalls(d)
    PROVE  NoteWrite(kind, n, Account[d], ps, then) \in GoodWrites(d)
<1>1. ps \in SUBSET Person /\ then \in SUBSET Call /\ Account[d] \in User
  BY AccountAssumption DEF GoodPeople, GoodCalls
<1>2. NoteWrite(kind, n, Account[d], ps, then) \in Write
  BY <1>1 DEF NoteWrite, Write, Kinds
<1>. QED
  BY <1>2 DEF NoteWrite, GoodWrites

\* The same of a write that carries no list: a removal, a new mode, a stop.
LEMMA EmptyWriteGood ==
    ASSUME NEW d \in Device, NEW n \in Note, MaySave(n, Account[d]),
           NEW kind \in Kinds \ {"user"}
    PROVE  {NoteWrite(kind, n, Account[d], {}, {})} \in SUBSET GoodWrites(d)
<1>1. {} \in GoodPeople(Owner[n]) /\ {} \in SUBSET GoodCalls(d)
  BY EmptyIsGood
<1>. QED
  BY <1>1, NoteWriteGood

LEMMA UserWriteGood ==
    ASSUME NEW d \in Device, NEW n \in Note, NEW u \in User, NEW es \in GoodEntries(u),
           NEW then \in SUBSET GoodCalls(d)
    PROVE  UserWrite(n, u, es, then) \in GoodWrites(d)
<1>1. es \in SUBSET Entry /\ then \in SUBSET Call
  BY DEF GoodEntries, GoodCalls
<1>2. UserWrite(n, u, es, then) \in Write
  BY <1>1 DEF UserWrite, Write, Kinds
<1>. QED
  BY <1>2, EmptyIsGood DEF UserWrite, GoodWrites

-----------------------------------------------------------------------------
(* The actions of the owner's screens *)

LEMMA TapGood ==
    ASSUME IInv, NEW d \in Device, Tap(d)
    PROVE  taps' = [taps EXCEPT ![d] = taps'[d]] /\ taps'[d] \in 0 .. MaxTaps[d]
<1>1. MaxTaps[d] \in Nat /\ taps[d] \in 0 .. MaxTaps[d] /\ taps \in [Device -> Nat]
  BY BoundAssumption DEF IInv, DeviceOK, Shapes
<1>. QED
  BY <1>1 DEF Tap

\* Starting good calls, when d forgets nothing.
LEMMA StartGood ==
    ASSUME IInv, NEW d \in Device, offered \subseteq offered',
           isEdit'[d] \in Seq(Mode), Len(isEdit[d]) <= Len(isEdit'[d]),
           NEW new \in SUBSET GoodCalls(d)', Start(d, new)
    PROVE  calls'[d] \in SUBSET GoodCalls(d)' /\ calls' = [calls EXCEPT ![d] = calls'[d]]
<1>1. calls[d] \in SUBSET GoodCalls(d)' /\ calls \in [Device -> SUBSET Call]
  BY Rest DEF IInv, Shapes
<1>. QED
  BY <1>1 DEF Start

\* Frame, for the steps that touch neither the server nor isEdit[d].
LEMMA QuietFrame ==
    ASSUME IInv, NEW d \in Device, Local(d), UNCHANGED server, isEdit'[d] = isEdit[d],
           offered \subseteq offered', HistoryOK',
           screen'[d] \in GoodScreens(d)' \/ screen'[d] = screen[d],
           people'[d] \in GoodPeople(Account[d])' \/ people'[d] = people[d],
           rows'[d] \in SUBSET GoodRows(d)' \/ rows'[d] = rows[d],
           calls'[d] \in SUBSET GoodCalls(d)' \/ calls'[d] = calls[d],
           queue'[d] \in Seq(SUBSET GoodWrites(d)') \/ queue'[d] = queue[d],
           taps'[d] \in 0 .. MaxTaps[d] \/ taps'[d] = taps[d]
    PROVE  IInv'
<1>1. DeviceOK(d)
  BY DEF IInv
<1>2. isEdit'[d] \in Seq(Mode) /\ Len(isEdit[d]) <= Len(isEdit'[d])
  BY <1>1, LenProperties DEF DeviceOK
<1>3. DeviceOK(d)' /\ ServerOK'
  BY <1>1, <1>2, Rest DEF DeviceOK
<1>. QED
  BY <1>3, Frame

LEMMA OpenDetailOK ==
    ASSUME IInv, NEW d \in Device, NEW n \in Note, OpenDetail(d, n)
    PROVE  IInv'
<1>. USE DEF OpenDetail, IsOwn
<1>1. /\ isEdit'[d] = isEdit[d] /\ offered' = offered
      /\ isEdit[d] \in Seq(Mode) /\ Len(isEdit[d]) \in Nat
  BY LenProperties DEF IInv, DeviceOK, history
<1>2. HistoryOK'
  BY DEF IInv, HistoryOK, history
<1>3. screen'[d] \in GoodScreens(d)'
  BY DEF Go, GoodScreens, Screen, OwnerScreen, Editors, Shares, IInv, Shapes
<1>4. OpeningCalls(d, n) \in SUBSET GoodCalls(d)'
  BY <1>1, PlainGood, Keeps DEF OpeningCalls
<1>5. calls'[d] \in SUBSET GoodCalls(d)' /\ calls' = [calls EXCEPT ![d] = calls'[d]]
  BY <1>1, <1>4, StartGood
<1>6. Local(d) /\ UNCHANGED server
  BY <1>5, TapGood DEF Local, Go, IInv, Shapes
<1>. QED
  BY <1>1, <1>2, <1>3, <1>5, <1>6, TapGood, QuietFrame

LEMMA OpenCreateOK ==
    ASSUME IInv, NEW d \in Device, NEW n \in Note, OpenCreate(d, n)
    PROVE  IInv'
<1>. USE DEF OpenCreate
<1>1. Local(d) /\ UNCHANGED server /\ offered \subseteq offered' /\ isEdit'[d] = isEdit[d]
  BY TapGood DEF Local, Go, IInv, Shapes, history
<1>2. HistoryOK'
  BY DEF IInv, HistoryOK, history
<1>3. screen'[d] \in GoodScreens(d)'
  BY DEF Go, GoodScreens, Screen, OwnerScreen, Editors, Shares, IInv, Shapes
<1>. QED
  BY <1>1, <1>2, <1>3, TapGood, QuietFrame

\* The note of an editor or of a share settings screen is the account's own.
LEMMA OwnNote ==
    ASSUME IInv, NEW d \in Device, At(d, Editors \cup Shares)
    PROVE  screen[d].note \in Note /\ Owner[screen[d].note] = Account[d]
BY ScreenNote DEF IInv, Shapes, DeviceOK, GoodScreens, At

LEMMA FocusFieldOK ==
    ASSUME IInv, NEW d \in Device, FocusField(d)
    PROVE  IInv'
<1>. USE DEF FocusField
<1>1. /\ isEdit'[d] = isEdit[d] /\ offered' = offered
      /\ isEdit[d] \in Seq(Mode) /\ Len(isEdit[d]) \in Nat
  BY LenProperties DEF IInv, DeviceOK, history, ui
<1>2. HistoryOK'
  BY DEF IInv, HistoryOK, history
<1>3. screen[d].note \in Note /\ Owner[screen[d].note] = Account[d]
  BY OwnNote DEF At, Editors
<1>4. {Plain(d, "check", screen[d].note, 0)} \in SUBSET GoodCalls(d)'
  BY <1>1, <1>3, PlainGood, Keeps
<1>5. calls'[d] \in SUBSET GoodCalls(d)' /\ calls' = [calls EXCEPT ![d] = calls'[d]]
  BY <1>1, <1>4, StartGood
<1>6. Local(d) /\ UNCHANGED server
  BY <1>5, TapGood DEF Local, ui, IInv, Shapes
<1>. QED
  BY <1>1, <1>2, <1>5, <1>6, TapGood, QuietFrame DEF ui

\* saveNote queues a good write, even when the cached list is stale.
LEMMA SaveNoteGood ==
    ASSUME IInv, NEW d \in Device, At(d, Editors), NEW keep \in BOOLEAN, SaveNote(d, keep),
           offered' = offered, isEdit'[d] \in Seq(Mode), Len(isEdit[d]) <= Len(isEdit'[d])
    PROVE  /\ queue'[d] \in Seq(SUBSET GoodWrites(d)')
           /\ queue' = [queue EXCEPT ![d] = queue'[d]]
           /\ people'[d] \in GoodPeople(Account[d])'
           /\ people' = [people EXCEPT ![d] = people'[d]]
           /\ wanted' \subseteq Offer
<1>. DEFINE n     == screen[d].note
            kind  == IF screen[d].at = "detail" THEN "save" ELSE "create"
            batch == {IF keep THEN NoteWrite(kind, n, Account[d], people[d], {})
                              ELSE NoteWrite("delete", n, Account[d], {}, {})}
<1>1. n \in Note /\ Owner[n] = Account[d]
  BY OwnNote DEF At
<1>2. people[d] \in GoodPeople(Owner[n]) /\ {} \in GoodPeople(Owner[n]) /\ MaySave(n, Account[d])
  BY <1>1, EmptyIsGood DEF IInv, DeviceOK, MaySave
<1>3. batch \in SUBSET GoodWrites(d)
  <2>1. kind \in Kinds \ {"user"} /\ "delete" \in Kinds \ {"user"}
    BY DEF Kinds
  <2>2. /\ NoteWrite(kind, n, Account[d], people[d], {}) \in GoodWrites(d)
        /\ NoteWrite("delete", n, Account[d], {}, {}) \in GoodWrites(d)
    BY <1>1, <1>2, <2>1, NoteWriteGood
  <2>. QED
    BY <2>2
<1>4. batch \in SUBSET GoodWrites(d)' /\ queue[d] \in Seq(SUBSET GoodWrites(d)')
  BY <1>3, Rest
<1>5. queue'[d] \in Seq(SUBSET GoodWrites(d)') /\ queue' = [queue EXCEPT ![d] = queue'[d]]
  BY <1>4, EnqueueGood DEF SaveNote, IInv, Shapes
<1>6. /\ people'[d] \in GoodPeople(Account[d])'
      /\ people' = [people EXCEPT ![d] = people'[d]]
  BY DEF SaveNote, IInv, Shapes, GoodPeople, OnePerson
<1>7. wanted' \subseteq Offer
  BY DEF SaveNote, Unwant, IInv, HistoryOK
<1>. QED
  BY <1>5, <1>6, <1>7

LEMMA LeaveEditorOK ==
    ASSUME IInv, NEW d \in Device, NEW keep \in BOOLEAN, LeaveEditor(d, keep)
    PROVE  IInv'
<1>. USE DEF LeaveEditor
<1>1. /\ isEdit'[d] = isEdit[d] /\ offered' = offered
      /\ isEdit[d] \in Seq(Mode) /\ Len(isEdit[d]) \in Nat
  BY LenProperties DEF IInv, DeviceOK
<1>2. /\ queue'[d] \in Seq(SUBSET GoodWrites(d)')
      /\ queue' = [queue EXCEPT ![d] = queue'[d]]
      /\ people'[d] \in GoodPeople(Account[d])'
      /\ people' = [people EXCEPT ![d] = people'[d]]
      /\ wanted' \subseteq Offer
  <2>1. isEdit'[d] \in Seq(Mode) /\ Len(isEdit[d]) <= Len(isEdit'[d])
    BY <1>1
  <2>. QED
    BY <1>1, <2>1, SaveNoteGood, Zenon
<1>3. HistoryOK'
  BY <1>2 DEF IInv, HistoryOK
<1>4. screen'[d] = Home
  BY DEF Go, IInv, Shapes
<1>5. Home \in GoodScreens(d)'
  BY <1>1, HomeIsGood, Keeps
<1>6. screen[d].note \in Note /\ Owner[screen[d].note] = Account[d]
  BY OwnNote DEF At
<1>7. DropAllCalls(d, screen[d].note) \in SUBSET GoodCalls(d)'
  BY <1>1, <1>6, DropAllGood, Keeps
<1>8. calls'[d] \in SUBSET GoodCalls(d)' /\ calls' = [calls EXCEPT ![d] = calls'[d]]
  BY <1>1, <1>7, StartGood
<1>9. Local(d) /\ UNCHANGED server
  BY <1>2, <1>8, TapGood DEF Local, Go, IInv, Shapes
<1>. QED
  BY <1>1, <1>2, <1>3, <1>4, <1>5, <1>8, <1>9, TapGood, QuietFrame

LEMMA OpenShareOK ==
    ASSUME IInv, NEW d \in Device, NEW keep \in BOOLEAN, OpenShare(d, keep)
    PROVE  IInv'
<1>. USE DEF OpenShare
<1>. DEFINE n == screen[d].note
<1>1. isEdit[d] \in Seq(Mode) /\ Len(isEdit[d]) \in Nat /\ offered' = offered
  BY LenProperties DEF IInv, DeviceOK
<1>2. /\ isEdit'[d] \in Seq(Mode) /\ Len(isEdit'[d]) = Len(isEdit[d]) + 1
      /\ isEdit' = [isEdit EXCEPT ![d] = isEdit'[d]]
  BY <1>1, AppendProperties DEF Mode, IInv, Shapes
<1>3. Len(isEdit[d]) <= Len(isEdit'[d])
  BY <1>1, <1>2
<1>4. /\ queue'[d] \in Seq(SUBSET GoodWrites(d)')
      /\ queue' = [queue EXCEPT ![d] = queue'[d]]
      /\ people'[d] \in GoodPeople(Account[d])'
      /\ people' = [people EXCEPT ![d] = people'[d]]
      /\ wanted' \subseteq Offer
  BY <1>1, <1>2, <1>3, SaveNoteGood
<1>5. HistoryOK'
  BY <1>4 DEF IInv, HistoryOK
<1>6. n \in Note /\ Owner[n] = Account[d]
  BY OwnNote DEF At
<1>7. screen'[d] \in GoodScreens(d)'
  BY <1>1, <1>2, <1>6 DEF Go, At, GoodScreens, Screen, OwnerScreen, ShareOver, Editors, Shares, IInv, Shapes
<1>8. DropAllCalls(d, n) \in SUBSET GoodCalls(d)'
  BY <1>1, <1>2, <1>3, <1>6, DropAllGood, Keeps
<1>9. Plain(d, "load", n, Len(isEdit[d]) + 1) \in GoodCalls(d)'
  BY <1>1, <1>2, <1>6, AccountAssumption DEF Plain, NewCall, GoodCalls, ScreenKnown, Call, Ops, Mode
<1>10. calls'[d] \in SUBSET GoodCalls(d)' /\ calls' = [calls EXCEPT ![d] = calls'[d]]
  <2>. DEFINE new == {Plain(d, "load", n, Len(isEdit[d]) + 1)} \cup IF keep THEN {} ELSE DropAllCalls(d, n)
  <2>1. new \in SUBSET GoodCalls(d)'
    BY <1>8, <1>9
  <2>2. Start(d, new)
    OBVIOUS
  <2>. HIDE DEF new
  <2>. QED
    BY <1>1, <1>2, <1>3, <2>1, <2>2, StartGood
<1>11. Local(d) /\ UNCHANGED server
  BY <1>2, <1>4, <1>10, TapGood DEF Local, Go, IInv, Shapes
<1>12. rows'[d] \in SUBSET GoodRows(d)' /\ ServerOK'
  BY <1>1, <1>2, <1>3, <1>11, Rest
<1>13. DeviceOK(d)'
  BY <1>2, <1>4, <1>7, <1>10, <1>12, TapGood DEF DeviceOK
<1>. QED
  BY <1>1, <1>5, <1>11, <1>12, <1>13, Frame

-----------------------------------------------------------------------------
(* The actions of the share settings *)

\* What a tap in the share settings finds.
LEMMA ShareTapFinds ==
    ASSUME IInv, NEW d \in Device, ShareTap(d)
    PROVE  /\ screen[d].note \in Note /\ Owner[screen[d].note] = Account[d]
           /\ isEdit[d] \in Seq(Mode) /\ Len(isEdit[d]) \in Nat /\ Len(isEdit[d]) >= 1
           /\ isEdit[d][Len(isEdit[d])] \in Mode
           /\ taps' = [taps EXCEPT ![d] = taps'[d]] /\ taps'[d] \in 0 .. MaxTaps[d]
<1>1. screen[d].note \in Note /\ Owner[screen[d].note] = Account[d]
  BY OwnNote DEF ShareTap, At
<1>2. isEdit[d] \in Seq(Mode) /\ Len(isEdit[d]) >= 1
  BY DEF ShareTap, At, IInv, DeviceOK, GoodScreens
<1>3. Len(isEdit[d]) \in Nat /\ isEdit[d][Len(isEdit[d])] \in Mode
  BY <1>2, LenProperties, ElementOfSeq
<1>. QED
  BY <1>1, <1>2, <1>3, TapGood DEF ShareTap

LEMMA BackToEditorOK ==
    ASSUME IInv, NEW d \in Device, BackToEditor(d)
    PROVE  IInv'
<1>. USE DEF BackToEditor
<1>. DEFINE n   == screen[d].note
            at  == Under(screen[d].at)
            new == IF at = "detail" THEN OpeningCalls(d, n) ELSE {}
<1>1. /\ isEdit'[d] = isEdit[d] /\ offered' = offered /\ n \in Note /\ Owner[n] = Account[d]
      /\ isEdit[d] \in Seq(Mode) /\ Len(isEdit[d]) \in Nat
  BY ShareTapFinds DEF history
<1>2. HistoryOK'
  BY DEF IInv, HistoryOK, history
<1>3. screen'[d] \in GoodScreens(d)'
  BY <1>1 DEF Go, GoodScreens, Screen, OwnerScreen, Under, Editors, Shares, IInv, Shapes
<1>4. new \in SUBSET GoodCalls(d)'
  BY <1>1, PlainGood, Keeps DEF OpeningCalls
<1>5. calls'[d] \in SUBSET GoodCalls(d)' /\ calls' = [calls EXCEPT ![d] = calls'[d]]
  <2>1. Start(d, new)
    OBVIOUS
  <2>. HIDE DEF new
  <2>. QED
    BY <1>1, <1>4, <2>1, StartGood
<1>6. Local(d) /\ UNCHANGED server
  BY <1>5, ShareTapFinds DEF Local, Go, IInv, Shapes
<1>. QED
  BY <1>1, <1>2, <1>3, <1>5, <1>6, ShareTapFinds, QuietFrame

LEMMA ClickModeOK ==
    ASSUME IInv, NEW d \in Device, ClickMode(d)
    PROVE  IInv'
<1>. USE DEF ClickMode
<1>. DEFINE k == Len(isEdit[d])
<1>1. /\ offered' = offered /\ isEdit[d] \in Seq(Mode) /\ k \in Nat /\ k \in 1 .. k
  BY ShareTapFinds DEF history
<1>2. Other(isEdit[d][k]) \in Mode
  BY DEF Other, Mode
<1>3. isEdit'[d] = [isEdit[d] EXCEPT ![k] = Other(isEdit[d][k])] /\ isEdit' = [isEdit EXCEPT ![d] = isEdit'[d]]
  BY DEF IInv, Shapes
<1>4. isEdit'[d] \in Seq(Mode) /\ Len(isEdit'[d]) = k
  BY <1>1, <1>2, <1>3, ExceptSeq
<1>5. HistoryOK'
  BY DEF IInv, HistoryOK, history
<1>6. Local(d) /\ UNCHANGED server
  BY <1>3, ShareTapFinds DEF Local, IInv, Shapes
<1>7. /\ ServerOK' /\ screen[d] \in GoodScreens(d)' /\ people[d] \in GoodPeople(Account[d])'
      /\ rows[d] \in SUBSET GoodRows(d)' /\ calls[d] \in SUBSET GoodCalls(d)'
      /\ queue[d] \in Seq(SUBSET GoodWrites(d)')
  <2>1. Len(isEdit[d]) <= Len(isEdit'[d])
    BY <1>1, <1>4
  <2>. QED
    BY <1>1, <1>4, <1>6, <2>1, Rest
<1>8. DeviceOK(d)'
  BY <1>4, <1>7, ShareTapFinds DEF DeviceOK
<1>. QED
  BY <1>1, <1>5, <1>6, <1>7, <1>8, Frame

LEMMA AddPeopleOK ==
    ASSUME IInv, NEW d \in Device, NEW u \in User, AddPeople(d, u)
    PROVE  IInv'
<1>. USE DEF AddPeople
<1>. DEFINE n == screen[d].note
            m == isEdit[d][Len(isEdit[d])]
            o == [note |-> n, user |-> u, mode |-> m]
            c == NewCall("shareNote", n, u, m, Len(isEdit[d]))
<1>1. /\ isEdit'[d] = isEdit[d] /\ n \in Note /\ Owner[n] = Account[d] /\ m \in Mode
      /\ isEdit[d] \in Seq(Mode) /\ Len(isEdit[d]) \in Nat /\ Len(isEdit[d]) >= 1
  BY ShareTapFinds DEF ui
<1>2. offered' = offered \cup {o} /\ o \in Offer /\ o.user # Owner[o.note]
  BY <1>1 DEF Offer, MayAdd
<1>3. HistoryOK'
  BY <1>1, <1>2 DEF IInv, HistoryOK
<1>4. {c} \in SUBSET GoodCalls(d)'
  BY <1>1, <1>2 DEF NewCall, GoodCalls, ScreenKnown, Call, Ops
<1>5. calls'[d] \in SUBSET GoodCalls(d)' /\ calls' = [calls EXCEPT ![d] = calls'[d]]
  BY <1>1, <1>2, <1>4, StartGood
<1>6. Local(d) /\ UNCHANGED server
  BY <1>5, ShareTapFinds DEF Local, ui, IInv, Shapes
<1>. QED
  BY <1>1, <1>2, <1>3, <1>5, <1>6, ShareTapFinds, QuietFrame DEF ui

LEMMA StopShareOK ==
    ASSUME IInv, NEW d \in Device, StopShare(d)
    PROVE  IInv'
<1>. USE DEF StopShare
<1>. DEFINE n     == screen[d].note
            new   == DropAllCalls(d, n) \cup {Plain(d, "load", n, Len(isEdit[d]))}
            batch == {NoteWrite("people", n, Account[d], {}, {})}
<1>1. /\ isEdit'[d] = isEdit[d] /\ offered' = offered /\ n \in Note /\ Owner[n] = Account[d]
      /\ isEdit[d] \in Seq(Mode) /\ Len(isEdit[d]) \in Nat
  BY ShareTapFinds DEF ui
<1>2. HistoryOK'
  BY <1>1 DEF IInv, HistoryOK, Unwant
<1>3. new \in SUBSET GoodCalls(d)'
  <2>1. Plain(d, "load", n, Len(isEdit[d])) \in GoodCalls(d)
    BY <1>1, PlainGood
  <2>2. DropAllCalls(d, n) \in SUBSET GoodCalls(d)
    BY <1>1, DropAllGood
  <2>. QED
    BY <1>1, <2>1, <2>2, Keeps
<1>4. calls'[d] \in SUBSET GoodCalls(d)' /\ calls' = [calls EXCEPT ![d] = calls'[d]]
  BY <1>1, <1>3, StartGood
<1>5. batch \in SUBSET GoodWrites(d)' /\ queue[d] \in Seq(SUBSET GoodWrites(d)')
  <2>. HIDE DEF StopShare
  <2>1. "people" \in Kinds \ {"user"} /\ MaySave(n, Account[d])
    BY <1>1 DEF Kinds, MaySave
  <2>2. batch \in SUBSET GoodWrites(d)
    BY <1>1, <2>1, EmptyWriteGood
  <2>. HIDE DEF batch
  <2>3. Len(isEdit[d]) <= Len(isEdit'[d])
    BY <1>1
  <2>4. GoodWrites(d) \subseteq GoodWrites(d)' /\ queue[d] \in Seq(SUBSET GoodWrites(d)')
    BY <1>1, <2>3, Rest
  <2>. QED
    BY <2>2, <2>4
<1>6. queue'[d] \in Seq(SUBSET GoodWrites(d)') /\ queue' = [queue EXCEPT ![d] = queue'[d]]
  BY <1>5, EnqueueGood DEF IInv, Shapes
<1>7. Local(d) /\ UNCHANGED server
  BY <1>4, <1>6, ShareTapFinds DEF Local, ui, IInv, Shapes
<1>. QED
  BY <1>1, <1>2, <1>4, <1>6, <1>7, ShareTapFinds, QuietFrame DEF ui

LEMMA DeleteRowOK ==
    ASSUME IInv, NEW d \in Device, NEW p \in people[d], DeleteRow(d, p)
    PROVE  IInv'
<1>. USE DEF DeleteRow
<1>. DEFINE n   == screen[d].note
            new == {NewCall(op, n, p.user, p.mode, Len(isEdit[d])) : op \in {"dropNote", "dropUser"}}
<1>1. /\ isEdit'[d] = isEdit[d] /\ offered' = offered /\ n \in Note /\ Owner[n] = Account[d]
      /\ isEdit[d] \in Seq(Mode) /\ Len(isEdit[d]) \in Nat
  BY ShareTapFinds DEF ui
<1>2. HistoryOK'
  BY <1>1 DEF IInv, HistoryOK
<1>3. p \in Person
  BY DEF IInv, Shapes
<1>4. new \in SUBSET GoodCalls(d)'
  BY <1>1, <1>3 DEF NewCall, GoodCalls, ScreenKnown, Call, Ops, Person
<1>5. calls'[d] \in SUBSET GoodCalls(d)' /\ calls' = [calls EXCEPT ![d] = calls'[d]]
  BY <1>1, <1>4, StartGood
<1>6. Local(d) /\ UNCHANGED server
  BY <1>5, ShareTapFinds DEF Local, ui, IInv, Shapes
<1>. QED
  BY <1>1, <1>2, <1>5, <1>6, ShareTapFinds, QuietFrame DEF ui

LEMMA ChangeModeOK ==
    ASSUME IInv, NEW d \in Device, NEW p \in people[d], ChangeMode(d, p)
    PROVE  IInv'
<1>. USE DEF ChangeMode
<1>. DEFINE n   == screen[d].note
            o   == [note |-> n, user |-> p.user, mode |-> Other(p.mode)]
            new == {NewCall(op, n, p.user, o.mode, Len(isEdit[d])) : op \in {"modeNote", "modeUser"}}
<1>1. /\ isEdit'[d] = isEdit[d] /\ n \in Note /\ Owner[n] = Account[d]
      /\ isEdit[d] \in Seq(Mode) /\ Len(isEdit[d]) \in Nat
  BY ShareTapFinds DEF ui
<1>2. p \in Person /\ Other(p.mode) \in Mode
  BY DEF IInv, Shapes, Other, Mode
<1>3. p.user # Owner[n]
  <2>1. \A q \in offered : q.user # Owner[q.note]
    BY DEF IInv, HistoryOK
  <2>2. \E q \in offered : q.user = p.user /\ Owner[q.note] = Account[d]
    BY DEF IInv, DeviceOK, GoodPeople
  <2>. QED
    BY <1>1, <2>1, <2>2
<1>4. offered' = offered \cup {o} /\ o \in Offer /\ o.user # Owner[o.note]
  BY <1>1, <1>2, <1>3 DEF Offer, Person
<1>5. HistoryOK'
  BY <1>1, <1>4 DEF IInv, HistoryOK
<1>6. new \in SUBSET GoodCalls(d)'
  BY <1>1, <1>2, <1>4 DEF NewCall, GoodCalls, ScreenKnown, Call, Ops, Person
<1>7. calls'[d] \in SUBSET GoodCalls(d)' /\ calls' = [calls EXCEPT ![d] = calls'[d]]
  BY <1>1, <1>4, <1>6, StartGood
<1>8. Local(d) /\ UNCHANGED server
  BY <1>7, ShareTapFinds DEF Local, ui, IInv, Shapes
<1>. QED
  BY <1>1, <1>4, <1>5, <1>7, <1>8, ShareTapFinds, QuietFrame DEF ui

LEMMA SwipeDeleteOK ==
    ASSUME IInv, NEW d \in Device, NEW n \in Note, SwipeDelete(d, n)
    PROVE  IInv'
<1>. USE DEF SwipeDelete, IsOwn
<1>. DEFINE batch == {NoteWrite("delete", n, Account[d], {}, {})}
<1>1. /\ isEdit'[d] = isEdit[d] /\ offered' = offered /\ Owner[n] = Account[d]
      /\ isEdit[d] \in Seq(Mode) /\ Len(isEdit[d]) \in Nat
  BY LenProperties DEF ui, IInv, DeviceOK
<1>2. HistoryOK'
  BY <1>1 DEF IInv, HistoryOK, Unwant
<1>3. DropAllCalls(d, n) \in SUBSET GoodCalls(d)'
  BY <1>1, DropAllGood, Keeps
<1>4. calls'[d] \in SUBSET GoodCalls(d)' /\ calls' = [calls EXCEPT ![d] = calls'[d]]
  BY <1>1, <1>3, StartGood
<1>5. batch \in SUBSET GoodWrites(d)' /\ queue[d] \in Seq(SUBSET GoodWrites(d)')
  <2>. HIDE DEF SwipeDelete
  <2>1. "delete" \in Kinds \ {"user"} /\ MaySave(n, Account[d])
    BY <1>1 DEF Kinds, MaySave
  <2>2. batch \in SUBSET GoodWrites(d)
    BY <1>1, <2>1, EmptyWriteGood
  <2>. HIDE DEF batch
  <2>3. Len(isEdit[d]) <= Len(isEdit'[d])
    BY <1>1
  <2>4. GoodWrites(d) \subseteq GoodWrites(d)' /\ queue[d] \in Seq(SUBSET GoodWrites(d)')
    BY <1>1, <2>3, Rest
  <2>. QED
    BY <2>2, <2>4
<1>6. queue'[d] \in Seq(SUBSET GoodWrites(d)') /\ queue' = [queue EXCEPT ![d] = queue'[d]]
  BY <1>5, EnqueueGood DEF IInv, Shapes
<1>7. Local(d) /\ UNCHANGED server
  BY <1>4, <1>6, TapGood DEF Local, ui, IInv, Shapes
<1>. QED
  BY <1>1, <1>2, <1>4, <1>6, <1>7, TapGood, QuietFrame DEF ui

-----------------------------------------------------------------------------
(* Restarts, and the actions of the shared screens *)

\* After a restart d knows nothing, and its queue only lost its callbacks.
LEMMA RestartGood ==
    ASSUME IInv, NEW d \in Device, Restart(d), taps'[d] \in 0 .. MaxTaps[d]
    PROVE  /\ DeviceOK(d)' /\ ServerOK'
           /\ offered' = offered /\ wanted' = wanted
           /\ screen' = [screen EXCEPT ![d] = screen'[d]]
           /\ isEdit' = [isEdit EXCEPT ![d] = isEdit'[d]]
           /\ people' = [people EXCEPT ![d] = people'[d]]
           /\ rows' = [rows EXCEPT ![d] = rows'[d]]
           /\ calls' = [calls EXCEPT ![d] = calls'[d]]
           /\ queue' = [queue EXCEPT ![d] = queue'[d]]
<1>. DEFINE bare(w) == [w EXCEPT !.then = {}]
            q       == Forgotten(queue[d])
<1>1. Shapes /\ queue[d] \in Seq(SUBSET GoodWrites(d)) /\ ServerOK
  BY DEF IInv, DeviceOK
<1>2. /\ screen'[d] = Home /\ isEdit'[d] = <<>> /\ people'[d] = {} /\ rows'[d] = {}
      /\ calls'[d] = {} /\ queue'[d] = q
  BY <1>1 DEF Restart, Go, Shapes
<1>3. offered' = offered /\ wanted' = wanted /\ UNCHANGED server
  BY DEF Restart, history
<1>4. \A w \in GoodWrites(d) : bare(w) \in GoodWrites(d)'
  BY <1>3 DEF GoodWrites, GoodEntries, GoodPeople, MaySave, Write
<1>5. \A i \in DOMAIN queue[d] : q[i] \in SUBSET GoodWrites(d)'
  BY <1>4, QueueElement DEF Forgotten
<1>6. q \in Seq(SUBSET GoodWrites(d)')
  <2>1. DOMAIN queue[d] = 1 .. Len(queue[d]) /\ Len(queue[d]) \in Nat
    BY <1>1, LenProperties
  <2>2. q \in [1 .. Len(queue[d]) -> SUBSET GoodWrites(d)']
    BY <1>5, <2>1 DEF Forgotten
  <2>. QED
    BY <2>1, <2>2, SeqDef
<1>7. ServerOK'
  BY <1>1, <1>3 DEF ServerOK, server, GoodEntries, GoodPeople, MaySave
<1>8. DeviceOK(d)'
  <2>1. isEdit'[d] \in Seq(Mode)
    BY <1>2, EmptySeq
  <2>2. screen'[d] \in GoodScreens(d)' /\ people'[d] \in GoodPeople(Account[d])'
    BY <1>2 DEF GoodScreens, Home, Screen, Editors, Shares, GoodPeople, OnePerson
  <2>. QED
    BY <1>2, <1>6, <2>1, <2>2 DEF DeviceOK
<1>9. /\ screen' = [screen EXCEPT ![d] = screen'[d]]
      /\ isEdit' = [isEdit EXCEPT ![d] = isEdit'[d]]
      /\ people' = [people EXCEPT ![d] = people'[d]]
      /\ rows' = [rows EXCEPT ![d] = rows'[d]]
      /\ calls' = [calls EXCEPT ![d] = calls'[d]]
      /\ queue' = [queue EXCEPT ![d] = queue'[d]]
  BY <1>1 DEF Restart, Go, Shapes
<1>. QED
  BY <1>3, <1>7, <1>8, <1>9

LEMMA CrashOK ==
    ASSUME IInv, NEW d \in Device, Crash(d)
    PROVE  IInv'
<1>1. taps'[d] \in 0 .. MaxTaps[d] /\ taps' = [taps EXCEPT ![d] = taps'[d]]
  BY DEF Crash, IInv, DeviceOK, Shapes
<1>2. crashes' \in 0 .. MaxCrashes
  BY BoundAssumption DEF Crash, IInv, HistoryOK
<1>3. Restart(d)
  BY DEF Crash
<1>4. Local(d) /\ DeviceOK(d)' /\ ServerOK' /\ offered \subseteq offered'
  BY <1>1, <1>3, RestartGood DEF Local
<1>5. HistoryOK'
  BY <1>1, <1>2, <1>3, RestartGood DEF IInv, HistoryOK
<1>. QED
  BY <1>4, <1>5, Frame

LEMMA LoadSharedNotesOK ==
    ASSUME IInv, NEW d \in Device, LoadSharedNotes(d)
    PROVE  IInv'
<1>1. PICK es \in UserSeen(d, Account[d]) :
         /\ Tap(d)
         /\ \/ /\ rows' = [rows EXCEPT ![d] =
                     UNION {{[note |-> e.note, mode |-> e.mode, people |-> ps] :
                             ps \in PeopleSeen(d, e.note)} : e \in es}]
               /\ UNCHANGED <<server, screen, isEdit, people, calls, queue, history>>
            \/ Restart(d)
         /\ UNCHANGED crashes
  BY DEF LoadSharedNotes
<1>2. CASE Restart(d)
  <2>1. Local(d) /\ DeviceOK(d)' /\ ServerOK' /\ offered \subseteq offered'
    BY <1>1, <1>2, TapGood, RestartGood DEF Local
  <2>2. HistoryOK'
    BY <1>1, <1>2, TapGood, RestartGood DEF IInv, HistoryOK
  <2>. QED
    BY <2>1, <2>2, Frame
<1>3. CASE ~Restart(d)
  <2>. DEFINE new == UNION {{[note |-> e.note, mode |-> e.mode, people |-> ps] :
                             ps \in PeopleSeen(d, e.note)} : e \in es}
  <2>1. /\ rows' = [rows EXCEPT ![d] = new] /\ UNCHANGED <<server, screen, isEdit, people, calls, queue, history>>
        /\ UNCHANGED crashes /\ Tap(d)
    BY <1>1, <1>3
  <2>2. offered' = offered /\ HistoryOK'
    BY <2>1 DEF IInv, HistoryOK, history
  <2>3. Account[d] \in User /\ es \in GoodEntries(Account[d])
    BY UserSeenGood, AccountAssumption
  <2>4. ASSUME NEW e \in es, NEW ps \in PeopleSeen(d, e.note)
        PROVE  [note |-> e.note, mode |-> e.mode, people |-> ps] \in GoodRows(d)'
    <3>1. e \in Entry /\ [note |-> e.note, user |-> Account[d], mode |-> e.mode] \in offered
      BY <2>3 DEF GoodEntries
    <3>2. e.note \in Note /\ e.mode \in Mode /\ (e.mode = "edit" => MaySave(e.note, Account[d]))
      BY <3>1 DEF Entry, MaySave
    <3>3. ps \in GoodPeople(Owner[e.note])
      BY <3>2, PeopleSeenGood
    <3>. QED
      BY <2>2, <3>2, <3>3 DEF GoodRows, Row, MaySave, GoodPeople
  <2>5. rows'[d] \in SUBSET GoodRows(d)'
    BY <2>1, <2>4 DEF IInv, Shapes
  <2>6. Local(d) /\ UNCHANGED server /\ isEdit'[d] = isEdit[d]
    BY <2>1, TapGood DEF Local, IInv, Shapes
  <2>. QED
    BY <2>1, <2>2, <2>5, <2>6, TapGood, QuietFrame
<1>. QED
  BY <1>2, <1>3

LEMMA OpenSharedOK ==
    ASSUME IInv, NEW d \in Device, NEW r \in rows[d], OpenShared(d, r)
    PROVE  IInv'
<1>. USE DEF OpenShared
<1>1. Local(d) /\ UNCHANGED server /\ offered' = offered /\ isEdit'[d] = isEdit[d]
  BY TapGood DEF Local, Go, IInv, Shapes, history
<1>2. HistoryOK'
  BY DEF IInv, HistoryOK, history
<1>3. r \in GoodRows(d)
  BY DEF IInv, DeviceOK
<1>4. screen'[d] = [at |-> "shared", note |-> r.note, mode |-> r.mode, people |-> r.people]
  BY DEF Go, IInv, Shapes
<1>5. screen'[d] \in GoodScreens(d)'
  BY <1>1, <1>3, <1>4 DEF GoodRows, Row, GoodScreens, Screen, SharedScreen, Editors, Shares, GoodPeople, MaySave
<1>. QED
  BY <1>1, <1>2, <1>5, TapGood, QuietFrame

LEMMA CloseSharedOK ==
    ASSUME IInv, NEW d \in Device, CloseShared(d)
    PROVE  IInv'
<1>. USE DEF CloseShared, MayWrite, ListToSave
<1>. DEFINE s == screen[d]
            w == NoteWrite("save", s.note, Account[d], s.people, {})
<1>1. /\ isEdit'[d] = isEdit[d] /\ offered' = offered /\ Tap(d)
      /\ isEdit'[d] \in Seq(Mode) /\ Len(isEdit[d]) \in Nat /\ Len(isEdit[d]) <= Len(isEdit'[d])
  <2>1. isEdit[d] \in Seq(Mode)
    BY DEF IInv, DeviceOK
  <2>2. Len(isEdit[d]) \in Nat
    BY <2>1, LenProperties
  <2>. QED
    BY <2>1, <2>2 DEF history
<1>2. HistoryOK'
  BY DEF IInv, HistoryOK, history
<1>3. screen'[d] \in GoodScreens(d)'
  BY <1>1, HomeIsGood, Keeps DEF Go, IInv, Shapes
<1>4. people'[d] \in GoodPeople(Account[d])' /\ people' = [people EXCEPT ![d] = people'[d]]
  <2>1. people[d] \in GoodPeople(Account[d])'
    BY <1>1, Rest
  <2>2. {} \in GoodPeople(Account[d])'
    BY DEF GoodPeople, OnePerson
  <2>. QED
    BY <2>1, <2>2 DEF IInv, Shapes
<1>5. queue'[d] \in Seq(SUBSET GoodWrites(d)') /\ queue' = [queue EXCEPT ![d] = queue'[d]]
  <2>1. /\ queue[d] \in Seq(SUBSET GoodWrites(d)') /\ GoodWrites(d) \subseteq GoodWrites(d)'
        /\ queue \in [Device -> Seq(SUBSET Write)]
    BY <1>1, Rest DEF IInv, Shapes
  <2>2. CASE s.mode = "edit"
    <3>1. s.note \in Note /\ MaySave(s.note, Account[d]) /\ s.people \in GoodPeople(Owner[s.note])
      BY <2>2, ScreenNote DEF At, IInv, Shapes, DeviceOK, GoodScreens
    <3>2. w \in GoodWrites(d)
      BY <3>1, NoteWriteGood DEF Kinds
    <3>3. Enqueue(d, {w})
      BY <2>2
    <3>. HIDE DEF w, CloseShared
    <3>4. {w} \in SUBSET GoodWrites(d)'
      BY <2>1, <3>2
    <3>. QED
      BY <2>1, <3>3, <3>4, EnqueueGood
  <2>3. CASE s.mode # "edit"
    BY <2>1, <2>3
  <2>. QED
    BY <2>2, <2>3
<1>6. Local(d) /\ UNCHANGED server
  BY <1>4, <1>5, TapGood DEF Local, Go, IInv, Shapes
<1>. QED
  BY <1>1, <1>2, <1>3, <1>4, <1>5, <1>6, TapGood, QuietFrame

LEMMA LeaveSharedOK ==
    ASSUME IInv, NEW d \in Device, NEW r \in rows[d], LeaveShared(d, r)
    PROVE  IInv'
<1>. USE DEF LeaveShared
<1>. DEFINE c == NewCall("dropNote", r.note, Account[d], r.mode, 0)
<1>1. /\ isEdit'[d] = isEdit[d] /\ offered' = offered
      /\ isEdit[d] \in Seq(Mode) /\ Len(isEdit[d]) \in Nat /\ r \in Row /\ Account[d] \in User
  BY LenProperties, AccountAssumption DEF IInv, DeviceOK, Shapes, ui
<1>2. HistoryOK'
  BY DEF IInv, HistoryOK
<1>3. {c} \in SUBSET GoodCalls(d)'
  BY <1>1 DEF NewCall, GoodCalls, ScreenKnown, Call, Ops, Row
<1>4. calls'[d] \in SUBSET GoodCalls(d)' /\ calls' = [calls EXCEPT ![d] = calls'[d]]
  BY <1>1, <1>3, StartGood
<1>5. Local(d) /\ UNCHANGED server
  BY <1>4, TapGood DEF Local, ui, IInv, Shapes
<1>. QED
  BY <1>1, <1>2, <1>4, <1>5, TapGood, QuietFrame DEF ui

-----------------------------------------------------------------------------
(* The callbacks *)

\* A callback preserves the invariant if what it queues and caches is good.
LEMMA ReadFrame ==
    ASSUME IInv, NEW d \in Device, NEW c \in calls[d], Finish(d, c),
           UNCHANGED <<server, screen, isEdit, rows, history, taps, crashes>>,
           \/ UNCHANGED people
           \/ \E ps \in GoodPeople(Account[d]) : people' = [people EXCEPT ![d] = ps],
           \/ UNCHANGED queue
           \/ \E batch \in SUBSET GoodWrites(d) : Enqueue(d, batch)
    PROVE  IInv'
<1>1. isEdit'[d] = isEdit[d] /\ offered' = offered /\ isEdit[d] \in Seq(Mode)
  BY DEF history, IInv, DeviceOK
<1>2. isEdit'[d] \in Seq(Mode) /\ Len(isEdit[d]) <= Len(isEdit'[d])
  BY <1>1, LenProperties
<1>3. HistoryOK'
  BY DEF history, IInv, HistoryOK
<1>4. /\ GoodPeople(Account[d]) \subseteq GoodPeople(Account[d])'
      /\ GoodWrites(d) \subseteq GoodWrites(d)'
      /\ queue[d] \in Seq(SUBSET GoodWrites(d)')
      /\ calls[d] \in SUBSET GoodCalls(d)'
      /\ people[d] \in GoodPeople(Account[d])'
  BY <1>1, <1>2, Rest
<1>5. Shapes
  BY DEF IInv
<1>6. people'[d] \in GoodPeople(Account[d])' /\ people' = [people EXCEPT ![d] = people'[d]]
  BY <1>4, <1>5 DEF Shapes
<1>7. queue'[d] \in Seq(SUBSET GoodWrites(d)') /\ queue' = [queue EXCEPT ![d] = queue'[d]]
  <2>1. CASE UNCHANGED queue
    BY <1>4, <1>5, <2>1 DEF Shapes
  <2>2. ASSUME NEW batch \in SUBSET GoodWrites(d), Enqueue(d, batch)
        PROVE  <1>7!1 /\ <1>7!2
    <3>1. batch \in SUBSET GoodWrites(d)' /\ queue \in [Device -> Seq(SUBSET Write)]
      BY <1>4, <1>5 DEF Shapes
    <3>. QED
      BY <1>4, <2>2, <3>1, EnqueueGood
  <2>. QED
    BY <2>1, <2>2
<1>8. calls'[d] \in SUBSET GoodCalls(d)' /\ calls' = [calls EXCEPT ![d] = calls'[d]]
  BY <1>4, <1>5 DEF Finish, Shapes
<1>9. Local(d)
  BY <1>5, <1>6, <1>7, <1>8 DEF Local, Shapes
<1>. QED
  BY <1>1, <1>3, <1>6, <1>7, <1>8, <1>9, QuietFrame

LEMMA CallIsGood ==
    ASSUME IInv, NEW d \in Device, NEW c \in calls[d]
    PROVE  c \in GoodCalls(d) /\ c \in Call
BY DEF IInv, DeviceOK, GoodCalls

LEMMA ShareNoteReadOK ==
    ASSUME IInv, NEW d \in Device, NEW c \in calls[d], ShareNoteRead(d, c), UNCHANGED <<taps, crashes>>
    PROVE  IInv'
<1>1. PICK es \in UserSeen(d, c.user) :
         LET new == IF OfNote(es, c.note) = {}
                    THEN es \cup {[note |-> c.note, mode |-> c.mode]} ELSE es
         IN  Enqueue(d, {UserWrite(c.note, c.user, new, {[c EXCEPT !.op = "shareUser"]})})
  BY DEF ShareNoteRead
<1>. DEFINE new == IF OfNote(es, c.note) = {}
                   THEN es \cup {[note |-> c.note, mode |-> c.mode]} ELSE es
            k == [c EXCEPT !.op = "shareUser"]
<1>2. /\ c \in GoodCalls(d) /\ c.note \in Note /\ c.user \in User /\ c.mode \in Mode /\ c \in Call
      /\ [note |-> c.note, user |-> c.user, mode |-> c.mode] \in offered
  BY CallIsGood DEF Call, ShareNoteRead, GoodCalls
<1>3. es \in GoodEntries(c.user)
  BY <1>2, UserSeenGood
<1>4. new \in GoodEntries(c.user)
  BY <1>2, <1>3 DEF GoodEntries, OneEntry, OfNote, Entry
<1>5. k \in GoodCalls(d)
  BY <1>2 DEF GoodCalls, Call, Ops, ScreenKnown, Named, ShareNoteRead
<1>6. UserWrite(c.note, c.user, new, {k}) \in GoodWrites(d)
  BY <1>2, <1>4, <1>5, UserWriteGood
<1>7. Enqueue(d, {UserWrite(c.note, c.user, new, {k})})
  BY <1>1
<1>8. UNCHANGED people /\ UNCHANGED <<server, screen, isEdit, rows, history>> /\ Finish(d, c)
  BY DEF ShareNoteRead, ui
<1>. HIDE DEF new, k
<1>. QED
  BY <1>6, <1>7, <1>8, ReadFrame

LEMMA DropNoteReadOK ==
    ASSUME IInv, NEW d \in Device, NEW c \in calls[d], DropNoteRead(d, c), UNCHANGED <<taps, crashes>>
    PROVE  IInv'
<1>1. PICK es \in UserSeen(d, c.user) :
         Enqueue(d, {UserWrite(c.note, c.user, es \ {[note |-> c.note, mode |-> c.mode]}, {})})
  BY DEF DropNoteRead
<1>. DEFINE new == es \ {[note |-> c.note, mode |-> c.mode]}
<1>2. c.note \in Note /\ c.user \in User
  BY CallIsGood DEF Call
<1>3. new \in GoodEntries(c.user)
  BY <1>2, UserSeenGood DEF GoodEntries, OneEntry
<1>4. UserWrite(c.note, c.user, new, {}) \in GoodWrites(d)
  BY <1>2, <1>3, UserWriteGood
<1>5. UNCHANGED people /\ UNCHANGED <<server, screen, isEdit, rows, history>> /\ Finish(d, c)
  BY DEF DropNoteRead, ui
<1>6. Enqueue(d, {UserWrite(c.note, c.user, new, {})})
  BY <1>1
<1>. HIDE DEF new
<1>. QED
  BY <1>4, <1>5, <1>6, ReadFrame

LEMMA ModeNoteReadOK ==
    ASSUME IInv, NEW d \in Device, NEW c \in calls[d], ModeNoteRead(d, c), UNCHANGED <<taps, crashes>>
    PROVE  IInv'
<1>1. PICK es \in UserSeen(d, c.user) :
         LET new == IF OfNote(es, c.note) = {} THEN es
                    ELSE (es \ OfNote(es, c.note)) \cup {[note |-> c.note, mode |-> c.mode]}
         IN  Enqueue(d, {UserWrite(c.note, c.user, new, {})})
  BY DEF ModeNoteRead
<1>. DEFINE new == IF OfNote(es, c.note) = {} THEN es
                   ELSE (es \ OfNote(es, c.note)) \cup {[note |-> c.note, mode |-> c.mode]}
<1>2. /\ c.note \in Note /\ c.user \in User /\ c.mode \in Mode
      /\ [note |-> c.note, user |-> c.user, mode |-> c.mode] \in offered
  BY CallIsGood DEF Call, ModeNoteRead, GoodCalls
<1>3. es \in GoodEntries(c.user)
  BY <1>2, UserSeenGood
<1>4. new \in GoodEntries(c.user)
  BY <1>2, <1>3 DEF GoodEntries, OneEntry, OfNote, Entry
<1>5. UserWrite(c.note, c.user, new, {}) \in GoodWrites(d)
  BY <1>2, <1>4, UserWriteGood
<1>6. UNCHANGED people /\ UNCHANGED <<server, screen, isEdit, rows, history>> /\ Finish(d, c)
  BY DEF ModeNoteRead, ui
<1>7. Enqueue(d, {UserWrite(c.note, c.user, new, {})})
  BY <1>1
<1>. HIDE DEF new
<1>. QED
  BY <1>5, <1>6, <1>7, ReadFrame

LEMMA DropAllReadOK ==
    ASSUME IInv, NEW d \in Device, NEW c \in calls[d], DropAllRead(d, c), UNCHANGED <<taps, crashes>>
    PROVE  IInv'
<1>. DEFINE batch ==
        UNION {{UserWrite(c.note, u, es \ OfNote(es, c.note), {}) :
                es \in {es \in UserSeen(d, u) : [note |-> c.note, mode |-> c.mode] \in es}} : u \in User}
<1>1. c.note \in Note
  BY CallIsGood DEF Call
<1>2. ASSUME NEW u \in User, NEW es \in UserSeen(d, u)
      PROVE  UserWrite(c.note, u, es \ OfNote(es, c.note), {}) \in GoodWrites(d)
  <2>1. es \ OfNote(es, c.note) \in GoodEntries(u)
    BY UserSeenGood DEF GoodEntries, OneEntry
  <2>. QED
    BY <1>1, <2>1, UserWriteGood
<1>3. batch \in SUBSET GoodWrites(d)
  <2>1. SUFFICES ASSUME NEW w \in batch PROVE w \in GoodWrites(d)
    OBVIOUS
  <2>2. PICK u \in User : w \in {UserWrite(c.note, u, es \ OfNote(es, c.note), {}) :
            es \in {es \in UserSeen(d, u) : [note |-> c.note, mode |-> c.mode] \in es}}
    OBVIOUS
  <2>3. PICK es \in UserSeen(d, u) : w = UserWrite(c.note, u, es \ OfNote(es, c.note), {})
    BY <2>2
  <2>. QED
    BY <1>2, <2>3
<1>4. Enqueue(d, batch) /\ UNCHANGED people /\ UNCHANGED <<server, screen, isEdit, rows, history>> /\ Finish(d, c)
  BY DEF DropAllRead, ui
<1>. HIDE DEF batch
<1>. QED
  BY <1>3, <1>4, ReadFrame

\* A whole-list write of an owner's note is good if the list is.
LEMMA PeopleWriteOK ==
    ASSUME IInv, NEW d \in Device, NEW c \in calls[d], c.op # "dropNote",
           NEW ps \in GoodPeople(Owner[c.note]), PeopleWrite(d, c, ps)
    PROVE  \E batch \in SUBSET GoodWrites(d) : Enqueue(d, batch)
<1>1. c \in GoodCalls(d) /\ c.note \in Note /\ c.vc \in Nat
  BY CallIsGood DEF Call
<1>2. Owner[c.note] = Account[d] /\ c.vc <= Len(isEdit[d])
  BY <1>1 DEF GoodCalls, ScreenKnown
<1>3. Reload(d, c) \in GoodCalls(d)
  BY <1>1, <1>2, PlainGood DEF Reload
<1>4. MaySave(c.note, Account[d]) /\ "people" \in Kinds \ {"user"}
  BY <1>2 DEF MaySave, Kinds
<1>5. NoteWrite("people", c.note, Account[d], ps, {Reload(d, c)}) \in GoodWrites(d)
  BY <1>1, <1>3, <1>4, NoteWriteGood
<1>. QED
  BY <1>5 DEF PeopleWrite

LEMMA NoteReadOK ==
    ASSUME IInv, NEW d \in Device, NEW c \in calls[d], NoteRead(d, c), UNCHANGED <<taps, crashes>>
    PROVE  IInv'
<1>1. PICK ps \in PeopleSeen(d, c.note) : \/ ShareUserRead(d, c, ps)
                                          \/ DropUserRead(d, c, ps)
                                          \/ ModeUserRead(d, c, ps)
                                          \/ FillCache(d, c, ps)
  BY DEF NoteRead
<1>2. UNCHANGED <<server, screen, isEdit, rows, history>> /\ Finish(d, c)
  BY DEF NoteRead
<1>3. /\ c \in GoodCalls(d) /\ c.note \in Note /\ c.user \in User /\ c.mode \in Mode
  BY CallIsGood DEF Call
<1>4. ps \in GoodPeople(Owner[c.note])
  BY <1>3, PeopleSeenGood
<1>. DEFINE p == [user |-> c.user, mode |-> c.mode]
<1>5. p \in Person
  BY <1>3 DEF Person
<1>6. CASE ShareUserRead(d, c, ps)
  <2>1. CASE OfUser(ps, c.user) = {}
    <3>1. \E o \in offered : o.user = p.user /\ Owner[o.note] = Owner[c.note]
      BY <1>3, <1>6 DEF ShareUserRead, GoodCalls, Named
    <3>2. ps \cup {p} \in GoodPeople(Owner[c.note])
      BY <1>4, <1>5, <2>1, <3>1 DEF GoodPeople, OnePerson, OfUser
    <3>3. PeopleWrite(d, c, ps \cup {p}) /\ UNCHANGED people /\ c.op # "dropNote"
      BY <1>6, <2>1 DEF ShareUserRead
    <3>4. \E batch \in SUBSET GoodWrites(d) : Enqueue(d, batch)
      BY <3>2, <3>3, PeopleWriteOK
    <3>. QED
      BY <1>2, <3>3, <3>4, ReadFrame
  <2>2. CASE OfUser(ps, c.user) # {}
    BY <1>2, <1>6, <2>2, ReadFrame DEF ShareUserRead
  <2>. QED
    BY <2>1, <2>2
<1>7. CASE DropUserRead(d, c, ps)
  <2>1. ps \ {p} \in GoodPeople(Owner[c.note])
    BY <1>4 DEF GoodPeople, OnePerson
  <2>2. PeopleWrite(d, c, ps \ {p}) /\ UNCHANGED people /\ c.op # "dropNote"
    BY <1>7 DEF DropUserRead
  <2>3. \E batch \in SUBSET GoodWrites(d) : Enqueue(d, batch)
    BY <2>1, <2>2, PeopleWriteOK
  <2>. QED
    BY <1>2, <2>2, <2>3, ReadFrame
<1>8. CASE ModeUserRead(d, c, ps)
  <2>. DEFINE new == IF OfUser(ps, c.user) = {} THEN ps
                     ELSE (ps \ OfUser(ps, c.user)) \cup {p}
  <2>1. new \in GoodPeople(Owner[c.note])
    <3>1. CASE OfUser(ps, c.user) = {}
      BY <1>4, <3>1
    <3>2. CASE OfUser(ps, c.user) # {}
      <4>1. \E o \in offered : o.user = p.user /\ Owner[o.note] = Owner[c.note]
        BY <1>4, <3>2 DEF GoodPeople, OfUser
      <4>. QED
        BY <1>4, <1>5, <3>2, <4>1 DEF GoodPeople, OnePerson, OfUser
    <3>. QED
      BY <3>1, <3>2
  <2>2. PeopleWrite(d, c, new) /\ UNCHANGED people /\ c.op # "dropNote"
    BY <1>8 DEF ModeUserRead
  <2>. HIDE DEF new
  <2>3. \E batch \in SUBSET GoodWrites(d) : Enqueue(d, batch)
    BY <2>1, <2>2, PeopleWriteOK
  <2>. QED
    BY <1>2, <2>2, <2>3, ReadFrame
<1>9. CASE FillCache(d, c, ps)
  <2>1. Owner[c.note] = Account[d]
    BY <1>3, <1>9 DEF FillCache, GoodCalls
  <2>2. UNCHANGED queue /\ \E q \in GoodPeople(Account[d]) : people' = [people EXCEPT ![d] = q]
    BY <1>4, <1>9, <2>1 DEF FillCache
  <2>. QED
    BY <1>2, <2>2, ReadFrame
<1>. QED
  BY <1>1, <1>6, <1>7, <1>8, <1>9

\* A callback that finds its note missing crashes the app, or does nothing.
LEMMA NoteMissingOK ==
    ASSUME IInv, NEW d \in Device, NEW c \in calls[d], NoteMissing(d, c), UNCHANGED <<taps, crashes>>
    PROVE  IInv'
<1>1. CASE c.op = "detail"
  <2>1. UNCHANGED <<server, screen, isEdit, rows, history, people, queue>> /\ Finish(d, c)
    BY <1>1 DEF NoteMissing, ui
  <2>. QED
    BY <2>1, ReadFrame
<1>2. CASE c.op # "detail"
  <2>1. Restart(d)
    BY <1>2 DEF NoteMissing
  <2>2. taps'[d] \in 0 .. MaxTaps[d] /\ taps' = [taps EXCEPT ![d] = taps'[d]]
    BY DEF IInv, DeviceOK, Shapes
  <2>3. Local(d) /\ DeviceOK(d)' /\ ServerOK' /\ offered \subseteq offered'
    BY <2>1, <2>2, RestartGood DEF Local
  <2>4. HistoryOK'
    BY <2>1, <2>2, RestartGood DEF IInv, HistoryOK
  <2>. QED
    BY <2>3, <2>4, Frame
<1>. QED
  BY <1>1, <1>2

-----------------------------------------------------------------------------
(* Commits *)

\* The second half of addPeopleBtn finds the isEdit it reads.
LEMMA ResumeGood ==
    ASSUME IInv, NEW d \in Device, NEW c \in GoodCalls(d)
    PROVE  Resume(d, c) \in GoodCalls(d)
<1>1. CASE c.op = "shareUser"
  <2>1. c \in Call /\ c.vc \in Nat /\ c.vc <= Len(isEdit[d]) /\ c.vc >= 1 /\ isEdit[d] \in Seq(Mode)
    BY <1>1 DEF GoodCalls, ScreenKnown, Call, IInv, DeviceOK
  <2>2. Len(isEdit[d]) \in Nat
    BY <2>1, LenProperties
  <2>3. isEdit[d][c.vc] \in Mode
    BY <2>1, <2>2, ElementOfSeq
  <2>. QED
    BY <1>1, <2>1, <2>3 DEF Resume, GoodCalls, ScreenKnown, Call, Named
<1>2. CASE c.op # "shareUser"
  BY <1>2 DEF Resume
<1>. QED
  BY <1>1, <1>2

\* Sending one write of the oldest batch leaves a good queue.
LEMMA CommitQueueGood ==
    ASSUME NEW S, NEW q \in Seq(SUBSET S), q # <<>>, NEW w
    PROVE  Sent(q, w) \in Seq(SUBSET S)
<1>1. Tail(q) \in Seq(SUBSET S)
  BY HeadTailProperties
<1>2. Len(q) \in Nat \ {0}
  BY EmptySeq
<1>3. 1 \in 1 .. Len(q)
  BY <1>2
<1>4. q[1] \in SUBSET S
  BY <1>3, ElementOfSeq
<1>5. q[1] \ {w} \in SUBSET S
  BY <1>4
<1>6. [q EXCEPT ![1] = q[1] \ {w}] \in Seq(SUBSET S)
  BY <1>3, <1>5, ExceptSeq
<1>. QED
  BY <1>1, <1>6 DEF Sent

LEMMA CommitOK ==
    ASSUME IInv, NEW d \in Device, Commit(d)
    PROVE  IInv'
<1>1. Shapes /\ DeviceOK(d) /\ ServerOK /\ queue[d] # <<>>
  BY DEF Commit, IInv
<1>2. PICK w \in Head(queue[d]) :
        /\ queue' = [queue EXCEPT ![d] = Sent(@, w)]
        /\ IF Applies(w)
           THEN /\ Start(d, {Resume(d, c) : c \in w.then})
                /\ IF w.kind = "user"
                   THEN sharedNotes' = [sharedNotes EXCEPT ![w.user] = w.entries] /\ UNCHANGED docs
                   ELSE docs' = [docs EXCEPT ![w.note] = Written(w)] /\ UNCHANGED sharedNotes
           ELSE UNCHANGED <<calls, server>>
  BY DEF Commit
<1>3. w \in GoodWrites(d)
  <2>1. Head(queue[d]) \in SUBSET GoodWrites(d)
    BY <1>1, HeadTailProperties DEF DeviceOK
  <2>. QED
    BY <2>1
<1>4. UNCHANGED <<screen, isEdit, people, rows, taps, crashes, history>>
  BY DEF Commit, ui
<1>5. isEdit'[d] \in Seq(Mode) /\ Len(isEdit[d]) <= Len(isEdit'[d]) /\ offered' = offered
  BY <1>1, <1>4, LenProperties DEF DeviceOK, history
<1>6. /\ GoodCalls(d) \subseteq GoodCalls(d)' /\ GoodWrites(d) \subseteq GoodWrites(d)'
      /\ \A u : GoodEntries(u) \subseteq GoodEntries(u)'
      /\ \A u : GoodPeople(u) \subseteq GoodPeople(u)'
      /\ \A n, u : MaySave(n, u) => MaySave(n, u)'
      /\ calls[d] \in SUBSET GoodCalls(d)'
      /\ UNCHANGED server => ServerOK'
  BY <1>5, Rest
<1>7. queue'[d] \in Seq(SUBSET GoodWrites(d)') /\ queue' = [queue EXCEPT ![d] = queue'[d]]
  <2>1. queue'[d] = Sent(queue[d], w)
    BY <1>1, <1>2 DEF Shapes
  <2>2. queue[d] \in Seq(SUBSET GoodWrites(d)')
    BY <1>5, Rest
  <2>3. queue'[d] \in Seq(SUBSET GoodWrites(d)')
    BY <1>1, <2>1, <2>2, CommitQueueGood
  <2>. QED
    BY <1>1, <1>2, <2>3 DEF Shapes
<1>8. calls'[d] \in SUBSET GoodCalls(d)' /\ calls' = [calls EXCEPT ![d] = calls'[d]]
  <2>1. CASE Applies(w)
    <3>1. {Resume(d, c) : c \in w.then} \in SUBSET GoodCalls(d)'
      BY <1>3, <1>6, ResumeGood DEF GoodWrites
    <3>. QED
      BY <1>2, <1>5, <2>1, <3>1, StartGood
  <2>2. CASE ~Applies(w)
    BY <1>1, <1>2, <1>6, <2>2 DEF Shapes
  <2>. QED
    BY <2>1, <2>2
<1>9. ServerOK'
  <2>1. CASE ~Applies(w)
    BY <1>2, <1>6, <2>1
  <2>2. CASE Applies(w) /\ w.kind = "user"
    <3>1. sharedNotes' = [sharedNotes EXCEPT ![w.user] = w.entries] /\ docs' = docs
      BY <1>2, <2>2
    <3>2. w.user \in User /\ w.entries \in GoodEntries(w.user) /\ w.entries \in SUBSET Entry
      BY <1>3, <2>2 DEF GoodWrites, Write
    <3>. QED
      BY <1>1, <1>6, <3>1, <3>2 DEF ServerOK
  <2>3. CASE Applies(w) /\ w.kind # "user"
    <3>1. docs' = [docs EXCEPT ![w.note] = Written(w)] /\ sharedNotes' = sharedNotes
      BY <1>2, <2>3
    <3>2. /\ w.note \in Note /\ w.user \in User /\ w.people \in GoodPeople(Owner[w.note])
          /\ w.people \in SUBSET Person /\ w.kind \in Kinds
          /\ w.kind \in {"save", "create"} => MaySave(w.note, w.user)
      BY <1>3 DEF GoodWrites, Write
    <3>3. docs[w.note] \in Doc /\ MaySave(w.note, docs[w.note].by)
      BY <1>1, <3>2 DEF ServerOK
    <3>4. Written(w) \in Doc
      BY <3>2, <3>3 DEF Written, Doc
    <3>5. Written(w).people \in GoodPeople(Owner[w.note])
      BY <3>2, <3>3, EmptyIsGood DEF Written, Doc
    <3>6. MaySave(w.note, Written(w).by)
      BY <2>3, <3>2, <3>3 DEF Written, Doc, Kinds
    <3>. QED
      BY <1>1, <1>6, <3>1, <3>2, <3>4, <3>5, <3>6 DEF ServerOK
  <2>. QED
    BY <2>1, <2>2, <2>3
<1>10. Local(d)
  BY <1>1, <1>4, <1>7, <1>8 DEF Local, Shapes
<1>11. DeviceOK(d)'
  BY <1>1, <1>4, <1>5, <1>7, <1>8, Rest DEF DeviceOK
<1>12. HistoryOK'
  BY <1>4 DEF IInv, HistoryOK, history
<1>. QED
  BY <1>5, <1>9, <1>10, <1>11, <1>12, Frame

-----------------------------------------------------------------------------
(* The invariant, and what it implies *)

LEMMA InitOK == Init => IInv
<1>. SUFFICES ASSUME Init PROVE IInv
  OBVIOUS
<1>. USE DEF Init
<1>1. offered = InitialOffers /\ offered \subseteq Offer /\ \A o \in offered : o.user # Owner[o.note]
  BY InitialAssumption
<1>2. HistoryOK
  BY <1>1, BoundAssumption DEF HistoryOK
<1>3. ASSUME NEW u \in User
      PROVE  sharedNotes[u] \in GoodEntries(u)
  <2>. DEFINE mine == {o \in InitialOffers : o.user = u}
              es   == {[note |-> o.note, mode |-> o.mode] : o \in mine}
  <2>1. sharedNotes[u] = es
    OBVIOUS
  <2>2. es \in SUBSET Entry /\ OneEntry(es)
    BY <1>1, InitialAssumption DEF Offer, Entry, OneEntry
  <2>3. \A e \in es : [note |-> e.note, user |-> u, mode |-> e.mode] \in offered
    BY <1>1 DEF Offer
  <2>. QED
    BY <2>1, <2>2, <2>3 DEF GoodEntries
<1>4. ASSUME NEW n \in Note
      PROVE  docs[n] \in Doc /\ docs[n].people \in GoodPeople(Owner[n]) /\ MaySave(n, docs[n].by)
  <2>. DEFINE its == {o \in InitialOffers : o.note = n}
              ps  == {[user |-> o.user, mode |-> o.mode] : o \in its}
  <2>1. docs[n] = [here |-> n \in InitialNotes, people |-> ps, by |-> Owner[n]]
    OBVIOUS
  <2>2. ps \in SUBSET Person /\ OnePerson(ps)
    BY <1>1, InitialAssumption DEF Offer, Person, OnePerson
  <2>3. \A p \in ps : \E o \in offered : o.user = p.user /\ Owner[o.note] = Owner[n]
    BY <1>1
  <2>4. Owner[n] \in User
    BY OwnerAssumption
  <2>5. docs[n] \in Doc
    BY <2>1, <2>2, <2>4 DEF Doc
  <2>. QED
    BY <2>1, <2>2, <2>3, <2>5 DEF GoodPeople, MaySave
<1>5. ServerOK
  BY <1>3, <1>4 DEF ServerOK, GoodEntries
<1>6. Shapes
  BY EmptySeq DEF Shapes, Screen
<1>7. ASSUME NEW d \in Device
      PROVE  DeviceOK(d)
  <2>1. screen[d] \in GoodScreens(d)
    BY HomeIsGood
  <2>2. isEdit[d] \in Seq(Mode) /\ queue[d] \in Seq(SUBSET GoodWrites(d))
    BY EmptySeq
  <2>3. taps[d] \in 0 .. MaxTaps[d]
    BY BoundAssumption
  <2>. QED
    BY <2>1, <2>2, <2>3, EmptyIsGood DEF DeviceOK
<1>. QED
  BY <1>2, <1>5, <1>6, <1>7 DEF IInv

LEMMA OwnerStepOK == ASSUME IInv, NEW d \in Device, OwnerStep(d) PROVE IInv'
<1>1. ASSUME NEW n \in Note, OpenDetail(d, n) \/ OpenCreate(d, n) \/ SwipeDelete(d, n)
      PROVE  IInv'
  BY <1>1, OpenDetailOK, OpenCreateOK, SwipeDeleteOK
<1>2. ASSUME NEW keep \in BOOLEAN, LeaveEditor(d, keep)
      PROVE  IInv'
  BY <1>2, LeaveEditorOK, Zenon
<1>3. CASE OpenShare(d, TRUE)
  BY <1>3, OpenShareOK, Zenon
<1>4. CASE FocusField(d) \/ BackToEditor(d) \/ ClickMode(d) \/ StopShare(d)
  BY <1>4, FocusFieldOK, BackToEditorOK, ClickModeOK, StopShareOK
<1>5. ASSUME NEW u \in User, AddPeople(d, u)
      PROVE  IInv'
  BY <1>5, AddPeopleOK
<1>6. ASSUME NEW p \in people[d], DeleteRow(d, p) \/ ChangeMode(d, p)
      PROVE  IInv'
  BY <1>6, DeleteRowOK, ChangeModeOK
<1>. QED
  BY <1>1, <1>2, <1>3, <1>4, <1>5, <1>6, Zenon DEF OwnerStep

LEMMA CallbackOK == ASSUME IInv, NEW d \in Device, Callback(d) PROVE IInv'
<1>1. PICK c \in calls[d] : \/ ShareNoteRead(d, c) \/ DropNoteRead(d, c) \/ ModeNoteRead(d, c)
                            \/ DropAllRead(d, c) \/ NoteRead(d, c) \/ NoteMissing(d, c)
  BY DEF Callback
<1>2. UNCHANGED <<taps, crashes>>
  BY DEF Callback
<1>. QED
  BY <1>1, <1>2, ShareNoteReadOK, DropNoteReadOK, ModeNoteReadOK, DropAllReadOK, NoteReadOK, NoteMissingOK

\* A step that changes nothing.
LEMMA StutterOK == ASSUME IInv, UNCHANGED vars PROVE IInv'
<1>. USE DEF vars, ui, server, history
<1>1. /\ \A u : GoodEntries(u)' = GoodEntries(u) /\ GoodPeople(u)' = GoodPeople(u)
      /\ \A n, u : MaySave(n, u)' <=> MaySave(n, u)
  BY DEF GoodEntries, GoodPeople, MaySave
<1>2. \A d : GoodCalls(d)' = GoodCalls(d)
  BY DEF GoodCalls, ScreenKnown, Named
<1>3. \A d : /\ GoodWrites(d)' = GoodWrites(d) /\ GoodRows(d)' = GoodRows(d)
             /\ GoodScreens(d)' = GoodScreens(d)
  BY <1>1, <1>2 DEF GoodWrites, GoodRows, GoodScreens
<1>. QED
  BY <1>1, <1>2, <1>3 DEF IInv, ServerOK, Shapes, DeviceOK, HistoryOK

LEMMA NextOK == IInv /\ [Next]_vars => IInv'
<1>. SUFFICES ASSUME IInv, [Next]_vars PROVE IInv'
  OBVIOUS
<1>1. ASSUME NEW d \in Device, SharedStep(d) \/ GiveUp(d)
      PROVE  IInv'
  BY <1>1, LoadSharedNotesOK, OpenSharedOK, CloseSharedOK, LeaveSharedOK DEF SharedStep, GiveUp
<1>2. ASSUME NEW d \in Device, ClearAndShare(d)
      PROVE  IInv'
  BY <1>2, OpenShareOK, Zenon DEF ClearAndShare
<1>3. ASSUME NEW d \in Device, OwnerStep(d) \/ Crash(d) \/ System(d)
      PROVE  IInv'
  BY <1>3, OwnerStepOK, CrashOK, CallbackOK, CommitOK DEF System
<1>. QED
  BY <1>1, <1>2, <1>3, StutterOK DEF Next

\* The inductive invariant holds in every reachable state.
THEOREM Inductive == Spec => []IInv
<1>. QED
  BY InitOK, NextOK, PTL DEF Spec

\* The state has its type, the owner's screens are over the account's own notes, and
\* no callback outlives its share settings screen.
THEOREM TypeCorrect == Spec => []TypeOK
<1>1. IInv => TypeOK
  <2>. SUFFICES ASSUME IInv PROVE TypeOK
    OBVIOUS
  <2>1. ASSUME NEW d \in Device
        PROVE  /\ taps[d] <= MaxTaps[d]
               /\ At(d, Editors \cup Shares) => Owner[screen[d].note] = Account[d]
               /\ \A c \in calls[d] : ScreenKnown(d, c)
               /\ \A i \in DOMAIN queue[d] : \A w \in queue[d][i] : \A c \in w.then : ScreenKnown(d, c)
    <3>1. taps[d] <= MaxTaps[d]
      <4>1. taps[d] \in 0 .. MaxTaps[d] /\ MaxTaps[d] \in Nat
        BY BoundAssumption DEF IInv, DeviceOK
      <4>. QED
        BY <4>1
    <3>2. \A c \in calls[d] : ScreenKnown(d, c)
      BY CallIsGood DEF GoodCalls
    <3>3. \A i \in DOMAIN queue[d] : \A w \in queue[d][i] : \A c \in w.then : ScreenKnown(d, c)
      BY QueueElement DEF GoodWrites, GoodCalls
    <3>4. At(d, Editors \cup Shares) => Owner[screen[d].note] = Account[d]
      BY DEF IInv, DeviceOK, GoodScreens, At
    <3>. QED
      BY <3>1, <3>2, <3>3, <3>4
  <2>. QED
    BY <2>1 DEF TypeOK, IInv, ServerOK, Shapes, HistoryOK
<1>. QED
  BY <1>1, Inductive, PTL

\* An account holds a note only in a mode its owner once chose for it.
THEOREM AccessSafe == Spec => []AccessWasOffered
<1>1. IInv => AccessWasOffered
  <2>. SUFFICES ASSUME IInv, NEW u \in User, NEW e \in sharedNotes[u]
                PROVE  /\ [note |-> e.note, user |-> u, mode |-> e.mode] \in offered
                       /\ u # Owner[e.note]
    BY DEF AccessWasOffered
  <2>1. [note |-> e.note, user |-> u, mode |-> e.mode] \in offered
    BY DEF IInv, ServerOK, GoodEntries
  <2>. QED
    BY <2>1 DEF IInv, HistoryOK
<1>. QED
  BY <1>1, Inductive, PTL

\* No list on the server ever names a note or an account twice.
THEOREM ModesSafe == Spec => []SingleMode
<1>1. IInv => SingleMode
  BY DEF IInv, ServerOK, GoodEntries, GoodPeople, SingleMode
<1>. QED
  BY <1>1, Inductive, PTL

\* Viewers never write a note.
THEOREM EditorsSafe == Spec => []EditorsOnly
<1>1. IInv => EditorsOnly
  BY DEF IInv, ServerOK, MaySave, EditorsOnly
<1>. QED
  BY <1>1, Inductive, PTL

\* A note lists only accounts its owner has shared something with.
THEOREM ListsSafe == Spec => []ListedBySameOwner
<1>1. IInv => ListedBySameOwner
  BY DEF IInv, ServerOK, GoodPeople, ListedBySameOwner
<1>. QED
  BY <1>1, Inductive, PTL
=============================================================================
