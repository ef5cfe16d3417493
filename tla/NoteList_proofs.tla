--------------------------- MODULE NoteList_proofs ---------------------------
(***************************************************************************)
(* The list of notes, for any number of devices and notes and every bound: *)
(* the two lists stay together, the selected row is the one tapped, a      *)
(* passcode alert keeps its row, and a creation replaces only notes that   *)
(* were not known where it was made.                                       *)
(*                                                                         *)
(* The selection is not inductive by itself: between the answer that sets  *)
(* the lists and the block that shows them it is out of step, and the      *)
(* invariant says that this is so only while a "rows" block waits.  That   *)
(* an index follows its row when another is removed rests on counting.     *)
(*                                                                         *)
(* The creations rest on more: under the id of every unsent creation, and  *)
(* of the editor, the device finds nothing of its own and nothing it saw   *)
(* (Clear).  A new id is free because a list that is not about to be loaded*)
(* holds every note of its own (OwnHeld); that a stranger's note arriving  *)
(* later is not one that was seen needs stamps to be given once and to be  *)
(* unknown until they are sent (StampInv).                                 *)
(***************************************************************************)
EXTENDS NoteList, TLAPS, SequenceTheorems, FiniteSetTheorems, WellFoundedInduction

StoreOK ==
    /\ docs \in [Id -> Doc \cup {None}] /\ queue \in [Device -> Seq(Write)] /\ made \in Nat

RowsOK ==
    /\ all \in [Device -> SUBSET Row] /\ filtered \in [Device -> SUBSET Row]
    /\ empty \in [Device -> BOOLEAN] /\ shown \in [Device -> Blocks]
    /\ selected \in [Device -> Nat] /\ tapped \in [Device -> Id \cup {NoId}]

ScreenOK ==
    /\ screen \in [Device -> Screens] /\ editor \in [Device -> Editor]
    /\ alert \in [Device -> Alert]

CallsOK ==
    /\ loads \in [Device -> 0 .. MaxLoads + 1] /\ asks \in [Device -> SUBSET Id]
    /\ swipes \in [Device -> SUBSET Nat] /\ changed \in [Device -> BOOLEAN]

\* The rows that have the selected index.
Ids(rs) == {r.id : r \in rs}

SelectionOK ==
    \A d \in Device : selected[d] # 0 /\ shown[d] # "rows" =>
        Ids(At(filtered[d], selected[d])) = {tapped[d]}

ListInv == /\ StoreOK /\ RowsOK /\ ScreenOK /\ CallsOK
           /\ ListsTogether /\ SelectionOK /\ AlertKeepsItsRow

-----------------------------------------------------------------------------
(* Counting rows *)

Unique(rs) == rs \subseteq Row /\ \A q, r \in rs : q.id = r.id => q = r

\* The rows down to r.
DownTo(rs, r) == {q \in rs : q.id <= r.id}

LEMMA UniqueFinite == ASSUME NEW rs, Unique(rs) PROVE IsFiniteSet(rs)
<1>. DEFINE f == [r \in rs |-> r.id]
<1>1. f \in Injection(rs, 0 .. MaxId)
  BY DEF Unique, Row, Id, Injection, IsInjective
<1>2. IsFiniteSet(0 .. MaxId)
  BY BoundAssumption, FS_Interval
<1>. QED
  BY <1>1, <1>2, FS_Injection

LEMMA DownToFinite ==
    ASSUME NEW rs, Unique(rs), NEW r
    PROVE  IsFiniteSet(DownTo(rs, r)) /\ Cardinality(DownTo(rs, r)) \in Nat
<1>1. IsFiniteSet(rs) /\ DownTo(rs, r) \in SUBSET rs
  BY UniqueFinite DEF DownTo
<1>2. IsFiniteSet(DownTo(rs, r))
  BY <1>1, FS_Subset
<1>. QED
  BY <1>2, FS_CardinalityType

\* Of two rows the one with the greater id has the greater index.
LEMMA RankGrows ==
    ASSUME NEW rs, Unique(rs), NEW q \in rs, NEW r \in rs, q.id < r.id
    PROVE  Cardinality(DownTo(rs, q)) < Cardinality(DownTo(rs, r))
<1>1. q.id \in Int /\ r.id \in Int /\ \A x \in rs : x.id \in Int
  BY BoundAssumption DEF Unique, Row, Id
<1>2. DownTo(rs, q) \in SUBSET DownTo(rs, r) /\ r \in DownTo(rs, r) /\ r \notin DownTo(rs, q)
  BY <1>1 DEF DownTo
<1>3. Cardinality(DownTo(rs, q)) <= Cardinality(DownTo(rs, r))
      /\ Cardinality(DownTo(rs, q)) # Cardinality(DownTo(rs, r))
  BY <1>2, DownToFinite, FS_Subset
<1>. QED
  BY <1>3, DownToFinite

\* An index has one row at most.
LEMMA OneAt ==
    ASSUME NEW rs, Unique(rs), NEW k, NEW q \in At(rs, k), NEW r \in At(rs, k) PROVE q = r
<1>1. q \in rs /\ r \in rs /\ q.id \in Int /\ r.id \in Int
  BY BoundAssumption DEF At, Unique, Row, Id
<1>2. Cardinality(DownTo(rs, q)) = Cardinality(DownTo(rs, r))
  BY DEF At, DownTo
<1>3. Cardinality(DownTo(rs, q)) \in Nat
  BY DownToFinite
<1>4. ~(q.id < r.id) /\ ~(r.id < q.id)
  BY <1>1, <1>2, <1>3, RankGrows
<1>. QED
  BY <1>1, <1>4 DEF Unique

\* Without r the rows below it move up by one.
LEMMA RankWithout ==
    ASSUME NEW rs, Unique(rs), NEW r \in rs, NEW x \in rs \ {r}
    PROVE  Cardinality(DownTo(rs \ {r}, x)) =
             IF r.id < x.id THEN Cardinality(DownTo(rs, x)) - 1 ELSE Cardinality(DownTo(rs, x))
<1>1. x.id \in Int /\ r.id \in Int /\ x.id # r.id
  BY BoundAssumption DEF Unique, Row, Id
<1>2. DownTo(rs \ {r}, x) = DownTo(rs, x) \ {r}
  BY DEF DownTo
<1>3. r \in DownTo(rs, x) <=> r.id < x.id
  BY <1>1 DEF DownTo
<1>. QED
  BY <1>2, <1>3, DownToFinite, FS_RemoveElement

\* A row keeps its place under the index that Shift gives it.
LEMMA ShiftFollows ==
    ASSUME NEW rs, Unique(rs), NEW k \in Nat, NEW r \in At(rs, k), NEW s \in Nat, s # k
    PROVE  At(rs \ {r}, Shift(s, k)) = At(rs, s)
<1>1. r \in rs /\ Cardinality(DownTo(rs, r)) = k
  BY DEF At, DownTo
<1>2. ASSUME NEW x \in rs \ {r}
      PROVE  Cardinality(DownTo(rs \ {r}, x)) = Shift(s, k) <=> Cardinality(DownTo(rs, x)) = s
  <2>1. x.id \in Int /\ r.id \in Int /\ x.id # r.id /\ Cardinality(DownTo(rs, x)) \in Nat
    BY <1>1, DownToFinite, BoundAssumption DEF Unique, Row, Id
  <2>2. CASE r.id < x.id
    <3>1. k < Cardinality(DownTo(rs, x))
      BY <1>1, <2>2, RankGrows
    <3>2. Cardinality(DownTo(rs \ {r}, x)) = Cardinality(DownTo(rs, x)) - 1
      BY <1>1, <2>2, RankWithout
    <3>. QED
      BY <2>1, <3>1, <3>2 DEF Shift
  <2>3. CASE x.id < r.id
    <3>1. Cardinality(DownTo(rs, x)) < k
      BY <1>1, <2>3, RankGrows
    <3>2. Cardinality(DownTo(rs \ {r}, x)) = Cardinality(DownTo(rs, x))
      BY <1>1, <2>1, <2>3, RankWithout
    <3>. QED
      BY <2>1, <3>1, <3>2 DEF Shift
  <2>. QED
    BY <2>1, <2>2, <2>3
<1>3. r \notin At(rs, s)
  BY <1>1 DEF At, DownTo
<1>. QED
  BY <1>2, <1>3 DEF At, DownTo

-----------------------------------------------------------------------------
(* What Firestore shows *)

LEMMA WriteType ==
    ASSUME NEW w \in Write
    PROVE  /\ w.id \in Id
           /\ w.kind = "set" => w.doc \in Doc
           /\ w.kind = "update" => w.locked \in BOOLEAN
           /\ w.kind \in {"set", "update", "delete"}
BY DEF Write

\* Of the writes of these kinds to a document one is the last.
LEMMA NewestOne ==
    ASSUME StoreOK, NEW d \in Device, NEW i \in Id, NEW kinds
    PROVE  /\ \A v, w \in Newest(d, i, kinds) : v = w
           /\ \A w \in Newest(d, i, kinds) : w \in Write /\ w.kind \in kinds
<1>1. queue[d] \in Seq(Write)
  BY DEF StoreOK
<1>2. DOMAIN queue[d] \subseteq Int /\ \A k \in DOMAIN queue[d] : queue[d][k] \in Write
  BY <1>1, ElementOfSeq, LenProperties
<1>. DEFINE Last(k) == /\ queue[d][k].id = i /\ queue[d][k].kind \in kinds
                       /\ \A m \in DOMAIN queue[d] :
                             m > k => queue[d][m].id # i \/ queue[d][m].kind \notin kinds
<1>3. ASSUME NEW k \in DOMAIN queue[d], NEW m \in DOMAIN queue[d], Last(k), Last(m)
      PROVE  k = m
  BY <1>2, <1>3
<1>4. Newest(d, i, kinds) = {queue[d][k] : k \in {k \in DOMAIN queue[d] : Last(k)}}
  BY DEF Newest
<1>5. \A k \in DOMAIN queue[d] : Last(k) => queue[d][k].kind \in kinds
  OBVIOUS
<1>. HIDE DEF Last
<1>. QED
  BY <1>2, <1>3, <1>4, <1>5

LEMMA BaseOne ==
    ASSUME StoreOK, NEW d \in Device, NEW i \in Id
    PROVE  Base(d, i) \subseteq Doc /\ \A m, n \in Base(d, i) : m = n
<1>. DEFINE new == Newest(d, i, {"set", "delete"})
<1>1. (\A v, w \in new : v = w) /\ \A w \in new : w.kind = "set" => w.doc \in Doc
  BY NewestOne, WriteType
<1>2. docs[i] \in Doc \cup {None}
  BY DEF StoreOK
<1>3. Base(d, i) = IF new = {} THEN {docs[i]} \ {None}
                   ELSE {w.doc : w \in {w \in new : w.kind = "set"}}
  BY DEF Base
<1>. HIDE DEF new
<1>4. CASE new = {}
  BY <1>2, <1>3, <1>4
<1>5. CASE new # {}
  BY <1>1, <1>3, <1>5
<1>. QED
  BY <1>4, <1>5

\* The lock a document is seen with.
Locks(d, i) ==
    LET new == Newest(d, i, {"set", "update"})
    IN  IF new = {} THEN {m.locked : m \in Base(d, i)}
        ELSE {IF w.kind = "set" THEN w.doc.locked ELSE w.locked : w \in new}

LEMMA LocksOne ==
    ASSUME StoreOK, NEW d \in Device, NEW i \in Id
    PROVE  Locks(d, i) \subseteq BOOLEAN /\ \A k, l \in Locks(d, i) : k = l
<1>. DEFINE new == Newest(d, i, {"set", "update"})
            Lock(w) == IF w.kind = "set" THEN w.doc.locked ELSE w.locked
<1>1. \A v, w \in new : v = w
  BY NewestOne
<1>2. \A w \in new : Lock(w) \in BOOLEAN
  BY NewestOne, WriteType DEF Doc
<1>3. Base(d, i) \subseteq Doc /\ \A m, n \in Base(d, i) : m = n
  BY BaseOne
<1>4. \A m \in Base(d, i) : m.locked \in BOOLEAN
  BY <1>3 DEF Doc
<1>5. Locks(d, i) = IF new = {} THEN {m.locked : m \in Base(d, i)} ELSE {Lock(w) : w \in new}
  BY DEF Locks
<1>. HIDE DEF new, Lock
<1>6. CASE new = {}
  BY <1>3, <1>4, <1>5, <1>6
<1>7. CASE new # {}
  BY <1>1, <1>2, <1>5, <1>7
<1>. QED
  BY <1>6, <1>7

\* What is seen is a list of rows with different ids.
LEMMA VisibleGood == ASSUME StoreOK, NEW d \in Device PROVE Unique(Visible(d))
<1>. DEFINE Seen(i) == {[id |-> i, doc |-> m, locked |-> l] : m \in Base(d, i), l \in Locks(d, i)}
            Put(r)  == [id |-> r.id, doc |-> [r.doc EXCEPT !.locked = r.locked]]
<1>1. Visible(d) = {Put(r) : r \in UNION {Seen(i) : i \in Id}}
  BY DEF Visible, Locks
<1>2. ASSUME NEW i \in Id, NEW r \in Seen(i) PROVE Put(r).id = i /\ Put(r) \in Row
  <2>1. PICK m \in Base(d, i), l \in Locks(d, i) : r = [id |-> i, doc |-> m, locked |-> l]
    OBVIOUS
  <2>2. m \in Doc /\ l \in BOOLEAN
    BY BaseOne, LocksOne
  <2>3. r.id = i /\ r.doc = m /\ r.locked = l
    BY <2>1
  <2>4. [m EXCEPT !.locked = l] \in Doc
    BY <2>2 DEF Doc
  <2>. QED
    BY <2>3, <2>4 DEF Row
<1>3. ASSUME NEW i \in Id, NEW q \in Seen(i), NEW r \in Seen(i) PROVE q = r
  BY BaseOne, LocksOne
<1>. HIDE DEF Seen, Put
<1>4. \A x \in Visible(d) : \E i \in Id : \E r \in Seen(i) : x = Put(r)
  BY <1>1
<1>5. ASSUME NEW x \in Visible(d), NEW y \in Visible(d), x.id = y.id PROVE x = y
  <2>1. PICK i \in Id : \E q \in Seen(i) : x = Put(q)
    BY <1>4
  <2>2. PICK j \in Id : \E r \in Seen(j) : y = Put(r)
    BY <1>4
  <2>3. i = j
    BY <1>2, <1>5, <2>1, <2>2
  <2>. QED
    BY <1>3, <2>1, <2>2, <2>3
<1>. QED
  BY <1>2, <1>4, <1>5 DEF Unique

-----------------------------------------------------------------------------
(* What steps have in common *)

LEMMA StoreStays == ASSUME StoreOK, UNCHANGED <<docs, queue, made>> PROVE StoreOK'
BY DEF StoreOK

LEMMA RowsStay ==
    ASSUME ListInv, UNCHANGED <<all, filtered, shown, selected, tapped>>,
           empty' \in [Device -> BOOLEAN]
    PROVE  RowsOK' /\ ListsTogether' /\ SelectionOK'
BY DEF ListInv, RowsOK, ListsTogether, SelectionOK

\* Only AskPasscode puts up a passcode alert.
LEMMA AlertStays ==
    ASSUME AlertKeepsItsRow, UNCHANGED <<filtered, shown>>,
           \A e \in Device : alert'[e] = alert[e] \/ alert'[e].kind # "passcode"
    PROVE  AlertKeepsItsRow'
BY DEF AlertKeepsItsRow

LEMMA Alerts ==
    /\ {NoAlert, Loading, Message} \subseteq Alert
    /\ \A a \in {NoAlert, Loading, Message} : a.kind # "passcode"
BY DEF NoAlert, Loading, Message, Alert

LEMMA ShowGood ==
    ASSUME ScreenOK, NEW d \in Device, NEW s \in Screens, Show(d, s)
    PROVE  screen' \in [Device -> Screens]
BY DEF ScreenOK, Show

LEMMA CoverGood ==
    ASSUME ScreenOK, NEW d \in Device, NEW a \in {NoAlert, Loading, Message}, Cover(d, a)
    PROVE  /\ alert' \in [Device -> Alert]
           /\ \A e \in Device : alert'[e] = alert[e] \/ alert'[e].kind # "passcode"
<1>1. a \in Alert /\ a.kind # "passcode"
  BY Alerts
<1>. QED
  BY <1>1 DEF ScreenOK, Cover

LEMMA PresentGood ==
    ASSUME ScreenOK, NEW d \in Device, NEW a \in {Loading, Message},
           Present(d, a) \/ UNCHANGED alert
    PROVE  /\ alert' \in [Device -> Alert]
           /\ \A e \in Device : alert'[e] = alert[e] \/ alert'[e].kind # "passcode"
<1>1. CASE Cover(d, a)
  BY <1>1, CoverGood
<1>2. CASE UNCHANGED alert
  BY <1>2 DEF ScreenOK
<1>. QED
  BY <1>1, <1>2 DEF Present

LEMMA LoadGood ==
    ASSUME CallsOK, NEW d \in Device, Load(d) PROVE loads' \in [Device -> 0 .. MaxLoads + 1]
BY BoundAssumption DEF CallsOK, Load

LEMMA SendGood ==
    ASSUME StoreOK, CallsOK, NEW d \in Device, NEW w \in Write, Send(d, w), docs' = docs,
           made' \in Nat
    PROVE  StoreOK' /\ changed' \in [Device -> BOOLEAN]
<1>1. Append(queue[d], w) \in Seq(Write)
  BY AppendProperties DEF StoreOK
<1>. QED
  BY <1>1 DEF StoreOK, CallsOK, Send

\* Back in the list.
LEMMA ShowListGood ==
    ASSUME ListInv, NEW d \in Device, ShowList(d)
    PROVE  /\ screen' \in [Device -> Screens] /\ alert' \in [Device -> Alert]
           /\ empty' \in [Device -> BOOLEAN] /\ loads' \in [Device -> 0 .. MaxLoads + 1]
           /\ \A e \in Device : alert'[e] = alert[e] \/ alert'[e].kind # "passcode"
<1>1. "list" \in Screens
  BY DEF Screens
<1>2. empty' \in [Device -> BOOLEAN]
  BY DEF ListInv, RowsOK, ShowList
<1>. QED
  BY <1>1, <1>2, ShowGood, CoverGood, LoadGood DEF ListInv, ShowList

\* A restarted device has no rows, no selection and "Loading..".
LEMMA RestartSafe == ASSUME ListInv, NEW d \in Device, Restart(d) PROVE ListInv'
<1>1. StoreOK'
  BY StoreStays DEF ListInv, Restart
<1>2. "list" \in Screens /\ "none" \in Blocks
  BY DEF Screens, Blocks
<1>3. /\ alert' \in [Device -> Alert]
      /\ \A e \in Device : alert'[e] = alert[e] \/ alert'[e].kind # "passcode"
  BY CoverGood DEF ListInv, Restart
<1>4. ScreenOK'
  BY <1>2, <1>3, ShowGood DEF ListInv, ScreenOK, Restart
<1>5. CallsOK'
  BY BoundAssumption DEF ListInv, CallsOK, Restart
<1>6. /\ all' = [all EXCEPT ![d] = {}] /\ filtered' = [filtered EXCEPT ![d] = {}]
      /\ selected' = [selected EXCEPT ![d] = 0] /\ shown' = [shown EXCEPT ![d] = "none"]
      /\ empty' = [empty EXCEPT ![d] = FALSE] /\ tapped' = tapped
      /\ alert' = [alert EXCEPT ![d] = Loading]
  BY DEF Restart, Select, Cover
<1>7. RowsOK'
  BY <1>2, <1>6 DEF ListInv, RowsOK
<1>8. ListsTogether'
  BY <1>6 DEF ListInv, RowsOK, ListsTogether
<1>9. SelectionOK'
  BY <1>6 DEF ListInv, RowsOK, SelectionOK
<1>10. alert'[d].kind # "passcode" /\ \A e \in Device \ {d} : alert'[e] = alert[e]
  BY <1>6, Alerts DEF ListInv, ScreenOK
<1>11. AlertKeepsItsRow'
  BY <1>6, <1>10 DEF ListInv, RowsOK, AlertKeepsItsRow
<1>. QED
  BY <1>1, <1>4, <1>5, <1>7, <1>8, <1>9, <1>11 DEF ListInv

\* The row at an index is removed: the lists stay together, and so do the rows of
\* the selection that moves along.
LEMMA RemoveGood ==
    ASSUME ListInv, NEW d \in Device, NEW k \in Nat, Remove(d, k), UNCHANGED <<docs, made, tapped>>,
           \/ selected' = [selected EXCEPT ![d] = 0]
           \/ selected' = [selected EXCEPT ![d] = Shift(@, k)]
    PROVE  /\ StoreOK' /\ RowsOK' /\ ListsTogether' /\ SelectionOK'
           /\ changed' \in [Device -> BOOLEAN] /\ shown' = shown
           /\ \A e \in Device \ {d} : filtered'[e] = filtered[e]
<1>1. PICK r \in At(filtered[d], k) :
          /\ Send(d, Delete(r.id, FALSE, {}))
          /\ all' = [all EXCEPT ![d] = {q \in @ : q.id # r.id}]
          /\ filtered' = [filtered EXCEPT ![d] = @ \ {r}]
          /\ empty' = [empty EXCEPT ![d] = @ \/ all'[d] = {}] /\ UNCHANGED shown
  BY DEF Remove
<1>2. /\ Unique(filtered[d]) /\ filtered[d] \subseteq all[d]
      /\ \A q, s \in all[d] : q.id = s.id => q = s
  BY DEF ListInv, RowsOK, ListsTogether, Unique
<1>3. r \in filtered[d] /\ r \in Row
  BY <1>2 DEF At, Unique
<1>4. Delete(r.id, FALSE, {}) \in Write
  BY <1>3 DEF Delete, Write, Row
<1>5. StoreOK' /\ changed' \in [Device -> BOOLEAN]
  BY <1>1, <1>4, SendGood DEF ListInv, StoreOK
<1>6. /\ all' \in [Device -> SUBSET Row] /\ filtered' \in [Device -> SUBSET Row]
      /\ filtered'[d] = filtered[d] \ {r} /\ all'[d] = {q \in all[d] : q.id # r.id}
      /\ \A e \in Device \ {d} : filtered'[e] = filtered[e] /\ all'[e] = all[e]
  BY <1>1 DEF ListInv, RowsOK
<1>7. empty' \in [Device -> BOOLEAN]
  BY <1>1 DEF ListInv, RowsOK
<1>8. selected \in [Device -> Nat] /\ \A s \in Nat : Shift(s, k) \in Nat
  BY DEF ListInv, RowsOK, Shift
<1>9. selected' \in [Device -> Nat] /\ \A e \in Device \ {d} : selected'[e] = selected[e]
  BY <1>8
<1>10. RowsOK'
  BY <1>1, <1>6, <1>7, <1>9 DEF ListInv, RowsOK
<1>11. ListsTogether'
  <2>1. filtered'[d] \subseteq all'[d]
    BY <1>2, <1>3, <1>6
  <2>. QED
    BY <1>6, <2>1 DEF ListInv, ListsTogether
<1>12. ASSUME selected'[d] # 0, shown'[d] # "rows"
       PROVE  Ids(At(filtered'[d], selected'[d])) = {tapped'[d]}
  <2>1. selected'[d] = Shift(selected[d], k)
    BY <1>8, <1>12
  <2>2. selected[d] # k /\ selected[d] # 0 /\ selected[d] \in Nat
    BY <1>8, <1>12, <2>1 DEF Shift
  <2>3. At(filtered'[d], selected'[d]) = At(filtered[d], selected[d])
    BY <1>2, <1>6, <2>1, <2>2, ShiftFollows
  <2>. QED
    BY <1>1, <1>12, <2>2, <2>3 DEF ListInv, SelectionOK
<1>13. SelectionOK'
  BY <1>1, <1>6, <1>9, <1>12 DEF ListInv, SelectionOK
<1>. QED
  BY <1>1, <1>5, <1>6, <1>10, <1>11, <1>13

-----------------------------------------------------------------------------
(* What the user does *)

\* A row is tapped while no block waits, and it is the one the index has.
LEMMA TapRowSafe == ASSUME ListInv, NEW d \in Device, NEW k \in Nat, TapRow(d, k) PROVE ListInv'
<1>1. PICK r \in At(filtered[d], k) :
          asks' = [asks EXCEPT ![d] = @ \cup {r.id}] /\ tapped' = [tapped EXCEPT ![d] = r.id]
  BY DEF TapRow
<1>2. /\ selected' = [selected EXCEPT ![d] = k]
      /\ UNCHANGED <<docs, queue, screen, all, filtered, empty, shown, editor, alert,
                     loads, swipes, changed, made>>
  BY DEF TapRow, Select
<1>3. Unique(filtered[d])
  BY DEF ListInv, RowsOK, ListsTogether, Unique
<1>4. r.id \in Id
  BY <1>3 DEF At, Unique, Row
<1>5. StoreOK' /\ ScreenOK' /\ ListsTogether' /\ AlertKeepsItsRow'
  BY <1>2, StoreStays, AlertStays DEF ListInv, ScreenOK, ListsTogether
<1>6. RowsOK' /\ CallsOK'
  BY <1>1, <1>2, <1>4 DEF ListInv, RowsOK, CallsOK
<1>7. Ids(At(filtered[d], k)) = {r.id}
  BY <1>3, OneAt DEF Ids
<1>8. SelectionOK'
  BY <1>1, <1>2, <1>7 DEF ListInv, RowsOK, SelectionOK
<1>. QED
  BY <1>5, <1>6, <1>8 DEF ListInv

LEMMA SwipeDeleteSafe ==
    ASSUME ListInv, NEW d \in Device, NEW k \in Nat, SwipeDelete(d, k) PROVE ListInv'
<1>1. /\ selected' = [selected EXCEPT ![d] = 0] /\ alert[d] = NoAlert
      /\ UNCHANGED <<docs, screen, editor, alert, loads, asks, made, tapped>>
  BY DEF SwipeDelete, Select, MayTouchRows, MayTouch
<1>2. ScreenOK'
  BY <1>1 DEF ListInv, ScreenOK
<1>3. alert'[d].kind # "passcode"
  BY <1>1, Alerts
<1>4. CASE /\ swipes' = [swipes EXCEPT ![d] = @ \cup {k}]
           /\ UNCHANGED <<queue, all, filtered, empty, shown, changed>>
  <2>1. StoreOK' /\ AlertKeepsItsRow'
    BY <1>1, <1>4, StoreStays, AlertStays DEF ListInv
  <2>2. RowsOK' /\ CallsOK' /\ ListsTogether' /\ SelectionOK'
    BY <1>1, <1>4 DEF ListInv, RowsOK, CallsOK, ListsTogether, SelectionOK
  <2>. QED
    BY <1>2, <2>1, <2>2 DEF ListInv
<1>5. CASE Remove(d, k) /\ UNCHANGED swipes
  <2>1. /\ StoreOK' /\ RowsOK' /\ ListsTogether' /\ SelectionOK'
        /\ changed' \in [Device -> BOOLEAN] /\ shown' = shown
        /\ \A e \in Device \ {d} : filtered'[e] = filtered[e]
    BY <1>1, <1>5, RemoveGood
  <2>2. CallsOK'
    BY <1>1, <1>5, <2>1 DEF ListInv, CallsOK
  <2>3. AlertKeepsItsRow'
    BY <1>1, <1>3, <2>1 DEF ListInv, AlertKeepsItsRow
  <2>. QED
    BY <1>2, <2>1, <2>2, <2>3 DEF ListInv
<1>. QED
  BY <1>4, <1>5 DEF SwipeDelete

LEMMA EnterPasscodeSafe ==
    ASSUME ListInv, NEW d \in Device, EnterPasscode(d) PROVE ListInv'
<1>. DEFINE k == alert[d].index
<1>1. CASE Restart(d)
  BY <1>1, RestartSafe
<1>2. CASE /\ Remove(d, k) /\ Select(d, Shift(selected[d], k)) /\ Cover(d, NoAlert)
           /\ UNCHANGED <<docs, screen, editor, calls, made, tapped>>
  <2>1. k \in Nat
    <3>1. alert[d] \in Alert /\ alert[d].kind = "passcode"
      BY DEF ListInv, ScreenOK, EnterPasscode
    <3>. QED
      BY <3>1 DEF Alert
  <2>2. selected' = [selected EXCEPT ![d] = Shift(@, k)]
    BY <1>2 DEF Select
  <2>3. /\ StoreOK' /\ RowsOK' /\ ListsTogether' /\ SelectionOK'
        /\ changed' \in [Device -> BOOLEAN] /\ shown' = shown
        /\ \A e \in Device \ {d} : filtered'[e] = filtered[e]
    <3>. HIDE DEF k
    <3>. QED
      BY <1>2, <2>1, <2>2, RemoveGood
  <2>4. CallsOK'
    BY <1>2, <2>3 DEF ListInv, CallsOK, calls
  <2>5. /\ alert' = [alert EXCEPT ![d] = NoAlert] /\ NoAlert \in Alert
        /\ NoAlert.kind # "passcode"
    BY <1>2, Alerts DEF Cover
  <2>6. ScreenOK'
    BY <1>2, <2>5 DEF ListInv, ScreenOK
  <2>7. alert'[d].kind # "passcode" /\ \A e \in Device \ {d} : alert'[e] = alert[e]
    BY <2>5 DEF ListInv, ScreenOK
  <2>8. AlertKeepsItsRow'
    BY <2>3, <2>7 DEF ListInv, AlertKeepsItsRow
  <2>. QED
    BY <2>3, <2>4, <2>6, <2>8 DEF ListInv
<1>. QED
  BY <1>1, <1>2 DEF EnterPasscode

LEMMA DismissSafe == ASSUME ListInv, NEW d \in Device, Dismiss(d) PROVE ListInv'
<1>1. /\ Cover(d, NoAlert)
      /\ UNCHANGED <<docs, queue, screen, rows, editor, calls, changed, made, tapped>>
  BY DEF Dismiss
<1>2. /\ alert' \in [Device -> Alert]
      /\ \A e \in Device : alert'[e] = alert[e] \/ alert'[e].kind # "passcode"
  BY <1>1, CoverGood DEF ListInv
<1>3. StoreOK' /\ AlertKeepsItsRow'
  BY <1>1, <1>2, StoreStays, AlertStays DEF ListInv, rows
<1>4. RowsOK' /\ ListsTogether' /\ SelectionOK'
  BY <1>1, RowsStay DEF ListInv, RowsOK, rows
<1>5. ScreenOK' /\ CallsOK'
  BY <1>1, <1>2 DEF ListInv, ScreenOK, CallsOK, calls
<1>. QED
  BY <1>3, <1>4, <1>5 DEF ListInv

LEMMA SearchSafe == ASSUME ListInv, NEW d \in Device, NEW scope, Search(d, scope) PROVE ListInv'
<1>1. /\ filtered' = [filtered EXCEPT ![d] = InScope(all[d], scope)]
      /\ selected' = [selected EXCEPT ![d] = 0] /\ alert[d] = NoAlert
      /\ UNCHANGED <<docs, queue, screen, all, empty, shown, editor, alert, calls, changed,
                     made, tapped>>
  BY DEF Search, Select, MayTouch
<1>2. InScope(all[d], scope) \subseteq all[d] /\ all[d] \subseteq Row
  BY DEF InScope, ListInv, RowsOK
<1>3. StoreOK' /\ ScreenOK' /\ CallsOK'
  BY <1>1, StoreStays DEF ListInv, ScreenOK, CallsOK, calls
<1>4. RowsOK' /\ ListsTogether' /\ SelectionOK'
  BY <1>1, <1>2 DEF ListInv, RowsOK, ListsTogether, SelectionOK
<1>5. alert'[d].kind # "passcode"
  BY <1>1, Alerts
<1>6. AlertKeepsItsRow'
  BY <1>1, <1>5 DEF ListInv, RowsOK, AlertKeepsItsRow
<1>. QED
  BY <1>3, <1>4, <1>6 DEF ListInv

LEMMA RefreshSafe == ASSUME ListInv, NEW d \in Device, Refresh(d) PROVE ListInv'
<1>1. /\ Load(d) /\ Cover(d, Loading)
      /\ UNCHANGED <<docs, queue, screen, rows, editor, asks, swipes, changed, made, tapped>>
  BY DEF Refresh
<1>2. /\ alert' \in [Device -> Alert]
      /\ \A e \in Device : alert'[e] = alert[e] \/ alert'[e].kind # "passcode"
  BY <1>1, CoverGood DEF ListInv
<1>3. StoreOK' /\ AlertKeepsItsRow'
  BY <1>1, <1>2, StoreStays, AlertStays DEF ListInv, rows
<1>4. RowsOK' /\ ListsTogether' /\ SelectionOK'
  BY <1>1, RowsStay DEF ListInv, RowsOK, rows
<1>5. ScreenOK' /\ CallsOK'
  BY <1>1, <1>2, LoadGood DEF ListInv, ScreenOK, CallsOK
<1>. QED
  BY <1>3, <1>4, <1>5 DEF ListInv

LEMMA Stamps == ASSUME NEW rs \in SUBSET Row PROVE {r.doc.stamp : r \in rs} \subseteq Stamp
BY DEF Row, Doc, Stamp

LEMMA AddNoteSafe == ASSUME ListInv, NEW d \in Device, AddNote(d) PROVE ListInv'
<1>1. /\ NewId(all[d]) \in Id /\ Show(d, "create")
      /\ editor' = [editor EXCEPT ![d] = [id |-> NewId(all[d]),
                                          saw |-> {r.doc.stamp : r \in all[d]}]]
      /\ UNCHANGED <<docs, queue, rows, alert, calls, changed, made, tapped>>
  BY DEF AddNote
<1>2. {r.doc.stamp : r \in all[d]} \subseteq Stamp
  BY Stamps DEF ListInv, RowsOK
<1>3. editor' \in [Device -> Editor]
  BY <1>1, <1>2 DEF ListInv, ScreenOK, Editor
<1>4. StoreOK' /\ AlertKeepsItsRow'
  BY <1>1, StoreStays, AlertStays DEF ListInv, rows
<1>5. RowsOK' /\ ListsTogether' /\ SelectionOK'
  BY <1>1, RowsStay DEF ListInv, RowsOK, rows
<1>6. "create" \in Screens
  BY DEF Screens
<1>7. ScreenOK' /\ CallsOK'
  BY <1>1, <1>3, <1>6, ShowGood DEF ListInv, ScreenOK, CallsOK, calls
<1>. QED
  BY <1>4, <1>5, <1>7 DEF ListInv

\* The writes of the two editors.
LEMMA EditorType ==
    ASSUME ListInv, NEW d \in Device
    PROVE  editor[d].id \in Id /\ editor[d].saw \in SUBSET Stamp
BY DEF ListInv, ScreenOK, Editor

LEMMA EditorCloses ==
    ASSUME ScreenOK, NEW d \in Device, editor' = [editor EXCEPT ![d] = Closed]
    PROVE  editor' \in [Device -> Editor]
<1>1. Closed \in Editor
  BY BoundAssumption DEF Closed, Editor, Id
<1>. QED
  BY <1>1 DEF ScreenOK

\* What a note is saved with, and then the list.
LEMMA LeaveGood ==
    ASSUME ListInv, NEW d \in Device, NEW w \in Write, Send(d, w), ShowList(d), made' \in Nat,
           editor' = [editor EXCEPT ![d] = Closed],
           UNCHANGED <<docs, all, filtered, shown, selected, asks, swipes, tapped>>
    PROVE  ListInv'
<1>1. /\ screen' \in [Device -> Screens] /\ alert' \in [Device -> Alert]
      /\ empty' \in [Device -> BOOLEAN] /\ loads' \in [Device -> 0 .. MaxLoads + 1]
      /\ \A e \in Device : alert'[e] = alert[e] \/ alert'[e].kind # "passcode"
  BY ShowListGood
<1>2. StoreOK' /\ changed' \in [Device -> BOOLEAN]
  BY SendGood DEF ListInv
<1>3. ScreenOK' /\ CallsOK'
  BY <1>1, <1>2, EditorCloses DEF ListInv, ScreenOK, CallsOK
<1>4. RowsOK' /\ ListsTogether' /\ SelectionOK' /\ AlertKeepsItsRow'
  BY <1>1, RowsStay, AlertStays DEF ListInv
<1>. QED
  BY <1>2, <1>3, <1>4 DEF ListInv

LEMMA LeaveCreateSafe ==
    ASSUME ListInv, NEW d \in Device, NEW filled \in BOOLEAN, NEW locked \in BOOLEAN,
           LeaveCreate(d, filled, locked)
    PROVE  ListInv'
<1>. DEFINE e == editor[d]
            set == [kind |-> "set", id |-> e.id, saw |-> e.saw,
                    doc |-> [stamp |-> made + 1, by |-> d, locked |-> locked]]
<1>1. /\ \/ Send(d, set) /\ made' = made + 1
         \/ Send(d, Delete(e.id, TRUE, e.saw)) /\ made' = made
      /\ ShowList(d) /\ editor' = [editor EXCEPT ![d] = Closed]
      /\ UNCHANGED <<docs, all, filtered, shown, selected, asks, swipes, tapped>>
  BY DEF LeaveCreate
<1>2. made \in Nat
  BY DEF ListInv, StoreOK
<1>3. [stamp |-> made + 1, by |-> d, locked |-> locked] \in Doc
  BY <1>2 DEF Doc, Stamp
<1>4. set \in Write /\ Delete(e.id, TRUE, e.saw) \in Write
  BY <1>3, EditorType DEF Write, Delete
<1>5. made' \in Nat
  <2>1. made' = made + 1 \/ made' = made
    BY <1>1
  <2>. QED
    BY <1>2, <2>1
<1>. HIDE DEF e, set
<1>6. PICK w \in Write : Send(d, w)
  BY <1>1, <1>4
<1>. QED
  BY <1>1, <1>5, <1>6, LeaveGood

LEMMA LeaveDetailSafe ==
    ASSUME ListInv, NEW d \in Device, NEW filled \in BOOLEAN, NEW locked \in BOOLEAN,
           LeaveDetail(d, filled, locked)
    PROVE  ListInv'
<1>. DEFINE w == IF filled THEN [kind |-> "update", id |-> editor[d].id, locked |-> locked]
                 ELSE Delete(editor[d].id, FALSE, {})
<1>1. /\ Send(d, w) /\ ShowList(d) /\ editor' = [editor EXCEPT ![d] = Closed]
      /\ UNCHANGED <<docs, all, filtered, shown, selected, asks, swipes, made, tapped>>
  BY DEF LeaveDetail
<1>2. w \in Write
  <2>1. /\ [kind |-> "update", id |-> editor[d].id, locked |-> locked] \in Write
        /\ Delete(editor[d].id, FALSE, {}) \in Write
    BY EditorType DEF Write, Delete
  <2>. QED
    BY <2>1
<1>3. made' \in Nat
  BY <1>1 DEF ListInv, StoreOK
<1>. HIDE DEF w
<1>. QED
  BY <1>1, <1>2, <1>3, LeaveGood

LEMMA ShowSharedSafe == ASSUME ListInv, NEW d \in Device, ShowShared(d) PROVE ListInv'
<1>1. /\ Show(d, "shared") /\ "shared" \in Screens
      /\ UNCHANGED <<docs, queue, rows, editor, alert, calls, changed, made, tapped>>
  BY DEF ShowShared, Screens
<1>2. StoreOK' /\ AlertKeepsItsRow'
  BY <1>1, StoreStays, AlertStays DEF ListInv, rows
<1>3. RowsOK' /\ ListsTogether' /\ SelectionOK'
  BY <1>1, RowsStay DEF ListInv, RowsOK, rows
<1>4. ScreenOK' /\ CallsOK'
  BY <1>1, ShowGood DEF ListInv, ScreenOK, CallsOK, calls
<1>. QED
  BY <1>2, <1>3, <1>4 DEF ListInv

LEMMA BackToListSafe == ASSUME ListInv, NEW d \in Device, BackToList(d) PROVE ListInv'
<1>1. /\ ShowList(d)
      /\ UNCHANGED <<docs, queue, all, filtered, shown, selected, editor, asks, swipes,
                     changed, made, tapped>>
  BY DEF BackToList
<1>2. /\ screen' \in [Device -> Screens] /\ alert' \in [Device -> Alert]
      /\ empty' \in [Device -> BOOLEAN] /\ loads' \in [Device -> 0 .. MaxLoads + 1]
      /\ \A e \in Device : alert'[e] = alert[e] \/ alert'[e].kind # "passcode"
  BY <1>1, ShowListGood
<1>3. StoreOK' /\ AlertKeepsItsRow'
  BY <1>1, <1>2, StoreStays, AlertStays DEF ListInv
<1>4. RowsOK' /\ ListsTogether' /\ SelectionOK'
  BY <1>1, <1>2, RowsStay
<1>5. ScreenOK' /\ CallsOK'
  BY <1>1, <1>2 DEF ListInv, ScreenOK, CallsOK
<1>. QED
  BY <1>3, <1>4, <1>5 DEF ListInv

-----------------------------------------------------------------------------
(* Answers, snapshots, the server *)

LEMMA LoadAnswerSafe == ASSUME ListInv, NEW d \in Device, LoadAnswer(d) PROVE ListInv'
<1>1. /\ loads[d] > 0 /\ loads' = [loads EXCEPT ![d] = @ - 1] /\ shown[d] = "none"
      /\ shown' = [shown EXCEPT ![d] = IF Visible(d) = {} THEN "empty" ELSE "rows"]
      /\ UNCHANGED <<docs, queue, screen, empty, selected, editor, alert, asks, swipes,
                     changed, made, tapped>>
  BY DEF LoadAnswer
<1>2. StoreOK' /\ ScreenOK'
  BY <1>1, StoreStays DEF ListInv, ScreenOK
<1>3. CallsOK'
  BY <1>1, BoundAssumption DEF ListInv, CallsOK
<1>4. {"none", "rows", "empty"} \subseteq Blocks /\ shown'[d] # "none"
      /\ \A e \in Device \ {d} : shown'[e] = shown[e]
  BY <1>1 DEF ListInv, RowsOK, Blocks
<1>5. CASE Visible(d) = {} /\ UNCHANGED <<all, filtered>>
  <2>1. RowsOK' /\ ListsTogether' /\ SelectionOK'
    BY <1>1, <1>4, <1>5 DEF ListInv, RowsOK, ListsTogether, SelectionOK
  <2>2. AlertKeepsItsRow'
    BY <1>1, <1>4, <1>5 DEF ListInv, AlertKeepsItsRow
  <2>. QED
    BY <1>2, <1>3, <2>1, <2>2 DEF ListInv
<1>6. CASE /\ Visible(d) # {}
           /\ all' = [all EXCEPT ![d] = Visible(d)]
           /\ filtered' = [filtered EXCEPT ![d] = Visible(d)]
  <2>1. Unique(Visible(d))
    BY VisibleGood DEF ListInv
  <2>2. /\ all'[d] = Visible(d) /\ filtered'[d] = Visible(d) /\ shown'[d] = "rows"
        /\ \A e \in Device \ {d} : all'[e] = all[e] /\ filtered'[e] = filtered[e]
    BY <1>1, <1>6 DEF ListInv, RowsOK
  <2>3. RowsOK'
    BY <1>1, <1>4, <1>6, <2>1 DEF ListInv, RowsOK, Unique
  <2>4. ListsTogether'
    BY <2>1, <2>2 DEF ListInv, ListsTogether, Unique
  <2>5. SelectionOK'
    BY <1>1, <1>4, <2>2 DEF ListInv, SelectionOK
  <2>6. AlertKeepsItsRow'
    BY <1>1, <1>4, <2>2 DEF ListInv, AlertKeepsItsRow
  <2>. QED
    BY <1>2, <1>3, <2>3, <2>4, <2>5, <2>6 DEF ListInv
<1>. QED
  BY <1>5, <1>6 DEF LoadAnswer

\* The block takes the alert and, if there are new rows, the selection.
LEMMA ShowAnswerSafe == ASSUME ListInv, NEW d \in Device, ShowAnswer(d) PROVE ListInv'
<1>1. /\ shown[d] # "none" /\ shown' = [shown EXCEPT ![d] = "none"]
      /\ alert' = [alert EXCEPT ![d] = NoAlert]
      /\ empty' = [empty EXCEPT ![d] = shown[d] = "empty"]
      /\ IF shown[d] = "rows" THEN selected' = [selected EXCEPT ![d] = 0] ELSE UNCHANGED selected
      /\ UNCHANGED <<docs, queue, screen, all, filtered, editor, calls, changed, made, tapped>>
  BY DEF ShowAnswer, Uncover, Cover, Deselect, Select
<1>2. StoreOK' /\ CallsOK' /\ ListsTogether'
  BY <1>1, StoreStays DEF ListInv, CallsOK, calls, ListsTogether
<1>3. /\ ScreenOK' /\ alert'[d].kind # "passcode"
      /\ \A e \in Device \ {d} : alert'[e] = alert[e]
  BY <1>1, Alerts DEF ListInv, ScreenOK
<1>4. "none" \in Blocks /\ empty' \in [Device -> BOOLEAN]
  BY <1>1 DEF ListInv, RowsOK, Blocks
<1>5. selected' \in [Device -> Nat] /\ \A e \in Device \ {d} : selected'[e] = selected[e]
  BY <1>1 DEF ListInv, RowsOK
<1>6. RowsOK'
  BY <1>1, <1>4, <1>5 DEF ListInv, RowsOK
<1>7. selected'[d] = 0 \/ (selected'[d] = selected[d] /\ shown[d] # "rows")
  BY <1>1 DEF ListInv, RowsOK
<1>8. \A e \in Device \ {d} : shown'[e] = shown[e]
  BY <1>1 DEF ListInv, RowsOK
<1>9. SelectionOK'
  BY <1>1, <1>5, <1>7, <1>8 DEF ListInv, SelectionOK
<1>10. AlertKeepsItsRow'
  BY <1>1, <1>3, <1>8 DEF ListInv, AlertKeepsItsRow
<1>. QED
  BY <1>2, <1>3, <1>6, <1>9, <1>10 DEF ListInv

LEMMA OpenSelectedSafe ==
    ASSUME ListInv, NEW d \in Device, NEW i \in Id, OpenSelected(d, i) PROVE ListInv'
<1>1. CASE Restart(d)
  BY <1>1, RestartSafe
<1>2. CASE ~Restart(d)
  <2>1. /\ Show(d, "detail") /\ Answered(d, i) /\ "detail" \in Screens
        /\ UNCHANGED <<docs, queue, rows, alert, loads, swipes, changed, made, tapped>>
    BY <1>2 DEF OpenSelected, Screens
  <2>2. PICK r \in At(filtered[d], selected[d]) :
            editor' = [editor EXCEPT ![d] = [id |-> r.id, saw |-> {}]]
    BY <1>2 DEF OpenSelected
  <2>3. r.id \in Id
    BY DEF At, ListInv, RowsOK, Row
  <2>4. editor' \in [Device -> Editor]
    BY <2>2, <2>3 DEF ListInv, ScreenOK, Editor
  <2>5. StoreOK' /\ AlertKeepsItsRow'
    BY <2>1, StoreStays, AlertStays DEF ListInv, rows
  <2>6. RowsOK' /\ ListsTogether' /\ SelectionOK'
    BY <2>1, RowsStay DEF ListInv, RowsOK, rows
  <2>7. ScreenOK' /\ CallsOK'
    BY <2>1, <2>4, ShowGood DEF ListInv, ScreenOK, CallsOK, Answered
  <2>. QED
    BY <2>5, <2>6, <2>7 DEF ListInv
<1>. QED
  BY <1>1, <1>2

LEMMA OpenRowSafe ==
    ASSUME ListInv, NEW d \in Device, NEW i \in Id, OpenRow(d, i) PROVE ListInv'
<1>1. CASE Restart(d) \/ OpenSelected(d, i)
  BY <1>1, RestartSafe, OpenSelectedSafe
<1>2. CASE /\ Present(d, Message) /\ Answered(d, i)
           /\ UNCHANGED <<docs, queue, screen, rows, editor, loads, swipes, changed,
                          made, tapped>>
  <2>1. /\ alert' \in [Device -> Alert]
        /\ \A e \in Device : alert'[e] = alert[e] \/ alert'[e].kind # "passcode"
    BY <1>2, PresentGood DEF ListInv
  <2>2. StoreOK' /\ AlertKeepsItsRow'
    BY <1>2, <2>1, StoreStays, AlertStays DEF ListInv, rows
  <2>3. RowsOK' /\ ListsTogether' /\ SelectionOK'
    BY <1>2, RowsStay DEF ListInv, RowsOK, rows
  <2>4. ScreenOK' /\ CallsOK'
    BY <1>2, <2>1 DEF ListInv, ScreenOK, CallsOK, Answered
  <2>. QED
    BY <2>2, <2>3, <2>4 DEF ListInv
<1>. QED
  BY <1>1, <1>2 DEF OpenRow

\* The alert comes up for the row that has the index now.
LEMMA AskPasscodeSafe ==
    ASSUME ListInv, NEW d \in Device, NEW k \in Nat, AskPasscode(d, k) PROVE ListInv'
<1>. DEFINE a == [kind |-> "passcode", index |-> k, rows |-> At(filtered[d], k)]
<1>1. /\ swipes' = [swipes EXCEPT ![d] = @ \ {k}]
      /\ Cover(d, a) \/ UNCHANGED alert
      /\ UNCHANGED <<docs, queue, screen, rows, editor, loads, asks, changed, made, tapped>>
  BY DEF AskPasscode, Present
<1>2. At(filtered[d], k) \in SUBSET Row
  BY DEF At, ListInv, RowsOK
<1>3. a \in Alert /\ a.index = k /\ a.rows = At(filtered[d], k)
  BY <1>2 DEF Alert
<1>. HIDE DEF a
<1>4. /\ alert' \in [Device -> Alert]
      /\ \A e \in Device : alert'[e] = alert[e] \/ (e = d /\ alert'[e] = a)
  BY <1>1, <1>3 DEF ListInv, ScreenOK, Cover
<1>5. StoreOK' /\ ScreenOK' /\ CallsOK'
  BY <1>1, <1>4, StoreStays DEF ListInv, ScreenOK, CallsOK
<1>6. RowsOK' /\ ListsTogether' /\ SelectionOK'
  BY <1>1, RowsStay DEF ListInv, RowsOK, rows
<1>7. AlertKeepsItsRow'
  BY <1>1, <1>3, <1>4 DEF ListInv, AlertKeepsItsRow, rows
<1>. QED
  BY <1>5, <1>6, <1>7 DEF ListInv

LEMMA NoticeSafe == ASSUME ListInv, NEW d \in Device, Notice(d) PROVE ListInv'
<1>1. /\ changed' = [changed EXCEPT ![d] = FALSE]
      /\ Load(d) \/ UNCHANGED loads
      /\ Present(d, Loading) \/ UNCHANGED alert
      /\ UNCHANGED <<docs, queue, screen, rows, editor, asks, swipes, made, tapped>>
  BY DEF Notice
<1>2. /\ alert' \in [Device -> Alert]
      /\ \A e \in Device : alert'[e] = alert[e] \/ alert'[e].kind # "passcode"
  BY <1>1, PresentGood DEF ListInv
<1>3. loads' \in [Device -> 0 .. MaxLoads + 1]
  BY <1>1, LoadGood DEF ListInv, CallsOK
<1>4. StoreOK' /\ AlertKeepsItsRow'
  BY <1>1, <1>2, StoreStays, AlertStays DEF ListInv, rows
<1>5. RowsOK' /\ ListsTogether' /\ SelectionOK'
  BY <1>1, RowsStay DEF ListInv, RowsOK, rows
<1>6. ScreenOK' /\ CallsOK'
  BY <1>1, <1>2, <1>3 DEF ListInv, ScreenOK, CallsOK
<1>. QED
  BY <1>4, <1>5, <1>6 DEF ListInv

LEMMA CommitSafe == ASSUME ListInv, NEW d \in Device, Commit(d) PROVE ListInv'
<1>. DEFINE w == Head(queue[d])
            new(doc) == CASE w.kind = "set" -> w.doc
                          [] w.kind = "update" /\ doc # None -> [doc EXCEPT !.locked = w.locked]
                          [] w.kind = "delete" -> None
                          [] OTHER -> doc
<1>1. /\ queue[d] # <<>> /\ queue' = [queue EXCEPT ![d] = Tail(@)]
      /\ docs' = [docs EXCEPT ![w.id] = new(@)]
      /\ changed' = [e \in Device |-> TRUE]
      /\ UNCHANGED <<screen, rows, editor, alert, calls, made, tapped>>
  BY DEF Commit
<1>2. queue[d] \in Seq(Write) /\ docs \in [Id -> Doc \cup {None}]
  BY DEF ListInv, StoreOK
<1>3. w \in Write /\ Tail(queue[d]) \in Seq(Write)
  BY <1>1, <1>2, HeadTailProperties
<1>4. ASSUME NEW doc \in Doc \cup {None} PROVE new(doc) \in Doc \cup {None}
  <2>1. doc # None => doc \in Doc
    OBVIOUS
  <2>2. w.kind = "update" /\ doc # None => [doc EXCEPT !.locked = w.locked] \in Doc
    BY <1>3, <2>1, WriteType DEF Doc
  <2>3. w.kind = "set" => w.doc \in Doc
    BY <1>3, WriteType
  <2>. QED
    BY <2>2, <2>3
<1>5. w.id \in Id
  BY <1>3, WriteType
<1>. HIDE DEF w, new
<1>6. StoreOK'
  BY <1>1, <1>2, <1>3, <1>4, <1>5 DEF ListInv, StoreOK
<1>7. RowsOK' /\ ListsTogether' /\ SelectionOK'
  BY <1>1, RowsStay DEF ListInv, RowsOK, rows
<1>8. ScreenOK' /\ CallsOK' /\ AlertKeepsItsRow'
  BY <1>1, AlertStays DEF ListInv, ScreenOK, CallsOK, calls, rows
<1>. QED
  BY <1>6, <1>7, <1>8 DEF ListInv

-----------------------------------------------------------------------------
(* The specification *)

LEMMA InitSafe == ASSUME Init PROVE ListInv
<1>1. Cardinality(InitialRows) \in Nat
  BY InitialAssumption, FS_CardinalityType
<1>2. docs \in [Id -> Doc \cup {None}]
  <2>1. ASSUME NEW i \in Id, \E r \in InitialRows : r.id = i
        PROVE  (CHOOSE r \in InitialRows : r.id = i).doc \in Doc
    <3>1. (CHOOSE r \in InitialRows : r.id = i) \in Row
      BY <2>1, InitialAssumption
    <3>. QED
      BY <3>1 DEF Row
  <2>. QED
    BY <2>1 DEF Init
<1>3. StoreOK
  <2>1. <<>> \in Seq(Write)
    BY EmptySeq
  <2>. QED
    BY <1>1, <1>2, <2>1 DEF Init, StoreOK
<1>4. RowsOK
  BY DEF Init, RowsOK, Blocks
<1>5. ScreenOK
  <2>1. Loading \in Alert /\ Closed \in Editor /\ "list" \in Screens
    BY Alerts, BoundAssumption DEF Closed, Editor, Id, Screens
  <2>. QED
    BY <2>1 DEF Init, ScreenOK
<1>6. CallsOK
  BY BoundAssumption DEF Init, CallsOK
<1>7. ListsTogether /\ SelectionOK
  BY DEF Init, ListsTogether, SelectionOK
<1>8. AlertKeepsItsRow
  BY Alerts DEF Init, AlertKeepsItsRow
<1>. QED
  BY <1>3, <1>4, <1>5, <1>6, <1>7, <1>8 DEF ListInv

LEMMA StepSafe == ASSUME ListInv, Next PROVE ListInv'
<1>1. PICK d \in Device : User(d) \/ Server(d) \/ Crash(d)
  BY DEF Next
<1>2. Index \subseteq Nat
  BY BoundAssumption DEF Index
<1>3. CASE Rows(d)
  BY <1>2, <1>3, TapRowSafe, SwipeDeleteSafe DEF Rows
<1>4. CASE Lists(d)
  BY <1>4, SearchSafe, RefreshSafe, AddNoteSafe, ShowSharedSafe DEF Lists
<1>5. CASE Edits(d) \/ Ends(d)
  BY <1>5, LeaveDetailSafe, LeaveCreateSafe, BackToListSafe, EnterPasscodeSafe, DismissSafe
     DEF Edits, Ends
<1>6. CASE Answers(d)
  BY <1>2, <1>6, LoadAnswerSafe, ShowAnswerSafe, OpenRowSafe, AskPasscodeSafe DEF Answers
<1>7. CASE Notice(d) \/ Commit(d) \/ Restart(d)
  BY <1>7, NoticeSafe, CommitSafe, RestartSafe
<1>. QED
  BY <1>1, <1>3, <1>4, <1>5, <1>6, <1>7 DEF User, Server, Crash

LEMMA ListInvHolds == Spec => []ListInv
<1>1. ASSUME ListInv, UNCHANGED vars PROVE ListInv'
  BY <1>1 DEF vars, rows, calls, ListInv, StoreOK, RowsOK, ScreenOK, CallsOK, ListsTogether,
              SelectionOK, AlertKeepsItsRow
<1>. QED
  BY InitSafe, StepSafe, <1>1, PTL DEF Spec

CountersOK == taps \in [Device -> Nat] /\ crashes \in Nat

LEMMA CountersHold == Spec => []CountersOK
<1>1. Init => CountersOK
  BY DEF Init, CountersOK
<1>2. ASSUME CountersOK, Next PROVE CountersOK'
  <2>1. PICK d \in Device : User(d) \/ Server(d) \/ Crash(d)
    BY <1>2 DEF Next
  <2>2. \/ taps' = [taps EXCEPT ![d] = @ + 1] /\ crashes' = crashes
        \/ taps' = taps /\ crashes' = crashes
        \/ taps' = taps /\ crashes' = crashes + 1
    BY <2>1 DEF User, Server, Crash, Tap, counters
  <2>. QED
    BY <1>2, <2>2 DEF CountersOK
<1>3. ASSUME CountersOK, UNCHANGED vars PROVE CountersOK'
  BY <1>3 DEF CountersOK, vars, counters
<1>. QED
  BY <1>1, <1>2, <1>3, PTL DEF Spec

\* TypeOK: every variable has its type; what Firestore shows are rows.
THEOREM TypeCorrect == Spec => []TypeOK
<1>1. ListInv /\ CountersOK => TypeOK
  BY DEF ListInv, CountersOK, TypeOK, StoreOK, RowsOK, ScreenOK, CallsOK
<1>. QED
  BY ListInvHolds, CountersHold, <1>1, PTL

\* ListsTogether: allNoteList and filteredNoteList never drift apart.
THEOREM ListsStayTogether == Spec => []ListsTogether
<1>1. ListInv => ListsTogether
  BY DEF ListInv
<1>. QED
  BY ListInvHolds, <1>1, PTL

\* SelectionFollows: prepare(for:), which reads indexPathForSelectedRow again, finds
\* the row that didSelectRowAt was called for.
THEOREM SelectionSafe == Spec => []SelectionFollows
<1>1. ListInv => SelectionFollows
  BY DEF ListInv, SelectionOK, SelectionFollows, Ids
<1>. QED
  BY ListInvHolds, <1>1, PTL

\* AlertKeepsItsRow: executeDeleteNote deletes the row its alert came up for.
THEOREM AlertSafe == Spec => []AlertKeepsItsRow
<1>1. ListInv => AlertKeepsItsRow
  BY DEF ListInv
<1>. QED
  BY ListInvHolds, <1>1, PTL

-----------------------------------------------------------------------------
(* What a creation replaces *)

\* A write of CreateNote: the new note, or the deletion of one left empty.
Creates(w) == w.kind = "set" \/ (w.kind = "delete" /\ w.new)

Sets(q, k, i)    == q[k].kind = "set" /\ q[k].id = i
Deletes(q, k, i) == q[k].kind = "delete" /\ q[k].id = i
Spares(q, k, i)  == ~Sets(q, k, i) /\ ~Deletes(q, k, i)

\* With the writes before k, device d finds neither a note of its own under the id i,
\* where the server has m, nor one with a stamp it saw.
Clear(q, m, d, i, saw, k) ==
    /\ \A a \in DOMAIN q : a < k /\ Sets(q, a, i) =>
          \E b \in DOMAIN q : a < b /\ b < k /\ Deletes(q, b, i)
    /\ (\A a \in DOMAIN q : a < k => Spares(q, a, i)) /\ m # None
       => m.by # d /\ m.stamp \notin saw

\* It is so before every creation that is unsent, and for the one in the editor.
CreationsClear ==
    \A d \in Device : \A k \in DOMAIN queue[d] :
        LET w == queue[d][k]
        IN  Creates(w) => Clear(queue[d], docs[w.id], d, w.id, w.saw, k)

EditorsClear ==
    \A d \in Device : screen[d] = "create" =>
        Clear(queue[d], docs[editor[d].id], d, editor[d].id, editor[d].saw, Len(queue[d]) + 1)

\* With the writes q, device d finds a note of its own under i.
FindsOwn(q, m, d, i) ==
    \/ \E a \in DOMAIN q : Sets(q, a, i) /\ \A b \in DOMAIN q : b > a => ~Deletes(q, b, i)
    \/ (\A a \in DOMAIN q : Spares(q, a, i)) /\ m # None /\ m.by = d

\* The list holds it, unless it is about to be loaded.
OwnHeld ==
    \A d \in Device : alert[d] # Loading \/ shown[d] # "none" =>
        \A i \in Id : FindsOwn(queue[d], docs[i], d, i) => \E r \in all[d] : r.id = i

\* The stamps a device knows: of its rows, its editor and its creations.
Knows(rs, e, q, s) ==
    \/ \E r \in rs : r.doc.stamp = s
    \/ s \in e.saw
    \/ \E k \in DOMAIN q : Creates(q[k]) /\ s \in q[k].saw

\* Every stamp has been given, to a note of the device that sends it.
StampsGiven ==
    /\ \A d \in Device, s \in Stamp : Knows(all[d], editor[d], queue[d], s) => s <= made
    /\ \A i \in Id : docs[i] # None => docs[i].stamp <= made
    /\ \A d \in Device : \A k \in DOMAIN queue[d] :
          queue[d][k].kind = "set" => queue[d][k].doc.stamp <= made /\ queue[d][k].doc.by = d

\* No two notes have the same.
StampsApart ==
    /\ \A i, j \in Id : docs[i] # None /\ docs[j] # None /\ docs[i].stamp = docs[j].stamp
                        => i = j
    /\ \A d \in Device : \A k \in DOMAIN queue[d] : queue[d][k].kind = "set" =>
          /\ \A i \in Id : docs[i] # None => docs[i].stamp # queue[d][k].doc.stamp
          /\ \A e \in Device : \A m \in DOMAIN queue[e] :
                queue[e][m].kind = "set" /\ queue[e][m].doc.stamp = queue[d][k].doc.stamp
                => e = d /\ m = k

\* Nobody knows what another device has not sent.
UnsentUnknown ==
    \A d, e \in Device : \A k \in DOMAIN queue[e] : d # e /\ queue[e][k].kind = "set" =>
        ~Knows(all[d], editor[d], queue[d], queue[e][k].doc.stamp)

\* The rows have the ids that their notes have.
RowsPlaced ==
    \A d \in Device : \A r \in all[d] :
        /\ \A i \in Id : docs[i] # None /\ docs[i].stamp = r.doc.stamp => i = r.id
        /\ \A k \in DOMAIN queue[d] :
              queue[d][k].kind = "set" /\ queue[d][k].doc.stamp = r.doc.stamp
              => queue[d][k].id = r.id

StampInv == StampsGiven /\ StampsApart /\ UnsentUnknown /\ RowsPlaced
KeepInv  == CreationsClear /\ EditorsClear /\ OwnHeld /\ StampInv

-----------------------------------------------------------------------------
(* Queues that grow and shrink *)

LEMMA Domain == ASSUME NEW q \in Seq(Write)
                PROVE  /\ Len(q) \in Nat /\ DOMAIN q = 1 .. Len(q)
                       /\ \A k \in DOMAIN q : q[k] \in Write
BY LenProperties

LEMMA Appended ==
    ASSUME NEW q \in Seq(Write), NEW w \in Write
    PROVE  /\ Append(q, w) \in Seq(Write) /\ Len(Append(q, w)) = Len(q) + 1
           /\ DOMAIN Append(q, w) = 1 .. Len(q) + 1
           /\ Append(q, w)[Len(q) + 1] = w
           /\ \A k \in DOMAIN q : Append(q, w)[k] = q[k] /\ k \in DOMAIN Append(q, w)
           /\ \A k \in DOMAIN Append(q, w) : k \in DOMAIN q \/ k = Len(q) + 1
<1>1. /\ Append(q, w) \in Seq(Write) /\ Len(Append(q, w)) = Len(q) + 1
      /\ Append(q, w)[Len(q) + 1] = w
      /\ \A k \in 1 .. Len(q) : Append(q, w)[k] = q[k]
  BY AppendProperties
<1>. QED
  BY <1>1, Domain

LEMMA Tailed ==
    ASSUME NEW q \in Seq(Write), q # <<>>
    PROVE  /\ Tail(q) \in Seq(Write) /\ Len(Tail(q)) = Len(q) - 1
           /\ 1 \in DOMAIN q /\ Head(q) = q[1] /\ Head(q) \in Write
           /\ \A k \in DOMAIN Tail(q) : k + 1 \in DOMAIN q /\ Tail(q)[k] = q[k + 1]
           /\ \A k \in DOMAIN q : k # 1 => k - 1 \in DOMAIN Tail(q) /\ Tail(q)[k - 1] = q[k]
<1>1. /\ Tail(q) \in Seq(Write) /\ Len(Tail(q)) = Len(q) - 1 /\ Head(q) \in Write
      /\ \A k \in 1 .. Len(Tail(q)) : Tail(q)[k] = q[k + 1]
  BY HeadTailProperties
<1>2. Len(q) \in Nat \ {0} /\ Head(q) = q[1]
  BY EmptySeq
<1>3. DOMAIN q = 1 .. Len(q) /\ DOMAIN Tail(q) = 1 .. Len(q) - 1
  BY <1>1, Domain
<1>4. \A k \in DOMAIN q : k # 1 => k - 1 \in DOMAIN Tail(q) /\ q[k] = q[(k - 1) + 1]
  BY <1>2, <1>3
<1>. QED
  BY <1>1, <1>2, <1>3, <1>4

\* What the server makes of the document m, by a write.
Applied(w, m) ==
    CASE w.kind = "set" -> w.doc
      [] w.kind = "update" /\ m # None -> [m EXCEPT !.locked = w.locked]
      [] w.kind = "delete" -> None
      [] OTHER -> m

\* An update leaves stamp and maker.
Alike(m, n) == (m = None <=> n = None) /\ m.stamp = n.stamp /\ (m # None => m.by = n.by)

LEMMA UpdateAlike ==
    ASSUME NEW w \in Write, w.kind = "update", NEW m \in Doc \cup {None}
    PROVE  Alike(Applied(w, m), m)
<1>1. CASE m = None
  BY <1>1 DEF Applied, Alike
<1>2. CASE m # None
  <2>1. m \in Doc /\ Applied(w, m) = [m EXCEPT !.locked = w.locked]
    BY <1>2 DEF Applied
  <2>2. Applied(w, m).stamp = m.stamp /\ Applied(w, m).by = m.by
    BY <2>1 DEF Doc
  <2>3. m.stamp # 0 /\ None.stamp = 0
    BY <2>1 DEF Doc, None
  <2>. QED
    BY <1>2, <2>2, <2>3 DEF Alike
<1>. QED
  BY <1>1, <1>2

\* A write behind k changes nothing before it.
LEMMA ClearAppend ==
    ASSUME NEW q \in Seq(Write), NEW w \in Write, NEW k \in 1 .. Len(q) + 1,
           NEW m, NEW d, NEW i, NEW saw, Clear(q, m, d, i, saw, k)
    PROVE  Clear(Append(q, w), m, d, i, saw, k)
<1>. DEFINE p == Append(q, w)
<1>1. /\ \A a \in DOMAIN q : p[a] = q[a] /\ a \in DOMAIN p
      /\ \A a \in DOMAIN p : a < k => a \in DOMAIN q
  BY Appended, Domain
<1>. HIDE DEF p
<1>2. \A a \in DOMAIN q : Sets(p, a, i) = Sets(q, a, i) /\ Deletes(p, a, i) = Deletes(q, a, i)
                          /\ Spares(p, a, i) = Spares(q, a, i)
  BY <1>1 DEF Sets, Deletes, Spares
<1>3. Clear(p, m, d, i, saw, k)
  BY <1>1, <1>2 DEF Clear
<1>. QED
  BY <1>3 DEF p

\* A write that creates nothing leaves the editor's id clear.
LEMMA ClearBehind ==
    ASSUME NEW q \in Seq(Write), NEW w \in Write, w.kind # "set",
           NEW m, NEW d, NEW i, NEW saw, Clear(q, m, d, i, saw, Len(q) + 1)
    PROVE  Clear(Append(q, w), m, d, i, saw, Len(Append(q, w)) + 1)
<1>. DEFINE p == Append(q, w)
<1>1. /\ Len(p) = Len(q) + 1 /\ p[Len(q) + 1] = w /\ Len(q) \in Nat /\ DOMAIN q = 1 .. Len(q)
      /\ \A a \in DOMAIN q : p[a] = q[a] /\ a \in DOMAIN p
      /\ \A a \in DOMAIN p : a \in DOMAIN q \/ a = Len(q) + 1
  BY Appended, Domain
<1>. HIDE DEF p
<1>2. \A a \in DOMAIN q : Sets(p, a, i) = Sets(q, a, i) /\ Deletes(p, a, i) = Deletes(q, a, i)
                          /\ Spares(p, a, i) = Spares(q, a, i)
  BY <1>1 DEF Sets, Deletes, Spares
<1>3. ~Sets(p, Len(q) + 1, i)
  BY <1>1 DEF Sets
<1>4. ASSUME NEW a \in DOMAIN p, Sets(p, a, i)
      PROVE  \E b \in DOMAIN p : a < b /\ b < Len(p) + 1 /\ Deletes(p, b, i)
  <2>1. a \in DOMAIN q /\ a < Len(q) + 1 /\ Sets(q, a, i)
    BY <1>1, <1>2, <1>3, <1>4
  <2>2. PICK b \in DOMAIN q : a < b /\ b < Len(q) + 1 /\ Deletes(q, b, i)
    BY <2>1 DEF Clear
  <2>. QED
    BY <1>1, <1>2, <2>2
<1>5. ASSUME \A a \in DOMAIN p : a < Len(p) + 1 => Spares(p, a, i), m # None
      PROVE  m.by # d /\ m.stamp \notin saw
  <2>1. \A a \in DOMAIN q : a < Len(q) + 1 => Spares(q, a, i)
    BY <1>1, <1>2, <1>5
  <2>. QED
    BY <1>5, <2>1 DEF Clear
<1>6. Clear(p, m, d, i, saw, Len(p) + 1)
  BY <1>4, <1>5 DEF Clear
<1>. QED
  BY <1>6 DEF p

\* The device's oldest write is applied: what it did to the id is done.
LEMMA ClearTail ==
    ASSUME NEW q \in Seq(Write), q # <<>>, NEW k \in Nat, k > 1,
           NEW m, NEW n, NEW d, NEW i, NEW saw, Clear(q, m, d, i, saw, k),
           Deletes(q, 1, i) => n = None,
           Spares(q, 1, i) => Alike(n, m)
    PROVE  Clear(Tail(q), n, d, i, saw, k - 1)
<1>. DEFINE p == Tail(q)
<1>1. /\ 1 \in DOMAIN q /\ DOMAIN q \subseteq Nat /\ DOMAIN p \subseteq Nat
      /\ \A a \in DOMAIN p : a + 1 \in DOMAIN q /\ p[a] = q[a + 1]
      /\ \A a \in DOMAIN q : a # 1 => a - 1 \in DOMAIN p /\ p[a - 1] = q[a]
      /\ \A a \in DOMAIN q : a >= 1
  BY Tailed, Domain
<1>. HIDE DEF p
<1>2. ASSUME NEW a \in DOMAIN p, a < k - 1, Sets(p, a, i)
      PROVE  \E b \in DOMAIN p : a < b /\ b < k - 1 /\ Deletes(p, b, i)
  <2>1. a + 1 \in DOMAIN q /\ a + 1 < k /\ Sets(q, a + 1, i)
    BY <1>1, <1>2 DEF Sets
  <2>2. PICK b \in DOMAIN q : a + 1 < b /\ b < k /\ Deletes(q, b, i)
    BY <2>1 DEF Clear
  <2>3. b - 1 \in DOMAIN p /\ a < b - 1 /\ b - 1 < k - 1 /\ Deletes(p, b - 1, i)
    BY <1>1, <2>2 DEF Deletes
  <2>. QED
    BY <2>3
<1>3. ASSUME \A a \in DOMAIN p : a < k - 1 => Spares(p, a, i), n # None
      PROVE  n.by # d /\ n.stamp \notin saw
  <2>1. ASSUME NEW b \in DOMAIN q, b < k, b # 1
        PROVE  Spares(q, b, i)
    <3>1. b - 1 \in DOMAIN p /\ b - 1 < k - 1 /\ p[b - 1] = q[b]
      BY <1>1, <2>1
    <3>. QED
      BY <1>3, <3>1 DEF Spares, Sets, Deletes
  <2>2. ~Sets(q, 1, i)
    <3>. SUFFICES ASSUME Sets(q, 1, i)
                  PROVE  FALSE
      OBVIOUS
    <3>1. PICK b \in DOMAIN q : 1 < b /\ b < k /\ Deletes(q, b, i)
      BY <1>1 DEF Clear
    <3>. QED
      BY <2>1, <3>1 DEF Spares
  <2>3. Spares(q, 1, i)
    BY <1>3, <2>2 DEF Spares
  <2>4. m # None /\ m.by = n.by /\ m.stamp = n.stamp
    BY <1>3, <2>3 DEF Alike
  <2>. QED
    BY <2>1, <2>3, <2>4 DEF Clear
<1>4. Clear(p, n, d, i, saw, k - 1)
  BY <1>2, <1>3 DEF Clear
<1>. QED
  BY <1>4 DEF p

\* Another device's write brings a note of that device, which nobody has seen.
LEMMA ClearElse ==
    ASSUME NEW q, NEW m, NEW n, NEW d, NEW i, NEW saw, NEW k, Clear(q, m, d, i, saw, k),
           \/ n = None
           \/ n.by # d /\ n.stamp \notin saw
           \/ Alike(n, m)
    PROVE  Clear(q, n, d, i, saw, k)
BY DEF Clear, Alike

-----------------------------------------------------------------------------
(* What a device finds *)

\* A write that creates nothing brings no note of its own, and a deletion takes it.
LEMMA FindsAppend ==
    ASSUME NEW q \in Seq(Write), NEW w \in Write, w.kind # "set",
           NEW m, NEW d, NEW i, FindsOwn(Append(q, w), m, d, i)
    PROVE  FindsOwn(q, m, d, i) /\ ~(w.kind = "delete" /\ w.id = i)
<1>. DEFINE p == Append(q, w)
<1>1. /\ p[Len(q) + 1] = w /\ Len(q) \in Nat /\ DOMAIN q = 1 .. Len(q)
      /\ Len(q) + 1 \in DOMAIN p
      /\ \A a \in DOMAIN q : p[a] = q[a] /\ a \in DOMAIN p /\ a < Len(q) + 1
      /\ \A a \in DOMAIN p : a \in DOMAIN q \/ a = Len(q) + 1
  BY Appended, Domain
<1>2. FindsOwn(p, m, d, i)
  OBVIOUS
<1>. HIDE DEF p
<1>3. \A a \in DOMAIN q : Sets(p, a, i) = Sets(q, a, i) /\ Deletes(p, a, i) = Deletes(q, a, i)
                          /\ Spares(p, a, i) = Spares(q, a, i)
  BY <1>1 DEF Sets, Deletes, Spares
<1>4. ~Sets(p, Len(q) + 1, i) /\ (Deletes(p, Len(q) + 1, i) <=> w.kind = "delete" /\ w.id = i)
  BY <1>1 DEF Sets, Deletes
<1>5. CASE \E a \in DOMAIN p : Sets(p, a, i) /\ \A b \in DOMAIN p : b > a => ~Deletes(p, b, i)
  <2>1. PICK a \in DOMAIN p : Sets(p, a, i) /\ \A b \in DOMAIN p : b > a => ~Deletes(p, b, i)
    BY <1>5
  <2>2. a \in DOMAIN q /\ Sets(q, a, i) /\ a < Len(q) + 1
    BY <1>1, <1>3, <1>4, <2>1
  <2>3. \A b \in DOMAIN q : b > a => ~Deletes(q, b, i)
    BY <1>1, <1>3, <2>1
  <2>4. ~Deletes(p, Len(q) + 1, i)
    BY <1>1, <2>1, <2>2
  <2>. QED
    BY <1>4, <2>2, <2>3, <2>4 DEF FindsOwn
<1>6. CASE (\A a \in DOMAIN p : Spares(p, a, i)) /\ m # None /\ m.by = d
  BY <1>1, <1>3, <1>4, <1>6 DEF FindsOwn, Spares
<1>. QED
  BY <1>2, <1>5, <1>6 DEF FindsOwn

\* What the server applies for the device, the device has seen all along.
LEMMA FindsTail ==
    ASSUME NEW q \in Seq(Write), q # <<>>, NEW m, NEW n, NEW d, NEW i,
           Deletes(q, 1, i) => n = None,
           Spares(q, 1, i) => Alike(n, m),
           FindsOwn(Tail(q), n, d, i)
    PROVE  FindsOwn(q, m, d, i)
<1>. DEFINE p == Tail(q)
<1>1. /\ 1 \in DOMAIN q /\ DOMAIN q \subseteq Nat /\ DOMAIN p \subseteq Nat
      /\ \A a \in DOMAIN p : a + 1 \in DOMAIN q /\ p[a] = q[a + 1]
      /\ \A a \in DOMAIN q : a # 1 => a - 1 \in DOMAIN p /\ p[a - 1] = q[a]
      /\ \A a \in DOMAIN q : a >= 1
  BY Tailed, Domain
<1>2. FindsOwn(p, n, d, i)
  OBVIOUS
<1>. HIDE DEF p
<1>3. CASE \E a \in DOMAIN p : Sets(p, a, i) /\ \A b \in DOMAIN p : b > a => ~Deletes(p, b, i)
  <2>1. PICK a \in DOMAIN p : Sets(p, a, i) /\ \A b \in DOMAIN p : b > a => ~Deletes(p, b, i)
    BY <1>3
  <2>2. a + 1 \in DOMAIN q /\ Sets(q, a + 1, i)
    BY <1>1, <2>1 DEF Sets
  <2>3. ASSUME NEW b \in DOMAIN q, b > a + 1
        PROVE  ~Deletes(q, b, i)
    <3>1. b - 1 \in DOMAIN p /\ b - 1 > a /\ p[b - 1] = q[b]
      BY <1>1, <2>3
    <3>. QED
      BY <2>1, <3>1 DEF Deletes
  <2>. QED
    BY <2>2, <2>3 DEF FindsOwn
<1>4. CASE (\A a \in DOMAIN p : Spares(p, a, i)) /\ n # None /\ n.by = d
  <2>1. ASSUME NEW b \in DOMAIN q, b # 1
        PROVE  Spares(q, b, i)
    <3>1. b - 1 \in DOMAIN p /\ p[b - 1] = q[b]
      BY <1>1, <2>1
    <3>. QED
      BY <1>4, <3>1 DEF Spares, Sets, Deletes
  <2>2. CASE Sets(q, 1, i)
    BY <1>1, <2>1, <2>2 DEF FindsOwn, Spares
  <2>3. CASE Spares(q, 1, i)
    <3>1. m # None /\ m.by = d
      BY <1>4, <2>3 DEF Alike
    <3>. QED
      BY <2>1, <2>3, <3>1 DEF FindsOwn
  <2>. QED
    BY <1>4, <2>2, <2>3 DEF Spares
<1>. QED
  BY <1>2, <1>3, <1>4 DEF FindsOwn

LEMMA FindsElse ==
    ASSUME NEW q, NEW m, NEW n, NEW d, NEW i, n = None \/ n.by # d \/ Alike(n, m),
           FindsOwn(q, n, d, i)
    PROVE  FindsOwn(q, m, d, i)
BY DEF FindsOwn, Alike

\* An id under which the device finds nothing of its own, and nothing it saw, is clear.
LEMMA FreeIsClear ==
    ASSUME NEW q \in Seq(Write), NEW m, NEW d, NEW i, NEW saw,
           ~FindsOwn(q, m, d, i), m # None => m.stamp \notin saw
    PROVE  Clear(q, m, d, i, saw, Len(q) + 1)
<1>1. Len(q) \in Nat /\ DOMAIN q = 1 .. Len(q)
  BY Domain
<1>2. ASSUME NEW a \in DOMAIN q, Sets(q, a, i)
      PROVE  \E b \in DOMAIN q : a < b /\ b < Len(q) + 1 /\ Deletes(q, b, i)
  BY <1>1, <1>2 DEF FindsOwn
<1>3. (\A a \in DOMAIN q : a < Len(q) + 1 => Spares(q, a, i)) => \A a \in DOMAIN q : Spares(q, a, i)
  BY <1>1
<1>. QED
  BY <1>2, <1>3 DEF Clear, FindsOwn

\* A set of positions that is not empty has a last one.
LEMMA LastOf ==
    ASSUME NEW n \in Nat, NEW S \in SUBSET (0 .. n), S # {}
    PROVE  \E i \in S : \A j \in S : ~(j > i)
<1>. DEFINE T == {n - i : i \in S}
<1>1. T \subseteq Nat /\ T # {}
  <2>1. \A i \in S : n - i \in Nat
    OBVIOUS
  <2>2. PICK i \in S : TRUE
    OBVIOUS
  <2>3. n - i \in T
    OBVIOUS
  <2>. QED
    BY <2>1, <2>3
<1>2. PICK x \in T : \A y \in T : ~(<<y, x>> \in OpToRel(<, Nat))
  <2>. HIDE DEF T
  <2>. QED
    BY <1>1, NatLessThanWellFounded, WFMin, Zenon
<1>3. PICK i \in S : x = n - i
  OBVIOUS
<1>4. ASSUME NEW j \in S, j > i
      PROVE  FALSE
  <2>1. n - j \in T /\ n - j \in Nat /\ n - i \in Nat /\ n - j < n - i
    BY <1>4
  <2>2. <<n - j, x>> \in OpToRel(<, Nat)
    BY <1>3, <2>1 DEF OpToRel
  <2>. QED
    BY <1>2, <2>1, <2>2
<1>. QED
  BY <1>4

\* createNewUniqueNoteID: the id is that of no row.
LEMMA NewIdFree ==
    ASSUME NEW rs \in SUBSET Row, NEW r \in rs
    PROVE  NewId(rs) # r.id
<1>. DEFINE S == {q.id : q \in rs}
<1>1. S \in SUBSET (0 .. MaxId) /\ S # {} /\ MaxId \in Nat
  BY BoundAssumption DEF Row, Id
<1>2. PICK m \in S : \A j \in S : ~(j > m)
  <2>. HIDE DEF S
  <2>. QED
    BY <1>1, LastOf
<1>3. \E i \in S : \A q \in rs : q.id <= i
  <2>1. ASSUME NEW q \in rs
        PROVE  q.id <= m
    <3>1. q.id \in S /\ q.id \in Int /\ m \in Int
      BY <1>1
    <3>. QED
      BY <1>2, <3>1
  <2>. QED
    BY <2>1
<1>. DEFINE top == CHOOSE i \in S : \A q \in rs : q.id <= i
<1>4. top \in S /\ \A q \in rs : q.id <= top
  BY <1>3
<1>5. NewId(rs) = 1 + top
  BY DEF NewId
<1>. HIDE DEF top
<1>6. top \in Int /\ r.id \in Int /\ r.id <= top
  <2>1. r.id \in S /\ r.id <= top
    BY <1>4
  <2>2. \A i \in S : i \in Int
    BY <1>1
  <2>. QED
    BY <1>4, <2>1, <2>2
<1>. QED
  BY <1>5, <1>6

\* A row that is seen comes from the server or from an unsent creation.
LEMMA VisibleFrom ==
    ASSUME StoreOK, NEW d \in Device, NEW r \in Visible(d)
    PROVE  /\ r \in Row
           /\ \/ docs[r.id] # None /\ docs[r.id].stamp = r.doc.stamp
              \/ \E k \in DOMAIN queue[d] : /\ Sets(queue[d], k, r.id)
                                            /\ queue[d][k].doc.stamp = r.doc.stamp
<1>. DEFINE Seen(i) == {[id |-> i, doc |-> m, locked |-> l] : m \in Base(d, i), l \in Locks(d, i)}
            Put(x)  == [id |-> x.id, doc |-> [x.doc EXCEPT !.locked = x.locked]]
<1>1. Visible(d) = {Put(x) : x \in UNION {Seen(i) : i \in Id}}
  BY DEF Visible, Locks
<1>2. PICK i \in Id : \E x \in Seen(i) : r = Put(x)
  <2>. HIDE DEF Seen, Put
  <2>. QED
    BY <1>1
<1>3. PICK m \in Base(d, i), l \in Locks(d, i) : r = Put([id |-> i, doc |-> m, locked |-> l])
  BY <1>2
<1>4. m \in Doc
  BY BaseOne
<1>5. r.id = i /\ r.doc.stamp = m.stamp
  <2>1. r.id = i /\ r.doc = [m EXCEPT !.locked = l]
    BY <1>3
  <2>. QED
    BY <1>4, <2>1 DEF Doc
<1>6. \/ m = docs[i] /\ docs[i] # None
      \/ \E w \in Newest(d, i, {"set", "delete"}) : w.kind = "set" /\ m = w.doc
  BY DEF Base
<1>7. \A w \in Newest(d, i, {"set", "delete"}) :
         \E k \in DOMAIN queue[d] : w = queue[d][k] /\ queue[d][k].id = i
  BY DEF Newest
<1>8. r \in Row
  BY VisibleGood DEF Unique
<1>. QED
  BY <1>5, <1>6, <1>7, <1>8 DEF Sets

\* A document that is found has a lock, and is a row.
LEMMA BaseSeen ==
    ASSUME NEW d \in Device, NEW i \in Id, Base(d, i) # {}
    PROVE  \E r \in Visible(d) : r.id = i
<1>. DEFINE Seen(j) == {[id |-> j, doc |-> m, locked |-> l] : m \in Base(d, j), l \in Locks(d, j)}
            Put(x)  == [id |-> x.id, doc |-> [x.doc EXCEPT !.locked = x.locked]]
<1>1. Visible(d) = {Put(x) : x \in UNION {Seen(j) : j \in Id}}
  BY DEF Visible, Locks
<1>2. PICK m \in Base(d, i) : TRUE
  OBVIOUS
<1>3. Locks(d, i) # {}
  <2>. DEFINE new == Newest(d, i, {"set", "update"})
              Lock(w) == IF w.kind = "set" THEN w.doc.locked ELSE w.locked
  <2>1. Locks(d, i) = IF new = {} THEN {n.locked : n \in Base(d, i)} ELSE {Lock(w) : w \in new}
    BY DEF Locks
  <2>. HIDE DEF new, Lock
  <2>. QED
    BY <1>2, <2>1
<1>4. PICK l \in Locks(d, i) : TRUE
  BY <1>3
<1>. DEFINE x == [id |-> i, doc |-> m, locked |-> l]
<1>5. x \in Seen(i)
  OBVIOUS
<1>6. Put(x).id = i
  OBVIOUS
<1>. HIDE DEF Seen, Put, x
<1>7. Put(x) \in Visible(d)
  BY <1>1, <1>5
<1>. QED
  BY <1>6, <1>7

\* A note of its own that a device finds is a row.
LEMMA OwnVisible ==
    ASSUME StoreOK, NEW d \in Device, NEW i \in Id, FindsOwn(queue[d], docs[i], d, i)
    PROVE  \E r \in Visible(d) : r.id = i
<1>. DEFINE q == queue[d]
            new == Newest(d, i, {"set", "delete"})
<1>1. /\ q \in Seq(Write) /\ Len(q) \in Nat /\ DOMAIN q = 1 .. Len(q)
  BY Domain DEF StoreOK
<1>2. CASE \E a \in DOMAIN q : Sets(q, a, i) /\ \A b \in DOMAIN q : b > a => ~Deletes(q, b, i)
  <2>. DEFINE S == {a \in DOMAIN q : ~Spares(q, a, i)}
  <2>1. PICK a \in DOMAIN q : Sets(q, a, i) /\ \A b \in DOMAIN q : b > a => ~Deletes(q, b, i)
    BY <1>2
  <2>2. a \in S /\ S \in SUBSET (0 .. Len(q))
    BY <1>1, <2>1 DEF Spares
  <2>3. PICK k \in S : \A j \in S : ~(j > k)
    <3>. HIDE DEF S
    <3>. QED
      BY <1>1, <2>2, LastOf
  <2>4. k = a \/ k > a
    BY <1>1, <2>2, <2>3
  <2>5. Sets(q, k, i)
    BY <2>1, <2>3, <2>4 DEF Spares
  <2>6. \A m \in DOMAIN q : m > k => q[m].id # i \/ q[m].kind \notin {"set", "delete"}
    BY <2>3 DEF Spares, Sets, Deletes
  <2>7. q[k] \in new
    BY <2>3, <2>5, <2>6 DEF Newest, Sets
  <2>8. q[k].kind = "set"
    BY <2>5 DEF Sets
  <2>9. Base(d, i) = IF new = {} THEN {docs[i]} \ {None}
                     ELSE {w.doc : w \in {w \in new : w.kind = "set"}}
    BY DEF Base
  <2>10. Base(d, i) # {}
    <3>. HIDE DEF new, q
    <3>. QED
      BY <2>7, <2>8, <2>9
  <2>. QED
    BY <2>10, BaseSeen
<1>3. CASE (\A a \in DOMAIN q : Spares(q, a, i)) /\ docs[i] # None
  <2>1. new = {}
    BY <1>3 DEF Newest, Spares, Sets, Deletes
  <2>2. Base(d, i) = {docs[i]} \ {None}
    BY <2>1 DEF Base
  <2>. QED
    BY <1>3, <2>2, BaseSeen
<1>. QED
  BY <1>2, <1>3 DEF FindsOwn

-----------------------------------------------------------------------------
(* Stamps *)

\* A device that writes nothing and loads nothing knows no more than it did.
LEMMA StampsStay ==
    ASSUME StampInv, UNCHANGED <<docs, queue, made>>,
           \A e \in Device : /\ all'[e] \subseteq all[e]
                             /\ \A s \in editor'[e].saw : Knows(all[e], editor[e], queue[e], s)
    PROVE  StampInv'
<1>1. \A e \in Device : \A s :
         Knows(all'[e], editor'[e], queue'[e], s) => Knows(all[e], editor[e], queue[e], s)
  BY DEF Knows
<1>2. StampsGiven'
  BY <1>1 DEF StampInv, StampsGiven
<1>3. StampsApart'
  BY DEF StampInv, StampsApart
<1>4. UnsentUnknown'
  BY <1>1 DEF StampInv, UnsentUnknown
<1>5. RowsPlaced'
  BY DEF StampInv, RowsPlaced
<1>. QED
  BY <1>2, <1>3, <1>4, <1>5 DEF StampInv

\* A write is accepted; a new note has a stamp that nobody knows.
LEMMA StampsSend ==
    ASSUME StoreOK, RowsOK, StampInv, NEW d \in Device, NEW w \in Write, Send(d, w), docs' = docs,
           Creates(w) => w.saw \subseteq editor[d].saw,
           \/ w.kind = "set" /\ w.doc.stamp = made + 1 /\ w.doc.by = d /\ made' = made + 1
           \/ w.kind # "set" /\ made' = made,
           \A e \in Device : /\ all'[e] \subseteq all[e]
                             /\ editor'[e].saw \subseteq editor[e].saw
    PROVE  StampInv'
<1>. DEFINE n == Len(queue[d]) + 1
<1>1. /\ queue \in [Device -> Seq(Write)] /\ made \in Nat
      /\ queue'[d] = Append(queue[d], w)
      /\ \A e \in Device \ {d} : queue'[e] = queue[e]
  BY DEF StoreOK, Send
<1>2. /\ n \in DOMAIN queue'[d] /\ queue'[d][n] = w
      /\ \A k \in DOMAIN queue[d] : queue'[d][k] = queue[d][k]
      /\ \A k \in DOMAIN queue'[d] : k \in DOMAIN queue[d] \/ k = n
  BY <1>1, Appended, Domain
<1>3. \A e \in Device : \A k \in DOMAIN queue'[e] :
         \/ k \in DOMAIN queue[e] /\ queue'[e][k] = queue[e][k]
         \/ e = d /\ k = n /\ queue'[e][k] = w
  BY <1>1, <1>2
<1>. HIDE DEF n
<1>4. \A e \in Device : \A s :
         Knows(all'[e], editor'[e], queue'[e], s) => Knows(all[e], editor[e], queue[e], s)
  BY <1>3 DEF Knows
<1>5. made \in Nat /\ made' \in Nat /\ made <= made' /\ (w.kind = "set" => w.doc.stamp = made')
      /\ (w.kind = "set" => made < w.doc.stamp)
  BY <1>1
<1>6. \A e \in Device : \A k \in DOMAIN queue[e] : queue[e][k] \in Write
  BY <1>1, Domain
<1>7. \A e \in Device : \A k \in DOMAIN queue[e] :
         queue[e][k].kind = "set" => queue[e][k].doc.stamp \in Nat
  BY <1>6, WriteType DEF Doc, Stamp
<1>8. /\ \A i \in Id : docs[i] # None => docs[i].stamp \in Nat
      /\ \A e \in Device : \A r \in all[e] : r.doc.stamp \in Stamp
  BY DEF StoreOK, RowsOK, Row, Doc, Stamp
<1>9. StampsGiven'
  <2>1. ASSUME NEW e \in Device, NEW s \in Stamp, Knows(all'[e], editor'[e], queue'[e], s)
        PROVE  s <= made'
    <3>1. s <= made
      BY <1>4, <2>1 DEF StampInv, StampsGiven
    <3>. QED
      BY <1>5, <3>1 DEF Stamp
  <2>2. ASSUME NEW i \in Id, docs[i] # None
        PROVE  docs[i].stamp <= made'
    BY <1>5, <1>8, <2>2 DEF StampInv, StampsGiven
  <2>3. ASSUME NEW e \in Device, NEW k \in DOMAIN queue[e], queue[e][k].kind = "set"
        PROVE  queue[e][k].doc.stamp <= made' /\ queue[e][k].doc.by = e
    BY <1>5, <1>7, <2>3 DEF StampInv, StampsGiven
  <2>4. w.kind = "set" => w.doc.stamp <= made' /\ w.doc.by = d
    BY <1>5
  <2>. QED
    BY <1>3, <2>1, <2>2, <2>3, <2>4 DEF StampsGiven
<1>10. /\ \A i \in Id : docs[i] # None => docs[i].stamp <= made
       /\ \A e \in Device : \A k \in DOMAIN queue[e] :
             queue[e][k].kind = "set" => queue[e][k].doc.stamp <= made
       /\ \A e \in Device : \A r \in all[e] : r.doc.stamp <= made
  <2>1. \A e \in Device : \A r \in all[e] :
           r.doc.stamp \in Stamp /\ Knows(all[e], editor[e], queue[e], r.doc.stamp)
    BY <1>8 DEF Knows
  <2>. QED
    BY <2>1 DEF StampInv, StampsGiven
<1>11. /\ \A i \in Id : docs[i] # None /\ w.kind = "set" => docs[i].stamp # w.doc.stamp
       /\ \A e \in Device : \A k \in DOMAIN queue[e] :
             queue[e][k].kind = "set" /\ w.kind = "set" => queue[e][k].doc.stamp # w.doc.stamp
       /\ \A e \in Device : \A r \in all[e] : w.kind = "set" => r.doc.stamp # w.doc.stamp
  BY <1>5, <1>7, <1>8, <1>10 DEF Stamp
<1>12. StampsApart'
  <2>1. ASSUME NEW e \in Device, NEW k \in DOMAIN queue'[e], queue'[e][k].kind = "set"
        PROVE  \A i \in Id : docs[i] # None => docs[i].stamp # queue'[e][k].doc.stamp
    BY <1>3, <1>11, <2>1 DEF StampInv, StampsApart
  <2>2. ASSUME NEW e \in Device, NEW k \in DOMAIN queue'[e], queue'[e][k].kind = "set",
               NEW f \in Device, NEW m \in DOMAIN queue'[f], queue'[f][m].kind = "set",
               queue'[f][m].doc.stamp = queue'[e][k].doc.stamp
        PROVE  f = e /\ m = k
    <3>1. CASE k \in DOMAIN queue[e] /\ queue'[e][k] = queue[e][k]
      BY <1>3, <1>11, <2>2, <3>1 DEF StampInv, StampsApart
    <3>2. CASE e = d /\ k = n /\ queue'[e][k] = w
      BY <1>3, <1>11, <2>2, <3>2
    <3>. QED
      BY <1>3, <3>1, <3>2
  <2>. QED
    BY <2>1, <2>2 DEF StampInv, StampsApart
<1>13. UnsentUnknown'
  <2>1. ASSUME NEW e \in Device, NEW f \in Device, NEW k \in DOMAIN queue'[f], e # f,
               queue'[f][k].kind = "set",
               Knows(all[e], editor[e], queue[e], queue'[f][k].doc.stamp)
        PROVE  FALSE
    <3>1. CASE k \in DOMAIN queue[f] /\ queue'[f][k] = queue[f][k]
      BY <2>1, <3>1 DEF StampInv, UnsentUnknown
    <3>2. CASE queue'[f][k] = w
      <4>1. w.doc.stamp \in Stamp
        BY <1>5, <2>1, <3>2 DEF Stamp
      <4>2. w.doc.stamp <= made
        BY <2>1, <3>2, <4>1 DEF StampInv, StampsGiven
      <4>. QED
        BY <1>5, <2>1, <3>2, <4>1, <4>2 DEF Stamp
    <3>. QED
      BY <1>3, <3>1, <3>2
  <2>. QED
    BY <1>4, <2>1 DEF UnsentUnknown
<1>14. RowsPlaced'
  <2>1. ASSUME NEW e \in Device, NEW r \in all[e], NEW k \in DOMAIN queue'[e],
               queue'[e][k].kind = "set", queue'[e][k].doc.stamp = r.doc.stamp
        PROVE  queue'[e][k].id = r.id
    BY <1>3, <1>11, <2>1 DEF StampInv, RowsPlaced
  <2>. QED
    BY <2>1 DEF StampInv, RowsPlaced
<1>. QED
  BY <1>9, <1>12, <1>13, <1>14 DEF StampInv

\* The rows come from the server and from the device's own queue.
LEMMA StampsLoad ==
    ASSUME StoreOK, RowsOK, StampInv, NEW d \in Device, all' = [all EXCEPT ![d] = Visible(d)],
           UNCHANGED <<docs, queue, made, editor>>
    PROVE  StampInv'
<1>1. all'[d] = Visible(d) /\ \A e \in Device \ {d} : all'[e] = all[e]
  BY DEF RowsOK
<1>2. \A r \in Visible(d) :
         \/ r.id \in Id /\ docs[r.id] # None /\ docs[r.id].stamp = r.doc.stamp
         \/ \E k \in DOMAIN queue[d] : /\ Sets(queue[d], k, r.id)
                                       /\ queue[d][k].doc.stamp = r.doc.stamp
  BY VisibleFrom DEF Row
<1>3. \A e \in Device : \A s :
         Knows(all'[e], editor[e], queue[e], s) =>
           \/ Knows(all[e], editor[e], queue[e], s)
           \/ e = d /\ \E r \in Visible(d) : r.doc.stamp = s
  BY <1>1 DEF Knows
<1>4. ASSUME NEW r \in Visible(d)
      PROVE  /\ r.doc.stamp <= made
             /\ \A i \in Id : docs[i] # None /\ docs[i].stamp = r.doc.stamp => i = r.id
             /\ \A e \in Device : \A k \in DOMAIN queue[e] :
                   queue[e][k].kind = "set" /\ queue[e][k].doc.stamp = r.doc.stamp
                   => e = d /\ queue[e][k].id = r.id
  <2>1. CASE r.id \in Id /\ docs[r.id] # None /\ docs[r.id].stamp = r.doc.stamp
    BY <2>1 DEF StampInv, StampsGiven, StampsApart
  <2>2. CASE \E k \in DOMAIN queue[d] : /\ Sets(queue[d], k, r.id)
                                        /\ queue[d][k].doc.stamp = r.doc.stamp
    BY <2>2 DEF StampInv, StampsGiven, StampsApart, Sets
  <2>. QED
    BY <1>2, <2>1, <2>2
<1>5. StampsGiven'
  BY <1>3, <1>4 DEF StampInv, StampsGiven
<1>6. StampsApart'
  BY DEF StampInv, StampsApart
<1>7. UnsentUnknown'
  BY <1>3, <1>4 DEF StampInv, UnsentUnknown
<1>8. RowsPlaced'
  BY <1>1, <1>4 DEF StampInv, RowsPlaced
<1>. QED
  BY <1>5, <1>6, <1>7, <1>8 DEF StampInv

-----------------------------------------------------------------------------
(* The server applies a write *)

LEMMA Committed ==
    ASSUME StoreOK, NEW d \in Device, Commit(d)
    PROVE  /\ queue[d] \in Seq(Write) /\ queue[d] # <<>> /\ queue'[d] = Tail(queue[d])
           /\ \A e \in Device \ {d} : queue'[e] = queue[e]
           /\ 1 \in DOMAIN queue[d] /\ queue[d][1] \in Write
           /\ \A i \in Id : /\ Sets(queue[d], 1, i) => docs'[i] = queue[d][1].doc
                            /\ Deletes(queue[d], 1, i) => docs'[i] = None
                            /\ Spares(queue[d], 1, i) => Alike(docs'[i], docs[i])
<1>. DEFINE w == queue[d][1]
<1>1. /\ queue[d] \in Seq(Write) /\ queue[d] # <<>> /\ queue' = [queue EXCEPT ![d] = Tail(@)]
      /\ docs \in [Id -> Doc \cup {None}]
  BY DEF StoreOK, Commit
<1>2. 1 \in DOMAIN queue[d] /\ Head(queue[d]) = w /\ w \in Write
  BY <1>1, Tailed
<1>3. docs' = [docs EXCEPT ![w.id] = Applied(w, @)]
  BY <1>2 DEF Commit, Applied
<1>. HIDE DEF w
<1>4. w.kind \in {"set", "update", "delete"}
  BY <1>2, WriteType
<1>5. ASSUME NEW i \in Id
      PROVE  /\ w.kind = "set" /\ w.id = i => docs'[i] = w.doc
             /\ w.kind = "delete" /\ w.id = i => docs'[i] = None
             /\ ~(w.kind = "set" /\ w.id = i) /\ ~(w.kind = "delete" /\ w.id = i)
                => Alike(docs'[i], docs[i])
  <2>1. docs'[i] = IF i = w.id THEN Applied(w, docs[i]) ELSE docs[i]
    BY <1>1, <1>3
  <2>2. CASE w.id = i /\ w.kind = "update"
    BY <1>1, <1>2, <2>1, <2>2, UpdateAlike
  <2>3. CASE w.id = i /\ w.kind = "set"
    BY <2>1, <2>3 DEF Applied
  <2>4. CASE w.id = i /\ w.kind = "delete"
    BY <2>1, <2>4 DEF Applied
  <2>5. CASE w.id # i
    BY <2>1, <2>5 DEF Alike
  <2>. QED
    BY <1>4, <2>2, <2>3, <2>4, <2>5
<1>6. \A e \in Device : queue'[e] = IF e = d THEN Tail(queue[d]) ELSE queue[e]
  BY <1>1 DEF StoreOK
<1>. QED
  BY <1>1, <1>2, <1>5, <1>6 DEF w, Sets, Deletes, Spares

\* A document that is there was there, or has just been created.
LEMMA StampsCommit ==
    ASSUME StoreOK, StampInv, NEW d \in Device, Commit(d)
    PROVE  StampInv'
<1>. DEFINE q == queue[d]
<1>1. /\ q \in Seq(Write) /\ q # <<>> /\ queue'[d] = Tail(q) /\ 1 \in DOMAIN q
      /\ \A e \in Device \ {d} : queue'[e] = queue[e]
      /\ UNCHANGED <<all, editor, made>>
  BY Committed DEF Commit, rows
<1>2. ASSUME NEW i \in Id, docs'[i] # None
      PROVE  \/ Sets(q, 1, i) /\ docs'[i] = q[1].doc
             \/ docs[i] # None /\ docs'[i].stamp = docs[i].stamp
  BY <1>2, Committed DEF Spares, Alike
<1>3. \A k \in DOMAIN queue'[d] : k + 1 \in DOMAIN q /\ queue'[d][k] = q[k + 1]
                                    /\ k \in Nat /\ k + 1 # 1
  BY <1>1, Tailed, Domain
<1>4. ASSUME NEW e \in Device, NEW k \in DOMAIN queue'[e]
      PROVE  \E m \in DOMAIN queue[e] : queue'[e][k] = queue[e][m] /\ (e = d => m = k + 1 /\ m # 1)
                                        /\ (e # d => m = k)
  <2>1. CASE e = d
    BY <1>3, <1>4, <2>1
  <2>2. CASE e # d
    BY <1>1, <1>4, <2>2
  <2>. QED
    BY <2>1, <2>2
<1>5. \A e \in Device : \A s :
         Knows(all'[e], editor'[e], queue'[e], s) => Knows(all[e], editor[e], queue[e], s)
  BY <1>1, <1>4 DEF Knows
<1>. HIDE DEF q
<1>6. StampsGiven'
  <2>1. ASSUME NEW i \in Id, docs'[i] # None
        PROVE  docs'[i].stamp <= made
    BY <1>1, <1>2, <2>1 DEF StampInv, StampsGiven, Sets, q
  <2>2. ASSUME NEW e \in Device, NEW s \in Stamp, Knows(all'[e], editor'[e], queue'[e], s)
        PROVE  s <= made
    BY <1>5, <2>2 DEF StampInv, StampsGiven
  <2>3. ASSUME NEW e \in Device, NEW k \in DOMAIN queue'[e], queue'[e][k].kind = "set"
        PROVE  queue'[e][k].doc.stamp <= made /\ queue'[e][k].doc.by = e
    BY <1>4, <2>3 DEF StampInv, StampsGiven
  <2>. QED
    BY <1>1, <2>1, <2>2, <2>3 DEF StampsGiven
<1>7. StampsApart'
  <2>1. ASSUME NEW i \in Id, NEW j \in Id, docs'[i] # None, docs'[j] # None,
               docs'[i].stamp = docs'[j].stamp
        PROVE  i = j
    <3>1. CASE Sets(q, 1, i) /\ Sets(q, 1, j)
      BY <3>1 DEF Sets
    <3>2. CASE ~Sets(q, 1, i) \/ ~Sets(q, 1, j)
      BY <1>1, <1>2, <2>1, <3>2 DEF StampInv, StampsApart, Sets, q
    <3>. QED
      BY <3>1, <3>2
  <2>2. ASSUME NEW e \in Device, NEW k \in DOMAIN queue'[e], queue'[e][k].kind = "set",
               NEW i \in Id, docs'[i] # None, docs'[i].stamp = queue'[e][k].doc.stamp
        PROVE  FALSE
    <3>1. PICK m \in DOMAIN queue[e] : queue'[e][k] = queue[e][m] /\ (e = d => m # 1)
      BY <1>4
    <3>. QED
      BY <1>1, <1>2, <2>2, <3>1 DEF StampInv, StampsApart, Sets, q
  <2>3. ASSUME NEW e \in Device, NEW k \in DOMAIN queue'[e], queue'[e][k].kind = "set",
               NEW f \in Device, NEW m \in DOMAIN queue'[f], queue'[f][m].kind = "set",
               queue'[f][m].doc.stamp = queue'[e][k].doc.stamp
        PROVE  f = e /\ m = k
    <3>1. PICK x \in DOMAIN queue[e] : queue'[e][k] = queue[e][x] /\ (e = d => x = k + 1)
                                       /\ (e # d => x = k)
      BY <1>4
    <3>2. PICK y \in DOMAIN queue[f] : queue'[f][m] = queue[f][y] /\ (f = d => y = m + 1)
                                       /\ (f # d => y = m)
      BY <1>4
    <3>3. f = e /\ y = x
      BY <2>3, <3>1, <3>2 DEF StampInv, StampsApart
    <3>. QED
      BY <1>3, <3>1, <3>2, <3>3
  <2>. QED
    BY <2>1, <2>2, <2>3 DEF StampsApart
<1>8. UnsentUnknown'
  BY <1>4, <1>5 DEF StampInv, UnsentUnknown
<1>9. RowsPlaced'
  <2>1. ASSUME NEW e \in Device, NEW r \in all[e], NEW i \in Id, docs'[i] # None,
               docs'[i].stamp = r.doc.stamp
        PROVE  i = r.id
    <3>1. CASE docs[i] # None /\ docs'[i].stamp = docs[i].stamp
      BY <2>1, <3>1 DEF StampInv, RowsPlaced
    <3>2. CASE Sets(q, 1, i) /\ docs'[i] = q[1].doc
      <4>1. Knows(all[e], editor[e], queue[e], q[1].doc.stamp)
        BY <2>1, <3>2 DEF Knows
      <4>2. e = d
        BY <1>1, <3>2, <4>1 DEF StampInv, UnsentUnknown, Sets, q
      <4>. QED
        BY <1>1, <2>1, <3>2, <4>2 DEF StampInv, RowsPlaced, Sets, q
    <3>. QED
      BY <1>2, <2>1, <3>1, <3>2
  <2>2. ASSUME NEW e \in Device, NEW r \in all[e], NEW k \in DOMAIN queue'[e],
               queue'[e][k].kind = "set", queue'[e][k].doc.stamp = r.doc.stamp
        PROVE  queue'[e][k].id = r.id
    BY <1>4, <2>2 DEF StampInv, RowsPlaced
  <2>. QED
    BY <1>1, <2>1, <2>2 DEF RowsPlaced
<1>. QED
  BY <1>6, <1>7, <1>8, <1>9 DEF StampInv

LEMMA ClearCommit ==
    ASSUME StoreOK, ScreenOK, KeepInv, NEW d \in Device, Commit(d)
    PROVE  CreationsClear' /\ EditorsClear' /\ OwnHeld'
<1>1. /\ queue[d] \in Seq(Write) /\ queue[d] # <<>> /\ queue'[d] = Tail(queue[d])
      /\ 1 \in DOMAIN queue[d]
      /\ \A e \in Device \ {d} : queue'[e] = queue[e]
      /\ UNCHANGED <<all, editor, screen, alert, shown>>
  BY Committed DEF Commit, rows
<1>2. ASSUME NEW i \in Id
      PROVE  /\ Deletes(queue[d], 1, i) => docs'[i] = None
             /\ Spares(queue[d], 1, i) => Alike(docs'[i], docs[i])
  BY Committed
<1>3. ASSUME NEW e \in Device \ {d}, NEW i \in Id
      PROVE  \/ docs'[i] = None
             \/ /\ docs'[i].by # e
                /\ \A s : Knows(all[e], editor[e], queue[e], s) => docs'[i].stamp # s
             \/ Alike(docs'[i], docs[i])
  <2>1. CASE Sets(queue[d], 1, i)
    <3>1. docs'[i] = queue[d][1].doc /\ queue[d][1].kind = "set"
      BY <2>1, Committed DEF Sets
    <3>2. queue[d][1].doc.by = d
      BY <1>1, <3>1 DEF KeepInv, StampInv, StampsGiven
    <3>3. ~Knows(all[e], editor[e], queue[e], queue[d][1].doc.stamp)
      BY <1>1, <3>1 DEF KeepInv, StampInv, UnsentUnknown
    <3>. QED
      BY <3>1, <3>2, <3>3
  <2>. QED
    BY <1>2, <2>1 DEF Spares
<1>4. \A e \in Device : \A k \in DOMAIN queue[e] : queue[e][k].id \in Id
  BY Domain, WriteType DEF StoreOK
<1>5. CreationsClear'
  <2>1. ASSUME NEW k \in DOMAIN queue'[d], Creates(queue'[d][k])
        PROVE  LET w == queue'[d][k]
               IN  Clear(queue'[d], docs'[w.id], d, w.id, w.saw, k)
    <3>. DEFINE w == queue'[d][k]
    <3>1. k \in Nat /\ k + 1 \in Nat /\ k + 1 > 1 /\ (k + 1) - 1 = k
          /\ k + 1 \in DOMAIN queue[d] /\ w = queue[d][k + 1]
      BY <1>1, Tailed, Domain
    <3>2. Creates(w)
      BY <2>1
    <3>. HIDE DEF w
    <3>3. w.id \in Id /\ Clear(queue[d], docs[w.id], d, w.id, w.saw, k + 1)
      BY <1>4, <3>1, <3>2 DEF KeepInv, CreationsClear
    <3>4. Clear(Tail(queue[d]), docs'[w.id], d, w.id, w.saw, (k + 1) - 1)
      BY <1>1, <1>2, <3>1, <3>3, ClearTail
    <3>5. Clear(queue'[d], docs'[w.id], d, w.id, w.saw, k)
      BY <1>1, <3>1, <3>4
    <3>. QED
      BY <3>5 DEF w
  <2>2. ASSUME NEW e \in Device \ {d}, NEW k \in DOMAIN queue[e], Creates(queue[e][k])
        PROVE  LET w == queue[e][k]
               IN  Clear(queue[e], docs'[w.id], e, w.id, w.saw, k)
    <3>. DEFINE w == queue[e][k]
    <3>1. \A s \in w.saw : Knows(all[e], editor[e], queue[e], s)
      BY <2>2 DEF Knows
    <3>2. w.id \in Id /\ Clear(queue[e], docs[w.id], e, w.id, w.saw, k)
      BY <1>4, <2>2 DEF KeepInv, CreationsClear
    <3>. HIDE DEF w
    <3>3. \/ docs'[w.id] = None
          \/ docs'[w.id].by # e /\ docs'[w.id].stamp \notin w.saw
          \/ Alike(docs'[w.id], docs[w.id])
      BY <1>3, <3>1, <3>2
    <3>4. Clear(queue[e], docs'[w.id], e, w.id, w.saw, k)
      BY <3>2, <3>3, ClearElse
    <3>. QED
      BY <3>4 DEF w
  <2>. QED
    BY <1>1, <2>1, <2>2 DEF CreationsClear
<1>6. EditorsClear'
  <2>1. ASSUME NEW e \in Device, screen[e] = "create"
        PROVE  Clear(queue'[e], docs'[editor[e].id], e, editor[e].id, editor[e].saw,
                     Len(queue'[e]) + 1)
    <3>. DEFINE i == editor[e].id
                saw == editor[e].saw
    <3>1. i \in Id /\ Clear(queue[e], docs[i], e, i, saw, Len(queue[e]) + 1)
      BY <2>1 DEF KeepInv, EditorsClear, ScreenOK, Editor
    <3>2. \A s \in saw : Knows(all[e], editor[e], queue[e], s)
      BY DEF Knows
    <3>. HIDE DEF i, saw
    <3>3. CASE e = d
      <4>1. Len(queue[d]) \in Nat /\ Len(queue[d]) + 1 > 1 /\ Len(queue[d]) + 1 \in Nat
            /\ (Len(queue[d]) + 1) - 1 = Len(queue'[d]) + 1
        <5>1. Len(queue[d]) \in Nat /\ Len(queue[d]) >= 1
          BY <1>1, Domain
        <5>2. Len(queue'[d]) = Len(queue[d]) - 1
          BY <1>1, Tailed
        <5>. QED
          BY <5>1, <5>2
      <4>2. Clear(queue[d], docs[i], d, i, saw, Len(queue[d]) + 1)
        BY <3>1, <3>3
      <4>3. Clear(Tail(queue[d]), docs'[i], d, i, saw, (Len(queue[d]) + 1) - 1)
        BY <1>1, <1>2, <3>1, <4>1, <4>2, ClearTail
      <4>. QED
        BY <1>1, <3>3, <4>1, <4>3 DEF i, saw
    <3>4. CASE e # d
      <4>1. \/ docs'[i] = None
            \/ docs'[i].by # e /\ docs'[i].stamp \notin saw
            \/ Alike(docs'[i], docs[i])
        BY <1>3, <3>1, <3>2, <3>4
      <4>2. Clear(queue[e], docs'[i], e, i, saw, Len(queue[e]) + 1)
        BY <3>1, <4>1, ClearElse
      <4>. QED
        BY <1>1, <3>4, <4>2 DEF i, saw
    <3>. QED
      BY <3>3, <3>4
  <2>. QED
    BY <1>1, <2>1 DEF EditorsClear
<1>7. OwnHeld'
  <2>1. ASSUME NEW e \in Device, NEW i \in Id, FindsOwn(queue'[e], docs'[i], e, i)
        PROVE  FindsOwn(queue[e], docs[i], e, i)
    <3>1. CASE e = d
      <4>1. FindsOwn(Tail(queue[d]), docs'[i], d, i)
        BY <1>1, <2>1, <3>1
      <4>2. FindsOwn(queue[d], docs[i], d, i)
        BY <1>1, <1>2, <4>1, FindsTail
      <4>. QED
        BY <3>1, <4>2
    <3>2. CASE e # d
      <4>1. docs'[i] = None \/ docs'[i].by # e \/ Alike(docs'[i], docs[i])
        BY <1>3, <3>2
      <4>. QED
        BY <1>1, <2>1, <3>2, <4>1, FindsElse
    <3>. QED
      BY <3>1, <3>2
  <2>. QED
    BY <1>1, <2>1 DEF KeepInv, OwnHeld
<1>. QED
  BY <1>5, <1>6, <1>7

-----------------------------------------------------------------------------
(* The device's own steps *)

\* The queue grows at its end.
LEMMA ClearSend ==
    ASSUME StoreOK, KeepInv, NEW d \in Device, NEW w \in Write, Send(d, w), docs' = docs,
           Creates(w) => Clear(queue[d], docs[w.id], d, w.id, w.saw, Len(queue[d]) + 1),
           \A e \in Device : screen'[e] = "create" =>
              screen[e] = "create" /\ editor'[e] = editor[e] /\ (e # d \/ w.kind # "set")
    PROVE  CreationsClear' /\ EditorsClear'
<1>. DEFINE n == Len(queue[d]) + 1
<1>1. /\ queue[d] \in Seq(Write) /\ queue'[d] = Append(queue[d], w)
      /\ \A e \in Device \ {d} : queue'[e] = queue[e]
  BY DEF StoreOK, Send
<1>2. /\ n \in 1 .. Len(queue[d]) + 1 /\ DOMAIN queue[d] \subseteq 1 .. Len(queue[d]) + 1
      /\ queue'[d][n] = w /\ \A k \in DOMAIN queue[d] : queue'[d][k] = queue[d][k]
      /\ \A k \in DOMAIN queue'[d] : k \in DOMAIN queue[d] \/ k = n
  BY <1>1, Appended, Domain
<1>. HIDE DEF n
<1>3. ASSUME NEW k \in DOMAIN queue'[d], Creates(queue'[d][k])
      PROVE  LET v == queue'[d][k] IN Clear(queue'[d], docs[v.id], d, v.id, v.saw, k)
  <2>. DEFINE v == queue'[d][k]
  <2>1. Clear(queue[d], docs[v.id], d, v.id, v.saw, k) /\ k \in 1 .. Len(queue[d]) + 1
    <3>1. CASE k \in DOMAIN queue[d]
      BY <1>2, <1>3, <3>1 DEF KeepInv, CreationsClear
    <3>2. CASE k = n
      BY <1>2, <1>3, <3>2 DEF n
    <3>. QED
      BY <1>2, <3>1, <3>2
  <2>. HIDE DEF v
  <2>2. Clear(Append(queue[d], w), docs[v.id], d, v.id, v.saw, k)
    BY <1>1, <2>1, ClearAppend
  <2>. QED
    BY <1>1, <2>2 DEF v
<1>4. CreationsClear'
  BY <1>1, <1>3 DEF KeepInv, CreationsClear
<1>5. ASSUME screen'[d] = "create"
      PROVE  Clear(queue'[d], docs[editor[d].id], d, editor[d].id, editor[d].saw,
                   Len(queue'[d]) + 1)
  <2>. DEFINE i == editor[d].id
              saw == editor[d].saw
  <2>1. Clear(queue[d], docs[i], d, i, saw, Len(queue[d]) + 1) /\ w.kind # "set"
    BY <1>5 DEF KeepInv, EditorsClear
  <2>. HIDE DEF i, saw
  <2>2. Clear(Append(queue[d], w), docs[i], d, i, saw, Len(Append(queue[d], w)) + 1)
    BY <1>1, <2>1, ClearBehind
  <2>. QED
    BY <1>1, <2>2 DEF i, saw
<1>6. EditorsClear'
  BY <1>1, <1>5 DEF KeepInv, EditorsClear
<1>. QED
  BY <1>4, <1>6

\* What is written leaves a row to every note of its own that is left.
LEMMA OwnSend ==
    ASSUME StoreOK, OwnHeld, NEW d \in Device, NEW w \in Write, Send(d, w), docs' = docs,
           w.kind # "set", shown' = shown,
           \A e \in Device : alert[e] = Loading => alert'[e] = Loading,
           \A e \in Device : \A r \in all[e] :
              r \in all'[e] \/ (e = d /\ w.kind = "delete" /\ w.id = r.id)
    PROVE  OwnHeld'
<1>1. /\ queue[d] \in Seq(Write) /\ queue'[d] = Append(queue[d], w)
      /\ \A e \in Device \ {d} : queue'[e] = queue[e]
  BY DEF StoreOK, Send
<1>2. ASSUME NEW e \in Device, alert'[e] # Loading \/ shown'[e] # "none", NEW i \in Id,
             FindsOwn(queue'[e], docs[i], e, i)
      PROVE  \E r \in all'[e] : r.id = i
  <2>1. FindsOwn(queue[e], docs[i], e, i) /\ ~(e = d /\ w.kind = "delete" /\ w.id = i)
    <3>1. CASE e = d
      <4>1. FindsOwn(Append(queue[d], w), docs[i], d, i)
        BY <1>1, <1>2, <3>1
      <4>2. FindsOwn(queue[d], docs[i], d, i) /\ ~(w.kind = "delete" /\ w.id = i)
        BY <1>1, <4>1, FindsAppend
      <4>. QED
        BY <3>1, <4>2
    <3>2. CASE e # d
      BY <1>1, <1>2, <3>2
    <3>. QED
      BY <3>1, <3>2
  <2>2. PICK r \in all[e] : r.id = i
    BY <1>2, <2>1 DEF OwnHeld
  <2>. QED
    BY <2>1, <2>2
<1>. QED
  BY <1>2 DEF OwnHeld

\* A list that is about to be loaded need not hold anything.
LEMMA OwnLoads ==
    ASSUME OwnHeld, NEW d \in Device, docs' = docs, alert'[d] = Loading, shown'[d] = "none",
           \A e \in Device \ {d} : /\ queue'[e] = queue[e] /\ all'[e] = all[e]
                                   /\ alert'[e] = alert[e] /\ shown'[e] = shown[e]
    PROVE  OwnHeld'
BY DEF OwnHeld

LEMMA ClearStays ==
    ASSUME KeepInv, UNCHANGED <<docs, queue>>,
           \A e \in Device : screen'[e] = "create" => screen[e] = "create" /\ editor'[e] = editor[e]
    PROVE  CreationsClear' /\ EditorsClear'
BY DEF KeepInv, CreationsClear, EditorsClear

\* A step that writes nothing, loads nothing and opens no editor.
LEMMA QuietKeeps ==
    ASSUME KeepInv, UNCHANGED <<docs, queue, all, editor, made>>,
           \A e \in Device : screen'[e] = "create" => screen[e] = "create",
           \A e \in Device : alert'[e] # Loading \/ shown'[e] # "none"
                             => alert[e] # Loading \/ shown[e] # "none"
    PROVE  KeepInv'
<1>1. CreationsClear' /\ EditorsClear'
  BY ClearStays
<1>2. OwnHeld'
  BY DEF KeepInv, OwnHeld
<1>3. StampInv'
  <2>1. \A e \in Device : \A s \in editor'[e].saw : Knows(all[e], editor[e], queue[e], s)
    BY DEF Knows
  <2>. QED
    BY <2>1, StampsStay DEF KeepInv
<1>. QED
  BY <1>1, <1>2, <1>3 DEF KeepInv

LEMMA RestartKeeps ==
    ASSUME ListInv, KeepInv, NEW d \in Device, Restart(d)
    PROVE  KeepInv'
<1>1. /\ screen' = [screen EXCEPT ![d] = "list"] /\ alert' = [alert EXCEPT ![d] = Loading]
      /\ all' = [all EXCEPT ![d] = {}] /\ shown' = [shown EXCEPT ![d] = "none"]
      /\ UNCHANGED <<docs, queue, editor, made>>
  BY DEF Restart, Show, Cover
<1>2. /\ screen'[d] = "list" /\ alert'[d] = Loading /\ all'[d] = {} /\ shown'[d] = "none"
      /\ \A e \in Device \ {d} : /\ screen'[e] = screen[e] /\ alert'[e] = alert[e]
                                 /\ all'[e] = all[e] /\ shown'[e] = shown[e]
  BY <1>1 DEF ListInv, RowsOK, ScreenOK
<1>3. CreationsClear' /\ EditorsClear'
  BY <1>1, <1>2, ClearStays
<1>4. OwnHeld'
  BY <1>1, <1>2, OwnLoads DEF KeepInv
<1>5. StampInv'
  <2>1. \A e \in Device : /\ all'[e] \subseteq all[e]
                          /\ \A s \in editor'[e].saw : Knows(all[e], editor[e], queue[e], s)
    BY <1>1, <1>2 DEF Knows
  <2>. QED
    BY <1>1, <2>1, StampsStay DEF KeepInv
<1>. QED
  BY <1>3, <1>4, <1>5 DEF KeepInv

LEMMA ShownScreens ==
    ASSUME ListInv, NEW d \in Device, NEW s \in Screens, Show(d, s)
    PROVE  screen'[d] = s /\ \A e \in Device \ {d} : screen'[e] = screen[e]
BY DEF ListInv, ScreenOK, Show

LEMMA Covered ==
    ASSUME ListInv, NEW d \in Device, NEW a, Cover(d, a)
    PROVE  alert'[d] = a /\ \A e \in Device \ {d} : alert'[e] = alert[e]
BY DEF ListInv, ScreenOK, Cover

LEMMA AlertsApart == NoAlert # Loading /\ Message # Loading
BY DEF NoAlert, Loading, Message

LEMMA QuietSteps ==
    ASSUME ListInv, KeepInv, NEW d \in Device,
           \/ \E k \in Nat : TapRow(d, k)
           \/ \E k \in Nat : AskPasscode(d, k)
           \/ \E scope : Search(d, scope)
           \/ Dismiss(d) \/ Refresh(d) \/ ShowAnswer(d) \/ Notice(d)
    PROVE  KeepInv'
<1>1. UNCHANGED <<docs, queue, all, editor, made, screen>>
  BY DEF TapRow, AskPasscode, Search, Dismiss, Refresh, ShowAnswer, Notice, rows
<1>2. ASSUME NEW e \in Device, alert'[e] # Loading \/ shown'[e] # "none"
      PROVE  alert[e] # Loading \/ shown[e] # "none"
  <2>1. CASE (\E k \in Nat : TapRow(d, k)) \/ \E scope : Search(d, scope)
    BY <1>2, <2>1 DEF TapRow, Search
  <2>2. CASE Dismiss(d)
    <3>1. shown' = shown /\ Cover(d, NoAlert) /\ alert[d].kind \in {"passcode", "message"}
      BY <2>2 DEF Dismiss, rows
    <3>2. alert[d] # Loading /\ (e # d => alert'[e] = alert[e])
      BY <3>1, Covered DEF Loading
    <3>. QED
      BY <1>2, <3>1, <3>2
  <2>3. CASE Refresh(d)
    <3>1. shown' = shown /\ alert[d] = NoAlert
      BY <2>3 DEF Refresh, rows, MayTouch
    <3>2. e # d => alert'[e] = alert[e]
      BY <2>3, Covered DEF Refresh
    <3>. QED
      BY <1>2, <3>1, <3>2, AlertsApart
  <2>4. CASE ShowAnswer(d)
    <3>1. shown[d] # "none" /\ (e # d => alert'[e] = alert[e])
      BY <2>4, Covered DEF ShowAnswer, Uncover
    <3>2. e # d => shown'[e] = shown[e]
      BY <2>4 DEF ShowAnswer, ListInv, RowsOK
    <3>. QED
      BY <1>2, <3>1, <3>2
  <2>5. CASE Notice(d) \/ \E k \in Nat : AskPasscode(d, k)
    <3>1. shown' = shown
      BY <2>5 DEF Notice, AskPasscode, rows
    <3>2. alert' = alert \/ (alert[d] = NoAlert /\ \E a : Cover(d, a))
      BY <2>5 DEF Notice, AskPasscode, Present
    <3>3. alert' = alert \/ alert[d] = NoAlert
      BY <3>2
    <3>4. e # d => alert'[e] = alert[e]
      BY <3>2, Covered
    <3>. QED
      BY <1>2, <3>1, <3>3, <3>4, AlertsApart
  <2>. QED
    BY <2>1, <2>2, <2>3, <2>4, <2>5
<1>. QED
  BY <1>1, <1>2, QuietKeeps

LEMMA TabKeeps ==
    ASSUME ListInv, KeepInv, NEW d \in Device, ShowShared(d) \/ BackToList(d)
    PROVE  KeepInv'
<1>1. UNCHANGED <<docs, queue, all, editor, made, shown>>
  BY DEF ShowShared, BackToList, rows
<1>2. "shared" \in Screens /\ "list" \in Screens
  BY DEF Screens
<1>3. \A e \in Device : screen'[e] = "create" => screen[e] = "create"
  BY <1>2, ShownScreens DEF ShowShared, BackToList, ShowList
<1>4. alert' = alert \/ Cover(d, Loading)
  BY DEF ShowShared, BackToList, ShowList
<1>5. \A e \in Device : alert'[e] # Loading => alert[e] # Loading
  BY <1>4, Covered
<1>. QED
  BY <1>1, <1>3, <1>5, QuietKeeps

\* prepare(for:) AddNewNote: under the id chosen there is no note that the list holds.
LEMMA AddNoteKeeps ==
    ASSUME ListInv, KeepInv, NEW d \in Device, AddNote(d)
    PROVE  KeepInv'
<1>. DEFINE i == NewId(all[d])
            saw == {r.doc.stamp : r \in all[d]}
<1>1. /\ i \in Id /\ screen' = [screen EXCEPT ![d] = "create"]
      /\ editor' = [editor EXCEPT ![d] = [id |-> i, saw |-> saw]]
      /\ alert[d] = NoAlert
      /\ UNCHANGED <<docs, queue, all, shown, alert, made>>
  BY DEF AddNote, MayTouch, Show, rows
<1>2. all[d] \in SUBSET Row /\ queue[d] \in Seq(Write)
  BY DEF ListInv, RowsOK, StoreOK
<1>3. \A r \in all[d] : i # r.id
  BY <1>2, NewIdFree
<1>4. ~FindsOwn(queue[d], docs[i], d, i)
  BY <1>1, <1>3, AlertsApart DEF KeepInv, OwnHeld
<1>5. docs[i] # None => docs[i].stamp \notin saw
  BY <1>1, <1>3 DEF KeepInv, StampInv, RowsPlaced
<1>. HIDE DEF i, saw
<1>6. Clear(queue[d], docs[i], d, i, saw, Len(queue[d]) + 1)
  BY <1>2, <1>4, <1>5, FreeIsClear
<1>7. /\ editor'[d].id = i /\ editor'[d].saw = saw
      /\ \A e \in Device \ {d} : editor'[e] = editor[e] /\ screen'[e] = screen[e]
  BY <1>1 DEF ListInv, ScreenOK
<1>8. CreationsClear'
  BY <1>1 DEF KeepInv, CreationsClear
<1>9. EditorsClear'
  BY <1>1, <1>6, <1>7 DEF KeepInv, EditorsClear
<1>10. OwnHeld'
  BY <1>1 DEF KeepInv, OwnHeld
<1>11. StampInv'
  <2>1. \A e \in Device : \A s \in editor'[e].saw : Knows(all[e], editor[e], queue[e], s)
    BY <1>7 DEF saw, Knows
  <2>. QED
    BY <1>1, <2>1, StampsStay DEF KeepInv
<1>. QED
  BY <1>8, <1>9, <1>10, <1>11 DEF KeepInv

LEMMA OpenRowKeeps ==
    ASSUME ListInv, KeepInv, NEW d \in Device, NEW i \in Id, OpenRow(d, i)
    PROVE  KeepInv'
<1>1. CASE Restart(d)
  BY <1>1, RestartKeeps
<1>2. CASE /\ Present(d, Message)
           /\ UNCHANGED <<docs, queue, screen, rows, editor, loads, swipes, changed, made, tapped>>
  <2>1. UNCHANGED <<docs, queue, screen, all, shown, editor, made>>
    BY <1>2 DEF rows
  <2>2. \A e \in Device : alert'[e] # Loading => alert[e] # Loading
    BY <1>2, Covered, AlertsApart DEF Present
  <2>. QED
    BY <2>1, <2>2, QuietKeeps
<1>3. CASE OpenSelected(d, i) /\ ~Restart(d)
  <2>1. /\ Show(d, "detail") /\ UNCHANGED <<docs, queue, all, shown, alert, made>>
    BY <1>3 DEF OpenSelected, rows
  <2>2. PICK r \in At(filtered[d], selected[d]) :
            editor' = [editor EXCEPT ![d] = [id |-> r.id, saw |-> {}]]
    BY <1>3 DEF OpenSelected
  <2>3. "detail" \in Screens
    BY DEF Screens
  <2>4. screen'[d] = "detail" /\ \A e \in Device \ {d} : screen'[e] = screen[e]
    BY <2>1, <2>3, ShownScreens
  <2>5. editor'[d].saw = {} /\ \A e \in Device \ {d} : editor'[e] = editor[e]
    BY <2>2 DEF ListInv, ScreenOK
  <2>6. CreationsClear' /\ EditorsClear'
    BY <2>1, <2>4, <2>5, ClearStays
  <2>7. OwnHeld'
    BY <2>1 DEF KeepInv, OwnHeld
  <2>8. StampInv'
    <3>1. \A e \in Device : \A s \in editor'[e].saw : Knows(all[e], editor[e], queue[e], s)
      BY <2>5 DEF Knows
    <3>. QED
      BY <2>1, <3>1, StampsStay DEF KeepInv
  <2>. QED
    BY <2>6, <2>7, <2>8 DEF KeepInv
<1>. QED
  BY <1>1, <1>2, <1>3 DEF OpenRow

\* getNoteList's answer has every note of its own that the device finds.
LEMMA LoadAnswerKeeps ==
    ASSUME ListInv, KeepInv, NEW d \in Device, LoadAnswer(d)
    PROVE  KeepInv'
<1>1. /\ UNCHANGED <<docs, queue, screen, editor, alert, made>>
      /\ \A e \in Device \ {d} : shown'[e] = shown[e]
  BY DEF LoadAnswer, ListInv, RowsOK
<1>2. CreationsClear' /\ EditorsClear'
  BY <1>1, ClearStays
<1>3. CASE Visible(d) = {} /\ UNCHANGED all
  <2>1. \A j \in Id : ~FindsOwn(queue[d], docs[j], d, j)
    BY <1>3, OwnVisible DEF ListInv
  <2>2. OwnHeld'
    BY <1>1, <1>3, <2>1 DEF KeepInv, OwnHeld
  <2>3. StampInv'
    <3>1. \A e \in Device : \A s \in editor'[e].saw : Knows(all[e], editor[e], queue[e], s)
      BY <1>1 DEF Knows
    <3>. QED
      BY <1>1, <1>3, <3>1, StampsStay DEF KeepInv
  <2>. QED
    BY <1>2, <2>2, <2>3 DEF KeepInv
<1>4. CASE all' = [all EXCEPT ![d] = Visible(d)]
  <2>1. all'[d] = Visible(d) /\ \A e \in Device \ {d} : all'[e] = all[e]
    BY <1>4 DEF ListInv, RowsOK
  <2>2. \A j \in Id : FindsOwn(queue[d], docs[j], d, j) => \E r \in all'[d] : r.id = j
    BY <2>1, OwnVisible DEF ListInv
  <2>3. OwnHeld'
    BY <1>1, <2>1, <2>2 DEF KeepInv, OwnHeld
  <2>4. StampInv'
    BY <1>1, <1>4, StampsLoad DEF KeepInv, ListInv
  <2>. QED
    BY <1>2, <2>3, <2>4 DEF KeepInv
<1>. QED
  BY <1>3, <1>4 DEF LoadAnswer

\* executeDeleteNote: the row is gone from the list, and its note for the device.
LEMMA RemoveKeeps ==
    ASSUME ListInv, KeepInv, NEW d \in Device, NEW k \in Nat, Remove(d, k),
           UNCHANGED <<docs, screen, editor, made>>,
           \A e \in Device : alert[e] = Loading => alert'[e] = Loading
    PROVE  KeepInv'
<1>1. PICK r \in At(filtered[d], k) :
          /\ Send(d, Delete(r.id, FALSE, {})) /\ shown' = shown
          /\ all' = [all EXCEPT ![d] = {q \in @ : q.id # r.id}]
  BY DEF Remove
<1>. DEFINE w == Delete(r.id, FALSE, {})
<1>2. r.id \in Id
  BY DEF At, ListInv, RowsOK, Row
<1>3. w \in Write /\ w.kind = "delete" /\ w.id = r.id /\ ~Creates(w)
  BY <1>2 DEF Delete, Write, Creates
<1>4. Send(d, w)
  BY <1>1
<1>. HIDE DEF w
<1>5. /\ all'[d] = {q \in all[d] : q.id # r.id}
      /\ \A e \in Device \ {d} : all'[e] = all[e]
  BY <1>1 DEF ListInv, RowsOK
<1>6. CreationsClear' /\ EditorsClear'
  BY <1>3, <1>4, ClearSend DEF ListInv
<1>7. \A e \in Device : \A q \in all[e] :
         q \in all'[e] \/ (e = d /\ w.kind = "delete" /\ w.id = q.id)
  BY <1>3, <1>5
<1>8. OwnHeld'
  BY <1>1, <1>3, <1>4, <1>7, OwnSend DEF ListInv, KeepInv
<1>9. StampInv'
  <2>1. \A e \in Device : all'[e] \subseteq all[e] /\ editor'[e].saw \subseteq editor[e].saw
    BY <1>5
  <2>. QED
    BY <1>3, <1>4, <2>1, StampsSend DEF ListInv, KeepInv
<1>. QED
  BY <1>6, <1>8, <1>9 DEF KeepInv

LEMMA SwipeDeleteKeeps ==
    ASSUME ListInv, KeepInv, NEW d \in Device, NEW k \in Nat, SwipeDelete(d, k)
    PROVE  KeepInv'
<1>1. UNCHANGED <<docs, screen, editor, alert, made>>
  BY DEF SwipeDelete
<1>2. CASE Remove(d, k)
  BY <1>1, <1>2, RemoveKeeps
<1>3. CASE UNCHANGED <<queue, all, shown>>
  BY <1>1, <1>3, QuietKeeps
<1>. QED
  BY <1>2, <1>3 DEF SwipeDelete

LEMMA EnterPasscodeKeeps ==
    ASSUME ListInv, KeepInv, NEW d \in Device, EnterPasscode(d)
    PROVE  KeepInv'
<1>1. CASE Restart(d)
  BY <1>1, RestartKeeps
<1>2. CASE ~Restart(d)
  <2>1. /\ Remove(d, alert[d].index) /\ Cover(d, NoAlert) /\ alert[d].kind = "passcode"
        /\ UNCHANGED <<docs, screen, editor, made>>
    BY <1>2 DEF EnterPasscode
  <2>2. alert[d] \in Alert /\ alert[d] # Loading
    BY <2>1 DEF ListInv, ScreenOK, Loading
  <2>3. alert[d].index \in Nat
    BY <2>1, <2>2 DEF Alert
  <2>4. \A e \in Device : alert[e] = Loading => alert'[e] = Loading
    BY <2>1, <2>2, Covered
  <2>. QED
    BY <2>1, <2>3, <2>4, RemoveKeeps
<1>. QED
  BY <1>1, <1>2

\* What an editor is left with, and then the list is loaded.
LEMMA LeaveKeeps ==
    ASSUME ListInv, KeepInv, NEW d \in Device, NEW w \in Write, Send(d, w), ShowList(d),
           editor' = [editor EXCEPT ![d] = Closed], shown[d] = "none",
           UNCHANGED <<docs, all, shown>>,
           Creates(w) => /\ w.saw \subseteq editor[d].saw
                         /\ Clear(queue[d], docs[w.id], d, w.id, w.saw, Len(queue[d]) + 1),
           \/ w.kind = "set" /\ w.doc.stamp = made + 1 /\ w.doc.by = d /\ made' = made + 1
           \/ w.kind # "set" /\ made' = made
    PROVE  KeepInv'
<1>1. "list" \in Screens /\ Show(d, "list") /\ Cover(d, Loading)
  BY DEF Screens, ShowList
<1>2. /\ screen'[d] = "list" /\ \A e \in Device \ {d} : screen'[e] = screen[e]
      /\ alert'[d] = Loading /\ \A e \in Device \ {d} : alert'[e] = alert[e]
  BY <1>1, ShownScreens, Covered
<1>3. editor'[d].saw = {} /\ \A e \in Device \ {d} : editor'[e] = editor[e]
  BY DEF ListInv, ScreenOK, Closed
<1>4. \A e \in Device \ {d} : queue'[e] = queue[e]
  BY DEF ListInv, StoreOK, Send
<1>5. \A e \in Device : screen'[e] = "create" =>
         screen[e] = "create" /\ editor'[e] = editor[e] /\ (e # d \/ w.kind # "set")
  BY <1>2, <1>3
<1>6. CreationsClear' /\ EditorsClear'
  BY <1>5, ClearSend DEF ListInv
<1>7. OwnHeld'
  BY <1>2, <1>4, OwnLoads DEF KeepInv
<1>8. \A e \in Device : all'[e] \subseteq all[e] /\ editor'[e].saw \subseteq editor[e].saw
  BY <1>3
<1>9. StampInv'
  BY <1>8, StampsSend DEF ListInv, KeepInv
<1>. QED
  BY <1>6, <1>7, <1>9 DEF KeepInv

LEMMA LeaveCreateKeeps ==
    ASSUME ListInv, KeepInv, NEW d \in Device, NEW filled \in BOOLEAN, NEW locked \in BOOLEAN,
           LeaveCreate(d, filled, locked)
    PROVE  KeepInv'
<1>. DEFINE e == editor[d]
            set == [kind |-> "set", id |-> e.id, saw |-> e.saw,
                    doc |-> [stamp |-> made + 1, by |-> d, locked |-> locked]]
            del == Delete(e.id, TRUE, e.saw)
<1>1. /\ \/ Send(d, set) /\ made' = made + 1
         \/ Send(d, del) /\ made' = made
      /\ screen[d] = "create" /\ shown[d] = "none"
      /\ ShowList(d) /\ editor' = [editor EXCEPT ![d] = Closed]
      /\ UNCHANGED <<docs, all, shown>>
  BY DEF LeaveCreate, MayTouch
<1>2. made \in Nat
  BY DEF ListInv, StoreOK
<1>3. [stamp |-> made + 1, by |-> d, locked |-> locked] \in Doc
  BY <1>2 DEF Doc, Stamp
<1>4. set \in Write /\ del \in Write
  BY <1>3, EditorType DEF Write, Delete
<1>5. /\ set.kind = "set" /\ set.id = e.id /\ set.saw = e.saw
      /\ set.doc.stamp = made + 1 /\ set.doc.by = d
      /\ del.kind = "delete" /\ del.id = e.id /\ del.saw = e.saw
  BY DEF Delete
<1>6. Clear(queue[d], docs[e.id], d, e.id, e.saw, Len(queue[d]) + 1)
  BY <1>1 DEF KeepInv, EditorsClear
<1>. HIDE DEF set, del
<1>7. PICK w \in Write :
         /\ Send(d, w) /\ w.id = e.id /\ w.saw = e.saw
         /\ \/ w.kind = "set" /\ w.doc.stamp = made + 1 /\ w.doc.by = d /\ made' = made + 1
            \/ w.kind # "set" /\ made' = made
  <2>1. CASE Send(d, set) /\ made' = made + 1
    BY <1>4, <1>5, <2>1
  <2>2. CASE Send(d, del) /\ made' = made
    BY <1>4, <1>5, <2>2
  <2>. QED
    BY <1>1, <2>1, <2>2
<1>8. w.saw \subseteq editor[d].saw
      /\ Clear(queue[d], docs[w.id], d, w.id, w.saw, Len(queue[d]) + 1)
  BY <1>6, <1>7
<1>. HIDE DEF e
<1>. QED
  BY <1>1, <1>7, <1>8, LeaveKeeps

LEMMA LeaveDetailKeeps ==
    ASSUME ListInv, KeepInv, NEW d \in Device, NEW filled \in BOOLEAN, NEW locked \in BOOLEAN,
           LeaveDetail(d, filled, locked)
    PROVE  KeepInv'
<1>. DEFINE up == [kind |-> "update", id |-> editor[d].id, locked |-> locked]
            del == Delete(editor[d].id, FALSE, {})
            w == IF filled THEN up ELSE del
<1>1. /\ Send(d, w) /\ ShowList(d) /\ editor' = [editor EXCEPT ![d] = Closed]
      /\ shown[d] = "none" /\ UNCHANGED <<docs, all, shown, made>>
  BY DEF LeaveDetail, MayTouch
<1>2. /\ up \in Write /\ up.kind = "update"
      /\ del \in Write /\ del.kind = "delete" /\ ~del.new
  BY EditorType DEF Write, Delete
<1>. HIDE DEF up, del
<1>3. w \in Write /\ w.kind # "set" /\ ~Creates(w)
  BY <1>2 DEF Creates
<1>. HIDE DEF w
<1>. QED
  BY <1>1, <1>3, LeaveKeeps

-----------------------------------------------------------------------------
(* The specification, with what the devices know *)

LEMMA InitKeeps == ASSUME Init PROVE KeepInv
<1>1. \A d \in Device : /\ queue[d] = <<>> /\ screen[d] = "list" /\ all[d] = {}
                        /\ alert[d] = Loading /\ shown[d] = "none" /\ editor[d].saw = {}
  BY DEF Init, Closed
<1>2. \A d \in Device : DOMAIN queue[d] = {}
  BY <1>1, EmptySeq
<1>3. CreationsClear /\ EditorsClear /\ OwnHeld
  BY <1>1, <1>2 DEF CreationsClear, EditorsClear, OwnHeld
<1>4. ASSUME NEW i \in Id, docs[i] # None
      PROVE  \E r \in InitialRows : r.id = i /\ docs[i] = r.doc
  <2>1. docs[i] = IF \E r \in InitialRows : r.id = i
                  THEN (CHOOSE r \in InitialRows : r.id = i).doc ELSE None
    BY DEF Init
  <2>. QED
    BY <1>4, <2>1
<1>5. \A i \in Id : docs[i] # None => docs[i].stamp <= made
  BY <1>4, InitialAssumption DEF Init
<1>6. \A i, j \in Id : docs[i] # None /\ docs[j] # None /\ docs[i].stamp = docs[j].stamp => i = j
  BY <1>4, InitialAssumption
<1>7. StampsGiven
  BY <1>1, <1>2, <1>5 DEF StampsGiven, Knows
<1>8. StampsApart /\ UnsentUnknown /\ RowsPlaced
  BY <1>1, <1>2, <1>6 DEF StampsApart, UnsentUnknown, RowsPlaced
<1>. QED
  BY <1>3, <1>7, <1>8 DEF KeepInv, StampInv

LEMMA StepKeeps == ASSUME ListInv, KeepInv, Next PROVE KeepInv'
<1>1. PICK d \in Device : User(d) \/ Server(d) \/ Crash(d)
  BY DEF Next
<1>2. Index \subseteq Nat
  BY BoundAssumption DEF Index
<1>3. CASE Rows(d)
  BY <1>2, <1>3, QuietSteps, SwipeDeleteKeeps DEF Rows
<1>4. CASE Lists(d)
  BY <1>4, QuietSteps, AddNoteKeeps, TabKeeps DEF Lists
<1>5. CASE Edits(d) \/ Ends(d)
  BY <1>5, LeaveDetailKeeps, LeaveCreateKeeps, TabKeeps, EnterPasscodeKeeps, QuietSteps
     DEF Edits, Ends
<1>6. CASE Answers(d)
  BY <1>2, <1>6, LoadAnswerKeeps, QuietSteps, OpenRowKeeps DEF Answers
<1>7. CASE Notice(d) \/ Restart(d)
  BY <1>7, QuietSteps, RestartKeeps
<1>8. CASE Commit(d)
  BY <1>8, ClearCommit, StampsCommit DEF ListInv, KeepInv
<1>. QED
  BY <1>1, <1>3, <1>4, <1>5, <1>6, <1>7, <1>8 DEF User, Server, Crash

LEMMA KeepInvHolds == Spec => []KeepInv
<1>1. ASSUME KeepInv, UNCHANGED vars PROVE KeepInv'
  BY <1>1, QuietKeeps DEF vars, rows
<1>. QED
  BY InitKeeps, StepKeeps, ListInvHolds, <1>1, PTL DEF Spec

\* KeepsWhatItKnows: setData of a new note, or deleteNote of one left empty, reaches the
\* server when the id holds nothing, or a note that another device made and the list did
\* not have when createNewUniqueNoteID took the id from it.
THEOREM CreationsReplaceStrangers == Spec => KeepsWhatItKnows
<1>. DEFINE Keeps == \A d \in Device : queue[d] # <<>> /\ queue'[d] = Tail(queue[d]) =>
                        LET w == Head(queue[d])
                            t == docs[w.id]
                        IN  /\ t # None
                            /\ \/ w.kind = "set" /\ t.stamp # w.doc.stamp
                               \/ w.kind = "delete" /\ w.new
                            => t.by # d /\ t.stamp \notin w.saw
<1>1. ASSUME ListInv, KeepInv
      PROVE  Keeps
  <2>1. ASSUME NEW d \in Device, queue[d] # <<>>
        PROVE  LET w == Head(queue[d])
               IN  Creates(w) /\ docs[w.id] # None =>
                      docs[w.id].by # d /\ docs[w.id].stamp \notin w.saw
    <3>1. /\ 1 \in DOMAIN queue[d] /\ Head(queue[d]) = queue[d][1]
          /\ \A a \in DOMAIN queue[d] : ~(a < 1)
      BY <1>1, <2>1, Tailed, Domain DEF ListInv, StoreOK
    <3>. DEFINE w == queue[d][1]
    <3>2. Creates(w) => Clear(queue[d], docs[w.id], d, w.id, w.saw, 1)
      BY <1>1, <3>1 DEF KeepInv, CreationsClear
    <3>. HIDE DEF w
    <3>3. Creates(w) /\ docs[w.id] # None => docs[w.id].by # d /\ docs[w.id].stamp \notin w.saw
      BY <3>1, <3>2 DEF Clear
    <3>. QED
      BY <3>1, <3>3 DEF w
  <2>. QED
    BY <2>1 DEF Creates
<1>2. KeepsWhatItKnows <=> [][Keeps]_vars
  BY DEF KeepsWhatItKnows
<1>. HIDE DEF Keeps
<1>. QED
  BY <1>1, <1>2, ListInvHolds, KeepInvHolds, PTL
=============================================================================
