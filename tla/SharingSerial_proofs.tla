------------------------ MODULE SharingSerial_proofs ------------------------
(***************************************************************************)
(* Sharing used with patience keeps its promise, for every set of          *)
(* accounts, devices and notes and every bound: whenever everything is     *)
(* settled, the lists of the accounts and the lists of the notes both say  *)
(* what the taps asked for; and every step changes the access of one       *)
(* account to one note to what was asked for, or leaves it alone.          *)
(*                                                                         *)
(* What was asked for is known from the tap on, and everything under way   *)
(* tends to it.  So the invariant describes no phases: it says that every  *)
(* unsent write carries the list that was asked for, that every query will *)
(* make that list of the one the server has, and that a list of the server *)
(* which is not yet the right one has such a write or query coming.        *)
(***************************************************************************)
EXTENDS SharingSerial, Sharing_proofs

(* The lists that were asked for *)

NotesOf(O, u)  == {[note |-> o.note, mode |-> o.mode] : o \in {o \in O : o.user = u}}
PeopleOf(O, n) == {[user |-> o.user, mode |-> o.mode] : o \in {o \in O : o.note = n}}

Listed(u) == NotesOf(wanted, u)
Lists(n)  == PeopleOf(wanted, n)

OneModeEach(O) == \A o, p \in O : o.note = p.note /\ o.user = p.user => o = p

WantedOK == /\ \A o \in wanted : o.user # Owner[o.note] /\ docs[o.note].here
            /\ OneModeEach(wanted)

-----------------------------------------------------------------------------
(* What is under way *)

\* The writes d has yet to send, and its queries, those a write waits to start included.
Unsent(d)  == UNION {queue[d][i] : i \in DOMAIN queue[d]}
Pending(d) == calls[d] \cup UNION {w.then : w \in Unsent(d)}

UserOps   == {"shareNote", "dropNote", "modeNote"}
PeopleOps == {"shareNote", "shareUser", "dropUser", "modeUser"}
LoadOps   == {"load", "check", "detail"}

\* What the callbacks make of the list they read.
UserResult(c, es) ==
    CASE c.op = "shareNote" -> IF OfNote(es, c.note) = {}
                               THEN es \cup {[note |-> c.note, mode |-> c.mode]} ELSE es
      [] c.op = "dropNote"  -> es \ {[note |-> c.note, mode |-> c.mode]}
      [] c.op = "modeNote"  -> IF OfNote(es, c.note) = {} THEN es
                               ELSE (es \ OfNote(es, c.note)) \cup {[note |-> c.note, mode |-> c.mode]}
      [] OTHER              -> es \ OfNote(es, c.note)

PeopleResult(c, ps) ==
    CASE c.op = "dropUser" -> ps \ {[user |-> c.user, mode |-> c.mode]}
      [] c.op = "modeUser" -> IF OfUser(ps, c.user) = {} THEN ps
                              ELSE (ps \ OfUser(ps, c.user)) \cup {[user |-> c.user, mode |-> c.mode]}
      [] OTHER             -> IF OfUser(ps, c.user) = {}
                              THEN ps \cup {[user |-> c.user, mode |-> c.mode]} ELSE ps

OfUserWrite(w, u) == w.kind = "user" /\ w.user = u
OfNoteWrite(w, n) == w.kind # "user" /\ w.note = n

\* d sees the note, and goes on seeing it.
NoteThere(d, n) ==
    /\ docs[n].here \/ \E w \in Unsent(d) : w.kind = "create" /\ w.note = n
    /\ \A w \in Unsent(d) : w.kind = "delete" => w.note # n

-----------------------------------------------------------------------------
(* The invariant *)

\* A write carries what was asked for.
WriteFits(d, w) ==
    /\ w.kind = "user" =>
         /\ w.entries = Listed(w.user)
         /\ sharedNotes[w.user] \ OfNote(sharedNotes[w.user], w.note)
              = Listed(w.user) \ OfNote(Listed(w.user), w.note)
         /\ \A c \in w.then : /\ c.op = "shareUser" /\ w.then = {c}
                              /\ calls[d] = {} /\ queue[d] = <<{w}>>
    /\ w.kind # "user" =>
         /\ w.people = Lists(w.note)
         /\ \A c \in w.then : c.op = "load" /\ c.note = screen[d].note /\ w.note = c.note /\ At(d, Shares)
    /\ w.kind = "delete" => Owner[w.note] = Account[d] /\ w.people = {}
    /\ w.kind \in {"people", "save"} =>
         /\ docs[w.note].here
         /\ \A x \in Unsent(d) : x.kind = "delete" => x.note # w.note

\* Writes of notes come one at a time.
OneNoteWrite(d) ==
    \A i, j \in DOMAIN queue[d] :
        (\E w \in queue[d][i] : w.kind # "user") /\ (\E w \in queue[d][j] : w.kind # "user") => i = j

\* A query will lead to what was asked for.
CallFits(d, c) ==
    /\ c.op \in UserOps => UserResult(c, sharedNotes[c.user]) = Listed(c.user)
    /\ c.op = "dropAll" => \A u \in User : UserResult(c, sharedNotes[u]) = Listed(u)
    /\ c.op \in {"shareNote", "shareUser"} => calls[d] = {c} /\ queue[d] = <<>>
    /\ c.op \in LoadOps =>
         /\ At(d, Editors \cup Shares) /\ screen[d].note = c.note /\ NoteThere(d, c.note)
         /\ \/ docs[c.note].people = Lists(c.note)
            \/ \E w \in Unsent(d) : OfNoteWrite(w, c.note)

\* The same of the half of a change that is about the note.
PeopleCallFits(d, c) ==
    c.op \in PeopleOps =>
        /\ At(d, Shares) /\ screen[d].note = c.note /\ docs[c.note].here
        /\ PeopleResult(c, docs[c.note].people) = Lists(c.note)
        /\ \A w \in Unsent(d) : w.kind = "user"
        /\ \A b \in calls[d] : b.op \notin LoadOps /\ (b.op \in PeopleOps => b = c)
        /\ c.op \in {"shareNote", "shareUser"} =>
               c.mode = isEdit[d][c.vc] /\ people[d] = docs[c.note].people

\* Notes of others, as d's rows and its shared screen hold them.
ForeignFits(d, r) ==
    Owner[r.note] # Account[d] /\ docs[r.note].here /\ r.people = Lists(r.note)

\* The cache has the list of the note on screen, or will have it.
CacheFits(d) ==
    IF At(d, Editors \cup Shares)
    THEN \/ people[d] = Lists(screen[d].note)
         \/ \E c \in calls[d] : c.op \in LoadOps
         \/ \E w \in Unsent(d) : w.kind # "user" /\ w.then # {}
         \/ \E c \in Pending(d) : c.op \in PeopleOps
    ELSE people[d] = {}

DeviceFits(d) ==
    /\ \A w \in Unsent(d) : WriteFits(d, w)
    /\ OneNoteWrite(d)
    /\ \A c \in calls[d] : CallFits(d, c)
    /\ \A c \in Pending(d) : PeopleCallFits(d, c)
    /\ \A r \in rows[d] : ForeignFits(d, r)
    /\ At(d, {"shared"}) => ForeignFits(d, screen[d])
    /\ At(d, {"detail"} \cup Shares) => NoteThere(d, screen[d].note)
    /\ CacheFits(d)

Quiet(d) == Resting(d) /\ calls[d] = {} /\ queue[d] = <<>> /\ people[d] = {}

OneAtWork == \A d, e \in Device : d # e => Quiet(d) \/ Quiet(e)

\* A list of the server that is not what was asked for is about to be replaced.
UserComes(d, u) ==
    \/ \E w \in Unsent(d) : OfUserWrite(w, u)
    \/ \E c \in calls[d] : \/ c.op \in UserOps /\ c.user = u
                           \/ c.op = "dropAll" /\ [note |-> c.note, mode |-> c.mode] \in sharedNotes[u]

PeopleComes(d, n) ==
    \/ \E w \in Unsent(d) : OfNoteWrite(w, n)
    \/ \E c \in Pending(d) : c.op \in PeopleOps /\ c.note = n

ServerFits ==
    /\ \A u \in User : sharedNotes[u] = Listed(u) \/ \E d \in Device : UserComes(d, u)
    /\ \A n \in Note : docs[n].people = Lists(n) \/ \E d \in Device : PeopleComes(d, n)

SerialInv == WantedOK /\ OneAtWork /\ ServerFits /\ \A d \in Device : DeviceFits(d)

-----------------------------------------------------------------------------
(* Lists and the set of shares they are made of *)

\* An account's list names a note when some share does.
LEMMA NotesOfHas ==
    ASSUME NEW O \in SUBSET Offer, NEW u
    PROVE  /\ NotesOf(O, u) \in SUBSET Entry
           /\ \A n, m : [note |-> n, mode |-> m] \in NotesOf(O, u)
                            <=> [note |-> n, user |-> u, mode |-> m] \in O
<1>1. \A o \in O : o = [note |-> o.note, user |-> o.user, mode |-> o.mode] /\ o.note \in Note /\ o.mode \in Mode
  BY DEF Offer
<1>2. NotesOf(O, u) \in SUBSET Entry
  BY <1>1 DEF NotesOf, Entry
<1>3. ASSUME NEW n, NEW m
      PROVE  [note |-> n, mode |-> m] \in NotesOf(O, u) <=> [note |-> n, user |-> u, mode |-> m] \in O
  <2>1. ASSUME [note |-> n, mode |-> m] \in NotesOf(O, u)
        PROVE  [note |-> n, user |-> u, mode |-> m] \in O
    <3>1. PICK o \in O : o.user = u /\ [note |-> n, mode |-> m] = [note |-> o.note, mode |-> o.mode]
      BY <2>1 DEF NotesOf
    <3>2. o.note = n /\ o.mode = m
      BY <3>1
    <3>. QED
      BY <1>1, <3>1, <3>2
  <2>2. ASSUME [note |-> n, user |-> u, mode |-> m] \in O
        PROVE  [note |-> n, mode |-> m] \in NotesOf(O, u)
    BY <2>2 DEF NotesOf
  <2>. QED
    BY <2>1, <2>2
<1>. QED
  BY <1>2, <1>3

\* A note's list names an account when some share does.
LEMMA PeopleOfHas ==
    ASSUME NEW O \in SUBSET Offer, NEW n
    PROVE  /\ PeopleOf(O, n) \in SUBSET Person
           /\ \A u, m : [user |-> u, mode |-> m] \in PeopleOf(O, n)
                            <=> [note |-> n, user |-> u, mode |-> m] \in O
<1>1. \A o \in O : o = [note |-> o.note, user |-> o.user, mode |-> o.mode] /\ o.user \in User /\ o.mode \in Mode
  BY DEF Offer
<1>2. PeopleOf(O, n) \in SUBSET Person
  BY <1>1 DEF PeopleOf, Person
<1>3. ASSUME NEW u, NEW m
      PROVE  [user |-> u, mode |-> m] \in PeopleOf(O, n) <=> [note |-> n, user |-> u, mode |-> m] \in O
  <2>1. ASSUME [user |-> u, mode |-> m] \in PeopleOf(O, n)
        PROVE  [note |-> n, user |-> u, mode |-> m] \in O
    <3>1. PICK o \in O : o.note = n /\ [user |-> u, mode |-> m] = [user |-> o.user, mode |-> o.mode]
      BY <2>1 DEF PeopleOf
    <3>2. o.user = u /\ o.mode = m
      BY <3>1
    <3>. QED
      BY <1>1, <3>1, <3>2
  <2>2. ASSUME [note |-> n, user |-> u, mode |-> m] \in O
        PROVE  [user |-> u, mode |-> m] \in PeopleOf(O, n)
    BY <2>2 DEF PeopleOf
  <2>. QED
    BY <2>1, <2>2
<1>. QED
  BY <1>2, <1>3

\* Lists with the same entries are the same.
LEMMA SameEntries ==
    ASSUME NEW A \in SUBSET Entry, NEW B \in SUBSET Entry,
           \A n \in Note, m \in Mode : [note |-> n, mode |-> m] \in A <=> [note |-> n, mode |-> m] \in B
    PROVE  A = B
<1>1. \A e \in Entry : e.note \in Note /\ e.mode \in Mode /\ e = [note |-> e.note, mode |-> e.mode]
  BY DEF Entry
<1>. QED
  BY <1>1

\* The same of the people a note lists.
LEMMA SamePeople ==
    ASSUME NEW A \in SUBSET Person, NEW B \in SUBSET Person,
           \A u \in User, m \in Mode : [user |-> u, mode |-> m] \in A <=> [user |-> u, mode |-> m] \in B
    PROVE  A = B
<1>1. \A p \in Person : p.user \in User /\ p.mode \in Mode /\ p = [user |-> p.user, mode |-> p.mode]
  BY DEF Person
<1>. QED
  BY <1>1

\* Sharing with one more account.
With(O, o) == O \cup {o}

\* The lists of the account and of the note each gain an entry, the others none.
LEMMA ListsWith ==
    ASSUME NEW O \in SUBSET Offer, NEW o \in Offer
    PROVE  /\ NotesOf(With(O, o), o.user) = NotesOf(O, o.user) \cup {[note |-> o.note, mode |-> o.mode]}
           /\ \A v \in User : v # o.user => NotesOf(With(O, o), v) = NotesOf(O, v)
           /\ PeopleOf(With(O, o), o.note) = PeopleOf(O, o.note) \cup {[user |-> o.user, mode |-> o.mode]}
           /\ \A k \in Note : k # o.note => PeopleOf(With(O, o), k) = PeopleOf(O, k)
<1>. DEFINE P == With(O, o)
<1>1. P = O \cup {o}
  BY DEF With
<1>. HIDE DEF P
<1>2. ASSUME NEW v
      PROVE  {p \in P : p.user = v} = IF v = o.user THEN {p \in O : p.user = v} \cup {o} ELSE {p \in O : p.user = v}
  BY <1>1
<1>3. ASSUME NEW k
      PROVE  {p \in P : p.note = k} = IF k = o.note THEN {p \in O : p.note = k} \cup {o} ELSE {p \in O : p.note = k}
  BY <1>1
<1>4. /\ NotesOf(P, o.user) = NotesOf(O, o.user) \cup {[note |-> o.note, mode |-> o.mode]}
      /\ \A v \in User : v # o.user => NotesOf(P, v) = NotesOf(O, v)
  BY ONLY <1>2 DEF NotesOf
<1>5. /\ PeopleOf(P, o.note) = PeopleOf(O, o.note) \cup {[user |-> o.user, mode |-> o.mode]}
      /\ \A k \in Note : k # o.note => PeopleOf(P, k) = PeopleOf(O, k)
  BY ONLY <1>3 DEF PeopleOf
<1>. QED
  BY <1>4, <1>5 DEF P

\* Sharing no more with one account.
Without(O, n, u) == {o \in O : o.note # n \/ o.user # u}

LessNote(es, n) == es \ OfNote(es, n)
LessUser(ps, u) == ps \ OfUser(ps, u)

\* The lists of the account and of the note lose each other, the others nothing.
LEMMA ListsWithout ==
    ASSUME NEW O \in SUBSET Offer, NEW n \in Note, NEW u \in User
    PROVE  /\ NotesOf(Without(O, n, u), u) = LessNote(NotesOf(O, u), n)
           /\ \A v \in User : v # u => NotesOf(Without(O, n, u), v) = NotesOf(O, v)
           /\ PeopleOf(Without(O, n, u), n) = LessUser(PeopleOf(O, n), u)
           /\ \A k \in Note : k # n => PeopleOf(Without(O, n, u), k) = PeopleOf(O, k)
<1>1. /\ NotesOf(Without(O, n, u), u) = LessNote(NotesOf(O, u), n)
      /\ \A v \in User : v # u => NotesOf(Without(O, n, u), v) = NotesOf(O, v)
  BY DEF NotesOf, OfNote, Without, LessNote
<1>2. /\ PeopleOf(Without(O, n, u), n) = LessUser(PeopleOf(O, n), u)
      /\ \A k \in Note : k # n => PeopleOf(Without(O, n, u), k) = PeopleOf(O, k)
  BY DEF PeopleOf, OfUser, Without, LessUser
<1>. QED
  BY <1>1, <1>2

\* An account that has a share of the note is named once, with its mode.
LEMMA ListedOnce ==
    ASSUME NEW O \in SUBSET Offer, NEW n \in Note, NEW u \in User
    PROVE  /\ OfNote(NotesOf(O, u), n) = {} <=> ~ \E o \in O : o.note = n /\ o.user = u
           /\ OfUser(PeopleOf(O, n), u) = {} <=> ~ \E o \in O : o.note = n /\ o.user = u
           /\ \A o \in O : OneModeEach(O) /\ o.note = n /\ o.user = u =>
                 /\ OfNote(NotesOf(O, u), n) = {[note |-> n, mode |-> o.mode]}
                 /\ OfUser(PeopleOf(O, n), u) = {[user |-> u, mode |-> o.mode]}
<1>1. /\ OfNote(NotesOf(O, u), n) = {} <=> ~ \E o \in O : o.note = n /\ o.user = u
      /\ OfUser(PeopleOf(O, n), u) = {} <=> ~ \E o \in O : o.note = n /\ o.user = u
  <2>1. ASSUME NEW o \in O, o.note = n, o.user = u
        PROVE  /\ [note |-> n, mode |-> o.mode] \in OfNote(NotesOf(O, u), n)
               /\ [user |-> u, mode |-> o.mode] \in OfUser(PeopleOf(O, n), u)
    BY <2>1 DEF NotesOf, PeopleOf, OfNote, OfUser
  <2>2. ASSUME NEW e \in OfNote(NotesOf(O, u), n)
        PROVE  \E o \in O : o.note = n /\ o.user = u
    BY DEF NotesOf, OfNote
  <2>3. ASSUME NEW p \in OfUser(PeopleOf(O, n), u)
        PROVE  \E o \in O : o.note = n /\ o.user = u
    BY DEF PeopleOf, OfUser
  <2>. QED
    BY <2>1, <2>2, <2>3
<1>2. ASSUME NEW o \in O, OneModeEach(O), o.note = n, o.user = u
      PROVE  /\ OfNote(NotesOf(O, u), n) = {[note |-> n, mode |-> o.mode]}
             /\ OfUser(PeopleOf(O, n), u) = {[user |-> u, mode |-> o.mode]}
  <2>1. \A p \in O : p.note = n /\ p.user = u => p = o
    BY <1>2 DEF OneModeEach
  <2>2. OfNote(NotesOf(O, u), n) = {[note |-> n, mode |-> o.mode]}
    BY <1>2, <2>1 DEF NotesOf, OfNote
  <2>3. OfUser(PeopleOf(O, n), u) = {[user |-> u, mode |-> o.mode]}
    <3>. DEFINE its == {p \in O : p.note = n}
                e   == [user |-> u, mode |-> o.mode]
    <3>1. o \in its /\ \A p \in its : p.user = u => p = o
      BY <1>2, <2>1
    <3>2. ASSUME NEW p \in its, p.user = u PROVE [user |-> p.user, mode |-> p.mode] = e
      BY <3>1, <3>2
    <3>3. [user |-> o.user, mode |-> o.mode] = e /\ e.user = u
      BY <1>2
    <3>. HIDE DEF its, e
    <3>. QED
      BY <3>1, <3>2, <3>3 DEF PeopleOf, OfUser, its
  <2>. QED
    BY <2>2, <2>3
<1>. QED
  BY <1>1, <1>2

-----------------------------------------------------------------------------
(* What the callbacks make of a list *)

\* A change made twice is made once.
LEMMA ResultAgain ==
    ASSUME NEW es \in SUBSET Entry, NEW c \in Call
    PROVE  UserResult(c, UserResult(c, es)) = UserResult(c, es)
BY DEF UserResult, OfNote

\* A change for one note leaves the entries of the others alone.
LEMMA ResultElsewhere ==
    ASSUME NEW es \in SUBSET Entry, NEW c \in Call
    PROVE  UserResult(c, es) \ OfNote(UserResult(c, es), c.note) = es \ OfNote(es, c.note)
BY DEF UserResult, OfNote

-----------------------------------------------------------------------------
(* The queue *)

\* The queue of d, as the lemmas about sequences need it.
LEMMA QueueIsSeq ==
    ASSUME IInv, NEW d \in Device
    PROVE  /\ queue[d] \in Seq(SUBSET Write) /\ Len(queue[d]) \in Nat /\ DOMAIN queue[d] = 1 .. Len(queue[d])
           /\ Unsent(d) \subseteq Write
<1>1. queue[d] \in Seq(SUBSET Write)
  BY DEF IInv, Shapes
<1>2. Len(queue[d]) \in Nat /\ DOMAIN queue[d] = 1 .. Len(queue[d])
  BY <1>1, LenProperties
<1>3. \A i \in DOMAIN queue[d] : queue[d][i] \in SUBSET Write
  BY <1>1, SeqElement
<1>. QED
  BY <1>1, <1>2, <1>3 DEF Unsent

\* A batch of writes joins the queue.
LEMMA QueueAdds ==
    ASSUME IInv, NEW d \in Device, NEW batch \in SUBSET Write, Enqueue(d, batch)
    PROVE  /\ Unsent(d)' = Unsent(d) \cup batch
           /\ OneNoteWrite(d) /\ ((\A w \in batch : w.kind = "user") \/ (\A w \in Unsent(d) : w.kind = "user"))
                  => OneNoteWrite(d)'
           /\ queue[d] = <<>> /\ batch # {} => queue'[d] = <<batch>>
           /\ \A e \in Device : e # d => queue'[e] = queue[e]
<1>0. CASE batch = {}
  BY <1>0 DEF Enqueue, Unsent, OneNoteWrite
<1>1. CASE batch # {}
  <2>. DEFINE q == queue[d]
              r == Append(q, batch)
              k == Len(q) + 1
  <2>1. q \in Seq(SUBSET Write) /\ Len(q) \in Nat /\ DOMAIN q = 1 .. Len(q)
    BY QueueIsSeq
  <2>2. r \in Seq(SUBSET Write) /\ DOMAIN r = 1 .. k /\ r[k] = batch /\ \A i \in 1 .. Len(q) : r[i] = q[i]
    BY <2>1, AppendProperties, LenProperties
  <2>3. queue' = [queue EXCEPT ![d] = r] /\ queue'[d] = r
    BY <1>1 DEF Enqueue, IInv, Shapes
  <2>4. \A e \in Device : e # d => queue'[e] = queue[e]
    BY <2>3 DEF IInv, Shapes
  <2>5. q = <<>> => r = <<batch>>
    BY <2>1
  <2>. HIDE DEF r
  <2>6. Unsent(d)' = UNION {r[i] : i \in DOMAIN r}
    BY <2>3 DEF Unsent
  <2>7. UNION {r[i] : i \in DOMAIN r} = (UNION {q[i] : i \in DOMAIN q}) \cup batch
    <3>. HIDE DEF q
    <3>. QED
      BY <2>1, <2>2
  <2>8. Unsent(d)' = Unsent(d) \cup batch
    BY <2>6, <2>7 DEF Unsent
  <2>9. ASSUME OneNoteWrite(d), (\A w \in batch : w.kind = "user") \/ (\A w \in Unsent(d) : w.kind = "user")
        PROVE  OneNoteWrite(d)'
    <3>1. ASSUME NEW i \in DOMAIN r, NEW j \in DOMAIN r,
                 \E w \in r[i] : w.kind # "user", \E w \in r[j] : w.kind # "user"
          PROVE  i = j
      <4>1. CASE \A w \in batch : w.kind = "user"
        <5>1. i \in DOMAIN q /\ j \in DOMAIN q /\ r[i] = q[i] /\ r[j] = q[j]
          BY <2>1, <2>2, <3>1, <4>1
        <5>. QED
          BY <2>9, <3>1, <5>1 DEF OneNoteWrite
      <4>2. CASE \A w \in Unsent(d) : w.kind = "user"
        <5>1. \A l \in DOMAIN q : \A w \in q[l] : w.kind = "user"
          BY <4>2 DEF Unsent
        <5>. QED
          BY <2>1, <2>2, <3>1, <5>1
      <4>. QED
        BY <2>9, <4>1, <4>2
    <3>. QED
      BY <2>3, <3>1 DEF OneNoteWrite
  <2>. QED
    BY <2>3, <2>4, <2>5, <2>8, <2>9
<1>. QED
  BY <1>0, <1>1

\* The oldest batch loses a write.
LEMMA QueueSends ==
    ASSUME IInv, NEW d \in Device, queue[d] # <<>>, NEW w \in Head(queue[d]),
           queue' = [queue EXCEPT ![d] = Sent(@, w)]
    PROVE  /\ w \in Unsent(d) /\ Unsent(d)' \subseteq Unsent(d) /\ Unsent(d) \subseteq Unsent(d)' \cup {w}
           /\ OneNoteWrite(d) => OneNoteWrite(d)'
           /\ \A x : queue[d] = <<{x}>> => x = w /\ queue'[d] = <<>>
           /\ \A e \in Device : e # d => queue'[e] = queue[e]
<1>. DEFINE q == queue[d]
<1>1. q \in Seq(SUBSET Write) /\ Len(q) \in Nat /\ DOMAIN q = 1 .. Len(q) /\ Len(q) # 0
  BY QueueIsSeq, EmptySeq
<1>2. 1 \in DOMAIN q /\ Head(q) = q[1]
  BY <1>1
<1>3. queue'[d] = Sent(q, w)
  BY DEF IInv, Shapes
<1>4. \A e \in Device : e # d => queue'[e] = queue[e]
  BY DEF IInv, Shapes
<1>5. w \in Unsent(d)
  BY <1>2 DEF Unsent
<1>6. CASE Head(q) = {w}
  <2>. DEFINE r == Tail(q)
  <2>1. /\ r \in Seq(SUBSET Write) /\ Len(r) = Len(q) - 1 /\ DOMAIN r = 1 .. Len(r)
        /\ \A i \in 1 .. Len(r) : r[i] = q[i + 1]
    BY <1>1, HeadTailProperties, LenProperties
  <2>2. queue'[d] = r
    BY <1>3, <1>6 DEF Sent
  <2>3. \A x : q = <<{x}>> => x = w /\ r = <<>>
    BY <1>6
  <2>. HIDE DEF r, q
  <2>4. UNION {r[i] : i \in DOMAIN r} \subseteq UNION {q[i] : i \in DOMAIN q}
    <3>1. \A i \in DOMAIN r : i + 1 \in DOMAIN q /\ r[i] = q[i + 1]
      BY <1>1, <2>1
    <3>. QED
      BY <3>1
  <2>5. UNION {q[i] : i \in DOMAIN q} \subseteq (UNION {r[i] : i \in DOMAIN r}) \cup {w}
    <3>1. \A i \in DOMAIN q : q[i] = {w} \/ (i - 1 \in DOMAIN r /\ q[i] = r[i - 1])
      BY <1>1, <1>2, <1>6, <2>1
    <3>. QED
      BY <3>1
  <2>6. Unsent(d)' \subseteq Unsent(d) /\ Unsent(d) \subseteq Unsent(d)' \cup {w}
    <3>1. Unsent(d)' = UNION {r[i] : i \in DOMAIN r} /\ Unsent(d) = UNION {q[i] : i \in DOMAIN q}
      BY <2>2 DEF Unsent, q
    <3>. QED
      BY <2>4, <2>5, <3>1
  <2>7. ASSUME OneNoteWrite(d), NEW i \in DOMAIN r, NEW j \in DOMAIN r,
               \E x \in r[i] : x.kind # "user", \E x \in r[j] : x.kind # "user"
        PROVE  i = j
    <3>1. i + 1 \in DOMAIN q /\ j + 1 \in DOMAIN q /\ r[i] = q[i + 1] /\ r[j] = q[j + 1]
      BY <1>1, <2>1
    <3>2. i + 1 = j + 1
      BY <2>7, <3>1 DEF OneNoteWrite, q
    <3>. QED
      BY <2>1, <3>2
  <2>8. OneNoteWrite(d) => OneNoteWrite(d)'
    BY <2>2, <2>7 DEF OneNoteWrite
  <2>9. \A x : queue[d] = <<{x}>> => x = w /\ queue'[d] = <<>>
    BY <2>2, <2>3 DEF q
  <2>. QED
    BY <1>4, <1>5, <2>6, <2>8, <2>9
<1>7. CASE Head(q) # {w}
  <2>. DEFINE r == [q EXCEPT ![1] = @ \ {w}]
  <2>1. DOMAIN r = DOMAIN q /\ r[1] = q[1] \ {w} /\ \A i \in DOMAIN q : i # 1 => r[i] = q[i]
    BY <1>1, <1>2
  <2>2. queue'[d] = r
    BY <1>3, <1>7 DEF Sent
  <2>3. \A x : q = <<{x}>> => Head(q) = {x}
    BY <1>1
  <2>. HIDE DEF r, q
  <2>4. Unsent(d)' = UNION {r[i] : i \in DOMAIN r} /\ Unsent(d) = UNION {q[i] : i \in DOMAIN q}
    BY <2>2 DEF Unsent, q
  <2>5. \A i \in DOMAIN q : r[i] \subseteq q[i] /\ q[i] \subseteq r[i] \cup {w}
    BY <2>1
  <2>6. Unsent(d)' \subseteq Unsent(d) /\ Unsent(d) \subseteq Unsent(d)' \cup {w}
    BY <2>1, <2>4, <2>5
  <2>7. OneNoteWrite(d) => OneNoteWrite(d)'
    BY <2>1, <2>2, <2>5 DEF OneNoteWrite, q
  <2>8. \A x : queue[d] # <<{x}>>
    <3>1. ASSUME NEW x, q = <<{x}>> PROVE FALSE
      <4>1. Head(q) = {x}
        BY <2>3, <3>1
      <4>2. w = x
        BY <4>1 DEF q
      <4>. QED
        BY <1>7, <4>1, <4>2
    <3>. QED
      BY <3>1 DEF q
  <2>. QED
    BY <1>4, <1>5, <2>6, <2>7, <2>8
<1>. QED
  BY <1>6, <1>7

-----------------------------------------------------------------------------
(* What a device sees *)

\* The list of an account is the server's, or what was asked for.
LEMMA SeesNotes ==
    ASSUME NEW d \in Device, DeviceFits(d), NEW u \in User
    PROVE  /\ \A es \in UserSeen(d, u) : es = sharedNotes[u] \/ es = Listed(u)
           /\ (\E w \in Unsent(d) : OfUserWrite(w, u)) \/ UserSeen(d, u) = {sharedNotes[u]}
<1>. DEFINE new == Newest(d, LAMBDA w : w.kind = "user" /\ w.user = u)
<1>1. ASSUME NEW w \in new
      PROVE  w \in Unsent(d) /\ OfUserWrite(w, u)
  BY DEF Newest, Unsent, OfUserWrite
<1>2. ASSUME NEW w \in new
      PROVE  w.entries = Listed(u)
  BY <1>1 DEF DeviceFits, WriteFits, OfUserWrite
<1>3. UserSeen(d, u) = IF new = {} THEN {sharedNotes[u]} ELSE {w.entries : w \in new}
  BY DEF UserSeen
<1>. HIDE DEF new
<1>. QED
  BY <1>1, <1>2, <1>3

\* The writes d's queries find: those of the note, and those that make or delete it.
Latest(d, n) == Newest(d, LAMBDA w : w.kind # "user" /\ w.note = n)
Made(d, n)   == Newest(d, LAMBDA w : w.kind \in {"create", "delete"} /\ w.note = n)

\* Of the writes of notes none covers another: they come one at a time.
LEMMA NoteWriteIsNewest ==
    ASSUME IInv, NEW d \in Device, DeviceFits(d), NEW w \in Unsent(d), NEW n, OfNoteWrite(w, n)
    PROVE  /\ w \in Latest(d, n)
           /\ w.kind \in {"create", "delete"} => w \in Made(d, n)
<1>1. PICK i \in DOMAIN queue[d] : w \in queue[d][i]
  BY DEF Unsent
<1>2. ASSUME NEW j \in DOMAIN queue[d], j > i, NEW x \in queue[d][j]
      PROVE  x.kind = "user"
  <2>1. i # j
    BY <1>2, QueueIsSeq
  <2>. QED
    BY <1>1, <2>1 DEF DeviceFits, OneNoteWrite, OfNoteWrite
<1>3. w.kind # "user" /\ w.note = n
  BY DEF OfNoteWrite
<1>4. w \in Latest(d, n)
  BY <1>1, <1>2, <1>3 DEF Newest, Latest, Made
<1>5. ASSUME w.kind \in {"create", "delete"}
      PROVE  w \in Made(d, n)
  <2>1. \A j \in DOMAIN queue[d] : j > i => \A x \in queue[d][j] : ~(x.kind \in {"create", "delete"} /\ x.note = n)
    BY <1>2
  <2>. QED
    BY <1>1, <1>3, <1>5, <2>1 DEF Newest, Latest, Made
<1>. QED
  BY <1>4, <1>5

\* A note that is there is seen, with the list that was asked for when that is
\* the server's or a write of the note is unsent, and with the server's when none is.
LEMMA SeesPeople ==
    ASSUME IInv, NEW d \in Device, DeviceFits(d), NEW n \in Note, NoteThere(d, n)
    PROVE  /\ HereSeen(d, n)
           /\ PeopleSeen(d, n) # {}
           /\ docs[n].people = Lists(n) \/ (\E w \in Unsent(d) : OfNoteWrite(w, n))
                  => \A ps \in PeopleSeen(d, n) : ps = Lists(n)
           /\ (\A w \in Unsent(d) : w.kind = "user") => PeopleSeen(d, n) = {docs[n].people}
<1>. DEFINE made == Made(d, n)
            new  == Latest(d, n)
<1>1. /\ \A w \in made : w \in Unsent(d) /\ w.kind \in {"create", "delete"} /\ w.note = n
      /\ \A w \in new : w \in Unsent(d) /\ OfNoteWrite(w, n)
  BY DEF Newest, Latest, Made, Unsent, OfNoteWrite
<1>2. HereSeen(d, n) = IF made = {} THEN docs[n].here ELSE \E w \in made : w.kind = "create"
  BY DEF HereSeen, Made
<1>3. HereSeen(d, n)
  <2>1. ASSUME NEW w \in made PROVE w.kind = "create"
    BY <1>1 DEF NoteThere
  <2>2. CASE made = {}
    <3>1. ASSUME NEW w \in Unsent(d), w.kind = "create", w.note = n PROVE w \in made
      BY <3>1, NoteWriteIsNewest DEF OfNoteWrite
    <3>2. docs[n].here
      BY <2>2, <3>1 DEF NoteThere
    <3>. QED
      BY <1>2, <2>2, <3>2
  <2>3. CASE made # {}
    <3>1. \E w \in made : w.kind = "create"
      BY <2>1, <2>3
    <3>. HIDE DEF made
    <3>. QED
      BY <1>2, <2>3, <3>1
  <2>. QED
    BY <2>2, <2>3
<1>4. PeopleSeen(d, n) = IF new = {} THEN {docs[n].people} ELSE {w.people : w \in new}
  BY <1>3 DEF PeopleSeen, Latest
<1>5. \A w \in new : w.people = Lists(n)
  BY <1>1 DEF DeviceFits, WriteFits, OfNoteWrite
<1>6. ASSUME NEW w \in Unsent(d), OfNoteWrite(w, n)
      PROVE  w \in new
  BY <1>6, NoteWriteIsNewest
<1>. HIDE DEF new, made
<1>7. PeopleSeen(d, n) # {}
  BY <1>4
<1>8. ASSUME docs[n].people = Lists(n) \/ (\E w \in Unsent(d) : OfNoteWrite(w, n)), NEW ps \in PeopleSeen(d, n)
      PROVE  ps = Lists(n)
  BY <1>4, <1>5, <1>6, <1>8
<1>9. ASSUME \A w \in Unsent(d) : w.kind = "user"
      PROVE  PeopleSeen(d, n) = {docs[n].people}
  BY <1>1, <1>4, <1>9 DEF OfNoteWrite
<1>. QED
  BY <1>3, <1>7, <1>8, <1>9

-----------------------------------------------------------------------------
(* One device is at work *)

Work(d) == \A e \in Device \ {d} : Quiet(e)

\* A device with something under way is the one at work.
LEMMA WorksAlone ==
    ASSUME OneAtWork, NEW d \in Device, calls[d] # {} \/ queue[d] # <<>>
    PROVE  Work(d)
BY DEF OneAtWork, Work, Quiet

\* Nothing is under way on a quiet device.
LEMMA QuietHasNothing ==
    ASSUME NEW e, Quiet(e)
    PROVE  Unsent(e) = {} /\ calls[e] = {} /\ Pending(e) = {}
BY DEF Quiet, Unsent, Pending

\* What the server lacks comes from the device at work.
LEMMA ComesFrom ==
    ASSUME ServerFits, NEW d \in Device, Work(d)
    PROVE  /\ \A u \in User : sharedNotes[u] = Listed(u) \/ UserComes(d, u)
           /\ \A n \in Note : docs[n].people = Lists(n) \/ PeopleComes(d, n)
<1>1. \A e \in Device : e # d => Unsent(e) = {} /\ calls[e] = {} /\ Pending(e) = {}
  BY QuietHasNothing DEF Work
<1>2. \A e \in Device, u \in User : UserComes(e, u) => e = d
  BY <1>1 DEF UserComes
<1>3. \A e \in Device, n \in Note : PeopleComes(e, n) => e = d
  BY <1>1 DEF PeopleComes
<1>. QED
  BY <1>2, <1>3 DEF ServerFits

\* A device with nothing under way that rests fits whatever was asked for.
LEMMA QuietFits == \A e \in Device : Quiet(e) => DeviceFits(e)
<1>. SUFFICES ASSUME NEW e \in Device, Quiet(e) PROVE DeviceFits(e)
  OBVIOUS
<1>1. Unsent(e) = {} /\ calls[e] = {} /\ Pending(e) = {} /\ queue[e] = <<>>
  BY QuietHasNothing DEF Quiet
<1>2. screen[e] = Home /\ rows[e] = {} /\ people[e] = {}
  BY DEF Quiet, Resting
<1>. QED
  BY <1>1, <1>2 DEF DeviceFits, OneNoteWrite, At, Home, CacheFits, Editors, Shares

\* A step of the device at work that leaves the others alone.
Others(d) ==
    \A e \in Device \ {d} : /\ screen'[e] = screen[e] /\ rows'[e] = rows[e] /\ people'[e] = people[e]
                            /\ calls'[e] = calls[e] /\ queue'[e] = queue[e]

\* What a step of the device at work has to keep.
LEMMA SerialFrame ==
    ASSUME NEW d \in Device, Work(d), Others(d), WantedOK', DeviceFits(d)',
           \A u \in User : sharedNotes'[u] = Listed(u)' \/ UserComes(d, u)',
           \A n \in Note : docs'[n].people = Lists(n)' \/ PeopleComes(d, n)'
    PROVE  SerialInv'
<1>1. \A e \in Device \ {d} : Quiet(e)'
  BY DEF Work, Others, Quiet, Resting
<1>2. \A e \in Device \ {d} : DeviceFits(e)'
  <2>1. (\A e \in Device : Quiet(e) => DeviceFits(e))'
    BY QuietFits, PTL
  <2>. QED
    BY <1>1, <2>1
<1>3. OneAtWork'
  BY <1>1 DEF OneAtWork
<1>4. ServerFits'
  BY DEF ServerFits
<1>. QED
  BY <1>2, <1>3, <1>4 DEF SerialInv

-----------------------------------------------------------------------------
(* Callbacks that write lists of accounts *)

\* While what was asked for stays the same, so do the lists it stands for.
LEMMA SameAsked ==
    ASSUME wanted' = wanted
    PROVE  (\A u : Listed(u)' = Listed(u)) /\ (\A n : Lists(n)' = Lists(n))
BY DEF Listed, Lists

\* What a callback of d leaves as it was.
Reads(d, c) == /\ Finish(d, c)
               /\ UNCHANGED <<sharedNotes, docs, screen, isEdit, rows, wanted>>

\* What a callback that only reads leaves as it was.
LEMMA ReadKeeps ==
    ASSUME IInv, SerialInv, NEW d \in Device, NEW c \in calls[d], Reads(d, c)
    PROVE  /\ (\A u : Listed(u)' = Listed(u)) /\ (\A n : Lists(n)' = Lists(n))
           /\ WantedOK' /\ Work(d)
           /\ calls'[d] = calls[d] \ {c} /\ \A e \in Device \ {d} : calls'[e] = calls[e]
           /\ \A r \in rows'[d] : ForeignFits(d, r)'
           /\ At(d, {"shared"})' => ForeignFits(d, screen[d])'
           /\ \A w \in Unsent(d) : w.kind = "user" => w.then = {}
<1>1. (\A u : Listed(u)' = Listed(u)) /\ (\A n : Lists(n)' = Lists(n))
  BY SameAsked DEF Reads
<1>2. WantedOK'
  BY DEF SerialInv, WantedOK, Reads
<1>3. Work(d)
  BY WorksAlone DEF SerialInv
<1>4. calls'[d] = calls[d] \ {c} /\ \A e \in Device \ {d} : calls'[e] = calls[e]
  BY DEF Reads, Finish, IInv, Shapes
<1>5. DeviceFits(d)
  BY DEF SerialInv
<1>6. (\A r \in rows'[d] : ForeignFits(d, r)') /\ (At(d, {"shared"})' => ForeignFits(d, screen[d])')
  BY <1>1, <1>5 DEF DeviceFits, ForeignFits, Reads, At
<1>7. ASSUME NEW w \in Unsent(d), w.kind = "user"
      PROVE  w.then = {}
  BY <1>5, <1>7 DEF DeviceFits, WriteFits
<1>. QED
  BY <1>1, <1>2, <1>3, <1>4, <1>6, <1>7

\* The writes of a callback that wait for nothing, one per account.
LEMMA BatchOK ==
    ASSUME IInv, SerialInv, NEW d \in Device, NEW c \in calls[d], c.op \in {"dropNote", "modeNote", "dropAll"},
           Reads(d, c), people' = people, NEW batch \in SUBSET Write, Enqueue(d, batch),
           \A w \in batch : /\ w.kind = "user" /\ w.then = {} /\ w.entries = Listed(w.user)
                            /\ sharedNotes[w.user] \ OfNote(sharedNotes[w.user], w.note)
                                 = Listed(w.user) \ OfNote(Listed(w.user), w.note),
           \A u \in User :
               \/ c.op # "dropAll" /\ c.user # u
               \/ c.op = "dropAll" /\ [note |-> c.note, mode |-> c.mode] \notin sharedNotes[u]
               \/ \E w \in Unsent(d) \cup batch : OfUserWrite(w, u)
    PROVE  SerialInv'
<1>1. DeviceFits(d)
  BY DEF SerialInv
<1>2. /\ (\A u : Listed(u)' = Listed(u)) /\ (\A n : Lists(n)' = Lists(n))
      /\ WantedOK' /\ Work(d)
      /\ calls'[d] = calls[d] \ {c} /\ \A e \in Device \ {d} : calls'[e] = calls[e]
      /\ \A r \in rows'[d] : ForeignFits(d, r)'
      /\ At(d, {"shared"})' => ForeignFits(d, screen[d])'
      /\ \A w \in Unsent(d) : w.kind = "user" => w.then = {}
  BY ReadKeeps
<1>3. UNCHANGED <<sharedNotes, docs, screen, isEdit, rows, wanted>>
  BY DEF Reads
<1>4. /\ Unsent(d)' = Unsent(d) \cup batch
      /\ OneNoteWrite(d)'
      /\ \A e \in Device : e # d => queue'[e] = queue[e]
  BY <1>1, QueueAdds DEF DeviceFits
<1>5. Others(d)
  BY <1>2, <1>3, <1>4 DEF Others
<1>6. Pending(d)' = Pending(d) \ {c} \/ Pending(d)' = Pending(d)
  BY <1>2, <1>4 DEF Pending
<1>7. ASSUME NEW w \in Unsent(d)'
      PROVE  WriteFits(d, w)'
  <2>1. CASE w \in batch
    BY <1>2, <1>3, <2>1 DEF WriteFits
  <2>2. CASE w \in Unsent(d)
    <3>1. WriteFits(d, w)
      BY <1>1, <2>2 DEF DeviceFits
    <3>2. w.kind = "user" => w.then = {}
      BY <1>2, <2>2
    <3>3. \A x \in Unsent(d)' : x.kind = "delete" => x \in Unsent(d)
      BY <1>4
    <3>. QED
      BY <1>2, <1>3, <3>1, <3>2, <3>3 DEF WriteFits, At
  <2>. QED
    BY <1>4, <2>1, <2>2
<1>8. ASSUME NEW n, NoteThere(d, n)
      PROVE  NoteThere(d, n)'
  BY <1>3, <1>4, <1>8 DEF NoteThere
<1>9. ASSUME NEW b \in calls'[d]
      PROVE  CallFits(d, b)'
  <2>1. CallFits(d, b) /\ b # c /\ b \in calls[d]
    BY <1>1, <1>2 DEF DeviceFits
  <2>2. b.op \notin {"shareNote", "shareUser"}
    BY <2>1 DEF CallFits
  <2>3. b.op \in LoadOps =>
           /\ (At(d, Editors \cup Shares) /\ screen[d].note = b.note /\ NoteThere(d, b.note))'
           /\ (docs[b.note].people = Lists(b.note) \/ \E w \in Unsent(d) : OfNoteWrite(w, b.note))'
    BY <1>2, <1>3, <1>4, <1>8, <2>1 DEF CallFits, At, OfNoteWrite
  <2>. QED
    BY <1>2, <1>3, <2>1, <2>2, <2>3 DEF CallFits, UserResult
<1>10. ASSUME NEW b \in Pending(d)'
       PROVE  PeopleCallFits(d, b)'
  <2>1. PeopleCallFits(d, b)
    BY <1>1, <1>6 DEF DeviceFits
  <2>2. b.op \in PeopleOps => (b.op \in {"shareNote", "shareUser"} => people'[d] = people[d])
    OBVIOUS
  <2>3. (\A w \in Unsent(d) : w.kind = "user") => \A w \in Unsent(d)' : w.kind = "user"
    BY <1>4
  <2>. QED
    BY <1>2, <1>3, <2>1, <2>3 DEF PeopleCallFits, PeopleResult, At
<1>11. CacheFits(d)'
  <2>1. c.op \notin LoadOps /\ c.op \notin PeopleOps
    BY DEF LoadOps, PeopleOps
  <2>2. \A b \in calls[d] : b.op \in LoadOps => b \in calls'[d]
    BY <1>2, <2>1
  <2>3. \A b \in Pending(d) : b.op \in PeopleOps => b \in Pending(d)'
    BY <1>6, <2>1
  <2>4. \A w \in Unsent(d) : w \in Unsent(d)'
    BY <1>4
  <2>. QED
    BY <1>1, <1>2, <1>3, <2>2, <2>3, <2>4 DEF DeviceFits, CacheFits, At
<1>12. DeviceFits(d)'
  <2>1. At(d, {"detail"} \cup Shares)' => NoteThere(d, screen[d].note)'
    BY <1>1, <1>3, <1>8 DEF DeviceFits, At
  <2>. QED
    BY <1>2, <1>3, <1>4, <1>7, <1>9, <1>10, <1>11, <2>1 DEF DeviceFits
<1>13. ASSUME NEW u \in User
       PROVE  sharedNotes'[u] = Listed(u)' \/ UserComes(d, u)'
  <2>1. sharedNotes[u] = Listed(u) \/ UserComes(d, u)
    BY <1>2, ComesFrom DEF SerialInv
  <2>2. (\E w \in Unsent(d) \cup batch : OfUserWrite(w, u)) => UserComes(d, u)'
    BY <1>4 DEF UserComes, OfUserWrite
  <2>3. ASSUME UserComes(d, u), ~ \E w \in Unsent(d) \cup batch : OfUserWrite(w, u)
        PROVE  UserComes(d, u)'
    BY <1>2, <1>3, <2>3 DEF UserComes, UserOps
  <2>. QED
    BY <1>2, <1>3, <2>1, <2>2, <2>3
<1>14. ASSUME NEW n \in Note
       PROVE  docs'[n].people = Lists(n)' \/ PeopleComes(d, n)'
  <2>1. docs[n].people = Lists(n) \/ PeopleComes(d, n)
    BY <1>2, ComesFrom DEF SerialInv
  <2>2. c.op \notin PeopleOps
    BY DEF PeopleOps
  <2>3. PeopleComes(d, n) => PeopleComes(d, n)'
    BY <1>4, <1>6, <2>2 DEF PeopleComes, OfNoteWrite
  <2>. QED
    BY <1>2, <1>3, <2>1, <2>3
<1>. QED
  BY <1>2, <1>5, <1>12, <1>13, <1>14, SerialFrame

\* Whichever list the callback of c finds, it makes of it what was asked for.
LEMMA SeenResult ==
    ASSUME IInv, SerialInv, NEW d \in Device, NEW c \in calls[d], NEW u \in User, NEW es \in UserSeen(d, u),
           (c.op \in UserOps /\ c.user = u) \/ c.op = "dropAll"
    PROVE  /\ UserResult(c, es) = Listed(u)
           /\ sharedNotes[u] \ OfNote(sharedNotes[u], c.note) = Listed(u) \ OfNote(Listed(u), c.note)
<1>1. DeviceFits(d) /\ CallFits(d, c)
  BY DEF SerialInv, DeviceFits
<1>2. c \in Call /\ sharedNotes[u] \in SUBSET Entry
  BY CallIsGood DEF IInv, ServerOK
<1>3. UserResult(c, sharedNotes[u]) = Listed(u)
  BY <1>1 DEF CallFits
<1>4. UserResult(c, Listed(u)) = Listed(u)
  BY <1>2, <1>3, ResultAgain
<1>5. es = sharedNotes[u] \/ es = Listed(u)
  BY <1>1, SeesNotes
<1>. QED
  BY <1>2, <1>3, <1>4, <1>5, ResultElsewhere

\* A callback of one account: the write it makes.
LEMMA OneUserBatch ==
    ASSUME IInv, SerialInv, NEW d \in Device, NEW c \in calls[d], c.op \in {"dropNote", "modeNote"},
           Reads(d, c), people' = people, NEW es \in UserSeen(d, c.user),
           Enqueue(d, {UserWrite(c.note, c.user, UserResult(c, es), {})})
    PROVE  SerialInv'
<1>. DEFINE w == UserWrite(c.note, c.user, UserResult(c, es), {})
<1>1. c \in Call /\ c.note \in Note /\ c.user \in User
  BY CallIsGood DEF Call
<1>2. /\ UserResult(c, es) = Listed(c.user)
      /\ sharedNotes[c.user] \ OfNote(sharedNotes[c.user], c.note) = Listed(c.user) \ OfNote(Listed(c.user), c.note)
  BY <1>1, SeenResult DEF UserOps
<1>3. Listed(c.user) \in SUBSET Entry
  BY NotesOfHas DEF Listed, IInv, HistoryOK
<1>4. w \in Write
  BY <1>1, <1>2, <1>3 DEF UserWrite, Write, Kinds
<1>5. /\ w.kind = "user" /\ w.then = {} /\ w.user = c.user /\ w.note = c.note
      /\ w.entries = UserResult(c, es)
  BY DEF UserWrite
<1>. HIDE DEF w
<1>6. \A u \in User : \/ c.op # "dropAll" /\ c.user # u
                      \/ c.op = "dropAll" /\ [note |-> c.note, mode |-> c.mode] \notin sharedNotes[u]
                      \/ \E x \in Unsent(d) \cup {w} : OfUserWrite(x, u)
  BY <1>5 DEF OfUserWrite
<1>7. Enqueue(d, {w})
  BY DEF w
<1>8. \A x \in {w} : /\ x.kind = "user" /\ x.then = {} /\ x.entries = Listed(x.user)
                     /\ sharedNotes[x.user] \ OfNote(sharedNotes[x.user], x.note)
                          = Listed(x.user) \ OfNote(Listed(x.user), x.note)
  BY <1>2, <1>5
<1>. QED
  BY <1>4, <1>6, <1>7, <1>8, BatchOK

\* deleteOneNoteForOneUser has read the list of the account.
LEMMA DropNoteKeeps ==
    ASSUME IInv, SerialInv, NEW d \in Device, NEW c \in calls[d], DropNoteRead(d, c)
    PROVE  SerialInv'
<1>1. PICK es \in UserSeen(d, c.user) :
        Enqueue(d, {UserWrite(c.note, c.user, es \ {[note |-> c.note, mode |-> c.mode]}, {})})
  BY DEF DropNoteRead
<1>2. UserResult(c, es) = es \ {[note |-> c.note, mode |-> c.mode]}
  BY DEF UserResult, DropNoteRead
<1>3. Reads(d, c) /\ people' = people /\ c.op = "dropNote"
  BY DEF DropNoteRead, Reads, server, ui, history
<1>. QED
  BY <1>1, <1>2, <1>3, OneUserBatch

\* changeModeOneNoteForOneUser has read the list of the account.
LEMMA ModeNoteKeeps ==
    ASSUME IInv, SerialInv, NEW d \in Device, NEW c \in calls[d], ModeNoteRead(d, c)
    PROVE  SerialInv'
<1>1. c.op = "modeNote"
  BY DEF ModeNoteRead
<1>2. PICK es \in UserSeen(d, c.user) : Enqueue(d, {UserWrite(c.note, c.user, UserResult(c, es), {})})
  BY <1>1 DEF ModeNoteRead, UserResult
<1>3. Reads(d, c) /\ people' = people
  BY DEF ModeNoteRead, Reads, server, ui, history
<1>. QED
  BY <1>1, <1>2, <1>3, OneUserBatch

\* deleteOneNoteForAllSharedUsers has read the lists of the accounts.
LEMMA DropAllKeeps ==
    ASSUME IInv, SerialInv, NEW d \in Device, NEW c \in calls[d], DropAllRead(d, c)
    PROVE  SerialInv'
<1>. DEFINE batch == UNION {{UserWrite(c.note, v, es \ OfNote(es, c.note), {}) :
                             es \in {es \in UserSeen(d, v) : [note |-> c.note, mode |-> c.mode] \in es}} :
                            v \in User}
<1>1. Reads(d, c) /\ people' = people /\ c.op = "dropAll" /\ Enqueue(d, batch)
  BY DEF DropAllRead, Reads, server, ui, history
<1>2. c \in Call /\ c.note \in Note
  BY CallIsGood DEF Call
<1>3. ASSUME NEW u \in User, NEW es \in UserSeen(d, u)
      PROVE  /\ es \ OfNote(es, c.note) = Listed(u)
             /\ sharedNotes[u] \ OfNote(sharedNotes[u], c.note) = Listed(u) \ OfNote(Listed(u), c.note)
  BY <1>1, SeenResult DEF UserResult
<1>4. ASSUME NEW w \in batch
      PROVE  /\ w \in Write /\ w.kind = "user" /\ w.then = {} /\ w.entries = Listed(w.user)
             /\ sharedNotes[w.user] \ OfNote(sharedNotes[w.user], w.note)
                  = Listed(w.user) \ OfNote(Listed(w.user), w.note)
  <2>1. PICK u \in User : \E es \in UserSeen(d, u) : w = UserWrite(c.note, u, es \ OfNote(es, c.note), {})
    BY <1>4
  <2>2. w = UserWrite(c.note, u, Listed(u), {})
    BY <1>3, <2>1
  <2>3. Listed(u) \in SUBSET Entry
    BY NotesOfHas DEF Listed, IInv, HistoryOK
  <2>4. w \in Write
    BY <1>2, <2>2, <2>3 DEF UserWrite, Write, Kinds
  <2>5. w.kind = "user" /\ w.then = {} /\ w.entries = Listed(u) /\ w.user = u /\ w.note = c.note
    BY <2>2 DEF UserWrite
  <2>. QED
    BY <1>3, <2>1, <2>4, <2>5
<1>5. ASSUME NEW u \in User, [note |-> c.note, mode |-> c.mode] \in sharedNotes[u]
      PROVE  \E w \in Unsent(d) \cup batch : OfUserWrite(w, u)
  <2>1. CASE \E w \in Unsent(d) : OfUserWrite(w, u)
    BY <2>1
  <2>2. CASE UserSeen(d, u) = {sharedNotes[u]}
    <3>. DEFINE w == UserWrite(c.note, u, sharedNotes[u] \ OfNote(sharedNotes[u], c.note), {})
    <3>1. sharedNotes[u] \in {es \in UserSeen(d, u) : [note |-> c.note, mode |-> c.mode] \in es}
      BY <1>5, <2>2
    <3>2. w \in batch
      <4>1. w \in {UserWrite(c.note, u, es \ OfNote(es, c.note), {}) :
                    es \in {es \in UserSeen(d, u) : [note |-> c.note, mode |-> c.mode] \in es}}
        BY <3>1
      <4>. HIDE DEF w
      <4>. QED
        BY <4>1
    <3>3. OfUserWrite(w, u)
      BY DEF OfUserWrite, UserWrite
    <3>. QED
      BY <3>2, <3>3
  <2>3. DeviceFits(d)
    BY DEF SerialInv
  <2>. QED
    BY <2>1, <2>2, <2>3, SeesNotes
<1>. HIDE DEF batch
<1>. QED
  BY <1>1, <1>4, <1>5, BatchOK

\* A callback of shareNote or shareUser is all there is under way.
LEMMA SharesAlone ==
    ASSUME IInv, SerialInv, NEW d \in Device, NEW c \in calls[d], c.op \in {"shareNote", "shareUser"}
    PROVE  /\ calls[d] = {c} /\ queue[d] = <<>> /\ Unsent(d) = {} /\ Pending(d) = {c}
           /\ PeopleCallFits(d, c)
<1>1. DeviceFits(d)
  BY DEF SerialInv
<1>2. calls[d] = {c} /\ queue[d] = <<>>
  BY <1>1 DEF DeviceFits, CallFits
<1>3. Unsent(d) = {}
  BY <1>2 DEF Unsent
<1>. QED
  BY <1>1, <1>2, <1>3 DEF DeviceFits, Pending

\* updateSharedNoteForSingleUser has read the list of the account.
LEMMA ShareNoteKeeps ==
    ASSUME IInv, SerialInv, NEW d \in Device, NEW c \in calls[d], ShareNoteRead(d, c)
    PROVE  SerialInv'
<1>. DEFINE b == [c EXCEPT !.op = "shareUser"]
<1>1. c.op = "shareNote" /\ Reads(d, c) /\ people' = people
  BY DEF ShareNoteRead, Reads, server, ui, history
<1>2. c \in Call /\ c.note \in Note /\ c.user \in User
  BY CallIsGood DEF Call
<1>3. sharedNotes[c.user] \ OfNote(sharedNotes[c.user], c.note) = Listed(c.user) \ OfNote(Listed(c.user), c.note)
  <2>1. PICK es \in UserSeen(d, c.user) : TRUE
    BY DEF ShareNoteRead
  <2>. QED
    BY <1>1, <1>2, SeenResult DEF UserOps
<1>4. /\ b \in Call /\ b.op = "shareUser" /\ b.note = c.note /\ b.user = c.user /\ b.mode = c.mode /\ b.vc = c.vc
  BY <1>2 DEF Call, Ops
<1>5. PICK w \in Write : /\ w.kind = "user" /\ w.then = {b} /\ w.user = c.user /\ w.note = c.note
                        /\ w.entries = Listed(c.user) /\ Enqueue(d, {w})
  <2>1. PICK es \in UserSeen(d, c.user) : Enqueue(d, {UserWrite(c.note, c.user, UserResult(c, es), {b})})
    BY <1>1 DEF ShareNoteRead, UserResult
  <2>2. UserResult(c, es) = Listed(c.user)
    BY <1>1, <1>2, SeenResult DEF UserOps
  <2>3. Listed(c.user) \in SUBSET Entry
    BY NotesOfHas DEF Listed, IInv, HistoryOK
  <2>. HIDE DEF b
  <2>. DEFINE w == UserWrite(c.note, c.user, Listed(c.user), {b})
  <2>4. /\ w \in Write /\ w.kind = "user" /\ w.then = {b} /\ w.user = c.user /\ w.note = c.note
        /\ w.entries = Listed(c.user)
    BY <1>2, <1>4, <2>3 DEF UserWrite, Write, Kinds
  <2>5. Enqueue(d, {w})
    BY <2>1, <2>2
  <2>. QED
    BY <2>4, <2>5
<1>. HIDE DEF b
<1>6. /\ (\A u : Listed(u)' = Listed(u)) /\ (\A n : Lists(n)' = Lists(n))
      /\ WantedOK' /\ Work(d)
      /\ calls'[d] = calls[d] \ {c} /\ \A e \in Device \ {d} : calls'[e] = calls[e]
      /\ \A r \in rows'[d] : ForeignFits(d, r)'
      /\ At(d, {"shared"})' => ForeignFits(d, screen[d])'
  BY <1>1, ReadKeeps
<1>7. UNCHANGED <<sharedNotes, docs, screen, isEdit, rows, wanted>>
  BY <1>1 DEF Reads
<1>8. /\ calls[d] = {c} /\ queue[d] = <<>> /\ Unsent(d) = {} /\ Pending(d) = {c}
      /\ PeopleCallFits(d, c) /\ DeviceFits(d)
  BY <1>1, SharesAlone DEF SerialInv
<1>9. /\ Unsent(d)' = {w} /\ OneNoteWrite(d)' /\ queue'[d] = <<{w}>>
      /\ \A e \in Device : e # d => queue'[e] = queue[e]
  <2>1. {w} \in SUBSET Write /\ {w} # {} /\ \A x \in {w} : x.kind = "user"
    BY <1>5
  <2>. QED
    BY <1>5, <1>8, <2>1, QueueAdds DEF DeviceFits
<1>10. calls'[d] = {} /\ Pending(d)' = {b} /\ Others(d)
  BY <1>1, <1>5, <1>6, <1>7, <1>8, <1>9 DEF Pending, Others
<1>11. WriteFits(d, w)'
  BY <1>3, <1>4, <1>5, <1>6, <1>7, <1>9, <1>10 DEF WriteFits
<1>12. PeopleCallFits(d, b)'
  <2>1. PeopleResult(b, docs[c.note].people) = PeopleResult(c, docs[c.note].people)
    BY <1>1, <1>4 DEF PeopleResult
  <2>2. /\ At(d, Shares) /\ screen[d].note = c.note /\ docs[c.note].here
        /\ PeopleResult(c, docs[c.note].people) = Lists(c.note)
        /\ c.mode = isEdit[d][c.vc] /\ people[d] = docs[c.note].people
    BY <1>1, <1>8 DEF PeopleCallFits, PeopleOps
  <2>3. PeopleResult(b, docs[b.note].people)' = Lists(b.note)'
    BY <1>4, <1>6, <1>7, <2>1, <2>2 DEF PeopleResult
  <2>4. (At(d, Shares) /\ screen[d].note = b.note /\ docs[b.note].here)'
    BY <1>4, <1>7, <2>2 DEF At
  <2>5. (b.mode = isEdit[d][b.vc] /\ people[d] = docs[b.note].people)'
    BY <1>1, <1>4, <1>7, <2>2
  <2>6. (\A x \in Unsent(d) : x.kind = "user")' /\ calls'[d] = {}
    BY <1>5, <1>9, <1>10
  <2>. QED
    BY <2>3, <2>4, <2>5, <2>6 DEF PeopleCallFits
<1>13. CacheFits(d)'
  <2>1. At(d, Shares)
    BY <1>1, <1>8 DEF PeopleCallFits, PeopleOps
  <2>2. b \in Pending(d)' /\ b.op \in PeopleOps
    BY <1>4, <1>10 DEF PeopleOps
  <2>. QED
    BY <1>7, <2>1, <2>2 DEF CacheFits, At
<1>14. DeviceFits(d)'
  <2>1. At(d, {"detail"} \cup Shares)' => NoteThere(d, screen[d].note)'
    BY <1>5, <1>7, <1>8, <1>9 DEF DeviceFits, At, NoteThere
  <2>. QED
    BY <1>6, <1>7, <1>9, <1>10, <1>11, <1>12, <1>13, <2>1 DEF DeviceFits
<1>15. ASSUME NEW u \in User
       PROVE  sharedNotes'[u] = Listed(u)' \/ UserComes(d, u)'
  <2>1. sharedNotes[u] = Listed(u) \/ UserComes(d, u)
    BY <1>6, ComesFrom DEF SerialInv
  <2>2. UserComes(d, u) => c.user = u
    BY <1>1, <1>8 DEF UserComes
  <2>3. c.user = u => UserComes(d, u)'
    BY <1>5, <1>9 DEF UserComes, OfUserWrite
  <2>. QED
    BY <1>6, <1>7, <2>1, <2>2, <2>3
<1>16. ASSUME NEW n \in Note
       PROVE  docs'[n].people = Lists(n)' \/ PeopleComes(d, n)'
  <2>1. docs[n].people = Lists(n) \/ PeopleComes(d, n)
    BY <1>6, ComesFrom DEF SerialInv
  <2>2. PeopleComes(d, n) => c.note = n
    BY <1>8 DEF PeopleComes
  <2>3. c.note = n => PeopleComes(d, n)'
    BY <1>4, <1>10 DEF PeopleComes, PeopleOps
  <2>. QED
    BY <1>6, <1>7, <2>1, <2>2, <2>3
<1>. QED
  BY <1>6, <1>10, <1>14, <1>15, <1>16, SerialFrame

-----------------------------------------------------------------------------
(* Callbacks about the list of a note *)

\* What the owner's half of a change finds, and makes of it.
LEMMA PeopleReads ==
    ASSUME IInv, SerialInv, NEW d \in Device, NEW c \in calls[d], c.op \in {"shareUser", "dropUser", "modeUser"}
    PROVE  /\ PeopleSeen(d, c.note) = {docs[c.note].people}
           /\ PeopleResult(c, docs[c.note].people) = Lists(c.note)
           /\ At(d, Shares) /\ screen[d].note = c.note /\ docs[c.note].here
           /\ \A w \in Unsent(d) : w.kind = "user" /\ w.then = {}
           /\ Pending(d) = calls[d]
           /\ \A b \in calls[d] : b.op \notin LoadOps /\ (b.op \in PeopleOps => b = c)
<1>1. DeviceFits(d) /\ PeopleCallFits(d, c)
  BY DEF SerialInv, DeviceFits, Pending
<1>2. /\ At(d, Shares) /\ screen[d].note = c.note /\ docs[c.note].here
      /\ PeopleResult(c, docs[c.note].people) = Lists(c.note)
      /\ \A w \in Unsent(d) : w.kind = "user"
      /\ \A b \in calls[d] : b.op \notin LoadOps /\ (b.op \in PeopleOps => b = c)
  BY <1>1 DEF PeopleCallFits, PeopleOps
<1>3. ASSUME NEW w \in Unsent(d)
      PROVE  w.then = {}
  BY <1>1, <1>2 DEF DeviceFits, WriteFits
<1>4. Pending(d) = calls[d]
  BY <1>3 DEF Pending
<1>5. NoteThere(d, c.note)
  BY <1>2 DEF NoteThere
<1>6. PeopleSeen(d, c.note) = {docs[c.note].people}
  BY <1>1, <1>2, <1>5, CallIsGood, SeesPeople DEF Call
<1>. QED
  BY <1>2, <1>3, <1>4, <1>6

\* The write of the owner's half, which waits to load the list again.
LEMMA PeopleWriteKeeps ==
    ASSUME IInv, SerialInv, NEW d \in Device, NEW c \in calls[d], c.op \in {"shareUser", "dropUser", "modeUser"},
           Reads(d, c), people' = people, PeopleWrite(d, c, Lists(c.note))
    PROVE  SerialInv'
<1>. DEFINE load == Reload(d, c)
<1>1. c \in Call /\ c.note \in Note /\ c.vc \in Nat
  BY CallIsGood DEF Call
<1>2. load \in Call /\ load.op = "load" /\ load.note = c.note
  BY <1>1, AccountAssumption DEF Reload, Plain, NewCall, Call, Ops, Mode
<1>3. PICK w \in Write : /\ w.kind = "people" /\ w.then = {load} /\ w.note = c.note
                        /\ w.people = Lists(c.note) /\ Enqueue(d, {w})
  <2>. DEFINE w == NoteWrite("people", c.note, Account[d], Lists(c.note), {load})
  <2>1. Lists(c.note) \in SUBSET Person
    BY PeopleOfHas DEF Lists, IInv, HistoryOK
  <2>2. Enqueue(d, {w})
    BY DEF PeopleWrite
  <2>. HIDE DEF load
  <2>3. /\ w \in Write /\ w.kind = "people" /\ w.then = {load} /\ w.note = c.note
        /\ w.people = Lists(c.note)
    BY <1>1, <1>2, <2>1, AccountAssumption DEF NoteWrite, Write, Kinds
  <2>. QED
    BY <2>2, <2>3
<1>. HIDE DEF load
<1>4. /\ (\A u : Listed(u)' = Listed(u)) /\ (\A n : Lists(n)' = Lists(n))
      /\ WantedOK' /\ Work(d)
      /\ calls'[d] = calls[d] \ {c} /\ \A e \in Device \ {d} : calls'[e] = calls[e]
      /\ \A r \in rows'[d] : ForeignFits(d, r)'
      /\ At(d, {"shared"})' => ForeignFits(d, screen[d])'
  BY ReadKeeps
<1>5. UNCHANGED <<sharedNotes, docs, screen, isEdit, rows, wanted>> /\ DeviceFits(d)
  BY DEF Reads, SerialInv
<1>6. /\ At(d, Shares) /\ screen[d].note = c.note /\ docs[c.note].here
      /\ \A x \in Unsent(d) : x.kind = "user" /\ x.then = {}
      /\ Pending(d) = calls[d]
      /\ \A b \in calls[d] : b.op \notin LoadOps /\ (b.op \in PeopleOps => b = c)
  BY PeopleReads
<1>7. /\ Unsent(d)' = Unsent(d) \cup {w} /\ OneNoteWrite(d)'
      /\ \A e \in Device : e # d => queue'[e] = queue[e]
  BY <1>3, <1>5, <1>6, QueueAdds DEF DeviceFits
<1>8. Pending(d)' = (calls[d] \ {c}) \cup {load} /\ Others(d)
  BY <1>3, <1>4, <1>5, <1>6, <1>7 DEF Pending, Others
<1>9. ASSUME NEW x \in Unsent(d)'
      PROVE  WriteFits(d, x)'
  <2>1. CASE x = w
    <3>1. \A y \in Unsent(d)' : y.kind # "delete"
      BY <1>3, <1>6, <1>7
    <3>2. (\A b \in x.then : b.op = "load" /\ b.note = screen[d].note /\ x.note = b.note /\ At(d, Shares))'
      BY <1>2, <1>3, <1>5, <1>6, <2>1 DEF At
    <3>. QED
      BY <1>3, <1>4, <1>5, <1>6, <2>1, <3>1, <3>2 DEF WriteFits
  <2>2. CASE x \in Unsent(d)
    <3>1. WriteFits(d, x) /\ x.kind = "user" /\ x.then = {}
      BY <1>5, <1>6, <2>2 DEF DeviceFits
    <3>. QED
      BY <1>4, <1>5, <3>1 DEF WriteFits
  <2>. QED
    BY <1>7, <2>1, <2>2
<1>10. ASSUME NEW b \in calls'[d]
       PROVE  CallFits(d, b)'
  <2>1. CallFits(d, b) /\ b # c /\ b \in calls[d]
    BY <1>4, <1>5 DEF DeviceFits
  <2>2. b.op \notin {"shareNote", "shareUser"} /\ b.op \notin LoadOps
    BY <1>6, <2>1 DEF CallFits
  <2>. QED
    BY <1>4, <1>5, <2>1, <2>2 DEF CallFits, UserResult
<1>11. ASSUME NEW b \in Pending(d)'
       PROVE  b.op \notin PeopleOps
  BY <1>2, <1>6, <1>8 DEF PeopleOps
<1>12. CacheFits(d)'
  <2>1. (\E x \in Unsent(d) : x.kind # "user" /\ x.then # {})'
    BY <1>3, <1>7
  <2>. QED
    BY <1>5, <1>6, <2>1 DEF CacheFits, At
<1>13. DeviceFits(d)'
  <2>1. At(d, {"detail"} \cup Shares)' => NoteThere(d, screen[d].note)'
    BY <1>3, <1>5, <1>6, <1>7 DEF At, NoteThere
  <2>2. \A b \in Pending(d)' : PeopleCallFits(d, b)'
    BY <1>11 DEF PeopleCallFits
  <2>. QED
    BY <1>4, <1>5, <1>7, <1>9, <1>10, <1>12, <2>1, <2>2 DEF DeviceFits
<1>14. ASSUME NEW u \in User
       PROVE  sharedNotes'[u] = Listed(u)' \/ UserComes(d, u)'
  <2>1. sharedNotes[u] = Listed(u) \/ UserComes(d, u)
    BY <1>4, ComesFrom DEF SerialInv
  <2>2. UserComes(d, u) => UserComes(d, u)'
    BY <1>4, <1>5, <1>7 DEF UserComes, UserOps, OfUserWrite
  <2>. QED
    BY <1>4, <1>5, <2>1, <2>2
<1>15. ASSUME NEW n \in Note
       PROVE  docs'[n].people = Lists(n)' \/ PeopleComes(d, n)'
  <2>1. docs[n].people = Lists(n) \/ PeopleComes(d, n)
    BY <1>4, ComesFrom DEF SerialInv
  <2>2. PeopleComes(d, n) => c.note = n
    BY <1>6 DEF PeopleComes, OfNoteWrite
  <2>3. c.note = n => PeopleComes(d, n)'
    BY <1>3, <1>7 DEF PeopleComes, OfNoteWrite
  <2>. QED
    BY <1>4, <1>5, <2>1, <2>2, <2>3
<1>. QED
  BY <1>4, <1>8, <1>13, <1>14, <1>15, SerialFrame

\* A callback that writes nothing and leaves the right list in the cache.
LEMMA FillKeeps ==
    ASSUME IInv, SerialInv, NEW d \in Device, NEW c \in calls[d], c.op \in LoadOps \cup {"shareUser"},
           Reads(d, c), queue' = queue, people'[d] = Lists(c.note),
           \A e \in Device \ {d} : people'[e] = people[e],
           At(d, Editors \cup Shares), screen[d].note = c.note,
           c.op = "shareUser" => docs[c.note].people = Lists(c.note)
    PROVE  SerialInv'
<1>1. /\ (\A u : Listed(u)' = Listed(u)) /\ (\A n : Lists(n)' = Lists(n))
      /\ WantedOK' /\ Work(d)
      /\ calls'[d] = calls[d] \ {c} /\ \A e \in Device \ {d} : calls'[e] = calls[e]
      /\ \A r \in rows'[d] : ForeignFits(d, r)'
      /\ At(d, {"shared"})' => ForeignFits(d, screen[d])'
      /\ \A w \in Unsent(d) : w.kind = "user" => w.then = {}
  BY ReadKeeps
<1>2. UNCHANGED <<sharedNotes, docs, screen, isEdit, rows, wanted>> /\ DeviceFits(d)
  BY DEF Reads, SerialInv
<1>3. Unsent(d)' = Unsent(d) /\ OneNoteWrite(d)' /\ Others(d)
  BY <1>1, <1>2 DEF Unsent, OneNoteWrite, DeviceFits, Others
<1>4. Pending(d)' \subseteq Pending(d) /\ Pending(d) \subseteq Pending(d)' \cup {c}
  BY <1>1, <1>3 DEF Pending
<1>5. ASSUME NEW w \in Unsent(d)'
      PROVE  WriteFits(d, w)'
  <2>1. WriteFits(d, w) /\ (w.kind = "user" => w.then = {})
    BY <1>1, <1>2, <1>3 DEF DeviceFits
  <2>. QED
    BY <1>1, <1>2, <1>3, <2>1 DEF WriteFits, At
<1>6. ASSUME NEW b \in calls'[d]
      PROVE  CallFits(d, b)'
  <2>1. CallFits(d, b) /\ b # c /\ b \in calls[d]
    BY <1>1, <1>2 DEF DeviceFits
  <2>2. b.op \notin {"shareNote", "shareUser"}
    BY <2>1 DEF CallFits
  <2>3. b.op \in LoadOps =>
           /\ (At(d, Editors \cup Shares) /\ screen[d].note = b.note /\ NoteThere(d, b.note))'
           /\ (docs[b.note].people = Lists(b.note) \/ \E w \in Unsent(d) : OfNoteWrite(w, b.note))'
    BY <1>1, <1>2, <1>3, <2>1 DEF CallFits, At, OfNoteWrite, NoteThere
  <2>. QED
    BY <1>1, <1>2, <2>1, <2>2, <2>3 DEF CallFits, UserResult
<1>7. ASSUME NEW b \in Pending(d)'
      PROVE  b.op \notin PeopleOps
  <2>1. CASE c.op \in LoadOps
    <3>1. b \in Pending(d) /\ PeopleCallFits(d, b)
      BY <1>2, <1>4 DEF DeviceFits
    <3>. QED
      BY <2>1, <3>1 DEF PeopleCallFits
  <2>2. CASE c.op = "shareUser"
    <3>1. Unsent(d) = {} /\ calls[d] = {c}
      BY <2>2, SharesAlone
    <3>2. Pending(d)' = {}
      BY <1>1, <1>3, <3>1 DEF Pending
    <3>. QED
      BY <3>2
  <2>. QED
    BY <2>1, <2>2
<1>8. CacheFits(d)'
  BY <1>1, <1>2 DEF CacheFits, At
<1>9. DeviceFits(d)'
  <2>1. At(d, {"detail"} \cup Shares)' => NoteThere(d, screen[d].note)'
    BY <1>2, <1>3 DEF DeviceFits, At, NoteThere
  <2>2. \A b \in Pending(d)' : PeopleCallFits(d, b)'
    BY <1>7 DEF PeopleCallFits
  <2>. QED
    BY <1>1, <1>2, <1>3, <1>5, <1>6, <1>8, <2>1, <2>2 DEF DeviceFits
<1>10. ASSUME NEW u \in User
       PROVE  sharedNotes'[u] = Listed(u)' \/ UserComes(d, u)'
  <2>1. sharedNotes[u] = Listed(u) \/ UserComes(d, u)
    BY <1>1, ComesFrom DEF SerialInv
  <2>2. c.op \notin UserOps /\ c.op # "dropAll"
    BY DEF LoadOps, UserOps
  <2>3. UserComes(d, u) => UserComes(d, u)'
    BY <1>1, <1>2, <1>3, <2>2 DEF UserComes, OfUserWrite
  <2>. QED
    BY <1>1, <1>2, <2>1, <2>3
<1>11. ASSUME NEW n \in Note
       PROVE  docs'[n].people = Lists(n)' \/ PeopleComes(d, n)'
  <2>1. docs[n].people = Lists(n) \/ PeopleComes(d, n)
    BY <1>1, ComesFrom DEF SerialInv
  <2>2. CASE c.op \in LoadOps
    <3>1. c.op \notin PeopleOps
      BY <2>2 DEF LoadOps, PeopleOps
    <3>2. PeopleComes(d, n) => PeopleComes(d, n)'
      BY <1>3, <1>4, <3>1 DEF PeopleComes, OfNoteWrite
    <3>. QED
      BY <1>1, <1>2, <2>1, <3>2
  <2>3. CASE c.op = "shareUser"
    <3>1. Unsent(d) = {} /\ Pending(d) = {c}
      BY <2>3, SharesAlone
    <3>2. PeopleComes(d, n) => n = c.note
      BY <3>1 DEF PeopleComes
    <3>. QED
      BY <1>1, <1>2, <2>1, <2>3, <3>2
  <2>. QED
    BY <2>2, <2>3
<1>. QED
  BY <1>1, <1>3, <1>9, <1>10, <1>11, SerialFrame

\* What a query that fills the cache finds.
LEMMA LoadReads ==
    ASSUME IInv, SerialInv, NEW d \in Device, NEW c \in calls[d], c.op \in LoadOps
    PROVE  /\ PeopleSeen(d, c.note) # {} /\ \A ps \in PeopleSeen(d, c.note) : ps = Lists(c.note)
           /\ At(d, Editors \cup Shares) /\ screen[d].note = c.note
<1>1. DeviceFits(d) /\ CallFits(d, c)
  BY DEF SerialInv, DeviceFits
<1>2. /\ At(d, Editors \cup Shares) /\ screen[d].note = c.note /\ NoteThere(d, c.note)
      /\ docs[c.note].people = Lists(c.note) \/ \E w \in Unsent(d) : OfNoteWrite(w, c.note)
  BY <1>1 DEF CallFits
<1>. QED
  BY <1>1, <1>2, CallIsGood, SeesPeople DEF Call

\* A query for one note has come back.
LEMMA NoteReadKeeps ==
    ASSUME IInv, SerialInv, NEW d \in Device, NEW c \in calls[d], NoteRead(d, c)
    PROVE  SerialInv'
<1>1. PICK ps \in PeopleSeen(d, c.note) : \/ ShareUserRead(d, c, ps) \/ DropUserRead(d, c, ps)
                                          \/ ModeUserRead(d, c, ps) \/ FillCache(d, c, ps)
  BY DEF NoteRead
<1>2. Reads(d, c)
  BY DEF NoteRead, Reads, server, history
<1>3. ASSUME c.op \in {"shareUser", "dropUser", "modeUser"}
      PROVE  /\ ps = docs[c.note].people /\ PeopleResult(c, ps) = Lists(c.note)
             /\ At(d, Shares) /\ screen[d].note = c.note
  BY <1>3, PeopleReads
<1>4. CASE DropUserRead(d, c, ps)
  <2>1. c.op = "dropUser" /\ people' = people
    BY <1>4 DEF DropUserRead
  <2>2. PeopleResult(c, ps) = ps \ {[user |-> c.user, mode |-> c.mode]}
    BY <2>1 DEF PeopleResult
  <2>3. PeopleWrite(d, c, Lists(c.note))
    BY <1>3, <1>4, <2>1, <2>2 DEF DropUserRead
  <2>. QED
    BY <1>2, <2>1, <2>3, PeopleWriteKeeps
<1>5. CASE ModeUserRead(d, c, ps)
  <2>1. c.op = "modeUser" /\ people' = people
    BY <1>5 DEF ModeUserRead
  <2>2. PeopleWrite(d, c, PeopleResult(c, ps))
    BY <1>5, <2>1 DEF ModeUserRead, PeopleResult
  <2>3. PeopleWrite(d, c, Lists(c.note))
    BY <1>3, <2>1, <2>2
  <2>. QED
    BY <1>2, <2>1, <2>3, PeopleWriteKeeps
<1>6. CASE ShareUserRead(d, c, ps)
  <2>1. c.op = "shareUser" /\ people' = people
    BY <1>6 DEF ShareUserRead
  <2>2. CASE OfUser(ps, c.user) = {}
    <3>1. PeopleWrite(d, c, PeopleResult(c, ps))
      BY <1>6, <2>1, <2>2 DEF ShareUserRead, PeopleResult
    <3>2. PeopleWrite(d, c, Lists(c.note))
      BY <1>3, <2>1, <3>1
    <3>. QED
      BY <1>2, <2>1, <3>2, PeopleWriteKeeps
  <2>3. CASE OfUser(ps, c.user) # {}
    <3>1. PeopleResult(c, ps) = ps
      BY <2>1, <2>3 DEF PeopleResult
    <3>2. queue' = queue
      BY <1>6, <2>3 DEF ShareUserRead
    <3>3. people[d] = docs[c.note].people
      BY <2>1, SharesAlone DEF PeopleCallFits, PeopleOps
    <3>4. docs[c.note].people = Lists(c.note) /\ At(d, Editors \cup Shares) /\ screen[d].note = c.note
      BY <1>3, <2>1, <3>1 DEF At
    <3>. QED
      BY <1>2, <2>1, <3>2, <3>3, <3>4, FillKeeps
  <2>. QED
    BY <2>2, <2>3
<1>7. CASE FillCache(d, c, ps)
  <2>1. c.op \in LoadOps /\ queue' = queue /\ people' = [people EXCEPT ![d] = ps]
    BY <1>7 DEF FillCache, LoadOps
  <2>2. ps = Lists(c.note) /\ At(d, Editors \cup Shares) /\ screen[d].note = c.note
    BY <2>1, LoadReads
  <2>3. people'[d] = Lists(c.note) /\ \A e \in Device \ {d} : people'[e] = people[e]
    BY <2>1, <2>2 DEF IInv, Shapes
  <2>4. c.op # "shareUser"
    BY <2>1 DEF LoadOps
  <2>. QED
    BY <1>2, <2>1, <2>2, <2>3, <2>4, FillKeeps
<1>. QED
  BY <1>1, <1>4, <1>5, <1>6, <1>7

\* No callback finds its note missing.
LEMMA NeverMissing ==
    ASSUME IInv, SerialInv, NEW d \in Device, NEW c \in calls[d]
    PROVE  ~NoteMissing(d, c)
<1>1. c.op \in {"shareUser", "dropUser", "modeUser"} => PeopleSeen(d, c.note) # {}
  BY PeopleReads
<1>2. c.op \in LoadOps => PeopleSeen(d, c.note) # {}
  BY LoadReads
<1>. QED
  BY <1>1, <1>2 DEF NoteMissing, LoadOps

\* Every answer keeps the invariant.
LEMMA CallbackKeeps ==
    ASSUME IInv, SerialInv, NEW d \in Device, Callback(d)
    PROVE  SerialInv'
<1>1. PICK c \in calls[d] : \/ ShareNoteRead(d, c) \/ DropNoteRead(d, c) \/ ModeNoteRead(d, c)
                            \/ DropAllRead(d, c) \/ NoteRead(d, c) \/ NoteMissing(d, c)
  BY DEF Callback
<1>. QED
  BY <1>1, ShareNoteKeeps, DropNoteKeeps, ModeNoteKeeps, DropAllKeeps, NoteReadKeeps, NeverMissing

-----------------------------------------------------------------------------
(* Commits *)

\* The mode that is selected when a share's first half is acknowledged is still
\* the one it was asked with.
LEMMA ResumesSame ==
    ASSUME IInv, SerialInv, NEW d \in Device, NEW w \in Unsent(d)
    PROVE  {Resume(d, c) : c \in w.then} = w.then
<1>1. ASSUME NEW c \in w.then
      PROVE  Resume(d, c) = c
  <2>1. c \in Call /\ PeopleCallFits(d, c)
    BY QueueIsSeq DEF Write, Pending, SerialInv, DeviceFits
  <2>2. CASE c.op = "shareUser"
    <3>1. c.mode = isEdit[d][c.vc]
      BY <2>1, <2>2 DEF PeopleCallFits, PeopleOps
    <3>. QED
      BY <2>1, <2>2, <3>1 DEF Resume, Call
  <2>3. CASE c.op # "shareUser"
    BY <2>3 DEF Resume
  <2>. QED
    BY <2>2, <2>3
<1>. QED
  BY <1>1

\* Every write of the queue applies, and what waits for it starts.
Sends(d, w) ==
    /\ queue[d] # <<>> /\ w \in Head(queue[d])
    /\ queue' = [queue EXCEPT ![d] = Sent(@, w)]
    /\ UNCHANGED <<screen, isEdit, people, rows, wanted>>
    /\ calls' = [calls EXCEPT ![d] = @ \cup w.then]
    /\ IF w.kind = "user"
       THEN sharedNotes' = [sharedNotes EXCEPT ![w.user] = w.entries] /\ UNCHANGED docs
       ELSE docs' = [docs EXCEPT ![w.note] = Written(w)] /\ UNCHANGED sharedNotes

\* A commit sends one write of the oldest batch.
LEMMA CommitSends ==
    ASSUME IInv, SerialInv, NEW d \in Device, Commit(d)
    PROVE  \E w \in Unsent(d) : Sends(d, w)
<1>1. PICK w \in Head(queue[d]) :
        /\ queue' = [queue EXCEPT ![d] = Sent(@, w)]
        /\ IF Applies(w)
           THEN /\ Start(d, {Resume(d, c) : c \in w.then})
                /\ IF w.kind = "user"
                   THEN sharedNotes' = [sharedNotes EXCEPT ![w.user] = w.entries] /\ UNCHANGED docs
                   ELSE docs' = [docs EXCEPT ![w.note] = Written(w)] /\ UNCHANGED sharedNotes
           ELSE UNCHANGED <<calls, server>>
  BY DEF Commit
<1>2. queue[d] # <<>> /\ UNCHANGED <<screen, isEdit, people, rows, wanted>>
  BY DEF Commit, ui, history
<1>3. w \in Unsent(d)
  BY <1>1, <1>2, QueueSends
<1>4. WriteFits(d, w)
  BY <1>3 DEF SerialInv, DeviceFits
<1>5. Applies(w)
  BY <1>4 DEF Applies, WriteFits
<1>6. {Resume(d, c) : c \in w.then} = w.then
  BY <1>3, ResumesSame
<1>7. calls' = [calls EXCEPT ![d] = @ \cup w.then]
  BY <1>1, <1>5, <1>6 DEF Start
<1>. QED
  BY <1>1, <1>2, <1>3, <1>5, <1>7 DEF Sends

\* What every commit does to the device and leaves alone.
LEMMA SendKeeps ==
    ASSUME IInv, SerialInv, NEW d \in Device, NEW w \in Unsent(d), Sends(d, w)
    PROVE  /\ (\A u : Listed(u)' = Listed(u)) /\ (\A n : Lists(n)' = Lists(n))
           /\ Work(d) /\ Others(d) /\ OneNoteWrite(d)' /\ w \in Write
           /\ Unsent(d)' \subseteq Unsent(d) /\ Unsent(d) \subseteq Unsent(d)' \cup {w}
           /\ calls'[d] = calls[d] \cup w.then
           /\ Pending(d)' \subseteq Pending(d) /\ Pending(d) \subseteq Pending(d)'
           /\ \A x : queue[d] = <<{x}>> => x = w /\ queue'[d] = <<>> /\ Unsent(d)' = {}
           /\ \A x \in Unsent(d)' : x.kind = "user" => x.then = {}
           /\ \A b \in calls[d] : b.op \notin {"shareNote", "shareUser"}
<1>1. (\A u : Listed(u)' = Listed(u)) /\ (\A n : Lists(n)' = Lists(n))
  BY SameAsked DEF Sends
<1>2. DeviceFits(d) /\ Work(d)
  BY WorksAlone DEF SerialInv, Sends
<1>3. /\ Unsent(d)' \subseteq Unsent(d) /\ Unsent(d) \subseteq Unsent(d)' \cup {w}
      /\ OneNoteWrite(d)'
      /\ \A x : queue[d] = <<{x}>> => x = w /\ queue'[d] = <<>>
      /\ \A e \in Device : e # d => queue'[e] = queue[e]
  BY <1>2, QueueSends DEF Sends, DeviceFits
<1>4. calls'[d] = calls[d] \cup w.then /\ \A e \in Device \ {d} : calls'[e] = calls[e]
  BY DEF Sends, IInv, Shapes
<1>5. Others(d) /\ w \in Write
  BY <1>3, <1>4, QueueIsSeq DEF Others, Sends
<1>6. Pending(d)' \subseteq Pending(d) /\ Pending(d) \subseteq Pending(d)'
  BY <1>3, <1>4 DEF Pending
<1>7. queue'[d] = <<>> => Unsent(d)' = {}
  BY DEF Unsent
<1>8. ASSUME NEW x \in Unsent(d)', x.kind = "user"
      PROVE  x.then = {}
  <2>1. x \in Unsent(d) /\ WriteFits(d, x)
    BY <1>2, <1>3 DEF DeviceFits
  <2>2. x.then # {} => queue[d] = <<{x}>>
    BY <1>8, <2>1 DEF WriteFits
  <2>. QED
    BY <1>3, <1>7, <1>8, <2>2
<1>9. ASSUME NEW b \in calls[d]
      PROVE  b.op \notin {"shareNote", "shareUser"}
  BY <1>2 DEF DeviceFits, CallFits, Sends
<1>. QED
  BY <1>1, <1>2, <1>3, <1>4, <1>5, <1>6, <1>7, <1>8, <1>9

\* The list of an account is written.
LEMMA SendUserKeeps ==
    ASSUME IInv, SerialInv, NEW d \in Device, NEW w \in Unsent(d), Sends(d, w), w.kind = "user"
    PROVE  SerialInv'
<1>1. /\ (\A u : Listed(u)' = Listed(u)) /\ (\A n : Lists(n)' = Lists(n))
      /\ Work(d) /\ Others(d) /\ OneNoteWrite(d)' /\ w \in Write
      /\ Unsent(d)' \subseteq Unsent(d) /\ Unsent(d) \subseteq Unsent(d)' \cup {w}
      /\ calls'[d] = calls[d] \cup w.then
      /\ Pending(d)' \subseteq Pending(d) /\ Pending(d) \subseteq Pending(d)'
      /\ \A x : queue[d] = <<{x}>> => x = w /\ queue'[d] = <<>> /\ Unsent(d)' = {}
      /\ \A x \in Unsent(d)' : x.kind = "user" => x.then = {}
      /\ \A b \in calls[d] : b.op \notin {"shareNote", "shareUser"}
  BY SendKeeps
<1>2. DeviceFits(d) /\ WriteFits(d, w) /\ WantedOK /\ sharedNotes \in [User -> SUBSET Entry]
  BY DEF SerialInv, DeviceFits, IInv, ServerOK
<1>3. UNCHANGED <<docs, screen, isEdit, people, rows, wanted>>
  BY DEF Sends
<1>4. \A u \in User : sharedNotes'[u] = IF u = w.user THEN Listed(u) ELSE sharedNotes[u]
  BY <1>1, <1>2 DEF Sends, WriteFits
<1>5. WantedOK'
  BY <1>2, <1>3 DEF WantedOK
<1>6. ASSUME NEW c \in w.then
      PROVE  /\ c.op = "shareUser" /\ w.then = {c} /\ calls'[d] = {c} /\ queue'[d] = <<>>
             /\ Unsent(d)' = {}
  BY <1>1, <1>2, <1>6 DEF WriteFits
<1>7. ASSUME NEW x \in Unsent(d)'
      PROVE  WriteFits(d, x)'
  <2>1. WriteFits(d, x) /\ x \in Write /\ (x.kind = "user" => x.then = {})
    BY <1>1, <1>2, QueueIsSeq DEF DeviceFits
  <2>2. x.user \in User
    BY <2>1 DEF Write
  <2>. QED
    BY <1>1, <1>3, <1>4, <2>1, <2>2 DEF WriteFits, At
<1>8. ASSUME NEW n, NoteThere(d, n)
      PROVE  NoteThere(d, n)'
  BY <1>1, <1>3, <1>8 DEF NoteThere
<1>9. ASSUME NEW b \in calls[d]
      PROVE  CallFits(d, b)'
  <2>1. CallFits(d, b) /\ b \in Call /\ b.op \notin {"shareNote", "shareUser"}
    BY <1>1, <1>2, CallIsGood DEF DeviceFits
  <2>2. \A u \in User : UserResult(b, Listed(u))' = UserResult(b, Listed(u)) /\ UserResult(b, sharedNotes[u])' = UserResult(b, sharedNotes'[u])
    BY <1>1 DEF UserResult
  <2>3. ASSUME NEW u \in User, UserResult(b, sharedNotes[u]) = Listed(u)
        PROVE  UserResult(b, sharedNotes'[u]) = Listed(u)'
    <3>1. UserResult(b, Listed(u)) = Listed(u)
      BY <1>2, <2>1, <2>3, ResultAgain
    <3>. QED
      BY <1>1, <1>4, <2>3, <3>1
  <2>4. b.user \in User
    BY <2>1 DEF Call
  <2>5. b.op \in LoadOps =>
           /\ (At(d, Editors \cup Shares) /\ screen[d].note = b.note /\ NoteThere(d, b.note))'
           /\ (docs[b.note].people = Lists(b.note) \/ \E x \in Unsent(d) : OfNoteWrite(x, b.note))'
    BY <1>1, <1>3, <1>8, <2>1 DEF CallFits, At, OfNoteWrite
  <2>. QED
    BY <2>1, <2>2, <2>3, <2>4, <2>5 DEF CallFits
<1>10. ASSUME NEW b \in w.then
       PROVE  CallFits(d, b)'
  BY <1>6, <1>10 DEF CallFits, UserOps, LoadOps
<1>11. ASSUME NEW b \in Pending(d)'
       PROVE  PeopleCallFits(d, b)'
  <2>1. b \in Pending(d) /\ PeopleCallFits(d, b)
    BY <1>1, <1>2 DEF DeviceFits
  <2>2. ASSUME b.op \in PeopleOps, NEW a \in calls'[d]
        PROVE  a.op \notin LoadOps /\ (a.op \in PeopleOps => a = b)
    <3>1. CASE a \in calls[d]
      BY <2>1, <2>2, <3>1 DEF PeopleCallFits
    <3>2. CASE a \in w.then
      <4>1. Pending(d)' = {a} /\ a.op = "shareUser"
        BY <1>6, <3>2 DEF Pending
      <4>. QED
        BY <4>1 DEF LoadOps
    <3>. QED
      BY <1>1, <2>2, <3>1, <3>2
  <2>3. PeopleResult(b, docs[b.note].people)' = PeopleResult(b, docs[b.note].people)
    BY <1>3 DEF PeopleResult
  <2>. QED
    BY <1>1, <1>3, <2>1, <2>2, <2>3 DEF PeopleCallFits, At
<1>12. CacheFits(d)'
  <2>1. \A x \in Unsent(d) : x.kind # "user" => x \in Unsent(d)'
    BY <1>1
  <2>. QED
    BY <1>1, <1>2, <1>3, <2>1 DEF DeviceFits, CacheFits, At
<1>13. DeviceFits(d)'
  <2>1. At(d, {"detail"} \cup Shares)' => NoteThere(d, screen[d].note)'
    BY <1>2, <1>3, <1>8 DEF DeviceFits, At
  <2>2. (\A r \in rows'[d] : ForeignFits(d, r)') /\ (At(d, {"shared"})' => ForeignFits(d, screen[d])')
    BY <1>1, <1>2, <1>3 DEF DeviceFits, ForeignFits, At
  <2>3. \A b \in calls'[d] : CallFits(d, b)'
    BY <1>1, <1>9, <1>10
  <2>. QED
    BY <1>1, <1>7, <1>11, <1>12, <2>1, <2>2, <2>3 DEF DeviceFits
<1>14. ASSUME NEW u \in User
       PROVE  sharedNotes'[u] = Listed(u)' \/ UserComes(d, u)'
  <2>1. sharedNotes[u] = Listed(u) \/ UserComes(d, u)
    BY <1>1, ComesFrom DEF SerialInv
  <2>2. CASE u = w.user
    BY <1>1, <1>4, <2>2
  <2>3. CASE u # w.user
    <3>1. sharedNotes'[u] = sharedNotes[u]
      BY <1>4, <2>3
    <3>2. UserComes(d, u) => UserComes(d, u)'
      BY <1>1, <2>3, <3>1 DEF UserComes, OfUserWrite
    <3>. QED
      BY <1>1, <2>1, <3>1, <3>2
  <2>. QED
    BY <2>2, <2>3
<1>15. ASSUME NEW n \in Note
       PROVE  docs'[n].people = Lists(n)' \/ PeopleComes(d, n)'
  <2>1. docs[n].people = Lists(n) \/ PeopleComes(d, n)
    BY <1>1, ComesFrom DEF SerialInv
  <2>2. PeopleComes(d, n) => PeopleComes(d, n)'
    BY <1>1 DEF PeopleComes, OfNoteWrite
  <2>. QED
    BY <1>1, <1>3, <2>1, <2>2
<1>. QED
  BY <1>1, <1>5, <1>13, <1>14, <1>15, SerialFrame

\* The document of a note is written or deleted.
LEMMA SendNoteKeeps ==
    ASSUME IInv, SerialInv, NEW d \in Device, NEW w \in Unsent(d), Sends(d, w), w.kind # "user"
    PROVE  SerialInv'
<1>1. /\ (\A u : Listed(u)' = Listed(u)) /\ (\A n : Lists(n)' = Lists(n))
      /\ Work(d) /\ Others(d) /\ OneNoteWrite(d)' /\ w \in Write
      /\ Unsent(d)' \subseteq Unsent(d) /\ Unsent(d) \subseteq Unsent(d)' \cup {w}
      /\ calls'[d] = calls[d] \cup w.then
      /\ Pending(d)' \subseteq Pending(d) /\ Pending(d) \subseteq Pending(d)'
      /\ \A x \in Unsent(d)' : x.kind = "user" => x.then = {}
      /\ \A b \in calls[d] : b.op \notin {"shareNote", "shareUser"}
  BY SendKeeps
<1>2. DeviceFits(d) /\ WriteFits(d, w) /\ WantedOK /\ docs \in [Note -> Doc]
  BY DEF SerialInv, DeviceFits, IInv, ServerOK
<1>3. UNCHANGED <<sharedNotes, screen, isEdit, people, rows, wanted>>
  BY DEF Sends
<1>4. w.note \in Note /\ w.people = Lists(w.note) /\ w.kind \in Kinds \ {"user"}
  BY <1>1, <1>2 DEF Write, WriteFits
<1>5. docs'[w.note] = Written(w) /\ \A n \in Note : n # w.note => docs'[n] = docs[n]
  BY <1>2, <1>4 DEF Sends
<1>6. /\ docs'[w.note].people = Lists(w.note)
      /\ w.kind # "delete" => docs'[w.note].here
      /\ w.kind = "delete" => Owner[w.note] = Account[d] /\ Lists(w.note) = {}
  BY <1>2, <1>4, <1>5 DEF Written, Doc, WriteFits, Kinds
<1>7. WantedOK'
  <2>1. ASSUME NEW o \in wanted
        PROVE  docs'[o.note].here
    <3>1. o.note \in Note /\ docs[o.note].here /\ o.user \in User /\ o.mode \in Mode
          /\ o = [note |-> o.note, user |-> o.user, mode |-> o.mode]
      BY <1>2 DEF WantedOK, IInv, HistoryOK, Offer
    <3>2. [user |-> o.user, mode |-> o.mode] \in Lists(o.note)
      BY <3>1, PeopleOfHas DEF Lists, IInv, HistoryOK
    <3>3. o.note = w.note => w.kind # "delete"
      BY <1>6, <3>2
    <3>. QED
      BY <1>5, <1>6, <3>1, <3>3
  <2>. QED
    BY <1>2, <1>3, <2>1 DEF WantedOK
<1>8. ASSUME NEW n \in Note, NoteThere(d, n)
      PROVE  NoteThere(d, n)'
  <2>1. \A x \in Unsent(d)' : x.kind = "delete" => x.note # n
    BY <1>1, <1>8 DEF NoteThere
  <2>2. n = w.note => w.kind # "delete"
    BY <1>8 DEF NoteThere
  <2>3. docs'[n].here \/ \E x \in Unsent(d)' : x.kind = "create" /\ x.note = n
    <3>1. CASE n = w.note
      BY <1>6, <2>2, <3>1
    <3>2. CASE n # w.note
      BY <1>1, <1>5, <1>8, <3>2 DEF NoteThere
    <3>. QED
      BY <3>1, <3>2
  <2>. QED
    BY <2>1, <2>3 DEF NoteThere
<1>9. ASSUME NEW x \in Unsent(d)'
      PROVE  WriteFits(d, x)'
  <2>1. WriteFits(d, x) /\ x \in Write /\ x \in Unsent(d) /\ (x.kind = "user" => x.then = {})
    BY <1>1, <1>2, QueueIsSeq DEF DeviceFits
  <2>2. x.kind \in {"people", "save"} =>
           docs'[x.note].here /\ \A y \in Unsent(d)' : y.kind = "delete" => y.note # x.note
    <3>1. ASSUME x.kind \in {"people", "save"}
          PROVE  docs[x.note].here /\ x.note \in Note /\ \A y \in Unsent(d) : y.kind = "delete" => y.note # x.note
      BY <2>1, <3>1 DEF WriteFits, Write
    <3>. QED
      BY <1>1, <1>5, <1>6, <3>1
  <2>. QED
    BY <1>1, <1>3, <2>1, <2>2 DEF WriteFits, At
<1>10. ASSUME NEW b \in Pending(d)
       PROVE  b.op \notin PeopleOps
  BY <1>2 DEF DeviceFits, PeopleCallFits
<1>11. ASSUME NEW b \in calls[d]
       PROVE  CallFits(d, b)'
  <2>1. CallFits(d, b) /\ b \in Call /\ b.op \notin {"shareNote", "shareUser"}
    BY <1>1, <1>2, CallIsGood DEF DeviceFits
  <2>2. ASSUME b.op \in LoadOps
        PROVE  /\ (At(d, Editors \cup Shares) /\ screen[d].note = b.note /\ NoteThere(d, b.note))'
               /\ (docs[b.note].people = Lists(b.note) \/ \E x \in Unsent(d) : OfNoteWrite(x, b.note))'
    <3>1. b.note \in Note
      BY <2>1 DEF Call
    <3>2. (At(d, Editors \cup Shares) /\ screen[d].note = b.note /\ NoteThere(d, b.note))'
      BY <1>3, <1>8, <2>1, <2>2, <3>1 DEF CallFits, At
    <3>3. docs'[b.note].people = Lists(b.note)' \/ \E x \in Unsent(d)' : OfNoteWrite(x, b.note)
      BY <1>1, <1>5, <1>6, <2>1, <2>2, <3>1 DEF CallFits, OfNoteWrite
    <3>. QED
      BY <3>2, <3>3 DEF OfNoteWrite
  <2>. QED
    BY <1>1, <1>3, <2>1, <2>2 DEF CallFits, UserResult
<1>12. ASSUME NEW b \in w.then
       PROVE  CallFits(d, b)'
  <2>1. b.op = "load" /\ b.note = screen[d].note /\ w.note = b.note /\ At(d, Shares)
    BY <1>2 DEF WriteFits
  <2>2. NoteThere(d, b.note)
    BY <1>2, <2>1 DEF DeviceFits, At
  <2>3. NoteThere(d, b.note)'
    BY <1>4, <1>8, <2>1, <2>2
  <2>. QED
    BY <1>1, <1>3, <1>6, <2>1, <2>3 DEF CallFits, At, UserOps, LoadOps
<1>13. CacheFits(d)'
  <2>1. \A x \in Unsent(d) : x.kind # "user" /\ x.then # {} =>
            x \in Unsent(d)' \/ \E b \in calls'[d] : b.op \in LoadOps
    <3>1. w.then # {} => \E b \in calls'[d] : b.op \in LoadOps
      BY <1>1, <1>2, <1>4 DEF WriteFits, LoadOps
    <3>. QED
      BY <1>1, <3>1
  <2>2. \A b \in calls[d] : b \in calls'[d]
    BY <1>1
  <2>. QED
    BY <1>1, <1>2, <1>3, <2>1, <2>2 DEF DeviceFits, CacheFits, At
<1>14. ASSUME NEW r, ForeignFits(d, r), r.note \in Note
       PROVE  ForeignFits(d, r)'
  BY <1>1, <1>5, <1>6, <1>14 DEF ForeignFits
<1>15. DeviceFits(d)'
  <2>1. At(d, {"detail"} \cup Shares)' => NoteThere(d, screen[d].note)'
    <3>1. At(d, {"detail"} \cup Shares) => screen[d].note \in Note /\ NoteThere(d, screen[d].note)
      BY <1>2, OwnNote DEF DeviceFits, At, Editors
    <3>. QED
      BY <1>3, <1>8, <3>1 DEF At
  <2>2. \A r \in rows'[d] : ForeignFits(d, r)'
    <3>1. \A r \in rows[d] : r.note \in Note
      BY DEF IInv, Shapes, Row
    <3>. QED
      BY <1>2, <1>3, <1>14, <3>1 DEF DeviceFits
  <2>3. At(d, {"shared"})' => ForeignFits(d, screen[d])'
    <3>1. At(d, {"shared"}) => screen[d].note \in Note
      BY ScreenNote DEF IInv, Shapes, At
    <3>2. At(d, {"shared"}) => ForeignFits(d, screen[d])
      BY <1>2 DEF DeviceFits
    <3>3. ForeignFits(d, screen[d]) /\ screen[d].note \in Note => ForeignFits(d, screen[d])'
      BY <1>1, <1>3, <1>5, <1>6 DEF ForeignFits
    <3>. QED
      BY <1>3, <3>1, <3>2, <3>3 DEF At
  <2>4. \A b \in calls'[d] : CallFits(d, b)'
    BY <1>1, <1>11, <1>12
  <2>5. \A b \in Pending(d)' : PeopleCallFits(d, b)'
    BY <1>1, <1>10 DEF PeopleCallFits
  <2>. QED
    BY <1>1, <1>9, <1>13, <2>1, <2>2, <2>3, <2>4, <2>5 DEF DeviceFits
<1>16. ASSUME NEW u \in User
       PROVE  sharedNotes'[u] = Listed(u)' \/ UserComes(d, u)'
  <2>1. sharedNotes[u] = Listed(u) \/ UserComes(d, u)
    BY <1>1, ComesFrom DEF SerialInv
  <2>2. UserComes(d, u) => UserComes(d, u)'
    BY <1>1, <1>3 DEF UserComes, OfUserWrite
  <2>. QED
    BY <1>1, <1>3, <2>1, <2>2
<1>17. ASSUME NEW n \in Note
       PROVE  docs'[n].people = Lists(n)' \/ PeopleComes(d, n)'
  <2>1. docs[n].people = Lists(n) \/ PeopleComes(d, n)
    BY <1>1, ComesFrom DEF SerialInv
  <2>2. n # w.note /\ PeopleComes(d, n) => PeopleComes(d, n)'
    BY <1>1 DEF PeopleComes, OfNoteWrite
  <2>. QED
    BY <1>1, <1>5, <1>6, <2>1, <2>2
<1>. QED
  BY <1>1, <1>7, <1>15, <1>16, <1>17, SerialFrame

\* Every commit keeps the invariant.
LEMMA CommitKeeps ==
    ASSUME IInv, SerialInv, NEW d \in Device, Commit(d)
    PROVE  SerialInv'
BY CommitSends, SendUserKeeps, SendNoteKeeps

-----------------------------------------------------------------------------
(* Taps that ask for nothing new *)

\* A tap finds everything as it was asked for.
Calm(d) ==
    /\ Work(d) /\ calls[d] = {} /\ queue[d] = <<>> /\ Unsent(d) = {} /\ OneNoteWrite(d)
    /\ WantedOK /\ wanted \in SUBSET Offer
    /\ \A u \in User : sharedNotes[u] = Listed(u)
    /\ \A n \in Note : docs[n].people = Lists(n)
    /\ people[d] = IF At(d, Editors \cup Shares) THEN Lists(screen[d].note) ELSE {}
    /\ At(d, {"detail"} \cup Shares) => docs[screen[d].note].here
    /\ \A r \in rows[d] : ForeignFits(d, r)
    /\ At(d, {"shared"}) => ForeignFits(d, screen[d])

\* A user who may act finds the device calm.
LEMMA CalmBefore ==
    ASSUME IInv, SerialInv, NEW d \in Device, MayAct(d)
    PROVE  Calm(d)
<1>1. ASSUME NEW e \in Device
      PROVE  DeviceFits(e) /\ calls[e] = {} /\ queue[e] = <<>> /\ Unsent(e) = {} /\ Pending(e) = {}
  BY DEF SerialInv, MayAct, Settled, Unsent, Pending
<1>2. ASSUME NEW e \in Device \ {d}
      PROVE  Quiet(e)
  <2>1. Resting(e)
    BY DEF MayAct
  <2>2. people[e] = {}
    BY <1>1, <2>1 DEF DeviceFits, CacheFits, Resting, At, Home, Editors, Shares
  <2>. QED
    BY <1>1, <2>1, <2>2 DEF Quiet
<1>3. Work(d)
  BY <1>2 DEF Work
<1>4. /\ \A u \in User : sharedNotes[u] = Listed(u)
      /\ \A n \in Note : docs[n].people = Lists(n)
  BY <1>1, <1>3, ComesFrom DEF SerialInv, UserComes, PeopleComes
<1>5. people[d] = IF At(d, Editors \cup Shares) THEN Lists(screen[d].note) ELSE {}
  BY <1>1 DEF DeviceFits, CacheFits
<1>6. At(d, {"detail"} \cup Shares) => docs[screen[d].note].here
  BY <1>1 DEF DeviceFits, NoteThere
<1>. QED
  BY <1>1, <1>3, <1>4, <1>5, <1>6 DEF Calm, DeviceFits, SerialInv, IInv, HistoryOK

\* Does the note exist, once the batch is queued?
There(batch, n) == docs[n].here \/ \E w \in batch : w.kind = "create" /\ w.note = n

\* What d sees when nothing is under way.
LEMMA CalmSees ==
    ASSUME NEW d \in Device, Calm(d)
    PROVE  /\ \A n \in Note : HereSeen(d, n) <=> docs[n].here
           /\ \A u \in User : UserSeen(d, u) = {Listed(u)}
           /\ \A n \in Note : docs[n].here => PeopleSeen(d, n) = {Lists(n)}
<1>1. queue[d] = <<>>
  BY DEF Calm
<1>2. DOMAIN queue[d] = {}
  BY <1>1
<1>3. \A n \in Note : HereSeen(d, n) <=> docs[n].here
  BY <1>2 DEF HereSeen, Newest
<1>4. \A u \in User : UserSeen(d, u) = {sharedNotes[u]}
  BY <1>2 DEF UserSeen, Newest
<1>5. \A n \in Note : docs[n].here => PeopleSeen(d, n) = {docs[n].people}
  BY <1>2, <1>3 DEF PeopleSeen, Newest
<1>. QED
  BY <1>3, <1>4, <1>5 DEF Calm

\* A tap that saves a note, or nothing, and starts to load what the screen needs.
LEMMA LookKeeps ==
    ASSUME IInv, NEW d \in Device, Calm(d), NEW new, NEW batch \in SUBSET Write,
           UNCHANGED <<sharedNotes, docs, wanted>>, Others(d),
           calls'[d] = new, Enqueue(d, batch),
           \A w \in batch : /\ w.kind \in {"save", "create"} /\ w.then = {} /\ w.people = Lists(w.note)
                            /\ w.kind = "save" => docs[w.note].here,
           \A c \in new : /\ c.op \in LoadOps /\ screen'[d].at \in Editors \cup Shares
                          /\ c.note = screen'[d].note /\ c.note \in Note /\ There(batch, c.note),
           screen'[d].at \in {"detail"} \cup Shares => There(batch, screen'[d].note),
           IF screen'[d].at \in Editors \cup Shares THEN people'[d] = Lists(screen'[d].note) \/ new # {}
                                                    ELSE people'[d] = {},
           \A r \in rows'[d] : ForeignFits(d, r),
           screen'[d].at = "shared" => ForeignFits(d, screen'[d])
    PROVE  SerialInv'
<1>1. /\ Work(d) /\ Unsent(d) = {} /\ OneNoteWrite(d) /\ WantedOK
      /\ \A u \in User : sharedNotes[u] = Listed(u)
      /\ \A n \in Note : docs[n].people = Lists(n)
  BY DEF Calm
<1>2. (\A u : Listed(u)' = Listed(u)) /\ (\A n : Lists(n)' = Lists(n))
  BY SameAsked
<1>3. WantedOK'
  BY <1>1 DEF WantedOK
<1>4. Unsent(d)' = batch /\ OneNoteWrite(d)'
  BY <1>1, QueueAdds
<1>5. Pending(d)' = new
  BY <1>4 DEF Pending
<1>6. ASSUME NEW w \in batch
      PROVE  WriteFits(d, w)'
  <2>1. /\ w.kind \in {"save", "create"} /\ w.then = {} /\ w.people = Lists(w.note)
        /\ w.kind = "save" => docs[w.note].here
    OBVIOUS
  <2>2. \A x \in Unsent(d)' : x.kind # "delete"
    BY <1>4
  <2>. QED
    BY <1>2, <2>1, <2>2 DEF WriteFits
<1>7. ASSUME NEW n, There(batch, n)
      PROVE  NoteThere(d, n)'
  BY <1>4, <1>7 DEF There, NoteThere
<1>8. ASSUME NEW c \in new
      PROVE  CallFits(d, c)'
  <2>1. /\ c.op \in LoadOps /\ screen'[d].at \in Editors \cup Shares
        /\ c.note = screen'[d].note /\ c.note \in Note /\ There(batch, c.note)
    OBVIOUS
  <2>2. docs'[c.note].people = Lists(c.note)' /\ NoteThere(d, c.note)'
    BY <1>1, <1>2, <1>7, <2>1
  <2>. QED
    BY <2>1, <2>2 DEF CallFits, At, LoadOps, UserOps
<1>9. \A c \in new : PeopleCallFits(d, c)'
  BY DEF PeopleCallFits, LoadOps, PeopleOps
<1>10. CacheFits(d)'
  BY <1>2 DEF CacheFits, At
<1>11. At(d, {"detail"} \cup Shares)' => NoteThere(d, screen[d].note)'
  BY <1>4 DEF At, NoteThere, There
<1>12. (\A r \in rows'[d] : ForeignFits(d, r)') /\ (At(d, {"shared"})' => ForeignFits(d, screen[d])')
  BY <1>2 DEF ForeignFits, At
<1>13. DeviceFits(d)'
  BY <1>4, <1>5, <1>6, <1>8, <1>9, <1>10, <1>11, <1>12 DEF DeviceFits
<1>14. /\ \A u \in User : sharedNotes'[u] = Listed(u)'
       /\ \A n \in Note : docs'[n].people = Lists(n)'
  BY <1>1, <1>2
<1>. QED
  BY <1>1, <1>3, <1>13, <1>14, SerialFrame

\* The queries of an editor that opens.
LEMMA OpeningLoads ==
    ASSUME NEW d, NEW n
    PROVE  \A c \in OpeningCalls(d, n) : c.op \in LoadOps /\ c.note = n
BY DEF OpeningCalls, Plain, NewCall, LoadOps

\* A row of the own notes is opened.
LEMMA OpenDetailKeeps ==
    ASSUME IInv, NEW d \in Device, Calm(d), NEW n \in Note, OpenDetail(d, n)
    PROVE  SerialInv'
<1>. DEFINE new == OpeningCalls(d, n)
<1>1. /\ UNCHANGED <<sharedNotes, docs, wanted, people, rows, queue>> /\ HereSeen(d, n)
      /\ Start(d, new) /\ Go(d, [at |-> "detail", note |-> n])
  BY DEF OpenDetail, IsOwn, server, history
<1>2. calls'[d] = new /\ screen'[d] = [at |-> "detail", note |-> n] /\ Others(d)
  BY <1>1 DEF Calm, Start, Go, Others, IInv, Shapes
<1>3. docs[n].here /\ There({}, n)
  BY <1>1, CalmSees DEF There
<1>4. \A c \in new : c.op \in LoadOps /\ c.note = n
  BY OpeningLoads
<1>5. new # {}
  BY DEF OpeningCalls
<1>6. \A r \in rows'[d] : ForeignFits(d, r)
  BY <1>1 DEF Calm
<1>7. Enqueue(d, {})
  BY <1>1 DEF Enqueue
<1>. HIDE DEF new
<1>. QED
  BY <1>1, <1>2, <1>3, <1>4, <1>5, <1>6, <1>7, LookKeeps DEF Editors, Shares

\* A new note is begun.
LEMMA OpenCreateKeeps ==
    ASSUME IInv, NEW d \in Device, Calm(d), NEW n \in Note, OpenCreate(d, n)
    PROVE  SerialInv'
<1>1. /\ UNCHANGED <<sharedNotes, docs, wanted, people, rows, queue, calls>> /\ ~HereSeen(d, n)
      /\ Go(d, [at |-> "create", note |-> n]) /\ At(d, {"home"})
  BY DEF OpenCreate, server, history
<1>2. calls'[d] = {} /\ screen'[d] = [at |-> "create", note |-> n] /\ Others(d)
  BY <1>1 DEF Calm, Go, Others, IInv, Shapes
<1>3. ~docs[n].here
  BY <1>1, CalmSees
<1>4. Lists(n) = {}
  BY <1>3 DEF Lists, PeopleOf, Calm, WantedOK
<1>5. people'[d] = {}
  BY <1>1 DEF Calm, At, Editors, Shares
<1>6. \A r \in rows'[d] : ForeignFits(d, r)
  BY <1>1 DEF Calm
<1>7. Enqueue(d, {})
  BY <1>1 DEF Enqueue
<1>. QED
  BY <1>1, <1>2, <1>4, <1>5, <1>6, <1>7, LookKeeps DEF Editors, Shares

\* The list is read again between title and description.
LEMMA FocusFieldKeeps ==
    ASSUME IInv, NEW d \in Device, Calm(d), FocusField(d)
    PROVE  SerialInv'
<1>. DEFINE n   == screen[d].note
            new == {Plain(d, "check", n, 0)}
<1>1. /\ UNCHANGED <<sharedNotes, docs, wanted, screen, people, rows, queue>> /\ At(d, {"detail"})
      /\ Start(d, new)
  BY DEF FocusField, server, history, ui
<1>2. calls'[d] = new /\ Others(d)
  BY <1>1 DEF Calm, Start, Others, IInv, Shapes
<1>3. There({}, n) /\ n \in Note
  BY <1>1, OwnNote DEF Calm, There, At, Editors
<1>4. \A c \in new : c.op \in LoadOps /\ c.note = n
  BY DEF Plain, NewCall, LoadOps
<1>5. \A r \in rows'[d] : ForeignFits(d, r)
  BY <1>1 DEF Calm
<1>6. Enqueue(d, {})
  BY <1>1 DEF Enqueue
<1>. HIDE DEF new
<1>7. /\ screen'[d].at = "detail" /\ screen'[d].note = n /\ people'[d] = Lists(n)
  BY <1>1 DEF Calm, At, Editors
<1>. HIDE DEF n
<1>. QED
  BY <1>1, <1>2, <1>3, <1>4, <1>5, <1>6, <1>7, LookKeeps DEF Editors, Shares

\* Back from the share settings.
LEMMA BackToEditorKeeps ==
    ASSUME IInv, NEW d \in Device, Calm(d), BackToEditor(d)
    PROVE  SerialInv'
<1>. DEFINE n   == screen[d].note
            at  == Under(screen[d].at)
            new == IF at = "detail" THEN OpeningCalls(d, n) ELSE {}
<1>1. /\ UNCHANGED <<sharedNotes, docs, wanted, people, rows, queue>> /\ At(d, Shares)
      /\ Go(d, [at |-> at, note |-> n]) /\ Start(d, new)
  BY DEF BackToEditor, ShareTap, server, history
<1>2. calls'[d] = new /\ screen'[d] = [at |-> at, note |-> n] /\ Others(d)
  BY <1>1 DEF Calm, Go, Start, Others, IInv, Shapes
<1>3. There({}, n) /\ n \in Note
  BY <1>1, OwnNote DEF Calm, There, At
<1>4. \A c \in new : c.op \in LoadOps /\ c.note = n
  BY OpeningLoads
<1>5. \A r \in rows'[d] : ForeignFits(d, r)
  BY <1>1 DEF Calm
<1>6. Enqueue(d, {})
  BY <1>1 DEF Enqueue
<1>. HIDE DEF new
<1>7. /\ at \in Editors /\ people'[d] = Lists(n)
  BY <1>1 DEF Calm, At, Editors, Under
<1>. HIDE DEF n, at
<1>8. screen'[d].at = at /\ screen'[d].note = n
  BY <1>2
<1>. QED
  BY <1>1, <1>2, <1>3, <1>4, <1>5, <1>6, <1>7, <1>8, LookKeeps DEF Editors, Shares

\* A tap that starts nothing and shows what was on screen, or home, or a shared row.
LEMMA StillKeeps ==
    ASSUME IInv, NEW d \in Device, Calm(d), UNCHANGED <<sharedNotes, docs, wanted, people, queue, calls>>, Others(d),
           screen'[d] = screen[d] \/ (At(d, {"home"}) /\ screen'[d].at = "shared" /\ ForeignFits(d, screen'[d])),
           \A r \in rows'[d] : ForeignFits(d, r)
    PROVE  SerialInv'
<1>1. Enqueue(d, {}) /\ calls'[d] = {}
  BY DEF Enqueue, Calm
<1>2. screen'[d].at \in {"detail"} \cup Shares => There({}, screen'[d].note)
  BY DEF Calm, There, At, Shares
<1>3. IF screen'[d].at \in Editors \cup Shares THEN people'[d] = Lists(screen'[d].note) ELSE people'[d] = {}
  BY DEF Calm, At, Editors, Shares
<1>4. screen'[d].at = "shared" => ForeignFits(d, screen'[d])
  BY DEF Calm, At
<1>. QED
  BY <1>1, <1>2, <1>3, <1>4, LookKeeps

\* The view and edit buttons.
LEMMA ClickModeKeeps ==
    ASSUME IInv, NEW d \in Device, Calm(d), ClickMode(d)
    PROVE  SerialInv'
<1>1. UNCHANGED <<sharedNotes, docs, wanted, screen, people, rows, calls, queue>>
  BY DEF ClickMode, server, history
<1>. QED
  BY <1>1, StillKeeps DEF Calm, Others

\* The shared rows go away.
LEMMA HideSharedKeeps ==
    ASSUME IInv, NEW d \in Device, Calm(d), HideShared(d)
    PROVE  SerialInv'
<1>1. UNCHANGED <<sharedNotes, docs, wanted, screen, people, calls, queue>> /\ rows' = [rows EXCEPT ![d] = {}]
  BY DEF HideShared, server, history
<1>2. rows'[d] = {} /\ Others(d)
  BY <1>1 DEF Others, IInv, Shapes
<1>. QED
  BY <1>1, <1>2, StillKeeps

\* A shared note is opened.
LEMMA OpenSharedKeeps ==
    ASSUME IInv, NEW d \in Device, Calm(d), NEW r \in rows[d], OpenShared(d, r)
    PROVE  SerialInv'
<1>. DEFINE s == [at |-> "shared", note |-> r.note, mode |-> r.mode, people |-> r.people]
<1>1. UNCHANGED <<sharedNotes, docs, wanted, people, rows, calls, queue>> /\ Go(d, s) /\ At(d, {"home"})
  BY DEF OpenShared, server, history
<1>2. screen'[d] = s /\ Others(d)
  BY <1>1 DEF Go, Others, IInv, Shapes
<1>3. ForeignFits(d, s) /\ s.at = "shared"
  BY DEF Calm, ForeignFits
<1>4. \A x \in rows'[d] : ForeignFits(d, x)
  BY <1>1 DEF Calm
<1>. HIDE DEF s
<1>. QED
  BY <1>1, <1>2, <1>3, <1>4, StillKeeps

\* The shared notes are listed.
LEMMA LoadSharedNotesKeeps ==
    ASSUME IInv, NEW d \in Device, Calm(d), LoadSharedNotes(d)
    PROVE  SerialInv'
<1>. DEFINE es    == Listed(Account[d])
            found == UNION {{[note |-> e.note, mode |-> e.mode, people |-> ps] : ps \in PeopleSeen(d, e.note)} : e \in es}
<1>1. Account[d] \in User /\ UserSeen(d, Account[d]) = {es}
  BY CalmSees, AccountAssumption
<1>2. ASSUME NEW e \in es
      PROVE  e.note \in Note /\ docs[e.note].here /\ Owner[e.note] # Account[d]
  <2>1. PICK o \in wanted : o.user = Account[d] /\ o.note = e.note
    BY <1>2 DEF Listed, NotesOf
  <2>2. o.note \in Note
    BY DEF Calm, Offer
  <2>. QED
    BY <2>1, <2>2 DEF Calm, WantedOK
<1>3. \A e \in es : HereSeen(d, e.note) /\ PeopleSeen(d, e.note) = {Lists(e.note)}
  BY <1>2, CalmSees
<1>4. UNCHANGED <<sharedNotes, docs, wanted, screen, people, calls, queue>> /\ rows' = [rows EXCEPT ![d] = found]
  BY <1>1, <1>3 DEF LoadSharedNotes, server, history
<1>5. rows'[d] = found /\ Others(d)
  BY <1>4 DEF Others, IInv, Shapes
<1>6. ASSUME NEW r \in found
      PROVE  ForeignFits(d, r)
  <2>1. PICK e \in es : \E ps \in PeopleSeen(d, e.note) : r = [note |-> e.note, mode |-> e.mode, people |-> ps]
    BY <1>6
  <2>2. r.note = e.note /\ r.people = Lists(e.note)
    BY <1>3, <2>1
  <2>. QED
    BY <1>2, <2>2 DEF ForeignFits
<1>. HIDE DEF found
<1>. QED
  BY <1>4, <1>5, <1>6, StillKeeps

\* A save writes the list that was asked for.
LEMMA SaveFits ==
    ASSUME NEW d \in Device, NEW n \in Note, NEW kind \in Kinds, NEW ps \in SUBSET Person
    PROVE  /\ NoteWrite(kind, n, Account[d], ps, {}) \in Write
           /\ NoteWrite(kind, n, Account[d], ps, {}).kind = kind
           /\ NoteWrite(kind, n, Account[d], ps, {}).then = {}
           /\ NoteWrite(kind, n, Account[d], ps, {}).people = ps
           /\ NoteWrite(kind, n, Account[d], ps, {}).note = n
BY AccountAssumption DEF NoteWrite, Write

\* What an editor saves.
LEMMA SaveNoteFits ==
    ASSUME IInv, NEW d \in Device, Calm(d), At(d, Editors), SaveNote(d, TRUE)
    PROVE  \E w \in Write : /\ Enqueue(d, {w}) /\ w.kind \in {"save", "create"} /\ w.then = {}
                            /\ w.note = screen[d].note /\ w.people = Lists(w.note)
                            /\ w.kind = "save" => docs[w.note].here
                            /\ There({w}, w.note)
                            /\ people' = [people EXCEPT ![d] = {}] /\ wanted' = wanted
<1>. DEFINE n    == screen[d].note
            kind == IF screen[d].at = "detail" THEN "save" ELSE "create"
<1>1. n \in Note /\ people[d] \in SUBSET Person /\ kind \in {"save", "create"} /\ kind \in Kinds
  BY OwnNote DEF At, IInv, Shapes, Kinds
<1>2. PICK w \in Write : /\ w = NoteWrite(kind, n, Account[d], people[d], {})
                         /\ w.kind = kind /\ w.then = {} /\ w.people = people[d] /\ w.note = n
  <2>1. ASSUME NEW k \in Kinds, NEW m \in Note, NEW ps \in SUBSET Person
        PROVE  \E w \in Write : /\ w = NoteWrite(k, m, Account[d], ps, {})
                                /\ w.kind = k /\ w.then = {} /\ w.people = ps /\ w.note = m
    <3>. DEFINE w == NoteWrite(k, m, Account[d], ps, {})
    <3>1. w \in Write /\ w.kind = k /\ w.then = {} /\ w.people = ps /\ w.note = m
      BY SaveFits
    <3>. HIDE DEF w
    <3>. QED
      BY <3>1 DEF w
  <2>. HIDE DEF n, kind
  <2>. QED
    BY <1>1, <2>1
<1>3. Enqueue(d, {w}) /\ people' = [people EXCEPT ![d] = {}] /\ wanted' = wanted
  BY <1>2 DEF SaveNote
<1>4. people[d] = Lists(n) /\ (screen[d].at = "detail" => docs[n].here)
  BY DEF Calm, At
<1>5. There({w}, n) /\ (w.kind = "save" => docs[n].here)
  BY <1>2, <1>4 DEF There
<1>. HIDE DEF n
<1>6. w.note = n /\ w.people = Lists(n)
  BY <1>2, <1>4
<1>. QED
  BY <1>1, <1>2, <1>3, <1>5, <1>6 DEF n

\* Back from an editor with something in it: the note is saved with the cached list.
LEMMA LeaveEditorKeeps ==
    ASSUME IInv, NEW d \in Device, Calm(d), LeaveEditor(d, TRUE)
    PROVE  SerialInv'
<1>1. PICK w \in Write : /\ Enqueue(d, {w}) /\ w.kind \in {"save", "create"} /\ w.then = {}
                         /\ w.people = Lists(w.note)
                         /\ w.kind = "save" => docs[w.note].here
                         /\ people' = [people EXCEPT ![d] = {}] /\ wanted' = wanted
  BY SaveNoteFits DEF LeaveEditor
<1>2. UNCHANGED <<sharedNotes, docs, rows>> /\ Go(d, Home) /\ Start(d, {})
  BY DEF LeaveEditor, server
<1>3. /\ calls'[d] = {} /\ screen'[d] = Home /\ people'[d] = {}
      /\ \A e \in Device : e # d => queue'[e] = queue[e]
  BY <1>1, <1>2, QueueAdds DEF Calm, Go, Start, IInv, Shapes
<1>4. Others(d)
  BY <1>1, <1>2, <1>3 DEF Others, Go, Start, IInv, Shapes
<1>5. \A r \in rows'[d] : ForeignFits(d, r)
  BY <1>2 DEF Calm
<1>6. /\ screen'[d].at \notin Editors \cup Shares /\ screen'[d].at \notin {"detail"} \cup Shares
      /\ screen'[d].at # "shared"
  BY <1>3 DEF Home, Editors, Shares
<1>7. /\ {w} \in SUBSET Write
      /\ \A x \in {w} : /\ x.kind \in {"save", "create"} /\ x.then = {} /\ x.people = Lists(x.note)
                        /\ x.kind = "save" => docs[x.note].here
  BY <1>1
<1>. QED
  BY <1>1, <1>2, <1>3, <1>4, <1>5, <1>6, <1>7, LookKeeps

\* To the share settings: the note is saved with the cached list, and the list is read.
LEMMA OpenShareKeeps ==
    ASSUME IInv, NEW d \in Device, Calm(d), OpenShare(d, TRUE)
    PROVE  SerialInv'
<1>. DEFINE n    == screen[d].note
            at   == ShareOver(screen[d].at)
            load == Plain(d, "load", n, Len(isEdit[d]) + 1)
<1>1. PICK w \in Write : /\ Enqueue(d, {w}) /\ w.kind \in {"save", "create"} /\ w.then = {}
                         /\ w.note = n /\ w.people = Lists(w.note)
                         /\ w.kind = "save" => docs[w.note].here
                         /\ There({w}, w.note)
                         /\ people' = [people EXCEPT ![d] = {}] /\ wanted' = wanted
  BY SaveNoteFits DEF OpenShare
<1>2. UNCHANGED <<sharedNotes, docs, rows>> /\ Go(d, [at |-> at, note |-> n]) /\ Start(d, {load})
  BY DEF OpenShare, server
<1>3. n \in Note /\ at \in Shares
  BY OwnNote DEF OpenShare, At, ShareOver, Shares
<1>4. load.op \in LoadOps /\ load.note = n
  BY DEF Plain, NewCall, LoadOps
<1>. HIDE DEF load, n, at
<1>5. /\ calls'[d] = {load} /\ screen'[d].at = at /\ screen'[d].note = n
      /\ \A e \in Device : e # d => queue'[e] = queue[e]
  BY <1>1, <1>2, QueueAdds DEF Calm, Go, Start, IInv, Shapes
<1>6. Others(d)
  BY <1>1, <1>2, <1>5 DEF Others, Go, Start, IInv, Shapes
<1>7. \A r \in rows'[d] : ForeignFits(d, r)
  BY <1>2 DEF Calm
<1>8. screen'[d].at \in Editors \cup Shares /\ screen'[d].at # "shared"
  BY <1>3, <1>5 DEF Shares
<1>9. /\ {w} \in SUBSET Write /\ {load} # {}
      /\ \A x \in {w} : /\ x.kind \in {"save", "create"} /\ x.then = {} /\ x.people = Lists(x.note)
                        /\ x.kind = "save" => docs[x.note].here
  BY <1>1
<1>10. \A c \in {load} : /\ c.op \in LoadOps /\ screen'[d].at \in Editors \cup Shares
                         /\ c.note = screen'[d].note /\ c.note \in Note /\ There({w}, c.note)
  BY <1>1, <1>3, <1>4, <1>5, <1>8
<1>11. There({w}, screen'[d].note)
  BY <1>1, <1>5
<1>. QED
  BY <1>1, <1>2, <1>5, <1>6, <1>7, <1>8, <1>9, <1>10, <1>11, LookKeeps

\* Back from a shared note: an editor saves it with the list it was opened with.
LEMMA CloseSharedKeeps ==
    ASSUME IInv, NEW d \in Device, Calm(d), CloseShared(d)
    PROVE  SerialInv'
<1>. DEFINE s == screen[d]
<1>1. UNCHANGED <<sharedNotes, docs, rows, calls, wanted>> /\ Go(d, Home) /\ At(d, {"shared"})
  BY DEF CloseShared, server, history
<1>2. s.note \in Note /\ s.people \in SUBSET Person /\ ForeignFits(d, s)
  BY <1>1, ScreenNote DEF At, Calm, IInv, Shapes
<1>3. /\ calls'[d] = {} /\ screen'[d] = Home
      /\ screen'[d].at \notin Editors \cup Shares /\ screen'[d].at \notin {"detail"} \cup Shares
      /\ screen'[d].at # "shared"
  BY <1>1 DEF Calm, Go, IInv, Shapes, Home, Editors, Shares
<1>4. \A r \in rows'[d] : ForeignFits(d, r)
  BY <1>1 DEF Calm
<1>5. CASE MayWrite(s)
  <2>1. /\ Enqueue(d, {NoteWrite("save", s.note, Account[d], s.people, {})})
        /\ people' = [people EXCEPT ![d] = {}]
    BY <1>5 DEF CloseShared, ListToSave
  <2>2. PICK w \in Write : /\ w = NoteWrite("save", s.note, Account[d], s.people, {})
                           /\ w.kind = "save" /\ w.then = {} /\ w.people = s.people /\ w.note = s.note
    <3>1. "save" \in Kinds
      BY DEF Kinds
    <3>. DEFINE w == NoteWrite("save", s.note, Account[d], s.people, {})
    <3>2. w \in Write /\ w.kind = "save" /\ w.then = {} /\ w.people = s.people /\ w.note = s.note
      BY <1>2, <3>1, SaveFits
    <3>. HIDE DEF w
    <3>. QED
      BY <3>2 DEF w
  <2>3. Enqueue(d, {w}) /\ {w} \in SUBSET Write
    BY <2>1, <2>2
  <2>4. people'[d] = {} /\ \A e \in Device : e # d => queue'[e] = queue[e]
    BY <2>1, <2>3, QueueAdds DEF IInv, Shapes
  <2>5. Others(d)
    BY <1>1, <2>1, <2>4 DEF Others, Go, IInv, Shapes
  <2>6. \A x \in {w} : /\ x.kind \in {"save", "create"} /\ x.then = {} /\ x.people = Lists(x.note)
                       /\ x.kind = "save" => docs[x.note].here
    BY <1>2, <2>2 DEF ForeignFits
  <2>. QED
    BY <1>1, <1>3, <1>4, <2>3, <2>4, <2>5, <2>6, LookKeeps
<1>6. CASE ~MayWrite(s)
  <2>1. UNCHANGED <<queue, people>>
    BY <1>6 DEF CloseShared
  <2>2. Others(d) /\ Enqueue(d, {})
    BY <1>1, <2>1 DEF Others, Go, IInv, Shapes, Enqueue
  <2>3. people'[d] = {}
    BY <1>1, <2>1 DEF Calm, At, Editors, Shares
  <2>. QED
    BY <1>1, <1>3, <1>4, <2>2, <2>3, LookKeeps
<1>. QED
  BY <1>5, <1>6

-----------------------------------------------------------------------------
(* Taps that end every share of a note *)

\* A note is deleted or its list emptied, and every account's entry of it is asked for.
LEMMA EndKeeps ==
    ASSUME IInv, NEW d \in Device, Calm(d), NEW n \in Note, Owner[n] = Account[d],
           NEW w \in Write, w.kind \in {"delete", "people"}, w.note = n, w.people = {}, w.then = {}, Enqueue(d, {w}),
           UNCHANGED <<sharedNotes, docs, rows>>, wanted' = Unwant(n), Others(d),
           NEW loads, calls'[d] = DropAllCalls(d, n) \cup loads,
           \A c \in loads : c.op \in LoadOps /\ c.note = n,
           \/ screen'[d].at = "home" /\ people'[d] = {} /\ loads = {} /\ w.kind = "delete"
           \/ /\ screen'[d] = screen[d] /\ At(d, Shares) /\ screen[d].note = n
              /\ loads # {} /\ w.kind = "people"
    PROVE  SerialInv'
<1>1. /\ Work(d) /\ Unsent(d) = {} /\ OneNoteWrite(d) /\ WantedOK /\ wanted \in SUBSET Offer
      /\ \A u \in User : sharedNotes[u] = Listed(u)
      /\ \A k \in Note : docs[k].people = Lists(k)
      /\ \A r \in rows[d] : ForeignFits(d, r)
      /\ At(d, Shares) => docs[screen[d].note].here
  BY DEF Calm, At
<1>2. /\ \A u : Listed(u)' = Listed(u) \ OfNote(Listed(u), n)
      /\ \A k : Lists(k)' = IF k = n THEN {} ELSE Lists(k)
  <2>1. wanted' = {o \in wanted : o.note # n}
    BY DEF Unwant
  <2>2. \A v : NotesOf(wanted', v) = NotesOf(wanted, v) \ OfNote(NotesOf(wanted, v), n)
    BY ONLY <2>1 DEF NotesOf, OfNote
  <2>3. \A k : PeopleOf(wanted', k) = IF k = n THEN {} ELSE PeopleOf(wanted, k)
    BY ONLY <2>1 DEF PeopleOf
  <2>. QED
    BY ONLY <2>2, <2>3 DEF Listed, Lists
<1>3. WantedOK'
  BY <1>1 DEF WantedOK, OneModeEach, Unwant
<1>4. Unsent(d)' = {w} /\ OneNoteWrite(d)'
  BY <1>1, QueueAdds
<1>5. Pending(d)' = calls'[d]
  BY <1>4 DEF Pending
<1>6. w.kind = "people" => docs'[n].here /\ NoteThere(d, n)'
  BY <1>1, <1>4 DEF NoteThere
<1>7. WriteFits(d, w)'
  BY <1>2, <1>4, <1>6 DEF WriteFits
<1>8. ASSUME NEW c \in DropAllCalls(d, n)
      PROVE  c.op = "dropAll" /\ c.note = n
  BY DEF DropAllCalls, NewCall
<1>9. ASSUME NEW c \in calls'[d]
      PROVE  CallFits(d, c)'
  <2>1. CASE c \in DropAllCalls(d, n)
    <3>1. c.op = "dropAll" /\ c.note = n
      BY <1>8, <2>1
    <3>2. \A u \in User : UserResult(c, sharedNotes[u])' = Listed(u)'
      BY <1>1, <1>2, <3>1 DEF UserResult
    <3>. QED
      BY <3>1, <3>2 DEF CallFits, UserOps, LoadOps
  <2>2. CASE c \in loads
    <3>1. c.op \in LoadOps /\ c.note = n /\ w.kind = "people" /\ screen'[d] = screen[d] /\ At(d, Shares) /\ screen[d].note = n
      BY <2>2
    <3>2. (\E x \in Unsent(d) : OfNoteWrite(x, c.note))'
      BY <1>4, <3>1 DEF OfNoteWrite
    <3>3. NoteThere(d, c.note)'
      BY <1>6, <3>1
    <3>. QED
      BY <3>1, <3>2, <3>3 DEF CallFits, At, UserOps, LoadOps
  <2>. QED
    BY <2>1, <2>2
<1>10. \A c \in calls'[d] : PeopleCallFits(d, c)'
  BY <1>8 DEF PeopleCallFits, LoadOps, PeopleOps
<1>11. CacheFits(d)'
  <2>1. CASE screen'[d].at = "home" /\ people'[d] = {}
    BY <2>1 DEF CacheFits, At, Editors, Shares
  <2>2. CASE loads # {}
    <3>1. (\E c \in calls[d] : c.op \in LoadOps)'
      BY <2>2
    <3>2. At(d, Editors \cup Shares)'
      BY <2>2 DEF At
    <3>. QED
      BY <3>1, <3>2 DEF CacheFits
  <2>. QED
    BY <2>1, <2>2
<1>12. \A r \in rows'[d] : ForeignFits(d, r)'
  BY <1>1, <1>2 DEF ForeignFits
<1>13. DeviceFits(d)'
  <2>1. At(d, {"detail"} \cup Shares)' => NoteThere(d, screen[d].note)'
    BY <1>6 DEF At, Shares
  <2>2. ~At(d, {"shared"})'
    BY DEF At, Shares
  <2>. QED
    BY <1>4, <1>5, <1>7, <1>9, <1>10, <1>11, <1>12, <2>1, <2>2 DEF DeviceFits
<1>14. ASSUME NEW u \in User
       PROVE  sharedNotes'[u] = Listed(u)' \/ UserComes(d, u)'
  <2>1. CASE OfNote(Listed(u), n) = {}
    BY <1>1, <1>2, <2>1
  <2>2. CASE OfNote(Listed(u), n) # {}
    <3>1. PICK e \in Listed(u) : e.note = n
      BY <2>2 DEF OfNote
    <3>2. e = [note |-> n, mode |-> e.mode] /\ e.mode \in Mode
      BY <1>1, <3>1, NotesOfHas DEF Listed, Entry
    <3>3. PICK c \in DropAllCalls(d, n) : c.op = "dropAll" /\ c.note = n /\ c.mode = e.mode
      <4>. DEFINE c == NewCall("dropAll", n, Account[d], e.mode, 0)
      <4>1. c \in DropAllCalls(d, n)
        BY <3>2 DEF DropAllCalls
      <4>2. c.op = "dropAll" /\ c.note = n /\ c.mode = e.mode
        BY DEF NewCall
      <4>. QED
        BY <4>1, <4>2
    <3>4. [note |-> c.note, mode |-> c.mode] \in sharedNotes'[u]
      BY <1>1, <3>1, <3>2, <3>3
    <3>. QED
      BY <3>3, <3>4 DEF UserComes
  <2>. QED
    BY <2>1, <2>2
<1>15. ASSUME NEW k \in Note
       PROVE  docs'[k].people = Lists(k)' \/ PeopleComes(d, k)'
  <2>1. k = n => PeopleComes(d, k)'
    BY <1>4 DEF PeopleComes, OfNoteWrite
  <2>. QED
    BY <1>1, <1>2, <2>1
<1>. QED
  BY <1>1, <1>3, <1>13, <1>14, <1>15, SerialFrame

\* The write that ends the shares of a note.
LEMMA EndFits ==
    ASSUME NEW d \in Device, NEW n \in Note, NEW kind \in {"delete", "people"},
           NEW w, w = NoteWrite(kind, n, Account[d], {}, {})
    PROVE  w \in Write /\ w.kind = kind /\ w.note = n /\ w.people = {} /\ w.then = {}
<1>1. kind \in Kinds /\ {} \in SUBSET Person
  BY DEF Kinds
<1>. QED
  BY <1>1, SaveFits

\* A note is deleted from the list.
LEMMA SwipeDeleteKeeps ==
    ASSUME IInv, NEW d \in Device, Calm(d), NEW n \in Note, SwipeDelete(d, n)
    PROVE  SerialInv'
<1>1. PICK w : w = NoteWrite("delete", n, Account[d], {}, {})
  OBVIOUS
<1>1a. w \in Write /\ w.kind = "delete" /\ w.note = n /\ w.people = {} /\ w.then = {}
  BY <1>1, EndFits
<1>2. /\ UNCHANGED <<sharedNotes, docs, screen, people, rows>> /\ wanted' = Unwant(n) /\ Enqueue(d, {w})
      /\ Start(d, DropAllCalls(d, n)) /\ Owner[n] = Account[d] /\ At(d, {"home"})
  BY <1>1 DEF SwipeDelete, IsOwn, server, ui
<1>3. /\ calls'[d] = DropAllCalls(d, n) \cup {} /\ \A e \in Device : e # d => queue'[e] = queue[e]
      /\ screen'[d].at = "home" /\ people'[d] = {}
  BY <1>1a, <1>2, QueueAdds DEF Calm, Start, IInv, Shapes, At, Editors, Shares
<1>4. Others(d)
  BY <1>2, <1>3 DEF Others, Start, IInv, Shapes
<1>. QED
  BY <1>1a, <1>2, <1>3, <1>4, EndKeeps

\* Back from an editor with nothing in it: the note is deleted.
LEMMA ClearEditorKeeps ==
    ASSUME IInv, NEW d \in Device, Calm(d), LeaveEditor(d, FALSE)
    PROVE  SerialInv'
<1>1. screen[d].note \in Note /\ Owner[screen[d].note] = Account[d]
  BY OwnNote DEF LeaveEditor, At
<1>2. PICK n \in Note : n = screen[d].note
  BY <1>1
<1>3. PICK w : w = NoteWrite("delete", n, Account[d], {}, {})
  OBVIOUS
<1>3a. w \in Write /\ w.kind = "delete" /\ w.note = n /\ w.people = {} /\ w.then = {}
  BY <1>3, EndFits
<1>4. /\ UNCHANGED <<sharedNotes, docs, rows>> /\ wanted' = Unwant(n) /\ Enqueue(d, {w})
      /\ Start(d, DropAllCalls(d, n)) /\ people' = [people EXCEPT ![d] = {}] /\ Go(d, Home)
  BY <1>2, <1>3 DEF LeaveEditor, SaveNote, server
<1>5. /\ calls'[d] = DropAllCalls(d, n) \cup {} /\ \A e \in Device : e # d => queue'[e] = queue[e]
      /\ screen'[d].at = "home" /\ people'[d] = {}
  BY <1>3a, <1>4, QueueAdds DEF Calm, Start, Go, Home, IInv, Shapes
<1>6. Others(d)
  BY <1>4, <1>5 DEF Others, Start, Go, IInv, Shapes
<1>. QED
  BY <1>1, <1>2, <1>3a, <1>4, <1>5, <1>6, EndKeeps

\* Sharing is stopped.
LEMMA StopShareKeeps ==
    ASSUME IInv, NEW d \in Device, Calm(d), StopShare(d)
    PROVE  SerialInv'
<1>1. screen[d].note \in Note /\ Owner[screen[d].note] = Account[d] /\ At(d, Shares)
  BY OwnNote DEF StopShare, ShareTap, At
<1>2. PICK n \in Note : n = screen[d].note
  BY <1>1
<1>3. PICK w : w = NoteWrite("people", n, Account[d], {}, {})
  OBVIOUS
<1>3a. w \in Write /\ w.kind = "people" /\ w.note = n /\ w.people = {} /\ w.then = {}
  BY <1>3, EndFits
<1>4. PICK load : load = Plain(d, "load", n, Len(isEdit[d]))
  OBVIOUS
<1>. DEFINE loads == {load}
<1>5. loads # {} /\ \A c \in loads : c.op \in LoadOps /\ c.note = n
  BY <1>4 DEF Plain, NewCall, LoadOps
<1>9. load.op \in LoadOps /\ load.note = n
  BY <1>4 DEF Plain, NewCall, LoadOps
<1>6. /\ UNCHANGED <<sharedNotes, docs, screen, people, rows>> /\ wanted' = Unwant(n) /\ Enqueue(d, {w})
      /\ Start(d, DropAllCalls(d, n) \cup {load})
  BY <1>2, <1>3, <1>4 DEF StopShare, server, ui
<1>7. /\ calls'[d] = DropAllCalls(d, n) \cup {load} /\ \A e \in Device : e # d => queue'[e] = queue[e]
  BY <1>3a, <1>6, QueueAdds DEF Calm, Start, IInv, Shapes
<1>8. Others(d)
  BY <1>6, <1>7 DEF Others, Start, IInv, Shapes
<1>10. calls'[d] = DropAllCalls(d, n) \cup loads /\ screen'[d] = screen[d] /\ screen[d].note = n
  BY <1>2, <1>6, <1>7
<1>. HIDE DEF loads
<1>. QED
  BY <1>1, <1>2, <1>3a, <1>5, <1>6, <1>8, <1>10, EndKeeps

-----------------------------------------------------------------------------
(* Taps that change the share of one account *)

\* Both halves of a change are asked for at once: a will put the list of the
\* account right, and b the list of the note.
Halves(d, n, u, a, b) ==
    /\ At(d, Shares) /\ screen[d].note = n /\ Owner[n] = Account[d]
    /\ UNCHANGED <<sharedNotes, docs, screen, isEdit, people, rows, queue>> /\ Others(d) /\ WantedOK'
    /\ \A v \in User : v # u => Listed(v)' = Listed(v)
    /\ \A k \in Note : k # n => Lists(k)' = Lists(k)
    /\ calls'[d] = {a, b} /\ a.op \in UserOps /\ b.op \in PeopleOps /\ b.op # "shareUser"
    /\ (a.op \in PeopleOps => a = b) /\ (b.op \in UserOps => a = b)
    /\ a.note = n /\ a.user = u /\ b.note = n
    /\ b.op = "shareNote" => b.mode = isEdit[d][b.vc]
    /\ UserResult(a, Listed(u)) = Listed(u)' /\ PeopleResult(b, Lists(n)) = Lists(n)'

\* Such a tap keeps the invariant.
LEMMA ChangeKeeps ==
    ASSUME IInv, NEW d \in Device, Calm(d), NEW n \in Note, NEW u \in User, NEW a, NEW b, Halves(d, n, u, a, b)
    PROVE  SerialInv'
<1>. USE DEF Halves
<1>1. /\ Work(d) /\ Unsent(d) = {} /\ queue[d] = <<>> /\ OneNoteWrite(d)
      /\ \A v \in User : sharedNotes[v] = Listed(v)
      /\ \A k \in Note : docs[k].people = Lists(k)
      /\ \A r \in rows[d] : ForeignFits(d, r)
      /\ docs[n].here /\ people[d] = docs[n].people
  BY DEF Calm, At
<1>2. /\ Unsent(d)' = {} /\ Pending(d)' = {a, b} /\ OneNoteWrite(d)' /\ queue'[d] = <<>>
      /\ At(d, Shares)' /\ screen'[d].note = n /\ docs'[n].here
  BY <1>1 DEF Unsent, Pending, OneNoteWrite, At
<1>3. \A w \in Unsent(d)' : WriteFits(d, w)'
  BY <1>2
<1>4. CallFits(d, a)'
  <2>1. UserResult(a, sharedNotes[a.user])' = Listed(a.user)'
    BY <1>1 DEF UserResult
  <2>2. a.op = "shareNote" => calls'[d] = {a} /\ queue'[d] = <<>>
    BY <1>2 DEF PeopleOps
  <2>. QED
    BY <2>1, <2>2 DEF CallFits, UserOps, LoadOps
<1>5. CallFits(d, b)'
  BY <1>4 DEF CallFits, UserOps, PeopleOps, LoadOps
<1>6. PeopleCallFits(d, b)'
  <2>1. PeopleResult(b, docs[b.note].people)' = Lists(b.note)'
    BY <1>1 DEF PeopleResult
  <2>2. \A c \in calls'[d] : c.op \notin LoadOps /\ (c.op \in PeopleOps => c = b)
    BY DEF LoadOps, UserOps, PeopleOps
  <2>3. b.op = "shareNote" => b.mode = isEdit'[d][b.vc] /\ people'[d] = docs'[b.note].people
    BY <1>1
  <2>. QED
    BY <1>2, <2>1, <2>2, <2>3 DEF PeopleCallFits
<1>7. \A c \in Pending(d)' : PeopleCallFits(d, c)'
  BY <1>2, <1>6 DEF PeopleCallFits
<1>8. \A r \in rows'[d] : ForeignFits(d, r)'
  <2>1. ASSUME NEW r \in rows[d]
        PROVE  r.note # n /\ r.note \in Note /\ docs[r.note].here /\ r.people = Lists(r.note) /\ Owner[r.note] # Account[d]
    <3>1. r \in Row
      BY DEF IInv, Shapes
    <3>. QED
      BY <1>1, <3>1 DEF Row, ForeignFits
  <2>. QED
    BY <2>1 DEF ForeignFits
<1>9. CacheFits(d)'
  <2>1. At(d, Editors \cup Shares)'
    BY <1>2 DEF At
  <2>. QED
    BY <1>2, <2>1 DEF CacheFits
<1>10. DeviceFits(d)'
  <2>1. NoteThere(d, n)'
    BY <1>2 DEF NoteThere
  <2>2. ~At(d, {"shared"})'
    BY <1>2 DEF At, Shares
  <2>. QED
    BY <1>2, <1>3, <1>4, <1>5, <1>7, <1>8, <1>9, <2>1, <2>2 DEF DeviceFits
<1>11. ASSUME NEW v \in User
       PROVE  sharedNotes'[v] = Listed(v)' \/ UserComes(d, v)'
  <2>1. v = u => UserComes(d, v)'
    BY DEF UserComes
  <2>. QED
    BY <1>1, <2>1
<1>12. ASSUME NEW k \in Note
       PROVE  docs'[k].people = Lists(k)' \/ PeopleComes(d, k)'
  <2>1. k = n => PeopleComes(d, k)'
    BY <1>2 DEF PeopleComes
  <2>. QED
    BY <1>1, <2>1
<1>. QED
  BY <1>1, <1>10, <1>11, <1>12, SerialFrame

\* One account more.
LEMMA AddPeopleKeeps ==
    ASSUME IInv, NEW d \in Device, Calm(d), NEW u \in User, AddPeople(d, u)
    PROVE  SerialInv'
<1>1. /\ screen[d].note \in Note /\ Owner[screen[d].note] = Account[d] /\ At(d, Shares)
      /\ isEdit[d][Len(isEdit[d])] \in Mode
  BY ShareTapFinds DEF AddPeople, ShareTap
<1>2. PICK n \in Note : n = screen[d].note
  BY <1>1
<1>3. PICK m \in Mode : m = isEdit[d][Len(isEdit[d])]
  BY <1>1
<1>4. PICK c : c = NewCall("shareNote", n, u, m, Len(isEdit[d]))
  OBVIOUS
<1>5. PICK o : o = [note |-> n, user |-> u, mode |-> m]
  OBVIOUS
<1>6. c.op = "shareNote" /\ c.note = n /\ c.user = u /\ c.mode = m /\ c.vc = Len(isEdit[d])
  BY <1>4 DEF NewCall
<1>7. o \in Offer /\ o.note = n /\ o.user = u /\ o.mode = m /\ u # Owner[n]
  BY <1>1, <1>2, <1>5 DEF Offer, AddPeople, MayAdd
<1>8. /\ UNCHANGED <<sharedNotes, docs, screen, isEdit, people, rows, queue>>
      /\ Start(d, {c})
      /\ wanted' = IF \E p \in wanted : p.note = n /\ p.user = u THEN wanted ELSE wanted \cup {o}
  BY <1>2, <1>3, <1>4, <1>5 DEF AddPeople, server, ui
<1>9. calls'[d] = {c, c} /\ Others(d)
  BY <1>8 DEF Calm, Start, Others, IInv, Shapes
<1>10. wanted \in SUBSET Offer /\ WantedOK /\ docs[n].here
  BY <1>1, <1>2 DEF Calm, At
<1>11. /\ OfNote(Listed(u), n) = {} <=> ~ \E p \in wanted : p.note = n /\ p.user = u
       /\ OfUser(Lists(n), u) = {} <=> ~ \E p \in wanted : p.note = n /\ p.user = u
  BY <1>10, ListedOnce DEF Listed, Lists
<1>12. /\ UserResult(c, Listed(u)) = IF OfNote(Listed(u), n) = {} THEN Listed(u) \cup {[note |-> n, mode |-> m]} ELSE Listed(u)
       /\ PeopleResult(c, Lists(n)) = IF OfUser(Lists(n), u) = {} THEN Lists(n) \cup {[user |-> u, mode |-> m]} ELSE Lists(n)
  BY <1>6 DEF UserResult, PeopleResult
<1>13. /\ \A v \in User : v # u => Listed(v)' = Listed(v)
       /\ \A k \in Note : k # n => Lists(k)' = Lists(k)
       /\ UserResult(c, Listed(u)) = Listed(u)' /\ PeopleResult(c, Lists(n)) = Lists(n)'
  <2>1. CASE \E p \in wanted : p.note = n /\ p.user = u
    BY <1>8, <1>11, <1>12, <2>1 DEF Listed, Lists
  <2>2. CASE ~ \E p \in wanted : p.note = n /\ p.user = u
    <3>1. wanted' = With(wanted, o)
      BY <1>8, <2>2 DEF With
    <3>2. /\ Listed(u)' = Listed(u) \cup {[note |-> n, mode |-> m]}
          /\ \A v \in User : v # u => Listed(v)' = Listed(v)
          /\ Lists(n)' = Lists(n) \cup {[user |-> u, mode |-> m]}
          /\ \A k \in Note : k # n => Lists(k)' = Lists(k)
      BY <1>7, <1>10, <3>1, ListsWith DEF Listed, Lists
    <3>. QED
      BY <1>11, <1>12, <2>2, <3>2
  <2>. QED
    BY <2>1, <2>2
<1>14. WantedOK'
  BY <1>7, <1>8, <1>10 DEF WantedOK, OneModeEach
<1>15. c.op \in UserOps /\ c.op \in PeopleOps /\ c.op # "shareUser" /\ c.mode = isEdit[d][c.vc]
  BY <1>3, <1>6 DEF UserOps, PeopleOps
<1>16. Halves(d, n, u, c, c)
  BY <1>1, <1>2, <1>6, <1>8, <1>9, <1>13, <1>14, <1>15 DEF Halves
<1>. QED
  BY <1>16, ChangeKeeps

\* What a row of the share settings says in a calm moment: who has a share.
LEMMA RowIsShare ==
    ASSUME IInv, NEW d \in Device, Calm(d), At(d, Shares), NEW p \in people[d], NEW n \in Note, n = screen[d].note
    PROVE  /\ p.user \in User /\ p.mode \in Mode /\ p.user # Owner[n]
           /\ \E o \in wanted : o.note = n /\ o.user = p.user
           /\ OfNote(Listed(p.user), n) = {[note |-> n, mode |-> p.mode]}
           /\ OfUser(Lists(n), p.user) = {[user |-> p.user, mode |-> p.mode]}
<1>1. p \in Lists(n) /\ wanted \in SUBSET Offer /\ WantedOK
  BY DEF Calm, At
<1>2. PICK o \in wanted : o.note = n /\ p = [user |-> o.user, mode |-> o.mode]
  BY <1>1 DEF Lists, PeopleOf
<1>3. o.user = p.user /\ o.mode = p.mode /\ o \in Offer
  BY <1>1, <1>2
<1>4. p.user \in User /\ p.mode \in Mode /\ p.user # Owner[n]
  BY <1>1, <1>2, <1>3 DEF Offer, WantedOK
<1>. QED
  BY <1>1, <1>2, <1>3, <1>4, ListedOnce DEF Listed, Lists, WantedOK

\* One account less.
LEMMA DeleteRowKeeps ==
    ASSUME IInv, NEW d \in Device, Calm(d), NEW p \in people[d], DeleteRow(d, p)
    PROVE  SerialInv'
<1>1. screen[d].note \in Note /\ Owner[screen[d].note] = Account[d] /\ At(d, Shares)
  BY ShareTapFinds DEF DeleteRow, ShareTap
<1>2. PICK n \in Note : n = screen[d].note
  BY <1>1
<1>3. /\ p.user \in User /\ p.mode \in Mode
      /\ OfNote(Listed(p.user), n) = {[note |-> n, mode |-> p.mode]}
      /\ OfUser(Lists(n), p.user) = {[user |-> p.user, mode |-> p.mode]}
  BY <1>1, <1>2, RowIsShare
<1>4. PICK u \in User : u = p.user
  BY <1>3
<1>5. PICK a : a = NewCall("dropNote", n, p.user, p.mode, Len(isEdit[d]))
  OBVIOUS
<1>6. PICK b : b = NewCall("dropUser", n, p.user, p.mode, Len(isEdit[d]))
  OBVIOUS
<1>7. /\ a.op = "dropNote" /\ a.note = n /\ a.user = u /\ a.mode = p.mode
      /\ b.op = "dropUser" /\ b.note = n /\ b.user = u /\ b.mode = p.mode
  BY <1>4, <1>5, <1>6 DEF NewCall
<1>8. {NewCall(op, n, p.user, p.mode, Len(isEdit[d])) : op \in {"dropNote", "dropUser"}} = {a, b}
  BY <1>5, <1>6
<1>9. /\ UNCHANGED <<sharedNotes, docs, screen, isEdit, people, rows, queue>>
      /\ Start(d, {a, b}) /\ wanted' = Without(wanted, n, u)
  <2>1. /\ UNCHANGED <<sharedNotes, docs, screen, isEdit, people, rows, queue>>
        /\ Start(d, {a, b})
    BY <1>2, <1>8 DEF DeleteRow, server, ui
  <2>2. wanted' = {o \in wanted : o.note # n \/ o.user # u}
    BY <1>2, <1>4 DEF DeleteRow
  <2>. QED
    BY <2>1, <2>2 DEF Without
<1>10. calls'[d] = {a, b} /\ Others(d)
  BY <1>9 DEF Calm, Start, Others, IInv, Shapes
<1>11. wanted \in SUBSET Offer /\ WantedOK
  BY DEF Calm
<1>12. /\ Listed(u)' = Listed(u) \ OfNote(Listed(u), n)
       /\ \A v \in User : v # u => Listed(v)' = Listed(v)
       /\ Lists(n)' = Lists(n) \ OfUser(Lists(n), u)
       /\ \A k \in Note : k # n => Lists(k)' = Lists(k)
  <2>1. /\ Listed(u)' = LessNote(Listed(u), n)
        /\ \A v \in User : v # u => Listed(v)' = Listed(v)
        /\ Lists(n)' = LessUser(Lists(n), u)
        /\ \A k \in Note : k # n => Lists(k)' = Lists(k)
    BY <1>9, <1>11, ListsWithout DEF Listed, Lists
  <2>. QED
    BY <2>1 DEF LessNote, LessUser
<1>13. UserResult(a, Listed(u)) = Listed(u)' /\ PeopleResult(b, Lists(n)) = Lists(n)'
  <2>1. Listed(u)' = Listed(u) \ {[note |-> n, mode |-> p.mode]} /\ Lists(n)' = Lists(n) \ {[user |-> u, mode |-> p.mode]}
    BY <1>3, <1>4, <1>12
  <2>. QED
    BY ONLY <1>7, <2>1 DEF UserResult, PeopleResult
<1>14. WantedOK'
  BY <1>9, <1>11 DEF WantedOK, OneModeEach, Without
<1>15. /\ a.op \in UserOps /\ a.op \notin PeopleOps
       /\ b.op \in PeopleOps /\ b.op \notin UserOps /\ b.op # "shareUser" /\ b.op # "shareNote"
  BY <1>7 DEF UserOps, PeopleOps
<1>16. Halves(d, n, u, a, b)
  BY <1>1, <1>2, <1>7, <1>9, <1>10, <1>12, <1>13, <1>14, <1>15 DEF Halves
<1>. QED
  BY <1>16, ChangeKeeps

\* Another mode for one account.
LEMMA ChangeModeKeeps ==
    ASSUME IInv, NEW d \in Device, Calm(d), NEW p \in people[d], ChangeMode(d, p)
    PROVE  SerialInv'
<1>1. screen[d].note \in Note /\ Owner[screen[d].note] = Account[d] /\ At(d, Shares)
  BY ShareTapFinds DEF ChangeMode, ShareTap
<1>2. PICK n \in Note : n = screen[d].note
  BY <1>1
<1>3. /\ p.user \in User /\ p.mode \in Mode /\ p.user # Owner[n]
      /\ \E o \in wanted : o.note = n /\ o.user = p.user
      /\ OfNote(Listed(p.user), n) = {[note |-> n, mode |-> p.mode]}
      /\ OfUser(Lists(n), p.user) = {[user |-> p.user, mode |-> p.mode]}
  BY <1>1, <1>2, RowIsShare
<1>4. PICK u \in User : u = p.user
  BY <1>3
<1>5. PICK m \in Mode : m = Other(p.mode)
  BY DEF Other, Mode
<1>6. PICK o : o = [note |-> n, user |-> u, mode |-> m]
  OBVIOUS
<1>7. o \in Offer /\ o.note = n /\ o.user = u /\ o.mode = m
  BY <1>6 DEF Offer
<1>8. PICK a : a = NewCall("modeNote", n, u, m, Len(isEdit[d]))
  OBVIOUS
<1>9. PICK b : b = NewCall("modeUser", n, u, m, Len(isEdit[d]))
  OBVIOUS
<1>10. /\ a.op = "modeNote" /\ a.note = n /\ a.user = u /\ a.mode = m
       /\ b.op = "modeUser" /\ b.note = n /\ b.user = u /\ b.mode = m
  BY <1>8, <1>9 DEF NewCall
<1>11. {NewCall(op, n, u, m, Len(isEdit[d])) : op \in {"modeNote", "modeUser"}} = {a, b}
  BY <1>8, <1>9
<1>12. /\ UNCHANGED <<sharedNotes, docs, screen, isEdit, people, rows, queue>>
       /\ Start(d, {a, b}) /\ wanted' = {IF w.note = n /\ w.user = u THEN o ELSE w : w \in wanted}
  BY <1>2, <1>4, <1>5, <1>6, <1>7, <1>11 DEF ChangeMode, server, ui
<1>13. calls'[d] = {a, b} /\ Others(d)
  BY <1>12 DEF Calm, Start, Others, IInv, Shapes
<1>14. wanted \in SUBSET Offer /\ WantedOK /\ docs[n].here
  BY <1>1, <1>2 DEF Calm, At
<1>15. wanted' = With(Without(wanted, n, u), o) /\ Without(wanted, n, u) \in SUBSET Offer
  <2>1. \E q \in wanted : q.note = n /\ q.user = u
    BY <1>3, <1>4
  <2>2. wanted' = {q \in wanted : q.note # n \/ q.user # u} \cup {o}
    BY <1>12, <2>1
  <2>. QED
    BY <1>14, <2>2 DEF With, Without
<1>16. /\ Listed(u)' = (Listed(u) \ OfNote(Listed(u), n)) \cup {[note |-> n, mode |-> m]}
       /\ \A v \in User : v # u => Listed(v)' = Listed(v)
       /\ Lists(n)' = (Lists(n) \ OfUser(Lists(n), u)) \cup {[user |-> u, mode |-> m]}
       /\ \A k \in Note : k # n => Lists(k)' = Lists(k)
  <2>1. PICK O \in SUBSET Offer : O = Without(wanted, n, u)
    BY <1>15
  <2>2. /\ NotesOf(O, u) = NotesOf(wanted, u) \ OfNote(NotesOf(wanted, u), n)
        /\ \A v \in User : v # u => NotesOf(O, v) = NotesOf(wanted, v)
        /\ PeopleOf(O, n) = PeopleOf(wanted, n) \ OfUser(PeopleOf(wanted, n), u)
        /\ \A k \in Note : k # n => PeopleOf(O, k) = PeopleOf(wanted, k)
    <3>1. /\ NotesOf(O, u) = LessNote(NotesOf(wanted, u), n)
          /\ \A v \in User : v # u => NotesOf(O, v) = NotesOf(wanted, v)
          /\ PeopleOf(O, n) = LessUser(PeopleOf(wanted, n), u)
          /\ \A k \in Note : k # n => PeopleOf(O, k) = PeopleOf(wanted, k)
      BY <1>14, <2>1, ListsWithout
    <3>. QED
      BY <3>1 DEF LessNote, LessUser
  <2>3. /\ NotesOf(wanted', u) = NotesOf(O, u) \cup {[note |-> n, mode |-> m]}
        /\ \A v \in User : v # u => NotesOf(wanted', v) = NotesOf(O, v)
        /\ PeopleOf(wanted', n) = PeopleOf(O, n) \cup {[user |-> u, mode |-> m]}
        /\ \A k \in Note : k # n => PeopleOf(wanted', k) = PeopleOf(O, k)
    BY <1>7, <1>15, <2>1, ListsWith
  <2>. QED
    BY <2>2, <2>3 DEF Listed, Lists
<1>17. UserResult(a, Listed(u)) = Listed(u)' /\ PeopleResult(b, Lists(n)) = Lists(n)'
  <2>1. OfNote(Listed(u), n) # {} /\ OfUser(Lists(n), u) # {}
    BY <1>3, <1>4
  <2>. QED
    BY ONLY <1>10, <1>16, <2>1 DEF UserResult, PeopleResult
<1>18. WantedOK'
  <2>1. \A q \in wanted' : q = o \/ (q \in wanted /\ (q.note # n \/ q.user # u))
    BY <1>15 DEF With, Without
  <2>. QED
    BY <1>3, <1>4, <1>7, <1>12, <1>14, <2>1 DEF WantedOK, OneModeEach
<1>19. /\ a.op \in UserOps /\ a.op \notin PeopleOps
       /\ b.op \in PeopleOps /\ b.op \notin UserOps /\ b.op # "shareUser" /\ b.op # "shareNote"
  BY <1>10 DEF UserOps, PeopleOps
<1>20. Halves(d, n, u, a, b)
  BY <1>1, <1>2, <1>10, <1>12, <1>13, <1>16, <1>17, <1>18, <1>19 DEF Halves
<1>. QED
  BY <1>20, ChangeKeeps

-----------------------------------------------------------------------------
(* The invariant is inductive *)

\* Shares made before the start are in force.
LEMMA SerialInit == Init => SerialInv
<1>. SUFFICES ASSUME Init PROVE SerialInv
  OBVIOUS
<1>. USE DEF Init
<1>1. wanted = InitialOffers
  OBVIOUS
<1>2. /\ \A o \in InitialOffers : o.user # Owner[o.note] /\ o.note \in Note /\ o.note \in InitialNotes
      /\ OneModeEach(InitialOffers)
  BY InitialAssumption DEF OneModeEach
<1>3. WantedOK
  <2>1. \A n \in InitialNotes : docs[n].here
    BY InitialAssumption
  <2>. QED
    BY <1>1, <1>2, <2>1 DEF WantedOK
<1>4. ASSUME NEW d \in Device
      PROVE  Quiet(d) /\ DeviceFits(d)
  BY QuietFits DEF Quiet, Resting
<1>5. \A u \in User : sharedNotes[u] = Listed(u)
  BY <1>1 DEF Listed, NotesOf
<1>6. \A n \in Note : docs[n].people = Lists(n)
  BY <1>1 DEF Lists, PeopleOf
<1>. QED
  BY <1>3, <1>4, <1>5, <1>6 DEF SerialInv, OneAtWork, ServerFits

\* What an owner does on its own screens.
LEMMA OwnerStepKeeps ==
    ASSUME IInv, NEW d \in Device, Calm(d), OwnerStep(d)
    PROVE  SerialInv'
<1>1. ASSUME NEW n \in Note, OpenDetail(d, n) \/ OpenCreate(d, n) \/ SwipeDelete(d, n)
      PROVE  SerialInv'
  BY <1>1, OpenDetailKeeps, OpenCreateKeeps, SwipeDeleteKeeps
<1>2. ASSUME NEW keep \in BOOLEAN, LeaveEditor(d, keep)
      PROVE  SerialInv'
  <2>1. CASE keep = TRUE
    BY <1>2, <2>1, LeaveEditorKeeps, Zenon
  <2>2. CASE keep = FALSE
    BY <1>2, <2>2, ClearEditorKeeps, Zenon
  <2>. QED
    BY <2>1, <2>2
<1>3. CASE OpenShare(d, TRUE)
  BY <1>3, OpenShareKeeps
<1>4. CASE FocusField(d) \/ BackToEditor(d) \/ ClickMode(d) \/ StopShare(d)
  BY <1>4, FocusFieldKeeps, BackToEditorKeeps, ClickModeKeeps, StopShareKeeps
<1>5. ASSUME NEW u \in User, AddPeople(d, u)
      PROVE  SerialInv'
  BY <1>5, AddPeopleKeeps
<1>6. ASSUME NEW p \in people[d], DeleteRow(d, p) \/ ChangeMode(d, p)
      PROVE  SerialInv'
  BY <1>6, DeleteRowKeeps, ChangeModeKeeps
<1>. QED
  BY <1>1, <1>2, <1>3, <1>4, <1>5, <1>6, Zenon DEF OwnerStep

\* A step that changes nothing.
LEMMA SerialStutter == ASSUME SerialInv, UNCHANGED vars PROVE SerialInv'
<1>. USE DEF vars, ui, server, history
<1>1. /\ \A u : Listed(u)' = Listed(u)
      /\ \A n : Lists(n)' = Lists(n)
      /\ \A d : Unsent(d)' = Unsent(d) /\ Pending(d)' = Pending(d)
      /\ WantedOK' /\ OneAtWork'
  BY DEF Listed, Lists, Unsent, Pending, SerialInv, WantedOK, OneAtWork, Quiet, Resting
<1>2. /\ \A u \in User, d \in Device : UserComes(d, u)' <=> UserComes(d, u)
      /\ \A n \in Note, d \in Device : PeopleComes(d, n)' <=> PeopleComes(d, n)
  BY <1>1 DEF UserComes, PeopleComes
<1>3. ServerFits'
  BY <1>1, <1>2 DEF SerialInv, ServerFits
<1>4. ASSUME NEW d \in Device
      PROVE  DeviceFits(d)'
  <2>. DeviceFits(d)
    BY DEF SerialInv
  <2>1. \A n : NoteThere(d, n)' <=> NoteThere(d, n)
    BY <1>1 DEF NoteThere
  <2>2. \A w \in Unsent(d)' : WriteFits(d, w)'
    BY <1>1 DEF DeviceFits, WriteFits, At
  <2>3. \A c \in calls'[d] : CallFits(d, c)'
    BY <1>1, <2>1 DEF DeviceFits, CallFits, At
  <2>4. \A c \in Pending(d)' : PeopleCallFits(d, c)'
    BY <1>1 DEF DeviceFits, PeopleCallFits, At
  <2>5. /\ OneNoteWrite(d)' /\ CacheFits(d)'
        /\ \A r \in rows'[d] : ForeignFits(d, r)'
        /\ At(d, {"shared"})' => ForeignFits(d, screen[d])'
        /\ At(d, {"detail"} \cup Shares)' => NoteThere(d, screen[d].note)'
    BY <1>1, <2>1 DEF DeviceFits, OneNoteWrite, CacheFits, ForeignFits, At
  <2>. QED
    BY <2>2, <2>3, <2>4, <2>5 DEF DeviceFits
<1>. QED
  BY <1>1, <1>3, <1>4 DEF SerialInv

\* The shape of the state, and what Sharing_proofs says of it, holds here too.
LEMMA SerialShape == IInv /\ [SerialNext]_vars => IInv'
<1>. SUFFICES ASSUME IInv, [SerialNext]_vars PROVE IInv'
  OBVIOUS
<1>1. ASSUME NEW d \in Device, HideShared(d)
      PROVE  IInv'
  <2>1. /\ UNCHANGED server /\ isEdit'[d] = isEdit[d] /\ offered' = offered /\ HistoryOK'
        /\ screen'[d] = screen[d] /\ people'[d] = people[d] /\ calls'[d] = calls[d]
        /\ queue'[d] = queue[d] /\ taps'[d] = taps[d] /\ rows' = [rows EXCEPT ![d] = {}]
    BY <1>1 DEF HideShared, history, IInv, HistoryOK
  <2>2. rows'[d] \in SUBSET GoodRows(d)'
    BY <2>1 DEF IInv, Shapes
  <2>3. Local(d)
    BY <1>1, <2>1, <2>2 DEF HideShared, Local, IInv, Shapes
  <2>. QED
    BY <2>1, <2>2, <2>3, QuietFrame
<1>2. SerialNext => Next \/ \E d \in Device : HideShared(d)
  BY DEF SerialNext, SerialStep, Next
<1>. QED
  BY <1>1, <1>2, NextOK

\* Only the patient habits: no editor is emptied on the way to the share
\* settings, and no account gives a note up.
LEMMA SerialKeeps == IInv /\ SerialInv /\ Habits = {} /\ [SerialNext]_vars => SerialInv'
<1>. SUFFICES ASSUME IInv, SerialInv, Habits = {}, [SerialNext]_vars PROVE SerialInv'
  OBVIOUS
<1>1. ASSUME NEW d \in Device, SerialStep(d)
      PROVE  SerialInv'
  <2>1. Calm(d)
    BY <1>1, CalmBefore DEF SerialStep
  <2>2. CASE OwnerStep(d)
    BY <2>1, <2>2, OwnerStepKeeps
  <2>3. CASE SharedStep(d)
    BY <2>1, <2>3, LoadSharedNotesKeeps, OpenSharedKeeps, CloseSharedKeeps DEF SharedStep
  <2>4. CASE HideShared(d)
    BY <2>1, <2>4, HideSharedKeeps
  <2>. QED
    BY <1>1, <2>2, <2>3, <2>4 DEF SerialStep
<1>2. ASSUME NEW d \in Device, System(d)
      PROVE  SerialInv'
  BY <1>2, CallbackKeeps, CommitKeeps DEF System
<1>. QED
  BY <1>1, <1>2, SerialStutter DEF SerialNext

\* Everything under way tends to what was asked for, in every reachable state.
THEOREM SerialInductive == Habits = {} /\ SerialSpec => [](IInv /\ SerialInv)
<1>1. Init => IInv /\ SerialInv
  BY InitOK, SerialInit
<1>. SUFFICES ASSUME Habits = {} PROVE SerialSpec => [](IInv /\ SerialInv)
  OBVIOUS
<1>2. IInv /\ SerialInv /\ [SerialNext]_vars => (IInv /\ SerialInv)'
  BY SerialShape, SerialKeeps
<1>. QED
  BY <1>1, <1>2, PTL DEF SerialSpec

\* When every list is the one asked for, so is the access the accounts have.
LEMMA AccessIsWanted ==
    ASSUME IInv, \A u \in User : sharedNotes[u] = Listed(u)
    PROVE  Access = wanted
<1>1. wanted \in SUBSET Offer
  BY DEF IInv, HistoryOK
<1>2. ASSUME NEW o \in Offer
      PROVE  o \in Access <=> o \in wanted
  <2>1. o = [note |-> o.note, user |-> o.user, mode |-> o.mode] /\ o.user \in User
    BY DEF Offer
  <2>2. [note |-> o.note, mode |-> o.mode] \in NotesOf(wanted, o.user)
           <=> [note |-> o.note, user |-> o.user, mode |-> o.mode] \in wanted
    BY <1>1, NotesOfHas
  <2>. QED
    BY <2>1, <2>2 DEF Access, Listed
<1>. QED
  BY <1>1, <1>2 DEF Access

\* The two documents agree: whenever every call has come back and every write
\* has been sent, the lists of the accounts and the lists of the notes both say
\* exactly what the taps asked for.
THEOREM ListsAgreeHolds == Habits = {} /\ SerialSpec => []ListsAgree
<1>1. IInv /\ SerialInv => ListsAgree
  <2>. SUFFICES ASSUME IInv, SerialInv, Settled
                PROVE  /\ Access = wanted
                       /\ \A n \in Note : docs[n].people =
                              {[user |-> o.user, mode |-> o.mode] : o \in {o \in wanted : o.note = n}}
                       /\ \A o \in wanted : docs[o.note].here
    BY DEF ListsAgree
  <2>1. \A d \in Device : calls[d] = {} /\ Unsent(d) = {} /\ Pending(d) = {}
    BY DEF Settled, Unsent, Pending
  <2>2. /\ \A u \in User : sharedNotes[u] = Listed(u)
        /\ \A n \in Note : docs[n].people = Lists(n)
    BY <2>1 DEF SerialInv, ServerFits, UserComes, PeopleComes
  <2>. QED
    BY <2>2, AccessIsWanted DEF Lists, PeopleOf, SerialInv, WantedOK
<1>. QED
  BY <1>1, SerialInductive, PTL

-----------------------------------------------------------------------------
(* The serial system implements NoteAccess, its fairness aside *)

\* Requests that leave what was asked for as it is, or change it in one way.
Asks ==
    \/ wanted' = wanted
    \/ \E n \in Note, u \in User, m \in Mode : Promise!Offers(n, u, m) \/ Promise!Changes(n, u, m)
    \/ \E n \in Note, u \in User : Promise!Ends(n, u)
    \/ \E n \in Note : Promise!EndsAll(n)

\* The shares of one account of one note, asked for or granted.
LEMMA OfIs ==
    ASSUME NEW O, NEW n, NEW u
    PROVE  /\ \A o : o \in Promise!Of(O, n, u) <=> o \in O /\ o.note = n /\ o.user = u
           /\ Promise!Of(O, n, u) \subseteq O
BY DEF Promise!Of

\* A tap changes nobody's access.
LEMMA TapsGrantNothing ==
    ASSUME IInv, NEW d \in Device, Calm(d), OwnerStep(d) \/ SharedStep(d) \/ HideShared(d)
    PROVE  UNCHANGED sharedNotes /\ Access' = Access /\ Access = wanted
<1>1. OwnerStep(d) => UNCHANGED sharedNotes
  BY DEF OwnerStep, OpenDetail, OpenCreate, SwipeDelete, LeaveEditor, OpenShare, FocusField, BackToEditor,
         ClickMode, AddPeople, StopShare, DeleteRow, ChangeMode, server
<1>2. SharedStep(d) \/ HideShared(d) => UNCHANGED sharedNotes
  BY DEF SharedStep, LoadSharedNotes, OpenShared, CloseShared, HideShared, Restart, server
<1>3. Access = wanted
  BY AccessIsWanted DEF Calm
<1>. QED
  BY <1>1, <1>2, <1>3 DEF Access

\* The taps that end every share of a note.
LEMMA UnwantAsks ==
    ASSUME NEW n \in Note, wanted' = Unwant(n), Access' = Access, Access = wanted
    PROVE  Asks
<1>1. Promise!EndsAll(n)
  BY DEF Promise!EndsAll, Promise!Ask, Unwant
<1>. QED
  BY <1>1 DEF Asks

\* One account more, unless it has a share already.
LEMMA AddPeopleAsks ==
    ASSUME IInv, NEW d \in Device, NEW u \in User, AddPeople(d, u), Access' = Access, Access = wanted
    PROVE  Asks
<1>1. /\ screen[d].note \in Note /\ Owner[screen[d].note] = Account[d]
      /\ isEdit[d][Len(isEdit[d])] \in Mode
  BY ShareTapFinds DEF AddPeople, ShareTap
<1>2. PICK n \in Note, m \in Mode : n = screen[d].note /\ m = isEdit[d][Len(isEdit[d])]
  BY <1>1
<1>3. /\ u # Owner[n]
      /\ wanted' = IF \E p \in wanted : p.note = n /\ p.user = u
                   THEN wanted ELSE wanted \cup {[note |-> n, user |-> u, mode |-> m]}
  BY <1>1, <1>2 DEF AddPeople, MayAdd
<1>4. CASE \E p \in wanted : p.note = n /\ p.user = u
  BY <1>3, <1>4 DEF Asks
<1>5. CASE ~ \E p \in wanted : p.note = n /\ p.user = u
  <2>1. Promise!Of(wanted, n, u) = {}
    BY <1>5, OfIs
  <2>2. wanted' = wanted \cup {[note |-> n, user |-> u, mode |-> m]}
    BY <1>3, <1>5
  <2>3. Promise!Ask(wanted \cup {[note |-> n, user |-> u, mode |-> m]})
    BY <2>2 DEF Promise!Ask
  <2>4. Promise!Offers(n, u, m)
    BY <1>3, <2>1, <2>3 DEF Promise!Offers
  <2>. QED
    BY <2>4 DEF Asks
<1>. QED
  BY <1>4, <1>5

\* One account less.
LEMMA DeleteRowAsks ==
    ASSUME IInv, NEW d \in Device, NEW p \in people[d], DeleteRow(d, p), Access' = Access, Access = wanted
    PROVE  Asks
<1>1. screen[d].note \in Note /\ p.user \in User
  BY ShareTapFinds DEF DeleteRow, IInv, Shapes, Person
<1>2. PICK n \in Note, u \in User : n = screen[d].note /\ u = p.user
  BY <1>1
<1>3. wanted' = {o \in wanted : o.note # n \/ o.user # u}
  BY <1>2 DEF DeleteRow
<1>4. wanted' = wanted \ Promise!Of(wanted, n, u)
  BY <1>3, OfIs
<1>5. Promise!Ends(n, u)
  BY <1>4 DEF Promise!Ends, Promise!Ask
<1>. QED
  BY <1>5 DEF Asks

\* Another mode for one account.
LEMMA ChangeModeAsks ==
    ASSUME IInv, NEW d \in Device, Calm(d), NEW p \in people[d], ChangeMode(d, p), Access' = Access, Access = wanted
    PROVE  Asks
<1>1. screen[d].note \in Note /\ At(d, Shares)
  BY ShareTapFinds DEF ChangeMode, ShareTap
<1>2. PICK n \in Note : n = screen[d].note
  BY <1>1
<1>3. p.user \in User /\ p.mode \in Mode /\ \E o \in wanted : o.note = n /\ o.user = p.user
  BY <1>1, <1>2, RowIsShare
<1>4. PICK u \in User, m \in Mode : u = p.user /\ m = Other(p.mode)
  BY <1>3 DEF Other, Mode
<1>5. PICK o : o = [note |-> n, user |-> u, mode |-> m]
  OBVIOUS
<1>6. wanted' = {IF w.note = n /\ w.user = u THEN o ELSE w : w \in wanted}
  BY <1>2, <1>4, <1>5 DEF ChangeMode
<1>7. \E w \in wanted : w.note = n /\ w.user = u
  BY <1>3, <1>4
<1>8. wanted' = {w \in wanted : ~(w.note = n /\ w.user = u)} \cup {o}
  BY <1>6, <1>7
<1>9. wanted' = (wanted \ Promise!Of(wanted, n, u)) \cup {o}
  BY <1>8, OfIs
<1>10. Promise!Of(wanted, n, u) # {}
  BY <1>7, OfIs
<1>11. Promise!Ask((wanted \ Promise!Of(wanted, n, u)) \cup {[note |-> n, user |-> u, mode |-> m]})
  BY <1>5, <1>9 DEF Promise!Ask
<1>12. Promise!Changes(n, u, m)
  BY <1>10, <1>11 DEF Promise!Changes
<1>. QED
  BY <1>12 DEF Asks

\* What a user does asks for one change at most.
LEMMA TapsAsk ==
    ASSUME IInv, NEW d \in Device, Calm(d), OwnerStep(d) \/ SharedStep(d) \/ HideShared(d)
    PROVE  Asks
<1>1. Access' = Access /\ Access = wanted
  BY TapsGrantNothing
<1>2. CASE SharedStep(d) \/ HideShared(d)
  <2>1. wanted' = wanted
    BY <1>2 DEF SharedStep, LoadSharedNotes, OpenShared, CloseShared, HideShared, Restart, history
  <2>. QED
    BY <2>1 DEF Asks
<1>3. ASSUME NEW n \in Note, OpenDetail(d, n) \/ OpenCreate(d, n) \/ SwipeDelete(d, n)
      PROVE  Asks
  <2>1. wanted' = wanted \/ wanted' = Unwant(n)
    BY <1>3 DEF OpenDetail, OpenCreate, SwipeDelete, history
  <2>. QED
    BY <1>1, <2>1, UnwantAsks DEF Asks
<1>4. ASSUME NEW keep \in BOOLEAN, LeaveEditor(d, keep)
      PROVE  Asks
  <2>1. screen[d].note \in Note
    BY <1>4, OwnNote DEF LeaveEditor, At
  <2>2. wanted' = wanted \/ wanted' = Unwant(screen[d].note)
    BY <1>4 DEF LeaveEditor, SaveNote
  <2>. QED
    BY <1>1, <2>1, <2>2, UnwantAsks DEF Asks
<1>5. CASE OpenShare(d, TRUE) \/ FocusField(d) \/ BackToEditor(d) \/ ClickMode(d)
  <2>1. wanted' = wanted
    BY <1>5 DEF OpenShare, SaveNote, FocusField, BackToEditor, ClickMode, history
  <2>. QED
    BY <2>1 DEF Asks
<1>6. CASE StopShare(d)
  <2>1. screen[d].note \in Note /\ wanted' = Unwant(screen[d].note)
    BY <1>6, ShareTapFinds DEF StopShare
  <2>. QED
    BY <1>1, <2>1, UnwantAsks
<1>7. ASSUME NEW u \in User, AddPeople(d, u)
      PROVE  Asks
  BY <1>1, <1>7, AddPeopleAsks
<1>8. ASSUME NEW p \in people[d], DeleteRow(d, p) \/ ChangeMode(d, p)
      PROVE  Asks
  BY <1>1, <1>8, DeleteRowAsks, ChangeModeAsks
<1>. QED
  BY <1>2, <1>3, <1>4, <1>5, <1>6, <1>7, <1>8, Zenon DEF OwnerStep

\* An answer changes nobody's access and asks for nothing.
LEMMA CallbackGrantsNothing ==
    ASSUME NEW d \in Device, Callback(d)
    PROVE  Access' = Access /\ wanted' = wanted
<1>1. UNCHANGED <<sharedNotes, wanted>>
  BY DEF Callback, ShareNoteRead, DropNoteRead, ModeNoteRead, DropAllRead, NoteRead, NoteMissing, Restart,
         server, history
<1>. QED
  BY <1>1 DEF Access

\* A write to a note changes nobody's access; a write to an account's list
\* grants what was asked for, for the one note it is about.
LEMMA CommitGrants ==
    ASSUME IInv, SerialInv, NEW d \in Device, Commit(d)
    PROVE  wanted' = wanted /\ (Access' = Access \/ Promise!Progress)
<1>1. PICK w \in Head(queue[d]) :
          IF Applies(w) /\ w.kind = "user"
          THEN sharedNotes' = [sharedNotes EXCEPT ![w.user] = w.entries]
          ELSE UNCHANGED sharedNotes
  BY DEF Commit, server
<1>2. wanted' = wanted
  BY DEF Commit, history
<1>3. CASE ~(Applies(w) /\ w.kind = "user")
  BY <1>1, <1>2, <1>3 DEF Access
<1>4. CASE Applies(w) /\ w.kind = "user"
  <2>1. w \in Unsent(d) /\ w \in Write
    <3>1. /\ queue[d] \in Seq(SUBSET Write) /\ Len(queue[d]) \in Nat
          /\ DOMAIN queue[d] = 1 .. Len(queue[d]) /\ Unsent(d) \subseteq Write
      BY QueueIsSeq
    <3>2. queue[d] # <<>>
      BY DEF Commit
    <3>3. Head(queue[d]) = queue[d][1] /\ 1 \in DOMAIN queue[d]
      BY <3>1, <3>2, HeadTailProperties, EmptySeq
    <3>. QED
      BY <3>1, <3>3 DEF Unsent
  <2>2. /\ w.entries = Listed(w.user)
        /\ sharedNotes[w.user] \ OfNote(sharedNotes[w.user], w.note)
             = Listed(w.user) \ OfNote(Listed(w.user), w.note)
    BY <1>4, <2>1 DEF SerialInv, DeviceFits, WriteFits
  <2>3. PICK u \in User, n \in Note : u = w.user /\ n = w.note
    BY <2>1 DEF Write
  <2>4. /\ sharedNotes' = [sharedNotes EXCEPT ![u] = Listed(u)]
        /\ sharedNotes[u] \ OfNote(sharedNotes[u], n) = Listed(u) \ OfNote(Listed(u), n)
    BY <1>1, <1>4, <2>2, <2>3
  <2>5. wanted \in SUBSET Offer /\ sharedNotes \in [User -> SUBSET Entry]
    BY DEF IInv, HistoryOK, ServerOK
  <2>6. ASSUME NEW o \in Offer
        PROVE  o \in Access' <=> o \in (Access \ Promise!Of(Access, n, u)) \cup Promise!Of(wanted, n, u)
    <3>. DEFINE e == [note |-> o.note, mode |-> o.mode]
    <3>1. /\ o \in Access  <=> e \in sharedNotes[o.user]
          /\ o \in Access' <=> e \in sharedNotes'[o.user]
      BY DEF Access
    <3>2. o = [note |-> o.note, user |-> o.user, mode |-> o.mode] /\ o.user \in User
      BY DEF Offer
    <3>3. e \in Listed(o.user) <=> o \in wanted
      BY <2>5, <3>2, NotesOfHas DEF Listed
    <3>4. e.note = o.note
      OBVIOUS
    <3>. HIDE DEF e
    <3>5. CASE o.user # u
      <4>1. sharedNotes'[o.user] = sharedNotes[o.user]
        BY <2>4, <2>5, <3>2, <3>5
      <4>. QED
        BY <3>1, <3>5, <4>1, OfIs
    <3>6. CASE o.user = u /\ o.note = n
      <4>1. sharedNotes'[o.user] = Listed(u)
        BY <2>4, <2>5, <3>6
      <4>. QED
        BY <3>1, <3>3, <3>6, <4>1, OfIs
    <3>7. CASE o.user = u /\ o.note # n
      <4>1. sharedNotes'[o.user] = Listed(u)
        BY <2>4, <2>5, <3>7
      <4>2. e \in sharedNotes[u] <=> e \in Listed(u)
        BY <2>4, <3>4, <3>7 DEF OfNote
      <4>. QED
        BY <3>1, <3>7, <4>1, <4>2, OfIs
    <3>. QED
      BY <3>5, <3>6, <3>7
  <2>7. Access' = (Access \ Promise!Of(Access, n, u)) \cup Promise!Of(wanted, n, u)
    <3>1. /\ \A o \in Access' : o \in Offer
          /\ \A o \in Access : o \in Offer
          /\ \A o \in Promise!Of(wanted, n, u) : o \in Offer
      BY <2>5, OfIs DEF Access
    <3>. QED
      BY <2>6, <3>1
  <2>8. CASE Promise!Of(Access, n, u) = Promise!Of(wanted, n, u)
    <3>1. Access' = Access
      BY <2>7, <2>8, OfIs
    <3>. QED
      BY <1>2, <3>1
  <2>9. CASE Promise!Of(Access, n, u) # Promise!Of(wanted, n, u)
    BY <1>2, <2>7, <2>9 DEF Promise!Progress, Promise!Grants
  <2>. QED
    BY <2>8, <2>9
<1>. QED
  BY <1>3, <1>4

\* Sharing implements NoteAccess: access starts as what was asked for, a tap
\* asks for one change, and only when the last one is in force, and every write
\* makes the access of one account to one note what was asked for.
THEOREM PromiseSafe == Habits = {} /\ SerialSpec => Promise!Safe
<1>. SUFFICES ASSUME Habits = {} PROVE SerialSpec => Promise!Safe
  OBVIOUS
<1>1. Init => Promise!Init
  <2>. SUFFICES ASSUME Init PROVE Promise!Init
    OBVIOUS
  <2>1. wanted = InitialOffers
    BY DEF Init
  <2>2. Promise!Proper(wanted)
    BY <2>1, InitialAssumption DEF Promise!Proper, Promise!Offer, Offer
  <2>3. \A u \in User : sharedNotes[u] = Listed(u)
    BY DEF Init, Listed, NotesOf
  <2>4. Access = wanted
    BY <2>3, InitOK, AccessIsWanted
  <2>. QED
    BY <2>2, <2>4 DEF Promise!Init
<1>2. IInv /\ SerialInv /\ [SerialNext]_vars => [Promise!Next]_(Promise!vars)
  <2>. SUFFICES ASSUME IInv, SerialInv, [SerialNext]_vars
                PROVE  Promise!Next \/ (wanted' = wanted /\ Access' = Access)
    BY DEF Promise!vars
  <2>1. ASSUME NEW d \in Device, SerialStep(d)
        PROVE  Promise!Next \/ (wanted' = wanted /\ Access' = Access)
    <3>1. Calm(d) /\ (OwnerStep(d) \/ SharedStep(d) \/ HideShared(d))
      BY <2>1, CalmBefore DEF SerialStep
    <3>2. Asks /\ Access' = Access
      BY <3>1, TapsAsk, TapsGrantNothing
    <3>. QED
      BY <3>2 DEF Asks, Promise!Next
  <2>2. ASSUME NEW d \in Device, System(d)
        PROVE  Promise!Next \/ (wanted' = wanted /\ Access' = Access)
    BY <2>2, CallbackGrantsNothing, CommitGrants DEF System, Promise!Next
  <2>3. CASE UNCHANGED vars
    BY <2>3 DEF vars, server, history, Access
  <2>. QED
    BY <2>1, <2>2, <2>3 DEF SerialNext
<1>. QED
  BY <1>1, <1>2, SerialInductive, PTL DEF SerialSpec, Promise!Safe

=============================================================================
