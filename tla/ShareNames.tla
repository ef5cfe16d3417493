----------------------------- MODULE ShareNames -----------------------------
(***************************************************************************)
(* The two lists of a share as the code keeps them: sequences of strings   *)
(* ("ann@xnote1modeview" with the account, "bob@xmodeview" with the note)  *)
(* in which an entry is found by asking whether the string contains a name.*)
(* Note 1's name is found in the entry of note 10, ann's in that of joann. *)
(*                                                                         *)
(* Beside them runs what is meant (grants): a set, whose elements are told *)
(* apart by what they are.  Sharing takes entries to be such; here is when *)
(* it may.                                                                 *)
(*                                                                         *)
(* Abstractions.  A string is the record of its parts, and of the strings  *)
(* only is kept which contain which.  A change is made as a whole: what    *)
(* interleaves is in Sharing.  Addresses that contain "note" or "mode",    *)
(* which are taken apart wrongly, do not occur.                            *)
(***************************************************************************)
EXTENDS Naturals, Sequences, FiniteSets

CONSTANTS Account,
          Note,     \* [owner |-> account, id |-> i]
          Within,   \* <<a, b>>: the address b contains a
          Ends,     \* <<a, b>>: b ends with a
          Begins,   \* <<i, j>>: the digits of j begin with those of i
          MaxOps    \* bound: changes

ASSUME NameAssumption ==
    /\ \A a \in Account : <<a, a>> \in Ends
    /\ \A n \in Note : n.owner \in Account /\ <<n.id, n.id>> \in Begins
    /\ Ends \subseteq Within /\ MaxOps \in Nat

VARIABLES
    notesOf,  \* notesOf[u]: the account's sharedNotes
    peopleOf, \* peopleOf[n]: the note's sharedUsers
    ops,      \* bounded counter
    grants,   \* what is meant: who may use which note how
    offered,  \* history: what owners ever chose
    left      \* history: <<n, u>>, the account gave the note up

vars == <<notesOf, peopleOf, ops, grants, offered, left>>

Mode   == {"view", "edit"}
Entry  == [note : Note, mode : Mode]
Person == [user : Account, mode : Mode]
Grant  == {g \in [note : Note, user : Account, mode : Mode] : g.user # g.note.owner}

Other(mode) == IF mode = "view" THEN "edit" ELSE "view"

-----------------------------------------------------------------------------
(* What is contained in what *)

\* note.contains(noteEmailAndID).
Holds(e, n) == <<n.owner, e.note.owner>> \in Ends /\ <<n.id, e.note.id>> \in Begins

\* Mutant: the owner is left out of the name.
HoldsId(e, f) == e.note.id = f.note.id /\ e.mode = f.mode

\* contains(noteNameWitEmailAndIDAndMode).
HoldsMode(e, f) ==
    <<f.note.owner, e.note.owner>> \in Ends /\ e.note.id = f.note.id /\ e.mode = f.mode

\* user.contains(userToShare).
Lists(p, u) == <<u, p.user>> \in Within

\* contains(emailAndMode).
ListsMode(p, q) == <<q.user, p.user>> \in Ends /\ p.mode = q.mode

\* Where in a list something is found; what is looked for is often the first of these.
Held(s, n)       == {k \in DOMAIN s : Holds(s[k], n)}
HeldMode(s, e)   == {k \in DOMAIN s : HoldsMode(s[k], e)}
Listed(s, u)     == {k \in DOMAIN s : Lists(s[k], u)}
ListedMode(s, p) == {k \in DOMAIN s : ListsMode(s[k], p)}
First(K)         == {k \in K : \A j \in K : k <= j}

\* A list without the positions K: removeAll, or remove(at:).  By counting, which
\* a proof can follow, where SelectSeq is by recursion on the list.
Drop(s, K) ==
    LET kept   == DOMAIN s \ K
        Nth(i) == CHOOSE k \in kept : Cardinality({j \in kept : j <= k}) = i
    IN  [i \in 1 .. Cardinality(kept) |-> s[Nth(i)]]

\* for (index, ...) in ... .enumerated(): the first that is found becomes e.
Replace(s, K, e) == [k \in DOMAIN s |-> IF k \in First(K) THEN e ELSE s[k]]

-----------------------------------------------------------------------------
(* What the owner does *)

\* Mutant: the name is not compared with the owner's.
Anyone(n, u) == TRUE

\* "Can not share to yourself".
MayShare(n, u) == u # n.owner

\* updateSharedNoteForSingleUser and then updateSharedUserForSingleNote, which
\* says "Username exists" to whoever is found.
Share(n, u, m) ==
    LET e == [note |-> n, mode |-> m]
        p == [user |-> u, mode |-> m]
    IN  /\ MayShare(n, u)
        /\ notesOf' = IF Held(notesOf[u], n) # {} THEN notesOf
                      ELSE [notesOf EXCEPT ![u] = Append(@, e)]
        /\ peopleOf' = IF Listed(peopleOf[n], u) # {} THEN peopleOf
                       ELSE [peopleOf EXCEPT ![n] = Append(@, p)]
        /\ grants' = IF \E g \in grants : g.note = n /\ g.user = u THEN grants
                     ELSE grants \cup {[note |-> n, user |-> u, mode |-> m]}
        /\ offered' = offered \cup {[note |-> n, user |-> u, mode |-> m]}
        /\ UNCHANGED left

\* deleteOneNoteForAllSharedUsers for one account: found by the whole entry, dropped
\* by the name; found in both modes, it is dropped twice unless the second query, of
\* either mode, was answered before the first write or no longer finds its entry.
Dropped(s, n) ==
    LET Less(t) == Drop(t, First(Held(t, n)))
        Has(t)  == {m \in Mode : \E k \in DOMAIN t : t[k] = [note |-> n, mode |-> m]}
    IN  CASE Has(s) = {} -> {s}
          [] Has(s) = Mode -> {Less(s)} \cup {Less(Less(s)) : m \in Has(Less(s))}
          [] OTHER -> {Less(s)}

\* "Stop share", or the note is deleted.
StopShare(n) ==
    /\ notesOf' \in {f \in [Account -> UNION {Dropped(notesOf[u], n) : u \in Account}] :
                        \A u \in Account : f[u] \in Dropped(notesOf[u], n)}
    /\ peopleOf' = [peopleOf EXCEPT ![n] = <<>>]
    /\ grants' = {g \in grants : g.note # n}
    /\ UNCHANGED <<offered, left>>

\* Mutant: the entry that is found gets the mode and keeps its name.
ChangeFound(n, p) ==
    LET s == notesOf[p.user]
    IN  [notesOf EXCEPT ![p.user] =
            [k \in DOMAIN s |-> IF k \in First(Held(s, n)) THEN [s[k] EXCEPT !.mode = Other(p.mode)]
                                ELSE s[k]]]

\* changeModeOneNoteForOneUser.
ChangeNote(n, p) ==
    [notesOf EXCEPT ![p.user] = Replace(@, Held(@, n), [note |-> n, mode |-> Other(p.mode)])]

\* "Change mode" of the row p; changeModeOneUserForOneNote.
ChangeMode(n, p) ==
    LET q == [p EXCEPT !.mode = Other(@)]
    IN  /\ notesOf' = ChangeNote(n, p)
        /\ peopleOf' = [peopleOf EXCEPT ![n] = Replace(@, Listed(@, p.user), q)]
        /\ grants' = {g \in grants : g.note # n \/ g.user # p.user}
                     \cup {[note |-> n, user |-> p.user, mode |-> q.mode]}
        /\ offered' = offered \cup {[note |-> n, user |-> p.user, mode |-> q.mode]}
        /\ UNCHANGED left

\* "Delete" of the row p: deleteOneNoteForOneUser, deleteOneUserForOneNote.
DeleteRow(n, p) ==
    LET e == [note |-> n, mode |-> p.mode]
    IN  /\ notesOf' = [notesOf EXCEPT ![p.user] = Drop(@, HeldMode(@, e))]
        /\ peopleOf' = [peopleOf EXCEPT ![n] = Drop(@, ListedMode(@, p))]
        /\ grants' = {g \in grants : g.note # n \/ g.user # p.user}
        /\ UNCHANGED <<offered, left>>

Row(n) == \E k \in DOMAIN peopleOf[n] :
              ChangeMode(n, peopleOf[n][k]) \/ DeleteRow(n, peopleOf[n][k])

-----------------------------------------------------------------------------
(* What the other account does *)

\* deleteOneNoteForOneUserFromShareView: the note's list stays.
GiveUp(u, e) ==
    /\ notesOf' = [notesOf EXCEPT ![u] = Drop(@, HeldMode(@, e))]
    /\ grants' = {g \in grants : g.note # e.note \/ g.user # u}
    /\ left' = left \cup {<<e.note, u>>}
    /\ UNCHANGED <<peopleOf, offered>>

-----------------------------------------------------------------------------
Init ==
    /\ notesOf = [u \in Account |-> <<>>] /\ peopleOf = [n \in Note |-> <<>>]
    /\ ops = 0 /\ grants = {} /\ offered = {} /\ left = {}

Owners == \E n \in Note : \/ \E u \in Account, m \in Mode : Share(n, u, m)
                          \/ StopShare(n) \/ Row(n)

Others == \E u \in Account : \E k \in DOMAIN notesOf[u] : GiveUp(u, notesOf[u][k])

Next == ops < MaxOps /\ ops' = ops + 1 /\ (Owners \/ Others)

Spec == Init /\ [][Next]_vars

-----------------------------------------------------------------------------
TypeOK ==
    /\ notesOf \in [Account -> Seq(Entry)] /\ peopleOf \in [Note -> Seq(Person)]
    /\ ops \in Nat /\ grants \subseteq Grant /\ offered \subseteq Grant
    /\ left \subseteq Note \X Account

\* Whatever is taken for something else, nobody is given what was not offered: an
\* entry that is put in the place of a wrong one is the right one.
OnlyOffered ==
    /\ \A u \in Account : \A k \in DOMAIN notesOf[u] :
          [note |-> notesOf[u][k].note, user |-> u, mode |-> notesOf[u][k].mode] \in offered
    /\ \A n \in Note : \A k \in DOMAIN peopleOf[n] :
          [note |-> n, user |-> peopleOf[n][k].user, mode |-> peopleOf[n][k].mode] \in offered

\* The one note's name contains the other's.
Alike(n, o) == <<n.owner, o.owner>> \in Ends /\ <<n.id, o.id>> \in Begins

\* Neither was the account ever offered a note with a name like that of n, nor the
\* note ever to an account with a name like u.
Distinct(n, u) ==
    \A g \in offered :
        /\ g.user = u /\ g.note # n => ~Alike(n, g.note) /\ ~Alike(g.note, n)
        /\ g.note = n /\ g.user # u => {<<u, g.user>>, <<g.user, u>>} \cap Within = {}

\* How often e is in the list s.
Times(s, e) == Cardinality({k \in DOMAIN s : s[k] = e})

\* Confusion does not spread: of a note and an account whose names are distinct the
\* two lists say just what is meant, with one entry each, however many others were
\* taken for one another; unless the account once gave the note up.
NamesApart ==
    \A n \in Note, u \in Account : Distinct(n, u) /\ <<n, u>> \notin left =>
        \A m \in Mode :
            LET meant == IF [note |-> n, user |-> u, mode |-> m] \in grants THEN 1 ELSE 0
            IN  /\ Times(notesOf[u], [note |-> n, mode |-> m]) = meant
                /\ Times(peopleOf[n], [user |-> u, mode |-> m]) = meant
=============================================================================
