----------------------------- MODULE NoteAccess -----------------------------
(***************************************************************************)
(* What sharing promises, without documents, queues or caches: owners say  *)
(* who should hold which note in which mode, accounts may give a note up,  *)
(* and the access really granted moves to what was asked for, one account  *)
(* and one note at a time, and gets there.                                 *)
(***************************************************************************)
CONSTANTS User, Note, Mode, Owner

VARIABLES wanted, \* what has been asked for
          access  \* what the accounts can open

vars == <<wanted, access>>

Offer == [note : Note, user : User, mode : Mode]

Of(O, n, u) == {o \in O : o.note = n /\ o.user = u}

\* A sensible set of offers: one mode each, none to the owner itself.
Proper(O) == /\ O \subseteq Offer
             /\ \A o \in O : o.user # Owner[o.note]
             /\ \A o, p \in O : o.note = p.note /\ o.user = p.user => o = p

Init == Proper(wanted) /\ access = wanted

\* Requests wait until the earlier ones are in force.
Ask(O) == /\ access = wanted
          /\ wanted' = O
          /\ UNCHANGED access

Offers(n, u, m) == Of(wanted, n, u) = {} /\ u # Owner[n]
                   /\ Ask(wanted \cup {[note |-> n, user |-> u, mode |-> m]})
Changes(n, u, m) == Of(wanted, n, u) # {}
                    /\ Ask((wanted \ Of(wanted, n, u)) \cup {[note |-> n, user |-> u, mode |-> m]})
Ends(n, u)       == Ask(wanted \ Of(wanted, n, u))
EndsAll(n)       == Ask({o \in wanted : o.note # n})

\* The access of one account to one note becomes what was asked for.
Grants(n, u) ==
    /\ Of(access, n, u) # Of(wanted, n, u)
    /\ access' = (access \ Of(access, n, u)) \cup Of(wanted, n, u)
    /\ UNCHANGED wanted

Progress == \E n \in Note, u \in User : Grants(n, u)

Next == \/ \E n \in Note, u \in User : \/ Ends(n, u)
                                       \/ \E m \in Mode : Offers(n, u, m) \/ Changes(n, u, m)
        \/ \E n \in Note : EndsAll(n)
        \/ Progress

\* What may be asked for and granted, and that what was asked for is granted.
Safe == Init /\ [][Next]_vars
Spec == Safe /\ WF_vars(Progress)
=============================================================================
