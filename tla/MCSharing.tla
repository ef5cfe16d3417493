----------------------------- MODULE MCSharing -----------------------------
(* Instances of Sharing and SharingSerial for TLC. *)
EXTENDS SharingSerial, TLC

CONSTANTS alice, bob, carol, \* accounts
          da, db,            \* devices of alice and bob
          n1, n2             \* notes

MCAccount == [d \in {da, db} |-> IF d = da THEN alice ELSE bob]

\* Both notes belong to alice.
MCOwner1 == [n \in Note |-> alice]

\* n1 is alice's, n2 is bob's.
MCOwner2 == [n \in Note |-> IF n = n1 THEN alice ELSE bob]

\* User actions, alice's and bob's.
Taps(a, b) == [d \in {da, db} |-> IF d = da THEN a ELSE b]
Taps05 == Taps(0, 5)
Taps43 == Taps(4, 3)
Taps73 == Taps(7, 3)

Offer1   == {[note |-> n1, user |-> bob, mode |-> "view"]}
CrossOffers == {[note |-> n1, user |-> bob, mode |-> "edit"],
                [note |-> n2, user |-> carol, mode |-> "view"]}
=============================================================================
