----------------------------- MODULE MCNoteList -----------------------------
(* Two devices of one account. *)
EXTENDS NoteList

CONSTANTS d1, d2

\* What ends a tap's work is not counted.
Taps11 == [d \in {d1, d2} |-> 1]

\* One note of each device, d1's locked.
MCRows == {[id |-> 0, doc |-> [stamp |-> 1, by |-> d2, locked |-> FALSE]],
           [id |-> 1, doc |-> [stamp |-> 2, by |-> d1, locked |-> TRUE]]}
=============================================================================
