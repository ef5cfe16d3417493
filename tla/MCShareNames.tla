---- MODULE MCShareNames ----
(* Three accounts, notes 1 and 10; joann's address ends with ann's. *)
EXTENDS ShareNames

CONSTANTS ann, joann, bob

MCAccount == {ann, joann, bob}
MCNote == {[owner |-> ann, id |-> 1], [owner |-> ann, id |-> 10],
           [owner |-> joann, id |-> 1], [owner |-> bob, id |-> 10]}
MCEnds == {<<a, a>> : a \in MCAccount} \cup {<<ann, joann>>}
MCBegins == {<<i, i>> : i \in {1, 10}} \cup {<<1, 10>>}
====
