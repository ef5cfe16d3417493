---- MODULE MCDictation ----
(* One device, one note, four words. *)
EXTENDS Dictation
====
