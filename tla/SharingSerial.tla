--------------------------- MODULE SharingSerial ---------------------------
(***************************************************************************)
(* Sharing used with patience: a user acts only when every call and write  *)
(* is finished, and only one device is in use at a time (the others rest   *)
(* on the home screen, with no shared rows on display).  Nothing crashes.  *)
(* This is how the code was written to be used, and it separates what goes *)
(* wrong through interleaving from what goes wrong by itself.              *)
(***************************************************************************)
EXTENDS Sharing

CONSTANT Habits \* which of the two risky habits the users have

ASSUME HabitsAssumption == Habits \subseteq {"clear", "give up"}

Resting(d) == screen[d] = Home /\ rows[d] = {}

MayAct(d) == Settled /\ \A e \in Device \ {d} : Resting(e)

\* Leaving the shared tab: its rows are loaded anew before they can be tapped.
HideShared(d) ==
    /\ screen[d] = Home /\ rows[d] # {}
    /\ rows' = [rows EXCEPT ![d] = {}]
    /\ UNCHANGED <<server, screen, isEdit, people, calls, queue, taps, crashes, history>>

SerialStep(d) ==
    /\ MayAct(d)
    /\ \/ OwnerStep(d)
       \/ SharedStep(d)
       \/ HideShared(d)
       \/ "clear" \in Habits /\ ClearAndShare(d)
       \/ "give up" \in Habits /\ GiveUp(d)

SerialNext == \E d \in Device : SerialStep(d) \/ System(d)

SerialSpec == Init /\ [][SerialNext]_vars /\ Fairness

-----------------------------------------------------------------------------
\* The two documents agree: when everything is settled, the lists of the
\* accounts and the lists of the notes both say exactly what the taps asked
\* for, so what the owner sees in the share settings is who can open the note.
ListsAgree ==
    Settled => /\ Access = wanted
               /\ \A n \in Note : docs[n].people =
                      {[user |-> o.user, mode |-> o.mode] : o \in {o \in wanted : o.note = n}}
               /\ \A o \in wanted : docs[o.note].here

\* The serial system implements the abstract one: every commit moves the
\* access of one account to one note to what was asked for, and it gets there.
Promise == INSTANCE NoteAccess WITH access <- Access
PromiseKept == Promise!Spec
=============================================================================
