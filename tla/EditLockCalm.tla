---------------------------- MODULE EditLockCalm ----------------------------
(***************************************************************************)
(* The edit lock when the tests of the field are spaced: a row is tapped   *)
(* only when no other answer is awaited and no write is unsent, the same   *)
(* goes for visits to the covering screens, an editor is left only when it *)
(* was filled, and a deleted note is not made anew (nothing marks a new    *)
(* note as being edited).  What remains is the protocol without its race   *)
(* between test and set.                                                   *)
(***************************************************************************)
EXTENDS EditLock

Calm == \A d \in Device : queue[d] = <<>> /\ "ask" \notin calls[d]

CalmNext ==
    \E d \in Device : \/ Calm /\ Ask(d)
                      \/ calls[d] = {} /\ Closing(d)
                      \/ Answer(d) \/ Load(d) \/ Commit(d)
                      \/ Crash(d)

CalmSpec == Init /\ [][CalmNext]_vars

\* Owners also visit the share settings and the passcode screen, as calmly.
VisitNext == CalmNext \/ \E d \in Device : Calm /\ Visiting(d)

VisitSpec == Init /\ [][VisitNext]_vars

\* The text a save replaces is the text its author was shown: with spaced
\* tests and no visits the advisory field does protect every edit, even across
\* crashes of editors.
NoEditLost ==
    [][\A d \in Device :
        queue[d] # <<>> /\ queue'[d] = Tail(queue[d]) /\ text' # text
            => Head(queue[d]).base = text]_vars
=============================================================================
