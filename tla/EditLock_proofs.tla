--------------------------- MODULE EditLock_proofs ---------------------------
(***************************************************************************)
(* The edit lock, for every set of devices, every distribution of roles    *)
(* and every bound: as long as no app is restarted, a set isEditing field  *)
(* is somebody's.                                                          *)
(*                                                                         *)
(* The field alone is not inductive: when a device sends the last write of *)
(* its queue, that write decides.  The invariant adds that a device which  *)
(* is not editing has a queue whose last write clears the field, and that  *)
(* a missing note has no field.                                            *)
(*                                                                         *)
(* The second half is about spaced tests.                                  *)
(***************************************************************************)
EXTENDS EditLockCalm, TLAPS, SequenceTheorems

\* What d's queue ends with once d is out of the editors clears the field.
EndsCleared(d) ==
    ~Editing(d) /\ queue[d] # <<>> => ~Raises(queue[d][Len(queue[d])])

Held == \E d \in Device : Editing(d) \/ queue[d] # <<>>

\* The owner opens the note in NoteDetail only, and a row is tapped at home.
ScreenFits(d) == /\ screen[d] = "shared" => Role[d] # "owner"
                 /\ calls[d] = {"ask"} => screen[d] = "home"

LockInv == /\ TypeOK
           /\ \A d \in Device : ScreenFits(d)
           /\ flag => here
           /\ ~died => \A d \in Device : EndsCleared(d)
           /\ ~died /\ flag => Held

-----------------------------------------------------------------------------
(* Queues *)

\* The queue after a Send.
LEMMA SendAdds ==
    ASSUME TypeOK, NEW d \in Device, NEW ws \in Seq(Write), Send(d, ws)
    PROVE  /\ queue' \in [Device -> Seq(Write)]
           /\ \A e \in Device \ {d} : queue'[e] = queue[e]
           /\ queue[d] # <<>> => queue'[d] # <<>>
           /\ ws # <<>> => /\ queue'[d] # <<>>
                           /\ queue'[d][Len(queue'[d])] = ws[Len(ws)]
           /\ ws = <<>> => queue'[d] = queue[d]
<1>1. queue[d] \in Seq(Write) /\ queue \in [Device -> Seq(Write)]
  BY DEF TypeOK
<1>2. queue'[d] = queue[d] \o ws /\ \A e \in Device \ {d} : queue'[e] = queue[e]
  BY <1>1 DEF Send
<1>3. /\ queue[d] \o ws \in Seq(Write)
      /\ Len(queue[d] \o ws) = Len(queue[d]) + Len(ws)
      /\ \A i \in 1 .. Len(queue[d]) + Len(ws) : (queue[d] \o ws)[i] =
             IF i <= Len(queue[d]) THEN queue[d][i] ELSE ws[i - Len(queue[d])]
  BY <1>1, ConcatProperties
<1>4. Len(queue[d]) \in Nat /\ Len(ws) \in Nat
  BY <1>1, LenProperties
<1>5. queue' \in [Device -> Seq(Write)]
  BY <1>1, <1>3 DEF Send
<1>6. queue[d] # <<>> => queue'[d] # <<>>
  BY <1>1, <1>2, ConcatEqualIffEmpty, ConcatSimplifications, EmptySeq
<1>7. ASSUME ws # <<>>
      PROVE  queue'[d] # <<>> /\ queue'[d][Len(queue'[d])] = ws[Len(ws)]
  <2>1. Len(ws) > 0
    BY <1>4, <1>7, EmptySeq
  <2>2. Len(queue'[d]) = Len(queue[d]) + Len(ws) /\ Len(queue'[d]) > 0
    BY <1>2, <1>3, <1>4, <2>1
  <2>3. Len(queue'[d]) \in 1 .. Len(queue[d]) + Len(ws) /\ ~(Len(queue'[d]) <= Len(queue[d]))
        /\ Len(queue'[d]) - Len(queue[d]) = Len(ws)
    BY <1>4, <2>1, <2>2
  <2>. QED
    BY <1>2, <1>3, <2>2, <2>3, EmptySeq
<1>8. ws = <<>> => queue'[d] = queue[d]
  BY <1>1, <1>2, ConcatEmptySeq
<1>. QED
  BY <1>2, <1>5, <1>6, <1>7, <1>8

\* The queue after its oldest write is sent.
LEMMA TailKeepsLast ==
    ASSUME NEW S, NEW q \in Seq(S), q # <<>>
    PROVE  /\ Head(q) \in S /\ Tail(q) \in Seq(S)
           /\ Tail(q) # <<>> => Tail(q)[Len(Tail(q))] = q[Len(q)]
           /\ Tail(q) = <<>> => Head(q) = q[Len(q)]
<1>1. /\ Head(q) \in S /\ Tail(q) \in Seq(S) /\ Len(Tail(q)) = Len(q) - 1
      /\ \A i \in 1 .. Len(Tail(q)) : Tail(q)[i] = q[i + 1]
  BY HeadTailProperties
<1>2. Len(q) \in Nat \ {0}
  BY EmptySeq
<1>3. Tail(q) # <<>> => Len(Tail(q)) \in Nat \ {0}
  BY <1>1, EmptySeq
<1>4. Tail(q) # <<>> => Tail(q)[Len(Tail(q))] = q[Len(q)]
  BY <1>1, <1>2, <1>3
<1>5. Tail(q) = <<>> => Head(q) = q[Len(q)]
  <2>1. Tail(q) = <<>> => Len(q) = 1
    BY <1>1, <1>2, EmptySeq
  <2>2. Head(q) = q[1]
    BY <1>2
  <2>. QED
    BY <2>1, <2>2
<1>. QED
  BY <1>1, <1>4, <1>5

-----------------------------------------------------------------------------
(* A step of d that leaves the note alone *)

LEMMA DeviceStep ==
    ASSUME LockInv, NEW d \in Device, TypeOK', UNCHANGED <<here, flag, died>>,
           \A e \in Device \ {d} : queue'[e] = queue[e] /\ screen'[e] = screen[e] /\ calls'[e] = calls[e],
           ~died => EndsCleared(d)', ScreenFits(d)',
           queue[d] # <<>> => queue'[d] # <<>>,
           Editing(d) => Editing(d)' \/ queue'[d] # <<>>
    PROVE  LockInv'
<1>1. \A e \in Device \ {d} : EndsCleared(e) => EndsCleared(e)'
  BY DEF EndsCleared, Editing
<1>2. \A e \in Device : ScreenFits(e)'
  BY DEF LockInv, ScreenFits
<1>3. Held => Held'
  BY DEF Held, Editing
<1>. QED
  BY <1>1, <1>2, <1>3 DEF LockInv

LEMMA RestartOK ==
    ASSUME LockInv, NEW d \in Device, Restart(d),
           opens' \in [Device -> 0 .. MaxOpens], visits' \in [Device -> 0 .. MaxVisits],
           crashes' \in 0 .. MaxCrashes, saves' \in [Device -> Nat]
    PROVE  LockInv'
BY DEF LockInv, TypeOK, ScreenFits, Restart, Show, Call, note, Screens

\* What a save queues, when it queues anything.
LEMMA SaveGood ==
    ASSUME LockInv, NEW d \in Device, NEW keep \in BOOLEAN, Save(d, keep),
           screen[d] \in {"detail", "create", "shared"}
    PROVE  /\ queue' \in [Device -> Seq(Write)] /\ saves' \in [Device -> Nat]
           /\ \A e \in Device \ {d} : queue'[e] = queue[e]
           /\ queue[d] # <<>> => queue'[d] # <<>>
           /\ ~Editing(d) => queue'[d] = queue[d]
           /\ Editing(d) => queue'[d] # <<>> /\ ~Raises(queue'[d][Len(queue'[d])])
<1>. DEFINE w == IF keep
                 THEN [kind |-> IF screen[d] = "create" THEN "set" ELSE "save",
                       text |-> <<d, saves[d] + 1>>, base |-> shown[d]]
                 ELSE Delete
<1>1. Editing(d) <=> ~(screen[d] = "shared" /\ Role[d] = "view")
  BY RoleAssumption DEF Editing, LockInv, ScreenFits
<1>2. CASE ~Editing(d)
  BY <1>1, <1>2 DEF Save, LockInv, TypeOK
<1>3. CASE Editing(d)
  <2>1. Send(d, <<w>>) /\ saves' = Count(saves, d)
    BY <1>1, <1>3 DEF Save, Delete
  <2>2. w \in Write /\ ~Raises(w)
    BY DEF LockInv, TypeOK, Write, Text, Stamp, Delete, Raises
  <2>. HIDE DEF w
  <2>3. <<w>> \in Seq(Write) /\ <<w>> # <<>> /\ <<w>>[Len(<<w>>)] = w
    BY <2>2
  <2>4. saves' \in [Device -> Nat]
    BY <2>1 DEF Count, LockInv, TypeOK
  <2>. QED
    BY <1>3, <2>1, <2>2, <2>3, <2>4, SendAdds DEF LockInv
<1>. QED
  BY <1>2, <1>3

-----------------------------------------------------------------------------
(* The actions *)

LEMMA CountGood ==
    ASSUME NEW d \in Device, NEW m \in Nat, NEW v \in [Device -> 0 .. m], v[d] < m
    PROVE  Count(v, d) \in [Device -> 0 .. m]
<1>1. v[d] + 1 \in 0 .. m
  OBVIOUS
<1>. QED
  BY <1>1 DEF Count

LEMMA AskOK == ASSUME LockInv, NEW d \in Device, Ask(d) PROVE LockInv'
<1>. USE DEF Ask
<1>1. opens' \in [Device -> 0 .. MaxOpens]
  BY BoundAssumption, CountGood DEF LockInv, TypeOK
<1>2. TypeOK'
  BY <1>1 DEF LockInv, TypeOK, Call, note
<1>3. calls'[d] = {"ask"} /\ \A e \in Device \ {d} : calls'[e] = calls[e]
  BY DEF LockInv, TypeOK, Call
<1>4. ~died => EndsCleared(d)'
  BY DEF LockInv, EndsCleared, Editing
<1>5. ScreenFits(d)'
  BY DEF LockInv, ScreenFits
<1>. QED
  BY <1>2, <1>3, <1>4, <1>5, DeviceStep DEF note, Editing

LEMMA CreateOK == ASSUME LockInv, NEW d \in Device, Create(d) PROVE LockInv'
<1>. USE DEF Create
<1>1. opens' \in [Device -> 0 .. MaxOpens]
  BY BoundAssumption, CountGood DEF LockInv, TypeOK
<1>2. TypeOK'
  BY <1>1 DEF LockInv, TypeOK, Show, note, Screens
<1>3. screen'[d] = "create" /\ \A e \in Device \ {d} : screen'[e] = screen[e]
  BY DEF LockInv, TypeOK, Show
<1>4. EndsCleared(d)' /\ ScreenFits(d)' /\ Editing(d)'
  BY <1>3 DEF EndsCleared, ScreenFits, Editing
<1>. QED
  BY <1>2, <1>3, <1>4, DeviceStep DEF note

LEMMA AnswerOK == ASSUME LockInv, NEW d \in Device, Answer(d) PROVE LockInv'
<1>1. UNCHANGED counters
  BY DEF Answer
<1>2. CASE Restart(d)
  BY <1>1, <1>2, RestartOK DEF counters, LockInv, TypeOK
<1>3. CASE Call(d, {}) /\ UNCHANGED <<note, screen, shown, queue, died>>
  <2>1. TypeOK'
    BY <1>1, <1>3 DEF LockInv, TypeOK, Call, note, counters
  <2>2. calls'[d] = {} /\ \A e \in Device \ {d} : calls'[e] = calls[e]
    BY <1>3 DEF LockInv, TypeOK, Call
  <2>3. (~died => EndsCleared(d)') /\ ScreenFits(d)'
    BY <1>3, <2>2 DEF LockInv, EndsCleared, ScreenFits, Editing
  <2>. QED
    BY <1>3, <2>1, <2>2, <2>3, DeviceStep DEF note, Editing
<1>4. CASE /\ Show(d, IF Role[d] = "owner" THEN "detail" ELSE "shared")
           /\ Call(d, {"load"})
           /\ Send(d, Entering(d))
           /\ UNCHANGED <<note, shown, died>>
  <2>1. Entering(d) \in Seq(Write)
    <3>1. RaiseFlag \in Write
      BY DEF RaiseFlag, Write
    <3>. QED
      BY <3>1, EmptySeq DEF Entering
  <2>2. /\ queue' \in [Device -> Seq(Write)]
        /\ \A e \in Device \ {d} : queue'[e] = queue[e]
        /\ queue[d] # <<>> => queue'[d] # <<>>
        /\ Entering(d) = <<>> => queue'[d] = queue[d]
    BY <1>4, <2>1, SendAdds DEF LockInv
  <2>3. /\ screen'[d] = IF Role[d] = "owner" THEN "detail" ELSE "shared"
        /\ \A e \in Device \ {d} : screen'[e] = screen[e] /\ calls'[e] = calls[e]
        /\ calls'[d] = {"load"}
    BY <1>4 DEF LockInv, TypeOK, Show, Call
  <2>4. TypeOK'
    BY <1>1, <1>4, <2>2 DEF LockInv, TypeOK, Call, Show, note, counters, Screens
  <2>5. ~Editing(d)
    BY DEF Answer, LockInv, ScreenFits, Editing
  <2>6. ~Editing(d)' => Entering(d) = <<>>
    BY <2>3, RoleAssumption DEF Entering, Editing
  <2>7. ~died => EndsCleared(d)'
    BY <2>2, <2>5, <2>6 DEF LockInv, EndsCleared
  <2>8. ScreenFits(d)'
    BY <2>3 DEF ScreenFits
  <2>. QED
    BY <1>4, <2>2, <2>3, <2>4, <2>5, <2>7, <2>8, DeviceStep DEF note
<1>. QED
  BY <1>2, <1>3, <1>4 DEF Answer

LEMMA LoadOK == ASSUME LockInv, NEW d \in Device, Load(d) PROVE LockInv'
<1>1. UNCHANGED counters
  BY DEF Load
<1>2. CASE Restart(d)
  BY <1>1, <1>2, RestartOK DEF counters, LockInv, TypeOK
<1>3. CASE ~Restart(d)
  <2>1. PICK t \in TextSeen(d) : shown' = [shown EXCEPT ![d] = t]
    BY <1>3 DEF Load
  <2>2. Call(d, {}) /\ UNCHANGED <<note, screen, queue, died>>
    BY <1>3 DEF Load
  <2>3. t \in Text
    <3>1. queue[d] \in Seq(Write) /\ text \in Text
      BY DEF LockInv, TypeOK
    <3>2. ASSUME NEW i \in DOMAIN queue[d], Carries(queue[d][i])
          PROVE  queue[d][i].text \in Text
      <4>1. queue[d][i] \in Write
        BY <3>1, LenProperties, ElementOfSeq
      <4>. QED
        BY <3>2, <4>1 DEF Write, Carries
    <3>3. t = text \/ \E i \in DOMAIN queue[d] : Carries(queue[d][i]) /\ t = queue[d][i].text
      BY <2>1 DEF TextSeen, LastOf
    <3>. QED
      BY <3>1, <3>2, <3>3
  <2>4. TypeOK'
    BY <1>1, <2>1, <2>2, <2>3 DEF LockInv, TypeOK, Call, note, counters
  <2>5. calls'[d] = {} /\ \A e \in Device \ {d} : calls'[e] = calls[e]
    BY <2>2 DEF LockInv, TypeOK, Call
  <2>6. (~died => EndsCleared(d)') /\ ScreenFits(d)'
    BY <2>2, <2>5 DEF LockInv, EndsCleared, ScreenFits, Editing
  <2>. QED
    BY <2>2, <2>4, <2>5, <2>6, DeviceStep DEF note, Editing
<1>. QED
  BY <1>2, <1>3

LEMMA LeaveOK == ASSUME LockInv, NEW d \in Device, NEW keep \in BOOLEAN, Leave(d, keep) PROVE LockInv'
<1>1. screen[d] \in {"detail", "create", "shared"} /\ Save(d, keep)
  BY DEF Leave
<1>2. /\ queue' \in [Device -> Seq(Write)] /\ saves' \in [Device -> Nat]
      /\ \A e \in Device \ {d} : queue'[e] = queue[e]
      /\ queue[d] # <<>> => queue'[d] # <<>>
      /\ ~Editing(d) => queue'[d] = queue[d]
      /\ Editing(d) => queue'[d] # <<>> /\ ~Raises(queue'[d][Len(queue'[d])])
  BY <1>1, SaveGood, Zenon
<1>3. UNCHANGED <<note, opens, visits, crashes, died>>
  BY DEF Leave
<1>4. TypeOK'
  BY <1>2, <1>3 DEF Leave, LockInv, TypeOK, Show, Call, note, Screens
<1>5. /\ screen'[d] = "home" /\ calls'[d] = {}
      /\ \A e \in Device \ {d} : screen'[e] = screen[e] /\ calls'[e] = calls[e]
  BY DEF Leave, LockInv, TypeOK, Show, Call
<1>6. ~died => EndsCleared(d)'
  <2>1. CASE Editing(d)
    BY <1>2, <2>1 DEF EndsCleared, Raises
  <2>2. CASE ~Editing(d)
    BY <1>2, <2>2 DEF LockInv, EndsCleared, Raises
  <2>. QED
    BY <2>1, <2>2
<1>7. ScreenFits(d)'
  BY <1>5 DEF ScreenFits
<1>. QED
  BY <1>2, <1>3, <1>4, <1>5, <1>6, <1>7, DeviceStep DEF note

LEMMA CoverOK ==
    ASSUME LockInv, NEW d \in Device, NEW s \in Covers, NEW keep \in BOOLEAN, Cover(d, s, keep)
    PROVE  LockInv'
<1>1. screen[d] \in {"detail", "create"} /\ Save(d, keep)
  BY DEF Cover
<1>2. Editing(d) /\ screen[d] \in {"detail", "create", "shared"}
  BY <1>1 DEF Editing
<1>3. /\ queue' \in [Device -> Seq(Write)] /\ saves' \in [Device -> Nat]
      /\ \A e \in Device \ {d} : queue'[e] = queue[e]
      /\ queue'[d] # <<>> /\ ~Raises(queue'[d][Len(queue'[d])])
  BY <1>1, <1>2, SaveGood, Zenon
<1>4. UNCHANGED <<note, calls, shown, opens, crashes, died>>
  BY DEF Cover
<1>5. visits' \in [Device -> 0 .. MaxVisits]
  BY BoundAssumption, CountGood DEF Cover, LockInv, TypeOK
<1>6. TypeOK'
  BY <1>3, <1>4, <1>5 DEF Cover, LockInv, TypeOK, Show, note, Screens
<1>7. screen'[d] = s /\ \A e \in Device \ {d} : screen'[e] = screen[e]
  BY DEF Cover, LockInv, TypeOK, Show
<1>8. EndsCleared(d)'
  BY <1>3 DEF EndsCleared, Raises
<1>9. ScreenFits(d)'
  BY <1>1, <1>4, <1>7 DEF LockInv, ScreenFits, Covers
<1>. QED
  BY <1>3, <1>4, <1>6, <1>7, <1>8, <1>9, DeviceStep DEF note

LEMMA UncoverOK == ASSUME LockInv, NEW d \in Device, Uncover(d) PROVE LockInv'
<1>. DEFINE ws == CASE screen[d] = "detailShare"    -> <<RaiseFlag, RaiseFlag>>
                    [] screen[d] = "createPasscode" -> <<>>
                    [] OTHER                        -> <<RaiseFlag>>
<1>1. ws \in Seq(Write)
  <2>1. RaiseFlag \in Write
    BY DEF RaiseFlag, Write
  <2>. QED
    BY <2>1, EmptySeq
<1>2. /\ queue' \in [Device -> Seq(Write)]
      /\ \A e \in Device \ {d} : queue'[e] = queue[e]
      /\ queue[d] # <<>> => queue'[d] # <<>>
  <2>1. Send(d, ws)
    BY DEF Uncover
  <2>. HIDE DEF ws
  <2>. QED
    BY <1>1, <2>1, SendAdds DEF LockInv
<1>3. UNCHANGED <<note, shown, counters, died>>
  BY DEF Uncover
<1>. HIDE DEF ws
<1>4. /\ screen[d] \in Covers
      /\ \/ Show(d, "detail") /\ Call(d, {"load"})
         \/ Show(d, "create") /\ UNCHANGED calls
  BY DEF Uncover
<1>5. screen \in [Device -> Screens] /\ calls \in [Device -> {{}, {"ask"}, {"load"}}]
  BY DEF LockInv, TypeOK
<1>6. TypeOK'
  <2>1. screen' \in [Device -> Screens] /\ calls' \in [Device -> {{}, {"ask"}, {"load"}}]
    BY <1>4, <1>5 DEF Show, Call, Screens
  <2>2. TypeOK
    BY DEF LockInv
  <2>. QED
    BY <1>2, <1>3, <2>1, <2>2 DEF TypeOK, note, counters
<1>7. screen'[d] \in {"detail", "create"} /\ calls'[d] # {"ask"}
  <2>1. ScreenFits(d)
    BY DEF LockInv
  <2>. QED
    BY <1>4, <1>5, <2>1 DEF Show, Call, ScreenFits, Covers
<1>8. \A e \in Device \ {d} : screen'[e] = screen[e] /\ calls'[e] = calls[e]
  BY <1>4, <1>5 DEF Show, Call
<1>9. EndsCleared(d)' /\ ScreenFits(d)' /\ Editing(d)'
  BY <1>7 DEF EndsCleared, ScreenFits, Editing
<1>. QED
  BY <1>2, <1>3, <1>6, <1>7, <1>8, <1>9, DeviceStep DEF note

\* The last write of a device that is not editing decides the field.
LEMMA CommitOK == ASSUME LockInv, NEW d \in Device, Commit(d) PROVE LockInv'
<1>. DEFINE w == Head(queue[d])
<1>1. queue[d] # <<>> /\ queue[d] \in Seq(Write) /\ queue \in [Device -> Seq(Write)]
  BY DEF Commit, LockInv, TypeOK
<1>2. UNCHANGED <<screen, calls, shown, counters, died>>
  BY DEF Commit
<1>3. queue'[d] = Tail(queue[d]) /\ \A e \in Device \ {d} : queue'[e] = queue[e]
  BY <1>1 DEF Commit
<1>4. /\ w \in Write /\ Tail(queue[d]) \in Seq(Write)
      /\ Tail(queue[d]) # <<>> => Tail(queue[d])[Len(Tail(queue[d]))] = queue[d][Len(queue[d])]
      /\ Tail(queue[d]) = <<>> => w = queue[d][Len(queue[d])]
  BY <1>1, TailKeepsLast
<1>5. \/ ~here /\ UNCHANGED note
      \/ /\ flag' = Raises(w)
         /\ text' = IF Carries(w) THEN w.text ELSE text
         /\ here' = (w.kind # "delete")
  BY DEF Commit
<1>6. here' \in BOOLEAN /\ flag' \in BOOLEAN /\ text' \in Text /\ (flag' => here')
  <2>1. w.kind \in {"flag", "delete", "save", "set"} /\ (Carries(w) => w.text \in Text)
    BY <1>4 DEF Write, Carries
  <2>2. here \in BOOLEAN /\ flag \in BOOLEAN /\ text \in Text /\ (flag => here)
    BY DEF LockInv, TypeOK
  <2>. HIDE DEF w
  <2>3. CASE UNCHANGED note
    BY <2>2, <2>3 DEF note
  <2>4. CASE ~UNCHANGED note
    BY <1>5, <2>1, <2>2, <2>4 DEF Raises
  <2>. QED
    BY <2>3, <2>4
<1>7. TypeOK'
  BY <1>1, <1>2, <1>4, <1>6 DEF Commit, LockInv, TypeOK, counters
<1>8. \A e \in Device : ScreenFits(e)'
  BY <1>2 DEF LockInv, ScreenFits
<1>9. ASSUME ~died', NEW e \in Device
      PROVE  EndsCleared(e)'
  <2>1. EndsCleared(e) /\ (Editing(e)' <=> Editing(e))
    BY <1>2, <1>9 DEF LockInv, Editing
  <2>2. CASE e = d
    <3>. SUFFICES ASSUME ~Editing(d), Tail(queue[d]) # <<>>
                  PROVE  ~Raises(Tail(queue[d])[Len(Tail(queue[d]))])
      BY <1>3, <2>1, <2>2 DEF EndsCleared, Raises
    <3>. QED
      BY <1>1, <1>4, <2>1, <2>2 DEF EndsCleared
  <2>3. CASE e # d
    BY <1>3, <2>1, <2>3 DEF EndsCleared, Raises
  <2>. QED
    BY <2>2, <2>3
<1>10. ASSUME ~died', flag'
       PROVE  Held'
  <2>1. \A e \in Device : Editing(e)' <=> Editing(e)
    BY <1>2 DEF Editing
  <2>2. CASE Tail(queue[d]) # <<>>
    BY <1>3, <2>2 DEF Held
  <2>3. CASE Tail(queue[d]) = <<>>
    <3>1. Raises(w)
      BY <1>5, <1>10 DEF LockInv, note
    <3>2. Editing(d)
      BY <1>1, <1>2, <1>4, <1>10, <2>3, <3>1 DEF LockInv, EndsCleared
    <3>. QED
      BY <2>1, <3>2 DEF Held
  <2>. QED
    BY <2>2, <2>3
<1>. QED
  BY <1>6, <1>7, <1>8, <1>9, <1>10 DEF LockInv

-----------------------------------------------------------------------------
(* The invariant, and what it implies *)

LEMMA InitOK == Init => LockInv
<1>. SUFFICES ASSUME Init PROVE LockInv
  OBVIOUS
<1>1. TypeOK
  <2>. USE DEF Init
  <2>1. opens \in [Device -> 0 .. MaxOpens] /\ visits \in [Device -> 0 .. MaxVisits]
        /\ crashes \in 0 .. MaxCrashes /\ saves \in [Device -> Nat]
    BY BoundAssumption
  <2>2. text \in Text /\ shown \in [Device -> Text \cup {Nothing}]
    BY DEF Text
  <2>3. queue \in [Device -> Seq(Write)]
    BY EmptySeq
  <2>4. screen \in [Device -> Screens] /\ calls \in [Device -> {{}, {"ask"}, {"load"}}]
    BY DEF Screens
  <2>. QED
    BY <2>1, <2>2, <2>3, <2>4 DEF TypeOK
<1>. QED
  BY <1>1 DEF Init, LockInv, ScreenFits, EndsCleared

LEMMA NextOK == LockInv /\ [Next]_vars => LockInv'
<1>. SUFFICES ASSUME LockInv, [Next]_vars PROVE LockInv'
  OBVIOUS
<1>1. ASSUME NEW d \in Device, Opening(d) \/ Answer(d) \/ Load(d) \/ Commit(d) \/ Uncover(d)
      PROVE  LockInv'
  BY <1>1, AskOK, CreateOK, AnswerOK, LoadOK, CommitOK, UncoverOK DEF Opening
<1>2. ASSUME NEW d \in Device, NEW keep \in BOOLEAN, Leave(d, keep)
      PROVE  LockInv'
  BY <1>2, LeaveOK, Zenon
<1>3. ASSUME NEW d \in Device, NEW s \in Covers, NEW keep \in BOOLEAN, Cover(d, s, keep)
      PROVE  LockInv'
  BY <1>3, CoverOK, Zenon
<1>4. ASSUME NEW d \in Device, Crash(d)
      PROVE  LockInv'
  <2>1. Restart(d) /\ crashes' \in 0 .. MaxCrashes /\ UNCHANGED <<opens, visits, saves>>
    BY <1>4, BoundAssumption DEF Crash, LockInv, TypeOK
  <2>. QED
    BY <2>1, RestartOK DEF LockInv, TypeOK
<1>5. CASE UNCHANGED vars
  BY <1>5 DEF vars, note, counters, LockInv, TypeOK, ScreenFits, EndsCleared, Held, Editing
<1>. QED
  BY <1>1, <1>2, <1>3, <1>4, <1>5, Zenon DEF Next, Closing, Visiting

THEOREM Inductive == Spec => []LockInv
<1>. QED
  BY InitOK, NextOK, PTL DEF Spec

\* The state has its type: no device awaits two answers.
THEOREM TypeCorrect == Spec => []TypeOK
<1>1. LockInv => TypeOK
  BY DEF LockInv
<1>. QED
  BY <1>1, Inductive, PTL

\* A set field is somebody's, as long as no app was restarted.
THEOREM LockSafe == Spec => []FlagIsOwned
<1>1. LockInv => FlagIsOwned
  BY DEF LockInv, Held, FlagIsOwned
<1>. QED
  BY <1>1, Inductive, PTL

-----------------------------------------------------------------------------
(***************************************************************************)
(* With spaced tests the field does what it is meant for, for every set of *)
(* devices, every distribution of roles and every bound: one editor at a   *)
(* time, and no save replaces a text its author has not seen.              *)
(*                                                                         *)
(* A test is asked for when no write is under way, and answered when some  *)
(* may be.  The invariant says who can be active, that is, edit or have    *)
(* unsent writes: one device, and while a test is awaited the field is set *)
(* as long as there is one; so an answer that finds it clear finds nobody. *)
(***************************************************************************)

Asking(d) == "ask" \in calls[d]

Active(d) == Editing(d) \/ queue[d] # <<>>

\* A save that is under way was made from the text it will replace.
Ends(w) == w \in Write \ {RaiseFlag} /\ (Carries(w) => w.base = text /\ w.kind = "save")

\* An open editor has at most to set the field; one that is left clears it last.
QueueFits(d) ==
    \/ queue[d] = <<>>
    \/ queue[d] = <<RaiseFlag>>
    \/ ~Editing(d) /\ \E w \in Write : Ends(w) /\ (queue[d] = <<w>> \/ queue[d] = <<RaiseFlag, w>>)

\* An editor whose writes are sent, or that has none but the last to send, is the
\* one the field is set for.
FlagFits(d) ==
    /\ Editing(d) /\ queue[d] = <<>> => flag
    /\ queue[d] # <<>> => flag \/ Head(queue[d]) = RaiseFlag

DeviceFits(d) ==
    /\ screen[d] \in {"home", "detail", "shared"}
    /\ Asking(d) => ~Active(d)
    /\ Active(d) => here
    /\ QueueFits(d) /\ FlagFits(d)
    /\ Editing(d) /\ calls[d] = {} => shown[d] = text

OneTest   == \A d, e \in Device : Asking(d) /\ Asking(e) => d = e
OneActive == \A d, e \in Device : Active(d) /\ Active(e) => d = e

\* What a test that is under way will be answered.
TestTells == (\E d \in Device : Asking(d)) => \A e \in Device : Active(e) => flag

CalmInv == LockInv /\ (\A d \in Device : DeviceFits(d)) /\ OneTest /\ OneActive /\ TestTells

-----------------------------------------------------------------------------
(* Steps that make nobody active *)

LEMMA RaiseGood == RaiseFlag \in Write /\ Raises(RaiseFlag) /\ ~Carries(RaiseFlag)
BY DEF RaiseFlag, Write, Raises, Carries

\* A device that a step leaves alone.
LEMMA OthersFit ==
    ASSUME NEW d, DeviceFits(d), UNCHANGED note,
           screen'[d] = screen[d], calls'[d] = calls[d], queue'[d] = queue[d], shown'[d] = shown[d]
    PROVE  DeviceFits(d)' /\ (Active(d)' <=> Active(d)) /\ (Asking(d)' <=> Asking(d))
<1>1. (Editing(d)' <=> Editing(d)) /\ (Active(d)' <=> Active(d)) /\ (Asking(d)' <=> Asking(d))
  BY DEF Editing, Active, Asking
<1>2. here' = here /\ flag' = flag /\ text' = text
  BY DEF note
<1>3. \A w : Ends(w)' <=> Ends(w)
  BY <1>2 DEF Ends
<1>4. QueueFits(d)
  BY DEF DeviceFits
<1>5. QueueFits(d)'
  BY <1>1, <1>3, <1>4 DEF QueueFits
<1>6. FlagFits(d)'
  BY <1>1, <1>2 DEF FlagFits, DeviceFits
<1>. QED
  BY <1>1, <1>2, <1>5, <1>6 DEF DeviceFits

LEMMA QuietStep ==
    ASSUME CalmInv, NEW d \in Device, LockInv', UNCHANGED note, DeviceFits(d)',
           \A e \in Device \ {d} : /\ screen'[e] = screen[e] /\ calls'[e] = calls[e]
                                   /\ queue'[e] = queue[e] /\ shown'[e] = shown[e],
           Active(d)' => Active(d), Asking(d)' => Asking(d)
    PROVE  CalmInv'
<1>1. \A e \in Device : DeviceFits(e)' /\ (Active(e)' => Active(e)) /\ (Asking(e)' => Asking(e))
  BY OthersFit DEF CalmInv
<1>2. OneTest' /\ OneActive'
  BY <1>1 DEF CalmInv, OneTest, OneActive
<1>3. TestTells'
  BY <1>1 DEF CalmInv, TestTells, note
<1>. QED
  BY <1>1, <1>2, <1>3 DEF CalmInv

\* An app that is killed keeps its queue, whatever it was doing.
LEMMA RestartCalm ==
    ASSUME CalmInv, NEW d \in Device, Restart(d), LockInv'
    PROVE  CalmInv'
<1>1. /\ screen'[d] = "home" /\ calls'[d] = {} /\ queue' = queue /\ UNCHANGED note
      /\ \A e \in Device \ {d} : screen'[e] = screen[e] /\ calls'[e] = calls[e] /\ shown'[e] = shown[e]
  BY DEF Restart, Show, Call, CalmInv, LockInv, TypeOK
<1>2. ~Editing(d)' /\ ~Asking(d)' /\ (Active(d)' => Active(d))
  BY <1>1 DEF Editing, Asking, Active
<1>3. DeviceFits(d) /\ \A w : Ends(w)' <=> Ends(w)
  BY <1>1 DEF CalmInv, Ends, note
<1>4. QueueFits(d)'
  BY <1>1, <1>2, <1>3 DEF DeviceFits, QueueFits
<1>5. FlagFits(d)'
  BY <1>1, <1>2, <1>3 DEF DeviceFits, FlagFits, note
<1>6. DeviceFits(d)'
  BY <1>1, <1>2, <1>3, <1>4, <1>5 DEF DeviceFits, note
<1>. QED
  BY <1>1, <1>2, <1>6, QuietStep

-----------------------------------------------------------------------------
(* The actions *)

LEMMA AskCalm ==
    ASSUME CalmInv, NEW d \in Device, Calm, Ask(d), LockInv'
    PROVE  CalmInv'
<1>1. /\ calls'[d] = {"ask"} /\ UNCHANGED <<note, screen, queue, shown>> /\ screen[d] = "home"
      /\ \A e \in Device \ {d} : calls'[e] = calls[e]
  BY DEF Ask, Call, CalmInv, LockInv, TypeOK
<1>2. \A e \in Device \ {d} : DeviceFits(e)' /\ (Active(e)' <=> Active(e)) /\ (Asking(e)' <=> Asking(e))
  BY <1>1, OthersFit DEF CalmInv
<1>3. \A e \in Device : queue[e] = <<>> /\ ~Asking(e)
  BY DEF Calm, Asking
<1>4. ~Editing(d)' /\ ~Editing(d) /\ ~Active(d)' /\ ~Active(d)
  BY <1>1, <1>3 DEF Editing, Active
<1>5. DeviceFits(d)'
  BY <1>1, <1>3, <1>4 DEF DeviceFits, QueueFits, FlagFits
<1>6. OneTest' /\ OneActive'
  BY <1>2, <1>3, <1>4 DEF CalmInv, OneTest, OneActive
<1>7. \A e \in Device : Active(e) => flag
  BY <1>3 DEF CalmInv, DeviceFits, FlagFits, Active
<1>8. TestTells'
  BY <1>1, <1>2, <1>4, <1>7 DEF TestTells, note
<1>. QED
  BY <1>2, <1>5, <1>6, <1>8 DEF CalmInv

\* An empty queue hides nothing.
LEMMA SeesServer ==
    ASSUME NEW d, queue[d] = <<>>
    PROVE  HereSeen(d) = here /\ FlagSeen(d) = flag
<1>1. DOMAIN queue[d] = {}
  OBVIOUS
<1>2. LastOf(d, LAMBDA w : w.kind \in {"set", "delete"}) = {} /\ LastOf(d, LAMBDA w : TRUE) = {}
  BY <1>1 DEF LastOf
<1>. QED
  BY <1>2 DEF HereSeen, FlagSeen

\* A test that finds the field clear finds nobody active, so the editor it
\* opens is the only one.
LEMMA AnswerCalm ==
    ASSUME CalmInv, NEW d \in Device, Answer(d), LockInv'
    PROVE  CalmInv'
<1>1. calls[d] = {"ask"} /\ Asking(d) /\ ~Active(d) /\ ~Editing(d) /\ queue[d] = <<>> /\ DeviceFits(d)
  BY DEF Answer, Asking, Active, CalmInv, DeviceFits
<1>2. HereSeen(d) = here /\ FlagSeen(d) = flag
  BY <1>1, SeesServer
<1>3. CASE Restart(d)
  BY <1>3, RestartCalm
<1>4. CASE Call(d, {}) /\ UNCHANGED <<note, screen, shown, queue, died>>
  <2>1. calls'[d] = {} /\ \A e \in Device \ {d} : calls'[e] = calls[e]
    BY <1>4 DEF Call, CalmInv, LockInv, TypeOK
  <2>2. ~Asking(d)' /\ ~Active(d)' /\ ~Editing(d)' /\ queue'[d] = <<>>
    BY <1>1, <1>4, <2>1 DEF Asking, Active, Editing
  <2>3. DeviceFits(d)'
    BY <1>1, <1>4, <2>1, <2>2 DEF DeviceFits, QueueFits, FlagFits
  <2>. QED
    BY <1>4, <2>1, <2>2, <2>3, QuietStep
<1>5. CASE /\ ~Restart(d) /\ here /\ ~flag /\ UNCHANGED note
           /\ Show(d, IF Role[d] = "owner" THEN "detail" ELSE "shared")
           /\ Call(d, {"load"}) /\ Send(d, Entering(d)) /\ shown' = shown
  <2>1. /\ screen'[d] = IF Role[d] = "owner" THEN "detail" ELSE "shared"
        /\ calls'[d] = {"load"} /\ queue'[d] = Entering(d)
        /\ \A e \in Device \ {d} : /\ screen'[e] = screen[e] /\ calls'[e] = calls[e]
                                   /\ queue'[e] = queue[e] /\ shown'[e] = shown[e]
    <3>1. /\ screen \in [Device -> Screens] /\ queue \in [Device -> Seq(Write)]
          /\ calls \in [Device -> {{}, {"ask"}, {"load"}}]
      BY DEF CalmInv, LockInv, TypeOK
    <3>2. queue'[d] = Entering(d)
      BY <1>1, <1>5, <3>1 DEF Send, Entering
    <3>. QED
      BY <1>5, <3>1, <3>2 DEF Show, Call, Send
  <2>2. \A e \in Device : ~Active(e)
    BY <1>1, <1>5 DEF CalmInv, TestTells
  <2>3. \A e \in Device \ {d} : DeviceFits(e)' /\ ~Active(e)' /\ ~Asking(e)'
    <3>1. \A e \in Device \ {d} : ~Asking(e)
      BY <1>1 DEF CalmInv, OneTest
    <3>. QED
      BY <1>5, <2>1, <2>2, <3>1, OthersFit DEF CalmInv
  <2>4. ~Asking(d)' /\ (Editing(d)' <=> Role[d] # "view")
    BY <2>1, RoleAssumption DEF Asking, Editing
  <2>5. QueueFits(d)'
    BY <2>1 DEF QueueFits, Entering
  <2>6. FlagFits(d)'
    BY <2>1, <2>4 DEF FlagFits, Entering
  <2>7. DeviceFits(d)'
    BY <1>5, <2>1, <2>4, <2>5, <2>6 DEF DeviceFits, note
  <2>8. OneTest' /\ OneActive' /\ TestTells'
    BY <2>3, <2>4 DEF OneTest, OneActive, TestTells
  <2>. QED
    BY <2>3, <2>7, <2>8 DEF CalmInv
<1>6. \/ Restart(d)
      \/ Call(d, {}) /\ UNCHANGED <<note, screen, shown, queue, died>>
      \/ /\ here /\ ~flag /\ UNCHANGED note
         /\ Show(d, IF Role[d] = "owner" THEN "detail" ELSE "shared")
         /\ Call(d, {"load"}) /\ Send(d, Entering(d)) /\ shown' = shown
  BY <1>2 DEF Answer, MayOpen
<1>. QED
  BY <1>3, <1>4, <1>5, <1>6

\* The text an editor is filled with is the server's: its own writes carry none.
LEMMA LoadCalm ==
    ASSUME CalmInv, NEW d \in Device, Load(d), LockInv'
    PROVE  CalmInv'
<1>1. calls[d] = {"load"} /\ DeviceFits(d)
  BY DEF Load, CalmInv
<1>2. CASE Restart(d)
  BY <1>2, RestartCalm
<1>3. CASE ~Restart(d)
  <2>1. PICK t \in TextSeen(d) : shown' = [shown EXCEPT ![d] = t]
    BY <1>3 DEF Load
  <2>2. Call(d, {}) /\ UNCHANGED <<note, screen, queue>>
    BY <1>3 DEF Load
  <2>3. /\ calls'[d] = {} /\ shown'[d] = t
        /\ \A e \in Device \ {d} : calls'[e] = calls[e] /\ shown'[e] = shown[e]
    BY <2>1, <2>2 DEF Call, CalmInv, LockInv, TypeOK
  <2>4. ~Asking(d)' /\ (Editing(d)' <=> Editing(d)) /\ (Active(d)' <=> Active(d))
    BY <2>2, <2>3 DEF Asking, Editing, Active
  <2>5. Editing(d) => t = text
    <3>1. SUFFICES ASSUME Editing(d) PROVE t = text
      OBVIOUS
    <3>2. queue[d] = <<>> \/ queue[d] = <<RaiseFlag>>
      BY <1>1, <3>1 DEF DeviceFits, QueueFits
    <3>3. \A i \in DOMAIN queue[d] : ~Carries(queue[d][i])
      BY <3>2, RaiseGood
    <3>4. LastOf(d, Carries) = {}
      BY <3>3 DEF LastOf
    <3>. QED
      BY <2>1, <3>4 DEF TextSeen
  <2>6. \A w : Ends(w)' <=> Ends(w)
    BY <2>2 DEF Ends, note
  <2>7. QueueFits(d)'
    BY <1>1, <2>2, <2>4, <2>6 DEF DeviceFits, QueueFits
  <2>8. FlagFits(d)'
    BY <1>1, <2>2, <2>4 DEF DeviceFits, FlagFits, note
  <2>9. DeviceFits(d)'
    BY <1>1, <2>2, <2>3, <2>4, <2>5, <2>7, <2>8 DEF DeviceFits, note
  <2>. QED
    BY <2>2, <2>3, <2>4, <2>9, QuietStep
<1>. QED
  BY <1>2, <1>3

\* Two writes sent one after the other.
LEMMA PairIsConcat ==
    ASSUME NEW S, NEW a \in S, NEW b \in S
    PROVE  <<a>> \o <<b>> = <<a, b>> /\ <<>> \o <<b>> = <<b>>
<1>. DEFINE ab == <<a>> \o <<b>>
            pair == <<a, b>>
<1>1. <<a>> \in Seq(S) /\ <<b>> \in Seq(S) /\ pair \in Seq(S)
  OBVIOUS
<1>2. Len(<<a>>) = 1 /\ Len(<<b>>) = 1 /\ <<a>>[1] = a /\ <<b>>[1] = b
  OBVIOUS
<1>3. Len(pair) = 2 /\ pair[1] = a /\ pair[2] = b
  OBVIOUS
<1>4. /\ ab \in Seq(S) /\ Len(ab) = Len(<<a>>) + Len(<<b>>)
      /\ \A i \in 1 .. Len(<<a>>) + Len(<<b>>) :
             ab[i] = IF i <= Len(<<a>>) THEN <<a>>[i] ELSE <<b>>[i - Len(<<a>>)]
  BY <1>1, ConcatProperties
<1>. HIDE DEF ab, pair
<1>5. Len(ab) = 2 /\ ab[1] = a /\ ab[2] = b
  BY <1>2, <1>4
<1>6. \A i \in 1 .. Len(ab) : ab[i] = pair[i]
  BY <1>3, <1>5
<1>7. ab = pair
  BY <1>1, <1>3, <1>4, <1>5, <1>6, SeqEqual
<1>8. <<>> \o <<b>> = <<b>>
  BY <1>1, ConcatEmptySeq
<1>. QED
  BY <1>7, <1>8 DEF ab, pair

\* An editor that was filled is left with a save of the server's text.
LEMMA LeaveCalm ==
    ASSUME CalmInv, NEW d \in Device, calls[d] = {}, NEW keep \in BOOLEAN, Leave(d, keep), LockInv'
    PROVE  CalmInv'
<1>1. DeviceFits(d) /\ TypeOK
  BY DEF CalmInv, LockInv
<1>2. /\ screen'[d] = "home" /\ calls'[d] = {} /\ UNCHANGED note
      /\ \A e \in Device \ {d} : screen'[e] = screen[e] /\ calls'[e] = calls[e] /\ shown'[e] = shown[e]
  BY <1>1 DEF Leave, Show, Call, TypeOK
<1>3. ~Editing(d)' /\ ~Asking(d)'
  BY <1>2 DEF Editing, Asking
<1>4. Editing(d) <=> ~(screen[d] = "shared" /\ Role[d] = "view")
  BY RoleAssumption DEF Editing, Leave, CalmInv, LockInv, ScreenFits
<1>5. \A x : Ends(x)' <=> Ends(x)
  BY <1>2 DEF Ends, note
<1>6. CASE ~Editing(d)
  <2>1. queue' = queue
    BY <1>4, <1>6 DEF Leave, Save
  <2>2. Active(d)' <=> Active(d)
    BY <1>3, <1>6, <2>1 DEF Active
  <2>3. QueueFits(d)' /\ FlagFits(d)'
    BY <1>1, <1>2, <1>3, <1>5, <1>6, <2>1 DEF DeviceFits, QueueFits, FlagFits, note
  <2>4. DeviceFits(d)'
    BY <1>1, <1>2, <1>3, <2>2, <2>3 DEF DeviceFits, note
  <2>. QED
    BY <1>2, <1>3, <2>1, <2>2, <2>4, QuietStep
<1>7. CASE Editing(d)
  <2>. DEFINE new == IF keep
                     THEN [kind |-> "save", text |-> <<d, saves[d] + 1>>, base |-> shown[d]]
                     ELSE Delete
  <2>1. Send(d, <<new>>)
    <3>1. Save(d, keep) /\ screen[d] # "create"
      BY <1>1 DEF Leave, DeviceFits
    <3>. QED
      BY <1>4, <1>7, <3>1 DEF Save
  <2>2. Ends(new)
    <3>1. Delete \in Write \ {RaiseFlag} /\ ~Carries(Delete)
      BY DEF Delete, RaiseFlag, Write, Carries
    <3>2. ASSUME keep
          PROVE  new \in Write \ {RaiseFlag} /\ new.base = text /\ new.kind = "save"
      <4>1. shown[d] = text /\ text \in Text /\ saves[d] \in Nat
        BY <1>1, <1>7 DEF DeviceFits, TypeOK
      <4>2. <<d, saves[d] + 1>> \in Text
        BY <4>1 DEF Text, Stamp
      <4>3. new = [kind |-> "save", text |-> <<d, saves[d] + 1>>, base |-> text]
        BY <3>2, <4>1
      <4>. QED
        BY <4>1, <4>2, <4>3 DEF Write, RaiseFlag
    <3>. QED
      BY <3>1, <3>2 DEF Ends
  <2>. HIDE DEF new
  <2>3. PICK w \in Write : Ends(w) /\ Send(d, <<w>>)
    BY <2>1, <2>2 DEF Ends
  <2>4. queue[d] = <<>> \/ queue[d] = <<RaiseFlag>>
    BY <1>1, <1>7 DEF DeviceFits, QueueFits
  <2>5. queue'[d] = queue[d] \o <<w>> /\ \A e \in Device \ {d} : queue'[e] = queue[e]
    BY <1>1, <2>3 DEF Send, TypeOK
  <2>6. \/ queue[d] = <<>> /\ queue'[d] = <<w>>
        \/ queue[d] = <<RaiseFlag>> /\ queue'[d] = <<RaiseFlag, w>>
    <3>1. <<>> \o <<w>> = <<w>> /\ <<RaiseFlag>> \o <<w>> = <<RaiseFlag, w>>
      BY RaiseGood, PairIsConcat
    <3>. QED
      BY <2>4, <2>5, <3>1
  <2>7. Active(d) /\ Active(d)' /\ here
    BY <1>1, <1>7, <2>6 DEF Active, DeviceFits
  <2>8. QueueFits(d)'
    <3>1. Ends(w)'
      BY <1>5, <2>3
    <3>. QED
      BY <1>3, <2>6, <3>1 DEF QueueFits
  <2>9. FlagFits(d)'
    <3>1. queue[d] = <<>> => flag
      BY <1>1, <1>7 DEF DeviceFits, FlagFits
    <3>2. Head(<<RaiseFlag, w>>) = RaiseFlag
      OBVIOUS
    <3>. QED
      BY <1>2, <1>3, <2>6, <3>1, <3>2 DEF FlagFits, note
  <2>10. DeviceFits(d)'
    BY <1>2, <1>3, <2>7, <2>8, <2>9 DEF DeviceFits, note
  <2>. QED
    BY <1>2, <1>3, <2>5, <2>7, <2>10, QuietStep
<1>. QED
  BY <1>6, <1>7

\* What a device's oldest write is.
LEMMA OldestWrite ==
    ASSUME NEW d \in Device, QueueFits(d), queue[d] # <<>>
    PROVE  \/ /\ Head(queue[d]) = RaiseFlag
              /\ \/ Tail(queue[d]) = <<>>
                 \/ ~Editing(d) /\ \E w \in Write : Ends(w) /\ Tail(queue[d]) = <<w>>
           \/ ~Editing(d) /\ Ends(Head(queue[d])) /\ Tail(queue[d]) = <<>>
<1>1. CASE queue[d] = <<RaiseFlag>>
  BY <1>1
<1>2. ASSUME NEW w \in Write, ~Editing(d), Ends(w), queue[d] = <<w>>
      PROVE  ~Editing(d) /\ Ends(Head(queue[d])) /\ Tail(queue[d]) = <<>>
  <2>1. Head(queue[d]) = w /\ Tail(queue[d]) = <<>>
    BY <1>2
  <2>. QED
    BY <1>2, <2>1
<1>3. ASSUME NEW w \in Write, ~Editing(d), Ends(w), queue[d] = <<RaiseFlag, w>>
      PROVE  Head(queue[d]) = RaiseFlag /\ Tail(queue[d]) = <<w>>
  BY <1>3
<1>. QED
  BY <1>1, <1>2, <1>3 DEF QueueFits

\* While somebody's last write is under way nobody else is active.
LEMMA CommitCalm ==
    ASSUME CalmInv, NEW d \in Device, Commit(d), LockInv'
    PROVE  CalmInv'
<1>. DEFINE w == Head(queue[d])
<1>1. DeviceFits(d) /\ TypeOK /\ queue[d] # <<>> /\ Active(d) /\ here
  BY DEF CalmInv, LockInv, Commit, Active, DeviceFits
<1>2. /\ queue'[d] = Tail(queue[d]) /\ flag' = Raises(w)
      /\ text' = (IF Carries(w) THEN w.text ELSE text) /\ here' = (w.kind # "delete")
  BY <1>1 DEF Commit, TypeOK
<1>3. /\ \A e \in Device \ {d} : queue'[e] = queue[e]
      /\ UNCHANGED <<screen, calls, shown>>
  BY <1>1 DEF Commit, TypeOK
<1>4. \A e \in Device \ {d} : ~Active(e)
  BY <1>1 DEF CalmInv, OneActive
<1>5. \A e \in Device \ {d} : ~Editing(e)' /\ queue'[e] = <<>> /\ ~Active(e)'
  BY <1>3, <1>4 DEF Active, Editing
<1>6. \A e \in Device : (Asking(e)' <=> Asking(e)) /\ (Editing(e)' <=> Editing(e))
  BY <1>3 DEF Asking, Editing
<1>7. \A e \in Device \ {d} : DeviceFits(e)'
  BY <1>3, <1>5, <1>6 DEF CalmInv, DeviceFits, QueueFits, FlagFits
<1>8. OneTest' /\ OneActive'
  BY <1>5, <1>6 DEF CalmInv, OneTest, OneActive
<1>9. DeviceFits(d)' /\ (Active(d)' => flag')
  <2>1. CASE /\ w = RaiseFlag
             /\ \/ Tail(queue[d]) = <<>>
                \/ ~Editing(d) /\ \E x \in Write : Ends(x) /\ Tail(queue[d]) = <<x>>
    <3>1. flag' /\ here' /\ text' = text
      <4>1. w = RaiseFlag /\ w.kind = "flag"
        BY <2>1 DEF RaiseFlag
      <4>2. Raises(w) /\ ~Carries(w)
        BY <4>1, RaiseGood
      <4>. QED
        BY <1>2, <4>1, <4>2
    <3>2. \A x : Ends(x)' <=> Ends(x)
      BY <3>1 DEF Ends
    <3>3. QueueFits(d)'
      BY <1>2, <1>6, <2>1, <3>2 DEF QueueFits
    <3>4. FlagFits(d)'
      BY <3>1 DEF FlagFits
    <3>5. ~Asking(d)'
      BY <1>1, <1>6 DEF DeviceFits
    <3>. QED
      BY <1>1, <1>3, <1>6, <3>1, <3>3, <3>4, <3>5 DEF DeviceFits
  <2>2. CASE ~Editing(d) /\ Tail(queue[d]) = <<>>
    <3>1. ~Active(d)' /\ ~Editing(d)' /\ queue'[d] = <<>>
      BY <1>2, <1>6, <2>2 DEF Active
    <3>. QED
      BY <1>1, <1>3, <3>1 DEF DeviceFits, QueueFits, FlagFits
  <2>. QED
    BY <1>1, <2>1, <2>2, OldestWrite DEF DeviceFits
<1>10. TestTells'
  BY <1>5, <1>9 DEF TestTells
<1>. QED
  BY <1>7, <1>8, <1>9, <1>10 DEF CalmInv

-----------------------------------------------------------------------------
(* The invariant, and what it implies *)

\* The note starts free, with nobody at it.
LEMMA CalmInit == Init => CalmInv
<1>. SUFFICES ASSUME Init PROVE CalmInv
  OBVIOUS
<1>1. LockInv
  BY InitOK
<1>2. \A d \in Device : /\ screen[d] = "home" /\ calls[d] = {} /\ queue[d] = <<>>
                        /\ ~Editing(d) /\ ~Active(d) /\ ~Asking(d)
  BY DEF Init, Editing, Active, Asking
<1>. QED
  BY <1>1, <1>2 DEF CalmInv, DeviceFits, QueueFits, FlagFits, OneTest, OneActive, TestTells

\* No step of the calm system ends the invariant.
LEMMA CalmNextOK == CalmInv /\ [CalmNext]_vars => CalmInv'
<1>. SUFFICES ASSUME CalmInv, [CalmNext]_vars PROVE CalmInv'
  OBVIOUS
<1>1. CalmNext => Next
  BY DEF CalmNext, Next, Opening
<1>2. LockInv'
  BY <1>1, NextOK DEF CalmInv
<1>3. CASE UNCHANGED vars
  <2>1. \A d \in Device : DeviceFits(d)' /\ (Active(d)' <=> Active(d)) /\ (Asking(d)' <=> Asking(d))
    BY <1>3, OthersFit DEF vars, CalmInv
  <2>. QED
    BY <1>2, <1>3, <2>1 DEF vars, note, CalmInv, OneTest, OneActive, TestTells
<1>4. ASSUME NEW d \in Device, Calm /\ Ask(d)
      PROVE  CalmInv'
  BY <1>2, <1>4, AskCalm
<1>5. ASSUME NEW d \in Device, calls[d] = {}, NEW keep \in BOOLEAN, Leave(d, keep)
      PROVE  CalmInv'
  BY <1>2, <1>5, LeaveCalm
<1>6. ASSUME NEW d \in Device, Answer(d) \/ Load(d) \/ Commit(d)
      PROVE  CalmInv'
  BY <1>2, <1>6, AnswerCalm, LoadCalm, CommitCalm
<1>7. ASSUME NEW d \in Device, Crash(d)
      PROVE  CalmInv'
  BY <1>2, <1>7, RestartCalm DEF Crash
<1>. QED
  BY <1>3, <1>4, <1>5, <1>6, <1>7 DEF CalmNext, Closing

\* Spaced tests never let two people edit the note at once.
THEOREM OneEditorHolds == CalmSpec => []OneEditor
<1>1. CalmInv => OneEditor
  BY DEF CalmInv, OneActive, Active, OneEditor
<1>. QED
  BY <1>1, CalmInit, CalmNextOK, PTL DEF CalmSpec

\* A write changes the text only if it is a save made from that text.
LEMMA SaveSeesText ==
    ASSUME CalmInv, CalmNext, NEW d \in Device, queue[d] # <<>>,
           queue'[d] = Tail(queue[d]), text' # text
    PROVE  Head(queue[d]).base = text
<1>1. PICK e \in Device : Commit(e)
  BY DEF CalmNext, Ask, Closing, Leave, Answer, Load, Restart, Crash, note
<1>2. e = d
  BY <1>1 DEF Commit, Active, CalmInv, OneActive
<1>3. Carries(Head(queue[d]))
  BY <1>1, <1>2 DEF Commit, note
<1>4. QueueFits(d) /\ ~(Head(queue[d]) = RaiseFlag)
  BY <1>3, RaiseGood DEF CalmInv, DeviceFits
<1>5. Ends(Head(queue[d]))
  BY <1>4, OldestWrite
<1>. QED
  BY <1>3, <1>5 DEF Ends

\* With spaced tests no save replaces a text its author has not seen.
THEOREM NoEditLostHolds == CalmSpec => NoEditLost
<1>1. CalmInv /\ [CalmNext]_vars =>
        [\A d \in Device :
            queue[d] # <<>> /\ queue'[d] = Tail(queue[d]) /\ text' # text
                => Head(queue[d]).base = text]_vars
  BY SaveSeesText
<1>. QED
  BY <1>1, CalmInit, CalmNextOK, PTL DEF CalmSpec, NoEditLost
=============================================================================
