-------------------------- MODULE ShareNames_proofs --------------------------
(***************************************************************************)
(* The lists of a share as strings, for every set of accounts and notes,   *)
(* whatever names contain one another, and any number of changes.          *)
(*                                                                         *)
(* An entry that is taken for another is the entry of a note, or for an    *)
(* account, with a name like that which was looked for, and was offered:   *)
(* so names that are like none that was offered are found by themselves    *)
(* only.  Besides, what is meant has one mode for a note and an account.   *)
(* The rest is about positions in lists: what Drop, Replace and Append do  *)
(* to an entry that a list has once, or not at all.                        *)
(***************************************************************************)
EXTENDS ShareNames, TLAPS, SequenceTheorems, FiniteSetTheorems

\* The list s does not have e, or has it once.
Never(s, e) == \A k \in DOMAIN s : s[k] # e
Once(s, e)  == \E k \in DOMAIN s : \A j \in DOMAIN s : s[j] = e <=> j = k

-----------------------------------------------------------------------------
(* Positions *)

LEMMA Positions ==
    ASSUME NEW S, NEW s \in Seq(S)
    PROVE  /\ Len(s) \in Nat /\ DOMAIN s = 1 .. Len(s) /\ IsFiniteSet(DOMAIN s)
           /\ \A k \in DOMAIN s : s[k] \in S /\ k \in Nat
<1>1. Len(s) \in Nat /\ DOMAIN s = 1 .. Len(s) /\ \A k \in 1 .. Len(s) : s[k] \in S
  BY LenProperties, ElementOfSeq
<1>2. IsFiniteSet(1 .. Len(s))
  BY <1>1, FS_Interval
<1>. QED
  BY <1>1, <1>2

LEMMA TimesOnce ==
    ASSUME NEW S, NEW s \in Seq(S), NEW e
    PROVE  (Times(s, e) = 0 <=> Never(s, e)) /\ (Times(s, e) = 1 <=> Once(s, e))
<1>. DEFINE P == {k \in DOMAIN s : s[k] = e}
<1>1. IsFiniteSet(P)
  BY Positions, FS_Subset
<1>2. Times(s, e) = Cardinality(P)
  BY DEF Times
<1>3. P = {} <=> Never(s, e)
  BY DEF Never
<1>4. (\E k : P = {k}) <=> Once(s, e)
  <2>1. ASSUME NEW k, P = {k}
        PROVE  Once(s, e)
    <3>1. k \in DOMAIN s /\ \A j \in DOMAIN s : s[j] = e <=> j = k
      BY <2>1
    <3>. QED
      BY <3>1 DEF Once
  <2>2. ASSUME Once(s, e)
        PROVE  \E k : P = {k}
    <3>1. PICK k \in DOMAIN s : \A j \in DOMAIN s : s[j] = e <=> j = k
      BY <2>2 DEF Once
    <3>2. P = {k}
      BY <3>1
    <3>. QED
      BY <3>2
  <2>. QED
    BY <2>1, <2>2
<1>. HIDE DEF P
<1>5. (Cardinality(P) = 0 <=> P = {}) /\ (Cardinality(P) = 1 <=> \E k : P = {k})
  BY <1>1, FS_EmptySet, FS_Singleton
<1>. QED
  BY <1>2, <1>3, <1>4, <1>5

\* Drop keeps each of the other positions once: f[i] becomes position i.
Kept(s, K, n, f) ==
    /\ f \in [1 .. n -> DOMAIN s \ K]
    /\ \A i, j \in 1 .. n : f[i] = f[j] => i = j
    /\ \A k \in DOMAIN s \ K : \E i \in 1 .. n : f[i] = k
    /\ Drop(s, K) = [i \in 1 .. n |-> s[f[i]]]

LEMMA DropWhere ==
    ASSUME NEW S, NEW s \in Seq(S), NEW K
    PROVE  \E n \in Nat : \E f : Kept(s, K, n, f)
<1>. DEFINE kept == DOMAIN s \ K
            UpTo(k) == {j \in kept : j <= k}
            rank == [k \in kept |-> Cardinality(UpTo(k))]
            n == Cardinality(kept)
            f == [i \in 1 .. n |-> CHOOSE k \in kept : Cardinality(UpTo(k)) = i]
<1>1. IsFiniteSet(kept) /\ n \in Nat /\ \A k \in kept : k \in Nat
  BY Positions, FS_Subset, FS_CardinalityType
<1>2. Drop(s, K) = [i \in 1 .. n |-> s[f[i]]]
  BY DEF Drop
<1>. HIDE DEF kept
<1>3. ASSUME NEW k \in kept
      PROVE  IsFiniteSet(UpTo(k)) /\ Cardinality(UpTo(k)) \in 1 .. n
  <2>1. UpTo(k) \in SUBSET kept /\ k \in UpTo(k)
    BY <1>1
  <2>2. IsFiniteSet(UpTo(k)) /\ Cardinality(UpTo(k)) <= n
    BY <1>1, <2>1, FS_Subset
  <2>3. Cardinality(UpTo(k)) \in Nat /\ Cardinality(UpTo(k)) # 0
    BY <2>1, <2>2, FS_CardinalityType, FS_EmptySet
  <2>. QED
    BY <1>1, <2>2, <2>3
<1>4. ASSUME NEW j \in kept, NEW k \in kept, j < k
      PROVE  Cardinality(UpTo(j)) # Cardinality(UpTo(k))
  <2>1. UpTo(j) \in SUBSET UpTo(k) /\ k \in UpTo(k) /\ k \notin UpTo(j)
    BY <1>1, <1>4
  <2>. HIDE DEF UpTo
  <2>. QED
    BY <1>3, <2>1, FS_Subset
<1>. HIDE DEF UpTo
<1>5. \A j, k \in kept : rank[j] = rank[k] => j = k
  BY <1>1, <1>4
<1>6. rank \in Injection(kept, 1 .. n)
  BY <1>3, <1>5 DEF Injection, IsInjective
<1>. HIDE DEF rank
<1>7. rank \in Surjection(kept, 1 .. n)
  <2>1. IsFiniteSet(1 .. n) /\ Cardinality(1 .. n) = n
    BY <1>1, FS_Interval
  <2>. HIDE DEF n
  <2>2. Cardinality(kept) = Cardinality(1 .. n)
    BY <2>1 DEF n
  <2>. QED
    BY <1>6, <2>1, <2>2, FS_Injection
<1>8. \A i \in 1 .. n : \E k \in kept : rank[k] = i
  BY <1>7 DEF Surjection
<1>9. \A k \in kept : rank[k] = Cardinality(UpTo(k)) /\ rank[k] \in 1 .. n
  BY <1>3 DEF rank
<1>10. \A i \in 1 .. n : f[i] \in kept /\ rank[f[i]] = i
  BY <1>8, <1>9
<1>. HIDE DEF f, n
<1>11. \A i, j \in 1 .. n : f[i] = f[j] => i = j
  BY <1>10
<1>12. \A k \in kept : \E i \in 1 .. n : f[i] = k
  BY <1>5, <1>9, <1>10
<1>13. f \in [1 .. n -> kept]
  BY <1>10 DEF f
<1>14. Kept(s, K, n, f)
  BY <1>2, <1>11, <1>12, <1>13 DEF kept, Kept
<1>. QED
  BY <1>1, <1>14

-----------------------------------------------------------------------------
(* What happens to the entries of a list *)

LEMMA DropType ==
    ASSUME NEW S, NEW s \in Seq(S), NEW K
    PROVE  /\ Drop(s, K) \in Seq(S)
           /\ \A i \in DOMAIN Drop(s, K) : \E k \in DOMAIN s \ K : Drop(s, K)[i] = s[k]
<1>. PICK n \in Nat : \E f : Kept(s, K, n, f)
  BY DropWhere
<1>. PICK f : Kept(s, K, n, f)
  OBVIOUS
<1>1. f \in [1 .. n -> DOMAIN s \ K] /\ Drop(s, K) = [i \in 1 .. n |-> s[f[i]]]
  BY DEF Kept
<1>2. \A i \in 1 .. n : f[i] \in DOMAIN s \ K /\ s[f[i]] \in S
  BY <1>1, Positions
<1>3. [i \in 1 .. n |-> s[f[i]]] \in Seq(S)
  BY <1>2, SeqDef
<1>. QED
  BY <1>1, <1>2, <1>3

\* An entry that is not dropped is there as often as before.
LEMMA DropSays ==
    ASSUME NEW S, NEW s \in Seq(S), NEW K, NEW e, \A k \in DOMAIN s : k \in K => s[k] # e
    PROVE  /\ Never(s, e) => Never(Drop(s, K), e)
           /\ Once(s, e) => Once(Drop(s, K), e)
<1>. PICK n \in Nat : \E f : Kept(s, K, n, f)
  BY DropWhere
<1>. PICK f : Kept(s, K, n, f)
  OBVIOUS
<1>1. /\ f \in [1 .. n -> DOMAIN s \ K]
      /\ \A i, j \in 1 .. n : f[i] = f[j] => i = j
      /\ \A k \in DOMAIN s \ K : \E i \in 1 .. n : f[i] = k
      /\ Drop(s, K) = [i \in 1 .. n |-> s[f[i]]]
  BY DEF Kept
<1>. DEFINE t == [i \in 1 .. n |-> s[f[i]]]
<1>2. DOMAIN t = 1 .. n /\ \A i \in 1 .. n : t[i] = s[f[i]] /\ f[i] \in DOMAIN s
  BY <1>1
<1>. HIDE DEF t
<1>3. ASSUME Once(s, e) PROVE Once(t, e)
  <2>1. PICK k \in DOMAIN s : \A j \in DOMAIN s : s[j] = e <=> j = k
    BY <1>3 DEF Once
  <2>2. PICK i \in 1 .. n : f[i] = k
    BY <1>1, <2>1
  <2>3. i \in DOMAIN t /\ \A j \in DOMAIN t : t[j] = e <=> j = i
    BY <1>1, <1>2, <2>1, <2>2
  <2>. QED
    BY <2>3 DEF Once
<1>4. Never(s, e) => Never(t, e)
  BY <1>2 DEF Never
<1>. QED
  BY <1>1, <1>3, <1>4 DEF t

LEMMA DropGone ==
    ASSUME NEW S, NEW s \in Seq(S), NEW K, NEW e, \A k \in DOMAIN s : s[k] = e => k \in K
    PROVE  Never(Drop(s, K), e)
BY DropType DEF Never

LEMMA ReplaceType ==
    ASSUME NEW S, NEW s \in Seq(S), NEW K, NEW x \in S
    PROVE  /\ Replace(s, K, x) \in Seq(S) /\ DOMAIN Replace(s, K, x) = DOMAIN s
           /\ \A i \in DOMAIN s : Replace(s, K, x)[i] = IF i \in First(K) THEN x ELSE s[i]
<1>1. Replace(s, K, x) = [k \in DOMAIN s |-> IF k \in First(K) THEN x ELSE s[k]]
  BY DEF Replace
<1>2. /\ DOMAIN Replace(s, K, x) = DOMAIN s
      /\ \A i \in DOMAIN s : Replace(s, K, x)[i] = IF i \in First(K) THEN x ELSE s[i]
  BY <1>1
<1>3. Len(s) \in Nat /\ DOMAIN s = 1 .. Len(s) /\ \A k \in DOMAIN s : s[k] \in S
  BY Positions
<1>4. Replace(s, K, x) \in [1 .. Len(s) -> S]
  BY <1>1, <1>3
<1>. QED
  BY <1>2, <1>3, <1>4, SeqDef

\* An entry that is not replaced is there as often as before.
LEMMA ReplaceSays ==
    ASSUME NEW S, NEW s \in Seq(S), NEW K, NEW x \in S, NEW e, x # e,
           \A k \in DOMAIN s : k \in K => s[k] # e
    PROVE  /\ Never(s, e) => Never(Replace(s, K, x), e)
           /\ Once(s, e) => Once(Replace(s, K, x), e)
<1>. DEFINE t == Replace(s, K, x)
<1>1. DOMAIN t = DOMAIN s /\ \A i \in DOMAIN s : t[i] = IF i \in First(K) THEN x ELSE s[i]
  BY ReplaceType
<1>. HIDE DEF t
<1>2. \A i \in DOMAIN s : t[i] = e <=> s[i] = e
  BY <1>1 DEF First
<1>3. (Never(s, e) => Never(t, e)) /\ (Once(s, e) => Once(t, e))
  BY <1>1, <1>2 DEF Once, Never
<1>. QED
  BY <1>3 DEF t

\* The only one that is found is replaced.
LEMMA ReplaceMoves ==
    ASSUME NEW S, NEW s \in Seq(S), NEW x \in S, NEW e, x # e, Once(s, e), Never(s, x),
           NEW K, \A k \in DOMAIN s : k \in K <=> s[k] = e, K \subseteq DOMAIN s
    PROVE  Never(Replace(s, K, x), e) /\ Once(Replace(s, K, x), x)
<1>. DEFINE t == Replace(s, K, x)
<1>1. DOMAIN t = DOMAIN s /\ \A i \in DOMAIN s : t[i] = IF i \in First(K) THEN x ELSE s[i]
  BY ReplaceType
<1>. HIDE DEF t
<1>2. PICK k \in DOMAIN s : \A j \in DOMAIN s : s[j] = e <=> j = k
  BY DEF Once
<1>3. k \in Nat /\ K = {k}
  BY <1>2, Positions
<1>4. First(K) = {k}
  BY <1>3 DEF First
<1>5. Never(t, e) /\ Once(t, x)
  BY <1>1, <1>2, <1>4 DEF Never, Once
<1>. QED
  BY <1>5 DEF t

LEMMA AppendType ==
    ASSUME NEW S, NEW s \in Seq(S), NEW x \in S
    PROVE  /\ Append(s, x) \in Seq(S)
           /\ Len(s) + 1 \in DOMAIN Append(s, x) /\ Append(s, x)[Len(s) + 1] = x
           /\ \A k \in DOMAIN s : /\ k \in DOMAIN Append(s, x) /\ Append(s, x)[k] = s[k]
                                  /\ k # Len(s) + 1
           /\ \A k \in DOMAIN Append(s, x) : k \in DOMAIN s \/ k = Len(s) + 1
<1>1. /\ Append(s, x) \in Seq(S) /\ Len(Append(s, x)) = Len(s) + 1
      /\ Append(s, x)[Len(s) + 1] = x
      /\ \A k \in 1 .. Len(s) : Append(s, x)[k] = s[k]
  BY AppendProperties
<1>2. /\ Len(s) \in Nat /\ DOMAIN s = 1 .. Len(s)
      /\ DOMAIN Append(s, x) = 1 .. Len(s) + 1
  BY <1>1, Positions
<1>. QED
  BY <1>1, <1>2

LEMMA AppendSays ==
    ASSUME NEW S, NEW s \in Seq(S), NEW x \in S, NEW e
    PROVE  /\ x # e /\ Never(s, e) => Never(Append(s, x), e)
           /\ x # e /\ Once(s, e) => Once(Append(s, x), e)
           /\ x = e /\ Never(s, e) => Once(Append(s, x), e)
<1>. DEFINE t == Append(s, x)
            n == Len(s) + 1
<1>1. /\ n \in DOMAIN t /\ t[n] = x
      /\ \A k \in DOMAIN s : k \in DOMAIN t /\ t[k] = s[k] /\ k # n
      /\ \A k \in DOMAIN t : k \in DOMAIN s \/ k = n
  BY AppendType
<1>. HIDE DEF t, n
<1>2. x # e /\ Never(s, e) => Never(t, e)
  BY <1>1 DEF Never
<1>3. ASSUME x # e, Once(s, e) PROVE Once(t, e)
  <2>1. PICK k \in DOMAIN s : \A j \in DOMAIN s : s[j] = e <=> j = k
    BY <1>3 DEF Once
  <2>2. k \in DOMAIN t /\ \A j \in DOMAIN t : t[j] = e <=> j = k
    BY <1>1, <1>3, <2>1
  <2>. QED
    BY <2>2 DEF Once
<1>4. ASSUME x = e, Never(s, e) PROVE Once(t, e)
  <2>1. \A j \in DOMAIN t : t[j] = e <=> j = n
    BY <1>1, <1>4 DEF Never
  <2>. QED
    BY <1>1, <2>1 DEF Once
<1>. QED
  BY <1>2, <1>3, <1>4 DEF t

-----------------------------------------------------------------------------
(* The entries for one note and one account: x gives that of each mode, and *)
(* B are the modes of which the list should have one.                       *)
SaysAll(s, x, B) ==
    \A m \in Mode : /\ m \in B => Once(s, x[m])
                    /\ m \notin B => Never(s, x[m])

\* Where in s one of x is.
Found(s, x) == {k \in DOMAIN s : \E m \in Mode : s[k] = x[m]}

LEMMA Modes == \A m \in Mode : Other(m) \in Mode /\ Other(m) # m /\ Other(Other(m)) = m
               /\ \A l \in Mode : l = m \/ l = Other(m)
BY DEF Mode, Other

LEMMA OthersDropped ==
    ASSUME NEW S, NEW s \in Seq(S), NEW x \in [Mode -> S], NEW B, SaysAll(s, x, B),
           NEW K, K \cap Found(s, x) = {}
    PROVE  SaysAll(Drop(s, K), x, B)
<1>. SUFFICES ASSUME NEW m \in Mode
              PROVE  /\ m \in B => Once(Drop(s, K), x[m])
                     /\ m \notin B => Never(Drop(s, K), x[m])
  BY DEF SaysAll
<1>1. (m \in B => Once(s, x[m])) /\ (m \notin B => Never(s, x[m]))
  BY DEF SaysAll
<1>2. \A k \in DOMAIN s : k \in K => s[k] # x[m]
  BY DEF Found
<1>. QED
  BY <1>1, <1>2, DropSays

LEMMA OtherReplaced ==
    ASSUME NEW S, NEW s \in Seq(S), NEW x \in [Mode -> S], NEW B, SaysAll(s, x, B),
           NEW K, K \cap Found(s, x) = {}, NEW y \in S, \A m \in Mode : x[m] # y
    PROVE  SaysAll(Replace(s, K, y), x, B)
<1>. SUFFICES ASSUME NEW m \in Mode
              PROVE  /\ m \in B => Once(Replace(s, K, y), x[m])
                     /\ m \notin B => Never(Replace(s, K, y), x[m])
  BY DEF SaysAll
<1>1. (m \in B => Once(s, x[m])) /\ (m \notin B => Never(s, x[m]))
  BY DEF SaysAll
<1>2. y # x[m] /\ \A k \in DOMAIN s : k \in K => s[k] # x[m]
  BY DEF Found
<1>. QED
  BY <1>1, <1>2, ReplaceSays

LEMMA OtherAppended ==
    ASSUME NEW S, NEW s \in Seq(S), NEW x \in [Mode -> S], NEW B, SaysAll(s, x, B),
           NEW y \in S, \A m \in Mode : x[m] # y
    PROVE  SaysAll(Append(s, y), x, B)
<1>. SUFFICES ASSUME NEW m \in Mode
              PROVE  /\ m \in B => Once(Append(s, y), x[m])
                     /\ m \notin B => Never(Append(s, y), x[m])
  BY DEF SaysAll
<1>1. (m \in B => Once(s, x[m])) /\ (m \notin B => Never(s, x[m]))
  BY DEF SaysAll
<1>2. y # x[m]
  BY DEF Found
<1>. QED
  BY <1>1, <1>2, AppendSays

\* The first entry.
LEMMA OneAppended ==
    ASSUME NEW S, NEW s \in Seq(S), NEW x \in [Mode -> S], \A m \in Mode : x[m] # x[Other(m)],
           SaysAll(s, x, {}), NEW m \in Mode
    PROVE  SaysAll(Append(s, x[m]), x, {m})
<1>1. \A l \in Mode : Never(s, x[l])
  BY DEF SaysAll
<1>2. x[m] \in S
  OBVIOUS
<1>3. Once(Append(s, x[m]), x[m])
  BY <1>1, <1>2, AppendSays
<1>4. ASSUME NEW l \in Mode, l # m
      PROVE  Never(Append(s, x[m]), x[l])
  <2>1. x[m] # x[l]
    BY <1>4, Modes
  <2>. QED
    BY <1>1, <1>2, <2>1, AppendSays
<1>. QED
  BY <1>3, <1>4 DEF SaysAll

\* The one entry gets the other mode.
LEMMA OneReplaced ==
    ASSUME NEW S, NEW s \in Seq(S), NEW x \in [Mode -> S], \A m \in Mode : x[m] # x[Other(m)],
           NEW m \in Mode, SaysAll(s, x, {m}), NEW K, K = Found(s, x)
    PROVE  SaysAll(Replace(s, K, x[Other(m)]), x, {Other(m)})
<1>1. /\ Other(m) \in Mode /\ Other(m) # m /\ \A l \in Mode : l = m \/ l = Other(m)
      /\ x[m] \in S /\ x[Other(m)] \in S
  BY Modes
<1>2. Once(s, x[m]) /\ Never(s, x[Other(m)])
  BY <1>1 DEF SaysAll
<1>3. K \subseteq DOMAIN s /\ \A k \in DOMAIN s : k \in K <=> s[k] = x[m]
  BY <1>1, <1>2 DEF Found, Never
<1>4. /\ Never(Replace(s, K, x[Other(m)]), x[m])
      /\ Once(Replace(s, K, x[Other(m)]), x[Other(m)])
  BY <1>1, <1>2, <1>3, ReplaceMoves
<1>. QED
  BY <1>1, <1>4 DEF SaysAll

\* The one entry is dropped.
LEMMA OneDropped ==
    ASSUME NEW S, NEW s \in Seq(S), NEW x \in [Mode -> S],
           NEW m \in Mode, SaysAll(s, x, {m}), NEW K, \A k \in DOMAIN s : s[k] = x[m] => k \in K
    PROVE  SaysAll(Drop(s, K), x, {})
<1>1. \A l \in Mode : l # m => Never(s, x[l])
  BY DEF SaysAll
<1>2. ASSUME NEW l \in Mode
      PROVE  \A k \in DOMAIN s : s[k] = x[l] => k \in K
  BY <1>1 DEF Never
<1>3. \A l \in Mode : Never(Drop(s, K), x[l])
  BY <1>2, DropGone
<1>. QED
  BY <1>3 DEF SaysAll

\* Of a single entry the first is the only one.
LEMMA FirstIsOne ==
    ASSUME NEW S, NEW s \in Seq(S), NEW x \in [Mode -> S],
           NEW m \in Mode, SaysAll(s, x, {m}), NEW K, K = Found(s, x)
    PROVE  \A k \in DOMAIN s : s[k] = x[m] => k \in First(K)
<1>1. \A l \in Mode : l # m => Never(s, x[l])
  BY DEF SaysAll
<1>2. Once(s, x[m])
  BY DEF SaysAll
<1>3. PICK k \in DOMAIN s : \A j \in DOMAIN s : s[j] = x[m] <=> j = k
  BY <1>2 DEF Once
<1>4. k \in Nat /\ K = {k}
  BY <1>1, <1>3, Positions DEF Found, Never
<1>5. First(K) = {k}
  BY <1>4 DEF First
<1>. QED
  BY <1>3, <1>5

-----------------------------------------------------------------------------
(* Names: s is an account's list, t a note's, O what was offered, G what is *)
(* meant.                                                                   *)
NoteAs(n)      == [m \in Mode |-> [note |-> n, mode |-> m]]
UserAs(u)      == [m \in Mode |-> [user |-> u, mode |-> m]]
Meant(G, n, u) == {m \in Mode : [note |-> n, user |-> u, mode |-> m] \in G}

\* What OnlyOffered and Distinct say of one list, one note, one account.
NotesOffered(s, u, O)  == \A k \in DOMAIN s : [note |-> s[k].note, user |-> u, mode |-> s[k].mode] \in O
PeopleOffered(t, n, O) == \A k \in DOMAIN t : [note |-> n, user |-> t[k].user, mode |-> t[k].mode] \in O
Unlike(n, u, O) ==
    \A g \in O :
        /\ g.user = u /\ g.note # n => ~Alike(n, g.note) /\ ~Alike(g.note, n)
        /\ g.note = n /\ g.user # u => {<<u, g.user>>, <<g.user, u>>} \cap Within = {}

\* The two lists say what is meant.
Apart(s, t, G, n, u) ==
    SaysAll(s, NoteAs(n), Meant(G, n, u)) /\ SaysAll(t, UserAs(u), Meant(G, n, u))

\* One mode for a note and an account.
OneMode(G) == \A g, h \in G : g.note = h.note /\ g.user = h.user => g = h

LEMMA AsTypes ==
    ASSUME NEW n \in Note, NEW u \in Account
    PROVE  /\ NoteAs(n) \in [Mode -> Entry] /\ UserAs(u) \in [Mode -> Person]
           /\ \A m \in Mode : NoteAs(n)[m] # NoteAs(n)[Other(m)] /\ UserAs(u)[m] # UserAs(u)[Other(m)]
<1>1. \A m \in Mode : [note |-> n, mode |-> m] \in Entry /\ [user |-> u, mode |-> m] \in Person
  BY DEF Entry, Person
<1>2. ASSUME NEW m \in Mode
      PROVE  NoteAs(n)[m] # NoteAs(n)[Other(m)] /\ UserAs(u)[m] # UserAs(u)[Other(m)]
  <2>1. Other(m) \in Mode /\ Other(m) # m
    BY Modes
  <2>2. /\ NoteAs(n)[m].mode = m /\ NoteAs(n)[Other(m)].mode = Other(m)
        /\ UserAs(u)[m].mode = m /\ UserAs(u)[Other(m)].mode = Other(m)
    BY <2>1 DEF NoteAs, UserAs
  <2>. QED
    BY <2>1, <2>2
<1>. QED
  BY <1>1, <1>2 DEF NoteAs, UserAs

\* Where the entries for a note, and for an account, are.
LEMMA FoundNote ==
    ASSUME NEW n \in Note, NEW s \in Seq(Entry), NEW k \in DOMAIN s
    PROVE  k \in Found(s, NoteAs(n)) <=> s[k].note = n
<1>1. s[k] \in Entry
  BY Positions
<1>2. s[k].mode \in Mode /\ s[k] = [note |-> s[k].note, mode |-> s[k].mode]
  BY <1>1 DEF Entry
<1>. QED
  BY <1>2 DEF Found, NoteAs

LEMMA FoundUser ==
    ASSUME NEW u \in Account, NEW t \in Seq(Person), NEW k \in DOMAIN t
    PROVE  k \in Found(t, UserAs(u)) <=> t[k].user = u
<1>1. t[k] \in Person
  BY Positions
<1>2. t[k].mode \in Mode /\ t[k] = [user |-> t[k].user, mode |-> t[k].mode]
  BY <1>1 DEF Person
<1>. QED
  BY <1>2 DEF Found, UserAs

\* A note with a name of its own is found by its name only, and its entries by no
\* other that was offered.
LEMMA NoteFound ==
    ASSUME NEW n \in Note, NEW u \in Account, NEW O, Unlike(n, u, O),
           NEW s \in Seq(Entry), NotesOffered(s, u, O)
    PROVE  /\ Held(s, n) = Found(s, NoteAs(n))
           /\ \A o \in Note, m \in Mode : o # n /\ [note |-> o, user |-> u, mode |-> m] \in O
                                            => Held(s, o) \cap Found(s, NoteAs(n)) = {}
<1>1. <<n.owner, n.owner>> \in Ends /\ <<n.id, n.id>> \in Begins
  BY NameAssumption
<1>2. ASSUME NEW k \in DOMAIN s
      PROVE  Holds(s[k], n) <=> s[k].note = n
  <2>1. s[k].note = n => Holds(s[k], n)
    BY <1>1 DEF Holds
  <2>2. s[k].note # n => ~Alike(n, s[k].note)
    BY DEF NotesOffered, Unlike
  <2>. QED
    BY <2>1, <2>2 DEF Holds, Alike
<1>3. Held(s, n) = Found(s, NoteAs(n))
  <2>1. Held(s, n) \subseteq DOMAIN s /\ Found(s, NoteAs(n)) \subseteq DOMAIN s
    BY DEF Held, Found
  <2>2. \A k \in DOMAIN s : k \in Held(s, n) <=> k \in Found(s, NoteAs(n))
    BY <1>2, FoundNote DEF Held
  <2>. QED
    BY <2>1, <2>2
<1>4. ASSUME NEW o \in Note, NEW m \in Mode, o # n, [note |-> o, user |-> u, mode |-> m] \in O,
             NEW k \in Held(s, o)
      PROVE  k \notin Found(s, NoteAs(n))
  <2>1. k \in DOMAIN s /\ Holds(s[k], o)
    BY DEF Held
  <2>2. ~Alike(o, n)
    BY <1>4 DEF Unlike
  <2>3. s[k].note # n
    BY <2>1, <2>2 DEF Holds, Alike
  <2>. QED
    BY <2>1, <2>3, FoundNote
<1>. QED
  BY <1>3, <1>4

LEMMA UserFound ==
    ASSUME NEW n \in Note, NEW u \in Account, NEW O, Unlike(n, u, O),
           NEW t \in Seq(Person), PeopleOffered(t, n, O)
    PROVE  /\ Listed(t, u) = Found(t, UserAs(u))
           /\ \A v \in Account, m \in Mode : v # u /\ [note |-> n, user |-> v, mode |-> m] \in O
                                               => Listed(t, v) \cap Found(t, UserAs(u)) = {}
<1>1. <<u, u>> \in Within
  BY NameAssumption
<1>2. \A k \in DOMAIN t : t[k].user # u => <<u, t[k].user>> \notin Within
  BY DEF PeopleOffered, Unlike
<1>3. Listed(t, u) = Found(t, UserAs(u))
  <2>1. Listed(t, u) \subseteq DOMAIN t /\ Found(t, UserAs(u)) \subseteq DOMAIN t
    BY DEF Listed, Found
  <2>2. \A k \in DOMAIN t : k \in Listed(t, u) <=> k \in Found(t, UserAs(u))
    BY <1>1, <1>2, FoundUser DEF Listed, Lists
  <2>. QED
    BY <2>1, <2>2
<1>4. ASSUME NEW v \in Account, NEW m \in Mode, v # u, [note |-> n, user |-> v, mode |-> m] \in O,
             NEW k \in Listed(t, v)
      PROVE  k \notin Found(t, UserAs(u))
  <2>1. k \in DOMAIN t /\ <<v, t[k].user>> \in Within
    BY DEF Listed, Lists
  <2>2. <<v, u>> \notin Within
    BY <1>4 DEF Unlike
  <2>3. t[k].user # u
    BY <2>1, <2>2
  <2>. QED
    BY <2>1, <2>3, FoundUser
<1>. QED
  BY <1>3, <1>4

\* Who is found with the mode is found without, and a whole entry finds itself.
LEMMA WithMode ==
    /\ \A s \in Seq(Entry), e \in Entry :
          /\ HeldMode(s, e) \subseteq Held(s, e.note)
          /\ \A k \in DOMAIN s : s[k] = e => k \in HeldMode(s, e)
    /\ \A t \in Seq(Person), p \in Person :
          /\ ListedMode(t, p) \subseteq Listed(t, p.user)
          /\ \A k \in DOMAIN t : t[k] = p => k \in ListedMode(t, p)
<1>1. ASSUME NEW s \in Seq(Entry), NEW e \in Entry
      PROVE  /\ HeldMode(s, e) \subseteq Held(s, e.note)
             /\ \A k \in DOMAIN s : s[k] = e => k \in HeldMode(s, e)
  <2>1. e.note \in Note
    BY DEF Entry
  <2>2. <<e.note.id, e.note.id>> \in Begins /\ <<e.note.owner, e.note.owner>> \in Ends
    BY <2>1, NameAssumption
  <2>. QED
    BY <2>2 DEF HeldMode, Held, HoldsMode, Holds
<1>2. ASSUME NEW t \in Seq(Person), NEW p \in Person
      PROVE  /\ ListedMode(t, p) \subseteq Listed(t, p.user)
             /\ \A k \in DOMAIN t : t[k] = p => k \in ListedMode(t, p)
  <2>1. p.user \in Account
    BY DEF Person
  <2>2. <<p.user, p.user>> \in Ends /\ Ends \subseteq Within
    BY <2>1, NameAssumption
  <2>. QED
    BY <2>2 DEF ListedMode, Listed, ListsMode, Lists
<1>. QED
  BY <1>1, <1>2

-----------------------------------------------------------------------------
(* What is meant *)

LEMMA MeantModes ==
    ASSUME NEW G, OneMode(G), NEW n, NEW u
    PROVE  /\ \A m \in Mode : [note |-> n, user |-> u, mode |-> m] \in G => Meant(G, n, u) = {m}
           /\ (\A m \in Mode : [note |-> n, user |-> u, mode |-> m] \notin G) => Meant(G, n, u) = {}
<1>1. ASSUME NEW m \in Mode, [note |-> n, user |-> u, mode |-> m] \in G, NEW l \in Mode
      PROVE  [note |-> n, user |-> u, mode |-> l] \in G <=> l = m
  BY <1>1 DEF OneMode
<1>. QED
  BY <1>1 DEF Meant

LEMMA MeantSame ==
    ASSUME NEW G, NEW H, NEW n, NEW u,
           \A m \in Mode : [note |-> n, user |-> u, mode |-> m] \in G
                           <=> [note |-> n, user |-> u, mode |-> m] \in H
    PROVE  Meant(H, n, u) = Meant(G, n, u)
BY DEF Meant

-----------------------------------------------------------------------------
(* What was offered *)

LEMMA NotesStay ==
    ASSUME NEW O, NEW P, O \subseteq P, NEW u, NEW s \in Seq(Entry), NotesOffered(s, u, O)
    PROVE  /\ NotesOffered(s, u, P)
           /\ \A K : Drop(s, K) \in Seq(Entry) /\ NotesOffered(Drop(s, K), u, P)
           /\ \A y \in Entry : [note |-> y.note, user |-> u, mode |-> y.mode] \in P =>
                 /\ \A K : Replace(s, K, y) \in Seq(Entry) /\ NotesOffered(Replace(s, K, y), u, P)
                 /\ Append(s, y) \in Seq(Entry) /\ NotesOffered(Append(s, y), u, P)
<1>1. \A k \in DOMAIN s : [note |-> s[k].note, user |-> u, mode |-> s[k].mode] \in P
  BY DEF NotesOffered
<1>2. ASSUME NEW K PROVE Drop(s, K) \in Seq(Entry) /\ NotesOffered(Drop(s, K), u, P)
  <2>1. /\ Drop(s, K) \in Seq(Entry)
        /\ \A i \in DOMAIN Drop(s, K) : \E k \in DOMAIN s \ K : Drop(s, K)[i] = s[k]
    BY DropType
  <2>. QED
    BY <1>1, <2>1 DEF NotesOffered
<1>3. ASSUME NEW y \in Entry, [note |-> y.note, user |-> u, mode |-> y.mode] \in P
      PROVE  /\ \A K : Replace(s, K, y) \in Seq(Entry) /\ NotesOffered(Replace(s, K, y), u, P)
             /\ Append(s, y) \in Seq(Entry) /\ NotesOffered(Append(s, y), u, P)
  <2>1. ASSUME NEW K PROVE Replace(s, K, y) \in Seq(Entry) /\ NotesOffered(Replace(s, K, y), u, P)
    <3>1. /\ Replace(s, K, y) \in Seq(Entry) /\ DOMAIN Replace(s, K, y) = DOMAIN s
          /\ \A i \in DOMAIN s : Replace(s, K, y)[i] = IF i \in First(K) THEN y ELSE s[i]
      BY ReplaceType
    <3>. QED
      BY <1>1, <1>3, <3>1 DEF NotesOffered
  <2>2. /\ Append(s, y) \in Seq(Entry) /\ Append(s, y)[Len(s) + 1] = y
        /\ \A k \in DOMAIN s : Append(s, y)[k] = s[k]
        /\ \A k \in DOMAIN Append(s, y) : k \in DOMAIN s \/ k = Len(s) + 1
    BY AppendType
  <2>3. NotesOffered(Append(s, y), u, P)
    BY <1>1, <1>3, <2>2 DEF NotesOffered
  <2>. QED
    BY <2>1, <2>2, <2>3
<1>. QED
  BY <1>1, <1>2, <1>3 DEF NotesOffered

LEMMA PeopleStay ==
    ASSUME NEW O, NEW P, O \subseteq P, NEW n, NEW t \in Seq(Person), PeopleOffered(t, n, O)
    PROVE  /\ PeopleOffered(t, n, P)
           /\ \A K : Drop(t, K) \in Seq(Person) /\ PeopleOffered(Drop(t, K), n, P)
           /\ \A y \in Person : [note |-> n, user |-> y.user, mode |-> y.mode] \in P =>
                 /\ \A K : Replace(t, K, y) \in Seq(Person) /\ PeopleOffered(Replace(t, K, y), n, P)
                 /\ Append(t, y) \in Seq(Person) /\ PeopleOffered(Append(t, y), n, P)
<1>1. \A k \in DOMAIN t : [note |-> n, user |-> t[k].user, mode |-> t[k].mode] \in P
  BY DEF PeopleOffered
<1>2. ASSUME NEW K PROVE Drop(t, K) \in Seq(Person) /\ PeopleOffered(Drop(t, K), n, P)
  <2>1. /\ Drop(t, K) \in Seq(Person)
        /\ \A i \in DOMAIN Drop(t, K) : \E k \in DOMAIN t \ K : Drop(t, K)[i] = t[k]
    BY DropType
  <2>. QED
    BY <1>1, <2>1 DEF PeopleOffered
<1>3. ASSUME NEW y \in Person, [note |-> n, user |-> y.user, mode |-> y.mode] \in P
      PROVE  /\ \A K : Replace(t, K, y) \in Seq(Person) /\ PeopleOffered(Replace(t, K, y), n, P)
             /\ Append(t, y) \in Seq(Person) /\ PeopleOffered(Append(t, y), n, P)
  <2>1. ASSUME NEW K PROVE Replace(t, K, y) \in Seq(Person) /\ PeopleOffered(Replace(t, K, y), n, P)
    <3>1. /\ Replace(t, K, y) \in Seq(Person) /\ DOMAIN Replace(t, K, y) = DOMAIN t
          /\ \A i \in DOMAIN t : Replace(t, K, y)[i] = IF i \in First(K) THEN y ELSE t[i]
      BY ReplaceType
    <3>. QED
      BY <1>1, <1>3, <3>1 DEF PeopleOffered
  <2>2. /\ Append(t, y) \in Seq(Person) /\ Append(t, y)[Len(t) + 1] = y
        /\ \A k \in DOMAIN t : Append(t, y)[k] = t[k]
        /\ \A k \in DOMAIN Append(t, y) : k \in DOMAIN t \/ k = Len(t) + 1
    BY AppendType
  <2>3. PeopleOffered(Append(t, y), n, P)
    BY <1>1, <1>3, <2>2 DEF PeopleOffered
  <2>. QED
    BY <2>1, <2>2, <2>3
<1>. QED
  BY <1>1, <1>2, <1>3 DEF PeopleOffered

LEMMA UnlikeBefore ==
    ASSUME NEW O, NEW P, O \subseteq P, NEW n, NEW u, Unlike(n, u, P)
    PROVE  Unlike(n, u, O)
BY DEF Unlike

LEMMA FoundSays ==
    ASSUME NEW s, NEW x
    PROVE  /\ SaysAll(s, x, {}) => Found(s, x) = {}
           /\ \A m \in Mode : SaysAll(s, x, {m}) => Found(s, x) # {}
<1>1. SaysAll(s, x, {}) => Found(s, x) = {}
  BY DEF SaysAll, Never, Found
<1>2. ASSUME NEW m \in Mode, SaysAll(s, x, {m})
      PROVE  Found(s, x) # {}
  <2>1. Once(s, x[m])
    BY <1>2 DEF SaysAll
  <2>2. PICK k \in DOMAIN s : s[k] = x[m]
    BY <2>1 DEF Once
  <2>. QED
    BY <2>2 DEF Found
<1>. QED
  BY <1>1, <1>2

-----------------------------------------------------------------------------
(* The inductive invariant *)

\* NamesApart, said of the positions, and one mode for each.
Names ==
    /\ OneMode(grants)
    /\ \A n \in Note, u \in Account :
          Unlike(n, u, offered) /\ <<n, u>> \notin left => Apart(notesOf[u], peopleOf[n], grants, n, u)

IInv == TypeOK /\ OnlyOffered /\ Names

\* The first two say of each list:
LEMMA EachList ==
    /\ TypeOK /\ OnlyOffered =>
          /\ \A u \in Account : notesOf[u] \in Seq(Entry) /\ NotesOffered(notesOf[u], u, offered)
          /\ \A n \in Note : peopleOf[n] \in Seq(Person) /\ PeopleOffered(peopleOf[n], n, offered)
    /\ (/\ \A u \in Account : NotesOffered(notesOf[u], u, offered)
        /\ \A n \in Note : PeopleOffered(peopleOf[n], n, offered)) => OnlyOffered
BY DEF TypeOK, OnlyOffered, NotesOffered, PeopleOffered

LEMMA ShareKeeps ==
    ASSUME IInv, NEW o \in Note, NEW v \in Account, NEW m \in Mode, Share(o, v, m), ops' \in Nat
    PROVE  IInv'
<1>. DEFINE e == [note |-> o, mode |-> m]
            p == [user |-> v, mode |-> m]
            g == [note |-> o, user |-> v, mode |-> m]
            known == Held(notesOf[v], o) # {}
            listed == Listed(peopleOf[o], v) # {}
            old == \E h \in grants : h.note = o /\ h.user = v
<1>1. /\ v # o.owner
      /\ notesOf' = IF known THEN notesOf ELSE [notesOf EXCEPT ![v] = Append(@, e)]
      /\ peopleOf' = IF listed THEN peopleOf ELSE [peopleOf EXCEPT ![o] = Append(@, p)]
      /\ grants' = IF old THEN grants ELSE grants \cup {g}
      /\ offered' = offered \cup {g} /\ left' = left
  BY DEF Share, MayShare
<1>2. /\ notesOf \in [Account -> Seq(Entry)] /\ peopleOf \in [Note -> Seq(Person)]
      /\ grants \subseteq Grant /\ offered \subseteq Grant /\ left \subseteq Note \X Account
  BY DEF IInv, TypeOK
<1>3. e \in Entry /\ p \in Person /\ g \in Grant
  BY <1>1 DEF Entry, Person, Grant
<1>4. /\ \A u \in Account : notesOf[u] \in Seq(Entry) /\ NotesOffered(notesOf[u], u, offered)
      /\ \A n \in Note : peopleOf[n] \in Seq(Person) /\ PeopleOffered(peopleOf[n], n, offered)
  BY EachList DEF IInv
<1>5. /\ e.note = o /\ p.user = v /\ offered \subseteq offered'
      /\ [note |-> e.note, user |-> v, mode |-> e.mode] \in offered'
      /\ [note |-> o, user |-> p.user, mode |-> p.mode] \in offered'
  BY <1>1
<1>6. /\ \A u \in Account : notesOf'[u] = IF u = v /\ ~known THEN Append(notesOf[v], e) ELSE notesOf[u]
      /\ \A n \in Note : peopleOf'[n] = IF n = o /\ ~listed THEN Append(peopleOf[o], p) ELSE peopleOf[n]
  BY <1>1, <1>2
<1>. HIDE DEF e, p, known, listed
<1>7. ASSUME NEW u \in Account
      PROVE  notesOf'[u] \in Seq(Entry) /\ NotesOffered(notesOf'[u], u, offered')
  <2>1. /\ notesOf[u] \in Seq(Entry) /\ NotesOffered(notesOf[u], u, offered)
        /\ notesOf'[u] = IF u = v /\ ~known THEN Append(notesOf[v], e) ELSE notesOf[u]
    BY <1>4, <1>6
  <2>2. NotesOffered(notesOf[u], u, offered')
    BY <1>5, <2>1, NotesStay
  <2>3. u = v => Append(notesOf[u], e) \in Seq(Entry) /\ NotesOffered(Append(notesOf[u], e), u, offered')
    BY <1>3, <1>5, <2>1, NotesStay
  <2>. QED
    BY <2>1, <2>2, <2>3
<1>8. ASSUME NEW n \in Note
      PROVE  peopleOf'[n] \in Seq(Person) /\ PeopleOffered(peopleOf'[n], n, offered')
  <2>1. /\ peopleOf[n] \in Seq(Person) /\ PeopleOffered(peopleOf[n], n, offered)
        /\ peopleOf'[n] = IF n = o /\ ~listed THEN Append(peopleOf[o], p) ELSE peopleOf[n]
    BY <1>4, <1>6
  <2>2. PeopleOffered(peopleOf[n], n, offered')
    BY <1>5, <2>1, PeopleStay
  <2>3. n = o => Append(peopleOf[n], p) \in Seq(Person) /\ PeopleOffered(Append(peopleOf[n], p), n, offered')
    BY <1>3, <1>5, <2>1, PeopleStay
  <2>. QED
    BY <2>1, <2>2, <2>3
<1>9. TypeOK'
  <2>1. notesOf' \in [Account -> Seq(Entry)] /\ peopleOf' \in [Note -> Seq(Person)]
    <3>1. DOMAIN notesOf' = Account /\ DOMAIN peopleOf' = Note
      BY <1>1, <1>2
    <3>2. notesOf' = [u \in Account |-> notesOf'[u]] /\ peopleOf' = [n \in Note |-> peopleOf'[n]]
      BY <1>1, <1>2
    <3>. QED
      BY <1>7, <1>8, <3>2
  <2>. QED
    BY <1>1, <1>2, <1>3, <2>1 DEF TypeOK
<1>10. OnlyOffered'
  BY <1>7, <1>8 DEF OnlyOffered, NotesOffered, PeopleOffered
<1>11. OneMode(grants')
  BY <1>1 DEF IInv, Names, OneMode
<1>12. ASSUME NEW n \in Note, NEW u \in Account, Unlike(n, u, offered'), <<n, u>> \notin left'
       PROVE  Apart(notesOf'[u], peopleOf'[n], grants', n, u)
  <2>1. Unlike(n, u, offered) /\ <<n, u>> \notin left
    BY <1>1, <1>5, <1>12, UnlikeBefore
  <2>2. /\ SaysAll(notesOf[u], NoteAs(n), Meant(grants, n, u))
        /\ SaysAll(peopleOf[n], UserAs(u), Meant(grants, n, u))
    BY <2>1 DEF IInv, Names, Apart
  <2>3. /\ NoteAs(n) \in [Mode -> Entry] /\ UserAs(u) \in [Mode -> Person]
        /\ \A l \in Mode : NoteAs(n)[l] # NoteAs(n)[Other(l)] /\ UserAs(u)[l] # UserAs(u)[Other(l)]
    BY AsTypes
  <2>4. CASE n = o /\ u = v
    <3>1. /\ Held(notesOf[v], o) = Found(notesOf[u], NoteAs(n))
          /\ Listed(peopleOf[o], v) = Found(peopleOf[n], UserAs(u))
      BY <1>4, <2>1, <2>4, NoteFound, UserFound
    <3>2. CASE old
      <4>1. PICK l \in Mode : [note |-> o, user |-> v, mode |-> l] \in grants
        <5>1. PICK h \in grants : h.note = o /\ h.user = v
          BY <3>2
        <5>2. h \in Grant
          BY <1>2
        <5>3. h.mode \in Mode /\ h = [note |-> h.note, user |-> h.user, mode |-> h.mode]
          BY <5>2 DEF Grant
        <5>. QED
          BY <5>1, <5>3
      <4>2. Meant(grants, n, u) = {l} /\ grants' = grants
        BY <1>1, <2>4, <3>2, <4>1, MeantModes DEF IInv, Names
      <4>3. known /\ listed
        BY <2>2, <3>1, <4>2, FoundSays DEF known, listed
      <4>. QED
        BY <1>6, <2>2, <4>2, <4>3 DEF Apart
    <3>3. CASE ~old
      <4>1. /\ \A l \in Mode : [note |-> n, user |-> u, mode |-> l] \notin grants
            /\ grants' = grants \cup {g} /\ [note |-> n, user |-> u, mode |-> m] \in grants'
        BY <1>1, <2>4, <3>3
      <4>2. Meant(grants, n, u) = {} /\ Meant(grants', n, u) = {m}
        BY <1>11, <4>1, MeantModes DEF IInv, Names
      <4>3. ~known /\ ~listed
        BY <2>2, <3>1, <4>2, FoundSays DEF known, listed
      <4>4. notesOf'[u] = Append(notesOf[u], NoteAs(n)[m]) /\ peopleOf'[n] = Append(peopleOf[n], UserAs(u)[m])
        BY <1>6, <2>4, <4>3 DEF e, p, NoteAs, UserAs
      <4>5. SaysAll(notesOf[u], NoteAs(n), {}) /\ SaysAll(peopleOf[n], UserAs(u), {})
        BY <2>2, <4>2
      <4>6. SaysAll(Append(notesOf[u], NoteAs(n)[m]), NoteAs(n), {m})
        BY <1>4, <2>3, <4>5, OneAppended
      <4>7. SaysAll(Append(peopleOf[n], UserAs(u)[m]), UserAs(u), {m})
        BY <1>4, <2>3, <4>5, OneAppended
      <4>. QED
        BY <4>2, <4>4, <4>6, <4>7 DEF Apart
    <3>. QED
      BY <3>2, <3>3
  <2>5. CASE n # o \/ u # v
    <3>1. Meant(grants', n, u) = Meant(grants, n, u)
      <4>1. \A l \in Mode : [note |-> n, user |-> u, mode |-> l] # g
        BY <2>5
      <4>2. grants' = grants \/ grants' = grants \cup {g}
        BY <1>1
      <4>. HIDE DEF g
      <4>. QED
        BY <4>1, <4>2, MeantSame
    <3>2. SaysAll(notesOf'[u], NoteAs(n), Meant(grants, n, u))
      <4>1. CASE u = v /\ ~known
        <5>1. \A l \in Mode : NoteAs(n)[l] # e
          BY <2>5, <4>1 DEF NoteAs, e
        <5>2. SaysAll(notesOf[v], NoteAs(n), Meant(grants, n, u))
          BY <2>2, <4>1
        <5>3. SaysAll(Append(notesOf[v], e), NoteAs(n), Meant(grants, n, u))
          BY <1>3, <1>4, <2>3, <5>1, <5>2, OtherAppended
        <5>. QED
          BY <1>6, <4>1, <5>3
      <4>. QED
        BY <1>6, <2>2, <4>1
    <3>3. SaysAll(peopleOf'[n], UserAs(u), Meant(grants, n, u))
      <4>1. CASE n = o /\ ~listed
        <5>1. \A l \in Mode : UserAs(u)[l] # p
          BY <2>5, <4>1 DEF UserAs, p
        <5>2. SaysAll(peopleOf[o], UserAs(u), Meant(grants, n, u))
          BY <2>2, <4>1
        <5>3. SaysAll(Append(peopleOf[o], p), UserAs(u), Meant(grants, n, u))
          BY <1>3, <1>4, <2>3, <5>1, <5>2, OtherAppended
        <5>. QED
          BY <1>6, <4>1, <5>3
      <4>. QED
        BY <1>6, <2>2, <4>1
    <3>. QED
      BY <3>1, <3>2, <3>3 DEF Apart
  <2>. QED
    BY <2>4, <2>5
<1>. QED
  BY <1>9, <1>10, <1>11, <1>12 DEF IInv, Names

\* A row says what is meant.
LEMMA RowMeant ==
    ASSUME NEW t \in Seq(Person), NEW k \in DOMAIN t, NEW n, NEW G, OneMode(G),
           SaysAll(t, UserAs(t[k].user), Meant(G, n, t[k].user))
    PROVE  Meant(G, n, t[k].user) = {t[k].mode}
<1>. DEFINE p == t[k]
<1>1. p \in Person
  BY Positions
<1>2. p.mode \in Mode /\ UserAs(p.user)[p.mode] = p
  BY <1>1 DEF Person, UserAs
<1>3. ~Never(t, UserAs(p.user)[p.mode])
  BY <1>2 DEF Never
<1>4. p.mode \in Meant(G, n, p.user)
  BY <1>2, <1>3 DEF SaysAll
<1>. QED
  BY <1>4, MeantModes DEF Meant

LEMMA GiveUpKeeps ==
    ASSUME IInv, NEW v \in Account, NEW i \in DOMAIN notesOf[v], GiveUp(v, notesOf[v][i]), ops' \in Nat
    PROVE  IInv'
<1>. DEFINE e == notesOf[v][i]
            K == HeldMode(notesOf[v], e)
<1>1. /\ notesOf' = [notesOf EXCEPT ![v] = Drop(@, HeldMode(@, e))]
      /\ grants' = {g \in grants : g.note # e.note \/ g.user # v}
      /\ left' = left \cup {<<e.note, v>>} /\ peopleOf' = peopleOf /\ offered' = offered
  BY DEF GiveUp
<1>2. /\ notesOf \in [Account -> Seq(Entry)] /\ peopleOf \in [Note -> Seq(Person)]
      /\ grants \subseteq Grant /\ offered \subseteq Grant /\ left \subseteq Note \X Account
  BY DEF IInv, TypeOK
<1>3. /\ \A u \in Account : notesOf[u] \in Seq(Entry) /\ NotesOffered(notesOf[u], u, offered)
      /\ \A n \in Note : peopleOf[n] \in Seq(Person) /\ PeopleOffered(peopleOf[n], n, offered)
  BY EachList DEF IInv
<1>4. e \in Entry /\ e.note \in Note /\ e.mode \in Mode
      /\ [note |-> e.note, user |-> v, mode |-> e.mode] \in offered
  <2>1. e \in Entry
    BY <1>3, Positions
  <2>. QED
    BY <1>3, <2>1 DEF Entry, NotesOffered
<1>5. \A u \in Account : notesOf'[u] = IF u = v THEN Drop(notesOf[v], K) ELSE notesOf[u]
  BY <1>1, <1>2
<1>6. K \subseteq Held(notesOf[v], e.note)
  BY <1>3, <1>4, WithMode
<1>. HIDE DEF e, K
<1>7. Drop(notesOf[v], K) \in Seq(Entry) /\ NotesOffered(Drop(notesOf[v], K), v, offered)
  BY <1>3, NotesStay
<1>8. TypeOK'
  <2>1. notesOf' \in [Account -> Seq(Entry)]
    BY <1>1, <1>2, <1>7 DEF K
  <2>. QED
    BY <1>1, <1>2, <1>4, <2>1 DEF TypeOK
<1>9. OnlyOffered'
  <2>1. \A u \in Account : NotesOffered(notesOf'[u], u, offered')
    BY <1>1, <1>3, <1>5, <1>7
  <2>2. \A n \in Note : PeopleOffered(peopleOf'[n], n, offered')
    BY <1>1, <1>3
  <2>. QED
    BY <2>1, <2>2 DEF OnlyOffered, NotesOffered, PeopleOffered
<1>10. OneMode(grants')
  BY <1>1 DEF IInv, Names, OneMode
<1>11. ASSUME NEW n \in Note, NEW u \in Account, Unlike(n, u, offered'), <<n, u>> \notin left'
       PROVE  Apart(notesOf'[u], peopleOf'[n], grants', n, u)
  <2>1. Unlike(n, u, offered) /\ <<n, u>> \notin left /\ (n # e.note \/ u # v)
    BY <1>1, <1>11
  <2>2. /\ SaysAll(notesOf[u], NoteAs(n), Meant(grants, n, u))
        /\ SaysAll(peopleOf[n], UserAs(u), Meant(grants, n, u))
    BY <2>1 DEF IInv, Names, Apart
  <2>3. Meant(grants', n, u) = Meant(grants, n, u)
    BY <1>1, <2>1, MeantSame
  <2>4. SaysAll(notesOf'[u], NoteAs(n), Meant(grants, n, u))
    <3>1. CASE u = v
      <4>1. Held(notesOf[v], e.note) \cap Found(notesOf[v], NoteAs(n)) = {}
        BY <1>3, <1>4, <2>1, <3>1, NoteFound
      <4>2. K \cap Found(notesOf[v], NoteAs(n)) = {}
        BY <1>6, <4>1
      <4>3. SaysAll(Drop(notesOf[v], K), NoteAs(n), Meant(grants, n, u))
        BY <1>3, <2>2, <3>1, <4>2, AsTypes, OthersDropped
      <4>. QED
        BY <1>5, <3>1, <4>3
    <3>. QED
      BY <1>5, <2>2, <3>1
  <2>. QED
    BY <1>1, <2>2, <2>3, <2>4 DEF Apart
<1>. QED
  BY <1>8, <1>9, <1>10, <1>11 DEF IInv, Names

\* What the owner does from the row i.
LEMMA DeleteRowKeeps ==
    ASSUME IInv, NEW o \in Note, NEW i \in DOMAIN peopleOf[o], DeleteRow(o, peopleOf[o][i]), ops' \in Nat
    PROVE  IInv'
<1>. DEFINE p == peopleOf[o][i]
            v == p.user
            e == [note |-> o, mode |-> p.mode]
            K == HeldMode(notesOf[v], e)
            L == ListedMode(peopleOf[o], p)
<1>1. /\ notesOf' = [notesOf EXCEPT ![p.user] = Drop(@, HeldMode(@, e))]
      /\ peopleOf' = [peopleOf EXCEPT ![o] = Drop(@, ListedMode(@, p))]
      /\ grants' = {g \in grants : g.note # o \/ g.user # p.user}
      /\ offered' = offered /\ left' = left
  BY DEF DeleteRow
<1>2. /\ notesOf \in [Account -> Seq(Entry)] /\ peopleOf \in [Note -> Seq(Person)]
      /\ grants \subseteq Grant /\ offered \subseteq Grant /\ left \subseteq Note \X Account
  BY DEF IInv, TypeOK
<1>3. /\ \A u \in Account : notesOf[u] \in Seq(Entry) /\ NotesOffered(notesOf[u], u, offered)
      /\ \A n \in Note : peopleOf[n] \in Seq(Person) /\ PeopleOffered(peopleOf[n], n, offered)
  BY EachList DEF IInv
<1>4. p \in Person /\ [note |-> o, user |-> p.user, mode |-> p.mode] \in offered
  BY <1>3, Positions DEF PeopleOffered
<1>5. v \in Account /\ p.mode \in Mode /\ e \in Entry /\ e.note = o
  BY <1>4 DEF Person, Entry
<1>6. /\ \A u \in Account : notesOf'[u] = IF u = v THEN Drop(notesOf[v], K) ELSE notesOf[u]
      /\ \A n \in Note : peopleOf'[n] = IF n = o THEN Drop(peopleOf[o], L) ELSE peopleOf[n]
  BY <1>1, <1>2, <1>5
<1>7. /\ K \subseteq Held(notesOf[v], o) /\ \A k \in DOMAIN notesOf[v] : notesOf[v][k] = e => k \in K
      /\ L \subseteq Listed(peopleOf[o], v) /\ \A k \in DOMAIN peopleOf[o] : peopleOf[o][k] = p => k \in L
  <2>. HIDE DEF e, p
  <2>. QED
    BY <1>3, <1>4, <1>5, WithMode
<1>8. [note |-> o, user |-> v, mode |-> p.mode] \in offered
  BY <1>4
<1>9. peopleOf[o][i] = p /\ p.user = v
  OBVIOUS
<1>. HIDE DEF e, p, v, K, L
<1>10. /\ Drop(notesOf[v], K) \in Seq(Entry) /\ NotesOffered(Drop(notesOf[v], K), v, offered)
       /\ Drop(peopleOf[o], L) \in Seq(Person) /\ PeopleOffered(Drop(peopleOf[o], L), o, offered)
  BY <1>3, <1>5, NotesStay, PeopleStay
<1>11. TypeOK'
  <2>1. notesOf' \in [Account -> Seq(Entry)] /\ peopleOf' \in [Note -> Seq(Person)]
    BY <1>1, <1>2, <1>10 DEF K, L, v
  <2>. QED
    BY <1>1, <1>2, <2>1 DEF TypeOK
<1>12. OnlyOffered'
  <2>1. \A u \in Account : NotesOffered(notesOf'[u], u, offered')
    BY <1>1, <1>3, <1>6, <1>10
  <2>2. \A n \in Note : PeopleOffered(peopleOf'[n], n, offered')
    BY <1>1, <1>3, <1>6, <1>10
  <2>. QED
    BY <2>1, <2>2 DEF OnlyOffered, NotesOffered, PeopleOffered
<1>13. OneMode(grants')
  BY <1>1 DEF IInv, Names, OneMode
<1>14. ASSUME NEW n \in Note, NEW u \in Account, Unlike(n, u, offered'), <<n, u>> \notin left'
       PROVE  Apart(notesOf'[u], peopleOf'[n], grants', n, u)
  <2>1. Unlike(n, u, offered) /\ <<n, u>> \notin left
    BY <1>1, <1>14
  <2>2. /\ SaysAll(notesOf[u], NoteAs(n), Meant(grants, n, u))
        /\ SaysAll(peopleOf[n], UserAs(u), Meant(grants, n, u))
    BY <2>1 DEF IInv, Names, Apart
  <2>3. NoteAs(n) \in [Mode -> Entry] /\ UserAs(u) \in [Mode -> Person]
    BY AsTypes
  <2>4. CASE n = o /\ u = v
    <3>1. Meant(grants, n, u) = {p.mode}
      BY <1>3, <1>9, <2>2, <2>4, RowMeant DEF IInv, Names
    <3>2. Meant(grants', n, u) = {}
      BY <1>1, <1>9, <2>4 DEF Meant
    <3>3. NoteAs(n)[p.mode] = e /\ UserAs(u)[p.mode] = p
      BY <1>4, <1>5, <1>9, <2>4 DEF NoteAs, UserAs, Person, e
    <3>4. SaysAll(Drop(notesOf[v], K), NoteAs(n), {})
      BY <1>3, <1>5, <1>7, <2>2, <2>3, <2>4, <3>1, <3>3, OneDropped
    <3>5. SaysAll(Drop(peopleOf[o], L), UserAs(u), {})
      BY <1>3, <1>5, <1>7, <2>2, <2>3, <2>4, <3>1, <3>3, OneDropped
    <3>. QED
      BY <1>6, <2>4, <3>2, <3>4, <3>5 DEF Apart
  <2>5. CASE n # o \/ u # v
    <3>1. Meant(grants', n, u) = Meant(grants, n, u)
      BY <1>1, <1>9, <2>5, MeantSame
    <3>2. SaysAll(notesOf'[u], NoteAs(n), Meant(grants, n, u))
      <4>1. CASE u = v
        <5>1. Held(notesOf[v], o) \cap Found(notesOf[v], NoteAs(n)) = {}
          BY <1>3, <1>5, <1>8, <2>1, <2>5, <4>1, NoteFound
        <5>2. K \cap Found(notesOf[v], NoteAs(n)) = {}
          BY <1>7, <5>1
        <5>3. SaysAll(Drop(notesOf[v], K), NoteAs(n), Meant(grants, n, u))
          BY <1>3, <2>2, <2>3, <4>1, <5>2, OthersDropped
        <5>. QED
          BY <1>6, <4>1, <5>3
      <4>. QED
        BY <1>6, <2>2, <4>1
    <3>3. SaysAll(peopleOf'[n], UserAs(u), Meant(grants, n, u))
      <4>1. CASE n = o
        <5>1. Listed(peopleOf[o], v) \cap Found(peopleOf[o], UserAs(u)) = {}
          BY <1>3, <1>5, <1>8, <2>1, <2>5, <4>1, UserFound
        <5>2. L \cap Found(peopleOf[o], UserAs(u)) = {}
          BY <1>7, <5>1
        <5>3. SaysAll(Drop(peopleOf[o], L), UserAs(u), Meant(grants, n, u))
          BY <1>3, <2>2, <2>3, <4>1, <5>2, OthersDropped
        <5>. QED
          BY <1>6, <4>1, <5>3
      <4>. QED
        BY <1>6, <2>2, <4>1
    <3>. QED
      BY <3>1, <3>2, <3>3 DEF Apart
  <2>. QED
    BY <2>4, <2>5
<1>. QED
  BY <1>11, <1>12, <1>13, <1>14 DEF IInv, Names

LEMMA ChangeModeKeeps ==
    ASSUME IInv, NEW o \in Note, NEW i \in DOMAIN peopleOf[o], ChangeMode(o, peopleOf[o][i]), ops' \in Nat
    PROVE  IInv'
<1>. DEFINE p == peopleOf[o][i]
            v == p.user
            m == Other(p.mode)
            q == [p EXCEPT !.mode = Other(@)]
            e == [note |-> o, mode |-> Other(p.mode)]
            g == [note |-> o, user |-> p.user, mode |-> q.mode]
            K == Held(notesOf[v], o)
            L == Listed(peopleOf[o], v)
<1>1. /\ notesOf' = [notesOf EXCEPT ![p.user] = Replace(@, Held(@, o), e)]
      /\ peopleOf' = [peopleOf EXCEPT ![o] = Replace(@, Listed(@, p.user), q)]
      /\ grants' = {h \in grants : h.note # o \/ h.user # p.user} \cup {g}
      /\ offered' = offered \cup {g} /\ left' = left
  BY DEF ChangeMode, ChangeNote
<1>2. /\ notesOf \in [Account -> Seq(Entry)] /\ peopleOf \in [Note -> Seq(Person)]
      /\ grants \subseteq Grant /\ offered \subseteq Grant /\ left \subseteq Note \X Account
  BY DEF IInv, TypeOK
<1>3. /\ \A u \in Account : notesOf[u] \in Seq(Entry) /\ NotesOffered(notesOf[u], u, offered)
      /\ \A n \in Note : peopleOf[n] \in Seq(Person) /\ PeopleOffered(peopleOf[n], n, offered)
  BY EachList DEF IInv
<1>4. p \in Person /\ [note |-> o, user |-> p.user, mode |-> p.mode] \in offered
  <2>1. p \in Person
    BY <1>3, Positions
  <2>. QED
    BY <1>3, <2>1 DEF PeopleOffered
<1>5. v \in Account /\ p.mode \in Mode /\ m \in Mode /\ q = [user |-> v, mode |-> m] /\ q.mode = m
  BY <1>4, Modes DEF Person
<1>6. e \in Entry /\ q \in Person /\ g \in Grant
  <2>1. [note |-> o, user |-> p.user, mode |-> p.mode] \in Grant
    BY <1>2, <1>4
  <2>2. p.user # o.owner
    BY <2>1 DEF Grant
  <2>. HIDE DEF p
  <2>. QED
    BY <1>5, <2>2 DEF Entry, Person, Grant
<1>7. /\ e = [note |-> o, mode |-> m] /\ e.note = o /\ e.mode = m /\ q.user = v
      /\ g = [note |-> o, user |-> v, mode |-> m]
      /\ g \in offered' /\ offered \subseteq offered'
  BY <1>1, <1>5
<1>8. [note |-> o, user |-> v, mode |-> p.mode] \in offered /\ peopleOf[o][i] = p /\ p.user = v
  BY <1>4
<1>9. /\ \A u \in Account : notesOf'[u] = IF u = v THEN Replace(notesOf[v], K, e) ELSE notesOf[u]
      /\ \A n \in Note : peopleOf'[n] = IF n = o THEN Replace(peopleOf[o], L, q) ELSE peopleOf[n]
  BY <1>1, <1>2, <1>5
<1>10. m = Other(p.mode)
  OBVIOUS
<1>. HIDE DEF e, p, q, v, g, m, K, L
<1>11. /\ Replace(notesOf[v], K, e) \in Seq(Entry)
       /\ NotesOffered(Replace(notesOf[v], K, e), v, offered')
  <2>1. /\ notesOf[v] \in Seq(Entry) /\ NotesOffered(notesOf[v], v, offered)
        /\ e \in Entry /\ [note |-> e.note, user |-> v, mode |-> e.mode] \in offered'
    BY <1>3, <1>5, <1>6, <1>7
  <2>2. \A y \in Entry : [note |-> y.note, user |-> v, mode |-> y.mode] \in offered' =>
           \A J : /\ Replace(notesOf[v], J, y) \in Seq(Entry)
                  /\ NotesOffered(Replace(notesOf[v], J, y), v, offered')
    BY <1>7, <2>1, NotesStay
  <2>. QED
    BY <2>1, <2>2
<1>12. /\ Replace(peopleOf[o], L, q) \in Seq(Person)
       /\ PeopleOffered(Replace(peopleOf[o], L, q), o, offered')
  <2>1. /\ peopleOf[o] \in Seq(Person) /\ PeopleOffered(peopleOf[o], o, offered)
        /\ q \in Person /\ [note |-> o, user |-> q.user, mode |-> q.mode] \in offered'
    BY <1>3, <1>5, <1>6, <1>7
  <2>2. \A y \in Person : [note |-> o, user |-> y.user, mode |-> y.mode] \in offered' =>
           \A J : /\ Replace(peopleOf[o], J, y) \in Seq(Person)
                  /\ PeopleOffered(Replace(peopleOf[o], J, y), o, offered')
    BY <1>7, <2>1, PeopleStay
  <2>. QED
    BY <2>1, <2>2
<1>13. TypeOK'
  <2>1. notesOf' \in [Account -> Seq(Entry)] /\ peopleOf' \in [Note -> Seq(Person)]
    BY <1>1, <1>2, <1>11, <1>12 DEF K, L, v
  <2>. QED
    BY <1>1, <1>2, <1>6, <2>1 DEF TypeOK
<1>14. OnlyOffered'
  <2>1. \A u \in Account : NotesOffered(notesOf[u], u, offered')
    BY <1>3, <1>7, NotesStay
  <2>2. \A n \in Note : PeopleOffered(peopleOf[n], n, offered')
    BY <1>3, <1>7, PeopleStay
  <2>3. \A u \in Account : NotesOffered(notesOf'[u], u, offered')
    BY <1>9, <1>11, <2>1
  <2>4. \A n \in Note : PeopleOffered(peopleOf'[n], n, offered')
    BY <1>9, <1>12, <2>2
  <2>. QED
    BY <2>3, <2>4 DEF OnlyOffered, NotesOffered, PeopleOffered
<1>15. OneMode(grants')
  BY <1>1, <1>7, <1>8 DEF IInv, Names, OneMode
<1>16. ASSUME NEW n \in Note, NEW u \in Account, Unlike(n, u, offered'), <<n, u>> \notin left'
       PROVE  Apart(notesOf'[u], peopleOf'[n], grants', n, u)
  <2>1. Unlike(n, u, offered) /\ <<n, u>> \notin left
    BY <1>1, <1>7, <1>16, UnlikeBefore
  <2>2. /\ SaysAll(notesOf[u], NoteAs(n), Meant(grants, n, u))
        /\ SaysAll(peopleOf[n], UserAs(u), Meant(grants, n, u))
    BY <2>1 DEF IInv, Names, Apart
  <2>3. /\ NoteAs(n) \in [Mode -> Entry] /\ UserAs(u) \in [Mode -> Person]
        /\ \A l \in Mode : NoteAs(n)[l] # NoteAs(n)[Other(l)] /\ UserAs(u)[l] # UserAs(u)[Other(l)]
    BY AsTypes
  <2>4. CASE n = o /\ u = v
    <3>1. Meant(grants, n, u) = {p.mode}
      BY <1>3, <1>8, <2>2, <2>4, RowMeant DEF IInv, Names
    <3>2. Meant(grants', n, u) = {m}
      <4>1. [note |-> n, user |-> u, mode |-> m] \in grants'
        BY <1>1, <1>7, <2>4
      <4>. QED
        BY <1>5, <1>15, <4>1, MeantModes
    <3>3. NoteAs(n)[Other(p.mode)] = e /\ UserAs(u)[Other(p.mode)] = q
      BY <1>5, <1>7, <1>10, <2>4 DEF NoteAs, UserAs
    <3>4. K = Found(notesOf[v], NoteAs(n)) /\ L = Found(peopleOf[o], UserAs(u))
      BY <1>3, <1>5, <2>1, <2>4, NoteFound, UserFound DEF K, L
    <3>5. SaysAll(Replace(notesOf[v], K, e), NoteAs(n), {m})
      <4>1. SaysAll(notesOf[v], NoteAs(n), {p.mode}) /\ notesOf[v] \in Seq(Entry)
        BY <1>3, <1>5, <2>2, <2>4, <3>1
      <4>2. SaysAll(Replace(notesOf[v], K, NoteAs(n)[Other(p.mode)]), NoteAs(n), {Other(p.mode)})
        BY <1>5, <2>3, <3>4, <4>1, OneReplaced
      <4>. QED
        BY <1>10, <3>3, <4>2
    <3>6. SaysAll(Replace(peopleOf[o], L, q), UserAs(u), {m})
      <4>1. SaysAll(peopleOf[o], UserAs(u), {p.mode}) /\ peopleOf[o] \in Seq(Person)
        BY <1>3, <2>2, <2>4, <3>1
      <4>2. SaysAll(Replace(peopleOf[o], L, UserAs(u)[Other(p.mode)]), UserAs(u), {Other(p.mode)})
        BY <1>5, <2>3, <3>4, <4>1, OneReplaced
      <4>. QED
        BY <1>10, <3>3, <4>2
    <3>. QED
      BY <1>9, <2>4, <3>2, <3>5, <3>6 DEF Apart
  <2>5. CASE n # o \/ u # v
    <3>1. Meant(grants', n, u) = Meant(grants, n, u)
      BY <1>1, <1>7, <1>8, <2>5, MeantSame
    <3>2. SaysAll(notesOf'[u], NoteAs(n), Meant(grants, n, u))
      <4>1. CASE u = v
        <5>1. K \cap Found(notesOf[v], NoteAs(n)) = {}
          BY <1>3, <1>5, <1>8, <2>1, <2>5, <4>1, NoteFound DEF K
        <5>2. \A l \in Mode : NoteAs(n)[l] # e
          BY <1>7, <2>5, <4>1 DEF NoteAs
        <5>3. SaysAll(Replace(notesOf[v], K, e), NoteAs(n), Meant(grants, n, u))
          BY <1>3, <1>6, <2>2, <2>3, <4>1, <5>1, <5>2, OtherReplaced
        <5>. QED
          BY <1>9, <4>1, <5>3
      <4>. QED
        BY <1>9, <2>2, <4>1
    <3>3. SaysAll(peopleOf'[n], UserAs(u), Meant(grants, n, u))
      <4>1. CASE n = o
        <5>1. L \cap Found(peopleOf[o], UserAs(u)) = {}
          BY <1>3, <1>5, <1>8, <2>1, <2>5, <4>1, UserFound DEF L
        <5>2. \A l \in Mode : UserAs(u)[l] # q
          BY <1>7, <2>5, <4>1 DEF UserAs
        <5>3. SaysAll(Replace(peopleOf[o], L, q), UserAs(u), Meant(grants, n, u))
          BY <1>3, <1>6, <2>2, <2>3, <4>1, <5>1, <5>2, OtherReplaced
        <5>. QED
          BY <1>9, <4>1, <5>3
      <4>. QED
        BY <1>9, <2>2, <4>1
    <3>. QED
      BY <3>1, <3>2, <3>3 DEF Apart
  <2>. QED
    BY <2>4, <2>5
<1>. QED
  BY <1>13, <1>14, <1>15, <1>16 DEF IInv, Names

\* The modes of which a list has the entry of a note: what StopShare asks.
ModesHeld(s, n) == {m \in Mode : \E k \in DOMAIN s : s[k] = [note |-> n, mode |-> m]}

LEMMA DroppedHow ==
    ASSUME NEW s, NEW n, NEW t \in Dropped(s, n)
    PROVE  \/ ModesHeld(s, n) = {} /\ t = s
           \/ ModesHeld(s, n) # {} /\ t = Drop(s, First(Held(s, n)))
           \/ /\ ModesHeld(s, n) = Mode
              /\ \E r : r = Drop(s, First(Held(s, n))) /\ t = Drop(r, First(Held(r, n)))
<1>. DEFINE Less(r) == Drop(r, First(Held(r, n)))
            Has(r) == ModesHeld(r, n)
<1>1. Dropped(s, n) = CASE Has(s) = {} -> {s}
                        [] Has(s) = Mode -> {Less(s)} \cup {Less(Less(s)) : m \in Has(Less(s))}
                        [] OTHER -> {Less(s)}
  BY DEF Dropped, ModesHeld
<1>2. Mode # {}
  BY DEF Mode
<1>. HIDE DEF Less, Has
<1>3. \/ Has(s) = {} /\ t = s
      \/ Has(s) # {} /\ t = Less(s)
      \/ Has(s) = Mode /\ t = Less(Less(s))
  BY <1>1, <1>2
<1>. QED
  BY <1>3 DEF Less, Has

LEMMA StopShareKeeps ==
    ASSUME IInv, NEW o \in Note, StopShare(o), ops' \in Nat
    PROVE  IInv'
<1>1. /\ notesOf' \in [Account -> UNION {Dropped(notesOf[u], o) : u \in Account}]
      /\ \A u \in Account : notesOf'[u] \in Dropped(notesOf[u], o)
      /\ peopleOf' = [peopleOf EXCEPT ![o] = <<>>]
      /\ grants' = {g \in grants : g.note # o}
      /\ offered' = offered /\ left' = left
  BY DEF StopShare
<1>2. /\ notesOf \in [Account -> Seq(Entry)] /\ peopleOf \in [Note -> Seq(Person)]
      /\ grants \subseteq Grant /\ offered \subseteq Grant /\ left \subseteq Note \X Account
  BY DEF IInv, TypeOK
<1>3. /\ \A u \in Account : notesOf[u] \in Seq(Entry) /\ NotesOffered(notesOf[u], u, offered)
      /\ \A n \in Note : peopleOf[n] \in Seq(Person) /\ PeopleOffered(peopleOf[n], n, offered)
  BY EachList DEF IInv
<1>4. \A n \in Note : peopleOf'[n] = IF n = o THEN <<>> ELSE peopleOf[n]
  BY <1>1, <1>2
<1>5. ASSUME NEW u \in Account
      PROVE  notesOf'[u] \in Seq(Entry) /\ NotesOffered(notesOf'[u], u, offered)
  <2>. DEFINE s == notesOf[u]
              r == Drop(s, First(Held(s, o)))
  <2>1. notesOf'[u] \in Dropped(s, o)
    BY <1>1
  <2>2. s \in Seq(Entry) /\ NotesOffered(s, u, offered)
    BY <1>3
  <2>. HIDE DEF s
  <2>3. r \in Seq(Entry) /\ NotesOffered(r, u, offered)
    BY <2>2, NotesStay
  <2>4. notesOf'[u] = s \/ notesOf'[u] = r \/ notesOf'[u] = Drop(r, First(Held(r, o)))
    BY <2>1, DroppedHow
  <2>. HIDE DEF r
  <2>5. /\ Drop(r, First(Held(r, o))) \in Seq(Entry)
        /\ NotesOffered(Drop(r, First(Held(r, o))), u, offered)
    BY <2>3, NotesStay
  <2>. QED
    BY <2>2, <2>3, <2>4, <2>5
<1>6. <<>> \in Seq(Person) /\ PeopleOffered(<<>>, o, offered) /\ \A x : SaysAll(<<>>, x, {})
  <2>1. <<>> \in Seq(Person) /\ DOMAIN <<>> = {}
    BY EmptySeq
  <2>. QED
    BY <2>1 DEF PeopleOffered, SaysAll, Never
<1>7. TypeOK'
  <2>1. notesOf' \in [Account -> Seq(Entry)]
    BY <1>1, <1>5
  <2>2. peopleOf' \in [Note -> Seq(Person)]
    BY <1>1, <1>2, <1>6
  <2>. QED
    BY <1>1, <1>2, <2>1, <2>2 DEF TypeOK
<1>8. OnlyOffered'
  <2>1. \A u \in Account : NotesOffered(notesOf'[u], u, offered')
    BY <1>1, <1>5
  <2>2. \A n \in Note : PeopleOffered(peopleOf'[n], n, offered')
    BY <1>1, <1>3, <1>4, <1>6
  <2>. QED
    BY <2>1, <2>2 DEF OnlyOffered, NotesOffered, PeopleOffered
<1>9. OneMode(grants')
  BY <1>1 DEF IInv, Names, OneMode
<1>10. ASSUME NEW n \in Note, NEW u \in Account, Unlike(n, u, offered'), <<n, u>> \notin left'
       PROVE  Apart(notesOf'[u], peopleOf'[n], grants', n, u)
  <2>. DEFINE s == notesOf[u]
              t == notesOf'[u]
              r == Drop(s, First(Held(s, o)))
              M == Meant(grants, n, u)
  <2>1. Unlike(n, u, offered) /\ <<n, u>> \notin left
    BY <1>1, <1>10
  <2>2. SaysAll(s, NoteAs(n), M) /\ SaysAll(peopleOf[n], UserAs(u), M)
    BY <2>1 DEF IInv, Names, Apart
  <2>3. NoteAs(n) \in [Mode -> Entry] /\ UserAs(u) \in [Mode -> Person]
    BY AsTypes
  <2>4. s \in Seq(Entry) /\ NotesOffered(s, u, offered) /\ t \in Dropped(s, o)
    BY <1>1, <1>3
  <2>. HIDE DEF s, t
  <2>5. \/ ModesHeld(s, o) = {} /\ t = s
        \/ ModesHeld(s, o) # {} /\ t = r
        \/ ModesHeld(s, o) = Mode /\ t = Drop(r, First(Held(r, o)))
    BY <2>4, DroppedHow
  <2>6. CASE n = o
    <3>1. Meant(grants', n, u) = {}
      BY <1>1, <2>6 DEF Meant
    <3>2. SaysAll(peopleOf'[n], UserAs(u), {})
      BY <1>4, <1>6, <2>6
    <3>3. Held(s, o) = Found(s, NoteAs(n))
      BY <2>1, <2>4, <2>6, NoteFound
    <3>4. ModesHeld(s, o) = {m \in Mode : \E k \in DOMAIN s : s[k] = NoteAs(n)[m]}
      BY <2>6 DEF ModesHeld, NoteAs
    <3>5. SaysAll(t, NoteAs(n), {})
      <4>1. CASE M = {}
        <5>1. ModesHeld(s, o) = {}
          BY <2>2, <3>4, <4>1 DEF SaysAll, Never
        <5>2. Mode # {}
          BY DEF Mode
        <5>. QED
          BY <2>2, <2>5, <4>1, <5>1, <5>2
      <4>2. CASE M # {}
        <5>1. PICK m \in Mode : m \in M
          BY <4>2 DEF Meant
        <5>2. M = {m}
          BY <5>1, MeantModes DEF Meant, IInv, Names
        <5>3. SaysAll(s, NoteAs(n), {m})
          BY <2>2, <5>2
        <5>4. Once(s, NoteAs(n)[m]) /\ Never(s, NoteAs(n)[Other(m)]) /\ Other(m) \in Mode
          BY <5>3, Modes DEF SaysAll
        <5>5. m \in ModesHeld(s, o) /\ Other(m) \notin ModesHeld(s, o)
          BY <3>4, <5>4 DEF Once, Never
        <5>6. t = r
          BY <2>5, <5>4, <5>5
        <5>7. \A k \in DOMAIN s : s[k] = NoteAs(n)[m] => k \in First(Held(s, o))
          BY <2>3, <2>4, <3>3, <5>3, FirstIsOne
        <5>8. SaysAll(r, NoteAs(n), {})
          BY <2>3, <2>4, <5>3, <5>7, OneDropped
        <5>. QED
          BY <5>6, <5>8
      <4>. QED
        BY <4>1, <4>2
    <3>. QED
      BY <3>1, <3>2, <3>5 DEF Apart, t
  <2>7. CASE n # o
    <3>1. Meant(grants', n, u) = M
      BY <1>1, <2>7, MeantSame
    <3>2. SaysAll(peopleOf'[n], UserAs(u), M)
      BY <1>4, <2>2, <2>7
    <3>3. SaysAll(t, NoteAs(n), M)
      <4>1. CASE ModesHeld(s, o) = {}
        <5>1. Mode # {}
          BY DEF Mode
        <5>. QED
          BY <2>2, <2>5, <4>1, <5>1
      <4>2. CASE ModesHeld(s, o) # {}
        <5>1. \E m \in Mode : [note |-> o, user |-> u, mode |-> m] \in offered
          BY <2>4, <4>2 DEF ModesHeld, NotesOffered
        <5>2. \A w : First(Held(w, o)) \subseteq Held(w, o)
          BY DEF First
        <5>3. Held(s, o) \cap Found(s, NoteAs(n)) = {}
          BY <2>1, <2>4, <2>7, <5>1, NoteFound
        <5>4. First(Held(s, o)) \cap Found(s, NoteAs(n)) = {}
          BY <5>2, <5>3
        <5>5. SaysAll(r, NoteAs(n), M)
          BY <2>2, <2>3, <2>4, <5>4, OthersDropped
        <5>6. r \in Seq(Entry) /\ NotesOffered(r, u, offered)
          BY <2>4, NotesStay
        <5>. HIDE DEF r
        <5>7. Held(r, o) \cap Found(r, NoteAs(n)) = {}
          BY <2>1, <2>7, <5>1, <5>6, NoteFound
        <5>8. First(Held(r, o)) \cap Found(r, NoteAs(n)) = {}
          BY <5>2, <5>7
        <5>9. SaysAll(Drop(r, First(Held(r, o))), NoteAs(n), M)
          BY <2>3, <5>5, <5>6, <5>8, OthersDropped
        <5>. QED
          BY <2>5, <4>2, <5>5, <5>9
      <4>. QED
        BY <4>1, <4>2
    <3>. QED
      BY <3>1, <3>2, <3>3 DEF Apart, t
  <2>. QED
    BY <2>6, <2>7
<1>. QED
  BY <1>7, <1>8, <1>9, <1>10 DEF IInv, Names

-----------------------------------------------------------------------------
(* The theorems *)

LEMMA InitIInv == Init => IInv
<1>. SUFFICES ASSUME Init PROVE IInv
  OBVIOUS
<1>1. /\ notesOf = [u \in Account |-> <<>>] /\ peopleOf = [n \in Note |-> <<>>]
      /\ ops = 0 /\ grants = {} /\ offered = {} /\ left = {}
  BY DEF Init
<1>2. <<>> \in Seq(Entry) /\ <<>> \in Seq(Person) /\ DOMAIN <<>> = {}
  BY EmptySeq
<1>3. TypeOK
  BY <1>1, <1>2 DEF TypeOK
<1>4. OnlyOffered
  BY <1>1, <1>2 DEF OnlyOffered
<1>5. \A x : SaysAll(<<>>, x, {})
  BY <1>2 DEF SaysAll, Never
<1>6. \A n \in Note, u \in Account : Apart(notesOf[u], peopleOf[n], grants, n, u)
  BY <1>1, <1>5 DEF Apart, Meant
<1>. QED
  BY <1>1, <1>3, <1>4, <1>6 DEF IInv, Names, OneMode

LEMMA NextIInv == IInv /\ [Next]_vars => IInv'
<1>1. ASSUME IInv, Next PROVE IInv'
  <2>1. ops' \in Nat
    BY <1>1 DEF Next, IInv, TypeOK
  <2>2. ASSUME NEW n \in Note, NEW u \in Account, NEW m \in Mode, Share(n, u, m) PROVE IInv'
    BY <1>1, <2>1, <2>2, ShareKeeps
  <2>3. ASSUME NEW n \in Note, StopShare(n) PROVE IInv'
    BY <1>1, <2>1, <2>3, StopShareKeeps
  <2>4. ASSUME NEW n \in Note, Row(n) PROVE IInv'
    <3>1. PICK i \in DOMAIN peopleOf[n] : ChangeMode(n, peopleOf[n][i]) \/ DeleteRow(n, peopleOf[n][i])
      BY <2>4 DEF Row
    <3>. QED
      BY <1>1, <2>1, <3>1, ChangeModeKeeps, DeleteRowKeeps
  <2>5. ASSUME NEW u \in Account, NEW i \in DOMAIN notesOf[u], GiveUp(u, notesOf[u][i]) PROVE IInv'
    BY <1>1, <2>1, <2>5, GiveUpKeeps
  <2>. QED
    BY <1>1, <2>2, <2>3, <2>4, <2>5 DEF Next, Owners, Others
<1>2. ASSUME IInv, UNCHANGED vars PROVE IInv'
  BY <1>2 DEF vars, IInv, TypeOK, OnlyOffered, Names
<1>. QED
  BY <1>1, <1>2

LEMMA SpecIInv == Spec => []IInv
BY InitIInv, NextIInv, PTL DEF Spec

\* The lists are lists of entries, and nobody is ever meant to share a note with
\* its owner.
THEOREM TypeCorrect == Spec => []TypeOK
<1>1. IInv => TypeOK
  BY DEF IInv
<1>. QED
  BY <1>1, SpecIInv, PTL

\* Whatever entry is taken for another, what a list gives was offered by the owner.
THEOREM NothingUnoffered == Spec => []OnlyOffered
<1>1. IInv => OnlyOffered
  BY DEF IInv
<1>. QED
  BY <1>1, SpecIInv, PTL

\* Where the names are like no others', the two lists say what is meant, whoever
\* else's entries were confused.
THEOREM ConfusionStays == Spec => []NamesApart
<1>1. ASSUME IInv PROVE NamesApart
  <2>. SUFFICES ASSUME NEW n \in Note, NEW u \in Account, Distinct(n, u), <<n, u>> \notin left,
                       NEW m \in Mode
                PROVE  LET meant == IF [note |-> n, user |-> u, mode |-> m] \in grants THEN 1 ELSE 0
                       IN  /\ Times(notesOf[u], [note |-> n, mode |-> m]) = meant
                           /\ Times(peopleOf[n], [user |-> u, mode |-> m]) = meant
    BY DEF NamesApart
  <2>1. Unlike(n, u, offered)
    BY DEF Distinct, Unlike
  <2>2. Apart(notesOf[u], peopleOf[n], grants, n, u)
    BY <1>1, <2>1 DEF IInv, Names
  <2>3. notesOf[u] \in Seq(Entry) /\ peopleOf[n] \in Seq(Person)
    BY <1>1, EachList DEF IInv
  <2>4. NoteAs(n)[m] = [note |-> n, mode |-> m] /\ UserAs(u)[m] = [user |-> u, mode |-> m]
    BY DEF NoteAs, UserAs
  <2>5. m \in Meant(grants, n, u) <=> [note |-> n, user |-> u, mode |-> m] \in grants
    BY DEF Meant
  <2>6. /\ m \in Meant(grants, n, u) => Once(notesOf[u], NoteAs(n)[m]) /\ Once(peopleOf[n], UserAs(u)[m])
        /\ m \notin Meant(grants, n, u) => Never(notesOf[u], NoteAs(n)[m]) /\ Never(peopleOf[n], UserAs(u)[m])
    BY <2>2 DEF Apart, SaysAll
  <2>. QED
    BY <2>3, <2>4, <2>5, <2>6, TimesOnce
<1>. QED
  BY <1>1, SpecIInv, PTL
=============================================================================
