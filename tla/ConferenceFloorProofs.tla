------------------------ MODULE ConferenceFloorProofs ------------------------
(***************************************************************************)
(* The floor and the list of members, for any number of callers and of     *)
(* recordings.                                                             *)
(***************************************************************************)
EXTENDS ConferenceFloor, FiniteSetTheorems, SequenceTheorems, TLAPS

\* Unlinking the element at i of a list without repetitions.
LEMMA RemoveAtProperties ==
    ASSUME NEW S, NEW s \in Seq(S), IsInjective(s), NEW i \in 1..Len(s)
    PROVE  /\ RemoveAt(s, i) \in Seq(S) /\ IsInjective(RemoveAt(s, i))
           /\ \A x : Contains(RemoveAt(s, i), x) <=> Contains(s, x) /\ x # s[i]
<1> DEFINE n == Len(s)
           p == SubSeq(s, 1, i - 1)
           q == SubSeq(s, i + 1, n)
           t == p \o q
<1>0. n \in Nat /\ i \in 1..n /\ DOMAIN s = 1..n
  BY LenProperties
<1>1. p \in Seq(S) /\ Len(p) = i - 1 /\ \A j \in 1..(i - 1) : p[j] = s[j]
  BY <1>0, SubSeqProperties
<1>2. q \in Seq(S) /\ Len(q) = n - i /\ \A j \in 1..(n - i) : q[j] = s[i + j]
  <2>1. i + 1 \in Int /\ n \in Int /\ \A j \in (i + 1)..n : s[j] \in S
    BY <1>0, ElementOfSeq
  <2>2. /\ q \in Seq(S) /\ Len(q) = IF i + 1 <= n THEN n - (i + 1) + 1 ELSE 0
        /\ \A j \in 1..(n - (i + 1) + 1) : q[j] = s[(i + 1) + j - 1]
    BY <2>1, SubSeqProperties
  <2> HIDE DEF n, q
  <2>3. Len(q) = n - i
    BY <1>0, <2>2
  <2>4. ASSUME NEW j \in 1..(n - i) PROVE q[j] = s[i + j]
    <3>1. j \in 1..(n - (i + 1) + 1) /\ (i + 1) + j - 1 = i + j
      BY <1>0
    <3>2. q[j] = s[(i + 1) + j - 1]
      BY <2>2, <3>1
    <3> QED BY <3>1, <3>2
  <2> QED BY <2>2, <2>3, <2>4
<1>r. RemoveAt(s, i) = t
  BY DEF RemoveAt
<1> HIDE DEF n, p, q
<1>c. /\ t \in Seq(S) /\ Len(t) = Len(p) + Len(q)
      /\ \A j \in 1..(Len(p) + Len(q)) : t[j] = IF j <= Len(p) THEN p[j] ELSE q[j - Len(p)]
  BY <1>1, <1>2, ConcatProperties
<1> HIDE DEF t
<1>3. t \in Seq(S) /\ Len(t) = n - 1
  BY <1>0, <1>1, <1>2, <1>c
<1>4. \A j \in 1..(n - 1) : t[j] = IF j < i THEN s[j] ELSE s[j + 1]
  <2> TAKE j \in 1..(n - 1)
  <2>1. t[j] = IF j <= i - 1 THEN p[j] ELSE q[j - (i - 1)]
    BY <1>0, <1>1, <1>2, <1>c
  <2>2. CASE j < i
    BY <1>0, <1>1, <2>1, <2>2
  <2>3. CASE ~(j < i)
    <3>1. j - (i - 1) \in 1..(n - i) /\ i + (j - (i - 1)) = j + 1
      BY <1>0, <2>3
    <3> QED BY <1>0, <1>2, <2>1, <2>3, <3>1
  <2> QED BY <2>2, <2>3
<1>5. DOMAIN t = 1..(n - 1)
  BY <1>3, LenProperties
<1>6. IsInjective(t)
  <2> SUFFICES ASSUME NEW j \in 1..(n - 1), NEW k \in 1..(n - 1), t[j] = t[k] PROVE j = k
    BY <1>5 DEF IsInjective
  <2>1. \A x, y \in 1..n : s[x] = s[y] => x = y
    BY <1>0 DEF IsInjective
  <2> QED BY <1>0, <1>4, <2>1
<1>7. ASSUME NEW x, Contains(t, x) PROVE Contains(s, x) /\ x # s[i]
  BY <1>0, <1>3, <1>4, <1>7 DEF Contains, IsInjective, n
<1>8. ASSUME NEW x, Contains(s, x), x # s[i] PROVE Contains(t, x)
  <2>1. PICK j \in 1..n : s[j] = x /\ j # i
    BY <1>8 DEF Contains, n
  <2>2. CASE j < i
    BY <1>0, <1>3, <1>4, <2>1, <2>2 DEF Contains
  <2>3. CASE j > i
    <3>1. j - 1 \in 1..(n - 1) /\ ~(j - 1 < i) /\ (j - 1) + 1 = j
      BY <1>0, <2>3
    <3> QED BY <1>3, <1>4, <2>1, <3>1 DEF Contains
  <2> QED BY <1>0, <2>1, <2>2, <2>3
<1> QED
  BY <1>3, <1>6, <1>7, <1>8, <1>r

\* A new head of a list that it is not in.
LEMMA PushProperties ==
    ASSUME NEW S, NEW s \in Seq(S), IsInjective(s), NEW m \in S, ~Contains(s, m)
    PROVE  /\ <<m>> \o s \in Seq(S) /\ IsInjective(<<m>> \o s)
           /\ \A x : Contains(<<m>> \o s, x) <=> Contains(s, x) \/ x = m
<1> DEFINE n == Len(s)
           t == <<m>> \o s
<1>0. n \in Nat /\ DOMAIN s = 1..n
  BY LenProperties
<1>1. <<m>> \in Seq(S) /\ Len(<<m>>) = 1 /\ <<m>>[1] = m
  OBVIOUS
<1>2. /\ t \in Seq(S) /\ Len(t) = 1 + n
      /\ \A j \in 1..(1 + n) : t[j] = IF j <= 1 THEN <<m>>[j] ELSE s[j - 1]
  BY <1>1, ConcatProperties
<1>3. DOMAIN t = 1..(1 + n)
  BY <1>2, LenProperties
<1> HIDE DEF t
<1>4. t[1] = m /\ \A j \in 1..n : t[j + 1] = s[j]
  BY <1>0, <1>1, <1>2
<1>5. \A j \in 1..(1 + n) : j = 1 \/ (j - 1 \in 1..n /\ t[j] = s[j - 1])
  BY <1>0, <1>2
<1>6. \A j \in 1..n : s[j] # m
  BY DEF Contains
<1>7. \A x, y \in 1..n : s[x] = s[y] => x = y
  BY <1>0 DEF IsInjective
<1>8. IsInjective(t)
  <2> SUFFICES ASSUME NEW j \in 1..(1 + n), NEW k \in 1..(1 + n), t[j] = t[k] PROVE j = k
    BY <1>3 DEF IsInjective
  <2> QED BY <1>0, <1>4, <1>5, <1>6, <1>7
<1>9. ASSUME NEW x PROVE Contains(t, x) <=> Contains(s, x) \/ x = m
  <2>1. Contains(t, x) => Contains(s, x) \/ x = m
    BY <1>2, <1>4, <1>5 DEF Contains
  <2>2. Contains(s, x) => Contains(t, x)
    <3> SUFFICES ASSUME Contains(s, x) PROVE Contains(t, x)
      OBVIOUS
    <3>1. PICK j \in 1..n : s[j] = x
      BY DEF Contains
    <3>2. j + 1 \in 1..Len(t) /\ t[j + 1] = x
      BY <1>0, <1>2, <1>4, <3>1
    <3> QED BY <3>2 DEF Contains
  <2>3. Contains(t, m)
    <3>1. 1 \in 1..Len(t)
      BY <1>0, <1>2
    <3> QED BY <3>1, <1>4 DEF Contains
  <2> QED BY <2>1, <2>2, <2>3
<1> HIDE DEF n
<1> QED
  BY <1>2, <1>8, <1>9 DEF t

\* The list without a member of it.
LEMMA UnlinkedProperties ==
    ASSUME TypeOK, NEW m \in Members, Contains(members, m)
    PROVE  /\ Unlinked(m) \in Seq(Members) /\ IsInjective(Unlinked(m))
           /\ \A x : Contains(Unlinked(m), x) <=> Contains(members, x) /\ x # m
<1> DEFINE i == CHOOSE i \in 1..Len(members) : members[i] = m
<1>1. i \in 1..Len(members) /\ members[i] = m
  BY DEF Contains
<1>2. Unlinked(m) = RemoveAt(members, i)
  BY DEF Unlinked
<1> HIDE DEF i
<1> QED
  BY <1>1, <1>2, RemoveAtProperties DEF TypeOK

(***************************************************************************)
(* The invariant.                                                          *)
(***************************************************************************)
\* The callers that conference->count counts.
Counted == {c \in Callers : pc[c] \in {"added", "loop", "ending"}}

\* A thread is past conference_add_member's first half exactly as long as its
\* member is in the list.
ListInv == \A m \in Members : Contains(members, m) <=> pc[m] # "out"

HolderInv == floor_holder # Nobody => pc[floor_holder] # "out"

\* The output loop outlives the input thread.
InputInv == \A c \in Callers : ithread[c] # "none" => pc[c] = "loop"

FloorInv ==
    /\ TypeOK /\ ListInv /\ HolderInv /\ InputInv
    /\ count = Cardinality(Counted)

\* Which callers are counted after a step of m's thread.
LEMMA CountedStep ==
    ASSUME TypeOK, NEW m \in Members, NEW at \in {"out", "listed", "added", "loop", "ending"},
           Goto(m, at)
    PROVE  /\ pc' \in [Members -> {"out", "listed", "added", "loop", "ending"}]
           /\ pc'[m] = at /\ \A x \in Members \ {m} : pc'[x] = pc[x]
           /\ IsFiniteSet(Counted) /\ Cardinality(Counted) \in Nat
           /\ m \notin Callers => Counted' = Counted
           /\ (m \in Counted <=> at \in {"added", "loop", "ending"}) => Counted' = Counted
           /\ m \in Callers /\ m \notin Counted /\ at \in {"added", "loop", "ending"}
                => Cardinality(Counted') = Cardinality(Counted) + 1
           /\ m \in Counted /\ at \notin {"added", "loop", "ending"}
                => /\ Cardinality(Counted') = Cardinality(Counted) - 1
                   /\ Cardinality(Counted) > 0
<1>1. /\ pc' \in [Members -> {"out", "listed", "added", "loop", "ending"}]
      /\ pc'[m] = at /\ \A x \in Members \ {m} : pc'[x] = pc[x]
  BY DEF TypeOK, Goto
<1>2. IsFiniteSet(Counted) /\ Cardinality(Counted) \in Nat
  BY FloorAssumption, FS_Subset, FS_CardinalityType DEF Counted
<1>3. Callers \subseteq Members
  BY DEF Members
<1>4. m \notin Callers => Counted' = Counted
  BY <1>1, <1>3 DEF Counted
<1>5. (m \in Counted <=> at \in {"added", "loop", "ending"}) => Counted' = Counted
  BY <1>1, <1>3 DEF Counted
<1>6. ASSUME m \in Callers, m \notin Counted, at \in {"added", "loop", "ending"}
      PROVE  Cardinality(Counted') = Cardinality(Counted) + 1
  <2>1. Counted' = Counted \cup {m}
    BY <1>1, <1>3, <1>6 DEF Counted
  <2> QED BY <1>2, <1>6, <2>1, FS_AddElement
<1>7. ASSUME m \in Counted, at \notin {"added", "loop", "ending"}
      PROVE  /\ Cardinality(Counted') = Cardinality(Counted) - 1
             /\ Cardinality(Counted) > 0
  <2>1. Counted' = Counted \ {m}
    BY <1>1, <1>3, <1>7 DEF Counted
  <2>2. Cardinality(Counted) # 0
    BY <1>2, <1>7, FS_EmptySet
  <2> QED BY <1>2, <1>7, <2>1, <2>2, FS_RemoveElement
<1> QED
  BY <1>1, <1>2, <1>4, <1>5, <1>6, <1>7

\* One step per action; each part of the invariant that it can disturb.
LEMMA FloorStep == FloorInv /\ [Next]_vars => FloorInv'
<1> SUFFICES ASSUME FloorInv, [Next]_vars PROVE FloorInv'
  OBVIOUS
<1> TypeOK /\ ListInv /\ HolderInv /\ InputInv /\ count = Cardinality(Counted)
  BY DEF FloorInv
<1>m. /\ \A c \in Callers : c \in Members /\ c \notin Recorders
      /\ \A m \in Members : m \in Callers \/ m \in Recorders
      /\ Nobody \notin Members
  BY FloorAssumption DEF Members
<1>1. ASSUME NEW m \in Members, AddToList(m) PROVE FloorInv'
  <2> DEFINE at == IF m \in Callers THEN "listed" ELSE "loop"
  <2>1. /\ pc[m] = "out" /\ members' = <<m>> \o members /\ running' = running \cup {m}
        /\ Goto(m, at) /\ UNCHANGED <<count, floor_holder, talking, ithread, reading>>
    BY <1>1 DEF AddToList
  <2>2. /\ pc' \in [Members -> {"out", "listed", "added", "loop", "ending"}]
        /\ pc'[m] = at /\ \A x \in Members \ {m} : pc'[x] = pc[x]
        /\ Counted' = Counted
    BY <2>1, <1>m, CountedStep DEF Counted
  <2>3. ~Contains(members, m)
    BY <2>1 DEF ListInv
  <2>4. /\ members' \in Seq(Members) /\ IsInjective(members')
        /\ \A x : Contains(members', x) <=> Contains(members, x) \/ x = m
    BY <2>1, <2>3, PushProperties DEF TypeOK
  <2>5. TypeOK'
    BY <2>1, <2>2, <2>4 DEF TypeOK
  <2>6. ListInv'
    BY <2>2, <2>4 DEF ListInv
  <2>7. HolderInv' /\ InputInv'
    BY <2>1, <2>2, <1>m DEF HolderInv, InputInv, TypeOK
  <2> QED BY <2>1, <2>2, <2>5, <2>6, <2>7 DEF FloorInv
<1>2. ASSUME NEW c \in Callers, AddFinish(c) PROVE FloorInv'
  <2>1. /\ pc[c] = "listed" /\ count' = count + 1 /\ floor_holder' \in {c, floor_holder}
        /\ Goto(c, "added") /\ UNCHANGED <<members, running, talking, ithread, reading>>
    BY <1>2 DEF AddFinish
  <2>2. /\ pc' \in [Members -> {"out", "listed", "added", "loop", "ending"}]
        /\ pc'[c] = "added" /\ \A x \in Members \ {c} : pc'[x] = pc[x]
    BY <2>1, <1>m, CountedStep
  <2>c. count' = Cardinality(Counted') /\ count' \in Nat
    <3>1. c \notin Counted
      BY <2>1 DEF Counted
    <3>2. Cardinality(Counted') = Cardinality(Counted) + 1 /\ Cardinality(Counted) \in Nat
      BY <2>1, <3>1, <1>m, CountedStep
    <3> QED BY <2>1, <3>2
  <2>3. TypeOK'
    BY <2>1, <2>2, <2>c, <1>m DEF TypeOK
  <2>4. ListInv'
    BY <2>1, <2>2, <1>m DEF ListInv
  <2>5. HolderInv' /\ InputInv'
    BY <2>1, <2>2, <1>m DEF HolderInv, InputInv, TypeOK
  <2> QED BY <2>c, <2>3, <2>4, <2>5 DEF FloorInv
<1>3. ASSUME NEW c \in Callers, launch_conference_loop_input(c) PROVE FloorInv'
  <2>1. /\ pc[c] = "added" /\ ithread' = [ithread EXCEPT ![c] = "read"] /\ talking' = talking \ {c}
        /\ Goto(c, "loop") /\ UNCHANGED <<members, count, floor_holder, running, reading>>
    BY <1>3 DEF launch_conference_loop_input
  <2>2. /\ pc' \in [Members -> {"out", "listed", "added", "loop", "ending"}]
        /\ pc'[c] = "loop" /\ \A x \in Members \ {c} : pc'[x] = pc[x]
        /\ Counted' = Counted
    BY <2>1, <1>m, CountedStep DEF Counted
  <2>3. TypeOK'
    BY <2>1, <2>2, <1>m DEF TypeOK
  <2>4. ListInv'
    BY <2>1, <2>2, <1>m DEF ListInv
  <2>5. HolderInv' /\ InputInv'
    BY <2>1, <2>2, <1>m DEF HolderInv, InputInv, TypeOK
  <2> QED BY <2>1, <2>2, <2>3, <2>4, <2>5 DEF FloorInv
<1>4. ASSUME NEW m \in Members, Stop(m) PROVE FloorInv'
  BY <1>4 DEF Stop, FloorInv, TypeOK, ListInv, HolderInv, InputInv, Counted
<1>5. ASSUME NEW m \in Members, LoopEnds(m) PROVE FloorInv'
  <2>1. /\ pc[m] = "loop" /\ (m \in Callers => ithread[m] = "none") /\ Goto(m, "ending")
        /\ UNCHANGED <<members, count, floor_holder, running, talking, ithread, reading>>
    BY <1>5 DEF LoopEnds
  <2>2. /\ pc' \in [Members -> {"out", "listed", "added", "loop", "ending"}]
        /\ pc'[m] = "ending" /\ \A x \in Members \ {m} : pc'[x] = pc[x]
        /\ Counted' = Counted
    BY <2>1, CountedStep DEF Counted
  <2>3. TypeOK'
    BY <2>1, <2>2, <1>m DEF TypeOK
  <2>4. ListInv'
    BY <2>1, <2>2, <1>m DEF ListInv
  <2>5. HolderInv' /\ InputInv'
    BY <2>1, <2>2, <1>m DEF HolderInv, InputInv, TypeOK
  <2> QED BY <2>1, <2>2, <2>3, <2>4, <2>5 DEF FloorInv
<1>6. ASSUME NEW m \in Members, conference_del_member(m) PROVE FloorInv'
  <2>1. /\ pc[m] = "ending" /\ members' = Unlinked(m)
        /\ count' = IF m \in Callers THEN count - 1 ELSE count
        /\ floor_holder' = FloorAfter(m, members')
        /\ Goto(m, "out") /\ UNCHANGED <<running, talking, ithread, reading>>
    BY <1>6 DEF conference_del_member
  <2>2. /\ pc' \in [Members -> {"out", "listed", "added", "loop", "ending"}]
        /\ pc'[m] = "out" /\ \A x \in Members \ {m} : pc'[x] = pc[x]
    BY <2>1, CountedStep
  <2>3. count' = Cardinality(Counted') /\ count' \in Nat
    <3>1. m \in Counted <=> m \in Callers
      BY <2>1 DEF Counted
    <3>2. Cardinality(Counted) \in Nat
      BY <2>1, CountedStep
    <3>3. CASE m \in Callers
      <4>1. Cardinality(Counted') = Cardinality(Counted) - 1 /\ Cardinality(Counted) > 0
        BY <2>1, <3>1, <3>3, CountedStep
      <4> QED BY <2>1, <3>2, <3>3, <4>1
    <3>4. CASE m \notin Callers
      <4>1. Counted' = Counted
        BY <2>1, <3>4, CountedStep
      <4> QED BY <2>1, <3>2, <3>4, <4>1
    <3> QED BY <3>3, <3>4
  <2>4. Contains(members, m)
    BY <2>1 DEF ListInv
  <2>5. /\ members' \in Seq(Members) /\ IsInjective(members')
        /\ \A x : Contains(members', x) <=> Contains(members, x) /\ x # m
    BY <2>1, <2>4, UnlinkedProperties
  <2>6. ListInv'
    BY <2>2, <2>5 DEF ListInv
  <2>7. members' # <<>> => Head(members') \in Members /\ Contains(members', Head(members'))
    <3> SUFFICES ASSUME members' # <<>>
                 PROVE  Head(members') \in Members /\ Contains(members', Head(members'))
      OBVIOUS
    <3>1. Len(members') \in Nat /\ Len(members') # 0
      BY <2>5, EmptySeq, LenProperties
    <3>2. 1 \in 1..Len(members') /\ Head(members') = members'[1]
      BY <2>5, <3>1
    <3> QED BY <2>5, <3>2, ElementOfSeq DEF Contains
  <2>8. \/ floor_holder' = Nobody
        \/ floor_holder' \in Members /\ Contains(members', floor_holder')
        \/ floor_holder' = floor_holder /\ floor_holder # m
    BY <2>1, <2>7 DEF FloorAfter
  <2>9. floor_holder' \in Members \cup {Nobody}
    BY <2>8 DEF TypeOK
  <2>10. HolderInv'
    <3>1. CASE floor_holder' \in Members /\ Contains(members', floor_holder')
      BY <3>1, <2>6 DEF HolderInv, ListInv
    <3>2. CASE floor_holder' = floor_holder /\ floor_holder # m
      BY <3>2, <2>2 DEF HolderInv, TypeOK
    <3> QED BY <2>8, <3>1, <3>2 DEF HolderInv
  <2>11. InputInv'
    BY <2>1, <2>2, <1>m DEF InputInv
  <2>12. TypeOK'
    BY <2>1, <2>2, <2>3, <2>5, <2>9 DEF TypeOK
  <2> QED BY <2>3, <2>6, <2>10, <2>11, <2>12 DEF FloorInv
<1>7. ASSUME NEW c \in Callers, ReadFrame(c) PROVE FloorInv'
  <2>1. /\ UNCHANGED <<members, count, floor_holder, pc, running, reading>>
        /\ talking' \subseteq Callers
        /\ ithread' \in [Callers -> {"none", "read", "floor"}]
        /\ \A d \in Callers : ithread'[d] # "none" => ithread[d] # "none"
    BY <1>7 DEF ReadFrame, TypeOK
  <2> QED BY <2>1 DEF FloorInv, TypeOK, ListInv, HolderInv, InputInv, Counted
<1>8. ASSUME NEW c \in Callers, CheckFloorChange(c) PROVE FloorInv'
  <2>1. /\ UNCHANGED <<members, count, pc, running, talking, reading>>
        /\ ithread[c] = "floor" /\ floor_holder' \in {c, floor_holder}
        /\ ithread' = [ithread EXCEPT ![c] = "read"]
    BY <1>8 DEF CheckFloorChange
  <2>2. pc[c] = "loop"
    BY <2>1 DEF InputInv
  <2>3. TypeOK' /\ HolderInv' /\ InputInv'
    BY <2>1, <2>2, <1>m DEF TypeOK, HolderInv, InputInv
  <2> QED BY <2>1, <2>3 DEF FloorInv, ListInv, Counted
<1>9. CASE VideoReads \/ VideoRead
  BY <1>9 DEF VideoReads, VideoRead, FloorInv, TypeOK, ListInv, HolderInv, InputInv,
              Counted
<1>10. CASE UNCHANGED vars
  BY <1>10 DEF vars, FloorInv, TypeOK, ListInv, HolderInv, InputInv, Counted
<1> QED
  BY <1>1, <1>2, <1>3, <1>4, <1>5, <1>6, <1>7, <1>8, <1>9, <1>10 DEF Next

\* The invariant of the floor.
LEMMA FloorInvariant == Spec => []FloorInv
<1>1. Init => FloorInv
  <2> SUFFICES ASSUME Init PROVE FloorInv
    OBVIOUS
  <2>1. members \in Seq(Members) /\ IsInjective(members) /\ \A x : ~Contains(members, x)
    BY EmptySeq DEF Init, IsInjective, Contains
  <2>2. Counted = {} /\ Cardinality(Counted) = 0
    BY FS_EmptySet DEF Init, Counted, Members
  <2>3. TypeOK
    BY <2>1 DEF Init, TypeOK
  <2> QED
    BY <2>1, <2>2, <2>3 DEF Init, FloorInv, ListInv, HolderInv, InputInv, Members
<1> QED
  BY <1>1, FloorStep, PTL DEF Spec

(***************************************************************************)
(* The theorems.                                                           *)
(***************************************************************************)
\* The list has no repetitions, and every variable its type.
THEOREM FloorTypeCorrect == Spec => []TypeOK
<1>1. FloorInv => TypeOK
  BY DEF FloorInv
<1> QED
  BY <1>1, FloorInvariant, PTL

\* conference->floor_holder points into the list, whoever joins, leaves, talks or
\* records meanwhile.
THEOREM HolderCorrect == Spec => []FloorHolderInList
<1>1. FloorInv => FloorHolderInList
  BY DEF FloorInv, TypeOK, ListInv, HolderInv, FloorHolderInList
<1> QED
  BY <1>1, FloorInvariant, PTL

\* A member is not unlinked before its input thread has ended.
THEOREM InputThreadCorrect == Spec => []InputThreadInList
<1>1. FloorInv => InputThreadInList
  BY DEF FloorInv, TypeOK, ListInv, InputInv, InputThreadInList, Members
<1> QED
  BY <1>1, FloorInvariant, PTL

\* conference->count is the number of callers in the list whose addition is
\* complete.
THEOREM CountCorrect == Spec => []CountBehindList
<1>1. FloorInv => CountBehindList
  <2> SUFFICES ASSUME FloorInv PROVE CountBehindList
    OBVIOUS
  <2>1. {c \in Callers : Contains(members, c) /\ pc[c] # "listed"} = Counted
    BY DEF FloorInv, TypeOK, ListInv, Counted, Members
  <2> QED
    BY <2>1 DEF FloorInv, CountBehindList
<1> QED
  BY <1>1, FloorInvariant, PTL
=============================================================================
