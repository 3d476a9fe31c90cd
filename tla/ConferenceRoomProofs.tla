------------------------ MODULE ConferenceRoomProofs ------------------------
(***************************************************************************)
(* Proofs about ConferenceRoom, for any number of names, objects, callers, *)
(* recorders and API threads, and for any set of failures.  In this order: *)
(*   I    type correctness, and what the steps leave alone in the objects; *)
(*   II   the registry of conferences;                                     *)
(*   III  the members of a room, its counters and its threads;             *)
(*   IV   the rooms implement RoomDirectory.                               *)
(***************************************************************************)
EXTENDS ConferenceRoomDirectory, FiniteSetTheorems, TLAPS

-----------------------------------------------------------------------------

(***************************************************************************)
(* I. Type correctness, and what the steps leave alone in the conference   *)
(* objects: the lemmas the other parts rest on.                            *)
(***************************************************************************)

(***************************************************************************)
(* Type correctness.  Each lemma types one way of updating the objects.    *)
(***************************************************************************)
ConfType == conf \in [Confs -> ConfRec]

\* A new object of conference_new, and what is left of one after its pool is
\* destroyed.
LEMMA ObjectTyped ==
    ASSUME NEW n \in Names, NEW f \in SUBSET ConfFlags, NEW s \in SUBSET Threads
    PROVE  /\ [Blank(n) EXCEPT !.flags = f] \in ConfRec
           /\ [Blank(n) EXCEPT !.readers = s] \in ConfRec
  BY DEF Blank, ConfRec

\* The fields of a well-formed object.
LEMMA FieldsTyped ==
    ASSUME ConfType, NEW k \in Confs
    PROVE  /\ conf[k].name \in Names
           /\ conf[k].readers \in SUBSET Threads
           /\ conf[k].members \in SUBSET Members
           /\ conf[k].flags \in SUBSET ConfFlags
  BY DEF ConfType, ConfRec

\* switch_set_flag and switch_clear_flag on a conference.
LEMMA FlagsTyped ==
    ASSUME ConfType, NEW k, NEW f \in SUBSET ConfFlags,
           \/ conf' = conf
           \/ conf' = [conf EXCEPT ![k].flags = @ \cup f]
           \/ conf' = [conf EXCEPT ![k].flags = @ \ f]
    PROVE  ConfType'
  BY DEF ConfType, ConfRec

\* The rwlock of a conference.
LEMMA RdUnlockTyped ==
    ASSUME ConfType, NEW x \in Threads, RdUnlock(x)
    PROVE  ConfType'
  BY DEF ConfType, ConfRec, RdUnlock

\* switch_thread_rwlock_tryrdlock on a conference.
LEMMA TryRdLockTyped ==
    ASSUME ConfType, NEW x \in Threads, NEW at, NEW to, TryRdLock(x, at, to)
    PROVE  ConfType'
  BY DEF ConfType, ConfRec, TryRdLock

\* conference_find.
LEMMA EvictTyped ==
    ASSUME ConfType, NEW n, Evict(n)
    PROVE  ConfType'
  BY DEF ConfType, ConfRec, Evict

\* The member list as the record threads change it.
LEMMA MembersTyped ==
    ASSUME ConfType, NEW k, NEW m \in Members,
           \/ conf' = [conf EXCEPT ![k].members = @ \cup {m}]
           \/ conf' = [conf EXCEPT ![k].members = @ \ {m}]
    PROVE  ConfType'
  BY DEF ConfType, ConfRec

\* The minimum of a room.
LEMMA MinTyped ==
    ASSUME ConfType, NEW k, NEW n \in 0..2, NEW f \in SUBSET ConfFlags,
           \/ conf' = conf
           \/ conf' = [conf EXCEPT ![k].min = n]
           \/ conf' = [conf EXCEPT ![k].min = n, ![k].flags = @ \cup f]
    PROVE  ConfType'
  BY DEF ConfType, ConfRec

\* conference_add_member and conference_del_member return well-formed objects.
LEMMA AddedTyped ==
    ASSUME NEW r \in ConfRec, NEW c \in Callers
    PROVE  Added(r, c) \in ConfRec
<1> DEFINE e == IF c \in EndConf THEN r.end_count + 1 ELSE r.end_count
           f == IF r.min > 0 /\ r.count + 1 >= r.min
                THEN r.flags \cup {"ENFORCE_MIN"} ELSE r.flags
<1>1. r.members \cup {c} \in SUBSET Members /\ f \in SUBSET ConfFlags
  BY DEF ConfRec, ConfFlags, Members
<1>2. r.count + 1 \in Int /\ e \in Int
  BY DEF ConfRec
<1>3. Added(r, c) = [r EXCEPT !.members = @ \cup {c}, !.count = r.count + 1,
                              !.end_count = e, !.flags = f]
  BY DEF Added
<1> HIDE DEF e, f
<1> QED
  BY <1>1, <1>2, <1>3 DEF ConfRec

\* The same of conference_del_member, whose decrements stay in the type.
LEMMA DeletedTyped ==
    ASSUME NEW r \in ConfRec, NEW c \in Callers
    PROVE  Deleted(r, c) \in ConfRec
<1> DEFINE e == IF c \in EndConf THEN r.end_count - 1 ELSE r.end_count
           f == IF EndsRoom(r, c) THEN r.flags \cup {"DESTRUCT"} ELSE r.flags
<1>1. r.members \ {c} \in SUBSET Members /\ f \in SUBSET ConfFlags
  BY DEF ConfRec, ConfFlags, Members
<1>2. r.count - 1 \in Int /\ e \in Int
  BY DEF ConfRec
<1>3. Deleted(r, c) = [r EXCEPT !.members = @ \ {c}, !.count = r.count - 1,
                                !.end_count = e, !.flags = f]
  BY DEF Deleted
<1> HIDE DEF e, f
<1> QED
  BY <1>1, <1>2, <1>3 DEF ConfRec

\* conf_api_sub_kick and conf_api_sub_hup.
LEMMA StopTyped ==
    ASSUME flag \in [Members -> SUBSET MemberFlags], NEW s, NEW t, Stop(s, t)
    PROVE  flag' \in [Members -> SUBSET MemberFlags]
  BY DEF Stop, MemberFlags

\* Type correctness: every step of conference_function, of the conference and
\* record threads and of the API leaves every variable in its type.
THEOREM TypeCorrect == Spec => []TypeOK
<1>1. Init => TypeOK
  <2> SUFFICES ASSUME Init PROVE TypeOK
    OBVIOUS
  <2>1. PICK n \in Names : Init!(n)
    BY DEF Init
  <2>2. conf \in [Confs -> ConfRec]
    BY <2>1 DEF Blank, ConfRec
  <2>3. thr \in [Confs -> ThrPC]
    BY <2>1 DEF ThrPC
  <2>4. pc \in [Threads -> CallerPC \cup RecorderPC \cup AdminPC]
    BY <2>1 DEF CallerPC
  <2>5. /\ conference_hash \in [Names -> Confs \cup {NoConf}]
        /\ ptr \in [Threads -> Confs \cup {NoConf}]
        /\ want \in [Callers -> Names]
    BY <2>1
  <2>6. /\ setup_mutex = NoThread
        /\ flag \in [Members -> SUBSET MemberFlags]
        /\ held \in [Admins -> Members \cup {NoThread}]
        /\ module \in {"up", "stopping", "down"} /\ threads \in Int
    BY <2>1
  <2>7. fault \in BOOLEAN
    BY <2>1
  <2> QED
    BY <2>2, <2>3, <2>4, <2>5, <2>6, <2>7 DEF TypeOK
<1>2. TypeOK /\ [Next]_vars => TypeOK'
  <2> SUFFICES ASSUME TypeOK, [Next]_vars PROVE TypeOK'
    OBVIOUS
  <2>0. /\ ConfType
        /\ Members \subseteq Threads /\ Callers \subseteq Members
        /\ Recorders \subseteq Members /\ Admins \subseteq Threads
        /\ {"INHASH"} \in SUBSET ConfFlags /\ {"DESTRUCT"} \in SUBSET ConfFlags
        /\ {"DYNAMIC", "RUNNING"} \in SUBSET ConfFlags /\ {"LOCKED"} \in SUBSET ConfFlags
        /\ {"RUNNING"} \in SUBSET ConfFlags /\ 1 \in 0..2 /\ 2 \in 0..2
    BY DEF TypeOK, ConfType, Members, Threads, ConfFlags
  <2>1. ASSUME NEW c \in Callers, Enter(c) PROVE TypeOK'
    BY <2>1 DEF TypeOK, Enter, Goto, CallerPC, GlobalVars
  <2>2. ASSUME NEW c \in Callers, Find(c) PROVE TypeOK'
    <3>1. ConfType'
      BY <2>2, <2>0, EvictTyped DEF Find
    <3> QED
      BY <2>2, <3>1 DEF TypeOK, ConfType, Find, Evict, Found, Goto, CallerPC, GlobalVars
  <2>3. ASSUME NEW c \in Callers, conference_new(c) PROVE TypeOK'
    <3>1. ConfType'
      <4>1. CASE UNCHANGED conf
        BY <2>0, <4>1 DEF ConfType
      <4>2. ASSUME NEW k \in Confs,
                   conf' = [conf EXCEPT ![k] = [Blank(want[c]) EXCEPT !.flags = {"INHASH"}]]
            PROVE  ConfType'
        <5>1. want[c] \in Names
          BY DEF TypeOK
        <5> QED
          BY <2>0, <4>2, <5>1, ObjectTyped DEF ConfType
      <4> QED
        BY <2>3, <4>1, <4>2 DEF conference_new
    <3> QED
      BY <2>3, <3>1 DEF TypeOK, ConfType, conference_new, Goto, CallerPC, ThrPC, GlobalVars
  <2>4. ASSUME NEW c \in Callers, Launch(c) PROVE TypeOK'
    <3>1. ConfType'
      <4>1. CASE c \in Bridge
        BY <2>4, <2>0, <4>1, MinTyped DEF Launch
      <4>2. CASE c \notin Bridge
        BY <2>4, <2>0, <4>2, MinTyped DEF Launch
      <4> QED
        BY <4>1, <4>2
    <3> QED
      BY <2>4, <3>1 DEF TypeOK, ConfType, Launch, Goto, CallerPC, ThrPC, GlobalVars
  <2>5. ASSUME NEW c \in Callers, RdLock(c) PROVE TypeOK'
    <3>1. ConfType'
      BY <2>5, <2>0, TryRdLockTyped DEF RdLock
    <3> QED
      BY <2>5, <3>1 DEF TypeOK, ConfType, RdLock, TryRdLock, Goto, CallerPC, GlobalVars
  <2>6. ASSUME NEW c \in Callers, EnterPin(c) PROVE TypeOK'
    BY <2>6 DEF TypeOK, EnterPin, Goto, CallerPC, GlobalVars
  <2>7. ASSUME NEW c \in Callers, Check(c) PROVE TypeOK'
    BY <2>7 DEF TypeOK, Check, Goto, CallerPC, GlobalVars
  <2>8. ASSUME NEW c \in Callers, Dial(c) PROVE TypeOK'
    <3>1. ConfType'
      BY <2>8, <2>0, TryRdLockTyped DEF Dial, ConfType
    <3> QED
      BY <2>8, <3>1 DEF TypeOK, ConfType, Dial, TryRdLock, Goto, CallerPC, GlobalVars
  <2>9. ASSUME NEW c \in Callers, Dialed(c) PROVE TypeOK'
    <3>1. ConfType'
      BY <2>9, <2>0, RdUnlockTyped DEF Dialed
    <3> QED
      BY <2>9, <3>1 DEF TypeOK, ConfType, Dialed, Goto, CallerPC, GlobalVars
  <2>10. ASSUME NEW c \in Callers, Setup(c) PROVE TypeOK'
    <3>1. ConfType'
      <4>1. conf' = conf \/ conf' = [conf EXCEPT ![ptr[c]].min = 2]
        BY <2>10 DEF Setup
      <4> QED
        BY <2>0, <4>1, MinTyped
    <3> QED
      BY <2>10, <3>1 DEF TypeOK, ConfType, Setup, Goto, CallerPC, MemberFlags, GlobalVars
  <2>11. ASSUME NEW c \in Callers, conference_add_member(c) PROVE TypeOK'
    <3>1. ConfType'
      BY <2>11, <2>0, AddedTyped DEF ConfType, conference_add_member
    <3> QED
      BY <2>11, <3>1 DEF TypeOK, ConfType, conference_add_member, Goto, CallerPC, GlobalVars
  <2>12. ASSUME NEW c \in Callers, LoopStopped(c) PROVE TypeOK'
    BY <2>12 DEF TypeOK, LoopStopped, Goto, CallerPC, GlobalVars
  <2>w. ASSUME NEW c \in Callers, WrLockMember(c) PROVE TypeOK'
    BY <2>w DEF TypeOK, WrLockMember, Goto, CallerPC, GlobalVars
  <2>13. ASSUME NEW c \in Callers, Hangup(c) PROVE TypeOK'
    BY <2>13 DEF TypeOK, Hangup, Goto, CallerPC, GlobalVars
  <2>14. ASSUME NEW c \in Callers, conference_del_member(c) PROVE TypeOK'
    <3>1. ConfType'
      BY <2>14, <2>0, DeletedTyped DEF ConfType, conference_del_member
    <3> QED
      BY <2>14, <3>1 DEF TypeOK, ConfType, conference_del_member, Goto, CallerPC, GlobalVars
  <2>15. ASSUME NEW c \in Callers, Done(c) PROVE TypeOK'
    <3>1. ConfType'
      BY <2>15, <2>0, FlagsTyped DEF Done
    <3> QED
      BY <2>15, <3>1 DEF TypeOK, ConfType, Done, Goto, CallerPC, GlobalVars
  <2>16. ASSUME NEW c \in Callers, Release(c) PROVE TypeOK'
    <3>1. ConfType'
      BY <2>16, <2>0, RdUnlockTyped DEF Release
    <3> QED
      BY <2>16, <3>1 DEF TypeOK, ConfType, Release, Goto, CallerPC, GlobalVars
  <2>17. ASSUME NEW k \in Confs, ThreadStart(k) PROVE TypeOK'
    BY <2>17 DEF TypeOK, ThreadStart, Thread, ThrPC, GlobalVars
  <2>18. ASSUME NEW k \in Confs, ThreadLoopEnds(k) PROVE TypeOK'
    <3>1. ConfType'
      <4>1. conf' = conf \/ conf' = [conf EXCEPT ![k].flags = @ \cup {"DESTRUCT"}]
        BY <2>18 DEF ThreadLoopEnds
      <4> QED
        BY <2>0, <4>1, FlagsTyped
    <3> QED
      BY <2>18, <3>1 DEF TypeOK, ConfType, ThreadLoopEnds, Thread, ThrPC, GlobalVars
  <2>19. ASSUME NEW k \in Confs, Silence(k) PROVE TypeOK'
    <3>1. ConfType'
      BY <2>19, <2>0, FlagsTyped DEF Silence
    <3> QED
      BY <2>19, <3>1 DEF TypeOK, ConfType, Silence, GlobalVars
  <2>20. ASSUME NEW k \in Confs, Sweep(k) PROVE TypeOK'
    BY <2>20 DEF TypeOK, Sweep, Thread, ThrPC, GlobalVars
  <2>21. ASSUME NEW k \in Confs, Unhash(k) PROVE TypeOK'
    <3>1. ConfType'
      BY <2>21, <2>0, FlagsTyped DEF Unhash
    <3> QED
      BY <2>21, <3>1 DEF TypeOK, ConfType, Unhash, Thread, ThrPC, GlobalVars
  <2>22. ASSUME NEW k \in Confs, WrLock(k) PROVE TypeOK'
    BY <2>22 DEF TypeOK, WrLock, Thread, ThrPC, GlobalVars
  <2>23. ASSUME NEW k \in Confs, WrUnlock(k) PROVE TypeOK'
    BY <2>23 DEF TypeOK, WrUnlock, Thread, ThrPC, GlobalVars
  <2>24. ASSUME NEW k \in Confs, Destroy(k) PROVE TypeOK'
    <3>1. ConfType'
      BY <2>24, <2>0, ObjectTyped, FieldsTyped DEF ConfType, Destroy
    <3> QED
      BY <2>24, <3>1 DEF TypeOK, ConfType, Destroy, Thread, ThrPC, GlobalVars
  <2>25. ASSUME NEW r \in Recorders, RecordStart(r) PROVE TypeOK'
    <3>1. ConfType'
      BY <2>25, <2>0, TryRdLockTyped DEF RecordStart
    <3> QED
      BY <2>25, <3>1 DEF TypeOK, ConfType, RecordStart, TryRdLock, Goto, RecorderPC, GlobalVars
  <2>26. ASSUME NEW r \in Recorders, RecordAdd(r) PROVE TypeOK'
    <3>1. ConfType'
      BY <2>26, <2>0, MembersTyped DEF RecordAdd
    <3> QED
      BY <2>26, <3>1 DEF TypeOK, ConfType, RecordAdd, Goto, RecorderPC, MemberFlags, GlobalVars
  <2>27. ASSUME NEW r \in Recorders, RecordStop(r) PROVE TypeOK'
    BY <2>27 DEF TypeOK, RecordStop, Goto, RecorderPC, GlobalVars
  <2>28. ASSUME NEW r \in Recorders, RecordDel(r) PROVE TypeOK'
    <3>1. ConfType'
      BY <2>28, <2>0, MembersTyped DEF RecordDel
    <3> QED
      BY <2>28, <3>1 DEF TypeOK, ConfType, RecordDel, Goto, RecorderPC, GlobalVars
  <2>29. ASSUME NEW r \in Recorders, RecordRelease(r) PROVE TypeOK'
    <3>1. ConfType'
      BY <2>29, <2>0, RdUnlockTyped DEF RecordRelease
    <3>2. /\ pc' = [pc EXCEPT ![r] = "out"]
          /\ ptr' = [ptr EXCEPT ![r] = NoConf]
          /\ threads' \in Int
          /\ UNCHANGED <<conference_hash, setup_mutex, thr, want, flag, held, module, fault>>
      BY <2>29 DEF TypeOK, RecordRelease, Goto
    <3> HIDE <2>29
    <3> QED
      BY <3>1, <3>2 DEF TypeOK, ConfType, RecorderPC
  <2>30. ASSUME NEW a \in Admins, AdminFind(a) PROVE TypeOK'
    <3>1. ConfType'
      BY <2>30, <2>0, EvictTyped DEF AdminFind
    <3> QED
      BY <2>30, <3>1 DEF TypeOK, ConfType, AdminFind, Evict, Found, Goto, AdminPC, GlobalVars
  <2>31. ASSUME NEW a \in Admins, Probe(a) PROVE TypeOK'
    BY <2>31 DEF TypeOK, Probe, Goto, AdminPC, GlobalVars
  <2>32. ASSUME NEW a \in Admins, AdminRdLock(a) PROVE TypeOK'
    <3>1. ConfType'
      BY <2>32, <2>0, TryRdLockTyped DEF AdminRdLock
    <3> QED
      BY <2>32, <3>1 DEF TypeOK, ConfType, AdminRdLock, TryRdLock, Goto, AdminPC, GlobalVars
  <2>33. ASSUME NEW a \in Admins, LockRoom(a) PROVE TypeOK'
    <3>1. ConfType'
      <4>1. \/ conf' = [conf EXCEPT ![ptr[a]].flags = @ \cup {"LOCKED"}]
            \/ conf' = [conf EXCEPT ![ptr[a]].flags = @ \ {"LOCKED"}]
        BY <2>33 DEF LockRoom
      <4> QED
        BY <2>0, <4>1, FlagsTyped
    <3> QED
      BY <2>33, <3>1 DEF TypeOK, ConfType, LockRoom, Goto, AdminPC, GlobalVars
  <2>34. ASSUME NEW a \in Admins, StopAll(a) PROVE TypeOK'
    BY <2>34, StopTyped DEF TypeOK, StopAll, Goto, AdminPC, GlobalVars
  <2>35. ASSUME NEW a \in Admins, MemberGet(a) PROVE TypeOK'
    BY <2>35 DEF TypeOK, MemberGet, Callers_in, Members, Goto, AdminPC, GlobalVars
  <2>36. ASSUME NEW a \in Admins, StopMember(a) PROVE TypeOK'
    BY <2>36, StopTyped DEF TypeOK, StopMember, Goto, AdminPC, GlobalVars
  <2>37. ASSUME NEW a \in Admins, Record(a) PROVE TypeOK'
    BY <2>37 DEF TypeOK, Record, Threads, Members, AdminPC, RecorderPC, GlobalVars
  <2>38. ASSUME NEW a \in Admins, NoRecord(a) PROVE TypeOK'
    BY <2>38, StopTyped DEF TypeOK, NoRecord, Goto, AdminPC, GlobalVars
  <2>39. ASSUME NEW a \in Admins, AdminRelease(a) PROVE TypeOK'
    <3>1. ConfType'
      BY <2>39, <2>0, RdUnlockTyped DEF AdminRelease
    <3> QED
      BY <2>39, <3>1 DEF TypeOK, ConfType, AdminRelease, Goto, AdminPC, GlobalVars
  <2>40. ASSUME NEW x \in Threads, UseAfterFree(x) PROVE TypeOK'
    BY <2>40 DEF TypeOK, UseAfterFree
  <2>41. ASSUME Shutdown PROVE TypeOK'
    BY <2>41 DEF TypeOK, Shutdown
  <2>42. ASSUME ShutdownDone PROVE TypeOK'
    BY <2>42 DEF TypeOK, ShutdownDone
  <2>43. CASE UNCHANGED vars
    BY <2>43 DEF TypeOK, vars
  <2> QED
    BY <2>1, <2>2, <2>3, <2>w, <2>4, <2>5, <2>6, <2>7, <2>8, <2>9, <2>10, <2>11,
       <2>12, <2>13, <2>14, <2>15, <2>16, <2>17, <2>18, <2>19, <2>20, <2>21,
       <2>22, <2>23, <2>24, <2>25, <2>26, <2>27, <2>28, <2>29, <2>30, <2>31,
       <2>32, <2>33, <2>34, <2>35, <2>36, <2>37, <2>38, <2>39, <2>40, <2>41,
       <2>42, <2>43
    DEF Next, CallerStep, ThreadStep,
       RecorderStep, AdminStep, Command, Halted
<1> QED
  BY <1>1, <1>2, PTL DEF Spec

(***************************************************************************)
(* What the steps leave alone in the conference objects.                   *)
(***************************************************************************)
\* The fields of every object but its rwlock.
SameObjects ==
    \A k \in Confs : /\ conf'[k].name = conf[k].name
                     /\ conf'[k].flags = conf[k].flags
                     /\ conf'[k].count = conf[k].count
                     /\ conf'[k].end_count = conf[k].end_count
                     /\ conf'[k].min = conf[k].min
                     /\ conf'[k].members = conf[k].members

\* The member lists and their counters.
SameMembers ==
    \A k \in Confs : /\ conf'[k].members = conf[k].members
                     /\ conf'[k].count = conf[k].count
                     /\ conf'[k].end_count = conf[k].end_count

\* Taking the read lock changes nothing else of a conference.
LEMMA TryRdLockFrame ==
    ASSUME ConfType, NEW x, NEW at, NEW to, TryRdLock(x, at, to)
    PROVE  SameObjects
  BY DEF ConfType, ConfRec, TryRdLock, SameObjects

\* Nor does releasing it.
LEMMA RdUnlockFrame ==
    ASSUME ConfType, NEW x, RdUnlock(x)
    PROVE  SameObjects
  BY DEF ConfType, ConfRec, RdUnlock, SameObjects

\* Objects that are the same have the same members.
LEMMA SameObjectsMembers == SameObjects => SameMembers
  BY DEF SameObjects, SameMembers

\* conference_find changes nothing but CFLAG_INHASH.
LEMMA EvictFrame ==
    ASSUME ConfType, NEW n, Evict(n)
    PROVE  /\ SameMembers
           /\ \A k \in Confs : /\ conf'[k].min = conf[k].min
                               /\ \A f \in ConfFlags \ {"INHASH"} :
                                    f \in conf'[k].flags <=> f \in conf[k].flags
  BY DEF ConfType, ConfRec, Evict, SameMembers

\* The creator changes the minimum and two flags of its own object.
LEMMA LaunchFrame ==
    ASSUME ConfType, NEW c, Launch(c)
    PROVE  /\ SameMembers
           /\ \A k \in Confs \ {ptr[c]} : conf'[k] = conf[k]
           /\ ptr[c] \in Confs =>
                /\ conf'[ptr[c]].flags = conf[ptr[c]].flags \cup {"DYNAMIC", "RUNNING"}
                /\ conf'[ptr[c]].min \in {1, 2}
  BY DEF ConfType, ConfRec, Launch, SameMembers

\* A MINTWO caller changes the minimum only, and joins next.
LEMMA SetupFrame ==
    ASSUME ConfType, NEW c, Setup(c)
    PROVE  /\ SameMembers
           /\ \A k \in Confs : conf'[k].name = conf[k].name /\ conf'[k].flags = conf[k].flags
           /\ \/ conf' = conf
              \/ /\ c \in MinTwo /\ pc' = [pc EXCEPT ![c] = "adding"]
                 /\ \A k \in Confs \ {ptr[c]} : conf'[k] = conf[k]
                 /\ ptr[c] \in Confs => conf'[ptr[c]].min = 2
<1>1. CASE conf' = conf
  BY <1>1 DEF SameMembers
<1>2. CASE conf' = [conf EXCEPT ![ptr[c]].min = 2] /\ c \in MinTwo /\ pc' = [pc EXCEPT ![c] = "adding"]
  BY <1>2 DEF ConfType, ConfRec, SameMembers
<1> QED
  BY <1>1, <1>2 DEF Setup, Goto

-----------------------------------------------------------------------------

(***************************************************************************)
(* II. The registry of conferences, globals.conference_hash, always leads  *)
(* to the conference of that name whose pool is intact, and a conference   *)
(* that believes to be registered is the one its name leads to.            *)
(***************************************************************************)

\* globals.setup_mutex covers the span from conference_find to the insertion.
SetupOwner == \A c \in Callers : pc[c] \in {"find", "new"} => setup_mutex = c

\* Whoever is about to create a conference has found its name free.
NameFree == \A c \in Callers : pc[c] = "new" => conference_hash[want[c]] = NoConf

\* A conference object has one creator, which starts its thread once.
OneLauncher ==
    \A c \in Callers : pc[c] = "launch" =>
        /\ ptr[c] \in Confs /\ thr[ptr[c]] = "new"
        /\ \A d \in Callers : pc[d] = "launch" /\ ptr[d] = ptr[c] => d = c

\* A caller that has no conference yet has no pointer.
Unattached ==
    \A c \in Callers : pc[c] \in {"out", "find", "new"} => ptr[c] = NoConf

SetupInv == SetupOwner /\ NameFree /\ OneLauncher /\ Unattached

Registry == RegistrySound /\ RegisteredIsFound

(***************************************************************************)
(* The critical section of globals.setup_mutex.                            *)
(***************************************************************************)
\* Every step keeps the mutex with the one caller that may insert, and the name
\* it looked up free.
LEMMA SetupOwnerStep ==
    ASSUME TypeOK, (SetupOwner /\ NameFree), [Next]_vars
    PROVE  (SetupOwner /\ NameFree)'
<1>0. RoomAssumption
  BY RoomAssumption
<1> USE DEF TypeOK, RoomAssumption, SetupOwner, NameFree, Threads, Members
<1>1. ASSUME NEW c \in Callers, Enter(c) PROVE (SetupOwner /\ NameFree)'
  BY <1>1, <1>0 DEF Enter, Goto
<1>2. ASSUME NEW c \in Callers, Find(c) PROVE (SetupOwner /\ NameFree)'
  BY <1>2, <1>0 DEF Find, Evict, Found, Has, Goto
<1>3. ASSUME NEW c \in Callers, conference_new(c) PROVE (SetupOwner /\ NameFree)'
  BY <1>3, <1>0 DEF conference_new, Alive, Unreferenced, Blank, Goto
<1>4. ASSUME NEW c \in Callers, Launch(c) PROVE (SetupOwner /\ NameFree)'
  BY <1>4, <1>0 DEF Launch, At, Alive, Goto
<1>5. ASSUME NEW c \in Callers, RdLock(c) PROVE (SetupOwner /\ NameFree)'
  BY <1>5, <1>0 DEF RdLock, At, Alive, TryRdLock, Goto
<1>6. ASSUME NEW c \in Callers, EnterPin(c) PROVE (SetupOwner /\ NameFree)'
  BY <1>6, <1>0 DEF EnterPin, At, Alive, Goto
<1>7. ASSUME NEW c \in Callers, Check(c) PROVE (SetupOwner /\ NameFree)'
  BY <1>7, <1>0 DEF Check, At, Alive, Goto
<1>8. ASSUME NEW c \in Callers, Dial(c) PROVE (SetupOwner /\ NameFree)'
  BY <1>8, <1>0 DEF Dial, At, Alive, TryRdLock, Goto
<1>9. ASSUME NEW c \in Callers, Dialed(c) PROVE (SetupOwner /\ NameFree)'
  BY <1>9, <1>0 DEF Dialed, At, Alive, RdUnlock, Goto
<1>10. ASSUME NEW c \in Callers, Setup(c) PROVE (SetupOwner /\ NameFree)'
  BY <1>10, <1>0 DEF Setup, At, Alive, Goto
<1>11. ASSUME NEW c \in Callers, conference_add_member(c) PROVE (SetupOwner /\ NameFree)'
  BY <1>11, <1>0 DEF conference_add_member, At, Alive, Added, Goto
<1>12. ASSUME NEW c \in Callers, LoopStopped(c) PROVE (SetupOwner /\ NameFree)'
  BY <1>12, <1>0 DEF LoopStopped, At, Alive, Goto
<1>w. ASSUME NEW c \in Callers, WrLockMember(c) PROVE (SetupOwner /\ NameFree)'
  BY <1>w, <1>0 DEF WrLockMember, At, Alive, Goto
<1>13. ASSUME NEW c \in Callers, Hangup(c) PROVE (SetupOwner /\ NameFree)'
  BY <1>13, <1>0 DEF Hangup, At, Alive, Goto
<1>14. ASSUME NEW c \in Callers, conference_del_member(c) PROVE (SetupOwner /\ NameFree)'
  BY <1>14, <1>0 DEF conference_del_member, At, Alive, Deleted, Goto
<1>15. ASSUME NEW c \in Callers, Done(c) PROVE (SetupOwner /\ NameFree)'
  BY <1>15, <1>0 DEF Done, At, Alive, Goto
<1>16. ASSUME NEW c \in Callers, Release(c) PROVE (SetupOwner /\ NameFree)'
  BY <1>16, <1>0 DEF Release, RdUnlock, Goto
<1>17. ASSUME NEW k \in Confs, ThreadStart(k) PROVE (SetupOwner /\ NameFree)'
  BY <1>17, <1>0 DEF ThreadStart, Thread
<1>18. ASSUME NEW k \in Confs, ThreadLoopEnds(k) PROVE (SetupOwner /\ NameFree)'
  BY <1>18, <1>0 DEF ThreadLoopEnds, Thread
<1>19. ASSUME NEW k \in Confs, Silence(k) PROVE (SetupOwner /\ NameFree)'
  BY <1>19, <1>0 DEF Silence
<1>20. ASSUME NEW k \in Confs, Sweep(k) PROVE (SetupOwner /\ NameFree)'
  BY <1>20, <1>0 DEF Sweep, Thread
<1>21. ASSUME NEW k \in Confs, Unhash(k) PROVE (SetupOwner /\ NameFree)'
  BY <1>21, <1>0 DEF Unhash, Thread
<1>22. ASSUME NEW k \in Confs, WrLock(k) PROVE (SetupOwner /\ NameFree)'
  BY <1>22, <1>0 DEF WrLock, Thread
<1>23. ASSUME NEW k \in Confs, WrUnlock(k) PROVE (SetupOwner /\ NameFree)'
  BY <1>23, <1>0 DEF WrUnlock, Thread
<1>24. ASSUME NEW k \in Confs, Destroy(k) PROVE (SetupOwner /\ NameFree)'
  BY <1>24, <1>0 DEF Destroy, Blank, Thread
<1>25. ASSUME NEW r \in Recorders, RecordStart(r) PROVE (SetupOwner /\ NameFree)'
  BY <1>25, <1>0 DEF RecordStart, At, Alive, TryRdLock, Goto
<1>26. ASSUME NEW r \in Recorders, RecordAdd(r) PROVE (SetupOwner /\ NameFree)'
  BY <1>26, <1>0 DEF RecordAdd, At, Alive, Goto
<1>27. ASSUME NEW r \in Recorders, RecordStop(r) PROVE (SetupOwner /\ NameFree)'
  BY <1>27, <1>0 DEF RecordStop, At, Alive, Goto
<1>28. ASSUME NEW r \in Recorders, RecordDel(r) PROVE (SetupOwner /\ NameFree)'
  BY <1>28, <1>0 DEF RecordDel, At, Alive, Goto
<1>29. ASSUME NEW r \in Recorders, RecordRelease(r) PROVE (SetupOwner /\ NameFree)'
  BY <1>29, <1>0 DEF RecordRelease, At, Alive, RdUnlock, Goto
<1>30. ASSUME NEW a \in Admins, AdminFind(a) PROVE (SetupOwner /\ NameFree)'
  BY <1>30, <1>0 DEF AdminFind, Evict, Found, Goto
<1>31. ASSUME NEW a \in Admins, Probe(a) PROVE (SetupOwner /\ NameFree)'
  BY <1>31, <1>0 DEF Probe, At, Alive, Goto
<1>32. ASSUME NEW a \in Admins, AdminRdLock(a) PROVE (SetupOwner /\ NameFree)'
  BY <1>32, <1>0 DEF AdminRdLock, At, Alive, TryRdLock, Goto
<1>33. ASSUME NEW a \in Admins, LockRoom(a) PROVE (SetupOwner /\ NameFree)'
  BY <1>33, <1>0 DEF LockRoom, At, Alive, Goto
<1>34. ASSUME NEW a \in Admins, StopAll(a) PROVE (SetupOwner /\ NameFree)'
  BY <1>34, <1>0 DEF StopAll, At, Alive, Goto
<1>35. ASSUME NEW a \in Admins, MemberGet(a) PROVE (SetupOwner /\ NameFree)'
  BY <1>35, <1>0 DEF MemberGet, At, Alive, Callers_in, Goto
<1>36. ASSUME NEW a \in Admins, StopMember(a) PROVE (SetupOwner /\ NameFree)'
  BY <1>36, <1>0 DEF StopMember, At, Alive, Goto
<1>37. ASSUME NEW a \in Admins, Record(a) PROVE (SetupOwner /\ NameFree)'
  BY <1>37, <1>0 DEF Record, At, Alive
<1>38. ASSUME NEW a \in Admins, NoRecord(a) PROVE (SetupOwner /\ NameFree)'
  BY <1>38, <1>0 DEF NoRecord, At, Alive, Goto
<1>39. ASSUME NEW a \in Admins, AdminRelease(a) PROVE (SetupOwner /\ NameFree)'
  BY <1>39, <1>0 DEF AdminRelease, RdUnlock, Goto
<1>40. ASSUME NEW x \in Threads, UseAfterFree(x) PROVE (SetupOwner /\ NameFree)'
  BY <1>40, <1>0 DEF UseAfterFree
<1>41. ASSUME Shutdown PROVE (SetupOwner /\ NameFree)'
  BY <1>41, <1>0 DEF Shutdown
<1>42. ASSUME ShutdownDone PROVE (SetupOwner /\ NameFree)'
  BY <1>42, <1>0 DEF ShutdownDone
<1>43. CASE UNCHANGED vars
  BY <1>43 DEF vars
<1> QED
  BY <1>1, <1>2, <1>3, <1>w, <1>4, <1>5, <1>6, <1>7, <1>8, <1>9, <1>10, <1>11, <1>12,
     <1>13, <1>14, <1>15, <1>16, <1>17, <1>18, <1>19, <1>20, <1>21, <1>22,
     <1>23, <1>24, <1>25, <1>26, <1>27, <1>28, <1>29, <1>30, <1>31, <1>32,
     <1>33, <1>34, <1>35, <1>36, <1>37, <1>38, <1>39, <1>40, <1>41, <1>42, <1>43
  DEF Next, CallerStep, ThreadStep, RecorderStep, AdminStep, Command, Halted

\* Every step keeps the creator of an object single until it is launched.
LEMMA OneLauncherStep ==
    ASSUME TypeOK, OneLauncher, [Next]_vars
    PROVE  OneLauncher'
<1>0. RoomAssumption
  BY RoomAssumption
<1> USE DEF TypeOK, RoomAssumption, OneLauncher, Threads, Members
<1>1. ASSUME NEW c \in Callers, Enter(c) PROVE OneLauncher'
  BY <1>1, <1>0 DEF Enter, Goto
<1>2. ASSUME NEW c \in Callers, Find(c) PROVE OneLauncher'
  BY <1>2, <1>0 DEF Find, Evict, Found, Has, Goto
<1>3. ASSUME NEW c \in Callers, conference_new(c) PROVE OneLauncher'
  BY <1>3, <1>0 DEF conference_new, Alive, Unreferenced, Blank, Goto
<1>4. ASSUME NEW c \in Callers, Launch(c) PROVE OneLauncher'
  BY <1>4, <1>0 DEF Launch, At, Alive, Goto
<1>5. ASSUME NEW c \in Callers, RdLock(c) PROVE OneLauncher'
  BY <1>5, <1>0 DEF RdLock, At, Alive, TryRdLock, Goto
<1>6. ASSUME NEW c \in Callers, EnterPin(c) PROVE OneLauncher'
  BY <1>6, <1>0 DEF EnterPin, At, Alive, Goto
<1>7. ASSUME NEW c \in Callers, Check(c) PROVE OneLauncher'
  BY <1>7, <1>0 DEF Check, At, Alive, Goto
<1>8. ASSUME NEW c \in Callers, Dial(c) PROVE OneLauncher'
  BY <1>8, <1>0 DEF Dial, At, Alive, TryRdLock, Goto
<1>9. ASSUME NEW c \in Callers, Dialed(c) PROVE OneLauncher'
  BY <1>9, <1>0 DEF Dialed, At, Alive, RdUnlock, Goto
<1>10. ASSUME NEW c \in Callers, Setup(c) PROVE OneLauncher'
  BY <1>10, <1>0 DEF Setup, At, Alive, Goto
<1>11. ASSUME NEW c \in Callers, conference_add_member(c) PROVE OneLauncher'
  BY <1>11, <1>0 DEF conference_add_member, At, Alive, Added, Goto
<1>12. ASSUME NEW c \in Callers, LoopStopped(c) PROVE OneLauncher'
  BY <1>12, <1>0 DEF LoopStopped, At, Alive, Goto
<1>w. ASSUME NEW c \in Callers, WrLockMember(c) PROVE OneLauncher'
  BY <1>w, <1>0 DEF WrLockMember, At, Alive, Goto
<1>13. ASSUME NEW c \in Callers, Hangup(c) PROVE OneLauncher'
  BY <1>13, <1>0 DEF Hangup, At, Alive, Goto
<1>14. ASSUME NEW c \in Callers, conference_del_member(c) PROVE OneLauncher'
  BY <1>14, <1>0 DEF conference_del_member, At, Alive, Deleted, Goto
<1>15. ASSUME NEW c \in Callers, Done(c) PROVE OneLauncher'
  BY <1>15, <1>0 DEF Done, At, Alive, Goto
<1>16. ASSUME NEW c \in Callers, Release(c) PROVE OneLauncher'
  BY <1>16, <1>0 DEF Release, RdUnlock, Goto
<1>17. ASSUME NEW k \in Confs, ThreadStart(k) PROVE OneLauncher'
  BY <1>17, <1>0 DEF ThreadStart, Thread
<1>18. ASSUME NEW k \in Confs, ThreadLoopEnds(k) PROVE OneLauncher'
  BY <1>18, <1>0 DEF ThreadLoopEnds, Thread
<1>19. ASSUME NEW k \in Confs, Silence(k) PROVE OneLauncher'
  BY <1>19, <1>0 DEF Silence
<1>20. ASSUME NEW k \in Confs, Sweep(k) PROVE OneLauncher'
  BY <1>20, <1>0 DEF Sweep, Thread
<1>21. ASSUME NEW k \in Confs, Unhash(k) PROVE OneLauncher'
  BY <1>21, <1>0 DEF Unhash, Thread
<1>22. ASSUME NEW k \in Confs, WrLock(k) PROVE OneLauncher'
  BY <1>22, <1>0 DEF WrLock, Thread
<1>23. ASSUME NEW k \in Confs, WrUnlock(k) PROVE OneLauncher'
  BY <1>23, <1>0 DEF WrUnlock, Thread
<1>24. ASSUME NEW k \in Confs, Destroy(k) PROVE OneLauncher'
  BY <1>24, <1>0 DEF Destroy, Blank, Thread
<1>25. ASSUME NEW r \in Recorders, RecordStart(r) PROVE OneLauncher'
  BY <1>25, <1>0 DEF RecordStart, At, Alive, TryRdLock, Goto
<1>26. ASSUME NEW r \in Recorders, RecordAdd(r) PROVE OneLauncher'
  BY <1>26, <1>0 DEF RecordAdd, At, Alive, Goto
<1>27. ASSUME NEW r \in Recorders, RecordStop(r) PROVE OneLauncher'
  BY <1>27, <1>0 DEF RecordStop, At, Alive, Goto
<1>28. ASSUME NEW r \in Recorders, RecordDel(r) PROVE OneLauncher'
  BY <1>28, <1>0 DEF RecordDel, At, Alive, Goto
<1>29. ASSUME NEW r \in Recorders, RecordRelease(r) PROVE OneLauncher'
  BY <1>29, <1>0 DEF RecordRelease, At, Alive, RdUnlock, Goto
<1>30. ASSUME NEW a \in Admins, AdminFind(a) PROVE OneLauncher'
  BY <1>30, <1>0 DEF AdminFind, Evict, Found, Goto
<1>31. ASSUME NEW a \in Admins, Probe(a) PROVE OneLauncher'
  BY <1>31, <1>0 DEF Probe, At, Alive, Goto
<1>32. ASSUME NEW a \in Admins, AdminRdLock(a) PROVE OneLauncher'
  BY <1>32, <1>0 DEF AdminRdLock, At, Alive, TryRdLock, Goto
<1>33. ASSUME NEW a \in Admins, LockRoom(a) PROVE OneLauncher'
  BY <1>33, <1>0 DEF LockRoom, At, Alive, Goto
<1>34. ASSUME NEW a \in Admins, StopAll(a) PROVE OneLauncher'
  BY <1>34, <1>0 DEF StopAll, At, Alive, Goto
<1>35. ASSUME NEW a \in Admins, MemberGet(a) PROVE OneLauncher'
  BY <1>35, <1>0 DEF MemberGet, At, Alive, Callers_in, Goto
<1>36. ASSUME NEW a \in Admins, StopMember(a) PROVE OneLauncher'
  BY <1>36, <1>0 DEF StopMember, At, Alive, Goto
<1>37. ASSUME NEW a \in Admins, Record(a) PROVE OneLauncher'
  BY <1>37, <1>0 DEF Record, At, Alive
<1>38. ASSUME NEW a \in Admins, NoRecord(a) PROVE OneLauncher'
  BY <1>38, <1>0 DEF NoRecord, At, Alive, Goto
<1>39. ASSUME NEW a \in Admins, AdminRelease(a) PROVE OneLauncher'
  BY <1>39, <1>0 DEF AdminRelease, RdUnlock, Goto
<1>40. ASSUME NEW x \in Threads, UseAfterFree(x) PROVE OneLauncher'
  BY <1>40, <1>0 DEF UseAfterFree
<1>41. ASSUME Shutdown PROVE OneLauncher'
  BY <1>41, <1>0 DEF Shutdown
<1>42. ASSUME ShutdownDone PROVE OneLauncher'
  BY <1>42, <1>0 DEF ShutdownDone
<1>43. CASE UNCHANGED vars
  BY <1>43 DEF vars
<1> QED
  BY <1>1, <1>2, <1>3, <1>w, <1>4, <1>5, <1>6, <1>7, <1>8, <1>9, <1>10, <1>11, <1>12,
     <1>13, <1>14, <1>15, <1>16, <1>17, <1>18, <1>19, <1>20, <1>21, <1>22,
     <1>23, <1>24, <1>25, <1>26, <1>27, <1>28, <1>29, <1>30, <1>31, <1>32,
     <1>33, <1>34, <1>35, <1>36, <1>37, <1>38, <1>39, <1>40, <1>41, <1>42, <1>43
  DEF Next, CallerStep, ThreadStep, RecorderStep, AdminStep, Command, Halted

\* Every step leaves a caller without a conference without a pointer.
LEMMA UnattachedStep ==
    ASSUME TypeOK, Unattached, [Next]_vars
    PROVE  Unattached'
<1>0. RoomAssumption
  BY RoomAssumption
<1> USE DEF TypeOK, RoomAssumption, Unattached, Threads, Members
<1>1. ASSUME NEW c \in Callers, Enter(c) PROVE Unattached'
  BY <1>1, <1>0 DEF Enter, Goto
<1>2. ASSUME NEW c \in Callers, Find(c) PROVE Unattached'
  BY <1>2, <1>0 DEF Find, Evict, Found, Has, Goto
<1>3. ASSUME NEW c \in Callers, conference_new(c) PROVE Unattached'
  BY <1>3, <1>0 DEF conference_new, Alive, Unreferenced, Blank, Goto
<1>4. ASSUME NEW c \in Callers, Launch(c) PROVE Unattached'
  BY <1>4, <1>0 DEF Launch, At, Alive, Goto
<1>5. ASSUME NEW c \in Callers, RdLock(c) PROVE Unattached'
  BY <1>5, <1>0 DEF RdLock, At, Alive, TryRdLock, Goto
<1>6. ASSUME NEW c \in Callers, EnterPin(c) PROVE Unattached'
  BY <1>6, <1>0 DEF EnterPin, At, Alive, Goto
<1>7. ASSUME NEW c \in Callers, Check(c) PROVE Unattached'
  BY <1>7, <1>0 DEF Check, At, Alive, Goto
<1>8. ASSUME NEW c \in Callers, Dial(c) PROVE Unattached'
  BY <1>8, <1>0 DEF Dial, At, Alive, TryRdLock, Goto
<1>9. ASSUME NEW c \in Callers, Dialed(c) PROVE Unattached'
  BY <1>9, <1>0 DEF Dialed, At, Alive, RdUnlock, Goto
<1>10. ASSUME NEW c \in Callers, Setup(c) PROVE Unattached'
  BY <1>10, <1>0 DEF Setup, At, Alive, Goto
<1>11. ASSUME NEW c \in Callers, conference_add_member(c) PROVE Unattached'
  BY <1>11, <1>0 DEF conference_add_member, At, Alive, Added, Goto
<1>12. ASSUME NEW c \in Callers, LoopStopped(c) PROVE Unattached'
  BY <1>12, <1>0 DEF LoopStopped, At, Alive, Goto
<1>w. ASSUME NEW c \in Callers, WrLockMember(c) PROVE Unattached'
  BY <1>w, <1>0 DEF WrLockMember, At, Alive, Goto
<1>13. ASSUME NEW c \in Callers, Hangup(c) PROVE Unattached'
  BY <1>13, <1>0 DEF Hangup, At, Alive, Goto
<1>14. ASSUME NEW c \in Callers, conference_del_member(c) PROVE Unattached'
  BY <1>14, <1>0 DEF conference_del_member, At, Alive, Deleted, Goto
<1>15. ASSUME NEW c \in Callers, Done(c) PROVE Unattached'
  BY <1>15, <1>0 DEF Done, At, Alive, Goto
<1>16. ASSUME NEW c \in Callers, Release(c) PROVE Unattached'
  BY <1>16, <1>0 DEF Release, RdUnlock, Goto
<1>17. ASSUME NEW k \in Confs, ThreadStart(k) PROVE Unattached'
  BY <1>17, <1>0 DEF ThreadStart, Thread
<1>18. ASSUME NEW k \in Confs, ThreadLoopEnds(k) PROVE Unattached'
  BY <1>18, <1>0 DEF ThreadLoopEnds, Thread
<1>19. ASSUME NEW k \in Confs, Silence(k) PROVE Unattached'
  BY <1>19, <1>0 DEF Silence
<1>20. ASSUME NEW k \in Confs, Sweep(k) PROVE Unattached'
  BY <1>20, <1>0 DEF Sweep, Thread
<1>21. ASSUME NEW k \in Confs, Unhash(k) PROVE Unattached'
  BY <1>21, <1>0 DEF Unhash, Thread
<1>22. ASSUME NEW k \in Confs, WrLock(k) PROVE Unattached'
  BY <1>22, <1>0 DEF WrLock, Thread
<1>23. ASSUME NEW k \in Confs, WrUnlock(k) PROVE Unattached'
  BY <1>23, <1>0 DEF WrUnlock, Thread
<1>24. ASSUME NEW k \in Confs, Destroy(k) PROVE Unattached'
  BY <1>24, <1>0 DEF Destroy, Blank, Thread
<1>25. ASSUME NEW r \in Recorders, RecordStart(r) PROVE Unattached'
  BY <1>25, <1>0 DEF RecordStart, At, Alive, TryRdLock, Goto
<1>26. ASSUME NEW r \in Recorders, RecordAdd(r) PROVE Unattached'
  BY <1>26, <1>0 DEF RecordAdd, At, Alive, Goto
<1>27. ASSUME NEW r \in Recorders, RecordStop(r) PROVE Unattached'
  BY <1>27, <1>0 DEF RecordStop, At, Alive, Goto
<1>28. ASSUME NEW r \in Recorders, RecordDel(r) PROVE Unattached'
  BY <1>28, <1>0 DEF RecordDel, At, Alive, Goto
<1>29. ASSUME NEW r \in Recorders, RecordRelease(r) PROVE Unattached'
  BY <1>29, <1>0 DEF RecordRelease, At, Alive, RdUnlock, Goto
<1>30. ASSUME NEW a \in Admins, AdminFind(a) PROVE Unattached'
  BY <1>30, <1>0 DEF AdminFind, Evict, Found, Goto
<1>31. ASSUME NEW a \in Admins, Probe(a) PROVE Unattached'
  BY <1>31, <1>0 DEF Probe, At, Alive, Goto
<1>32. ASSUME NEW a \in Admins, AdminRdLock(a) PROVE Unattached'
  BY <1>32, <1>0 DEF AdminRdLock, At, Alive, TryRdLock, Goto
<1>33. ASSUME NEW a \in Admins, LockRoom(a) PROVE Unattached'
  BY <1>33, <1>0 DEF LockRoom, At, Alive, Goto
<1>34. ASSUME NEW a \in Admins, StopAll(a) PROVE Unattached'
  BY <1>34, <1>0 DEF StopAll, At, Alive, Goto
<1>35. ASSUME NEW a \in Admins, MemberGet(a) PROVE Unattached'
  BY <1>35, <1>0 DEF MemberGet, At, Alive, Callers_in, Goto
<1>36. ASSUME NEW a \in Admins, StopMember(a) PROVE Unattached'
  BY <1>36, <1>0 DEF StopMember, At, Alive, Goto
<1>37. ASSUME NEW a \in Admins, Record(a) PROVE Unattached'
  BY <1>37, <1>0 DEF Record, At, Alive
<1>38. ASSUME NEW a \in Admins, NoRecord(a) PROVE Unattached'
  BY <1>38, <1>0 DEF NoRecord, At, Alive, Goto
<1>39. ASSUME NEW a \in Admins, AdminRelease(a) PROVE Unattached'
  BY <1>39, <1>0 DEF AdminRelease, RdUnlock, Goto
<1>40. ASSUME NEW x \in Threads, UseAfterFree(x) PROVE Unattached'
  BY <1>40, <1>0 DEF UseAfterFree
<1>41. ASSUME Shutdown PROVE Unattached'
  BY <1>41, <1>0 DEF Shutdown
<1>42. ASSUME ShutdownDone PROVE Unattached'
  BY <1>42, <1>0 DEF ShutdownDone
<1>43. CASE UNCHANGED vars
  BY <1>43 DEF vars
<1> QED
  BY <1>1, <1>2, <1>3, <1>w, <1>4, <1>5, <1>6, <1>7, <1>8, <1>9, <1>10, <1>11, <1>12,
     <1>13, <1>14, <1>15, <1>16, <1>17, <1>18, <1>19, <1>20, <1>21, <1>22,
     <1>23, <1>24, <1>25, <1>26, <1>27, <1>28, <1>29, <1>30, <1>31, <1>32,
     <1>33, <1>34, <1>35, <1>36, <1>37, <1>38, <1>39, <1>40, <1>41, <1>42, <1>43
  DEF Next, CallerStep, ThreadStep, RecorderStep, AdminStep, Command, Halted

(***************************************************************************)
(* The registry itself.                                                    *)
(***************************************************************************)
\* A step that inserts, deletes and renames nothing keeps the registry sound.
LEMMA RegistryFrame ==
    ASSUME TypeOK, Registry, conference_hash' = conference_hash,
           \A k \in Confs :
             /\ thr[k] \in BeforeUnhash <=> thr'[k] \in BeforeUnhash
             /\ thr[k] \in BeforeUnhash =>
                  /\ conf'[k].name = conf[k].name
                  /\ "INHASH" \in conf'[k].flags <=> "INHASH" \in conf[k].flags
    PROVE  Registry'
  BY DEF TypeOK, Registry, RegistrySound, RegisteredIsFound, Has

\* conference_find takes a dying conference out and leaves its namesakes alone.
LEMMA EvictRegistry ==
    ASSUME TypeOK, Registry, NEW n \in Names, Evict(n), UNCHANGED thr
    PROVE  Registry'
<1> DEFINE k == conference_hash[n]
<1>1. CASE UNCHANGED <<conference_hash, conf>>
  BY <1>1, RegistryFrame
<1>2. CASE /\ k \in Confs
           /\ conference_hash' = [conference_hash EXCEPT ![n] = NoConf]
           /\ conf' = [conf EXCEPT ![k].flags = @ \ {"INHASH"}]
  <2>1. \A j \in Confs :
          /\ conf'[j].name = conf[j].name
          /\ "INHASH" \in conf'[j].flags <=> "INHASH" \in conf[j].flags /\ j # k
    BY <1>2 DEF TypeOK, ConfRec
  <2>2. /\ conference_hash'[n] = NoConf
        /\ \A m \in Names \ {n} : conference_hash'[m] = conference_hash[m]
    BY <1>2 DEF TypeOK
  <2>3. /\ thr' = thr /\ NoConf \notin Confs
        /\ \A j \in Confs : conf[j].name \in Names
    BY RoomAssumption DEF RoomAssumption, TypeOK, ConfRec
  <2> HIDE <1>2
  <2>4. RegistrySound'
    BY <2>1, <2>2, <2>3 DEF Registry, RegistrySound, RegisteredIsFound, Has, TypeOK
  <2>5. RegisteredIsFound'
    BY <2>1, <2>2, <2>3 DEF Registry, RegistrySound, RegisteredIsFound, Has, TypeOK
  <2> QED
    BY <2>4, <2>5 DEF Registry
<1> QED
  BY <1>1, <1>2 DEF Evict, TypeOK

\* Every step keeps the registry sound: inserted by conference_new, deleted by
\* the conference thread and by conference_find.
LEMMA RegistryStep ==
    ASSUME TypeOK, SetupInv, Registry, [Next]_vars
    PROVE  Registry'
<1>0. ConfType /\ NameFree /\ OneLauncher
  BY DEF TypeOK, ConfType, SetupInv
<1>1. ASSUME NEW c \in Callers, Enter(c) PROVE Registry'
  BY <1>1, RegistryFrame DEF TypeOK, BeforeUnhash, Enter
<1>2. ASSUME NEW c \in Callers, Find(c) PROVE Registry'
  BY <1>2, EvictRegistry DEF Find, TypeOK
<1>3. ASSUME NEW c \in Callers, conference_new(c) PROVE Registry'
  <2>1. CASE UNCHANGED <<thr, conf, conference_hash>>
    BY <2>1, RegistryFrame
  <2>2. ASSUME NEW k \in Confs, ~Alive(k),
               thr' = [thr EXCEPT ![k] = "new"],
               conf' = [conf EXCEPT ![k] = [Blank(want[c]) EXCEPT !.flags = {"INHASH"}]],
               conference_hash' = [conference_hash EXCEPT ![want[c]] = k]
        PROVE  Registry'
    <3>1. /\ conf'[k].name = want[c] /\ conf'[k].flags = {"INHASH"} /\ thr'[k] = "new"
          /\ \A j \in Confs \ {k} : conf'[j] = conf[j] /\ thr'[j] = thr[j]
      BY <2>2 DEF TypeOK, Blank
    <3>2. /\ want[c] \in Names /\ conference_hash'[want[c]] = k
          /\ \A n \in Names \ {want[c]} : conference_hash'[n] = conference_hash[n]
      BY <2>2 DEF TypeOK
    <3>3. conference_hash[want[c]] = NoConf
      BY <1>0, <1>3 DEF conference_new, NameFree
    <3>4. thr[k] = "free" /\ NoConf \notin Confs /\ \A j \in Confs : conf[j].name \in Names
      BY <2>2, RoomAssumption DEF Alive, TypeOK, ConfRec, RoomAssumption
    <3>5. RegistrySound'
      BY <3>1, <3>2, <3>4 DEF Registry, RegistrySound, TypeOK, BeforeUnhash, Has
    <3>6. RegisteredIsFound'
      BY <3>1, <3>2, <3>3, <3>4 DEF Registry, RegisteredIsFound, BeforeUnhash, Has
    <3> QED
      BY <3>5, <3>6 DEF Registry
  <2> QED
    BY <1>3, <2>1, <2>2 DEF conference_new
<1>4. ASSUME NEW c \in Callers, Launch(c) PROVE Registry'
  BY <1>4, <1>0, RegistryFrame
  DEF TypeOK, ConfRec, BeforeUnhash, Launch, At, OneLauncher
<1>5. ASSUME NEW c \in Callers, RdLock(c) PROVE Registry'
  BY <1>5, <1>0, TryRdLockFrame, RegistryFrame DEF RdLock, SameObjects
<1>6. ASSUME NEW c \in Callers, EnterPin(c) PROVE Registry'
  BY <1>6, RegistryFrame DEF TypeOK, BeforeUnhash, EnterPin
<1>7. ASSUME NEW c \in Callers, Check(c) PROVE Registry'
  BY <1>7, RegistryFrame DEF TypeOK, BeforeUnhash, Check
<1>8. ASSUME NEW c \in Callers, Dial(c) PROVE Registry'
  BY <1>8, <1>0, TryRdLockFrame, RegistryFrame DEF Dial, SameObjects, TypeOK
<1>9. ASSUME NEW c \in Callers, Dialed(c) PROVE Registry'
  BY <1>9, <1>0, RdUnlockFrame, RegistryFrame DEF Dialed, SameObjects
<1>10. ASSUME NEW c \in Callers, Setup(c) PROVE Registry'
  BY <1>10, <1>0, SetupFrame, RegistryFrame DEF Setup
<1>11. ASSUME NEW c \in Callers, conference_add_member(c) PROVE Registry'
  BY <1>11, RegistryFrame
  DEF TypeOK, ConfRec, BeforeUnhash, conference_add_member, Added
<1>12. ASSUME NEW c \in Callers, LoopStopped(c) PROVE Registry'
  BY <1>12, RegistryFrame DEF TypeOK, BeforeUnhash, LoopStopped
<1>w. ASSUME NEW c \in Callers, WrLockMember(c) PROVE Registry'
  BY <1>w, RegistryFrame DEF TypeOK, BeforeUnhash, WrLockMember
<1>13. ASSUME NEW c \in Callers, Hangup(c) PROVE Registry'
  BY <1>13, RegistryFrame DEF TypeOK, BeforeUnhash, Hangup
<1>14. ASSUME NEW c \in Callers, conference_del_member(c) PROVE Registry'
  BY <1>14, RegistryFrame
  DEF TypeOK, ConfRec, BeforeUnhash, conference_del_member, Deleted
<1>15. ASSUME NEW c \in Callers, Done(c) PROVE Registry'
  BY <1>15, RegistryFrame DEF TypeOK, ConfRec, BeforeUnhash, Done
<1>16. ASSUME NEW c \in Callers, Release(c) PROVE Registry'
  BY <1>16, <1>0, RdUnlockFrame, RegistryFrame DEF Release, SameObjects
<1>17. ASSUME NEW k \in Confs, ThreadStart(k) PROVE Registry'
  BY <1>17, RegistryFrame DEF TypeOK, BeforeUnhash, ThreadStart, Thread
<1>18. ASSUME NEW k \in Confs, ThreadLoopEnds(k) PROVE Registry'
  BY <1>18, RegistryFrame
  DEF TypeOK, ConfRec, BeforeUnhash, ThreadLoopEnds, Thread
<1>19. ASSUME NEW k \in Confs, Silence(k) PROVE Registry'
  BY <1>19, RegistryFrame DEF TypeOK, ConfRec, BeforeUnhash, Silence
<1>20. ASSUME NEW k \in Confs, Sweep(k) PROVE Registry'
  BY <1>20, RegistryFrame DEF TypeOK, BeforeUnhash, Sweep, Thread
<1>21. ASSUME NEW k \in Confs, Unhash(k) PROVE Registry'
  BY <1>21
  DEF TypeOK, ConfRec, Registry, RegistrySound, RegisteredIsFound, BeforeUnhash,
      Has, Unhash, Thread
<1>22. ASSUME NEW k \in Confs, WrLock(k) PROVE Registry'
  BY <1>22, RegistryFrame DEF TypeOK, BeforeUnhash, WrLock, Thread
<1>23. ASSUME NEW k \in Confs, WrUnlock(k) PROVE Registry'
  BY <1>23, RegistryFrame DEF TypeOK, BeforeUnhash, WrUnlock, Thread
<1>24. ASSUME NEW k \in Confs, Destroy(k) PROVE Registry'
  BY <1>24, RegistryFrame
  DEF TypeOK, ConfRec, BeforeUnhash, Destroy, Blank, Thread
<1>25. ASSUME NEW r \in Recorders, RecordStart(r) PROVE Registry'
  BY <1>25, <1>0, TryRdLockFrame, RegistryFrame DEF RecordStart, SameObjects
<1>26. ASSUME NEW r \in Recorders, RecordAdd(r) PROVE Registry'
  BY <1>26, RegistryFrame DEF TypeOK, ConfRec, BeforeUnhash, RecordAdd
<1>27. ASSUME NEW r \in Recorders, RecordStop(r) PROVE Registry'
  BY <1>27, RegistryFrame DEF TypeOK, BeforeUnhash, RecordStop
<1>28. ASSUME NEW r \in Recorders, RecordDel(r) PROVE Registry'
  BY <1>28, RegistryFrame DEF TypeOK, ConfRec, BeforeUnhash, RecordDel
<1>29. ASSUME NEW r \in Recorders, RecordRelease(r) PROVE Registry'
  BY <1>29, <1>0, RdUnlockFrame, RegistryFrame DEF RecordRelease, SameObjects
<1>30. ASSUME NEW a \in Admins, AdminFind(a) PROVE Registry'
  BY <1>30, EvictRegistry DEF AdminFind, TypeOK
<1>31. ASSUME NEW a \in Admins, Probe(a) PROVE Registry'
  BY <1>31, RegistryFrame DEF TypeOK, BeforeUnhash, Probe
<1>32. ASSUME NEW a \in Admins, AdminRdLock(a) PROVE Registry'
  BY <1>32, <1>0, TryRdLockFrame, RegistryFrame DEF AdminRdLock, SameObjects
<1>33. ASSUME NEW a \in Admins, LockRoom(a) PROVE Registry'
  BY <1>33, RegistryFrame DEF TypeOK, ConfRec, BeforeUnhash, LockRoom
<1>34. ASSUME NEW a \in Admins, StopAll(a) PROVE Registry'
  BY <1>34, RegistryFrame DEF TypeOK, BeforeUnhash, StopAll
<1>35. ASSUME NEW a \in Admins, MemberGet(a) PROVE Registry'
  BY <1>35, RegistryFrame DEF TypeOK, BeforeUnhash, MemberGet, Callers_in
<1>36. ASSUME NEW a \in Admins, StopMember(a) PROVE Registry'
  BY <1>36, RegistryFrame DEF TypeOK, BeforeUnhash, StopMember
<1>37. ASSUME NEW a \in Admins, Record(a) PROVE Registry'
  BY <1>37, RegistryFrame DEF TypeOK, BeforeUnhash, Record
<1>38. ASSUME NEW a \in Admins, NoRecord(a) PROVE Registry'
  BY <1>38, RegistryFrame DEF TypeOK, BeforeUnhash, NoRecord
<1>39. ASSUME NEW a \in Admins, AdminRelease(a) PROVE Registry'
  BY <1>39, <1>0, RdUnlockFrame, RegistryFrame DEF AdminRelease, SameObjects
<1>40. ASSUME NEW x \in Threads, UseAfterFree(x) PROVE Registry'
  BY <1>40, RegistryFrame DEF TypeOK, BeforeUnhash, UseAfterFree
<1>41. ASSUME Shutdown PROVE Registry'
  BY <1>41, RegistryFrame DEF TypeOK, BeforeUnhash, Shutdown
<1>42. ASSUME ShutdownDone PROVE Registry'
  BY <1>42, RegistryFrame DEF TypeOK, BeforeUnhash, ShutdownDone
<1>43. CASE UNCHANGED vars
  BY <1>43 DEF vars, Registry, RegistrySound, RegisteredIsFound, Has
<1> QED
  BY <1>1, <1>2, <1>3, <1>w, <1>4, <1>5, <1>6, <1>7, <1>8, <1>9, <1>10, <1>11, <1>12,
     <1>13, <1>14, <1>15, <1>16, <1>17, <1>18, <1>19, <1>20, <1>21, <1>22,
     <1>23, <1>24, <1>25, <1>26, <1>27, <1>28, <1>29, <1>30, <1>31, <1>32,
     <1>33, <1>34, <1>35, <1>36, <1>37, <1>38, <1>39, <1>40, <1>41, <1>42, <1>43
  DEF Next, CallerStep, ThreadStep, RecorderStep, AdminStep, Command, Halted

\* The critical section of globals.setup_mutex does its work: while a caller is
\* between conference_find and the insertion nobody else inserts, and an object
\* has a single creator.
THEOREM SetupCorrect == Spec => []SetupInv
<1>1. Init => SetupInv
  BY DEF Init, SetupInv, SetupOwner, NameFree, OneLauncher, Unattached, Threads, Members
<1>2. TypeOK /\ SetupInv /\ [Next]_vars => SetupInv'
  BY SetupOwnerStep, OneLauncherStep, UnattachedStep DEF SetupInv
<1> QED
  BY <1>1, <1>2, TypeCorrect, PTL DEF Spec

\* conference_find never returns, and the thread of an evicted conference never
\* deletes, anything but the registered conference of that name.
THEOREM RegistryCorrect == Spec => [](RegistrySound /\ RegisteredIsFound)
<1>1. Init => Registry
  BY DEF Init, Registry, RegistrySound, RegisteredIsFound, BeforeUnhash
<1>2. TypeOK /\ SetupInv /\ Registry /\ [Next]_vars => Registry'
  BY RegistryStep
<1>3. Registry => RegistrySound /\ RegisteredIsFound
  BY DEF Registry
<1> QED
  BY <1>1, <1>2, <1>3, TypeCorrect, SetupCorrect, PTL DEF Spec

\* The half that callers see: what conference_find would return is a conference
\* that believes to be registered and has not been through its clean-up, however
\* many namesakes were evicted before it.
THEOREM RegisteredCorrect == Spec => []RegisteredIsFound
BY RegistryCorrect, PTL

-----------------------------------------------------------------------------

(***************************************************************************)
(* III. The members of a room: its counters agree with its list, a room    *)
(* with a minimum does not outlive it, somebody is left to end a dynamic   *)
(* room, a member that an API command works on stays in the list, and the  *)
(* number of threads that a shutdown waits for is right.                   *)
(***************************************************************************)

\* The callers in the list of a room are those that run, or have just left, the
\* output loop with a pointer to it.
MembersMatch ==
    \A k \in Confs, c \in Callers : Alive(k) =>
        (c \in conf[k].members <=> ptr[c] = k /\ pc[c] \in {"loop", "leaving", "removing"})

(***************************************************************************)
(* count and end_count.                                                    *)
(***************************************************************************)
\* The callers of a room are a finite set: the counters count something.
LEMMA CallersInFinite ==
    \A k : IsFiniteSet(Callers_in(k)) /\ IsFiniteSet(Callers_in(k) \cap EndConf)
  BY FS_Subset, RoomAssumption DEF Callers_in, RoomAssumption

\* Nobody enters or leaves the output loop and no list changes its callers.
LEMMA MembersFrame ==
    ASSUME MembersMatch,
           \A k \in Confs : thr'[k] # "free" =>
             /\ thr[k] # "free"
             /\ conf'[k].members \cap Callers = conf[k].members \cap Callers,
           \A c \in Callers :
             \/ /\ ptr'[c] = ptr[c]
                /\ pc'[c] \in {"loop", "leaving", "removing"} <=> pc[c] \in {"loop", "leaving", "removing"}
             \/ pc[c] \notin {"loop", "leaving", "removing"} /\ pc'[c] \notin {"loop", "leaving", "removing"}
    PROVE  MembersMatch'
  BY DEF MembersMatch, Alive

\* A step that leaves the callers of every list and both counters alone.
LEMMA CountsFrame ==
    ASSUME CountsAgree,
           \A k \in Confs : thr'[k] # "free" =>
             /\ thr[k] # "free"
             /\ conf'[k].members \cap Callers = conf[k].members \cap Callers
             /\ conf'[k].count = conf[k].count
             /\ conf'[k].end_count = conf[k].end_count
    PROVE  CountsAgree'
  BY DEF CountsAgree, Callers_in, Alive

\* Every step keeps the callers of a list and those in its output loop the same.
LEMMA MembersMatchStep ==
    ASSUME TypeOK, MembersMatch, [Next]_vars
    PROVE  MembersMatch'
<1>0. ConfType
  BY DEF TypeOK, ConfType
<1>a. /\ Callers \cap Recorders = {} /\ Callers \cap Admins = {} /\ Recorders \cap Admins = {}
      /\ Callers \subseteq Threads /\ Recorders \subseteq Threads /\ Admins \subseteq Threads
      /\ MinTwo \subseteq Callers /\ NoConf \notin Confs
  BY RoomAssumption DEF RoomAssumption, Members, Threads
<1>1. ASSUME NEW c \in Callers, Enter(c) PROVE MembersMatch'
  BY <1>1, <1>0, <1>a, MembersFrame DEF TypeOK, Enter, Goto
<1>2. ASSUME NEW c \in Callers, Find(c) PROVE MembersMatch'
  BY <1>2, <1>0, <1>a, EvictFrame, MembersFrame
  DEF TypeOK, SameMembers, Find, Goto
<1>3. ASSUME NEW c \in Callers, conference_new(c) PROVE MembersMatch'
  <2>1. CASE UNCHANGED <<thr, conf, ptr>> /\ pc' = [pc EXCEPT ![c] = "out"]
    BY <1>3, <2>1, <1>a, MembersFrame DEF TypeOK, conference_new
  <2>2. ASSUME NEW k \in Confs, Unreferenced(k), thr' = [thr EXCEPT ![k] = "new"],
               ptr' = [ptr EXCEPT ![c] = k],
               conf' = [conf EXCEPT ![k] = [Blank(want[c]) EXCEPT !.flags = {"INHASH"}]],
               pc' = [pc EXCEPT ![c] = "launch"]
        PROVE  MembersMatch'
    <3>1. /\ \A j \in Confs \ {k} : conf'[j] = conf[j] /\ thr'[j] = thr[j]
          /\ conf'[k].members = {}
          /\ \A d \in Callers \ {c} : ptr'[d] = ptr[d] /\ pc'[d] = pc[d] /\ ptr[d] # k
          /\ pc[c] = "new" /\ pc'[c] = "launch"
      BY <2>2, <1>3, <1>a DEF TypeOK, conference_new, Unreferenced, Blank
    <3> QED
      BY <3>1 DEF MembersMatch, Alive
  <2> QED
    BY <1>3, <2>1, <2>2 DEF conference_new, Goto
<1>4. ASSUME NEW c \in Callers, Launch(c) PROVE MembersMatch'
  BY <1>4, <1>0, <1>a, LaunchFrame, MembersFrame
  DEF TypeOK, SameMembers, Launch, At, Alive, Goto
<1>5. ASSUME NEW c \in Callers, RdLock(c) PROVE MembersMatch'
  BY <1>5, <1>0, <1>a, TryRdLockFrame, MembersFrame
  DEF TypeOK, SameObjects, RdLock, At, TryRdLock, Goto
<1>6. ASSUME NEW c \in Callers, EnterPin(c) PROVE MembersMatch'
  BY <1>6, <1>0, <1>a, MembersFrame DEF TypeOK, EnterPin, At, Goto
<1>7. ASSUME NEW c \in Callers, Check(c) PROVE MembersMatch'
  BY <1>7, <1>0, <1>a, MembersFrame DEF TypeOK, Check, At, Goto
<1>8. ASSUME NEW c \in Callers, Dial(c) PROVE MembersMatch'
  BY <1>8, <1>0, <1>a, TryRdLockFrame, MembersFrame
  DEF TypeOK, SameObjects, Dial, At, TryRdLock, Goto
<1>9. ASSUME NEW c \in Callers, Dialed(c) PROVE MembersMatch'
  BY <1>9, <1>0, <1>a, RdUnlockFrame, MembersFrame
  DEF TypeOK, SameObjects, Dialed, At, RdUnlock, Goto
<1>10. ASSUME NEW c \in Callers, Setup(c) PROVE MembersMatch'
  BY <1>10, <1>0, <1>a, SetupFrame, MembersFrame
  DEF TypeOK, SameMembers, Setup, At, Goto
<1>11. ASSUME NEW c \in Callers, conference_add_member(c) PROVE MembersMatch'
  BY <1>11, <1>0, <1>a
  DEF TypeOK, ConfRec, MembersMatch, Alive, conference_add_member, At, Added,
      Goto
<1>12. ASSUME NEW c \in Callers, LoopStopped(c) PROVE MembersMatch'
  BY <1>12, <1>0, <1>a, MembersFrame DEF TypeOK, LoopStopped, At, Goto
<1>w. ASSUME NEW c \in Callers, WrLockMember(c) PROVE MembersMatch'
  BY <1>w, <1>0, <1>a, MembersFrame DEF TypeOK, WrLockMember, At, Goto
<1>13. ASSUME NEW c \in Callers, Hangup(c) PROVE MembersMatch'
  BY <1>13, <1>0, <1>a, MembersFrame DEF TypeOK, Hangup, At, Goto
<1>14. ASSUME NEW c \in Callers, conference_del_member(c) PROVE MembersMatch'
  BY <1>14, <1>0, <1>a
  DEF TypeOK, ConfRec, MembersMatch, Alive, conference_del_member, At, Deleted,
      Goto
<1>15. ASSUME NEW c \in Callers, Done(c) PROVE MembersMatch'
  BY <1>15, <1>0, <1>a, MembersFrame DEF TypeOK, ConfRec, Done, At, Goto
<1>16. ASSUME NEW c \in Callers, Release(c) PROVE MembersMatch'
  BY <1>16, <1>0, <1>a, RdUnlockFrame, MembersFrame
  DEF TypeOK, SameObjects, Release, RdUnlock, Goto
<1>17. ASSUME NEW k \in Confs, ThreadStart(k) PROVE MembersMatch'
  BY <1>17, <1>0, <1>a, MembersFrame DEF TypeOK, ThreadStart, Thread
<1>18. ASSUME NEW k \in Confs, ThreadLoopEnds(k) PROVE MembersMatch'
  BY <1>18, <1>0, <1>a, MembersFrame DEF TypeOK, ConfRec, ThreadLoopEnds, Thread
<1>19. ASSUME NEW k \in Confs, Silence(k) PROVE MembersMatch'
  BY <1>19, <1>0, <1>a, MembersFrame DEF TypeOK, ConfRec, Silence
<1>20. ASSUME NEW k \in Confs, Sweep(k) PROVE MembersMatch'
  BY <1>20, <1>0, <1>a, MembersFrame DEF TypeOK, Sweep, Thread
<1>21. ASSUME NEW k \in Confs, Unhash(k) PROVE MembersMatch'
  BY <1>21, <1>0, <1>a, MembersFrame DEF TypeOK, ConfRec, Unhash, Thread
<1>22. ASSUME NEW k \in Confs, WrLock(k) PROVE MembersMatch'
  BY <1>22, <1>0, <1>a, MembersFrame DEF TypeOK, WrLock, Thread
<1>23. ASSUME NEW k \in Confs, WrUnlock(k) PROVE MembersMatch'
  BY <1>23, <1>0, <1>a, MembersFrame DEF TypeOK, WrUnlock, Thread
<1>24. ASSUME NEW k \in Confs, Destroy(k) PROVE MembersMatch'
  BY <1>24, <1>0, <1>a, MembersFrame DEF TypeOK, ConfRec, Destroy, Blank, Thread
<1>25. ASSUME NEW r \in Recorders, RecordStart(r) PROVE MembersMatch'
  BY <1>25, <1>0, <1>a, TryRdLockFrame, MembersFrame
  DEF TypeOK, SameObjects, RecordStart, At, TryRdLock, Goto
<1>26. ASSUME NEW r \in Recorders, RecordAdd(r) PROVE MembersMatch'
  BY <1>26, <1>0, <1>a, MembersFrame DEF TypeOK, ConfRec, RecordAdd, At, Goto
<1>27. ASSUME NEW r \in Recorders, RecordStop(r) PROVE MembersMatch'
  BY <1>27, <1>0, <1>a, MembersFrame DEF TypeOK, RecordStop, At, Goto
<1>28. ASSUME NEW r \in Recorders, RecordDel(r) PROVE MembersMatch'
  BY <1>28, <1>0, <1>a, MembersFrame DEF TypeOK, ConfRec, RecordDel, At, Goto
<1>29. ASSUME NEW r \in Recorders, RecordRelease(r) PROVE MembersMatch'
  BY <1>29, <1>0, <1>a, RdUnlockFrame, MembersFrame
  DEF TypeOK, SameObjects, RecordRelease, At, RdUnlock, Goto
<1>30. ASSUME NEW a \in Admins, AdminFind(a) PROVE MembersMatch'
  BY <1>30, <1>0, <1>a, EvictFrame, MembersFrame
  DEF TypeOK, SameMembers, AdminFind, Goto
<1>31. ASSUME NEW a \in Admins, Probe(a) PROVE MembersMatch'
  BY <1>31, <1>0, <1>a, MembersFrame DEF TypeOK, Probe, At, Goto
<1>32. ASSUME NEW a \in Admins, AdminRdLock(a) PROVE MembersMatch'
  BY <1>32, <1>0, <1>a, TryRdLockFrame, MembersFrame
  DEF TypeOK, SameObjects, AdminRdLock, At, TryRdLock, Goto
<1>33. ASSUME NEW a \in Admins, LockRoom(a) PROVE MembersMatch'
  BY <1>33, <1>0, <1>a, MembersFrame DEF TypeOK, ConfRec, LockRoom, At, Goto
<1>34. ASSUME NEW a \in Admins, StopAll(a) PROVE MembersMatch'
  BY <1>34, <1>0, <1>a, MembersFrame DEF TypeOK, StopAll, At, Goto
<1>35. ASSUME NEW a \in Admins, MemberGet(a) PROVE MembersMatch'
  BY <1>35, <1>0, <1>a, MembersFrame DEF TypeOK, MemberGet, At, Callers_in, Goto
<1>36. ASSUME NEW a \in Admins, StopMember(a) PROVE MembersMatch'
  BY <1>36, <1>0, <1>a, MembersFrame DEF TypeOK, StopMember, At, Goto
<1>37. ASSUME NEW a \in Admins, Record(a) PROVE MembersMatch'
  BY <1>37, <1>0, <1>a, MembersFrame DEF TypeOK, Record, At
<1>38. ASSUME NEW a \in Admins, NoRecord(a) PROVE MembersMatch'
  BY <1>38, <1>0, <1>a, MembersFrame DEF TypeOK, NoRecord, At, Goto
<1>39. ASSUME NEW a \in Admins, AdminRelease(a) PROVE MembersMatch'
  BY <1>39, <1>0, <1>a, RdUnlockFrame, MembersFrame
  DEF TypeOK, SameObjects, AdminRelease, RdUnlock, Goto
<1>40. ASSUME NEW x \in Threads, UseAfterFree(x) PROVE MembersMatch'
  BY <1>40, <1>0, <1>a, MembersFrame DEF TypeOK, UseAfterFree
<1>41. ASSUME Shutdown PROVE MembersMatch'
  BY <1>41, <1>0, <1>a, MembersFrame DEF TypeOK, Shutdown
<1>42. ASSUME ShutdownDone PROVE MembersMatch'
  BY <1>42, <1>0, <1>a, MembersFrame DEF TypeOK, ShutdownDone
<1>43. CASE UNCHANGED vars
  BY <1>43 DEF vars, MembersMatch, Alive
<1> QED
  BY <1>1, <1>2, <1>3, <1>w, <1>4, <1>5, <1>6, <1>7, <1>8, <1>9, <1>10, <1>11, <1>12,
     <1>13, <1>14, <1>15, <1>16, <1>17, <1>18, <1>19, <1>20, <1>21, <1>22,
     <1>23, <1>24, <1>25, <1>26, <1>27, <1>28, <1>29, <1>30, <1>31, <1>32,
     <1>33, <1>34, <1>35, <1>36, <1>37, <1>38, <1>39, <1>40, <1>41, <1>42, <1>43
  DEF Next, CallerStep, ThreadStep, RecorderStep, AdminStep, Command, Halted

\* Every step keeps the counters right: conference_add_member and
\* conference_del_member are the only ones that move them.
LEMMA CountsStep ==
    ASSUME TypeOK, MembersMatch, CountsAgree, [Next]_vars
    PROVE  CountsAgree'
<1>0. ConfType
  BY DEF TypeOK, ConfType
<1>a. /\ Callers \cap Recorders = {} /\ Callers \cap Admins = {} /\ Recorders \cap Admins = {}
      /\ Callers \subseteq Threads /\ Recorders \subseteq Threads /\ Admins \subseteq Threads
      /\ MinTwo \subseteq Callers /\ NoConf \notin Confs
  BY RoomAssumption DEF RoomAssumption, Members, Threads
<1>1. ASSUME NEW c \in Callers, Enter(c) PROVE CountsAgree'
  BY <1>1, <1>0, <1>a, CountsFrame DEF TypeOK, Enter
<1>2. ASSUME NEW c \in Callers, Find(c) PROVE CountsAgree'
  BY <1>2, <1>0, <1>a, EvictFrame, CountsFrame DEF TypeOK, SameMembers, Find
<1>3. ASSUME NEW c \in Callers, conference_new(c) PROVE CountsAgree'
  <2>1. CASE UNCHANGED <<thr, conf>>
    BY <2>1, CountsFrame
  <2>2. ASSUME NEW k \in Confs, thr' = [thr EXCEPT ![k] = "new"],
               conf' = [conf EXCEPT ![k] = [Blank(want[c]) EXCEPT !.flags = {"INHASH"}]]
        PROVE  CountsAgree'
    <3>1. /\ conf'[k].members = {} /\ conf'[k].count = 0 /\ conf'[k].end_count = 0
          /\ \A j \in Confs \ {k} : conf'[j] = conf[j] /\ thr'[j] = thr[j]
      BY <2>2 DEF TypeOK, Blank
    <3>2. Cardinality({}) = 0
      BY FS_EmptySet
    <3> QED
      BY <3>1, <3>2 DEF CountsAgree, Callers_in, Alive
  <2> QED
    BY <1>3, <2>1, <2>2 DEF conference_new
<1>4. ASSUME NEW c \in Callers, Launch(c) PROVE CountsAgree'
  BY <1>4, <1>0, LaunchFrame, CountsFrame
  DEF TypeOK, SameMembers, Launch, At, Alive
<1>5. ASSUME NEW c \in Callers, RdLock(c) PROVE CountsAgree'
  BY <1>5, <1>0, <1>a, TryRdLockFrame, CountsFrame
  DEF TypeOK, SameObjects, RdLock
<1>6. ASSUME NEW c \in Callers, EnterPin(c) PROVE CountsAgree'
  BY <1>6, <1>0, <1>a, CountsFrame DEF TypeOK, EnterPin
<1>7. ASSUME NEW c \in Callers, Check(c) PROVE CountsAgree'
  BY <1>7, <1>0, <1>a, CountsFrame DEF TypeOK, Check
<1>8. ASSUME NEW c \in Callers, Dial(c) PROVE CountsAgree'
  BY <1>8, <1>0, TryRdLockFrame, CountsFrame DEF TypeOK, SameObjects, Dial, TryRdLock
<1>9. ASSUME NEW c \in Callers, Dialed(c) PROVE CountsAgree'
  BY <1>9, <1>0, <1>a, RdUnlockFrame, CountsFrame
  DEF TypeOK, SameObjects, Dialed
<1>10. ASSUME NEW c \in Callers, Setup(c) PROVE CountsAgree'
  BY <1>10, <1>0, <1>a, SetupFrame, CountsFrame DEF TypeOK, SameMembers, Setup
<1>11. ASSUME NEW c \in Callers, conference_add_member(c) PROVE CountsAgree'
  <2>1. CASE ptr[c] \notin Confs
    BY <1>11, <2>1, CountsFrame DEF TypeOK, conference_add_member
  <2>2. ASSUME NEW k \in Confs, k = ptr[c] PROVE CountsAgree'
    <3>1. \A j \in Confs \ {k} : conf'[j] = conf[j]
      BY <1>11, <2>2 DEF TypeOK, conference_add_member
    <3>2. /\ conf'[k].members = conf[k].members \cup {c}
          /\ conf'[k].count = conf[k].count + 1
          /\ conf'[k].end_count =
               IF c \in EndConf THEN conf[k].end_count + 1 ELSE conf[k].end_count
      BY <1>11, <2>2 DEF TypeOK, ConfRec, conference_add_member, Added
    <3>3. thr' = thr /\ thr[k] # "free" /\ c \notin conf[k].members
      BY <1>11, <2>2 DEF conference_add_member, At, Alive, MembersMatch
    <3>4. /\ Callers_in(k)' = Callers_in(k) \cup {c}
          /\ Callers_in(k)' \cap EndConf =
               IF c \in EndConf THEN (Callers_in(k) \cap EndConf) \cup {c}
               ELSE Callers_in(k) \cap EndConf
      BY <3>2 DEF Callers_in
    <3>5. IsFiniteSet(Callers_in(k)) /\ IsFiniteSet(Callers_in(k) \cap EndConf)
      BY CallersInFinite
    <3>6. c \notin Callers_in(k) /\ c \notin Callers_in(k) \cap EndConf
      BY <3>3 DEF Callers_in
    <3>7. /\ Cardinality(Callers_in(k) \cup {c}) = Cardinality(Callers_in(k)) + 1
          /\ Cardinality((Callers_in(k) \cap EndConf) \cup {c}) =
               Cardinality(Callers_in(k) \cap EndConf) + 1
      BY <3>5, <3>6, FS_AddElement
    <3>8. /\ conf[k].count = Cardinality(Callers_in(k))
          /\ conf[k].end_count = Cardinality(Callers_in(k) \cap EndConf)
      BY <2>2, <3>3 DEF CountsAgree, Alive
    <3>9. /\ conf'[k].count = Cardinality(Callers_in(k)')
          /\ conf'[k].end_count = Cardinality(Callers_in(k)' \cap EndConf)
      BY <3>2, <3>4, <3>7, <3>8
    <3> QED
      BY <3>1, <3>3, <3>9 DEF CountsAgree, Callers_in, Alive
  <2> QED
    BY <2>1, <2>2
<1>12. ASSUME NEW c \in Callers, LoopStopped(c) PROVE CountsAgree'
  BY <1>12, <1>0, <1>a, CountsFrame DEF TypeOK, LoopStopped
<1>w. ASSUME NEW c \in Callers, WrLockMember(c) PROVE CountsAgree'
  BY <1>w, <1>0, <1>a, CountsFrame DEF TypeOK, WrLockMember
<1>13. ASSUME NEW c \in Callers, Hangup(c) PROVE CountsAgree'
  BY <1>13, <1>0, <1>a, CountsFrame DEF TypeOK, Hangup
<1>14. ASSUME NEW c \in Callers, conference_del_member(c) PROVE CountsAgree'
  <2>1. CASE ptr[c] \notin Confs
    BY <1>14, <2>1, CountsFrame DEF TypeOK, conference_del_member
  <2>2. ASSUME NEW k \in Confs, k = ptr[c] PROVE CountsAgree'
    <3>1. \A j \in Confs \ {k} : conf'[j] = conf[j]
      BY <1>14, <2>2 DEF TypeOK, conference_del_member
    <3>2. /\ conf'[k].members = conf[k].members \ {c}
          /\ conf'[k].count = conf[k].count - 1
          /\ conf'[k].end_count =
               IF c \in EndConf THEN conf[k].end_count - 1 ELSE conf[k].end_count
      BY <1>14, <2>2 DEF TypeOK, ConfRec, conference_del_member, Deleted
    <3>3. thr' = thr /\ thr[k] # "free" /\ c \in conf[k].members
      BY <1>14, <2>2 DEF conference_del_member, At, Alive, MembersMatch
    <3>4. /\ Callers_in(k)' = Callers_in(k) \ {c}
          /\ Callers_in(k)' \cap EndConf =
               IF c \in EndConf THEN (Callers_in(k) \cap EndConf) \ {c}
               ELSE Callers_in(k) \cap EndConf
      BY <3>2 DEF Callers_in
    <3>5. IsFiniteSet(Callers_in(k)) /\ IsFiniteSet(Callers_in(k) \cap EndConf)
      BY CallersInFinite
    <3>6. c \in Callers_in(k) /\ (c \in EndConf => c \in Callers_in(k) \cap EndConf)
      BY <3>3 DEF Callers_in
    <3>7. /\ Cardinality(Callers_in(k) \ {c}) = Cardinality(Callers_in(k)) - 1
          /\ c \in EndConf => Cardinality((Callers_in(k) \cap EndConf) \ {c}) =
               Cardinality(Callers_in(k) \cap EndConf) - 1
      BY <3>5, <3>6, FS_RemoveElement
    <3>8. /\ conf[k].count = Cardinality(Callers_in(k))
          /\ conf[k].end_count = Cardinality(Callers_in(k) \cap EndConf)
      BY <2>2, <3>3 DEF CountsAgree, Alive
    <3>9. /\ conf'[k].count = Cardinality(Callers_in(k)')
          /\ conf'[k].end_count = Cardinality(Callers_in(k)' \cap EndConf)
      BY <3>2, <3>4, <3>7, <3>8
    <3> QED
      BY <3>1, <3>3, <3>9 DEF CountsAgree, Callers_in, Alive
  <2> QED
    BY <2>1, <2>2
<1>15. ASSUME NEW c \in Callers, Done(c) PROVE CountsAgree'
  BY <1>15, <1>0, <1>a, CountsFrame DEF TypeOK, ConfRec, Done
<1>16. ASSUME NEW c \in Callers, Release(c) PROVE CountsAgree'
  BY <1>16, <1>0, <1>a, RdUnlockFrame, CountsFrame
  DEF TypeOK, SameObjects, Release
<1>17. ASSUME NEW k \in Confs, ThreadStart(k) PROVE CountsAgree'
  BY <1>17, <1>0, <1>a, CountsFrame DEF TypeOK, ThreadStart, Thread
<1>18. ASSUME NEW k \in Confs, ThreadLoopEnds(k) PROVE CountsAgree'
  <2>1. conf' = conf \/ conf' = [conf EXCEPT ![k].flags = @ \cup {"DESTRUCT"}]
    BY <1>18 DEF ThreadLoopEnds
  <2> QED
    BY <1>18, <2>1, CountsFrame DEF TypeOK, ConfRec, ThreadLoopEnds, Thread
<1>19. ASSUME NEW k \in Confs, Silence(k) PROVE CountsAgree'
  BY <1>19, <1>0, <1>a, CountsFrame DEF TypeOK, ConfRec, Silence
<1>20. ASSUME NEW k \in Confs, Sweep(k) PROVE CountsAgree'
  BY <1>20, <1>0, <1>a, CountsFrame DEF TypeOK, Sweep, Thread
<1>21. ASSUME NEW k \in Confs, Unhash(k) PROVE CountsAgree'
  BY <1>21, <1>0, <1>a, CountsFrame DEF TypeOK, ConfRec, Unhash, Thread
<1>22. ASSUME NEW k \in Confs, WrLock(k) PROVE CountsAgree'
  BY <1>22, <1>0, <1>a, CountsFrame DEF TypeOK, WrLock, Thread
<1>23. ASSUME NEW k \in Confs, WrUnlock(k) PROVE CountsAgree'
  BY <1>23, <1>0, <1>a, CountsFrame DEF TypeOK, WrUnlock, Thread
<1>24. ASSUME NEW k \in Confs, Destroy(k) PROVE CountsAgree'
  BY <1>24, <1>0, <1>a, CountsFrame DEF TypeOK, ConfRec, Destroy, Blank, Thread
<1>25. ASSUME NEW r \in Recorders, RecordStart(r) PROVE CountsAgree'
  BY <1>25, <1>0, <1>a, TryRdLockFrame, CountsFrame
  DEF TypeOK, SameObjects, RecordStart
<1>26. ASSUME NEW r \in Recorders, RecordAdd(r) PROVE CountsAgree'
  BY <1>26, <1>0, <1>a, CountsFrame DEF TypeOK, ConfRec, RecordAdd
<1>27. ASSUME NEW r \in Recorders, RecordStop(r) PROVE CountsAgree'
  BY <1>27, <1>0, <1>a, CountsFrame DEF TypeOK, RecordStop
<1>28. ASSUME NEW r \in Recorders, RecordDel(r) PROVE CountsAgree'
  BY <1>28, <1>0, <1>a, CountsFrame DEF TypeOK, ConfRec, RecordDel
<1>29. ASSUME NEW r \in Recorders, RecordRelease(r) PROVE CountsAgree'
  BY <1>29, <1>0, <1>a, RdUnlockFrame, CountsFrame
  DEF TypeOK, SameObjects, RecordRelease
<1>30. ASSUME NEW a \in Admins, AdminFind(a) PROVE CountsAgree'
  BY <1>30, <1>0, <1>a, EvictFrame, CountsFrame
  DEF TypeOK, SameMembers, AdminFind
<1>31. ASSUME NEW a \in Admins, Probe(a) PROVE CountsAgree'
  BY <1>31, <1>0, <1>a, CountsFrame DEF TypeOK, Probe
<1>32. ASSUME NEW a \in Admins, AdminRdLock(a) PROVE CountsAgree'
  BY <1>32, <1>0, <1>a, TryRdLockFrame, CountsFrame
  DEF TypeOK, SameObjects, AdminRdLock
<1>33. ASSUME NEW a \in Admins, LockRoom(a) PROVE CountsAgree'
  BY <1>33, <1>0, <1>a, CountsFrame DEF TypeOK, ConfRec, LockRoom
<1>34. ASSUME NEW a \in Admins, StopAll(a) PROVE CountsAgree'
  BY <1>34, <1>0, <1>a, CountsFrame DEF TypeOK, StopAll
<1>35. ASSUME NEW a \in Admins, MemberGet(a) PROVE CountsAgree'
  BY <1>35, <1>0, <1>a, CountsFrame DEF TypeOK, MemberGet, Callers_in
<1>36. ASSUME NEW a \in Admins, StopMember(a) PROVE CountsAgree'
  BY <1>36, <1>0, <1>a, CountsFrame DEF TypeOK, StopMember
<1>37. ASSUME NEW a \in Admins, Record(a) PROVE CountsAgree'
  BY <1>37, <1>0, <1>a, CountsFrame DEF TypeOK, Record
<1>38. ASSUME NEW a \in Admins, NoRecord(a) PROVE CountsAgree'
  BY <1>38, <1>0, <1>a, CountsFrame DEF TypeOK, NoRecord
<1>39. ASSUME NEW a \in Admins, AdminRelease(a) PROVE CountsAgree'
  BY <1>39, <1>0, <1>a, RdUnlockFrame, CountsFrame
  DEF TypeOK, SameObjects, AdminRelease
<1>40. ASSUME NEW x \in Threads, UseAfterFree(x) PROVE CountsAgree'
  BY <1>40, <1>0, <1>a, CountsFrame DEF TypeOK, UseAfterFree
<1>41. ASSUME Shutdown PROVE CountsAgree'
  BY <1>41, <1>0, <1>a, CountsFrame DEF TypeOK, Shutdown
<1>42. ASSUME ShutdownDone PROVE CountsAgree'
  BY <1>42, <1>0, <1>a, CountsFrame DEF TypeOK, ShutdownDone
<1>43. CASE UNCHANGED vars
  BY <1>43 DEF vars, CountsAgree, Callers_in, Alive
<1> QED
  BY <1>1, <1>2, <1>3, <1>w, <1>4, <1>5, <1>6, <1>7, <1>8, <1>9, <1>10, <1>11, <1>12,
     <1>13, <1>14, <1>15, <1>16, <1>17, <1>18, <1>19, <1>20, <1>21, <1>22,
     <1>23, <1>24, <1>25, <1>26, <1>27, <1>28, <1>29, <1>30, <1>31, <1>32,
     <1>33, <1>34, <1>35, <1>36, <1>37, <1>38, <1>39, <1>40, <1>41, <1>42, <1>43
  DEF Next, CallerStep, ThreadStep, RecorderStep, AdminStep, Command, Halted

\* The member counters of every room are right: count is the number of callers
\* in the list and end_count that of the ENDCONF callers among them.
THEOREM CountsCorrect == Spec => []CountsAgree
<1>1. Init => MembersMatch /\ CountsAgree
  BY DEF Init, MembersMatch, CountsAgree, Alive
<1>2. TypeOK /\ MembersMatch /\ CountsAgree /\ [Next]_vars => (MembersMatch /\ CountsAgree)'
  BY MembersMatchStep, CountsStep
<1> QED
  BY <1>1, <1>2, TypeCorrect, PTL DEF Spec

\* The list of a room holds the callers in its output loop, and no others.
THEOREM MembersCorrect == Spec => []MembersMatch
<1>1. Init => MembersMatch
  BY DEF Init, MembersMatch, Alive
<1>2. TypeOK /\ MembersMatch /\ [Next]_vars => MembersMatch'
  BY MembersMatchStep
<1> QED
  BY <1>1, <1>2, TypeCorrect, PTL DEF Spec

(***************************************************************************)
(* Who ends a dynamic room.                                                *)
(***************************************************************************)
Looping == {"starting", "running", "dead"}

\* Every room with a thread is dynamic, and as long as its loop may go on it is
\* marked or has a caller that has yet to run the "done:" clean-up.
OrphanInv ==
    \A k \in Confs :
        /\ thr[k] \notin {"free", "new"} => Has(k, "DYNAMIC")
        /\ thr[k] \in Looping =>
            \/ Has(k, "DESTRUCT")
            \/ \E c \in Callers : ptr[c] = k /\ pc[c] # "release"

\* A step that takes no caller and no mark of destruction from a room.
LEMMA OrphanFrame ==
    ASSUME OrphanInv,
           \A k \in Confs :
             /\ thr'[k] \notin {"free", "new"} => thr[k] \notin {"free", "new"}
             /\ thr'[k] \in Looping => thr[k] \in Looping
             /\ thr'[k] # "free" =>
                  \A f \in {"DYNAMIC", "DESTRUCT"} :
                    f \in conf[k].flags => f \in conf'[k].flags,
           \A c \in Callers : ptr[c] \in Confs /\ pc[c] # "release" =>
             ptr'[c] = ptr[c] /\ pc'[c] # "release"
    PROVE  OrphanInv'
  BY DEF OrphanInv, Has, Looping

\* Every step leaves a caller, or the mark of destruction, to a dynamic room.
LEMMA OrphanStep ==
    ASSUME TypeOK, Unattached, MembersMatch, CountsAgree, OrphanInv, [Next]_vars
    PROVE  OrphanInv'
<1>0. ConfType
  BY DEF TypeOK, ConfType
<1>a. /\ Callers \cap Recorders = {} /\ Callers \cap Admins = {} /\ Recorders \cap Admins = {}
      /\ Callers \subseteq Threads /\ Recorders \subseteq Threads /\ Admins \subseteq Threads
      /\ MinTwo \subseteq Callers /\ NoConf \notin Confs
  BY RoomAssumption DEF RoomAssumption, Members, Threads
<1>1. ASSUME NEW c \in Callers, Enter(c) PROVE OrphanInv'
  BY <1>1, <1>0, <1>a, OrphanFrame DEF TypeOK, Enter, Goto, Unattached, Looping
<1>2. ASSUME NEW c \in Callers, Find(c) PROVE OrphanInv'
  BY <1>2, <1>0, <1>a, EvictFrame, OrphanFrame
  DEF TypeOK, SameMembers, ConfFlags, Find, Goto, Unattached, Looping
<1>3. ASSUME NEW c \in Callers, conference_new(c) PROVE OrphanInv'
  <2>1. CASE UNCHANGED <<thr, conf, ptr>> /\ pc' = [pc EXCEPT ![c] = "out"]
    BY <1>3, <2>1, OrphanFrame DEF TypeOK
  <2>2. ASSUME NEW k \in Confs, thr' = [thr EXCEPT ![k] = "new"], ptr' = [ptr EXCEPT ![c] = k],
               conf' = [conf EXCEPT ![k] = [Blank(want[c]) EXCEPT !.flags = {"INHASH"}]],
               pc' = [pc EXCEPT ![c] = "launch"]
        PROVE  OrphanInv'
    <3>1. thr'[k] = "new" /\ \A j \in Confs \ {k} : conf'[j] = conf[j] /\ thr'[j] = thr[j]
      BY <2>2 DEF TypeOK
    <3>2. \A d \in Callers : ptr[d] \in Confs => ptr'[d] = ptr[d] /\ (pc[d] # "release" => pc'[d] # "release")
      BY <2>2, <1>3, <1>a DEF TypeOK, conference_new, Unattached
    <3> QED
      BY <3>1, <3>2 DEF OrphanInv, Has, Looping
  <2> QED
    BY <1>3, <2>1, <2>2 DEF conference_new, Goto
<1>4. ASSUME NEW c \in Callers, Launch(c) PROVE OrphanInv'
  <2>1. thr' = [thr EXCEPT ![ptr[c]] = "starting"] /\ ptr' = ptr
        /\ (pc' = [pc EXCEPT ![c] = "dial"] \/ pc' = [pc EXCEPT ![c] = "rdlock"])
    BY <1>4 DEF Launch, Goto
  <2>2. \A k \in Confs \ {ptr[c]} : conf'[k] = conf[k] /\ thr'[k] = thr[k]
    BY <1>4, <2>1, <1>0, LaunchFrame DEF TypeOK
  <2>3. ptr[c] \in Confs => "DYNAMIC" \in conf'[ptr[c]].flags
    BY <1>4, <1>0, LaunchFrame
  <2> QED
    BY <2>1, <2>2, <2>3, <1>a DEF TypeOK, OrphanInv, Has, Looping
<1>5. ASSUME NEW c \in Callers, RdLock(c) PROVE OrphanInv'
  BY <1>5, <1>0, <1>a, TryRdLockFrame, OrphanFrame
  DEF TypeOK, SameObjects, RdLock, At, TryRdLock, Goto, Looping
<1>6. ASSUME NEW c \in Callers, EnterPin(c) PROVE OrphanInv'
  BY <1>6, <1>0, <1>a, OrphanFrame DEF TypeOK, EnterPin, At, Goto, Looping
<1>7. ASSUME NEW c \in Callers, Check(c) PROVE OrphanInv'
  BY <1>7, <1>0, <1>a, OrphanFrame DEF TypeOK, Check, At, Goto, Looping
<1>8. ASSUME NEW c \in Callers, Dial(c) PROVE OrphanInv'
  BY <1>8, <1>0, <1>a, TryRdLockFrame, OrphanFrame
  DEF TypeOK, SameObjects, Dial, At, TryRdLock, Goto, Looping
<1>9. ASSUME NEW c \in Callers, Dialed(c) PROVE OrphanInv'
  BY <1>9, <1>0, <1>a, RdUnlockFrame, OrphanFrame
  DEF TypeOK, SameObjects, Dialed, At, RdUnlock, Goto, Looping
<1>10. ASSUME NEW c \in Callers, Setup(c) PROVE OrphanInv'
  BY <1>10, <1>0, <1>a, SetupFrame, OrphanFrame
  DEF TypeOK, SameMembers, Setup, At, Goto, Looping
<1>11. ASSUME NEW c \in Callers, conference_add_member(c) PROVE OrphanInv'
  BY <1>11, <1>0, <1>a, OrphanFrame
  DEF TypeOK, ConfRec, conference_add_member, At, Added, Goto, Looping
<1>12. ASSUME NEW c \in Callers, LoopStopped(c) PROVE OrphanInv'
  BY <1>12, <1>0, <1>a, OrphanFrame DEF TypeOK, LoopStopped, At, Goto, Looping
<1>w. ASSUME NEW c \in Callers, WrLockMember(c) PROVE OrphanInv'
  BY <1>w, <1>0, <1>a, OrphanFrame DEF TypeOK, WrLockMember, At, Goto, Looping
<1>13. ASSUME NEW c \in Callers, Hangup(c) PROVE OrphanInv'
  BY <1>13, <1>0, <1>a, OrphanFrame DEF TypeOK, Hangup, At, Goto, Looping
<1>14. ASSUME NEW c \in Callers, conference_del_member(c) PROVE OrphanInv'
  BY <1>14, <1>0, <1>a, OrphanFrame
  DEF TypeOK, ConfRec, conference_del_member, At, Deleted, Goto, Looping
<1>15. ASSUME NEW c \in Callers, Done(c) PROVE OrphanInv'
  <2>1. CASE ptr[c] \notin Confs
    BY <1>15, <2>1, <1>a, OrphanFrame DEF TypeOK, Done, Goto
  <2>2. ASSUME NEW k \in Confs, k = ptr[c] PROVE OrphanInv'
    <3>1. /\ thr' = thr /\ ptr' = ptr /\ thr[k] # "free" /\ pc[c] = "done"
          /\ pc' = [pc EXCEPT ![c] = "release"]
      BY <1>15, <2>2 DEF Done, At, Alive, Goto
    <3>2. /\ \A j \in Confs \ {k} : conf'[j] = conf[j]
          /\ conf'[k].flags = conf[k].flags \/ conf'[k].flags = conf[k].flags \cup {"DESTRUCT"}
          /\ "DYNAMIC" \in conf[k].flags /\ conf[k].count = 0 => "DESTRUCT" \in conf'[k].flags
      BY <1>15, <2>2 DEF TypeOK, ConfRec, Done, Has
    <3>3. conf[k].count # 0 => \E d \in Callers : d # c /\ ptr[d] = k /\ pc[d] # "release"
      <4> SUFFICES ASSUME conf[k].count # 0 PROVE \E d \in Callers : d # c /\ ptr[d] = k /\ pc[d] # "release"
        OBVIOUS
      <4>1. Callers_in(k) # {}
        BY <3>1, FS_EmptySet DEF CountsAgree, Alive
      <4>2. PICK d \in Callers : d \in conf[k].members
        BY <4>1 DEF Callers_in
      <4>3. ptr[d] = k /\ pc[d] \in {"loop", "leaving", "removing"}
        BY <3>1, <4>2 DEF MembersMatch, Alive
      <4> QED
        BY <3>1, <4>3
    <3>4. \A d \in Callers \ {c} : pc'[d] = pc[d]
      BY <3>1, <1>a DEF TypeOK
    <3>5. \A j \in Confs \ {k} : \A d \in Callers : ptr[d] = j => pc'[d] = pc[d]
      BY <3>4, <2>2
    <3> QED
      BY <3>1, <3>2, <3>3, <3>4, <3>5 DEF OrphanInv, Has, Looping
  <2> QED
    BY <2>1, <2>2
<1>16. ASSUME NEW c \in Callers, Release(c) PROVE OrphanInv'
  BY <1>16, <1>0, <1>a, RdUnlockFrame, OrphanFrame
  DEF TypeOK, SameObjects, Release, RdUnlock, Goto, Looping
<1>17. ASSUME NEW k \in Confs, ThreadStart(k) PROVE OrphanInv'
  BY <1>17, <1>0, <1>a, OrphanFrame DEF TypeOK, ThreadStart, Thread, Looping
<1>18. ASSUME NEW k \in Confs, ThreadLoopEnds(k) PROVE OrphanInv'
  <2>1. conf' = conf \/ conf' = [conf EXCEPT ![k].flags = @ \cup {"DESTRUCT"}]
    BY <1>18 DEF ThreadLoopEnds
  <2>2. \A j \in Confs : conf[j].flags \subseteq conf'[j].flags
    BY <2>1 DEF TypeOK, ConfRec
  <2>3. thr' = [thr EXCEPT ![k] = "ending"] /\ thr[k] = "running" /\ UNCHANGED <<pc, ptr>>
    BY <1>18 DEF ThreadLoopEnds, Thread
  <2> QED
    BY <2>2, <2>3, OrphanFrame DEF TypeOK, Looping
<1>19. ASSUME NEW k \in Confs, Silence(k) PROVE OrphanInv'
  BY <1>19, <1>0, <1>a, OrphanFrame DEF TypeOK, ConfRec, Silence, Looping
<1>20. ASSUME NEW k \in Confs, Sweep(k) PROVE OrphanInv'
  BY <1>20, <1>0, <1>a, OrphanFrame DEF TypeOK, Sweep, Thread, Looping
<1>21. ASSUME NEW k \in Confs, Unhash(k) PROVE OrphanInv'
  BY <1>21, <1>0, <1>a, OrphanFrame DEF TypeOK, ConfRec, Unhash, Thread, Looping
<1>22. ASSUME NEW k \in Confs, WrLock(k) PROVE OrphanInv'
  BY <1>22, <1>0, <1>a, OrphanFrame DEF TypeOK, WrLock, Thread, Looping
<1>23. ASSUME NEW k \in Confs, WrUnlock(k) PROVE OrphanInv'
  BY <1>23, <1>0, <1>a, OrphanFrame DEF TypeOK, WrUnlock, Thread, Looping
<1>24. ASSUME NEW k \in Confs, Destroy(k) PROVE OrphanInv'
  BY <1>24, <1>0, <1>a, OrphanFrame
  DEF TypeOK, ConfRec, Destroy, Blank, Thread, Looping
<1>25. ASSUME NEW r \in Recorders, RecordStart(r) PROVE OrphanInv'
  BY <1>25, <1>0, <1>a, TryRdLockFrame, OrphanFrame
  DEF TypeOK, SameObjects, RecordStart, At, TryRdLock, Goto, Looping
<1>26. ASSUME NEW r \in Recorders, RecordAdd(r) PROVE OrphanInv'
  BY <1>26, <1>0, <1>a, OrphanFrame
  DEF TypeOK, ConfRec, RecordAdd, At, Goto, Looping
<1>27. ASSUME NEW r \in Recorders, RecordStop(r) PROVE OrphanInv'
  BY <1>27, <1>0, <1>a, OrphanFrame DEF TypeOK, RecordStop, At, Goto, Looping
<1>28. ASSUME NEW r \in Recorders, RecordDel(r) PROVE OrphanInv'
  BY <1>28, <1>0, <1>a, OrphanFrame
  DEF TypeOK, ConfRec, RecordDel, At, Goto, Looping
<1>29. ASSUME NEW r \in Recorders, RecordRelease(r) PROVE OrphanInv'
  BY <1>29, <1>0, <1>a, RdUnlockFrame, OrphanFrame
  DEF TypeOK, SameObjects, RecordRelease, At, RdUnlock, Goto, Looping
<1>30. ASSUME NEW a \in Admins, AdminFind(a) PROVE OrphanInv'
  BY <1>30, <1>0, <1>a, EvictFrame, OrphanFrame
  DEF TypeOK, SameMembers, ConfFlags, AdminFind, Goto, Looping
<1>31. ASSUME NEW a \in Admins, Probe(a) PROVE OrphanInv'
  BY <1>31, <1>0, <1>a, OrphanFrame DEF TypeOK, Probe, At, Goto, Looping
<1>32. ASSUME NEW a \in Admins, AdminRdLock(a) PROVE OrphanInv'
  BY <1>32, <1>0, <1>a, TryRdLockFrame, OrphanFrame
  DEF TypeOK, SameObjects, AdminRdLock, At, TryRdLock, Goto, Looping
<1>33. ASSUME NEW a \in Admins, LockRoom(a) PROVE OrphanInv'
  BY <1>33, <1>0, <1>a, OrphanFrame
  DEF TypeOK, ConfRec, LockRoom, At, Goto, Looping
<1>34. ASSUME NEW a \in Admins, StopAll(a) PROVE OrphanInv'
  BY <1>34, <1>0, <1>a, OrphanFrame DEF TypeOK, StopAll, At, Goto, Looping
<1>35. ASSUME NEW a \in Admins, MemberGet(a) PROVE OrphanInv'
  BY <1>35, <1>0, <1>a, OrphanFrame
  DEF TypeOK, MemberGet, At, Callers_in, Goto, Looping
<1>36. ASSUME NEW a \in Admins, StopMember(a) PROVE OrphanInv'
  BY <1>36, <1>0, <1>a, OrphanFrame DEF TypeOK, StopMember, At, Goto, Looping
<1>37. ASSUME NEW a \in Admins, Record(a) PROVE OrphanInv'
  BY <1>37, <1>0, <1>a, OrphanFrame DEF TypeOK, Record, At, Looping
<1>38. ASSUME NEW a \in Admins, NoRecord(a) PROVE OrphanInv'
  BY <1>38, <1>0, <1>a, OrphanFrame DEF TypeOK, NoRecord, At, Goto, Looping
<1>39. ASSUME NEW a \in Admins, AdminRelease(a) PROVE OrphanInv'
  BY <1>39, <1>0, <1>a, RdUnlockFrame, OrphanFrame
  DEF TypeOK, SameObjects, AdminRelease, RdUnlock, Goto, Looping
<1>40. ASSUME NEW x \in Threads, UseAfterFree(x) PROVE OrphanInv'
  BY <1>40, <1>0, <1>a, OrphanFrame DEF TypeOK, UseAfterFree, Looping
<1>41. ASSUME Shutdown PROVE OrphanInv'
  BY <1>41, <1>0, <1>a, OrphanFrame DEF TypeOK, Shutdown, Looping
<1>42. ASSUME ShutdownDone PROVE OrphanInv'
  BY <1>42, <1>0, <1>a, OrphanFrame DEF TypeOK, ShutdownDone, Looping
<1>43. CASE UNCHANGED vars
  BY <1>43 DEF vars, OrphanInv, Has
<1> QED
  BY <1>1, <1>2, <1>3, <1>w, <1>4, <1>5, <1>6, <1>7, <1>8, <1>9, <1>10, <1>11, <1>12,
     <1>13, <1>14, <1>15, <1>16, <1>17, <1>18, <1>19, <1>20, <1>21, <1>22,
     <1>23, <1>24, <1>25, <1>26, <1>27, <1>28, <1>29, <1>30, <1>31, <1>32,
     <1>33, <1>34, <1>35, <1>36, <1>37, <1>38, <1>39, <1>40, <1>41, <1>42, <1>43
  DEF Next, CallerStep, ThreadStep, RecorderStep, AdminStep, Command, Halted

\* A dynamic room never loses its last caller without being marked for
\* destruction: failed joins, refusals and kicks all pass the "done:" clean-up.
THEOREM RoomsEnd == Spec => []NoOrphan
<1>1. Init => OrphanInv
  BY DEF Init, OrphanInv, Looping
<1>2. TypeOK /\ SetupInv /\ MembersMatch /\ CountsAgree /\ OrphanInv /\ [Next]_vars
        => OrphanInv'
  BY OrphanStep DEF SetupInv
<1>3. OrphanInv => NoOrphan
  BY DEF OrphanInv, NoOrphan, Looping
<1> QED
  BY <1>1, <1>2, <1>3, TypeCorrect, SetupCorrect, MembersCorrect, CountsCorrect, PTL DEF Spec

(***************************************************************************)
(* The minimum.                                                            *)
(***************************************************************************)
\* The minimum is enforced only once there is one, and an enforced room that is
\* empty is marked.
MinInv ==
    /\ \A k \in Confs : Alive(k) =>
        /\ conf[k].min = 0 => ~Has(k, "ENFORCE_MIN")
        /\ thr[k] = "new" => conf[k].min # 1
        /\ Has(k, "ENFORCE_MIN") /\ conf[k].count = 0 => Has(k, "DESTRUCT")
    /\ EnforcedMinimum

\* A step that changes no minimum and no count, and takes no mark of destruction.
LEMMA MinFrame ==
    ASSUME MinInv,
           \A k \in Confs : thr'[k] # "free" =>
             /\ thr[k] # "free"
             /\ thr'[k] = "new" => thr[k] = "new"
             /\ conf'[k].min = conf[k].min /\ conf'[k].count = conf[k].count
             /\ "ENFORCE_MIN" \in conf'[k].flags <=> "ENFORCE_MIN" \in conf[k].flags
             /\ "DESTRUCT" \in conf[k].flags => "DESTRUCT" \in conf'[k].flags,
           \A c \in MinTwo : pc[c] = "adding" => pc'[c] = "adding" /\ ptr'[c] = ptr[c]
    PROVE  MinInv'
<1>1. EnforcedMinimum'
  BY DEF MinInv, EnforcedMinimum, Alive, Has
<1> QED
  BY <1>1 DEF MinInv, Alive, Has

\* Every step keeps the enforced minimum of every room.
LEMMA MinStep ==
    ASSUME TypeOK, OneLauncher, CountsAgree, MinInv, [Next]_vars
    PROVE  MinInv'
<1>0. ConfType
  BY DEF TypeOK, ConfType
<1>a. /\ Callers \cap Recorders = {} /\ Callers \cap Admins = {} /\ Recorders \cap Admins = {}
      /\ Callers \subseteq Threads /\ Recorders \subseteq Threads /\ Admins \subseteq Threads
      /\ MinTwo \subseteq Callers /\ NoConf \notin Confs
  BY RoomAssumption DEF RoomAssumption, Members, Threads
<1>1. ASSUME NEW c \in Callers, Enter(c) PROVE MinInv'
  BY <1>1, <1>0, <1>a, MinFrame DEF TypeOK, Enter, Goto
<1>2. ASSUME NEW c \in Callers, Find(c) PROVE MinInv'
  BY <1>2, <1>0, <1>a, EvictFrame, MinFrame
  DEF TypeOK, SameMembers, ConfFlags, Find, Goto
<1>3. ASSUME NEW c \in Callers, conference_new(c) PROVE MinInv'
  <2>1. CASE UNCHANGED <<thr, conf, ptr>> /\ pc' = [pc EXCEPT ![c] = "out"]
    BY <1>3, <2>1, <1>a, MinFrame DEF TypeOK, conference_new
  <2>2. ASSUME NEW k \in Confs, thr' = [thr EXCEPT ![k] = "new"], ptr' = [ptr EXCEPT ![c] = k],
               conf' = [conf EXCEPT ![k] = [Blank(want[c]) EXCEPT !.flags = {"INHASH"}]],
               pc' = [pc EXCEPT ![c] = "launch"]
        PROVE  MinInv'
    <3>1. /\ \A j \in Confs \ {k} : conf'[j] = conf[j] /\ thr'[j] = thr[j]
          /\ conf'[k].flags = {"INHASH"} /\ conf'[k].min = 0
      BY <2>2 DEF TypeOK, Blank
    <3>2. \A d \in MinTwo : pc[d] = "adding" => pc'[d] = "adding" /\ ptr'[d] = ptr[d]
      BY <2>2, <1>3, <1>a DEF TypeOK, conference_new
    <3>3. EnforcedMinimum'
      BY <3>1, <3>2 DEF MinInv, EnforcedMinimum, Has, Alive
    <3> QED
      BY <3>1, <3>3 DEF MinInv, Has, Alive
  <2> QED
    BY <1>3, <2>1, <2>2 DEF conference_new, Goto
<1>4. ASSUME NEW c \in Callers, Launch(c) PROVE MinInv'
  <2>1. ptr[c] \in Confs /\ thr[ptr[c]] = "new"
    BY <1>4 DEF Launch, At, OneLauncher
  <2> PICK k \in Confs : k = ptr[c]
    BY <2>1
  <2>2. /\ \A j \in Confs \ {k} : conf'[j] = conf[j] /\ thr'[j] = thr[j]
        /\ thr[k] = "new" /\ thr'[k] = "starting"
        /\ conf'[k].flags = conf[k].flags \cup {"DYNAMIC", "RUNNING"}
        /\ conf'[k].count = conf[k].count /\ conf'[k].min \in {1, 2}
    BY <1>4, <2>1, <1>0, LaunchFrame DEF TypeOK, Launch, SameMembers
  <2>3. /\ \A d \in MinTwo : pc[d] = "adding" => pc'[d] = "adding" /\ ptr'[d] = ptr[d]
    BY <1>4, <1>a DEF TypeOK, Launch, At, Goto
  <2>4. conf[k].min \in {0, 1, 2} /\ conf[k].count \in Int
    BY DEF TypeOK, ConfRec
  <2>5. EnforcedMinimum'
    BY <2>2, <2>3, <2>4 DEF MinInv, EnforcedMinimum, Has, Alive
  <2> QED
    BY <2>2, <2>5 DEF MinInv, Has, Alive
<1>5. ASSUME NEW c \in Callers, RdLock(c) PROVE MinInv'
  BY <1>5, <1>0, <1>a, TryRdLockFrame, MinFrame
  DEF TypeOK, SameObjects, RdLock, At, TryRdLock, Goto
<1>6. ASSUME NEW c \in Callers, EnterPin(c) PROVE MinInv'
  BY <1>6, <1>0, <1>a, MinFrame DEF TypeOK, EnterPin, At, Goto
<1>7. ASSUME NEW c \in Callers, Check(c) PROVE MinInv'
  BY <1>7, <1>0, <1>a, MinFrame DEF TypeOK, Check, At, Goto
<1>8. ASSUME NEW c \in Callers, Dial(c) PROVE MinInv'
  BY <1>8, <1>0, <1>a, TryRdLockFrame, MinFrame
  DEF TypeOK, SameObjects, Dial, At, TryRdLock, Goto
<1>9. ASSUME NEW c \in Callers, Dialed(c) PROVE MinInv'
  BY <1>9, <1>0, <1>a, RdUnlockFrame, MinFrame
  DEF TypeOK, SameObjects, Dialed, At, RdUnlock, Goto
<1>10. ASSUME NEW c \in Callers, Setup(c) PROVE MinInv'
  <2>1. CASE conf' = conf
    BY <1>10, <2>1, <1>a, MinFrame DEF TypeOK, Setup, At, Goto
  <2>2. CASE /\ c \in MinTwo /\ pc' = [pc EXCEPT ![c] = "adding"]
             /\ \A k \in Confs \ {ptr[c]} : conf'[k] = conf[k]
             /\ ptr[c] \in Confs => conf'[ptr[c]].min = 2
    <3>1. /\ thr' = thr /\ ptr' = ptr
          /\ \A k \in Confs : conf'[k].flags = conf[k].flags /\ conf'[k].count = conf[k].count
      BY <1>10, <1>0, SetupFrame DEF Setup, SameMembers
    <3>2. \A d \in Callers : pc[d] = "adding" \/ d = c => pc'[d] = "adding"
      BY <2>2, <1>a DEF TypeOK
    <3>3. EnforcedMinimum'
      BY <2>2, <3>1, <3>2, <1>a DEF MinInv, EnforcedMinimum, Has, Alive
    <3> QED
      BY <2>2, <3>1, <3>3 DEF MinInv, Has, Alive
  <2> QED
    BY <1>10, <1>0, <2>1, <2>2, SetupFrame
<1>11. ASSUME NEW c \in Callers, conference_add_member(c) PROVE MinInv'
  <2>1. CASE ptr[c] \notin Confs
    <3>1. conf' = conf
      BY <1>11, <2>1 DEF TypeOK, conference_add_member
    <3>2. /\ thr' = thr /\ ptr' = ptr /\ \A d \in Callers \ {c} : pc'[d] = pc[d]
      BY <1>11, <1>a DEF TypeOK, conference_add_member, Goto
    <3>3. EnforcedMinimum'
      BY <2>1, <3>1, <3>2, <1>a DEF MinInv, EnforcedMinimum, Has, Alive
    <3> QED
      BY <3>1, <3>2, <3>3 DEF MinInv, Has, Alive
  <2>2. ASSUME NEW k \in Confs, k = ptr[c] PROVE MinInv'
    <3>1. /\ thr' = thr /\ ptr' = ptr /\ \A d \in Callers \ {c} : pc'[d] = pc[d]
          /\ thr[k] # "free"
          /\ \A j \in Confs \ {k} : conf'[j] = conf[j]
      BY <1>11, <2>2, <1>a DEF TypeOK, conference_add_member, Goto, At, Alive
    <3>2. /\ conf'[k].count = conf[k].count + 1 /\ conf'[k].min = conf[k].min
          /\ conf'[k].flags = IF conf[k].min > 0 /\ conf[k].count + 1 >= conf[k].min
                              THEN conf[k].flags \cup {"ENFORCE_MIN"} ELSE conf[k].flags
      BY <1>11, <2>2 DEF TypeOK, ConfRec, conference_add_member, Added
    <3>3. conf[k].count \in Nat /\ conf[k].min \in {0, 1, 2}
      <4>1. conf[k].count = Cardinality(Callers_in(k))
        BY <3>1 DEF CountsAgree, Alive
      <4>2. Cardinality(Callers_in(k)) \in Nat
        BY CallersInFinite, FS_CardinalityType
      <4>3. conf[k].min \in {0, 1, 2}
        BY DEF TypeOK, ConfRec
      <4> QED
        BY <4>1, <4>2, <4>3
    <3>4. EnforcedMinimum'
      <4>1. ASSUME NEW j \in Confs \ {k}, Alive(j)', Has(j, "ENFORCE_MIN")', conf'[j].count < conf'[j].min
            PROVE  Has(j, "DESTRUCT")' \/ \E d \in MinTwo : ptr'[d] = j /\ pc'[d] = "adding"
        BY <4>1, <3>1, <2>2, <1>a DEF MinInv, EnforcedMinimum, Has, Alive
      <4>2. ASSUME Has(k, "ENFORCE_MIN")', conf'[k].count < conf'[k].min
            PROVE  Has(k, "DESTRUCT")'
        BY <4>2, <3>1, <3>2, <3>3 DEF MinInv, EnforcedMinimum, Has, Alive
      <4> QED
        BY <4>1, <4>2 DEF EnforcedMinimum
    <3> QED
      BY <3>1, <3>2, <3>3, <3>4 DEF MinInv, Has, Alive
  <2> QED
    BY <2>1, <2>2
<1>12. ASSUME NEW c \in Callers, LoopStopped(c) PROVE MinInv'
  BY <1>12, <1>0, <1>a, MinFrame DEF TypeOK, LoopStopped, At, Goto
<1>w. ASSUME NEW c \in Callers, WrLockMember(c) PROVE MinInv'
  BY <1>w, <1>0, <1>a, MinFrame DEF TypeOK, WrLockMember, At, Goto
<1>13. ASSUME NEW c \in Callers, Hangup(c) PROVE MinInv'
  BY <1>13, <1>0, <1>a, MinFrame DEF TypeOK, Hangup, At, Goto
<1>14. ASSUME NEW c \in Callers, conference_del_member(c) PROVE MinInv'
  <2>1. CASE ptr[c] \notin Confs
    BY <1>14, <2>1, <1>a, MinFrame DEF TypeOK, conference_del_member, At, Goto
  <2>2. ASSUME NEW k \in Confs, k = ptr[c] PROVE MinInv'
    <3>1. /\ thr' = thr /\ ptr' = ptr
          /\ \A d \in Callers : pc[d] = "adding" => pc'[d] = "adding"
          /\ thr[k] # "free"
          /\ \A j \in Confs \ {k} : conf'[j] = conf[j]
      BY <1>14, <2>2, <1>a DEF TypeOK, conference_del_member, Goto, At, Alive
    <3>2. /\ conf'[k].count = conf[k].count - 1 /\ conf'[k].min = conf[k].min
          /\ conf[k].flags \subseteq conf'[k].flags
          /\ conf'[k].flags \subseteq conf[k].flags \cup {"DESTRUCT"}
          /\ conf[k].min > 0 /\ "ENFORCE_MIN" \in conf[k].flags /\ conf[k].count - 1 < conf[k].min
                => "DESTRUCT" \in conf'[k].flags
      BY <1>14, <2>2 DEF TypeOK, ConfRec, conference_del_member, Deleted, EndsRoom
    <3>3. conf[k].count \in Int /\ conf[k].min \in {0, 1, 2}
      BY DEF TypeOK, ConfRec
    <3>4. EnforcedMinimum'
      BY <3>1, <3>2, <3>3, <1>a DEF MinInv, EnforcedMinimum, Has, Alive
    <3> QED
      BY <3>1, <3>2, <3>3, <3>4 DEF MinInv, Has, Alive
  <2> QED
    BY <2>1, <2>2
<1>15. ASSUME NEW c \in Callers, Done(c) PROVE MinInv'
  BY <1>15, <1>0, <1>a, MinFrame DEF TypeOK, ConfRec, Done, At, Goto
<1>16. ASSUME NEW c \in Callers, Release(c) PROVE MinInv'
  BY <1>16, <1>0, <1>a, RdUnlockFrame, MinFrame
  DEF TypeOK, SameObjects, Release, RdUnlock, Goto
<1>17. ASSUME NEW k \in Confs, ThreadStart(k) PROVE MinInv'
  BY <1>17, <1>0, <1>a, MinFrame DEF TypeOK, ThreadStart, Thread
<1>18. ASSUME NEW k \in Confs, ThreadLoopEnds(k) PROVE MinInv'
  <2>1. conf' = conf \/ conf' = [conf EXCEPT ![k].flags = @ \cup {"DESTRUCT"}]
    BY <1>18 DEF ThreadLoopEnds
  <2>2. \A j \in Confs : /\ conf'[j].min = conf[j].min /\ conf'[j].count = conf[j].count
                         /\ conf'[j].flags = conf[j].flags \/ conf'[j].flags = conf[j].flags \cup {"DESTRUCT"}
    BY <2>1 DEF TypeOK, ConfRec
  <2>3. thr' = [thr EXCEPT ![k] = "ending"] /\ thr[k] = "running" /\ UNCHANGED <<pc, ptr>>
    BY <1>18 DEF ThreadLoopEnds, Thread
  <2> QED
    BY <2>2, <2>3, MinFrame DEF TypeOK
<1>19. ASSUME NEW k \in Confs, Silence(k) PROVE MinInv'
  BY <1>19, <1>0, <1>a, MinFrame DEF TypeOK, ConfRec, Silence
<1>20. ASSUME NEW k \in Confs, Sweep(k) PROVE MinInv'
  BY <1>20, <1>0, <1>a, MinFrame DEF TypeOK, Sweep, Thread
<1>21. ASSUME NEW k \in Confs, Unhash(k) PROVE MinInv'
  BY <1>21, <1>0, <1>a, MinFrame DEF TypeOK, ConfRec, Unhash, Thread
<1>22. ASSUME NEW k \in Confs, WrLock(k) PROVE MinInv'
  BY <1>22, <1>0, <1>a, MinFrame DEF TypeOK, WrLock, Thread
<1>23. ASSUME NEW k \in Confs, WrUnlock(k) PROVE MinInv'
  BY <1>23, <1>0, <1>a, MinFrame DEF TypeOK, WrUnlock, Thread
<1>24. ASSUME NEW k \in Confs, Destroy(k) PROVE MinInv'
  BY <1>24, <1>0, <1>a, MinFrame DEF TypeOK, ConfRec, Destroy, Blank, Thread
<1>25. ASSUME NEW r \in Recorders, RecordStart(r) PROVE MinInv'
  BY <1>25, <1>0, <1>a, TryRdLockFrame, MinFrame
  DEF TypeOK, SameObjects, RecordStart, At, TryRdLock, Goto
<1>26. ASSUME NEW r \in Recorders, RecordAdd(r) PROVE MinInv'
  BY <1>26, <1>0, <1>a, MinFrame DEF TypeOK, ConfRec, RecordAdd, At, Goto
<1>27. ASSUME NEW r \in Recorders, RecordStop(r) PROVE MinInv'
  BY <1>27, <1>0, <1>a, MinFrame DEF TypeOK, RecordStop, At, Goto
<1>28. ASSUME NEW r \in Recorders, RecordDel(r) PROVE MinInv'
  BY <1>28, <1>0, <1>a, MinFrame DEF TypeOK, ConfRec, RecordDel, At, Goto
<1>29. ASSUME NEW r \in Recorders, RecordRelease(r) PROVE MinInv'
  BY <1>29, <1>0, <1>a, RdUnlockFrame, MinFrame
  DEF TypeOK, SameObjects, RecordRelease, At, RdUnlock, Goto
<1>30. ASSUME NEW a \in Admins, AdminFind(a) PROVE MinInv'
  BY <1>30, <1>0, <1>a, EvictFrame, MinFrame
  DEF TypeOK, SameMembers, ConfFlags, AdminFind, Goto
<1>31. ASSUME NEW a \in Admins, Probe(a) PROVE MinInv'
  BY <1>31, <1>0, <1>a, MinFrame DEF TypeOK, Probe, At, Goto
<1>32. ASSUME NEW a \in Admins, AdminRdLock(a) PROVE MinInv'
  BY <1>32, <1>0, <1>a, TryRdLockFrame, MinFrame
  DEF TypeOK, SameObjects, AdminRdLock, At, TryRdLock, Goto
<1>33. ASSUME NEW a \in Admins, LockRoom(a) PROVE MinInv'
  BY <1>33, <1>0, <1>a, MinFrame DEF TypeOK, ConfRec, LockRoom, At, Goto
<1>34. ASSUME NEW a \in Admins, StopAll(a) PROVE MinInv'
  BY <1>34, <1>0, <1>a, MinFrame DEF TypeOK, StopAll, At, Goto
<1>35. ASSUME NEW a \in Admins, MemberGet(a) PROVE MinInv'
  BY <1>35, <1>0, <1>a, MinFrame DEF TypeOK, MemberGet, At, Callers_in, Goto
<1>36. ASSUME NEW a \in Admins, StopMember(a) PROVE MinInv'
  BY <1>36, <1>0, <1>a, MinFrame DEF TypeOK, StopMember, At, Goto
<1>37. ASSUME NEW a \in Admins, Record(a) PROVE MinInv'
  BY <1>37, <1>0, <1>a, MinFrame DEF TypeOK, Record, At
<1>38. ASSUME NEW a \in Admins, NoRecord(a) PROVE MinInv'
  BY <1>38, <1>0, <1>a, MinFrame DEF TypeOK, NoRecord, At, Goto
<1>39. ASSUME NEW a \in Admins, AdminRelease(a) PROVE MinInv'
  BY <1>39, <1>0, <1>a, RdUnlockFrame, MinFrame
  DEF TypeOK, SameObjects, AdminRelease, RdUnlock, Goto
<1>40. ASSUME NEW x \in Threads, UseAfterFree(x) PROVE MinInv'
  BY <1>40, <1>0, <1>a, MinFrame DEF TypeOK, UseAfterFree
<1>41. ASSUME Shutdown PROVE MinInv'
  BY <1>41, <1>0, <1>a, MinFrame DEF TypeOK, Shutdown
<1>42. ASSUME ShutdownDone PROVE MinInv'
  BY <1>42, <1>0, <1>a, MinFrame DEF TypeOK, ShutdownDone
<1>43. CASE UNCHANGED vars
  BY <1>43 DEF vars, MinInv, EnforcedMinimum, Has, Alive
<1> QED
  BY <1>1, <1>2, <1>3, <1>w, <1>4, <1>5, <1>6, <1>7, <1>8, <1>9, <1>10, <1>11, <1>12,
     <1>13, <1>14, <1>15, <1>16, <1>17, <1>18, <1>19, <1>20, <1>21, <1>22,
     <1>23, <1>24, <1>25, <1>26, <1>27, <1>28, <1>29, <1>30, <1>31, <1>32,
     <1>33, <1>34, <1>35, <1>36, <1>37, <1>38, <1>39, <1>40, <1>41, <1>42, <1>43
  DEF Next, CallerStep, ThreadStep, RecorderStep, AdminStep, Command, Halted

\* A room that has reached its minimum is marked for destruction as soon as it
\* falls below, whatever else joins, fails to join or raises the minimum.
THEOREM MinimumCorrect == Spec => []EnforcedMinimum
<1>1. Init => MinInv
  BY DEF Init, MinInv, EnforcedMinimum, Alive
<1>2. TypeOK /\ SetupInv /\ CountsAgree /\ MinInv /\ [Next]_vars => MinInv'
  BY MinStep DEF SetupInv
<1>3. MinInv => EnforcedMinimum
  BY DEF MinInv
<1> QED
  BY <1>1, <1>2, <1>3, TypeCorrect, SetupCorrect, CountsCorrect, PTL DEF Spec

(***************************************************************************)
(* Members that API commands work on.                                      *)
(***************************************************************************)
\* Only a command that is at work holds a member, and it has a conference; nobody
\* holds a member that has its own rwlock for writing.
HeldInv ==
    /\ \A a \in Admins : pc[a] \in {"probe", "rdlock", "cmd", "member"} => ptr[a] \in Confs
    /\ \A a \in Admins : held[a] # NoThread => pc[a] = "member"
    /\ \A c \in Callers, a \in Admins : pc[c] = "removing" => held[a] # c
    /\ HeldMemberInList

\* A step that removes nobody from a list, lets no member go and starts no removal.
LEMMA HeldFrame ==
    ASSUME HeldInv, held' = held,
           \A k \in Confs : thr'[k] # "free" =>
             thr[k] # "free" /\ conf[k].members \subseteq conf'[k].members,
           \A a \in Admins :
             /\ pc'[a] \in {"probe", "rdlock", "cmd", "member"} => ptr'[a] \in Confs
             /\ pc[a] = "member" => pc'[a] = "member" /\ ptr'[a] = ptr[a],
           \A c \in Callers : pc'[c] = "removing" => pc[c] = "removing"
    PROVE  HeldInv'
  BY DEF HeldInv, HeldMemberInList, Alive

\* Every step keeps the members the API commands hold in their lists.
LEMMA HeldStep ==
    ASSUME TypeOK, HeldInv, [Next]_vars
    PROVE  HeldInv'
<1>0. ConfType
  BY DEF TypeOK, ConfType
<1>a. /\ Callers \cap Recorders = {} /\ Callers \cap Admins = {} /\ Recorders \cap Admins = {}
      /\ Callers \subseteq Threads /\ Recorders \subseteq Threads /\ Admins \subseteq Threads
      /\ NoThread \notin Callers /\ NoConf \notin Confs
  BY RoomAssumption DEF RoomAssumption, Members, Threads
<1>1. ASSUME NEW c \in Callers, Enter(c) PROVE HeldInv'
  BY <1>1, <1>0, <1>a, HeldFrame DEF TypeOK, Enter, Goto, HeldInv
<1>2. ASSUME NEW c \in Callers, Find(c) PROVE HeldInv'
  BY <1>2, <1>0, <1>a, EvictFrame, HeldFrame
  DEF TypeOK, SameMembers, Find, Goto, HeldInv
<1>3. ASSUME NEW c \in Callers, conference_new(c) PROVE HeldInv'
  <2>1. CASE UNCHANGED <<thr, conf, ptr>> /\ pc' = [pc EXCEPT ![c] = "out"]
    BY <1>3, <2>1, <1>a, HeldFrame DEF TypeOK, HeldInv, conference_new
  <2>2. ASSUME NEW k \in Confs, Unreferenced(k), thr' = [thr EXCEPT ![k] = "new"],
               ptr' = [ptr EXCEPT ![c] = k],
               conf' = [conf EXCEPT ![k] = [Blank(want[c]) EXCEPT !.flags = {"INHASH"}]],
               pc' = [pc EXCEPT ![c] = "launch"]
        PROVE  HeldInv'
    <3>1. /\ held' = held
          /\ \A j \in Confs \ {k} : conf'[j] = conf[j] /\ thr'[j] = thr[j]
          /\ \A a \in Admins : ptr'[a] = ptr[a] /\ pc'[a] = pc[a] /\ ptr[a] # k
          /\ \A d \in Callers : pc'[d] = "removing" => pc[d] = "removing"
      BY <2>2, <1>3, <1>a DEF TypeOK, conference_new, Unreferenced
    <3> QED
      BY <3>1 DEF HeldInv, HeldMemberInList, Alive
  <2> QED
    BY <1>3, <2>1, <2>2 DEF conference_new, Goto
<1>4. ASSUME NEW c \in Callers, Launch(c) PROVE HeldInv'
  BY <1>4, <1>0, <1>a, LaunchFrame, HeldFrame DEF TypeOK, SameMembers, Launch, At, Alive, Goto, HeldInv
<1>5. ASSUME NEW c \in Callers, RdLock(c) PROVE HeldInv'
  BY <1>5, <1>0, <1>a, TryRdLockFrame, HeldFrame
  DEF TypeOK, SameObjects, RdLock, At, TryRdLock, Goto, HeldInv
<1>6. ASSUME NEW c \in Callers, EnterPin(c) PROVE HeldInv'
  BY <1>6, <1>0, <1>a, HeldFrame DEF TypeOK, EnterPin, At, Goto, HeldInv
<1>7. ASSUME NEW c \in Callers, Check(c) PROVE HeldInv'
  BY <1>7, <1>0, <1>a, HeldFrame DEF TypeOK, Check, At, Goto, HeldInv
<1>8. ASSUME NEW c \in Callers, Dial(c) PROVE HeldInv'
  BY <1>8, <1>0, <1>a, TryRdLockFrame, HeldFrame
  DEF TypeOK, SameObjects, Dial, At, TryRdLock, Goto, HeldInv
<1>9. ASSUME NEW c \in Callers, Dialed(c) PROVE HeldInv'
  BY <1>9, <1>0, <1>a, RdUnlockFrame, HeldFrame
  DEF TypeOK, SameObjects, Dialed, At, RdUnlock, Goto, HeldInv
<1>10. ASSUME NEW c \in Callers, Setup(c) PROVE HeldInv'
  BY <1>10, <1>0, <1>a, SetupFrame, HeldFrame
  DEF TypeOK, SameMembers, Setup, At, Goto, HeldInv
<1>11. ASSUME NEW c \in Callers, conference_add_member(c) PROVE HeldInv'
  BY <1>11, <1>0, <1>a, HeldFrame
  DEF TypeOK, ConfRec, conference_add_member, At, Added, Goto, HeldInv
<1>12. ASSUME NEW c \in Callers, LoopStopped(c) PROVE HeldInv'
  BY <1>12, <1>0, <1>a, HeldFrame DEF TypeOK, LoopStopped, At, Goto, HeldInv
<1>w. ASSUME NEW c \in Callers, WrLockMember(c) PROVE HeldInv'
  BY <1>w, <1>a DEF TypeOK, HeldInv, HeldMemberInList, Alive, WrLockMember, NobodyHolds, At, Goto
<1>13. ASSUME NEW c \in Callers, Hangup(c) PROVE HeldInv'
  BY <1>13, <1>0, <1>a, HeldFrame DEF TypeOK, Hangup, At, Goto, HeldInv
<1>14. ASSUME NEW c \in Callers, conference_del_member(c) PROVE HeldInv'
  <2>1. \A a \in Admins : held[a] # c
    BY <1>14 DEF HeldInv, conference_del_member, At
  <2>2. \A j \in Confs : conf[j].members \ {c} \subseteq conf'[j].members
    BY <1>14 DEF TypeOK, ConfRec, conference_del_member, Deleted
  <2>3. /\ thr' = thr /\ ptr' = ptr /\ held' = held
        /\ \A a \in Admins : pc'[a] = pc[a]
        /\ \A d \in Callers : pc'[d] = "removing" => pc[d] = "removing"
    BY <1>14, <1>a DEF TypeOK, conference_del_member, Goto
  <2> QED
    BY <2>1, <2>2, <2>3 DEF HeldInv, HeldMemberInList, Alive
<1>15. ASSUME NEW c \in Callers, Done(c) PROVE HeldInv'
  BY <1>15, <1>0, <1>a, HeldFrame DEF TypeOK, ConfRec, Done, At, Goto, HeldInv
<1>16. ASSUME NEW c \in Callers, Release(c) PROVE HeldInv'
  BY <1>16, <1>0, <1>a, RdUnlockFrame, HeldFrame
  DEF TypeOK, SameObjects, Release, RdUnlock, Goto, HeldInv
<1>17. ASSUME NEW k \in Confs, ThreadStart(k) PROVE HeldInv'
  BY <1>17, <1>0, <1>a, HeldFrame DEF TypeOK, ThreadStart, Thread, HeldInv
<1>18. ASSUME NEW k \in Confs, ThreadLoopEnds(k) PROVE HeldInv'
  <2>1. conf' = conf \/ conf' = [conf EXCEPT ![k].flags = @ \cup {"DESTRUCT"}]
    BY <1>18 DEF ThreadLoopEnds
  <2>2. \A j \in Confs : conf'[j].members = conf[j].members
    BY <2>1 DEF TypeOK, ConfRec
  <2> QED
    BY <1>18, <2>2, HeldFrame DEF TypeOK, HeldInv, ThreadLoopEnds, Thread
<1>19. ASSUME NEW k \in Confs, Silence(k) PROVE HeldInv'
  BY <1>19, <1>0, <1>a, HeldFrame DEF TypeOK, ConfRec, Silence, HeldInv
<1>20. ASSUME NEW k \in Confs, Sweep(k) PROVE HeldInv'
  BY <1>20, <1>0, <1>a, HeldFrame DEF TypeOK, Sweep, Thread, HeldInv
<1>21. ASSUME NEW k \in Confs, Unhash(k) PROVE HeldInv'
  BY <1>21, <1>0, <1>a, HeldFrame DEF TypeOK, ConfRec, Unhash, Thread, HeldInv
<1>22. ASSUME NEW k \in Confs, WrLock(k) PROVE HeldInv'
  BY <1>22, <1>0, <1>a, HeldFrame DEF TypeOK, WrLock, Thread, HeldInv
<1>23. ASSUME NEW k \in Confs, WrUnlock(k) PROVE HeldInv'
  BY <1>23, <1>0, <1>a, HeldFrame DEF TypeOK, WrUnlock, Thread, HeldInv
<1>24. ASSUME NEW k \in Confs, Destroy(k) PROVE HeldInv'
  BY <1>24, <1>0, <1>a, HeldFrame
  DEF TypeOK, ConfRec, Destroy, Blank, Thread, HeldInv
<1>25. ASSUME NEW r \in Recorders, RecordStart(r) PROVE HeldInv'
  BY <1>25, <1>0, <1>a, TryRdLockFrame, HeldFrame
  DEF TypeOK, SameObjects, RecordStart, At, TryRdLock, Goto, HeldInv
<1>26. ASSUME NEW r \in Recorders, RecordAdd(r) PROVE HeldInv'
  BY <1>26, <1>0, <1>a, HeldFrame
  DEF TypeOK, ConfRec, RecordAdd, At, Goto, HeldInv
<1>27. ASSUME NEW r \in Recorders, RecordStop(r) PROVE HeldInv'
  BY <1>27, <1>0, <1>a, HeldFrame DEF TypeOK, RecordStop, At, Goto, HeldInv
<1>28. ASSUME NEW r \in Recorders, RecordDel(r) PROVE HeldInv'
  BY <1>28, <1>a DEF TypeOK, ConfRec, HeldInv, HeldMemberInList, Alive, RecordDel, NobodyHolds, Goto
<1>29. ASSUME NEW r \in Recorders, RecordRelease(r) PROVE HeldInv'
  BY <1>29, <1>0, <1>a, RdUnlockFrame, HeldFrame
  DEF TypeOK, SameObjects, RecordRelease, At, RdUnlock, Goto, HeldInv
<1>30. ASSUME NEW a \in Admins, AdminFind(a) PROVE HeldInv'
  <2>1. /\ SameMembers /\ UNCHANGED <<thr, held>>
        /\ \/ UNCHANGED <<ptr, pc>>
           \/ \E k \in Confs : /\ ptr' = [ptr EXCEPT ![a] = k]
                               /\ \/ pc' = [pc EXCEPT ![a] = "rdlock"]
                                  \/ pc' = [pc EXCEPT ![a] = "probe"]
    BY <1>30, <1>0, EvictFrame DEF AdminFind, Found, TypeOK, Goto
  <2>2. pc[a] = "out"
    BY <1>30 DEF AdminFind
  <2> QED
    BY <2>1, <2>2, <1>a, HeldFrame DEF HeldInv, TypeOK, SameMembers
<1>31. ASSUME NEW a \in Admins, Probe(a) PROVE HeldInv'
  BY <1>31, <1>0, <1>a, HeldFrame DEF TypeOK, Probe, At, Goto, HeldInv
<1>32. ASSUME NEW a \in Admins, AdminRdLock(a) PROVE HeldInv'
  BY <1>32, <1>0, <1>a, TryRdLockFrame, HeldFrame
  DEF TypeOK, SameObjects, AdminRdLock, At, TryRdLock, Goto, HeldInv
<1>33. ASSUME NEW a \in Admins, LockRoom(a) PROVE HeldInv'
  BY <1>33, <1>0, <1>a, HeldFrame
  DEF TypeOK, ConfRec, LockRoom, At, Goto, HeldInv
<1>34. ASSUME NEW a \in Admins, StopAll(a) PROVE HeldInv'
  BY <1>34, <1>0, <1>a, HeldFrame DEF TypeOK, StopAll, At, Goto, HeldInv
<1>35. ASSUME NEW a \in Admins, MemberGet(a) PROVE HeldInv'
  BY <1>35, <1>a DEF TypeOK, HeldInv, HeldMemberInList, Alive, MemberGet, At, Callers_in, Goto
<1>36. ASSUME NEW a \in Admins, StopMember(a) PROVE HeldInv'
  BY <1>36, <1>a DEF TypeOK, HeldInv, HeldMemberInList, Alive, StopMember, At, Goto
<1>37. ASSUME NEW a \in Admins, Record(a) PROVE HeldInv'
  BY <1>37, <1>0, <1>a, HeldFrame DEF TypeOK, Record, At, HeldInv
<1>38. ASSUME NEW a \in Admins, NoRecord(a) PROVE HeldInv'
  BY <1>38, <1>0, <1>a, HeldFrame DEF TypeOK, NoRecord, At, Goto, HeldInv
<1>39. ASSUME NEW a \in Admins, AdminRelease(a) PROVE HeldInv'
  BY <1>39, <1>0, <1>a, RdUnlockFrame, HeldFrame
  DEF TypeOK, SameObjects, AdminRelease, RdUnlock, Goto, HeldInv
<1>40. ASSUME NEW x \in Threads, UseAfterFree(x) PROVE HeldInv'
  BY <1>40, <1>0, <1>a, HeldFrame DEF TypeOK, UseAfterFree, HeldInv
<1>41. ASSUME Shutdown PROVE HeldInv'
  BY <1>41, <1>0, <1>a, HeldFrame DEF TypeOK, Shutdown, HeldInv
<1>42. ASSUME ShutdownDone PROVE HeldInv'
  BY <1>42, <1>0, <1>a, HeldFrame DEF TypeOK, ShutdownDone, HeldInv
<1>43. CASE UNCHANGED vars
  BY <1>43 DEF vars, HeldInv, HeldMemberInList, Alive
<1> QED
  BY <1>1, <1>2, <1>3, <1>w, <1>4, <1>5, <1>6, <1>7, <1>8, <1>9, <1>10, <1>11, <1>12,
     <1>13, <1>14, <1>15, <1>16, <1>17, <1>18, <1>19, <1>20, <1>21, <1>22,
     <1>23, <1>24, <1>25, <1>26, <1>27, <1>28, <1>29, <1>30, <1>31, <1>32,
     <1>33, <1>34, <1>35, <1>36, <1>37, <1>38, <1>39, <1>40, <1>41, <1>42, <1>43
  DEF Next, CallerStep, ThreadStep, RecorderStep, AdminStep, Command, Halted

\* A member that an API command holds through conference_member_get stays in the
\* list until the command lets go of it.
THEOREM HeldCorrect == Spec => []HeldMemberInList
<1>1. Init => HeldInv
  BY RoomAssumption DEF RoomAssumption, Init, HeldInv, HeldMemberInList, Threads, Members
<1>2. TypeOK /\ HeldInv /\ [Next]_vars => HeldInv'
  BY HeldStep
<1>3. HeldInv => HeldMemberInList
  BY DEF HeldInv
<1> QED
  BY <1>1, <1>2, <1>3, TypeCorrect, PTL DEF Spec

(***************************************************************************)
(* The read lock of a conference.                                          *)
(***************************************************************************)
\* Who relies on the lock has it; who has just found a conference has a pointer to it;
\* a recording is in a list only while it relies on the lock; the writer is alone.
LockInv ==
    /\ \A x \in Threads : Guarded(x) => ptr[x] \in Confs /\ x \in conf[ptr[x]].readers
    /\ \A x \in Threads : pc[x] \in {"launch", "rdlock", "dial", "start"} => ptr[x] \in Confs
    /\ \A c \in Callers : pc[c] \in {"dial", "dialing"} => c \in Bridge
    /\ \A k \in Confs, r \in Recorders : Alive(k) /\ r \in conf[k].members =>
          ptr[r] = k /\ pc[r] \in {"loop", "leaving"}
    /\ \A k \in Confs : thr[k] = "wrlocked" => conf[k].readers = {}

\* A step that takes and releases no lock, and moves nobody to where one is relied on.
LEMMA LockFrame ==
    ASSUME LockInv,
           \A k \in Confs :
             /\ thr'[k] = "wrlocked" => thr[k] = "wrlocked"
             /\ conf'[k].readers = conf[k].readers
             /\ thr'[k] # "free" => thr[k] # "free" /\ conf'[k].members \cap Recorders = conf[k].members \cap Recorders,
           \A x \in Threads :
             /\ Guarded(x)' => Guarded(x) /\ ptr'[x] = ptr[x]
             /\ pc'[x] \in {"launch", "rdlock", "dial", "start"} => ptr'[x] \in Confs,
           \A c \in Callers : pc'[c] \in {"dial", "dialing"} => c \in Bridge,
           \A r \in Recorders : pc[r] \in {"loop", "leaving"} => pc'[r] \in {"loop", "leaving"} /\ ptr'[r] = ptr[r]
    PROVE  LockInv'
  BY RoomAssumption DEF RoomAssumption, LockInv, Alive, Members, Threads

\* The readers of every conference after a lock is taken or released.
LEMMA ReadersAfter ==
    ASSUME ConfType, NEW p \in Confs, NEW S, conf' = [conf EXCEPT ![p].readers = S]
    PROVE  \A k \in Confs : conf'[k].readers = IF k = p THEN S ELSE conf[k].readers
  BY DEF ConfType, ConfRec

\* Nothing of this is changed by conference_find.
LEMMA EvictReaders ==
    ASSUME ConfType, NEW n, Evict(n)
    PROVE  \A k \in Confs : conf'[k].readers = conf[k].readers /\ conf'[k].members = conf[k].members
  BY DEF ConfType, ConfRec, Evict

\* Every step keeps LockInv.
LEMMA LockStep ==
    ASSUME TypeOK, LockInv, [Next]_vars
    PROVE  LockInv'
<1>0. ConfType
  BY DEF TypeOK, ConfType
<1>a. /\ Callers \cap Recorders = {} /\ Callers \cap Admins = {} /\ Recorders \cap Admins = {}
      /\ Callers \subseteq Threads /\ Recorders \subseteq Threads /\ Admins \subseteq Threads
      /\ Threads = Callers \cup Recorders \cup Admins
      /\ Bridge \subseteq Callers /\ NoThread \notin Callers /\ NoConf \notin Confs
  BY RoomAssumption DEF RoomAssumption, Members, Threads
<1>1. ASSUME NEW c \in Callers, Enter(c) PROVE LockInv'
  BY <1>1, <1>0, <1>a, LockFrame
  DEF TypeOK, Guarded, LockInv, Enter, Goto
<1>2. ASSUME NEW c \in Callers, Find(c) PROVE LockInv'
  BY <1>2, <1>0, <1>a, EvictReaders, LockFrame
  DEF TypeOK, Guarded, LockInv, Find, Found, Goto
<1>3. ASSUME NEW c \in Callers, conference_new(c) PROVE LockInv'
  <2>1. CASE UNCHANGED <<thr, conf, ptr>> /\ pc' = [pc EXCEPT ![c] = "out"]
    BY <1>3, <2>1, <1>a, LockFrame DEF TypeOK, Guarded, LockInv, conference_new
  <2>2. ASSUME NEW k \in Confs, Unreferenced(k), thr' = [thr EXCEPT ![k] = "new"],
               ptr' = [ptr EXCEPT ![c] = k],
               conf' = [conf EXCEPT ![k] = [Blank(want[c]) EXCEPT !.flags = {"INHASH"}]],
               pc' = [pc EXCEPT ![c] = "launch"]
        PROVE  LockInv'
    <3>1. /\ \A j \in Confs \ {k} : conf'[j] = conf[j] /\ thr'[j] = thr[j]
          /\ thr'[k] = "new" /\ conf'[k].members = {} /\ ptr'[c] = k
          /\ \A x \in Threads \ {c} : ptr'[x] = ptr[x] /\ pc'[x] = pc[x] /\ ptr[x] # k
          /\ pc'[c] = "launch"
      BY <2>2, <1>a DEF TypeOK, Unreferenced, Blank
    <3>2. \A x \in Threads \ {c} : Guarded(x)' = Guarded(x)
      BY <3>1 DEF Guarded
    <3>3. ~Guarded(c)'
      BY <3>1, <1>a DEF Guarded
    <3> QED
      BY <3>1, <3>2, <3>3, <1>a DEF LockInv, Alive
  <2> QED
    BY <1>3, <2>1, <2>2 DEF conference_new, Goto
<1>4. ASSUME NEW c \in Callers, Launch(c) PROVE LockInv'
  <2>1. \A k \in Confs : conf'[k].readers = conf[k].readers /\ conf'[k].members = conf[k].members
    BY <1>4, <1>0 DEF ConfType, ConfRec, Launch
  <2> QED
    BY <1>4, <2>1, <1>a, LockFrame DEF TypeOK, Guarded, LockInv, Launch, At, Alive, Goto
<1>t. ASSUME NEW x \in Threads, NEW at, NEW to, TryRdLock(x, at, to), ptr[x] \in Confs,
             ~Guarded(x), thr' = thr, ptr[x] = ptr'[x] \/ (thr[ptr[x]] = "wrlocked" /\ to = "out"),
             \A y \in Threads \ {x} : ptr'[y] = ptr[y],
             to \in {"done", "release", "out"}, x \in Recorders => to = "out",
             at \notin {"launch", "rdlock", "dial", "start", "loop", "leaving"},
             x \in Callers /\ at \in {"dial", "dialing"} => x \in Bridge
      PROVE  LockInv'
  <2>0. SameObjects
    BY <1>t, <1>0, TryRdLockFrame
  <2>1. CASE thr[ptr[x]] = "wrlocked"
    <3>1. conf' = conf /\ pc' = [pc EXCEPT ![x] = to]
      BY <1>t, <2>1 DEF TryRdLock, Goto
    <3>2. ~Guarded(x)'
      BY <1>t, <3>1, <1>a DEF Guarded, TypeOK
    <3>3. \A y \in Threads \ {x} : Guarded(y)' = Guarded(y) /\ pc'[y] = pc[y]
      BY <3>1 DEF Guarded, TypeOK
    <3>4. pc'[x] = to
      BY <3>1 DEF TypeOK
    <3>5. x \in Recorders => pc[x] \notin {"loop", "leaving"}
      BY <1>t DEF Guarded
    <3> QED
      BY <1>t, <3>1, <3>2, <3>3, <3>4, <3>5, <1>a, LockFrame DEF LockInv
  <2>2. CASE thr[ptr[x]] # "wrlocked"
    <3>1. /\ conf' = [conf EXCEPT ![ptr[x]].readers = conf[ptr[x]].readers \cup {x}]
          /\ pc' = [pc EXCEPT ![x] = at] /\ ptr'[x] = ptr[x]
      BY <1>t, <2>2 DEF TryRdLock, Goto
    <3>2. /\ x \in conf'[ptr[x]].readers
          /\ \A k \in Confs : conf[k].readers \subseteq conf'[k].readers
          /\ \A k \in Confs : thr[k] = "wrlocked" => conf'[k].readers = conf[k].readers
      <4> DEFINE p == ptr[x]
                 S == conf[p].readers \cup {x}
      <4>0. p \in Confs /\ conf' = [conf EXCEPT ![p].readers = S]
        BY <1>t, <3>1
      <4>1. \A k \in Confs : conf'[k].readers = IF k = p THEN S ELSE conf[k].readers
        <5> HIDE DEF p, S
        <5> QED BY <1>0, <4>0 DEF ConfType, ConfRec
      <4>2. x \in S /\ conf[p].readers \subseteq S
        OBVIOUS
      <4>3. p = ptr[x] /\ thr[p] # "wrlocked"
        BY <2>2
      <4> HIDE DEF p, S
      <4> QED
        BY <4>0, <4>1, <4>2, <4>3
    <3>3. \A y \in Threads \ {x} : Guarded(y)' = Guarded(y) /\ pc'[y] = pc[y] /\ ptr'[y] = ptr[y]
      BY <1>t, <3>1 DEF Guarded, TypeOK
    <3>4. pc'[x] = at
      BY <3>1 DEF TypeOK
    <3>5. \A r \in Recorders : pc[r] \in {"loop", "leaving"} => r # x
      BY <1>t DEF Guarded
    <3>6. \A k \in Confs : conf'[k].members = conf[k].members
      BY <2>0 DEF SameObjects
    <3>7. \A y \in Threads : Guarded(y)' => ptr'[y] \in Confs /\ y \in conf'[ptr'[y]].readers
      BY <1>t, <3>1, <3>2, <3>3 DEF LockInv
    <3>8. \A y \in Threads : pc'[y] \in {"launch", "rdlock", "dial", "start"} => ptr'[y] \in Confs
      BY <1>t, <3>3, <3>4 DEF LockInv
    <3>9. \A c \in Callers : pc'[c] \in {"dial", "dialing"} => c \in Bridge
      BY <1>t, <3>3, <3>4, <1>a DEF LockInv
    <3>10. \A k \in Confs, r \in Recorders : Alive(k)' /\ r \in conf'[k].members =>
             ptr'[r] = k /\ pc'[r] \in {"loop", "leaving"}
      BY <1>t, <1>a, <3>3, <3>5, <3>6 DEF LockInv, Alive
    <3> QED
      BY <1>t, <3>2, <3>7, <3>8, <3>9, <3>10 DEF LockInv
  <2> QED
    BY <2>1, <2>2
<1>u. ASSUME NEW x \in Threads, RdUnlock(x), ptr[x] \in Confs, thr' = thr,
             pc'[x] \in {"setup", "done", "out"}, pc'[x] = "setup" => x \in Bridge /\ ptr'[x] = ptr[x],
             pc[x] \notin {"loop", "leaving"},
             \A y \in Threads \ {x} : ptr'[y] = ptr[y] /\ pc'[y] = pc[y]
      PROVE  LockInv'
  <2>0. SameObjects
    BY <1>u, <1>0, RdUnlockFrame
  <2>1. \A k \in Confs : conf[k].readers \ {x} \subseteq conf'[k].readers /\ conf'[k].readers \subseteq conf[k].readers
    BY <1>u, <1>0, ReadersAfter DEF RdUnlock
  <2>2. ~Guarded(x)'
    BY <1>u, <1>a DEF Guarded
  <2>3. \A y \in Threads \ {x} : Guarded(y)' = Guarded(y)
    BY <1>u DEF Guarded
  <2>4. \A k \in Confs : conf'[k].members = conf[k].members
    BY <2>0 DEF SameObjects
  <2>5. \A k \in Confs, r \in Recorders : Alive(k)' /\ r \in conf'[k].members =>
             ptr'[r] = k /\ pc'[r] \in {"loop", "leaving"}
    BY <1>u, <1>a, <2>4 DEF LockInv, Alive
  <2>6. \A y \in Threads : Guarded(y)' => ptr'[y] \in Confs /\ y \in conf'[ptr'[y]].readers
    BY <1>u, <2>1, <2>2, <2>3 DEF LockInv
  <2>7. \A k \in Confs : thr'[k] = "wrlocked" => conf'[k].readers = {}
    BY <1>u, <2>1 DEF LockInv
  <2> QED
    BY <1>u, <1>a, <2>5, <2>6, <2>7 DEF LockInv
<1>5. ASSUME NEW c \in Callers, RdLock(c) PROVE LockInv'
  <2>1. TryRdLock(c, "pin", "done") /\ thr' = thr /\ ptr' = ptr /\ pc[c] = "rdlock"
    BY <1>5 DEF RdLock, At
  <2>2. ptr[c] \in Confs /\ ~Guarded(c)
    BY <2>1, <1>a DEF LockInv, Guarded
  <2> QED
    BY <2>1, <2>2, <1>a, <1>t
<1>6. ASSUME NEW c \in Callers, EnterPin(c) PROVE LockInv'
  BY <1>6, <1>0, <1>a, LockFrame
  DEF TypeOK, Guarded, LockInv, EnterPin, At, Goto
<1>7. ASSUME NEW c \in Callers, Check(c) PROVE LockInv'
  BY <1>7, <1>0, <1>a, LockFrame
  DEF TypeOK, Guarded, LockInv, Check, At, Goto
<1>8. ASSUME NEW c \in Callers, Dial(c) PROVE LockInv'
  <2>0. thr' = thr /\ ptr' = ptr /\ pc[c] = "dial"
    BY <1>8 DEF Dial, At
  <2>1. ptr[c] \in Confs /\ ~Guarded(c) /\ c \in Bridge
    BY <2>0, <1>a DEF LockInv, Guarded
  <2>2. CASE TryRdLock(c, "dialing", "done")
    BY <2>0, <2>1, <2>2, <1>a, <1>t
  <2>3. CASE Goto(c, "setup") /\ UNCHANGED conf
    BY <2>0, <2>1, <2>3, <1>a, LockFrame DEF TypeOK, Guarded, LockInv, Goto
  <2> QED
    BY <1>8, <2>2, <2>3 DEF Dial
<1>9. ASSUME NEW c \in Callers, Dialed(c) PROVE LockInv'
  <2>1. RdUnlock(c) /\ thr' = thr /\ ptr' = ptr /\ pc[c] = "dialing"
        /\ \E next \in {"setup", "done"} : pc' = [pc EXCEPT ![c] = next]
    BY <1>9 DEF Dialed, At, Goto
  <2>2. ptr[c] \in Confs /\ c \in Bridge
    BY <2>1, <1>a DEF LockInv, Guarded
  <2> QED
    BY <2>1, <2>2, <1>a, <1>u DEF TypeOK
<1>10. ASSUME NEW c \in Callers, Setup(c) PROVE LockInv'
  <2>1. \A k \in Confs : conf'[k].readers = conf[k].readers /\ conf'[k].members = conf[k].members
    BY <1>10, <1>0 DEF ConfType, ConfRec, Setup
  <2> QED
    BY <1>10, <2>1, <1>a, LockFrame DEF TypeOK, Guarded, LockInv, Setup, At, Goto
<1>11. ASSUME NEW c \in Callers, conference_add_member(c) PROVE LockInv'
  <2>1. \A k \in Confs : /\ conf'[k].readers = conf[k].readers
                         /\ conf'[k].members \cap Recorders = conf[k].members \cap Recorders
    BY <1>11, <1>0, <1>a DEF ConfType, ConfRec, conference_add_member, Added
  <2> QED
    BY <1>11, <2>1, <1>a, LockFrame DEF TypeOK, Guarded, LockInv, conference_add_member, At, Goto
<1>14. ASSUME NEW c \in Callers, conference_del_member(c) PROVE LockInv'
  <2>1. \A k \in Confs : /\ conf'[k].readers = conf[k].readers
                         /\ conf'[k].members \cap Recorders = conf[k].members \cap Recorders
    BY <1>14, <1>0, <1>a DEF ConfType, ConfRec, conference_del_member, Deleted
  <2> QED
    BY <1>14, <2>1, <1>a, LockFrame DEF TypeOK, Guarded, LockInv, conference_del_member, At, Goto
<1>12. ASSUME NEW c \in Callers, LoopStopped(c) PROVE LockInv'
  BY <1>12, <1>0, <1>a, LockFrame
  DEF TypeOK, Guarded, LockInv, LoopStopped, At, Goto
<1>w. ASSUME NEW c \in Callers, WrLockMember(c) PROVE LockInv'
  BY <1>w, <1>0, <1>a, LockFrame
  DEF TypeOK, Guarded, LockInv, WrLockMember, At, Goto
<1>13. ASSUME NEW c \in Callers, Hangup(c) PROVE LockInv'
  BY <1>13, <1>0, <1>a, LockFrame
  DEF TypeOK, Guarded, LockInv, Hangup, At, Goto
<1>15. ASSUME NEW c \in Callers, Done(c) PROVE LockInv'
  <2>1. \A k \in Confs : conf'[k].readers = conf[k].readers /\ conf'[k].members = conf[k].members
    BY <1>15, <1>0 DEF ConfType, ConfRec, Done
  <2> QED
    BY <1>15, <2>1, <1>a, LockFrame DEF TypeOK, Guarded, LockInv, Done, At, Goto
<1>16. ASSUME NEW c \in Callers, Release(c) PROVE LockInv'
  <2>1. RdUnlock(c) /\ thr' = thr /\ pc[c] = "release"
        /\ pc' = [pc EXCEPT ![c] = "out"] /\ ptr' = [ptr EXCEPT ![c] = NoConf]
    BY <1>16 DEF Release, At, Goto
  <2>2. pc'[c] = "out" /\ \A y \in Threads \ {c} : ptr'[y] = ptr[y] /\ pc'[y] = pc[y]
    BY <2>1, <1>a DEF TypeOK
  <2>3. CASE ptr[c] \in Confs
    BY <2>1, <2>2, <2>3, <1>a, <1>u
  <2>4. CASE ptr[c] \notin Confs
    <3>1. conf' = conf
      BY <2>1, <2>4 DEF TypeOK, RdUnlock
    <3>2. ~Guarded(c)' /\ pc[c] \notin {"loop", "leaving"}
      BY <2>1, <2>2, <1>a DEF Guarded
    <3>3. \A y \in Threads \ {c} : Guarded(y)' = Guarded(y)
      BY <2>2 DEF Guarded
    <3> QED
      BY <2>1, <2>2, <3>1, <3>2, <3>3, <1>a, LockFrame DEF LockInv
  <2> QED
    BY <2>3, <2>4
<1>17. ASSUME NEW k \in Confs, ThreadStart(k) PROVE LockInv'
  BY <1>17, <1>0, <1>a, LockFrame
  DEF TypeOK, Guarded, LockInv, ThreadStart, Thread
<1>18. ASSUME NEW k \in Confs, ThreadLoopEnds(k) PROVE LockInv'
  <2>1. \A j \in Confs : conf'[j].readers = conf[j].readers /\ conf'[j].members = conf[j].members
    BY <1>18, <1>0 DEF ConfType, ConfRec, ThreadLoopEnds
  <2> QED
    BY <1>18, <2>1, <1>a, LockFrame DEF TypeOK, Guarded, LockInv, ThreadLoopEnds, Thread
<1>19. ASSUME NEW k \in Confs, Silence(k) PROVE LockInv'
  <2>1. \A j \in Confs : conf'[j].readers = conf[j].readers /\ conf'[j].members = conf[j].members
    BY <1>19, <1>0 DEF ConfType, ConfRec, Silence
  <2> QED
    BY <1>19, <2>1, <1>a, LockFrame DEF TypeOK, Guarded, LockInv, Silence
<1>21. ASSUME NEW k \in Confs, Unhash(k) PROVE LockInv'
  <2>1. \A j \in Confs : conf'[j].readers = conf[j].readers /\ conf'[j].members = conf[j].members
    BY <1>21, <1>0 DEF ConfType, ConfRec, Unhash
  <2> QED
    BY <1>21, <2>1, <1>a, LockFrame DEF TypeOK, Guarded, LockInv, Unhash, Thread
<1>20. ASSUME NEW k \in Confs, Sweep(k) PROVE LockInv'
  BY <1>20, <1>0, <1>a, LockFrame
  DEF TypeOK, Guarded, LockInv, Sweep, Thread
<1>22. ASSUME NEW k \in Confs, WrLock(k) PROVE LockInv'
  <2>1. /\ conf[k].readers = {} /\ UNCHANGED <<conf, pc, ptr>>
        /\ \A j \in Confs : /\ thr'[j] = "free" <=> thr[j] = "free"
                            /\ thr'[j] = "wrlocked" => j = k \/ thr[j] = "wrlocked"
    BY <1>22 DEF WrLock, Thread, TypeOK
  <2>2. \A x \in Threads : Guarded(x)' = Guarded(x)
    BY <2>1 DEF Guarded
  <2> QED
    BY <2>1, <2>2 DEF LockInv, Alive
<1>23. ASSUME NEW k \in Confs, WrUnlock(k) PROVE LockInv'
  BY <1>23, <1>0, <1>a, LockFrame
  DEF TypeOK, Guarded, LockInv, WrUnlock, Thread
<1>24. ASSUME NEW k \in Confs, Destroy(k) PROVE LockInv'
  <2>1. /\ \A j \in Confs : conf'[j].readers = conf[j].readers
        /\ \A j \in Confs \ {k} : conf'[j] = conf[j]
    BY <1>24, <1>0 DEF ConfType, ConfRec, Destroy, Blank
  <2> QED
    BY <1>24, <2>1, <1>a, LockFrame DEF TypeOK, Guarded, LockInv, Destroy, Thread
<1>25. ASSUME NEW r \in Recorders, RecordStart(r) PROVE LockInv'
  <2>1. TryRdLock(r, "adding", "out") /\ thr' = thr /\ pc[r] = "start"
        /\ IF thr[ptr[r]] = "wrlocked" THEN ptr' = [ptr EXCEPT ![r] = NoConf] ELSE ptr' = ptr
    BY <1>25 DEF RecordStart, At
  <2>2. ptr[r] \in Confs /\ ~Guarded(r)
    BY <2>1, <1>a DEF LockInv, Guarded
  <2>3. \A y \in Threads \ {r} : ptr'[y] = ptr[y]
    BY <2>1 DEF TypeOK
  <2> QED
    BY <2>1, <2>2, <2>3, <1>a, <1>t
<1>26. ASSUME NEW r \in Recorders, RecordAdd(r) PROVE LockInv'
  <2>1. /\ pc[r] = "adding" /\ pc'[r] = "loop" /\ ptr' = ptr /\ thr' = thr
        /\ \A y \in Threads \ {r} : pc'[y] = pc[y]
        /\ conf' = [conf EXCEPT ![ptr[r]].members = @ \cup {r}]
    BY <1>26, <1>a DEF RecordAdd, At, Goto, TypeOK
  <2>2. \A k \in Confs : /\ conf'[k].readers = conf[k].readers
                         /\ \A s \in conf'[k].members : s \in conf[k].members \/ (s = r /\ k = ptr[r])
    BY <2>1, <1>0 DEF ConfType, ConfRec
  <2>3. \A x \in Threads : Guarded(x)' = Guarded(x)
    BY <2>1, <1>a DEF Guarded
  <2> QED
    BY <2>1, <2>2, <2>3, <1>a DEF LockInv, Alive
<1>27. ASSUME NEW r \in Recorders, RecordStop(r) PROVE LockInv'
  BY <1>27, <1>0, <1>a, LockFrame
  DEF TypeOK, Guarded, LockInv, RecordStop, At, Goto
<1>28. ASSUME NEW r \in Recorders, RecordDel(r) PROVE LockInv'
  <2>1. /\ pc[r] = "leaving" /\ pc'[r] = "release" /\ ptr' = ptr /\ thr' = thr
        /\ \A y \in Threads \ {r} : pc'[y] = pc[y]
        /\ conf' = [conf EXCEPT ![ptr[r]].members = @ \ {r}]
    BY <1>28, <1>a DEF RecordDel, At, Goto, TypeOK
  <2>2. \A k \in Confs : /\ conf'[k].readers = conf[k].readers
                         /\ conf'[k].members \subseteq conf[k].members
                         /\ k = ptr[r] => r \notin conf'[k].members
    BY <2>1, <1>0 DEF ConfType, ConfRec
  <2>3. \A x \in Threads : Guarded(x)' = Guarded(x)
    BY <2>1, <1>a DEF Guarded
  <2> QED
    BY <2>1, <2>2, <2>3, <1>a DEF LockInv, Alive
<1>29. ASSUME NEW r \in Recorders, RecordRelease(r) PROVE LockInv'
  <2>1. RdUnlock(r) /\ thr' = thr /\ pc[r] = "release"
        /\ pc' = [pc EXCEPT ![r] = "out"] /\ ptr' = [ptr EXCEPT ![r] = NoConf]
    BY <1>29 DEF RecordRelease, At, Goto
  <2>2. pc'[r] = "out" /\ \A y \in Threads \ {r} : ptr'[y] = ptr[y] /\ pc'[y] = pc[y]
    BY <2>1, <1>a DEF TypeOK
  <2>3. CASE ptr[r] \in Confs
    BY <2>1, <2>2, <2>3, <1>a, <1>u
  <2>4. CASE ptr[r] \notin Confs
    <3>1. conf' = conf
      BY <2>1, <2>4 DEF TypeOK, RdUnlock
    <3>2. ~Guarded(r)' /\ pc[r] \notin {"loop", "leaving"}
      BY <2>1, <2>2, <1>a DEF Guarded
    <3>3. \A y \in Threads \ {r} : Guarded(y)' = Guarded(y)
      BY <2>2 DEF Guarded
    <3> QED
      BY <2>1, <2>2, <3>1, <3>2, <3>3, <1>a, LockFrame DEF LockInv
  <2> QED
    BY <2>3, <2>4
<1>30. ASSUME NEW a \in Admins, AdminFind(a) PROVE LockInv'
  <2>1. /\ \A k \in Confs : conf'[k].readers = conf[k].readers /\ conf'[k].members = conf[k].members
        /\ thr' = thr /\ pc[a] = "out"
        /\ \/ UNCHANGED <<ptr, pc>>
           \/ \E k \in Confs : /\ ptr' = [ptr EXCEPT ![a] = k]
                               /\ \/ pc' = [pc EXCEPT ![a] = "rdlock"]
                                  \/ pc' = [pc EXCEPT ![a] = "probe"]
    BY <1>30, <1>0, EvictReaders DEF AdminFind, Found, TypeOK, Goto
  <2> QED
    BY <2>1, <1>a, LockFrame DEF TypeOK, Guarded, LockInv
<1>31. ASSUME NEW a \in Admins, Probe(a) PROVE LockInv'
  BY <1>31, <1>0, <1>a, LockFrame
  DEF TypeOK, Guarded, LockInv, Probe, At, Goto
<1>32. ASSUME NEW a \in Admins, AdminRdLock(a) PROVE LockInv'
  <2>1. TryRdLock(a, "cmd", "release") /\ thr' = thr /\ ptr' = ptr /\ pc[a] = "rdlock"
    BY <1>32 DEF AdminRdLock, At
  <2>2. ptr[a] \in Confs /\ ~Guarded(a)
    BY <2>1, <1>a DEF LockInv, Guarded
  <2> QED
    BY <2>1, <2>2, <1>a, <1>t
<1>33. ASSUME NEW a \in Admins, LockRoom(a) PROVE LockInv'
  <2>1. \A k \in Confs : conf'[k].readers = conf[k].readers /\ conf'[k].members = conf[k].members
    BY <1>33, <1>0 DEF ConfType, ConfRec, LockRoom
  <2> QED
    BY <1>33, <2>1, <1>a, LockFrame DEF TypeOK, Guarded, LockInv, LockRoom, At, Goto
<1>34. ASSUME NEW a \in Admins, StopAll(a) PROVE LockInv'
  BY <1>34, <1>0, <1>a, LockFrame
  DEF TypeOK, Guarded, LockInv, StopAll, At, Goto
<1>35. ASSUME NEW a \in Admins, MemberGet(a) PROVE LockInv'
  BY <1>35, <1>0, <1>a, LockFrame
  DEF TypeOK, Guarded, LockInv, MemberGet, At, Goto
<1>36. ASSUME NEW a \in Admins, StopMember(a) PROVE LockInv'
  BY <1>36, <1>0, <1>a, LockFrame
  DEF TypeOK, Guarded, LockInv, StopMember, At, Goto
<1>37. ASSUME NEW a \in Admins, Record(a) PROVE LockInv'
  BY <1>37, <1>0, <1>a, LockFrame
  DEF TypeOK, Guarded, LockInv, Record, At
<1>38. ASSUME NEW a \in Admins, NoRecord(a) PROVE LockInv'
  BY <1>38, <1>0, <1>a, LockFrame
  DEF TypeOK, Guarded, LockInv, NoRecord, At, Goto
<1>39. ASSUME NEW a \in Admins, AdminRelease(a) PROVE LockInv'
  <2>1. RdUnlock(a) /\ thr' = thr /\ pc[a] = "release"
        /\ pc' = [pc EXCEPT ![a] = "out"] /\ ptr' = [ptr EXCEPT ![a] = NoConf]
    BY <1>39 DEF AdminRelease, At, Goto
  <2>2. pc'[a] = "out" /\ \A y \in Threads \ {a} : ptr'[y] = ptr[y] /\ pc'[y] = pc[y]
    BY <2>1, <1>a DEF TypeOK
  <2>3. CASE ptr[a] \in Confs
    BY <2>1, <2>2, <2>3, <1>a, <1>u
  <2>4. CASE ptr[a] \notin Confs
    <3>1. conf' = conf
      BY <2>1, <2>4 DEF TypeOK, RdUnlock
    <3>2. ~Guarded(a)' /\ pc[a] \notin {"loop", "leaving"}
      BY <2>1, <2>2, <1>a DEF Guarded
    <3>3. \A y \in Threads \ {a} : Guarded(y)' = Guarded(y)
      BY <2>2 DEF Guarded
    <3> QED
      BY <2>1, <2>2, <3>1, <3>2, <3>3, <1>a, LockFrame DEF LockInv
  <2> QED
    BY <2>3, <2>4
<1>40. ASSUME NEW x \in Threads, UseAfterFree(x) PROVE LockInv'
  BY <1>40, <1>0, <1>a, LockFrame
  DEF TypeOK, Guarded, LockInv, UseAfterFree
<1>41. ASSUME Shutdown \/ ShutdownDone PROVE LockInv'
  BY <1>41, <1>a, LockFrame DEF Guarded, LockInv, Shutdown, ShutdownDone
<1>43. CASE UNCHANGED vars
  BY <1>43, <1>a, LockFrame DEF Guarded, LockInv, vars
<1> QED
  BY <1>1, <1>2, <1>3, <1>w, <1>4, <1>5, <1>6, <1>7, <1>8, <1>9, <1>10, <1>11, <1>12,
     <1>13, <1>14, <1>15, <1>16, <1>17, <1>18, <1>19, <1>20, <1>21, <1>22,
     <1>23, <1>24, <1>25, <1>26, <1>27, <1>28, <1>29, <1>30, <1>31, <1>32,
     <1>33, <1>34, <1>35, <1>36, <1>37, <1>38, <1>39, <1>40, <1>41, <1>43
  DEF Next, CallerStep, ThreadStep, RecorderStep, AdminStep, Command, Halted

\* The wind-down destroys a conference only when everybody who relies on its read lock
\* has left: callers, recordings and commands that had the lock before it was taken for
\* writing never see the conference go.
THEOREM WriterCorrect == Spec => []WriterAlone
<1>1. Init => LockInv
  BY RoomAssumption DEF RoomAssumption, Init, LockInv, Guarded, Alive, Threads, Members
<1>2. TypeOK /\ LockInv /\ [Next]_vars => LockInv'
  BY LockStep
<1>3. TypeOK /\ LockInv /\ MembersMatch => WriterAlone
  <2> SUFFICES ASSUME TypeOK, LockInv, MembersMatch, NEW k \in Confs, thr[k] = "wrlocked"
               PROVE  /\ \A x \in Threads : ptr[x] = k => ~Guarded(x)
                      /\ conf[k].members \subseteq Bridge
    BY DEF WriterAlone
  <2>1. \A x \in Threads : ptr[x] = k => ~Guarded(x)
    BY DEF LockInv
  <2>2. conf[k].members \subseteq Callers \cup Recorders /\ Callers \cup Recorders \subseteq Threads
    BY DEF TypeOK, ConfRec, Members, Threads
  <2>3. ASSUME NEW c \in Callers, c \in conf[k].members PROVE c \in Bridge
    <3>1. ptr[c] = k /\ pc[c] \in {"loop", "leaving", "removing"}
      BY <2>3 DEF MembersMatch, Alive
    <3> QED
      BY <2>1, <2>2, <3>1 DEF Guarded
  <2>4. ASSUME NEW r \in Recorders PROVE r \notin conf[k].members
    <3>1. r \in conf[k].members => ptr[r] = k /\ pc[r] \in {"loop", "leaving"}
      BY DEF LockInv, Alive
    <3> QED
      BY <2>1, <2>2, <3>1 DEF Guarded
  <2> QED
    BY <2>1, <2>2, <2>3, <2>4
<1> QED
  BY <1>1, <1>2, <1>3, TypeCorrect, MembersCorrect, PTL DEF Spec

(***************************************************************************)
(* globals.threads.                                                        *)
(***************************************************************************)
CountedThr == {"running", "ending", "swept", "unhashed", "wrlocked", "unlocked"}
CountedPC == {"adding", "loop", "leaving", "release"}

ConfThreads == {k \in Confs : thr[k] \in CountedThr}
RecordThreads == {r \in Recorders : pc[r] \in CountedPC}

\* The number is one of two finite sets.
LEMMA ThreadsFinite ==
    /\ IsFiniteSet(ConfThreads) /\ IsFiniteSet(RecordThreads)
    /\ Cardinality(ConfThreads) \in Nat /\ Cardinality(RecordThreads) \in Nat
    /\ ThreadsCounted <=> threads = Cardinality(ConfThreads) + Cardinality(RecordThreads)
<1>1. IsFiniteSet(ConfThreads) /\ IsFiniteSet(RecordThreads)
  BY FS_Subset, RoomAssumption DEF RoomAssumption, ConfThreads, RecordThreads
<1> QED
  BY <1>1, FS_CardinalityType
  DEF ThreadsCounted, ConfThreads, RecordThreads, CountedThr, CountedPC

\* The same after a step.
LEMMA ThreadsAfter ==
    ThreadsCounted' <=> threads' = Cardinality(ConfThreads') + Cardinality(RecordThreads')
  BY DEF ThreadsCounted, ConfThreads, RecordThreads, CountedThr, CountedPC

\* A step that starts or ends no thread.
LEMMA ThreadsFrame ==
    ASSUME ThreadsCounted, threads' = threads,
           \A k \in Confs : thr'[k] \in CountedThr <=> thr[k] \in CountedThr,
           \A r \in Recorders : pc'[r] \in CountedPC <=> pc[r] \in CountedPC
    PROVE  ThreadsCounted'
<1>1. ConfThreads' = ConfThreads /\ RecordThreads' = RecordThreads
  BY DEF ConfThreads, RecordThreads
<1> QED
  BY <1>1, ThreadsFinite, ThreadsAfter

\* A conference thread starts or ends.
LEMMA ConfThreadCounts ==
    ASSUME ThreadsCounted, NEW k \in Confs, pc' = pc,
           \A j \in Confs \ {k} : thr'[j] = thr[j],
           \/ /\ thr[k] \notin CountedThr /\ thr'[k] \in CountedThr /\ threads' = threads + 1
           \/ /\ thr[k] \in CountedThr /\ thr'[k] \notin CountedThr /\ threads' = threads - 1
    PROVE  ThreadsCounted'
<1>1. RecordThreads' = RecordThreads
  BY DEF RecordThreads
<1>2. CASE thr[k] \notin CountedThr /\ thr'[k] \in CountedThr /\ threads' = threads + 1
  <2>1. ConfThreads' = ConfThreads \cup {k} /\ k \notin ConfThreads
    BY <1>2 DEF ConfThreads
  <2>2. Cardinality(ConfThreads') = Cardinality(ConfThreads) + 1
    BY <2>1, ThreadsFinite, FS_AddElement
  <2> QED
    BY <1>1, <1>2, <2>2, ThreadsFinite, ThreadsAfter
<1>3. CASE thr[k] \in CountedThr /\ thr'[k] \notin CountedThr /\ threads' = threads - 1
  <2>1. ConfThreads' = ConfThreads \ {k} /\ k \in ConfThreads
    BY <1>3 DEF ConfThreads
  <2>2. Cardinality(ConfThreads') = Cardinality(ConfThreads) - 1
    BY <2>1, ThreadsFinite, FS_RemoveElement
  <2> QED
    BY <1>1, <1>3, <2>2, ThreadsFinite, ThreadsAfter
<1> QED
  BY <1>2, <1>3

\* A record thread gets its lock or releases it.
LEMMA RecordThreadCounts ==
    ASSUME ThreadsCounted, NEW r \in Recorders, thr' = thr,
           \A q \in Recorders \ {r} : pc'[q] = pc[q],
           \/ /\ pc[r] \notin CountedPC /\ pc'[r] \in CountedPC /\ threads' = threads + 1
           \/ /\ pc[r] \in CountedPC /\ pc'[r] \notin CountedPC /\ threads' = threads - 1
    PROVE  ThreadsCounted'
<1>1. ConfThreads' = ConfThreads
  BY DEF ConfThreads
<1>2. CASE pc[r] \notin CountedPC /\ pc'[r] \in CountedPC /\ threads' = threads + 1
  <2>1. RecordThreads' = RecordThreads \cup {r} /\ r \notin RecordThreads
    BY <1>2 DEF RecordThreads
  <2>2. Cardinality(RecordThreads') = Cardinality(RecordThreads) + 1
    BY <2>1, ThreadsFinite, FS_AddElement
  <2> QED
    BY <1>1, <1>2, <2>2, ThreadsFinite, ThreadsAfter
<1>3. CASE pc[r] \in CountedPC /\ pc'[r] \notin CountedPC /\ threads' = threads - 1
  <2>1. RecordThreads' = RecordThreads \ {r} /\ r \in RecordThreads
    BY <1>3 DEF RecordThreads
  <2>2. Cardinality(RecordThreads') = Cardinality(RecordThreads) - 1
    BY <2>1, ThreadsFinite, FS_RemoveElement
  <2> QED
    BY <1>1, <1>3, <2>2, ThreadsFinite, ThreadsAfter
<1> QED
  BY <1>2, <1>3

\* Every step keeps globals.threads the number of threads that count themselves.
LEMMA ThreadsStep ==
    ASSUME TypeOK, OneLauncher, ThreadsCounted, [Next]_vars
    PROVE  ThreadsCounted'
<1>a. /\ Callers \cap Recorders = {} /\ Recorders \cap Admins = {}
      /\ Callers \subseteq Threads /\ Recorders \subseteq Threads /\ Admins \subseteq Threads
  BY RoomAssumption DEF RoomAssumption, Members, Threads
<1>b. ASSUME NEW x \in Threads \ Recorders, NEW at, pc' = [pc EXCEPT ![x] = at],
             thr' = thr, threads' = threads
      PROVE  ThreadsCounted'
  BY <1>b, ThreadsFrame DEF TypeOK
<1>c. (UNCHANGED <<pc, thr, threads>>) => ThreadsCounted'
  BY ThreadsFrame
<1>1. ASSUME NEW c \in Callers, Enter(c) \/ Find(c) \/ conference_new(c) PROVE ThreadsCounted'
  <2>1. CASE Enter(c) \/ Find(c)
    BY <2>1, <1>a, <1>b DEF GlobalVars, Enter, Find, Goto
  <2>2. CASE conference_new(c)
    <3>1. threads' = threads /\ \A r \in Recorders : pc'[r] = pc[r]
      BY <2>2, <1>a DEF GlobalVars, TypeOK, conference_new, Goto
    <3>2. \A k \in Confs : thr'[k] \in CountedThr <=> thr[k] \in CountedThr
      BY <2>2 DEF GlobalVars, TypeOK, conference_new, Alive, CountedThr
    <3> QED
      BY <3>1, <3>2, ThreadsFrame
  <2> QED
    BY <1>1, <2>1, <2>2
<1>2. ASSUME NEW c \in Callers, Launch(c) PROVE ThreadsCounted'
  <2>1. ptr[c] \in Confs /\ thr[ptr[c]] = "new"
    BY <1>2 DEF OneLauncher, Launch, At
  <2>2. threads' = threads /\ \A r \in Recorders : pc'[r] = pc[r]
    BY <1>2, <1>a DEF GlobalVars, TypeOK, Launch, Goto
  <2>3. \A k \in Confs : thr'[k] \in CountedThr <=> thr[k] \in CountedThr
    BY <1>2, <2>1 DEF GlobalVars, TypeOK, Launch, CountedThr
  <2> QED
    BY <2>2, <2>3, ThreadsFrame
<1>3. ASSUME NEW c \in Callers, RdLock(c) \/ EnterPin(c) \/ Check(c) \/ Dial(c) \/ Dialed(c)
      PROVE  ThreadsCounted'
  BY <1>3, <1>a, <1>b DEF GlobalVars, RdLock, EnterPin, Check, Dial, Dialed, TryRdLock, Goto
<1>4. ASSUME NEW c \in Callers, Setup(c) \/ conference_add_member(c) \/ LoopStopped(c) \/ Hangup(c)
      PROVE  ThreadsCounted'
  BY <1>4, <1>a, <1>b DEF GlobalVars, Setup, conference_add_member, LoopStopped, Hangup, Goto
<1>5. ASSUME NEW c \in Callers,
             WrLockMember(c) \/ conference_del_member(c) \/ Done(c) \/ Release(c)
      PROVE  ThreadsCounted'
  BY <1>5, <1>a, <1>b DEF GlobalVars, WrLockMember, conference_del_member, Done, Release, Goto
<1>6. ASSUME NEW k \in Confs, ThreadStart(k) PROVE ThreadsCounted'
  <2>1. /\ \A j \in Confs \ {k} : thr'[j] = thr[j]
        /\ pc' = pc /\ thr[k] = "starting"
        /\ \/ thr'[k] = "running" /\ threads' = threads + 1
           \/ thr'[k] = "dead" /\ threads' = threads
    BY <1>6 DEF TypeOK, ThreadStart, Thread
  <2>2. CASE thr'[k] = "running" /\ threads' = threads + 1
    BY <2>1, <2>2, ConfThreadCounts DEF CountedThr
  <2>3. CASE thr'[k] = "dead" /\ threads' = threads
    BY <2>1, <2>3, ThreadsFrame DEF CountedThr
  <2> QED
    BY <2>1, <2>2, <2>3
<1>7. ASSUME NEW k \in Confs,
             ThreadLoopEnds(k) \/ Sweep(k) \/ Unhash(k) \/ WrLock(k) \/ WrUnlock(k)
      PROVE  ThreadsCounted'
  <2>1. \A j \in Confs : thr'[j] \in CountedThr <=> thr[j] \in CountedThr
    BY <1>7
    DEF TypeOK, ThreadLoopEnds, Sweep, Unhash, WrLock, WrUnlock, Thread, CountedThr
  <2>2. UNCHANGED <<pc, threads>>
    BY <1>7 DEF GlobalVars, ThreadLoopEnds, Sweep, Unhash, WrLock, WrUnlock
  <2> QED
    BY <2>1, <2>2, ThreadsFrame
<1>8. ASSUME NEW k \in Confs, Silence(k) PROVE ThreadsCounted'
  BY <1>8, <1>c DEF GlobalVars, Silence
<1>9. ASSUME NEW k \in Confs, Destroy(k) PROVE ThreadsCounted'
  <2>1. /\ \A j \in Confs \ {k} : thr'[j] = thr[j]
        /\ pc' = pc /\ thr[k] = "unlocked" /\ thr'[k] = "free" /\ threads' = threads - 1
    BY <1>9 DEF GlobalVars, TypeOK, Destroy, Thread
  <2> QED
    BY <2>1, ConfThreadCounts DEF CountedThr
<1>10. ASSUME NEW r \in Recorders, RecordStart(r) PROVE ThreadsCounted'
  <2>1. /\ \A q \in Recorders \ {r} : pc'[q] = pc[q]
        /\ thr' = thr /\ pc[r] = "start"
        /\ \/ pc'[r] = "adding" /\ threads' = threads + 1
           \/ pc'[r] = "out" /\ threads' = threads
    BY <1>10, <1>a DEF GlobalVars, TypeOK, RecordStart, At, TryRdLock, Goto
  <2>2. CASE pc'[r] = "adding" /\ threads' = threads + 1
    BY <2>1, <2>2, RecordThreadCounts DEF CountedPC
  <2>3. CASE pc'[r] = "out" /\ threads' = threads
    BY <2>1, <2>3, ThreadsFrame DEF CountedPC
  <2> QED
    BY <2>1, <2>2, <2>3
<1>11. ASSUME NEW r \in Recorders, RecordAdd(r) \/ RecordStop(r) \/ RecordDel(r)
       PROVE  ThreadsCounted'
  <2>1. \A q \in Recorders : pc'[q] \in CountedPC <=> pc[q] \in CountedPC
    BY <1>11, <1>a DEF TypeOK, RecordAdd, RecordStop, RecordDel, At, Goto, CountedPC
  <2>2. UNCHANGED <<thr, threads>>
    BY <1>11 DEF GlobalVars, RecordAdd, RecordStop, RecordDel
  <2> QED
    BY <2>1, <2>2, ThreadsFrame
<1>12. ASSUME NEW r \in Recorders, RecordRelease(r) PROVE ThreadsCounted'
  <2>1. /\ \A q \in Recorders \ {r} : pc'[q] = pc[q]
        /\ thr' = thr /\ pc[r] = "release" /\ pc'[r] = "out" /\ threads' = threads - 1
    BY <1>12, <1>a DEF GlobalVars, TypeOK, RecordRelease, At, Goto
  <2> QED
    BY <2>1, RecordThreadCounts DEF CountedPC
<1>13. ASSUME NEW a \in Admins, AdminFind(a) PROVE ThreadsCounted'
  BY <1>13, <1>a, <1>b, <1>c DEF GlobalVars, AdminFind, Goto
<1>14. ASSUME NEW a \in Admins, Probe(a) \/ AdminRdLock(a) \/ LockRoom(a) \/ StopAll(a)
       PROVE  ThreadsCounted'
  BY <1>14, <1>a, <1>b DEF GlobalVars, Probe, AdminRdLock, TryRdLock, LockRoom, StopAll, Goto
<1>15. ASSUME NEW a \in Admins, MemberGet(a) \/ StopMember(a) \/ NoRecord(a) \/ AdminRelease(a)
       PROVE  ThreadsCounted'
  BY <1>15, <1>a, <1>b DEF GlobalVars, MemberGet, StopMember, NoRecord, AdminRelease, Goto
<1>16. ASSUME NEW a \in Admins, Record(a) PROVE ThreadsCounted'
  <2>1. \A q \in Recorders : pc'[q] \in CountedPC <=> pc[q] \in CountedPC
    BY <1>16, <1>a DEF TypeOK, Record, CountedPC
  <2>2. UNCHANGED <<thr, threads>>
    BY <1>16 DEF GlobalVars, Record
  <2> QED
    BY <2>1, <2>2, ThreadsFrame
<1>17. ASSUME NEW x \in Threads, UseAfterFree(x) PROVE ThreadsCounted'
  BY <1>17, <1>c DEF UseAfterFree
<1>18. CASE Shutdown \/ ShutdownDone \/ UNCHANGED vars
  BY <1>18, <1>c DEF Shutdown, ShutdownDone, vars
<1> QED
  BY <1>1, <1>2, <1>3, <1>4, <1>5, <1>6, <1>7, <1>8, <1>9, <1>10, <1>11, <1>12,
     <1>13, <1>14, <1>15, <1>16, <1>17, <1>18
  DEF Next, CallerStep, ThreadStep, RecorderStep, AdminStep, Command, Halted

\* mod_conference_shutdown waits for the right number: globals.threads is that of
\* the conference and record threads which still use the module.
THEOREM ThreadsCorrect == Spec => []ThreadsCounted
<1>1. Init => ThreadsCounted
  <2> SUFFICES ASSUME Init PROVE ThreadsCounted
    OBVIOUS
  <2>1. ConfThreads = {}
    BY DEF Init, ConfThreads, CountedThr
  <2>2. RecordThreads = {}
    BY DEF Init, RecordThreads, CountedPC, Threads, Members
  <2>3. Cardinality({}) = 0
    BY FS_EmptySet
  <2>4. threads = 0
    BY DEF Init
  <2> QED
    BY <2>1, <2>2, <2>3, <2>4, ThreadsFinite
<1>2. TypeOK /\ SetupInv /\ ThreadsCounted /\ [Next]_vars => ThreadsCounted'
  BY ThreadsStep DEF SetupInv
<1> QED
  BY <1>1, <1>2, TypeCorrect, SetupCorrect, PTL DEF Spec

-----------------------------------------------------------------------------

(***************************************************************************)
(* IV. Every step of ConferenceRoom is one step of RoomDirectory or leaves *)
(* it as it is.                                                            *)
(***************************************************************************)

\* Nobody is in a room that does not exist: conference_new need not clear a list.
FreeEmpty == \A k \in Confs : k \notin OpenRooms => Callers_in(k) = {}

\* One step of the directory, or none.
DirStep == \/ \E r \in Confs : \/ Directory!Open(r) \/ Directory!Delist(r)
                               \/ Directory!Arrive(r) \/ Directory!Depart(r)
                               \/ Directory!Doom(r) \/ Directory!Close(r)
           \/ UNCHANGED Directory!vars

\* What the directory shows of one conference is what it showed before.
SameRoom(k) ==
    /\ thr'[k] = "free" <=> thr[k] = "free"
    /\ "DESTRUCT" \in conf'[k].flags \/ thr'[k] \in WindingDown
         <=> "DESTRUCT" \in conf[k].flags \/ thr[k] \in WindingDown
    /\ conf'[k].members \cap Callers = conf[k].members \cap Callers

\* A step that shows in no conference does not show in the directory's sets.
LEMMA SameRooms ==
    ASSUME \A k \in Confs : SameRoom(k)
    PROVE  /\ OpenRooms' = OpenRooms
           /\ DoomedRooms' = DoomedRooms
           /\ [k \in Confs |-> Callers_in(k)]' = [k \in Confs |-> Callers_in(k)]
<1>1. \A k \in Confs : Callers_in(k)' = Callers_in(k)
  BY DEF SameRoom, Callers_in
<1> QED
  BY <1>1 DEF SameRoom, OpenRooms, DoomedRooms, Alive, Has

\* With the registry unchanged too, the step is a stutter of the directory.
LEMMA Stutter ==
    ASSUME conference_hash' = conference_hash, \A k \in Confs : SameRoom(k)
    PROVE  UNCHANGED Directory!vars
  BY SameRooms DEF Directory!vars

\* conference_find either leaves the directory alone or delists a doomed room.
LEMMA EvictDelists ==
    ASSUME TypeOK, Registry, NEW n \in Names, Evict(n), UNCHANGED thr
    PROVE  DirStep
<1> DEFINE k == conference_hash[n]
<1>0. ConfType
  BY DEF TypeOK, ConfType
<1>1. \A j \in Confs : SameRoom(j)
  BY <1>0, EvictFrame DEF SameRoom, SameMembers, ConfFlags
<1>2. CASE UNCHANGED conference_hash
  BY <1>1, <1>2, Stutter DEF DirStep
<1>3. CASE /\ k # NoConf /\ Has(k, "DESTRUCT")
           /\ conference_hash' = [conference_hash EXCEPT ![n] = NoConf]
  <2>1. k \in Confs
    BY <1>3 DEF TypeOK
  <2>2. thr[k] \in BeforeUnhash
    BY <1>3 DEF Registry, RegistrySound
  <2>3. k \in DoomedRooms
    BY <2>1, <2>2, <1>3 DEF DoomedRooms, OpenRooms, Alive, BeforeUnhash
  <2>4. Directory!Delist(k)
    BY <2>3, <1>1, <1>3, SameRooms DEF Directory!Delist
  <2> QED
    BY <2>1, <2>4 DEF DirStep
<1> QED
  BY <1>2, <1>3 DEF Evict

\* A mark of destruction, or the end of the mux loop, dooms the room.
LEMMA MarkDooms ==
    ASSUME TypeOK, NEW k \in Confs, Alive(k), conference_hash' = conference_hash,
           \A j \in Confs \ {k} : SameRoom(j),
           thr'[k] # "free",
           "DESTRUCT" \in conf'[k].flags \/ thr'[k] \in WindingDown,
           conf'[k].members \cap Callers = conf[k].members \cap Callers
    PROVE  DirStep
<1>1. CASE k \in DoomedRooms
  <2>1. SameRoom(k)
    BY <1>1 DEF SameRoom, DoomedRooms, OpenRooms, Alive, Has
  <2> QED
    BY <2>1, Stutter DEF DirStep
<1>2. CASE k \notin DoomedRooms
  <2>1. \A j \in Confs : Callers_in(j)' = Callers_in(j)
    BY DEF SameRoom, Callers_in
  <2>2. OpenRooms' = OpenRooms
    BY DEF SameRoom, OpenRooms, Alive
  <2>3. DoomedRooms' = DoomedRooms \cup {k}
    BY <2>2 DEF SameRoom, DoomedRooms, OpenRooms, Alive, Has
  <2>4. [j \in Confs |-> Callers_in(j)]' = [j \in Confs |-> Callers_in(j)]
    BY <2>1
  <2>5. k \in OpenRooms
    BY DEF OpenRooms
  <2>6. Directory!Doom(k)
    BY <1>2, <2>2, <2>3, <2>4, <2>5 DEF Directory!Doom
  <2> QED
    BY <2>6 DEF DirStep
<1> QED
  BY <1>1, <1>2

\* conference_new opens a room under the free name its caller looked up.
LEMMA NewOpens ==
    ASSUME TypeOK, NameFree, FreeEmpty, NEW c \in Callers, conference_new(c)
    PROVE  DirStep
<1>1. CASE UNCHANGED <<thr, conf, conference_hash>>
  BY <1>1, Stutter DEF DirStep, SameRoom
<1>2. ASSUME NEW k \in Confs, ~Alive(k), thr' = [thr EXCEPT ![k] = "new"],
             conf' = [conf EXCEPT ![k] = [Blank(want[c]) EXCEPT !.flags = {"INHASH"}]],
             conference_hash' = [conference_hash EXCEPT ![want[c]] = k]
      PROVE  DirStep
  <2>1. /\ \A j \in Confs \ {k} : conf'[j] = conf[j] /\ thr'[j] = thr[j]
        /\ conf'[k].members = {} /\ conf'[k].flags = {"INHASH"} /\ thr'[k] = "new"
    BY <1>2 DEF TypeOK, Blank
  <2>2. \A j \in Confs : Callers_in(j)' = Callers_in(j)
    BY <1>2, <2>1 DEF FreeEmpty, OpenRooms, Callers_in
  <2>3. OpenRooms' = OpenRooms \cup {k}
    BY <2>1 DEF OpenRooms, Alive
  <2>4. DoomedRooms' = DoomedRooms
    BY <1>2, <2>1, <2>3 DEF DoomedRooms, OpenRooms, Alive, Has, WindingDown
  <2>5. want[c] \in Names /\ conference_hash[want[c]] = NoConf
    BY DEF TypeOK, NameFree, conference_new
  <2>6. k \notin OpenRooms
    BY <1>2 DEF OpenRooms
  <2>7. [j \in Confs |-> Callers_in(j)]' = [j \in Confs |-> Callers_in(j)]
    BY <2>2
  <2>8. Directory!Open(k)
    BY <1>2, <2>3, <2>4, <2>5, <2>6, <2>7 DEF Directory!Open
  <2> QED
    BY <2>8 DEF DirStep
<1> QED
  BY <1>1, <1>2 DEF conference_new

\* conference_add_member lets in a caller that is in no room.
LEMMA AddArrives ==
    ASSUME TypeOK, MembersMatch, FreeEmpty, NEW c \in Callers, conference_add_member(c)
    PROVE  DirStep
<1> DEFINE k == ptr[c]
<1>0. c \in Threads /\ pc[c] = "adding" /\ Alive(k)
  BY DEF conference_add_member, At, Threads, Members
<1>1. CASE k \notin Confs
  <2>1. conf' = conf
    BY <1>1 DEF TypeOK, conference_add_member
  <2> QED
    BY <2>1, Stutter DEF DirStep, SameRoom, conference_add_member
<1>2. CASE k \in Confs
  <2>1. /\ \A j \in Confs \ {k} : conf'[j] = conf[j]
        /\ conf'[k].members = conf[k].members \cup {c}
        /\ "DESTRUCT" \in conf'[k].flags <=> "DESTRUCT" \in conf[k].flags
    BY <1>2 DEF TypeOK, ConfRec, conference_add_member, Added
  <2>2. \A j \in Confs : Callers_in(j)' = IF j = k THEN Callers_in(k) \cup {c} ELSE Callers_in(j)
    BY <2>1 DEF Callers_in
  <2>3. [j \in Confs |-> Callers_in(j)]'
          = [[j \in Confs |-> Callers_in(j)] EXCEPT ![k] = @ \cup {c}]
    BY <2>2
  <2>4. thr' = thr /\ conference_hash' = conference_hash
    BY DEF conference_add_member
  <2>5. OpenRooms' = OpenRooms /\ DoomedRooms' = DoomedRooms
    BY <2>1, <2>4 DEF OpenRooms, DoomedRooms, Alive, Has
  <2>6. \A j \in Confs : c \notin Callers_in(j)
    BY <1>0 DEF MembersMatch, FreeEmpty, OpenRooms, Callers_in
  <2>7. ~Directory!Inside(c)
    BY <2>6 DEF Directory!Inside
  <2>8. k \in OpenRooms
    BY <1>0, <1>2 DEF OpenRooms
  <2>9. Directory!Arrive(k)
    BY <2>3, <2>4, <2>5, <2>7, <2>8 DEF Directory!Arrive
  <2> QED
    BY <1>2, <2>9 DEF DirStep
<1> QED
  BY <1>1, <1>2

\* conference_del_member lets a caller out of the room it is in, and may doom it.
LEMMA DelDeparts ==
    ASSUME TypeOK, MembersMatch, NEW c \in Callers, conference_del_member(c)
    PROVE  DirStep
<1> DEFINE k == ptr[c]
<1>0. c \in Threads /\ pc[c] = "removing" /\ Alive(k)
  BY DEF conference_del_member, At, Threads, Members
<1>1. CASE k \notin Confs
  <2>1. conf' = conf
    BY <1>1 DEF TypeOK, conference_del_member
  <2> QED
    BY <2>1, Stutter DEF DirStep, SameRoom, conference_del_member
<1>2. CASE k \in Confs
  <2>1. /\ \A j \in Confs \ {k} : conf'[j] = conf[j]
        /\ conf'[k].members = conf[k].members \ {c}
        /\ "DESTRUCT" \in conf[k].flags => "DESTRUCT" \in conf'[k].flags
    BY <1>2 DEF TypeOK, ConfRec, conference_del_member, Deleted
  <2>2. \A j \in Confs : Callers_in(j)' = IF j = k THEN Callers_in(k) \ {c} ELSE Callers_in(j)
    BY <2>1 DEF Callers_in
  <2>3. [j \in Confs |-> Callers_in(j)]'
          = [[j \in Confs |-> Callers_in(j)] EXCEPT ![k] = @ \ {c}]
    BY <2>2
  <2>4. thr' = thr /\ conference_hash' = conference_hash
    BY DEF conference_del_member
  <2>5. OpenRooms' = OpenRooms
    BY <2>4 DEF OpenRooms, Alive
  <2>6. DoomedRooms' \in {DoomedRooms, DoomedRooms \cup {k}}
    <3>1. CASE k \in DoomedRooms'
      <4>1. DoomedRooms' = DoomedRooms \cup {k}
        BY <3>1, <2>1, <2>4, <2>5 DEF DoomedRooms, OpenRooms, Alive, Has
      <4> QED
        BY <4>1
    <3>2. CASE k \notin DoomedRooms'
      <4>1. DoomedRooms' = DoomedRooms
        BY <3>2, <1>2, <2>1, <2>4, <2>5 DEF DoomedRooms, OpenRooms, Alive, Has
      <4> QED
        BY <4>1
    <3> QED
      BY <3>1, <3>2
  <2>7. c \in Callers_in(k)
    BY <1>0, <1>2 DEF MembersMatch, Callers_in
  <2>8. Directory!Depart(k)
    BY <1>2, <2>3, <2>4, <2>5, <2>6, <2>7 DEF Directory!Depart
  <2> QED
    BY <1>2, <2>8 DEF DirStep
<1> QED
  BY <1>1, <1>2

\* The clean-up of the conference thread gives up the name of its own room.
LEMMA UnhashDelists ==
    ASSUME TypeOK, Registry, NEW k \in Confs, Unhash(k)
    PROVE  DirStep
<1>1. /\ thr[k] = "swept" /\ thr'[k] = "unhashed"
      /\ \A j \in Confs \ {k} : thr'[j] = thr[j]
      /\ \A j \in Confs : /\ conf'[j].members = conf[j].members
                          /\ "DESTRUCT" \in conf'[j].flags <=> "DESTRUCT" \in conf[j].flags
  BY DEF TypeOK, ConfRec, Unhash, Thread
<1>2. \A j \in Confs : SameRoom(j)
  BY <1>1 DEF SameRoom, WindingDown
<1>3. CASE ~Has(k, "INHASH")
  BY <1>2, <1>3, Stutter DEF DirStep, Unhash
<1>4. CASE Has(k, "INHASH")
  <2>1. conf[k].name \in Names /\ conference_hash[conf[k].name] = k
    BY <1>1, <1>4 DEF TypeOK, ConfRec, Registry, RegisteredIsFound, BeforeUnhash
  <2>2. k \in DoomedRooms
    BY <1>1 DEF DoomedRooms, OpenRooms, Alive, WindingDown
  <2>3. conference_hash' = [conference_hash EXCEPT ![conf[k].name] = NoConf]
    BY <1>4 DEF Unhash
  <2>4. Directory!Delist(k)
    BY <2>1, <2>2, <2>3, <1>2, SameRooms DEF Directory!Delist
  <2> QED
    BY <2>4 DEF DirStep
<1> QED
  BY <1>3, <1>4

\* The pool is destroyed only when no name leads to the room.
LEMMA DestroyCloses ==
    ASSUME TypeOK, Registry, NEW k \in Confs, Destroy(k)
    PROVE  DirStep
<1>1. /\ thr[k] = "unlocked" /\ thr'[k] = "free"
      /\ \A j \in Confs \ {k} : thr'[j] = thr[j] /\ conf'[j] = conf[j]
      /\ conf'[k].members = {}
  BY DEF TypeOK, ConfRec, Destroy, Thread, Blank
<1>2. \A j \in Confs : Callers_in(j)' = IF j = k THEN {} ELSE Callers_in(j)
  BY <1>1 DEF Callers_in
<1>3. [j \in Confs |-> Callers_in(j)]' = [[j \in Confs |-> Callers_in(j)] EXCEPT ![k] = {}]
  BY <1>2
<1>4. OpenRooms' = OpenRooms \ {k}
  BY <1>1 DEF OpenRooms, Alive
<1>5. DoomedRooms' = DoomedRooms \ {k}
  BY <1>1, <1>4 DEF DoomedRooms, OpenRooms, Alive, Has
<1>6. k \in DoomedRooms
  BY <1>1 DEF DoomedRooms, OpenRooms, Alive, WindingDown
<1>7. ~Directory!Listed(k)
  BY <1>1, RoomAssumption DEF RoomAssumption, Directory!Listed, Registry, RegistrySound, BeforeUnhash
<1>8. conference_hash' = conference_hash
  BY DEF Destroy
<1>9. Directory!Close(k)
  BY <1>3, <1>4, <1>5, <1>6, <1>7, <1>8 DEF Directory!Close
<1> QED
  BY <1>9 DEF DirStep

\* Every step of the rooms is a step of the directory, or does not show in it.
LEMMA DirectoryStep ==
    ASSUME TypeOK, SetupInv, Registry, MembersMatch, FreeEmpty, [Next]_vars
    PROVE  DirStep
<1>0. ConfType /\ NameFree /\ OneLauncher
  BY DEF TypeOK, ConfType, SetupInv
<1>a. \A k \in Confs : thr'[k] = thr[k] /\ conf'[k] = conf[k] => SameRoom(k)
  BY DEF SameRoom
<1>b. (UNCHANGED <<conference_hash, thr>> /\ SameObjects) => DirStep
  BY Stutter DEF DirStep, SameRoom, SameObjects
<1>c. (UNCHANGED <<conference_hash, thr, conf>>) => DirStep
  BY Stutter DEF DirStep, SameRoom
<1>1. ASSUME NEW c \in Callers, Enter(c) PROVE DirStep
  BY <1>1, <1>c DEF Enter
<1>2. ASSUME NEW c \in Callers, Find(c) PROVE DirStep
  BY <1>2, EvictDelists DEF Find, TypeOK
<1>3. ASSUME NEW c \in Callers, conference_new(c) PROVE DirStep
  BY <1>3, <1>0, NewOpens
<1>4. ASSUME NEW c \in Callers, Launch(c) PROVE DirStep
  <2>1. ptr[c] \in Confs /\ thr[ptr[c]] = "new"
    BY <1>4, <1>0 DEF OneLauncher, Launch, At
  <2>2. \A k \in Confs : SameRoom(k)
    BY <2>1, <1>4, <1>0, LaunchFrame
    DEF TypeOK, SameMembers, SameRoom, Launch, WindingDown
  <2> QED
    BY <1>4, <2>2, Stutter DEF DirStep, Launch
<1>5. ASSUME NEW c \in Callers, RdLock(c) PROVE DirStep
  BY <1>5, <1>0, <1>b, TryRdLockFrame DEF RdLock
<1>6. ASSUME NEW c \in Callers, EnterPin(c) PROVE DirStep
  BY <1>6, <1>c DEF EnterPin
<1>7. ASSUME NEW c \in Callers, Check(c) PROVE DirStep
  BY <1>7, <1>c DEF Check
<1>8. ASSUME NEW c \in Callers, Dial(c) PROVE DirStep
  <2>1. CASE TryRdLock(c, "dialing", "done")
    BY <1>8, <2>1, <1>0, <1>b, TryRdLockFrame DEF Dial
  <2>2. CASE UNCHANGED conf
    BY <1>8, <2>2, <1>c DEF Dial
  <2> QED
    BY <1>8, <2>1, <2>2 DEF Dial
<1>9. ASSUME NEW c \in Callers, Dialed(c) PROVE DirStep
  BY <1>9, <1>0, <1>b, RdUnlockFrame DEF Dialed
<1>10. ASSUME NEW c \in Callers, Setup(c) PROVE DirStep
  <2>1. \A k \in Confs : SameRoom(k)
    BY <1>10, <1>0, SetupFrame DEF SameMembers, SameRoom, Setup
  <2> QED
    BY <1>10, <2>1, Stutter DEF DirStep, Setup
<1>11. ASSUME NEW c \in Callers, conference_add_member(c) PROVE DirStep
  BY <1>11, AddArrives
<1>12. ASSUME NEW c \in Callers, LoopStopped(c) \/ Hangup(c) \/ WrLockMember(c) PROVE DirStep
  BY <1>12, <1>c DEF LoopStopped, Hangup, WrLockMember
<1>13. ASSUME NEW c \in Callers, conference_del_member(c) PROVE DirStep
  BY <1>13, DelDeparts
<1>14. ASSUME NEW c \in Callers, Done(c) PROVE DirStep
  <2>1. conference_hash' = conference_hash /\ thr' = thr /\ Alive(ptr[c])
    BY <1>14 DEF Done, At
  <2>2. CASE conf' = conf
    BY <2>1, <2>2, <1>c
  <2>3. CASE ptr[c] \in Confs /\ conf' = [conf EXCEPT ![ptr[c]].flags = @ \cup {"DESTRUCT"}]
    <3>1. /\ \A j \in Confs \ {ptr[c]} : conf'[j] = conf[j]
          /\ conf'[ptr[c]].members = conf[ptr[c]].members
          /\ "DESTRUCT" \in conf'[ptr[c]].flags
      BY <2>3 DEF TypeOK, ConfRec
    <3> QED
      BY <3>1, <2>1, <2>3, <1>a, MarkDooms DEF Alive
  <2>4. CASE ptr[c] \notin Confs
    <3>1. conf' = conf
      BY <1>14, <2>4 DEF Done, TypeOK
    <3> QED
      BY <2>1, <3>1, <1>c
  <2> QED
    BY <1>14, <2>2, <2>3, <2>4 DEF Done
<1>15. ASSUME NEW c \in Callers, Release(c) PROVE DirStep
  BY <1>15, <1>0, <1>b, RdUnlockFrame DEF Release
<1>16. ASSUME NEW k \in Confs, ThreadStart(k) PROVE DirStep
  <2>1. \A j \in Confs : SameRoom(j)
    BY <1>16 DEF TypeOK, SameRoom, WindingDown, ThreadStart, Thread
  <2> QED
    BY <1>16, <2>1, Stutter DEF DirStep, ThreadStart
<1>17. ASSUME NEW k \in Confs, ThreadLoopEnds(k) PROVE DirStep
  <2>1. /\ \A j \in Confs \ {k} : conf'[j] = conf[j] /\ thr'[j] = thr[j]
        /\ conf'[k].members = conf[k].members
        /\ thr[k] = "running" /\ thr'[k] = "ending"
        /\ conference_hash' = conference_hash
    BY <1>17 DEF TypeOK, ConfRec, ThreadLoopEnds, Thread
  <2> QED
    BY <2>1, <1>a, MarkDooms DEF Alive, WindingDown
<1>18. ASSUME NEW k \in Confs, Silence(k) PROVE DirStep
  <2>1. /\ \A j \in Confs \ {k} : conf'[j] = conf[j] /\ thr'[j] = thr[j]
        /\ conf'[k].members = conf[k].members
        /\ "DESTRUCT" \in conf'[k].flags
        /\ thr[k] = "running" /\ thr'[k] = "running"
        /\ conference_hash' = conference_hash
    BY <1>18 DEF TypeOK, ConfRec, Silence
  <2> QED
    BY <2>1, <1>a, MarkDooms DEF Alive
<1>19. ASSUME NEW k \in Confs, Sweep(k) \/ WrLock(k) \/ WrUnlock(k) PROVE DirStep
  <2>1. \A j \in Confs : SameRoom(j)
    BY <1>19 DEF TypeOK, SameRoom, WindingDown, Sweep, WrLock, WrUnlock, Thread
  <2> QED
    BY <1>19, <2>1, Stutter DEF DirStep, Sweep, WrLock, WrUnlock
<1>20. ASSUME NEW k \in Confs, Unhash(k) PROVE DirStep
  BY <1>20, UnhashDelists
<1>21. ASSUME NEW k \in Confs, Destroy(k) PROVE DirStep
  BY <1>21, DestroyCloses
<1>22. ASSUME NEW r \in Recorders, RecordStart(r) PROVE DirStep
  BY <1>22, <1>0, <1>b, TryRdLockFrame DEF RecordStart
<1>23. ASSUME NEW r \in Recorders, RecordAdd(r) \/ RecordDel(r) PROVE DirStep
  <2>1. r \notin Callers
    BY RoomAssumption DEF RoomAssumption
  <2>2. thr' = thr /\ conference_hash' = conference_hash
    BY <1>23 DEF RecordAdd, RecordDel
  <2>3. CASE conf' = [conf EXCEPT ![ptr[r]].members = @ \cup {r}]
    <3>1. \A j \in Confs : SameRoom(j)
      BY <2>1, <2>2, <2>3 DEF TypeOK, ConfRec, SameRoom
    <3> QED
      BY <2>2, <3>1, Stutter DEF DirStep
  <2>4. CASE conf' = [conf EXCEPT ![ptr[r]].members = @ \ {r}]
    <3>1. \A j \in Confs : SameRoom(j)
      BY <2>1, <2>2, <2>4 DEF TypeOK, ConfRec, SameRoom
    <3> QED
      BY <2>2, <3>1, Stutter DEF DirStep
  <2> QED
    BY <1>23, <2>3, <2>4 DEF RecordAdd, RecordDel
<1>24. ASSUME NEW r \in Recorders, RecordStop(r) PROVE DirStep
  BY <1>24, <1>c DEF RecordStop
<1>25. ASSUME NEW r \in Recorders, RecordRelease(r) PROVE DirStep
  BY <1>25, <1>0, <1>b, RdUnlockFrame DEF RecordRelease
<1>26. ASSUME NEW a \in Admins, AdminFind(a) PROVE DirStep
  BY <1>26, EvictDelists DEF AdminFind
<1>27. ASSUME NEW a \in Admins, AdminRdLock(a) PROVE DirStep
  BY <1>27, <1>0, <1>b, TryRdLockFrame DEF AdminRdLock
<1>28. ASSUME NEW a \in Admins, LockRoom(a) PROVE DirStep
  <2>1. \A j \in Confs : SameRoom(j)
    BY <1>28 DEF TypeOK, ConfRec, SameRoom, LockRoom
  <2> QED
    BY <1>28, <2>1, Stutter DEF DirStep, LockRoom
<1>29. ASSUME NEW a \in Admins,
              Probe(a) \/ StopAll(a) \/ MemberGet(a) \/ StopMember(a) \/ Record(a) \/ NoRecord(a)
       PROVE  DirStep
  BY <1>29, <1>c DEF Probe, StopAll, MemberGet, StopMember, Record, NoRecord
<1>30. ASSUME NEW a \in Admins, AdminRelease(a) PROVE DirStep
  BY <1>30, <1>0, <1>b, RdUnlockFrame DEF AdminRelease
<1>31. ASSUME NEW x \in Threads, UseAfterFree(x) PROVE DirStep
  BY <1>31, <1>c DEF UseAfterFree
<1>32. CASE Shutdown \/ ShutdownDone \/ UNCHANGED vars
  BY <1>32, <1>c DEF Shutdown, ShutdownDone, vars
<1> QED
  BY <1>1, <1>2, <1>3, <1>4, <1>5, <1>6, <1>7, <1>8, <1>9, <1>10, <1>11, <1>12,
     <1>13, <1>14, <1>15, <1>16, <1>17, <1>18, <1>19, <1>20, <1>21, <1>22,
     <1>23, <1>24, <1>25, <1>26, <1>27, <1>28, <1>29, <1>30, <1>31, <1>32
  DEF Next, CallerStep, ThreadStep, RecorderStep, AdminStep, Command, Halted

\* An invariant of the directory, carried over to the rooms.
LEMMA FreeEmptyStep ==
    ASSUME FreeEmpty, DirStep
    PROVE  FreeEmpty'
<1> DEFINE people == [k \in Confs |-> Callers_in(k)]
<1>1. (\A k \in Confs : k \notin OpenRooms => people[k] = {})
  BY DEF FreeEmpty
<1>2. (\A k \in Confs : k \notin OpenRooms' => people'[k] = {}) => FreeEmpty'
  BY DEF FreeEmpty
<1>3. (\A k \in Confs : k \notin OpenRooms' => people'[k] = {})
  <2>1. people \in [Confs -> SUBSET Callers]
    BY DEF Callers_in
  <2>2. CASE UNCHANGED Directory!vars
    BY <1>1, <2>2 DEF Directory!vars
  <2>3. ASSUME NEW r \in Confs, Directory!Open(r) \/ Directory!Delist(r) \/ Directory!Doom(r)
        PROVE  (\A k \in Confs : k \notin OpenRooms' => people'[k] = {})
    <3> HIDE DEF people
    <3> QED
      BY <1>1, <2>1, <2>3 DEF Directory!Open, Directory!Delist, Directory!Doom, people
  <2>4. ASSUME NEW r \in Confs, Directory!Arrive(r) \/ Directory!Depart(r) \/ Directory!Close(r)
        PROVE  (\A k \in Confs : k \notin OpenRooms' => people'[k] = {})
    <3>1. (OpenRooms' = OpenRooms \/ OpenRooms' = OpenRooms \ {r})
      BY <2>4 DEF Directory!Arrive, Directory!Depart, Directory!Close
    <3>2. \A k \in Confs \ {r} : people'[k] = people[k]
      BY <2>4, <2>1 DEF Directory!Arrive, Directory!Depart, Directory!Close
    <3>3. r \notin OpenRooms' => people'[r] = {}
      BY <2>4, <2>1, <1>1 DEF Directory!Arrive, Directory!Depart, Directory!Close
    <3> QED
      BY <3>1, <3>2, <3>3, <1>1
  <2> QED
    BY <2>2, <2>3, <2>4 DEF DirStep
<1> QED
  BY <1>2, <1>3

\* The rooms implement the directory, whatever the number of callers, names,
\* conferences and threads: one room for a name until it is doomed, no
\* namesake's entry deleted, nobody in two rooms, no mark withdrawn.
THEOREM RoomsImplementDirectory == Spec => ImplementsDirectory
<1>1. Init => Directory!Init /\ FreeEmpty
  <2> SUFFICES ASSUME Init PROVE Directory!Init /\ FreeEmpty
    OBVIOUS
  <2>1. \A k \in Confs : thr[k] = "free" /\ conf[k].members = {}
    BY DEF Init, Blank
  <2>2. \A k \in Confs : Callers_in(k) = {}
    BY <2>1 DEF Callers_in
  <2>3. OpenRooms = {} /\ DoomedRooms = {}
    BY <2>1 DEF OpenRooms, DoomedRooms, Alive
  <2>4. conference_hash = [n \in Names |-> NoConf]
    BY DEF Init
  <2>5. [k \in Confs |-> Callers_in(k)] = [r \in Confs |-> {}]
    BY <2>2
  <2> QED
    BY <2>2, <2>3, <2>4, <2>5 DEF Directory!Init, FreeEmpty
<1>2. TypeOK /\ SetupInv /\ RegistrySound /\ RegisteredIsFound /\ MembersMatch /\ FreeEmpty
        /\ [Next]_vars
      => DirStep /\ FreeEmpty'
  BY DirectoryStep, FreeEmptyStep DEF Registry
<1>3. DirStep => [Directory!Next]_(Directory!vars)
  BY DEF DirStep, Directory!Next
<1> QED
  BY <1>1, <1>2, <1>3, TypeCorrect, SetupCorrect, RegistryCorrect, MembersCorrect, PTL
  DEF Spec, ImplementsDirectory, Directory!Spec
=============================================================================
