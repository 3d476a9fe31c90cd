------------------------ MODULE ConferenceFlagsProofs ------------------------
(***************************************************************************)
(* Which marks of a conference's flag word survive the unlocked updates    *)
(* beside them, for any number of callers and of commands.                 *)
(***************************************************************************)
EXTENDS ConferenceFlags, FiniteSetTheorems, TLAPS

\* The threads are different ones.
LEMMA Actors ==
    /\ \A c \in Callers : c \in Threads /\ c \in Finders /\ c \notin Admins /\ c # "mux" /\ c # Nobody
    /\ \A a \in Admins : a \in Threads /\ a \in Finders /\ a \notin Callers /\ a # "mux" /\ a # Nobody
    /\ "mux" \in Threads /\ "mux" # Nobody /\ "mux" \notin Callers /\ "mux" \notin Admins
    /\ Nobody \notin Threads
    /\ \A t \in Threads : t \in Callers \/ t \in Admins \/ t = "mux"
    /\ \A t \in Finders : t \in Threads /\ (t \in Callers \/ t \in Admins)
BY FlagsAssumption DEF Threads, Finders, Nobody

(***************************************************************************)
(* Type correctness.                                                       *)
(***************************************************************************)
\* What the read of an update, locked or not, does to the word and to the updates in
\* flight.
LEMMA ReadsWord ==
    ASSUME WordOK, NEW t \in Threads, NEW v \in SUBSET Watched, NEW l \in BOOLEAN,
           Reads(t, v, l), UNCHANGED flags
    PROVE  /\ WordOK'
           /\ Idle(t) /\ ~Idle(t)'
           /\ update'[t].value = v /\ update'[t].locked = l
           /\ \A s \in Threads \ {t} : update'[s] = update[s] /\ (Idle(s)' <=> Idle(s))
<1> DEFINE u == [value |-> v, locked |-> l]
<1>1. u \in Updates /\ u # None /\ u.value = v /\ u.locked = l
  BY DEF Updates, None
<1>2. /\ update' = [update EXCEPT ![t] = u] /\ update[t] = None
      /\ holder' = IF l THEN t ELSE holder
      /\ l => holder = Nobody
  BY DEF Reads, Idle
<1> HIDE DEF u
<1>3. update' \in [Threads -> Updates \cup {None}] /\ holder' \in Threads \cup {Nobody}
  BY <1>1, <1>2 DEF WordOK
<1>4. \A s \in Threads : holder' = s <=> ~Idle(s)' /\ update'[s].locked
  <2> TAKE s \in Threads
  <2>1. CASE s = t
    BY <1>1, <1>2, <2>1 DEF WordOK, Idle
  <2>2. CASE s # t
    BY <1>1, <1>2, <2>2, Actors DEF WordOK, Idle
  <2> QED BY <2>1, <2>2
<1>5. WordOK'
  BY <1>3, <1>4 DEF WordOK
<1> QED
  BY <1>1, <1>2, <1>5 DEF WordOK, Idle

\* What the write that ends it does.
LEMMA WritesWord ==
    ASSUME WordOK, NEW t \in Threads, Writes(t)
    PROVE  /\ WordOK'
           /\ ~Idle(t) /\ Idle(t)'
           /\ flags' = update[t].value
           /\ \A s \in Threads \ {t} : update'[s] = update[s] /\ (Idle(s)' <=> Idle(s))
           /\ at' = at /\ entry' = entry
<1>1. update[t] \in Updates /\ update[t].value \in SUBSET Watched /\ update[t] # None
      /\ update[t].locked \in BOOLEAN
  BY DEF WordOK, Writes, Idle, Updates
<1>2. /\ flags' = update[t].value
      /\ holder' = IF update[t].locked THEN Nobody ELSE holder
      /\ update' = [update EXCEPT ![t] = None]
      /\ at' = at /\ entry' = entry
  BY DEF Writes
<1>3. update' \in [Threads -> Updates \cup {None}] /\ holder' \in Threads \cup {Nobody}
  BY <1>1, <1>2 DEF WordOK
<1>4. \A s \in Threads : holder' = s <=> ~Idle(s)' /\ update'[s].locked
  <2> TAKE s \in Threads
  <2>1. CASE s = t
    BY <1>1, <1>2, <2>1, Actors DEF WordOK, Idle
  <2>2. CASE s # t
    BY <1>1, <1>2, <2>2, Actors DEF WordOK, Idle
  <2> QED BY <2>1, <2>2
<1>5. WordOK'
  BY <1>1, <1>2, <1>3, <1>4 DEF WordOK
<1> QED
  BY <1>1, <1>2, <1>5 DEF WordOK, Idle

(***************************************************************************)
(* Every step of the specification is the write of an update, the read of  *)
(* one, or neither.                                                        *)
(***************************************************************************)
Around == {"found", "ready", "joining", "in", "leaving", "counting", "left", "deleted"}

\* The places where a thread may read the word for the value v, and where it goes.
ReadsAt(t, v, l, there) ==
    /\ \/ t \in Callers /\ at[t] \in Around /\ there \in Around \ {"found", "leaving", "deleted"}
       \/ t \in Callers /\ at[t] = "deleted" /\ there = "cleaning" /\ l /\ "DESTRUCT" \in v
       \/ t \in Admins /\ at[t] = "found" /\ there = "found" /\ l
       \/ t \in Finders /\ at[t] = "evicting" /\ there = "evicted"
       \/ t = "mux" /\ at[t] = "loop" /\ there \in {"tick", "over"} /\ "DESTRUCT" \in v
       \/ t = "mux" /\ at[t] = "unhashed" /\ there = "ended" /\ l
    /\ flags \ {"INHASH"} \subseteq v
    /\ "INHASH" \in flags => "INHASH" \in v \/ there = "evicted"

Read ==
    \E t \in Threads, v \in SUBSET Watched, l \in BOOLEAN, there \in CallerPlaces \cup MuxPlaces :
        /\ Reads(t, v, l) /\ ReadsAt(t, v, l, there) /\ Goto(t, there)
        /\ UNCHANGED <<flags, entry>>

\* The places that a thread may go to without one.
MovesTo(t, there) ==
    \/ /\ t \in Finders /\ at[t] = "start" /\ entry = "room"
       /\ \/ there = "found" /\ "DESTRUCT" \notin flags /\ entry' = entry
          \/ there = "evicting" /\ entry' = "none"
    \/ t \in Callers /\ at[t] = "found" /\ there = "ready" /\ entry' = entry
    \/ t \in Callers /\ Idle(t) /\ at[t] = "evicted" /\ there = "gone" /\ entry' = entry
    \/ t \in Callers /\ Idle(t) /\ at[t] \in Around /\ there \in Around \ {"found"} /\ entry' = entry
    \/ /\ t \in Callers /\ at[t] = "deleted" /\ there = "cleaning" /\ entry' = entry
       /\ ~("DYNAMIC" \in flags /\ count = 0)
    \/ t \in Callers /\ Idle(t) /\ at[t] = "cleaning" /\ there = "gone" /\ entry' = entry
    \/ t \in Admins /\ Idle(t) /\ at[t] \in {"evicted", "found"} /\ there = "start" /\ entry' = entry
    \/ t = "mux" /\ at[t] = "loop" /\ there = "over" /\ entry' = entry
    \/ t = "mux" /\ Idle(t) /\ at[t] = "tick" /\ there = "loop" /\ entry' = entry
    \/ /\ t = "mux" /\ Idle(t) /\ at[t] = "over" /\ there = "unhashed"
       /\ entry' = IF "INHASH" \in flags THEN "none" ELSE entry

Move ==
    \/ \E t \in Threads, there \in CallerPlaces \cup MuxPlaces :
         Goto(t, there) /\ MovesTo(t, there) /\ UNCHANGED <<flags, holder, update>>
    \/ UNCHANGED <<flags, holder, update, at>> /\ (entry' = entry \/ (entry # "room" /\ entry' # "room"))

\* What each of the four updates may write.
LEMMA SetClear ==
    ASSUME WordOK, NEW t, NEW f
    PROVE  /\ switch_set_flag(t, f) => \E v \in SUBSET Watched :
                 Reads(t, v, FALSE) /\ flags \subseteq v /\ (f \in Watched => f \in v)
           /\ switch_set_flag_locked(t, f) => \E v \in SUBSET Watched :
                 Reads(t, v, TRUE) /\ flags \subseteq v /\ (f \in Watched => f \in v)
           /\ switch_clear_flag(t, f) => \E v \in SUBSET Watched :
                 Reads(t, v, FALSE) /\ flags \ {f} \subseteq v
           /\ switch_clear_flag_locked(t, f) => \E v \in SUBSET Watched :
                 Reads(t, v, TRUE) /\ flags \ {f} \subseteq v
<1>1. flags \cup ({f} \cap Watched) \in SUBSET Watched /\ flags \ {f} \in SUBSET Watched
  BY DEF WordOK
<1> QED
  BY <1>1 DEF switch_set_flag, switch_set_flag_locked, switch_clear_flag, switch_clear_flag_locked

\* The actions, one by one.
LEMMA StepKinds ==
    ASSUME TypeOK, [Next]_vars
    PROVE  (\E t \in Threads : Writes(t)) \/ Read \/ Move
<1> USE Actors
<1> WordOK
  BY DEF TypeOK
<1>f. "DESTRUCT" \in Watched
  BY DEF Watched
\* A read, from what a caller, a command or the thread does to the flags.
<1>r. ASSUME NEW t \in Threads, NEW there \in CallerPlaces \cup MuxPlaces, Goto(t, there),
             UNCHANGED <<flags, entry>>, NEW v \in SUBSET Watched, NEW l \in BOOLEAN,
             Reads(t, v, l), ReadsAt(t, v, l, there)
      PROVE  Read
  BY <1>r DEF Read
<1>s. ASSUME NEW t \in Threads, at[t] \in CallerPlaces \cup MuxPlaces, at' = at
      PROVE  Goto(t, at[t])
  BY <1>s DEF Goto, TypeOK, PlacesOK
<1>p. Around \cup {"cleaning", "evicted", "evicting", "start", "gone"} \subseteq CallerPlaces
  BY DEF Around, CallerPlaces
<1>1. ASSUME NEW t \in Finders, conference_find(t) PROVE Move
  <2>1. \/ MovesTo(t, "evicting") /\ Goto(t, "evicting")
        \/ MovesTo(t, "found") /\ Goto(t, "found")
    BY <1>1 DEF conference_find, MovesTo
  <2> QED BY <1>1, <2>1, <1>p DEF Move, conference_find, NoUpdate, Around
<1>2. ASSUME NEW t \in Finders, ClearInHash(t) PROVE Read
  <2>1. PICK v \in SUBSET Watched : Reads(t, v, FALSE) /\ flags \ {"INHASH"} \subseteq v
    BY <1>2, SetClear DEF ClearInHash
  <2>2. ReadsAt(t, v, FALSE, "evicted")
    BY <1>2, <2>1 DEF ReadsAt, ClearInHash
  <2> QED BY <1>2, <2>1, <2>2, <1>r, <1>p DEF ClearInHash
<1>3. ASSUME NEW t \in Finders, Evicted(t) PROVE Move
  <2>1. \/ MovesTo(t, "gone") /\ Goto(t, "gone")
        \/ MovesTo(t, "start") /\ Goto(t, "start")
    BY <1>3 DEF Evicted, MovesTo
  <2> QED BY <1>3, <2>1, <1>p DEF Move, Evicted, NoUpdate
<1>4. CASE Namesake
  BY <1>4 DEF Namesake, NoUpdate, Move
<1>5. ASSUME NEW c \in Callers, Answer(c) PROVE Read \/ Move
  <2>1. CASE switch_set_flag(c, "ANSWERED")
    <3>1. PICK v \in SUBSET Watched : Reads(c, v, FALSE) /\ flags \subseteq v
      BY <2>1, SetClear
    <3>2. ReadsAt(c, v, FALSE, "ready")
      BY <1>5, <3>1 DEF ReadsAt, Answer, Around
    <3> QED BY <1>5, <3>1, <3>2, <1>r, <1>p DEF Answer, Around
  <2>2. CASE NoUpdate
    <3>1. MovesTo(c, "ready")
      BY <1>5 DEF MovesTo, Answer
    <3> QED BY <1>5, <2>2, <3>1, <1>p DEF Move, Answer, NoUpdate, Around
  <2> QED BY <1>5, <2>1, <2>2 DEF Answer
<1>6. ASSUME NEW c \in Callers,
             Fail(c) \/ conference_add_member(c) \/ Added(c) \/ conference_del_member(c) \/ Deleted(c)
      PROVE  Move
  <2>1. PICK there \in Around \ {"found"} : Goto(c, there)
    BY <1>6 DEF Fail, conference_add_member, Added, conference_del_member, Deleted, Around
  <2>2. Idle(c) /\ at[c] \in Around /\ UNCHANGED <<flags, holder, update, entry>>
    BY <1>6 DEF Fail, conference_add_member, Added, conference_del_member, Deleted, Around, NoUpdate
  <2>3. MovesTo(c, there)
    BY <2>1, <2>2 DEF MovesTo
  <2> QED BY <2>1, <2>2, <2>3, <1>p DEF Move
<1>7. ASSUME NEW c \in Callers, NoteMember(c) \/ InRoom(c) PROVE Read
  <2>1. at[c] \in {"joining", "in"} /\ Goto(c, at[c]) /\ UNCHANGED <<flags, entry>>
    BY <1>7, <1>s, <1>p DEF NoteMember, InRoom, Around
  <2>2. PICK v \in SUBSET Watched, l \in BOOLEAN, f \in {"WAIT_MOD", "LOCKED"} :
          Reads(c, v, l) /\ flags \ {f} \subseteq v
    BY <1>7, SetClear DEF NoteMember, InRoom
  <2>3. flags \subseteq v
    BY <2>2 DEF WordOK, Watched
  <2>4. ReadsAt(c, v, l, at[c])
    BY <2>1, <2>3 DEF ReadsAt, Around
  <2> QED BY <2>1, <2>2, <2>4, <1>r, <1>p DEF Around
<1>8. ASSUME NEW c \in Callers, EndConf(c) PROVE Read
  <2>1. PICK v \in SUBSET Watched : Reads(c, v, TRUE) /\ flags \subseteq v
    BY <1>8, SetClear DEF EndConf
  <2>2. ReadsAt(c, v, TRUE, "counting")
    BY <1>8, <2>1 DEF ReadsAt, EndConf, Around
  <2> QED BY <1>8, <2>1, <2>2, <1>r, <1>p DEF EndConf, Around
<1>9. ASSUME NEW c \in Callers, MarkEmpty(c) PROVE Read \/ Move
  <2>1. CASE switch_set_flag(c, "DESTRUCT")
    <3>1. PICK v \in SUBSET Watched : Reads(c, v, FALSE) /\ flags \subseteq v
      BY <2>1, SetClear
    <3>2. ReadsAt(c, v, FALSE, "left")
      BY <1>9, <3>1 DEF ReadsAt, MarkEmpty, Around
    <3> QED BY <1>9, <3>1, <3>2, <1>r, <1>p DEF MarkEmpty, Around
  <2>2. CASE NoUpdate
    <3>1. MovesTo(c, "left")
      BY <1>9 DEF MovesTo, MarkEmpty, Around
    <3> QED BY <1>9, <2>2, <3>1, <1>p DEF Move, MarkEmpty, NoUpdate, Around
  <2> QED BY <1>9, <2>1, <2>2 DEF MarkEmpty
<1>10. ASSUME NEW c \in Callers, CleanUp(c) PROVE Read \/ Move
  <2>1. CASE "DYNAMIC" \in flags /\ count = 0
    <3>1. PICK v \in SUBSET Watched : Reads(c, v, TRUE) /\ flags \subseteq v /\ "DESTRUCT" \in v
      BY <1>10, <2>1, <1>f, SetClear DEF CleanUp
    <3>2. ReadsAt(c, v, TRUE, "cleaning")
      BY <1>10, <3>1 DEF ReadsAt, CleanUp
    <3> QED BY <1>10, <3>1, <3>2, <1>r, <1>p DEF CleanUp
  <2>2. CASE ~("DYNAMIC" \in flags /\ count = 0)
    <3>1. MovesTo(c, "cleaning")
      BY <1>10, <2>2 DEF MovesTo, CleanUp
    <3> QED BY <1>10, <2>2, <3>1, <1>p DEF Move, CleanUp, NoUpdate
  <2> QED BY <2>1, <2>2
<1>11. ASSUME NEW c \in Callers, Cleaned(c) PROVE Move
  <2>1. MovesTo(c, "gone")
    BY <1>11 DEF MovesTo, Cleaned
  <2> QED BY <1>11, <2>1, <1>p DEF Move, Cleaned, NoUpdate
<1>12. ASSUME NEW a \in Admins, Command(a) PROVE Read
  <2>1. at[a] = "found" /\ Goto(a, "found") /\ UNCHANGED <<flags, entry>>
    BY <1>12, <1>s, <1>p DEF Command, Around
  <2>2. PICK v \in SUBSET Watched, f \in {"LOCKED", "ENTER_SOUND", "EXIT_SOUND"} :
          Reads(a, v, TRUE) /\ flags \ {f} \subseteq v
    BY <1>12, SetClear DEF Command
  <2>3. flags \subseteq v
    BY <2>2 DEF WordOK, Watched
  <2>4. ReadsAt(a, v, TRUE, "found")
    BY <2>1, <2>3 DEF ReadsAt
  <2> QED BY <2>1, <2>2, <2>4, <1>r, <1>p DEF Around
<1>13. ASSUME NEW a \in Admins, Answered(a) PROVE Move
  <2>1. MovesTo(a, "start")
    BY <1>13 DEF MovesTo, Answered
  <2> QED BY <1>13, <2>1, <1>p DEF Move, Answered, NoUpdate
<1>14. ASSUME TimerFails \/ TooQuiet PROVE Read
  <2>1. PICK v \in SUBSET Watched : Reads("mux", v, FALSE) /\ flags \subseteq v /\ "DESTRUCT" \in v
    BY <1>14, <1>f, SetClear DEF TimerFails, TooQuiet
  <2>2. PICK there \in {"tick", "over"} : Goto("mux", there)
    BY <1>14 DEF TimerFails, TooQuiet
  <2>3. at["mux"] = "loop" /\ UNCHANGED <<flags, entry>>
    BY <1>14 DEF TimerFails, TooQuiet
  <2>4. ReadsAt("mux", v, FALSE, there)
    BY <2>1, <2>2, <2>3 DEF ReadsAt
  <2> QED BY <2>1, <2>2, <2>3, <2>4, <1>r DEF MuxPlaces
<1>15. ASSUME Ticked \/ LoopEnds \/ Unhash PROVE Move
  <2>1. PICK there \in {"loop", "over", "unhashed"} : Goto("mux", there) /\ MovesTo("mux", there)
    BY <1>15 DEF Ticked, LoopEnds, Unhash, MovesTo
  <2>2. UNCHANGED <<flags, holder, update>>
    BY <1>15 DEF Ticked, LoopEnds, Unhash, NoUpdate
  <2> QED BY <2>1, <2>2 DEF Move, MuxPlaces
<1>16. CASE StopRunning
  <2>1. PICK v \in SUBSET Watched : Reads("mux", v, TRUE) /\ flags \ {"RUNNING"} \subseteq v
    BY <1>16, SetClear DEF StopRunning
  <2>2. flags \subseteq v
    BY <2>1 DEF WordOK, Watched
  <2>3. ReadsAt("mux", v, TRUE, "ended")
    BY <1>16, <2>2 DEF ReadsAt, StopRunning
  <2> QED BY <1>16, <2>1, <2>3, <1>r DEF StopRunning, MuxPlaces
<1>17. CASE UNCHANGED vars
  BY <1>17 DEF vars, Move
<1> QED
  BY <1>1, <1>2, <1>3, <1>4, <1>5, <1>6, <1>7, <1>8, <1>9, <1>10, <1>11, <1>12, <1>13, <1>14,
     <1>15, <1>16, <1>17 DEF Next, CallerStep

\* The word and its updates keep their types.
LEMMA WordStep == TypeOK /\ [Next]_vars => WordOK'
<1> SUFFICES ASSUME TypeOK, [Next]_vars PROVE WordOK'
  OBVIOUS
<1> WordOK
  BY DEF TypeOK
<1>1. ASSUME NEW t \in Threads, Writes(t) PROVE WordOK'
  BY <1>1, WritesWord
<1>2. CASE Read
  BY <1>2, ReadsWord DEF Read
<1>3. CASE Move
  BY <1>3 DEF Move, WordOK, Idle
<1> QED BY <1>1, <1>2, <1>3, StepKinds

\* conference->count counts the callers that are in.
LEMMA PlacesStep == TypeOK /\ [Next]_vars => PlacesOK'
<1> SUFFICES ASSUME TypeOK, [Next]_vars PROVE PlacesOK'
  OBVIOUS
<1> PlacesOK
  BY DEF TypeOK
<1> USE Actors
<1> DEFINE In == {c \in Callers : at[c] \in {"joining", "in"}}
<1>fin. IsFiniteSet(In)
  BY FlagsAssumption, FS_Subset
<1>p. CallerPlaces \cup MuxPlaces =
        {"start", "evicting", "evicted", "found", "ready", "joining", "in", "leaving", "counting",
         "left", "deleted", "cleaning", "gone", "loop", "tick", "over", "unhashed", "ended"}
  BY DEF CallerPlaces, MuxPlaces
<1>1. ASSUME UNCHANGED <<at, mutex, hash_mutex, entry, count>> PROVE PlacesOK'
  BY <1>1 DEF PlacesOK
<1>2. ASSUME NEW t \in Threads, NEW there \in CallerPlaces \cup MuxPlaces, Goto(t, there),
             UNCHANGED count, \/ t \notin Callers
                              \/ at[t] \in {"joining", "in"} <=> there \in {"joining", "in"},
             mutex' \in Callers \cup {"mux", Nobody}, hash_mutex' \in Finders \cup {Nobody},
             entry' \in {"room", "namesake", "none"}
      PROVE  PlacesOK'
  <2>1. In' = In
    BY <1>2 DEF PlacesOK, Goto
  <2> QED
    BY <1>2, <2>1 DEF PlacesOK, Goto
<1>3. ASSUME NEW c \in Callers, conference_add_member(c) PROVE PlacesOK'
  <2>1. In' = In \cup {c} /\ c \notin In
    BY <1>3 DEF conference_add_member, Goto, PlacesOK
  <2>2. Cardinality(In') = Cardinality(In) + 1
    BY <2>1, <1>fin, FS_AddElement
  <2> QED
    BY <1>3, <2>2, <1>p DEF conference_add_member, Goto, PlacesOK
<1>4. ASSUME NEW c \in Callers, conference_del_member(c) PROVE PlacesOK'
  <2>1. In' = In \ {c} /\ c \in In
    BY <1>4 DEF conference_del_member, Goto, PlacesOK
  <2>2. Cardinality(In') = Cardinality(In) - 1
    BY <2>1, <1>fin, FS_RemoveElement
  <2> QED
    BY <1>4, <2>2, <1>p DEF conference_del_member, Goto, PlacesOK
<1>5. ASSUME NEW t \in Threads, Writes(t) PROVE PlacesOK'
  BY <1>5, <1>1 DEF Writes
<1>6. ASSUME NEW t \in Finders, conference_find(t) \/ ClearInHash(t) \/ Evicted(t) PROVE PlacesOK'
  <2>1. CASE conference_find(t)
    BY <2>1, <1>2, <1>p DEF conference_find, PlacesOK
  <2>2. CASE ClearInHash(t)
    BY <2>2, <1>2, <1>p DEF ClearInHash, PlacesOK
  <2>3. CASE Evicted(t)
    BY <2>3, <1>2, <1>p DEF Evicted, PlacesOK
  <2> QED BY <1>6, <2>1, <2>2, <2>3
<1>7. ASSUME NEW c \in Callers,
             Answer(c) \/ Fail(c) \/ Added(c) \/ EndConf(c) \/ MarkEmpty(c) \/ Deleted(c)
             \/ CleanUp(c) \/ Cleaned(c)
      PROVE  PlacesOK'
  BY <1>7, <1>2, <1>p
     DEF Answer, Fail, Added, EndConf, MarkEmpty, Deleted, CleanUp, Cleaned, PlacesOK
<1>8. ASSUME NEW c \in Callers, NoteMember(c) \/ InRoom(c) PROVE PlacesOK'
  BY <1>8, <1>1 DEF NoteMember, InRoom
<1>9. ASSUME NEW a \in Admins, Command(a) PROVE PlacesOK'
  BY <1>9, <1>1 DEF Command
<1>10. ASSUME NEW a \in Admins, Answered(a) PROVE PlacesOK'
  BY <1>10, <1>2, <1>p DEF Answered, PlacesOK
<1>11. CASE Namesake
  BY <1>11 DEF Namesake, PlacesOK
<1>12. CASE TimerFails \/ TooQuiet \/ Ticked \/ LoopEnds
  BY <1>12, <1>2, <1>p DEF TimerFails, TooQuiet, Ticked, LoopEnds, PlacesOK
<1>13. CASE Unhash \/ StopRunning
  BY <1>13, <1>2, <1>p DEF Unhash, StopRunning, PlacesOK
<1>14. CASE UNCHANGED vars
  BY <1>14, <1>1 DEF vars
<1> QED
  BY <1>3, <1>4, <1>5, <1>6, <1>7, <1>8, <1>9, <1>10, <1>11, <1>12, <1>13, <1>14
  DEF Next, CallerStep

\* The flag word, the holder of its mutex and the updates in flight have their types,
\* and count is the number of callers that are in.
THEOREM FlagsTypeCorrect == Spec => []TypeOK
<1>1. Init => TypeOK
  <2> SUFFICES ASSUME Init PROVE TypeOK
    OBVIOUS
  <2>1. {c \in Callers : at[c] \in {"joining", "in"}} = {}
    BY Actors DEF Init, Threads
  <2>2. at \in [Threads -> CallerPlaces \cup MuxPlaces]
    BY DEF Init, CallerPlaces, MuxPlaces
  <2>3. PlacesOK
    BY <2>1, <2>2, FS_EmptySet DEF Init, PlacesOK
  <2>4. WordOK
    BY Actors DEF Init, WordOK, Idle, Watched
  <2> QED
    BY <2>3, <2>4 DEF TypeOK
<1>2. TypeOK /\ [Next]_vars => TypeOK'
  BY WordStep, PlacesStep DEF TypeOK
<1> QED
  BY <1>1, <1>2, PTL DEF Spec

(***************************************************************************)
(* The inductive invariant.                                                *)
(***************************************************************************)
\* Where a thread can be in the middle of an update, and of which.
InFlight ==
    /\ \A c \in Callers :
         /\ at[c] \in CallerPlaces
         /\ Idle(c) \/ at[c] \in {"ready", "joining", "in", "counting", "left", "cleaning", "evicted"}
         /\ Idle(c) \/ at[c] # "cleaning" \/ (update[c].locked /\ "DESTRUCT" \in update[c].value)
    /\ \A a \in Admins : Idle(a) \/ at[a] = "evicted" \/ (at[a] = "found" /\ update[a].locked)
    /\ at["mux"] \in MuxPlaces
    /\ \/ Idle("mux")
       \/ /\ at["mux"] \in {"tick", "over", "ended"}
          /\ update["mux"].locked \/ "DESTRUCT" \in update["mux"].value

\* A flag that is set in the word and that no update in flight takes away.
Fast(f) == f \in flags /\ \A t \in Threads : Idle(t) \/ f \in update[t].value

\* Only a thread that has deleted the entry takes CFLAG_INHASH away.
Registered ==
    /\ entry = "room" => Fast("INHASH")
    /\ \A t \in Finders : at[t] \in {"evicting", "evicted"} => entry # "room"
    /\ NoDanglingEntry

\* CFLAG_DESTRUCT is there to stay, unless a caller has yet to pass the clean-up or is
\* in it and about to set the flag.
Marking ==
    \/ entry # "room"
    \/ \E c \in Callers : at[c] \in Around
    \/ \E c \in Callers : at[c] = "cleaning" /\ ~Idle(c)
    \/ Fast("DESTRUCT")

FlagsInv == InFlight /\ Fast("DYNAMIC") /\ Registered /\ Marking

\* The read of an update keeps it.
LEMMA ReadKeeps == TypeOK /\ FlagsInv /\ Read => FlagsInv'
<1> SUFFICES ASSUME TypeOK, FlagsInv, NEW t \in Threads, NEW v \in SUBSET Watched,
                    NEW l \in BOOLEAN, NEW there \in CallerPlaces \cup MuxPlaces,
                    Reads(t, v, l), ReadsAt(t, v, l, there), Goto(t, there), UNCHANGED <<flags, entry>>
             PROVE  FlagsInv'
  BY DEF Read
<1> USE Actors
<1>e. /\ Idle(t) /\ ~Idle(t)' /\ update'[t].value = v /\ update'[t].locked = l
      /\ \A s \in Threads \ {t} : update'[s] = update[s] /\ (Idle(s)' <=> Idle(s))
  BY ReadsWord DEF TypeOK
<1>a. at'[t] = there /\ \A s \in Threads \ {t} : at'[s] = at[s]
  BY DEF Goto, TypeOK, PlacesOK
<1>k. ASSUME NEW f \in {"DYNAMIC", "DESTRUCT"}, Fast(f) PROVE Fast(f)'
  BY <1>k, <1>e DEF Fast, ReadsAt
<1>1. InFlight'
  <2>1. ASSUME NEW c \in Callers
        PROVE  /\ at'[c] \in CallerPlaces
               /\ Idle(c)' \/ at'[c] \in {"ready", "joining", "in", "counting", "left", "cleaning", "evicted"}
               /\ Idle(c)' \/ at'[c] # "cleaning" \/ (update'[c].locked /\ "DESTRUCT" \in update'[c].value)
    BY <1>e, <1>a DEF FlagsInv, InFlight, ReadsAt, Around, CallerPlaces
  <2>2. ASSUME NEW a \in Admins
        PROVE  Idle(a)' \/ at'[a] = "evicted" \/ (at'[a] = "found" /\ update'[a].locked)
    BY <1>e, <1>a DEF FlagsInv, InFlight, ReadsAt
  <2>3. /\ at'["mux"] \in MuxPlaces
        /\ \/ Idle("mux")'
           \/ /\ at'["mux"] \in {"tick", "over", "ended"}
              /\ update'["mux"].locked \/ "DESTRUCT" \in update'["mux"].value
    BY <1>e, <1>a DEF FlagsInv, InFlight, ReadsAt, MuxPlaces
  <2> QED BY <2>1, <2>2, <2>3 DEF InFlight
<1>2. Registered'
  <2>1. entry' = "room" => Fast("INHASH")'
    <3> SUFFICES ASSUME entry = "room" PROVE Fast("INHASH")'
      OBVIOUS
    <3>1. Fast("INHASH") /\ at[t] # "evicting"
      BY DEF FlagsInv, Registered, ReadsAt, Finders
    <3>2. "INHASH" \in v
      BY <3>1 DEF ReadsAt, Fast, Around
    <3> QED BY <3>1, <3>2, <1>e DEF Fast
  <2>2. \A s \in Finders : at'[s] \in {"evicting", "evicted"} => entry' # "room"
    BY <1>a DEF FlagsInv, Registered, ReadsAt, Around
  <2>3. NoDanglingEntry'
    BY <1>a DEF FlagsInv, Registered, NoDanglingEntry, ReadsAt
  <2> QED BY <2>1, <2>2, <2>3 DEF Registered
<1>3. Marking'
  <2>1. CASE \E c \in Callers : at[c] \in Around
    BY <2>1, <1>e, <1>a DEF Marking, ReadsAt, Around
  <2>2. CASE \E c \in Callers : at[c] = "cleaning" /\ ~Idle(c)
    BY <2>2, <1>e, <1>a DEF Marking
  <2> QED BY <2>1, <2>2, <1>k DEF FlagsInv, Marking
<1> QED BY <1>1, <1>2, <1>3, <1>k DEF FlagsInv

\* So does the write: the locked update of a clean-up is alone with updates that
\* set the mark too.
LEMMA WriteKeeps ==
    ASSUME TypeOK, FlagsInv, NEW t \in Threads, Writes(t)
    PROVE  FlagsInv'
<1> USE Actors
<1>e. /\ ~Idle(t) /\ Idle(t)' /\ flags' = update[t].value /\ at' = at /\ entry' = entry
      /\ \A s \in Threads \ {t} : update'[s] = update[s] /\ (Idle(s)' <=> Idle(s))
  BY WritesWord DEF TypeOK
<1>k. ASSUME NEW f, Fast(f) PROVE Fast(f)'
  BY <1>k, <1>e DEF Fast
<1>1. InFlight'
  BY <1>e DEF FlagsInv, InFlight
<1>2. Registered'
  BY <1>e, <1>k DEF FlagsInv, Registered, NoDanglingEntry
<1>3. Marking'
  <2>1. CASE entry # "room" \/ (\E c \in Callers : at[c] \in Around) \/ Fast("DESTRUCT")
    BY <2>1, <1>e, <1>k DEF Marking
  <2>2. CASE \E c \in Callers \ {t} : at[c] = "cleaning" /\ ~Idle(c)
    BY <2>2, <1>e DEF Marking
  <2>3. CASE /\ entry = "room" /\ \A c \in Callers : at[c] \notin Around
             /\ t \in Callers /\ at[t] = "cleaning"
    <3>1. update[t].locked /\ "DESTRUCT" \in update[t].value
      BY <2>3, <1>e DEF FlagsInv, InFlight
    <3>2. holder = t
      BY <3>1, <1>e DEF TypeOK, WordOK
    <3>3. ASSUME NEW s \in Threads, s # t, ~Idle(s) PROVE "DESTRUCT" \in update[s].value
      <4>1. ~update[s].locked
        BY <3>2, <3>3 DEF TypeOK, WordOK
      <4>2. s \in Finders => at[s] # "evicted"
        BY <2>3 DEF FlagsInv, Registered
      <4>3. CASE s \in Callers
        BY <4>1, <4>2, <4>3, <3>3, <2>3 DEF FlagsInv, InFlight, Around
      <4>4. CASE s \in Admins
        BY <4>1, <4>2, <4>4, <3>3 DEF FlagsInv, InFlight
      <4>5. CASE s = "mux"
        BY <4>1, <4>5, <3>3 DEF FlagsInv, InFlight
      <4> QED BY <4>3, <4>4, <4>5
    <3>4. Fast("DESTRUCT")'
      BY <3>1, <3>3, <1>e DEF Fast
    <3> QED BY <3>4 DEF Marking
  <2> QED BY <2>1, <2>2, <2>3 DEF FlagsInv, Marking
<1> QED BY <1>1, <1>2, <1>3, <1>k DEF FlagsInv

\* So does every other step.
LEMMA MoveKeeps == TypeOK /\ FlagsInv /\ Move => FlagsInv'
<1> SUFFICES ASSUME TypeOK, FlagsInv, Move PROVE FlagsInv'
  OBVIOUS
<1> USE Actors
<1>e. UNCHANGED <<flags, update>> /\ \A s \in Threads : Idle(s)' <=> Idle(s)
  BY DEF Move, Idle
<1>k. ASSUME NEW f, Fast(f) PROVE Fast(f)'
  BY <1>k, <1>e DEF Fast
<1>1. ASSUME NEW t \in Threads, NEW there \in CallerPlaces \cup MuxPlaces, Goto(t, there),
             MovesTo(t, there)
      PROVE  FlagsInv'
  <2>a. at'[t] = there /\ \A s \in Threads \ {t} : at'[s] = at[s]
    BY <1>1 DEF Goto, TypeOK, PlacesOK
  <2>n. entry' = "room" => entry = "room"
    BY <1>1 DEF MovesTo
  <2>1. InFlight'
    <3>1. ASSUME NEW c \in Callers
          PROVE  /\ at'[c] \in CallerPlaces
                 /\ Idle(c)' \/ at'[c] \in {"ready", "joining", "in", "counting", "left", "cleaning", "evicted"}
                 /\ Idle(c)' \/ at'[c] # "cleaning" \/ (update'[c].locked /\ "DESTRUCT" \in update'[c].value)
      BY <1>1, <1>e, <2>a DEF FlagsInv, InFlight, MovesTo, Around, CallerPlaces
    <3>2. ASSUME NEW a \in Admins
          PROVE  Idle(a)' \/ at'[a] = "evicted" \/ (at'[a] = "found" /\ update'[a].locked)
      BY <1>1, <1>e, <2>a DEF FlagsInv, InFlight, MovesTo
    <3>3. /\ at'["mux"] \in MuxPlaces
          /\ \/ Idle("mux")'
             \/ /\ at'["mux"] \in {"tick", "over", "ended"}
                /\ update'["mux"].locked \/ "DESTRUCT" \in update'["mux"].value
      BY <1>1, <1>e, <2>a DEF FlagsInv, InFlight, MovesTo, MuxPlaces
    <3> QED BY <3>1, <3>2, <3>3 DEF InFlight
  <2>2. Registered'
    <3>1. entry' = "room" => Fast("INHASH")'
      BY <1>k, <2>n DEF FlagsInv, Registered
    <3>2. \A s \in Finders : at'[s] \in {"evicting", "evicted"} => entry' # "room"
      BY <1>1, <2>a, <2>n DEF FlagsInv, Registered, MovesTo, Around
    <3>3. NoDanglingEntry'
      <4>1. CASE t = "mux" /\ there = "unhashed"
        <5>1. entry' = IF "INHASH" \in flags THEN "none" ELSE entry
          BY <1>1, <4>1 DEF MovesTo
        <5> QED BY <5>1 DEF FlagsInv, Registered, Fast, NoDanglingEntry
      <4>2. CASE ~(t = "mux" /\ there = "unhashed")
        BY <1>1, <2>a, <2>n, <4>2 DEF FlagsInv, Registered, NoDanglingEntry, MovesTo
      <4> QED BY <4>1, <4>2
    <3> QED BY <3>1, <3>2, <3>3 DEF Registered
  <2>3. Marking'
    <3>1. CASE t \in Callers /\ at[t] = "deleted" /\ there = "cleaning"
      <4>1. count # 0
        BY <1>1, <3>1 DEF MovesTo, FlagsInv, Fast, Around
      <4>2. PICK c \in Callers : at[c] \in {"joining", "in"}
        <5>1. {c \in Callers : at[c] \in {"joining", "in"}} # {}
          BY <4>1, FS_EmptySet DEF TypeOK, PlacesOK
        <5> QED BY <5>1
      <4>3. at'[c] \in Around
        BY <4>2, <3>1, <2>a DEF Around
      <4> QED BY <4>3 DEF Marking
    <3>2. CASE ~(t \in Callers /\ at[t] = "deleted" /\ there = "cleaning")
      <4>1. CASE \E c \in Callers : at[c] \in Around
        <5>1. \E c \in Callers : at'[c] \in Around
          BY <1>1, <2>a, <3>2, <4>1 DEF MovesTo, Around
        <5> QED BY <5>1 DEF Marking
      <4>2. CASE \E c \in Callers : at[c] = "cleaning" /\ ~Idle(c)
        <5>1. \E c \in Callers : at'[c] = "cleaning" /\ ~Idle(c)'
          BY <1>1, <1>e, <2>a, <4>2 DEF MovesTo, Around
        <5> QED BY <5>1 DEF Marking
      <4> QED BY <4>1, <4>2, <1>k, <2>n DEF FlagsInv, Marking
    <3> QED BY <3>1, <3>2
  <2> QED BY <2>1, <2>2, <2>3, <1>k DEF FlagsInv
<1>2. ASSUME at' = at, entry' = entry \/ (entry # "room" /\ entry' # "room") PROVE FlagsInv'
  <2>1. InFlight'
    BY <1>2, <1>e DEF FlagsInv, InFlight
  <2>2. Registered'
    BY <1>2, <1>k DEF FlagsInv, Registered, NoDanglingEntry
  <2>3. Marking'
    BY <1>2, <1>k, <1>e DEF FlagsInv, Marking
  <2> QED BY <2>1, <2>2, <2>3, <1>k DEF FlagsInv
<1> QED BY <1>1, <1>2 DEF Move

(***************************************************************************)
(* The theorems.                                                           *)
(***************************************************************************)
\* The updates in flight, and the marks they must not lose.
LEMMA FlagsInvariant == Spec => []FlagsInv
<1>1. Init => FlagsInv
  <2> SUFFICES ASSUME Init PROVE FlagsInv
    OBVIOUS
  <2> USE Actors
  <2>1. \A t \in Threads : Idle(t)
    BY DEF Init, Idle
  <2>2. PICK c \in Callers :
          at = [t \in Threads |-> IF t = c THEN "found" ELSE IF t = "mux" THEN "loop" ELSE "start"]
    BY DEF Init
  <2>3. InFlight
    BY <2>1, <2>2 DEF InFlight, CallerPlaces, MuxPlaces
  <2>4. Fast("DYNAMIC") /\ Fast("INHASH")
    BY <2>1 DEF Init, Fast
  <2>5. Registered
    BY <2>2, <2>4 DEF Init, Registered, NoDanglingEntry
  <2>6. Marking
    BY <2>2 DEF Marking, Around
  <2> QED BY <2>3, <2>4, <2>5, <2>6 DEF FlagsInv
<1>2. TypeOK /\ FlagsInv /\ [Next]_vars => FlagsInv'
  BY StepKinds, ReadKeeps, WriteKeeps, MoveKeeps
<1> QED
  BY <1>1, <1>2, FlagsTypeCorrect, PTL DEF Spec

\* A dynamic conference that every caller has left and that can still be found carries
\* CFLAG_DESTRUCT, however many callers there were and whichever of their updates were
\* lost.
THEOREM AbandonedCorrect == Spec => []AbandonedIsDestroyed
<1>1. FlagsInv => AbandonedIsDestroyed
  BY DEF FlagsInv, Marking, Fast, AbandonedIsDestroyed, Around
<1> QED
  BY <1>1, FlagsInvariant, PTL

\* The conference thread leaves no entry of its conference behind, whoever clears
\* CFLAG_INHASH beside it and whichever of these updates are lost.
THEOREM NoDanglingCorrect == Spec => []NoDanglingEntry
<1>1. FlagsInv => NoDanglingEntry
  BY DEF FlagsInv, Registered
<1> QED
  BY <1>1, FlagsInvariant, PTL
=============================================================================
