------------------------ MODULE ConferenceRecordProofs ------------------------
(***************************************************************************)
(* The recordings of a conference, for any number of record threads, of    *)
(* callers and of commands.                                                *)
(***************************************************************************)
EXTENDS ConferenceRecord, FiniteSetTheorems, TLAPS

Launched == {r \in Recorders : pc[r] # "none"}

\* record_count never exceeds the recordings that were launched.
CountInv == TypeOK /\ record_count <= Cardinality(Launched)

\* A record thread is in the list from its addition to its removal, and has its
\* buffers from before the one to after the other.
ListInv ==
    \A r \in Recorders :
        /\ r \in members <=> pc[r] \in {"added", "loop", "end", "drained"}
        /\ pc[r] \notin {"none", "launched", "gone"} => mux_buffer[r] # "none"

\* MFLAG_RUNNING is set before the recording can be found in the list, and never
\* again.
ToldInv ==
    \A r \in told : r \notin running /\ pc[r] \notin {"none", "launched", "ready"}

RecordInv == ListInv /\ ToldInv

(***************************************************************************)
(* Type correctness.                                                       *)
(***************************************************************************)
\* A record thread that goes on is no new recording; a launch adds one.
LEMMA LaunchCounts ==
    ASSUME TypeOK, NEW r \in Recorders,
           NEW at \in {"launched", "ready", "added", "loop", "end", "drained", "removed", "gone"},
           Goto(r, at)
    PROVE  /\ pc' \in [Recorders -> {"none", "launched", "ready", "added", "loop", "end",
                                     "drained", "removed", "gone"}]
           /\ pc[r] # "none" => Launched' = Launched
           /\ pc[r] = "none" => Cardinality(Launched') = Cardinality(Launched) + 1
           /\ Cardinality(Launched) \in Nat /\ Cardinality(Launched') <= Cardinality(Recorders)
<1>1. pc' \in [Recorders -> {"none", "launched", "ready", "added", "loop", "end",
                             "drained", "removed", "gone"}]
  BY DEF TypeOK, Goto
<1>2. IsFiniteSet(Launched) /\ Cardinality(Launched) \in Nat
      /\ Cardinality(Launched') <= Cardinality(Recorders)
  BY RecordAssumption, FS_Subset, FS_CardinalityType DEF Launched
<1>3. Launched' = Launched \cup {r}
  BY DEF TypeOK, Goto, Launched
<1>4. r \in Launched <=> pc[r] # "none"
  BY DEF Launched
<1> QED
  BY <1>1, <1>2, <1>3, <1>4, FS_AddElement

\* Types, and the bound on record_count.
LEMMA CountStep == CountInv /\ [Next]_vars => CountInv'
<1> SUFFICES ASSUME CountInv, [Next]_vars PROVE CountInv'
  OBVIOUS
<1> TypeOK
  BY DEF CountInv
<1>fin. /\ Cardinality(Launched) \in Nat /\ Cardinality(Launched) <= Cardinality(Recorders)
        /\ Cardinality(Recorders) \in Nat
  BY RecordAssumption, FS_Subset, FS_CardinalityType DEF Launched
<1>1. CASE Join
  BY <1>1, RecordAssumption DEF Join, CountInv, TypeOK, ThreadVars, Launched
<1>2. CASE Leave
  BY <1>2, RecordAssumption DEF Leave, CountInv, TypeOK, ThreadVars, Launched
<1>3. CASE ThreadStart
  <2>1. Launched' = Launched
    BY <1>3 DEF ThreadStart, ThreadVars, Launched
  <2>2. 0 \in -MaxBelow..Cardinality(Recorders) /\ 0 <= Cardinality(Launched)
    BY <1>fin, RecordAssumption
  <2> QED BY <1>3, <2>1, <2>2 DEF ThreadStart, CountInv, TypeOK, ThreadVars
<1>4. CASE launch_conference_thread \/ Sweep \/ ThreadEnd
  BY <1>4 DEF launch_conference_thread, Sweep, ThreadEnd, CountInv, TypeOK, ThreadVars, Launched
<1>5. CASE conf_api_sub_norecord
  <2>1. /\ UNCHANGED <<members, count, conf, is_recording, pc, path, opened, mux_buffer>>
        /\ running' \subseteq running /\ told' \subseteq told \cup members
    BY <1>5 DEF conf_api_sub_norecord
  <2>2. \/ record_count' = 0 \/ record_count' = record_count
        \/ record_count > -MaxBelow /\ record_count' = record_count - 1
    BY <1>5 DEF conf_api_sub_norecord
  <2>3. Launched' = Launched
    BY <2>1 DEF Launched
  <2>4. /\ record_count' \in -MaxBelow..Cardinality(Recorders)
        /\ record_count' <= Cardinality(Launched')
    BY <2>2, <2>3, <1>fin, RecordAssumption DEF CountInv, TypeOK
  <2> QED BY <2>1, <2>4 DEF CountInv, TypeOK
<1>6. CASE Tick
  <2>1. /\ mux_buffer' \in [Recorders -> {"none", "empty", "audio"}]
        /\ UNCHANGED <<members, count, conf, path, running, opened, told>>
    BY <1>6 DEF Tick, TypeOK
  <2>2. CASE UNCHANGED <<is_recording, record_count, pc>>
    BY <2>1, <2>2 DEF CountInv, TypeOK, Launched
  <2>3. CASE /\ is_recording' = TRUE /\ record_count' = record_count + 1
             /\ \E r \in Recorders : pc[r] = "none" /\ Goto(r, "launched")
    <3>1. PICK r \in Recorders : pc[r] = "none" /\ Goto(r, "launched")
      BY <2>3
    <3>2. /\ record_count' \in -MaxBelow..Cardinality(Recorders)
          /\ record_count' <= Cardinality(Launched')
      BY <2>3, <3>1, LaunchCounts, <1>fin, RecordAssumption DEF CountInv, TypeOK
    <3>3. TypeOK'
      BY <2>1, <2>3, <3>1, <3>2, LaunchCounts DEF TypeOK
    <3> QED BY <3>2, <3>3 DEF CountInv
  <2> QED BY <1>6, <2>2, <2>3 DEF Tick
<1>7. ASSUME NEW r \in Recorders, conf_api_sub_record(r) PROVE CountInv'
  <2>1. /\ record_count' \in -MaxBelow..Cardinality(Recorders)
        /\ record_count' <= Cardinality(Launched')
    BY <1>7, LaunchCounts, <1>fin, RecordAssumption DEF conf_api_sub_record, CountInv, TypeOK
  <2>2. TypeOK'
    BY <1>7, <2>1, LaunchCounts DEF conf_api_sub_record, TypeOK
  <2> QED BY <2>1, <2>2 DEF CountInv
<1>8. ASSUME NEW r \in Recorders, NEW at \in {"ready", "added", "loop", "end", "drained",
                                              "removed", "gone"},
             pc[r] # "none", Goto(r, at),
             UNCHANGED <<count, conf, is_recording, record_count, path, told>>,
             members' \subseteq Recorders, running' \subseteq Recorders, opened' \subseteq Recorders,
             mux_buffer' \in [Recorders -> {"none", "empty", "audio"}]
      PROVE  CountInv'
  <2>1. Launched' = Launched /\ pc' \in [Recorders -> {"none", "launched", "ready", "added",
                                           "loop", "end", "drained", "removed", "gone"}]
    BY <1>8, LaunchCounts
  <2> QED BY <1>8, <2>1 DEF CountInv, TypeOK
<1>9. ASSUME NEW r \in Recorders, RecordSetup(r) PROVE CountInv'
  BY <1>9, <1>8 DEF RecordSetup, TypeOK
<1>10. ASSUME NEW r \in Recorders, RecordAdd(r) PROVE CountInv'
  BY <1>10, <1>8 DEF RecordAdd, TypeOK
<1>11. ASSUME NEW r \in Recorders, RecordOpen(r) PROVE CountInv'
  BY <1>11, <1>8 DEF RecordOpen, TypeOK
<1>12. ASSUME NEW r \in Recorders, RecordLoop(r) PROVE CountInv'
  <2>1. CASE Records(r)
    BY <1>12, <2>1 DEF RecordLoop, CountInv, TypeOK, Launched
  <2>2. CASE ~Records(r)
    BY <1>12, <2>2, <1>8 DEF RecordLoop, TypeOK
  <2> QED BY <2>1, <2>2
<1>13. ASSUME NEW r \in Recorders, RecordDrain(r) PROVE CountInv'
  BY <1>13, <1>8 DEF RecordDrain, TypeOK
<1>14. ASSUME NEW r \in Recorders, RecordDel(r) PROVE CountInv'
  BY <1>14, <1>8 DEF RecordDel, TypeOK
<1>15. ASSUME NEW r \in Recorders, RecordClose(r) PROVE CountInv'
  BY <1>15, <1>8 DEF RecordClose, TypeOK
<1>16. CASE UNCHANGED vars
  BY <1>16 DEF vars, CountInv, TypeOK, Launched
<1> QED
  BY <1>1, <1>2, <1>3, <1>4, <1>5, <1>6, <1>7, <1>9, <1>10, <1>11, <1>12, <1>13, <1>14, <1>15,
     <1>16 DEF Next, RecordStep

\* The initial state has no recording.
LEMMA CountInit == Init => CountInv
<1> SUFFICES ASSUME Init PROVE CountInv
  OBVIOUS
<1>1. Launched = {}
  BY DEF Init, Launched
<1>2. Cardinality(Launched) = 0 /\ Cardinality(Recorders) \in Nat
  BY <1>1, FS_EmptySet, FS_CardinalityType, RecordAssumption
<1>3. 0 \in -MaxBelow..Cardinality(Recorders) /\ 0 \in 0..MaxCallers
  BY <1>2, RecordAssumption
<1>4. /\ pc \in [Recorders -> {"none", "launched", "ready", "added", "loop", "end",
                             "drained", "removed", "gone"}]
      /\ mux_buffer \in [Recorders -> {"none", "empty", "audio"}]
      /\ is_recording \in BOOLEAN
  BY DEF Init
<1>5. TypeOK
  BY <1>3, <1>4 DEF Init, TypeOK
<1> QED
  BY <1>2, <1>5 DEF Init, CountInv

\* Every variable has its type; record_count stays between what norecord commands
\* lower it to and the number of record threads.
THEOREM RecordTypeCorrect == Spec => []TypeOK
<1>1. CountInv => TypeOK
  BY DEF CountInv
<1> QED
  BY <1>1, CountInit, CountStep, PTL DEF Spec

(***************************************************************************)
(* The list and the stopped recordings.                                    *)
(***************************************************************************)
\* Each action keeps both parts of the invariant.
LEMMA RecordInvStep == TypeOK /\ RecordInv /\ [Next]_vars => RecordInv'
<1> SUFFICES ASSUME TypeOK, RecordInv, [Next]_vars PROVE RecordInv'
  OBVIOUS
<1> ListInv /\ ToldInv /\ told \subseteq Recorders
  BY DEF RecordInv, TypeOK
\* What leaves the threads alone, or stops some of them.
<1>u. ASSUME UNCHANGED <<members, pc, mux_buffer, told>>, running' \subseteq running
      PROVE  RecordInv'
  BY <1>u DEF RecordInv, ListInv, ToldInv
<1>1. CASE Join \/ Leave \/ launch_conference_thread \/ ThreadStart \/ Sweep \/ ThreadEnd
  BY <1>1, <1>u DEF Join, Leave, launch_conference_thread, ThreadStart, Sweep, ThreadEnd, ThreadVars
<1>2. CASE conf_api_sub_norecord
  <2>1. PICK stopped : /\ stopped \subseteq members
                       /\ running' = running \ stopped /\ told' = told \cup stopped
    BY <1>2 DEF conf_api_sub_norecord
  <2>2. UNCHANGED <<members, conf, is_recording, pc, mux_buffer>>
    BY <1>2 DEF conf_api_sub_norecord
  <2>3. ToldInv'
    BY <2>1, <2>2 DEF ToldInv, ListInv, TypeOK
  <2> QED BY <2>2, <2>3 DEF RecordInv, ListInv
<1>3. CASE Tick
  <2>1. /\ UNCHANGED <<members, conf, running, told>> /\ conf = "running"
        /\ \A r \in Recorders : mux_buffer[r] # "none" => mux_buffer'[r] # "none"
    BY <1>3 DEF Tick
  <2>2. CASE UNCHANGED <<is_recording, record_count, pc>>
    BY <2>1, <2>2 DEF RecordInv, ListInv, ToldInv
  <2>3. CASE /\ AutoRecords /\ is_recording' = TRUE
             /\ \E r \in Recorders : pc[r] = "none" /\ Goto(r, "launched")
    <3>1. PICK r \in Recorders : pc[r] = "none" /\ pc' = [pc EXCEPT ![r] = "launched"]
      BY <2>3 DEF Goto
    <3>2. ListInv'
      BY <2>1, <3>1 DEF ListInv, TypeOK
    <3>3. ToldInv'
      BY <2>1, <3>1 DEF ToldInv, TypeOK
    <3> QED BY <3>2, <3>3 DEF RecordInv
  <2> QED BY <1>3, <2>2, <2>3 DEF Tick
<1>4. ASSUME NEW r \in Recorders, conf_api_sub_record(r) PROVE RecordInv'
  <2>1. /\ UNCHANGED <<members, conf, is_recording, running, mux_buffer, told>>
        /\ pc[r] = "none" /\ pc' = [pc EXCEPT ![r] = "launched"]
    BY <1>4 DEF conf_api_sub_record, Goto
  <2>2. ListInv'
    BY <2>1 DEF ListInv, TypeOK
  <2>3. ToldInv'
    BY <2>1 DEF ToldInv, TypeOK
  <2> QED BY <2>2, <2>3 DEF RecordInv
\* A step of a record thread, to a place behind the one it was at.
<1>5. ASSUME NEW r \in Recorders, NEW at, pc' = [pc EXCEPT ![r] = at],
             at \in {"ready", "added", "loop", "end", "drained", "removed", "gone"},
             UNCHANGED <<conf, is_recording, told>>,
             members' \in {members, members \cup {r}, members \ {r}},
             r \in members' <=> at \in {"added", "loop", "end", "drained"},
             running' \subseteq running \cup {r},
             at = "ready" => r \notin told,
             at # "ready" => running' \subseteq running,
             mux_buffer' \in [Recorders -> {"none", "empty", "audio"}],
             \A s \in Recorders \ {r} : mux_buffer'[s] = mux_buffer[s],
             at # "gone" => mux_buffer'[r] # "none"
      PROVE  RecordInv'
  <2>1. ListInv'
    BY <1>5 DEF ListInv, TypeOK
  <2>2. ToldInv'
    BY <1>5 DEF ToldInv, TypeOK
  <2> QED BY <2>1, <2>2 DEF RecordInv
<1>6. ASSUME NEW r \in Recorders, RecordSetup(r) PROVE RecordInv'
  <2>1. r \notin told /\ r \notin members
    BY <1>6 DEF RecordSetup, ToldInv, ListInv
  <2>2. CASE pc' = [pc EXCEPT ![r] = "ready"] /\ mux_buffer' = [mux_buffer EXCEPT ![r] = "empty"]
             /\ running' = running \cup {r}
    BY <1>6, <2>1, <2>2, <1>5 DEF RecordSetup, TypeOK
  <2>3. CASE pc' = [pc EXCEPT ![r] = "gone"] /\ UNCHANGED <<running, mux_buffer>>
    BY <1>6, <2>1, <2>3, <1>5 DEF RecordSetup, TypeOK
  <2> QED BY <1>6, <2>2, <2>3 DEF RecordSetup, Goto
<1>7. ASSUME NEW r \in Recorders, RecordAdd(r) PROVE RecordInv'
  <2>1. mux_buffer[r] # "none"
    BY <1>7 DEF RecordAdd, ListInv
  <2> QED BY <1>7, <2>1, <1>5 DEF RecordAdd, Goto, TypeOK
<1>8. ASSUME NEW r \in Recorders, RecordOpen(r) PROVE RecordInv'
  <2>1. mux_buffer[r] # "none" /\ r \in members
    BY <1>8 DEF RecordOpen, ListInv
  <2> QED BY <1>8, <2>1, <1>5 DEF RecordOpen, Goto, TypeOK
<1>9. ASSUME NEW r \in Recorders, RecordLoop(r) PROVE RecordInv'
  <2>1. mux_buffer[r] # "none" /\ r \in members /\ pc[r] = "loop"
    BY <1>9 DEF RecordLoop, ListInv
  <2>2. CASE Records(r)
    <3>1. /\ pc' = pc /\ running' \subseteq running /\ UNCHANGED <<members, conf, is_recording, told>>
          /\ \A s \in Recorders : mux_buffer[s] # "none" => mux_buffer'[s] # "none"
      BY <1>9, <2>2 DEF RecordLoop, TypeOK
    <3> QED BY <3>1 DEF RecordInv, ListInv, ToldInv
  <2>3. CASE ~Records(r)
    BY <1>9, <2>1, <2>3, <1>5 DEF RecordLoop, Goto, TypeOK
  <2> QED BY <2>2, <2>3
<1>10. ASSUME NEW r \in Recorders, RecordDrain(r) PROVE RecordInv'
  <2>1. mux_buffer[r] # "none" /\ r \in members
    BY <1>10 DEF RecordDrain, ListInv
  <2> QED BY <1>10, <2>1, <1>5 DEF RecordDrain, Goto, TypeOK
<1>11. ASSUME NEW r \in Recorders, RecordDel(r) PROVE RecordInv'
  <2>1. mux_buffer[r] # "none"
    BY <1>11 DEF RecordDel, ListInv
  <2> QED BY <1>11, <2>1, <1>5 DEF RecordDel, Goto, TypeOK
<1>12. ASSUME NEW r \in Recorders, RecordClose(r) PROVE RecordInv'
  <2>1. r \notin members
    BY <1>12 DEF RecordClose, ListInv
  <2> QED BY <1>12, <2>1, <1>5 DEF RecordClose, Goto, TypeOK
<1>13. CASE UNCHANGED vars
  BY <1>13, <1>u DEF vars
<1> QED
  BY <1>1, <1>2, <1>3, <1>4, <1>6, <1>7, <1>8, <1>9, <1>10, <1>11, <1>12, <1>13
     DEF Next, RecordStep

\* The invariant of the recordings.
LEMMA RecordInvariant == Spec => []RecordInv
<1>1. Init => RecordInv
  BY DEF Init, RecordInv, ListInv, ToldInv
<1> QED
  BY <1>1, RecordInvStep, RecordTypeCorrect, PTL DEF Spec

\* The mux loop finds a buffer in every record thread of the list, however many
\* recordings start and end beside it.
THEOREM BuffersCorrect == Spec => []ListedRecorderHasBuffer
<1>1. TypeOK /\ RecordInv => ListedRecorderHasBuffer
  BY DEF RecordInv, ListInv, TypeOK, ListedRecorderHasBuffer
<1> QED
  BY <1>1, RecordInvariant, RecordTypeCorrect, PTL

\* A recording that a norecord command found in the list does not record on.
THEOREM StoppedCorrect == Spec => []NamedRecordingStops
<1>1. RecordInv => NamedRecordingStops
  BY DEF RecordInv, ToldInv, NamedRecordingStops
<1> QED
  BY <1>1, RecordInvariant, PTL
=============================================================================
