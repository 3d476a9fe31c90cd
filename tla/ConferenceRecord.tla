-------------------------- MODULE ConferenceRecord --------------------------
(***************************************************************************)
(* The recordings of one conference: the record and norecord commands, the *)
(* automatic recording, and the threads that record                        *)
(* (conference_record_thread_run), which are members of the conference     *)
(* without a channel.                                                      *)
(*                                                                         *)
(* A step is a section under conference->mutex or member_mutex, or a run   *)
(* of a record thread between two of them.                                 *)
(***************************************************************************)
EXTENDS Integers, FiniteSets

CONSTANTS
    Recorders,   \* record threads; each records once
    Paths,       \* file names
    MaxCallers,  \* bound on conference->count
    MaxBelow,    \* how far repeated norecord commands lower record_count below 0
    AutoRecord,  \* conference->auto_record is set
    Faults       \* "open": the file, or its format, is not to be had; "timer"; "write"

ASSUME RecordAssumption ==
    /\ IsFiniteSet(Recorders)
    /\ MaxCallers \in Nat /\ MaxBelow \in Nat /\ AutoRecord \in BOOLEAN
    /\ Faults \subseteq {"open", "timer", "write"}

VARIABLES
    members,        \* the record threads in the list of members
    count,          \* conference->count, the callers in it
    conf,           \* "new", "launched" (CFLAG_RUNNING is set), "running" (the conference
                    \* thread is in its loop), "swept" or "ended" (the flag is cleared)
    is_recording, record_count,
    pc,             \* where each record thread is
    path,           \* rec->path
    running,        \* the record threads with MFLAG_RUNNING
    opened,         \* the record threads whose file is open
    mux_buffer,     \* "none", "empty" or "audio"
    told            \* the recordings that a norecord command found in the list

vars == <<members, count, conf, is_recording, record_count, pc, path, running,
          opened, mux_buffer, told>>

ThreadVars == <<pc, path, running, opened, mux_buffer>>

\* Every variable has its type; record_count is lowered by commands only.
TypeOK ==
    /\ members \subseteq Recorders /\ count \in 0..MaxCallers
    /\ conf \in {"new", "launched", "running", "swept", "ended"}
    /\ is_recording \in BOOLEAN /\ record_count \in -MaxBelow..Cardinality(Recorders)
    /\ running \subseteq Recorders /\ opened \subseteq Recorders /\ told \subseteq Recorders
    /\ pc \in [Recorders -> {"none", "launched", "ready", "added", "loop", "end",
                             "drained", "removed", "gone"}]
    /\ path \in [Recorders -> Paths]
    /\ mux_buffer \in [Recorders -> {"none", "empty", "audio"}]

Init ==
    /\ members = {} /\ count = 0 /\ conf = "new" /\ is_recording = FALSE /\ record_count = 0
    /\ running = {} /\ opened = {} /\ told = {}
    /\ pc = [r \in Recorders |-> "none"]
    /\ path \in [Recorders -> Paths]
    /\ mux_buffer = [r \in Recorders |-> "none"]

Goto(r, at) == pc' = [pc EXCEPT ![r] = at]

\* Callers are added and deleted.
Join == /\ count < MaxCallers
        /\ count' = count + 1
        /\ UNCHANGED <<members, conf, is_recording, record_count, ThreadVars, told>>

Leave == /\ count > 0
         /\ count' = count - 1
         /\ UNCHANGED <<members, conf, is_recording, record_count, ThreadVars, told>>

(***************************************************************************)
(* Commands.                                                               *)
(***************************************************************************)
\* A conference that is in the hash can be recorded before its thread runs.
conf_api_sub_record(r) ==
    /\ pc[r] = "none"
    /\ record_count' = record_count + 1
    /\ Goto(r, "launched")
    /\ UNCHANGED <<members, count, conf, is_recording, path, running, opened, mux_buffer,
                   told>>

\* The recordings in the list are stopped; one that was launched and has yet
\* to join the list is not.
conf_api_sub_norecord ==
    \E named \in SUBSET Paths :
      LET all     == named = Paths
          stopped == {r \in members : path[r] \in named}
      IN  /\ all \/ Cardinality(named) = 1
          /\ all \/ record_count > -MaxBelow
          /\ running' = running \ stopped
          /\ told' = told \cup stopped
          /\ record_count' = IF all THEN 0
                             ELSE IF stopped = {} THEN record_count
                             ELSE record_count - 1
          /\ UNCHANGED <<members, count, conf, is_recording, pc, path, opened, mux_buffer>>

(***************************************************************************)
(* The conference thread.                                                  *)
(***************************************************************************)
launch_conference_thread ==
    /\ conf = "new" /\ conf' = "launched"
    /\ UNCHANGED <<members, count, is_recording, record_count, ThreadVars, told>>

ThreadStart ==
    /\ conf = "launched"
    /\ conf' = "running" /\ is_recording' = FALSE /\ record_count' = 0
    /\ UNCHANGED <<members, count, ThreadVars, told>>

\* Every member of the list is told to leave, the recordings too.
Sweep ==
    /\ conf = "running" /\ conf' = "swept"
    /\ running' = running \ members
    /\ UNCHANGED <<members, count, is_recording, record_count, pc, path, opened, mux_buffer, told>>

\* CFLAG_RUNNING is cleared; the thread then waits for the write lock.
ThreadEnd ==
    /\ conf = "swept" /\ conf' = "ended"
    /\ UNCHANGED <<members, count, is_recording, record_count, ThreadVars, told>>

AutoRecords == AutoRecord /\ ~is_recording /\ count > 1

\* A tick launches the automatic recording, and writes to the mux_buffer of every
\* member that is running.
Tick ==
    /\ conf = "running"
    /\ IF AutoRecords /\ \E r \in Recorders : pc[r] = "none"
       THEN /\ is_recording' = TRUE /\ record_count' = record_count + 1
            /\ \E r \in Recorders : pc[r] = "none" /\ Goto(r, "launched")
       ELSE UNCHANGED <<is_recording, record_count, pc>>
    /\ mux_buffer' = [r \in Recorders |-> IF r \in members \cap running THEN "audio"
                                          ELSE mux_buffer[r]]
    /\ UNCHANGED <<members, count, conf, path, running, opened, told>>

(***************************************************************************)
(* conference_record_thread_run.                                           *)
(***************************************************************************)
\* The member, its flags and its buffers are set up, unless the conference
\* thread has the write lock.
RecordSetup(r) ==
    /\ pc[r] = "launched"
    /\ \/ /\ running' = running \cup {r}
          /\ mux_buffer' = [mux_buffer EXCEPT ![r] = "empty"]
          /\ Goto(r, "ready")
       \/ /\ conf = "ended" /\ Goto(r, "gone")
          /\ UNCHANGED <<running, mux_buffer>>
    /\ UNCHANGED <<members, count, conf, is_recording, record_count, path, opened, told>>

RecordAdd(r) ==
    /\ pc[r] = "ready"
    /\ members' = members \cup {r}
    /\ Goto(r, "added")
    /\ UNCHANGED <<count, conf, is_recording, record_count, path, running, opened,
                   mux_buffer, told>>

\* Mutant: MFLAG_RUNNING is set once the file is open.
RecordOpenRuns(r) ==
    /\ pc[r] = "added"
    /\ opened' = opened \cup {r} /\ running' = running \cup {r}
    /\ Goto(r, "loop")
    /\ UNCHANGED <<members, count, conf, is_recording, record_count, path, mux_buffer, told>>

RecordOpen(r) ==
    /\ pc[r] = "added"
    /\ \/ opened' = opened \cup {r} /\ Goto(r, "loop")
       \/ "open" \in Faults /\ UNCHANGED opened /\ Goto(r, "end")
       \/ "timer" \in Faults /\ opened' = opened \cup {r} /\ Goto(r, "end")
    /\ UNCHANGED <<members, count, conf, is_recording, record_count, path, running, mux_buffer,
                   told>>

\* Mutant: a recording goes on in an empty conference.
RecordsOn(r) == r \in running /\ conf \notin {"new", "ended"}
Records(r) == r \in running /\ conf \notin {"new", "ended"} /\ count > 0

\* One turn of the loop: nothing is done (the lead-in, a pause, no audio yet),
\* or a frame is written, or the write fails.
RecordLoop(r) ==
    /\ pc[r] = "loop"
    /\ IF Records(r)
       THEN /\ UNCHANGED pc
            /\ \/ mux_buffer' = [mux_buffer EXCEPT ![r] = "empty"] /\ UNCHANGED running
               \/ /\ "write" \in Faults /\ running' = running \ {r}
                  /\ mux_buffer' = [mux_buffer EXCEPT ![r] = "empty"]
               \/ UNCHANGED <<running, mux_buffer>>
       ELSE /\ Goto(r, "end")
            /\ UNCHANGED <<running, mux_buffer>>
    /\ UNCHANGED <<members, count, conf, is_recording, record_count, path, opened, told>>

\* What is left in the buffer is written, also when the file was never opened.  A
\* recording that had run out of audio (no_data) writes nothing more.
RecordDrain(r) ==
    /\ pc[r] = "end"
    /\ \/ mux_buffer' = [mux_buffer EXCEPT ![r] = "empty"]
       \/ r \in opened /\ UNCHANGED mux_buffer
    /\ Goto(r, "drained")
    /\ UNCHANGED <<members, count, conf, is_recording, record_count, path, running, opened, told>>

\* Mutants: a recording that ends counts itself out; the buffers are destroyed
\* before the member leaves the list.
RecordDelCounts(r) ==
    /\ pc[r] = "drained"
    /\ members' = members \ {r}
    /\ record_count' = record_count - 1
    /\ Goto(r, "removed")
    /\ UNCHANGED <<count, conf, is_recording, path, running, opened, mux_buffer, told>>

RecordDelLate(r) ==
    /\ pc[r] = "drained"
    /\ mux_buffer' = [mux_buffer EXCEPT ![r] = "none"]
    /\ Goto(r, "removed")
    /\ UNCHANGED <<members, count, conf, is_recording, record_count, path, running, opened,
                   told>>

RecordDel(r) ==
    /\ pc[r] = "drained"
    /\ members' = members \ {r}
    /\ Goto(r, "removed")
    /\ UNCHANGED <<count, conf, is_recording, record_count, path, running, opened,
                   mux_buffer, told>>

\* The buffers are destroyed and the file is closed.
RecordClose(r) ==
    /\ pc[r] = "removed"
    /\ mux_buffer' = [mux_buffer EXCEPT ![r] = "none"]
    /\ opened' = opened \ {r}
    /\ running' = running \ {r}
    /\ Goto(r, "gone")
    /\ UNCHANGED <<members, count, conf, is_recording, record_count, path, told>>

RecordStep(r) == \/ RecordSetup(r) \/ RecordAdd(r) \/ RecordOpen(r) \/ RecordLoop(r)
                 \/ RecordDrain(r) \/ RecordDel(r) \/ RecordClose(r)

Next ==
    \/ Join \/ Leave \/ conf_api_sub_norecord
    \/ launch_conference_thread \/ ThreadStart \/ Tick \/ Sweep \/ ThreadEnd
    \/ \E r \in Recorders : conf_api_sub_record(r) \/ RecordStep(r)

Spec == Init /\ [][Next]_vars

\* The record threads run.
FairSpec == Spec /\ \A r \in Recorders : WF_vars(RecordStep(r))

(***************************************************************************)
(* Properties.                                                             *)
(***************************************************************************)
\* The mux loop writes to the buffer of every member of the list: a record
\* thread has its buffers as long as it is in the list.
ListedRecorderHasBuffer == \A r \in members : mux_buffer[r] # "none"

\* A recording that is stopped, or whose conference empties for good or ends,
\* leaves the list and gives up its lock on the conference.
RecordingEnds ==
    \A r \in Recorders :
        /\ (pc[r] = "loop" /\ r \notin running) ~> (pc[r] = "gone")
        /\ (pc[r] # "none" /\ conf = "ended") ~> (pc[r] = "gone")
        /\ []<>(pc[r] \in {"none", "gone"} \/ count > 0)

\* "stop the specified recording": a recording that a norecord command found in
\* the list, also before its file was open, does not record on.
NamedRecordingStops == \A r \in told : pc[r] = "loop" => r \notin running
=============================================================================
