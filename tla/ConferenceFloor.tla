--------------------------- MODULE ConferenceFloor ---------------------------
(***************************************************************************)
(* Who holds the floor of a conference.  The members are a linked list,    *)
(* newest first, of callers and of recording threads (which have no        *)
(* session); a caller has an input thread of its own that takes the floor  *)
(* when the caller talks.  Members live on the stack of the thread that    *)
(* added them: a pointer to one must not outlive its removal.              *)
(*                                                                         *)
(* A step is a section under conference->mutex, under member_mutex, or a   *)
(* test of the output or input loop.  conference->mutex is held between    *)
(* the two steps of conference_add_member, member_mutex is not.            *)
(***************************************************************************)
EXTENDS Integers, Sequences, SequencesExt

CONSTANTS
    Callers,    \* members with a channel
    Recorders,  \* members with MFLAG_NOCHANNEL, whose session is NULL
    Video,      \* callers with CF_VIDEO
    VidFloor,   \* CFLAG_VID_FLOOR: only callers with video take the floor
    Nobody      \* the null member

ASSUME FloorAssumption ==
    /\ IsFiniteSet(Callers)
    /\ Callers \cap Recorders = {} /\ Video \subseteq Callers
    /\ Nobody \notin Callers \cup Recorders
    /\ VidFloor \in BOOLEAN

Members == Callers \cup Recorders

VARIABLES
    members,       \* conference->members
    count,         \* conference->count
    floor_holder,  \* conference->floor_holder
    pc,            \* where the thread that owns each member is
    running,       \* the members with MFLAG_RUNNING
    talking,       \* the members with MFLAG_TALKING
    ithread,       \* where each caller's input thread is; "none" without MFLAG_ITHREAD
    reading        \* the video thread is reading a frame of a former floor holder

vars == <<members, count, floor_holder, pc, running, talking, ithread, reading>>

\* Every variable has its type; no member is linked twice.
TypeOK ==
    /\ members \in Seq(Members) /\ IsInjective(members)
    /\ count \in Nat
    /\ floor_holder \in Members \cup {Nobody}
    /\ pc \in [Members -> {"out", "listed", "added", "loop", "ending"}]
    /\ running \subseteq Members /\ talking \subseteq Callers
    /\ ithread \in [Callers -> {"none", "read", "floor"}]
    /\ reading \in BOOLEAN

Init ==
    /\ members = <<>> /\ count = 0 /\ floor_holder = Nobody
    /\ pc = [m \in Members |-> "out"]
    /\ running = {} /\ talking = {}
    /\ ithread = [c \in Callers |-> "none"]
    /\ reading = FALSE

Goto(m, at) == pc' = [pc EXCEPT ![m] = at]

\* conference->mutex is held from the first to the second half of an addition.
MutexFree == \A c \in Callers : pc[c] # "listed"

(***************************************************************************)
(* conference_add_member.                                                  *)
(***************************************************************************)
AddToList(m) ==
    /\ MutexFree /\ pc[m] = "out"
    /\ members' = <<m>> \o members
    /\ running' = running \cup {m}
    /\ Goto(m, IF m \in Callers THEN "listed" ELSE "loop")
    /\ UNCHANGED <<count, floor_holder, talking, ithread, reading>>

\* The first caller is given the floor, under conference->mutex alone.
AddFinish(c) ==
    /\ pc[c] = "listed"
    /\ count' = count + 1
    /\ floor_holder' = IF count' = 1 THEN c ELSE floor_holder
    /\ Goto(c, "added")
    /\ UNCHANGED <<members, running, talking, ithread, reading>>

(***************************************************************************)
(* conference_loop_output launches the input thread, and waits for its end.*)
(***************************************************************************)
launch_conference_loop_input(c) ==
    /\ pc[c] = "added"
    /\ ithread' = [ithread EXCEPT ![c] = "read"]
    /\ talking' = talking \ {c}
    /\ Goto(c, "loop")
    /\ UNCHANGED <<members, count, floor_holder, running, reading>>

\* Kick, hangup, the end of the room: MFLAG_RUNNING is cleared.
Stop(m) ==
    /\ pc[m] \in {"listed", "added", "loop"} /\ m \in running
    /\ running' = running \ {m}
    /\ UNCHANGED <<members, count, floor_holder, pc, talking, ithread, reading>>

\* Mutant: the output loop leaves without waiting for MFLAG_ITHREAD.
LoopEndsAtOnce(m) ==
    /\ pc[m] = "loop" /\ m \notin running
    /\ Goto(m, "ending")
    /\ UNCHANGED <<members, count, floor_holder, running, talking, ithread, reading>>

LoopEnds(m) ==
    /\ pc[m] = "loop" /\ m \notin running
    /\ m \in Callers => ithread[m] = "none"
    /\ Goto(m, "ending")
    /\ UNCHANGED <<members, count, floor_holder, running, talking, ithread, reading>>

(***************************************************************************)
(* conference_del_member.                                                  *)
(***************************************************************************)
\* Mutant: a leaving floor holder keeps the floor.
FloorKept(m, rest) ==
    IF m \in Callers /\ count = 2 THEN IF rest = <<>> THEN Nobody ELSE Head(rest)
    ELSE floor_holder

\* The floor of a caller who leaves is free; the head of the list gets it when
\* one caller is left.
FloorAfter(m, rest) ==
    IF m \in Callers /\ count = 2 THEN IF rest = <<>> THEN Nobody ELSE Head(rest)
    ELSE IF floor_holder = m THEN Nobody
    ELSE floor_holder

\* The list without m; the walk along the list stops at m.
Unlinked(m) ==
    IF Contains(members, m)
    THEN RemoveAt(members, CHOOSE i \in 1..Len(members) : members[i] = m)
    ELSE members

\* Mutant: a recording that ends is counted as a caller.
DelCountsRecorder(m) ==
    /\ MutexFree /\ pc[m] = "ending"
    /\ members' = Unlinked(m)
    /\ count' = IF count > 0 THEN count - 1 ELSE 0
    /\ floor_holder' = FloorAfter(m, members')
    /\ Goto(m, "out")
    /\ UNCHANGED <<running, talking, ithread, reading>>

\* Mutant: the head of the list is not unlinked.
DelKeepsHead(m) ==
    /\ MutexFree /\ pc[m] = "ending"
    /\ members' = IF Head(members) = m THEN members ELSE Unlinked(m)
    /\ count' = IF m \in Callers THEN count - 1 ELSE count
    /\ floor_holder' = FloorAfter(m, members')
    /\ Goto(m, "out")
    /\ UNCHANGED <<running, talking, ithread, reading>>

conference_del_member(m) ==
    /\ MutexFree /\ pc[m] = "ending"
    /\ members' = Unlinked(m)
    /\ count' = IF m \in Callers THEN count - 1 ELSE count
    /\ floor_holder' = FloorAfter(m, members')
    /\ Goto(m, "out")
    /\ UNCHANGED <<running, talking, ithread, reading>>

(***************************************************************************)
(* conference_loop_input.                                                  *)
(***************************************************************************)
\* A frame of speech sets MFLAG_TALKING and asks for the floor; a quiet frame
\* may end the talking. The thread ends when MFLAG_RUNNING is cleared.
ReadFrame(c) ==
    /\ ithread[c] = "read"
    /\ \/ /\ c \notin running
          /\ ithread' = [ithread EXCEPT ![c] = "none"]
          /\ UNCHANGED talking
       \/ /\ c \in running
          /\ talking' = talking \cup {c}
          /\ ithread' = [ithread EXCEPT ![c] = "floor"]
       \/ /\ c \in running \cap talking
          /\ talking' = talking \ {c}
          /\ UNCHANGED ithread
    /\ UNCHANGED <<members, count, floor_holder, pc, running, reading>>

\* louder: score_iir of the caller is high and that of the holder is low.
TakesFloor(c, louder) ==
    /\ floor_holder = Nobody \/ floor_holder \notin talking \/ louder
    /\ VidFloor => c \in Video

CheckFloorChange(c) ==
    /\ ithread[c] = "floor"
    /\ \E louder \in BOOLEAN :
         floor_holder' = IF TakesFloor(c, louder) THEN c ELSE floor_holder
    /\ ithread' = [ithread EXCEPT ![c] = "read"]
    /\ UNCHANGED <<members, count, pc, running, talking, reading>>

(***************************************************************************)
(* conference_video_thread_run reads a frame without member_mutex, and     *)
(* takes the floor away when the read fails.                               *)
(***************************************************************************)
VideoReads ==
    /\ ~reading /\ floor_holder \in Video
    /\ reading' = TRUE
    /\ UNCHANGED <<members, count, floor_holder, pc, running, talking, ithread>>

VideoRead ==
    /\ reading
    /\ reading' = FALSE
    /\ floor_holder' \in {floor_holder, Nobody}
    /\ UNCHANGED <<members, count, pc, running, talking, ithread>>

Next ==
    \/ \E m \in Members :
         AddToList(m) \/ Stop(m) \/ LoopEnds(m) \/ conference_del_member(m)
    \/ \E c \in Callers :
         \/ AddFinish(c) \/ launch_conference_loop_input(c)
         \/ ReadFrame(c) \/ CheckFloorChange(c)
    \/ VideoReads \/ VideoRead

Spec == Init /\ [][Next]_vars

(***************************************************************************)
(* Properties.                                                             *)
(***************************************************************************)
\* The floor holder is a member of the list: the pointer never outlives the
\* stack frame of the member it points to.
FloorHolderInList == floor_holder # Nobody => Contains(members, floor_holder)

\* An input thread looks at member->conference, which conference_del_member
\* sets to NULL: it is gone before its member leaves the list.
InputThreadInList == \A c \in Callers : ithread[c] # "none" => Contains(members, c)

\* conference->count, which gives the floor to the first and to the last
\* caller, counts the callers of the list; it is behind by one while an
\* addition is between its two halves.
CountBehindList ==
    count = Cardinality({c \in Callers : Contains(members, c) /\ pc[c] # "listed"})
=============================================================================
