--------------------------- MODULE ConferenceVideo ---------------------------
(***************************************************************************)
(* The video of one conference: the thread that relays the video of the    *)
(* floor holder to everybody (conference_video_thread_run), the two        *)
(* threads of a video bridge, the conference thread that launches them and *)
(* waits for their end, and the members that join, leave and take the      *)
(* floor meanwhile.                                                        *)
(*                                                                         *)
(* conference->mutex is held across two steps only, those of a launch (cpc *)
(* = "launching"); every other section under member_mutex or               *)
(* conference->mutex is one step.                                          *)
(***************************************************************************)
EXTENDS Integers, FiniteSets

CONSTANTS
    Members,       \* the callers; all of them may have video (CF_VIDEO)
    Video,         \* the callers that have it
    Pair,          \* the callers with MFLAG_VIDEO_BRIDGE
    VideoThreads,  \* instances of conference_video_thread_run
    VideoBridge,   \* whether CFLAG_VIDEO_BRIDGE may be set, and may not
    Faults,        \* what may go wrong: "silence", "mux", "shutdown"
    Nobody         \* the null member

ASSUME VideoAssumption ==
    /\ Video \subseteq Members /\ Pair \subseteq Members
    /\ VideoBridge \subseteq BOOLEAN
    /\ Nobody \notin Members
    /\ IsFiniteSet(Members)

VARIABLES
    members,        \* conference->members
    down,           \* the callers whose channel has hung up
    floor_holder,
    video_running,  \* -1, 0 or 1
    destruct,       \* CFLAG_DESTRUCT
    running,        \* globals.running
    video_bridge,   \* CFLAG_VIDEO_BRIDGE of the room
    cpc,            \* where conference_thread_run is
    vpc,            \* where each video thread is
    session,        \* the member whose session a video thread reads
    last_member,    \* last_member and has_vid of the video thread
    bridge          \* the callers a live bridge thread reads from

vars == <<members, down, floor_holder, video_running, destruct, running, video_bridge,
          cpc, vpc, session, last_member, bridge>>

InRoom == <<members, down, floor_holder, video_bridge>>
ThreadVars == <<vpc, session, last_member>>

Started == {"top", "section", "reading", "relay", "end"}

\* Every variable has its type.
TypeOK ==
    /\ members \subseteq Members /\ down \subseteq Members
    /\ floor_holder \in Members \cup {Nobody}
    /\ video_running \in {-1, 0, 1}
    /\ destruct \in BOOLEAN /\ running \in BOOLEAN /\ video_bridge \in VideoBridge
    /\ cpc \in {"loop", "tick", "launching", "ending", "swept", "stopping", "waiting", "ended"}
    /\ vpc \in [VideoThreads -> {"none", "created", "ended"} \cup Started]
    /\ session \in [VideoThreads -> Members \cup {Nobody}]
    /\ last_member \in [VideoThreads -> [id : Members \cup {Nobody}, has_vid : BOOLEAN]]
    /\ bridge \subseteq Pair

Init ==
    /\ members = {} /\ down = {} /\ floor_holder = Nobody
    /\ video_running = 0 /\ destruct = FALSE /\ running = TRUE
    /\ video_bridge \in VideoBridge
    /\ cpc = "loop"
    /\ vpc = [t \in VideoThreads |-> "none"]
    /\ session = [t \in VideoThreads |-> Nobody]
    /\ last_member = [t \in VideoThreads |-> [id |-> Nobody, has_vid |-> TRUE]]
    /\ bridge = {}

(***************************************************************************)
(* Callers.                                                                *)
(***************************************************************************)
MutexFree == cpc # "launching"

\* A caller that has the read lock is added also while the room winds down.
conference_add_member(m) ==
    /\ MutexFree /\ cpc # "ended"
    /\ m \notin members
    /\ members' = members \cup {m}
    /\ floor_holder' = IF members = {} THEN m ELSE floor_holder
    /\ UNCHANGED <<down, video_running, destruct, running, video_bridge, cpc, ThreadVars,
                   bridge>>

switch_channel_hangup(m) ==
    /\ m \in members \ down
    /\ down' = down \cup {m}
    /\ UNCHANGED <<members, floor_holder, video_running, destruct, running, video_bridge,
                   cpc, ThreadVars, bridge>>

\* The room is dynamic: the last caller that leaves it destroys it.
conference_del_member(m) ==
    /\ MutexFree
    /\ m \in members
    /\ members' = members \ {m} /\ down' = down \ {m}
    /\ floor_holder' \in IF Cardinality(members') = 1 THEN members'
                         ELSE {IF floor_holder = m THEN Nobody ELSE floor_holder}
    /\ destruct' = (destruct \/ members' = {})
    /\ UNCHANGED <<video_running, running, video_bridge, cpc, ThreadVars, bridge>>

\* The input thread of a talking caller takes the floor.
TakeFloor(m) ==
    /\ m \in members
    /\ floor_holder' = m
    /\ UNCHANGED <<members, down, video_running, destruct, running, video_bridge, cpc,
                   ThreadVars, bridge>>

(***************************************************************************)
(* The conference thread.                                                  *)
(***************************************************************************)
\* The test of the mux loop.
Loop ==
    /\ cpc = "loop"
    /\ cpc' = IF running /\ ~destruct THEN "tick" ELSE "ending"
    /\ UNCHANGED <<InRoom, video_running, destruct, running, ThreadVars, bridge>>

\* Mutant: a launch without the test of video_running.
LaunchAlways == ~video_bridge /\ members \cap Video # {}

LaunchVideo == ~video_bridge /\ members \cap Video # {} /\ video_running # 1
LaunchBridge == /\ video_bridge /\ members \cap Video # {} /\ video_running # 1
                /\ Cardinality(members \cap Pair) > 1

\* One tick, from the lock of conference->mutex on: terminate-on-silence may
\* set CFLAG_DESTRUCT, a video thread or two bridge threads are created, and
\* a failing mux_buffer leaves the loop without CFLAG_DESTRUCT.
Tick ==
    /\ cpc = "tick"
    /\ \/ UNCHANGED destruct
       \/ "silence" \in Faults /\ Cardinality(members) > 1 /\ destruct' = TRUE
    /\ IF LaunchVideo
       THEN /\ \E t \in VideoThreads :
                 /\ vpc[t] \in {"none", "ended"}
                 /\ vpc' = [vpc EXCEPT ![t] = "created"]
                 /\ session' = [session EXCEPT ![t] = Nobody]
                 /\ last_member' = [last_member EXCEPT ![t] = [id |-> Nobody, has_vid |-> TRUE]]
            /\ cpc' = "launching"
            /\ UNCHANGED <<video_running, bridge>>
       ELSE IF LaunchBridge
       THEN /\ \E p \in SUBSET (members \cap Pair) : Cardinality(p) = 2 /\ bridge' = p
            /\ video_running' = 1
            /\ cpc' = "loop"
            /\ UNCHANGED ThreadVars
       ELSE /\ \/ cpc' = "loop"
               \/ "mux" \in Faults /\ members # {} /\ cpc' = "ending"
            /\ UNCHANGED <<video_running, ThreadVars, bridge>>
    /\ UNCHANGED <<InRoom, running>>

\* launch_conference_video_thread sets video_running after the creation.
Launched ==
    /\ cpc = "launching"
    /\ video_running' = 1
    /\ \/ cpc' = "loop"
       \/ "mux" \in Faults /\ members # {} /\ cpc' = "ending"
    /\ UNCHANGED <<InRoom, destruct, running, ThreadVars, bridge>>

\* Every member is told to leave, and most channels are hung up.
Sweep ==
    /\ cpc = "ending"
    /\ down' = down \cup members
    /\ cpc' = "swept"
    /\ UNCHANGED <<members, floor_holder, video_running, destruct, running, video_bridge,
                   ThreadVars, bridge>>

\* Mutant: the wind-down does not wait for the video thread.
NoWait ==
    /\ cpc = "swept"
    /\ cpc' = "ended"
    /\ UNCHANGED <<InRoom, video_running, destruct, running, ThreadVars, bridge>>

\* The test of video_running, and the store that follows it without a lock.
TestVideo ==
    /\ cpc = "swept"
    /\ cpc' = IF video_running = 1 THEN "stopping" ELSE "ended"
    /\ UNCHANGED <<InRoom, video_running, destruct, running, ThreadVars, bridge>>

StopVideo ==
    /\ cpc = "stopping"
    /\ video_running' = -1
    /\ cpc' = "waiting"
    /\ UNCHANGED <<InRoom, destruct, running, ThreadVars, bridge>>

VideoStopped ==
    /\ cpc = "waiting" /\ video_running = 0
    /\ cpc' = "ended"
    /\ UNCHANGED <<InRoom, video_running, destruct, running, ThreadVars, bridge>>

Shutdown ==
    /\ "shutdown" \in Faults /\ running
    /\ running' = FALSE
    /\ UNCHANGED <<InRoom, video_running, destruct, cpc, ThreadVars, bridge>>

(***************************************************************************)
(* The video thread.                                                       *)
(***************************************************************************)
VGoto(t, at) == vpc' = [vpc EXCEPT ![t] = at]

VStart(t) ==
    /\ vpc[t] = "created"
    /\ video_running' = 1
    /\ VGoto(t, "top")
    /\ UNCHANGED <<InRoom, destruct, running, cpc, session, last_member, bridge>>

\* Mutant: the loop does not look at video_running.
GoesOnUnlessDestroyed(t) == last_member[t].has_vid /\ running /\ ~destruct

GoesOn(t) == /\ last_member[t].has_vid /\ video_running = 1
             /\ running /\ ~destruct

VTop(t) ==
    /\ vpc[t] = "top"
    /\ VGoto(t, IF GoesOn(t) THEN "section" ELSE "end")
    /\ UNCHANGED <<InRoom, video_running, destruct, running, cpc, session, last_member, bridge>>

\* The result of switch_core_session_read_lock, which fails once the channel
\* is down, is not looked at: the read follows anyway.
VSection(t) ==
    /\ vpc[t] = "section"
    /\ IF floor_holder \in Video
       THEN /\ session' = [session EXCEPT ![t] = floor_holder]
            /\ VGoto(t, "reading")
       ELSE VGoto(t, "top") /\ UNCHANGED session
    /\ UNCHANGED <<InRoom, video_running, destruct, running, cpc, last_member, bridge>>

\* switch_core_session_read_video_frame returns: an error or comfort noise
\* takes the floor from whoever holds it now, and is all that is read from a
\* channel that is down; a frame that is no key frame is not the first one
\* relayed for a new floor holder.
VRead(t) ==
    /\ vpc[t] = "reading"
    /\ session' = [session EXCEPT ![t] = Nobody]
    /\ \/ /\ floor_holder' = Nobody
          /\ VGoto(t, "top")
          /\ UNCHANGED last_member
       \/ /\ session[t] \notin down /\ floor_holder # Nobody
          /\ \E iframe \in BOOLEAN :
               IF floor_holder = last_member[t].id \/ iframe
               THEN /\ last_member' = [last_member EXCEPT ![t].id = floor_holder]
                    /\ VGoto(t, "relay")
               ELSE VGoto(t, "top") /\ UNCHANGED last_member
          /\ UNCHANGED floor_holder
    /\ UNCHANGED <<members, down, video_running, destruct, running, video_bridge, cpc, bridge>>

VRelay(t) ==
    /\ vpc[t] = "relay"
    /\ last_member' = [last_member EXCEPT ![t].has_vid = members \cap Video # {}]
    /\ VGoto(t, "top")
    /\ UNCHANGED <<InRoom, video_running, destruct, running, cpc, session, bridge>>

\* Mutant: the thread counts itself out instead of clearing video_running.
VEndDecrements(t) ==
    /\ vpc[t] = "end"
    /\ video_running' = video_running - 1
    /\ VGoto(t, "ended")
    /\ UNCHANGED <<InRoom, destruct, running, cpc, session, last_member, bridge>>

VEnd(t) ==
    /\ vpc[t] = "end"
    /\ video_running' = 0
    /\ VGoto(t, "ended")
    /\ UNCHANGED <<InRoom, destruct, running, cpc, session, last_member, bridge>>

\* A bridge thread reads a frame after the test of MFLAG_RUNNING and of both
\* channels; it ends when one of them is down, or at a bad frame.
BridgeEnd(m) ==
    /\ m \in bridge
    /\ bridge' = bridge \ {m}
    /\ UNCHANGED <<InRoom, video_running, destruct, running, cpc, ThreadVars>>

VideoStep(t) == VStart(t) \/ VTop(t) \/ VSection(t) \/ VRead(t) \/ VRelay(t) \/ VEnd(t)
RoomStep == Loop \/ Tick \/ Launched \/ Sweep \/ TestVideo \/ StopVideo \/ VideoStopped

Next ==
    \/ \E m \in Members :
         \/ conference_add_member(m) \/ switch_channel_hangup(m)
         \/ conference_del_member(m) \/ TakeFloor(m) \/ BridgeEnd(m)
    \/ RoomStep \/ Shutdown
    \/ \E t \in VideoThreads : VideoStep(t)

\* The threads run; a video read returns; a caller that was told to leave or
\* has hung up leaves the room.
Fairness ==
    /\ WF_vars(RoomStep)
    /\ \A t \in VideoThreads : WF_vars(VideoStep(t))
    /\ \A m \in Members : /\ WF_vars(m \in down /\ conference_del_member(m))
                          /\ WF_vars(BridgeEnd(m))

Spec == Init /\ [][Next]_vars
FairSpec == Spec /\ Fairness

(***************************************************************************)
(* Properties.                                                             *)
(***************************************************************************)
\* "Main video monitor thread (1 per distinct conference room)": two video
\* threads would both read the floor holder's frames and both write every
\* member's.
OneVideoThread ==
    \A t, u \in VideoThreads :
        vpc[t] \in Started \cup {"created"} /\ vpc[u] \in Started \cup {"created"} => t = u

\* The conference thread goes on to the destruction of the pool only after
\* the video thread last looked at the conference, and the bridge threads at
\* their helper, which is allocated in that pool: nobody ever clears the
\* video_running of a bridge, so that such a room waits for ever.
VideoThreadsDoneFirst ==
    cpc = "ended" => bridge = {} /\ \A t \in VideoThreads : vpc[t] \in {"none", "ended"}

\* A room that waits for a video thread that is still there goes on, whatever the
\* thread is doing, if the thread is bound to see that it must stop: the room is
\* marked, the module is shut down, or the thread is in its loop and the request (-1)
\* stands.  Left out are a thread that had ended before the request was stored, and
\* one whose first statement overwrites the request in a room that is not marked.
WaitForVideoEnds ==
    (/\ cpc = "waiting"
     /\ \E t \in VideoThreads : \/ vpc[t] \in Started /\ video_running = -1
                                \/ vpc[t] \in Started \cup {"created"} /\ (destruct \/ ~running))
        ~> (cpc = "ended")
=============================================================================
