------------------------ MODULE ConferenceVideoProofs ------------------------
(***************************************************************************)
(* One video thread at a time, and none of the threads left when the       *)
(* conference goes on to destroy its pool, for every set of members and of *)
(* thread instances.                                                       *)
(***************************************************************************)
EXTENDS ConferenceVideo, TLAPS

\* The video threads that have been created and have not yet ended.
Active(t) == vpc[t] \in Started \cup {"created"}

\* video_running tells the conference thread the truth about the threads where
\* it relies on it: it is not yet a request to stop (-1) before the wind-down;
\* it is 0 at the end; a thread that is there keeps it off 0, but for the time
\* between its creation and the assignment after it (cpc = "launching"), which
\* is spent under conference->mutex; so do bridge threads, and a room has one
\* kind of threads only.
RunningFlag ==
    /\ cpc \notin {"waiting", "ended"} => video_running # -1
    /\ cpc = "ended" => video_running = 0

ThreadsShow ==
    \A t \in VideoThreads : Active(t) =>
        ~video_bridge /\ (video_running # 0 \/ cpc = "launching")

BridgeShows == bridge # {} => video_bridge /\ video_running # 0

VideoInv == RunningFlag /\ ThreadsShow /\ BridgeShows /\ OneVideoThread

\* One tick of the mux loop creates a video thread, or two bridge threads, or none.
LEMMA TickCases ==
    ASSUME Tick
    PROVE  /\ cpc = "tick"
           /\ UNCHANGED <<members, down, floor_holder, video_bridge, running>>
           /\ (destruct' = destruct) \/ destruct'
           /\ \/ /\ ~video_bridge /\ video_running # 1
                 /\ \E t \in VideoThreads :
                      /\ vpc[t] \in {"none", "ended"}
                      /\ vpc' = [vpc EXCEPT ![t] = "created"]
                      /\ session' = [session EXCEPT ![t] = Nobody]
                      /\ last_member' =
                           [last_member EXCEPT ![t] = [id |-> Nobody, has_vid |-> TRUE]]
                 /\ cpc' = "launching" /\ UNCHANGED <<video_running, bridge>>
              \/ /\ video_bridge /\ video_running' = 1 /\ cpc' = "loop"
                 /\ bridge' \subseteq Pair
                 /\ UNCHANGED <<vpc, session, last_member>>
              \/ /\ cpc' \in {"loop", "ending"}
                 /\ UNCHANGED <<video_running, vpc, session, last_member, bridge>>
<1>1. /\ cpc = "tick"
      /\ UNCHANGED <<members, down, floor_holder, video_bridge, running>>
      /\ (destruct' = destruct) \/ destruct'
  BY DEF Tick, InRoom
<1>2. CASE LaunchVideo
  BY <1>1, <1>2 DEF Tick, LaunchVideo
<1>3. CASE ~LaunchVideo /\ LaunchBridge
  BY <1>1, <1>3 DEF Tick, LaunchBridge, ThreadVars
<1>4. CASE ~LaunchVideo /\ ~LaunchBridge
  BY <1>1, <1>4 DEF Tick, ThreadVars
<1> QED
  BY <1>2, <1>3, <1>4

\* Every step keeps the variables in their types.
LEMMA VideoTypeStep ==
    ASSUME TypeOK, [Next]_vars
    PROVE  TypeOK'
<1> USE DEF TypeOK, Started
<1>1. ASSUME NEW m \in Members, conference_add_member(m) PROVE TypeOK'
  BY <1>1 DEF conference_add_member, ThreadVars
<1>2. ASSUME NEW m \in Members, switch_channel_hangup(m) PROVE TypeOK'
  BY <1>2 DEF switch_channel_hangup, ThreadVars
<1>3. ASSUME NEW m \in Members, conference_del_member(m) PROVE TypeOK'
  BY <1>3 DEF conference_del_member, ThreadVars
<1>4. ASSUME NEW m \in Members, TakeFloor(m) PROVE TypeOK'
  BY <1>4 DEF TakeFloor, ThreadVars
<1>5. ASSUME NEW m \in Members, BridgeEnd(m) PROVE TypeOK'
  BY <1>5 DEF BridgeEnd, InRoom, ThreadVars
<1>6. CASE Loop
  BY <1>6 DEF Loop, InRoom, ThreadVars
<1>7. CASE Tick
  <2>1. UNCHANGED <<members, down, floor_holder, video_bridge, running>> /\ destruct' \in BOOLEAN
    BY <1>7 DEF Tick, InRoom
  <2>2. /\ vpc' \in [VideoThreads -> {"none", "created", "ended"} \cup Started]
        /\ session' \in [VideoThreads -> Members \cup {Nobody}]
    BY <1>7, TickCases
  <2>3. last_member' \in [VideoThreads -> [id : Members \cup {Nobody}, has_vid : BOOLEAN]]
    <3>1. [id |-> Nobody, has_vid |-> TRUE] \in [id : Members \cup {Nobody}, has_vid : BOOLEAN]
      OBVIOUS
    <3>2. \/ last_member' = last_member
          \/ \E t \in VideoThreads : last_member' =
                [last_member EXCEPT ![t] = [id |-> Nobody, has_vid |-> TRUE]]
      BY <1>7, TickCases
    <3> QED
      BY <3>1, <3>2
  <2>4. video_running' \in {-1, 0, 1} /\ bridge' \subseteq Pair
    BY <1>7, TickCases
  <2>5. cpc' \in {"loop", "launching", "ending"}
    BY <1>7, TickCases
  <2> QED
    BY <2>1, <2>2, <2>3, <2>4, <2>5
<1>8. CASE Launched
  BY <1>8 DEF Launched, InRoom, ThreadVars
<1>9. CASE Sweep
  BY <1>9 DEF Sweep, ThreadVars
<1>10. CASE TestVideo \/ StopVideo
  BY <1>10 DEF TestVideo, StopVideo, InRoom, ThreadVars
<1>11. CASE VideoStopped
  BY <1>11 DEF VideoStopped, InRoom, ThreadVars
<1>12. CASE Shutdown
  BY <1>12 DEF Shutdown, InRoom, ThreadVars
<1>13. ASSUME NEW t \in VideoThreads, VStart(t) PROVE TypeOK'
  BY <1>13 DEF VStart, VGoto, InRoom
<1>14. ASSUME NEW t \in VideoThreads, VTop(t) PROVE TypeOK'
  BY <1>14 DEF VTop, VGoto, InRoom
<1>15. ASSUME NEW t \in VideoThreads, VSection(t) PROVE TypeOK'
  BY <1>15 DEF VSection, VGoto, InRoom
<1>16. ASSUME NEW t \in VideoThreads, VRead(t) PROVE TypeOK'
  <2>1. UNCHANGED <<members, down, video_running, destruct, running, video_bridge, cpc, bridge>>
    BY <1>16 DEF VRead
  <2>2. /\ vpc' \in [VideoThreads -> {"none", "created", "ended"} \cup Started]
        /\ session' \in [VideoThreads -> Members \cup {Nobody}]
        /\ floor_holder' \in Members \cup {Nobody}
    BY <1>16 DEF VRead, VGoto
  <2>3. \/ last_member' = last_member
        \/ last_member' = [last_member EXCEPT ![t].id = floor_holder]
    BY <1>16 DEF VRead
  <2>4. last_member' \in [VideoThreads -> [id : Members \cup {Nobody}, has_vid : BOOLEAN]]
    BY <2>3
  <2> QED
    BY <2>1, <2>2, <2>4
<1>17. ASSUME NEW t \in VideoThreads, VRelay(t) PROVE TypeOK'
  <2>1. UNCHANGED <<members, down, floor_holder, video_running, destruct, running,
                    video_bridge, cpc, session, bridge>>
    BY <1>17 DEF VRelay, InRoom
  <2>2. last_member' = [last_member EXCEPT ![t].has_vid = (members \cap Video # {})]
    BY <1>17 DEF VRelay
  <2>3. (members \cap Video # {}) \in BOOLEAN
    OBVIOUS
  <2>4. last_member' \in [VideoThreads -> [id : Members \cup {Nobody}, has_vid : BOOLEAN]]
    BY <2>2, <2>3
  <2>5. vpc' \in [VideoThreads -> {"none", "created", "ended"} \cup Started]
    BY <1>17 DEF VRelay, VGoto
  <2> QED
    BY <2>1, <2>4, <2>5
<1>18. ASSUME NEW t \in VideoThreads, VEnd(t) PROVE TypeOK'
  BY <1>18 DEF VEnd, VGoto, InRoom
<1>19. CASE UNCHANGED vars
  BY <1>19 DEF vars
<1> QED
  BY <1>1, <1>2, <1>3, <1>4, <1>5, <1>6, <1>7, <1>8, <1>9, <1>10, <1>11, <1>12,
     <1>13, <1>14, <1>15, <1>16, <1>17, <1>18, <1>19
  DEF Next, RoomStep, VideoStep

\* Steps that touch neither the threads nor what tells of them.
LEMMA VideoFrame ==
    ASSUME VideoInv, UNCHANGED <<cpc, video_running, video_bridge, vpc>>, bridge' \subseteq bridge
    PROVE  VideoInv'
  BY DEF VideoInv, RunningFlag, ThreadsShow, BridgeShows, OneVideoThread, Active

\* A video thread that is there moves on, with video_running set if at all.
LEMMA VideoThreadFrame ==
    ASSUME TypeOK, VideoInv, NEW t \in VideoThreads, Active(t),
           NEW at \in Started, vpc' = [vpc EXCEPT ![t] = at],
           video_running' \in {1, video_running},
           UNCHANGED <<cpc, video_bridge, bridge>>
    PROVE  VideoInv'
<1>1. \A u \in VideoThreads : Active(u)' <=> Active(u)
  BY DEF TypeOK, Active, Started
<1>2. cpc # "ended"
  BY DEF VideoInv, ThreadsShow, RunningFlag
<1>3. RunningFlag'
  BY <1>2 DEF VideoInv, RunningFlag
<1>4. ThreadsShow' /\ BridgeShows'
  BY <1>1 DEF VideoInv, ThreadsShow, BridgeShows
<1>5. OneVideoThread'
  BY <1>1 DEF VideoInv, OneVideoThread, Active
<1> QED
  BY <1>3, <1>4, <1>5 DEF VideoInv

\* Every step keeps what the conference thread relies on.
LEMMA VideoStepInv ==
    ASSUME TypeOK, VideoInv, [Next]_vars
    PROVE  VideoInv'
<1>1. ASSUME NEW m \in Members,
             conference_add_member(m) \/ switch_channel_hangup(m) \/ conference_del_member(m)
             \/ TakeFloor(m) \/ BridgeEnd(m)
      PROVE  VideoInv'
  BY <1>1, VideoFrame
  DEF conference_add_member, switch_channel_hangup, conference_del_member, TakeFloor,
      BridgeEnd, InRoom, ThreadVars
<1>2. CASE Shutdown
  BY <1>2, VideoFrame DEF Shutdown, InRoom, ThreadVars
<1>3. CASE Loop \/ Sweep
  BY <1>3
  DEF Loop, Sweep, InRoom, ThreadVars, VideoInv, RunningFlag, ThreadsShow, BridgeShows,
      OneVideoThread, Active
<1>4. CASE Tick
  <2>1. CASE /\ ~video_bridge /\ video_running # 1
             /\ \E t \in VideoThreads : /\ vpc[t] \in {"none", "ended"}
                                        /\ vpc' = [vpc EXCEPT ![t] = "created"]
             /\ cpc' = "launching" /\ UNCHANGED <<video_running, bridge>>
    <3>1. video_running = 0 /\ cpc = "tick" /\ video_bridge' = video_bridge
      BY <1>4, <2>1, TickCases DEF TypeOK, VideoInv, RunningFlag
    <3>2. \A u \in VideoThreads : ~Active(u)
      BY <3>1 DEF VideoInv, ThreadsShow
    <3>3. PICK t \in VideoThreads : vpc' = [vpc EXCEPT ![t] = "created"]
      BY <2>1
    <3>4. \A u \in VideoThreads : Active(u)' => u = t
      BY <3>2, <3>3 DEF TypeOK, Active
    <3>5. RunningFlag' /\ ThreadsShow' /\ BridgeShows'
      BY <2>1, <3>1 DEF VideoInv, RunningFlag, ThreadsShow, BridgeShows
    <3>6. OneVideoThread'
      BY <3>4 DEF OneVideoThread, Active
    <3> QED
      BY <3>5, <3>6 DEF VideoInv
  <2>2. CASE video_bridge /\ video_running' = 1 /\ cpc' = "loop" /\ vpc' = vpc
    <3>1. video_bridge' = video_bridge
      BY <1>4, TickCases
    <3> QED
      BY <2>2, <3>1
      DEF VideoInv, RunningFlag, ThreadsShow, BridgeShows, OneVideoThread, Active
  <2>3. CASE cpc' \in {"loop", "ending"} /\ UNCHANGED <<video_running, vpc, bridge>>
    <3>1. video_bridge' = video_bridge /\ cpc = "tick"
      BY <1>4, TickCases
    <3> QED
      BY <2>3, <3>1
      DEF VideoInv, RunningFlag, ThreadsShow, BridgeShows, OneVideoThread, Active
  <2> QED
    BY <1>4, <2>1, <2>2, <2>3, TickCases
<1>5. CASE Launched
  BY <1>5
  DEF Launched, InRoom, ThreadVars, VideoInv, RunningFlag, ThreadsShow, BridgeShows,
      OneVideoThread, Active
<1>6. CASE TestVideo \/ StopVideo
  BY <1>6
  DEF TypeOK, TestVideo, StopVideo, InRoom, ThreadVars, VideoInv, RunningFlag, ThreadsShow, BridgeShows,
      OneVideoThread, Active
<1>7. CASE VideoStopped
  BY <1>7
  DEF VideoStopped, InRoom, ThreadVars, VideoInv, RunningFlag, ThreadsShow, BridgeShows,
      OneVideoThread, Active
<1>8. ASSUME NEW t \in VideoThreads, VStart(t) PROVE VideoInv'
  BY <1>8, VideoThreadFrame DEF VStart, VGoto, InRoom, Active, Started
<1>9. ASSUME NEW t \in VideoThreads, VSection(t) \/ VRead(t) \/ VRelay(t) PROVE VideoInv'
  <2>1. /\ Active(t) /\ UNCHANGED <<cpc, video_running, video_bridge, bridge>>
        /\ \E at \in Started : vpc' = [vpc EXCEPT ![t] = at]
    BY <1>9 DEF VSection, VRead, VRelay, VGoto, InRoom, Active, Started
  <2> QED
    BY <2>1, VideoThreadFrame
<1>10. ASSUME NEW t \in VideoThreads, VTop(t) PROVE VideoInv'
  <2>1. /\ Active(t) /\ UNCHANGED <<cpc, video_running, video_bridge, bridge>>
        /\ \E at \in Started : vpc' = [vpc EXCEPT ![t] = at]
    BY <1>10 DEF VTop, VGoto, InRoom, Active, Started
  <2> QED
    BY <2>1, VideoThreadFrame
<1>11. ASSUME NEW t \in VideoThreads, VEnd(t) PROVE VideoInv'
  <2>1. /\ Active(t) /\ UNCHANGED <<cpc, video_bridge, bridge>> /\ video_running' = 0
        /\ vpc' = [vpc EXCEPT ![t] = "ended"]
    BY <1>11 DEF VEnd, VGoto, InRoom, Active, Started
  <2>2. \A u \in VideoThreads : ~Active(u)'
    BY <2>1 DEF TypeOK, VideoInv, OneVideoThread, Active, Started
  <2>3. bridge = {}
    BY <2>1 DEF VideoInv, ThreadsShow, BridgeShows
  <2>4. RunningFlag' /\ ThreadsShow' /\ BridgeShows'
    BY <2>1, <2>2, <2>3 DEF RunningFlag, ThreadsShow, BridgeShows, VideoInv
  <2>5. OneVideoThread'
    BY <2>2 DEF OneVideoThread, Active
  <2> QED
    BY <2>4, <2>5 DEF VideoInv
<1>12. CASE UNCHANGED vars
  BY <1>12, VideoFrame DEF vars
<1> QED
  BY <1>1, <1>2, <1>3, <1>4, <1>5, <1>6, <1>7, <1>8, <1>9, <1>10, <1>11, <1>12
  DEF Next, RoomStep, VideoStep

\* The types and what the conference thread relies on hold throughout.
LEMMA VideoInvariant == Spec => [](TypeOK /\ VideoInv)
<1>1. Init => TypeOK
  <2> SUFFICES ASSUME Init PROVE TypeOK
    OBVIOUS
  <2>1. [id |-> Nobody, has_vid |-> TRUE] \in [id : Members \cup {Nobody}, has_vid : BOOLEAN]
    OBVIOUS
  <2>2. last_member \in [VideoThreads -> [id : Members \cup {Nobody}, has_vid : BOOLEAN]]
    BY <2>1 DEF Init
  <2>3. /\ vpc \in [VideoThreads -> {"none", "created", "ended"} \cup Started]
        /\ session \in [VideoThreads -> Members \cup {Nobody}]
    BY DEF Init
  <2>4. destruct \in BOOLEAN /\ running \in BOOLEAN /\ video_bridge \in VideoBridge
    BY DEF Init
  <2> QED
    BY <2>2, <2>3, <2>4 DEF Init, TypeOK
<1>2. Init => VideoInv
  BY DEF Init, VideoInv, RunningFlag, ThreadsShow, BridgeShows, OneVideoThread, Active, Started
<1>3. TypeOK /\ VideoInv /\ [Next]_vars => (TypeOK /\ VideoInv)'
  BY VideoTypeStep, VideoStepInv
<1> QED
  BY <1>1, <1>2, <1>3, PTL DEF Spec

\* Type correctness of the room, its video threads and its bridge threads.
THEOREM VideoTypeCorrect == Spec => []TypeOK
BY VideoInvariant, PTL

\* launch_conference_video_thread never creates a second conference_video_thread_run
\* beside one that is there, however the thread's own writes of video_running and
\* the launcher's interleave.
THEOREM OneThreadCorrect == Spec => []OneVideoThread
<1>1. VideoInv => OneVideoThread
  BY DEF VideoInv
<1> QED
  BY <1>1, VideoInvariant, PTL

\* conference_thread_run passes its wait for video_running only when no video
\* thread and no bridge thread is left to use the pool.
THEOREM DoneFirstCorrect == Spec => []VideoThreadsDoneFirst
<1>1. TypeOK /\ VideoInv => VideoThreadsDoneFirst
  BY DEF TypeOK, VideoInv, RunningFlag, ThreadsShow, BridgeShows, VideoThreadsDoneFirst, Active,
         Started
<1> QED
  BY <1>1, VideoInvariant, PTL
=============================================================================
