--------------------------- MODULE ConferenceFiles ---------------------------
(***************************************************************************)
(* The files and announcements a conference plays: a queue of nodes, an    *)
(* asynchronous node beside it (music on hold, "play ... async"), and the  *)
(* speech handle all announcements share.                                  *)
(*                                                                         *)
(* conference_play_file and conference_say test the number of callers in   *)
(* one section, open their file without a lock and queue it in another     *)
(* section; the conference thread plays the nodes and, when it winds the   *)
(* room down, closes those it finds.                                       *)
(***************************************************************************)
EXTENDS Integers, Sequences, SequencesExt

CONSTANTS
    Nodes,       \* file nodes; one is used again after it was closed
    Players,     \* threads that play: API commands, members that join or leave
    MaxCallers,  \* bound on conference->count
    Lengths,     \* how many frames a file may have
    Leadin,      \* the frames of silence before a file
    Perpetual,   \* the room has a perpetual_sound
    NoNode       \* the null node

ASSUME FilesAssumption ==
    /\ Lengths \subseteq Nat /\ Leadin \in Nat /\ MaxCallers \in Nat
    /\ Perpetual \in BOOLEAN
    /\ NoNode \notin Nodes

VARIABLES
    fnode,        \* conference->fnode, a list
    async_fnode,  \* conference->async_fnode
    node,         \* what every node is
    count,        \* conference->count
    room,         \* "running", "swept" by the wind-down, or "ended"
    pc,           \* where each player is
    mine,         \* the node a player has opened
    sh            \* conference->sh is set

vars == <<fnode, async_fnode, node, count, room, pc, mine, sh>>

NodeStates == {"free", "opened", "queued"}

\* Every variable has its type.
TypeOK ==
    /\ fnode \in Seq(Nodes)
    /\ async_fnode \in Nodes \cup {NoNode}
    /\ node \in [Nodes -> [state : NodeStates, left : Nat, leadin : 0..Leadin,
                           done : BOOLEAN]]
    /\ count \in 0..MaxCallers
    /\ room \in {"running", "swept", "ended"}
    /\ pc \in [Players -> {"idle", "open", "queue", "async", "say", "opening", "queue_say"}]
    /\ mine \in [Players -> Nodes \cup {NoNode}]
    /\ sh \in BOOLEAN

Blank == [state |-> "free", left |-> 0, leadin |-> 0, done |-> FALSE]

Init ==
    /\ fnode = <<>> /\ async_fnode = NoNode
    /\ node = [n \in Nodes |-> Blank]
    /\ count = 0 /\ room = "running"
    /\ pc = [p \in Players |-> "idle"]
    /\ mine = [p \in Players |-> NoNode]
    /\ sh = FALSE

Goto(p, at) == pc' = [pc EXCEPT ![p] = at]

\* A file of some length, just opened, or speech.
Fresh == {[state |-> "opened", left |-> n, leadin |-> Leadin, done |-> FALSE] : n \in Lengths}

Closed(closing) == [n \in Nodes |-> IF n \in closing THEN Blank ELSE node[n]]

\* Mark the nodes done.
Done(marked) == [n \in Nodes |-> [node[n] EXCEPT !.done = @ \/ n \in marked]]

(***************************************************************************)
(* Callers come and go.                                                    *)
(***************************************************************************)
Join == /\ room # "ended" /\ count < MaxCallers
        /\ count' = count + 1
        /\ UNCHANGED <<fnode, async_fnode, node, room, pc, mine, sh>>

Leave == /\ count > 0
         /\ count' = count - 1
         /\ UNCHANGED <<fnode, async_fnode, node, room, pc, mine, sh>>

(***************************************************************************)
(* conference_play_file, conference_say.                                   *)
(***************************************************************************)
\* Nothing is played in an empty conference.
Play(p) ==
    /\ pc[p] = "idle" /\ room # "ended"
    /\ count > 0
    /\ \E at \in {"open", "say"} : Goto(p, at)
    /\ UNCHANGED <<fnode, async_fnode, node, count, room, mine, sh>>

\* switch_core_file_open fails or opens the file.
Open(p) ==
    /\ pc[p] = "open"
    /\ \/ /\ Goto(p, "idle")
          /\ UNCHANGED <<node, mine>>
       \/ \E n \in Nodes, f \in Fresh, at \in {"queue", "async"} :
            /\ node[n].state = "free"
            /\ node' = [node EXCEPT ![n] = f]
            /\ mine' = [mine EXCEPT ![p] = n]
            /\ Goto(p, at)
    /\ UNCHANGED <<fnode, async_fnode, count, room, sh>>

Queue(p) ==
    /\ pc[p] = "queue"
    /\ fnode' = Append(fnode, mine[p])
    /\ node' = [node EXCEPT ![mine[p]].state = "queued"]
    /\ mine' = [mine EXCEPT ![p] = NoNode]
    /\ Goto(p, "idle")
    /\ UNCHANGED <<async_fnode, count, room, sh>>

\* The node that played asynchronously before is closed.
Replaced(n) == [Closed({async_fnode} \ {NoNode}) EXCEPT ![n] = [node[n] EXCEPT !.state = "queued"]]

QueueAsync(p) ==
    /\ pc[p] = "async"
    /\ async_fnode' = mine[p]
    /\ node' = Replaced(mine[p])
    /\ mine' = [mine EXCEPT ![p] = NoNode]
    /\ Goto(p, "idle")
    /\ UNCHANGED <<fnode, count, room, sh>>

\* conference_say opens the speech handle when conference->sh is not set, both
\* without a lock: two announcements that overlap may both open it.
Say(p) ==
    /\ pc[p] = "say"
    /\ Goto(p, IF sh THEN "queue_say" ELSE "opening")
    /\ UNCHANGED <<fnode, async_fnode, node, count, room, mine, sh>>

OpenSpeech(p) ==
    /\ pc[p] = "opening"
    /\ \/ sh' = TRUE /\ Goto(p, "queue_say")
       \/ UNCHANGED sh /\ Goto(p, "idle")
    /\ UNCHANGED <<fnode, async_fnode, node, count, room, mine>>

QueueSpeech(p) ==
    /\ pc[p] = "queue_say"
    /\ \E n \in Nodes, f \in Fresh :
         /\ node[n].state = "free"
         /\ node' = [node EXCEPT ![n] = [f EXCEPT !.state = "queued"]]
         /\ fnode' = Append(fnode, n)
    /\ Goto(p, "idle")
    /\ UNCHANGED <<async_fnode, count, room, mine, sh>>

(***************************************************************************)
(* conference_stop_file: "stop all", "stop async", "stop current".         *)
(***************************************************************************)
Marked(stop) ==
    CASE stop = "all"     -> ToSet(fnode) \cup ({async_fnode} \ {NoNode})
      [] stop = "async"   -> {async_fnode} \ {NoNode}
      [] stop = "current" -> IF fnode = <<>> THEN {} ELSE {Head(fnode)}

conference_stop_file ==
    /\ room # "ended"
    /\ \E stop \in {"all", "async", "current"} :
         Marked(stop) # {} /\ node' = Done(Marked(stop))
    /\ UNCHANGED <<fnode, async_fnode, count, room, pc, mine, sh>>

(***************************************************************************)
(* The conference thread.                                                  *)
(***************************************************************************)
\* Mutant: a file is read beyond its end.
PlayedOn(r) == IF r.leadin > 0 THEN [r EXCEPT !.leadin = @ - 1]
               ELSE [r EXCEPT !.left = @ - 1, !.done = @ \/ r.left < 0]

\* One frame of a node: lead-in, data, or the end of the file.
Played(r) ==
    IF r.leadin > 0 THEN [r EXCEPT !.leadin = @ - 1]
    ELSE IF r.done THEN r
    ELSE IF r.left > 0 THEN [r EXCEPT !.left = @ - 1]
    ELSE [r EXCEPT !.done = TRUE]

\* Mutant: a node is only removed at the end of its file.
RemovedAtEnd(r) == r.done /\ r.left = 0 /\ r.leadin = 0
Removed(r) == r.done

\* The head of the queue and the asynchronous node are played; those that are
\* done are closed.
PlayFrame(nodes, async) ==
    LET head    == IF fnode = <<>> THEN {} ELSE {Head(fnode)}
        playing == head \cup ({async} \ {NoNode})
        heard   == [n \in playing |-> Played(nodes[n])]
        removed == {n \in playing : Removed(heard[n])}
    IN  /\ playing # {}
        /\ node' = [n \in Nodes |-> IF n \in removed THEN Blank
                                    ELSE IF n \in playing THEN heard[n] ELSE nodes[n]]
        /\ async_fnode' = IF async \in removed THEN NoNode ELSE async
        /\ fnode' = IF head \subseteq removed /\ head # {} THEN Tail(fnode) ELSE fnode

\* The perpetual sound starts over when nothing plays asynchronously and
\* somebody is there to hear it, unless it cannot be opened.
Tick ==
    /\ room = "running"
    /\ \/ PlayFrame(node, async_fnode)
       \/ /\ Perpetual /\ async_fnode = NoNode /\ count > 0
          /\ \E n \in Nodes, f \in Fresh :
               /\ node[n].state = "free"
               /\ PlayFrame([node EXCEPT ![n] = [f EXCEPT !.state = "queued"]], n)
    /\ UNCHANGED <<count, room, pc, mine, sh>>

\* Mutant: the wind-down closes the nodes and leaves them in the queue.
WindDownLinked ==
    /\ room = "running"
    /\ node' = Closed(ToSet(fnode) \cup ({async_fnode} \ {NoNode}))
    /\ async_fnode' = NoNode
    /\ room' = "swept"
    /\ UNCHANGED <<fnode, count, pc, mine, sh>>

\* The wind-down: every file is stopped, every node closed.
WindDown ==
    /\ room = "running"
    /\ node' = Closed(ToSet(fnode) \cup ({async_fnode} \ {NoNode}))
    /\ fnode' = <<>> /\ async_fnode' = NoNode
    /\ room' = "swept"
    /\ UNCHANGED <<count, pc, mine, sh>>

\* Everybody is out: the speech handle is closed and the pool destroyed.
End ==
    /\ room = "swept" /\ count = 0
    /\ \A p \in Players : pc[p] = "idle"
    /\ room' = "ended"
    /\ sh' = FALSE
    /\ UNCHANGED <<fnode, async_fnode, node, count, pc, mine>>

PlayerStep(p) == \/ Open(p) \/ Queue(p) \/ QueueAsync(p)
                 \/ Say(p) \/ OpenSpeech(p) \/ QueueSpeech(p)

Next ==
    \/ Join \/ Leave \/ conference_stop_file \/ Tick \/ WindDown \/ End
    \/ \E p \in Players : Play(p) \/ PlayerStep(p)

Spec == Init /\ [][Next]_vars

\* The conference thread ticks.
FairSpec == Spec /\ WF_vars(Tick)

(***************************************************************************)
(* Properties.                                                             *)
(***************************************************************************)
\* What is in the queue or plays asynchronously is open, in one place only and
\* in nobody's hands: no node is closed twice or read after it was closed, when
\* a player replaces it, a stop command and the end of its file meet, or the
\* room winds down.
QueuedNodesAreOpen ==
    /\ IsInjective(fnode) /\ async_fnode \notin ToSet(fnode)
    /\ \A n \in Nodes :
         (node[n].state = "queued") <=> (n \in ToSet(fnode) \cup {async_fnode})
    /\ \A p \in Players : mine[p] # NoNode => node[mine[p]].state = "opened"

\* A node that is queued in a running room leaves the queue, whether its file
\* ends, somebody stops it in its lead-in, or the room ends.
FilesFinish ==
    \A n \in Nodes : (room = "running" /\ node[n].state = "queued")
                         ~> (node[n].state # "queued" \/ room # "running")
=============================================================================
