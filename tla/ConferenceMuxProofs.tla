------------------------- MODULE ConferenceMuxProofs -------------------------
(***************************************************************************)
(* What the mux loop plays and what it sends.                              *)
(*                                                                         *)
(* First the queue of files and announcements, for any number of players   *)
(* and nodes, files of any length and any bound on the callers (Spec, of   *)
(* ConferenceFiles).  Then a tick of the mixing, for any number of         *)
(* members, samples and relationships (MixSpec, of ConferenceMix).         *)
(***************************************************************************)
EXTENDS ConferenceFiles, ConferenceMix, FiniteSetTheorems, SequenceTheorems, TLAPS

(***************************************************************************)
(* The queue.                                                              *)
(***************************************************************************)
NodeRec == [state : NodeStates, left : Nat, leadin : 0..Leadin, done : BOOLEAN]

\* A player has a node in its hands exactly between its opening and its queueing,
\* and no two players have the same.
Handed ==
    /\ \A p \in Players : pc[p] \in {"queue", "async"} <=> mine[p] # NoNode
    /\ \A p, q \in Players : mine[p] = mine[q] /\ mine[p] # NoNode => p = q

FilesInv == Handed /\ QueuedNodesAreOpen

(***************************************************************************)
(* Sequences without repetitions.                                          *)
(***************************************************************************)
\* The elements of a sequence.
LEMMA Elements ==
    ASSUME NEW S, NEW s \in Seq(S)
    PROVE  /\ ToSet(s) \subseteq S
           /\ \A x : x \in ToSet(s) <=> \E i \in 1..Len(s) : s[i] = x
<1>1. DOMAIN s = 1..Len(s) /\ \A i \in 1..Len(s) : s[i] \in S
  BY LenProperties, ElementOfSeq
<1> QED
  BY <1>1 DEF ToSet

\* A new node at the end of the queue.
LEMMA AppendDistinct ==
    ASSUME NEW S, NEW s \in Seq(S), IsInjective(s), NEW e \in S, e \notin ToSet(s)
    PROVE  /\ Append(s, e) \in Seq(S) /\ IsInjective(Append(s, e))
           /\ \A x : x \in ToSet(Append(s, e)) <=> x \in ToSet(s) \/ x = e
<1> DEFINE n == Len(s)
           t == Append(s, e)
<1>0. n \in Nat /\ DOMAIN s = 1..n
  BY LenProperties
<1>1. /\ t \in Seq(S) /\ Len(t) = n + 1
      /\ \A i \in 1..n : t[i] = s[i]
      /\ t[n + 1] = e
  BY AppendProperties
<1>2. DOMAIN t = 1..(n + 1)
  BY <1>1, LenProperties
<1> HIDE DEF t
<1>3. \A x : x \in ToSet(t) <=> \E i \in 1..(n + 1) : t[i] = x
  BY <1>1, Elements
<1>4. \A x : x \in ToSet(s) <=> \E i \in 1..n : s[i] = x
  BY Elements
<1> HIDE DEF n
<1>5. \A i \in 1..(n + 1) : i \in 1..n \/ i = n + 1
  BY <1>0
<1>6. \A i \in 1..n : i \in 1..(n + 1)
  BY <1>0
<1>7. n + 1 \in 1..(n + 1)
  BY <1>0
<1>8. \A x : x \in ToSet(t) <=> x \in ToSet(s) \/ x = e
  <2> TAKE x
  <2>1. ASSUME x \in ToSet(t) PROVE x \in ToSet(s) \/ x = e
    BY <2>1, <1>1, <1>3, <1>4, <1>5
  <2>2. ASSUME x \in ToSet(s) PROVE x \in ToSet(t)
    <3>1. PICK i \in 1..n : s[i] = x
      BY <2>2, <1>4
    <3> QED
      BY <3>1, <1>1, <1>3, <1>6
  <2>3. e \in ToSet(t)
    BY <1>1, <1>3, <1>7
  <2> QED
    BY <2>1, <2>2, <2>3
<1>9. IsInjective(t)
  <2> SUFFICES ASSUME NEW i \in 1..(n + 1), NEW j \in 1..(n + 1), t[i] = t[j] PROVE i = j
    BY <1>2 DEF IsInjective
  <2>1. \A a, b \in 1..n : s[a] = s[b] => a = b
    BY <1>0 DEF IsInjective
  <2>2. \A a \in 1..n : s[a] # e
    BY <1>4
  <2> QED
    BY <1>1, <1>5, <2>1, <2>2
<1> QED
  BY <1>1, <1>8, <1>9 DEF t

\* The queue without its head.
LEMMA TailDistinct ==
    ASSUME NEW S, NEW s \in Seq(S), s # <<>>, IsInjective(s)
    PROVE  /\ Head(s) \in S /\ Head(s) \in ToSet(s)
           /\ Tail(s) \in Seq(S) /\ IsInjective(Tail(s))
           /\ \A x : x \in ToSet(Tail(s)) <=> x \in ToSet(s) /\ x # Head(s)
<1> DEFINE n == Len(s)
           t == Tail(s)
<1>0. n \in Nat /\ n # 0 /\ DOMAIN s = 1..n
  BY LenProperties, EmptySeq
<1>1. /\ Head(s) = s[1] /\ Head(s) \in S
      /\ t \in Seq(S) /\ Len(t) = n - 1
      /\ \A i \in 1..(n - 1) : t[i] = s[i + 1]
  BY <1>0, HeadTailProperties
<1>2. DOMAIN t = 1..(n - 1)
  BY <1>1, LenProperties
<1> HIDE DEF t
<1>3. \A x : x \in ToSet(t) <=> \E i \in 1..(n - 1) : t[i] = x
  BY <1>1, Elements
<1>4. \A x : x \in ToSet(s) <=> \E i \in 1..n : s[i] = x
  BY Elements
<1> HIDE DEF n
<1>5. \A a, b \in 1..n : s[a] = s[b] => a = b
  BY <1>0 DEF IsInjective
<1>6. Head(s) \in ToSet(s)
  BY <1>0, <1>1, <1>4
<1>7. IsInjective(t)
  <2> SUFFICES ASSUME NEW i \in 1..(n - 1), NEW j \in 1..(n - 1), t[i] = t[j] PROVE i = j
    BY <1>2 DEF IsInjective
  <2>1. i + 1 \in 1..n /\ j + 1 \in 1..n /\ s[i + 1] = s[j + 1]
    BY <1>0, <1>1
  <2>2. i + 1 = j + 1
    BY <2>1, <1>5
  <2> QED
    BY <2>2
<1>8. \A x : x \in ToSet(t) <=> x \in ToSet(s) /\ x # s[1]
  <2> TAKE x
  <2>1. ASSUME x \in ToSet(t) PROVE x \in ToSet(s) /\ x # s[1]
    <3>1. PICK i \in 1..(n - 1) : t[i] = x
      BY <2>1, <1>3
    <3>2. i + 1 \in 1..n /\ s[i + 1] = x /\ 1 \in 1..n /\ i + 1 # 1
      BY <3>1, <1>0, <1>1
    <3> QED
      BY <3>2, <1>4, <1>5
  <2>2. ASSUME x \in ToSet(s), x # s[1] PROVE x \in ToSet(t)
    <3>1. PICK i \in 1..n : s[i] = x
      BY <2>2, <1>4
    <3>2. i - 1 \in 1..(n - 1) /\ (i - 1) + 1 = i
      BY <3>1, <2>2, <1>0
    <3>3. t[i - 1] = x
      BY <3>1, <3>2, <1>1
    <3> QED
      BY <3>2, <3>3, <1>3
  <2> QED
    BY <2>1, <2>2
<1> QED
  BY <1>1, <1>6, <1>7, <1>8 DEF t

(***************************************************************************)
(* Nodes.                                                                  *)
(***************************************************************************)
\* A closed node and a node just opened.
LEMMA NewNodes ==
    /\ Blank \in NodeRec /\ Blank.state = "free"
    /\ \A f \in Fresh : /\ f \in NodeRec /\ f.state = "opened"
                        /\ [f EXCEPT !.state = "queued"] \in NodeRec
                        /\ [f EXCEPT !.state = "queued"].state = "queued"
<1>1. Leadin \in Nat /\ Lengths \subseteq Nat
  BY FilesAssumption DEF FilesAssumption
<1>2. Blank \in NodeRec /\ Blank.state = "free"
  BY <1>1 DEF Blank, NodeRec, NodeStates
<1>3. ASSUME NEW l \in Lengths
      PROVE  [state |-> "opened", left |-> l, leadin |-> Leadin, done |-> FALSE] \in NodeRec
  BY <1>1 DEF NodeRec, NodeStates
<1>4. ASSUME NEW f \in NodeRec
      PROVE  /\ [f EXCEPT !.state = "queued"] \in NodeRec
             /\ [f EXCEPT !.state = "queued"].state = "queued"
  BY DEF NodeRec, NodeStates
<1> QED
  BY <1>2, <1>3, <1>4 DEF Fresh

\* A node that is queued, that is marked done, and that plays one frame.
LEMMA NodeChanges ==
    ASSUME NEW r \in NodeRec
    PROVE  /\ [r EXCEPT !.state = "queued"] \in NodeRec
           /\ [r EXCEPT !.state = "queued"].state = "queued"
           /\ \A b \in BOOLEAN : /\ [r EXCEPT !.done = b] \in NodeRec
                                 /\ [r EXCEPT !.done = b].state = r.state
           /\ Played(r) \in NodeRec /\ Played(r).state = r.state
<1>0. r.left \in Nat /\ r.leadin \in 0..Leadin /\ r.done \in BOOLEAN /\ Leadin \in Nat
  BY FilesAssumption DEF FilesAssumption, NodeRec
<1>1. /\ [r EXCEPT !.state = "queued"] \in NodeRec
      /\ [r EXCEPT !.state = "queued"].state = "queued"
  BY DEF NodeRec, NodeStates
<1>2. ASSUME NEW b \in BOOLEAN
      PROVE  [r EXCEPT !.done = b] \in NodeRec /\ [r EXCEPT !.done = b].state = r.state
  BY DEF NodeRec
<1>3. ASSUME r.leadin > 0
      PROVE  /\ [r EXCEPT !.leadin = @ - 1] \in NodeRec
             /\ [r EXCEPT !.leadin = @ - 1].state = r.state
  <2>1. r.leadin - 1 \in 0..Leadin
    BY <1>0, <1>3
  <2> QED
    BY <2>1 DEF NodeRec
<1>4. ASSUME r.left > 0
      PROVE  /\ [r EXCEPT !.left = @ - 1] \in NodeRec
             /\ [r EXCEPT !.left = @ - 1].state = r.state
  <2>1. r.left - 1 \in Nat
    BY <1>0, <1>4
  <2> QED
    BY <2>1 DEF NodeRec
<1>5. [r EXCEPT !.done = TRUE] \in NodeRec /\ [r EXCEPT !.done = TRUE].state = r.state
  BY <1>2
<1>6. Played(r) \in NodeRec /\ Played(r).state = r.state
  BY <1>3, <1>4, <1>5 DEF Played
<1> QED
  BY <1>1, <1>2, <1>6

\* A set of nodes that are closed, or marked.
LEMMA CloseAndMark ==
    ASSUME node \in [Nodes -> NodeRec], NEW ns
    PROVE  /\ Closed(ns) \in [Nodes -> NodeRec]
           /\ \A n \in Nodes : Closed(ns)[n].state = IF n \in ns THEN "free" ELSE node[n].state
           /\ Done(ns) \in [Nodes -> NodeRec]
           /\ \A n \in Nodes : Done(ns)[n].state = node[n].state
<1>1. \A n \in Nodes : node[n] \in NodeRec
  OBVIOUS
<1>2. \A n \in Nodes : (node[n].done \/ n \in ns) \in BOOLEAN
  OBVIOUS
<1>3. ASSUME NEW n \in Nodes
      PROVE  /\ [node[n] EXCEPT !.done = (node[n].done \/ n \in ns)] \in NodeRec
             /\ [node[n] EXCEPT !.done = (node[n].done \/ n \in ns)].state = node[n].state
  BY <1>1, <1>2, NodeChanges
<1>4. Closed(ns) \in [Nodes -> NodeRec]
  BY <1>1, NewNodes DEF Closed
<1>5. \A n \in Nodes : Closed(ns)[n].state = IF n \in ns THEN "free" ELSE node[n].state
  BY NewNodes DEF Closed
<1>6. Done(ns) \in [Nodes -> NodeRec]
  BY <1>3 DEF Done
<1>7. \A n \in Nodes : Done(ns)[n].state = node[n].state
  BY <1>3 DEF Done
<1> QED
  BY <1>4, <1>5, <1>6, <1>7

(***************************************************************************)
(* The conference thread plays one frame.                                  *)
(***************************************************************************)
\* nodes and beside are the nodes and the asynchronous one when the frame is
\* played: the perpetual sound may have been started just before.
InOnePlace(queue, beside, nodes) ==
    /\ IsInjective(queue) /\ beside \notin ToSet(queue)
    /\ \A n \in Nodes : (nodes[n].state = "queued") <=> (n \in ToSet(queue) \cup {beside})

\* The nodes that end are closed and leave their place; those in the hands of
\* players are left alone.
LEMMA PlayFrameEffect ==
    ASSUME fnode \in Seq(Nodes), NEW nodes \in [Nodes -> NodeRec],
           NEW beside \in Nodes \cup {NoNode},
           InOnePlace(fnode, beside, nodes), PlayFrame(nodes, beside)
    PROVE  /\ fnode' \in Seq(Nodes) /\ async_fnode' \in Nodes \cup {NoNode}
           /\ node' \in [Nodes -> NodeRec]
           /\ InOnePlace(fnode', async_fnode', node')
           /\ \A n \in Nodes : nodes[n].state # "queued" => node'[n] = nodes[n]
<1> DEFINE head    == IF fnode = <<>> THEN {} ELSE {Head(fnode)}
           playing == head \cup ({beside} \ {NoNode})
           heard   == [n \in playing |-> Played(nodes[n])]
           removed == {n \in playing : Removed(heard[n])}
<1>a. NoNode \notin Nodes
  BY FilesAssumption DEF FilesAssumption
<1>b. IsInjective(fnode) /\ beside \notin ToSet(fnode) /\ ToSet(fnode) \subseteq Nodes
  BY Elements DEF InOnePlace
<1>0. /\ node' = [n \in Nodes |-> IF n \in removed THEN Blank
                                  ELSE IF n \in playing THEN heard[n] ELSE nodes[n]]
      /\ async_fnode' = IF beside \in removed THEN NoNode ELSE beside
      /\ fnode' = IF head \subseteq removed /\ head # {} THEN Tail(fnode) ELSE fnode
  BY DEF PlayFrame
<1>1. /\ head \subseteq ToSet(fnode)
      /\ fnode # <<>> => Head(fnode) \in ToSet(fnode)
  BY <1>b, TailDistinct
<1>2. playing \subseteq Nodes /\ \A n \in playing : nodes[n].state = "queued"
  BY <1>1, <1>b DEF InOnePlace
<1>3. \A n \in playing : heard[n] \in NodeRec /\ heard[n].state = "queued"
  BY <1>2, NodeChanges
<1>4. removed \subseteq playing
  OBVIOUS
<1> HIDE DEF playing, heard, removed
<1>5. node' \in [Nodes -> NodeRec]
  BY <1>0, <1>3, NewNodes
<1>6. \A n \in Nodes : (node'[n].state = "queued") <=> (nodes[n].state = "queued" /\ n \notin removed)
  BY <1>0, <1>2, <1>3, <1>4, NewNodes
<1>7. \A n \in Nodes : nodes[n].state # "queued" => node'[n] = nodes[n]
  BY <1>0, <1>2, <1>4
<1>8. \A n \in removed : n \in head \/ n = beside
  BY <1>4 DEF playing
<1>9. NoNode \notin removed /\ NoNode \notin ToSet(fnode)
  BY <1>a, <1>b, <1>2, <1>4
<1>10. /\ fnode' \in Seq(Nodes) /\ IsInjective(fnode')
       /\ \A x : x \in ToSet(fnode') <=> x \in ToSet(fnode) /\ x \notin removed
  <2>1. CASE head \subseteq removed /\ head # {}
    <3>1. fnode # <<>> /\ fnode' = Tail(fnode) /\ Head(fnode) \in removed
      BY <1>0, <2>1
    <3>2. \A x \in removed : x \in ToSet(fnode) => x = Head(fnode)
      BY <1>8, <1>b, <3>1
    <3>3. /\ Tail(fnode) \in Seq(Nodes) /\ IsInjective(Tail(fnode))
          /\ \A x : x \in ToSet(Tail(fnode)) <=> x \in ToSet(fnode) /\ x # Head(fnode)
      BY <3>1, <1>b, TailDistinct
    <3> QED
      BY <3>1, <3>2, <3>3
  <2>2. CASE ~(head \subseteq removed /\ head # {})
    <3>1. fnode' = fnode
      BY <1>0, <2>2
    <3>2. \A x \in removed : x \notin head
      BY <2>2
    <3>3. \A x \in removed : x \notin ToSet(fnode)
      BY <3>2, <1>8, <1>b
    <3> QED
      BY <3>1, <3>3, <1>b
  <2> QED
    BY <2>1, <2>2
<1>11. async_fnode' \in Nodes \cup {NoNode}
  BY <1>0
<1>12. async_fnode' \notin ToSet(fnode')
  BY <1>0, <1>9, <1>10, <1>b
<1>13. \A n \in Nodes : (n = async_fnode') <=> (n = beside /\ n \notin removed)
  BY <1>0, <1>a
<1>14. \A n \in Nodes : (nodes[n].state = "queued") <=> (n \in ToSet(fnode) \/ n = beside)
  BY DEF InOnePlace
<1>15. \A n \in Nodes : (node'[n].state = "queued") <=> (n \in ToSet(fnode') \cup {async_fnode'})
  BY <1>6, <1>10, <1>13, <1>14
<1> QED
  BY <1>5, <1>7, <1>10, <1>11, <1>12, <1>15 DEF InOnePlace

\* The invariant in terms of the place of each node.
LEMMA QueueUnfolded ==
    /\ QueuedNodesAreOpen <=>
         /\ InOnePlace(fnode, async_fnode, node)
         /\ \A p \in Players : mine[p] # NoNode => node[mine[p]].state = "opened"
    /\ QueuedNodesAreOpen' <=>
         /\ InOnePlace(fnode', async_fnode', node')
         /\ \A p \in Players : mine'[p] # NoNode => node'[mine'[p]].state = "opened"
  BY DEF QueuedNodesAreOpen, InOnePlace

\* A step that leaves the queue and the players' nodes alone.
LEMMA FilesFrame ==
    ASSUME TypeOK, FilesInv, UNCHANGED <<fnode, async_fnode, mine>>,
           \A n \in Nodes : node'[n].state = node[n].state,
           \A p \in Players : pc'[p] \in {"queue", "async"} <=> pc[p] \in {"queue", "async"}
    PROVE  FilesInv'
<1>1. Handed'
  BY DEF FilesInv, Handed
<1>2. QueuedNodesAreOpen'
  BY QueueUnfolded DEF TypeOK, FilesInv, InOnePlace
<1> QED
  BY <1>1, <1>2 DEF FilesInv

PlayerPC == {"idle", "open", "queue", "async", "say", "opening", "queue_say"}

\* The types of all but the nodes and the queue.
LEMMA FilesTypes ==
    /\ TypeOK <=> /\ fnode \in Seq(Nodes) /\ async_fnode \in Nodes \cup {NoNode}
                  /\ node \in [Nodes -> NodeRec]
                  /\ count \in 0..MaxCallers /\ room \in {"running", "swept", "ended"}
                  /\ pc \in [Players -> PlayerPC]
                  /\ mine \in [Players -> Nodes \cup {NoNode}] /\ sh \in BOOLEAN
    /\ TypeOK' <=> /\ fnode' \in Seq(Nodes) /\ async_fnode' \in Nodes \cup {NoNode}
                   /\ node' \in [Nodes -> NodeRec]
                   /\ count' \in 0..MaxCallers /\ room' \in {"running", "swept", "ended"}
                   /\ pc' \in [Players -> PlayerPC]
                   /\ mine' \in [Players -> Nodes \cup {NoNode}] /\ sh' \in BOOLEAN
  BY DEF TypeOK, NodeRec, PlayerPC

\* A file or a speech that is queued, opened by the player p or as it is queued.
LEMMA QueueEffect ==
    ASSUME TypeOK, FilesInv, NEW n \in Nodes, node[n].state \in {"free", "opened"},
           NEW r \in NodeRec, r.state = "queued",
           fnode' = Append(fnode, n), node' = [node EXCEPT ![n] = r],
           async_fnode' = async_fnode
    PROVE  /\ fnode' \in Seq(Nodes) /\ node' \in [Nodes -> NodeRec]
           /\ InOnePlace(fnode', async_fnode', node')
           /\ \A k \in Nodes \ {n} : node'[k] = node[k]
<1>0. fnode \in Seq(Nodes) /\ node \in [Nodes -> NodeRec]
  BY FilesTypes
<1>1. IsInjective(fnode) /\ async_fnode \notin ToSet(fnode)
  BY DEF FilesInv, QueuedNodesAreOpen
<1>2. n \notin ToSet(fnode) /\ n # async_fnode
  BY DEF FilesInv, QueuedNodesAreOpen
<1>3. /\ Append(fnode, n) \in Seq(Nodes) /\ IsInjective(Append(fnode, n))
      /\ \A x : x \in ToSet(Append(fnode, n)) <=> x \in ToSet(fnode) \/ x = n
  BY <1>0, <1>1, <1>2, AppendDistinct
<1>4. \A k \in Nodes : (node[k].state = "queued") <=> (k \in ToSet(fnode) \/ k = async_fnode)
  BY DEF FilesInv, QueuedNodesAreOpen
<1>5. node'[n] = r /\ \A k \in Nodes \ {n} : node'[k] = node[k]
  BY <1>0
<1>6. \A k \in Nodes : (node'[k].state = "queued") <=> (k \in ToSet(fnode') \cup {async_fnode'})
  BY <1>3, <1>4, <1>5
<1> QED
  BY <1>0, <1>1, <1>2, <1>3, <1>5, <1>6 DEF InOnePlace

\* Every step keeps the types, the places of the nodes and the players' hands.
LEMMA FilesStep ==
    ASSUME TypeOK, FilesInv, [Next]_vars
    PROVE  TypeOK' /\ FilesInv'
<1>0. /\ NoNode \notin Nodes /\ MaxCallers \in Nat
  BY FilesAssumption DEF FilesAssumption
<1>t. /\ fnode \in Seq(Nodes) /\ async_fnode \in Nodes \cup {NoNode}
      /\ node \in [Nodes -> NodeRec]
      /\ count \in 0..MaxCallers /\ room \in {"running", "swept", "ended"}
      /\ pc \in [Players -> PlayerPC]
      /\ mine \in [Players -> Nodes \cup {NoNode}] /\ sh \in BOOLEAN
  BY FilesTypes
<1>q. InOnePlace(fnode, async_fnode, node)
  BY QueueUnfolded DEF FilesInv
<1>m. \A p \in Players : mine[p] # NoNode => mine[p] \in Nodes /\ node[mine[p]].state = "opened"
  BY <1>t DEF FilesInv, QueuedNodesAreOpen
<1>h. /\ \A p \in Players : pc[p] \in {"queue", "async"} <=> mine[p] # NoNode
      /\ \A p, q \in Players : mine[p] = mine[q] /\ mine[p] # NoNode => p = q
  BY DEF FilesInv, Handed
<1>1. ASSUME Join \/ Leave PROVE TypeOK' /\ FilesInv'
  <2>1. count' \in 0..MaxCallers
    BY <1>0, <1>1, <1>t DEF Join, Leave
  <2>2. UNCHANGED <<fnode, async_fnode, node, room, pc, mine, sh>>
    BY <1>1 DEF Join, Leave
  <2> QED
    BY <1>t, <2>1, <2>2, FilesTypes, FilesFrame
<1>2. ASSUME NEW p \in Players, Play(p) PROVE TypeOK' /\ FilesInv'
  <2>1. UNCHANGED <<fnode, async_fnode, node, count, room, mine, sh>>
    BY <1>2 DEF Play
  <2>2. /\ pc' \in [Players -> PlayerPC]
        /\ \A q \in Players : pc'[q] \in {"queue", "async"} <=> pc[q] \in {"queue", "async"}
    BY <1>2, <1>t DEF Play, Goto, PlayerPC
  <2> QED
    BY <1>t, <2>1, <2>2, FilesTypes, FilesFrame
<1>3. ASSUME NEW p \in Players, Open(p) PROVE TypeOK' /\ FilesInv'
  <2>0. UNCHANGED <<fnode, async_fnode, count, room, sh>> /\ pc[p] = "open"
    BY <1>3 DEF Open
  <2>1. CASE Goto(p, "idle") /\ UNCHANGED <<node, mine>>
    <3>1. /\ pc' \in [Players -> PlayerPC]
          /\ \A q \in Players : pc'[q] \in {"queue", "async"} <=> pc[q] \in {"queue", "async"}
      BY <2>0, <2>1, <1>t DEF Goto, PlayerPC
    <3> QED
      BY <1>t, <2>0, <2>1, <3>1, FilesTypes, FilesFrame
  <2>2. ASSUME NEW n \in Nodes, NEW f \in Fresh, NEW at \in {"queue", "async"},
               node[n].state = "free", node' = [node EXCEPT ![n] = f],
               mine' = [mine EXCEPT ![p] = n], Goto(p, at)
        PROVE  TypeOK' /\ FilesInv'
    <3>1. f \in NodeRec /\ f.state = "opened"
      BY NewNodes
    <3>2. /\ node' \in [Nodes -> NodeRec] /\ node'[n] = f
          /\ \A k \in Nodes \ {n} : node'[k] = node[k]
      BY <3>1, <2>2, <1>t
    <3>3. /\ mine' \in [Players -> Nodes \cup {NoNode}] /\ mine'[p] = n
          /\ \A q \in Players \ {p} : mine'[q] = mine[q] /\ mine[q] # n
      BY <2>2, <1>0, <1>t, <1>m
    <3>4. /\ pc' \in [Players -> PlayerPC] /\ pc'[p] = at
          /\ \A q \in Players \ {p} : pc'[q] = pc[q]
      BY <2>2, <1>t DEF Goto, PlayerPC
    <3>5. InOnePlace(fnode', async_fnode', node')
      BY <1>q, <2>0, <2>2, <3>1, <3>2 DEF InOnePlace
    <3>6. \A q \in Players : mine'[q] # NoNode => node'[mine'[q]].state = "opened"
      BY <1>m, <3>1, <3>2, <3>3
    <3>7. Handed'
      BY <1>0, <1>h, <3>3, <3>4 DEF Handed
    <3> QED
      BY <1>t, <2>0, <3>2, <3>3, <3>4, <3>5, <3>6, <3>7, FilesTypes, QueueUnfolded DEF FilesInv
  <2> QED
    BY <1>3, <2>1, <2>2 DEF Open
<1>4. ASSUME NEW p \in Players, Queue(p) PROVE TypeOK' /\ FilesInv'
  <2>0. UNCHANGED <<async_fnode, count, room, sh>> /\ pc[p] = "queue"
    BY <1>4 DEF Queue
  <2>1. mine[p] \in Nodes /\ node[mine[p]].state = "opened" /\ node[mine[p]] \in NodeRec
    BY <2>0, <1>h, <1>m, <1>t
  <2> DEFINE n == mine[p]
             r == [node[n] EXCEPT !.state = "queued"]
  <2>2. r \in NodeRec /\ r.state = "queued"
    BY <2>1, NodeChanges
  <2>3. node' = [node EXCEPT ![n] = r] /\ fnode' = Append(fnode, n)
    BY <1>4 DEF Queue
  <2> HIDE DEF r
  <2>4. /\ fnode' \in Seq(Nodes) /\ node' \in [Nodes -> NodeRec]
        /\ InOnePlace(fnode', async_fnode', node')
        /\ \A k \in Nodes \ {n} : node'[k] = node[k]
    BY <2>0, <2>1, <2>2, <2>3, QueueEffect
  <2>5. /\ mine' \in [Players -> Nodes \cup {NoNode}] /\ mine'[p] = NoNode
        /\ \A q \in Players \ {p} : mine'[q] = mine[q]
    BY <1>4, <1>t DEF Queue
  <2>6. /\ pc' \in [Players -> PlayerPC] /\ pc'[p] = "idle"
        /\ \A q \in Players \ {p} : pc'[q] = pc[q]
    BY <1>4, <1>t DEF Queue, Goto, PlayerPC
  <2>7. \A q \in Players \ {p} : mine[q] # n
    BY <2>1, <1>0, <1>h
  <2>8. \A q \in Players : mine'[q] # NoNode => node'[mine'[q]].state = "opened"
    BY <1>m, <2>4, <2>5, <2>7
  <2>9. Handed'
    BY <1>h, <2>5, <2>6 DEF Handed
  <2> QED
    BY <1>t, <2>0, <2>4, <2>5, <2>6, <2>8, <2>9, FilesTypes, QueueUnfolded DEF FilesInv
<1>5. ASSUME NEW p \in Players, QueueAsync(p) PROVE TypeOK' /\ FilesInv'
  <2>0. UNCHANGED <<fnode, count, room, sh>> /\ pc[p] = "async"
    BY <1>5 DEF QueueAsync
  <2>1. mine[p] \in Nodes /\ node[mine[p]].state = "opened" /\ node[mine[p]] \in NodeRec
    BY <2>0, <1>h, <1>m, <1>t
  <2> DEFINE n == mine[p]
             r == [node[n] EXCEPT !.state = "queued"]
             old == {async_fnode} \ {NoNode}
             c == Closed(old)
  <2>2. r \in NodeRec /\ r.state = "queued"
    BY <2>1, NodeChanges
  <2>3. /\ c \in [Nodes -> NodeRec]
        /\ \A k \in Nodes : c[k].state = IF k \in old THEN "free" ELSE node[k].state
    BY <1>t, CloseAndMark
  <2>4. node' = [c EXCEPT ![n] = r] /\ async_fnode' = n
    BY <1>5 DEF QueueAsync, Replaced
  <2> HIDE DEF r, c
  <2>5. /\ node' \in [Nodes -> NodeRec] /\ node'[n] = r
        /\ \A k \in Nodes \ {n} : node'[k] = c[k]
    BY <2>1, <2>2, <2>3, <2>4
  <2>6. n \notin ToSet(fnode) /\ n # async_fnode
    BY <2>1, <1>q DEF InOnePlace
  <2>7. \A k \in Nodes \ {n} : node'[k].state = IF k = async_fnode THEN "free" ELSE node[k].state
    BY <2>3, <2>5, <1>0
  <2>8. ToSet(fnode) \subseteq Nodes /\ IsInjective(fnode) /\ async_fnode \notin ToSet(fnode)
    BY <1>t, <1>q, Elements DEF InOnePlace
  <2>9. \A k \in Nodes : (node'[k].state = "queued") <=> (k \in ToSet(fnode) \/ k = n)
    BY <1>q, <2>2, <2>5, <2>6, <2>7, <2>8 DEF InOnePlace
  <2>10. InOnePlace(fnode', async_fnode', node')
    BY <2>0, <2>4, <2>6, <2>8, <2>9 DEF InOnePlace
  <2>11. /\ mine' \in [Players -> Nodes \cup {NoNode}] /\ mine'[p] = NoNode
         /\ \A q \in Players \ {p} : mine'[q] = mine[q]
    BY <1>5, <1>t DEF QueueAsync
  <2>12. /\ pc' \in [Players -> PlayerPC] /\ pc'[p] = "idle"
         /\ \A q \in Players \ {p} : pc'[q] = pc[q]
    BY <1>5, <1>t DEF QueueAsync, Goto, PlayerPC
  <2>13. \A q \in Players \ {p} : mine[q] # n /\ (mine[q] # NoNode => mine[q] # async_fnode)
    BY <2>1, <1>0, <1>h, <1>m, <1>q DEF InOnePlace
  <2>14. \A q \in Players : mine'[q] # NoNode => node'[mine'[q]].state = "opened"
    BY <1>m, <2>7, <2>11, <2>13
  <2>15. Handed'
    BY <1>h, <2>11, <2>12 DEF Handed
  <2> QED
    BY <1>t, <2>0, <2>1, <2>4, <2>5, <2>10, <2>11, <2>12, <2>14, <2>15, FilesTypes, QueueUnfolded
    DEF FilesInv
<1>6. ASSUME NEW p \in Players, Say(p) \/ OpenSpeech(p) PROVE TypeOK' /\ FilesInv'
  <2>1. UNCHANGED <<fnode, async_fnode, node, count, room, mine>>
    BY <1>6 DEF Say, OpenSpeech
  <2>2. sh' \in BOOLEAN
    BY <1>6, <1>t DEF Say, OpenSpeech
  <2>3. pc[p] \in {"say", "opening"} /\ \E at \in {"queue_say", "opening", "idle"} : Goto(p, at)
    BY <1>6 DEF Say, OpenSpeech
  <2>4. /\ pc' \in [Players -> PlayerPC]
        /\ \A q \in Players : pc'[q] \in {"queue", "async"} <=> pc[q] \in {"queue", "async"}
    BY <2>3, <1>t DEF Goto, PlayerPC
  <2> QED
    BY <1>t, <2>1, <2>2, <2>4, FilesTypes, FilesFrame
<1>7. ASSUME NEW p \in Players, QueueSpeech(p) PROVE TypeOK' /\ FilesInv'
  <2>0. UNCHANGED <<async_fnode, count, room, mine, sh>> /\ pc[p] = "queue_say"
    BY <1>7 DEF QueueSpeech
  <2>1. PICK n \in Nodes, f \in Fresh :
          /\ node[n].state = "free"
          /\ node' = [node EXCEPT ![n] = [f EXCEPT !.state = "queued"]]
          /\ fnode' = Append(fnode, n)
    BY <1>7 DEF QueueSpeech
  <2> DEFINE r == [f EXCEPT !.state = "queued"]
  <2>2. r \in NodeRec /\ r.state = "queued"
    BY NewNodes
  <2>3. node' = [node EXCEPT ![n] = r]
    BY <2>1
  <2> HIDE DEF r
  <2>4. /\ fnode' \in Seq(Nodes) /\ node' \in [Nodes -> NodeRec]
        /\ InOnePlace(fnode', async_fnode', node')
        /\ \A k \in Nodes \ {n} : node'[k] = node[k]
    BY <2>0, <2>1, <2>2, <2>3, QueueEffect
  <2>5. /\ pc' \in [Players -> PlayerPC]
        /\ \A q \in Players : pc'[q] \in {"queue", "async"} <=> pc[q] \in {"queue", "async"}
    BY <1>7, <2>0, <1>t DEF QueueSpeech, Goto, PlayerPC
  <2>6. \A q \in Players : mine'[q] # NoNode => node'[mine'[q]].state = "opened"
    BY <1>m, <2>0, <2>1, <2>4
  <2>7. Handed'
    BY <1>h, <2>0, <2>5 DEF Handed
  <2> QED
    BY <1>t, <2>0, <2>4, <2>5, <2>6, <2>7, FilesTypes, QueueUnfolded DEF FilesInv
<1>8. ASSUME conference_stop_file PROVE TypeOK' /\ FilesInv'
  <2>1. UNCHANGED <<fnode, async_fnode, count, room, pc, mine, sh>> /\ \E ns : node' = Done(ns)
    BY <1>8 DEF conference_stop_file
  <2>2. /\ node' \in [Nodes -> NodeRec]
        /\ \A n \in Nodes : node'[n].state = node[n].state
    BY <2>1, <1>t, CloseAndMark
  <2> QED
    BY <1>t, <2>1, <2>2, FilesTypes, FilesFrame
<1>9. ASSUME Tick PROVE TypeOK' /\ FilesInv'
  <2>0. UNCHANGED <<count, room, pc, mine, sh>>
    BY <1>9 DEF Tick
  <2>1. PICK nodes \in [Nodes -> NodeRec], beside \in Nodes \cup {NoNode} :
          /\ PlayFrame(nodes, beside) /\ InOnePlace(fnode, beside, nodes)
          /\ \A p \in Players : mine[p] # NoNode => nodes[mine[p]].state = "opened"
    <3>1. CASE PlayFrame(node, async_fnode)
      BY <3>1, <1>t, <1>q, <1>m
    <3>2. ASSUME async_fnode = NoNode, NEW n \in Nodes, NEW f \in Fresh,
                 node[n].state = "free",
                 PlayFrame([node EXCEPT ![n] = [f EXCEPT !.state = "queued"]], n)
          PROVE  \E nodes \in [Nodes -> NodeRec], beside \in Nodes \cup {NoNode} :
                   /\ PlayFrame(nodes, beside) /\ InOnePlace(fnode, beside, nodes)
                   /\ \A p \in Players : mine[p] # NoNode => nodes[mine[p]].state = "opened"
      <4> DEFINE r == [f EXCEPT !.state = "queued"]
                 ns == [node EXCEPT ![n] = r]
      <4>1. r \in NodeRec /\ r.state = "queued"
        BY NewNodes
      <4>p. PlayFrame(ns, n)
        BY <3>2
      <4> HIDE DEF r
      <4>2. /\ ns \in [Nodes -> NodeRec] /\ ns[n] = r
            /\ \A k \in Nodes \ {n} : ns[k] = node[k]
        BY <4>1, <1>t
      <4> HIDE DEF ns
      <4>3. ToSet(fnode) \subseteq Nodes
        BY <1>t, Elements
      <4>4. InOnePlace(fnode, n, ns)
        BY <1>q, <1>0, <3>2, <4>1, <4>2, <4>3 DEF InOnePlace
      <4>5. \A p \in Players : mine[p] # NoNode => ns[mine[p]].state = "opened"
        BY <1>m, <3>2, <4>2
      <4> QED
        BY <4>p, <4>2, <4>4, <4>5
    <3> QED
      BY <1>9, <3>1, <3>2 DEF Tick
  <2>2. /\ fnode' \in Seq(Nodes) /\ async_fnode' \in Nodes \cup {NoNode}
        /\ node' \in [Nodes -> NodeRec]
        /\ InOnePlace(fnode', async_fnode', node')
        /\ \A n \in Nodes : nodes[n].state # "queued" => node'[n] = nodes[n]
    BY <1>t, <2>1, PlayFrameEffect
  <2>3. \A p \in Players : mine'[p] # NoNode => node'[mine'[p]].state = "opened"
    BY <1>m, <2>0, <2>1, <2>2
  <2>4. Handed'
    BY <1>h, <2>0 DEF Handed
  <2> QED
    BY <1>t, <2>0, <2>2, <2>3, <2>4, FilesTypes, QueueUnfolded DEF FilesInv
<1>10. ASSUME WindDown PROVE TypeOK' /\ FilesInv'
  <2> DEFINE old == ToSet(fnode) \cup ({async_fnode} \ {NoNode})
  <2>1. /\ UNCHANGED <<count, pc, mine, sh>> /\ room' = "swept"
        /\ fnode' = <<>> /\ async_fnode' = NoNode /\ node' = Closed(old)
    BY <1>10 DEF WindDown
  <2>2. /\ node' \in [Nodes -> NodeRec]
        /\ \A n \in Nodes : node'[n].state = IF n \in old THEN "free" ELSE node[n].state
    BY <2>1, <1>t, CloseAndMark
  <2>3. \A n \in Nodes : (node[n].state = "queued") <=> (n \in old)
    BY <1>q, <1>0 DEF InOnePlace
  <2>4. <<>> \in Seq(Nodes) /\ ToSet(<<>>) = {} /\ IsInjective(<<>>)
    BY DEF ToSet, IsInjective
  <2>5. InOnePlace(fnode', async_fnode', node')
    BY <1>0, <2>1, <2>2, <2>3, <2>4 DEF InOnePlace
  <2>6. \A p \in Players : mine'[p] # NoNode => node'[mine'[p]].state = "opened"
    BY <1>m, <2>1, <2>2, <2>3
  <2>7. Handed'
    BY <1>h, <2>1 DEF Handed
  <2> QED
    BY <1>t, <2>1, <2>2, <2>4, <2>5, <2>6, <2>7, FilesTypes, QueueUnfolded DEF FilesInv
<1>11. ASSUME End PROVE TypeOK' /\ FilesInv'
  <2>1. UNCHANGED <<fnode, async_fnode, node, count, pc, mine>> /\ room' = "ended"
    BY <1>11 DEF End
  <2>2. sh' \in BOOLEAN
    BY <1>11 DEF End
  <2> QED
    BY <1>t, <2>1, <2>2, FilesTypes, FilesFrame
<1>12. CASE UNCHANGED vars
  <2>1. UNCHANGED <<fnode, async_fnode, node, count, room, pc, mine, sh>>
    BY <1>12 DEF vars
  <2> QED
    BY <1>t, <2>1, FilesTypes, FilesFrame
<1> QED
  BY <1>1, <1>2, <1>3, <1>4, <1>5, <1>6, <1>7, <1>8, <1>9, <1>10, <1>11, <1>12
  DEF Next, PlayerStep

\* The types and the places of the nodes, throughout.
LEMMA FilesInvariant == Spec => [](TypeOK /\ FilesInv)
<1>1. Init => TypeOK /\ FilesInv
  <2> SUFFICES ASSUME Init PROVE TypeOK /\ FilesInv
    OBVIOUS
  <2>0. NoNode \notin Nodes /\ MaxCallers \in Nat
    BY FilesAssumption DEF FilesAssumption
  <2>1. /\ fnode = <<>> /\ async_fnode = NoNode /\ room = "running" /\ count = 0
        /\ \A n \in Nodes : node[n].state = "free"
        /\ \A p \in Players : pc[p] = "idle" /\ mine[p] = NoNode
    BY NewNodes DEF Init
  <2>2. node \in [Nodes -> NodeRec] /\ sh \in BOOLEAN
    BY NewNodes DEF Init
  <2>3. pc \in [Players -> PlayerPC] /\ mine \in [Players -> Nodes \cup {NoNode}]
    BY DEF Init, PlayerPC
  <2>4. <<>> \in Seq(Nodes) /\ ToSet(<<>>) = {} /\ IsInjective(<<>>)
    BY DEF ToSet, IsInjective
  <2>5. InOnePlace(fnode, async_fnode, node)
    BY <2>0, <2>1, <2>4 DEF InOnePlace
  <2>6. Handed
    BY <2>1 DEF Handed
  <2> QED
    BY <2>0, <2>1, <2>2, <2>3, <2>4, <2>5, <2>6, FilesTypes, QueueUnfolded DEF FilesInv
<1>2. TypeOK /\ FilesInv /\ [Next]_vars => (TypeOK /\ FilesInv)'
  BY FilesStep
<1> QED
  BY <1>1, <1>2, PTL DEF Spec

\* Type correctness of the queue, the players and the nodes.
THEOREM FilesTypeCorrect == Spec => []TypeOK
BY FilesInvariant, PTL

\* conference_play_file, conference_say, conference_stop_file, the tick and the
\* wind-down never close a node twice, play a closed one or leave one in two places.
THEOREM QueueCorrect == Spec => []QueuedNodesAreOpen
<1>1. FilesInv => QueuedNodesAreOpen
  BY DEF FilesInv
<1> QED
  BY <1>1, FilesInvariant, PTL

(***************************************************************************)
(* Sums over finite sets.                                                  *)
(***************************************************************************)
\* Induction over the subsets of a finite set: a set P that has every subset of S whose
\* proper subsets it has, has them all.  (The strict inclusion of finite sets is well
\* founded: a smallest counterexample would have all its proper subsets in P.)
LEMMA SubsetInduction ==
    ASSUME NEW S, IsFiniteSet(S), NEW P,
           \A T \in SUBSET S : (\A U \in SUBSET T : U # T => U \in P) => T \in P
    PROVE  \A T \in SUBSET S : T \in P
<1> DEFINE Bad == {T \in SUBSET S : T \notin P}
<1> SUFFICES ASSUME Bad # {} PROVE FALSE
  OBVIOUS
<1>1. IsWellFoundedOn(StrictSubsetOrdering(S), FiniteSubsetsOf(S))
  BY FS_StrictSubsetOrderingWellFounded
<1>2. Bad \subseteq FiniteSubsetsOf(S)
  BY FS_Subset DEF FiniteSubsetsOf
<1>3. PICK T \in Bad : \A U \in Bad : ~(<<U, T>> \in StrictSubsetOrdering(S))
  <2> HIDE DEF Bad
  <2> QED
    BY <1>1, <1>2, WFMin
<1>4. ASSUME NEW U \in SUBSET T, U # T PROVE U \in P
  <2>1. <<U, T>> \in StrictSubsetOrdering(S)
    BY <1>2, <1>4, FS_Subset DEF StrictSubsetOrdering, FiniteSubsetsOf
  <2> QED
    BY <1>3, <2>1
<1> QED
  BY <1>4

\* The element that a fold over T takes first.
Pick(T) == CHOOSE x \in T : TRUE
Adds(g, v, S) == g = [T \in SUBSET S |-> IF T = {} THEN 0 ELSE v[Pick(T)] + g[T \ {Pick(T)}]]

\* It is an element of T.
LEMMA Picked ==
    ASSUME NEW T, T # {}
    PROVE  Pick(T) \in T /\ T \ {Pick(T)} \in SUBSET T /\ T \ {Pick(T)} # T
<1>1. Pick(T) \in T
  BY DEF Pick
<1> QED
  BY <1>1

\* The sum of v over S is the value at S of a function on the subsets of S that adds the
\* values of the elements in the order in which Pick takes them out.
LEMMA SumIsFold ==
    ASSUME NEW v, NEW S
    PROVE  SumFunctionOnSet(v, S) = (CHOOSE g : Adds(g, v, S))[S]
  BY DEF SumFunctionOnSet, FoldFunctionOnSet, MapThenFoldSet, Adds, Pick

\* There is at most one such function, on every set of subsets,
LEMMA AddsOnce ==
    ASSUME NEW v, NEW S, NEW R, IsFiniteSet(S), NEW g, NEW h, R \subseteq S, Adds(g, v, S), Adds(h, v, R)
    PROVE  \A T \in SUBSET R : g[T] = h[T]
<1> DEFINE P == {T \in SUBSET R : g[T] = h[T]}
<1>1. ASSUME NEW T \in SUBSET R, \A U \in SUBSET T : U # T => U \in P
      PROVE  T \in P
  <2>1. CASE T = {}
    BY <2>1 DEF Adds
  <2>2. CASE T # {}
    <3>1. T \ {Pick(T)} \in P
      BY <1>1, <2>2, Picked
    <3>2. g[T] = v[Pick(T)] + g[T \ {Pick(T)}] /\ h[T] = v[Pick(T)] + h[T \ {Pick(T)}]
      BY <2>2 DEF Adds
    <3> QED
      BY <3>1, <3>2
  <2> QED
    BY <2>1, <2>2
<1>2. IsFiniteSet(R)
  BY FS_Subset
<1> HIDE DEF P
<1>3. \A T \in SUBSET R : T \in P
  BY <1>1, <1>2, SubsetInduction
<1> QED
  BY <1>3 DEF P

\* and there is one, for every finite set.
LEMMA AddsExists ==
    ASSUME NEW v, NEW S, IsFiniteSet(S)
    PROVE  \E g : Adds(g, v, S)
<1> DEFINE P == {T \in SUBSET S : \E g : Adds(g, v, T)}
<1> DEFINE G(T) == CHOOSE g : Adds(g, v, T)
<1>1. ASSUME NEW T \in SUBSET S, \A U \in SUBSET T : U # T => U \in P
      PROVE  T \in P
  <2> DEFINE g == [U \in SUBSET T |-> IF U = {} THEN 0 ELSE v[Pick(U)] + G(U \ {Pick(U)})[U \ {Pick(U)}]]
  <2>0. ASSUME NEW U \in SUBSET T, U # T PROVE Adds(G(U), v, U) /\ IsFiniteSet(U)
    BY <1>1, <2>0, FS_Subset
  <2>1. ASSUME NEW U \in SUBSET T, U # T PROVE g[U] = G(U)[U]
    <3>1. CASE U = {}
      <4>1. Adds(G(U), v, U)
        BY <2>0, <2>1
      <4> HIDE DEF G
      <4>2. G(U)[U] = 0
        BY <3>1, <4>1 DEF Adds
      <4> QED
        BY <3>1, <4>2
    <3>2. CASE U # {}
      <4> DEFINE W == U \ {Pick(U)}
      <4>1. W \in SUBSET U /\ W \in SUBSET T /\ W # T /\ W # U
        BY <2>1, <3>2, Picked
      <4>2. Adds(G(W), v, W) /\ Adds(G(U), v, U) /\ IsFiniteSet(U)
        BY <2>0, <2>1, <4>1
      <4>3. G(U)[W] = G(W)[W]
        <5> HIDE DEF G, W
        <5> QED
          BY <4>1, <4>2, AddsOnce
      <4>4. G(U)[U] = v[Pick(U)] + G(U)[W]
        <5> HIDE DEF G
        <5> QED
          BY <4>2, <3>2 DEF Adds
      <4>5. g[U] = v[Pick(U)] + G(W)[W]
        <5> HIDE DEF G
        <5> QED
          BY <3>2
      <4> QED
        BY <4>3, <4>4, <4>5
    <3> QED
      BY <3>1, <3>2
  <2>2. ASSUME NEW U \in SUBSET T, U # {}
        PROVE  G(U \ {Pick(U)})[U \ {Pick(U)}] = g[U \ {Pick(U)}]
    <3> HIDE DEF g, G
    <3> QED
      BY <2>1, <2>2, Picked
  <2>3. Adds(g, v, T)
    <3> HIDE DEF G
    <3>1. g = [U \in SUBSET T |-> IF U = {} THEN 0 ELSE v[Pick(U)] + g[U \ {Pick(U)}]]
      BY <2>2
    <3> QED
      BY <3>1 DEF Adds
  <2> QED
    BY <2>3
<1> HIDE DEF P
<1>2. \A T \in SUBSET S : T \in P
  BY <1>1, SubsetInduction
<1>3. S \in P
  BY <1>2
<1> QED
  BY <1>3 DEF P

\* So the sum can be unfolded.
LEMMA SumUnfolds ==
    ASSUME NEW v, NEW S, IsFiniteSet(S)
    PROVE  /\ SumFunctionOnSet(v, {}) = 0
           /\ S # {} => SumFunctionOnSet(v, S) = v[Pick(S)] + SumFunctionOnSet(v, S \ {Pick(S)})
<1> DEFINE G(T) == CHOOSE g : Adds(g, v, T)
<1>1. ASSUME NEW T, IsFiniteSet(T) PROVE Adds(G(T), v, T)
  BY <1>1, AddsExists
<1>2. \A T : SumFunctionOnSet(v, T) = G(T)[T]
  BY SumIsFold
<1> HIDE DEF G
<1>3. SumFunctionOnSet(v, {}) = 0
  BY <1>1, <1>2, FS_EmptySet DEF Adds
<1>4. ASSUME S # {} PROVE SumFunctionOnSet(v, S) = v[Pick(S)] + SumFunctionOnSet(v, S \ {Pick(S)})
  <2> DEFINE W == S \ {Pick(S)}
  <2>1. W \in SUBSET S /\ IsFiniteSet(W)
    BY FS_Subset
  <2>2. Adds(G(S), v, S) /\ Adds(G(W), v, W)
    BY <1>1, <2>1
  <2>3. G(S)[W] = G(W)[W]
    <3> HIDE DEF W
    <3> QED
      BY <2>1, <2>2, AddsOnce
  <2>4. G(S)[S] = v[Pick(S)] + G(S)[W]
    BY <1>4, <2>2 DEF Adds
  <2> QED
    BY <1>2, <2>3, <2>4
<1> QED
  BY <1>3, <1>4

\* A sum of integers is an integer.
LEMMA SumType ==
    ASSUME NEW D, IsFiniteSet(D), NEW v \in [D -> Int]
    PROVE  \A S \in SUBSET D : SumFunctionOnSet(v, S) \in Int
<1> DEFINE P == {S \in SUBSET D : SumFunctionOnSet(v, S) \in Int}
<1>1. ASSUME NEW S \in SUBSET D, \A U \in SUBSET S : U # S => U \in P
      PROVE  S \in P
  <2>0. IsFiniteSet(S)
    BY FS_Subset
  <2>1. CASE S = {}
    <3>1. SumFunctionOnSet(v, S) = 0
      BY <2>0, <2>1, SumUnfolds
    <3> QED
      BY <3>1
  <2>2. CASE S # {}
    <3>1. S \ {Pick(S)} \in P /\ v[Pick(S)] \in Int
      BY <1>1, <2>2, Picked
    <3> QED
      BY <2>0, <2>2, <3>1, SumUnfolds
  <2> QED
    BY <2>1, <2>2
<1> HIDE DEF P
<1>2. \A S \in SUBSET D : S \in P
  BY <1>1, SubsetInduction
<1> QED
  BY <1>2 DEF P

\* The order does not matter: any element may be taken out first.
LEMMA SumRemove ==
    ASSUME NEW D, IsFiniteSet(D), NEW v \in [D -> Int]
    PROVE  \A S \in SUBSET D : \A m \in S :
              SumFunctionOnSet(v, S) = v[m] + SumFunctionOnSet(v, S \ {m})
<1> DEFINE Z(T) == SumFunctionOnSet(v, T)
<1> DEFINE P == {S \in SUBSET D : \A m \in S : Z(S) = v[m] + Z(S \ {m})}
<1>1. ASSUME NEW S \in SUBSET D, \A U \in SUBSET S : U # S => U \in P
      PROVE  S \in P
  <2> SUFFICES ASSUME NEW m \in S PROVE Z(S) = v[m] + Z(S \ {m})
    OBVIOUS
  <2> DEFINE c == Pick(S)
  <2>0. IsFiniteSet(S) /\ c \in S
    BY FS_Subset, Picked
  <2>1. Z(S) = v[c] + Z(S \ {c})
    BY <2>0, SumUnfolds
  <2>2. CASE m = c
    BY <2>1, <2>2
  <2>3. CASE m # c
    <3>1. m \in S \ {c} /\ c \in S \ {m}
      BY <2>0, <2>3
    <3>2. S \ {c} \in P /\ S \ {m} \in P
      BY <1>1, <2>0
    <3>3. Z(S \ {c}) = v[m] + Z((S \ {c}) \ {m})
      BY <3>1, <3>2
    <3>4. Z(S \ {m}) = v[c] + Z((S \ {m}) \ {c})
      BY <3>1, <3>2
    <3>5. (S \ {c}) \ {m} = (S \ {m}) \ {c}
      OBVIOUS
    <3>6. v[m] \in Int /\ v[c] \in Int /\ Z((S \ {m}) \ {c}) \in Int
      BY <2>0, SumType
    <3>7. Z((S \ {c}) \ {m}) = Z((S \ {m}) \ {c})
      BY <3>5
    <3> DEFINE r == Z((S \ {m}) \ {c})  a == Z(S \ {c})  b == Z(S \ {m})  z == Z(S)
    <3>8. z = v[c] + a /\ a = v[m] + r /\ b = v[c] + r /\ r \in Int
      BY <2>1, <3>3, <3>4, <3>6, <3>7
    <3>9. z = v[m] + b
      <4> HIDE DEF z, a, b, r, c
      <4> QED
        BY <3>6, <3>8
    <3> QED
      BY <3>9
  <2> QED
    BY <2>2, <2>3
<1> HIDE DEF P
<1>2. \A S \in SUBSET D : S \in P
  BY <1>1, SubsetInduction
<1> QED
  BY <1>2 DEF P

\* The sum over a union of disjoint sets.
LEMMA SumSplits ==
    ASSUME NEW D, IsFiniteSet(D), NEW v \in [D -> Int], NEW B \in SUBSET D
    PROVE  \A A \in SUBSET D : A \cap B = {} =>
              SumFunctionOnSet(v, A \cup B) = SumFunctionOnSet(v, A) + SumFunctionOnSet(v, B)
<1> DEFINE Z(T) == SumFunctionOnSet(v, T)
<1> DEFINE P == {A \in SUBSET D : A \cap B = {} => Z(A \cup B) = Z(A) + Z(B)}
<1>0. \A T \in SUBSET D : Z(T) \in Int
  BY SumType
<1>1. ASSUME NEW A \in SUBSET D, \A U \in SUBSET A : U # A => U \in P
      PROVE  A \in P
  <2> SUFFICES ASSUME A \cap B = {} PROVE Z(A \cup B) = Z(A) + Z(B)
    OBVIOUS
  <2>1. CASE A = {}
    <3>1. Z(A) = 0
      BY <2>1, SumUnfolds, FS_EmptySet
    <3>2. A \cup B = B
      BY <2>1
    <3>3. Z(A \cup B) = Z(B) /\ Z(B) \in Int
      BY <1>0, <3>2
    <3> QED
      BY <3>1, <3>3
  <2>2. CASE A # {}
    <3>0. PICK m : m \in A
      BY <2>2
    <3>1. A \ {m} \in P /\ (A \ {m}) \cap B = {}
      BY <1>1, <3>0
    <3>2. Z((A \ {m}) \cup B) = Z(A \ {m}) + Z(B)
      BY <3>1
    <3>3. Z(A) = v[m] + Z(A \ {m})
      BY <3>0, SumRemove
    <3>4. m \in A \cup B /\ A \cup B \in SUBSET D /\ (A \cup B) \ {m} = (A \ {m}) \cup B
      BY <3>0
    <3>5. Z(A \cup B) = v[m] + Z((A \cup B) \ {m})
      BY <3>4, SumRemove
    <3>6. v[m] \in Int /\ Z(A \ {m}) \in Int /\ Z(B) \in Int
      BY <1>0, <3>0
    <3>7. Z((A \cup B) \ {m}) = Z((A \ {m}) \cup B)
      BY <3>4
    <3> DEFINE a == Z(A \ {m})  b == Z(B)  z == Z(A)  u == Z(A \cup B)
    <3>8. u = v[m] + (a + b) /\ z = v[m] + a /\ a \in Int /\ b \in Int
      BY <3>2, <3>3, <3>5, <3>6, <3>7
    <3>9. u = z + b
      <4> HIDE DEF u, z, a, b
      <4> QED
        BY <3>6, <3>8
    <3> QED
      BY <3>9
  <2> QED
    BY <2>1, <2>2
<1> HIDE DEF P
<1>2. \A A \in SUBSET D : A \in P
  BY <1>1, SubsetInduction
<1> QED
  BY <1>2 DEF P

\* A sum is not wider than its number of summands.
LEMMA SumBounds ==
    ASSUME NEW D, IsFiniteSet(D), NEW l \in Int, NEW h \in Int, NEW v \in [D -> l..h]
    PROVE  \A S \in SUBSET D :
              SumFunctionOnSet(v, S) \in (Cardinality(S) * l)..(Cardinality(S) * h)
<1> DEFINE Z(T) == SumFunctionOnSet(v, T)
<1> DEFINE P == {S \in SUBSET D : Z(S) \in (Cardinality(S) * l)..(Cardinality(S) * h)}
<1>0. v \in [D -> Int]
  OBVIOUS
<1>1. ASSUME NEW S \in SUBSET D, \A U \in SUBSET S : U # S => U \in P
      PROVE  S \in P
  <2>0. IsFiniteSet(S)
    BY FS_Subset
  <2>1. CASE S = {}
    <3>1. Z(S) = 0 /\ Cardinality(S) = 0
      BY <2>0, <2>1, SumUnfolds, FS_EmptySet
    <3> QED
      BY <3>1
  <2>2. CASE S # {}
    <3>0. PICK m : m \in S
      BY <2>2
    <3> DEFINE W == S \ {m}
               n == Cardinality(W)
               w == Z(W)
               z == Z(S)
               c == Cardinality(S)
    <3>1. W \in P
      BY <1>1, <3>0
    <3>2. IsFiniteSet(W) /\ n = c - 1
      BY <2>0, <3>0, FS_RemoveElement
    <3>3. n \in Nat /\ c \in Nat
      BY <2>0, <3>2, FS_CardinalityType
    <3>4. z = v[m] + w
      BY <1>0, <3>0, SumRemove
    <3>5. w \in (n * l)..(n * h)
      BY <3>1
    <3>6. v[m] \in l..h
      BY <3>0
    <3>7. z \in (c * l)..(c * h)
      <4> HIDE DEF W, n, w, z, c
      <4>1. c = n + 1
        BY <3>2, <3>3
      <4>2. c * l = n * l + l /\ c * h = n * h + h
        BY <3>3, <4>1
      <4>3. n * l \in Int /\ n * h \in Int
        BY <3>3
      <4>4. \A p, q, e \in Int : e >= p /\ e <= q => v[m] + e >= p + l /\ v[m] + e <= q + h
        BY <3>6
      <4>5. w \in Int /\ w >= n * l /\ w <= n * h
        BY <3>5, <4>3
      <4>6. v[m] + w >= n * l + l /\ v[m] + w <= n * h + h /\ v[m] + w \in Int
        BY <4>3, <4>4, <4>5, <3>6
      <4> QED
        BY <3>4, <4>2, <4>6, <4>3
    <3> QED
      BY <3>7
  <2> QED
    BY <2>1, <2>2
<1> HIDE DEF P
<1>2. \A S \in SUBSET D : S \in P
  BY <1>1, SubsetInduction
<1> QED
  BY <1>2 DEF P

(***************************************************************************)
(* The mixing: its inductive invariant.                                    *)
(***************************************************************************)
\* The file data at the start of the main frame are the files that play, at every
\* sample at which none of them is too short.
FilesMixed ==
    tick \in {"mixed", "summed", "sent"} =>
        \A x \in Frame : WholeAt(x) => FileSample(x) = FilesAt(x)

\* The main frame is the exact sum: no sample was cut off on the way into it.
ExactSum ==
    /\ tick \in {"read", "mixed", "summed"} => DOMAIN write_frame = {}
    /\ tick = "summed" =>
         /\ summed \subseteq has_audio
         /\ \A x \in Frame :
              main_frame[x] = FileSample(x) + SumFunctionOnSet(Column(x), summed)


(***************************************************************************)
(* The values.                                                             *)
(***************************************************************************)
\* switch_normalize_to_16bit: its result has 16 bits,
LEMMA NormalizeType ==
    ASSUME NEW z \in Int
    PROVE  Normalize(z) \in Lo..Hi
  BY MixAssumption DEF MixAssumption, Normalize

\* and a sample that has 16 bits already is left alone.
LEMMA NormalizeInRange ==
    ASSUME NEW z \in Lo..Hi
    PROVE  Normalize(z) = z
  BY MixAssumption DEF MixAssumption, Normalize

\* A sample has 16 bits.
LEMMA SampleType ==
    /\ \A s \in Samples : s \in Lo..Hi /\ s \in Int
    /\ \A s \in Lo..Hi : s \in Int
  BY MixAssumption DEF MixAssumption

\* What a read of a file may have returned.
LEMMA FileReadType ==
    ASSUME NEW f \in FileReads \cup {NoFile}
    PROVE  /\ \E n \in 0..FrameLen : f \in [1..n -> Samples]
           /\ DOMAIN f \subseteq Frame
           /\ \A x \in DOMAIN f : f[x] \in Samples
<1>1. PICK n \in 0..FrameLen : f \in [1..n -> Samples]
  <2>1. CASE f = NoFile
    <3>1. f \in [1..0 -> Samples]
      BY <2>1 DEF NoFile
    <3>2. 0 \in 0..FrameLen
      BY MixAssumption DEF MixAssumption
    <3> QED
      BY <3>1, <3>2
  <2>2. CASE f \in FileReads
    BY <2>2, MixAssumption DEF MixAssumption, FileReads
  <2> QED
    BY <2>1, <2>2
<1> QED
  BY <1>1, MixAssumption DEF MixAssumption, Frame

\* The length of a read, at whose last sample it ends.
LEMMA FileReadLength ==
    ASSUME NEW f \in FileReads \cup {NoFile}
    PROVE  /\ Length(f) \in 0..FrameLen
           /\ \A x \in Frame : x <= Length(f) <=> x \in DOMAIN f
           /\ f = NoFile <=> Length(f) = 0
<1>1. PICK n \in 0..FrameLen : f \in [1..n -> Samples]
  BY FileReadType
<1>2. n \in Nat /\ FrameLen \in Nat
  BY MixAssumption DEF MixAssumption
<1>3. Cardinality(1..n) = n
  BY <1>2, FS_Interval
<1>4. Length(f) = n
  BY <1>1, <1>3 DEF Length
<1>5. f = NoFile <=> n = 0
  <2>1. CASE n = 0
    BY <1>1, <2>1 DEF NoFile
  <2>2. CASE n # 0
    <3>1. 1 \in DOMAIN f
      BY <1>1, <1>2, <2>2
    <3> QED
      BY <2>2, <3>1 DEF NoFile
  <2> QED
    BY <2>1, <2>2
<1> QED
  BY <1>1, <1>2, <1>4, <1>5 DEF Frame

\* The samples of the members at one place of the frame are integers,
LEMMA ColumnType ==
    ASSUME MixTypeOK, NEW x \in Frame
    PROVE  Column(x) \in [Members -> Int]
<1>1. \A m \in Members : frame[m][x] \in Samples
  BY DEF MixTypeOK
<1> QED
  BY <1>1, SampleType DEF Column

\* and so is the sum of any of them.
LEMMA SumAtType ==
    ASSUME MixTypeOK, NEW x \in Frame, NEW S \in SUBSET Members
    PROVE  SumFunctionOnSet(Column(x), S) \in Int
  BY ColumnType, SumType, MixAssumption DEF MixAssumption

\* What the files add to the main frame has 16 bits.
LEMMA FileSampleType ==
    ASSUME MixTypeOK, NEW x \in Frame
    PROVE  FileSample(x) \in Int
<1>1. file_frame[x] \in Int
  BY SampleType DEF MixTypeOK
<1> QED
  BY <1>1, MixAssumption DEF MixAssumption, FileSample

(***************************************************************************)
(* Types.                                                                  *)
(***************************************************************************)
\* The members' frames are read.
LEMMA ReadMembersType ==
    ASSUME MixTypeOK, ReadMembers
    PROVE  MixTypeOK'
<1>0. PICK ready \in SUBSET Members :
        /\ has_audio' = ready
        /\ \E new \in [ready -> [Frame -> Samples]] :
             frame' = [m \in Members |-> IF m \in ready THEN new[m] ELSE frame[m]]
  BY DEF ReadMembers
<1>1. PICK new \in [ready -> [Frame -> Samples]] :
        frame' = [m \in Members |-> IF m \in ready THEN new[m] ELSE frame[m]]
  BY <1>0
<1>2. frame' \in [Members -> [Frame -> Samples]]
  BY <1>1 DEF MixTypeOK
<1>3. FrameLen \in 0..FrameLen
  BY MixAssumption DEF MixAssumption
<1>4. DOMAIN write_frame' = {}
  BY DEF ReadMembers, NoFile
<1> QED
  BY <1>0, <1>2, <1>3, <1>4 DEF MixTypeOK, ReadMembers

\* What the two files leave in file_frame when both are read.
Mixed(f, a) ==
    [x \in Frame |-> IF x \notin DOMAIN a THEN Over(f, file_frame)[x]
                     ELSE IF f # NoFile THEN Normalize(Over(f, file_frame)[x] + a[x])
                     ELSE a[x]]

\* ReadFiles, without the choice of what plays.
LEMMA FilesRead ==
    ASSUME MixTypeOK, ReadFiles
    PROVE  \/ /\ has_file_data' = TRUE /\ file_sample_len' = FrameLen
              /\ file_frame' \in Fillings /\ file' = file_frame' /\ async' = NoFile
           \/ /\ file' \in FileReads \cup {NoFile} /\ async' \in FileReads \cup {NoFile}
              /\ has_file_data' = (file' # NoFile \/ async' # NoFile)
              /\ file_sample_len' \in 0..FrameLen
              /\ async' # NoFile => file_sample_len' = Length(async')
              /\ file_frame' = Mixed(file', async')
<1>1. PICK playing \in BOOLEAN, playing_async \in BOOLEAN :
        \E f \in IF playing THEN FileReads ELSE {NoFile},
           a \in IF playing_async THEN FileReads ELSE {NoFile} :
          IF waste /\ ~(f # NoFile \/ a # NoFile)
          THEN /\ has_file_data' = TRUE /\ file_sample_len' = FrameLen
               /\ file_frame' \in Fillings
               /\ file' = file_frame' /\ async' = NoFile
          ELSE /\ file' = f /\ async' = a
               /\ has_file_data' = (f # NoFile \/ a # NoFile)
               /\ file_sample_len' = IF playing_async THEN Length(a)
                                     ELSE IF playing THEN Length(f)
                                     ELSE file_sample_len
               /\ file_frame' = Mixed(f, a)
  BY Zenon DEF ReadFiles, Mixed
<1>2. PICK f \in FileReads \cup {NoFile}, a \in FileReads \cup {NoFile} :
          /\ a # NoFile => playing_async
          /\ IF waste /\ ~(f # NoFile \/ a # NoFile)
             THEN /\ has_file_data' = TRUE /\ file_sample_len' = FrameLen
                  /\ file_frame' \in Fillings
                  /\ file' = file_frame' /\ async' = NoFile
             ELSE /\ file' = f /\ async' = a
                  /\ has_file_data' = (f # NoFile \/ a # NoFile)
                  /\ file_sample_len' = IF playing_async THEN Length(a)
                                        ELSE IF playing THEN Length(f)
                                        ELSE file_sample_len
                  /\ file_frame' = Mixed(f, a)
  BY <1>1
<1>3. Length(f) \in 0..FrameLen /\ Length(a) \in 0..FrameLen /\ file_sample_len \in 0..FrameLen
  BY FileReadLength DEF MixTypeOK
<1>4. CASE waste /\ f = NoFile /\ a = NoFile
  BY <1>2, <1>4
<1>5. CASE ~(waste /\ f = NoFile /\ a = NoFile)
  BY <1>2, <1>3, <1>5
<1> QED
  BY <1>4, <1>5

\* What bandwidth is wasted with is a whole frame.
LEMMA FillingType ==
    ASSUME NEW g \in Fillings
    PROVE  g \in [Frame -> Lo..Hi]
  BY MixAssumption DEF MixAssumption, Fillings, Frame

\* A read over the file frame.
LEMMA OverType ==
    ASSUME MixTypeOK, NEW f \in FileReads \cup {NoFile}, NEW x \in Frame
    PROVE  /\ Over(f, file_frame)[x] \in Lo..Hi
           /\ x \in DOMAIN f => Over(f, file_frame)[x] = f[x]
<1>1. x \in DOMAIN f => f[x] \in Lo..Hi
  BY FileReadType, SampleType
<1> QED
  BY <1>1 DEF MixTypeOK, Over

\* The asynchronous file mixed into the file frame.
LEMMA MixedType ==
    ASSUME MixTypeOK, NEW f \in FileReads \cup {NoFile}, NEW a \in FileReads \cup {NoFile}
    PROVE  Mixed(f, a) \in [Frame -> Lo..Hi]
<1>1. ASSUME NEW x \in Frame PROVE Mixed(f, a)[x] \in Lo..Hi
  <2>1. Over(f, file_frame)[x] \in Lo..Hi
    BY OverType
  <2>2. CASE x \notin DOMAIN a
    BY <2>1, <2>2 DEF Mixed
  <2>3. CASE x \in DOMAIN a
    <3>1. a[x] \in Lo..Hi
      BY <2>3, FileReadType, SampleType
    <3>2. Over(f, file_frame)[x] + a[x] \in Int
      BY <2>1, <3>1, SampleType
    <3>3. Normalize(Over(f, file_frame)[x] + a[x]) \in Lo..Hi
      BY <3>2, NormalizeType
    <3> QED
      BY <2>3, <3>1, <3>3 DEF Mixed
  <2> QED
    BY <2>2, <2>3
<1> QED
  BY <1>1 DEF Mixed

\* The files are read.
LEMMA ReadFilesType ==
    ASSUME MixTypeOK, ReadFiles
    PROVE  MixTypeOK'
<1>1. file_frame' \in [Frame -> Lo..Hi]
  <2>1. CASE file_frame' \in Fillings
    BY <2>1, FillingType
  <2>2. CASE /\ file' \in FileReads \cup {NoFile} /\ async' \in FileReads \cup {NoFile}
             /\ file_frame' = Mixed(file', async')
    BY <2>2, MixedType
  <2> QED
    BY <2>1, <2>2, FilesRead
<1>2. file_sample_len' \in 0..FrameLen
  <2>1. FrameLen \in 0..FrameLen
    BY MixAssumption DEF MixAssumption
  <2> QED
    BY <2>1, FilesRead
<1>3. has_file_data' \in BOOLEAN
  BY FilesRead
<1>4. UNCHANGED <<running, has_audio, frame, main_frame, write_frame, summed, waste>>
      /\ tick' = "mixed"
  BY DEF ReadFiles
<1> QED
  BY <1>1, <1>2, <1>3, <1>4, FilesRead DEF MixTypeOK

\* The main frame is summed.
LEMMA SumTypeOK ==
    ASSUME MixTypeOK, Sum
    PROVE  MixTypeOK'
<1>1. CASE Ready \/ has_file_data
  <2>1. summed' \in SUBSET Members
    BY <1>1 DEF MixTypeOK, Sum
  <2>2. main_frame' \in [Frame -> Int]
    <3>1. main_frame' = [x \in Frame |-> FileSample(x) + SumFunctionOnSet(Column(x), summed')]
      BY <1>1 DEF Sum
    <3>2. \A x \in Frame : FileSample(x) + SumFunctionOnSet(Column(x), summed') \in Int
      BY <2>1, FileSampleType, SumAtType
    <3> QED
      BY <3>1, <3>2
  <2> QED
    BY <1>1, <2>1, <2>2 DEF MixTypeOK, Sum
<1>2. CASE ~(Ready \/ has_file_data)
  BY <1>2 DEF MixTypeOK, Sum
<1> QED
  BY <1>1, <1>2

\* The write frames are made and sent.
LEMMA SendType ==
    ASSUME MixTypeOK, Send
    PROVE  MixTypeOK'
<1>1. /\ write_frame' = [o \in Listeners |-> [x \in Frame |->
           Normalize(main_frame[x] - SumFunctionOnSet(Column(x), Subtracted(o)))]]
      /\ tick' = "sent"
      /\ UNCHANGED <<running, has_audio, frame, file_frame, has_file_data,
                     file_sample_len, main_frame, file, async, summed, waste>>
  BY DEF Send
<1>2. ASSUME NEW o \in Listeners, NEW x \in Frame
      PROVE  Normalize(main_frame[x] - SumFunctionOnSet(Column(x), Subtracted(o))) \in Lo..Hi
  <2>1. Subtracted(o) \in SUBSET Members
    BY DEF MixTypeOK, Subtracted
  <2>2. SumFunctionOnSet(Column(x), Subtracted(o)) \in Int /\ main_frame[x] \in Int
    BY <2>1, SumAtType DEF MixTypeOK
  <2> QED
    BY <2>2, NormalizeType
<1>3. DOMAIN write_frame' = Listeners
      /\ \A o \in Listeners : write_frame'[o] \in [Frame -> Lo..Hi]
  BY <1>1, <1>2
<1>4. Listeners \subseteq Members
  BY DEF Listeners, MixTypeOK
<1> QED
  BY <1>1, <1>3, <1>4 DEF MixTypeOK

\* Every step keeps the types.
LEMMA MixTypeStep ==
    ASSUME MixTypeOK, [MixNext]_mixVars
    PROVE  MixTypeOK'
<1>1. ASSUME NEW m \in Members, Stop(m) PROVE MixTypeOK'
  BY <1>1 DEF MixTypeOK, Stop
<1>2. CASE UNCHANGED mixVars
  BY <1>2 DEF MixTypeOK, mixVars
<1> QED
  BY <1>1, <1>2, ReadMembersType, ReadFilesType, SumTypeOK, SendType DEF MixNext

\* The first tick starts with them.
LEMMA MixInitType == MixInit => MixTypeOK
<1> SUFFICES ASSUME MixInit PROVE MixTypeOK
  OBVIOUS
<1>1. (CHOOSE s \in Samples : TRUE) \in Samples
  BY MixAssumption DEF MixAssumption
<1>2. frame \in [Members -> [Frame -> Samples]]
  BY <1>1 DEF MixInit
<1>3. file_frame \in [Frame -> Lo..Hi] /\ main_frame \in [Frame -> Int]
  BY MixAssumption DEF MixAssumption, MixInit, Silence
<1>4. 0 \in 0..FrameLen
  BY MixAssumption DEF MixAssumption
<1>5. DOMAIN write_frame = {}
  BY DEF MixInit, NoFile
<1> QED
  BY <1>2, <1>3, <1>4, <1>5 DEF MixInit, MixTypeOK

\* Type correctness of the frames: file_frame and write_frame stay within 16 bits, which
\* for the write frame is what the normalization of the sums is there for.
THEOREM MixTypeCorrect == MixSpec => []MixTypeOK
<1>1. MixInit => MixTypeOK
  BY MixInitType
<1>2. MixTypeOK /\ [MixNext]_mixVars => MixTypeOK'
  BY MixTypeStep
<1> QED
  BY <1>1, <1>2, PTL DEF MixSpec

(***************************************************************************)
(* What is heard.                                                          *)
(***************************************************************************)
\* ReadFiles: file_frame and file_sample_len stand for the files.
LEMMA FilesMixedByReadFiles ==
    ASSUME MixTypeOK, ReadFiles
    PROVE  FilesMixed'
<1> SUFFICES ASSUME NEW x \in Frame, WholeAt(x)' PROVE FileSample(x)' = FilesAt(x)'
  BY DEF FilesMixed
<1> DEFINE f == file'
           a == async'
<1>1. x \in Nat /\ FrameLen \in Nat /\ x >= 1 /\ x <= FrameLen
  BY MixAssumption DEF MixAssumption, Frame
<1>z. 0 \in Lo..Hi /\ 0 + 0 = 0
  BY MixAssumption DEF MixAssumption
<1>2. CASE /\ has_file_data' = TRUE /\ file_sample_len' = FrameLen
           /\ file_frame' \in Fillings /\ file' = file_frame' /\ async' = NoFile
  <2>1. FileSample(x)' = f[x]
    BY <1>1, <1>2 DEF FileSample
  <2>2. x \in DOMAIN f /\ f[x] \in Lo..Hi /\ x \notin DOMAIN a
    BY <1>2, FillingType DEF NoFile
  <2>3. f[x] \in Int /\ f[x] + 0 = f[x]
    BY <2>2, MixAssumption DEF MixAssumption
  <2> QED
    BY <2>1, <2>2, <2>3, NormalizeInRange DEF FilesAt
<1> SUFFICES ASSUME /\ f \in FileReads \cup {NoFile} /\ a \in FileReads \cup {NoFile}
                    /\ has_file_data' = (f # NoFile \/ a # NoFile)
                    /\ file_sample_len' \in 0..FrameLen
                    /\ a # NoFile => file_sample_len' = Length(a)
                    /\ file_frame' = Mixed(f, a)
             PROVE  FileSample(x)' = FilesAt(x)'
  BY <1>2, FilesRead
<1>0. f \in FileReads \cup {NoFile} /\ a \in FileReads \cup {NoFile}
  OBVIOUS
<1>3. CASE f = NoFile /\ a = NoFile
  <2>1. ~has_file_data' /\ x \notin DOMAIN f /\ x \notin DOMAIN a
    BY <1>3 DEF NoFile
  <2> QED
    BY <1>z, <2>1, NormalizeInRange DEF FileSample, FilesAt
<1>4. CASE f # NoFile \/ a # NoFile
  <2>1. has_file_data' /\ file_frame' = Mixed(f, a) /\ (a # NoFile => file_sample_len' = Length(a))
    BY <1>4
  <2>2. x <= file_sample_len' /\ (f # NoFile => x \in DOMAIN f)
    BY <2>1 DEF WholeAt
  <2>3. FileSample(x)' = Mixed(f, a)[x]
    <3>1. file_sample_len' \in Nat
      BY ReadFilesType, <1>1 DEF MixTypeOK
    <3> QED
      BY <1>1, <2>1, <2>2, <3>1 DEF FileSample
  <2> DEFINE F == IF x \in DOMAIN f THEN f[x] ELSE 0
             A == IF x \in DOMAIN a THEN a[x] ELSE 0
  <2>4. FilesAt(x)' = Normalize(F + A)
    BY DEF FilesAt
  <2>5. (x \in DOMAIN f => f[x] \in Lo..Hi /\ f[x] \in Int) /\ (x \in DOMAIN a => a[x] \in Lo..Hi /\ a[x] \in Int)
    BY <1>0, FileReadType, SampleType
  <2>6. CASE f = NoFile
    <3>1. x \in DOMAIN a /\ x \notin DOMAIN f
      <4>1. x <= Length(a)
        BY <1>4, <2>1, <2>2, <2>6
      <4>2. DOMAIN f = {}
        BY <2>6 DEF NoFile
      <4> QED
        BY <1>0, <4>1, <4>2, FileReadLength
    <3>2. Mixed(f, a)[x] = a[x]
      BY <2>6, <3>1 DEF Mixed
    <3>3. F + A = a[x] /\ a[x] \in Lo..Hi
      BY <2>5, <3>1
    <3> QED
      BY <2>3, <2>4, <3>2, <3>3, NormalizeInRange
  <2>7. CASE f # NoFile
    <3>1. x \in DOMAIN f /\ Over(f, file_frame)[x] = f[x]
      BY <1>0, <2>2, <2>7, OverType
    <3>2. CASE x \in DOMAIN a
      BY <2>3, <2>4, <2>7, <3>1, <3>2 DEF Mixed
    <3>3. CASE x \notin DOMAIN a
      <4>1. Mixed(f, a)[x] = f[x]
        BY <3>1, <3>3 DEF Mixed
      <4>2. F + A = f[x] /\ f[x] \in Lo..Hi
        BY <2>5, <3>1, <3>3
      <4> QED
        BY <2>3, <2>4, <4>1, <4>2, NormalizeInRange
    <3> QED
      BY <3>2, <3>3
  <2> QED
    BY <2>6, <2>7
<1> QED
  BY <1>3, <1>4

\* What FilesMixed is about does not change in the rest of the tick.
LEMMA FilesMixedStays ==
    ASSUME FilesMixed, tick \in {"mixed", "summed", "sent"} \/ tick' \notin {"mixed", "summed", "sent"},
           UNCHANGED <<file_frame, has_file_data, file_sample_len, file, async, waste>>
    PROVE  FilesMixed'
<1>1. \A x \in Frame : WholeAt(x)' = WholeAt(x) /\ FileSample(x)' = FileSample(x) /\ FilesAt(x)' = FilesAt(x)
  BY DEF WholeAt, FileSample, FilesAt
<1> QED
  BY <1>1 DEF FilesMixed

\* Send: the sum without what is taken out of it is the sum of the others.
LEMMA Heard ==
    ASSUME MixTypeOK, FilesMixed, ExactSum, tick = "summed",
           NEW o \in Members, NEW x \in Frame, Subtracted(o) \subseteq summed, WholeAt(x)
    PROVE  Normalize(main_frame[x] - SumFunctionOnSet(Column(x), Subtracted(o)))
             = Normalize(FilesAt(x) + OthersAt(o, x))
<1> DEFINE Z(S)   == SumFunctionOnSet(Column(x), S)
           Taken  == Subtracted(o)
           Others == {m \in summed : m # o /\ <<m, o>> \notin Unheard}
<1>1. summed = Others \cup Taken /\ Others \cap Taken = {}
  BY DEF ExactSum, Subtracted
<1>2. Others \in SUBSET Members /\ Taken \in SUBSET Members
  BY DEF MixTypeOK, Subtracted
<1>3. Z(Others \cup Taken) = Z(Others) + Z(Taken)
  <2>1. Column(x) \in [Members -> Int] /\ IsFiniteSet(Members)
    BY ColumnType, MixAssumption DEF MixAssumption
  <2> HIDE DEF Others, Taken
  <2> QED
    BY <1>1, <1>2, <2>1, SumSplits
<1>4. Z(Others) \in Int /\ Z(Taken) \in Int
  BY <1>2, SumAtType
<1>5. main_frame[x] = FilesAt(x) + Z(summed)
  BY DEF FilesMixed, ExactSum
<1>6. FilesAt(x) \in Int
  BY FileSampleType DEF FilesMixed
<1> DEFINE u == Z(Others)
           t == Z(Taken)
<1>7. main_frame[x] = FilesAt(x) + (u + t) /\ u \in Int /\ t \in Int
  BY <1>1, <1>3, <1>4, <1>5
<1>8. main_frame[x] - t = FilesAt(x) + u
  <2> HIDE DEF u, t
  <2> QED
    BY <1>6, <1>7
<1> QED
  BY <1>8 DEF OthersAt

MixInductive == MixTypeOK /\ FilesMixed /\ ExactSum /\ HearsTheOthersWhileRunning

\* So what Send has written is what the listeners must hear.
LEMMA HearsBySend ==
    ASSUME MixInductive, Send
    PROVE  HearsTheOthersWhileRunning'
<1>0. /\ tick = "summed"
      /\ write_frame' = [o \in Listeners |-> [x \in Frame |->
           Normalize(main_frame[x] - SumFunctionOnSet(Column(x), Subtracted(o)))]]
      /\ UNCHANGED <<running, has_audio, frame, file_frame, has_file_data,
                     file_sample_len, main_frame, file, async, summed, waste>>
  BY DEF Send
<1> SUFFICES ASSUME NEW o \in DOMAIN write_frame', NEW x \in Frame,
                    Subtracted(o)' \subseteq summed', WholeAt(x)'
             PROVE  write_frame'[o][x] = Normalize(FilesAt(x)' + OthersAt(o, x)')
  BY DEF HearsTheOthersWhileRunning, Normalize
<1>1. o \in Listeners /\ o \in Members
  BY <1>0 DEF Listeners, MixInductive, MixTypeOK
<1>2. Subtracted(o)' = Subtracted(o) /\ WholeAt(x)' = WholeAt(x) /\ FilesAt(x)' = FilesAt(x)
  BY <1>0 DEF Subtracted, WholeAt, FilesAt
<1>3. OthersAt(o, x)' = OthersAt(o, x)
  BY <1>0 DEF OthersAt, Column
<1>4. write_frame'[o][x] = Normalize(main_frame[x] - SumFunctionOnSet(Column(x), Subtracted(o)))
  BY <1>0, <1>1
<1>5. Normalize(main_frame[x] - SumFunctionOnSet(Column(x), Subtracted(o)))
        = Normalize(FilesAt(x) + OthersAt(o, x))
  BY <1>0, <1>1, <1>2, Heard DEF MixInductive
<1> QED
  BY <1>2, <1>3, <1>4, <1>5

\* Every step keeps the inductive invariant.
LEMMA MixStep ==
    ASSUME MixInductive, [MixNext]_mixVars
    PROVE  MixInductive'
<1>0. MixTypeOK'
  BY MixTypeStep DEF MixInductive
<1>1. ASSUME NEW m \in Members, Stop(m) PROVE MixInductive'
  <2>1. UNCHANGED <<tick, has_audio, frame, file_frame, has_file_data, file_sample_len,
                    main_frame, write_frame, file, async, summed, waste>>
    BY <1>1 DEF Stop
  <2>2. FilesMixed'
    BY <2>1, FilesMixedStays DEF MixInductive
  <2>3. ExactSum'
    BY <2>1 DEF MixInductive, ExactSum, FileSample, Column
  <2>4. HearsTheOthersWhileRunning'
    BY <2>1 DEF MixInductive, HearsTheOthersWhileRunning, Subtracted, WholeAt, FilesAt, OthersAt, Column, Normalize
  <2> QED
    BY <1>0, <2>2, <2>3, <2>4 DEF MixInductive
<1>2. CASE ReadMembers
  <2>1. tick' = "read" /\ DOMAIN write_frame' = {}
    BY <1>2 DEF ReadMembers, NoFile
  <2> QED
    BY <1>0, <2>1 DEF MixInductive, FilesMixed, ExactSum, HearsTheOthersWhileRunning
<1>3. CASE ReadFiles
  <2>1. tick = "read" /\ tick' = "mixed" /\ write_frame' = write_frame
    BY <1>3 DEF ReadFiles
  <2> QED
    BY <1>0, <1>3, <2>1, FilesMixedByReadFiles DEF MixInductive, ExactSum, HearsTheOthersWhileRunning
<1>4. CASE Sum
  <2>1. /\ tick = "mixed" /\ tick' \in {"summed", "sent"}
        /\ UNCHANGED <<has_audio, frame, file_frame, has_file_data, file_sample_len,
                       write_frame, file, async, waste>>
    BY <1>4 DEF Sum
  <2>2. FilesMixed'
    BY <2>1, FilesMixedStays DEF MixInductive
  <2>3. DOMAIN write_frame' = {}
    BY <2>1 DEF MixInductive, ExactSum
  <2>4. ASSUME tick' = "summed"
        PROVE  /\ summed' \subseteq has_audio'
               /\ \A x \in Frame : main_frame'[x] = FileSample(x)' + SumFunctionOnSet(Column(x)', summed')
    <3>1. summed' = running \cap has_audio
          /\ main_frame' = [x \in Frame |-> FileSample(x) + SumFunctionOnSet(Column(x), summed')]
      BY <1>4, <2>4 DEF Sum
    <3>2. \A x \in Frame : FileSample(x)' = FileSample(x) /\ Column(x)' = Column(x)
      BY <2>1 DEF FileSample, Column
    <3> QED
      BY <2>1, <3>1, <3>2
  <2>5. ExactSum'
    BY <2>1, <2>3, <2>4 DEF ExactSum
  <2>6. HearsTheOthersWhileRunning'
    BY <2>3 DEF HearsTheOthersWhileRunning
  <2> QED
    BY <1>0, <2>2, <2>5, <2>6 DEF MixInductive
<1>5. CASE Send
  <2>1. /\ tick = "summed" /\ tick' = "sent"
        /\ UNCHANGED <<file_frame, has_file_data, file_sample_len, file, async, waste>>
    BY <1>5 DEF Send
  <2>2. FilesMixed'
    BY <2>1, FilesMixedStays DEF MixInductive
  <2>3. ExactSum'
    BY <2>1 DEF ExactSum
  <2> QED
    BY <1>0, <1>5, <2>2, <2>3, HearsBySend DEF MixInductive
<1>6. CASE UNCHANGED mixVars
  <2>1. UNCHANGED <<tick, has_audio, frame, file_frame, has_file_data, file_sample_len,
                    main_frame, write_frame, file, async, summed, waste>>
    BY <1>6 DEF mixVars
  <2>2. FilesMixed'
    BY <2>1, FilesMixedStays DEF MixInductive
  <2>3. ExactSum'
    BY <2>1 DEF MixInductive, ExactSum, FileSample, Column
  <2>4. HearsTheOthersWhileRunning'
    BY <2>1 DEF MixInductive, HearsTheOthersWhileRunning, Subtracted, WholeAt, FilesAt, OthersAt, Column, Normalize
  <2> QED
    BY <1>0, <2>2, <2>3, <2>4 DEF MixInductive
<1> QED
  BY <1>1, <1>2, <1>3, <1>4, <1>5, <1>6 DEF MixNext

\* A listener hears the files and everybody but itself and those it must not hear,
\* whatever the number of members, the length of a frame and the relationships, and
\* whoever stops running during the tick.
THEOREM HearsCorrect == MixSpec => []HearsTheOthersWhileRunning
<1>1. MixInit => MixInductive
  <2> SUFFICES ASSUME MixInit PROVE MixInductive
    OBVIOUS
  <2>1. MixTypeOK
    BY MixInitType
  <2>2. tick = "idle"
    BY DEF MixInit
  <2> QED
    BY <2>1, <2>2 DEF MixInductive, FilesMixed, ExactSum, HearsTheOthersWhileRunning
<1>2. MixInductive /\ [MixNext]_mixVars => MixInductive'
  BY MixStep
<1>3. MixInductive => HearsTheOthersWhileRunning
  BY DEF MixInductive
<1> QED
  BY <1>1, <1>2, <1>3, PTL DEF MixSpec

(***************************************************************************)
(* "Use more bits in the main_frame to preserve the exact sum": how many.  *)
(***************************************************************************)
\* With n members a sample of the main frame is never wider than n + 1 samples of
\* 16 bits: main_frame is a 32-bit int in the code and an integer here, and the two
\* agree in every conference of at most 2^16 - 1 members.
MainFrameFits ==
    \A x \in Frame : main_frame[x] \in ((Cardinality(Members) + 1) * Lo)..((Cardinality(Members) + 1) * Hi)

\* The file's sample and at most one of each member.
LEMMA MainFrameBySum ==
    ASSUME MixTypeOK, NEW x \in Frame, NEW S \in SUBSET Members
    PROVE  FileSample(x) + SumFunctionOnSet(Column(x), S)
             \in ((Cardinality(Members) + 1) * Lo)..((Cardinality(Members) + 1) * Hi)
<1> DEFINE n == Cardinality(Members)
           c == Cardinality(S)
           d == n - c
           z == SumFunctionOnSet(Column(x), S)
           f == FileSample(x)
<1>1. Lo \in Int /\ Hi \in Int /\ Lo <= 0 /\ 0 <= Hi
  BY MixAssumption DEF MixAssumption
<1>2. n \in Nat /\ c \in Nat /\ c <= n
  BY MixAssumption, FS_Subset, FS_CardinalityType DEF MixAssumption
<1>3. z \in (c * Lo)..(c * Hi)
  <2>1. \A m \in Members : frame[m][x] \in Lo..Hi
    BY SampleType DEF MixTypeOK
  <2>2. Column(x) \in [Members -> Lo..Hi]
    BY <2>1 DEF Column
  <2> QED
    BY <1>1, <2>2, SumBounds, MixAssumption DEF MixAssumption
<1>4. f \in Lo..Hi
  <2>1. file_frame[x] \in Lo..Hi
    BY DEF MixTypeOK
  <2> QED
    BY <2>1, MixAssumption DEF MixAssumption, FileSample
<1> HIDE DEF n, c, z, f
<1>5. d \in Nat /\ n = c + d
  BY <1>2
<1> HIDE DEF d
<1>6. d * Lo <= 0 /\ 0 <= d * Hi /\ d * Lo \in Int /\ d * Hi \in Int /\ c * Lo \in Int /\ c * Hi \in Int
  BY <1>1, <1>2, <1>5
<1>7. (n + 1) * Lo = c * Lo + d * Lo + Lo /\ (n + 1) * Hi = c * Hi + d * Hi + Hi
  BY <1>1, <1>2, <1>5
<1>8. f + z >= c * Lo + d * Lo + Lo /\ f + z <= c * Hi + d * Hi + Hi /\ f + z \in Int
  <2>1. z \in Int /\ z >= c * Lo /\ z <= c * Hi
    BY <1>3, <1>6
  <2>2. f \in Int /\ f >= Lo /\ f <= Hi
    BY <1>1, <1>4
  <2>3. \A p, q, r, s \in Int : p <= z /\ z <= q /\ r <= 0 /\ 0 <= s => f + z >= p + r + Lo /\ f + z <= q + s + Hi
    BY <1>1, <2>1, <2>2
  <2> QED
    BY <1>6, <2>1, <2>2, <2>3
<1>9. (n + 1) * Lo \in Int /\ (n + 1) * Hi \in Int
  BY <1>1, <1>2
<1>10. f + z \in ((n + 1) * Lo)..((n + 1) * Hi)
  BY <1>7, <1>8, <1>9
<1> QED
  BY <1>10 DEF n, f, z

\* The 32 bits of the main frame are enough.
THEOREM WidthCorrect == MixSpec => []MainFrameFits
<1>1. MixInit => MixTypeOK /\ MainFrameFits
  <2> SUFFICES ASSUME MixInit PROVE MainFrameFits
    BY MixInitType
  <2>1. \A x \in Frame : main_frame[x] = 0
    BY DEF MixInit, Silence
  <2> DEFINE k == Cardinality(Members) + 1
  <2>2. Lo \in Int /\ Hi \in Int /\ Lo <= 0 /\ 0 <= Hi /\ k \in Nat
    BY MixAssumption, FS_CardinalityType DEF MixAssumption
  <2>3. 0 \in (k * Lo)..(k * Hi)
    <3> HIDE DEF k
    <3> QED
      BY <2>2
  <2> QED
    BY <2>1, <2>3 DEF MainFrameFits
<1>2. MixTypeOK /\ MainFrameFits /\ [MixNext]_mixVars => MixTypeOK' /\ MainFrameFits'
  <2> SUFFICES ASSUME MixTypeOK, MainFrameFits, [MixNext]_mixVars PROVE MainFrameFits'
    BY MixTypeStep
  <2>1. CASE main_frame' = main_frame
    BY <2>1 DEF MainFrameFits
  <2>2. CASE Sum /\ main_frame' # main_frame
    <3>1. /\ summed' = running \cap has_audio
          /\ main_frame' = [x \in Frame |-> FileSample(x) + SumFunctionOnSet(Column(x), summed')]
      BY <2>2 DEF Sum
    <3>2. summed' \in SUBSET Members
      BY <3>1 DEF MixTypeOK
    <3>3. \A x \in Frame : main_frame'[x] = FileSample(x) + SumFunctionOnSet(Column(x), summed')
      BY <3>1
    <3> QED
      BY <3>2, <3>3, MainFrameBySum DEF MainFrameFits
  <2> QED
    BY <2>1, <2>2 DEF MixNext, Stop, ReadMembers, ReadFiles, Send, mixVars
<1> QED
  BY <1>1, <1>2, PTL DEF MixSpec
=============================================================================
