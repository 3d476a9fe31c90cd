---------------------------- MODULE RoomDirectory ----------------------------
(***************************************************************************)
(* What the registry of mod_conference promises to callers, without locks, *)
(* threads or pointers: a name leads to at most one room, everybody who    *)
(* asks for the name is led to that room until the room is doomed, a       *)
(* doomed room is never rescued, and a room is closed only after its name  *)
(* has been given up.                                                      *)
(***************************************************************************)
CONSTANTS
    Names,          \* conference names
    Rooms,          \* rooms
    People,         \* those who can be in a room
    NoRoom          \* a name that leads nowhere

VARIABLES
    directory,      \* the room each name leads to
    open,           \* the rooms that exist
    doomed,         \* the rooms that nobody can save any more
    people          \* who is in each room

vars == <<directory, open, doomed, people>>

Listed(r) == \E n \in Names : directory[n] = r
Inside(p) == \E r \in Rooms : p \in people[r]

\* A room is opened under a name that leads nowhere.
Open(r) ==
    /\ r \notin open
    /\ \E n \in Names : /\ directory[n] = NoRoom
                        /\ directory' = [directory EXCEPT ![n] = r]
    /\ open' = open \cup {r}
    /\ UNCHANGED <<doomed, people>>

\* Only the room that is doomed loses its name.
Delist(r) ==
    /\ r \in doomed
    /\ \E n \in Names : /\ directory[n] = r
                        /\ directory' = [directory EXCEPT ![n] = NoRoom]
    /\ UNCHANGED <<open, doomed, people>>

\* Somebody comes in; nobody is in two rooms.
Arrive(r) ==
    /\ r \in open
    /\ \E p \in People : ~Inside(p) /\ people' = [people EXCEPT ![r] = @ \cup {p}]
    /\ UNCHANGED <<directory, open, doomed>>

\* Somebody goes, and may be the one whose going ends the room.
Depart(r) ==
    /\ \E p \in people[r] : people' = [people EXCEPT ![r] = @ \ {p}]
    /\ doomed' \in {doomed, doomed \cup {r}}
    /\ UNCHANGED <<directory, open>>

\* A room ends by itself when it is empty, or by a failure with people in it.
Doom(r) ==
    /\ r \in open \ doomed
    /\ doomed' = doomed \cup {r}
    /\ UNCHANGED <<directory, open, people>>

\* The room and everything in it cease to exist.
Close(r) ==
    /\ r \in doomed
    /\ ~Listed(r)
    /\ open' = open \ {r}
    /\ doomed' = doomed \ {r}
    /\ people' = [people EXCEPT ![r] = {}]
    /\ UNCHANGED directory

Init ==
    /\ directory = [n \in Names |-> NoRoom]
    /\ open = {}
    /\ doomed = {}
    /\ people = [r \in Rooms |-> {}]

Next ==
    \E r \in Rooms : \/ Open(r) \/ Delist(r) \/ Arrive(r)
                     \/ Depart(r) \/ Doom(r) \/ Close(r)

Spec == Init /\ [][Next]_vars

=============================================================================
