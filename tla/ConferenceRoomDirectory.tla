----------------------- MODULE ConferenceRoomDirectory -----------------------
(***************************************************************************)
(* The rooms of mod_conference implement RoomDirectory.  The existing      *)
(* rooms are the conferences whose pool is intact; a room is doomed from   *)
(* the moment CFLAG_DESTRUCT is set or its thread has left the mux loop.   *)
(***************************************************************************)
EXTENDS ConferenceRoom

WindingDown == {"ending", "swept", "unhashed", "wrlocked", "unlocked"}

OpenRooms == {k \in Confs : Alive(k)}

DoomedRooms == {k \in OpenRooms : Has(k, "DESTRUCT") \/ thr[k] \in WindingDown}

Directory == INSTANCE RoomDirectory WITH
    Rooms <- Confs,
    People <- Callers,
    NoRoom <- NoConf,
    directory <- conference_hash,
    open <- OpenRooms,
    doomed <- DoomedRooms,
    people <- [k \in Confs |-> Callers_in(k)]

\* Whatever the interleaving of callers, commands, evictions and the room's own
\* clean-up, and whatever fails, the registry behaves as a directory:
\* conference_find leads all callers of a name into one room until that room is
\* doomed, the clean-up of a thread takes out no namesake, nobody is in two
\* rooms, and no mark of destruction is ever withdrawn.
ImplementsDirectory == Directory!Spec

=============================================================================
