--------------------------- MODULE ConferenceFlags ---------------------------
(***************************************************************************)
(* The flag word of a dynamic conference.  Some of the updates in          *)
(* mod_conference.c hold conference->flag_mutex (switch_set_flag_locked),  *)
(* others do not (switch_set_flag): the latter read the word and write it  *)
(* back beside everybody else, so that either update can be lost.          *)
(*                                                                         *)
(* An update is two steps, the read and the write; only locked updates     *)
(* exclude one another.  The model begins when the creator of the room has *)
(* set CFLAG_DYNAMIC and launched the conference thread, and nobody else   *)
(* has found the room yet; it ends when the thread has cleared             *)
(* CFLAG_RUNNING.                                                          *)
(***************************************************************************)
EXTENDS Naturals, FiniteSets

CONSTANTS
    Callers,   \* inbound callers of the name
    Admins     \* threads that run API commands for the name

\* The threads are different ones, and somebody calls.
ASSUME FlagsAssumption ==
    /\ IsFiniteSet(Callers) /\ Callers # {}
    /\ Callers \cap Admins = {}
    /\ {"mux", "nobody"} \cap (Callers \cup Admins) = {}

VARIABLES
    flags,       \* the flags of conference->flags that are watched
    holder,      \* of conference->flag_mutex
    update,      \* the update that each thread is in the middle of
    at,          \* where each thread is
    mutex,       \* the thread that holds conference->mutex
    hash_mutex,  \* the thread that holds globals.hash_mutex
    entry,       \* what the name stands for in globals.conference_hash
    count        \* conference->count

vars == <<flags, holder, update, at, mutex, hash_mutex, entry, count>>

Nobody == "nobody"
None == [none |-> TRUE]
Threads == Callers \cup Admins \cup {"mux"}
Finders == Callers \cup Admins

\* The flags that decide about the destruction of the room.  An update of another
\* flag matters for what it writes back of these.
Watched == {"DYNAMIC", "DESTRUCT", "INHASH"}

Init ==
    /\ flags = {"DYNAMIC", "INHASH"} /\ holder = Nobody
    /\ update = [t \in Threads |-> None]
    /\ \E c \in Callers :
         at = [t \in Threads |-> IF t = c THEN "found" ELSE IF t = "mux" THEN "loop" ELSE "start"]
    /\ mutex = Nobody /\ hash_mutex = Nobody /\ entry = "room" /\ count = 0

Idle(t) == update[t] = None
Goto(t, there) == at' = [at EXCEPT ![t] = there]

(***************************************************************************)
(* Updates of the flag word.                                               *)
(***************************************************************************)
\* Mutant: flag_mutex is not waited for.
ReadsAnyway(t, value, locked) ==
    /\ Idle(t)
    /\ holder' = IF locked THEN t ELSE holder
    /\ update' = [update EXCEPT ![t] = [value |-> value, locked |-> locked]]

\* The thread reads the word and computes what it will write.
Reads(t, value, locked) ==
    /\ Idle(t)
    /\ locked => holder = Nobody
    /\ holder' = IF locked THEN t ELSE holder
    /\ update' = [update EXCEPT ![t] = [value |-> value, locked |-> locked]]

switch_set_flag(t, f) == Reads(t, flags \cup ({f} \cap Watched), FALSE)
switch_clear_flag(t, f) == Reads(t, flags \ {f}, FALSE)
switch_set_flag_locked(t, f) == Reads(t, flags \cup ({f} \cap Watched), TRUE)
switch_clear_flag_locked(t, f) == Reads(t, flags \ {f}, TRUE)

Writes(t) ==
    /\ ~Idle(t)
    /\ flags' = update[t].value
    /\ holder' = IF update[t].locked THEN Nobody ELSE holder
    /\ update' = [update EXCEPT ![t] = None]
    /\ UNCHANGED <<at, mutex, hash_mutex, entry, count>>

NoUpdate == UNCHANGED <<holder, update>>

(***************************************************************************)
(* The registry.                                                           *)
(***************************************************************************)
\* Mutant: a marked conference is taken for gone but stays in the hash.
FindKeepsEntry(t) ==
    /\ at[t] = "start" /\ hash_mutex = Nobody /\ entry = "room"
    /\ IF "DESTRUCT" \in flags
       THEN Goto(t, "evicting") /\ hash_mutex' = t
       ELSE Goto(t, "found") /\ UNCHANGED hash_mutex
    /\ NoUpdate /\ UNCHANGED <<flags, mutex, entry, count>>

\* conference_find evicts a conference that is marked, and otherwise returns it.
conference_find(t) ==
    /\ at[t] = "start" /\ hash_mutex = Nobody /\ entry = "room"
    /\ IF "DESTRUCT" \in flags
       THEN Goto(t, "evicting") /\ hash_mutex' = t /\ entry' = "none"
       ELSE Goto(t, "found") /\ UNCHANGED <<hash_mutex, entry>>
    /\ NoUpdate /\ UNCHANGED <<flags, mutex, count>>

\* Still under hash_mutex, but not under flag_mutex.
ClearInHash(t) ==
    /\ at[t] = "evicting" /\ Goto(t, "evicted")
    /\ switch_clear_flag(t, "INHASH")
    /\ UNCHANGED <<flags, mutex, hash_mutex, entry, count>>

\* The caller goes on to create a namesake, the command says there is no such room.
Evicted(t) ==
    /\ at[t] = "evicted" /\ Idle(t) /\ hash_mutex' = Nobody
    /\ Goto(t, IF t \in Callers THEN "gone" ELSE "start")
    /\ NoUpdate /\ UNCHANGED <<flags, mutex, entry, count>>

\* Another conference of the name is created, and ends.
Namesake ==
    /\ hash_mutex = Nobody /\ entry # "room"
    /\ entry' = IF entry = "none" THEN "namesake" ELSE "none"
    /\ NoUpdate /\ UNCHANGED <<flags, at, mutex, hash_mutex, count>>

(***************************************************************************)
(* Callers.                                                                *)
(***************************************************************************)
\* An inbound caller marks the conference answered, without a lock; an outbound
\* one, or one that is bridged, does not.
Answer(c) ==
    /\ at[c] = "found" /\ Goto(c, "ready")
    /\ switch_set_flag(c, "ANSWERED") \/ NoUpdate
    /\ UNCHANGED <<flags, mutex, hash_mutex, entry, count>>

\* A caller that is refused, or whose media cannot be set up, goes straight to the
\* clean-up.
Fail(c) ==
    /\ at[c] \in {"found", "ready"} /\ Idle(c) /\ Goto(c, "deleted")
    /\ NoUpdate /\ UNCHANGED <<flags, mutex, hash_mutex, entry, count>>

conference_add_member(c) ==
    /\ at[c] = "ready" /\ Idle(c) /\ mutex = Nobody /\ mutex' = c /\ Goto(c, "joining")
    /\ count' = count + 1
    /\ NoUpdate /\ UNCHANGED <<flags, hash_mutex, entry>>

\* A moderator ends the wait for one, a caller completes the minimum.
NoteMember(c) ==
    /\ at[c] = "joining"
    /\ switch_clear_flag(c, "WAIT_MOD") \/ switch_set_flag(c, "ENFORCE_MIN")
    /\ UNCHANGED <<flags, at, mutex, hash_mutex, entry, count>>

Added(c) ==
    /\ at[c] = "joining" /\ Idle(c) /\ mutex' = Nobody /\ Goto(c, "in")
    /\ NoUpdate /\ UNCHANGED <<flags, hash_mutex, entry, count>>

\* conference_loop_output launches the outbound calls of the caller and notes that its
\* channel is answered, without a lock; the caller's digits lock and unlock the room.
InRoom(c) ==
    /\ at[c] = "in"
    /\ \/ \E f \in {"OUTCALL", "ANSWERED"} : switch_set_flag(c, f)
       \/ switch_set_flag_locked(c, "LOCKED") \/ switch_clear_flag_locked(c, "LOCKED")
    /\ UNCHANGED <<flags, at, mutex, hash_mutex, entry, count>>

conference_del_member(c) ==
    /\ at[c] = "in" /\ Idle(c) /\ mutex = Nobody /\ mutex' = c /\ Goto(c, "leaving")
    /\ count' = count - 1
    /\ NoUpdate /\ UNCHANGED <<flags, hash_mutex, entry>>

\* The last member with MFLAG_ENDCONF leaves.
EndConf(c) ==
    /\ at[c] = "leaving" /\ Goto(c, "counting")
    /\ switch_set_flag_locked(c, "DESTRUCT")
    /\ UNCHANGED <<flags, mutex, hash_mutex, entry, count>>

\* The last member, or one that the minimum needs, marks the conference without
\* the lock of the flags.
MarkEmpty(c) ==
    /\ at[c] \in {"leaving", "counting"} /\ Idle(c) /\ Goto(c, "left")
    /\ \/ switch_set_flag(c, "DESTRUCT")
       \/ ~("DYNAMIC" \in flags /\ count = 0) /\ NoUpdate
    /\ UNCHANGED <<flags, mutex, hash_mutex, entry, count>>

Deleted(c) ==
    /\ at[c] = "left" /\ Idle(c) /\ mutex' = Nobody /\ Goto(c, "deleted")
    /\ NoUpdate /\ UNCHANGED <<flags, hash_mutex, entry, count>>

\* Mutant: the clean-up does not lock the flags either.
CleanUpUnlocked(c) ==
    /\ at[c] = "deleted" /\ mutex = Nobody /\ mutex' = c /\ Goto(c, "cleaning")
    /\ IF "DYNAMIC" \in flags /\ count = 0 THEN switch_set_flag(c, "DESTRUCT") ELSE NoUpdate
    /\ UNCHANGED <<flags, hash_mutex, entry, count>>

\* Every caller that found the conference marks it again if nobody is left.
CleanUp(c) ==
    /\ at[c] = "deleted" /\ mutex = Nobody /\ mutex' = c /\ Goto(c, "cleaning")
    /\ IF "DYNAMIC" \in flags /\ count = 0 THEN switch_set_flag_locked(c, "DESTRUCT") ELSE NoUpdate
    /\ UNCHANGED <<flags, hash_mutex, entry, count>>

Cleaned(c) ==
    /\ at[c] = "cleaning" /\ Idle(c) /\ mutex' = Nobody /\ Goto(c, "gone")
    /\ NoUpdate /\ UNCHANGED <<flags, hash_mutex, entry, count>>

(***************************************************************************)
(* Commands.                                                               *)
(***************************************************************************)
\* lock, unlock, enter_sound and exit_sound.
Command(a) ==
    /\ at[a] = "found"
    /\ \E f \in {"LOCKED", "ENTER_SOUND", "EXIT_SOUND"} :
         switch_set_flag_locked(a, f) \/ switch_clear_flag_locked(a, f)
    /\ UNCHANGED <<flags, at, mutex, hash_mutex, entry, count>>

Answered(a) ==
    /\ at[a] = "found" /\ Idle(a) /\ Goto(a, "start")
    /\ NoUpdate /\ UNCHANGED <<flags, mutex, hash_mutex, entry, count>>

(***************************************************************************)
(* The conference thread.                                                  *)
(***************************************************************************)
\* The timer fails, and the loop is left.
TimerFails ==
    /\ at["mux"] = "loop" /\ Goto("mux", "over")
    /\ switch_set_flag("mux", "DESTRUCT")
    /\ UNCHANGED <<flags, mutex, hash_mutex, entry, count>>

\* Nobody has talked for a while.
TooQuiet ==
    /\ at["mux"] = "loop" /\ mutex = Nobody /\ mutex' = "mux" /\ Goto("mux", "tick")
    /\ switch_set_flag("mux", "DESTRUCT")
    /\ UNCHANGED <<flags, hash_mutex, entry, count>>

Ticked ==
    /\ at["mux"] = "tick" /\ Idle("mux") /\ mutex' = Nobody /\ Goto("mux", "loop")
    /\ NoUpdate /\ UNCHANGED <<flags, hash_mutex, entry, count>>

\* The thread sees the mark, or globals.running cleared, which can happen at any time.
LoopEnds ==
    /\ at["mux"] = "loop" /\ Goto("mux", "over")
    /\ NoUpdate /\ UNCHANGED <<flags, mutex, hash_mutex, entry, count>>

\* Whatever the name stands for is deleted, if the conference believes it is in the hash.
Unhash ==
    /\ at["mux"] = "over" /\ Idle("mux") /\ hash_mutex = Nobody /\ Goto("mux", "unhashed")
    /\ entry' = IF "INHASH" \in flags THEN "none" ELSE entry
    /\ NoUpdate /\ UNCHANGED <<flags, mutex, hash_mutex, count>>

StopRunning ==
    /\ at["mux"] = "unhashed" /\ Goto("mux", "ended")
    /\ switch_clear_flag_locked("mux", "RUNNING")
    /\ UNCHANGED <<flags, mutex, hash_mutex, entry, count>>

CallerStep(c) ==
    \/ Answer(c) \/ Fail(c) \/ conference_add_member(c) \/ NoteMember(c) \/ Added(c)
    \/ InRoom(c) \/ conference_del_member(c) \/ EndConf(c) \/ MarkEmpty(c) \/ Deleted(c)
    \/ CleanUp(c) \/ Cleaned(c)

Next ==
    \/ \E t \in Threads : Writes(t)
    \/ \E t \in Finders : conference_find(t) \/ ClearInHash(t) \/ Evicted(t)
    \/ \E c \in Callers : CallerStep(c)
    \/ \E a \in Admins : Command(a) \/ Answered(a)
    \/ Namesake
    \/ TimerFails \/ TooQuiet \/ Ticked \/ LoopEnds \/ Unhash \/ StopRunning

Spec == Init /\ [][Next]_vars

(***************************************************************************)
(* Properties.                                                             *)
(***************************************************************************)
Updates == [value : SUBSET Watched, locked : BOOLEAN]

\* The word and its updates.
WordOK ==
    /\ flags \subseteq Watched
    /\ holder \in Threads \cup {Nobody}
    /\ update \in [Threads -> Updates \cup {None}]
    /\ \A t \in Threads : holder = t <=> ~Idle(t) /\ update[t].locked

CallerPlaces == {"start", "evicting", "evicted", "found", "ready", "joining", "in", "leaving",
                 "counting", "left", "deleted", "cleaning", "gone"}
MuxPlaces == {"loop", "tick", "over", "unhashed", "ended"}

PlacesOK ==
    /\ at \in [Threads -> CallerPlaces \cup MuxPlaces]
    /\ count = Cardinality({c \in Callers : at[c] \in {"joining", "in"}})
    /\ mutex \in Callers \cup {"mux", Nobody} /\ hash_mutex \in Finders \cup {Nobody}
    /\ entry \in {"room", "namesake", "none"}

\* Every variable has its type, flag_mutex is held exactly by the thread that is in
\* the middle of a locked update, and count counts the callers that are in.
TypeOK == WordOK /\ PlacesOK

\* A dynamic conference that everybody has left, and that the next caller would
\* find, is marked for destruction, although the mark that the last member sets can
\* be lost to an unlocked update of a caller that arrives.
AbandonedIsDestroyed ==
    entry = "room" /\ (\A c \in Callers : at[c] \in {"start", "gone"}) => "DESTRUCT" \in flags

\* Once the conference thread has passed the place where it takes the conference out of
\* the hash, nobody can find the conference any more, although the flag that
\* decides about the deletion is updated without a lock: what follows is the
\* destruction of the pool that the entry points into.
NoDanglingEntry == at["mux"] \in {"unhashed", "ended"} => entry # "room"
=============================================================================
