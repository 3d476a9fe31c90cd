--------------------------- MODULE ConferenceLocks ---------------------------
(***************************************************************************)
(* The mutexes of one conference and of its members, and the order in which *)
(* the threads of mod_conference.c take them.                               *)
(*                                                                         *)
(* Every operation of the code is given by its trace of locks: the sequence *)
(* of the locks it takes and releases, in the order of the source.  A      *)
(* thread runs one operation at a time, lock by lock; the data that the     *)
(* locks protect is the subject of the other modules.                       *)
(***************************************************************************)
EXTENDS Naturals, FiniteSets, Sequences, SequencesExt

CONSTANTS
    Members,    \* callers
    Admins,     \* threads that run API commands
    Scenarios   \* what goes on in the conference: see Scenario

\* The callers that leave; whether the callers send audio, and it is mixed; what a
\* turn of the output loop of each caller may do (OutputTurn); what the commands
\* may do (Command); whether sounds are played to those who enter and leave; and
\* whether a frame may not be written to a channel.
Scenario == [leavers  : SUBSET Members,
             audio    : BOOLEAN,
             turns    : [Members -> SUBSET {"none", "dtmf", "control", "chat"}],
             commands : SUBSET {"play", "list", "all", "member", "relate", "clear"},
             sounds   : BOOLEAN,
             faults   : SUBSET {"write"}]

ASSUME LocksAssumption == IsFiniteSet(Members) /\ Scenarios \subseteq Scenario

\* The locks: conference->mutex and member_mutex; write_mutex, read_mutex,
\* audio_in_mutex and audio_out_mutex of a member.  All are nested.
C == <<"mutex">>
L == <<"member_mutex">>
W(m) == <<"write_mutex", m>>
R(m) == <<"read_mutex", m>>
AI(m) == <<"audio_in_mutex", m>>
AO(m) == <<"audio_out_mutex", m>>
Locks == {C, L} \cup UNION {{W(m), R(m), AI(m), AO(m)} : m \in Members}

Call(m) == <<"call", m>>     \* conference_function and conference_loop_output
Input(m) == <<"input", m>>   \* conference_loop_input
Mux == <<"mux">>             \* conference_thread_run
Admin(a) == <<"admin", a>>
Threads == {Mux} \cup UNION {{Call(m), Input(m)} : m \in Members} \cup {Admin(a) : a \in Admins}
Nobody == <<>>

VARIABLES
    now,      \* the scenario
    trace,    \* what is left of the operation of each thread
    doing,    \* the operation
    owner, depth,      \* of every lock
    readers, writer,   \* of the rwlock of every member
    listed,   \* the members in conference->members
    related,  \* the members with relationships
    stage     \* of every caller: "new", "in", "leaving" or "left"

vars == <<now, trace, doing, owner, depth, readers, writer, listed, related, stage>>

(***************************************************************************)
(* Traces.                                                                 *)
(***************************************************************************)
Take(l) == << <<"lock", l>> >>
Give(l) == << <<"unlock", l>> >>
Under(l, body) == Take(l) \o body \o Give(l)

lock_member(m) == Take(W(m)) \o Take(R(m))
unlock_member(m) == Give(R(m)) \o Give(W(m))
UnderMember(m, body) == lock_member(m) \o body \o unlock_member(m)

\* A loop over the list: it is unrolled when it is reached.
Each(what, but) == << <<"each", what, but>> >>
Body(what, m) == CASE what = "member"    -> UnderMember(m, <<>>)
                   [] what = "audio_in"  -> Under(AI(m), <<>>)
                   [] what = "audio_out" -> Under(AO(m), <<>>)

\* The count is looked at under both locks, the node is queued under one.
conference_play_file == Under(C, Under(L, <<>>)) \o Under(C, <<>>)

Sound == IF now.sounds THEN conference_play_file ELSE <<>>

\* The list is changed with every lock of the member held; the sounds are
\* queued while all but member_mutex are still held.
conference_add_member(m) ==
    Take(C) \o Take(AI(m)) \o Take(AO(m)) \o lock_member(m)
    \o Under(L, << <<"list", m>> >>) \o Sound
    \o unlock_member(m) \o Give(AO(m)) \o Give(AI(m)) \o Give(C)

\* Mutant: the member is not locked again when it leaves the list.
DelUnlocksTwice(m) ==
    << <<"wrlock", m>> >> \o Sound \o UnderMember(m, <<>>)
    \o Take(C) \o Take(L) \o Take(AI(m)) \o Take(AO(m))
    \o << <<"unlist", m>>, <<"wrunlock", m>> >> \o Sound
    \o Give(L) \o unlock_member(m) \o Give(AO(m)) \o Give(AI(m)) \o Give(C)

\* The input thread has ended; the readers of the member are waited for.
conference_del_member(m) ==
    << <<"wrlock", m>> >> \o Sound \o UnderMember(m, <<>>)
    \o Take(C) \o Take(L) \o Take(AI(m)) \o Take(AO(m)) \o lock_member(m)
    \o << <<"unlist", m>>, <<"wrunlock", m>> >> \o Sound
    \o Give(L) \o unlock_member(m) \o Give(AO(m)) \o Give(AI(m)) \o Give(C)

\* The digits go to all the others.
conference_send_all_dtmf(m) == Under(C, Under(L, Each("member", {m})))

\* What a turn does with write_mutex held: a digit is distributed, or is a
\* caller control that plays a sound to the conference (the lock), or a chat
\* message asks for the list.
OutputBody(m, what) ==
    CASE what = "none"    -> <<>>
      [] what = "dtmf"    -> conference_send_all_dtmf(m)
      [] what = "control" -> conference_play_file
      [] what = "chat"    -> Under(L, <<>>)

OutputTurn(m, what) == Under(W(m), OutputBody(m, what) \o Under(AO(m), <<>>))

\* A write that fails leaves the loop with write_mutex still locked.
FailedTurn(m) == Take(W(m)) \o Under(AO(m), <<>>)

InputTurn(m) == Under(R(m), Under(AI(m), <<>>)) \o Under(L, <<>>)

\* Mutant: the list is locked for the whole tick.
TickUnderList == Under(L, Under(C, Each("audio_in", {}) \o Sound \o Each("audio_out", {})))
Tick == Under(C, Each("audio_in", {}) \o Sound \o Each("audio_out", {}))

\* The list stays locked until the member is.
conference_member_get(m) == Under(L, << <<"rdlock", m>> >>)
Release(m) == << <<"rdunlock", m>> >>

\* A member without relationships is not locked.
member_get_relationship(m, o) ==
    IF m \in related THEN UnderMember(m, UnderMember(o, <<>>)) ELSE <<>>

member_add_relationship(m) == UnderMember(m, Under(L, <<>>) \o << <<"related", m>> >>)
member_del_relationship(m) == UnderMember(m, << <<"cleared", m>> >> \o Under(L, <<>>))

\* A command: play, list (also of the members whose recordings it stops), one
\* for all members (the iterator), one for one member, and relate.
\* What relate does with its members is unrolled when they have been found.
Command(what, m, o) ==
    CASE what = "play"   -> conference_play_file
      [] what = "list"   -> Under(L, <<>>)
      [] what = "all"    -> Under(L, Each("member", {}))
      [] what = "member" -> conference_member_get(m) \o UnderMember(m, <<>>) \o Release(m)
      [] what = "relate" -> conference_member_get(m) \o conference_member_get(o)
                            \o << <<"relate", m, o>> >> \o Release(m) \o Release(o)
      [] what = "clear"  -> conference_member_get(m) \o member_del_relationship(m) \o Release(m)

(***************************************************************************)
(* Threads.                                                                *)
(***************************************************************************)
Init ==
    /\ now \in Scenarios
    /\ trace = [t \in Threads |-> <<>>]
    /\ doing = [t \in Threads |-> "nothing"]
    /\ owner = [l \in Locks |-> Nobody] /\ depth = [l \in Locks |-> 0]
    /\ readers = [m \in Members |-> {}] /\ writer = [m \in Members |-> Nobody]
    /\ listed = {} /\ related = {} /\ stage = [m \in Members |-> "new"]

LockVars == <<owner, depth, readers, writer>>

Begin(t, name, ops) ==
    /\ trace[t] = <<>>
    /\ trace' = [trace EXCEPT ![t] = ops] /\ UNCHANGED now
    /\ doing' = [doing EXCEPT ![t] = name]

Join(m) ==
    /\ stage[m] = "new" /\ stage' = [stage EXCEPT ![m] = "in"]
    /\ Begin(Call(m), "add", conference_add_member(m))
    /\ UNCHANGED <<LockVars, listed, related>>

Output(m) ==
    /\ stage[m] = "in"
    /\ \/ \E what \in now.turns[m] : Begin(Call(m), "output", OutputTurn(m, what)) /\ UNCHANGED stage
       \/ /\ "write" \in now.faults /\ Begin(Call(m), "output", FailedTurn(m))
          /\ stage' = [stage EXCEPT ![m] = "leaving"]
    /\ UNCHANGED <<LockVars, listed, related>>

\* The input thread runs once the caller is in the loop of the output.
ReadFrame(m) ==
    /\ now.audio /\ stage[m] = "in" /\ m \in listed /\ doing[Call(m)] # "add"
    /\ Begin(Input(m), "input", InputTurn(m))
    /\ UNCHANGED <<LockVars, listed, related, stage>>

\* MFLAG_RUNNING is cleared, or the call is hung up.
Stop(m) ==
    /\ m \in now.leavers /\ stage[m] = "in" /\ trace[Call(m)] = <<>>
    /\ stage' = [stage EXCEPT ![m] = "leaving"]
    /\ UNCHANGED <<now, trace, doing, LockVars, listed, related>>

\* The loop of the output waits for the input thread before it returns.
Leave(m) ==
    /\ stage[m] = "leaving" /\ stage' = [stage EXCEPT ![m] = "left"]
    /\ Begin(Call(m), "del", << <<"wait", Input(m)>> >> \o conference_del_member(m))
    /\ UNCHANGED <<LockVars, listed, related>>

MuxTick == now.audio /\ Begin(Mux, "tick", Tick) /\ UNCHANGED <<LockVars, listed, related, stage>>

Run(a) ==
    /\ \E what \in now.commands, m, o \in Members :
          /\ m # o \/ what # "relate"
          /\ Begin(Admin(a), what, Command(what, m, o))
    /\ UNCHANGED <<LockVars, listed, related, stage>>

(***************************************************************************)
(* Locks.                                                                  *)
(***************************************************************************)
\* The threads for which t waits.
Blockers(t) ==
    IF trace[t] = <<>> THEN {}
    ELSE LET op == Head(trace[t]) IN
         CASE op[1] = "lock"   -> {owner[op[2]]} \ {t, Nobody}
           [] op[1] = "rdlock" -> {writer[op[2]]} \ {Nobody}
           [] op[1] = "wrlock" -> readers[op[2]]
           [] op[1] = "wait"   -> IF trace[op[2]] = <<>> THEN {} ELSE {op[2]}
           [] OTHER            -> {}

Goes(t, ops) == trace' = [trace EXCEPT ![t] = ops]

\* conference_member_get finds only members of the list: a command on one that
\* is not there is over once it has released the list.
Fails(op) == op[1] = "rdlock" /\ op[2] \notin listed

Step(t) ==
    /\ trace[t] # <<>> /\ (Blockers(t) = {} \/ Fails(Head(trace[t])))
    /\ LET op   == Head(trace[t])
           l    == op[2]
           rest == Tail(trace[t])
       IN \/ /\ op[1] = "lock" /\ Goes(t, rest)
             /\ owner' = [owner EXCEPT ![l] = t]
             /\ depth' = [depth EXCEPT ![l] = @ + 1]
             /\ UNCHANGED <<readers, writer, listed, related>>
          \/ /\ op[1] = "unlock" /\ Goes(t, rest)
             /\ depth' = [depth EXCEPT ![l] = @ - 1]
             /\ owner' = [owner EXCEPT ![l] = IF depth[l] = 1 THEN Nobody ELSE t]
             /\ UNCHANGED <<readers, writer, listed, related>>
          \/ /\ op[1] = "rdlock" /\ ~Fails(op) /\ Goes(t, rest)
             /\ readers' = [readers EXCEPT ![l] = @ \cup {t}]
             /\ UNCHANGED <<owner, depth, writer, listed, related>>
          \/ /\ Fails(op)
             /\ Goes(t, Give(L) \o SetToSeq({Release(m)[1] : m \in {x \in Members : t \in readers[x]}}))
             /\ UNCHANGED <<LockVars, listed, related>>
          \/ /\ op[1] = "rdunlock" /\ Goes(t, rest)
             /\ readers' = [readers EXCEPT ![l] = @ \ {t}]
             /\ UNCHANGED <<owner, depth, writer, listed, related>>
          \/ /\ op[1] = "wrlock" /\ Goes(t, rest)
             /\ writer' = [writer EXCEPT ![l] = t]
             /\ UNCHANGED <<owner, depth, readers, listed, related>>
          \/ /\ op[1] = "wrunlock" /\ Goes(t, rest)
             /\ writer' = [writer EXCEPT ![l] = Nobody]
             /\ UNCHANGED <<owner, depth, readers, listed, related>>
          \/ /\ op[1] = "wait" /\ Goes(t, rest)
             /\ UNCHANGED <<LockVars, listed, related>>
          \/ /\ op[1] = "list" /\ Goes(t, rest)
             /\ listed' = listed \cup {l} /\ UNCHANGED <<LockVars, related>>
          \/ /\ op[1] = "unlist" /\ Goes(t, rest)
             /\ listed' = listed \ {l} /\ UNCHANGED <<LockVars, related>>
          \/ /\ op[1] = "relate"
             /\ \E found \in {FALSE} \cup {l \in related} :
                   Goes(t, member_get_relationship(l, op[3])
                           \o (IF found THEN <<>> ELSE member_add_relationship(l)) \o rest)
             /\ UNCHANGED <<LockVars, listed, related>>
          \/ /\ op[1] = "related" /\ Goes(t, rest)
             /\ related' = related \cup {l} /\ UNCHANGED <<LockVars, listed>>
          \/ /\ op[1] = "cleared" /\ Goes(t, rest)
             /\ related' \in {related, related \ {l}} /\ UNCHANGED <<LockVars, listed>>
          \/ /\ op[1] = "each"
             /\ \E order \in SetToSeqs(listed \ op[3]) :
                   Goes(t, FlattenSeq([i \in DOMAIN order |-> Body(l, order[i])]) \o rest)
             /\ UNCHANGED <<LockVars, listed, related>>
    /\ UNCHANGED <<now, doing, stage>>

Next ==
    \/ MuxTick
    \/ \E m \in Members : Join(m) \/ Output(m) \/ ReadFrame(m) \/ Stop(m) \/ Leave(m)
    \/ \E a \in Admins : Run(a)
    \/ \E t \in Threads : Step(t)

Spec == Init /\ [][Next]_vars

(***************************************************************************)
(* Properties.                                                             *)
(***************************************************************************)
\* Every variable has its type, a lock has an owner exactly while it is
\* locked, and no lock is released by a thread that does not own it.
TypeOK ==
    /\ owner \in [Locks -> Threads \cup {Nobody}] /\ depth \in [Locks -> 0..3]
    /\ \A l \in Locks : (depth[l] = 0) = (owner[l] = Nobody)
    /\ \A t \in Threads : trace[t] # <<>> /\ Head(trace[t])[1] = "unlock"
                              => owner[Head(trace[t])[2]] = t
    /\ readers \in [Members -> SUBSET Threads] /\ writer \in [Members -> Threads \cup {Nobody}]
    /\ listed \subseteq Members /\ related \subseteq Members
    /\ stage \in [Members -> {"new", "in", "leaving", "left"}]
    /\ doing \in [Threads -> {"nothing", "add", "output", "input", "del", "tick"} \cup now.commands]

\* A thread waits for a member: for its write_mutex or for its rwlock.
WaitsForMember(t) ==
    LET op == Head(trace[t])
    IN  op[1] \in {"rdlock", "wrlock"} \/ (op[1] = "lock" /\ op[2][1] = "write_mutex")

\* The code can deadlock, but only around a member's write_mutex or rwlock, which
\* conference_loop_output and the commands hold across other locks: in every circle
\* of waiting threads somebody waits for one of these.  The orders in which
\* conference->mutex, member_mutex, the read_mutex and the audio mutexes are taken, and
\* the wait for the input thread, never close a circle by themselves.
DeadlockNeedsMember ==
    LET waiting == {t \in Threads : Blockers(t) # {} /\ ~WaitsForMember(t)}
    IN  \A D \in SUBSET waiting : (\A t \in D : Blockers(t) \cap D # {}) => D = {}
==============================================================================
