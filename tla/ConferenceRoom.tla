--------------------------- MODULE ConferenceRoom ---------------------------
(***************************************************************************)
(* The life of conference objects in mod_conference: how a caller finds or *)
(* creates a room, joins it and leaves it, how the room's own thread winds *)
(* the room down, and what the API, presence and recording threads do to a *)
(* room meanwhile.                                                         *)
(*                                                                         *)
(* A step is a section that the code runs under one mutex (hash_mutex,     *)
(* conference->mutex, member_mutex), or a run of code between two points   *)
(* at which another thread can change what it reads.  The two locks that   *)
(* are held ACROSS steps are state: globals.setup_mutex and the rwlocks of *)
(* conferences and of members.                                             *)
(***************************************************************************)
EXTENDS Integers, FiniteSets

CONSTANTS
    Names,        \* conference names
    Confs,        \* conference objects; one is recycled once nothing refers to it
    Callers,      \* channels executing conference_function
    Recorders,    \* record threads
    Admins,       \* threads that execute an API, chat or presence request
    Bridge,       \* callers that use the "bridge:" prefix
    Secure,       \* callers with enforce_security
    EndConf,      \* callers with MFLAG_ENDCONF
    MinTwo,       \* callers with MFLAG_MINTWO
    MaxMembers,   \* conference->max_members, 0 for no limit
    Events,       \* the failures and external events that may happen
    NoConf,       \* the NULL conference pointer
    NoThread      \* the owner of a free mutex

Members == Callers \cup Recorders
Threads == Members \cup Admins

EventKinds == {"pool",        \* conference_new fails
               "timer_init",  \* the conference thread cannot set up its timer
               "timer",       \* switch_core_timer_next fails in the mux loop
               "mux",         \* writing a member's mux_buffer fails
               "silence",     \* terminate-on-silence expires
               "media",       \* setup_media fails
               "file",        \* a record file cannot be opened or written
               "shutdown"}    \* the module is unloaded

ASSUME RoomAssumption ==
    /\ Bridge \subseteq Callers /\ Secure \subseteq Callers
    /\ EndConf \subseteq Callers /\ MinTwo \subseteq Callers
    /\ Callers \cap Recorders = {} /\ Members \cap Admins = {}
    /\ NoConf \notin Confs /\ NoThread \notin Threads
    /\ MaxMembers \in Nat
    /\ Events \subseteq EventKinds
    /\ IsFiniteSet(Callers) /\ IsFiniteSet(Recorders) /\ IsFiniteSet(Confs)

VARIABLES
    conference_hash,  \* globals.conference_hash
    setup_mutex,      \* owner of globals.setup_mutex
    conf,             \* the conference objects
    thr,              \* where each object's conference_thread_run is
    pc,               \* where each caller, recorder and admin is
    ptr,              \* the conference pointer each of them holds
    want,             \* conf_name of each caller
    flag,             \* MFLAG_RUNNING and MFLAG_KICKED of each member
    held,             \* the member whose rwlock an admin holds for reading
    module,           \* globals.running and the progress of the shutdown
    threads,          \* globals.threads
    fault             \* a conference was used after its pool was destroyed

vars == <<conference_hash, setup_mutex, conf, thr, pc, ptr, want, flag, held,
          module, threads, fault>>

(***************************************************************************)
(* Types.                                                                  *)
(***************************************************************************)
ConfFlags == {"RUNNING", "DYNAMIC", "ENFORCE_MIN", "DESTRUCT", "LOCKED", "INHASH"}
MemberFlags == {"RUNNING", "KICKED"}

ConfRec == [name      : Names,
            flags     : SUBSET ConfFlags,
            count     : Int,
            end_count : Int,
            min       : 0..2,
            members   : SUBSET Members,
            readers   : SUBSET Threads]

\* "free" is no object, or one whose pool was destroyed; "new" an object
\* without a thread; "dead" one whose thread returned at once.
ThrPC == {"free", "new", "starting", "running", "ending", "swept", "unhashed",
          "wrlocked", "unlocked", "dead"}

CallerPC == {"out", "find", "new", "launch", "rdlock", "pin", "check", "dial",
             "dialing", "setup", "adding", "loop", "leaving", "removing", "done",
             "release"}
RecorderPC == {"out", "start", "adding", "loop", "leaving", "release"}
AdminPC == {"out", "probe", "rdlock", "cmd", "getting", "member", "release"}

\* Every variable has its type; the pointers and lock owners of the code are
\* objects and threads of the model or the null values.
TypeOK ==
    /\ conference_hash \in [Names -> Confs \cup {NoConf}]
    /\ setup_mutex \in Callers \cup {NoThread}
    /\ conf \in [Confs -> ConfRec]
    /\ thr \in [Confs -> ThrPC]
    /\ pc \in [Threads -> CallerPC \cup RecorderPC \cup AdminPC]
    /\ ptr \in [Threads -> Confs \cup {NoConf}]
    /\ want \in [Callers -> Names]
    /\ flag \in [Members -> SUBSET MemberFlags]
    /\ held \in [Admins -> Members \cup {NoThread}]
    /\ module \in {"up", "stopping", "down"}
    /\ threads \in Int
    /\ fault \in BOOLEAN

(***************************************************************************)
(* Vocabulary.                                                             *)
(***************************************************************************)
Alive(k) == thr[k] # "free"
Has(k, f) == f \in conf[k].flags
Callers_in(k) == conf[k].members \cap Callers

\* The process neither crashed nor unloaded the module.
Live == ~fault /\ module # "down"

\* The thread x stands at point at, its conference not yet destroyed.
At(x, at) == Live /\ pc[x] = at /\ Alive(ptr[x])
Goto(x, at) == pc' = [pc EXCEPT ![x] = at]

\* The points of the code that dereference the conference pointer.
Dereferences == {"launch", "rdlock", "pin", "check", "dial", "dialing", "setup",
                 "adding", "loop", "leaving", "removing", "done", "start",
                 "probe", "cmd", "member"}

\* rl of conference_function, and the read locks of the other threads.
HoldsReadLock(x) == ptr[x] # NoConf /\ x \in conf[ptr[x]].readers

\* Nobody refers to the object, so malloc may hand out its memory again.
Unreferenced(k) == \A x \in Threads : ptr[x] # k

\* conference->member_mutex is held across steps only by an API command that
\* waits, in conference_member_get, for the rwlock of a member.
MemberMutexFree(k) == \A a \in Admins : pc[a] = "getting" => ptr[a] # k

GlobalVars == <<module, threads, fault>>

(***************************************************************************)
(* conference_find: a conference that is being destroyed is taken out of   *)
(* the registry, so that a namesake can be created beside it.              *)
(***************************************************************************)
Found(n) == conference_hash[n] # NoConf /\ ~Has(conference_hash[n], "DESTRUCT")

\* Mutant: the evicted conference keeps CFLAG_INHASH.
EvictKeepsFlag(n) ==
    /\ conference_hash' = IF conference_hash[n] # NoConf /\ Has(conference_hash[n], "DESTRUCT")
                          THEN [conference_hash EXCEPT ![n] = NoConf] ELSE conference_hash
    /\ UNCHANGED conf

Evict(n) ==
    IF conference_hash[n] # NoConf /\ Has(conference_hash[n], "DESTRUCT")
    THEN /\ conference_hash' = [conference_hash EXCEPT ![n] = NoConf]
         /\ conf' = [conf EXCEPT ![conference_hash[n]].flags = @ \ {"INHASH"}]
    ELSE UNCHANGED <<conference_hash, conf>>

(***************************************************************************)
(* conference_function.                                                    *)
(***************************************************************************)
Blank(n) == [name |-> n, flags |-> {}, count |-> 0, end_count |-> 0, min |-> 0,
             members |-> {}, readers |-> {}]

Enter(c) ==
    /\ Live /\ pc[c] = "out"
    /\ module = "up"
    /\ setup_mutex = NoThread
    /\ setup_mutex' = c
    /\ \E n \in Names : want' = [want EXCEPT ![c] = n]
    /\ Goto(c, "find")
    /\ UNCHANGED <<conference_hash, conf, thr, ptr, flag, held, GlobalVars>>

\* A bridge caller gives up when the name is taken ("already exists!"), and
\* then runs the clean-up of "done:" with the conference it found.
Find(c) ==
    /\ Live /\ pc[c] = "find"
    /\ Evict(want[c])
    /\ IF Found(want[c])
       THEN /\ ptr' = [ptr EXCEPT ![c] = conference_hash[want[c]]]
            /\ setup_mutex' = NoThread
            /\ Goto(c, IF c \in Bridge THEN "done" ELSE "rdlock")
       ELSE /\ Goto(c, "new")
            /\ UNCHANGED <<ptr, setup_mutex>>
    /\ UNCHANGED <<thr, want, flag, held, GlobalVars>>

conference_new(c) ==
    /\ Live /\ pc[c] = "new"
    /\ setup_mutex' = NoThread
    /\ \/ \E k \in Confs :
            /\ ~Alive(k) /\ Unreferenced(k)
            /\ thr' = [thr EXCEPT ![k] = "new"]
            /\ conf' = [conf EXCEPT ![k] = [Blank(want[c]) EXCEPT !.flags = {"INHASH"}]]
            /\ conference_hash' = [conference_hash EXCEPT ![want[c]] = k]
            /\ ptr' = [ptr EXCEPT ![c] = k]
            /\ Goto(c, "launch")
       \/ /\ "pool" \in Events
          /\ Goto(c, "out")
          /\ UNCHANGED <<thr, conf, conference_hash, ptr>>
    /\ UNCHANGED <<want, flag, held, GlobalVars>>

\* The creator completes the object after setup_mutex is released: others may
\* have found it, and even joined it, by now.
Launch(c) ==
    /\ At(c, "launch")
    /\ conf' = [conf EXCEPT ![ptr[c]].min = IF c \in Bridge THEN 2 ELSE 1,
                            ![ptr[c]].flags = @ \cup {"DYNAMIC", "RUNNING"}]
    /\ thr' = [thr EXCEPT ![ptr[c]] = "starting"]
    /\ Goto(c, IF c \in Bridge THEN "dial" ELSE "rdlock")
    /\ UNCHANGED <<conference_hash, setup_mutex, ptr, want, flag, held, GlobalVars>>

\* switch_thread_rwlock_tryrdlock(conference->rwlock): it fails only while the
\* conference thread holds the lock for writing.
TryRdLock(x, locked, refused) ==
    IF thr[ptr[x]] = "wrlocked"
    THEN Goto(x, refused) /\ UNCHANGED conf
    ELSE /\ conf' = [conf EXCEPT ![ptr[x]].readers = @ \cup {x}]
         /\ Goto(x, locked)

RdUnlock(x) == conf' = [conf EXCEPT ![ptr[x]].readers = @ \ {x}]

RdLock(c) ==
    /\ At(c, "rdlock")
    /\ TryRdLock(c, "pin", "done")
    /\ UNCHANGED <<conference_hash, setup_mutex, thr, ptr, want, flag, held, GlobalVars>>

\* The PIN dialogue lasts seconds; only its outcome matters here.
EnterPin(c) ==
    /\ At(c, "pin")
    /\ \E next \in {"check"} \cup (IF c \in Secure THEN {"done"} ELSE {}) : Goto(c, next)
    /\ UNCHANGED <<conference_hash, setup_mutex, conf, thr, ptr, want, flag, held, GlobalVars>>

Refused(c, k) ==
    \/ Has(k, "LOCKED") /\ c \in Secure
    \/ MaxMembers > 0 /\ conf[k].count >= MaxMembers

Check(c) ==
    /\ At(c, "check")
    /\ Goto(c, IF Refused(c, ptr[c]) THEN "done" ELSE "setup")
    /\ UNCHANGED <<conference_hash, setup_mutex, conf, thr, ptr, want, flag, held, GlobalVars>>

\* conference_outcall for a bridge caller, unless the target is "none".
Dial(c) ==
    /\ At(c, "dial")
    /\ \/ TryRdLock(c, "dialing", "done")
       \/ Goto(c, "setup") /\ UNCHANGED conf
    /\ UNCHANGED <<conference_hash, setup_mutex, thr, ptr, want, flag, held, GlobalVars>>

\* The originate succeeded or failed.  "Conference is gone now" leaves status
\* at SUCCESS, so it is no reason for conference_function to give up.
Dialed(c) ==
    /\ At(c, "dialing")
    /\ RdUnlock(c)
    /\ \E next \in {"setup", "done"} : Goto(c, next)
    /\ UNCHANGED <<conference_hash, setup_mutex, thr, ptr, want, flag, held, GlobalVars>>

\* Mutant: MINTWO adds to the minimum instead of setting it.
SetupRaisesMin(c) ==
    /\ At(c, "setup")
    /\ flag' = [flag EXCEPT ![c] = {"RUNNING"}]
    /\ conf' = IF c \in MinTwo THEN [conf EXCEPT ![ptr[c]].min = @ + 1] ELSE conf
    /\ Goto(c, "adding")
    /\ UNCHANGED <<conference_hash, setup_mutex, thr, ptr, want, held, GlobalVars>>

Setup(c) ==
    /\ At(c, "setup")
    /\ \/ /\ flag' = [flag EXCEPT ![c] = {"RUNNING"}]
          /\ conf' = IF c \in MinTwo THEN [conf EXCEPT ![ptr[c]].min = 2] ELSE conf
          /\ Goto(c, "adding")
       \/ /\ "media" \in Events
          /\ Goto(c, "done")
          /\ UNCHANGED <<flag, conf>>
    /\ UNCHANGED <<conference_hash, setup_mutex, thr, ptr, want, held, GlobalVars>>

\* Mutant: whoever joins a conference that is about to end revives it.
AddedRevives(k, c) ==
    [k EXCEPT !.members = @ \cup {c}, !.count = @ + 1, !.flags = @ \ {"DESTRUCT"}]

\* conference_add_member for a member with a channel.
Added(k, c) ==
    LET n == k.count + 1
    IN  [k EXCEPT !.members = @ \cup {c},
                  !.count = n,
                  !.end_count = IF c \in EndConf THEN @ + 1 ELSE @,
                  !.flags = IF k.min > 0 /\ n >= k.min THEN @ \cup {"ENFORCE_MIN"} ELSE @]

conference_add_member(c) ==
    /\ At(c, "adding")
    /\ MemberMutexFree(ptr[c])
    /\ conf' = [conf EXCEPT ![ptr[c]] = Added(@, c)]
    /\ Goto(c, "loop")
    /\ UNCHANGED <<conference_hash, setup_mutex, thr, ptr, want, flag, held, GlobalVars>>

\* conference_loop_output returns because somebody cleared MFLAG_RUNNING ...
LoopStopped(c) ==
    /\ At(c, "loop")
    /\ "RUNNING" \notin flag[c]
    /\ Goto(c, "leaving")
    /\ UNCHANGED <<conference_hash, setup_mutex, conf, thr, ptr, want, flag, held, GlobalVars>>

\* ... or because the channel is no longer ready.
Hangup(c) ==
    /\ At(c, "loop")
    /\ "RUNNING" \in flag[c]
    /\ flag' = [flag EXCEPT ![c] = @ \ {"RUNNING"}]
    /\ Goto(c, "leaving")
    /\ UNCHANGED <<conference_hash, setup_mutex, conf, thr, ptr, want, held, GlobalVars>>

\* conference_del_member for a member with a channel.
\* Mutant: only the last caller ends a room.
EndsWhenEmpty(k, c) == "DYNAMIC" \in k.flags /\ k.count = 1

EndsRoom(k, c) ==
    \/ c \in EndConf /\ k.end_count = 1
    \/ k.min > 0 /\ "ENFORCE_MIN" \in k.flags /\ k.count - 1 < k.min
    \/ "DYNAMIC" \in k.flags /\ k.count = 1

\* Mutant: end_count is not decremented.
DeletedKeepsEndCount(k, c) ==
    [k EXCEPT !.members = @ \ {c}, !.count = @ - 1,
              !.flags = IF EndsRoom(k, c) THEN @ \cup {"DESTRUCT"} ELSE @]

Deleted(k, c) ==
    [k EXCEPT !.members = @ \ {c},
              !.count = @ - 1,
              !.end_count = IF c \in EndConf THEN @ - 1 ELSE @,
              !.flags = IF EndsRoom(k, c) THEN @ \cup {"DESTRUCT"} ELSE @]

\* Mutant: a member leaves without its write lock.
NobodyWaits(m) == m \in Members

\* switch_thread_rwlock_wrlock(member->rwlock) waits for the API commands that
\* are using the member.
NobodyHolds(m) == \A a \in Admins : held[a] # m

\* conference_del_member locks the member for writing first of all ...
WrLockMember(c) ==
    /\ At(c, "leaving")
    /\ NobodyHolds(c)
    /\ Goto(c, "removing")
    /\ UNCHANGED <<conference_hash, setup_mutex, conf, thr, ptr, want, flag, held, GlobalVars>>

\* ... and only then the mutexes of the conference.
conference_del_member(c) ==
    /\ At(c, "removing")
    /\ MemberMutexFree(ptr[c])
    /\ conf' = [conf EXCEPT ![ptr[c]] = Deleted(@, c)]
    /\ Goto(c, "done")
    /\ UNCHANGED <<conference_hash, setup_mutex, thr, ptr, want, flag, held, GlobalVars>>

\* Mutant: the clean-up leaves the marking to conference_del_member.
DoneUnmarked(c) ==
    /\ At(c, "done")
    /\ Goto(c, "release")
    /\ UNCHANGED <<conference_hash, setup_mutex, conf, thr, ptr, want, flag, held, GlobalVars>>

\* The clean-up every caller with a conference pointer runs, whether or not it
\* ever was a member.
Done(c) ==
    /\ At(c, "done")
    /\ conf' = IF Has(ptr[c], "DYNAMIC") /\ conf[ptr[c]].count = 0
               THEN [conf EXCEPT ![ptr[c]].flags = @ \cup {"DESTRUCT"}]
               ELSE conf
    /\ Goto(c, "release")
    /\ UNCHANGED <<conference_hash, setup_mutex, thr, ptr, want, flag, held, GlobalVars>>

\* The kicked sound and the release of the read lock still use the conference.
NeedsConf(x) == HoldsReadLock(x) \/ (x \in Members /\ "KICKED" \in flag[x])

Release(c) ==
    /\ Live /\ pc[c] = "release"
    /\ NeedsConf(c) => Alive(ptr[c])
    /\ RdUnlock(c)
    /\ ptr' = [ptr EXCEPT ![c] = NoConf]
    /\ flag' = [flag EXCEPT ![c] = {}]
    /\ Goto(c, "out")
    /\ UNCHANGED <<conference_hash, setup_mutex, thr, want, held, GlobalVars>>

(***************************************************************************)
(* conference_thread_run.                                                  *)
(***************************************************************************)
Thread(k, from, to) == Live /\ thr[k] = from /\ thr' = [thr EXCEPT ![k] = to]

\* Mutant: the thread counts itself before it has its timer.
CountedBeforeTimer(k) ==
    /\ \/ Thread(k, "starting", "running")
       \/ "timer_init" \in Events /\ Thread(k, "starting", "dead")
    /\ threads' = threads + 1
    /\ UNCHANGED <<conference_hash, setup_mutex, conf, pc, ptr, want, flag, held, module, fault>>

ThreadStart(k) ==
    /\ \/ Thread(k, "starting", "running") /\ threads' = threads + 1
       \/ "timer_init" \in Events /\ Thread(k, "starting", "dead") /\ UNCHANGED threads
    /\ UNCHANGED <<conference_hash, setup_mutex, conf, pc, ptr, want, flag, held, module, fault>>

\* The mixed audio could not be written to the mux_buffer of a running member.
MuxFails(k) == "mux" \in Events /\ \E m \in conf[k].members : "RUNNING" \in flag[m]

ThreadLoopEnds(k) ==
    /\ \/ (module # "up" \/ Has(k, "DESTRUCT")) /\ UNCHANGED conf
       \/ MuxFails(k) /\ UNCHANGED conf
       \/ /\ "timer" \in Events
          /\ conf' = [conf EXCEPT ![k].flags = @ \cup {"DESTRUCT"}]
    /\ Thread(k, "running", "ending")
    /\ UNCHANGED <<conference_hash, setup_mutex, pc, ptr, want, flag, held, GlobalVars>>

Silence(k) ==
    /\ "silence" \in Events
    /\ Live /\ thr[k] = "running" /\ conf[k].count > 1
    /\ conf' = [conf EXCEPT ![k].flags = @ \cup {"DESTRUCT"}]
    /\ UNCHANGED <<conference_hash, setup_mutex, thr, pc, ptr, want, flag, held, GlobalVars>>

\* Mutant: the members are not told to stop.
SweepNobody(k) ==
    /\ Thread(k, "ending", "swept")
    /\ UNCHANGED <<conference_hash, setup_mutex, conf, pc, ptr, want, flag, held, GlobalVars>>

\* Every member that is in the list now is hung up and told to stop.
Sweep(k) ==
    /\ Thread(k, "ending", "swept")
    /\ MemberMutexFree(k)
    /\ flag' = [m \in Members |-> IF m \in conf[k].members
                                  THEN flag[m] \ {"RUNNING"} ELSE flag[m]]
    /\ UNCHANGED <<conference_hash, setup_mutex, conf, pc, ptr, want, held, GlobalVars>>

\* Mutant: the entry is never deleted.
UnhashForgets(k) ==
    /\ Thread(k, "swept", "unhashed")
    /\ conf' = [conf EXCEPT ![k].flags = @ \ {"RUNNING"}]
    /\ UNCHANGED <<conference_hash, setup_mutex, pc, ptr, want, flag, held, GlobalVars>>

\* The entry is deleted by name, and only if it still is this conference's own.
Unhash(k) ==
    /\ Thread(k, "swept", "unhashed")
    /\ conference_hash' = IF Has(k, "INHASH")
                          THEN [conference_hash EXCEPT ![conf[k].name] = NoConf]
                          ELSE conference_hash
    /\ conf' = [conf EXCEPT ![k].flags = @ \ {"RUNNING"}]
    /\ UNCHANGED <<setup_mutex, pc, ptr, want, flag, held, GlobalVars>>

\* Mutant: the write lock is taken beside readers.
WrLockAnyway(k) ==
    /\ Thread(k, "unhashed", "wrlocked")
    /\ UNCHANGED <<conference_hash, setup_mutex, conf, pc, ptr, want, flag, held, GlobalVars>>

\* The thread waits for everybody that has the read lock.
WrLock(k) ==
    /\ conf[k].readers = {}
    /\ Thread(k, "unhashed", "wrlocked")
    /\ UNCHANGED <<conference_hash, setup_mutex, conf, pc, ptr, want, flag, held, GlobalVars>>

WrUnlock(k) ==
    /\ Thread(k, "wrlocked", "unlocked")
    /\ UNCHANGED <<conference_hash, setup_mutex, conf, pc, ptr, want, flag, held, GlobalVars>>

\* switch_core_destroy_memory_pool.  What a thread believes to hold of the lock
\* (readers) outlives the object.
Destroy(k) ==
    /\ Thread(k, "unlocked", "free")
    /\ conf' = [conf EXCEPT ![k] = [Blank(@.name) EXCEPT !.readers = conf[k].readers]]
    /\ threads' = threads - 1
    /\ UNCHANGED <<conference_hash, setup_mutex, pc, ptr, want, flag, held, module, fault>>

(***************************************************************************)
(* conference_record_thread_run.                                           *)
(***************************************************************************)
RecordStart(r) ==
    /\ At(r, "start")
    /\ TryRdLock(r, "adding", "out")
    /\ IF thr[ptr[r]] = "wrlocked"
       THEN ptr' = [ptr EXCEPT ![r] = NoConf] /\ UNCHANGED threads
       ELSE threads' = threads + 1 /\ UNCHANGED ptr
    /\ UNCHANGED <<conference_hash, setup_mutex, thr, want, flag, held, module, fault>>

\* conference_add_member of a member with MFLAG_NOCHANNEL.
RecordAdd(r) ==
    /\ At(r, "adding")
    /\ MemberMutexFree(ptr[r])
    /\ conf' = [conf EXCEPT ![ptr[r]].members = @ \cup {r}]
    /\ flag' = [flag EXCEPT ![r] = {"RUNNING"}]
    /\ Goto(r, "loop")
    /\ UNCHANGED <<conference_hash, setup_mutex, thr, ptr, want, held, GlobalVars>>

RecordStop(r) ==
    /\ At(r, "loop")
    /\ \/ "RUNNING" \notin flag[r]
       \/ ~Has(ptr[r], "RUNNING")
       \/ conf[ptr[r]].count = 0
       \/ "file" \in Events
    /\ Goto(r, "leaving")
    /\ UNCHANGED <<conference_hash, setup_mutex, conf, thr, ptr, want, flag, held, GlobalVars>>

RecordDel(r) ==
    /\ At(r, "leaving")
    /\ NobodyHolds(r)
    /\ MemberMutexFree(ptr[r])
    /\ conf' = [conf EXCEPT ![ptr[r]].members = @ \ {r}]
    /\ flag' = [flag EXCEPT ![r] = {}]
    /\ Goto(r, "release")
    /\ UNCHANGED <<conference_hash, setup_mutex, thr, ptr, want, held, GlobalVars>>

RecordRelease(r) ==
    /\ At(r, "release")
    /\ RdUnlock(r)
    /\ ptr' = [ptr EXCEPT ![r] = NoConf]
    /\ threads' = threads - 1
    /\ Goto(r, "out")
    /\ UNCHANGED <<conference_hash, setup_mutex, thr, want, flag, held, module, fault>>

(***************************************************************************)
(* API commands (conf_api_main), chat messages and presence probes.  The   *)
(* last two use the conference without any lock on it.                     *)
(***************************************************************************)
AdminFind(a) ==
    /\ Live /\ pc[a] = "out"
    /\ module = "up"
    /\ \E n \in Names :
        /\ Evict(n)
        /\ IF Found(n)
           THEN /\ ptr' = [ptr EXCEPT ![a] = conference_hash[n]]
                /\ \E next \in {"rdlock", "probe"} : Goto(a, next)
           ELSE UNCHANGED <<ptr, pc>>
    /\ UNCHANGED <<setup_mutex, thr, want, flag, held, GlobalVars>>

Probe(a) ==
    /\ At(a, "probe")
    /\ ptr' = [ptr EXCEPT ![a] = NoConf]
    /\ Goto(a, "out")
    /\ UNCHANGED <<conference_hash, setup_mutex, conf, thr, want, flag, held, GlobalVars>>

AdminRdLock(a) ==
    /\ At(a, "rdlock")
    /\ TryRdLock(a, "cmd", "release")
    /\ UNCHANGED <<conference_hash, setup_mutex, thr, ptr, want, flag, held, GlobalVars>>

\* conf_api_sub_lock and conf_api_sub_unlock.
LockRoom(a) ==
    /\ At(a, "cmd")
    /\ \E f \in {conf[ptr[a]].flags \cup {"LOCKED"}, conf[ptr[a]].flags \ {"LOCKED"}} :
        conf' = [conf EXCEPT ![ptr[a]].flags = f]
    /\ Goto(a, "release")
    /\ UNCHANGED <<conference_hash, setup_mutex, thr, ptr, want, flag, held, GlobalVars>>

\* conf_api_sub_kick, or conf_api_sub_hup, of a set of members.
Stop(kicked, hungup) ==
    flag' = [m \in Members |-> CASE m \in kicked -> (flag[m] \ {"RUNNING"}) \cup {"KICKED"}
                                 [] m \in hungup -> flag[m] \ {"RUNNING"}
                                 [] OTHER -> flag[m]]

\* Commands run under member_mutex: on "all", every member with a channel
\* (conference_member_itterator), or on "last", the one with the highest id.
Targets(k) == {Callers_in(k)} \cup {{m} : m \in Callers_in(k)}

StopAll(a) ==
    /\ At(a, "cmd")
    /\ MemberMutexFree(ptr[a])
    /\ \E ms \in Targets(ptr[a]) : Stop(ms, {}) \/ Stop({}, ms)
    /\ Goto(a, "release")
    /\ UNCHANGED <<conference_hash, setup_mutex, conf, thr, ptr, want, held, GlobalVars>>

\* conference_member_get waits for the member's rwlock with member_mutex held.
\* A member that is being removed keeps that rwlock until it has the mutex, so
\* there is no step that ends this wait ("getting").
MemberGet(a) ==
    /\ At(a, "cmd")
    /\ MemberMutexFree(ptr[a])
    /\ \/ \E m \in Callers_in(ptr[a]) :
            IF pc[m] = "removing"
            THEN Goto(a, "getting") /\ UNCHANGED held
            ELSE held' = [held EXCEPT ![a] = m] /\ Goto(a, "member")
       \/ Goto(a, "release") /\ UNCHANGED held
    /\ UNCHANGED <<conference_hash, setup_mutex, conf, thr, ptr, want, flag, GlobalVars>>

\* Mutant: the command does not unlock the member.
StopMemberKeepsLock(a) ==
    /\ At(a, "member")
    /\ \/ Stop({held[a]}, {})
       \/ Stop({}, {held[a]})
    /\ Goto(a, "release")
    /\ UNCHANGED <<conference_hash, setup_mutex, conf, thr, ptr, want, held, GlobalVars>>

\* ... and the command on that member.
StopMember(a) ==
    /\ At(a, "member")
    /\ \/ Stop({held[a]}, {})
       \/ Stop({}, {held[a]})
    /\ held' = [held EXCEPT ![a] = NoThread]
    /\ Goto(a, "release")
    /\ UNCHANGED <<conference_hash, setup_mutex, conf, thr, ptr, want, GlobalVars>>

\* conf_api_sub_record hands the bare pointer to a new thread.
Record(a) ==
    /\ At(a, "cmd")
    /\ \E r \in Recorders :
        /\ pc[r] = "out"
        /\ pc' = [pc EXCEPT ![a] = "release", ![r] = "start"]
        /\ ptr' = [ptr EXCEPT ![r] = ptr[a]]
    /\ UNCHANGED <<conference_hash, setup_mutex, conf, thr, want, flag, held, GlobalVars>>

\* conf_api_sub_norecord.
NoRecord(a) ==
    /\ At(a, "cmd")
    /\ MemberMutexFree(ptr[a])
    /\ \E stopped \in SUBSET (conf[ptr[a]].members \cap Recorders) : Stop({}, stopped)
    /\ Goto(a, "release")
    /\ UNCHANGED <<conference_hash, setup_mutex, conf, thr, ptr, want, held, GlobalVars>>

AdminRelease(a) ==
    /\ Live /\ pc[a] = "release"
    /\ NeedsConf(a) => Alive(ptr[a])
    /\ RdUnlock(a)
    /\ ptr' = [ptr EXCEPT ![a] = NoConf]
    /\ Goto(a, "out")
    /\ UNCHANGED <<conference_hash, setup_mutex, thr, want, flag, held, GlobalVars>>

(***************************************************************************)
(* mod_conference_shutdown.  An unload is refused while an application or  *)
(* API call of the module is executing.                                    *)
(***************************************************************************)
Shutdown ==
    /\ Live /\ "shutdown" \in Events
    /\ module = "up"
    /\ \A x \in Callers \cup Admins : pc[x] = "out"
    /\ module' = "stopping"
    /\ UNCHANGED <<conference_hash, setup_mutex, conf, thr, pc, ptr, want, flag, held, threads, fault>>

ShutdownDone ==
    /\ Live /\ module = "stopping"
    /\ threads = 0
    /\ module' = "down"
    /\ UNCHANGED <<conference_hash, setup_mutex, conf, thr, pc, ptr, want, flag, held, threads, fault>>

(***************************************************************************)
(* A conference used after its pool was destroyed: the process is assumed  *)
(* to stop there.                                                          *)
(***************************************************************************)
UseAfterFree(x) ==
    /\ Live /\ ptr[x] # NoConf /\ ~Alive(ptr[x])
    /\ \/ pc[x] \in Dereferences
       \/ pc[x] = "release" /\ (x \in Recorders \/ NeedsConf(x))
    /\ fault' = TRUE
    /\ UNCHANGED <<conference_hash, setup_mutex, conf, thr, pc, ptr, want, flag, held, module, threads>>

Halted == ~Live /\ UNCHANGED vars

-----------------------------------------------------------------------------
Init ==
    \E n \in Names :
    /\ conference_hash = [x \in Names |-> NoConf]
    /\ setup_mutex = NoThread
    /\ conf = [k \in Confs |-> Blank(n)]
    /\ thr = [k \in Confs |-> "free"]
    /\ pc = [x \in Threads |-> "out"]
    /\ ptr = [x \in Threads |-> NoConf]
    /\ want = [c \in Callers |-> n]
    /\ flag = [m \in Members |-> {}]
    /\ held = [a \in Admins |-> NoThread]
    /\ module = "up"
    /\ threads = 0
    /\ fault = FALSE

\* Steps of a caller that nothing but the code itself delays for ever.
CallerStep(c) ==
    \/ Find(c) \/ conference_new(c) \/ Launch(c) \/ RdLock(c) \/ EnterPin(c)
    \/ Check(c) \/ Dial(c) \/ Dialed(c) \/ Setup(c) \/ conference_add_member(c)
    \/ LoopStopped(c) \/ WrLockMember(c) \/ conference_del_member(c) \/ Done(c) \/ Release(c)

ThreadStep(k) ==
    \/ ThreadStart(k) \/ ThreadLoopEnds(k) \/ Sweep(k) \/ Unhash(k) \/ WrLock(k)
    \/ WrUnlock(k) \/ Destroy(k)

RecorderStep(r) ==
    RecordStart(r) \/ RecordAdd(r) \/ RecordStop(r) \/ RecordDel(r) \/ RecordRelease(r)

Command(a) ==
    LockRoom(a) \/ StopAll(a) \/ MemberGet(a) \/ Record(a) \/ NoRecord(a)

AdminStep(a) ==
    Probe(a) \/ AdminRdLock(a) \/ Command(a) \/ StopMember(a) \/ AdminRelease(a)

Next ==
    \/ \E c \in Callers : Enter(c) \/ CallerStep(c) \/ Hangup(c)
    \/ \E k \in Confs : ThreadStep(k) \/ Silence(k)
    \/ \E r \in Recorders : RecorderStep(r)
    \/ \E a \in Admins : AdminFind(a) \/ AdminStep(a)
    \/ \E x \in Threads : UseAfterFree(x)
    \/ Shutdown \/ ShutdownDone \/ Halted

Spec == Init /\ [][Next]_vars

\* Threads are scheduled and mutexes are fair enough: whatever a thread can go
\* on doing it does.  Nobody has to call, to hang up or to send a command; the
\* PIN dialogue and an originate end by their own timeouts.  The write lock of a
\* leaving member is not starved by API commands about that member.
Fairness ==
    /\ \A c \in Callers : WF_vars(CallerStep(c)) /\ SF_vars(WrLockMember(c))
    /\ \A k \in Confs : WF_vars(ThreadStep(k))
    /\ \A r \in Recorders : WF_vars(RecorderStep(r))
    /\ \A a \in Admins : WF_vars(AdminStep(a))
    /\ \A x \in Threads : WF_vars(UseAfterFree(x))
    /\ WF_vars(ShutdownDone)

FairSpec == Spec /\ Fairness

(***************************************************************************)
(* Properties.                                                             *)
(***************************************************************************)
BeforeUnhash == {"new", "starting", "running", "ending", "swept", "dead"}

\* conference_find dereferences what it finds: an entry of the registry is a
\* conference whose pool is intact, of that very name, that knows that it is
\* registered and whose thread has not yet passed its own clean-up of the hash.
RegistrySound ==
    \A n \in Names : LET k == conference_hash[n] IN
        k # NoConf => /\ thr[k] \in BeforeUnhash
                      /\ conf[k].name = n
                      /\ Has(k, "INHASH")

\* The converse, for the deletion by name at the end of conference_thread_run: a
\* conference that believes to be registered is the one its name leads to, so
\* the ending thread of an evicted conference never takes out its namesake.
RegisteredIsFound ==
    \A k \in Confs :
        thr[k] \in BeforeUnhash /\ Has(k, "INHASH") => conference_hash[conf[k].name] = k

\* The thread of a room tells its members apart by the counters only: count is
\* the number of callers in the list and end_count that of the ENDCONF callers,
\* through every interleaving of joins, failed joins, kicks and recordings.
CountsAgree ==
    \A k \in Confs : Alive(k) =>
        /\ conf[k].count = Cardinality(Callers_in(k))
        /\ conf[k].end_count = Cardinality(Callers_in(k) \cap EndConf)

\* Somebody has to end a dynamic room: one that has a thread, and that no
\* caller is in or on the way into, is marked for destruction.  The "done:"
\* clean-up of callers that never became members is there for this.
NoOrphan ==
    \A k \in Confs :
        /\ thr[k] \in {"starting", "running", "dead"}
        /\ \A c \in Callers : ptr[c] # k
        => Has(k, "DESTRUCT")

\* "once you go above it you cannot go below it": a room that has reached its
\* minimum and has fewer callers now is marked for destruction, unless a
\* MINTWO caller has just raised the minimum and is about to join.
EnforcedMinimum ==
    \A k \in Confs :
        Alive(k) /\ Has(k, "ENFORCE_MIN") /\ conf[k].count < conf[k].min =>
            \/ Has(k, "DESTRUCT")
            \/ \E c \in MinTwo : ptr[c] = k /\ pc[c] = "adding"

\* What an API command works on stays in the member list until the command has
\* released the member's rwlock: conference_del_member waits for it.
HeldMemberInList ==
    \A a \in Admins : held[a] # NoThread /\ Alive(ptr[a]) =>
        held[a] \in conf[ptr[a]].members

\* Where a thread relies on the read lock: a caller from the PIN dialogue to the end
\* of its membership, a bridge caller only while it dials, a recording and a command
\* as long as they run.
Guarded(x) ==
    \/ x \in Callers /\ pc[x] = "dialing"
    \/ /\ x \in Callers \ Bridge
       /\ pc[x] \in {"pin", "check", "setup", "adding", "loop", "leaving", "removing"}
    \/ x \in Recorders /\ pc[x] \in {"adding", "loop", "leaving", "release"}
    \/ x \in Admins /\ pc[x] \in {"cmd", "getting", "member"}

\* When conference_thread_run has the rwlock for writing, just before it destroys the
\* pool, nobody relies on the read lock any more: no command is at work on the
\* conference, and its list has no recording and no caller but bridge callers, who
\* talk without the lock.
WriterAlone ==
    \A k \in Confs : thr[k] = "wrlocked" =>
        /\ \A x \in Threads : ptr[x] = k => ~Guarded(x)
        /\ conf[k].members \subseteq Bridge

\* mod_conference_shutdown waits for globals.threads, a number kept by the
\* threads themselves: it is the number of conference threads past their start
\* and not yet gone, and of record threads that got their lock.
ThreadsCounted ==
    threads =
        Cardinality({k \in Confs : thr[k] \in {"running", "ending", "swept", "unhashed",
                                               "wrlocked", "unlocked"}})
        + Cardinality({r \in Recorders : pc[r] \in {"adding", "loop", "leaving", "release"}})

\* A member that was told to stop (kicked, hung up, swept) leaves the list, unless
\* a command waits for it, or for another member, with the list locked.
StoppedMemberLeaves ==
    \A c \in Callers :
        (pc[c] = "loop" /\ "RUNNING" \notin flag[c]) ~>
            (pc[c] \notin {"loop", "leaving", "removing"} \/ ~MemberMutexFree(ptr[c]) \/ fault)

\* A caller that is on its way into the room when the thread of the room has
\* just told the members to leave.
LateCaller(k) ==
    /\ thr[k] = "swept"
    /\ \E c \in Callers : /\ ptr[c] = k
                          /\ pc[c] \in {"launch", "rdlock", "pin", "check", "dial",
                                        "dialing", "setup", "adding"}

\* A room that is marked for destruction is destroyed, unless a caller is so
\* late that the thread has already told everybody else to leave.
DestructionEnds ==
    \A k \in Confs :
        (thr[k] \in {"starting", "running", "ending"} /\ Has(k, "DESTRUCT")) ~>
            (~Alive(k) \/ LateCaller(k) \/ ~MemberMutexFree(k) \/ fault \/ module = "down")
=============================================================================
