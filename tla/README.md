# A verification model of mod_conference

The repository is FreeSWITCH with an extended `mod_conference`. The logic that is
particular to it, and hard to test, is in one file,
`src/mod/applications/mod_conference/mod_conference.c` (7337 lines, called *the
source* below; line numbers are of that file). It mixes audio between the callers of
named *rooms* (conferences). A room is created by the first caller of a name and
destroyed by its own thread after the last one has left, while other threads (API
commands, chat, presence, recordings, outbound calls, module unload) find it by name,
lock it and work on it. Nearly everything that can go wrong goes wrong in the order in
which these threads meet. That is what the TLA+ modules are about.

## Inventory

| Component | State it keeps | Operations | Meets |
|---|---|---|---|
| Registry | `globals.conference_hash`, `hash_mutex`, `setup_mutex`, `CFLAG_INHASH` | `conference_find` (and eviction), insertion in `conference_new`, deletion at the end of `conference_thread_run` | callers, API, chat, presence, conference threads |
| Caller | the stack frame of `conference_function`: conference pointer, read lock, `conference_member_t` | find or create, launch, PIN, locked/full checks, bridge dial-out, media set-up, join, output loop, leave, clean-up | the room's lock, list, counters and flags |
| Conference thread | `CFLAG_DESTRUCT`, `CFLAG_RUNNING`, timer, `globals.threads` | mux loop; wind-down: stop files, sweep members, unregister, wait for readers, destroy | everything that holds a pointer to the room |
| Member list | `members`, `count`, `end_count`, `min`, `CFLAG_ENFORCE_MIN`, `member->rwlock`, `member_mutex` | `conference_add_member`, `conference_del_member`, `conference_member_get`, iterators | callers, recorders, API |
| Recorder | a member with `MFLAG_NOCHANNEL` and a thread, `record_count`, `is_recording` | start, join, write, leave | room lock, list, `globals.threads` |
| API, chat, presence | a looked-up room and perhaps a locked member | dispatch, about thirty commands | rooms, members, recorders |
| Outbound calls | `originating`, `CFLAG_OUTCALL`, `cancel_cause` | `conference_outcall`, `conference_outcall_bg` | callers, wind-down |
| Module | `globals.running`, `globals.threads` | load, shutdown | all threads |
| Mixing | member frames, `mux_buffer`, file frames | the tick, 1183-1486 | conference and output threads |
| Talk detection, AGC | `score`, hang counters, volume, gate | `conference_loop_input` | floor holder, commands |
| Floor | `floor_holder` | joins, leaves, talkers, failing video reads | video thread |
| Relationships | `relationships`, `relationship_total` | relate | mixing |
| File and speech queues | `fnode`, `async_fnode`, the speech handle | play, say, stop | conference thread, callers, API |
| Video | `video_running`, floor | video thread and bridge | wind-down |
| Flag words | `flags`, `flag_mutex` of rooms and members | locked and unlocked updates | everybody |
| Caller controls | `dmachine` | `conference_loop_fn_*` | member flags |
| Listings, events, configuration | none | formatting and parsing | |

Hard behaviours, by component:

* *Registry*: a room whose destruction is decided stays alive for a while beside a new
  room of the same name, and is deleted by name. Correct when the entry of a name is the
  room of that name that believes to be registered, and nothing else.
* *Caller and conference thread*: the room pointer outlives `hash_mutex`; the read lock
  is taken later; a caller can fail at each of a dozen points and its clean-up may have
  to end a room that never had a member, or must not end one that is about to get one.
  Correct when a room that nobody is in or heading for ends, and one with callers is not
  destroyed under them.
* *Member list*: counters kept by different callers decide about the end of the room.
  Correct when they agree with the list.
* *API*: works on a member found earlier while that member leaves. Correct when the
  member stays until the command has let go, and the two never wait for each other.
* *Shutdown*: waits for a number that the threads keep themselves.
* *Locks*: six kinds of mutex and two kinds of rwlock, taken in orders that differ from
  function to function. It would be correct if nobody waited in a circle; the code does
  deadlock in known places, so the question is whether it does so anywhere else.
* *Flag words*: locked and unlocked read-modify-write cycles of the same word. Correct
  when the flags on which the end of a room and its registry entry depend survive lost
  updates. The members' words have no such rule.
* *Video, outcalls, recordings, files*: threads that the wind-down must wait for, that
  have to come to an end although the thing they wait for was decided elsewhere, and that
  use buffers, handles and nodes which somebody else frees.
* *Mixing and talk detection*: arithmetic at the limits of its range, on data that
  changes between two tests of it.

`PROJECT.json` lists the hazards line by line, with the properties that cover them and,
where a property has an exception or none is possible, a note.

## Modules

| Module | Contents |
|---|---|
| `ConferenceRoom` | the life of rooms: registry, callers, conference threads, recordings as members, API, shutdown |
| `RoomDirectory` | what the registry promises, without locks, threads or pointers |
| `ConferenceRoomDirectory` | the refinement mapping from `ConferenceRoom` to `RoomDirectory` |
| `ConferenceRoomProofs` | the proofs about `ConferenceRoom` and its refinement of `RoomDirectory` |
| `ConferenceLocks` | the lock traces of the functions, and who waits for whom |
| `ConferenceFlags` | the flag word of a conference, updated with and without its mutex, and its registry entry |
| `ConferenceFloor` | the member list in its order, the floor holder, the input threads |
| `ConferenceMix` | one tick of the mux: read, lay files over each other, sum, subtract, cut off |
| `ConferenceTalk` | talk detection, noise gate and gain control of one member |
| `ConferenceFiles` | the file queue, the asynchronous file and the speech handle |
| `ConferenceRecord` | record threads, record and norecord, the automatic recording |
| `ConferenceVideo` | the video thread, the video bridge and the wind-down's wait |
| `ConferenceOutcall` | background outcalls, the caller and the wind-down that wait for them |
| `ConferenceMuxProofs` | the proofs about `ConferenceFiles` and `ConferenceMix`, what the mux plays and what it sends |
| `Conference...Proofs` | the proofs about the module of that name (flags, floor, talk, record, video, outcall) |
| `MC...` | the instances for TLC: symmetry, scenarios, sample values |

`ConferenceRoom` is the composition of everything that decides whether a room exists. The
other modules each take one concern of one room, at the granularity that concern needs;
what they take from the room (a count that rises and falls, an end that may come at any
time) is left open, so that a module holds for every behaviour of `ConferenceRoom`.

### ConferenceRoom

One step is a section that the code runs under one mutex, or code between two points at
which another thread can change what it reads. Locks that are held across steps are
state: `setup_mutex`, the rwlocks of rooms (`readers`; the thread point `wrlocked`) and
of members (`held`; the caller point `removing`), and `member_mutex` while a command
waits in `conference_member_get` (the admin point `getting`).

| Variable | Code |
|---|---|
| `conference_hash`, `setup_mutex`, `threads`, `module` | `globals` (`running` and the progress of the shutdown) |
| `conf` | the `conference_obj_t` objects: name, flags, count, end_count, min, members, readers of the rwlock |
| `thr` | the point reached by the room's `conference_thread_run` |
| `pc`, `ptr`, `want` | the point, the `conference` pointer and the `conf_name` of each caller, recorder and admin |
| `flag` | `MFLAG_RUNNING`, `MFLAG_KICKED` of each member |
| `held` | the member whose rwlock an API command holds for reading |
| `fault` | a room was used after its pool was destroyed |

Caller points and lines: `find` 5930-5981, `new` 5942-5997, `launch` 5954-6030, `rdlock`
6035, `pin` 6042-6141, `check` 6143-6166, `dial`/`dialing` 6176-6187 with 5198-5328,
`setup` 6189-6229, `adding` 667-826, `loop` 2581-2922, `leaving`/`removing` 829-967,
`done` 6259-6281, `release` 6288-6324.
Thread points: `starting` 1127-1160, `running` 1165-1513, `ending` 1515-1594, `swept`
1596-1609, `unhashed` 1612-1614, `wrlocked` 1615, `unlocked` 1618-1626. An admin is a
thread that executes one API, chat or presence request at a time.

Every caller may fail wherever the code has an error path that an environment can take:
`Events` names these environment events and a configuration chooses among them. A caller
is a bridge caller, can be refused, ends the room or needs a minimum of two according to
the constants `Bridge`, `Secure`, `EndConf` and `MinTwo`; they stand for dialplan
arguments and channel variables, which do not change during a call.

Choices that the reader should know:

* The model stops at the first use of a destroyed room (`UseAfterFree` sets `fault`).
  What happens afterwards is undefined, so every property is about executions up to that
  point. Such executions exist: see "What the models admit".
* An object may be recycled only when no thread has a pointer to it. The memory
  allocator would hand it out earlier; but then a stale pointer has been or will be used,
  which is the same `fault`.
* Merged steps: deleting the registry entry and clearing `CFLAG_RUNNING` (1605-1612);
  destroying the pool and `threads--` (1626-1630); a recorder's `threads--` and its
  unlock (3131-3135). Nothing that the properties mention reads in between.
* A flag update is atomic. The source mixes locked and unlocked updates of a flag word;
  lost updates of a conference's word are the subject of `ConferenceFlags`.
* `conference->mutex` is not state. Its critical sections are single steps. When a
  command is stuck with `member_mutex` (`getting`), the steps that need that mutex are
  blocked; those that need only `conference->mutex` are not, although in the code whoever
  waits for `member_mutex` with `conference->mutex` held blocks them too. For safety this
  only adds behaviours; the liveness properties except such a room.
* glibc's rwlock, which APR uses, prefers readers: a waiting writer does not block
  `rdlock`, and `tryrdlock` fails only while the lock is held for writing.
* `conference_add_member` never fails (it returns success). The failures to create a
  recorder's buffers (2981-2990) are left out: the thread would go to its end and read
  from the missing buffer at 3100, which ends the process.

### RoomDirectory

`RoomDirectory` has four variables: the room each name leads to, the rooms that exist,
those that are doomed, and who is in each. `ConferenceRoomDirectory` maps the registry, the
objects whose pool is intact, `CFLAG_DESTRUCT` or a thread past its loop, and the callers
of the list to them. Every step of callers, commands, evictions, wind-downs and failures
is one step of the directory or none. What this adds to the invariants is the history: a
doomed room is never rescued, a name is given up only for a doomed room, a room is closed
only after it has lost its name, and nobody is in two rooms.

### The other modules

* `ConferenceLocks`. A function is the sequence of locks it takes and releases (`Under`,
  `lock_member`, `Each` for a loop over the list, which is unrolled when it is reached);
  `Step` executes one element for a thread, and `Blockers` says for whom it waits. All
  mutexes are nested, as APR's are created. A *scenario* (chosen in `Init`, and fixed)
  says what goes on: who leaves, whether audio flows, what a turn of the output loop and
  the commands do, whether sounds are configured and whether writes fail. The scenarios
  keep the state space small; they were not chosen to avoid deadlocks, and reach the ones
  the code has.
* `ConferenceFlags`. Every update of `conference->flags` is a read and a write; the
  `_locked` forms hold `flag_mutex` between the two, the others (answered, wait-mod,
  enforce-min, outcall, the marks at 936, 1175 and 1240, and the clear of `INHASH`
  at 6477) nothing. Callers, commands and the conference thread go through the sections in which
  they update the word; the eviction in `conference_find`, a namesake and the deletion of
  the entry are there because `DESTRUCT` and `INHASH` decide about them. The model starts
  when the creator has set `DYNAMIC` and launched the thread, alone in the room.
* `ConferenceFloor`. `conference_add_member` is two steps, because `member_mutex` is given
  back in between; the input thread is a process of its own from
  `launch_conference_loop_input` to the clearing of `MFLAG_ITHREAD`, which is taken as
  atomic.
* `ConferenceMix`. Four steps per tick (`tick` says which is next); members may stop
  between any two. A member may be deaf or waste bandwidth (`Deaf`, `Wasting`), the frame
  may start from silence or from comfort noise (`Fillings`, `Noise`), and the number of
  members with audio has the 8 bits of `ready` (1133). Indices count from 1, so the loops of the code that run to and including
  the length are written as they are. `Lo..Hi` is the range of 16 bits, `Padding` the
  filling of the main frame behind a short file frame (255, 1371). `main_frame` holds
  integers, which is what the code's 32 bits are for; `WidthCorrect` says when they are
  enough. The reference definition is `FilesAt` and `OthersAt`. Its specification is
  `MixSpec`, so that `ConferenceMuxProofs` can extend it together with `ConferenceFiles`.
* `ConferenceTalk`. A frame is its `score`; `ReadFrame` is the test of `MFLAG_CAN_SPEAK`,
  `Judge` what follows, and commands come in between. `silent` is a history variable.
* `ConferenceFiles`. Opening (without a lock) and queuing (with one) are separate steps of
  a player; the conference thread plays, removes and, in the wind-down, closes nodes.
* `ConferenceRecord`. A record thread is a member from `RecordAdd` to `RecordDel`; its
  buffers and its file live longer or shorter than that; opening the file and starting the
  timer fail separately. `told` is a history variable.
* `ConferenceVideo`. The launch is two steps (thread created, `video_running` set) under
  `conference->mutex`; the wind-down's test of `video_running` (1596) and its store of -1
  (1597) are two steps without a lock; the video thread tests, picks the floor holder, reads and relays in
  separate steps.
* `ConferenceOutcall`. A background thread gets the bare pointer, locks the room, counts
  itself, originates, uncounts itself, transfers and unlocks, in that order.

## Fairness

Everywhere: threads are scheduled and critical sections end. Nothing is assumed of the
people and commands outside: nobody has to call, talk, answer, hang up or send a command.

| Module | Beyond that |
|---|---|
| `ConferenceRoom` | the PIN dialogue and an originate end by their own timeouts; strong fairness of `WrLockMember`: commands on a member come one at a time and each releases the member's rwlock after a bounded time, so its owner gets it for writing between two of them |
| `ConferenceVideo` | a video read returns (the core's read has a timeout); a caller that was told to leave or has hung up leaves |
| `ConferenceOutcall` | a cancelled originate returns, usually with a failure, and so does a bgdial one (60 seconds, 4789); channels that the wind-down hung up leave |
| `ConferenceTalk` | frames keep coming (a read returns comfort noise when nothing arrives); a mute command that has begun goes on |
| `ConferenceFiles` | nothing: the conference thread ticks |
| `ConferenceRecord` | nothing: the record threads run |

## Runs

| Run | Instance | Checks |
|---|---|---|
| `RoomMembers` | one room, a bridge caller with MINTWO, a caller with a PIN and ENDCONF, a recording, an API thread, a limit of one, failing timers, media and files, unload | `TypeOK`, `CountsAgree`, `NoOrphan`, `EnforcedMinimum`, `HeldMemberInList`, `ThreadsCounted`, `WriterAlone` |
| `RoomEnds` | one room, two callers, an API thread, silence and media failures, fairness | `StoppedMemberLeaves`, `DestructionEnds` |
| `RoomRegistry` | two names, two objects, two callers, every environment failure, unload | `RegistrySound`, `RegisteredIsFound`, `ImplementsDirectory` |
| `Locks` | two callers, an administrator, mux and input threads, five scenarios | `TypeOK`, `DeadlockNeedsMember` |
| `Flags` | three callers, two administrators, the conference thread, a namesake | `TypeOK`, `AbandonedIsDestroyed`, `NoDanglingEntry` |
| `Floor` | three callers, two with video, a recording | `TypeOK`, `FloorHolderInList`, `InputThreadInList`, `CountBehindList` |
| `Mix` | two members, one wasting bandwidth and not to hear the other, either of them deaf or not, comfort noise, two files, frames of two samples, clipping sums | `MixTypeOK`, `HearsTheOthersWhileRunning` |
| `Talk` | one member, three scores and comfort noise, gain levels 0 (off), 50 and 1100, hangover 3, hangunder 2 | `TypeOK`, `NotCutOff`, `TalkingEnds` |
| `Files` | three nodes, two players who play and speak, a perpetual sound | `TypeOK`, `QueuedNodesAreOpen`, `FilesFinish` |
| `Record` | two recordings, two names, failing opens, timers and writes, auto-record | `TypeOK`, `ListedRecorderHasBuffer`, `NamedRecordingStops`, `RecordingEnds` |
| `Video` | three callers, two with video, two video threads, with and without a bridge, silence, mux failure, shutdown | `TypeOK`, `OneVideoThread`, `VideoThreadsDoneFirst`, `WaitForVideoEnds` |
| `OutcallEnds` | two automatic calls and a bgdial | `TypeOK`, `WindDownEnds`, `AbandonedCallsEnd` |

What they show is in the `about` of each run and in the comment of each property; every
property has a mutant of the code that breaks it.

Why the bounds are enough:

* Two objects are what it takes for a dying room and its namesake; two callers for the
  races between a check and a join, a creator and a finder, two departures. With a single
  object `conference_new` waits until the object is free; in the code it would create a
  namesake, which is what `RoomRegistry` is for. Commands on one member interact with each
  other only through the member and the list, so one admin is enough there. The invariants
  of `ConferenceRoom` are also proved for every number of all of them; evictions by API
  commands, which `RoomRegistry` has no thread for, are covered by the proof and fire in
  `RoomMembers`.
* A cycle of locks needs two threads that hold what the other wants. Two callers, their
  input threads, the mux and an administrator are all the kinds of thread there are. Two
  administrators at once, and so the relate commands in opposite directions (538), are not
  in the run.
* In `Flags` a mark is lost when one caller leaves, another arrives and a third is still
  to look; two commands evict, find and lock beside them.
* `Floor` needs three callers, for the floor to be given when the second-last leaves; `Mix`
  two samples, for the sample at which a short file ends; `Talk` more hangover frames than
  hangunder frames, and scores at, below and above the levels; `Files` one node more than
  players, for the perpetual sound.
* `MaxItt` (`Talk`) bounds how many frames are averaged before the volume changes: at the
  bound only frames arrive that the average leaves out. `MaxBelow` (`Record`) bounds how
  often norecord lowers `record_count` for a recording that is still in the list.

`CHECK_DEADLOCK FALSE` is set where the system may stop: a room that has ended (`Files`,
`Record`, `Flags`, `Locks`), members that have all stopped (`Mix`, `Floor`), and the two
places where the code itself can wait for ever: a command and the member it looks for
(`RoomMembers`, `RoomEnds`), and a wind-down that waits for a video thread that is gone
(`Video`).

### What the models admit

The models reach the following states, because the code does (where an item is outside the
models, it says so). Properties that would
exclude them do not hold, so each is an exception in a property, or is left to the notes
of the hazards in `PROJECT.json`.

* The read lock of a room is released before the pool is destroyed (1615, 1626): a
  `tryrdlock` in between succeeds, although the comment at 6035 says "so it can't leave
  without us". `ConferenceRoom` ends the execution there (`UseAfterFree`).
* Callers that arrive together all pass the test of `max_members` (6158).
* A caller with a read lock that joins after the sweep (1573-1592) is never told to leave:
  `LateCaller` in `DestructionEnds`. A bridge caller whose room has gone meanwhile is told
  success (5274) and becomes such a caller.
* `globals.threads` is raised by a thread after it has started (1159): the shutdown does
  not wait for one that has only been created.
* `conference_member_get` (584) and `conference_del_member` (841, 859) wait for each other:
  the exception of `StoppedMemberLeaves`.
* Lock cycles: two callers that distribute digits, each with its own `write_mutex` held
  (2713, 3219); the iterator (3610) against a joining caller that plays a sound; a caller
  whose failed write left `write_mutex` locked (2804), or who leaves, against relate (538)
  or a command on its member (584, 859); relate commands on one pair in opposite
  directions. The scenarios of `Locks` reach all but the last, and each passes through
  a member's `write_mutex` or `rwlock`. `DeadlockNeedsMember` says that there is no other kind.
* The flag words of members are updated with and without `flag_mutex` by everybody:
  unlocked at 863 (removal), 2374 (input thread), 2860, 2872 and 2884 (output loop), 3750,
  3820, 3884 and 3905 (mute, unmute, hup, kick). Any of these can write an old word back, so a
  kick, a mute or the end of a member can be lost; so can `MFLAG_ITHREAD` (2482, 2575),
  for which the wait at 2919 stands. No rule of the code protects a flag of this word, and
  the models take it as atomic.
* Of the conference's word, `DYNAMIC` is set at 6027, with the lock but after the room can
  be found, and may be lost to an unlocked update that read the word before (then nobody
  ever ends the room): `ConferenceFlags` starts after that. `min` may be overwritten too
  (6011). An unlocked update can undo the clear of `INHASH` at 6477, after which the thread
  of an evicted room deletes the entry of its namesake, and the `DESTRUCT` that the
  eviction was for. The locked clear of `RUNNING` at 1612, a flag that the model does not
  watch, can be undone in the same way.
* The wind-down waits for ever for `video_running` to become 0: when the video thread
  stores 0 between the test (1596) and the store of -1 (1597); when the launcher's store
  (6359) comes after the thread's end; after a bridge, which never resets it (6377); and
  when a thread that was only created overwrites the -1 with its first statement (1031) in
  a room that is not marked. `WaitForVideoEnds` speaks of the other cases. The result of
  the read lock at 1053 is not looked at, and bridge threads keep pointers to members on
  the stacks of their callers (984).
* When one caller is left, the floor goes to the head of the list, a recording included
  (948); the automatic recording takes the channel of the head as well (1250).
* What is subtracted in the mix looks only at `MFLAG_HAS_AUDIO` (1439), what is added also
  at `MFLAG_RUNNING`; the two files share one sample length (1366). Both are exceptions of
  `HearsTheOthersWhileRunning`.
* A file that is opened while the wind-down closes the queue is queued afterwards and never
  closed (3319); two announcements at once open the shared speech handle twice
  (3557).
* `record_count` follows commands and threads, not the list: norecord lowers it for a
  recording that is still there. It is only read for texts and for a test of zero (4191,
  4907), so no property rests on it.
* norecord does not find a recording that was launched and is not yet in the list (601);
  a recording whose file could not be opened still writes what it has buffered (3100).
* A mute between the test of `MFLAG_CAN_SPEAK` and the judgement leaves the member talking
  (2362). The difference of score and energy level is unsigned (2346): with the gate
  lowered by the gain control, a frame below the energy level counts as loud.
* A background call may start, or report its result, after the room was destroyed (5356),
  and one that was answered is uncounted before it is transferred (5258), so that it can
  enter a room whose wind-down has waited for it. A caller that looks at `originating`
  before its threads have counted themselves (2681) does not wait; those calls ring on
  until they are answered or time out.

## Proofs

Checked by TLAPS for all values of the constants that satisfy the assumption of the
module (`RoomAssumption`, `FlagsAssumption` and so on). The assumptions say that the sets
whose size a counter of the code holds are finite, that kinds of threads are disjoint,
that null values are neither object nor thread, that limits are numbers and, in the mix,
that samples and fillings have 16 bits and nobody is forbidden to hear itself; TLC
evaluates them in every run. Every invariant was checked with TLC on the instance of the
module's run before it was proved. The theorems are about `Spec` (`MixSpec` for the mix),
without fairness, and so hold of `FairSpec`.

### ConferenceRoomProofs

* `TypeCorrect`: `Spec => []TypeOK`.
* `SetupCorrect`: `Spec => []SetupInv`. The caller between `find` and `new` owns
  `setup_mutex` (`SetupOwner`), so the name it is about to insert is still free
  (`NameFree`); each `new` object has one caller to launch it (`OneLauncher`); a caller
  without a room has no pointer (`Unattached`). This is the part of the argument that no
  property states and all others need: it makes creation atomic although find and new are
  two steps.
* `RegistryCorrect`: `Spec => [](RegistrySound /\ RegisteredIsFound)`, with
  `RegisteredCorrect` for the second part alone. The two together are inductive relative to
  `SetupInv`: eviction clears `INHASH` in the step that removes the entry, so the deletion
  by name at the end of the evicted room's thread does nothing.
* `CountsCorrect`, `MembersCorrect`: the list of a room holds exactly the callers whose
  pointer is to it and who are in, or just out of, the output loop (`MembersMatch`); the
  counters are its cardinalities.
* `RoomsEnd`: `NoOrphan`, from `OrphanInv`, which says what each caller on its way out
  still owes to the room: a caller that is not past its `done` clean-up will mark it.
* `MinimumCorrect`: `EnforcedMinimum`, from `MinInv` with `CountsAgree`.
* `HeldCorrect`: `HeldMemberInList`, from `HeldInv`: nobody holds a member that has locked
  itself for writing.
* `WriterCorrect`: `WriterAlone`. The code's readers-and-writer protocol, for those who
  keep to it: `Guarded` names the points at which a thread relies on the read lock of its
  room (callers from the PIN dialogue to the end of their membership, bridge callers only
  while they dial, recordings and commands as long as they run), and when the wind-down
  has the rwlock for writing nobody is at one of them and only bridge callers are still in
  the list. The invariant is `LockInv`: who is `Guarded` is among the readers of the room
  its pointer leads to, a pointer that was just found is not null, a recording is in a live
  room's list only while it is `Guarded`, and the lock was free when it was taken for
  writing. It stops there because the code does: the lock is given back before the pool is
  destroyed (see "What the models admit"). `RoomMembers` checks `WriterAlone`; TLC checked
  `LockInv` on its instance and on one with two objects.
* `ThreadsCorrect`: `ThreadsCounted`. The two cardinalities change by one in the steps
  that change `threads`, and in no other (`ConfThreadCounts`, `RecordThreadCounts`).
* `RoomsImplementDirectory`: `Spec => ImplementsDirectory`. The initial states map to the
  directory's, and each action of `ConferenceRoom` is one step of the directory or a
  stutter. `SameRooms` reduces the stutters to what the directory shows of a single
  conference; the seven actions that show have a lemma each (`EvictDelists`, `MarkDooms`,
  `NewOpens`, `AddArrives`, `DelDeparts`, `UnhashDelists`, `DestroyCloses`). It rests on
  the registry, on `SetupInv` (a room is opened under a free name), on `MembersMatch`
  (nobody arrives who is elsewhere) and on `FreeEmpty` (a freed object has no callers left
  in its list).

### ConferenceMuxProofs

The queue. `QueueCorrect`: `QueuedNodesAreOpen` is inductive together with `Handed` (a
player has a node in its hands exactly between opening and queueing it, and nobody else
has that one).

The mix, for any finite set of members, any length of a frame, any samples and any
relationships:

* `MixTypeCorrect`: what is played and what is sent has 16 bits. For the write frames this
  is the cut-off; for the file frame it is the cut-off after the asynchronous file.
* `HearsCorrect`: `HearsTheOthersWhileRunning`. The invariant has two parts besides the
  types. `FilesMixed`: once the files are read, at every sample where no file was too short
  the main frame's share of them is `FilesAt`, the reference definition. `ExactSum`: between
  the sum and the sending, the main frame is that share and the sum over `summed`. `Send`
  then takes the sum over a subset of `summed` out of the sum over `summed`, and what
  remains is the sum over the rest, which is `OthersAt`; neither part needs to know who is
  still running. With the cut-off one step earlier (the mutant `SumCutOff`), `ExactSum`
  fails, and with it the law that the argument rests on.
* `WidthCorrect`: `MainFrameFits`. With n members a sample of the main frame lies between
  (n + 1) * `Lo` and (n + 1) * `Hi`, so an `int` of 32 bits holds it in every conference of
  at most 65535 members; the model's unbounded integers leave nothing out.

The laws of sums over sets (`SumUnfolds`, `SumRemove`, `SumSplits`, `SumBounds`) are lemmas
of this module. They need induction over finite sets. The library's induction theorem has
an operator as parameter, which the provers cannot instantiate, so `SubsetInduction` states
the principle for a *set* of subsets instead: the strict-subset order on the subsets of a
finite set is well-founded (`FS_StrictSubsetOrderingWellFounded`), so a smallest
counterexample exists and has all its proper subsets in the set. That the fold of the
community modules is a recursive function on the subsets is `SumIsFold`, that this function
exists `AddsExists`.

An attempt at the first proof showed that `ReadFiles` chose the new `file_sample_len` with a
CASE whose guards overlapped: TLC takes the first, the language leaves it open. It is an
IF now, in the order of the code.

### The other proof modules

* `ConferenceFlagsProofs`. Every action is one of three kinds (`StepKinds`): a thread reads
  the word for an update, writes it, or moves without touching it. The invariant `FlagsInv`
  has four parts. `InFlight`: where a thread can be in the middle of an update, and which
  ones are locked. `Fast("DYNAMIC")`: the flag is in the word *and in the value that every
  update in flight will write back*, which is what a lost update could break. `Registered`:
  as long as the entry is the room's, `INHASH` is fast too, because only a thread that has
  deleted the entry clears it. `Marking`: a caller has yet to pass its locked clean-up, or
  is in it and about to mark, or `DESTRUCT` is fast. `AbandonedCorrect` follows from the last
  part and `NoDanglingCorrect` from the third.
* `ConferenceRecordProofs`. `BuffersCorrect` from `ListInv`, which ties the list and the
  buffers to the points of the record threads; `StoppedCorrect` from `ToldInv`
  (`MFLAG_RUNNING` is set before the recording can be found in the list, and never again).
  Type correctness needs `CountInv`: `record_count` is behind the launched recordings.
* `ConferenceFloorProofs`. A thread is between the two ends of its membership exactly as
  long as it is in the list (`ListInv`); the holder and the input threads are tied to
  points of threads (`HolderInv`, `InputInv`), and `count` to their number. That the list
  has no repetitions is part of `TypeOK`, and is what makes the unlinking of one element
  remove the member.
* `ConferenceVideoProofs`. `OneThreadCorrect` and `DoneFirstCorrect` from `VideoInv`: a
  thread that was created and has not ended keeps `video_running` off 0, but for the time
  between its creation and the assignment after it; so do bridge threads.
* `ConferenceTalkProofs`. `NotCutOffCorrect` proves the action property `NotCutOff` from
  `HitsBounded`: the hits of the hangover are among the quiet frames since the last one
  that let the member talk. Type correctness needs `AtBound`, because a command may turn the
  gain control on between the reading and the judgement of a frame.
* `ConferenceOutcallProofs`. `OutcallTypeCorrect` and `RingingCorrect`: until the room is
  freed, `originating` is the number of threads inside `switch_ivr_originate`
  (`RingingCounted`), so that no wait for zero is held up by a call that has ended. After
  that, threads may still use the freed counter, and nothing is claimed.

### Only model-checked

* Everything under fairness (`StoppedMemberLeaves`, `DestructionEnds`, `WaitForVideoEnds`,
  `WindDownEnds`, `AbandonedCallsEnd`, `FilesFinish`, `RecordingEnds`, `TalkingEnds`):
  liveness is out of the prover's reach.
* `TypeOK` and `DeadlockNeedsMember` of `ConferenceLocks`: a thread's state is the rest of a
  sequence that functions and loops over the list are unrolled into, and the claim is
  about the scenarios listed.

## Plan

Done: the life of rooms, its proofs and its refinement of the directory; locks, flags,
floor, mixing, talk detection, files, recordings, video and outcalls, model-checked, and
all but locks proved type-correct and safe. No module uses a RECURSIVE operator. Left:

1. An order on `conference->mutex`, `member_mutex`, `read_mutex` and the audio mutexes, from
   which `DeadlockNeedsMember` would follow for any number of threads.
2. The relationship lists of members, if a property about them is found that the mixing
   and the locks do not cover.

## Not modelled

* The relationship lists of members and `relationship_total`: `ConferenceMix` has their
  effect and `ConferenceLocks` their locks.
* The flag words of members (see "What the models admit").
* The file queues of single members (`conference_member_play_file`): they are fed by the
  member's own thread and by play commands (4373), and emptied by the output loop, each
  under `lock_member`, whose order with other locks is in `ConferenceLocks`.
* The caller-control digit machine, which is the core's; the controls that set one flag or
  volume.
* Audio buffers, codecs, resampling and file formats; text of lists and events; XML
  configuration and the parsing of dialplan arguments: they change no state of rooms, or
  their outcome is a constant of the models.
* The FreeSWITCH core (sessions, channels, timers, hashes, pools) and APR are environment:
  they appear as the events that may fail and as the semantics of the locks. The other
  modules of the repository, most of its lines, do not touch conferences.
