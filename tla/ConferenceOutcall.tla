--------------------------- MODULE ConferenceOutcall ---------------------------
(***************************************************************************)
(* Outbound calls of one conference: a caller with an auto-outcall list    *)
(* that launches a background thread per number and waits for them, the    *)
(* bgdial command, the threads themselves, the peers they bring in, and    *)
(* the wind-down that cancels what is pending and waits for it.            *)
(*                                                                         *)
(* Who holds the read lock of the conference follows from where everybody  *)
(* is: the caller and the peers while they are in the room, a thread while *)
(* it is inside conference_outcall.                                        *)
(***************************************************************************)
EXTENDS Integers, FiniteSets

CONSTANTS
    AutoCalls,  \* the calls of the caller's auto-outcall list
    Dialed      \* calls that the bgdial command may start

Calls == AutoCalls \cup Dialed

ASSUME OutcallAssumption ==
    AutoCalls \cap Dialed = {} /\ IsFiniteSet(AutoCalls) /\ IsFiniteSet(Dialed)

VARIABLES
    thr,          \* where conference_thread_run is
    destruct,     \* CFLAG_DESTRUCT
    outcall,      \* CFLAG_OUTCALL
    cancel,       \* conference->cancel_cause is set
    originating,  \* conference->originating
    caller,       \* where the caller is in conference_loop_output
    call,         \* where each background thread is
    peer,         \* the channel that each call created
    told          \* the wind-down hung up who was in the room

vars == <<thr, destruct, outcall, cancel, originating, caller, call, peer, told>>

\* The counter never goes below zero nor above the calls there are.
TypeOK ==
    /\ thr \in {"running", "ending", "draining", "drained", "unhashed", "wrlocked",
                "unlocked", "free"}
    /\ destruct \in BOOLEAN /\ outcall \in BOOLEAN /\ cancel \in BOOLEAN
    /\ originating \in 0..Cardinality(Calls)
    /\ caller \in {"joined", "dialing", "waiting", "talking", "abandoned", "out"}
    /\ call \in [Calls -> {"none", "started", "locked", "ringing", "answered", "release",
                           "result", "done"}]
    /\ peer \in [Calls -> {"none", "sent", "in", "gone"}]
    /\ told \in BOOLEAN

(***************************************************************************)
(* The room.                                                               *)
(***************************************************************************)
InCall(o) == call[o] \in {"locked", "ringing", "answered", "release"}
At(o, at) == call[o] = at /\ thr # "free"
Running == thr \in {"running", "ending", "draining", "drained"}
NoReaders == caller = "out" /\ \A o \in Calls : ~InCall(o) /\ peer[o] # "in"

\* The last to leave marks the dynamic room.
Marks(others) == destruct' = (destruct \/ others = {})
Peers == {o \in Calls : peer[o] = "in"}

(***************************************************************************)
(* The caller, in conference_loop_output.                                  *)
(***************************************************************************)
StartOutcalls ==
    /\ caller = "joined"
    /\ outcall' = TRUE
    /\ caller' = "dialing"
    /\ UNCHANGED <<thr, destruct, cancel, originating, call, peer, told>>

\* conference_outcall_bg: the thread gets the bare pointer.
LaunchOutcall(o) ==
    /\ caller = "dialing"
    /\ o \in AutoCalls /\ call[o] = "none"
    /\ call' = [call EXCEPT ![o] = "started"]
    /\ UNCHANGED <<thr, destruct, outcall, cancel, originating, caller, peer, told>>

Wait ==
    /\ caller = "dialing"
    /\ \A o \in AutoCalls : call[o] # "none"
    /\ caller' = "waiting"
    /\ UNCHANGED <<thr, destruct, outcall, cancel, originating, call, peer, told>>

\* The caller looks at the counter every half second.  A thread that has not
\* counted itself yet is not waited for.
WaitOver ==
    /\ caller = "waiting"
    /\ originating = 0
    /\ caller' = "talking"
    /\ UNCHANGED <<thr, destruct, outcall, cancel, originating, call, peer, told>>

\* Mutant: whoever gives up waiting cancels nothing.
AbandonOnly ==
    /\ caller = "waiting"
    /\ caller' = "abandoned"
    /\ UNCHANGED <<thr, destruct, outcall, cancel, originating, call, peer, told>>

\* The channel of the waiting caller is no longer up.
Abandon ==
    /\ caller = "waiting"
    /\ cancel' = TRUE
    /\ caller' = "abandoned"
    /\ UNCHANGED <<thr, destruct, outcall, originating, call, peer, told>>

\* conference_del_member and the release of the read lock.
CallerLeaves ==
    /\ caller \in {"talking", "abandoned"}
    /\ caller' = "out"
    /\ Marks(Peers)
    /\ UNCHANGED <<thr, outcall, cancel, originating, call, peer, told>>

\* A command that locked the conference in time.
conf_api_sub_bgdial(o) ==
    /\ o \in Dialed /\ call[o] = "none"
    /\ thr \in {"running", "ending", "draining", "drained", "unhashed"}
    /\ call' = [call EXCEPT ![o] = "started"]
    /\ UNCHANGED <<thr, destruct, outcall, cancel, originating, caller, peer, told>>

(***************************************************************************)
(* conference_outcall_run.                                                 *)
(***************************************************************************)
RdLock(o) ==
    /\ At(o, "started")
    /\ call' = [call EXCEPT ![o] = IF thr = "wrlocked" THEN "result" ELSE "locked"]
    /\ UNCHANGED <<thr, destruct, outcall, cancel, originating, caller, peer, told>>

Originate(o) ==
    /\ At(o, "locked")
    /\ originating' = originating + 1
    /\ call' = [call EXCEPT ![o] = "ringing"]
    /\ UNCHANGED <<thr, destruct, outcall, cancel, caller, peer, told>>

\* Only the auto-outcalls are given the cancel_cause.  The loop of the originate looks at
\* it once per turn: a call that is past that test may still be answered.
Cancelled(o) == o \in AutoCalls /\ cancel

OriginateFails(o) ==
    /\ At(o, "ringing")
    /\ originating' = originating - 1
    /\ call' = [call EXCEPT ![o] = "release"]
    /\ UNCHANGED <<thr, destruct, outcall, cancel, caller, peer, told>>

OriginateSucceeds(o) ==
    /\ At(o, "ringing")
    /\ originating' = originating - 1
    /\ call' = [call EXCEPT ![o] = "answered"]
    /\ UNCHANGED <<thr, destruct, outcall, cancel, caller, peer, told>>

\* "make sure the conference still exists": otherwise the peer is hung up, as is
\* one that neither answered nor sends media.
Transfer(o) ==
    /\ At(o, "answered")
    /\ call' = [call EXCEPT ![o] = "release"]
    /\ \/ Running /\ peer' = [peer EXCEPT ![o] = "sent"]
       \/ peer' = [peer EXCEPT ![o] = "gone"]
    /\ UNCHANGED <<thr, destruct, outcall, cancel, originating, caller, told>>

\* Mutant: the end of every call uncounts it, once more.
RdUnlockUncounts(o) ==
    /\ At(o, "release")
    /\ originating' = originating - 1
    /\ call' = [call EXCEPT ![o] = "result"]
    /\ UNCHANGED <<thr, destruct, outcall, cancel, caller, peer, told>>

RdUnlock(o) ==
    /\ At(o, "release")
    /\ call' = [call EXCEPT ![o] = "result"]
    /\ UNCHANGED <<thr, destruct, outcall, cancel, originating, caller, peer, told>>

\* The bgdial-result event: its flag, and its data, are the conference's.
Result(o) ==
    /\ At(o, "result")
    /\ call' = [call EXCEPT ![o] = "done"]
    /\ UNCHANGED <<thr, destruct, outcall, cancel, originating, caller, peer, told>>

\* The thread started after the conference was gone, or looks at it once more after
\* it has given back its lock: what follows is undefined, this thread ends here.
UseAfterFree(o) ==
    /\ thr = "free" /\ call[o] \notin {"none", "done"}
    /\ call' = [call EXCEPT ![o] = "done"]
    /\ UNCHANGED <<thr, destruct, outcall, cancel, originating, caller, peer, told>>

\* The peer executes conference_function with the name of the conference, and
\* gets this one or, when it is no longer found, another.
PeerEnters(o) ==
    /\ peer[o] = "sent"
    /\ peer' = [peer EXCEPT ![o] = IF thr = "running" /\ ~destruct THEN "in" ELSE "gone"]
    /\ UNCHANGED <<thr, destruct, outcall, cancel, originating, caller, call, told>>

PeerLeaves(o) ==
    /\ peer[o] = "in"
    /\ peer' = [peer EXCEPT ![o] = "gone"]
    /\ Marks((Peers \ {o}) \cup (IF caller = "out" THEN {} ELSE {"caller"}))
    /\ UNCHANGED <<thr, outcall, cancel, originating, caller, call, told>>

(***************************************************************************)
(* conference_thread_run after its loop.                                   *)
(***************************************************************************)
Thread(from, to) == thr = from /\ thr' = to

\* A member with MFLAG_ENDCONF left, or the timer failed.
Doom ==
    /\ ~destruct /\ thr = "running"
    /\ destruct' = TRUE
    /\ UNCHANGED <<thr, outcall, cancel, originating, caller, call, peer, told>>

LoopEnds ==
    /\ destruct
    /\ Thread("running", "ending")
    /\ UNCHANGED <<destruct, outcall, cancel, originating, caller, call, peer, told>>

\* Mutant: the wind-down only waits.
CancelNothing ==
    /\ Thread("ending", IF outcall THEN "draining" ELSE "drained")
    /\ UNCHANGED <<destruct, outcall, cancel, originating, caller, call, peer, told>>

CancelOutcalls ==
    /\ Thread("ending", IF outcall THEN "draining" ELSE "drained")
    /\ cancel' = (cancel \/ outcall)
    /\ UNCHANGED <<destruct, outcall, originating, caller, call, peer, told>>

Drained ==
    /\ originating = 0
    /\ Thread("draining", "drained")
    /\ UNCHANGED <<destruct, outcall, cancel, originating, caller, call, peer, told>>

\* Everybody is hung up, the room leaves the registry and stops running.
SweepAndUnhash ==
    /\ Thread("drained", "unhashed")
    /\ told' = TRUE
    /\ UNCHANGED <<destruct, outcall, cancel, originating, caller, call, peer>>

WrLock ==
    /\ NoReaders
    /\ Thread("unhashed", "wrlocked")
    /\ UNCHANGED <<destruct, outcall, cancel, originating, caller, call, peer, told>>

WrUnlock ==
    /\ Thread("wrlocked", "unlocked")
    /\ UNCHANGED <<destruct, outcall, cancel, originating, caller, call, peer, told>>

Destroy ==
    /\ Thread("unlocked", "free")
    /\ UNCHANGED <<destruct, outcall, cancel, originating, caller, call, peer, told>>

Init ==
    /\ thr = "running"
    /\ destruct = FALSE /\ outcall = FALSE /\ cancel = FALSE
    /\ originating = 0
    /\ caller = "joined"
    /\ call = [o \in Calls |-> "none"]
    /\ peer = [o \in Calls |-> "none"]
    /\ told = FALSE

CallerStep ==
    \/ StartOutcalls \/ Wait \/ WaitOver
    \/ \E o \in AutoCalls : LaunchOutcall(o)

CallStep(o) ==
    RdLock(o) \/ Originate(o) \/ Transfer(o) \/ RdUnlock(o) \/ Result(o) \/ UseAfterFree(o)

ThreadStep ==
    \/ LoopEnds \/ CancelOutcalls \/ Drained \/ SweepAndUnhash \/ WrLock \/ WrUnlock
    \/ Destroy

Finished == thr = "free" /\ (\A o \in Calls : call[o] \in {"none", "done"}) /\ UNCHANGED vars

Next ==
    \/ CallerStep \/ Abandon \/ CallerLeaves
    \/ \E o \in Calls : \/ conf_api_sub_bgdial(o) \/ CallStep(o)
                        \/ OriginateFails(o) \/ OriginateSucceeds(o)
                        \/ PeerEnters(o) \/ PeerLeaves(o)
    \/ Doom \/ ThreadStep \/ Finished

Spec == Init /\ [][Next]_vars

\* Threads are scheduled.  Nobody has to answer or to hang up; a cancelled
\* originate returns, and so does a bgdial one (60 seconds).  The channels that the
\* wind-down hangs up leave, and a caller that gave up waiting does.
Fairness ==
    /\ WF_vars(CallerStep) /\ WF_vars(ThreadStep)
    /\ WF_vars(told /\ Abandon)
    /\ WF_vars((told \/ caller = "abandoned") /\ CallerLeaves)
    /\ \A o \in Calls :
        /\ WF_vars(CallStep(o))
        /\ WF_vars((Cancelled(o) \/ o \in Dialed) /\ OriginateFails(o))
        /\ WF_vars(PeerEnters(o)) /\ WF_vars(told /\ PeerLeaves(o))

FairSpec == Spec /\ Fairness

(***************************************************************************)
(* Properties.                                                             *)
(***************************************************************************)
\* The wind-down waits for a counter that threads it never created keep, and
\* those may start while it waits: a wind-down that found CFLAG_OUTCALL set ends
\* all the same, because the automatic calls that nobody answers are cancelled and
\* the 60 seconds of a bgdial one run out.  (A wind-down that came before the flag
\* cancels nothing and is left to the timeouts.)
WindDownEnds == (thr = "draining") ~> (thr = "free")

\* A caller that hangs up while it waits for its calls stops their ringing, even
\* in a room that goes on because some of them were answered.
AbandonedCallsEnd ==
    (caller = "abandoned") ~> (\A o \in AutoCalls : call[o] # "ringing")

=============================================================================
