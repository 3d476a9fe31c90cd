----------------------- MODULE ConferenceOutcallProofs -----------------------
(***************************************************************************)
(* Outbound calls, for every list of automatic calls and every set of      *)
(* bgdial commands.                                                        *)
(***************************************************************************)
EXTENDS ConferenceOutcall, FiniteSetTheorems, TLAPS

Ringing == {o \in Calls : call[o] = "ringing"}

\* Until the conference is gone, conference->originating is the number of threads
\* that are inside switch_ivr_originate: the wind-down and the caller that wait for
\* zero wait for exactly those.
RingingCounted == thr # "free" => originating = Cardinality(Ringing)

(***************************************************************************)
(* TypeOK in parts, each of which few actions touch.                       *)
(***************************************************************************)
CallStates == {"none", "started", "locked", "ringing", "answered", "release", "result", "done"}
PeerStates == {"none", "sent", "in", "gone"}

RestOK ==
    /\ thr \in {"running", "ending", "draining", "drained", "unhashed", "wrlocked",
                "unlocked", "free"}
    /\ destruct \in BOOLEAN /\ outcall \in BOOLEAN /\ cancel \in BOOLEAN /\ told \in BOOLEAN
    /\ caller \in {"joined", "dialing", "waiting", "talking", "abandoned", "out"}
    /\ peer \in [Calls -> PeerStates]

CallsOK == call \in [Calls -> CallStates] /\ originating \in 0..Cardinality(Calls)

LEMMA Parts == TypeOK <=> RestOK /\ CallsOK
  BY DEF TypeOK, RestOK, CallsOK, CallStates, PeerStates

\* The calls are finitely many, and so are the ones that ring.
LEMMA FiniteCalls ==
    ASSUME NEW S \in SUBSET Calls
    PROVE  /\ IsFiniteSet(S) /\ Cardinality(S) \in 0..Cardinality(Calls)
           /\ Cardinality(Calls) \in Nat
<1>1. IsFiniteSet(Calls)
  BY OutcallAssumption, FS_Union DEF OutcallAssumption, Calls
<1>2. Cardinality(Calls) \in Nat
  BY <1>1, FS_CardinalityType
<1>3. IsFiniteSet(S) /\ Cardinality(S) <= Cardinality(Calls)
  BY <1>1, FS_Subset
<1>4. Cardinality(S) \in Nat
  BY <1>3, FS_CardinalityType
<1> QED
  BY <1>2, <1>3, <1>4

\* A step of a thread that neither begins nor ends to ring leaves the counter alone.
LEMMA MoveElsewhere ==
    ASSUME CallsOK, RingingCounted, NEW o \in Calls, NEW to \in CallStates \ {"ringing"},
           call' = [call EXCEPT ![o] = to], originating' = originating,
           thr' = "free" \/ (thr # "free" /\ call[o] # "ringing")
    PROVE  CallsOK' /\ RingingCounted'
<1>1. CallsOK'
  BY DEF CallsOK, CallStates
<1>2. CASE thr' = "free"
  BY <1>1, <1>2 DEF RingingCounted
<1>3. CASE thr # "free" /\ call[o] # "ringing"
  <2>1. Ringing' = Ringing
    BY <1>3 DEF Ringing, CallsOK
  <2> QED
    BY <1>1, <1>3, <2>1 DEF RingingCounted
<1> QED
  BY <1>2, <1>3

\* Originate: one more rings.
LEMMA RingsUp ==
    ASSUME CallsOK, RingingCounted, NEW o \in Calls, Originate(o)
    PROVE  CallsOK' /\ RingingCounted'
<1>0. call[o] = "locked" /\ thr # "free" /\ thr' = thr /\ originating' = originating + 1
      /\ call' = [call EXCEPT ![o] = "ringing"]
  BY DEF Originate, At
<1>1. Ringing' = Ringing \cup {o} /\ o \notin Ringing
  BY <1>0 DEF Ringing, CallsOK
<1>2. Ringing \in SUBSET Calls /\ Ringing' \in SUBSET Calls
  BY DEF Ringing
<1>3. Cardinality(Ringing') = Cardinality(Ringing) + 1
  <2>1. IsFiniteSet(Ringing)
    BY <1>2, FiniteCalls
  <2> QED
    BY <1>1, <2>1, FS_AddElement
<1>4. originating' = Cardinality(Ringing')
  BY <1>0, <1>3 DEF RingingCounted
<1>5. originating' \in 0..Cardinality(Calls)
  BY <1>2, <1>4, FiniteCalls
<1>6. call' \in [Calls -> CallStates]
  BY <1>0 DEF CallsOK, CallStates
<1> QED
  BY <1>4, <1>5, <1>6 DEF CallsOK, RingingCounted

\* OriginateFails and OriginateSucceeds: one less rings.
LEMMA RingsDown ==
    ASSUME CallsOK, RingingCounted, NEW o \in Calls, OriginateFails(o) \/ OriginateSucceeds(o)
    PROVE  CallsOK' /\ RingingCounted'
<1>0. /\ call[o] = "ringing" /\ thr # "free" /\ thr' = thr /\ originating' = originating - 1
      /\ \E to \in CallStates \ {"ringing"} : call' = [call EXCEPT ![o] = to]
  BY DEF OriginateFails, OriginateSucceeds, At, CallStates
<1>1. Ringing' = Ringing \ {o} /\ o \in Ringing
  BY <1>0 DEF Ringing, CallsOK
<1>2. Ringing \in SUBSET Calls /\ Ringing' \in SUBSET Calls
  BY DEF Ringing
<1>3. Cardinality(Ringing') = Cardinality(Ringing) - 1
  <2>1. IsFiniteSet(Ringing)
    BY <1>2, FiniteCalls
  <2> QED
    BY <1>1, <2>1, FS_RemoveElement
<1>4. originating' = Cardinality(Ringing')
  BY <1>0, <1>3 DEF RingingCounted
<1>5. originating' \in 0..Cardinality(Calls)
  BY <1>2, <1>4, FiniteCalls
<1>6. call' \in [Calls -> CallStates]
  BY <1>0 DEF CallsOK
<1> QED
  BY <1>4, <1>5, <1>6 DEF CallsOK, RingingCounted

\* Steps that touch neither the threads of the calls nor the counter.  The thread of
\* the conference may free it.
LEMMA CallsStay ==
    ASSUME CallsOK, RingingCounted, UNCHANGED <<call, originating>>,
           thr = "free" => thr' = "free"
    PROVE  CallsOK' /\ RingingCounted'
<1>1. Ringing' = Ringing
  BY DEF Ringing
<1> QED
  BY <1>1 DEF CallsOK, RingingCounted

(***************************************************************************)
(* The steps.                                                              *)
(***************************************************************************)
\* The rest of the state keeps its types.
LEMMA RestStep ==
    ASSUME RestOK, [Next]_vars
    PROVE  RestOK'
<1>1. CASE CallerStep
  BY <1>1 DEF RestOK, CallerStep, StartOutcalls, LaunchOutcall, Wait, WaitOver
<1>2. CASE Abandon \/ CallerLeaves
  BY <1>2 DEF RestOK, Abandon, CallerLeaves, Marks
<1>3. ASSUME NEW o \in Calls, conf_api_sub_bgdial(o) \/ OriginateFails(o) \/ OriginateSucceeds(o)
      PROVE  RestOK'
  BY <1>3 DEF RestOK, conf_api_sub_bgdial, OriginateFails, OriginateSucceeds
<1>4. ASSUME NEW o \in Calls, CallStep(o) PROVE RestOK'
  <2>1. CASE Transfer(o)
    <3>1. peer' \in [Calls -> PeerStates]
      BY <2>1 DEF RestOK, Transfer, PeerStates
    <3> QED
      BY <2>1, <3>1 DEF RestOK, Transfer
  <2>2. CASE ~Transfer(o)
    BY <1>4, <2>2 DEF RestOK, CallStep, RdLock, Originate, RdUnlock, Result, UseAfterFree
  <2> QED
    BY <2>1, <2>2
<1>5. ASSUME NEW o \in Calls, PeerEnters(o) \/ PeerLeaves(o) PROVE RestOK'
  <2>1. peer' \in [Calls -> PeerStates]
    BY <1>5 DEF RestOK, PeerEnters, PeerLeaves, PeerStates
  <2>2. destruct' \in BOOLEAN
    BY <1>5 DEF RestOK, PeerEnters, PeerLeaves, Marks
  <2> QED
    BY <1>5, <2>1, <2>2 DEF RestOK, PeerEnters, PeerLeaves
<1>6. CASE Doom \/ ThreadStep
  BY <1>6 DEF RestOK, Doom, ThreadStep, LoopEnds, CancelOutcalls, Drained, SweepAndUnhash,
     WrLock, WrUnlock, Destroy, Thread
<1>7. CASE Finished \/ UNCHANGED vars
  BY <1>7 DEF RestOK, Finished, vars
<1> QED
  BY <1>1, <1>2, <1>3, <1>4, <1>5, <1>6, <1>7 DEF Next

\* The counter follows the calls.
LEMMA CallsStep ==
    ASSUME CallsOK, RingingCounted, [Next]_vars
    PROVE  CallsOK' /\ RingingCounted'
<1>1. CASE CallerStep
  <2>1. ASSUME NEW o \in AutoCalls, LaunchOutcall(o) PROVE CallsOK' /\ RingingCounted'
    <3>1. /\ o \in Calls /\ "started" \in CallStates \ {"ringing"} /\ call[o] # "ringing"
          /\ call' = [call EXCEPT ![o] = "started"] /\ UNCHANGED <<originating, thr>>
      BY <2>1 DEF LaunchOutcall, Calls, CallStates
    <3> QED
      BY <3>1, MoveElsewhere
  <2>2. CASE StartOutcalls \/ Wait \/ WaitOver
    BY <2>2, CallsStay DEF StartOutcalls, Wait, WaitOver
  <2> QED
    BY <1>1, <2>1, <2>2 DEF CallerStep
<1>2. CASE Abandon \/ CallerLeaves
  BY <1>2, CallsStay DEF Abandon, CallerLeaves
<1>3. ASSUME NEW o \in Calls, conf_api_sub_bgdial(o) PROVE CallsOK' /\ RingingCounted'
  <2>1. /\ "started" \in CallStates \ {"ringing"} /\ call[o] # "ringing" /\ thr # "free"
        /\ call' = [call EXCEPT ![o] = "started"] /\ UNCHANGED <<originating, thr>>
    BY <1>3 DEF conf_api_sub_bgdial, CallStates
  <2> QED
    BY <2>1, MoveElsewhere
<1>4. ASSUME NEW o \in Calls, CallStep(o), ~Originate(o) PROVE CallsOK' /\ RingingCounted'
  <2>1. /\ \E to \in CallStates \ {"ringing"} : call' = [call EXCEPT ![o] = to]
        /\ UNCHANGED <<originating, thr>>
        /\ thr # "free" => call[o] # "ringing"
    BY <1>4 DEF CallStep, RdLock, Transfer, RdUnlock, Result, UseAfterFree, At, CallStates
  <2> QED
    BY <2>1, MoveElsewhere
<1>5. ASSUME NEW o \in Calls, PeerEnters(o) \/ PeerLeaves(o) PROVE CallsOK' /\ RingingCounted'
  BY <1>5, CallsStay DEF PeerEnters, PeerLeaves
<1>6. CASE Doom \/ ThreadStep
  BY <1>6, CallsStay DEF Doom, ThreadStep, LoopEnds, CancelOutcalls, Drained, SweepAndUnhash,
     WrLock, WrUnlock, Destroy, Thread
<1>7. CASE Finished \/ UNCHANGED vars
  BY <1>7, CallsStay DEF Finished, vars
<1> QED
  BY <1>1, <1>2, <1>3, <1>4, <1>5, <1>6, <1>7, RingsUp, RingsDown DEF Next

\* The inductive invariant.
LEMMA OutcallInvariant == Spec => [](TypeOK /\ RingingCounted)
<1>1. Init => RestOK /\ CallsOK /\ RingingCounted
  <2> SUFFICES ASSUME Init PROVE RestOK /\ CallsOK /\ RingingCounted
    OBVIOUS
  <2>1. RestOK
    BY DEF Init, RestOK, PeerStates
  <2>2. CallsOK
    BY FiniteCalls DEF Init, CallsOK, CallStates
  <2>3. Ringing = {}
    BY DEF Init, Ringing
  <2>4. originating = Cardinality(Ringing)
    BY <2>3, FS_EmptySet DEF Init
  <2> QED
    BY <2>1, <2>2, <2>4 DEF RingingCounted
<1>2. RestOK /\ CallsOK /\ RingingCounted /\ [Next]_vars => (RestOK /\ CallsOK /\ RingingCounted)'
  BY RestStep, CallsStep
<1>3. RestOK /\ CallsOK => TypeOK
  BY Parts
<1> QED
  BY <1>1, <1>2, <1>3, PTL DEF Spec

(***************************************************************************)
(* The theorems.                                                           *)
(***************************************************************************)
\* conference->originating never goes below zero nor above the number of calls,
\* however the threads, the caller and the wind-down are scheduled.
THEOREM OutcallTypeCorrect == Spec => []TypeOK
  BY OutcallInvariant, PTL

\* As long as there is a conference, its counter says exactly how many threads are
\* inside switch_ivr_originate: nobody who waits for zero is kept by a call that has
\* ended, and nobody goes on while one of the counted calls still rings.
THEOREM RingingCorrect == Spec => []RingingCounted
  BY OutcallInvariant, PTL
=============================================================================
