------------------------ MODULE ConferenceTalkProofs ------------------------
(***************************************************************************)
(* Talk detection and gain control, for all scores, levels and limits.     *)
(***************************************************************************)
EXTENDS ConferenceTalk, TLAPS

AgcRec == [vol : -12..12, tally : Nat, itt : 0..MaxItt, concur : 0..(AgcPeriod - 1),
           nt : 0..(NtLimit + 1)]

\* The quiet frames that are counted towards the end of the talking are among the
\* quiet frames since the last one that let the member talk.
HitsBounded == over <= silent

\* A frame that is judged is audio, and at the bound of the average it is one that
\* the average leaves out.
AtBound == pc = "judge" => frame \in Scores /\ (agc.itt = MaxItt => frame = 0)

TalkInv == HitsBounded /\ AtBound

\* The assumptions on the constants, and the types that follow.
LEMMA TalkNumbers ==
    /\ Hangover \in Nat \ {0} /\ Hangunder \in Nat \ {0} /\ AgcPeriod \in Nat \ {0}
    /\ NtLimit \in Nat \ {0} /\ MaxItt \in Nat \ {0}
    /\ Scores \subseteq Nat /\ EnergyLevels \subseteq Nat /\ AgcLevels \subseteq Nat
    /\ Cng \notin Scores
  BY TalkAssumption DEF TalkAssumption

(***************************************************************************)
(* The gain control keeps the member's volume and counters in their ranges. *)
(***************************************************************************)
\* clear_avg, one step of the volume, and one more frame without talking.
LEMMA AgcParts ==
    ASSUME NEW g \in AgcRec
    PROVE  /\ clear_avg(g) \in AgcRec /\ clear_avg(g).itt = 0
           /\ Untalked(g) \in AgcRec /\ Untalked(g).itt = g.itt
           /\ [g EXCEPT !.vol = 0] \in AgcRec
           /\ [g EXCEPT !.nt = 0] \in AgcRec
           /\ [g EXCEPT !.vol = Volume(@ + 1)] \in AgcRec
           /\ [g EXCEPT !.vol = Volume(@ - 1)] \in AgcRec
<1>0. /\ g.vol \in -12..12 /\ g.tally \in Nat /\ g.itt \in 0..MaxItt
      /\ g.concur \in 0..(AgcPeriod - 1) /\ g.nt \in 0..(NtLimit + 1)
  BY DEF AgcRec
<1>1. 0 \in 0..MaxItt /\ 0 \in 0..(AgcPeriod - 1) /\ 0 \in 0..(NtLimit + 1)
  BY TalkNumbers
<1>2. Volume(g.vol + 1) \in -12..12 /\ Volume(g.vol - 1) \in -12..12
  BY <1>0 DEF Volume
<1>3. Least(g.nt + 1, NtLimit + 1) \in 0..(NtLimit + 1)
  BY <1>0, TalkNumbers DEF Least
<1>4. clear_avg(g) \in AgcRec /\ clear_avg(g).itt = 0
  BY <1>1 DEF clear_avg, AgcRec
<1>5. Untalked(g) \in AgcRec /\ Untalked(g).itt = g.itt
  BY <1>3 DEF Untalked, AgcRec
<1>6. [g EXCEPT !.vol = 0] \in AgcRec /\ [g EXCEPT !.nt = 0] \in AgcRec
  BY <1>1 DEF AgcRec
<1>7. [g EXCEPT !.vol = Volume(@ + 1)] \in AgcRec /\ [g EXCEPT !.vol = Volume(@ - 1)] \in AgcRec
  BY <1>2 DEF AgcRec
<1> QED
  BY <1>4, <1>5, <1>6, <1>7

\* check_agc_levels changes the volume by at most one and then forgets the average.
LEMMA CheckTyped ==
    ASSUME NEW g \in AgcRec
    PROVE  check_agc_levels(g) \in AgcRec
<1>1. /\ clear_avg([g EXCEPT !.vol = Volume(@ + 1)]) \in AgcRec
      /\ clear_avg([g EXCEPT !.vol = Volume(@ - 1)]) \in AgcRec
  BY AgcParts
<1> QED
  BY <1>1 DEF check_agc_levels

\* A frame of audio first of all resets what a long silence left.
LEMMA RefreshedTyped ==
    ASSUME NEW g \in AgcRec
    PROVE  /\ Refreshed(g) \in AgcRec
           /\ agc_level = 0 => Refreshed(g).itt = 0
           /\ Refreshed(g).itt \in {0, g.itt}
<1> DEFINE reset == IF g.nt > NtLimit THEN clear_avg([g EXCEPT !.vol = 0]) ELSE g
<1>1. reset \in AgcRec /\ reset.itt \in {0, g.itt}
  BY AgcParts
<1>2. Refreshed(g) = IF agc_level = 0 THEN clear_avg(reset) ELSE reset
  BY DEF Refreshed
<1> HIDE DEF reset
<1> QED
  BY <1>1, <1>2, AgcParts

\* The same with agc_concur one above its range, as it is when it is tested.
AgcWide == [vol : -12..12, tally : Nat, itt : 0..MaxItt, concur : Nat, nt : 0..(NtLimit + 1)]

\* Its fields can be set as those of the other, and clearing it ends the excess.
LEMMA WideParts ==
    ASSUME NEW w \in AgcWide
    PROVE  /\ [w EXCEPT !.concur = 0] \in AgcRec
           /\ \A v \in -12..12 : [w EXCEPT !.vol = v] \in AgcWide
           /\ w.vol \in -12..12
<1>1. 0 \in 0..(AgcPeriod - 1)
  BY TalkNumbers
<1> QED
  BY <1>1 DEF AgcWide, AgcRec

\* clear_avg at that point.
LEMMA WideCleared ==
    ASSUME NEW w \in AgcWide
    PROVE  clear_avg(w) \in AgcRec
<1>1. 0 \in 0..(AgcPeriod - 1) /\ 0 \in 0..MaxItt /\ 0 \in Nat
  BY TalkNumbers
<1>2. [w EXCEPT !.tally = 0] \in AgcWide
  BY <1>1 DEF AgcWide
<1>3. ASSUME NEW x \in AgcWide PROVE [x EXCEPT !.itt = 0] \in AgcWide
  BY <1>1 DEF AgcWide
<1>4. ASSUME NEW x \in AgcWide PROVE [x EXCEPT !.concur = 0] \in AgcRec
  BY <1>1 DEF AgcWide, AgcRec
<1> QED
  BY <1>2, <1>3, <1>4 DEF clear_avg

\* A score that is averaged, or not.
LEMMA ControlledTyped ==
    ASSUME NEW g \in AgcRec, NEW score \in Nat, score # 0 => g.itt < MaxItt
    PROVE  Controlled(g, score) \in AgcRec
<1>0. /\ g.vol \in -12..12 /\ g.tally \in Nat /\ g.itt \in 0..MaxItt
      /\ g.concur \in 0..(AgcPeriod - 1) /\ g.nt \in 0..(NtLimit + 1)
  BY DEF AgcRec
<1>1. CASE ~(agc_level # 0 /\ score # 0 /\ can_speak /\ noise_gate_check(score))
  BY <1>1, AgcParts DEF Controlled
<1>2. CASE agc_level # 0 /\ score # 0 /\ can_speak /\ noise_gate_check(score)
  <2> DEFINE b == Averaged(g, score)
             a == [b EXCEPT !.concur = @ + 1]
  <2>1. g.tally + score \in Nat /\ g.itt + 1 \in 0..MaxItt
    BY <1>0, <1>2, TalkNumbers
  <2>2. [g EXCEPT !.tally = @ + score, !.itt = @ + 1] \in AgcRec
    BY <2>1 DEF AgcRec
  <2>3. b \in AgcRec
    BY <2>2 DEF Averaged
  <2> HIDE DEF b
  <2>4. b.concur \in 0..(AgcPeriod - 1)
    BY <2>3 DEF AgcRec
  <2>5. a.concur = b.concur + 1 /\ b.concur + 1 \in Nat
    BY <2>3, <2>4, TalkNumbers DEF AgcRec
  <2>6. a \in AgcWide
    BY <2>3, <2>5 DEF AgcRec, AgcWide
  <2>7. Controlled(g, score) = IF a.concur >= AgcPeriod
                               THEN [check_agc_levels(a) EXCEPT !.concur = 0] ELSE a
    BY <1>2 DEF Controlled, b
  <2>8. CASE a.concur >= AgcPeriod
    <3> HIDE DEF a
    <3>1. Volume(a.vol + 1) \in -12..12 /\ Volume(a.vol - 1) \in -12..12
      <4>1. a.vol \in -12..12
        BY <2>6, WideParts
      <4> QED
        BY <4>1 DEF Volume
    <3>2. /\ clear_avg([a EXCEPT !.vol = Volume(@ + 1)]) \in AgcRec
          /\ clear_avg([a EXCEPT !.vol = Volume(@ - 1)]) \in AgcRec
      BY <2>6, <3>1, WideParts, WideCleared
    <3>3. check_agc_levels(a) \in AgcRec \/ check_agc_levels(a) = a
      BY <3>2 DEF check_agc_levels
    <3>4. AgcRec \subseteq AgcWide
      BY TalkNumbers DEF AgcRec, AgcWide
    <3>5. [check_agc_levels(a) EXCEPT !.concur = 0] \in AgcRec
      BY <2>6, <3>3, <3>4, WideParts
    <3> QED
      BY <2>7, <2>8, <3>5
  <2>9. CASE ~(a.concur >= AgcPeriod)
    <3>1. b.concur + 1 \in 0..(AgcPeriod - 1)
      BY <2>4, <2>5, <2>9, TalkNumbers
    <3>2. a \in AgcRec
      BY <2>3, <3>1 DEF AgcRec
    <3> QED
      BY <2>7, <2>9, <3>2
  <2> QED
    BY <2>8, <2>9
<1> QED
  BY <1>1, <1>2


(***************************************************************************)
(* The steps.                                                              *)
(***************************************************************************)
\* The counters of the talk detection in a step of it.
Counters == over' \in 0..(Hangover - 1) /\ under' \in 0..(Hangunder - 1) /\ silent' \in 0..Hangover

\* One frame of silence keeps the counters in their ranges and the hits behind the
\* silence; it ends the talking only when the silence is as long as the hangover.
LEMMA SilenceEffect ==
    ASSUME TypeOK, HitsBounded, NEW counts \in BOOLEAN, NEW g \in AgcRec, Silence(counts, g)
    PROVE  /\ Counters /\ HitsBounded'
           /\ talking' \in BOOLEAN /\ agc' \in AgcRec
           /\ talking /\ ~talking' => silent' >= Hangover
<1>0. /\ over \in 0..(Hangover - 1) /\ under \in 0..(Hangunder - 1) /\ silent \in 0..Hangover
      /\ over <= silent
  BY DEF TypeOK, HitsBounded
<1>1. /\ Less(under) \in 0..(Hangunder - 1) /\ 0 \in 0..(Hangunder - 1)
      /\ 0 \in 0..(Hangover - 1)
  BY <1>0, TalkNumbers DEF Less
<1>2. silent' \in 0..Hangover /\ over <= silent' /\ (over + 1 < Hangover => over + 1 <= silent')
  BY <1>0, TalkNumbers DEF Silence, Least
<1>3. over + 1 >= Hangover => silent' >= Hangover
  BY <1>0, TalkNumbers DEF Silence, Least
<1>4. clear_avg(check_agc_levels(g)) \in AgcRec
  BY CheckTyped, AgcParts
<1>5. CASE ~counts
  <2>1. under' = Less(under) /\ agc' = g /\ talking' = talking /\ over' = over
    BY <1>5 DEF Silence
  <2> QED
    BY <1>0, <1>1, <1>2, <2>1 DEF TypeOK, Counters, HitsBounded
<1>6. CASE counts /\ over + 1 >= Hangover
  <2>1. over' = 0 /\ under' = 0 /\ talking' = FALSE /\ agc' = clear_avg(check_agc_levels(g))
    BY <1>6 DEF Silence
  <2>2. Counters /\ HitsBounded'
    BY <1>1, <1>2, <2>1 DEF Counters, HitsBounded
  <2>3. talking' \in BOOLEAN
    BY <2>1
  <2> QED
    BY <1>3, <1>4, <1>6, <2>1, <2>2, <2>3
<1>7. CASE counts /\ ~(over + 1 >= Hangover)
  <2>1. over' = over + 1 /\ under' = Less(under) /\ agc' = g /\ talking' = talking
    BY <1>7 DEF Silence
  <2>2. over + 1 \in 0..(Hangover - 1) /\ over + 1 <= silent'
    BY <1>0, <1>2, <1>7, TalkNumbers
  <2> QED
    BY <1>1, <1>2, <2>1, <2>2 DEF TypeOK, Counters, HitsBounded
<1> QED
  BY <1>5, <1>6, <1>7

\* A frame above the gate.
LEMMA TalkEffect ==
    ASSUME TypeOK, HitsBounded, Talk
    PROVE  /\ Counters /\ HitsBounded'
           /\ talking' \in BOOLEAN
           /\ talking => talking'
<1>0. /\ over \in 0..(Hangover - 1) /\ under \in 0..(Hangunder - 1) /\ silent \in 0..Hangover
      /\ over <= silent
  BY DEF TypeOK, HitsBounded
<1>1. CASE Loud \/ under + 1 >= Hangunder
  <2>1. talking' = TRUE /\ over' = 0 /\ under' = 0 /\ silent' = 0
    BY <1>1 DEF Talk
  <2>2. Counters /\ HitsBounded'
    BY <2>1, TalkNumbers DEF Counters, HitsBounded
  <2> QED
    BY <2>1, <2>2
<1>2. CASE ~(Loud \/ under + 1 >= Hangunder)
  <2>1. over' = Less(over) /\ under' = under + 1 /\ talking' = talking /\ silent' = silent
    BY <1>2 DEF Talk
  <2>2. under + 1 \in 0..(Hangunder - 1)
    BY <1>0, <1>2, TalkNumbers
  <2>3. Less(over) \in 0..(Hangover - 1) /\ Less(over) <= silent
    BY <1>0, TalkNumbers DEF Less
  <2>4. Counters /\ HitsBounded'
    BY <1>0, <2>1, <2>2, <2>3 DEF Counters, HitsBounded
  <2> QED
    BY <2>1, <2>4 DEF TypeOK
<1> QED
  BY <1>1, <1>2

\* The input thread on a frame of comfort noise.
LEMMA NoiseEffect ==
    ASSUME TypeOK, HitsBounded, Noise
    PROVE  /\ Counters /\ HitsBounded'
           /\ talking' \in BOOLEAN /\ agc' \in AgcRec
           /\ talking /\ ~talking' => silent' >= Hangover
<1>1. talking \in BOOLEAN /\ agc \in AgcRec
  BY DEF TypeOK, AgcRec
<1> DEFINE g == IF agc_level # 0 THEN Untalked(agc) ELSE agc
<1>2. g \in AgcRec
  BY <1>1, AgcParts
<1>3. Silence(talking, g)
  BY DEF Noise
<1> HIDE DEF g
<1> QED
  BY <1>1, <1>2, <1>3, SilenceEffect

\* The input thread on a frame of audio.
LEMMA JudgeEffect ==
    ASSUME TypeOK, TalkInv, Judge
    PROVE  /\ Counters /\ HitsBounded'
           /\ talking' \in BOOLEAN /\ agc' \in AgcRec
           /\ talking /\ ~talking' => silent' >= Hangover
<1>1. talking \in BOOLEAN /\ can_speak \in BOOLEAN /\ agc \in AgcRec
  BY DEF TypeOK, AgcRec
<1>2. frame \in Nat /\ (frame # 0 => agc.itt < MaxItt)
  <2>1. frame \in Scores /\ (agc.itt = MaxItt => frame = 0)
    BY DEF Judge, TalkInv, AtBound
  <2>2. agc.itt \in 0..MaxItt
    BY <1>1 DEF AgcRec
  <2> QED
    BY <2>1, <2>2, TalkNumbers
<1> DEFINE g == Controlled(agc, frame)
           u == IF agc_level # 0 THEN Untalked(g) ELSE g
           counts == talking /\ can_speak
<1>3. g \in AgcRec
  BY <1>1, <1>2, ControlledTyped
<1>4. IF frame > target_score(energy_level, g.vol)
      THEN Talk /\ agc' = IF agc_level # 0 THEN [g EXCEPT !.nt = 0] ELSE g
      ELSE Silence(counts, u)
  BY DEF Judge
<1> HIDE DEF g
<1>5. CASE frame > target_score(energy_level, g.vol)
  <2>1. agc' \in AgcRec
    BY <1>3, <1>4, <1>5, AgcParts
  <2> QED
    BY <1>4, <1>5, <2>1, TalkEffect DEF TalkInv
<1>6. CASE ~(frame > target_score(energy_level, g.vol))
  <2>1. u \in AgcRec
    BY <1>3, AgcParts
  <2>2. counts \in BOOLEAN /\ (counts => talking)
    OBVIOUS
  <2>3. Silence(counts, u)
    BY <1>4, <1>6
  <2> HIDE DEF u, counts
  <2> QED
    BY <2>1, <2>2, <2>3, SilenceEffect DEF TalkInv
<1> QED
  BY <1>5, <1>6

\* Every step keeps the types and the invariant.
LEMMA TalkStep ==
    ASSUME TypeOK, TalkInv, [Next]_vars
    PROVE  (TypeOK /\ TalkInv)'
<1>1. agc \in AgcRec /\ agc.itt \in 0..MaxItt
  BY DEF TypeOK, AgcRec
<1>2. CASE ReadFrame
  <2>1. agc' \in AgcRec /\ agc'.itt \in {0, agc.itt} /\ (agc_level = 0 /\ frame' # Cng => agc'.itt = 0)
    BY <1>1, <1>2, RefreshedTyped DEF ReadFrame
  <2>2. pc' \in {"read", "noise", "judge"} /\ frame' \in Frames
    BY <1>2 DEF ReadFrame
  <2>3. pc' = "judge" => frame' # Cng
    BY <1>2 DEF ReadFrame
  <2>4. agc'.itt = MaxItt /\ frame' # Cng => frame' = 0
    BY <1>2, <2>1, TalkNumbers DEF ReadFrame
  <2>5. AtBound'
    BY <2>2, <2>3, <2>4 DEF AtBound, Frames
  <2>6. UNCHANGED <<can_speak, talking, over, under, energy_level, agc_level, last_score,
                    muting, silent>>
    BY <1>2 DEF ReadFrame
  <2>7. HitsBounded'
    BY <2>6 DEF TalkInv, HitsBounded
  <2>8. TypeOK'
    BY <2>1, <2>2, <2>6 DEF TypeOK, AgcRec
  <2> QED
    BY <2>5, <2>7, <2>8 DEF TalkInv
<1>3. CASE Noise
  <2>1. UNCHANGED <<frame, can_speak, energy_level, agc_level, last_score, muting>> /\ pc' = "read"
    BY <1>3 DEF Noise
  <2>2. Counters /\ HitsBounded' /\ talking' \in BOOLEAN /\ agc' \in AgcRec
    BY <1>3, NoiseEffect DEF TalkInv
  <2>3. TypeOK'
    BY <2>1, <2>2 DEF TypeOK, AgcRec, Counters
  <2> QED
    BY <2>1, <2>2, <2>3 DEF TalkInv, AtBound
<1>4. CASE Judge
  <2>1. UNCHANGED <<frame, can_speak, energy_level, agc_level, muting>> /\ pc' = "read"
    BY <1>4 DEF Judge
  <2>2. Counters /\ HitsBounded' /\ talking' \in BOOLEAN /\ agc' \in AgcRec
    BY <1>4, JudgeEffect
  <2>3. last_score' \in Scores \cup {0}
    BY <1>4 DEF Judge, TalkInv, AtBound
  <2>4. TypeOK'
    BY <2>1, <2>2, <2>3 DEF TypeOK, AgcRec, Counters
  <2> QED
    BY <2>1, <2>2, <2>4 DEF TalkInv, AtBound
<1>5. CASE UNCHANGED <<pc, frame, over, under, agc, last_score, silent>>
           /\ can_speak' \in BOOLEAN /\ talking' \in BOOLEAN /\ muting' \in BOOLEAN
           /\ energy_level' \in EnergyLevels /\ agc_level' \in AgcLevels
  <2>1. TypeOK'
    BY <1>5 DEF TypeOK
  <2>2. TalkInv'
    BY <1>5 DEF TalkInv, HitsBounded, AtBound
  <2> QED
    BY <2>1, <2>2
<1>6. CASE conf_api_sub_mute
  BY <1>5, <1>6 DEF conf_api_sub_mute, TypeOK
<1>7. CASE conf_api_sub_unmute
  BY <1>5, <1>7 DEF conf_api_sub_unmute, TypeOK
<1>8. CASE conf_api_sub_relate
  BY <1>5, <1>8 DEF conf_api_sub_relate, TypeOK
<1>9. CASE conference_loop_fn_energy
  BY <1>5, <1>9 DEF conference_loop_fn_energy, TypeOK
<1>10. CASE conf_api_sub_agc
  BY <1>5, <1>10 DEF conf_api_sub_agc, TypeOK
<1>11. CASE UNCHANGED vars
  BY <1>5, <1>11 DEF vars, TypeOK
<1> QED
  BY <1>2, <1>3, <1>4, <1>6, <1>7, <1>8, <1>9, <1>10, <1>11 DEF Next, InputStep

\* The types and the invariant hold in every reachable state.
LEMMA TalkInvariant == Spec => [](TypeOK /\ TalkInv)
<1>1. Init => TypeOK /\ TalkInv
  <2> SUFFICES ASSUME Init PROVE TypeOK /\ TalkInv
    OBVIOUS
  <2>1. agc \in AgcRec
    BY TalkNumbers DEF Init, AgcRec
  <2>2. TypeOK
    <3>1. 0 \in 0..(Hangover - 1) /\ 0 \in 0..(Hangunder - 1) /\ 0 \in 0..Hangover
      BY TalkNumbers
    <3>2. can_speak \in BOOLEAN /\ talking \in BOOLEAN /\ muting \in BOOLEAN
      BY DEF Init
    <3>3. /\ pc \in {"read", "noise", "judge"} /\ frame \in Frames
          /\ last_score \in Scores \cup {0}
          /\ energy_level \in EnergyLevels /\ agc_level \in AgcLevels
      BY DEF Init, Frames
    <3>4. /\ over \in 0..(Hangover - 1) /\ under \in 0..(Hangunder - 1)
          /\ silent \in 0..Hangover
      BY <3>1 DEF Init
    <3> QED
      BY <2>1, <3>2, <3>3, <3>4 DEF TypeOK, AgcRec
  <2>3. TalkInv
    BY DEF Init, TalkInv, HitsBounded, AtBound
  <2> QED
    BY <2>2, <2>3
<1>2. TypeOK /\ TalkInv /\ [Next]_vars => (TypeOK /\ TalkInv)'
  BY TalkStep
<1> QED
  BY <1>1, <1>2, PTL DEF Spec

(***************************************************************************)
(* The theorems.                                                           *)
(***************************************************************************)
\* The counters of the talk detection and of the gain control stay in their ranges,
\* and the volume between -12 and 12, in conference_loop_input and check_agc_levels.
THEOREM TalkTypeCorrect == Spec => []TypeOK
  BY TalkInvariant, PTL

\* The input thread never takes a member for silent before Hangover quiet frames,
\* whatever the commands do in between.
THEOREM NotCutOffCorrect == Spec => NotCutOff
<1>1. TypeOK /\ TalkInv /\ [Next]_vars
      => [pc # pc' /\ talking /\ ~talking' => silent' >= Hangover]_vars
  <2> SUFFICES ASSUME TypeOK, TalkInv, [Next]_vars, pc # pc', talking, ~talking'
               PROVE  silent' >= Hangover
    OBVIOUS
  <2>1. CASE ReadFrame
    BY <2>1 DEF ReadFrame
  <2>2. CASE Noise
    BY <2>2, NoiseEffect DEF TalkInv
  <2>3. CASE Judge
    BY <2>3, JudgeEffect
  <2>4. CASE UNCHANGED pc
    BY <2>4
  <2> QED
    BY <2>1, <2>2, <2>3, <2>4 DEF Next, InputStep, vars, conf_api_sub_mute,
       conf_api_sub_unmute, conf_api_sub_relate, conference_loop_fn_energy, conf_api_sub_agc
<1> QED
  BY <1>1, TalkInvariant, PTL DEF Spec, NotCutOff
=============================================================================
