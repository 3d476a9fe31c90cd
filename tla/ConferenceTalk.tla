---------------------------- MODULE ConferenceTalk ----------------------------
(***************************************************************************)
(* Talk detection, noise gate and automatic gain control of one member:    *)
(* the frames that conference_loop_input judges, and the commands that     *)
(* mute, unmute and relate the member or turn the gain control on and off. *)
(*                                                                         *)
(* A frame is the number the code reduces it to, member->score, which is   *)
(* the mean of its samples after the volume adjustments, or comfort noise. *)
(* The flags are the ones the thread tests before and again after it has   *)
(* judged a frame; a command may run in between.                           *)
(***************************************************************************)
EXTENDS Integers

CONSTANTS
    Scores,        \* the scores of audio frames
    Cng,           \* a frame with SFF_CNG
    EnergyLevels,  \* what the energy commands set
    AgcLevels,     \* what the agc command sets, 0 for off
    MuteDetect,    \* the member has MFLAG_MUTE_DETECT
    Hangover,      \* quiet frames that end the talking (40)
    Hangunder,     \* energetic frames that start it (5)
    DiffLevel,     \* how far above the energy level one frame starts it (400)
    AgcPeriod,     \* agc_period, a quarter of a second of frames
    NtLimit,       \* three seconds of frames
    MaxItt         \* bound: frames that are averaged without a change of volume

ASSUME TalkAssumption ==
    /\ Scores \subseteq Nat /\ EnergyLevels \subseteq Nat /\ AgcLevels \subseteq Nat
    /\ Cng \notin Scores /\ MuteDetect \in BOOLEAN
    /\ {Hangover, Hangunder, DiffLevel, AgcPeriod, NtLimit, MaxItt} \subseteq Nat \ {0}

VARIABLES
    pc,            \* where conference_loop_input is
    frame,         \* the frame it has read last
    can_speak,     \* MFLAG_CAN_SPEAK
    talking,       \* MFLAG_TALKING
    over,          \* hangover_hits
    under,         \* hangunder_hits
    energy_level,  \* member->energy_level
    agc_level,     \* conference->agc_level
    agc,           \* the member's volume, average and counters
    last_score,    \* member->last_score
    muting,        \* conf_api_sub_mute is between its two flags
    silent         \* quiet frames since the last one that let the member talk

vars == <<pc, frame, can_speak, talking, over, under, energy_level, agc_level, agc,
          last_score, muting, silent>>

Least(a, b) == IF a < b THEN a ELSE b
Less(n) == IF n > 0 THEN n - 1 ELSE 0
Frames == Scores \cup {Cng}

\* Every counter is within what the code lets it reach; the volume stays within
\* switch_normalize_volume_granular.
TypeOK ==
    /\ pc \in {"read", "noise", "judge"}
    /\ frame \in Frames
    /\ can_speak \in BOOLEAN /\ talking \in BOOLEAN /\ muting \in BOOLEAN
    /\ over \in 0..(Hangover - 1) /\ under \in 0..(Hangunder - 1)
    /\ energy_level \in EnergyLevels /\ agc_level \in AgcLevels
    /\ agc \in [vol : -12..12, tally : Nat, itt : 0..MaxItt, concur : 0..(AgcPeriod - 1),
                nt : 0..(NtLimit + 1)]
    /\ last_score \in Scores \cup {0}
    /\ silent \in 0..Hangover

(***************************************************************************)
(* The noise gate and the gain control.                                    *)
(***************************************************************************)
\* The gate follows the gain that was given to the member.
target_score(level, vol) ==
    IF agc_level # 0 /\ vol # 0
    THEN IF level + 25 * vol < 0 THEN 0 ELSE level + 25 * vol
    ELSE level

noise_gate_check(score) == score > target_score(energy_level, agc.vol)

clear_avg(g) == [g EXCEPT !.tally = 0, !.itt = 0, !.concur = 0]

avg_score(g) == IF g.itt = 0 THEN 0 ELSE g.tally \div g.itt

\* Mutant: the volume is not kept in its range.
VolumeUnbounded(vol) == vol

Volume(vol) == IF vol > 12 THEN 12 ELSE IF vol < -12 THEN -12 ELSE vol

\* The difference is unsigned: for a level below 100 it exceeds every score.
check_agc_levels(g) ==
    LET avg == avg_score(g)
    IN  IF avg = 0 THEN g
        ELSE IF agc_level < 100 \/ avg < agc_level - 100 THEN clear_avg([g EXCEPT !.vol = Volume(@ + 1)])
        ELSE IF avg > agc_level + 100 THEN clear_avg([g EXCEPT !.vol = Volume(@ - 1)])
        ELSE g

\* nt_tally only matters up to its limit.
Untalked(g) == [g EXCEPT !.nt = Least(@ + 1, NtLimit + 1)]

\* A score that jumps is left out of the average.
Averaged(g, score) ==
    IF last_score # 0 /\ (score - last_score > 900 \/ last_score - score > 900)
    THEN g ELSE [g EXCEPT !.tally = @ + score, !.itt = @ + 1]

\* The gain control on a score; the average itself is g's before the check.
Controlled(g, score) ==
    IF agc_level # 0 /\ score # 0 /\ can_speak /\ noise_gate_check(score)
    THEN LET a == [Averaged(g, score) EXCEPT !.concur = @ + 1]
         IN  IF a.concur >= AgcPeriod THEN [check_agc_levels(a) EXCEPT !.concur = 0] ELSE a
    ELSE Untalked(g)

\* What a frame of audio does first: a long silence resets the volume.
Refreshed(g) ==
    LET reset == IF g.nt > NtLimit THEN clear_avg([g EXCEPT !.vol = 0]) ELSE g
    IN  IF agc_level = 0 THEN clear_avg(reset) ELSE reset

(***************************************************************************)
(* conference_loop_input.                                                  *)
(***************************************************************************)
Quiet == frame = Cng \/ ~noise_gate_check(frame)

\* read_mutex is held from here to the end of the frame.  At the bound only frames
\* arrive that the average leaves out.
ReadFrame ==
    /\ pc = "read"
    /\ frame' \in Frames
    /\ agc_level # 0 /\ agc.itt = MaxItt => frame' \in {0, Cng}
    /\ pc' = IF frame' = Cng THEN "noise"
             ELSE IF can_speak \/ MuteDetect THEN "judge" ELSE "read"
    /\ agc' = IF frame' = Cng THEN agc ELSE Refreshed(agc)
    /\ UNCHANGED <<can_speak, talking, over, under, energy_level, agc_level, last_score,
                   muting, silent>>

\* One more frame of silence; the last of them ends the talking, and with it
\* the average of the gain control (g).
Silence(counts, g) ==
    /\ silent' = Least(silent + 1, Hangover)
    /\ IF ~counts
       THEN /\ under' = Less(under) /\ agc' = g
            /\ UNCHANGED <<talking, over>>
       ELSE IF over + 1 >= Hangover
       THEN /\ over' = 0 /\ under' = 0 /\ talking' = FALSE
            /\ agc' = clear_avg(check_agc_levels(g))
       ELSE /\ over' = over + 1 /\ under' = Less(under) /\ agc' = g
            /\ UNCHANGED talking

\* Mutant: comfort noise is not silence.
NoiseIgnored ==
    /\ pc = "noise"
    /\ pc' = "read"
    /\ under' = Less(under)
    /\ UNCHANGED <<frame, can_speak, talking, over, energy_level, agc_level, agc, last_score,
                   muting, silent>>

Noise ==
    /\ pc = "noise"
    /\ pc' = "read"
    /\ Silence(talking, IF agc_level # 0 THEN Untalked(agc) ELSE agc)
    /\ UNCHANGED <<frame, can_speak, energy_level, agc_level, last_score, muting>>

\* diff is unsigned: a score below the energy level gives a huge one.
Loud == frame < energy_level \/ frame - energy_level >= DiffLevel

\* Mutant: the silence so far is not forgotten.
TalkKeepsHits ==
    IF Loud \/ under + 1 >= Hangunder
    THEN talking' = TRUE /\ under' = 0 /\ silent' = 0 /\ over' = Less(over)
    ELSE under' = under + 1 /\ over' = Less(over) /\ UNCHANGED <<talking, silent>>

Talk ==
    IF Loud \/ under + 1 >= Hangunder
    THEN talking' = TRUE /\ over' = 0 /\ under' = 0 /\ silent' = 0
    ELSE over' = Less(over) /\ under' = under + 1 /\ UNCHANGED <<talking, silent>>

\* The thread tested CAN_SPEAK when it read the frame.  What it does with the
\* audio after the judgement is ConferenceMix.
Judge ==
    /\ pc = "judge"
    /\ pc' = "read"
    /\ LET g == Controlled(agc, frame) IN
        IF frame > target_score(energy_level, g.vol)
        THEN /\ Talk
             /\ agc' = IF agc_level # 0 THEN [g EXCEPT !.nt = 0] ELSE g
        ELSE Silence(talking /\ can_speak, IF agc_level # 0 THEN Untalked(g) ELSE g)
    /\ last_score' = frame
    /\ UNCHANGED <<frame, can_speak, energy_level, agc_level, muting>>

(***************************************************************************)
(* Commands.  The flags have a mutex of their own, the levels have none.   *)
(***************************************************************************)
conf_api_sub_mute ==
    /\ \/ ~muting /\ can_speak' = FALSE /\ muting' = TRUE /\ UNCHANGED talking
       \/ muting /\ talking' = FALSE /\ muting' = FALSE /\ UNCHANGED can_speak
    /\ UNCHANGED <<pc, frame, over, under, energy_level, agc_level, agc, last_score, silent>>

conf_api_sub_unmute ==
    /\ can_speak' = TRUE
    /\ UNCHANGED <<pc, frame, talking, over, under, energy_level, agc_level, agc,
                   last_score, muting, silent>>

\* "relate ... nospeak" also ends what the member is saying.
conf_api_sub_relate ==
    /\ talking
    /\ talking' = FALSE
    /\ UNCHANGED <<pc, frame, can_speak, over, under, energy_level, agc_level, agc,
                   last_score, muting, silent>>

\* The caller controls change the level in the middle of a frame; the API command
\* (conf_api_sub_energy) takes the read_mutex and waits for its end.
conference_loop_fn_energy ==
    /\ \E e \in EnergyLevels \ {energy_level} : energy_level' = e
    /\ UNCHANGED <<pc, frame, can_speak, talking, over, under, agc_level, agc, last_score,
                   muting, silent>>

conf_api_sub_agc ==
    /\ \E l \in AgcLevels \ {agc_level} : agc_level' = l
    /\ UNCHANGED <<pc, frame, can_speak, talking, over, under, energy_level, agc, last_score,
                   muting, silent>>

Init ==
    /\ pc = "read" /\ frame = Cng
    /\ can_speak = TRUE /\ talking = FALSE /\ muting = FALSE
    /\ over = 0 /\ under = 0 /\ silent = 0 /\ last_score = 0
    /\ energy_level \in EnergyLevels /\ agc_level \in AgcLevels
    /\ agc = [vol |-> 0, tally |-> 0, itt |-> 0, concur |-> 0, nt |-> 0]

InputStep == ReadFrame \/ Noise \/ Judge

Next ==
    \/ InputStep
    \/ conf_api_sub_mute \/ conf_api_sub_unmute \/ conf_api_sub_relate
    \/ conference_loop_fn_energy \/ conf_api_sub_agc

Spec == Init /\ [][Next]_vars

\* Frames keep coming: a read returns comfort noise when nothing arrives.  A
\* command that has begun goes on.
FairSpec == Spec /\ WF_vars(InputStep) /\ WF_vars(muting /\ conf_api_sub_mute)

(***************************************************************************)
(* Properties.                                                             *)
(***************************************************************************)
\* The hangover keeps the ends of words: the input thread takes a member for
\* silent only after Hangover quiet frames without one that let it talk, whatever
\* was muted, unmuted, related or adjusted meanwhile.
NotCutOff ==
    [][pc # pc' /\ talking /\ ~talking' => silent' >= Hangover]_vars

\* A member who may speak and says nothing any more stops talking for good, so
\* that the floor and the audio of the conference are free of it.
TalkingEnds == <>[](can_speak /\ Quiet) => <>[]~talking

=============================================================================
