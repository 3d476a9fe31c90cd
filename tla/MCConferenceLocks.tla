-------------------------- MODULE MCConferenceLocks --------------------------
(***************************************************************************)
(* Two callers join, talk, press digits, chat and leave beside the thread   *)
(* of the conference and an administrator.  The scenarios are small, but   *)
(* none was chosen to avoid a deadlock: each brings together operations     *)
(* that lock each other out, the known deadlocks among them.               *)
(***************************************************************************)
EXTENDS ConferenceLocks, TLC

CONSTANTS m, n

Quiet == [leavers |-> {m, n}, audio |-> FALSE, turns |-> [x \in Members |-> {"none"}],
          commands |-> {}, sounds |-> FALSE, faults |-> {}]

Turns(what) == [x \in Members |-> what]

\* Both callers press digits and use caller controls while audio is mixed.
Digits == [Quiet EXCEPT !.audio = TRUE, !.turns = Turns({"dtmf", "control"})]

\* Sounds for those who enter and leave, chat, and calls that die in a write.
Sounds == [Quiet EXCEPT !.audio = TRUE, !.sounds = TRUE, !.turns = Turns({"chat"}),
                        !.faults = {"write"}]

\* Commands on all members and on one while digits and sounds are played.
Managed == [Quiet EXCEPT !.turns = Turns({"dtmf", "control"}), !.sounds = TRUE,
                         !.commands = {"play", "list", "all", "member"}]

\* The same commands beside the mixing of audio.
Mixed == [Quiet EXCEPT !.audio = TRUE, !.commands = {"all", "member"}]

\* Relationships are made and cleared while their members press digits and leave.
Related == [Quiet EXCEPT !.turns = Turns({"dtmf"}), !.commands = {"relate", "clear"},
                         !.faults = {"write"}]

MCScenarios == {Digits, Sounds, Managed, Mixed, Related}
Symmetry == Permutations(Members)
=============================================================================
