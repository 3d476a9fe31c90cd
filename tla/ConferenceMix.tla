---------------------------- MODULE ConferenceMix ----------------------------
(***************************************************************************)
(* One tick of the mux loop: the frames of the members and of the files    *)
(* that play are added up, and every member is sent the sum without its    *)
(* own audio and without the audio of those it must not hear.              *)
(*                                                                         *)
(* The tick runs under conference->mutex, but MFLAG_RUNNING of a member    *)
(* can be cleared at any point of it (a kick, the member's own thread).    *)
(* A frame has FrameLen samples; which members and files have audio for    *)
(* this tick, and what they sound like, is an input.                       *)
(***************************************************************************)
EXTENDS Integers, FiniteSets, Functions

CONSTANTS
    Members,
    FrameLen,    \* bytes / 2, the samples of a frame
    Samples,     \* the values of a sample
    Lo, Hi,      \* the range switch_normalize_to_16bit cuts off to
    Padding,     \* what the main frame is filled with behind a short file frame
    FileLens,    \* how many samples a file read may return, 0 at its end
    Noise,       \* the frames of comfort noise
    Deaf,        \* the members without MFLAG_CAN_HEAR
    Wasting,     \* the members with MFLAG_WASTE_BANDWIDTH
    Unheard      \* <<i, o>>: a relationship forbids that o hears i

ASSUME MixAssumption ==
    /\ IsFiniteSet(Members)
    /\ FrameLen \in Nat \ {0}
    /\ Lo \in Int /\ Hi \in Int /\ -1 \in Lo..Hi /\ 0 \in Lo..Hi
    /\ Samples \subseteq Lo..Hi /\ Samples # {}
    /\ Padding \in Lo..Hi
    /\ FileLens \subseteq 0..FrameLen
    /\ Noise \subseteq [1..FrameLen -> Lo..Hi]
    /\ Unheard \subseteq Members \X Members
    /\ \A m \in Members : <<m, m>> \notin Unheard

Frame == 1..FrameLen
NoFile == [x \in {} |-> 0]
FileReads == UNION {[1..n -> Samples] : n \in FileLens}

\* What bandwidth is wasted with: bytes of 255, or comfort noise.
Fillings == {[x \in Frame |-> -1]} \cup Noise

VARIABLES
    tick,        \* where the tick is
    running,     \* the members with MFLAG_RUNNING
    has_audio,   \* the members with MFLAG_HAS_AUDIO
    frame,       \* member->frame, stale without MFLAG_HAS_AUDIO
    file_frame, has_file_data, file_sample_len,
    main_frame,
    write_frame, \* what each member was sent in this tick
    file, async, \* the samples read of the two files in this tick, or the filling
    summed,      \* the members whose frames were added up
    waste        \* CFLAG_WASTE_BANDWIDTH, of the profile

mixVars == <<tick, running, has_audio, frame, file_frame, has_file_data,
             file_sample_len, main_frame, write_frame, file, async, summed, waste>>

\* Every variable has its type.
MixTypeOK ==
    /\ tick \in {"idle", "read", "mixed", "summed", "sent"}
    /\ running \subseteq Members /\ has_audio \subseteq Members /\ summed \subseteq Members
    /\ frame \in [Members -> [Frame -> Samples]]
    /\ file_frame \in [Frame -> Lo..Hi]
    /\ has_file_data \in BOOLEAN
    /\ file_sample_len \in 0..FrameLen
    /\ main_frame \in [Frame -> Int]
    /\ DOMAIN write_frame \subseteq Members
    /\ \A m \in DOMAIN write_frame : write_frame[m] \in [Frame -> Lo..Hi]
    /\ waste \in BOOLEAN
    /\ file \in FileReads \cup {NoFile} \cup Fillings
    /\ async \in FileReads \cup {NoFile}

\* switch_normalize_to_16bit
Normalize(z) == IF z > Hi THEN Hi ELSE IF z < Lo THEN Lo ELSE z

\* The samples of the members at x.
Column(x) == [m \in Members |-> frame[m][x]]

Silence == [x \in Frame |-> 0]

MixInit ==
    /\ tick = "idle"
    /\ running = Members /\ has_audio = {}
    /\ frame = [m \in Members |-> [x \in Frame |-> CHOOSE s \in Samples : TRUE]]
    /\ file_frame = Silence /\ has_file_data = FALSE /\ file_sample_len = 0
    /\ main_frame = Silence
    /\ write_frame = NoFile /\ file = NoFile /\ async = NoFile
    /\ summed = {} /\ waste \in BOOLEAN

\* A member stops running, at any point of the tick.
Stop(m) ==
    /\ m \in running
    /\ running' = running \ {m}
    /\ UNCHANGED <<tick, has_audio, frame, file_frame, has_file_data, file_sample_len,
                   main_frame, write_frame, file, async, summed, waste>>

(***************************************************************************)
(* The tick.                                                               *)
(***************************************************************************)
\* One frame is read from the audio buffer of each member that has a whole one.
ReadMembers ==
    /\ tick \in {"idle", "sent"}
    /\ \E ready \in SUBSET Members :
         /\ has_audio' = ready
         /\ \E new \in [ready -> [Frame -> Samples]] :
              frame' = [m \in Members |-> IF m \in ready THEN new[m] ELSE frame[m]]
    /\ has_file_data' = FALSE /\ file_sample_len' = FrameLen
    /\ write_frame' = NoFile /\ file' = NoFile /\ async' = NoFile
    /\ summed' = {}
    /\ tick' = "read"
    /\ UNCHANGED <<running, file_frame, main_frame, waste>>

\* f is laid over the frame g from its start.
Over(f, g) == [x \in Frame |-> IF x \in DOMAIN f THEN f[x] ELSE g[x]]
Length(f) == Cardinality(DOMAIN f)

\* The file and the asynchronous file share file_frame and file_sample_len;
\* either may be absent or in its lead-in (it is not read), or at its end.
ReadFiles ==
    /\ tick = "read"
    /\ \E playing, playing_async \in BOOLEAN :
       \E f \in IF playing THEN FileReads ELSE {NoFile},
          a \in IF playing_async THEN FileReads ELSE {NoFile} :
         LET over  == Over(f, file_frame)
             mixed == [x \in Frame |->
                         IF x \notin DOMAIN a THEN over[x]
                         ELSE IF f # NoFile THEN Normalize(over[x] + a[x])
                         ELSE a[x]]
             has   == f # NoFile \/ a # NoFile
         IN  IF waste /\ ~has
             THEN /\ has_file_data' = TRUE /\ file_sample_len' = FrameLen
                  /\ file_frame' \in Fillings
                  /\ file' = file_frame' /\ async' = NoFile
             ELSE /\ file' = f /\ async' = a
                  /\ has_file_data' = has
                  /\ file_sample_len' = IF playing_async THEN Length(a)
                                        ELSE IF playing THEN Length(f)
                                        ELSE file_sample_len
                  /\ file_frame' = mixed
    /\ tick' = "mixed"
    /\ UNCHANGED <<running, has_audio, frame, main_frame, write_frame, summed, waste>>

\* The main frame begins with the file data; the index x of the code is x - 1
\* here, so the code's "x <= file_sample_len" takes one sample too many.
FileSample(x) ==
    IF has_file_data /\ file_sample_len > 0
    THEN IF x - 1 <= file_sample_len THEN file_frame[x] ELSE Padding
    ELSE 0

\* Mutant: the main frame has 16 bits too.
SumCutOff ==
    /\ tick = "mixed"
    /\ summed' = running \cap has_audio
    /\ main_frame' = [x \in Frame |-> Normalize(
         FileSample(x) + SumFunctionOnSet(Column(x), summed'))]
    /\ tick' = "summed"
    /\ UNCHANGED <<running, has_audio, frame, file_frame, has_file_data,
                   file_sample_len, write_frame, file, async, waste>>

\* ready counts the members with audio in 8 bits.
Ready == Cardinality(has_audio) % 2^8 # 0

Sum ==
    /\ tick = "mixed"
    /\ IF Ready \/ has_file_data
       THEN /\ summed' = running \cap has_audio
            /\ main_frame' = [x \in Frame |->
                 FileSample(x) + SumFunctionOnSet(Column(x), summed')]
            /\ tick' = "summed"
       ELSE /\ tick' = "sent"
            /\ UNCHANGED <<main_frame, summed>>
    /\ UNCHANGED <<running, has_audio, frame, file_frame, has_file_data,
                   file_sample_len, write_frame, file, async, waste>>

\* The frames taken out of the sum for o: its own, and with relationships
\* those of everybody with audio whom it must not hear.
Subtracted(o) == {m \in has_audio : m = o \/ <<m, o>> \in Unheard}

Listeners == {o \in running : o \notin Deaf \/ o \in Wasting \/ waste}

\* Mutant: the frames are written without the conversion to 16 bits.
SendWide ==
    /\ tick = "summed"
    /\ write_frame' = [o \in Listeners |-> [x \in Frame |->
         main_frame[x] - SumFunctionOnSet(Column(x), Subtracted(o))]]
    /\ tick' = "sent"
    /\ UNCHANGED <<running, has_audio, frame, file_frame, has_file_data,
                   file_sample_len, main_frame, file, async, summed, waste>>

Send ==
    /\ tick = "summed"
    /\ write_frame' = [o \in Listeners |-> [x \in Frame |->
         Normalize(main_frame[x] - SumFunctionOnSet(Column(x), Subtracted(o)))]]
    /\ tick' = "sent"
    /\ UNCHANGED <<running, has_audio, frame, file_frame, has_file_data,
                   file_sample_len, main_frame, file, async, summed, waste>>

MixNext ==
    \/ \E m \in Members : Stop(m)
    \/ ReadMembers \/ ReadFiles \/ Sum \/ Send

MixSpec == MixInit /\ [][MixNext]_mixVars

(***************************************************************************)
(* Properties.                                                             *)
(***************************************************************************)
\* What a listener is to hear at x, from the files and from the other members.
FilesAt(x) ==
    LET f == IF x \in DOMAIN file THEN file[x] ELSE 0
        a == IF x \in DOMAIN async THEN async[x] ELSE 0
    IN  Normalize(f + a)
OthersAt(o, x) ==
    SumFunctionOnSet(Column(x), {m \in summed : m # o /\ <<m, o>> \notin Unheard})

\* The samples at which every file that delivered data delivered one, the
\* last one to be read included.
WholeAt(x) == has_file_data => /\ x <= file_sample_len
                               /\ file # NoFile => x \in DOMAIN file

\* "Create write frame once per member who is not deaf ... subtract it from the
\* sample so we don't hear ourselves", "delete their samples as well": a listener
\* hears the files and everybody but itself and those it must not hear, cut off to
\* 16 bits once, at the end.  It holds of the listeners for whom everybody taken out
\* of the sum was still running when it was made (the subtraction does not look at
\* MFLAG_RUNNING), and of the samples for which no file frame was too short.
HearsTheOthersWhileRunning ==
    tick = "sent" =>
        \A o \in DOMAIN write_frame, x \in Frame :
            Subtracted(o) \subseteq summed /\ WholeAt(x) =>
                write_frame[o][x] = Normalize(FilesAt(x) + OthersAt(o, x))
=============================================================================
