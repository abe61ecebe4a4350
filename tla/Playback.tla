------------------------------- MODULE Playback -------------------------------
(***************************************************************************)
(* The notification sounds: the player that AudioManager holds, its output *)
(* stream, and fill_output(), through which the device pulls samples.      *)
(*                                                                         *)
(* The n-th play() that finds its sound is play n.  A sample is known by   *)
(* its play, its position, and the length of what is played.               *)
(***************************************************************************)
EXTENDS Integers, Sequences, AudioDevices

CONSTANTS
    ChunkSize,      \* samples of a get_audio() call, 10 ms: by device
    SoundLengths,   \* samples of the sounds
    CallbackSizes   \* samples a device asks for at once

ASSUME PlaybackAssumption ==
    /\ ChunkSize \in [OutputDevices -> Nat \ {0}]
    /\ SoundLengths \subseteq Nat \ {0} /\ CallbackSizes \subseteq Nat \ {0}

Sample == [play : Nat, position : Nat, length : Nat]
Silence == [play |-> 0, position |-> 0, length |-> 0]

VARIABLES
    chunk_size,     \* chunk_size of the one AudioManager holds, 0 for None
    plays,          \* calls of play()
    current,        \* the sample get_audio() returns next, Silence for None
    leftover,       \* samples fetched and not yet output
    room,           \* samples that the present callback has still to fill
    output,         \* history: the last sample the device was given
    stale           \* history: samples of earlier plays output since play()

playbackVars == <<chunk_size, plays, current, leftover, room, output, stale>>

PlaybackInit ==
    /\ chunk_size = 0 /\ plays = 0
    /\ current = Silence /\ leftover = <<>> /\ room = 0
    /\ output = Silence /\ stale = 0

-----------------------------------------------------------------------------
(* On the application's thread.                                             *)

\* The sample with which play n of a sound begins.
First(n, length) == [play |-> n, position |-> 1, length |-> length]

\* init_notification_player() on a device that opens, and play(): a new player
\* starts with nothing to play, its stream with nothing left over.
NewPlayer(size, length) ==
    /\ chunk_size' = size
    /\ plays' = plays + 1 /\ current' = First(plays', length)
    /\ leftover' = <<>> /\ room' = 0 /\ output' = Silence /\ stale' = 0

\* play_notification(): the last one wins.  Without a player nothing happens.
\* Mutant: a sound is let finish first.
PlayedOrKept(length) == IF current = Silence THEN First(plays + 1, length) ELSE current
Played(length) == First(plays + 1, length)
PlayNotification(length) ==
    IF chunk_size = 0
    THEN UNCHANGED playbackVars
    ELSE /\ plays' = plays + 1 /\ current' = Played(length) /\ stale' = 0
         /\ UNCHANGED <<chunk_size, leftover, room, output>>

-----------------------------------------------------------------------------
(* On the device's thread.                                                  *)

OutputCallback == \E n \in CallbackSizes :
    /\ chunk_size > 0 /\ room = 0
    /\ room' = n
    /\ UNCHANGED <<chunk_size, plays, current, leftover, output, stale>>

\* get_audio() copies to_copy samples of what is being played, silence if
\* nothing is.
ToCopy == IF current.length - current.position + 1 <= chunk_size
          THEN current.length - current.position + 1 ELSE chunk_size
\* Mutant: the sound ends one sample early.
AtEndOrBefore(n) == current.position + n >= current.length
AtEnd(n) == current.position + n > current.length
GetAudio ==
    /\ room > 0 /\ leftover = <<>>
    /\ IF current = Silence
       THEN leftover' = [i \in 1..chunk_size |-> Silence] /\ UNCHANGED current
       ELSE /\ leftover' = [i \in 1..ToCopy |->
                              [current EXCEPT !.position = @ + i - 1]]
            /\ current' = IF AtEnd(ToCopy) THEN Silence
                          ELSE [current EXCEPT !.position = @ + ToCopy]
    /\ UNCHANGED <<chunk_size, plays, room, output, stale>>

\* fill_output() copies what is left over, as far as there is room: here,
\* sample by sample.
CopySample ==
    /\ room > 0 /\ leftover # <<>>
    /\ output' = Head(leftover) /\ leftover' = Tail(leftover)
    /\ room' = room - 1
    /\ stale' = IF output'.play \in {0, plays} THEN stale ELSE stale + 1
    /\ UNCHANGED <<chunk_size, plays, current>>

OutputDevice == OutputCallback \/ GetAudio \/ CopySample

-----------------------------------------------------------------------------
(* Properties.                                                              *)

PlaybackTypeOK ==
    /\ chunk_size \in Nat /\ plays \in Nat
    /\ current \in Sample /\ leftover \in Seq(Sample)
    /\ room \in Nat /\ output \in Sample /\ stale \in Nat

\* What is heard of a sound is heard from its first sample to its last, each
\* once, unless a later play(), or a new player, cuts it off.
Follows(a, b) ==
    \/ b = [a EXCEPT !.position = @ + 1]
    \/ b.play > a.play /\ b.position = 1
    \/ b = Silence /\ a.position = a.length
Gapless ==
    [][room' < room /\ plays' = plays => Follows(output, output')]_playbackVars

\* "Last wins": once a sound is played, no more is heard of an earlier one than
\* the chunk that has already been fetched.
LastWins == stale <= chunk_size
=============================================================================
