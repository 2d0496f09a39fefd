----------------------------- MODULE AudioTask -----------------------------
(***************************************************************************)
(* audio_task: it waits for a sound or a command, powers the output path   *)
(* up and down around what it plays, and reports both to the event         *)
(* channel.  Announcements are played without any of that.                 *)
(*                                                                         *)
(* The samples are left out.  Playing a sound, an error while playing it   *)
(* included, is the time spent in "playing"; an announcement is the time   *)
(* spent in "announcing".                                                  *)
(***************************************************************************)
EXTENDS Board

VARIABLES
    apc,    \* where the audio task waits
    asrc    \* what made it play: "sound" (drains soundQ) or "cmd" (Play)

audioVars == <<apc, asrc>>

AudioPc == {"starting",     \* Audio::new has not run
            "idle",         \* select3 over the channels
            "unmuted",      \* set_output_enabled(true), first delay
            "ampUp",        \* set_output_enabled(true), second delay
            "tellStarted",  \* waits for room for PlaybackStarted
            "playing",      \* DMA transfers of a sound
            "ampDown",      \* set_output_enabled(false), delay
            "tellStopped",  \* waits for room for PlaybackStopped
            "announcing",   \* DMA transfers of an announcement
            "dead"}         \* Audio::new failed and the task returned

AudioTypeOK ==
    /\ apc \in AudioPc
    /\ asrc \in {"sound", "cmd"}

AudioInit == apc = "starting" /\ asrc = "cmd"

(* What the event channel has been told: PlaybackStarted is sent and       *)
(* PlaybackStopped is not.                                                 *)
Reporting == apc \in {"playing", "ampDown", "tellStopped"}

(* Audio::new: the amplifier is switched off before the codec is brought   *)
(* up, and the codec is left muted.                                        *)
AudioReady ==
    /\ apc = "starting"
    /\ apc' = "idle"
    /\ amp' = FALSE
    /\ muted' = TRUE
    /\ UNCHANGED <<failed, asrc, cmdQ, eventQ, soundQ>>

(* Any transfer of the bring-up may fail: the task ends and nothing drains *)
(* the command channel or the sound queue any more.                        *)
AudioInitFails ==
    /\ apc = "starting"
    /\ I2cMayFail
    /\ apc' = "dead"
    /\ amp' \in {amp, FALSE}
    /\ muted' \in BOOLEAN
    /\ UNCHANGED <<failed, asrc, cmdQ, eventQ, soundQ>>

(* The common start of set_output_enabled(true).                           *)
Unmute(src) ==
    /\ mute(FALSE)
    /\ apc' = "unmuted"
    /\ asrc' = src
    /\ UNCHANGED <<amp, eventQ>>

TakeSound ==
    /\ apc = "idle"
    /\ soundQ # <<>>
    /\ soundQ' = Tail(soundQ)
    /\ Unmute("sound")
    /\ UNCHANGED cmdQ

(* select3 looks at the sound queue first.                                 *)
TakeCommand(c) ==
    /\ apc = "idle"
    /\ soundQ = <<>>
    /\ cmdQ # <<>>
    /\ Head(cmdQ) = c
    /\ cmdQ' = Tail(cmdQ)
    /\ UNCHANGED soundQ

TakePlay == TakeCommand("Play") /\ Unmute("cmd")

(* Pause, Stop and PlayUrl are only logged; SetVolume does not touch what  *)
(* is modelled here.  None of them waits.                                  *)
TakeOther ==
    /\ \E c \in AudioCommand \ {"Play", "PlayAnnouncement"} : TakeCommand(c)
    /\ UNCHANGED <<apc, asrc, amp, muted, failed, eventQ>>

(* An announcement whose text decodes is played, the output path is left   *)
(* as it is and nothing is reported; one that does not decode is logged.   *)
TakeAnnouncement ==
    /\ TakeCommand("PlayAnnouncement")
    /\ apc' \in {"announcing", "idle"}
    /\ UNCHANGED <<asrc, amp, muted, failed, eventQ>>

AnnouncementEnds ==
    /\ apc = "announcing"
    /\ apc' = "idle"
    /\ UNCHANGED <<asrc, amp, muted, failed, cmdQ, eventQ, soundQ>>

AmpOn ==
    /\ apc = "unmuted"
    /\ apc' = "ampUp"
    /\ tca9555_pa_set(TRUE)
    /\ UNCHANGED <<asrc, muted, cmdQ, eventQ, soundQ>>

(* Mutant of SendOrBlock: try_send, an event that finds no room is lost.   *)
SendOrDrop(e, blocked, next) ==
    /\ eventQ' = IF EventRoom THEN Append(eventQ, e) ELSE eventQ
    /\ apc' = next

(* event_tx.send(e).await: at once when there is room, else from the state *)
(* "blocked", where the task stays until there is.                         *)
SendOrBlock(e, blocked, next) ==
    IF EventRoom THEN /\ eventQ' = Append(eventQ, e)
                      /\ apc' = next
                 ELSE /\ apc' = blocked
                      /\ UNCHANGED eventQ

TellStarted ==
    /\ apc = "ampUp"
    /\ SendOrBlock("PlaybackStarted", "tellStarted", "playing")
    /\ UNCHANGED <<asrc, amp, muted, failed, cmdQ, soundQ>>

StartedSent ==
    /\ apc = "tellStarted"
    /\ EventRoom
    /\ SendOrBlock("PlaybackStarted", "tellStarted", "playing")
    /\ UNCHANGED <<asrc, amp, muted, failed, cmdQ, soundQ>>

(* The end of one sound: what else is queued is played with the amplifier  *)
(* still on, but only when a sound started it.                             *)
PlayNext ==
    /\ apc = "playing"
    /\ asrc = "sound"
    /\ soundQ # <<>>
    /\ soundQ' = Tail(soundQ)
    /\ UNCHANGED <<apc, asrc, amp, muted, failed, cmdQ, eventQ>>

(* Mutants of AmpOff: the codec is muted before the amplifier is off; the  *)
(* amplifier is left on; a failed transfer ends set_output_enabled.        *)
AmpOffAfterMute ==
    /\ apc = "playing"
    /\ asrc = "sound" => soundQ = <<>>
    /\ apc' = "ampDown"
    /\ mute(TRUE)
    /\ UNCHANGED <<asrc, amp, cmdQ, eventQ, soundQ>>

AmpLeftOn ==
    /\ apc = "playing"
    /\ asrc = "sound" => soundQ = <<>>
    /\ apc' = "ampDown"
    /\ UNCHANGED <<asrc, amp, muted, failed, cmdQ, eventQ, soundQ>>

AmpOffOrReturn ==
    /\ apc = "playing"
    /\ asrc = "sound" => soundQ = <<>>
    /\ tca9555_pa_set(FALSE)
    /\ apc' = IF "amp" \in failed' THEN "tellStopped" ELSE "ampDown"
    /\ UNCHANGED <<asrc, muted, cmdQ, eventQ, soundQ>>

AmpOff ==
    /\ apc = "playing"
    /\ asrc = "sound" => soundQ = <<>>
    /\ apc' = "ampDown"
    /\ tca9555_pa_set(FALSE)
    /\ UNCHANGED <<asrc, muted, cmdQ, eventQ, soundQ>>

(* Mutants of TellStopped: the stop is reported only if there is room; the *)
(* task returns after its first playback.                                  *)
TellStoppedOrDrop ==
    /\ apc = "ampDown"
    /\ mute(TRUE)
    /\ SendOrDrop("PlaybackStopped", "tellStopped", "idle")
    /\ UNCHANGED <<asrc, amp, cmdQ, soundQ>>

TellStoppedAndReturn ==
    /\ apc = "ampDown"
    /\ mute(TRUE)
    /\ SendOrBlock("PlaybackStopped", "tellStopped", "dead")
    /\ UNCHANGED <<asrc, amp, cmdQ, soundQ>>

TellStopped ==
    /\ apc = "ampDown"
    /\ mute(TRUE)
    /\ SendOrBlock("PlaybackStopped", "tellStopped", "idle")
    /\ UNCHANGED <<asrc, amp, cmdQ, soundQ>>

StoppedSent ==
    /\ apc = "tellStopped"
    /\ EventRoom
    /\ SendOrBlock("PlaybackStopped", "tellStopped", "idle")
    /\ UNCHANGED <<asrc, amp, muted, failed, cmdQ, soundQ>>

AudioNext ==
    \/ AudioReady
    \/ AudioInitFails
    \/ TakeSound
    \/ TakePlay
    \/ TakeOther
    \/ TakeAnnouncement
    \/ AnnouncementEnds
    \/ AmpOn
    \/ TellStarted
    \/ StartedSent
    \/ PlayNext
    \/ AmpOff
    \/ TellStopped
    \/ StoppedSent
=============================================================================
