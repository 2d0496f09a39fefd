------------------------------ MODULE Channels ------------------------------
(***************************************************************************)
(* The channels the firmware's tasks share: the command channel from the  *)
(* MQTT task to the audio task, the event channel from the audio task and  *)
(* the buttons to the MQTT task, the sound queue, and the LED signal.      *)
(*                                                                         *)
(* All tasks run on one cooperative executor, so a step of the model is    *)
(* what a task does between two points where it really waits.  A send to   *)
(* a channel with room completes at once and belongs to the step that      *)
(* makes it; a send to a full channel is a state of its own.               *)
(***************************************************************************)
EXTENDS Naturals, Sequences

CONSTANTS
    CHANNEL_SIZE,       \* capacity of the command and of the event channel
    AUDIO_QUEUE_DEPTH,  \* capacity of the sound queue
    Keys                \* the events of the front keys, one per key

PlaybackEvents == {"PlaybackStarted", "PlaybackStopped"}

ASSUME ChannelsAssumption ==
    /\ CHANNEL_SIZE \in Nat \ {0}
    /\ AUDIO_QUEUE_DEPTH \in Nat \ {0}
    /\ Keys \cap PlaybackEvents = {}

(* The events some task really sends; the other members of the Rust enum   *)
(* have no sender.                                                         *)
AppEvent == PlaybackEvents \cup Keys

(* Audio commands without their data.  PlayAnnouncementChunk has no        *)
(* sender and is left out.                                                 *)
AudioCommand ==
    {"Play", "Pause", "Stop", "SetVolume", "PlayUrl", "PlayAnnouncement"}

(* The only sound the firmware queues.                                     *)
Sound == {"Connected"}

LedCommand == {"Clear", "Brightness", "SetAll", "Loop"}

VARIABLES
    cmdQ,       \* CMD_CHANNEL: commands the audio task has not received
    eventQ,     \* EVENT_CHANNEL: events the MQTT task has not received
    soundQ,     \* AUDIO_CHANNEL: sounds waiting to be played
    ledSignal   \* LED_SIGNAL: the last LED command signalled

channelVars == <<cmdQ, eventQ, soundQ, ledSignal>>

ChannelsTypeOK ==
    /\ cmdQ \in Seq(AudioCommand) /\ Len(cmdQ) <= CHANNEL_SIZE
    /\ eventQ \in Seq(AppEvent)   /\ Len(eventQ) <= CHANNEL_SIZE
    /\ soundQ \in Seq(Sound)      /\ Len(soundQ) <= AUDIO_QUEUE_DEPTH
    /\ ledSignal \in LedCommand

CmdRoom   == Len(cmdQ) < CHANNEL_SIZE
EventRoom == Len(eventQ) < CHANNEL_SIZE

(* When main first waits, the channels are empty and the LED signal holds  *)
(* the Chase animation: it overwrote the brightness sent just before it.   *)
ChannelsInit ==
    /\ cmdQ = <<>>
    /\ eventQ = <<>>
    /\ soundQ = <<>>
    /\ ledSignal = "Loop"

(* led_send: signalling replaces the command that was there.               *)
led_send(c) == ledSignal' = c

(* audio_send: never waits, a full queue drops the sound.                  *)
audio_send(s) ==
    soundQ' = IF Len(soundQ) < AUDIO_QUEUE_DEPTH THEN Append(soundQ, s)
                                                 ELSE soundQ
=============================================================================
