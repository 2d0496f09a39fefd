------------------------------ MODULE Speaker ------------------------------
(***************************************************************************)
(* The firmware after the boot sequence has spawned its tasks: the audio   *)
(* task, the MQTT task, the button tasks and main, on one executor, with   *)
(* the channels between them.                                              *)
(***************************************************************************)
EXTENDS AudioTask, Buttons, MqttTask

vars == <<channelVars, boardVars, audioVars, buttonVars, mqttVars>>

Init ==
    /\ ChannelsInit
    /\ BoardInit
    /\ AudioInit
    /\ ButtonsInit
    /\ MqttInit

(* main, once the Wi-Fi stack is up: it spawns the MQTT task and calls     *)
(* ready(), which clears the LEDs and queues the connect sound.            *)
StackUp ==
    /\ mpc = "off"
    /\ mpc' = "tcp"
    /\ led_send("Clear")
    /\ audio_send("Connected")
    /\ UNCHANGED <<mcmd, mev, linkUp, inbox, arrived, faults, shown, lost, taken,
                   cmdQ, eventQ, boardVars, audioVars, buttonVars>>

Audio == AudioNext /\ UNCHANGED <<ledSignal, down, buttonVars, mqttVars>>

Buttons == ButtonsNext /\ UNCHANGED <<cmdQ, soundQ, ledSignal, amp, muted, failed, audioVars, mqttVars>>

Mqtt == MqttStep /\ UNCHANGED <<soundQ, boardVars, audioVars, buttonVars>>

Network == (Arrive \/ LinkFails) /\ UNCHANGED <<soundQ, boardVars, audioVars, buttonVars>>

Next == StackUp \/ Audio \/ Buttons \/ Mqtt \/ Network

Spec == Init /\ [][Next]_vars

(* The executor polls every task that is woken, and every wait of a task   *)
(* ends once what it waits for holds: a timer expires, a DMA transfer      *)
(* ends, a full channel gets room.  A network operation on a failed link   *)
(* ends by the socket timeout; one on a working link succeeds.  Nothing    *)
(* makes keys be pressed, publications arrive, or the Wi-Fi come up.       *)
KeyTask(k) ==
    ButtonTask(k) /\ UNCHANGED <<cmdQ, soundQ, ledSignal, amp, muted, failed, audioVars, mqttVars>>

Fairness ==
    /\ WF_vars(Audio)
    /\ WF_vars(Mqtt)
    /\ \A k \in Keys : WF_vars(KeyTask(k))

FairSpec == Spec /\ Fairness

-----------------------------------------------------------------------------
TypeOK ==
    /\ ChannelsTypeOK
    /\ BoardTypeOK
    /\ AudioTypeOK
    /\ ButtonsTypeOK
    /\ MqttTypeOK

(* The event channel implements EventFeed: audio and MQTT task together    *)
(* deliver the playback events in order, alternating and without loss.     *)
Feed == INSTANCE EventFeed WITH
            Capacity <- CHANNEL_SIZE, KeyEvents <- Keys,
            playing <- Reporting, queue <- eventQ

ImplementsEventFeed == Feed!Spec

(* However sessions and key presses interleave, the playback events from   *)
(* the last one the MQTT task took to the last one the audio task sent     *)
(* alternate: no start is reported twice, no stop is reported alone.       *)
FeedAlternates == Feed!FeedAlternates

(* The MQTT task owes Home Assistant nothing about topic t: no playback    *)
(* event waits, none is half published.                                    *)
Published(t) ==
    /\ \A i \in 1..Len(eventQ) : eventQ[i] \notin PlaybackEvents
    /\ mpc # "pubState"
    /\ t = "attributes" => mpc # "pubAttrs"

(* What was published last is what the player does: once every event has   *)
(* been published, each topic shows the current state.  The exceptions are *)
(* a topic whose last publication was lost to a network failure, until the *)
(* next one to it arrives, and a topic that was never published to because *)
(* the player has not played yet.                                          *)
ShownIsTrue ==
    \A t \in Topics :
        Published(t) =>
            \/ shown[t] = IF Reporting THEN "playing" ELSE "stopped"
            \/ t \in lost /\ faults > 0
            \/ shown[t] = "unknown" /\ ~Reporting

(* The amplifier is on from the second delay of the power-up sequence      *)
(* until the power-down sequence begins, and the codec is open for longer  *)
(* at both ends, so neither edge of the codec reaches the speaker.  A      *)
(* failed transfer, whose error is ignored, may leave its half of the path *)
(* as it was, but only until the next transfer to that half that succeeds, *)
(* and never affects the other half.                                       *)
OutputSequenced ==
    apc \notin {"starting", "dead"} =>
        /\ "amp" \notin failed => (amp <=> apc \in {"ampUp", "tellStarted", "playing"})
        /\ "mute" \notin failed => (muted <=> apc \in {"idle", "tellStopped", "announcing"})

(* An event of key k enters the event channel.                             *)
Reported(k) == Len(eventQ') > Len(eventQ) /\ eventQ'[Len(eventQ')] = k

(* With a working bus, a key is reported only if it went down since its    *)
(* last report, although its task samples, waits for the channel and       *)
(* forgets releases meanwhile.                                             *)
NoPhantomPress ==
    [][~I2cMayFail => \A k \in Keys : Reported(k) => news[k]]_vars

(* The audio task waits for the MQTT task to take an event while the MQTT  *)
(* task waits for the audio task to take a command.                        *)
MutualWait ==
    /\ apc \in {"tellStarted", "tellStopped"} /\ ~EventRoom
    /\ mpc = "dispatch" /\ ~CmdRoom

(* The two tasks wait for each other only after a flood: more publications *)
(* have arrived than the command channel holds, and if it is only one more *)
(* then what the audio task is trying to report is the connect sound.      *)
WedgeNeedsFlood ==
    MutualWait =>
        /\ arrived > CHANNEL_SIZE
        /\ arrived = CHANNEL_SIZE + 1 => asrc = "sound"

(* The MQTT task waits for room in the command channel, and the audio task *)
(* makes none: it has returned, or it waits for the MQTT task in turn.     *)
Stuck == MutualWait \/ (apc = "dead" /\ mpc = "dispatch" /\ ~CmdRoom)

(* Whatever the keys and the network do, nothing leads out of that: no     *)
(* command is taken, no event published, the amplifier stays as it is.     *)
StuckForGood ==
    [][Stuck => /\ Stuck'
                /\ UNCHANGED <<apc, mpc, cmdQ, soundQ, ledSignal, amp, muted, taken, shown, lost>>]_vars

(* The output path is open while something is played.                      *)
PoweredWhilePlaying == apc \in {"playing", "announcing"} => amp /\ ~muted

-----------------------------------------------------------------------------
(* The amplifier does not stay on.                                         *)
AmpPowersDown == amp ~> ~amp

(* Home Assistant does not go on showing "playing", unless a publication   *)
(* to that topic is lost with the link: nothing is published again after a *)
(* reconnect, so then it does until the next playback.                     *)
NotStuckPlaying ==
    \A t \in Topics : (shown[t] = "playing") ~> (shown[t] = "stopped" \/ t \in lost)

(* A pressed key that the task has seen is reported and the task samples   *)
(* again, once the MQTT task runs.                                         *)
KeysAreServed == \A k \in Keys : (kpc[k] = "blocked" /\ mpc # "off") ~> (kpc[k] = "sample")

(* Every command is taken by the audio task, and the MQTT task gets back   *)
(* to its poll loop.                                                       *)
CommandsAreServed == (cmdQ # <<>> \/ mpc = "dispatch") ~> (cmdQ = <<>> /\ mpc # "dispatch")
=============================================================================
