------------------------------ MODULE MqttTask ------------------------------
(***************************************************************************)
(* mqtt_task: it connects to the broker, announces the device, subscribes, *)
(* and then serves the network, the event channel and the ping timer from  *)
(* one biased select; any error ends the session, and after a delay the    *)
(* task starts over.                                                       *)
(*                                                                         *)
(* The broker and the network are the environment: publications arrive,    *)
(* the link fails.  What Home Assistant shows of the player is "shown".    *)
(***************************************************************************)
EXTENDS Channels, CommandRouter

CONSTANTS
    Inbound,        \* the messages other clients publish to the device
    MaxPublishes,   \* bound: publications that arrive
    MaxFaults       \* bound: network failures

ASSUME MqttAssumption ==
    /\ Inbound \subseteq Message
    /\ MaxPublishes \in Nat
    /\ MaxFaults \in Nat

VARIABLES
    mpc,        \* where the MQTT task waits
    mcmd,       \* the audio command it is sending
    mev,        \* the event it is publishing
    linkUp,     \* the TCP connection works (meaningful while it is open)
    inbox,      \* publications received by the socket and not yet polled
    arrived,    \* publications that arrived so far
    faults,     \* network failures so far
    shown,      \* shown[t]: the last publication to topic t that arrived
    lost,       \* history: the topics whose last publication did not arrive
    taken       \* history: the last playback event received from eventQ

mqttVars == <<mpc, mcmd, mev, linkUp, inbox, arrived, faults, shown, lost, taken>>

MqttPc == {"off",       \* mqtt_spawn has not run
           "tcp",       \* socket.connect
           "connect",   \* client.connect
           "discovery", \* publication of the discovery document
           "subscribe", \* client.subscribe
           "poll",      \* the select of the poll loop
           "dispatch",  \* waits for room in the command channel
           "pubState",  \* publication to media_player/state
           "pubAttrs",  \* publication to media_player/attributes
           "pubKey",    \* publication to button/N
           "closing",   \* client.disconnect
           "backoff"}   \* MQTT_RECONNECT_DELAY_SECS

Topics == {"state", "attributes"}

(* The state a playback event makes the device publish.                    *)
StateOf(e) == IF e = "PlaybackStarted" THEN "playing" ELSE "stopped"

MqttTypeOK ==
    /\ mpc \in MqttPc
    /\ mcmd \in AudioCommand
    /\ mev \in AppEvent
    /\ linkUp \in BOOLEAN
    /\ inbox \in 0..arrived
    /\ arrived \in 0..MaxPublishes
    /\ faults \in 0..MaxFaults
    /\ shown \in [Topics -> {"unknown", "playing", "stopped"}]
    /\ lost \subseteq Topics
    /\ taken \in PlaybackEvents

MqttInit ==
    /\ mpc = "off"
    /\ mcmd = "Play"
    /\ mev = "PlaybackStopped"
    /\ linkUp = FALSE
    /\ inbox = 0
    /\ arrived = 0
    /\ faults = 0
    /\ shown = [t \in Topics |-> "unknown"]
    /\ lost = {}
    /\ taken = "PlaybackStopped"

-----------------------------------------------------------------------------
(* The network                                                             *)

(* The subscription exists from the end of client.subscribe on.            *)
Subscribed ==
    mpc \in {"poll", "dispatch", "pubState", "pubAttrs", "pubKey"}

Arrive ==
    /\ Subscribed
    /\ linkUp
    /\ arrived < MaxPublishes
    /\ arrived' = arrived + 1
    /\ inbox' = inbox + 1
    /\ UNCHANGED <<mpc, mcmd, mev, linkUp, faults, shown, lost, taken, cmdQ, eventQ, ledSignal>>

(* The task does not see the failure before it polls, pings or times out.  *)
LinkFails ==
    /\ mpc \in {"connect", "discovery", "subscribe"} \/ Subscribed
    /\ linkUp
    /\ faults < MaxFaults
    /\ faults' = faults + 1
    /\ linkUp' = FALSE
    /\ UNCHANGED <<mpc, mcmd, mev, inbox, arrived, shown, lost, taken, cmdQ, eventQ, ledSignal>>

-----------------------------------------------------------------------------
(* Opening a session                                                       *)

mqttData == <<mcmd, mev, arrived, shown, lost, taken, cmdQ, eventQ, ledSignal>>

TcpConnected ==
    /\ mpc = "tcp"
    /\ mpc' = "connect"
    /\ linkUp' = TRUE
    /\ UNCHANGED <<inbox, faults, mqttData>>

(* The broker is down or refuses the connection.                           *)
TcpFails ==
    /\ mpc = "tcp"
    /\ faults < MaxFaults
    /\ faults' = faults + 1
    /\ mpc' = "backoff"
    /\ UNCHANGED <<linkUp, inbox, mqttData>>

(* CONNECT and SUBSCRIBE: an error returns from run_mqtt without           *)
(* disconnecting; dropping the socket closes the connection.               *)
Handshake(here, next) ==
    /\ mpc = here
    /\ mpc' = IF linkUp THEN next ELSE "backoff"
    /\ linkUp' = linkUp
    /\ UNCHANGED <<inbox, faults, mqttData>>

BrokerConnect == Handshake("connect", "discovery")

(* The result of the publication is ignored.                               *)
PublishDiscovery ==
    /\ mpc = "discovery"
    /\ mpc' = "subscribe"
    /\ UNCHANGED <<linkUp, inbox, faults, mqttData>>

Subscribe == Handshake("subscribe", "poll")

-----------------------------------------------------------------------------
(* The poll loop: network first, then events, then the ping timer          *)

(* Mutant of PollPublish: a publication that found no room is read again.  *)
PollPublishAgain(m) ==
    /\ mpc = "poll"
    /\ inbox > 0
    /\ LET r == dispatch(m)
       IN  /\ r.to = "audio"
           /\ IF CmdRoom THEN /\ cmdQ' = Append(cmdQ, r.command)
                              /\ inbox' = inbox - 1
                              /\ UNCHANGED <<mpc, mcmd>>
                         ELSE /\ mpc' = "dispatch"
                              /\ mcmd' = r.command
                              /\ UNCHANGED <<cmdQ, inbox>>
    /\ UNCHANGED <<mev, linkUp, arrived, faults, shown, lost, taken, eventQ, ledSignal>>

(* The network branch: one publication is read and dispatched.  A command  *)
(* for the audio task is sent at once if there is room.                    *)
PollPublish(m) ==
    /\ mpc = "poll"
    /\ inbox > 0
    /\ inbox' = inbox - 1
    /\ LET r == dispatch(m)
       IN  \/ /\ r.to = "audio"
              /\ CmdRoom
              /\ cmdQ' = Append(cmdQ, r.command)
              /\ UNCHANGED <<mpc, mcmd, ledSignal>>
           \/ /\ r.to = "audio"
              /\ ~CmdRoom
              /\ mpc' = "dispatch"
              /\ mcmd' = r.command
              /\ UNCHANGED <<cmdQ, ledSignal>>
           \/ /\ r.to = "led"
              /\ led_send(r.command)
              /\ UNCHANGED <<mpc, mcmd, cmdQ>>
           \/ /\ r.to = "nobody"
              /\ UNCHANGED <<mpc, mcmd, cmdQ, ledSignal>>
    /\ UNCHANGED <<mev, linkUp, arrived, faults, shown, lost, taken, eventQ>>

(* Mutant of CommandSent: the task gives up a command that finds no room.  *)
CommandSentOrDropped ==
    /\ mpc = "dispatch"
    /\ cmdQ' = IF CmdRoom THEN Append(cmdQ, mcmd) ELSE cmdQ
    /\ mpc' = "poll"
    /\ UNCHANGED <<mcmd, mev, linkUp, inbox, arrived, faults, shown, lost, taken, eventQ, ledSignal>>

(* audio_tx.send(command).await gets its room.                             *)
CommandSent ==
    /\ mpc = "dispatch"
    /\ CmdRoom
    /\ cmdQ' = Append(cmdQ, mcmd)
    /\ mpc' = "poll"
    /\ UNCHANGED <<mcmd, mev, linkUp, inbox, arrived, faults, shown, lost, taken, eventQ, ledSignal>>

(* A poll or ping on a failed link ends the session.  What was already     *)
(* received is delivered first.                                            *)
SessionError ==
    /\ mpc = "poll"
    /\ ~linkUp
    /\ inbox = 0
    /\ mpc' = "closing"
    /\ UNCHANGED <<linkUp, inbox, faults, mqttData>>

(* Mutant of PollEvent: no arm publishes PlaybackStopped.                  *)
PollEventWithoutStop(e) ==
    /\ mpc = "poll"
    /\ inbox = 0
    /\ eventQ # <<>>
    /\ Head(eventQ) = e
    /\ eventQ' = Tail(eventQ)
    /\ mev' = e
    /\ \/ e \in PlaybackEvents /\ taken' = e
          /\ mpc' = IF e = "PlaybackStarted" THEN "pubState" ELSE "poll"
       \/ e \in Keys /\ mpc' = "pubKey" /\ taken' = taken
    /\ UNCHANGED <<mcmd, linkUp, inbox, arrived, faults, shown, lost, cmdQ, ledSignal>>

(* The event branch, when the network is quiet.                            *)
PollEvent(e) ==
    /\ mpc = "poll"
    /\ inbox = 0
    /\ eventQ # <<>>
    /\ Head(eventQ) = e
    /\ eventQ' = Tail(eventQ)
    /\ mev' = e
    /\ \/ e \in PlaybackEvents /\ mpc' = "pubState" /\ taken' = e
       \/ e \in Keys /\ mpc' = "pubKey" /\ taken' = taken
    /\ UNCHANGED <<mcmd, linkUp, inbox, arrived, faults, shown, lost, cmdQ, ledSignal>>

(* client.publish: its error is ignored, so the publication is lost when   *)
(* the link is down, and Home Assistant goes on showing the one before.    *)
Publish(t) ==
    \/ /\ linkUp
       /\ shown' = [shown EXCEPT ![t] = StateOf(mev)]
       /\ lost' = lost \ {t}
    \/ /\ ~linkUp
       /\ lost' = lost \cup {t}
       /\ UNCHANGED shown

(* Mutant of PublishState: the attributes are not published.               *)
PublishStateOnly ==
    /\ mpc = "pubState"
    /\ Publish("state")
    /\ mpc' = "poll"
    /\ UNCHANGED <<mcmd, mev, linkUp, inbox, arrived, faults, taken, cmdQ, eventQ, ledSignal>>

PublishState ==
    /\ mpc = "pubState"
    /\ Publish("state")
    /\ mpc' = "pubAttrs"
    /\ UNCHANGED <<mcmd, mev, linkUp, inbox, arrived, faults, taken, cmdQ, eventQ, ledSignal>>

PublishAttributes ==
    /\ mpc = "pubAttrs"
    /\ Publish("attributes")
    /\ mpc' = "poll"
    /\ UNCHANGED <<mcmd, mev, linkUp, inbox, arrived, faults, taken, cmdQ, eventQ, ledSignal>>

PublishKey ==
    /\ mpc = "pubKey"
    /\ mpc' = "poll"
    /\ UNCHANGED <<linkUp, inbox, faults, mqttData>>

(* client.disconnect, then run_mqtt returns and drops the socket with all  *)
(* that it holds.                                                          *)
Disconnect ==
    /\ mpc = "closing"
    /\ mpc' = "backoff"
    /\ linkUp' = FALSE
    /\ UNCHANGED <<inbox, faults, mqttData>>

(* Mutant of Reconnect: the task does not loop.                            *)
ReconnectNever == mpc = "backoff" /\ FALSE /\ UNCHANGED <<mpc, linkUp, inbox, faults, mqttData>>

Reconnect ==
    /\ mpc = "backoff"
    /\ mpc' = "tcp"
    /\ UNCHANGED <<linkUp, inbox, faults, mqttData>>

OpenSession ==
    TcpConnected \/ TcpFails \/ BrokerConnect \/ PublishDiscovery \/ Subscribe

PollLoop ==
    \/ \E m \in Inbound : PollPublish(m)
    \/ CommandSent
    \/ SessionError
    \/ \E e \in AppEvent : PollEvent(e)

Publications == PublishState \/ PublishAttributes \/ PublishKey

MqttStep == OpenSession \/ PollLoop \/ Publications \/ Disconnect \/ Reconnect
=============================================================================
