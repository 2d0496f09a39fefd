----------------------------- MODULE KeepAlive -----------------------------
(***************************************************************************)
(* Time in an MQTT session.  The poll loop of run_mqtt waits for a packet, *)
(* an event or the ping timer, whichever comes first, and then creates the *)
(* timer anew.  The broker drops a client it has not heard for one and a   *)
(* half times the keep-alive time; the socket gives up when nothing is     *)
(* heard from the broker.  MqttTask models what the loop does with packets *)
(* and events; here only when it sends and hears something matters.        *)
(***************************************************************************)
EXTENDS Integers

CONSTANTS
    PingAfter,      \* MQTT_KEEPALIVE_SECS - 5
    BrokerLimit,    \* silence after which the broker drops the client
    SocketTimeout,  \* MQTT_SOCKET_TIMEOUT_SECS
    MaxInbound,     \* bound: packets received between two that are sent
    MaxStall        \* bound: time spent in dispatch between them

ASSUME KeepAliveAssumption ==
    /\ PingAfter \in Nat \ {0}
    /\ BrokerLimit \in Nat /\ PingAfter < BrokerLimit
    /\ SocketTimeout \in Nat /\ PingAfter < SocketTimeout
    /\ MaxInbound \in Nat /\ MaxStall \in Nat

VARIABLES
    kpc,        \* "down", in the "poll" loop's select, or in "dispatch"
    link,       \* the connection; the broker may be gone without a word
    timer,      \* age of the ping timer
    silent,     \* time since the broker last heard the client
    deaf,       \* time since the client last heard the broker
    pong,       \* a ping has not been answered yet
    inbound,    \* history: packets received since the last one sent
    stalled     \* history: time in dispatch since then

sinceSent == <<inbound, stalled>>
keepAliveVars == <<kpc, link, timer, silent, deaf, pong, sinceSent>>

KeepAliveTypeOK ==
    /\ kpc \in {"down", "poll", "dispatch"}
    /\ link \in {"up", "gone", "dropped", "timedout"}
    /\ timer \in 0..PingAfter
    /\ silent \in Nat
    /\ deaf \in 0..SocketTimeout
    /\ pong \in BOOLEAN
    /\ inbound \in 0..MaxInbound
    /\ stalled \in 0..MaxStall

(* CONNECT and SUBSCRIBE have just been acknowledged.                      *)
KeepAliveInit ==
    /\ kpc = "poll"
    /\ link = "up"
    /\ timer = 0 /\ silent = 0 /\ deaf = 0
    /\ pong = FALSE
    /\ inbound = 0 /\ stalled = 0

-----------------------------------------------------------------------------
(* Time passes, unless something is due: a timer or a limit that has run   *)
(* out is acted on before the next unit of time.                           *)
Tick ==
    /\ kpc # "down" /\ link \in {"up", "gone"}
    /\ link = "up" => silent < BrokerLimit
    /\ deaf < SocketTimeout
    /\ silent' = silent + 1
    /\ deaf' = deaf + 1
    /\ \/ /\ kpc = "poll" /\ timer < PingAfter
          /\ timer' = timer + 1
          /\ UNCHANGED stalled
       \/ /\ kpc = "dispatch" /\ stalled < MaxStall
          /\ stalled' = stalled + 1
          /\ UNCHANGED timer
    /\ UNCHANGED <<kpc, link, pong, inbound>>

(* Either3::First(Publish): dispatch may wait for room in a channel.       *)
Published ==
    /\ kpc = "poll" /\ link = "up"
    /\ inbound < MaxInbound
    /\ inbound' = inbound + 1
    /\ deaf' = 0
    /\ kpc' = "dispatch"
    /\ UNCHANGED <<link, timer, silent, pong, stalled>>

(* The stack receives on while dispatch waits.                             *)
Heard ==
    /\ kpc = "dispatch" /\ link = "up"
    /\ deaf' = 0
    /\ UNCHANGED <<kpc, link, timer, silent, pong, sinceSent>>

(* Mutant of DispatchDone: the timer is kept, and has run on meanwhile.    *)
DispatchDone_owed ==
    /\ kpc = "dispatch"
    /\ kpc' = "poll"
    /\ timer' = timer + stalled
    /\ UNCHANGED <<link, silent, deaf, pong, sinceSent>>

(* The next iteration of the poll loop creates the timer.                  *)
DispatchDone ==
    /\ kpc = "dispatch"
    /\ kpc' = "poll"
    /\ timer' = 0
    /\ UNCHANGED <<link, silent, deaf, pong, sinceSent>>

(* Either3::First(item): the answer to a ping; it too restarts the timer.  *)
Pong ==
    /\ kpc = "poll" /\ link = "up" /\ pong
    /\ inbound < MaxInbound
    /\ inbound' = inbound + 1
    /\ pong' = FALSE
    /\ deaf' = 0
    /\ timer' = 0
    /\ UNCHANGED <<kpc, link, silent, stalled>>

(* A packet is sent; a broker that is there hears and acknowledges it.     *)
Send ==
    /\ timer' = 0
    /\ IF link = "up"
       THEN silent' = 0 /\ deaf' = 0 /\ inbound' = 0 /\ stalled' = 0
       ELSE UNCHANGED <<silent, deaf, sinceSent>>

(* Either3::Second: every event the firmware sends is published; errors    *)
(* are ignored.                                                            *)
EventPublished ==
    /\ kpc = "poll"
    /\ Send
    /\ UNCHANGED <<kpc, link, pong>>

(* Mutant of Ping: the timer runs for twice the time.                      *)
Ping_late ==
    /\ kpc = "poll" /\ timer = PingAfter
    /\ UNCHANGED <<kpc, link, silent, deaf, pong, sinceSent>>
    /\ timer' = 0

(* Either3::Third.                                                         *)
Ping ==
    /\ kpc = "poll" /\ timer = PingAfter
    /\ IF link \in {"up", "gone"}
       THEN /\ Send
            /\ pong' = (pong \/ link = "up")
            /\ UNCHANGED kpc
       ELSE /\ kpc' = "down"
            /\ UNCHANGED <<timer, silent, deaf, pong, sinceSent>>
    /\ UNCHANGED link

(* The broker: it may vanish, and it drops a silent client.                *)
BrokerVanishes ==
    /\ kpc # "down" /\ link = "up"
    /\ link' = "gone"
    /\ UNCHANGED <<kpc, timer, silent, deaf, pong, sinceSent>>

BrokerDrops ==
    /\ kpc # "down" /\ link = "up" /\ silent >= BrokerLimit
    /\ link' = "dropped"
    /\ UNCHANGED <<kpc, timer, silent, deaf, pong, sinceSent>>

(* Mutant of SocketTimesOut: only a broker that answers is timed.          *)
SocketTimesOut_up ==
    /\ kpc # "down" /\ link = "up" /\ deaf >= SocketTimeout
    /\ link' = "timedout"
    /\ UNCHANGED <<kpc, timer, silent, deaf, pong, sinceSent>>

(* socket.set_timeout.                                                     *)
SocketTimesOut ==
    /\ kpc # "down" /\ link \in {"up", "gone"} /\ deaf >= SocketTimeout
    /\ link' = "timedout"
    /\ UNCHANGED <<kpc, timer, silent, deaf, pong, sinceSent>>

(* Either3::First(Err): run_mqtt ends.                                     *)
PollFails ==
    /\ kpc = "poll" /\ link \in {"dropped", "timedout"}
    /\ kpc' = "down"
    /\ UNCHANGED <<link, timer, silent, deaf, pong, sinceSent>>

(* After MQTT_RECONNECT_DELAY_SECS, and as many attempts as it takes.      *)
Reconnect ==
    /\ kpc = "down"
    /\ kpc' = "poll" /\ link' = "up"
    /\ timer' = 0 /\ silent' = 0 /\ deaf' = 0
    /\ pong' = FALSE
    /\ inbound' = 0 /\ stalled' = 0

Firmware == Ping \/ SocketTimesOut \/ PollFails \/ Reconnect

KeepAliveNext ==
    \/ Tick
    \/ Published \/ Heard \/ DispatchDone \/ Pong \/ EventPublished
    \/ BrokerVanishes \/ BrokerDrops
    \/ Firmware

KeepAliveSpec == KeepAliveInit /\ [][KeepAliveNext]_keepAliveVars

(* Time goes on, and what is due is done; dispatch may wait for ever.      *)
KeepAliveFairness ==
    /\ WF_keepAliveVars(Tick)
    /\ WF_keepAliveVars(Firmware)

KeepAliveFairSpec == KeepAliveSpec /\ KeepAliveFairness
-----------------------------------------------------------------------------
(* A client that receives nothing and does not stall is never dropped: it  *)
(* takes packets that each put the ping off, or a stall, to keep it silent *)
(* for as long as the broker waits.                                        *)
DroppedOnlyWhenPutOff ==
    link = "dropped" => PingAfter * (inbound + 1) + stalled >= BrokerLimit

(* The socket gives up on a broker that is there only if dispatch stalled. *)
TimedOutOnlyWhenStalled ==
    [][link = "up" /\ link' = "timedout" => PingAfter + stalled >= SocketTimeout]_keepAliveVars

(* A broker that is gone is noticed, however many events are sent to it,   *)
(* as long as dispatch gets its room: it waits for it without a timeout.   *)
GoneIsNoticed == (link = "gone") ~> (kpc = "down" \/ [](kpc = "dispatch"))
=============================================================================
