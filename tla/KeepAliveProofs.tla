-------------------------- MODULE KeepAliveProofs --------------------------
(***************************************************************************)
(* How long the client can be silent, for every choice of the times.       *)
(***************************************************************************)
EXTENDS KeepAlive, TLAPS

(***************************************************************************)
(* The inductive invariant: silence is made of the ping timer's age, of    *)
(* one ping period for each packet that restarted it, and of the time in   *)
(* dispatch.                                                               *)
(***************************************************************************)
Silence ==
    link = "up" =>
        /\ kpc # "down"
        /\ kpc = "poll"     => /\ silent <= timer + PingAfter * inbound + stalled
                               /\ deaf <= timer + stalled
        /\ kpc = "dispatch" => /\ silent <= PingAfter * inbound + stalled
                               /\ deaf <= stalled

KeepAliveInv == KeepAliveTypeOK /\ Silence /\ DroppedOnlyWhenPutOff

LEMMA InitKeepAlive == KeepAliveInit => KeepAliveInv
<1> SUFFICES ASSUME KeepAliveInit
             PROVE  KeepAliveInv
  OBVIOUS
<1>1. pong \in BOOLEAN
  BY Zenon DEF KeepAliveInit
<1>2. PingAfter * 0 = 0
  BY KeepAliveAssumption
<1> QED
  BY <1>1, <1>2, KeepAliveAssumption
     DEF KeepAliveInit, KeepAliveInv, KeepAliveTypeOK, Silence, DroppedOnlyWhenPutOff

LEMMA TypeStep == KeepAliveTypeOK /\ [KeepAliveNext]_keepAliveVars => KeepAliveTypeOK'
<1> SUFFICES ASSUME KeepAliveTypeOK, [KeepAliveNext]_keepAliveVars
             PROVE  KeepAliveTypeOK'
  OBVIOUS
<1> USE KeepAliveAssumption DEF sinceSent
<1>1. pong' \in BOOLEAN
  <2>1. pong \in BOOLEAN
    BY DEF KeepAliveTypeOK
  <2>2. pong' = pong \/ pong' = FALSE \/ pong' = (pong \/ link = "up")
    BY DEF KeepAliveNext, keepAliveVars, Tick, Published, Heard, DispatchDone, Pong,
        EventPublished, Ping, BrokerVanishes, BrokerDrops, SocketTimesOut,
        PollFails, Reconnect, Firmware
  <2> QED BY <2>1, <2>2, Zenon
<1> DEFINE Rest ==
        /\ kpc \in {"down", "poll", "dispatch"}
        /\ link \in {"up", "gone", "dropped", "timedout"}
        /\ timer \in 0..PingAfter /\ silent \in Nat /\ deaf \in 0..SocketTimeout
        /\ inbound \in 0..MaxInbound /\ stalled \in 0..MaxStall
<1>2. Rest
  BY DEF KeepAliveTypeOK
<1>3. ASSUME Tick PROVE Rest'
  BY <1>2, <1>3 DEF Tick
<1>4. ASSUME Published \/ Heard \/ Pong \/ DispatchDone PROVE Rest'
  BY <1>2, <1>4 DEF Published, Heard, Pong, DispatchDone
<1>5. ASSUME EventPublished PROVE Rest'
  BY <1>2, <1>5 DEF EventPublished, Send
<1>6. ASSUME Ping PROVE Rest'
  BY <1>2, <1>6 DEF Ping, Send
<1>7. ASSUME BrokerVanishes \/ BrokerDrops \/ SocketTimesOut \/ PollFails \/ Reconnect PROVE Rest'
  BY <1>2, <1>7 DEF BrokerVanishes, BrokerDrops, SocketTimesOut, PollFails, Reconnect
<1>8. ASSUME UNCHANGED keepAliveVars PROVE Rest'
  BY <1>2, <1>8 DEF keepAliveVars
<1>9. Rest'
  BY <1>3, <1>4, <1>5, <1>6, <1>7, <1>8 DEF KeepAliveNext, Firmware
<1> QED
  BY <1>1, <1>9 DEF KeepAliveTypeOK

LEMMA SilenceStep ==
  ASSUME KeepAliveTypeOK, Silence, [KeepAliveNext]_keepAliveVars
  PROVE  Silence'
<1> USE KeepAliveAssumption DEF sinceSent
<1> DEFINE put == PingAfter * inbound
<1>1. /\ timer \in 0..PingAfter /\ silent \in Nat /\ deaf \in Nat
      /\ inbound \in Nat /\ stalled \in Nat
  BY DEF KeepAliveTypeOK
<1>2. put \in Nat /\ PingAfter * (inbound + 1) = put + PingAfter /\ PingAfter * 0 = 0
  BY <1>1
<1>3. ASSUME Tick PROVE Silence'
  BY <1>1, <1>2, <1>3 DEF Tick, Silence
<1>4. ASSUME Published PROVE Silence'
  <2>1. /\ kpc' = "dispatch" /\ deaf' = 0 /\ UNCHANGED <<silent, stalled>>
        /\ PingAfter * inbound' = put + PingAfter
        /\ silent <= timer + put + stalled
    BY <1>2, <1>4 DEF Published, Silence
  <2>2. silent' <= PingAfter * inbound' + stalled'
    BY <1>1, <1>2, <2>1
  <2> QED BY <1>1, <2>1, <2>2 DEF Silence
<1>5. ASSUME Heard PROVE Silence'
  BY <1>1, <1>5 DEF Heard, Silence
<1>6. ASSUME DispatchDone PROVE Silence'
  BY <1>1, <1>2, <1>6 DEF DispatchDone, Silence
<1>7. ASSUME Pong PROVE Silence'
  <2>1. /\ kpc = "poll" /\ kpc' = "poll" /\ timer' = 0 /\ deaf' = 0
        /\ UNCHANGED <<silent, stalled>>
        /\ PingAfter * inbound' = put + PingAfter
        /\ silent <= timer + put + stalled
    BY <1>2, <1>7 DEF Pong, Silence
  <2>2. silent' <= timer' + PingAfter * inbound' + stalled'
    BY <1>1, <1>2, <2>1
  <2> QED BY <1>1, <2>1, <2>2 DEF Silence
<1>8. ASSUME EventPublished PROVE Silence'
  BY <1>1, <1>2, <1>8 DEF EventPublished, Send, Silence
<1>9. ASSUME Ping PROVE Silence'
  BY <1>1, <1>2, <1>9 DEF Ping, Send, Silence
<1>10. ASSUME BrokerVanishes \/ BrokerDrops \/ SocketTimesOut \/ PollFails PROVE Silence'
  BY <1>10 DEF BrokerVanishes, BrokerDrops, SocketTimesOut, PollFails, Silence
<1>11. ASSUME Reconnect PROVE Silence'
  BY <1>2, <1>11 DEF Reconnect, Silence
<1>12. ASSUME UNCHANGED keepAliveVars PROVE Silence'
  BY <1>12 DEF keepAliveVars, Silence
<1> QED
  BY <1>3, <1>4, <1>5, <1>6, <1>7, <1>8, <1>9, <1>10, <1>11, <1>12
     DEF KeepAliveNext, Firmware

LEMMA DroppedStep ==
  ASSUME KeepAliveTypeOK, Silence, DroppedOnlyWhenPutOff, [KeepAliveNext]_keepAliveVars
  PROVE  DroppedOnlyWhenPutOff'
<1> USE KeepAliveAssumption DEF sinceSent
<1>1. CASE BrokerDrops
  <2>1. /\ timer \in 0..PingAfter /\ silent \in Nat /\ inbound \in Nat /\ stalled \in Nat
        /\ link = "up" /\ kpc \in {"poll", "dispatch"} /\ silent >= BrokerLimit
        /\ UNCHANGED sinceSent
    BY <1>1 DEF KeepAliveTypeOK, BrokerDrops
  <2>2. PingAfter * inbound \in Nat /\ PingAfter * (inbound + 1) = PingAfter * inbound + PingAfter
    BY <2>1
  <2>3. silent <= PingAfter * inbound + PingAfter + stalled
    BY <2>1, <2>2 DEF Silence
  <2>4. PingAfter * (inbound + 1) + stalled >= BrokerLimit
    BY <2>1, <2>2, <2>3
  <2> QED BY <2>1, <2>4 DEF DroppedOnlyWhenPutOff
<1>2. CASE ~BrokerDrops
  <2>1. link' = "dropped" => link = "dropped" /\ UNCHANGED sinceSent
    BY <1>2 DEF KeepAliveNext, keepAliveVars, Tick, Published, Heard, DispatchDone, Pong,
        EventPublished, Ping, Send, BrokerVanishes, SocketTimesOut, PollFails, Reconnect, Firmware
  <2> QED BY <2>1 DEF DroppedOnlyWhenPutOff
<1> QED
  BY <1>1, <1>2

LEMMA AlwaysKeepAlive == KeepAliveSpec => []KeepAliveInv
<1>1. KeepAliveInv /\ [KeepAliveNext]_keepAliveVars => KeepAliveInv'
  BY TypeStep, SilenceStep, DroppedStep DEF KeepAliveInv
<1> QED
  BY InitKeepAlive, <1>1, PTL DEF KeepAliveSpec

(* Every variable keeps its type: the ping timer never runs longer than    *)
(* its period, nor is the socket deaf for longer than its timeout.         *)
THEOREM KeepAliveTypeCorrect == KeepAliveSpec => []KeepAliveTypeOK
<1>1. KeepAliveInv => KeepAliveTypeOK
  BY DEF KeepAliveInv
<1> QED
  BY AlwaysKeepAlive, <1>1, PTL

(* A client that neither receives nor stalls is not dropped, whenever its  *)
(* ping period is shorter than the broker's patience.                      *)
THEOREM QuietClientIsKept == KeepAliveSpec => []DroppedOnlyWhenPutOff
<1>1. KeepAliveInv => DroppedOnlyWhenPutOff
  BY DEF KeepAliveInv
<1> QED
  BY AlwaysKeepAlive, <1>1, PTL

(* The socket gives up on a broker that is there only after a stall.       *)
THEOREM PresentBrokerIsHeard == KeepAliveSpec => TimedOutOnlyWhenStalled
<1>1. KeepAliveInv /\ [KeepAliveNext]_keepAliveVars
        => [link = "up" /\ link' = "timedout" => PingAfter + stalled >= SocketTimeout]_keepAliveVars
  <2> SUFFICES ASSUME KeepAliveInv, [KeepAliveNext]_keepAliveVars,
                      link = "up", link' = "timedout"
               PROVE  PingAfter + stalled >= SocketTimeout
    OBVIOUS
  <2>1. SocketTimesOut
    BY DEF KeepAliveNext, keepAliveVars, Tick, Published, Heard, DispatchDone, Pong,
        EventPublished, Ping, Send, BrokerVanishes, BrokerDrops, PollFails, Reconnect, Firmware
  <2>2. deaf >= SocketTimeout /\ kpc # "down"
    BY <2>1 DEF SocketTimesOut
  <2>3. /\ timer \in 0..PingAfter /\ deaf \in Nat /\ stalled \in Nat
        /\ kpc \in {"poll", "dispatch"} /\ deaf <= timer + stalled
    BY <2>2, KeepAliveAssumption DEF KeepAliveInv, KeepAliveTypeOK, Silence
  <2> QED BY <2>2, <2>3, KeepAliveAssumption
<1> QED
  BY AlwaysKeepAlive, <1>1, PTL DEF KeepAliveSpec, TimedOutOnlyWhenStalled
=============================================================================
