--------------------------- MODULE SpeakerProofs ---------------------------
(***************************************************************************)
(* The safety properties of Speaker, proved for every size of the          *)
(* channels, every set of keys, every set of inbound messages and every    *)
(* number of presses, publications and network failures.                   *)
(***************************************************************************)
EXTENDS Speaker, TLAPS

(***************************************************************************)
(* Type correctness                                                        *)
(***************************************************************************)
LEMMA InitialTypes == Init => TypeOK
<1> SUFFICES ASSUME Init
             PROVE  TypeOK
  OBVIOUS
<1>1. ChannelsTypeOK
  BY ChannelsAssumption DEF Init, ChannelsInit, ChannelsTypeOK, LedCommand
<1>2. BoardTypeOK
  BY DEF Init, BoardInit, BoardTypeOK
<1>3. AudioTypeOK
  BY DEF Init, AudioInit, AudioTypeOK, AudioPc
<1>4. ButtonsTypeOK
  BY ButtonsAssumption DEF Init, ButtonsInit, ButtonsTypeOK
<1>5. MqttTypeOK
  <2>1. mpc \in MqttPc /\ mcmd \in AudioCommand /\ mev \in AppEvent /\ taken \in PlaybackEvents
    BY DEF Init, MqttInit, MqttPc, AudioCommand, AppEvent, PlaybackEvents
  <2>2. inbox \in 0..arrived /\ arrived \in 0..MaxPublishes /\ faults \in 0..MaxFaults
    BY MqttAssumption DEF Init, MqttInit
  <2>3. linkUp \in BOOLEAN /\ lost \subseteq Topics
        /\ shown \in [Topics -> {"unknown", "playing", "stopped"}]
    BY DEF Init, MqttInit
  <2> QED BY <2>1, <2>2, <2>3 DEF MqttTypeOK
<1> QED
  BY <1>1, <1>2, <1>3, <1>4, <1>5 DEF TypeOK

(* What routing can make of a message.                                     *)
LEMMA DispatchType ==
  ASSUME NEW m \in Message
  PROVE  /\ dispatch(m).to = "audio" => dispatch(m).command \in AudioCommand
         /\ dispatch(m).to = "led" => dispatch(m).command \in LedCommand
<1>1. handle_media_player_command(m) \in
        {Nothing} \cup {ToAudio(c) : c \in AudioCommand}
  BY DEF handle_media_player_command, AudioCommand
<1>2. parse_audio_command(m) \in {Nothing} \cup {ToAudio(c) : c \in AudioCommand}
  BY DEF parse_audio_command, AudioCommand
<1>3. parse_led_command(m) \in {Nothing} \cup {ToLed(c) : c \in LedCommand}
  BY DEF parse_led_command, LedCommand
<1>4. dispatch(m) \in {Nothing} \cup {ToAudio(c) : c \in AudioCommand}
                        \cup {ToLed(c) : c \in LedCommand}
  BY <1>1, <1>2, <1>3 DEF dispatch
<1> QED
  BY <1>4 DEF Nothing, ToAudio, ToLed

LEMMA SendOrBlockType ==
  ASSUME eventQ \in Seq(AppEvent), Len(eventQ) <= CHANNEL_SIZE,
         NEW e \in AppEvent, NEW b, NEW n, SendOrBlock(e, b, n)
  PROVE  /\ eventQ' \in Seq(AppEvent) /\ Len(eventQ') <= CHANNEL_SIZE
         /\ apc' \in {b, n}
  BY ChannelsAssumption DEF SendOrBlock, EventRoom

(* The audio task only receives from the command and the sound channel.    *)
LEMMA AudioReceives ==
  AudioNext =>
    /\ cmdQ' = cmdQ \/ (cmdQ # <<>> /\ cmdQ' = Tail(cmdQ))
    /\ soundQ' = soundQ \/ (soundQ # <<>> /\ soundQ' = Tail(soundQ))
  BY DEF AudioNext, AudioReady, AudioInitFails, TakeSound, TakePlay, TakeOther,
     TakeAnnouncement, TakeCommand, AnnouncementEnds, AmpOn, TellStarted,
     StartedSent, PlayNext, AmpOff, TellStopped, StoppedSent

LEMMA TailType ==
  ASSUME NEW S, NEW q \in Seq(S), NEW n \in Nat, Len(q) <= n, q # <<>>
  PROVE  Tail(q) \in Seq(S) /\ Len(Tail(q)) <= n
  OBVIOUS

(* The audio task's steps.                                                 *)
LEMMA AudioTypes == TypeOK /\ Audio => TypeOK'
<1> SUFFICES ASSUME TypeOK, Audio
             PROVE  TypeOK'
  OBVIOUS
<1>0. /\ ChannelsTypeOK /\ BoardTypeOK /\ AudioTypeOK /\ ButtonsTypeOK /\ MqttTypeOK
      /\ UNCHANGED <<ledSignal, down, buttonVars, mqttVars>>
  BY DEF TypeOK, Audio
<1>1. ButtonsTypeOK' /\ MqttTypeOK'
  BY <1>0 DEF ButtonsTypeOK, MqttTypeOK, buttonVars, mqttVars
<1>2. ChannelsTypeOK'
  <2>1. cmdQ' \in Seq(AudioCommand) /\ Len(cmdQ') <= CHANNEL_SIZE
    BY <1>0, AudioReceives, TailType, ChannelsAssumption DEF Audio, ChannelsTypeOK
  <2>2. soundQ' \in Seq(Sound) /\ Len(soundQ') <= AUDIO_QUEUE_DEPTH
    BY <1>0, AudioReceives, TailType, ChannelsAssumption DEF Audio, ChannelsTypeOK
  <2>3. eventQ' \in Seq(AppEvent) /\ Len(eventQ') <= CHANNEL_SIZE
    BY <1>0, SendOrBlockType DEF Audio, AudioNext, ChannelsTypeOK, AudioReady, AudioInitFails,
       TakeSound, TakePlay, TakeOther, TakeAnnouncement, Unmute, AnnouncementEnds,
       AmpOn, TellStarted, StartedSent, PlayNext, AmpOff, TellStopped, StoppedSent,
       AppEvent, PlaybackEvents
  <2> QED BY <1>0, <2>1, <2>2, <2>3 DEF ChannelsTypeOK
<1>3. AudioTypeOK'
  BY <1>0, SendOrBlockType DEF Audio, AudioNext, ChannelsTypeOK, AudioTypeOK, AudioPc, AudioReady,
     AudioInitFails, TakeSound, TakePlay, TakeOther, TakeAnnouncement, Unmute, AnnouncementEnds,
     AmpOn, TellStarted, StartedSent, PlayNext, AmpOff, TellStopped, StoppedSent,
     AppEvent, PlaybackEvents
<1>4. BoardTypeOK'
  BY <1>0 DEF Audio, AudioNext, BoardTypeOK, AudioReady, AudioInitFails,
     TakeSound, TakePlay, TakeOther, TakeAnnouncement, Unmute, AnnouncementEnds,
     AmpOn, TellStarted, StartedSent, PlayNext, AmpOff, TellStopped, StoppedSent,
     mute, tca9555_pa_set
<1> QED
  BY <1>1, <1>2, <1>3, <1>4 DEF TypeOK

(* The buttons' steps and the hand on the keys.                            *)
LEMMA ButtonsTypes == TypeOK /\ Buttons => TypeOK'
<1> SUFFICES ASSUME TypeOK, Buttons
             PROVE  TypeOK'
  OBVIOUS
<1>0. /\ ChannelsTypeOK /\ BoardTypeOK /\ AudioTypeOK /\ ButtonsTypeOK /\ MqttTypeOK
      /\ UNCHANGED <<cmdQ, soundQ, ledSignal, amp, muted, failed, audioVars, mqttVars>>
  BY DEF TypeOK, Buttons
<1>1. PICK k \in Keys : ButtonTask(k) \/ Press(k) \/ Release(k)
  BY DEF Buttons, ButtonsNext
<1>2. AudioTypeOK' /\ MqttTypeOK'
  BY <1>0 DEF AudioTypeOK, MqttTypeOK, audioVars, mqttVars
<1>3. ChannelsTypeOK'
  <2>1. eventQ' = eventQ \/ (EventRoom /\ eventQ' = Append(eventQ, k))
    BY <1>1 DEF ButtonTask, SampleDown, SampleUp, Unblock, Report, Press, Release
  <2>2. eventQ' \in Seq(AppEvent) /\ Len(eventQ') <= CHANNEL_SIZE
    <3>1. k \in AppEvent
      BY DEF AppEvent
    <3> QED BY <1>0, <2>1, <3>1, ChannelsAssumption DEF ChannelsTypeOK, EventRoom
  <2> QED BY <1>0, <2>2 DEF ChannelsTypeOK
<1>4. BoardTypeOK'
  BY <1>0, <1>1 DEF BoardTypeOK, ButtonTask, SampleDown, SampleUp, Unblock, Report,
     Press, Release
<1>5. ButtonsTypeOK'
  <2>1. presses' \in [Keys -> 0..MaxPresses]
    <3>1. presses' = presses \/ Press(k)
      BY <1>1 DEF ButtonTask, SampleDown, SampleUp, Unblock, Report, Release
    <3>2. CASE Press(k)
      <4>1. presses[k] + 1 \in 0..MaxPresses
        BY <1>0, <3>2, ButtonsAssumption DEF ButtonsTypeOK, Press
      <4> QED BY <1>0, <3>2, <4>1 DEF ButtonsTypeOK, Press
    <3> QED BY <1>0, <3>1, <3>2 DEF ButtonsTypeOK
  <2>2. kpc' \in [Keys -> {"sample", "blocked"}]
    BY <1>0, <1>1 DEF ButtonsTypeOK, ButtonTask, SampleDown, SampleUp,
       Unblock, Report, Press, Release
  <2>3. was_pressed' \in [Keys -> BOOLEAN] /\ news' \in [Keys -> BOOLEAN]
    BY <1>0, <1>1 DEF ButtonsTypeOK, ButtonTask, SampleDown, SampleUp,
       Unblock, Report, Press, Release
  <2> QED BY <2>1, <2>2, <2>3 DEF ButtonsTypeOK
<1> QED
  BY <1>2, <1>3, <1>4, <1>5 DEF TypeOK

(* What one step of the MQTT task, of its environment or of main does to   *)
(* the channels.                                                           *)
LEMMA MqttChannels ==
  ASSUME TypeOK, MqttStep
  PROVE  /\ cmdQ' = cmdQ \/ \E c \in AudioCommand : CmdRoom /\ cmdQ' = Append(cmdQ, c)
         /\ eventQ' = eventQ \/ (eventQ # <<>> /\ eventQ' = Tail(eventQ))
         /\ ledSignal' \in {ledSignal} \cup LedCommand
<1>1. ASSUME NEW m \in Inbound, PollPublish(m)
      PROVE  /\ cmdQ' = cmdQ \/ \E c \in AudioCommand : CmdRoom /\ cmdQ' = Append(cmdQ, c)
             /\ eventQ' = eventQ
             /\ ledSignal' \in {ledSignal} \cup LedCommand
  <2>1. m \in Message
    BY MqttAssumption
  <2> QED BY <1>1, <2>1, DispatchType DEF PollPublish, led_send
<1>2. CASE CommandSent
  BY <1>2 DEF CommandSent, TypeOK, MqttTypeOK
<1>3. CASE \E e \in AppEvent : PollEvent(e)
  BY <1>3 DEF PollEvent
<1>4. CASE OpenSession \/ SessionError \/ Publications \/ Disconnect \/ Reconnect
  BY <1>4 DEF OpenSession, TcpConnected, TcpFails, BrokerConnect, PublishDiscovery, Subscribe,
     Handshake, SessionError, Publications, PublishState, PublishAttributes, PublishKey,
     Disconnect, Reconnect, mqttData
<1> QED
  BY <1>1, <1>2, <1>3, <1>4 DEF MqttStep, PollLoop

LEMMA MqttChannelTypes == TypeOK /\ MqttStep /\ soundQ' = soundQ => ChannelsTypeOK'
<1> SUFFICES ASSUME TypeOK, MqttStep, soundQ' = soundQ
             PROVE  ChannelsTypeOK'
  OBVIOUS
<1>0. ChannelsTypeOK
  BY DEF TypeOK
<1>1. cmdQ' \in Seq(AudioCommand) /\ Len(cmdQ') <= CHANNEL_SIZE
  BY <1>0, MqttChannels, ChannelsAssumption DEF ChannelsTypeOK, CmdRoom
<1>2. eventQ' \in Seq(AppEvent) /\ Len(eventQ') <= CHANNEL_SIZE
  BY <1>0, MqttChannels, TailType, ChannelsAssumption DEF ChannelsTypeOK
<1> QED
  BY <1>0, <1>1, <1>2, MqttChannels DEF ChannelsTypeOK

(* The MQTT task's own variables.                                          *)
LEMMA MqttOwnTypes == TypeOK /\ MqttStep => MqttTypeOK'
<1> SUFFICES ASSUME TypeOK, MqttStep
             PROVE  MqttTypeOK'
  OBVIOUS
<1>0. MqttTypeOK
  BY DEF TypeOK
<1>1. ASSUME NEW m \in Inbound, PollPublish(m)
      PROVE  MqttTypeOK'
  <2>1. m \in Message
    BY MqttAssumption
  <2>2. mpc' \in MqttPc /\ mcmd' \in AudioCommand
    BY <1>0, <1>1, <2>1, DispatchType DEF PollPublish, MqttTypeOK, MqttPc
  <2>3. inbox' \in 0..arrived' /\ arrived' \in 0..MaxPublishes
    BY <1>0, <1>1, MqttAssumption DEF PollPublish, MqttTypeOK
  <2> QED BY <1>0, <1>1, <2>2, <2>3 DEF PollPublish, MqttTypeOK
<1>2. CASE CommandSent \/ SessionError \/ Disconnect \/ Reconnect
  BY <1>0, <1>2 DEF CommandSent, SessionError, Disconnect, Reconnect, mqttData,
     MqttTypeOK, MqttPc
<1>3. ASSUME NEW e \in AppEvent, PollEvent(e)
      PROVE  MqttTypeOK'
  BY <1>0, <1>3 DEF PollEvent, MqttTypeOK, MqttPc
<1>4. CASE Publications
  <2>1. shown' \in [Topics -> {"unknown", "playing", "stopped"}] /\ lost' \subseteq Topics
    BY <1>0, <1>4 DEF Publications, PublishState, PublishAttributes, PublishKey, mqttData,
       Publish, StateOf, Topics, MqttTypeOK
  <2> QED BY <1>0, <1>4, <2>1 DEF Publications, PublishState, PublishAttributes, PublishKey,
             mqttData, MqttTypeOK, MqttPc
<1>5. CASE OpenSession
  <2>1. faults' \in 0..MaxFaults
    BY <1>0, <1>5, MqttAssumption DEF OpenSession, TcpConnected, TcpFails, BrokerConnect,
       PublishDiscovery, Subscribe, Handshake, MqttTypeOK
  <2> QED BY <1>0, <1>5, <2>1 DEF OpenSession, TcpConnected, TcpFails, BrokerConnect,
             PublishDiscovery, Subscribe, Handshake, mqttData, MqttTypeOK, MqttPc
<1> QED
  BY <1>1, <1>2, <1>3, <1>4, <1>5 DEF MqttStep, PollLoop

LEMMA MqttTypes == TypeOK /\ Mqtt => TypeOK'
  BY MqttChannelTypes, MqttOwnTypes
  DEF TypeOK, Mqtt, BoardTypeOK, AudioTypeOK, ButtonsTypeOK, boardVars, audioVars, buttonVars

LEMMA NetworkTypes == TypeOK /\ Network => TypeOK'
<1> SUFFICES ASSUME TypeOK, Network
             PROVE  TypeOK'
  OBVIOUS
<1>0. UNCHANGED <<mpc, mcmd, mev, shown, lost, taken, cmdQ, eventQ, ledSignal, soundQ,
                  boardVars, audioVars, buttonVars>>
  BY DEF Network, Arrive, LinkFails
<1>1. inbox' \in 0..arrived' /\ arrived' \in 0..MaxPublishes
  BY MqttAssumption DEF TypeOK, MqttTypeOK, Network, Arrive, LinkFails
<1>2. faults' \in 0..MaxFaults
  BY MqttAssumption DEF TypeOK, MqttTypeOK, Network, Arrive, LinkFails
<1>3. linkUp' \in BOOLEAN
  BY DEF TypeOK, MqttTypeOK, Network, Arrive, LinkFails
<1>4. MqttTypeOK'
  BY <1>0, <1>1, <1>2, <1>3 DEF TypeOK, MqttTypeOK
<1> QED
  BY <1>0, <1>4 DEF TypeOK, ChannelsTypeOK, BoardTypeOK, AudioTypeOK, ButtonsTypeOK,
     boardVars, audioVars, buttonVars

LEMMA StackUpTypes == TypeOK /\ StackUp => TypeOK'
<1> SUFFICES ASSUME TypeOK, StackUp
             PROVE  TypeOK'
  OBVIOUS
<1>1. soundQ' \in Seq(Sound) /\ Len(soundQ') <= AUDIO_QUEUE_DEPTH
  <2>1. "Connected" \in Sound
    BY DEF Sound
  <2> QED BY <2>1, ChannelsAssumption DEF TypeOK, ChannelsTypeOK, StackUp, audio_send
<1>2. ChannelsTypeOK'
  BY <1>1 DEF TypeOK, ChannelsTypeOK, StackUp, led_send, LedCommand
<1>3. MqttTypeOK'
  BY DEF TypeOK, MqttTypeOK, MqttPc, StackUp
<1> QED
  BY <1>2, <1>3 DEF TypeOK, BoardTypeOK, AudioTypeOK, ButtonsTypeOK, StackUp,
     boardVars, audioVars, buttonVars

LEMMA StutterTypes == TypeOK /\ UNCHANGED vars => TypeOK'
  BY DEF TypeOK, ChannelsTypeOK, BoardTypeOK, AudioTypeOK, ButtonsTypeOK, MqttTypeOK,
     vars, channelVars, boardVars, audioVars, buttonVars, mqttVars

(* Every variable keeps its type; no channel ever holds more than its      *)
(* capacity, although four kinds of tasks send to them.                    *)
THEOREM TypeCorrect == Spec => []TypeOK
<1>1. TypeOK /\ [Next]_vars => TypeOK'
  BY AudioTypes, ButtonsTypes, MqttTypes, NetworkTypes, StackUpTypes, StutterTypes DEF Next
<1> QED
  BY <1>1, InitialTypes, PTL DEF Spec

(***************************************************************************)
(* The event channel implements EventFeed                                  *)
(***************************************************************************)
feedVars == <<Reporting, eventQ, taken>>

LEMMA FeedInitially == Init => Feed!Init
  BY DEF Init, ChannelsInit, AudioInit, MqttInit, Feed!Init, Feed!Stopped, Reporting

LEMMA SameFeed ==
  ASSUME Reporting' <=> Reporting, eventQ' = eventQ, taken' = taken
  PROVE  UNCHANGED feedVars
<1>1. Reporting \in BOOLEAN /\ Reporting' \in BOOLEAN
  BY DEF Reporting
<1> QED
  BY <1>1 DEF feedVars

(* Reporting changes exactly with the playback events the audio task sends.*)
LEMMA AudioFeeds == AudioNext /\ taken' = taken => [Feed!Next]_feedVars
<1> SUFFICES ASSUME AudioNext, taken' = taken
             PROVE  [Feed!Next]_feedVars
  OBVIOUS
<1>1. CASE TellStarted \/ StartedSent
  <2>1. CASE EventRoom
    <3>1. ~Reporting /\ Reporting' /\ eventQ' = Append(eventQ, "PlaybackStarted")
      BY <1>1, <2>1 DEF TellStarted, StartedSent, SendOrBlock, Reporting
    <3>2. Feed!Start
      BY <2>1, <3>1 DEF Feed!Start, Feed!Send, Feed!Started, EventRoom
    <3> QED BY <3>2 DEF Feed!Next
  <2>2. CASE ~EventRoom
    BY <1>1, <2>2 DEF TellStarted, StartedSent, SendOrBlock, Reporting, feedVars
  <2> QED BY <2>1, <2>2
<1>2. CASE TellStopped \/ StoppedSent
  <2>1. CASE EventRoom
    <3>1. Reporting /\ ~Reporting' /\ eventQ' = Append(eventQ, "PlaybackStopped")
      BY <1>2, <2>1 DEF TellStopped, StoppedSent, SendOrBlock, Reporting
    <3>2. Feed!Stop
      BY <2>1, <3>1 DEF Feed!Stop, Feed!Send, Feed!Stopped, EventRoom
    <3> QED BY <3>2 DEF Feed!Next
  <2>2. CASE ~EventRoom
    <3>1. (Reporting' <=> Reporting) /\ eventQ' = eventQ
      BY <1>2, <2>2 DEF TellStopped, StoppedSent, SendOrBlock, Reporting
    <3> QED BY <3>1, SameFeed
  <2> QED BY <2>1, <2>2
<1>3. CASE AudioReady \/ AudioInitFails \/ TakeSound \/ TakePlay \/ TakeOther
           \/ TakeAnnouncement \/ AnnouncementEnds \/ AmpOn \/ PlayNext \/ AmpOff
  <2>1. eventQ' = eventQ
    BY <1>3 DEF AudioReady, AudioInitFails, TakeSound, TakePlay, TakeOther, TakeAnnouncement,
       Unmute, AnnouncementEnds, AmpOn, PlayNext, AmpOff
  <2>2. Reporting' <=> Reporting
    BY <1>3 DEF AudioReady, AudioInitFails, TakeSound, TakePlay, TakeOther, TakeAnnouncement,
       TakeCommand, Unmute, AnnouncementEnds, AmpOn, PlayNext, AmpOff, Reporting
  <2> QED BY <2>1, <2>2, SameFeed
<1> QED
  BY <1>1, <1>2, <1>3 DEF AudioNext

LEMMA ButtonsFeed == ButtonsNext /\ UNCHANGED <<apc, taken>> => [Feed!Next]_feedVars
<1> SUFFICES ASSUME ButtonsNext, UNCHANGED <<apc, taken>>
             PROVE  [Feed!Next]_feedVars
  OBVIOUS
<1>1. PICK k \in Keys : ButtonTask(k) \/ Press(k) \/ Release(k)
  BY DEF ButtonsNext
<1>2. CASE eventQ' = eventQ
  BY <1>2 DEF feedVars, Reporting
<1>3. CASE EventRoom /\ eventQ' = Append(eventQ, k)
  <2>0. k \in Keys \ Feed!Playback
    BY ChannelsAssumption DEF Feed!Playback, Feed!Started, Feed!Stopped, PlaybackEvents
  <2>1. Feed!Key
    BY <1>3, <2>0 DEF Feed!Key, Feed!Send, EventRoom, Reporting
  <2> QED BY <2>1 DEF Feed!Next
<1>4. eventQ' = eventQ \/ (EventRoom /\ eventQ' = Append(eventQ, k))
  BY <1>1 DEF ButtonTask, SampleDown, SampleUp, Unblock, Report, Press, Release
<1> QED
  BY <1>2, <1>3, <1>4

LEMMA MqttFeeds == MqttStep /\ apc' = apc => [Feed!Next]_feedVars
<1> SUFFICES ASSUME MqttStep, apc' = apc
             PROVE  [Feed!Next]_feedVars
  OBVIOUS
<1>1. ASSUME NEW e \in AppEvent, PollEvent(e)
      PROVE  Feed!Take
  <2>1. e \in Keys => e \notin PlaybackEvents
    BY ChannelsAssumption
  <2>2. taken' = IF e \in PlaybackEvents THEN e ELSE taken
    BY <1>1, <2>1 DEF PollEvent
  <2> QED BY <1>1, <2>2 DEF PollEvent, Feed!Take, Feed!Playback, Feed!Started, Feed!Stopped,
             PlaybackEvents, Reporting
<1>2. CASE (\E m \in Inbound : PollPublish(m)) \/ CommandSent \/ SessionError
           \/ OpenSession \/ Publications \/ Disconnect \/ Reconnect
  BY <1>2 DEF PollPublish, CommandSent, SessionError, OpenSession, TcpConnected, TcpFails,
     BrokerConnect, PublishDiscovery, Subscribe, Handshake, Publications, PublishState,
     PublishAttributes, PublishKey, Disconnect, Reconnect, mqttData, feedVars, Reporting
<1> QED
  BY <1>1, <1>2 DEF MqttStep, PollLoop, Feed!Next

LEMMA FeedSteps == [Next]_vars => [Feed!Next]_(Feed!vars)
<1> SUFFICES ASSUME [Next]_vars
             PROVE  [Feed!Next]_feedVars
  BY DEF feedVars, Feed!vars
<1>1. CASE Audio
  BY <1>1, AudioFeeds DEF Audio, mqttVars
<1>2. CASE Buttons
  BY <1>2, ButtonsFeed DEF Buttons, audioVars, mqttVars
<1>3. CASE Mqtt
  BY <1>3, MqttFeeds DEF Mqtt, audioVars
<1>4. CASE StackUp \/ Network \/ UNCHANGED vars
  BY <1>4 DEF StackUp, Network, Arrive, LinkFails, vars, channelVars, audioVars, mqttVars,
     feedVars, Reporting
<1> QED
  BY <1>1, <1>2, <1>3, <1>4 DEF Next

(* Whatever the tasks and the network do, the audio task and the MQTT task *)
(* use the event channel as EventFeed says.                                *)
THEOREM EventChannelImplementsFeed == Spec => ImplementsEventFeed
  BY FeedInitially, FeedSteps, PTL DEF Spec, ImplementsEventFeed, Feed!Spec

FeedProofs == INSTANCE EventFeedProofs WITH
                Capacity <- CHANNEL_SIZE, KeyEvents <- Keys,
                playing <- Reporting, queue <- eventQ

(* The playback events the MQTT task is still to receive alternate from    *)
(* the last one it received to the last one the audio task sent.           *)
THEOREM FeedAlternatesAlways == Spec => []FeedAlternates
<1>1. Init => FeedProofs!FeedInv
  BY FeedInitially, FeedProofs!FeedInitial
  DEF Feed!Init, FeedProofs!Init, Feed!Stopped, FeedProofs!Stopped
<1>2. FeedProofs!FeedInv /\ [Next]_vars => FeedProofs!FeedInv'
  BY FeedSteps, FeedProofs!FeedStep
  DEF Feed!Next, Feed!vars, Feed!Start, Feed!Stop, Feed!Key, Feed!Take, Feed!Send,
      Feed!Started, Feed!Stopped, Feed!Playback,
      FeedProofs!Next, FeedProofs!vars, FeedProofs!Start, FeedProofs!Stop, FeedProofs!Key,
      FeedProofs!Take, FeedProofs!Send, FeedProofs!Started, FeedProofs!Stopped,
      FeedProofs!Playback
<1>3. FeedProofs!FeedInv => FeedAlternates
  BY DEF FeedProofs!FeedInv, FeedAlternates, Feed!FeedAlternates, FeedProofs!FeedAlternates,
     Feed!Alternates, FeedProofs!Alternates, Feed!Consecutive, FeedProofs!Consecutive,
     Feed!FirstPlayback, FeedProofs!FirstPlayback, Feed!LastPlayback, FeedProofs!LastPlayback,
     Feed!Latest, FeedProofs!Latest, Feed!Playback, FeedProofs!Playback,
     Feed!Started, Feed!Stopped, FeedProofs!Started, FeedProofs!Stopped
<1> QED
  BY <1>1, <1>2, <1>3, PTL DEF Spec

(***************************************************************************)
(* The output path                                                         *)
(***************************************************************************)

(* OutputSequenced is inductive: each half is moved only by its own writes. *)
LEMMA OutputStep == AudioTypeOK /\ OutputSequenced /\ AudioNext => OutputSequenced'
<1> SUFFICES ASSUME AudioTypeOK, OutputSequenced, AudioNext
             PROVE  OutputSequenced'
  OBVIOUS
<1>1. CASE AudioReady \/ AudioInitFails
  BY <1>1 DEF OutputSequenced, AudioReady, AudioInitFails
<1>2. CASE TakeSound \/ TakePlay
  BY <1>2 DEF OutputSequenced, TakeSound, TakePlay, TakeCommand, Unmute, mute
<1>3. CASE TakeOther \/ TakeAnnouncement \/ AnnouncementEnds
  BY <1>3 DEF OutputSequenced, TakeOther, TakeAnnouncement, TakeCommand, AnnouncementEnds
<1>4. CASE AmpOn \/ AmpOff
  BY <1>4 DEF OutputSequenced, AmpOn, AmpOff, tca9555_pa_set
<1>5. CASE TellStarted \/ StartedSent \/ PlayNext
  BY <1>5 DEF OutputSequenced, TellStarted, StartedSent, PlayNext, SendOrBlock
<1>6. CASE TellStopped \/ StoppedSent
  BY <1>6 DEF OutputSequenced, TellStopped, StoppedSent, SendOrBlock, mute
<1> QED
  BY <1>1, <1>2, <1>3, <1>4, <1>5, <1>6 DEF AudioNext

(* The amplifier and the mute bit follow the power sequence, so that the   *)
(* amplifier is never on with a muted codec, but for a half whose last     *)
(* transfer failed: that half alone is off the sequence, and only until    *)
(* its next transfer that succeeds.                                        *)
THEOREM OutputIsSequenced == Spec => []OutputSequenced
<1>1. Init => OutputSequenced
  BY DEF Init, AudioInit, OutputSequenced
<1>2. TypeOK /\ OutputSequenced /\ [Next]_vars => OutputSequenced'
  <2> SUFFICES ASSUME TypeOK, OutputSequenced, [Next]_vars
               PROVE  OutputSequenced'
    OBVIOUS
  <2>1. CASE Audio
    BY <2>1, OutputStep DEF Audio, TypeOK
  <2>2. CASE StackUp \/ Buttons \/ Mqtt \/ Network \/ UNCHANGED vars
    <3>1. UNCHANGED <<apc, amp, muted, failed>>
      BY <2>2 DEF StackUp, Buttons, Mqtt, Network, vars, audioVars, boardVars
    <3> QED BY <3>1 DEF OutputSequenced
  <2> QED BY <2>1, <2>2 DEF Next
<1> QED
  BY <1>1, <1>2, TypeCorrect, PTL DEF Spec

(***************************************************************************)
(* The front keys                                                          *)
(***************************************************************************)

(* A task that waits to report a key, or would report it at its next       *)
(* sample, has news of it.                                                 *)
NewsInv ==
    ~I2cMayFail =>
        \A k \in Keys :
            kpc[k] = "blocked" \/ (~was_pressed[k] /\ down[k]) => news[k]

LEMMA NewsStep == TypeOK /\ NewsInv /\ Buttons => NewsInv'
<1> SUFFICES ASSUME TypeOK, NewsInv, Buttons, ~I2cMayFail,
                    NEW j \in Keys,
                    (kpc[j] = "blocked" \/ (~was_pressed[j] /\ down[j]))'
             PROVE  news'[j]
  BY DEF NewsInv
<1>0. /\ ButtonsTypeOK /\ BoardTypeOK
      /\ kpc[j] = "blocked" \/ (~was_pressed[j] /\ down[j]) => news[j]
  BY DEF TypeOK, NewsInv
<1>1. PICK k \in Keys : ButtonTask(k) \/ Press(k) \/ Release(k)
  BY DEF Buttons, ButtonsNext
<1>2. CASE SampleDown(k) \/ SampleUp(k) \/ Unblock(k)
  BY <1>0, <1>2 DEF SampleDown, SampleUp, Unblock, Report, is_pressed, ButtonsTypeOK, BoardTypeOK
<1>3. CASE Press(k) \/ Release(k)
  BY <1>0, <1>3 DEF Press, Release, ButtonsTypeOK, BoardTypeOK
<1> QED
  BY <1>1, <1>2, <1>3 DEF ButtonTask

LEMMA NewsInductive == TypeOK /\ NewsInv /\ [Next]_vars => NewsInv'
<1> SUFFICES ASSUME TypeOK, NewsInv, [Next]_vars
             PROVE  NewsInv'
  OBVIOUS
<1>1. CASE Buttons
  BY <1>1, NewsStep
<1>2. CASE StackUp \/ Audio \/ Mqtt \/ Network \/ UNCHANGED vars
  <2>1. UNCHANGED <<kpc, was_pressed, news, down>>
    BY <1>2 DEF StackUp, Audio, Mqtt, Network, vars, buttonVars, boardVars
  <2> QED BY <2>1 DEF NewsInv
<1> QED BY <1>1, <1>2 DEF Next

(* Only the button tasks put key events into the channel.                  *)
LEMMA ReportsHaveNews ==
  TypeOK /\ NewsInv /\ [Next]_vars =>
    (~I2cMayFail => \A k \in Keys : Reported(k) => news[k])
<1> SUFFICES ASSUME TypeOK, NewsInv, [Next]_vars, ~I2cMayFail, NEW k \in Keys, Reported(k)
             PROVE  news[k]
  OBVIOUS
<1>0. /\ eventQ \in Seq(AppEvent) /\ k \notin PlaybackEvents
      /\ kpc[k] = "blocked" \/ (~was_pressed[k] /\ down[k]) => news[k]
  BY ChannelsAssumption DEF TypeOK, ChannelsTypeOK, NewsInv
<1>1. CASE Audio
  <2>1. \/ eventQ' = eventQ
        \/ \E e \in PlaybackEvents : eventQ' = Append(eventQ, e)
    BY <1>1 DEF Audio, AudioNext, AudioReady, AudioInitFails, TakeSound, TakePlay, TakeOther,
       TakeAnnouncement, Unmute, AnnouncementEnds, AmpOn, TellStarted, StartedSent, PlayNext,
       AmpOff, TellStopped, StoppedSent, SendOrBlock, PlaybackEvents
  <2> QED BY <1>0, <2>1 DEF Reported
<1>2. CASE Buttons
  <2>1. PICK j \in Keys : ButtonTask(j) \/ Press(j) \/ Release(j)
    BY <1>2 DEF Buttons, ButtonsNext
  <2>2. \/ eventQ' = eventQ
        \/ /\ eventQ' = Append(eventQ, j)
           /\ kpc[j] = "blocked" \/ (~was_pressed[j] /\ down[j])
    BY <2>1 DEF ButtonTask, SampleDown, SampleUp, Unblock, Report, Press, Release, is_pressed
  <2>3. eventQ' = Append(eventQ, j) => j = k
    BY <1>0 DEF Reported
  <2> QED BY <1>0, <2>2, <2>3 DEF Reported
<1>3. CASE Mqtt
  <2>1. eventQ' = eventQ \/ (eventQ # <<>> /\ eventQ' = Tail(eventQ))
    BY <1>3, MqttChannels DEF Mqtt
  <2> QED BY <1>0, <2>1 DEF Reported
<1>4. CASE StackUp \/ Network \/ UNCHANGED vars
  <2>1. eventQ' = eventQ
    BY <1>4 DEF StackUp, Network, Arrive, LinkFails, vars, channelVars
  <2> QED BY <1>0, <2>1 DEF Reported
<1> QED BY <1>1, <1>2, <1>3, <1>4 DEF Next

(* With a working I2C bus no press is reported twice: between two reports  *)
(* of a key, the key has gone down again.                                  *)
THEOREM NoPhantomPresses == Spec => NoPhantomPress
<1>1. Init => NewsInv
  BY DEF Init, ButtonsInit, BoardInit, NewsInv
<1> QED
  BY <1>1, NewsInductive, ReportsHaveNews, TypeCorrect, PTL DEF Spec, NoPhantomPress

(***************************************************************************)
(* What Home Assistant is shown                                            *)
(***************************************************************************)

(* A topic on which nothing is owed shows the last event received, or lost *)
(* it; the event being published is the last one received.                 *)
Shows(t) ==
    \/ shown[t] = StateOf(taken)
    \/ t \in lost /\ faults > 0
    \/ shown[t] = "unknown" /\ taken = "PlaybackStopped"

ShownInv ==
    /\ mpc \in {"pubState", "pubAttrs"} => mev = taken
    /\ mpc # "pubState" => Shows("state")
    /\ mpc \notin {"pubState", "pubAttrs"} => Shows("attributes")

(* A link is down while it is in use only after a failure.                 *)
LinkInv ==
    (mpc \in {"connect", "discovery", "subscribe"} \/ Subscribed) => linkUp \/ faults > 0

LEMMA LinkInductive == MqttTypeOK /\ LinkInv /\ [Next]_vars => LinkInv'
<1> SUFFICES ASSUME MqttTypeOK, LinkInv, [Next]_vars
             PROVE  LinkInv'
  OBVIOUS
<1>0. faults \in Nat
  BY MqttAssumption DEF MqttTypeOK
<1>1. CASE OpenSession
  BY <1>0, <1>1 DEF OpenSession, TcpConnected, TcpFails, BrokerConnect, PublishDiscovery, Subscribe,
     Handshake, mqttData, LinkInv, Subscribed
<1>2. ASSUME NEW m \in Inbound, PollPublish(m)
      PROVE  LinkInv'
  <2>1. mpc = "poll" /\ UNCHANGED <<linkUp, faults>>
    BY <1>2 DEF PollPublish
  <2> QED BY <2>1 DEF LinkInv, Subscribed
<1>3. CASE (\E e \in AppEvent : PollEvent(e)) \/ CommandSent \/ Publications
  <2>1. Subscribed /\ UNCHANGED <<linkUp, faults>>
    BY <1>3 DEF PollEvent, CommandSent, Publications, PublishState, PublishAttributes, PublishKey,
       Subscribed
  <2> QED BY <2>1 DEF LinkInv
<1>4. CASE SessionError \/ Disconnect \/ Reconnect
  <2>1. mpc' \in {"closing", "backoff", "tcp"}
    BY <1>4 DEF SessionError, Disconnect, Reconnect
  <2> QED BY <2>1 DEF LinkInv, Subscribed
<1>5. CASE LinkFails
  BY <1>0, <1>5 DEF LinkFails, LinkInv
<1>6. CASE StackUp
  BY <1>6 DEF StackUp, LinkInv, Subscribed
<1>7. CASE Audio \/ Buttons \/ Arrive \/ UNCHANGED vars
  <2>1. UNCHANGED <<mpc, linkUp, faults>>
    BY <1>7 DEF Audio, Buttons, Arrive, vars, mqttVars
  <2> QED BY <2>1 DEF LinkInv, Subscribed
<1> QED
  BY <1>1, <1>2, <1>3, <1>4, <1>5, <1>6, <1>7 DEF Next, Mqtt, MqttStep, PollLoop, Network

LEMMA ShownStep == MqttTypeOK /\ LinkInv /\ ShownInv /\ MqttStep => ShownInv'
<1> SUFFICES ASSUME MqttTypeOK, LinkInv, ShownInv, MqttStep
             PROVE  ShownInv'
  OBVIOUS
<1> USE DEF Shows
<1>1. ASSUME NEW m \in Inbound, PollPublish(m)
      PROVE  ShownInv'
  <2>1. mpc = "poll" /\ mpc' \in {"poll", "dispatch"} /\ UNCHANGED <<mev, shown, lost, taken, faults>>
    BY <1>1 DEF PollPublish
  <2> QED BY <2>1 DEF ShownInv, StateOf
<1>2. ASSUME NEW e \in AppEvent, PollEvent(e)
      PROVE  ShownInv'
  BY <1>2, ChannelsAssumption DEF PollEvent, ShownInv, StateOf
<1>3. CASE Publications
  BY <1>3 DEF Publications, PublishState, PublishAttributes, PublishKey, Publish, mqttData,
     ShownInv, StateOf, MqttTypeOK, Topics, LinkInv, Subscribed
<1>4. CASE CommandSent \/ SessionError \/ Disconnect \/ Reconnect
  BY <1>4 DEF CommandSent, SessionError, Disconnect, Reconnect, mqttData, ShownInv, StateOf
<1>5. CASE OpenSession
  <2>1. /\ mpc \notin {"pubState", "pubAttrs"} /\ mpc' \notin {"pubState", "pubAttrs"}
        /\ UNCHANGED <<mev, shown, lost, taken>>
    BY <1>5 DEF OpenSession, TcpConnected, TcpFails, BrokerConnect, PublishDiscovery, Subscribe,
       Handshake, mqttData
  <2>2. faults \in Nat /\ faults' \in {faults, faults + 1}
    BY <1>5, MqttAssumption DEF OpenSession, TcpConnected, TcpFails, BrokerConnect, PublishDiscovery,
       Subscribe, Handshake, MqttTypeOK
  <2> QED BY <2>1, <2>2 DEF ShownInv, StateOf
<1> QED
  BY <1>1, <1>2, <1>3, <1>4, <1>5 DEF MqttStep, PollLoop

LEMMA ShownInductive == TypeOK /\ LinkInv /\ ShownInv /\ [Next]_vars => ShownInv'
<1> SUFFICES ASSUME TypeOK, LinkInv, ShownInv, [Next]_vars
             PROVE  ShownInv'
  OBVIOUS
<1> USE DEF Shows
<1>1. CASE Mqtt
  BY <1>1, ShownStep DEF Mqtt, TypeOK
<1>2. CASE StackUp
  BY <1>2 DEF StackUp, ShownInv, StateOf
<1>3. CASE Audio \/ Buttons \/ Network \/ UNCHANGED vars
  <2>1. UNCHANGED <<mpc, mev, shown, lost, taken>>
    BY <1>3 DEF Audio, Buttons, Network, Arrive, LinkFails, vars, mqttVars
  <2>2. faults \in Nat /\ faults' \in {faults, faults + 1}
    BY <1>3, MqttAssumption DEF Audio, Buttons, Network, Arrive, LinkFails, vars, mqttVars,
       TypeOK, MqttTypeOK
  <2> QED BY <2>1, <2>2 DEF ShownInv, StateOf
<1> QED BY <1>1, <1>2, <1>3 DEF Next

(* When no playback event waits, the last one received is the last one     *)
(* sent.                                                                   *)
LEMMA NothingQueued ==
  FeedAlternates /\ (\A i \in 1..Len(eventQ) : eventQ[i] \notin PlaybackEvents)
    => /\ StateOf(taken) = IF Reporting THEN "playing" ELSE "stopped"
       /\ taken = "PlaybackStopped" => ~Reporting
  BY DEF FeedAlternates, Feed!FeedAlternates, Feed!Alternates, Feed!Latest, Feed!Playback,
     Feed!Started, Feed!Stopped, PlaybackEvents, StateOf

(* Once every playback event has been received and published, each topic   *)
(* shows what the player does, unless that publication was lost with the   *)
(* link; for every number of commands, presses and network failures.       *)
THEOREM ShownIsAlwaysTrue == Spec => []ShownIsTrue
<1>1. Init => ShownInv /\ LinkInv
  BY DEF Init, MqttInit, ShownInv, Shows, Topics, LinkInv, Subscribed
<1>2. TypeOK => MqttTypeOK
  BY DEF TypeOK
<1>3. FeedAlternates /\ ShownInv => ShownIsTrue
  BY NothingQueued DEF ShownInv, Shows, ShownIsTrue, Published, Topics
<1> QED
  BY <1>1, <1>2, <1>3, LinkInductive, ShownInductive, TypeCorrect, FeedAlternatesAlways, PTL DEF Spec

(***************************************************************************)
(* The two tasks waiting for each other                                    *)
(***************************************************************************)

(* Publications whose command the audio task has not finished with.        *)
Held == IF mpc = "dispatch" THEN 1 ELSE 0
Busy == IF asrc = "cmd" /\ apc \in {"unmuted", "ampUp", "tellStarted", "playing",
                                    "ampDown", "tellStopped"} THEN 1 ELSE 0
InFlight == Len(cmdQ) + Held + inbox + Busy

FloodInv == InFlight <= arrived

LEMMA FloodAudio == TypeOK /\ FloodInv /\ Audio => FloodInv'
<1> SUFFICES ASSUME TypeOK, FloodInv, Audio
             PROVE  FloodInv'
  OBVIOUS
<1>0. /\ cmdQ \in Seq(AudioCommand) /\ Len(cmdQ) \in Nat /\ inbox \in Nat /\ arrived \in Nat
      /\ UNCHANGED <<mpc, inbox, arrived>>
  BY MqttAssumption DEF TypeOK, ChannelsTypeOK, MqttTypeOK, Audio, mqttVars
<1>1. Held' = Held /\ Held \in {0, 1} /\ Busy \in {0, 1} /\ Busy' \in {0, 1}
  BY <1>0 DEF Held, Busy
<1>2. CASE cmdQ' = cmdQ /\ (Busy' <= Busy)
  BY <1>0, <1>1, <1>2 DEF FloodInv, InFlight
<1>3. CASE cmdQ # <<>> /\ cmdQ' = Tail(cmdQ) /\ Busy = 0
  <2>1. Len(cmdQ') = Len(cmdQ) - 1
    BY <1>0, <1>3
  <2> QED BY <1>0, <1>1, <1>3, <2>1 DEF FloodInv, InFlight
<1>4. CASE TakePlay \/ TakeOther \/ TakeAnnouncement
  BY <1>3, <1>4 DEF TakePlay, TakeOther, TakeAnnouncement, TakeCommand, Busy
<1>5. CASE TakeSound
  BY <1>2, <1>5 DEF TakeSound, Unmute, Busy
<1>6. CASE AudioReady \/ AudioInitFails \/ AnnouncementEnds \/ PlayNext
  <2>1. cmdQ' = cmdQ /\ asrc' = asrc
    BY <1>6 DEF AudioReady, AudioInitFails, AnnouncementEnds, PlayNext
  <2>2. apc' = apc \/ apc' \in {"idle", "dead"}
    BY <1>6 DEF AudioReady, AudioInitFails, AnnouncementEnds, PlayNext
  <2>3. Busy' <= Busy
    BY <2>1, <2>2 DEF Busy
  <2> QED BY <1>2, <2>1, <2>3
<1>7. CASE AmpOn \/ TellStarted \/ StartedSent \/ AmpOff \/ TellStopped \/ StoppedSent
  <2>1. cmdQ' = cmdQ /\ asrc' = asrc
    BY <1>7 DEF AmpOn, TellStarted, StartedSent, AmpOff, TellStopped, StoppedSent
  <2>2. /\ apc \in {"unmuted", "ampUp", "tellStarted", "playing", "ampDown", "tellStopped"}
        /\ apc' \in {"unmuted", "ampUp", "tellStarted", "playing", "ampDown", "tellStopped", "idle"}
    BY <1>7 DEF AmpOn, TellStarted, StartedSent, AmpOff, TellStopped, StoppedSent, SendOrBlock
  <2>3. Busy' <= Busy
    BY <2>1, <2>2 DEF Busy
  <2> QED BY <1>2, <2>1, <2>3
<1> QED
  BY <1>4, <1>5, <1>6, <1>7 DEF Audio, AudioNext

LEMMA FloodMqtt == TypeOK /\ FloodInv /\ Mqtt => FloodInv'
<1> SUFFICES ASSUME TypeOK, FloodInv, Mqtt
             PROVE  FloodInv'
  OBVIOUS
<1>0. /\ cmdQ \in Seq(AudioCommand) /\ Len(cmdQ) \in Nat /\ inbox \in Nat /\ arrived \in Nat
      /\ Busy' = Busy /\ Busy \in {0, 1}
  BY MqttAssumption DEF TypeOK, ChannelsTypeOK, MqttTypeOK, Mqtt, audioVars, Busy
<1>1. ASSUME NEW m \in Inbound, PollPublish(m)
      PROVE  FloodInv'
  <2>1. /\ mpc = "poll" /\ inbox' = inbox - 1 /\ arrived' = arrived
        /\ \/ mpc' = "poll" /\ \E c : cmdQ' = Append(cmdQ, c)
           \/ mpc' \in {"poll", "dispatch"} /\ cmdQ' = cmdQ
    BY <1>1 DEF PollPublish
  <2>2. CASE mpc' = "poll" /\ \E c : cmdQ' = Append(cmdQ, c)
    <3>1. Len(cmdQ') = Len(cmdQ) + 1
      BY <1>0, <2>2
    <3> QED BY <1>0, <2>1, <2>2, <3>1 DEF FloodInv, InFlight, Held
  <2>3. CASE mpc' \in {"poll", "dispatch"} /\ cmdQ' = cmdQ
    BY <1>0, <2>1, <2>3 DEF FloodInv, InFlight, Held
  <2> QED BY <2>1, <2>2, <2>3
<1>2. CASE CommandSent
  <2>1. Len(cmdQ') = Len(cmdQ) + 1
    BY <1>0, <1>2 DEF CommandSent
  <2> QED BY <1>0, <1>2, <2>1 DEF CommandSent, FloodInv, InFlight, Held
<1>3. CASE OpenSession \/ SessionError \/ (\E e \in AppEvent : PollEvent(e))
           \/ Publications \/ Disconnect \/ Reconnect
  <2>1. UNCHANGED <<cmdQ, inbox, arrived>> /\ mpc # "dispatch" /\ mpc' # "dispatch"
    BY <1>3 DEF OpenSession, TcpConnected, TcpFails, BrokerConnect, PublishDiscovery,
       Subscribe, Handshake, SessionError, PollEvent, Publications, PublishState,
       PublishAttributes, PublishKey, Disconnect, Reconnect, mqttData
  <2> QED BY <1>0, <2>1 DEF FloodInv, InFlight, Held
<1> QED
  BY <1>1, <1>2, <1>3 DEF Mqtt, MqttStep, PollLoop

LEMMA FloodInductive == TypeOK /\ FloodInv /\ [Next]_vars => FloodInv'
<1> SUFFICES ASSUME TypeOK, FloodInv, [Next]_vars
             PROVE  FloodInv'
  OBVIOUS
<1>0. Len(cmdQ) \in Nat /\ inbox \in Nat /\ arrived \in Nat
  BY MqttAssumption DEF TypeOK, ChannelsTypeOK, MqttTypeOK
<1>1. CASE Audio
  BY <1>1, FloodAudio
<1>2. CASE Mqtt
  BY <1>2, FloodMqtt
<1>3. CASE StackUp
  BY <1>3 DEF StackUp, audioVars, FloodInv, InFlight, Held, Busy
<1>4. CASE Network
  <2>1. /\ UNCHANGED <<cmdQ, mpc, apc, asrc>>
        /\ \/ inbox' = inbox + 1 /\ arrived' = arrived + 1
           \/ UNCHANGED <<inbox, arrived>>
    BY <1>4 DEF Network, Arrive, LinkFails, audioVars
  <2>2. Held' = Held /\ Busy' = Busy /\ Held \in {0, 1} /\ Busy \in {0, 1}
    BY <2>1 DEF Held, Busy
  <2> QED BY <1>0, <2>1, <2>2 DEF FloodInv, InFlight
<1>5. CASE Buttons \/ UNCHANGED vars
  BY <1>5 DEF Buttons, vars, channelVars, audioVars, mqttVars, FloodInv, InFlight, Held, Busy
<1> QED BY <1>1, <1>2, <1>3, <1>4, <1>5 DEF Next

(* The audio and the MQTT task can wait for each other only after more     *)
(* publications than the command channel holds, and after exactly one more *)
(* only while the connect sound is being reported.                         *)
THEOREM WedgesNeedAFlood == Spec => []WedgeNeedsFlood
<1>1. Init => FloodInv
  BY DEF Init, ChannelsInit, AudioInit, MqttInit, FloodInv, InFlight, Held, Busy
<1>2. TypeOK /\ FloodInv => WedgeNeedsFlood
  BY ChannelsAssumption, MqttAssumption
  DEF TypeOK, ChannelsTypeOK, AudioTypeOK, MqttTypeOK, FloodInv, InFlight, Held, Busy,
      WedgeNeedsFlood, MutualWait, CmdRoom
<1> QED
  BY <1>1, <1>2, FloodInductive, TypeCorrect, PTL DEF Spec

(* Neither of the two tasks has a step.                                    *)
LEMMA StuckTasks == Stuck => ~AudioNext /\ ~MqttStep
<1> SUFFICES ASSUME Stuck
             PROVE  ~AudioNext /\ ~MqttStep
  OBVIOUS
<1>1. ~AudioNext
  BY DEF Stuck, MutualWait, AudioNext, AudioReady, AudioInitFails, TakeSound, TakePlay, TakeOther,
     TakeAnnouncement, TakeCommand, AnnouncementEnds, AmpOn, TellStarted, StartedSent, PlayNext,
     AmpOff, TellStopped, StoppedSent
<1>2. mpc = "dispatch" /\ ~CmdRoom
  BY DEF Stuck, MutualWait
<1>3. ~MqttStep
  BY <1>2 DEF MqttStep, OpenSession, TcpConnected, TcpFails, BrokerConnect, PublishDiscovery,
     Subscribe, Handshake, PollLoop, PollPublish, CommandSent, SessionError, PollEvent,
     Publications, PublishState, PublishAttributes, PublishKey, Disconnect, Reconnect
<1> QED
  BY <1>1, <1>3

(* A key event can be added only where there is room.                      *)
LEMMA StuckStep ==
  Stuck /\ [Next]_vars =>
    Stuck' /\ UNCHANGED <<apc, mpc, cmdQ, soundQ, ledSignal, amp, muted, taken, shown, lost>>
<1> SUFFICES ASSUME Stuck, [Next]_vars
             PROVE  /\ Stuck'
                    /\ UNCHANGED <<apc, mpc, cmdQ, soundQ, ledSignal, amp, muted, taken, shown, lost>>
  OBVIOUS
<1>1. CASE Audio \/ Mqtt
  BY <1>1, StuckTasks DEF Audio, Mqtt
<1>2. CASE StackUp
  BY <1>2 DEF StackUp, Stuck, MutualWait
<1>3. CASE Buttons
  <2>1. UNCHANGED <<apc, mpc, cmdQ, soundQ, ledSignal, amp, muted, taken, shown, lost>>
    BY <1>3 DEF Buttons, audioVars, mqttVars
  <2>2. ~EventRoom => eventQ' = eventQ
    BY <1>3 DEF Buttons, ButtonsNext, ButtonTask, SampleDown, SampleUp, Unblock, Report,
       Press, Release
  <2> QED BY <2>1, <2>2 DEF Stuck, MutualWait, CmdRoom, EventRoom
<1>4. CASE Network \/ UNCHANGED vars
  BY <1>4 DEF Network, Arrive, LinkFails, vars, channelVars, boardVars, audioVars, mqttVars,
     Stuck, MutualWait, CmdRoom, EventRoom
<1> QED
  BY <1>1, <1>2, <1>3, <1>4 DEF Next

(* Once the two tasks wait for each other, or the MQTT task waits for an   *)
(* audio task that has returned, they do so for good: whatever keys and    *)
(* network do, only a restart of the device ends it.                       *)
THEOREM StuckIsForGood == Spec => StuckForGood
  BY StuckStep, PTL DEF Spec, StuckForGood

(***************************************************************************)
(* The commands on their way from the broker to the audio task             *)
(***************************************************************************)

(* The command channel with the command that waits for room in it.         *)
Pending == IF mpc = "dispatch" THEN Append(cmdQ, mcmd) ELSE cmdQ

(* A publication polled from the socket adds its command at the end.       *)
Accepts ==
    /\ inbox' = inbox - 1
    /\ \E m \in Inbound : dispatch(m).to = "audio" /\ Pending' = Append(Pending, dispatch(m).command)

(* The idle audio task takes the first.                                    *)
Takes == apc = "idle" /\ Pending # <<>> /\ Pending' = Tail(Pending)

CommandsInOrder == [][Pending' = Pending \/ Accepts \/ Takes]_vars

LEMMA TailOfAppend ==
  ASSUME NEW S, NEW q \in Seq(S), NEW c \in S, q # <<>>
  PROVE  Append(q, c) # <<>> /\ Append(Tail(q), c) = Tail(Append(q, c))
  OBVIOUS

LEMMA CommandsByAudio == TypeOK /\ Audio => Pending' = Pending \/ Takes
<1> SUFFICES ASSUME TypeOK, Audio
             PROVE  Pending' = Pending \/ Takes
  OBVIOUS
<1>0. cmdQ \in Seq(AudioCommand) /\ mcmd \in AudioCommand /\ mpc' = mpc /\ mcmd' = mcmd
  BY DEF TypeOK, ChannelsTypeOK, MqttTypeOK, Audio, mqttVars
<1>1. CASE TakePlay \/ TakeOther \/ TakeAnnouncement
  <2>1. apc = "idle" /\ cmdQ # <<>> /\ cmdQ' = Tail(cmdQ)
    BY <1>1 DEF TakePlay, TakeOther, TakeAnnouncement, TakeCommand
  <2> QED BY <1>0, <2>1, TailOfAppend DEF Pending, Takes
<1>2. CASE cmdQ' = cmdQ
  BY <1>0, <1>2 DEF Pending
<1> QED
  BY <1>1, <1>2 DEF Audio, AudioNext, AudioReady, AudioInitFails, TakeSound, AnnouncementEnds,
     AmpOn, TellStarted, StartedSent, PlayNext, AmpOff, TellStopped, StoppedSent

LEMMA CommandsByMqtt == TypeOK /\ MqttStep => Pending' = Pending \/ Accepts
<1> SUFFICES ASSUME TypeOK, MqttStep
             PROVE  Pending' = Pending \/ Accepts
  OBVIOUS
<1>1. ASSUME NEW m \in Inbound, PollPublish(m)
      PROVE  Pending' = Pending \/ Accepts
  <2>1. mpc = "poll" /\ inbox' = inbox - 1
    BY <1>1 DEF PollPublish
  <2>2. \/ dispatch(m).to = "audio" /\ mpc' = mpc /\ cmdQ' = Append(cmdQ, dispatch(m).command)
        \/ /\ dispatch(m).to = "audio" /\ mpc' = "dispatch"
           /\ mcmd' = dispatch(m).command /\ cmdQ' = cmdQ
        \/ mpc' = mpc /\ cmdQ' = cmdQ
    BY <1>1 DEF PollPublish
  <2>3. CASE mpc' = mpc /\ cmdQ' = cmdQ
    BY <2>1, <2>3 DEF Pending
  <2>4. CASE dispatch(m).to = "audio" /\ Pending' = Append(Pending, dispatch(m).command)
    BY <2>1, <2>4 DEF Accepts
  <2> QED BY <2>1, <2>2, <2>3, <2>4 DEF Pending
<1>2. CASE CommandSent
  BY <1>2 DEF CommandSent, Pending
<1>3. CASE OpenSession \/ SessionError \/ (\E e \in AppEvent : PollEvent(e))
           \/ Publications \/ Disconnect \/ Reconnect
  <2>1. cmdQ' = cmdQ /\ mpc # "dispatch" /\ mpc' # "dispatch"
    BY <1>3 DEF OpenSession, TcpConnected, TcpFails, BrokerConnect, PublishDiscovery,
       Subscribe, Handshake, SessionError, PollEvent, Publications, PublishState,
       PublishAttributes, PublishKey, Disconnect, Reconnect, mqttData
  <2> QED BY <2>1 DEF Pending
<1> QED
  BY <1>1, <1>2, <1>3 DEF MqttStep, PollLoop

LEMMA CommandsStep == TypeOK /\ [Next]_vars => Pending' = Pending \/ Accepts \/ Takes
<1> SUFFICES ASSUME TypeOK, [Next]_vars
             PROVE  Pending' = Pending \/ Accepts \/ Takes
  OBVIOUS
<1>1. CASE Audio \/ Mqtt
  BY <1>1, CommandsByAudio, CommandsByMqtt DEF Mqtt
<1>2. CASE StackUp
  BY <1>2 DEF StackUp, Pending
<1>3. CASE Buttons \/ Network \/ UNCHANGED vars
  BY <1>3 DEF Buttons, Network, Arrive, LinkFails, vars, channelVars, mqttVars, Pending
<1> QED
  BY <1>1, <1>2, <1>3 DEF Next

(* The commands reach the audio task in the order in which their           *)
(* publications were polled, none is lost or taken twice: not by a full    *)
(* channel, not by a session that ends, not while a sound is played.       *)
THEOREM CommandsKeepTheirOrder == Spec => CommandsInOrder
  BY CommandsStep, TypeCorrect, PTL DEF Spec, CommandsInOrder

(* The device's own publications, which its wildcard subscription brings   *)
(* back to it, never become a command.                                     *)
THEOREM OwnEchoesAreInert == \A m \in OwnPublications : dispatch(m) = Nothing
  BY DEF OwnPublications, OwnTopics, dispatch
=============================================================================
