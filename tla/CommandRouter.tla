--------------------------- MODULE CommandRouter ---------------------------
(***************************************************************************)
(* CommandRouter::dispatch as a function from an inbound publication to    *)
(* what it makes the MQTT task do.                                         *)
(*                                                                         *)
(* A message is a record.  "domain" and "operation" are the two parts of   *)
(* the path behind the device's prefix (operation NoSlash when the path    *)
(* has only one part).  "payload" is the set of tests of the code that the *)
(* payload passes:                                                         *)
(*   "parses"   the parse the operation asks for succeeds (a number, a     *)
(*              colour, an animation, a text that fits)                    *)
(*   "play", "pause", "stop"   it is PLAY, PAUSE, STOP or contains the     *)
(*              corresponding "command" member                             *)
(*   "volume"   it starts with the volume_level member                     *)
(*   "announce" it starts with the announce member                         *)
(***************************************************************************)
NoSlash == "-"

Domains    == {"audio", "led", "media_player", "button", "other"}
Operations == {"play", "pause", "stop", "volume", "stream", "announce",
               "clear", "brightness", "color", "animate",
               "set", "state", "attributes", "1", NoSlash}
PayloadTests == {"parses", "play", "pause", "stop", "volume", "announce"}

Message == [domain: Domains, operation: Operations, payload: SUBSET PayloadTests]

(* What a message becomes: the task a command is for and the command.      *)
Nothing     == [to |-> "nobody", command |-> "none"]
ToAudio(c)  == [to |-> "audio", command |-> c]
ToLed(c)    == [to |-> "led", command |-> c]

parse_audio_command(m) ==
    CASE m.operation = "play"  -> ToAudio("Play")
      [] m.operation = "pause" -> ToAudio("Pause")
      [] m.operation = "stop"  -> ToAudio("Stop")
      [] m.operation = "volume" /\ "parses" \in m.payload   -> ToAudio("SetVolume")
      [] m.operation = "stream" /\ "parses" \in m.payload   -> ToAudio("PlayUrl")
      [] m.operation = "announce" /\ "parses" \in m.payload -> ToAudio("PlayAnnouncement")
      [] OTHER -> Nothing

parse_led_command(m) ==
    CASE m.operation = "clear" -> ToLed("Clear")
      [] m.operation = "brightness" /\ "parses" \in m.payload -> ToLed("Brightness")
      [] m.operation = "color" /\ "parses" \in m.payload      -> ToLed("SetAll")
      [] m.operation = "animate" /\ "parses" \in m.payload    -> ToLed("Loop")
      [] OTHER -> Nothing

(* The first test the payload passes decides.  An announcement that does   *)
(* not fit is sent all the same, with an empty text.                       *)
handle_media_player_command(m) ==
    IF m.operation # "set" THEN Nothing
    ELSE CASE "play" \in m.payload -> ToAudio("Play")
           [] m.payload \cap {"play", "pause"} = {"pause"} -> ToAudio("Pause")
           [] m.payload \cap {"play", "pause", "stop"} = {"stop"} -> ToAudio("Stop")
           [] m.payload \cap {"play", "pause", "stop", "volume"} = {"volume"} ->
                IF "parses" \in m.payload THEN ToAudio("SetVolume") ELSE Nothing
           [] m.payload \cap {"play", "pause", "stop", "volume", "announce"} = {"announce"} ->
                ToAudio("PlayAnnouncement")
           [] OTHER -> Nothing

(* "state" and "attributes" are refused first, whatever the domain: they    *)
(* are topics the device publishes to.                                     *)
dispatch(m) ==
    IF m.operation \in {NoSlash, "state", "attributes"} THEN Nothing
    ELSE CASE m.domain = "audio"        -> parse_audio_command(m)
           [] m.domain = "led"          -> parse_led_command(m)
           [] m.domain = "media_player" -> handle_media_player_command(m)
           [] OTHER                     -> Nothing

(* The topics under its own wildcard subscription that the device itself   *)
(* publishes to: the broker sends those publications back to it.           *)
OwnTopics ==
    {[domain |-> "media_player", operation |-> "state"],
     [domain |-> "media_player", operation |-> "attributes"],
     [domain |-> "button", operation |-> "1"],
     [domain |-> "other", operation |-> NoSlash]}

OwnPublications ==
    {[domain |-> t.domain, operation |-> t.operation, payload |-> p] :
        t \in OwnTopics, p \in SUBSET PayloadTests}
=============================================================================
