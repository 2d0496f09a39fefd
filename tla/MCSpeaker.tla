----------------------------- MODULE MCSpeaker -----------------------------
(***************************************************************************)
(* Small instances of Speaker for TLC.                                     *)
(***************************************************************************)
EXTENDS Speaker

Msg(d, o, p) == [domain |-> d, operation |-> o, payload |-> p]

(* One message for each way a publication can go: each kind of audio       *)
(* command, an LED command, and one that becomes nothing.                  *)
MCPlay     == Msg("media_player", "set", {"play"})
MCVolume   == Msg("audio", "volume", {"parses"})
MCAnnounce == Msg("media_player", "set", {"announce"})
MCLed      == Msg("led", "color", {"parses"})
MCNoise    == Msg("audio", "volume", {})

MCAllMessages   == {MCPlay, MCVolume, MCAnnounce, MCLed, MCNoise}
MCAudioMessages == {MCPlay, MCVolume, MCAnnounce}
MCPlayOnly      == {MCPlay}
=============================================================================
