------------------------ MODULE AnnouncementPayload ------------------------
(***************************************************************************)
(* An announcement is published as text: its bytes in hexadecimal digits   *)
(* or in base64, perhaps with whitespace.  The audio task tries the one    *)
(* and then the other.                                                     *)
(*                                                                         *)
(* A character is its ASCII code, a text a sequence of them.               *)
(***************************************************************************)
EXTENDS Integers, Sequences, FiniteSets

CONSTANTS
    Bytes,          \* the byte values announcements are made of
    MaxBytes,       \* bound: bytes in an announcement
    Capacity        \* ANNOUNCEMENT_PAYLOAD_CAPACITY

ASSUME PayloadAssumption ==
    /\ Bytes \subseteq 0..255
    /\ MaxBytes \in Nat /\ Capacity \in Nat

VARIABLES
    message,        \* the publication the audio task is at
    result          \* what decode_announcement_payload returned

payloadVars == <<message, result>>

None == -1
NoBytes == <<None>>

NoMessage == [data |-> <<>>, encoding |-> "hex", text |-> <<>>]

PayloadInit == message = NoMessage /\ result = NoBytes

-----------------------------------------------------------------------------
(* The sender, by the definitions of the two encodings.                    *)
HexDigit(n, ten) == IF n < 10 THEN 48 + n ELSE ten + n - 10

HexText(d, ten) ==
    [i \in 1..(2 * Len(d)) |->
        HexDigit(IF i % 2 = 1 THEN d[(i + 1) \div 2] \div 16 ELSE d[i \div 2] % 16, ten)]

B64Char(v) ==
    CASE v < 26 -> 65 + v
      [] v \in 26..51 -> 97 + v - 26
      [] v \in 52..61 -> 48 + v - 52
      [] v = 62 -> 43
      [] v = 63 -> 47

Padding == 61

(* Three bytes are a number of 24 bits, and it four digits to the base 64. *)
Octet(d, i) == IF i <= Len(d) THEN d[i] ELSE 0

Group(d, k) ==
    65536 * Octet(d, 3 * k + 1) + 256 * Octet(d, 3 * k + 2) + Octet(d, 3 * k + 3)

PlaceValue == <<64 * 64 * 64, 64 * 64, 64, 1>>

B64Text(d) ==
    [j \in 1..((8 * Len(d) + 5) \div 6) |->
        B64Char((Group(d, (j - 1) \div 4) \div PlaceValue[1 + ((j - 1) % 4)]) % 64)]

Padded(t) == t \o [i \in 1..((4 - (Len(t) % 4)) % 4) |-> Padding]

Space == 32
Whitespace == {9, 10, 12, 13, Space}

(* The text, and the text with a blank somewhere.                          *)
WithBlank(t) ==
    {t} \cup {SubSeq(t, 1, k) \o <<Space>> \o SubSeq(t, k + 1, Len(t)) : k \in 0..Len(t)}

Announced ==
    /\ message = NoMessage /\ result = NoBytes
    /\ \E d \in UNION {[1..n -> Bytes] : n \in 1..MaxBytes} :
        \/ \E t \in WithBlank(HexText(d, 65)) \cup WithBlank(HexText(d, 97)) :
                message' = [data |-> d, encoding |-> "hex", text |-> t]
        \/ \E t \in WithBlank(B64Text(d)) \cup WithBlank(Padded(B64Text(d))) :
                message' = [data |-> d, encoding |-> "base64", text |-> t]
    /\ Len(message'.text) <= Capacity
    /\ UNCHANGED result

-----------------------------------------------------------------------------
(* The audio task.                                                         *)
nibble_value(c) ==
    CASE c \in 48..57  -> c - 48
      [] c \in 97..102 -> 10 + c - 97
      [] c \in 65..70  -> 10 + c - 65
      [] OTHER         -> None

b64_value(c) ==
    CASE c \in 65..90  -> c - 65
      [] c \in 97..122 -> 26 + c - 97
      [] c \in 48..57  -> 52 + c - 48
      [] c = 43        -> 62
      [] c = 47        -> 63
      [] OTHER         -> None

decode_hex(s) ==
    IF /\ Len(s) % 2 = 0 /\ Len(s) \div 2 <= Capacity
       /\ \A i \in DOMAIN s : nibble_value(s[i]) # None
    THEN [i \in 1..(Len(s) \div 2) |-> 16 * nibble_value(s[2 * i - 1]) + nibble_value(s[2 * i])]
    ELSE NoBytes

(* Mutant of TailBytes: two characters and three give one byte.            *)
TailBytes_one(rem) == IF rem < 2 THEN 0 ELSE 1

(* Bytes in the characters after the last group of four; a single one is   *)
(* ignored.                                                                *)
TailBytes(rem) == IF rem < 2 THEN 0 ELSE rem - 1

(* The characters before the first "=".                                    *)
B64Chars(s) ==
    SubSeq(s, 1, CHOOSE n \in 0..Len(s) :
                    /\ \A i \in 1..n : s[i] # Padding
                    /\ n < Len(s) => s[n + 1] = Padding)

decode_base64(s) ==
    LET chars == B64Chars(s)
        rem   == Len(chars) % 4
        count == 3 * (Len(chars) \div 4) + TailBytes(rem)
        v(k)  == b64_value(chars[k])
    IN  IF /\ count <= Capacity
           /\ \A i \in 1..(IF rem = 1 THEN Len(chars) - 1 ELSE Len(chars)) : v(i) # None
        THEN [i \in 1..count |->
                LET k == 4 * ((i - 1) \div 3)
                IN  CASE i % 3 = 1 -> ((4 * v(k + 1)) % 256) + (v(k + 2) \div 16)
                      [] i % 3 = 2 -> 16 * (v(k + 2) % 16) + (v(k + 3) \div 4)
                      [] i % 3 = 0 -> 64 * (v(k + 3) % 4) + v(k + 4)]
        ELSE NoBytes

(* What both decoders see: a character that is not whitespace follows all  *)
(* those before it.                                                        *)
Kept(t) == {i \in DOMAIN t : t[i] \notin Whitespace}

Before(t, i) == Cardinality({h \in Kept(t) : h < i})

filtered(t) ==
    [j \in 1..Cardinality(Kept(t)) |-> t[CHOOSE i \in Kept(t) : Before(t, i) = j - 1]]

decode_announcement_payload(t) ==
    LET s == filtered(t)
    IN  IF s = <<>> THEN NoBytes
        ELSE IF decode_hex(s) # NoBytes THEN decode_hex(s)
        ELSE decode_base64(s)

(* AudioCommand::PlayAnnouncement.                                         *)
Decode ==
    /\ message # NoMessage
    /\ result' = decode_announcement_payload(message.text)
    /\ message' = NoMessage

(* The bytes are played, which is the part of Announcements.               *)
Play ==
    /\ result # NoBytes
    /\ result' = NoBytes
    /\ UNCHANGED message

PayloadNext == Announced \/ Decode \/ Play

PayloadSpec == PayloadInit /\ [][PayloadNext]_payloadVars
-----------------------------------------------------------------------------
(* Base64 that could be hexadecimal digits: it is read as those.           *)
LooksLikeHex(t) ==
    LET s == filtered(t)
    IN  Len(s) % 2 = 0 /\ \A i \in DOMAIN s : s[i] \in (48..57) \cup (65..70) \cup (97..102)

(* What is played is what was announced, whatever the encoding, the length *)
(* of its last group and the blanks; base64 that looks like hexadecimal    *)
(* digits is the exception.                                                *)
AnnouncedIsDecoded ==
    [][message # NoMessage /\ (message.encoding = "base64" => ~LooksLikeHex(message.text))
         => result' = message.data]_payloadVars
=============================================================================
