----------------------------- MODULE LedProofs -----------------------------
(***************************************************************************)
(* The frames of the LED task: they keep to the brightness, and a frame    *)
(* that was cut off is drawn over unless the transfer that should do it    *)
(* fails, for a strip of any length, any colours and any failures.         *)
(***************************************************************************)
EXTENDS Led, TLAPS

(* Scaling by a level gives at most that level, and at most the colour.    *)
LEMMA ScaleBounds ==
  ASSUME NEW c \in Level, NEW b \in Level
  PROVE  Scale(c, b) \in 0..b
<1>1. c * b \in Nat /\ c * b <= 255 * b
  BY DEF Level
<1>2. \A n \in Nat : n <= 255 * b => n \div 255 \in 0..b
  BY DEF Level
<1> QED
  BY <1>1, <1>2 DEF Scale

LEMMA CommandArg == \A c \in LedCommands : c.arg \in Level /\ c.op # "None"
<1> SUFFICES ASSUME NEW c \in LedCommands
             PROVE  c.arg \in Level /\ c.op # "None"
  OBVIOUS
<1>1. CASE c \in [op : {"Brightness"}, arg : Levels]
  BY <1>1, LedAssumption DEF Level
<1>2. CASE c \in [op : {"SetAll", "Pulse", "Chase"}, arg : Colours]
  BY <1>2, LedAssumption DEF Level
<1>3. CASE c \in [op : {"Clear", "Rainbow"}, arg : {0}]
  BY <1>3 DEF Level
<1> QED
  BY <1>1, <1>2, <1>3 DEF LedCommands

(***************************************************************************)
(* The inductive invariant.  The brightness cannot change while a frame is *)
(* drawn, because whatever changes it ends the drawing.                    *)
(***************************************************************************)
LedInv ==
    /\ LedTypeOK
    /\ lpc # "wait" => command \in LedCommands
    /\ lpc # "wait" => inForce = brightness /\ step < Steps(command)
    /\ lpc = "pause" => strip = frame \/ frameLost
    /\ NotTooBright
    /\ StripSettled

(* Every frame of every command keeps to the brightness.                   *)
LEMMA FrameBounds ==
  ASSUME brightness \in Level, NEW c \in LedCommands, NEW s \in Nat, s < Steps(c)
  PROVE  Frame(c, s) \in [Leds -> 0..brightness]
<1>1. c.arg \in Level
  BY CommandArg
<1>2. Solid(c.arg) \in [Leds -> 0..brightness]
  BY <1>1, ScaleBounds DEF Solid
<1>3. Rainbow \in [Leds -> 0..brightness]
  BY DEF Rainbow, Level
<1>4. Chase(c.arg, s) \in [Leds -> 0..brightness]
  <2>1. Scale(c.arg, brightness) \in 0..brightness
    BY <1>1, ScaleBounds
  <2>2. brightness \div 3 \in Level /\ brightness \div 3 <= brightness
    BY DEF Level
  <2>3. Scale(c.arg, brightness \div 3) \in 0..(brightness \div 3)
    BY <1>1, <2>2, ScaleBounds
  <2>4. Scale(c.arg, brightness \div 3) \in 0..brightness /\ 0 \in 0..brightness
    BY <2>2, <2>3 DEF Level
  <2> QED BY <2>1, <2>4 DEF Chase
<1>5. CASE c.op = "Pulse"
  <2>1. Half(s) \in 0..2
    BY <1>5 DEF Steps, PulseSteps, Half
  <2>2. \A h \in 0..2 : (brightness * h) \div 2 \in Level
    <3>1. (brightness * 0) \div 2 \in Level /\ (brightness * 1) \div 2 \in Level
          /\ (brightness * 2) \div 2 \in Level
      BY DEF Level
    <3> QED BY <3>1
  <2>3. (brightness * Half(s)) \div 2 \in Level
    BY <2>1, <2>2
  <2>4. Scale(c.arg, (brightness * Half(s)) \div 2) \in Level
    <3>1. \A b \in Level : Scale(c.arg, b) \in 0..b
      BY <1>1, ScaleBounds
    <3>2. \A b \in Level : \A x \in 0..b : x \in Level
      BY DEF Level
    <3> QED BY <2>3, <3>1, <3>2
  <2>5. Scale(Scale(c.arg, (brightness * Half(s)) \div 2), brightness) \in 0..brightness
    BY <2>4, ScaleBounds
  <2>6. Pulse(c.arg, s) \in [Leds -> 0..brightness]
    BY <2>5 DEF Pulse
  <2> QED BY <1>5, <2>6 DEF Frame
<1> QED
  BY <1>2, <1>3, <1>4, <1>5 DEF Frame

LEMMA LedInitInv == LedInit => LedInv
<1> SUFFICES ASSUME LedInit
             PROVE  LedInv
  OBVIOUS
<1>1. signal \in LedCommands
  BY LedAssumption DEF LedInit, LedCommands
<1>2. LedTypeOK
  <2>1. frameLost \in BOOLEAN
    BY Zenon DEF LedInit
  <2> QED BY <1>1, <2>1, LedAssumption DEF LedInit, LedTypeOK, Level
<1> QED
  BY <1>2 DEF LedInit, LedInv, NotTooBright, StripSettled

(* A frame that is started is a frame of its command.                      *)
LEMMA StartedFrame ==
  ASSUME brightness \in Level, brightness' = brightness,
         NEW c \in LedCommands, command' = c,
         NEW s \in Nat, s < Steps(c), StartFrame(c, s)
  PROVE  /\ lpc' = "draw" /\ step' = s /\ inForce' = brightness
         /\ frameLost' = FALSE
         /\ frame' \in [Leds -> Level]
         /\ \A i \in Leds : frame'[i] <= inForce'
<1>1. frame' \in [Leds -> 0..brightness]
  BY FrameBounds DEF StartFrame
<1>2. lpc' = "draw" /\ step' = s /\ inForce' = brightness /\ frameLost' = FALSE
  BY DEF StartFrame
<1>3. \A n \in 0..brightness : n \in Level /\ n <= brightness
  BY DEF Level
<1> QED
  BY <1>1, <1>2, <1>3

LEMMA ExecuteStep ==
  ASSUME LedInv, NEW c \in LedCommands, execute(c),
         strip' \in [Leds -> Level], frameFaults' = frameFaults
  PROVE  LedInv'
<1>1. command' = c /\ signal' = NoCommand
  BY DEF execute
<1>2. brightness \in Level /\ step \in Nat /\ frame \in [Leds -> Level] /\ inForce \in Level
  BY DEF LedInv, LedTypeOK
<1>3. CASE c.op = "Brightness"
  <2>1. brightness' = c.arg /\ lpc' = "wait" /\ UNCHANGED <<step, frame, inForce, frameLost>>
    BY <1>3 DEF execute
  <2>2. c.arg \in Level
    BY CommandArg
  <2>3. LedTypeOK'
    <3>1. frameLost' \in BOOLEAN
      BY <2>1, Zenon DEF LedInv, LedTypeOK
    <3>2. frameFaults' \in 0..MaxFrameFaults
      BY DEF LedInv, LedTypeOK
    <3> QED BY <1>1, <1>2, <2>1, <2>2, <3>1, <3>2 DEF LedTypeOK
  <2> QED BY <1>1, <1>3, <2>1, <2>3 DEF LedInv, NotTooBright, StripSettled
<1>4. CASE c.op # "Brightness"
  <2>1. brightness' = brightness /\ StartFrame(c, 0)
    BY <1>4 DEF execute
  <2>2. 0 < Steps(c)
    BY LedAssumption DEF Steps, PulseSteps
  <2>3. /\ lpc' = "draw" /\ step' = 0 /\ inForce' = brightness
        /\ frameLost' = FALSE
        /\ frame' \in [Leds -> Level]
        /\ \A i \in Leds : frame'[i] <= inForce'
    BY <1>1, <1>2, <2>1, <2>2, StartedFrame
  <2>4. LedTypeOK'
    <3>1. frameLost' \in BOOLEAN
      BY <2>3, Zenon
    <3>2. frameFaults' \in 0..MaxFrameFaults
      BY DEF LedInv, LedTypeOK
    <3> QED BY <1>1, <1>2, <2>1, <2>3, <3>1, <3>2 DEF LedTypeOK
  <2>5. step' < Steps(command')
    BY <1>1, <2>2, <2>3
  <2> QED BY <1>1, <2>1, <2>3, <2>4, <2>5 DEF LedInv, NotTooBright, StripSettled, Steps
<1> QED
  BY <1>3, <1>4

(* A transfer cut short leaves a level on every LED.                       *)
LEMMA PartKeepsLevels ==
  ASSUME LedTypeOK, PartOfFrame
  PROVE  strip' \in [Leds -> Level]
<1>1. PICK k \in 0..LED_COUNT :
        strip' = [i \in Leds |-> IF i <= k THEN frame[i] ELSE strip[i]]
  BY DEF PartOfFrame
<1>2. \A i \in Leds : frame[i] \in Level /\ strip[i] \in Level
  BY DEF LedTypeOK
<1> HIDE DEF LedTypeOK
<1> QED
  BY <1>1, <1>2

LEMMA LedStep == LedInv /\ [LedNext]_ledVars => LedInv'
<1> SUFFICES ASSUME LedInv, [LedNext]_ledVars
             PROVE  LedInv'
  OBVIOUS
<1>0. signal # NoCommand => signal \in LedCommands
  BY DEF LedInv, LedTypeOK
<1>1. CASE \E c \in LedCommands : Signal(c)
  BY <1>1 DEF Signal, ledFaults, LedInv, LedTypeOK, NotTooBright, StripSettled, Steps
<1>2. CASE Receive
  BY <1>0, <1>2, ExecuteStep DEF Receive, LedInv, LedTypeOK
<1>3. CASE Cancel
  <2>1. strip' \in [Leds -> Level]
    BY <1>3, PartKeepsLevels DEF Cancel, LedInv, LedTypeOK
  <2> QED BY <1>0, <1>3, <2>1, ExecuteStep DEF Cancel
<1>4. CASE FrameOut
  BY <1>4 DEF FrameOut, Flushed, ledFaults, LedInv, LedTypeOK, NotTooBright, StripSettled, Steps
<1>5. CASE FrameFails
  <2>1. /\ Flushed /\ frameLost' = TRUE /\ PartOfFrame
        /\ frameFaults' \in 0..MaxFrameFaults
    BY <1>5, LedAssumption DEF FrameFails, LedInv, LedTypeOK
  <2>2. strip' \in [Leds -> Level]
    BY <2>1, PartKeepsLevels DEF LedInv
  <2>3. LedTypeOK'
    BY <2>1, <2>2 DEF Flushed, LedInv, LedTypeOK
  <2> QED BY <2>1, <2>3 DEF Flushed, LedInv, NotTooBright, StripSettled, Steps
<1>6. CASE NextFrame
  <2> DEFINE s == IF step + 1 < Steps(command) THEN step + 1 ELSE 0
  <2>1. /\ lpc = "pause" /\ StartFrame(command, s)
        /\ UNCHANGED <<signal, command, brightness, strip, frameFaults>>
    BY <1>6 DEF NextFrame
  <2>2. /\ command \in LedCommands /\ brightness \in Level /\ step \in Nat
    BY <2>1 DEF LedInv, LedTypeOK
  <2>3. s \in Nat /\ s < Steps(command)
    BY <2>2, LedAssumption DEF Steps, PulseSteps
  <2> HIDE DEF s
  <2>4. /\ lpc' = "draw" /\ step' = s /\ inForce' = brightness
        /\ frameLost' = FALSE
        /\ frame' \in [Leds -> Level]
        /\ \A i \in Leds : frame'[i] <= inForce'
    BY <2>1, <2>2, <2>3, StartedFrame
  <2>5. LedTypeOK'
    BY <2>1, <2>2, <2>3, <2>4 DEF LedInv, LedTypeOK
  <2> QED BY <2>1, <2>2, <2>3, <2>4, <2>5 DEF LedInv, NotTooBright, StripSettled, Steps
<1>7. CASE UNCHANGED ledVars
  BY <1>7 DEF ledVars, ledFaults, LedInv, LedTypeOK, NotTooBright, StripSettled, Steps
<1> QED
  BY <1>1, <1>2, <1>3, <1>4, <1>5, <1>6, <1>7 DEF LedNext, LedTask

LEMMA AlwaysLed == LedSpec => []LedInv
<1> QED
  BY LedInitInv, LedStep, PTL DEF LedSpec

(* Every variable keeps its type: no level overflows its byte.             *)
THEOREM LedTypeCorrect == LedSpec => []LedTypeOK
<1>1. LedInv => LedTypeOK
  BY DEF LedInv
<1> QED
  BY AlwaysLed, <1>1, PTL

(* However an animation scales its colour, a frame keeps to the brightness *)
(* it is drawn with.                                                       *)
THEOREM FramesKeepToBrightness == LedSpec => []NotTooBright
<1>1. LedInv => NotTooBright
  BY DEF LedInv
<1> QED
  BY AlwaysLed, <1>1, PTL

(* While the task waits for a command the strip shows the frame of the     *)
(* command before, whole, but for two cases: the command was a brightness, *)
(* or the transfer of that frame itself failed.                            *)
THEOREM NoTornFrameStays == LedSpec => []StripSettled
<1>1. LedInv => StripSettled
  BY DEF LedInv
<1> QED
  BY AlwaysLed, <1>1, PTL
=============================================================================
