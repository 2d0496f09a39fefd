-------------------------------- MODULE Led --------------------------------
(***************************************************************************)
(* The LED task.  LED_SIGNAL holds one command, the last one signalled; a  *)
(* static colour is drawn to its end before the next command is taken, an  *)
(* animation is dropped wherever it waits, in the middle of a frame too.   *)
(*                                                                         *)
(* Of a colour only its brightest channel is modelled: a command carries   *)
(* it as arg, and an LED is its level.                                     *)
(***************************************************************************)
EXTENDS Integers

CONSTANTS
    LED_COUNT,      \* LEDs on the strip
    Levels,         \* values of the brightness commands that are sent
    Colours,        \* brightest channels of the colours that are sent
    MaxFrameFaults  \* bound: transfers of a frame that fail

ASSUME LedAssumption ==
    /\ LED_COUNT \in Nat \ {0}
    /\ Levels \subseteq 0..255
    /\ Colours \subseteq 0..255 /\ 255 \in Colours    \* the named colours'
    /\ MaxFrameFaults \in Nat

Leds == 1..LED_COUNT

Animations == {"Pulse", "Chase", "Rainbow"}

(* The commands some task sends; Solid, Set and Once have no sender.       *)
LedCommands ==
    [op : {"Brightness"}, arg : Levels]
        \cup [op : {"SetAll", "Pulse", "Chase"}, arg : Colours]
        \cup [op : {"Clear", "Rainbow"}, arg : {0}]

NoCommand == [op |-> "None", arg |-> 0]

VARIABLES
    signal,         \* LED_SIGNAL
    command,        \* the command execute is at
    lpc,            \* "wait" for a command, "draw" a frame, "pause" after it
    step,           \* step of the animation
    brightness,     \* LedController.brightness
    frame,          \* LedController.colors
    strip,          \* what the LEDs show
    inForce,        \* history: the brightness of the last frame started
    frameLost,      \* history: its transfer failed
    frameFaults     \* transfers of a frame that failed so far

ledFaults == <<frameLost, frameFaults>>
ledVars == <<signal, command, lpc, step, brightness, frame, strip, inForce, ledFaults>>

Level == 0..255

LedTypeOK ==
    /\ signal \in LedCommands \cup {NoCommand}
    /\ command \in LedCommands \cup {NoCommand}
    /\ lpc \in {"wait", "draw", "pause"}
    /\ step \in Nat
    /\ brightness \in Level
    /\ frame \in [Leds -> Level]
    /\ strip \in [Leds -> Level]
    /\ inForce \in Level
    /\ frameLost \in BOOLEAN
    /\ frameFaults \in 0..MaxFrameFaults

(* LedController::new; main's brightness command has been overwritten by   *)
(* the Chase before the LED task first runs.                               *)
LedInit ==
    /\ signal = [op |-> "Chase", arg |-> 255]
    /\ command = NoCommand
    /\ lpc = "wait"
    /\ step = 0
    /\ brightness = 128
    /\ frame = [i \in Leds |-> 0]
    /\ strip = [i \in Leds |-> 0]
    /\ inForce = 128
    /\ frameLost = FALSE
    /\ frameFaults = 0

-----------------------------------------------------------------------------
(* Mutant of Scale: the product is divided by 128, the first brightness.   *)
Scale_half(c, b) == (c * b) \div 128

(* Color::scale.                                                           *)
Scale(c, b) == (c * b) \div 255

(* Pulse: half a sine up and down, here in steps of a half, scaled and     *)
(* then scaled again by set_all.                                           *)
PulseSteps == 5
Half(s) == IF s <= 2 THEN s ELSE 4 - s

(* Mutant of Pulse: the brightness is rounded to quarters.                 *)
Pulse_quarters(c, s) ==
    [i \in Leds |-> Scale(Scale(c, (64 * (brightness \div 64) * Half(s)) \div 2), brightness)]

Pulse(c, s) ==
    [i \in Leds |-> Scale(Scale(c, (brightness * Half(s)) \div 2), brightness)]

(* Mutant of Chase: the LEDs are counted from 0.                           *)
Chase_zero(c, s) ==
    [i \in 0..(LED_COUNT - 1) |->
        IF i = s THEN Scale(c, brightness)
        ELSE IF i = s - 1 THEN Scale(c, brightness \div 3) ELSE 0]

(* Chase: one LED lit, the one before it at a third.                       *)
Chase(c, s) ==
    [i \in Leds |->
        IF i = s + 1 THEN Scale(c, brightness)
        ELSE IF i = s THEN Scale(c, brightness \div 3) ELSE 0]

(* Rainbow: from_hsv with full saturation, whose brightest channel is the  *)
(* value it is given.                                                      *)
Rainbow == [i \in Leds |-> brightness]

Solid(c) == [i \in Leds |-> Scale(c, brightness)]

Frame(c, s) ==
    CASE c.op = "Pulse"   -> Pulse(c.arg, s)
      [] c.op = "Chase"   -> Chase(c.arg, s)
      [] c.op = "Rainbow" -> Rainbow
      [] OTHER            -> Solid(c.arg)

Steps(c) ==
    CASE c.op = "Pulse" -> PulseSteps
      [] c.op = "Chase" -> LED_COUNT
      [] OTHER          -> 1

-----------------------------------------------------------------------------
(* led_send, from any task.                                                *)
Signal(c) ==
    /\ signal' = c
    /\ UNCHANGED <<command, lpc, step, brightness, frame, strip, inForce, ledFaults>>

(* flush starts to write the colours out.                                  *)
StartFrame(c, s) ==
    /\ lpc' = "draw"
    /\ step' = s
    /\ frame' = Frame(c, s)
    /\ inForce' = brightness
    /\ frameLost' = FALSE

(* execute, up to its first wait.                                          *)
execute(c) ==
    /\ command' = c
    /\ signal' = NoCommand
    /\ \/ /\ c.op = "Brightness"
          /\ brightness' = c.arg
          /\ lpc' = "wait"
          /\ UNCHANGED <<step, frame, inForce, frameLost>>
       \/ /\ c.op # "Brightness"
          /\ StartFrame(c, 0)
          /\ UNCHANGED brightness

(* LED_SIGNAL.wait returns.                                                *)
Receive ==
    /\ lpc = "wait" /\ signal # NoCommand
    /\ execute(signal)
    /\ UNCHANGED <<strip, frameFaults>>

(* A transfer cut short: some LEDs have got their colour, the others keep  *)
(* the one before.                                                         *)
PartOfFrame ==
    \E k \in 0..LED_COUNT : strip' = [i \in Leds |-> IF i <= k THEN frame[i] ELSE strip[i]]

(* Mutant of Cancel: the command that ended the animation is dropped.      *)
Cancel_drops ==
    /\ command.op \in Animations /\ lpc # "wait" /\ signal # NoCommand
    /\ signal' = NoCommand
    /\ lpc' = "wait"
    /\ UNCHANGED <<command, step, brightness, frame, inForce, strip, ledFaults>>

(* select drops the animation, and with it the transfer under way.         *)
Cancel ==
    /\ command.op \in Animations /\ lpc # "wait" /\ signal # NoCommand
    /\ execute(signal)
    /\ IF lpc = "draw" THEN PartOfFrame ELSE UNCHANGED strip
    /\ UNCHANGED frameFaults

(* flush returns: an animation waits for its delay, execute for the next   *)
(* command.                                                                *)
Flushed ==
    /\ lpc = "draw"
    /\ lpc' = IF command.op \in Animations THEN "pause" ELSE "wait"
    /\ UNCHANGED <<signal, command, step, brightness, frame, inForce>>

FrameOut ==
    /\ Flushed
    /\ strip' = frame
    /\ UNCHANGED ledFaults

(* The driver's write fails, which flush ignores.                          *)
FrameFails ==
    /\ Flushed
    /\ frameFaults < MaxFrameFaults
    /\ frameFaults' = frameFaults + 1
    /\ frameLost' = TRUE
    /\ PartOfFrame

(* run_forever: the next frame of the animation, or the first one again.   *)
NextFrame ==
    /\ lpc = "pause"
    /\ StartFrame(command, IF step + 1 < Steps(command) THEN step + 1 ELSE 0)
    /\ UNCHANGED <<signal, command, brightness, strip, frameFaults>>

LedTask == Receive \/ Cancel \/ FrameOut \/ FrameFails \/ NextFrame

LedNext == (\E c \in LedCommands : Signal(c)) \/ LedTask

LedSpec == LedInit /\ [][LedNext]_ledVars

(* Transfers end, delays pass, and a signal wakes the task that waits for it. *)
LedFairness ==
    /\ WF_ledVars(Receive \/ Cancel)
    /\ WF_ledVars(FrameOut \/ FrameFails \/ NextFrame)

LedFairSpec == LedSpec /\ LedFairness
-----------------------------------------------------------------------------
(* A static colour that was signalled is shown on every LED, whatever      *)
(* animation was cut off to show it, unless another command comes first or *)
(* the transfer of its one frame fails: the task then goes on to wait for  *)
(* a command as if the colour were shown.                                  *)
ColourShown ==
    \A c \in {x \in LedCommands : x.op \in {"SetAll", "Clear"}} :
        (signal = c)
            ~> ( \/ strip = [i \in Leds |-> Scale(c.arg, brightness)]
                 \/ signal \notin {NoCommand, c}
                 \/ command = c /\ signal = NoCommand /\ frameLost )

(* No frame is brighter than the brightness it is drawn with, however the  *)
(* animation scales it.                                                    *)
NotTooBright == \A i \in Leds : lpc # "wait" => frame[i] <= inForce

(* While the task waits for a command, the strip shows what the controller *)
(* holds: no frame cut off in the middle stays.  It does where a           *)
(* brightness command cut it off, for that draws nothing, and where the    *)
(* transfer of the very frame failed: nothing repeats it.                  *)
StripSettled ==
    lpc = "wait" /\ command.op # "Brightness" => strip = frame \/ frameLost

(* Brightnesses at which something is left of a colour that is scaled      *)
(* twice, each time rounded down.                                          *)
Visible(c) == {b \in Level : b * ((c * b) \div 255) >= 255}

(* A pulse is seen, whatever transfers fail, unless its colour and the     *)
(* brightness together are too low.                                        *)
PulseSeen ==
    (command.op = "Pulse" /\ lpc # "wait" /\ brightness \in Visible(command.arg))
        ~> (signal # NoCommand \/ \E i \in Leds : strip[i] > 0)

(* A brightness signalled during an animation takes effect on the next     *)
(* frame, unless another command comes first.                              *)
BrightnessTakesEffect ==
    \A b \in Levels :
        (command.op \in Animations /\ lpc # "wait" /\ signal = [op |-> "Brightness", arg |-> b])
            ~> ( \/ inForce = b
                 \/ signal \notin {NoCommand, [op |-> "Brightness", arg |-> b]})
=============================================================================
