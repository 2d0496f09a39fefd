------------------------------- MODULE Board -------------------------------
(***************************************************************************)
(* The hardware behind the shared I2C bus: the amplifier's enable pin and  *)
(* the front keys on the TCA9555 expander, and the codec's mute bit.       *)
(*                                                                         *)
(* The bus mutex is never held across a wait, so a task never waits for    *)
(* it, and an I2C transfer is part of the step that makes it.              *)
(***************************************************************************)
EXTENDS Channels

CONSTANT I2cMayFail     \* TRUE when an I2C transfer may return an error

ASSUME BoardAssumption == I2cMayFail \in BOOLEAN

VARIABLES
    amp,    \* the power amplifier is enabled
    muted,  \* the ES8311 output is muted
    failed, \* history: the halves of the output path, "amp" and "mute",
            \*   whose last transfer failed
    down    \* down[k]: key k is held down

boardVars == <<amp, muted, failed, down>>

BoardTypeOK ==
    /\ amp \in BOOLEAN
    /\ muted \in BOOLEAN
    /\ failed \subseteq {"amp", "mute"}
    /\ down \in [Keys -> BOOLEAN]

(* A warm reset of the processor leaves the expander and the codec as they *)
(* were, so the firmware may start with the amplifier on.                  *)
BoardInit ==
    /\ amp \in BOOLEAN
    /\ muted \in BOOLEAN
    /\ failed = {}
    /\ down = [k \in Keys |-> FALSE]

(* The codec and amplifier writes ignore the error of a failed transfer,   *)
(* which may have reached the chip or not.                                 *)
tca9555_pa_set(on) ==
    \/ amp' = on /\ failed' = failed \ {"amp"}
    \/ I2cMayFail /\ amp' \in {amp, on} /\ failed' = failed \cup {"amp"}

mute(on) ==
    \/ muted' = on /\ failed' = failed \ {"mute"}
    \/ I2cMayFail /\ muted' \in {muted, on} /\ failed' = failed \cup {"mute"}

(* The answers a read of key k may give: a failed read says "not pressed". *)
is_pressed(k) == {down[k]} \cup (IF I2cMayFail THEN {FALSE} ELSE {})
=============================================================================
