------------------------------ MODULE Buttons ------------------------------
(***************************************************************************)
(* The button tasks, one per front key: each samples its key every 80 ms   *)
(* and sends the key's event when the key has gone down since the sample   *)
(* before.  The hand on the keys is the environment.                       *)
(***************************************************************************)
EXTENDS Board

CONSTANT MaxPresses     \* bound: how often each key is pressed

ASSUME ButtonsAssumption == MaxPresses \in Nat

VARIABLES
    kpc,            \* kpc[k]: "sample", or "blocked" in event_tx.send
    was_pressed,    \* the task's local of that name
    presses,        \* history: how often key k went down
    news            \* history: key k went down after its last report

buttonVars == <<kpc, was_pressed, presses, news>>

ButtonsTypeOK ==
    /\ kpc \in [Keys -> {"sample", "blocked"}]
    /\ was_pressed \in [Keys -> BOOLEAN]
    /\ presses \in [Keys -> 0..MaxPresses]
    /\ news \in [Keys -> BOOLEAN]

ButtonsInit ==
    /\ kpc = [k \in Keys |-> "sample"]
    /\ was_pressed = [k \in Keys |-> FALSE]
    /\ presses = [k \in Keys |-> 0]
    /\ news = [k \in Keys |-> FALSE]

Press(k) ==
    /\ ~down[k]
    /\ presses[k] < MaxPresses
    /\ down' = [down EXCEPT ![k] = TRUE]
    /\ presses' = [presses EXCEPT ![k] = @ + 1]
    /\ news' = [news EXCEPT ![k] = TRUE]
    /\ UNCHANGED <<kpc, was_pressed, eventQ>>

Release(k) ==
    /\ down[k]
    /\ down' = [down EXCEPT ![k] = FALSE]
    /\ UNCHANGED <<kpc, was_pressed, presses, news, eventQ>>

(* Mutants of Report: the event is queued without waiting for room; the    *)
(* press is not remembered.                                                *)
ReportWithoutRoom(k) ==
    /\ eventQ' = Append(eventQ, k)
    /\ kpc' = [kpc EXCEPT ![k] = "sample"]
    /\ was_pressed' = [was_pressed EXCEPT ![k] = TRUE]
    /\ news' = [news EXCEPT ![k] = FALSE]
    /\ UNCHANGED <<down, presses>>

ReportForgotten(k) ==
    /\ EventRoom
    /\ eventQ' = Append(eventQ, k)
    /\ kpc' = [kpc EXCEPT ![k] = "sample"]
    /\ news' = [news EXCEPT ![k] = FALSE]
    /\ UNCHANGED <<was_pressed, down, presses>>

(* The end of event_tx.send(event).await.                                  *)
Report(k) ==
    /\ EventRoom
    /\ eventQ' = Append(eventQ, k)
    /\ kpc' = [kpc EXCEPT ![k] = "sample"]
    /\ was_pressed' = [was_pressed EXCEPT ![k] = TRUE]
    /\ news' = [news EXCEPT ![k] = FALSE]
    /\ UNCHANGED <<down, presses>>

(* One sample that finds a new press.                                      *)
SampleDown(k) ==
    /\ kpc[k] = "sample"
    /\ TRUE \in is_pressed(k)
    /\ ~was_pressed[k]
    /\ \/ Report(k)
       \/ /\ ~EventRoom
          /\ kpc' = [kpc EXCEPT ![k] = "blocked"]
          /\ UNCHANGED <<was_pressed, news, presses, down, eventQ>>

(* One sample that reads the key as released.  A sample of a key still     *)
(* held changes nothing.                                                   *)
SampleUp(k) ==
    /\ kpc[k] = "sample"
    /\ FALSE \in is_pressed(k)
    /\ was_pressed[k]
    /\ was_pressed' = [was_pressed EXCEPT ![k] = FALSE]
    /\ UNCHANGED <<kpc, news, presses, down, eventQ>>

(* Room appears for a task that was waiting.  The press it reports may be   *)
(* over by now, and it is marked as seen all the same.                     *)
Unblock(k) == kpc[k] = "blocked" /\ Report(k)

ButtonTask(k) == SampleDown(k) \/ SampleUp(k) \/ Unblock(k)

ButtonsNext == \E k \in Keys : ButtonTask(k) \/ Press(k) \/ Release(k)
=============================================================================
