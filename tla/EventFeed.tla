----------------------------- MODULE EventFeed -----------------------------
(***************************************************************************)
(* What the event channel promises the MQTT task: of the playback events   *)
(* it receives, each start is followed by the stop that belongs to it      *)
(* before the next start, in order and without loss, whatever keys are     *)
(* pressed in between.                                                     *)
(***************************************************************************)
EXTENDS Naturals, Sequences

CONSTANTS Capacity, KeyEvents

Started == "PlaybackStarted"
Stopped == "PlaybackStopped"
Playback == {Started, Stopped}

VARIABLES
    playing,    \* the player has reported a start and not yet its stop
    queue,      \* events sent and not received
    taken       \* the last playback event received

vars == <<playing, queue, taken>>

Init ==
    /\ playing = FALSE
    /\ queue = <<>>
    /\ taken = Stopped

Send(e) ==
    /\ Len(queue) < Capacity
    /\ queue' = Append(queue, e)
    /\ UNCHANGED taken

Start == ~playing /\ playing' = TRUE /\ Send(Started)

Stop == playing /\ playing' = FALSE /\ Send(Stopped)

Key == UNCHANGED playing /\ \E k \in KeyEvents \ Playback : Send(k)

Take ==
    /\ queue # <<>>
    /\ queue' = Tail(queue)
    /\ taken' = IF Head(queue) \in Playback THEN Head(queue) ELSE taken
    /\ UNCHANGED playing

Next == Start \/ Stop \/ Key \/ Take

Spec == Init /\ [][Next]_vars

-----------------------------------------------------------------------------
(* Position i of the queue holds the first, the last playback event.       *)
FirstPlayback(q, i) ==
    /\ i \in 1..Len(q)
    /\ q[i] \in Playback
    /\ \A j \in 1..(i - 1) : q[j] \notin Playback

LastPlayback(q, i) ==
    /\ i \in 1..Len(q)
    /\ q[i] \in Playback
    /\ \A j \in (i + 1)..Len(q) : q[j] \notin Playback

(* Between two positions there is no playback event.                       *)
Consecutive(q, i, j) ==
    /\ i \in 1..Len(q) /\ j \in 1..Len(q) /\ i < j
    /\ q[i] \in Playback /\ q[j] \in Playback
    /\ \A m \in (i + 1)..(j - 1) : q[m] \notin Playback

Latest(p) == IF p THEN Started ELSE Stopped

(* Starts and stops alternate from the last one received, through the      *)
(* queue, to the one the player sent last.                                 *)
Alternates(q, t, p) ==
    /\ \A i, j \in 1..Len(q) : Consecutive(q, i, j) => q[i] # q[j]
    /\ \A i \in 1..Len(q) : FirstPlayback(q, i) => q[i] # t
    /\ \A i \in 1..Len(q) : LastPlayback(q, i) => q[i] = Latest(p)
    /\ (\A i \in 1..Len(q) : q[i] \notin Playback) => t = Latest(p)

FeedAlternates == Alternates(queue, taken, playing)
=============================================================================
