-------------------------- MODULE AnnouncementFeed --------------------------
(***************************************************************************)
(* What the audio task promises of announcements: they are played one      *)
(* after the other, each from its first byte on, in order and without      *)
(* gaps.  The first HeaderLen bytes ever given are skipped, as the code    *)
(* does it: that every announcement has a header is not what it promises.  *)
(* An announcement may be cut short; nothing of it is played afterwards.   *)
(***************************************************************************)
EXTENDS Naturals

CONSTANT HeaderLen

VARIABLES
    ann,        \* number of the current announcement
    size,       \* bytes in it
    left,       \* bytes of it still to be played or skipped
    header,     \* header bytes still to be skipped
    heard       \* the bytes played last, each <<announcement, position>>

vars == <<ann, size, left, header, heard>>

Init ==
    /\ ann = 0
    /\ size = 0
    /\ left = 0
    /\ header = HeaderLen
    /\ heard = <<>>

Begin ==
    /\ left = 0
    /\ ann' = ann + 1
    /\ size' \in Nat \ {0}
    /\ left' = size'
    /\ UNCHANGED <<header, heard>>

Skip ==
    /\ header > 0
    /\ header' < header
    /\ left' < left
    /\ header - header' = left - left'
    /\ UNCHANGED <<ann, size, heard>>

(* The next n bytes, all of them and in their order.                       *)
Coming(n) == [i \in 1..n |-> <<ann, size - left + i>>]

Play ==
    /\ header = 0
    /\ \E n \in 1..left : left' = left - n /\ heard' = Coming(n)
    /\ UNCHANGED <<ann, size, header>>

Abandon ==
    /\ header = 0
    /\ left' = 0
    /\ \E n \in 0..left : heard' = Coming(n)
    /\ UNCHANGED <<ann, size, header>>

Next == Begin \/ Skip \/ Play \/ Abandon

Spec == Init /\ [][Next]_vars
=============================================================================
