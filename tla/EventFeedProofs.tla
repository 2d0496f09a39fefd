-------------------------- MODULE EventFeedProofs --------------------------
(***************************************************************************)
(* EventFeed keeps starts and stops alternating, for every capacity and    *)
(* every set of key events.                                                *)
(***************************************************************************)
EXTENDS EventFeed, TLAPS

FeedTypeOK ==
    /\ playing \in BOOLEAN
    /\ queue \in Seq(Playback \cup KeyEvents)
    /\ taken \in Playback

FeedInv == FeedTypeOK /\ FeedAlternates

LEMMA FeedInitial == Init => FeedInv
<1> SUFFICES ASSUME Init
             PROVE  FeedInv
  OBVIOUS
<1>1. FeedTypeOK
  <2>1. playing \in BOOLEAN /\ taken \in Playback
    BY DEF Init, Playback
  <2>2. queue \in Seq(Playback \cup KeyEvents)
    BY DEF Init
  <2> QED BY <2>1, <2>2 DEF FeedTypeOK
<1>2. queue = <<>> /\ taken = Latest(playing)
  BY DEF Init, Latest
<1>3. 1..Len(queue) = {}
  BY <1>2
<1>4. FeedAlternates
  BY <1>2, <1>3 DEF FeedAlternates, Alternates
<1> QED
  BY <1>1, <1>4 DEF FeedInv

(* Sending the playback event the player has not sent last keeps the       *)
(* alternation.                                                            *)
LEMMA SendPlayback ==
  ASSUME NEW K, NEW q \in Seq(Playback \cup K), NEW t \in Playback,
         NEW p \in BOOLEAN, NEW o \in BOOLEAN, p # o, Alternates(q, t, p)
  PROVE  Alternates(Append(q, Latest(o)), t, o)
<1> DEFINE e == Latest(o)
           r == Append(q, e)
           n == Len(q) + 1
<1>1. /\ e \in Playback /\ e # Latest(p) /\ Len(q) \in Nat
  BY DEF Latest, Playback, Started, Stopped
<1>2. /\ Len(r) = n /\ r[n] = e
      /\ \A i \in 1..Len(q) : r[i] = q[i]
  OBVIOUS
<1> HIDE DEF e, r
<1>3. ASSUME NEW i \in 1..Len(r), NEW j \in 1..Len(r), Consecutive(r, i, j)
      PROVE  r[i] # r[j]
  <2>1. CASE j < n
    <3>1. Consecutive(q, i, j)
      BY <1>1, <1>2, <1>3, <2>1 DEF Consecutive
    <3> QED BY <1>1, <1>2, <1>3, <2>1, <3>1 DEF Alternates, Consecutive
  <2>2. CASE j = n
    <3>1. LastPlayback(q, i)
      BY <1>1, <1>2, <1>3, <2>2 DEF Consecutive, LastPlayback
    <3> QED BY <1>1, <1>2, <2>2, <3>1 DEF Alternates, LastPlayback
  <2> QED BY <1>1, <1>2, <2>1, <2>2
<1>4. ASSUME NEW i \in 1..Len(r), FirstPlayback(r, i)
      PROVE  r[i] # t
  <2>1. CASE i < n
    <3>1. FirstPlayback(q, i)
      BY <1>1, <1>2, <1>4, <2>1 DEF FirstPlayback
    <3> QED BY <1>1, <1>2, <2>1, <3>1 DEF Alternates, FirstPlayback
  <2>2. CASE i = n
    <3>1. \A j \in 1..Len(q) : q[j] \notin Playback
      BY <1>1, <1>2, <1>4, <2>2 DEF FirstPlayback
    <3> QED BY <1>1, <1>2, <2>2, <3>1 DEF Alternates
  <2> QED BY <1>1, <1>2, <2>1, <2>2
<1>5. ASSUME NEW i \in 1..Len(r), LastPlayback(r, i)
      PROVE  r[i] = Latest(o)
  BY <1>1, <1>2, <1>5 DEF LastPlayback, e
<1>6. ~ \A i \in 1..Len(r) : r[i] \notin Playback
  BY <1>1, <1>2
<1>7. Alternates(r, t, o)
  BY <1>3, <1>4, <1>5, <1>6 DEF Alternates
<1> QED BY <1>7 DEF r, e

(* Key events do not touch the alternation.                                *)
LEMMA SendKey ==
  ASSUME NEW K, NEW q \in Seq(Playback \cup K), NEW t \in Playback,
         NEW p \in BOOLEAN, Alternates(q, t, p),
         NEW k \in K, k \notin Playback
  PROVE  Alternates(Append(q, k), t, p)
<1> DEFINE r == Append(q, k)
           n == Len(q) + 1
<1>1. /\ Len(q) \in Nat /\ Len(r) = n /\ r[n] \notin Playback
      /\ \A i \in 1..Len(q) : r[i] = q[i]
  OBVIOUS
<1> HIDE DEF r
<1>2. ASSUME NEW i \in 1..Len(r), NEW j \in 1..Len(r), Consecutive(r, i, j)
      PROVE  r[i] # r[j]
  <2>1. Consecutive(q, i, j)
    BY <1>1, <1>2 DEF Consecutive
  <2> QED BY <1>1, <2>1 DEF Alternates, Consecutive
<1>3. ASSUME NEW i \in 1..Len(r), FirstPlayback(r, i)
      PROVE  r[i] # t
  <2>1. FirstPlayback(q, i)
    BY <1>1, <1>3 DEF FirstPlayback
  <2> QED BY <1>1, <2>1 DEF Alternates, FirstPlayback
<1>4. ASSUME NEW i \in 1..Len(r), LastPlayback(r, i)
      PROVE  r[i] = Latest(p)
  <2>1. LastPlayback(q, i)
    BY <1>1, <1>4 DEF LastPlayback
  <2> QED BY <1>1, <2>1 DEF Alternates, LastPlayback
<1>5. (\A i \in 1..Len(r) : r[i] \notin Playback) => t = Latest(p)
  BY <1>1 DEF Alternates
<1> QED
  BY <1>2, <1>3, <1>4, <1>5 DEF Alternates, r

(* Receiving the head moves the alternation from the queue to what was     *)
(* received last.                                                          *)
LEMMA TakeHead ==
  ASSUME NEW K, NEW q \in Seq(Playback \cup K), NEW t \in Playback,
         NEW p \in BOOLEAN, Alternates(q, t, p), q # <<>>
  PROVE  Alternates(Tail(q), IF Head(q) \in Playback THEN Head(q) ELSE t, p)
<1> DEFINE r == Tail(q)
           h == Head(q)
           u == IF h \in Playback THEN h ELSE t
<1>1. /\ Len(q) \in Nat \ {0} /\ Len(r) = Len(q) - 1 /\ h = q[1]
      /\ \A i \in 1..Len(r) : r[i] = q[i + 1]
  OBVIOUS
<1> HIDE DEF r, h
<1>2. ASSUME NEW i \in 1..Len(r), NEW j \in 1..Len(r), Consecutive(r, i, j)
      PROVE  r[i] # r[j]
  <2>1. ASSUME NEW m \in (i + 2)..j
        PROVE  q[m] \notin Playback
    <3>1. m - 1 \in (i + 1)..(j - 1) /\ m - 1 \in 1..Len(r) /\ r[m - 1] = q[m]
      BY <1>1
    <3> QED BY <1>2, <3>1 DEF Consecutive
  <2>2. Consecutive(q, i + 1, j + 1)
    BY <1>1, <1>2, <2>1 DEF Consecutive
  <2> QED BY <1>1, <2>2 DEF Alternates, Consecutive
<1>3. ASSUME NEW i \in 1..Len(r), FirstPlayback(r, i)
      PROVE  r[i] # u
  <2>1. ASSUME NEW m \in 2..i
        PROVE  q[m] \notin Playback
    <3>1. m - 1 \in 1..(i - 1) /\ m - 1 \in 1..Len(r) /\ r[m - 1] = q[m]
      BY <1>1
    <3> QED BY <1>3, <3>1 DEF FirstPlayback
  <2>2. CASE h \in Playback
    <3>1. Consecutive(q, 1, i + 1)
      BY <1>1, <1>3, <2>1, <2>2 DEF Consecutive, FirstPlayback
    <3> QED BY <1>1, <2>2, <3>1 DEF Alternates, Consecutive
  <2>3. CASE h \notin Playback
    <3>1. FirstPlayback(q, i + 1)
      BY <1>1, <1>3, <2>1, <2>3 DEF FirstPlayback
    <3> QED BY <1>1, <2>3, <3>1 DEF Alternates, FirstPlayback
  <2> QED BY <2>2, <2>3
<1>4. ASSUME NEW i \in 1..Len(r), LastPlayback(r, i)
      PROVE  r[i] = Latest(p)
  <2>1. ASSUME NEW m \in (i + 2)..Len(q)
        PROVE  q[m] \notin Playback
    <3>1. m - 1 \in (i + 1)..Len(r) /\ m - 1 \in 1..Len(r) /\ r[m - 1] = q[m]
      BY <1>1
    <3> QED BY <1>4, <3>1 DEF LastPlayback
  <2>2. LastPlayback(q, i + 1)
    BY <1>1, <1>4, <2>1 DEF LastPlayback
  <2> QED BY <1>1, <2>2 DEF Alternates, LastPlayback
<1>5. ASSUME \A i \in 1..Len(r) : r[i] \notin Playback
      PROVE  u = Latest(p)
  <2>1. \A m \in 2..Len(q) : q[m] \notin Playback
    <3> SUFFICES ASSUME NEW m \in 2..Len(q)
                 PROVE  q[m] \notin Playback
      OBVIOUS
    <3>1. m - 1 \in 1..Len(r) /\ r[m - 1] = q[m]
      BY <1>1
    <3> QED BY <1>5, <3>1
  <2>2. CASE h \in Playback
    <3>1. LastPlayback(q, 1)
      BY <1>1, <2>1, <2>2 DEF LastPlayback
    <3> QED BY <1>1, <2>2, <3>1 DEF Alternates, LastPlayback
  <2>3. CASE h \notin Playback
    <3>1. \A m \in 1..Len(q) : q[m] \notin Playback
      BY <1>1, <2>1, <2>3
    <3> QED BY <2>3, <3>1 DEF Alternates
  <2> QED BY <2>2, <2>3
<1> QED
  BY <1>2, <1>3, <1>4, <1>5 DEF Alternates, r, h

LEMMA FeedStep == FeedInv /\ [Next]_vars => FeedInv'
<1> SUFFICES ASSUME FeedInv, [Next]_vars
             PROVE  FeedInv'
  OBVIOUS
<1>0. /\ queue \in Seq(Playback \cup KeyEvents) /\ taken \in Playback
      /\ playing \in BOOLEAN
      /\ FeedAlternates
  BY DEF FeedInv, FeedTypeOK
<1>1. CASE Start
  <2>1. playing = FALSE /\ playing' = TRUE
    BY <1>1, <1>0, Zenon DEF Start
  <2>2. queue' = Append(queue, Started) /\ taken' = taken
    BY <1>1 DEF Start, Send
  <2>3. Started = Latest(TRUE)
    BY DEF Latest
  <2>4. Alternates(queue', taken', playing')
    BY <1>0, <2>1, <2>2, <2>3, SendPlayback DEF FeedAlternates
  <2>5. playing' \in BOOLEAN
    BY <2>1, Zenon
  <2>6. queue' \in Seq(Playback \cup KeyEvents) /\ taken' \in Playback
    BY <1>0, <2>2 DEF Playback
  <2> QED BY <2>4, <2>5, <2>6 DEF FeedInv, FeedTypeOK, FeedAlternates
<1>2. CASE Stop
  <2>1. playing = TRUE /\ playing' = FALSE
    BY <1>2, <1>0, Zenon DEF Stop
  <2>2. queue' = Append(queue, Stopped) /\ taken' = taken
    BY <1>2 DEF Stop, Send
  <2>3. Stopped = Latest(FALSE)
    BY DEF Latest
  <2>4. Alternates(queue', taken', playing')
    BY <1>0, <2>1, <2>2, <2>3, SendPlayback DEF FeedAlternates
  <2>5. playing' \in BOOLEAN
    BY <2>1, Zenon
  <2>6. queue' \in Seq(Playback \cup KeyEvents) /\ taken' \in Playback
    BY <1>0, <2>2 DEF Playback
  <2> QED BY <2>4, <2>5, <2>6 DEF FeedInv, FeedTypeOK, FeedAlternates
<1>3. CASE Key
  <2>1. PICK k \in KeyEvents \ Playback : Send(k)
    BY <1>3 DEF Key
  <2>2. /\ queue' = Append(queue, k) /\ taken' = taken /\ playing' = playing
        /\ k \notin Playback
    BY <1>3, <2>1 DEF Key, Send
  <2>3. Alternates(queue', taken', playing')
    BY <1>0, <2>2, SendKey DEF FeedAlternates
  <2>4. queue' \in Seq(Playback \cup KeyEvents)
    BY <1>0, <2>2
  <2> QED BY <1>0, <2>2, <2>3, <2>4 DEF FeedInv, FeedTypeOK, FeedAlternates
<1>4. CASE Take
  <2>1. /\ queue # <<>> /\ queue' = Tail(queue) /\ playing' = playing
        /\ taken' = IF Head(queue) \in Playback THEN Head(queue) ELSE taken
    BY <1>4 DEF Take
  <2>2. Alternates(queue', taken', playing')
    BY <1>0, <2>1, TakeHead DEF FeedAlternates
  <2>3. queue' \in Seq(Playback \cup KeyEvents) /\ taken' \in Playback
    BY <1>0, <2>1
  <2> QED BY <1>0, <2>1, <2>2, <2>3 DEF FeedInv, FeedTypeOK, FeedAlternates
<1>5. CASE UNCHANGED vars
  BY <1>5 DEF vars, FeedInv, FeedTypeOK, FeedAlternates
<1> QED
  BY <1>1, <1>2, <1>3, <1>4, <1>5 DEF Next

(* The events the MQTT task is still to receive, after the last one it     *)
(* received, alternate between starts and stops and end with what the      *)
(* player reported last.                                                   *)
THEOREM FeedIsAlternating == Spec => []FeedAlternates
<1>1. Spec => []FeedInv
  BY FeedInitial, FeedStep, PTL DEF Spec
<1>2. FeedInv => FeedAlternates
  BY DEF FeedInv
<1> QED
  BY <1>1, <1>2, PTL
=============================================================================
