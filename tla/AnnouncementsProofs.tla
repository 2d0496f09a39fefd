------------------------ MODULE AnnouncementsProofs ------------------------
(***************************************************************************)
(* The announcement stream implements AnnouncementFeed, for every size of  *)
(* the buffers, of the header and of the chunks, as long as a chunk fits   *)
(* both buffers.  And the bytes it is given are the ones that were         *)
(* announced: the decoding of an announcement gives back what was encoded, *)
(* for all bytes.                                                          *)
(***************************************************************************)
EXTENDS Announcements, AnnouncementPayload, FiniteSetTheorems, SequenceTheorems, TLAPS

LEMMA SlotInSlots == \A i \in Nat : Slot(i) \in Slots
BY AnnouncementsAssumption DEF Slot, Slots

(* What the modulus does to a position less than twice round the buffer.   *)
Wrapped(i) == IF i < BufferSize THEN i ELSE i - BufferSize

LEMMA SlotValue == \A i \in 0..(2 * BufferSize - 1) : Slot(i) = Wrapped(i)
<1> SUFFICES ASSUME NEW i \in 0..(2 * BufferSize - 1)
             PROVE  Slot(i) = Wrapped(i)
  OBVIOUS
<1> BufferSize \in Nat \ {0}
  BY AnnouncementsAssumption
<1>1. /\ i = BufferSize * (i \div BufferSize) + (i % BufferSize)
      /\ i \div BufferSize \in Int /\ i % BufferSize \in Slots
  BY DEF Slots
<1>2. i \div BufferSize \in {0, 1}
  <2>1. CASE i \div BufferSize >= 2
    <3>1. BufferSize * (i \div BufferSize) >= BufferSize * 2
      BY <1>1, <2>1
    <3> QED BY <3>1, <1>1 DEF Slots
  <2>2. CASE i \div BufferSize <= -1
    <3>1. BufferSize * (i \div BufferSize) <= BufferSize * (-1)
      BY <1>1, <2>2
    <3> QED BY <3>1, <1>1 DEF Slots
  <2> QED BY <2>1, <2>2, <1>1
<1> QED
  BY <1>1, <1>2 DEF Slot, Slots, Wrapped

(* Fewer positions than there are slots share none.                        *)
LEMMA SlotInjective ==
  ASSUME NEW h \in Slots, NEW i \in Slots, NEW j \in Slots,
         Slot(h + i) = Slot(h + j)
  PROVE  i = j
<1>1. /\ h + i \in 0..(2 * BufferSize - 1)
      /\ h + j \in 0..(2 * BufferSize - 1)
  BY AnnouncementsAssumption DEF Slots
<1>2. Wrapped(h + i) = Wrapped(h + j)
  BY <1>1, SlotValue
<1> QED
  BY <1>2, AnnouncementsAssumption DEF Slots, Wrapped

(***************************************************************************)
(* The inductive invariant: what is where in each stage of a chunk.        *)
(***************************************************************************)
(* Everything but the contents of the buffers.                             *)
Counts ==
    /\ head \in Slots
    /\ len \in 0..ChunkSize
    /\ header_len \in 0..HeaderLen
    /\ header_parsed \in BOOLEAN
    /\ header_parsed <=> header_len = HeaderLen
    /\ spc \in {"idle", "push", "take", "write"}
    /\ spc # "take" => len = 0
    /\ spc = "write" => header_parsed
    /\ ann \in 0..MaxAnnouncements
    /\ size \in 0..MaxSize
    /\ offset \in 0..size
    /\ spc = "push" => offset < size
    /\ len <= offset
    /\ faults \in 0..MaxFaults

(* The bytes in the ring buffer and in the DMA buffer are the last ones    *)
(* given, in order.                                                        *)
Contents ==
    /\ buffer \in [Slots -> Byte]
    /\ \A j \in 0..(len - 1) : buffer[Slot(head + j)] = <<ann, offset - len + j + 1>>
    /\ tx \in Seq(Byte)
    /\ Len(tx) <= ChunkSize
    /\ spc = "write" <=> tx # <<>>
    /\ \A i \in 1..Len(tx) : tx[i] = <<ann, offset - Len(tx) + i>>
    /\ heard \in Seq(Byte)

StreamInv == Counts /\ Contents

LEMMA InitStream == Init => StreamInv
<1> SUFFICES ASSUME Init
             PROVE  StreamInv
  OBVIOUS
<1> USE AnnouncementsAssumption
<1>1. Counts
  <2>1. header_parsed \in BOOLEAN /\ (header_parsed <=> header_len = HeaderLen)
    <3>1. header_parsed = FALSE /\ header_len # HeaderLen
      BY DEF Init
    <3> QED BY <3>1, Zenon
  <2> QED BY <2>1 DEF Init, Counts, Slots
<1>2. Contents
  BY DEF Init, Contents, Byte, NoByte
<1> QED
  BY <1>1, <1>2 DEF StreamInv

LEMMA AnnounceStream ==
  ASSUME StreamInv, NEW n \in 1..MaxSize, Announce(n)
  PROVE  StreamInv'
<1> USE AnnouncementsAssumption
<1>1. Counts'
  BY DEF StreamInv, Counts, Announce, streamVars
<1>2. Contents'
  BY DEF StreamInv, Counts, Contents, Announce, streamVars
<1> QED
  BY <1>1, <1>2 DEF StreamInv

LEMMA PushCounts ==
  ASSUME StreamInv, push_chunk
  PROVE  /\ Counts'
         /\ len' = Least(ChunkSize, size - offset)
         /\ offset' = offset + len'
<1> USE AnnouncementsAssumption
<1>1. len = 0 /\ offset < size /\ len \in 0..ChunkSize
  BY DEF StreamInv, Counts, push_chunk
<1>2. /\ len' = Least(ChunkSize, size - offset)
      /\ offset' = offset + len'
  BY <1>1 DEF StreamInv, Counts, push_chunk, Least
<1>3. Counts'
  BY <1>1, <1>2 DEF StreamInv, Counts, push_chunk, Least
<1> QED
  BY <1>2, <1>3

(* The chunk goes into the empty ring buffer, one slot for each byte.      *)
LEMMA PushContents ==
  ASSUME StreamInv, push_chunk
  PROVE  Contents'
<1> DEFINE n == Least(ChunkSize, size - offset)
           InSlot(s, j) == s = Slot(head + j)
<1> USE AnnouncementsAssumption
<1>1. /\ len = 0 /\ offset \in Nat /\ size \in Nat /\ offset < size
      /\ head \in Slots /\ ann \in Nat
      /\ n \in 1..ChunkSize /\ len' = n /\ offset' = offset + n
      /\ tx' = tx /\ tx = <<>> /\ heard' = heard /\ ann' = ann /\ head' = head
      /\ spc' = "take"
  BY PushCounts DEF StreamInv, Counts, Contents, push_chunk, Least
<1>2. buffer' = [s \in Slots |->
                   IF \E j \in 0..(n - 1) : InSlot(s, j)
                   THEN <<ann, offset + 1 + CHOOSE j \in 0..(n - 1) : InSlot(s, j)>>
                   ELSE buffer[s]]
  <2>1. Least(n, BufferSize - len) = n
    BY <1>1 DEF Least
  <2>2. \A j \in 0..(n - 1) : head + len + j = head + j
    BY <1>1 DEF Slots
  <2> QED BY <2>1, <2>2, <1>1 DEF push_chunk
<1>3. ASSUME NEW j \in 0..(n - 1)
      PROVE  buffer'[Slot(head + j)] = <<ann, offset + 1 + j>>
  <2>1. Slot(head + j) \in Slots
    <3>1. head + j \in Nat
      BY <1>1 DEF Slots
    <3> QED BY <3>1, SlotInSlots
  <2>2. \A k \in 0..(n - 1) : InSlot(Slot(head + j), k) => k = j
    BY <1>1, SlotInjective DEF Slots
  <2>3. (CHOOSE k \in 0..(n - 1) : InSlot(Slot(head + j), k)) = j
    BY <2>2
  <2> HIDE DEF InSlot, n
  <2>4. InSlot(Slot(head + j), j)
    BY DEF InSlot
  <2> QED BY <1>2, <2>1, <2>3, <2>4
<1>4. buffer' \in [Slots -> Byte]
  <2>1. ASSUME NEW s \in Slots
        PROVE  buffer'[s] \in Byte
    <3>1. CASE \E j \in 0..(n - 1) : InSlot(s, j)
      <4>1. PICK j \in 0..(n - 1) : s = Slot(head + j)
        BY <3>1
      <4>2. buffer'[s] = <<ann, offset + 1 + j>>
        BY <4>1, <1>3
      <4> QED BY <4>2, <1>1 DEF Byte
    <3>2. CASE ~\E j \in 0..(n - 1) : InSlot(s, j)
      <4>1. buffer'[s] = buffer[s]
        BY <1>2, <3>2
      <4> QED BY <4>1 DEF StreamInv, Contents
    <3> QED BY <3>1, <3>2
  <2> QED BY <1>2, <2>1
<1>5. \A j \in 0..(len' - 1) : buffer'[Slot(head' + j)] = <<ann', offset' - len' + j + 1>>
  BY <1>1, <1>3
<1> HIDE DEF n, InSlot
<1> QED
  BY <1>1, <1>4, <1>5 DEF StreamInv, Contents

(* take_bytes empties the ring buffer into the DMA buffer.                 *)
LEMMA TakeCounts ==
  ASSUME StreamInv, take_bytes
  PROVE  /\ Counts'
         /\ Skipped \in 0..len /\ Taken = len - Skipped
         /\ header_len + Skipped \in 0..HeaderLen
         /\ Taken > 0 => header_len + Skipped = HeaderLen
<1> USE AnnouncementsAssumption
<1>0. /\ len \in 0..ChunkSize /\ header_len \in 0..HeaderLen
      /\ header_parsed <=> header_len = HeaderLen
  BY DEF StreamInv, Counts
<1>1. /\ Skipped \in 0..len
      /\ header_len + Skipped \in 0..HeaderLen
      /\ Skipped = len \/ header_len + Skipped = HeaderLen
      /\ HeaderComplete <=> header_len + Skipped = HeaderLen
  BY <1>0 DEF Skipped, HeaderComplete, Least
<1>2. Taken = len - Skipped /\ (Taken > 0 => header_len + Skipped = HeaderLen)
  BY <1>0, <1>1 DEF Taken, Least
<1>3. /\ header_len' = header_len + Skipped
      /\ header_parsed' <=> header_len' = HeaderLen
      /\ header_parsed' \in BOOLEAN
  <2>1. header_parsed' = HeaderComplete /\ header_len' = header_len + Skipped
    BY DEF take_bytes
  <2>2. HeaderComplete \in BOOLEAN
    BY DEF HeaderComplete, StreamInv, Counts
  <2> QED BY <2>1, <2>2, <1>0, <1>1, Zenon
<1>4. len' = 0 /\ head' \in Slots
  <2>1. head + (Skipped + Taken) \in Nat
    BY <1>0, <1>1, <1>2 DEF StreamInv, Counts, Slots
  <2> QED BY <2>1, <1>0, <1>1, <1>2, SlotInSlots DEF take_bytes, Advance
<1>5. /\ spc' \in {"idle", "push", "take", "write"}
      /\ spc' = "write" => header_parsed'
      /\ spc' = "push" => offset < size
  <2>1. /\ spc' \in {"idle", "push", "take", "write"}
        /\ spc' = "write" => Taken > 0
        /\ spc' = "push" => offset < size
    BY DEF take_bytes
  <2>2. Taken > 0 => header_parsed'
    <3>1. Taken > 0 => header_len' = HeaderLen
      BY <1>0, <1>1, <1>2, <1>3
    <3> QED BY <3>1, <1>3, Zenon
  <2> QED BY <2>1, <2>2, Zenon
<1>6. UNCHANGED <<ann, size, offset, faults>>
  BY DEF take_bytes
<1>7. Counts'
  <2>1. header_len' \in 0..HeaderLen
    BY <1>0, <1>1, <1>3
  <2>2. /\ len' \in 0..ChunkSize /\ len' <= offset'
        /\ ann' \in 0..MaxAnnouncements /\ size' \in 0..MaxSize
        /\ offset' \in 0..size' /\ faults' \in 0..MaxFaults
    BY <1>4, <1>6 DEF StreamInv, Counts
  <2> QED BY <1>3, <1>4, <1>5, <1>6, <2>1, <2>2, Zenon DEF Counts
<1> QED
  BY <1>1, <1>2, <1>7

LEMMA TakeContents ==
  ASSUME StreamInv, take_bytes
  PROVE  Contents'
<1> USE AnnouncementsAssumption
<1>1. /\ Skipped \in 0..len /\ Taken = len - Skipped
      /\ len \in 0..ChunkSize /\ offset \in Nat /\ len <= offset /\ ann \in Nat
      /\ len' = 0 /\ offset' = offset /\ ann' = ann /\ buffer' = buffer /\ heard' = heard
  BY TakeCounts DEF StreamInv, Counts, take_bytes, Advance
<1>2. tx' = [i \in 1..Taken |-> buffer[Slot(head + Skipped + i - 1)]]
  BY DEF take_bytes
<1>3. ASSUME NEW i \in 1..Taken
      PROVE  tx'[i] = <<ann, offset - Taken + i>>
  <2> DEFINE j == Skipped + i - 1
  <2>1. j \in 0..(len - 1) /\ head + Skipped + i - 1 = head + j
    BY <1>1 DEF StreamInv, Counts, Slots
  <2>2. buffer[Slot(head + j)] = <<ann, offset - len + j + 1>>
    BY <2>1 DEF StreamInv, Contents
  <2>3. offset - len + j + 1 = offset - Taken + i
    BY <1>1
  <2> QED BY <1>2, <2>1, <2>2, <2>3
<1>4. Taken \in 0..ChunkSize /\ Taken <= offset
  BY <1>1
<1>5. tx' \in Seq(Byte) /\ Len(tx') = Taken
  <2>1. ASSUME NEW i \in 1..Taken
        PROVE  tx'[i] \in Byte
    <3>1. offset - Taken + i \in Nat /\ ann \in Nat
      BY <1>1, <1>4
    <3>2. <<ann, offset - Taken + i>> \in Byte
      BY <3>1 DEF Byte
    <3> QED BY <3>2, <1>3
  <2> QED BY <1>2, <1>4, <2>1
<1>6. spc' = "write" <=> tx' # <<>>
  <2>1. spc' = "write" <=> Taken > 0
    BY DEF take_bytes
  <2>2. tx' # <<>> <=> Taken > 0
    BY <1>4, <1>5
  <2> QED BY <2>1, <2>2
<1> QED
  BY <1>1, <1>3, <1>4, <1>5, <1>6 DEF StreamInv, Contents

LEMMA WriteStream ==
  ASSUME StreamInv, Written \/ WriteFails
  PROVE  StreamInv'
<1> USE AnnouncementsAssumption
<1>1. Counts'
  <2>1. CASE Written
    BY <2>1 DEF StreamInv, Counts, Written, streamVars
  <2>2. CASE WriteFails
    BY <2>2 DEF StreamInv, Counts, WriteFails, streamVars
  <2> QED BY <2>1, <2>2
<1>2. tx \in Seq(Byte) /\ Len(tx) \in Nat
  BY DEF StreamInv, Contents
<1>3. len = 0 /\ len' = 0 /\ tx' = <<>> /\ spc' # "write" /\ buffer' = buffer
  BY DEF StreamInv, Counts, Written, WriteFails, streamVars
<1>4. heard' \in Seq(Byte)
  <2>1. CASE Written
    BY <1>2, <2>1 DEF Written
  <2>2. CASE WriteFails
    <3>1. PICK n \in 0..Len(tx) : heard' = [i \in 1..n |-> tx[i]]
      BY <2>2 DEF WriteFails
    <3>2. n \in Nat /\ \A i \in 1..n : tx[i] \in Byte
      BY <1>2
    <3> QED BY <3>1, <3>2
  <2> QED BY <2>1, <2>2
<1>5. Contents'
  BY <1>3, <1>4 DEF StreamInv, Contents
<1> QED
  BY <1>1, <1>5 DEF StreamInv

LEMMA StreamStep == StreamInv /\ [Next]_vars => StreamInv'
<1> SUFFICES ASSUME StreamInv, [Next]_vars
             PROVE  StreamInv'
  OBVIOUS
<1>1. CASE \E n \in 1..MaxSize : Announce(n)
  BY <1>1, AnnounceStream
<1>2. CASE push_chunk
  BY <1>2, PushCounts, PushContents DEF StreamInv
<1>3. CASE take_bytes
  BY <1>3, TakeCounts, TakeContents DEF StreamInv
<1>4. CASE Written \/ WriteFails
  BY <1>4, WriteStream
<1>5. CASE UNCHANGED vars
  BY <1>5 DEF StreamInv, Counts, Contents, vars, streamVars
<1> QED
  BY <1>1, <1>2, <1>3, <1>4, <1>5 DEF Next, PlayChunk

LEMMA AlwaysStream == Spec => []StreamInv
<1> QED
  BY InitStream, StreamStep, PTL DEF Spec

(* Every variable keeps its type: the stream never holds more than its     *)
(* buffer, nor does a transfer.                                            *)
THEOREM StreamTypeCorrect == Spec => []TypeOK
<1>1. StreamInv => TypeOK
  BY AnnouncementsAssumption DEF StreamInv, Counts, Contents, TypeOK
<1> QED
  BY AlwaysStream, <1>1, PTL

(* Between announcements the stream is empty, whatever transfers failed.   *)
THEOREM StreamIsDrained == Spec => []NothingLeftBehind
<1>1. StreamInv => NothingLeftBehind
  BY DEF StreamInv, Counts, Contents, NothingLeftBehind
<1> QED
  BY AlwaysStream, <1>1, PTL

(***************************************************************************)
(* The refinement: which step of AnnouncementFeed each step of the stream  *)
(* is.                                                                     *)
(***************************************************************************)
LEMMA AnnounceBegins ==
  ASSUME StreamInv, NEW n \in 1..MaxSize, Announce(n)
  PROVE  Feed!Begin
<1>1. /\ Left = 0 /\ ann' = ann + 1 /\ size' = n /\ n \in Nat \ {0}
      /\ Left' = n
      /\ UNCHANGED <<header_len, heard>>
  BY AnnouncementsAssumption
     DEF StreamInv, Counts, Contents, Announce, streamVars, Left
<1> QED
  BY <1>1 DEF Feed!Begin

LEMMA PushStutters ==
  ASSUME StreamInv, push_chunk
  PROVE  UNCHANGED Feed!vars
<1>1. /\ len = 0 /\ tx = <<>> /\ spc = "push" /\ spc' = "take" /\ tx' = tx
      /\ UNCHANGED <<ann, size, header_len, heard>>
      /\ offset \in Nat /\ size \in Nat
  BY AnnouncementsAssumption DEF StreamInv, Counts, Contents, push_chunk
<1>2. offset' = offset + len' /\ len' \in Nat
  BY PushCounts, AnnouncementsAssumption DEF Counts
<1>3. Left = (size - offset) + len + Len(tx) /\ Left' = (size - offset') + len' + Len(tx)
  BY <1>1 DEF Left
<1>4. (size - offset') + len' = (size - offset) + len
  <2>1. \A o, s, n \in Nat : (s - (o + n)) + n = (s - o) + 0
    OBVIOUS
  <2> QED BY <2>1, <1>1, <1>2
<1>5. Left' = Left
  BY <1>3, <1>4
<1> QED
  BY <1>1, <1>5 DEF Feed!vars

LEMMA TakeSkips ==
  ASSUME StreamInv, take_bytes
  PROVE  Feed!Skip \/ UNCHANGED Feed!vars
<1> USE AnnouncementsAssumption
<1>1. /\ Skipped \in 0..len /\ Taken = len - Skipped
      /\ header_len + Skipped \in 0..HeaderLen
      /\ len' = 0
  BY TakeCounts DEF take_bytes, Advance, StreamInv, Counts
<1>2. /\ spc = "take" /\ tx = <<>> /\ len \in Nat /\ header_len \in Nat
      /\ offset \in Nat /\ size \in Nat /\ offset <= size
  BY DEF StreamInv, Counts, Contents, take_bytes
<1>3. /\ header_len' = header_len + Skipped
      /\ UNCHANGED <<ann, size, offset, heard>>
      /\ spc' = IF Taken > 0 THEN "write" ELSE IF offset < size THEN "push" ELSE "idle"
  BY DEF take_bytes
<1>4. Len(tx') = Taken
  BY <1>1, <1>2 DEF take_bytes
<1>5. Left = (size - offset) + len
  BY <1>2 DEF Left
<1>6. Left' = (size - offset) + Taken
  <2>1. CASE spc' = "idle"
    BY <2>1, <1>1, <1>2, <1>3 DEF Left
  <2>2. CASE spc' # "idle"
    BY <2>2, <1>1, <1>2, <1>3, <1>4 DEF Left
  <2> QED BY <2>1, <2>2
<1>7. CASE Skipped = 0
  <2>1. Left' = Left /\ header_len' = header_len
    BY <1>7, <1>1, <1>2, <1>3, <1>5, <1>6
  <2> QED BY <2>1, <1>3 DEF Feed!vars
<1>8. CASE Skipped > 0
  BY <1>8, <1>1, <1>2, <1>3, <1>5, <1>6 DEF Feed!Skip
<1> QED
  BY <1>1, <1>7, <1>8

(* What the DMA buffer holds is what is to come next of the announcement.  *)
LEMMA LeftPositions ==
  ASSUME StreamInv, spc = "write"
  PROVE  /\ Len(tx) \in Nat /\ Len(tx) <= Left /\ Left \in Nat
         /\ \A i \in 1..Len(tx) : tx[i] = <<ann, size - Left + i>>
<1>1. /\ len = 0 /\ offset \in Nat /\ size \in Nat /\ offset <= size
      /\ tx \in Seq(Byte)
      /\ \A i \in 1..Len(tx) : tx[i] = <<ann, offset - Len(tx) + i>>
  BY AnnouncementsAssumption DEF StreamInv, Counts, Contents
<1>2. Len(tx) \in Nat
  BY <1>1
<1>3. Left = (size - offset) + Len(tx)
  BY <1>1, <1>2 DEF Left
<1>4. Len(tx) <= Left /\ Left \in Nat /\ size - Left = offset - Len(tx)
  BY <1>1, <1>2, <1>3
<1> QED
  BY <1>1, <1>2, <1>4

LEMMA WritePlays ==
  ASSUME StreamInv, Written
  PROVE  Feed!Play
<1> USE AnnouncementsAssumption
<1>1. /\ header_len = HeaderLen /\ len = 0
      /\ spc = "write" /\ spc' = "take" /\ tx' = <<>>
      /\ UNCHANGED <<ann, size, offset, header_len, len>>
      /\ offset \in Nat /\ size \in Nat
  BY DEF StreamInv, Counts, Written, streamVars
<1>2. tx \in Seq(Byte) /\ tx # <<>> /\ heard' = tx
      /\ \A i \in 1..Len(tx) : tx[i] = <<ann, offset - Len(tx) + i>>
  BY DEF StreamInv, Contents, Written
<1>3. Len(tx) \in Nat \ {0}
  BY <1>2
<1>5. Left = (size - offset) + Len(tx) /\ Left' = size - offset
  BY <1>1, <1>3 DEF Left
<1>6. Len(tx) \in 1..Left /\ Left' = Left - Len(tx)
  BY <1>1, <1>3, <1>5, LeftPositions
<1>7. heard' = Feed!Coming(Len(tx))
  <2>1. tx = [i \in 1..Len(tx) |-> tx[i]]
    BY <1>2
  <2>2. \A i \in 1..Len(tx) : tx[i] = <<ann, size - Left + i>>
    BY <1>2, LeftPositions, <1>1
  <2> QED BY <1>2, <2>1, <2>2 DEF Feed!Coming
<1>8. HeaderLen - header_len = 0
  BY <1>1
<1> QED
  BY <1>1, <1>6, <1>7, <1>8 DEF Feed!Play

LEMMA FailureAbandons ==
  ASSUME StreamInv, WriteFails
  PROVE  Feed!Abandon
<1>1. /\ len = 0 /\ spc = "write" /\ spc' = "idle"
      /\ header_len = HeaderLen
      /\ UNCHANGED <<ann, size, header_len, len>>
  BY DEF StreamInv, Counts, WriteFails, streamVars
<1>2. Left' = 0 /\ HeaderLen - header_len = 0
  BY <1>1, AnnouncementsAssumption DEF Left
<1>3. PICK n \in 0..Len(tx) : heard' = [i \in 1..n |-> tx[i]]
  BY DEF WriteFails
<1>4. Len(tx) \in Nat /\ Len(tx) <= Left /\ Left \in Nat
  BY <1>1, LeftPositions
<1>5. n \in 0..Left /\ \A i \in 1..n : i \in 1..Len(tx)
  BY <1>4
<1>6. heard' = Feed!Coming(n)
  <2>1. \A i \in 1..n : tx[i] = <<ann, size - Left + i>>
    BY <1>1, <1>5, LeftPositions
  <2> QED BY <1>3, <2>1 DEF Feed!Coming
<1> QED
  BY <1>1, <1>2, <1>5, <1>6 DEF Feed!Abandon

(* What is played is each announcement from its first byte on, in order    *)
(* and without gaps, cut short at most at its end; only the first          *)
(* HeaderLen bytes of all are skipped.                                     *)
THEOREM StreamImplementsFeed == Spec => ImplementsFeed
<1>1. Init => Feed!Init
  BY AnnouncementsAssumption DEF Init, Feed!Init, Left
<1>2. StreamInv /\ [Next]_vars => [Feed!Next]_(Feed!vars)
  <2> SUFFICES ASSUME StreamInv, [Next]_vars
               PROVE  [Feed!Next]_(Feed!vars)
    OBVIOUS
  <2>1. CASE \E n \in 1..MaxSize : Announce(n)
    BY <2>1, AnnounceBegins DEF Feed!Next
  <2>2. CASE push_chunk
    BY <2>2, PushStutters
  <2>3. CASE take_bytes
    BY <2>3, TakeSkips DEF Feed!Next
  <2>4. CASE Written
    BY <2>4, WritePlays DEF Feed!Next
  <2>5. CASE WriteFails
    BY <2>5, FailureAbandons DEF Feed!Next
  <2>6. CASE UNCHANGED vars
    BY <2>6 DEF vars, streamVars, Feed!vars, Left
  <2> QED BY <2>1, <2>2, <2>3, <2>4, <2>5, <2>6 DEF Next, PlayChunk
<1> QED
  BY <1>1, <1>2, AlwaysStream, PTL DEF Spec, ImplementsFeed, Feed!Spec

-----------------------------------------------------------------------------
(***************************************************************************)
(* The decoding.  First the whitespace: both decoders leave it out.        *)
(***************************************************************************)
(* w is the text t with whitespace between its characters: f is where they *)
(* are in it.                                                              *)
Spread(t, w, f) ==
    /\ f \in [1..Len(t) -> DOMAIN w]
    /\ \A i, j \in 1..Len(t) : i < j => f[i] < f[j]
    /\ \A j \in 1..Len(t) : w[f[j]] = t[j]
    /\ \A i \in DOMAIN w : w[i] \in Whitespace \/ \E j \in 1..Len(t) : i = f[j]

Dense(t) == \A j \in 1..Len(t) : t[j] \notin Whitespace

Increasing(f, n) ==
    /\ \A i \in 1..n : f[i] \in Int
    /\ \A i, j \in 1..n : i < j => f[i] < f[j]

LEMMA FirstPlaces ==
  ASSUME NEW n \in Nat, NEW f, Increasing(f, n), NEW k \in 0..n
  PROVE  Cardinality({f[j] : j \in 1..k}) = k
<1> DEFINE S == {f[j] : j \in 1..k}
           g == [j \in 1..k |-> f[j]]
<1>1. g \in [1..k -> S]
  OBVIOUS
<1>2. ASSUME NEW i \in 1..k, NEW j \in 1..k, g[i] = g[j]
      PROVE  i = j
  <2>1. i \in 1..n /\ j \in 1..n
    OBVIOUS
  <2>2. f[i] = f[j] /\ f[i] \in Int
    BY <1>2, <2>1 DEF Increasing
  <2>3. ~(i < j) /\ ~(j < i)
    BY <2>1, <2>2 DEF Increasing
  <2> QED BY <2>3
<1>3. \A s \in S : \E j \in 1..k : g[j] = s
  OBVIOUS
<1> HIDE DEF g, S
<1>4. g \in Bijection(1..k, S)
  BY <1>1, <1>2, <1>3 DEF Bijection, Injection, Surjection, IsInjective
<1>5. ExistsBijection(1..k, S)
  BY <1>4 DEF ExistsBijection
<1>6. k \in Nat
  OBVIOUS
<1> QED
  BY <1>5, <1>6, FS_CountingElements DEF S

(* Whitespace between the characters of a text, before and after them      *)
(* makes no difference to the decoders, wherever it is and how much.       *)
THEOREM BlanksAreIgnored ==
  ASSUME NEW t \in Seq(Int), NEW w \in Seq(Int), NEW f, Spread(t, w, f), Dense(t)
  PROVE  filtered(w) = t
<1> DEFINE n == Len(t)
<1>0. n \in Nat /\ DOMAIN w = 1..Len(w) /\ Len(w) \in Nat
  OBVIOUS
<1>1. \A j \in 1..n : f[j] \in DOMAIN w /\ f[j] \in Int
  BY <1>0 DEF Spread
<1>2. \A i, j \in 1..n : i < j => f[i] < f[j]
  BY DEF Spread
<1>10. Increasing(f, n)
  BY <1>1, <1>2 DEF Increasing
<1>3. Kept(w) = {f[j] : j \in 1..n}
  <2>1. \A j \in 1..n : f[j] \in Kept(w)
    BY <1>1 DEF Spread, Dense, Kept
  <2>2. \A i \in Kept(w) : \E j \in 1..n : i = f[j]
    BY DEF Spread, Kept
  <2> QED BY <2>1, <2>2
<1>11. \A k \in 0..n : Cardinality({f[i] : i \in 1..k}) = k
  <2> HIDE DEF n
  <2> QED BY <1>0, <1>10, FirstPlaces, Zenon
<1>4. Cardinality(Kept(w)) = n
  <2>1. n \in 0..n
    BY <1>0
  <2> HIDE DEF n
  <2>2. Cardinality({f[i] : i \in 1..n}) = n
    BY <2>1, <1>11
  <2> QED BY <1>3, <2>2
<1>5. ASSUME NEW j \in 1..n
      PROVE  Before(w, f[j]) = j - 1
  <2>1. {h \in Kept(w) : h < f[j]} = {f[i] : i \in 1..(j - 1)}
    <3>1. ASSUME NEW i \in 1..n
          PROVE  f[i] < f[j] <=> i \in 1..(j - 1)
      <4>1. i < j => f[i] < f[j]
        BY <1>2
      <4>2. j < i => f[j] < f[i]
        BY <1>2
      <4>3. i \in Int /\ j \in Int /\ f[i] \in Int /\ f[j] \in Int
        BY <1>1
      <4>4. f[i] < f[j] <=> i < j
        <5> HIDE DEF n
        <5>1. i = j \/ i < j \/ j < i
          BY <4>3
        <5> QED BY <5>1, <4>1, <4>2, <4>3
      <4> QED BY <4>3, <4>4
    <3>2. \A i \in 1..(j - 1) : i \in 1..n
      BY <1>0
    <3> HIDE DEF n
    <3> QED BY <1>3, <3>1, <3>2
  <2>2. j - 1 \in 0..n
    BY <1>0
  <2> HIDE DEF n
  <2>3. Cardinality({f[i] : i \in 1..(j - 1)}) = j - 1
    BY <1>11, <2>2
  <2> QED BY <2>1, <2>3 DEF Before
<1>6. ASSUME NEW j \in 1..n
      PROVE  w[CHOOSE i \in Kept(w) : Before(w, i) = j - 1] = t[j]
  <2> DEFINE c == CHOOSE i \in Kept(w) : Before(w, i) = j - 1
  <2>1. f[j] \in Kept(w) /\ Before(w, f[j]) = j - 1
    BY <1>3, <1>5
  <2>2. c \in Kept(w) /\ Before(w, c) = j - 1
    BY <2>1
  <2>3. PICK i \in 1..n : c = f[i]
    BY <1>3, <2>2
  <2>4. i - 1 = j - 1
    BY <1>5, <2>2, <2>3
  <2>5. i = j
    BY <2>4
  <2> HIDE DEF c
  <2> QED BY <2>3, <2>5 DEF Spread, c
<1>7. filtered(w) = [j \in 1..n |-> t[j]]
  BY <1>4, <1>6 DEF filtered
<1> QED
  BY <1>7

LEMMA OneBlank ==
  ASSUME NEW t \in Seq(Int), NEW w \in WithBlank(t)
  PROVE  w \in Seq(Int) /\ Len(t) <= Len(w) /\ \E f : Spread(t, w, f)
<1> DEFINE n == Len(t)
<1>0. n \in Nat /\ DOMAIN t = 1..n /\ \A i \in 1..n : t[i] \in Int
  OBVIOUS
<1>1. CASE w = t
  <2> DEFINE f == [i \in 1..n |-> i]
  <2>1. Spread(t, w, f)
    BY <1>0, <1>1 DEF Spread
  <2> QED BY <1>0, <1>1, <2>1
<1>2. ASSUME NEW k \in 0..n, w = SubSeq(t, 1, k) \o <<Space>> \o SubSeq(t, k + 1, n)
      PROVE  w \in Seq(Int) /\ Len(t) <= Len(w) /\ \E f : Spread(t, w, f)
  <2> DEFINE front == SubSeq(t, 1, k)
             back  == SubSeq(t, k + 1, n)
             mid   == front \o <<Space>>
             f     == [i \in 1..n |-> IF i <= k THEN i ELSE i + 1]
  <2>0. k \in Nat /\ k <= n
    BY <1>0
  <2>1. front \in Seq(Int) /\ Len(front) = k /\ \A i \in 1..k : front[i] = t[i]
    BY <1>0, <2>0, SubSeqProperties
  <2>2. /\ back \in Seq(Int) /\ Len(back) = n - k
        /\ \A i \in 1..(n - k) : back[i] = t[k + i]
    <3>1. \A i \in (k + 1)..n : t[i] \in Int
      BY <1>0, <2>0
    <3>2. k + 1 \in Int /\ n \in Int
      BY <1>0, <2>0
    <3>3. ASSUME NEW a \in Int, NEW b \in Int, a = k + 1, b = n
          PROVE  /\ SubSeq(t, a, b) \in Seq(Int)
                 /\ Len(SubSeq(t, a, b)) = n - k
                 /\ \A i \in 1..(n - k) : SubSeq(t, a, b)[i] = t[k + i]
      <4>1. \A i \in a..b : t[i] \in Int
        BY <3>1, <3>3
      <4>2. /\ SubSeq(t, a, b) \in Seq(Int)
            /\ Len(SubSeq(t, a, b)) = IF a <= b THEN b - a + 1 ELSE 0
            /\ \A i \in 1..(b - a + 1) : SubSeq(t, a, b)[i] = t[a + i - 1]
        BY <4>1, SubSeqProperties
      <4>3. b - a + 1 = n - k /\ \A i \in 1..(n - k) : a + i - 1 = k + i
        BY <3>3, <1>0, <2>0
      <4>4. Len(SubSeq(t, a, b)) = n - k
        <5>1. (IF a <= b THEN b - a + 1 ELSE 0) = n - k
          BY <3>3, <1>0, <2>0
        <5> QED BY <4>2, <5>1
      <4>5. \A i \in 1..(n - k) : SubSeq(t, a, b)[i] = t[k + i]
        BY <4>2, <4>3
      <4> QED BY <4>2, <4>4, <4>5
    <3> QED BY <3>2, <3>3
  <2>3. /\ mid \in Seq(Int) /\ Len(mid) = k + 1
        /\ \A i \in 1..k : mid[i] = t[i]
        /\ mid[k + 1] = Space
    <3>1. <<Space>> \in Seq(Int) /\ Len(<<Space>>) = 1 /\ <<Space>>[1] = Space
      BY DEF Space
    <3> HIDE DEF front
    <3> QED BY <2>0, <2>1, <3>1, ConcatProperties DEF Space
  <2>4. w = mid \o back
    BY <1>2
  <2> HIDE DEF front, back, mid
  <2>5. /\ w \in Seq(Int) /\ Len(w) = n + 1
        /\ \A i \in 1..(n + 1) : w[i] = IF i <= k + 1 THEN mid[i] ELSE back[i - (k + 1)]
    <3> HIDE DEF n
    <3>1. Len(mid) = k + 1 /\ mid \in Seq(Int) /\ Len(back) = n - k /\ back \in Seq(Int)
      BY <2>2, <2>3
    <3>2. (k + 1) + (n - k) = n + 1
      BY <1>0, <2>0
    <3>3. /\ w \in Seq(Int) /\ Len(w) = Len(mid) + Len(back)
          /\ \A i \in 1..(Len(mid) + Len(back)) :
                w[i] = IF i <= Len(mid) THEN mid[i] ELSE back[i - Len(mid)]
      BY <2>4, <3>1, ConcatProperties
    <3> QED BY <3>1, <3>2, <3>3
  <2>6. \A i \in 1..n : w[f[i]] = t[i]
    <3> TAKE i \in 1..n
    <3>1. CASE i <= k
      BY <3>1, <2>0, <2>3, <2>5
    <3>2. CASE ~(i <= k)
      <4>1. f[i] = i + 1 /\ i + 1 \in 1..(n + 1) /\ ~(i + 1 <= k + 1)
        BY <3>2, <2>0
      <4>2. w[i + 1] = back[(i + 1) - (k + 1)]
        BY <4>1, <2>5
      <4>3. i - k \in 1..(n - k) /\ (i + 1) - (k + 1) = i - k /\ k + (i - k) = i
        BY <3>2, <1>0, <2>0
      <4> HIDE DEF f, n
      <4>4. back[i - k] = t[k + (i - k)]
        BY <4>3, <2>2
      <4> QED BY <4>1, <4>2, <4>3, <4>4
    <3> QED BY <3>1, <3>2
  <2>7. \A i \in 1..(n + 1) : w[i] \in Whitespace \/ \E j \in 1..n : i = f[j]
    <3> TAKE i \in 1..(n + 1)
    <3>1. CASE i <= k
      BY <3>1, <1>0, <2>0
    <3>2. CASE i = k + 1
      BY <3>2, <2>0, <2>3, <2>5 DEF Whitespace, Space
    <3>3. CASE i > k + 1
      <4>1. i - 1 \in 1..n /\ f[i - 1] = i
        BY <3>3, <1>0, <2>0
      <4> QED BY <4>1
    <3> QED BY <3>1, <3>2, <3>3, <2>0
  <2>8. DOMAIN w = 1..(n + 1)
    BY <2>5
  <2>9. f \in [1..n -> DOMAIN w] /\ \A i, j \in 1..n : i < j => f[i] < f[j]
    BY <2>8, <2>0, <1>0
  <2>10. Spread(t, w, f)
    <3> HIDE DEF f
    <3> QED BY <2>6, <2>7, <2>8, <2>9 DEF Spread
  <2> QED
    BY <1>0, <2>5, <2>10
<1> QED
  BY <1>1, <1>2 DEF WithBlank

Octets(d) ==
    /\ d \in Seq(Int)
    /\ \A i \in 1..Len(d) : 0 <= d[i] /\ d[i] <= 255

(* A hexadecimal digit is read as what it was written for.                 *)
LEMMA HexDigits ==
  ASSUME NEW n \in Int, 0 <= n, n <= 15, NEW ten \in {65, 97}
  PROVE  /\ HexDigit(n, ten) \in Int /\ HexDigit(n, ten) \notin Whitespace
         /\ nibble_value(HexDigit(n, ten)) = n
<1>1. CASE n < 10
  BY <1>1 DEF HexDigit, nibble_value, Whitespace, Space
<1>2. CASE ~(n < 10)
  <2>1. HexDigit(n, ten) = ten + n - 10
    BY <1>2 DEF HexDigit
  <2> QED BY <1>2, <2>1 DEF nibble_value, Whitespace, Space
<1> QED BY <1>1, <1>2

LEMMA HexHalves ==
  ASSUME NEW d, Octets(d), NEW ten \in {65, 97},
         NEW i \in 1..Len(d), NEW hi, hi = 2 * i - 1, NEW lo, lo = 2 * i
  PROVE  /\ HexText(d, ten)[hi] = HexDigit(d[i] \div 16, ten)
         /\ HexText(d, ten)[lo] = HexDigit(d[i] % 16, ten)
<1>1. Len(d) \in Nat /\ i \in Int /\ 1 <= i /\ i <= Len(d)
  BY DEF Octets
<1>2. hi \in 1..(2 * Len(d)) /\ lo \in 1..(2 * Len(d))
  BY <1>1
<1>3. hi % 2 = 1 /\ (hi + 1) \div 2 = i /\ lo % 2 = 0 /\ lo \div 2 = i
  BY <1>1
<1> QED
  BY <1>2, <1>3 DEF HexText

IsHexDigit(c, ten) == \E n \in Int : 0 <= n /\ n <= 15 /\ c = HexDigit(n, ten)

LEMMA HexTextIsText ==
  ASSUME NEW d, Octets(d), NEW ten \in {65, 97}
  PROVE  /\ HexText(d, ten) \in Seq(Int) /\ Len(HexText(d, ten)) = 2 * Len(d)
         /\ \A j \in 1..(2 * Len(d)) : IsHexDigit(HexText(d, ten)[j], ten)
<1>1. Len(d) \in Nat /\ \A i \in 1..Len(d) : d[i] \in Int /\ 0 <= d[i] /\ d[i] <= 255
  BY DEF Octets
<1>2. ASSUME NEW j \in 1..(2 * Len(d))
      PROVE  IsHexDigit(HexText(d, ten)[j], ten)
  <2>1. CASE j % 2 = 1
    <3> DEFINE n == d[(j + 1) \div 2] \div 16
    <3>1. (j + 1) \div 2 \in 1..Len(d)
      BY <1>1, <2>1
    <3>2. n \in Int /\ 0 <= n /\ n <= 15
      BY <1>1, <3>1
    <3>3. HexText(d, ten)[j] = HexDigit(n, ten)
      BY <2>1 DEF HexText
    <3> QED BY <3>2, <3>3 DEF IsHexDigit
  <2>2. CASE j % 2 # 1
    <3> DEFINE n == d[j \div 2] % 16
    <3>1. j \div 2 \in 1..Len(d)
      BY <1>1, <2>2
    <3>2. n \in Int /\ 0 <= n /\ n <= 15
      BY <1>1, <3>1
    <3>3. HexText(d, ten)[j] = HexDigit(n, ten)
      BY <2>2 DEF HexText
    <3> QED BY <3>2, <3>3 DEF IsHexDigit
  <2> QED BY <2>1, <2>2
<1>3. \A j \in 1..(2 * Len(d)) : HexText(d, ten)[j] \in Int
  BY <1>2, HexDigits DEF IsHexDigit
<1>4. DOMAIN HexText(d, ten) = 1..(2 * Len(d))
  BY DEF HexText
<1>5. 2 * Len(d) \in Nat
  BY <1>1
<1>6. HexText(d, ten) \in [1..(2 * Len(d)) -> Int]
  <2>1. HexText(d, ten) = [j \in 1..(2 * Len(d)) |-> HexText(d, ten)[j]]
    BY DEF HexText, Zenon
  <2> QED BY <1>3, <2>1
<1>7. HexText(d, ten) \in Seq(Int) /\ Len(HexText(d, ten)) = 2 * Len(d)
  BY <1>5, <1>6
<1> QED
  BY <1>2, <1>7

LEMMA HexRoundTrip ==
  ASSUME NEW d, Octets(d), Len(d) <= Capacity, NEW ten \in {65, 97}
  PROVE  /\ Dense(HexText(d, ten))
         /\ decode_hex(HexText(d, ten)) = d
<1> DEFINE t == HexText(d, ten)
<1>1. Len(d) \in Nat /\ \A i \in 1..Len(d) : d[i] \in Int /\ 0 <= d[i] /\ d[i] <= 255
  BY DEF Octets
<1>2. /\ t \in Seq(Int) /\ Len(t) = 2 * Len(d)
      /\ \A j \in 1..(2 * Len(d)) : IsHexDigit(t[j], ten)
  BY HexTextIsText
<1>3. ASSUME NEW j \in 1..(2 * Len(d))
      PROVE  t[j] \notin Whitespace /\ nibble_value(t[j]) # None
  <2>1. PICK n \in Int : 0 <= n /\ n <= 15 /\ t[j] = HexDigit(n, ten)
    BY <1>2 DEF IsHexDigit
  <2> HIDE DEF t
  <2>2. t[j] \notin Whitespace /\ nibble_value(t[j]) = n
    BY <2>1, HexDigits
  <2> QED BY <2>1, <2>2 DEF None
<1>4. Len(t) % 2 = 0 /\ Len(t) \div 2 = Len(d) /\ DOMAIN t = 1..(2 * Len(d))
  BY <1>1, <1>2
<1>5. ASSUME NEW i \in 1..Len(d)
      PROVE  16 * nibble_value(t[2 * i - 1]) + nibble_value(t[2 * i]) = d[i]
  <2>1. t[2 * i - 1] = HexDigit(d[i] \div 16, ten) /\ t[2 * i] = HexDigit(d[i] % 16, ten)
    BY HexHalves
  <2>2. /\ d[i] \div 16 \in Int /\ 0 <= d[i] \div 16 /\ d[i] \div 16 <= 15
        /\ d[i] % 16 \in Int /\ 0 <= d[i] % 16 /\ d[i] % 16 <= 15
        /\ 16 * (d[i] \div 16) + (d[i] % 16) = d[i]
    BY <1>1
  <2>3. nibble_value(t[2 * i - 1]) = d[i] \div 16 /\ nibble_value(t[2 * i]) = d[i] % 16
    BY <2>1, <2>2, HexDigits
  <2> QED BY <2>2, <2>3
<1> HIDE DEF t
<1>8. \A j \in DOMAIN t : nibble_value(t[j]) # None
  BY <1>3, <1>4
<1>6. decode_hex(t) = [i \in 1..Len(d) |-> d[i]]
  BY <1>4, <1>5, <1>8 DEF decode_hex
<1>7. Dense(t)
  BY <1>2, <1>3 DEF Dense
<1>9. d = [i \in 1..Len(d) |-> d[i]]
  BY DEF Octets
<1> QED
  BY <1>6, <1>7, <1>9 DEF t

(* So is a digit of base64; it is no whitespace and no padding.            *)
LEMMA B64Digits ==
  ASSUME NEW v \in Int, 0 <= v, v <= 63
  PROVE  /\ B64Char(v) \in Int /\ B64Char(v) \notin Whitespace \cup {Padding}
         /\ b64_value(B64Char(v)) = v
<1>1. CASE v < 26
  BY <1>1 DEF B64Char, b64_value, Whitespace, Space, Padding
<1>2. CASE 26 <= v /\ v <= 51
  <2>1. B64Char(v) = 97 + v - 26
    BY <1>2 DEF B64Char
  <2> QED BY <1>2, <2>1 DEF b64_value, Whitespace, Space, Padding
<1>3. CASE 52 <= v /\ v <= 61
  <2>1. B64Char(v) = 48 + v - 52
    BY <1>3 DEF B64Char
  <2> QED BY <1>3, <2>1 DEF b64_value, Whitespace, Space, Padding
<1>4. CASE v = 62
  BY <1>4 DEF B64Char, b64_value, Whitespace, Space, Padding
<1>5. CASE v = 63
  BY <1>5 DEF B64Char, b64_value, Whitespace, Space, Padding
<1> QED
  BY <1>1, <1>2, <1>3, <1>4, <1>5

Digit(d, j) == (Group(d, (j - 1) \div 4) \div PlaceValue[1 + ((j - 1) % 4)]) % 64

(* The four digits of three bytes.                                         *)
FourDigits(g, a, b, c) ==
    /\ (g \div 262144) % 64 = a \div 4
    /\ (g \div 4096) % 64 = 16 * (a % 4) + (b \div 16)
    /\ (g \div 64) % 64 = 4 * (b % 16) + (c \div 64)
    /\ (g \div 1) % 64 = c % 64

LEMMA DigitsOfThree ==
  ASSUME NEW a \in Int, 0 <= a, a <= 255, NEW b \in Int, 0 <= b, b <= 255,
         NEW c \in Int, 0 <= c, c <= 255, NEW g, g = 65536 * a + 256 * b + c
  PROVE  FourDigits(g, a, b, c)
  BY DEF FourDigits

LEMMA OctetOf ==
  ASSUME NEW d, Octets(d), NEW i \in Int, 1 <= i
  PROVE  /\ Octet(d, i) \in Int /\ 0 <= Octet(d, i) /\ Octet(d, i) <= 255
         /\ i <= Len(d) => Octet(d, i) = d[i]
<1>1. Len(d) \in Nat /\ \A k \in 1..Len(d) : d[k] \in Int
  BY DEF Octets
<1>2. i <= Len(d) => i \in 1..Len(d)
  BY <1>1
<1> QED
  BY <1>1, <1>2 DEF Octet, Octets

LEMMA GroupDigits ==
  ASSUME NEW d, Octets(d), NEW q \in Nat,
         NEW a, a = Octet(d, 3 * q + 1), NEW b, b = Octet(d, 3 * q + 2),
         NEW c, c = Octet(d, 3 * q + 3), NEW k, k = 4 * q
  PROVE  /\ Digit(d, k + 1) = a \div 4
         /\ Digit(d, k + 2) = 16 * (a % 4) + (b \div 16)
         /\ Digit(d, k + 3) = 4 * (b % 16) + (c \div 64)
         /\ Digit(d, k + 4) = c % 64
<1> DEFINE g == Group(d, q)
<1>1. /\ a \in Int /\ 0 <= a /\ a <= 255 /\ b \in Int /\ 0 <= b /\ b <= 255
      /\ c \in Int /\ 0 <= c /\ c <= 255
  BY OctetOf
<1>2. g = 65536 * a + 256 * b + c
  BY DEF Group
<1>3. FourDigits(g, a, b, c)
  <2> HIDE DEF g
  <2> QED BY <1>1, <1>2, DigitsOfThree
<1>4. /\ (k + 1 - 1) \div 4 = q /\ 1 + ((k + 1 - 1) % 4) = 1
      /\ (k + 2 - 1) \div 4 = q /\ 1 + ((k + 2 - 1) % 4) = 2
      /\ (k + 3 - 1) \div 4 = q /\ 1 + ((k + 3 - 1) % 4) = 3
      /\ (k + 4 - 1) \div 4 = q /\ 1 + ((k + 4 - 1) % 4) = 4
  OBVIOUS
<1>5. /\ PlaceValue[1] = 262144 /\ PlaceValue[2] = 4096
      /\ PlaceValue[3] = 64 /\ PlaceValue[4] = 1
  BY DEF PlaceValue
<1> HIDE DEF g
<1>6. /\ Digit(d, k + 1) = (g \div 262144) % 64
      /\ Digit(d, k + 2) = (g \div 4096) % 64
      /\ Digit(d, k + 3) = (g \div 64) % 64
      /\ Digit(d, k + 4) = (g \div 1) % 64
  BY <1>4, <1>5 DEF Digit, g
<1> QED
  BY <1>3, <1>6 DEF FourDigits

LEMMA DigitRange ==
  ASSUME NEW d, Octets(d), NEW j \in Int, 1 <= j
  PROVE  Digit(d, j) \in Int /\ 0 <= Digit(d, j) /\ Digit(d, j) <= 63
<1> DEFINE q == (j - 1) \div 4
           g == Group(d, q)
           p == PlaceValue[1 + ((j - 1) % 4)]
<1>1. q \in Nat
  OBVIOUS
<1>2. g \in Int
  <2>1. /\ 3 * q + 1 \in Int /\ 1 <= 3 * q + 1
        /\ 3 * q + 2 \in Int /\ 1 <= 3 * q + 2
        /\ 3 * q + 3 \in Int /\ 1 <= 3 * q + 3
    BY <1>1
  <2> HIDE DEF q
  <2>2. Octet(d, 3 * q + 1) \in Int /\ Octet(d, 3 * q + 2) \in Int /\ Octet(d, 3 * q + 3) \in Int
    BY <2>1, OctetOf
  <2> QED BY <2>2 DEF Group
<1>3. p \in {262144, 4096, 64, 1}
  <2>1. (j - 1) % 4 \in {0, 1, 2, 3}
    OBVIOUS
  <2> QED BY <2>1 DEF PlaceValue
<1>4. Digit(d, j) = (g \div p) % 64
  BY DEF Digit
<1> HIDE DEF g, p
<1>5. g \div p \in Int
  BY <1>2, <1>3
<1> QED
  BY <1>4, <1>5

(* How many digits so many bytes have.                                     *)
LEMMA DigitCount ==
  ASSUME NEW n \in Nat, NEW m, m = (8 * n + 5) \div 6
  PROVE  /\ m \in Nat /\ m % 4 # 1
         /\ 3 * (m \div 4) + TailBytes(m % 4) = n
         /\ \A q \in Nat : /\ 3 * q + 1 <= n => 4 * q + 2 <= m
                           /\ 3 * q + 2 <= n => 4 * q + 3 <= m
                           /\ 3 * q + 3 <= n => 4 * q + 4 <= m
<1> DEFINE r == n % 3
           k == n \div 3
<1>1. k \in Nat /\ r \in {0, 1, 2} /\ n = 3 * k + r
  OBVIOUS
<1> HIDE DEF r, k
<1>2. CASE r = 0
  <2>1. m = 4 * k /\ m % 4 = 0 /\ m \div 4 = k
    BY <1>1, <1>2
  <2> QED BY <1>1, <1>2, <2>1 DEF TailBytes
<1>3. CASE r = 1
  <2>1. m = 4 * k + 2 /\ m % 4 = 2 /\ m \div 4 = k
    BY <1>1, <1>3
  <2> QED BY <1>1, <1>3, <2>1 DEF TailBytes
<1>4. CASE r = 2
  <2>1. m = 4 * k + 3 /\ m % 4 = 3 /\ m \div 4 = k
    BY <1>1, <1>4
  <2> QED BY <1>1, <1>4, <2>1 DEF TailBytes
<1> QED
  BY <1>1, <1>2, <1>3, <1>4

LEMMA B64TextIsText ==
  ASSUME NEW d, Octets(d), NEW m, m = (8 * Len(d) + 5) \div 6
  PROVE  /\ m \in Nat
         /\ B64Text(d) \in Seq(Int) /\ Len(B64Text(d)) = m
         /\ \A j \in 1..m : /\ B64Text(d)[j] \notin Whitespace \cup {Padding}
                            /\ b64_value(B64Text(d)[j]) = Digit(d, j)
<1>1. Len(d) \in Nat
  BY DEF Octets
<1>2. m \in Nat
  BY <1>1, DigitCount
<1>3. B64Text(d) = [j \in 1..m |-> B64Char(Digit(d, j))]
  BY DEF B64Text, Digit
<1>4. ASSUME NEW j \in 1..m
      PROVE  /\ B64Char(Digit(d, j)) \in Int
             /\ B64Char(Digit(d, j)) \notin Whitespace \cup {Padding}
             /\ b64_value(B64Char(Digit(d, j))) = Digit(d, j)
  BY <1>2, DigitRange, B64Digits
<1>5. B64Text(d) \in [1..m -> Int]
  BY <1>3, <1>4
<1>6. B64Text(d) \in Seq(Int) /\ Len(B64Text(d)) = m
  BY <1>2, <1>5
<1> QED
  BY <1>2, <1>3, <1>4, <1>6

LEMMA OctetsAreSeq ==
  ASSUME NEW d, Octets(d)
  PROVE  /\ Len(d) \in Nat /\ d = [i \in 1..Len(d) |-> d[i]]
         /\ \A i \in 1..Len(d) : d[i] \in Int /\ 0 <= d[i] /\ d[i] <= 255
BY DEF Octets

(* The three bytes of four digits.                                         *)
ThreeBytes(w, x, y, z, a, b, c) ==
    /\ ((4 * w) % 256) + (x \div 16) = a
    /\ 16 * (x % 16) + (y \div 4) = b
    /\ 64 * (y % 4) + z = c

LEMMA ThreeOfFour ==
  ASSUME NEW a \in Int, 0 <= a, a <= 255, NEW b \in Int, 0 <= b, b <= 255,
         NEW c \in Int, 0 <= c, c <= 255,
         NEW w, w = a \div 4, NEW x, x = 16 * (a % 4) + (b \div 16),
         NEW y, y = 4 * (b % 16) + (c \div 64), NEW z, z = c % 64
  PROVE  ThreeBytes(w, x, y, z, a, b, c)
BY DEF ThreeBytes

LEMMA DecodesDigits ==
  ASSUME NEW d, Octets(d), Len(d) <= Capacity, NEW s, B64Chars(s) = B64Text(d)
  PROVE  decode_base64(s) = d
<1> DEFINE n == Len(d)
           m == (8 * n + 5) \div 6
           t == B64Chars(s)
           v(k) == b64_value(t[k])
           byte(i) ==
              LET k == 4 * ((i - 1) \div 3)
              IN  CASE i % 3 = 1 -> ((4 * v(k + 1)) % 256) + (v(k + 2) \div 16)
                    [] i % 3 = 2 -> 16 * (v(k + 2) % 16) + (v(k + 3) \div 4)
                    [] i % 3 = 0 -> 64 * (v(k + 3) % 4) + v(k + 4)
<1>1. n \in Nat /\ d = [i \in 1..n |-> d[i]]
  BY OctetsAreSeq
<1>2. /\ m \in Nat /\ Len(t) = m
      /\ \A k \in 1..m : v(k) = Digit(d, k) /\ v(k) # None
  <2>1. /\ m \in Nat /\ Len(t) = m
        /\ \A k \in 1..m : v(k) = Digit(d, k)
    BY B64TextIsText
  <2>2. \A k \in 1..m : Digit(d, k) # None
    BY <2>1, DigitRange DEF None
  <2> QED BY <2>1, <2>2
<1>3. /\ m % 4 # 1 /\ 3 * (m \div 4) + TailBytes(m % 4) = n
      /\ \A q \in Nat : /\ 3 * q + 1 <= n => 4 * q + 2 <= m
                        /\ 3 * q + 2 <= n => 4 * q + 3 <= m
                        /\ 3 * q + 3 <= n => 4 * q + 4 <= m
  <2> HIDE DEF n
  <2> QED BY <1>1, DigitCount
<1> HIDE DEF byte
<1>4. ASSUME NEW i \in 1..n
      PROVE  byte(i) = d[i]
  <2> HIDE DEF v
  <2> DEFINE q == (i - 1) \div 3
             k == 4 * q
             a == Octet(d, 3 * q + 1)
             b == Octet(d, 3 * q + 2)
             c == Octet(d, 3 * q + 3)
  <2>1. q \in Nat /\ k \in Nat /\ i \in Nat
    BY <1>1
  <2>2. /\ Digit(d, k + 1) = a \div 4
        /\ Digit(d, k + 2) = 16 * (a % 4) + (b \div 16)
        /\ Digit(d, k + 3) = 4 * (b % 16) + (c \div 64)
        /\ Digit(d, k + 4) = c % 64
    <3> HIDE DEF q
    <3> QED BY <2>1, GroupDigits
  <2>3. /\ a \in Int /\ 0 <= a /\ a <= 255 /\ b \in Int /\ 0 <= b /\ b <= 255
        /\ c \in Int /\ 0 <= c /\ c <= 255
    <3> HIDE DEF q
    <3>1. /\ 3 * q + 1 \in Int /\ 1 <= 3 * q + 1
          /\ 3 * q + 2 \in Int /\ 1 <= 3 * q + 2
          /\ 3 * q + 3 \in Int /\ 1 <= 3 * q + 3
      BY <2>1
    <3> QED BY <3>1, OctetOf
  <2> HIDE DEF a, b, c
  <2>4. ThreeBytes(Digit(d, k + 1), Digit(d, k + 2), Digit(d, k + 3), Digit(d, k + 4), a, b, c)
    BY <2>2, <2>3, ThreeOfFour
  <2>5. CASE i % 3 = 1
    <3>1. i = 3 * q + 1
      BY <2>1, <2>5
    <3>2. k + 2 <= m
      BY <1>3, <2>1, <3>1
    <3> HIDE DEF q
    <3>3. v(k + 1) = Digit(d, k + 1) /\ v(k + 2) = Digit(d, k + 2)
      BY <1>2, <2>1, <3>2
    <3>4. a = d[i]
      BY <2>1, <3>1, OctetOf DEF a
    <3>5. byte(i) = ((4 * v(k + 1)) % 256) + (v(k + 2) \div 16)
      BY <2>5 DEF byte, q
    <3> QED BY <2>4, <3>3, <3>4, <3>5 DEF ThreeBytes
  <2>6. CASE i % 3 = 2
    <3>1. i = 3 * q + 2
      BY <2>1, <2>6
    <3>2. k + 3 <= m
      BY <1>3, <2>1, <3>1
    <3> HIDE DEF q
    <3>3. v(k + 2) = Digit(d, k + 2) /\ v(k + 3) = Digit(d, k + 3)
      BY <1>2, <2>1, <3>2
    <3>4. b = d[i]
      BY <2>1, <3>1, OctetOf DEF b
    <3>5. byte(i) = 16 * (v(k + 2) % 16) + (v(k + 3) \div 4)
      BY <2>6 DEF byte, q
    <3> QED BY <2>4, <3>3, <3>4, <3>5 DEF ThreeBytes
  <2>7. CASE i % 3 = 0
    <3>1. i = 3 * q + 3
      BY <2>1, <2>7
    <3>2. k + 4 <= m
      BY <1>3, <2>1, <3>1
    <3> HIDE DEF q
    <3>3. v(k + 3) = Digit(d, k + 3) /\ v(k + 4) = Digit(d, k + 4)
      BY <1>2, <2>1, <3>2
    <3>4. c = d[i]
      BY <2>1, <3>1, OctetOf DEF c
    <3>5. byte(i) = 64 * (v(k + 3) % 4) + v(k + 4)
      BY <2>7 DEF byte, q
    <3> QED BY <2>4, <3>3, <3>4, <3>5 DEF ThreeBytes
  <2>8. i % 3 = 0 \/ i % 3 = 1 \/ i % 3 = 2
    BY <2>1
  <2> QED BY <2>5, <2>6, <2>7, <2>8
<1>5. decode_base64(s) = [i \in 1..n |-> byte(i)]
  <2> DEFINE count == 3 * (Len(t) \div 4) + TailBytes(Len(t) % 4)
  <2> HIDE DEF m, n, v
  <2>1. count <= Capacity /\ count = n
    BY <1>2, <1>3 DEF n
  <2>2. \A k \in 1..(IF Len(t) % 4 = 1 THEN Len(t) - 1 ELSE Len(t)) : v(k) # None
    BY <1>2, <1>3
  <2>3. decode_base64(s) = [i \in 1..count |-> byte(i)]
    BY <2>1, <2>2, Zenon DEF decode_base64, v, byte
  <2> QED BY <2>1, <2>3
<1> QED
  BY <1>1, <1>4, <1>5

(* What the loop of decode_base64 gets to see.                             *)
LEMMA UpToPadding ==
  ASSUME NEW t \in Seq(Int), \A j \in 1..Len(t) : t[j] # Padding,
         NEW s \in Seq(Int), Len(t) <= Len(s), \A j \in 1..Len(t) : s[j] = t[j],
         Len(t) < Len(s) => s[Len(t) + 1] = Padding
  PROVE  B64Chars(s) = t
<1> DEFINE m == Len(t)
           Ends(n) == /\ \A i \in 1..n : s[i] # Padding
                      /\ n < Len(s) => s[n + 1] = Padding
           c == CHOOSE n \in 0..Len(s) : Ends(n)
<1>1. m \in Nat /\ Len(s) \in Nat /\ m \in 0..Len(s)
  OBVIOUS
<1>2. Ends(m)
  OBVIOUS
<1>3. c \in 0..Len(s) /\ Ends(c)
  <2> HIDE DEF Ends, m
  <2> QED BY <1>1, <1>2
<1> HIDE DEF c
<1>4. ~(c < m)
  <2> SUFFICES ASSUME c < m
               PROVE  FALSE
    OBVIOUS
  <2>1. c + 1 \in 1..m /\ c < Len(s)
    BY <1>1, <1>3
  <2> QED BY <2>1, <1>2, <1>3
<1>5. ~(m < c)
  <2> SUFFICES ASSUME m < c
               PROVE  FALSE
    OBVIOUS
  <2>1. m + 1 \in 1..c /\ m < Len(s)
    BY <1>1, <1>3
  <2> QED BY <2>1, <1>2, <1>3
<1>6. c = m
  <2> HIDE DEF m
  <2> QED BY <1>1, <1>3, <1>4, <1>5
<1>7. B64Chars(s) = SubSeq(s, 1, c)
  BY DEF B64Chars, c
<1>8. SubSeq(s, 1, m) \in Seq(Int) /\ Len(SubSeq(s, 1, m)) = m
      /\ \A j \in 1..m : SubSeq(s, 1, m)[j] = t[j]
  BY <1>1, SubSeqProperties
<1> QED
  BY <1>6, <1>7, <1>8, SeqEqual

LEMMA PaddedText ==
  ASSUME NEW d, Octets(d), NEW t \in {B64Text(d), Padded(B64Text(d))}
  PROVE  /\ t \in Seq(Int) /\ Dense(t) /\ Len(B64Text(d)) <= Len(t)
         /\ B64Chars(t) = B64Text(d)
<1> DEFINE b == B64Text(d)
           m == Len(b)
<1>1. /\ m \in Nat /\ b \in Seq(Int)
      /\ \A j \in 1..m : b[j] \notin Whitespace \cup {Padding}
  BY B64TextIsText
<1> HIDE DEF b
<1>2. /\ t \in Seq(Int) /\ m <= Len(t) /\ \A j \in 1..m : t[j] = b[j]
      /\ \A j \in 1..Len(t) : j > m => t[j] = Padding
  <2>1. CASE t = b
    BY <1>1, <2>1
  <2>2. CASE t = Padded(b)
    <3> DEFINE k == (4 - (m % 4)) % 4
               pad == [i \in 1..k |-> Padding]
    <3>1. k \in Nat
      BY <1>1
    <3> HIDE DEF k
    <3>2. pad \in Seq(Int) /\ Len(pad) = k
      BY <3>1 DEF Padding
    <3>3. t = b \o pad
      BY <2>2 DEF Padded, k
    <3>4. \A i \in 1..k : pad[i] = Padding
      OBVIOUS
    <3> HIDE DEF pad
    <3>5. /\ t \in Seq(Int) /\ Len(t) = m + k
          /\ \A j \in 1..(m + k) : t[j] = IF j <= m THEN b[j] ELSE pad[j - m]
      BY <1>1, <3>1, <3>2, <3>3, ConcatProperties
    <3> HIDE DEF m
    <3>6. \A j \in 1..(m + k) : j > m => j - m \in 1..k
      BY <1>1, <3>1
    <3>7. m <= Len(t) /\ \A j \in 1..m : j \in 1..(m + k) /\ t[j] = b[j]
      BY <1>1, <3>1, <3>5
    <3>8. ASSUME NEW j \in 1..(m + k), j > m
          PROVE  t[j] = Padding
      <4>1. ~(j <= m) /\ j - m \in 1..k
        BY <1>1, <3>1, <3>6, <3>8
      <4>2. t[j] = pad[j - m]
        BY <3>5, <4>1
      <4> QED BY <3>4, <4>1, <4>2
    <3> QED BY <3>5, <3>7, <3>8
  <2> QED BY <2>1, <2>2 DEF b
<1>3. Dense(t)
  <2>1. \A j \in 1..Len(t) : j \in 1..m \/ j > m
    BY <1>1
  <2>2. Padding \notin Whitespace
    BY DEF Padding, Whitespace, Space
  <2> QED BY <1>1, <1>2, <2>1, <2>2 DEF Dense
<1>4. B64Chars(t) = b
  <2>1. \A j \in 1..m : b[j] # Padding
    BY <1>1
  <2>2. m < Len(t) => t[m + 1] = Padding
    BY <1>1, <1>2
  <2> QED BY <1>1, <1>2, <2>1, <2>2, UpToPadding
<1> QED
  BY <1>2, <1>3, <1>4 DEF b

(***************************************************************************)
(* Every way to write an announcement is decoded to its bytes.             *)
(***************************************************************************)
LEMMA NotNoBytes ==
  ASSUME NEW d, Octets(d), 1 <= Len(d)
  PROVE  d # NoBytes
<1>1. 1 \in 1..Len(d)
  BY OctetsAreSeq
<1>2. d[1] # -1
  BY <1>1, OctetsAreSeq
<1> QED
  BY <1>2 DEF NoBytes, None

HexTexts(d) == {HexText(d, 65), HexText(d, 97)}
B64Texts(d) == {B64Text(d), Padded(B64Text(d))}

(* Bytes that were written as hexadecimal digits, capital or small, or as  *)
(* base64, with or without padding, and with any whitespace anywhere, are  *)
(* what decode_announcement_payload returns; base64 that looks like        *)
(* hexadecimal digits is the exception.                                    *)
THEOREM EveryTextIsDecoded ==
  ASSUME NEW d, Octets(d), 1 <= Len(d), Len(d) <= Capacity,
         NEW t \in HexTexts(d) \cup B64Texts(d),
         NEW w \in Seq(Int), NEW f, Spread(t, w, f),
         t \in HexTexts(d) \/ ~LooksLikeHex(w)
  PROVE  decode_announcement_payload(w) = d
<1>1. d # NoBytes /\ Len(d) \in Nat
  BY NotNoBytes, OctetsAreSeq
<1>2. CASE t \in HexTexts(d)
  <2>1. PICK ten \in {65, 97} : t = HexText(d, ten)
    BY <1>2 DEF HexTexts
  <2>2. t \in Seq(Int) /\ Len(t) = 2 * Len(d) /\ Dense(t) /\ decode_hex(t) = d
    BY <2>1, HexTextIsText, HexRoundTrip
  <2>3. filtered(w) = t
    BY <2>2, BlanksAreIgnored
  <2>4. t # <<>>
    BY <1>1, <2>2
  <2> QED BY <1>1, <2>2, <2>3, <2>4 DEF decode_announcement_payload
<1>3. CASE t \in B64Texts(d) /\ ~LooksLikeHex(w)
  <2>1. /\ t \in Seq(Int) /\ Dense(t) /\ Len(B64Text(d)) <= Len(t)
        /\ decode_base64(t) = d
    BY <1>3, PaddedText, DecodesDigits DEF B64Texts
  <2>2. filtered(w) = t
    BY <2>1, BlanksAreIgnored
  <2>3. Len(B64Text(d)) >= 1
    <3>1. Len(B64Text(d)) = (8 * Len(d) + 5) \div 6
      BY B64TextIsText
    <3> QED BY <1>1, <3>1
  <2>4. t # <<>>
    BY <1>1, <2>1, <2>3
  <2>5. decode_hex(t) = NoBytes
    <3> SUFFICES ASSUME Len(t) % 2 = 0, \A i \in DOMAIN t : nibble_value(t[i]) # None
                 PROVE  FALSE
      BY DEF decode_hex
    <3>1. ASSUME NEW i \in DOMAIN t
          PROVE  t[i] \in (48..57) \cup (65..70) \cup (97..102)
      BY DEF nibble_value
    <3>2. LooksLikeHex(w)
      BY <2>2, <3>1 DEF LooksLikeHex
    <3> QED BY <1>3, <3>2
  <2> QED BY <1>1, <2>1, <2>2, <2>4, <2>5 DEF decode_announcement_payload
<1> QED
  BY <1>2, <1>3

(* A publication that carries bytes.                                       *)
Carries(p) ==
    /\ Octets(p.data) /\ 1 <= Len(p.data) /\ Len(p.data) <= Capacity
    /\ \/ p.encoding = "hex" /\ \E t \in HexTexts(p.data) : p.text \in WithBlank(t)
       \/ p.encoding = "base64" /\ \E t \in B64Texts(p.data) : p.text \in WithBlank(t)

PayloadInv ==
    message # NoMessage => result = NoBytes /\ Carries(message)

LEMMA BytesAreOctets ==
  ASSUME NEW n \in 1..MaxBytes, NEW d \in [1..n -> Bytes]
  PROVE  Octets(d) /\ Len(d) = n /\ n \in Nat /\ 1 <= n
<1>1. n \in Nat /\ 1 <= n
  BY PayloadAssumption
<1>2. \A b \in Bytes : b \in Int /\ 0 <= b /\ b <= 255
  BY PayloadAssumption
<1>3. \A i \in 1..n : d[i] \in Bytes
  OBVIOUS
<1>4. d \in [1..n -> Int]
  BY <1>2
<1>5. d \in Seq(Int) /\ Len(d) = n
  BY <1>1, <1>4
<1> QED
  BY <1>1, <1>2, <1>3, <1>5 DEF Octets

LEMMA AnnouncedCarries == Announced => Carries(message')
<1> SUFFICES ASSUME Announced
             PROVE  Carries(message')
  OBVIOUS
<1>1. PICK d \in UNION {[1..n -> Bytes] : n \in 1..MaxBytes} :
        \/ \E t \in WithBlank(HexText(d, 65)) \cup WithBlank(HexText(d, 97)) :
                message' = [data |-> d, encoding |-> "hex", text |-> t]
        \/ \E t \in WithBlank(B64Text(d)) \cup WithBlank(Padded(B64Text(d))) :
                message' = [data |-> d, encoding |-> "base64", text |-> t]
  BY DEF Announced
<1>2. PICK n \in 1..MaxBytes : d \in [1..n -> Bytes]
  OBVIOUS
<1>3. Octets(d) /\ Len(d) = n /\ n \in Nat /\ 1 <= n
  BY <1>2, BytesAreOctets
<1>4. Len(message'.text) <= Capacity /\ Capacity \in Nat
  BY PayloadAssumption DEF Announced
<1>5. CASE \E t \in WithBlank(HexText(d, 65)) \cup WithBlank(HexText(d, 97)) :
              message' = [data |-> d, encoding |-> "hex", text |-> t]
  <2>0. PICK ten \in {65, 97} :
          \E w \in WithBlank(HexText(d, ten)) :
              message' = [data |-> d, encoding |-> "hex", text |-> w]
    BY <1>5
  <2>1. PICK w \in WithBlank(HexText(d, ten)) :
          message' = [data |-> d, encoding |-> "hex", text |-> w]
    BY <2>0
  <2>2. Len(HexText(d, ten)) = 2 * n /\ HexText(d, ten) \in Seq(Int)
    BY <1>3, HexTextIsText
  <2>3. 2 * n <= Len(w) /\ w \in Seq(Int)
    BY <2>1, <2>2, OneBlank
  <2>4. n <= Capacity
    BY <1>3, <1>4, <2>1, <2>3
  <2> QED BY <1>3, <2>1, <2>4 DEF Carries, HexTexts
<1>6. CASE \E t \in WithBlank(B64Text(d)) \cup WithBlank(Padded(B64Text(d))) :
              message' = [data |-> d, encoding |-> "base64", text |-> t]
  <2>0. PICK t \in B64Texts(d) :
          \E w \in WithBlank(t) :
              message' = [data |-> d, encoding |-> "base64", text |-> w]
    BY <1>6 DEF B64Texts
  <2>1. PICK w \in WithBlank(t) :
          message' = [data |-> d, encoding |-> "base64", text |-> w]
    BY <2>0
  <2>2. Len(B64Text(d)) = (8 * n + 5) \div 6
    BY <1>3, B64TextIsText
  <2>3. t \in Seq(Int) /\ Len(B64Text(d)) <= Len(t)
    BY <1>3, PaddedText DEF B64Texts
  <2>4. Len(t) <= Len(w) /\ w \in Seq(Int)
    BY <2>1, <2>3, OneBlank
  <2>5. n <= Capacity
    BY <1>3, <1>4, <2>1, <2>2, <2>3, <2>4
  <2> QED BY <1>3, <2>1, <2>5 DEF Carries
<1> QED
  BY <1>1, <1>5, <1>6

LEMMA CarriedIsDecoded ==
  ASSUME NEW p, Carries(p), p.encoding = "base64" => ~LooksLikeHex(p.text)
  PROVE  decode_announcement_payload(p.text) = p.data
<1> DEFINE d == p.data
           w == p.text
<1>1. Octets(d) /\ 1 <= Len(d) /\ Len(d) <= Capacity
  BY DEF Carries
<1>2. PICK t \in HexTexts(d) \cup B64Texts(d) :
        w \in WithBlank(t) /\ (t \in HexTexts(d) \/ ~LooksLikeHex(w))
  BY DEF Carries
<1> HIDE DEF d, w
<1>3. t \in Seq(Int)
  BY <1>1, HexTextIsText, PaddedText DEF HexTexts, B64Texts
<1>4. w \in Seq(Int) /\ \E f : Spread(t, w, f)
  BY <1>2, <1>3, OneBlank
<1>5. decode_announcement_payload(w) = d
  BY <1>1, <1>2, <1>4, EveryTextIsDecoded
<1> QED
  BY <1>5 DEF d, w

LEMMA PayloadStep ==
  ASSUME PayloadInv, [PayloadNext]_payloadVars
  PROVE  PayloadInv'
<1>1. CASE Announced
  <2>1. Carries(message')
    BY <1>1, AnnouncedCarries
  <2>2. result' = NoBytes
    BY <1>1 DEF Announced
  <2> QED BY <2>1, <2>2 DEF PayloadInv, Carries, Octets
<1>2. CASE Decode
  BY <1>2 DEF PayloadInv, Decode
<1>3. CASE Play
  BY <1>3 DEF PayloadInv, Play
<1>4. CASE UNCHANGED payloadVars
  BY <1>4 DEF PayloadInv, payloadVars
<1> QED
  BY <1>1, <1>2, <1>3, <1>4 DEF PayloadNext

(* What is played is what was announced, for any bytes and any capacity.   *)
THEOREM AnnouncementsAreDecoded == PayloadSpec => AnnouncedIsDecoded
<1> DEFINE Right ==
        message # NoMessage /\ (message.encoding = "base64" => ~LooksLikeHex(message.text))
          => result' = message.data
<1>1. PayloadInit => PayloadInv
  BY DEF PayloadInit, PayloadInv
<1>2. PayloadInv /\ [PayloadNext]_payloadVars => PayloadInv'
  BY PayloadStep
<1>3. ASSUME PayloadInv, PayloadNext
      PROVE  Right
  <2> SUFFICES ASSUME message # NoMessage,
                      message.encoding = "base64" => ~LooksLikeHex(message.text)
               PROVE  result' = message.data
    OBVIOUS
  <2>1. result = NoBytes /\ Carries(message)
    BY <1>3 DEF PayloadInv
  <2>2. Decode
    BY <1>3, <2>1 DEF PayloadNext, Announced, Play
  <2> QED BY <2>1, <2>2, CarriedIsDecoded DEF Decode
<1>4. PayloadInv /\ [PayloadNext]_payloadVars => [Right]_payloadVars
  BY <1>3
<1> QED
  BY <1>1, <1>2, <1>4, PTL DEF PayloadSpec, AnnouncedIsDecoded
=============================================================================
