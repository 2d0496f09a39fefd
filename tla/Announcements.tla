--------------------------- MODULE Announcements ---------------------------
(***************************************************************************)
(* How the audio task plays a decoded announcement: it hands the bytes to  *)
(* AnnouncementStream chunk by chunk and, after each chunk, moves what the *)
(* ring buffer holds through the DMA buffer to the I2S port.  The stream   *)
(* lives as long as the task.                                              *)
(*                                                                         *)
(* A byte is <<a, i>>: byte i of announcement a.                           *)
(***************************************************************************)
EXTENDS Integers, Sequences

CONSTANTS
    BufferSize,         \* AnnouncementStream.buffer
    DmaSize,            \* AUDIO_DMA_BUF_SIZE, the length of tx_buf
    HeaderLen,          \* AnnouncementStream.header_bytes
    ChunkSize,          \* the audio task's slices of an announcement
    MaxSize,            \* bound: bytes in an announcement
    MaxAnnouncements,   \* bound: announcements
    MaxFaults           \* bound: DMA transfers that fail

ASSUME AnnouncementsAssumption ==
    /\ HeaderLen \in Nat \ {0}
    /\ ChunkSize \in Nat \ {0}
    /\ BufferSize \in Nat /\ ChunkSize <= BufferSize
    /\ DmaSize \in Nat /\ ChunkSize <= DmaSize
    /\ MaxSize \in Nat /\ MaxAnnouncements \in Nat /\ MaxFaults \in Nat

VARIABLES
    buffer,         \* the ring buffer
    head,           \* slot of its oldest byte
    len,            \* bytes in it
    header_len,     \* header bytes seen
    header_parsed,  \* the header has been seen
    tx,             \* what the DMA transfer under way sends
    spc,            \* where play_announcement_chunk is
    ann,            \* number of the current announcement
    size,           \* bytes in it
    offset,         \* bytes of it given to the stream
    heard,          \* history: what the last DMA transfer sent
    faults          \* failed transfers so far

streamVars == <<buffer, head, len, header_len, header_parsed>>
vars == <<streamVars, tx, spc, ann, size, offset, heard, faults>>

Slots == 0..(BufferSize - 1)
Byte == Nat \X Nat
NoByte == <<0, 0>>

Slot(i) == i % BufferSize

Least(a, b) == IF a <= b THEN a ELSE b

TypeOK ==
    /\ buffer \in [Slots -> Byte]
    /\ head \in Slots
    /\ len \in 0..BufferSize
    /\ header_len \in 0..HeaderLen
    /\ header_parsed \in BOOLEAN
    /\ tx \in Seq(Byte) /\ Len(tx) <= DmaSize
    /\ spc \in {"idle", "push", "take", "write"}
    /\ ann \in 0..MaxAnnouncements
    /\ size \in 0..MaxSize
    /\ offset \in 0..size
    /\ heard \in Seq(Byte)
    /\ faults \in 0..MaxFaults

(* Audio::new, and AnnouncementStream::new at the first chunk.             *)
Init ==
    /\ buffer = [s \in Slots |-> NoByte]
    /\ head = 0
    /\ len = 0
    /\ header_len = 0
    /\ header_parsed = FALSE
    /\ tx = <<>>
    /\ spc = "idle"
    /\ ann = 0
    /\ size = 0
    /\ offset = 0
    /\ heard = <<>>
    /\ faults = 0

-----------------------------------------------------------------------------
(* AudioCommand::PlayAnnouncement whose payload decodes to n bytes.        *)
Announce(n) ==
    /\ spc = "idle"
    /\ ann < MaxAnnouncements
    /\ ann' = ann + 1
    /\ size' = n
    /\ offset' = 0
    /\ spc' = "push"
    /\ UNCHANGED <<streamVars, tx, heard, faults>>

(* Mutant of push_chunk: the free slots are taken to start at slot len.    *)
push_chunk_headless ==
    /\ spc = "push"
    /\ LET n == Least(ChunkSize, size - offset)
           stored == Least(n, BufferSize - len)
       IN  /\ buffer' = [s \in Slots |->
                IF \E j \in 0..(stored - 1) : s = Slot(len + j)
                THEN <<ann, offset + 1 + CHOOSE j \in 0..(stored - 1) : s = Slot(len + j)>>
                ELSE buffer[s]]
           /\ len' = len + stored
           /\ offset' = offset + n
    /\ spc' = "take"
    /\ UNCHANGED <<head, header_len, header_parsed, tx, ann, size, heard, faults>>

(* Mutant of push_chunk: the last chunk counts as a whole one.             *)
push_chunk_rounded ==
    /\ spc = "push"
    /\ LET n == Least(ChunkSize, size - offset)
           stored == Least(n, BufferSize - len)
       IN  /\ buffer' = [s \in Slots |->
                IF \E j \in 0..(stored - 1) : s = Slot(head + len + j)
                THEN <<ann, offset + 1 + CHOOSE j \in 0..(stored - 1) : s = Slot(head + len + j)>>
                ELSE buffer[s]]
           /\ len' = len + stored
           /\ offset' = offset + ChunkSize
    /\ spc' = "take"
    /\ UNCHANGED <<head, header_len, header_parsed, tx, ann, size, heard, faults>>

(* The next chunk: byte j of it goes into the j-th free slot; bytes there  *)
(* is no room for are dropped.                                             *)
push_chunk ==
    /\ spc = "push"
    /\ LET n == Least(ChunkSize, size - offset)
           stored == Least(n, BufferSize - len)
       IN  /\ buffer' = [s \in Slots |->
                IF \E j \in 0..(stored - 1) : s = Slot(head + len + j)
                THEN <<ann, offset + 1 + CHOOSE j \in 0..(stored - 1) : s = Slot(head + len + j)>>
                ELSE buffer[s]]
           /\ len' = len + stored
           /\ offset' = offset + n
    /\ spc' = "take"
    /\ UNCHANGED <<head, header_len, header_parsed, tx, ann, size, heard, faults>>

(* The header bytes take_bytes removes first.                              *)
Skipped == IF header_parsed THEN 0 ELSE Least(HeaderLen - header_len, len)

HeaderComplete == header_parsed \/ header_len + Skipped >= HeaderLen

(* How many bytes take_bytes returns.                                      *)
Taken == IF HeaderComplete THEN Least(len - Skipped, DmaSize) ELSE 0

(* take_one, n times.                                                      *)
Advance(n) ==
    /\ head' = Slot(head + n)
    /\ len' = len - n

(* Mutant of take_bytes: the call that completes the header returns        *)
(* nothing.                                                                *)
take_bytes_late ==
    /\ spc = "take"
    /\ header_len' = header_len + Skipped
    /\ header_parsed' = HeaderComplete
    /\ LET count == IF header_parsed THEN Taken ELSE 0
       IN  /\ Advance(Skipped + count)
           /\ tx' = [i \in 1..count |-> buffer[Slot(head + Skipped + i - 1)]]
           /\ spc' = IF count > 0 THEN "write" ELSE IF offset < size THEN "push" ELSE "idle"
    /\ UNCHANGED <<buffer, ann, size, offset, heard, faults>>

(* Mutant of take_bytes: the bytes are copied and not removed.             *)
take_bytes_copied ==
    /\ spc = "take"
    /\ header_len' = header_len + Skipped
    /\ header_parsed' = HeaderComplete
    /\ Advance(Skipped)
    /\ tx' = [i \in 1..Taken |-> buffer[Slot(head + Skipped + i - 1)]]
    /\ spc' = IF Taken > 0 THEN "write" ELSE IF offset < size THEN "push" ELSE "idle"
    /\ UNCHANGED <<buffer, ann, size, offset, heard, faults>>

(* The loop ends when nothing is returned; then comes the next chunk.      *)
take_bytes ==
    /\ spc = "take"
    /\ header_len' = header_len + Skipped
    /\ header_parsed' = HeaderComplete
    /\ Advance(Skipped + Taken)
    /\ tx' = [i \in 1..Taken |-> buffer[Slot(head + Skipped + i - 1)]]
    /\ spc' = IF Taken > 0 THEN "write" ELSE IF offset < size THEN "push" ELSE "idle"
    /\ UNCHANGED <<buffer, ann, size, offset, heard, faults>>

(* write_dma_async returns.                                                *)
Written ==
    /\ spc = "write"
    /\ heard' = tx
    /\ tx' = <<>>
    /\ spc' = "take"
    /\ UNCHANGED <<streamVars, ann, size, offset, faults>>

(* AudioError::I2sError: the audio task breaks out of its loop.  The port  *)
(* may have sent the first bytes.                                          *)
WriteFails ==
    /\ spc = "write"
    /\ faults < MaxFaults
    /\ faults' = faults + 1
    /\ \E n \in 0..Len(tx) : heard' = [i \in 1..n |-> tx[i]]
    /\ tx' = <<>>
    /\ spc' = "idle"
    /\ UNCHANGED <<streamVars, ann, size, offset>>

PlayChunk == push_chunk \/ take_bytes \/ Written \/ WriteFails

Next == (\E n \in 1..MaxSize : Announce(n)) \/ PlayChunk

Spec == Init /\ [][Next]_vars

(* The task runs on and every DMA transfer ends, well or badly.            *)
FairSpec == Spec /\ WF_vars(PlayChunk)
-----------------------------------------------------------------------------
(* Bytes of the current announcement not played or skipped yet.            *)
Left == IF spc = "idle" THEN len ELSE (size - offset) + len + Len(tx)

Feed == INSTANCE AnnouncementFeed WITH
            left <- Left, header <- HeaderLen - header_len

(* The ring buffer, the chunks and the DMA buffer are invisible: each      *)
(* transfer sends exactly the next bytes of the announcement, none dropped *)
(* for want of room, doubled, out of place or of an announcement before,   *)
(* even when transfers fail.                                               *)
ImplementsFeed == Feed!Spec

(* No announcement leaves bytes behind that the next one would start with, *)
(* whichever transfer failed.                                              *)
NothingLeftBehind == spc = "idle" => len = 0 /\ tx = <<>>

(* Every announcement is over some time, so the audio task gets back to    *)
(* its queues.                                                             *)
AnnouncementEnds == (spc # "idle") ~> (spc = "idle")

(* The stream skips the WAV header, of every announcement.                 *)
HeaderNotPlayed == \A i \in DOMAIN tx : tx[i][2] > HeaderLen
=============================================================================
