--------------------------- MODULE BodyParserProofs ---------------------------
(***************************************************************************)
(* The buffer positions of the body parsers are consistent, and no state   *)
(* jam occurs, whatever is sent and however it is cut up.                  *)
(***************************************************************************)
EXTENDS BodyParser, TLAPS, SequenceTheorems, NaturalsInduction, WellFoundedInduction

ClaimedStates ==
    {"FORWARD_INCOMPLETE_CHUNK", "FORWARD_COMPLETE_CHUNK",
     "INCOMPLETE_MESSAGE_BODY_FORWARD", "COMPLETE_MESSAGE_BODY_FORWARD"}
PartialStates == {"FORWARD_INCOMPLETE_CHUNK", "INCOMPLETE_MESSAGE_BODY_FORWARD"}
SyncedStates ==
    {"PARSE_HEADER", "PUSH_HEADER", "NONE", "PARSE_CHUNKSIZE_LF", "PARSE_TRAILER_CR",
     "PARSE_TRAILER_LF", "FORWARD_TRAILER_CRLF"}
ParseStates ==
    {"PARSE_HEADER", "NONE", "PARSE_CHUNKSIZE", "PARSE_CHUNKSIZE_LF", "PARSE_CHUNK",
     "PARSE_TRAILER_CR", "PARSE_TRAILER_LF", "MESSAGE_BODY_PARSE"}
States ==
    ClaimedStates \cup SyncedStates \cup ParseStates \cup {"FORWARD_CHUNKSIZE", "END_CONNECTION"}

TypeInv ==
    /\ pc \in {"read", "again", "parse", "idle", "blocked", "denied", "aborted"}
    /\ input \in Inputs /\ done \in Nat
    /\ unread \in Seq(STRING) /\ raw \in Seq(STRING)
    /\ process_position \in Nat /\ write_position \in Nat /\ write_end_position \in Nat
    /\ state \in States
    /\ chunksize \in Nat /\ content_length \in Nat /\ current_length \in Nat
    /\ ready_to_read \in BOOLEAN /\ ready_to_write \in BOOLEAN

(* Where nothing of the buffer is waiting to be written, the write position has
   caught up with the parser. *)
Synced == state \in SyncedStates => write_position = process_position

(***************************************************************************)
(* A claimed part ends where the parser stands, and an empty one is        *)
(* written at once: it never waits, so the buffer is not read over it.     *)
(***************************************************************************)
ClaimKept ==
    /\ state \in ClaimedStates =>
         /\ write_end_position = process_position
         /\ write_position <= write_end_position
         /\ write_position = write_end_position => ready_to_write /\ pc = "parse"
    /\ state \in PartialStates => process_position = Len(raw)

(* A parser only goes on once the destination has taken all it was given. *)
ReadyToParse == state \in ParseStates => ready_to_write

(* A chunk size waiting to be written keeps the line feed behind it unread. *)
SizeKept ==
    state = "FORWARD_CHUNKSIZE" =>
        /\ write_position < Len(raw) /\ write_position <= process_position
        /\ write_end_position <= process_position \/ write_end_position = Len(raw)

(* The end of the part to write is that of the buffer, or already passed. *)
EndPassed ==
    /\ state \in SyncedStates =>
         write_end_position = Len(raw) \/ write_end_position <= write_position
    /\ state \in {"PUSH_HEADER", "END_CONNECTION"} =>
         write_end_position = Len(raw) \/ write_end_position < write_position

(* No more is claimed than the chunk or the body has. *)
LengthKept ==
    /\ state \in {"PARSE_CHUNKSIZE", "PARSE_CHUNKSIZE_LF", "FORWARD_CHUNKSIZE"} => current_length = 0
    /\ state \in {"PARSE_CHUNK", "FORWARD_INCOMPLETE_CHUNK"} => current_length <= chunksize
    /\ state \in {"MESSAGE_BODY_PARSE", "INCOMPLETE_MESSAGE_BODY_FORWARD"} =>
         current_length <= content_length
    /\ state = "PUSH_HEADER" => done < Len(input)

(* The inductive invariant. *)
IInv ==
    /\ TypeInv /\ PositionsOK
    /\ Synced /\ ClaimKept /\ ReadyToParse /\ SizeKept /\ EndPassed /\ LengthKept
    /\ NoJam

-----------------------------------------------------------------------------
(* non_blocking_write() returns COMPLETE only when it has taken everything, and
   otherwise leaves the destination marked as not ready. *)
LEMMA WriteResult ==
    ASSUME TypeInv, NEW us, NEW k, NEW r, Len(us) \in Nat, us = <<>> => Len(us) = 0,
           Write(us, k, r)
    PROVE  \/ r = "COMPLETE" /\ k = Len(us) /\ ready_to_write /\ ready_to_write' = ready_to_write
           \/ r = "INCOMPLETE" /\ ~ready_to_write' /\ ready_to_write' \in BOOLEAN
              /\ ((~ready_to_write /\ k = 0) \/ k < Len(us))
  <1>1. CASE ~ready_to_write /\ k = 0 /\ r = "INCOMPLETE" /\ ready_to_write' = ready_to_write
    BY <1>1 DEF TypeInv
  <1>2. CASE ready_to_write /\ us = <<>> /\ k = 0 /\ r = "COMPLETE" /\ ready_to_write' = ready_to_write
    BY <1>2
  <1>3. CASE ready_to_write /\ k = Len(us) /\ r = "COMPLETE" /\ ready_to_write' = ready_to_write
    BY <1>3
  <1>4. CASE k < Len(us) /\ r = "INCOMPLETE" /\ ready_to_write' = FALSE
    BY <1>4
  <1> QED  BY <1>1, <1>2, <1>3, <1>4 DEF Write, WouldBlock

(* The same, of whatever is written. *)
LEMMA WriteFlag ==
    ASSUME TypeInv, NEW us, NEW k, NEW r, Write(us, k, r)
    PROVE  ready_to_write' \in BOOLEAN /\ (r = "COMPLETE" => ready_to_write')
  <1>1. CASE ~ready_to_write /\ r = "INCOMPLETE" /\ ready_to_write' = ready_to_write
    BY <1>1 DEF TypeInv
  <1>2. CASE ready_to_write /\ ready_to_write' = ready_to_write
    BY <1>2 DEF TypeInv
  <1>3. CASE r = "INCOMPLETE" /\ ready_to_write' = FALSE
    BY <1>3
  <1> QED  BY <1>1, <1>2, <1>3 DEF Write, WouldBlock

(* A digit has a value. *)
LEMMA HexDigit ==
    ASSUME NEW b, IsHex(b)
    PROVE  HexValue(b) \in Nat
  <1>1. \E v \in 0 .. 15 : IsDigit(b, v)
    BY DEF IsHex
  <1>2. HexValue(b) \in 0 .. 15
    BY <1>1, Zenon DEF HexValue
  <1> QED  BY <1>2

(* The part to write has the length its two positions say. *)
LEMMA ClaimedLength ==
    ASSUME TypeInv, PositionsOK
    PROVE  /\ Len(Claimed) \in Nat
           /\ Claimed = <<>> => Len(Claimed) = 0
           /\ write_position <= write_end_position =>
                Len(Claimed) = write_end_position - write_position
           /\ write_end_position <= write_position => Len(Claimed) = 0
  BY DEF TypeInv, PositionsOK, Claimed

(* The positions of a claim, of which no more is there than the limit. *)
LEMMA ClaimResult ==
    ASSUME TypeInv, PositionsOK, NEW limit \in Nat, current_length <= limit, Claim(limit)
    PROVE  /\ write_position' = process_position
           /\ process_position' \in process_position .. Len(raw)
           /\ write_end_position' = process_position'
           /\ current_length' \in current_length .. limit
           /\ current_length' < limit => process_position' = Len(raw)
  BY DEF TypeInv, PositionsOK, Claim

-----------------------------------------------------------------------------
USE DEF ClaimedStates, PartialStates, SyncedStates, ParseStates, States

(* A new buffer is read only when nothing of the old one is kept. *)
LEMMA ReadKeeps ==
    ASSUME IInv, ReadData \/ ReadNothing
    PROVE  IInv'
  <1>1. Reading /\ FullyWritten /\ pc' = "parse" /\ process_position' = 0 /\ write_position' = 0
    BY DEF ReadData, ReadNothing
  <1>2. state \notin ClaimedStates /\ state # "FORWARD_CHUNKSIZE"
    BY <1>1 DEF IInv, TypeInv, PositionsOK, ClaimKept, SizeKept, FullyWritten, Reading
  <1>3. UNCHANGED <<input, done, state, chunksize, content_length, current_length, ready_to_write>>
    BY DEF ReadData, ReadNothing, sizeVars, destVars
  <1>4. /\ unread' \in Seq(STRING) /\ raw' \in Seq(STRING) /\ ready_to_read' \in BOOLEAN
        /\ Len(raw') <= BufLength /\ write_end_position' = Len(raw')
    <2>1. CASE ReadData
      BY <2>1, BodyAssumption DEF ReadData, IInv, TypeInv
    <2>2. CASE ReadNothing
      BY <2>2, BodyAssumption DEF ReadNothing, IInv, TypeInv
    <2> QED  BY <2>1, <2>2
  <1>5. TypeInv'
    BY <1>1, <1>3, <1>4 DEF IInv, TypeInv
  <1>6. PositionsOK'
    BY <1>1, <1>4, <1>5 DEF PositionsOK, TypeInv
  <1> QED  BY <1>1, <1>2, <1>3, <1>4, <1>5, <1>6
           DEF IInv, Synced, ClaimKept, ReadyToParse, SizeKept, EndPassed, LengthKept, NoJam

(* The steps that only change where handle_stream() is, or the destination. *)
LEMMA LoopKeeps ==
    ASSUME IInv, SkipRead \/ Drain \/ Readable \/ Writable
    PROVE  IInv'
  <1>1. UNCHANGED <<input, unread, raw, done, posVars, state, chunksize, content_length,
                    current_length>>
    BY DEF SkipRead, Drain, Readable, Writable, readVars, sizeVars
  <1>2. /\ pc' = pc \/ (pc # "parse" /\ pc' \in {"parse", "read"})
        /\ ready_to_read' \in BOOLEAN /\ ready_to_write' \in BOOLEAN
        /\ ready_to_write => ready_to_write'
    BY DEF SkipRead, Drain, Readable, Writable, Reading, Waiting, readVars, destVars, IInv, TypeInv
  <1>3. TypeInv' /\ PositionsOK'
    BY <1>1, <1>2 DEF IInv, TypeInv, PositionsOK, posVars
  <1>4. ClaimKept'
    BY <1>1, <1>2 DEF IInv, TypeInv, ClaimKept, posVars
  <1> QED  BY <1>1, <1>2, <1>3, <1>4
           DEF IInv, Synced, ReadyToParse, SizeKept, EndPassed, LengthKept, NoJam, FullyWritten, posVars

-----------------------------------------------------------------------------
(* The values parse_body() may return are those handle_stream() knows. *)
LEMMA ReturnsWhere ==
    ASSUME TypeInv, NEW r, Returns(r)
    PROVE  /\ pc' \in {"again", "idle", "blocked", "denied"}
           /\ r = "INCOMPLETE" => pc' \in {"again", "idle"}
           /\ r = "WRITE_INCOMPLETE" => pc' = "blocked"
           /\ r = "INVALID" => pc' = "denied"
  BY DEF TypeInv, Returns

(* A header in the buffer moves the write position along with the parser. *)
LEMMA HeaderKeeps ==
    ASSUME IInv, ParseHeader
    PROVE  IInv'
  <1>0. UNCHANGED <<done, input, unread, raw, ready_to_read, chunksize, content_length,
                    current_length, ready_to_write>> /\ state = "PARSE_HEADER" /\ pc = "parse"
    BY DEF ParseHeader, Parsing, readVars, sizeVars, destVars
  <1>1. CASE AtEnd /\ Returns("INCOMPLETE") /\ UNCHANGED <<state, posVars>>
    BY <1>0, <1>1, ReturnsWhere
       DEF IInv, TypeInv, PositionsOK, Synced, ClaimKept, ReadyToParse, SizeKept, EndPassed,
           LengthKept, NoJam, FullyWritten, AtEnd, posVars
  <1>2. CASE /\ ~AtEnd /\ AtHeader
             /\ Advance /\ write_position' = process_position + 1
             /\ GoTo("PUSH_HEADER")
             /\ UNCHANGED write_end_position
    BY <1>0, <1>2
       DEF IInv, TypeInv, PositionsOK, Synced, ClaimKept, ReadyToParse, SizeKept, EndPassed,
           LengthKept, NoJam, FullyWritten, AtEnd, AtHeader, Advance, GoTo
  <1>3. CASE Returns("INVALID") /\ UNCHANGED <<state, posVars>>
    BY <1>0, <1>3, ReturnsWhere
       DEF IInv, TypeInv, PositionsOK, Synced, ClaimKept, ReadyToParse, SizeKept, EndPassed,
           LengthKept, NoJam, FullyWritten, AtEnd, posVars
  <1> QED  BY <1>1, <1>2, <1>3 DEF ParseHeader

(* The body parser starts only once the header is out. *)
LEMMA PushKeeps ==
    ASSUME IInv, PushHeader
    PROVE  IInv'
  <1>0. UNCHANGED <<done, input, unread, raw, ready_to_read, posVars>>
        /\ state = "PUSH_HEADER" /\ pc = "parse"
    BY DEF PushHeader, Parsing, readVars
  <1>1. PICK k \in 0 .. Len(Header), r \in {"COMPLETE", "INCOMPLETE"} :
            /\ Write(text["header"], k, r)
            /\ \/ /\ r = "COMPLETE"
                  /\ GoTo(FirstState(input[done + 1].enc))
                  /\ ResetChunk
                  /\ content_length' = Len(Data(input[done + 1]))
               \/ /\ r = "INCOMPLETE"
                  /\ Returns("WRITE_INCOMPLETE")
                  /\ UNCHANGED <<state, sizeVars, content_length, current_length>>
    BY DEF PushHeader
  <1>2. /\ ready_to_write' \in BOOLEAN
        /\ r = "COMPLETE" => ready_to_write'
    BY <1>1, WriteFlag DEF IInv
  <1>3. CASE r = "COMPLETE"
    <2>1. /\ pc' = pc /\ chunksize' = 0 /\ current_length' = 0
          /\ state' \in {"PARSE_CHUNKSIZE", "MESSAGE_BODY_PARSE", "END_CONNECTION", "NONE"}
      BY <1>1, <1>3 DEF GoTo, ResetChunk, FirstState
    <2>2. content_length' \in Nat
      BY <1>1, <1>3, InputsAssumption DEF IInv, TypeInv, LengthKept, PushHeader, Parsing
    <2> QED  BY <1>0, <1>2, <1>3, <2>1, <2>2
             DEF IInv, TypeInv, PositionsOK, Synced, ClaimKept, ReadyToParse, SizeKept, EndPassed,
                 LengthKept, NoJam, FullyWritten, posVars
  <1>4. CASE r = "INCOMPLETE"
    <2>1. pc' = "blocked" /\ UNCHANGED <<state, chunksize, content_length, current_length>>
      BY <1>1, <1>4, ReturnsWhere DEF IInv, sizeVars
    <2> QED  BY <1>0, <1>2, <2>1
             DEF IInv, TypeInv, PositionsOK, Synced, ClaimKept, ReadyToParse, SizeKept, EndPassed,
                 LengthKept, NoJam, FullyWritten, posVars
  <1> QED  BY <1>1, <1>3, <1>4

(* A message without a body leaves the buffer to the next header. *)
LEMMA EndMessageKeeps ==
    ASSUME IInv, EndMessage
    PROVE  IInv'
  BY DEF EndMessage, Parsing, CompleteMessage, GoTo, readVars, posVars, sizeVars, destVars,
         IInv, TypeInv, PositionsOK, Synced, ClaimKept, ReadyToParse, SizeKept, EndPassed,
         LengthKept, NoJam

-----------------------------------------------------------------------------
(* chunked_body_parser: a size line is passed over as it is parsed. *)
LEMMA ChunkSizeKeeps ==
    ASSUME IInv, ParseChunkSize
    PROVE  IInv'
  <1> USE DEF IInv, TypeInv, PositionsOK, Synced, ClaimKept, ReadyToParse, SizeKept, EndPassed,
              LengthKept, NoJam, FullyWritten, AtEnd
  <1>0. UNCHANGED <<done, input, unread, raw, ready_to_read, content_length,
                    current_length, ready_to_write>> /\ state = "PARSE_CHUNKSIZE" /\ pc = "parse"
    BY DEF ParseChunkSize, Parsing, readVars, destVars
  <1>1. CASE /\ AtEnd /\ MarkWritten(process_position) /\ Returns("INCOMPLETE")
             /\ UNCHANGED <<state, process_position, sizeVars>>
    BY <1>0, <1>1, ReturnsWhere DEF MarkWritten, sizeVars
  <1>2. CASE /\ ~AtEnd /\ Advance /\ chunksize' \in Nat
             /\ UNCHANGED <<pc, state, write_position, write_end_position>>
    BY <1>0, <1>2 DEF Advance
  <1>3. CASE /\ ~AtEnd /\ Advance /\ MarkWritten(process_position + 1)
             /\ GoTo("PARSE_CHUNKSIZE_LF") /\ UNCHANGED chunksize
    BY <1>0, <1>3 DEF Advance, MarkWritten, GoTo
  <1>4. CASE /\ MarkWritten(process_position) /\ Returns("INVALID")
             /\ UNCHANGED <<state, process_position, chunksize>>
    BY <1>0, <1>4, ReturnsWhere DEF MarkWritten
  <1>5. ASSUME IsHex(NextByte) PROVE HexValue(NextByte) \in Nat
    BY <1>5, HexDigit
  <1> QED  BY <1>1, <1>2, <1>3, <1>4, <1>5 DEF ParseChunkSize

(* The size is to be written, and its line feed keeps the buffer. *)
LEMMA LineFeedKeeps ==
    ASSUME IInv, ParseChunkSizeLF
    PROVE  IInv'
  <1> USE DEF IInv, TypeInv, PositionsOK, Synced, ClaimKept, ReadyToParse, SizeKept, EndPassed,
              LengthKept, NoJam, FullyWritten, AtEnd
  <1>0. UNCHANGED <<done, input, unread, raw, ready_to_read, chunksize, content_length,
                    current_length, ready_to_write>> /\ state = "PARSE_CHUNKSIZE_LF" /\ pc = "parse"
    BY DEF ParseChunkSizeLF, Parsing, readVars, sizeVars, destVars
  <1>1. CASE AtEnd /\ Returns("INCOMPLETE") /\ UNCHANGED <<state, posVars>>
    BY <1>0, <1>1, ReturnsWhere DEF posVars
  <1>2. CASE /\ ~AtEnd /\ Advance /\ GoTo("FORWARD_CHUNKSIZE")
             /\ UNCHANGED <<write_position, write_end_position>>
    BY <1>0, <1>2 DEF Advance, GoTo
  <1>3. CASE Returns("INVALID") /\ UNCHANGED <<state, posVars>>
    BY <1>0, <1>3, ReturnsWhere DEF posVars
  <1> QED  BY <1>1, <1>2, <1>3 DEF ParseChunkSizeLF, ParseChar

(* A size line that blocks leaves the buffer as it is. *)
LEMMA ForwardSizeKeeps ==
    ASSUME IInv, ForwardChunkSize
    PROVE  IInv'
  <1> USE DEF IInv, TypeInv, PositionsOK, Synced, ClaimKept, ReadyToParse, SizeKept, EndPassed,
              LengthKept, NoJam, FullyWritten
  <1>0. UNCHANGED <<done, input, unread, raw, ready_to_read, chunksize, content_length, current_length,
                    process_position, write_end_position>>
        /\ state = "FORWARD_CHUNKSIZE" /\ pc = "parse"
    BY DEF ForwardChunkSize, Parsing, readVars, sizeVars
  <1>1. PICK k \in 0 .. Len(text["chunk_size"]), r \in {"COMPLETE", "INCOMPLETE"} :
            /\ Write(text["chunk_size"], k, r)
            /\ \/ /\ r = "COMPLETE" /\ chunksize > 0
                  /\ GoTo("PARSE_CHUNK")
                  /\ UNCHANGED write_position
               \/ /\ r = "COMPLETE" /\ chunksize = 0
                  /\ write_position' = process_position
                  /\ GoTo("PARSE_TRAILER_CR")
               \/ /\ r = "INCOMPLETE"
                  /\ Returns("WRITE_INCOMPLETE")
                  /\ UNCHANGED <<state, write_position>>
    BY DEF ForwardChunkSize
  <1>2. /\ ready_to_write' \in BOOLEAN
        /\ r = "COMPLETE" => ready_to_write'
    BY <1>1, WriteFlag
  <1>3. CASE r = "COMPLETE"
    BY <1>0, <1>1, <1>2, <1>3 DEF GoTo
  <1>4. CASE r = "INCOMPLETE"
    BY <1>0, <1>1, <1>2, <1>4, ReturnsWhere
  <1> QED  BY <1>1, <1>3, <1>4

(* The chunk data in the buffer are claimed, and no more. *)
LEMMA ParseChunkKeeps ==
    ASSUME IInv, ParseChunk
    PROVE  IInv'
  <1>0. UNCHANGED <<done, input, unread, raw, ready_to_read, chunksize, content_length, ready_to_write>>
        /\ state = "PARSE_CHUNK" /\ pc = "parse" /\ pc' = pc /\ Claim(chunksize)
        /\ state' = (IF current_length' < chunksize THEN "FORWARD_INCOMPLETE_CHUNK"
                                                    ELSE "FORWARD_COMPLETE_CHUNK")
    BY DEF ParseChunk, Parsing, GoTo, readVars, sizeVars, destVars
  <1>1. /\ write_position' = process_position
        /\ process_position' \in process_position .. Len(raw)
        /\ write_end_position' = process_position'
        /\ current_length' \in current_length .. chunksize
        /\ current_length' < chunksize => process_position' = Len(raw)
    <2>1. TypeInv /\ PositionsOK  BY DEF IInv
    <2>2. chunksize \in Nat /\ current_length <= chunksize
      BY <1>0 DEF IInv, TypeInv, LengthKept
    <2> QED  BY <1>0, <2>1, <2>2, ClaimResult
  <1> QED  BY <1>0, <1>1
           DEF IInv, TypeInv, PositionsOK, Synced, ClaimKept, ReadyToParse, SizeKept, EndPassed,
               LengthKept, NoJam, FullyWritten

(* What a write of the claimed part leaves of it. *)
LEMMA ClaimedWritten ==
    ASSUME TypeInv, PositionsOK, write_position <= write_end_position,
           NEW k \in 0 .. Len(Claimed), NEW r, Write(Claimed, k, r),
           write_position = write_end_position => ready_to_write
    PROVE  \/ r = "COMPLETE" /\ write_position + k = write_end_position
              /\ ready_to_write' = TRUE
           \/ r = "INCOMPLETE" /\ write_position + k < write_end_position
              /\ ready_to_write' = FALSE
  <1>1. /\ Len(Claimed) = write_end_position - write_position
        /\ Len(Claimed) \in Nat /\ (Claimed = <<>> => Len(Claimed) = 0)
    BY ClaimedLength
  <1> HIDE DEF Claimed
  <1>2. \/ r = "COMPLETE" /\ k = Len(Claimed) /\ ready_to_write /\ ready_to_write' = ready_to_write
        \/ r = "INCOMPLETE" /\ ~ready_to_write' /\ ready_to_write' \in BOOLEAN
           /\ ((~ready_to_write /\ k = 0) \/ k < Len(Claimed))
    BY <1>1, WriteResult
  <1> QED  BY <1>1, <1>2 DEF TypeInv

(* Claimed chunk data are written, or keep the buffer. *)
LEMMA ForwardChunkKeeps ==
    ASSUME IInv, ForwardChunk
    PROVE  IInv'
  <1>0. UNCHANGED <<done, input, unread, raw, ready_to_read, process_position, chunksize,
                    content_length, current_length>>
        /\ state \in {"FORWARD_INCOMPLETE_CHUNK", "FORWARD_COMPLETE_CHUNK"} /\ pc = "parse"
    BY DEF ForwardChunk, readVars, sizeVars
  <1>1. PICK k \in 0 .. Len(Claimed), r \in {"COMPLETE", "INCOMPLETE"} :
            /\ Write(Claimed, k, r)
            /\ write_position' = write_position + k
            /\ \/ /\ r = "COMPLETE" /\ state = "FORWARD_INCOMPLETE_CHUNK"
                  /\ state' = "PARSE_CHUNK" /\ Returns("INCOMPLETE")
                  /\ write_end_position' = Len(raw)
               \/ /\ r = "COMPLETE" /\ state = "FORWARD_COMPLETE_CHUNK"
                  /\ GoTo("PARSE_TRAILER_CR")
                  /\ write_end_position' = Len(raw)
               \/ /\ r = "INCOMPLETE"
                  /\ Returns("WRITE_INCOMPLETE")
                  /\ UNCHANGED <<state, write_end_position>>
    BY DEF ForwardChunk
  <1>2. TypeInv /\ PositionsOK /\ write_position <= write_end_position
        /\ (write_position = write_end_position => ready_to_write)
    BY <1>0 DEF IInv, ClaimKept
  <1>3. \/ r = "COMPLETE" /\ write_position + k = write_end_position /\ ready_to_write' = TRUE
        \/ r = "INCOMPLETE" /\ write_position + k < write_end_position /\ ready_to_write' = FALSE
    BY <1>1, <1>2, ClaimedWritten
  <1>4. write_position + k \in Nat
    BY <1>1, <1>2, ClaimedLength DEF TypeInv
  <1> USE DEF IInv, TypeInv, PositionsOK, Synced, ClaimKept, ReadyToParse, SizeKept, EndPassed,
              LengthKept, NoJam, FullyWritten
  <1>5. CASE r = "COMPLETE" /\ state = "FORWARD_INCOMPLETE_CHUNK"
    BY <1>0, <1>1, <1>3, <1>4, <1>5, ReturnsWhere
  <1>6. CASE r = "COMPLETE" /\ state = "FORWARD_COMPLETE_CHUNK"
    BY <1>0, <1>1, <1>3, <1>4, <1>6 DEF GoTo
  <1>7. CASE r = "INCOMPLETE"
    <2>1. Returns("WRITE_INCOMPLETE") /\ UNCHANGED <<state, write_end_position>>
      BY <1>1, <1>7
    <2>2. pc' = "blocked"
      BY <1>2, <2>1, ReturnsWhere
    <2>3. /\ write_position' \in Nat /\ write_position' < write_end_position
          /\ ready_to_write' = FALSE
      BY <1>1, <1>3, <1>4, <1>7
    <2>4. ready_to_write' \in BOOLEAN
      BY <2>3, Zenon
    <2>5. TypeInv'
      BY <1>0, <2>1, <2>2, <2>3, <2>4
    <2>6. PositionsOK'
      BY <1>0, <2>1, <2>3
    <2>7. ClaimKept'
      BY <1>0, <2>1, <2>2, <2>3
    <2>8. Synced' /\ ReadyToParse' /\ SizeKept' /\ EndPassed'
      BY <1>0, <2>1
    <2>9. LengthKept' /\ NoJam'
      BY <1>0, <2>1, <2>2
    <2> QED  BY <2>5, <2>6, <2>7, <2>8, <2>9
  <1> QED  BY <1>0, <1>1, <1>5, <1>6, <1>7

(* The end of line behind a chunk is passed over. *)
LEMMA TrailerKeeps ==
    ASSUME IInv, ParseTrailerCR \/ ParseTrailerLF
    PROVE  IInv'
  <1> USE DEF IInv, TypeInv, PositionsOK, Synced, ClaimKept, ReadyToParse, SizeKept, EndPassed,
              LengthKept, NoJam, FullyWritten, AtEnd
  <1>0. UNCHANGED <<done, input, unread, raw, ready_to_read, chunksize, content_length,
                    current_length, ready_to_write>>
        /\ state \in {"PARSE_TRAILER_CR", "PARSE_TRAILER_LF"} /\ pc = "parse"
    BY DEF ParseTrailerCR, ParseTrailerLF, Parsing, readVars, sizeVars, destVars
  <1>1. CASE AtEnd /\ Returns("INCOMPLETE") /\ UNCHANGED <<state, posVars>>
    BY <1>0, <1>1, ReturnsWhere DEF posVars
  <1>2. CASE /\ ~AtEnd /\ Advance /\ SkipTrailerByte /\ UNCHANGED <<pc, write_end_position>>
             /\ state' \in {"PARSE_TRAILER_LF", "FORWARD_TRAILER_CRLF"}
    BY <1>0, <1>2 DEF Advance, SkipTrailerByte
  <1>3. CASE Returns("INVALID") /\ UNCHANGED <<state, posVars>>
    BY <1>0, <1>3, ReturnsWhere DEF posVars
  <1>4. CASE ParseTrailerCR
    BY <1>1, <1>2, <1>3, <1>4 DEF ParseTrailerCR, ParseChar, GoTo
  <1>5. CASE ParseTrailerLF
    BY <1>1, <1>2, <1>3, <1>5 DEF ParseTrailerLF, ParseChar, GoTo
  <1> QED  BY <1>4, <1>5

(* The end of line is written, and the next chunk or message begins. *)
LEMMA ForwardTrailerKeeps ==
    ASSUME IInv, ForwardTrailer
    PROVE  IInv'
  <1> USE DEF IInv, TypeInv, PositionsOK, Synced, ClaimKept, ReadyToParse, SizeKept, EndPassed,
              LengthKept, NoJam, FullyWritten
  <1>0. UNCHANGED <<input, unread, raw, ready_to_read, content_length, posVars>>
        /\ state = "FORWARD_TRAILER_CRLF" /\ pc = "parse"
    BY DEF ForwardTrailer, Parsing, readVars
  <1>1. PICK k \in 0 .. Len(text["endline"]), r \in {"COMPLETE", "INCOMPLETE"} :
            /\ Write(text["endline"], k, r)
            /\ \/ /\ r = "COMPLETE" /\ chunksize = 0
                  /\ CompleteMessage
                  /\ UNCHANGED <<sizeVars, current_length>>
               \/ /\ r = "COMPLETE" /\ chunksize > 0
                  /\ ResetChunk
                  /\ GoTo("PARSE_CHUNKSIZE")
                  /\ UNCHANGED done
               \/ /\ r = "INCOMPLETE"
                  /\ Returns("WRITE_INCOMPLETE")
                  /\ UNCHANGED <<done, state, sizeVars, current_length>>
    BY DEF ForwardTrailer
  <1>2. /\ ready_to_write' \in BOOLEAN
        /\ r = "COMPLETE" => ready_to_write'
    BY <1>1, WriteFlag
  <1>3. CASE r = "COMPLETE"
    BY <1>0, <1>1, <1>2, <1>3 DEF CompleteMessage, ResetChunk, GoTo, sizeVars, posVars
  <1>4. CASE r = "INCOMPLETE"
    BY <1>0, <1>1, <1>2, <1>4, ReturnsWhere DEF sizeVars, posVars
  <1> QED  BY <1>1, <1>3, <1>4

-----------------------------------------------------------------------------
(* content_length_body_parser and end_connection_body_parser
   claim and forward in the same way. *)
LEMMA ParseContentKeeps ==
    ASSUME IInv, ParseContent
    PROVE  IInv'
  <1>0. UNCHANGED <<done, input, unread, raw, ready_to_read, chunksize, content_length, ready_to_write>>
        /\ state = "MESSAGE_BODY_PARSE" /\ pc = "parse" /\ pc' = pc /\ Claim(content_length)
        /\ state' = (IF current_length' < content_length THEN "INCOMPLETE_MESSAGE_BODY_FORWARD"
                                                         ELSE "COMPLETE_MESSAGE_BODY_FORWARD")
    BY DEF ParseContent, Parsing, GoTo, readVars, sizeVars, destVars
  <1>1. /\ write_position' = process_position
        /\ process_position' \in process_position .. Len(raw)
        /\ write_end_position' = process_position'
        /\ current_length' \in current_length .. content_length
        /\ current_length' < content_length => process_position' = Len(raw)
    <2>1. TypeInv /\ PositionsOK  BY DEF IInv
    <2>2. content_length \in Nat /\ current_length <= content_length
      BY <1>0 DEF IInv, TypeInv, LengthKept
    <2> QED  BY <1>0, <2>1, <2>2, ClaimResult
  <1> QED  BY <1>0, <1>1
           DEF IInv, TypeInv, PositionsOK, Synced, ClaimKept, ReadyToParse, SizeKept, EndPassed,
               LengthKept, NoJam, FullyWritten

(* A claimed body is written, or keeps the buffer. *)
LEMMA ForwardContentKeeps ==
    ASSUME IInv, ForwardContent
    PROVE  IInv'
  <1>0. UNCHANGED <<input, unread, raw, ready_to_read, process_position, write_end_position,
                    chunksize, content_length, current_length>>
        /\ state \in {"INCOMPLETE_MESSAGE_BODY_FORWARD", "COMPLETE_MESSAGE_BODY_FORWARD"}
        /\ pc = "parse"
    BY DEF ForwardContent, readVars, sizeVars
  <1>1. PICK k \in 0 .. Len(Claimed), r \in {"COMPLETE", "INCOMPLETE"} :
            /\ Write(Claimed, k, r)
            /\ write_position' = write_position + k
            /\ \/ /\ r = "COMPLETE" /\ state = "INCOMPLETE_MESSAGE_BODY_FORWARD"
                  /\ state' = "MESSAGE_BODY_PARSE" /\ Returns("INCOMPLETE")
                  /\ UNCHANGED done
               \/ /\ r = "COMPLETE" /\ state = "COMPLETE_MESSAGE_BODY_FORWARD"
                  /\ CompleteMessage
               \/ /\ r = "INCOMPLETE"
                  /\ Returns("WRITE_INCOMPLETE")
                  /\ UNCHANGED <<done, state>>
    BY DEF ForwardContent
  <1>2. TypeInv /\ PositionsOK /\ write_position <= write_end_position
        /\ (write_position = write_end_position => ready_to_write)
    BY <1>0 DEF IInv, ClaimKept
  <1>3. \/ r = "COMPLETE" /\ write_position + k = write_end_position /\ ready_to_write' = TRUE
        \/ r = "INCOMPLETE" /\ write_position + k < write_end_position /\ ready_to_write' = FALSE
    BY <1>1, <1>2, ClaimedWritten
  <1>4. write_position + k \in Nat
    BY <1>1, <1>2, ClaimedLength DEF TypeInv
  <1> USE DEF IInv, TypeInv, PositionsOK, Synced, ClaimKept, ReadyToParse, SizeKept, EndPassed,
              LengthKept, NoJam, FullyWritten
  <1>5. CASE r = "COMPLETE" /\ state = "INCOMPLETE_MESSAGE_BODY_FORWARD"
    BY <1>0, <1>1, <1>3, <1>4, <1>5, ReturnsWhere
  <1>6. CASE r = "COMPLETE" /\ state = "COMPLETE_MESSAGE_BODY_FORWARD"
    BY <1>0, <1>1, <1>3, <1>4, <1>6 DEF CompleteMessage, GoTo
  <1>7. CASE r = "INCOMPLETE"
    <2>1. Returns("WRITE_INCOMPLETE") /\ UNCHANGED <<done, state>>
      BY <1>1, <1>7
    <2>2. pc' = "blocked"
      BY <1>2, <2>1, ReturnsWhere
    <2>3. /\ write_position' \in Nat /\ write_position' < write_end_position
          /\ ready_to_write' = FALSE
      BY <1>1, <1>3, <1>4, <1>7
    <2>4. ready_to_write' \in BOOLEAN
      BY <2>3, Zenon
    <2>5. TypeInv'
      BY <1>0, <2>1, <2>2, <2>3, <2>4
    <2>6. PositionsOK'
      BY <1>0, <2>1, <2>3
    <2>7. ClaimKept'
      BY <1>0, <2>1, <2>2, <2>3
    <2>8. Synced' /\ ReadyToParse' /\ SizeKept' /\ EndPassed'
      BY <1>0, <2>1
    <2>9. LengthKept' /\ NoJam'
      BY <1>0, <2>1, <2>2
    <2> QED  BY <2>5, <2>6, <2>7, <2>8, <2>9
  <1> QED  BY <1>0, <1>1, <1>5, <1>6, <1>7

(* Everything up to the end of the buffer is written, or keeps it. *)
LEMMA ToCloseKeeps ==
    ASSUME IInv, ForwardToClose
    PROVE  IInv'
  <1>0. UNCHANGED <<done, input, unread, raw, ready_to_read, process_position, write_end_position,
                    state, chunksize, content_length, current_length>>
        /\ state = "END_CONNECTION" /\ pc = "parse"
    BY DEF ForwardToClose, Parsing, readVars, sizeVars
  <1>1. CASE pc' = "aborted" /\ UNCHANGED <<write_position, destVars>>
    BY <1>0, <1>1
       DEF IInv, TypeInv, PositionsOK, Synced, ClaimKept, ReadyToParse, SizeKept, EndPassed,
           LengthKept, NoJam, FullyWritten, destVars
  <1>2. CASE /\ ~(ready_to_write /\ write_end_position < write_position)
             /\ \E k \in 0 .. Len(Claimed), r \in {"COMPLETE", "INCOMPLETE"} :
                  /\ Write(Claimed, k, r)
                  /\ write_position' = write_position + k
                  /\ Returns(IF r = "COMPLETE" THEN "INCOMPLETE" ELSE "WRITE_INCOMPLETE")
    <2>1. PICK k \in 0 .. Len(Claimed), r \in {"COMPLETE", "INCOMPLETE"} :
                  /\ Write(Claimed, k, r)
                  /\ write_position' = write_position + k
                  /\ Returns(IF r = "COMPLETE" THEN "INCOMPLETE" ELSE "WRITE_INCOMPLETE")
      BY <1>2
    <2>2. TypeInv /\ PositionsOK
      BY DEF IInv
    <2>3. /\ Len(Claimed) \in Nat
          /\ Claimed = <<>> => Len(Claimed) = 0
          /\ write_position <= write_end_position =>
               Len(Claimed) = write_end_position - write_position
          /\ write_end_position <= write_position => Len(Claimed) = 0
      BY <2>2, ClaimedLength
    <2>4. \/ r = "COMPLETE" /\ k = Len(Claimed) /\ ready_to_write /\ ready_to_write' = ready_to_write
          \/ r = "INCOMPLETE" /\ ~ready_to_write' /\ ready_to_write' \in BOOLEAN
      BY <2>1, <2>2, <2>3, WriteResult
    <2>5. /\ pc' \in {"again", "idle", "blocked", "denied"}
          /\ r = "INCOMPLETE" => pc' = "blocked"
      BY <2>1, <2>2, ReturnsWhere
    <2>6. ready_to_write' \in BOOLEAN
      BY <2>2, <2>4 DEF TypeInv
    <2>7. /\ write_position' \in write_position .. Len(raw)
          /\ r = "COMPLETE" => write_position' >= Len(raw)
      BY <1>0, <1>2, <2>1, <2>2, <2>3, <2>4 DEF IInv, TypeInv, PositionsOK, EndPassed
    <2> QED  BY <1>0, <2>2, <2>5, <2>6, <2>7
             DEF IInv, TypeInv, PositionsOK, Synced, ClaimKept, ReadyToParse, SizeKept, EndPassed,
                 LengthKept, NoJam, FullyWritten
  <1> QED  BY <1>1, <1>2 DEF ForwardToClose

-----------------------------------------------------------------------------
(* The parsers start with an empty buffer. *)
LEMMA InitHolds == Init => IInv
  BY InputsAssumption, BodyAssumption
     DEF Init, IInv, TypeInv, PositionsOK, Synced, ClaimKept, ReadyToParse, SizeKept, EndPassed,
         LengthKept, NoJam

(* Every step of the program and of its peers keeps the invariant. *)
LEMMA NextKeeps == IInv /\ [Next]_vars => IInv'
  <1> SUFFICES ASSUME IInv, [Next]_vars PROVE IInv'
    OBVIOUS
  <1>1. CASE Next
    BY <1>1, ReadKeeps, LoopKeeps, HeaderKeeps, PushKeeps, EndMessageKeeps, ChunkSizeKeeps,
       LineFeedKeeps, ForwardSizeKeeps, ParseChunkKeeps, ForwardChunkKeeps, TrailerKeeps,
       ForwardTrailerKeeps, ParseContentKeeps, ForwardContentKeeps, ToCloseKeeps
       DEF Next, Step
  <1>2. CASE UNCHANGED vars
    BY <1>2
       DEF vars, readVars, posVars, sizeVars, destVars, IInv, TypeInv, PositionsOK, Synced,
           ClaimKept, ReadyToParse, SizeKept, EndPassed, LengthKept, NoJam, FullyWritten
  <1> QED  BY <1>1, <1>2

(***************************************************************************)
(* read_write_buffer: none of the "buffer consistency" checks on the       *)
(* positions that the body parsers, non_blocking_read() and                *)
(* non_blocking_write() set ever fires, for any input and any length.      *)
(***************************************************************************)
THEOREM PositionsConsistent == Spec => []PositionsOK
  <1>1. IInv => PositionsOK
    BY DEF IInv
  <1> QED  BY <1>1, InitHolds, NextKeeps, PTL DEF Spec

(***************************************************************************)
(* handle_stream() never goes round its loop with a buffer that is to be   *)
(* read again but is not fully written: the state jam of the comment at    *)
(* proxy_handler.cpp:219 cannot come back.                                 *)
(***************************************************************************)
THEOREM NeverJams == Spec => []NoJam
  <1>1. IInv => NoJam
    BY DEF IInv
  <1> QED  BY <1>1, InitHolds, NextKeeps, PTL DEF Spec

-------------------------------------------------------------------------------
(***************************************************************************)
(* The body parsers forward what they are to forward, for every input that *)
(* is well framed or broken where they notice, every buffer length and     *)
(* every way in which the bytes are cut into reads and writes.             *)
(*                                                                         *)
(* The proof follows two places through the streams: how much of what was  *)
(* sent is dealt with (Pos), and how much of what is expected is forwarded *)
(* (Len(out)).  Both are fixed by the message, the chunk and the state of  *)
(* the parser (RelayInv), and what stands at them in the two streams is    *)
(* known from the framing (Framing, Ended, Open).                          *)
(***************************************************************************)

(* A set of numbers has a least one. *)
LEMMA LeastNumber ==
    ASSUME NEW T \in SUBSET Nat, T # {}
    PROVE  \E n \in T : \A k \in T : n <= k
  <1> DEFINE R == {ab \in Nat \X Nat : ab[1] < ab[2]}
  <1>1. IsWellFoundedOn(R, Nat)
    BY NatLessThanWellFounded DEF OpToRel
  <1>2. PICK n \in T : \A k \in T : ~(<<k, n>> \in R)
    <2> HIDE DEF R
    <2> QED BY <1>1, WFMin
  <1>3. ASSUME NEW k \in T PROVE n <= k
    <2>1. k \in Nat /\ n \in Nat
      OBVIOUS
    <2>2. k < n => <<k, n>> \in R
      BY <2>1
    <2> QED BY <1>2, <2>1, <2>2
  <1> QED BY <1>3

(* Two sequences in a row. *)
LEMMA Joint ==
    ASSUME NEW S, NEW a \in Seq(S), NEW b \in Seq(S)
    PROVE  /\ a \o b \in Seq(S) /\ Len(a \o b) = Len(a) + Len(b) /\ Len(a) \in Nat /\ Len(b) \in Nat
           /\ \A j \in 1 .. Len(a) : (a \o b)[j] = a[j]
           /\ \A j \in 1 .. Len(b) : (a \o b)[Len(a) + j] = b[j]
  OBVIOUS

(***************************************************************************)
(* FlattenSeq() joins one sequence after the other.                        *)
(***************************************************************************)
Joins(s, n, f) == f[0] = <<>> /\ \A i \in 1 .. n : f[i] = f[i - 1] \o s[i]

(* A sequence of sequences is joined step by step. *)
LEMMA Joined ==
    ASSUME NEW S, NEW s \in Seq(Seq(S))
    PROVE  \E f \in [0 .. Len(s) -> Seq(S)] : Joins(s, Len(s), f)
  <1> DEFINE P(n) == \E f \in [0 .. n -> Seq(S)] : Joins(s, n, f)
             T == {n \in 0 .. Len(s) : ~P(n)}
  <1>0. Len(s) \in Nat /\ T \in SUBSET Nat /\ \A i \in 1 .. Len(s) : s[i] \in Seq(S)
    OBVIOUS
  <1>1. SUFFICES ASSUME T # {} PROVE FALSE
    <2> HIDE DEF P
    <2>1. Len(s) \notin T => P(Len(s))
      BY <1>0
    <2> QED BY <1>1, <2>1 DEF P
  <1>2. PICK n \in T : \A k \in T : n <= k
    <2> HIDE DEF T
    <2> QED BY <1>0, <1>1, LeastNumber
  <1>3. n # 0
    <2>1. [i \in 0 .. 0 |-> <<>>] \in [0 .. 0 -> Seq(S)] /\ Joins(s, 0, [i \in 0 .. 0 |-> <<>>])
      BY DEF Joins
    <2> QED BY <1>2, <2>1
  <1>4. n - 1 \in 0 .. Len(s) /\ n \in 1 .. Len(s) /\ s[n] \in Seq(S)
    BY <1>0, <1>3
  <1>5. PICK f \in [0 .. n - 1 -> Seq(S)] : Joins(s, n - 1, f)
    <2>1. n - 1 \notin T
      <3>1. ~(n <= n - 1)
        BY <1>4
      <3> HIDE DEF T
      <3> QED BY <1>2, <3>1
    <2>2. P(n - 1)
      <3> HIDE DEF P
      <3> QED BY <1>4, <2>1
    <2> QED BY <2>2
  <1> DEFINE g == [i \in 0 .. n |-> IF i = n THEN f[n - 1] \o s[n] ELSE f[i]]
  <1>6. g \in [0 .. n -> Seq(S)]
    <2>1. f[n - 1] \o s[n] \in Seq(S)
      BY <1>4
    <2>2. \A i \in 0 .. n : i # n => f[i] \in Seq(S)
      BY <1>4
    <2> QED BY <2>1, <2>2
  <1>7. Joins(s, n, g)
    <2>1. g[0] = <<>>
      BY <1>4, <1>5 DEF Joins
    <2>2. ASSUME NEW i \in 1 .. n PROVE g[i] = g[i - 1] \o s[i]
      <3>1. CASE i = n
        <4>1. n \in 0 .. n /\ n - 1 \in 0 .. n /\ n - 1 # n
          BY <1>4
        <4>2. g[n] = f[n - 1] \o s[n] /\ g[n - 1] = f[n - 1]
          BY <4>1
        <4> HIDE DEF g
        <4> QED BY <3>1, <4>2
      <3>2. CASE i # n
        <4>1. i \in 1 .. n - 1 /\ i \in 0 .. n /\ i - 1 \in 0 .. n /\ i - 1 # n
          BY <1>4, <3>2
        <4>2. g[i] = f[i] /\ g[i - 1] = f[i - 1]
          BY <3>2, <4>1
        <4> QED BY <1>5, <4>1, <4>2 DEF Joins
      <3> QED BY <3>1, <3>2
    <2> QED BY <2>1, <2>2 DEF Joins
  <1> QED BY <1>2, <1>6, <1>7

(* ... and FlattenSeq() is what comes out. *)
LEMMA Flattened ==
    ASSUME NEW S, NEW s \in Seq(Seq(S)), NEW f \in [0 .. Len(s) -> Seq(S)], Joins(s, Len(s), f),
           NEW n \in 0 .. Len(s)
    PROVE  FlattenSeq(SubSeq(s, 1, n)) = f[n]
  <1> DEFINE t == SubSeq(s, 1, n)
             Solves(g) == g = [i \in 1 .. Len(t) |-> IF i = 1 THEN t[i] ELSE g[i - 1] \o t[i]]
  <1>0. Len(s) \in Nat /\ n \in Nat /\ \A i \in 1 .. Len(s) : s[i] \in Seq(S)
    OBVIOUS
  <1>1. Len(t) = n /\ \A i \in 1 .. n : t[i] = s[i]
    OBVIOUS
  <1> HIDE DEF t
  <1>2. CASE n = 0
    <2>1. t = <<>> /\ Len(t) = 0
      BY <1>1, <1>2 DEF t
    <2>2. FlattenSeq(t) = t
      BY <2>1 DEF FlattenSeq
    <2> QED BY <1>2, <2>1, <2>2 DEF Joins, t
  <1>3. CASE n # 0
    <2>1. FlattenSeq(t) = (CHOOSE g : Solves(g))[n]
      <3>1. Len(t) # 0
        BY <1>1, <1>3
      <3> QED BY <1>1, <3>1, Zenon DEF FlattenSeq
    <2>2. Solves([i \in 1 .. Len(t) |-> f[i]])
      <3> DEFINE h == [i \in 1 .. Len(t) |-> f[i]]
      <3>1. ASSUME NEW i \in 1 .. Len(t) PROVE f[i] = IF i = 1 THEN t[i] ELSE h[i - 1] \o t[i]
        <4>1. i \in 1 .. Len(s) /\ i \in 1 .. n /\ f[i] = f[i - 1] \o s[i] /\ t[i] = s[i] /\ s[i] \in Seq(S)
          <5>1. i \in 1 .. n /\ i \in 1 .. Len(s)
            BY <1>0, <1>1
          <5> QED BY <1>0, <1>1, <5>1 DEF Joins
        <4>2. CASE i = 1
          <5>1. i - 1 = 0
            BY <4>2
          <5>2. f[i - 1] = <<>>
            BY <5>1, Zenon DEF Joins
          <5>3. <<>> \o s[i] = s[i]
            BY <4>1
          <5>4. f[i] = t[i]
            BY <4>1, <5>2, <5>3, Zenon
          <5> HIDE DEF h
          <5> QED BY <4>2, <5>4, Zenon
        <4>3. CASE i # 1
          <5>1. i - 1 \in 1 .. Len(t)
            BY <1>0, <1>1, <4>3
          <5>2. h[i - 1] = f[i - 1]
            BY <5>1
          <5> HIDE DEF h
          <5>3. f[i] = h[i - 1] \o t[i]
            BY <4>1, <5>2, Zenon
          <5> HIDE DEF Solves
          <5> QED BY <4>3, <5>3, Zenon
        <4> QED BY <4>2, <4>3
      <3> QED BY <3>1
    <2> DEFINE g == CHOOSE g : Solves(g)
    <2>3. Solves(g)
      <3> HIDE DEF Solves
      <3> QED BY <2>2, Zenon
    <2> HIDE DEF g
    <2> DEFINE T == {i \in 1 .. n : g[i] # f[i]}
    <2>4. SUFFICES ASSUME T # {} PROVE FALSE
      <3>1. n \in 1 .. n
        BY <1>0, <1>3
      <3>2. FlattenSeq(t) = g[n]
        BY <2>1 DEF g
      <3> QED BY <2>4, <3>1, <3>2 DEF t
    <2>5. PICK i \in T : \A k \in T : i <= k
      <3>1. T \in SUBSET Nat
        OBVIOUS
      <3> HIDE DEF T
      <3> QED BY <2>4, <3>1, LeastNumber
    <2>6. /\ g[i] = IF i = 1 THEN t[i] ELSE g[i - 1] \o t[i]
          /\ i \in 1 .. n /\ g[i] # f[i]
      BY <1>1, <2>3
    <2>7. t[i] = s[i] /\ f[i] = f[i - 1] \o s[i] /\ s[i] \in Seq(S) /\ f[0] = <<>>
      <3>1. i \in 1 .. Len(s)
        BY <1>0, <2>6
      <3> QED BY <1>0, <1>1, <2>6, <3>1 DEF Joins
    <2>8. CASE i = 1
      <3>1. <<>> \o s[i] = s[i]
        BY <2>7
      <3>2. i - 1 = 0
        BY <2>8
      <3>3. f[i] = t[i]
        BY <2>7, <3>1, <3>2, Zenon
      <3>4. g[i] = t[i]
        BY <2>6, <2>8, Zenon
      <3> QED BY <2>6, <3>3, <3>4, Zenon
    <2>9. CASE i # 1
      <3>1. i - 1 \in 1 .. n /\ i - 1 \notin T
        <4>1. i - 1 \in 1 .. n /\ ~(i <= i - 1)
          BY <1>0, <2>6, <2>9
        <4> HIDE DEF T
        <4> QED BY <2>5, <4>1
      <3>2. g[i - 1] = f[i - 1]
        BY <3>1
      <3>3. g[i] = g[i - 1] \o t[i]
        BY <2>6, <2>9, Zenon
      <3>4. g[i] = f[i]
        BY <2>7, <3>2, <3>3, Zenon
      <3> QED BY <2>6, <3>4, Zenon
    <2> QED BY <2>8, <2>9
  <1> QED BY <1>2, <1>3

(* The number of bytes in the first i sequences of s. *)
Upto(s, i) == Len(FlattenSeq(SubSeq(s, 1, i)))

(***************************************************************************)
(* Where the bytes of a sequence are after FlattenSeq().                   *)
(***************************************************************************)
LEMMA FlattenPlaces ==
    ASSUME NEW S, NEW s \in Seq(Seq(S))
    PROVE  /\ FlattenSeq(s) \in Seq(S)
           /\ Upto(s, 0) = 0 /\ Upto(s, Len(s)) = Len(FlattenSeq(s))
           /\ \A i \in 0 .. Len(s) : Upto(s, i) \in 0 .. Len(FlattenSeq(s))
           /\ \A i \in 1 .. Len(s) :
                /\ Upto(s, i) = Upto(s, i - 1) + Len(s[i])
                /\ \A j \in 1 .. Len(s[i]) : FlattenSeq(s)[Upto(s, i - 1) + j] = s[i][j]
  <1>0. Len(s) \in Nat /\ \A i \in 1 .. Len(s) : s[i] \in Seq(S)
    OBVIOUS
  <1>1. PICK f \in [0 .. Len(s) -> Seq(S)] : Joins(s, Len(s), f)
    BY Joined
  <1>2. \A n \in 0 .. Len(s) : FlattenSeq(SubSeq(s, 1, n)) = f[n] /\ Upto(s, n) = Len(f[n])
    BY <1>1, Flattened DEF Upto
  <1>3. SubSeq(s, 1, Len(s)) = s
    OBVIOUS
  <1>4. FlattenSeq(s) = f[Len(s)] /\ FlattenSeq(s) \in Seq(S)
    <2>1. Len(s) \in 0 .. Len(s)
      BY <1>0
    <2> QED BY <1>1, <1>2, <1>3, <2>1
  <1>5. ASSUME NEW i \in 1 .. Len(s)
        PROVE  /\ f[i] = f[i - 1] \o s[i] /\ f[i] \in Seq(S) /\ f[i - 1] \in Seq(S) /\ s[i] \in Seq(S)
               /\ Len(f[i]) = Len(f[i - 1]) + Len(s[i])
    <2>1. i \in 0 .. Len(s) /\ i - 1 \in 0 .. Len(s)
      BY <1>0
    <2>2. f[i] = f[i - 1] \o s[i]
      BY <1>1 DEF Joins
    <2>3. f[i] \in Seq(S) /\ f[i - 1] \in Seq(S) /\ s[i] \in Seq(S)
      BY <1>0, <2>1
    <2> QED BY <2>2, <2>3
  <1> DEFINE R(i, n) ==
               /\ Len(f[i]) <= Len(f[n])
               /\ \A j \in 1 .. Len(f[i]) : f[n][j] = f[i][j]
  <1>6. ASSUME NEW i \in 0 .. Len(s), NEW n \in i .. Len(s) PROVE R(i, n)
    <2> DEFINE T == {k \in i .. Len(s) : ~R(i, k)}
    <2>1. SUFFICES ASSUME T # {} PROVE FALSE
      BY <2>1
    <2>2. PICK k \in T : \A m \in T : k <= m
      <3>1. T \in SUBSET Nat
        BY <1>0
      <3> HIDE DEF T
      <3> QED BY <2>1, <3>1, LeastNumber
    <2>3. k # i /\ k \in i .. Len(s) /\ ~R(i, k)
      BY <2>2
    <2>4. k - 1 \in i .. Len(s) /\ k \in 1 .. Len(s) /\ R(i, k - 1)
      BY <2>2, <2>3
    <2>5. /\ f[k] = f[k - 1] \o s[k] /\ f[k - 1] \in Seq(S) /\ s[k] \in Seq(S)
          /\ Len(f[k]) = Len(f[k - 1]) + Len(s[k])
      BY <1>5, <2>4
    <2>6. Len(f[i]) \in Nat
      BY <1>1
    <2>7. \A j \in 1 .. Len(f[k - 1]) : f[k][j] = f[k - 1][j]
      <3> HIDE DEF R
      <3>1. PICK a \in Seq(S), b \in Seq(S) : a = f[k - 1] /\ b = s[k] /\ f[k] = a \o b
        BY <2>5, Zenon
      <3>2. \A j \in 1 .. Len(a) : (a \o b)[j] = a[j]
        BY Joint
      <3> QED BY <3>1, <3>2, Zenon
    <2>8. Len(f[k - 1]) \in Nat /\ Len(s[k]) \in Nat
      BY <2>5
    <2>9. /\ Len(f[i]) <= Len(f[k - 1])
          /\ \A j \in 1 .. Len(f[i]) : f[k - 1][j] = f[i][j]
      BY <2>4
    <2>10. R(i, k)
      <3>1. ASSUME NEW j \in 1 .. Len(f[i]) PROVE f[k][j] = f[i][j]
        <4>1. j \in 1 .. Len(f[k - 1])
          BY <2>6, <2>8, <2>9
        <4> QED BY <2>7, <2>9, <4>1, Zenon
      <3>2. Len(f[i]) <= Len(f[k])
        <4> DEFINE x == Len(f[i])
                   y == Len(f[k - 1])
                   z == Len(s[k])
        <4>1. x \in Nat /\ y \in Nat /\ z \in Nat /\ x <= y /\ Len(f[k]) = y + z
          BY <2>5, <2>6, <2>8, <2>9, Zenon
        <4> HIDE DEF x, y, z
        <4>2. x <= y + z
          BY <4>1
        <4> QED BY <4>1, <4>2, Zenon DEF x
      <3> QED BY <3>1, <3>2
    <2> HIDE DEF R
    <2> QED BY <2>3, <2>10
  <1>7. ASSUME NEW i \in 1 .. Len(s), NEW j \in 1 .. Len(s[i])
        PROVE  f[Len(s)][Len(f[i - 1]) + j] = s[i][j]
    <2>1. f[i][Len(f[i - 1]) + j] = s[i][j] /\ Len(f[i - 1]) + j \in 1 .. Len(f[i])
      <3> HIDE DEF R
      <3>1. /\ f[i] = f[i - 1] \o s[i] /\ f[i - 1] \in Seq(S) /\ s[i] \in Seq(S)
            /\ Len(f[i]) = Len(f[i - 1]) + Len(s[i])
        BY <1>5
      <3>2. PICK a \in Seq(S), b \in Seq(S) : a = f[i - 1] /\ b = s[i] /\ f[i] = a \o b
        BY <3>1, Zenon
      <3>3. j \in 1 .. Len(b) /\ Len(b) \in Nat /\ Len(a) \in Nat
        BY <3>2
      <3>4. (a \o b)[Len(a) + j] = b[j] /\ Len(a) + j \in 1 .. Len(a \o b)
        BY <3>3, Joint
      <3> QED BY <3>2, <3>4, Zenon
    <2>2. R(i, Len(s))
      BY <1>6
    <2> QED BY <2>1, <2>2
  <1>8. Len(f[0]) = 0
    BY <1>1 DEF Joins
  <1>9. \A i \in 0 .. Len(s) : Len(f[i]) \in Nat /\ Len(f[i]) <= Len(f[Len(s)])
    BY <1>1, <1>6
  <1>10. 0 \in 0 .. Len(s) /\ Len(s) \in 0 .. Len(s) /\ \A i \in 1 .. Len(s) : i \in 0 .. Len(s) /\ i - 1 \in 0 .. Len(s)
    OBVIOUS
  <1> HIDE DEF R
  <1>11. Upto(s, 0) = 0 /\ Upto(s, Len(s)) = Len(FlattenSeq(s))
    BY <1>2, <1>4, <1>8, <1>10
  <1>12. \A i \in 0 .. Len(s) : Upto(s, i) \in 0 .. Len(FlattenSeq(s))
    BY <1>2, <1>4, <1>9, <1>10
  <1>13. \A i \in 1 .. Len(s) : Upto(s, i) = Upto(s, i - 1) + Len(s[i])
    BY <1>2, <1>5, <1>10
  <1>14. \A i \in 1 .. Len(s) : \A j \in 1 .. Len(s[i]) : FlattenSeq(s)[Upto(s, i - 1) + j] = s[i][j]
    BY <1>2, <1>4, <1>7, <1>10
  <1> QED BY <1>4, <1>11, <1>12, <1>13, <1>14

(***************************************************************************)
(* HexText is defined for every number.                                    *)
(***************************************************************************)
HexStep(f, n) ==
    IF n < 16 THEN <<HexDigits[n + 1]>> ELSE f[n \div 16] \o <<HexDigits[(n % 16) + 1]>>

(* f renders the numbers up to N. *)
HexUpto(N, f) == \A n \in 0 .. N : f[n] = HexStep(f, n)

(* STRING, with the literals it is not known to have by the provers. *)
Bytes ==
    STRING \cup {"H", "CR", "LF", "0", "1", "2", "3", "4", "5", "6", "7", "8", "9",
                "A", "B", "C", "D", "E", "F"}

(* A string of characters is one of bytes. *)
LEMMA BytesText ==
    ASSUME NEW s \in Seq(STRING)
    PROVE  s \in Seq(Bytes)
  <1>1. STRING \subseteq Bytes
    BY DEF Bytes
  <1> HIDE DEF Bytes
  <1> QED BY <1>1, SeqMonotonic

(* The end of a line has two bytes, the header of this model one. *)
LEMMA EndLineText == EndLine \in Seq(Bytes) /\ Len(EndLine) = 2 /\ Header \in Seq(Bytes) /\ Len(Header) = 1
  BY DEF EndLine, Header, Bytes

(* A digit is a byte. *)
LEMMA HexDigitText ==
    ASSUME NEW x \in 0 .. 15
    PROVE  <<HexDigits[x + 1]>> \in Seq(Bytes)
  <1>1. HexDigits[x + 1] \in Bytes
    BY DEF HexDigits, Bytes
  <1> QED BY <1>1

(* Rendering goes on with a smaller number. *)
LEMMA HexDivides ==
    ASSUME NEW n \in Nat, ~(n < 16)
    PROVE  n \div 16 \in 0 .. n - 1 /\ n % 16 \in 0 .. 15
  OBVIOUS

(* Each step of it adds a byte. *)
LEMMA HexStepType ==
    ASSUME NEW n \in Nat, NEW f, ~(n < 16) => f[n \div 16] \in Seq(Bytes)
    PROVE  HexStep(f, n) \in Seq(Bytes)
  <1>1. CASE n < 16
    <2>1. n \in 0 .. 15
      BY <1>1
    <2> QED BY <1>1, <2>1, HexDigitText DEF HexStep
  <1>2. CASE ~(n < 16)
    <2>1. <<HexDigits[(n % 16) + 1]>> \in Seq(Bytes)
      BY <1>2, HexDivides, HexDigitText
    <2> DEFINE a == f[n \div 16]
               b == <<HexDigits[(n % 16) + 1]>>
    <2>2. a \in Seq(Bytes) /\ b \in Seq(Bytes) /\ HexStep(f, n) = a \o b
      BY <1>2, <2>1, Zenon DEF HexStep
    <2> HIDE DEF a, b
    <2> QED BY <2>2, Joint
  <1> QED BY <1>1, <1>2

(* A step depends on the smaller number only. *)
LEMMA HexSame ==
    ASSUME NEW n \in Nat, NEW f, NEW g, ~(n < 16) => f[n \div 16] = g[n \div 16]
    PROVE  HexStep(f, n) = HexStep(g, n)
  <1>1. CASE n < 16
    BY <1>1, Zenon DEF HexStep
  <1>2. CASE ~(n < 16)
    BY <1>2, Zenon DEF HexStep
  <1> QED BY <1>1, <1>2

(* There is a rendering of all numbers up to any ... *)
LEMMA HexExists ==
    ASSUME NEW N \in Nat
    PROVE  \E f \in [0 .. N -> Seq(Bytes)] : HexUpto(N, f)
  <1> DEFINE P(n) == \E f \in [0 .. n -> Seq(Bytes)] : HexUpto(n, f)
             T == {n \in Nat : ~P(n)}
  <1>1. SUFFICES ASSUME T # {} PROVE FALSE
    <2>1. P(N)
      <3> HIDE DEF P
      <3> QED BY <1>1
    <2> QED BY <2>1
  <1>2. PICK n \in T : \A k \in T : n <= k
    <2>1. T \in SUBSET Nat
      OBVIOUS
    <2> HIDE DEF T
    <2> QED BY <1>1, <2>1, LeastNumber
  <1>3. n \in Nat /\ ~P(n)
    <2> HIDE DEF P
    <2> QED BY <1>2
  <1>4. PICK f : f \in [0 .. n - 1 -> Seq(Bytes)] /\ \A k \in 0 .. n - 1 : f[k] = HexStep(f, k)
    <2>1. CASE n = 0
      <3>1. 0 .. n - 1 = {}
        BY <2>1
      <3> DEFINE e == [k \in {} |-> 0]
      <3>2. e \in [{} -> Seq(Bytes)]
        OBVIOUS
      <3> HIDE DEF e
      <3> QED BY <3>1, <3>2, Zenon
    <2>2. CASE n # 0
      <3>1. n - 1 \in Nat /\ ~(n <= n - 1)
        BY <1>3, <2>2
      <3>2. P(n - 1)
        <4> HIDE DEF P
        <4> QED BY <1>2, <3>1
      <3> QED BY <3>2 DEF HexUpto
    <2> QED BY <2>1, <2>2
  <1> DEFINE g == [k \in 0 .. n |-> IF k = n THEN HexStep(f, n) ELSE f[k]]
  <1>5. ASSUME NEW k \in 0 .. n PROVE HexStep(f, k) \in Seq(Bytes) /\ g[k] = HexStep(f, k)
    <2>1. k \in Nat
      OBVIOUS
    <2>2. ~(k < 16) => f[k \div 16] \in Seq(Bytes)
      <3>1. SUFFICES ASSUME ~(k < 16) PROVE f[k \div 16] \in Seq(Bytes)
        OBVIOUS
      <3>2. k \div 16 \in 0 .. k - 1
        BY <2>1, <3>1, HexDivides
      <3>3. k \div 16 \in 0 .. n - 1
        BY <1>3, <2>1, <3>2
      <3> QED BY <1>4, <3>3, Zenon
    <2>3. HexStep(f, k) \in Seq(Bytes)
      BY <2>1, <2>2, HexStepType
    <2>4. k # n => k \in 0 .. n - 1
      BY <1>3
    <2> QED BY <1>4, <2>3, <2>4, Zenon
  <1>6. g \in [0 .. n -> Seq(Bytes)]
    <2>1. \A k \in 0 .. n : g[k] \in Seq(Bytes)
      <3> HIDE DEF g
      <3> QED BY <1>5, Zenon
    <2> QED BY <2>1
  <1>7. ASSUME NEW k \in 0 .. n PROVE g[k] = HexStep(g, k)
    <2>1. ~(k < 16) => f[k \div 16] = g[k \div 16]
      <3>1. SUFFICES ASSUME ~(k < 16) PROVE f[k \div 16] = g[k \div 16]
        OBVIOUS
      <3>2. k \in Nat /\ k \div 16 \in 0 .. k - 1
        BY <3>1, HexDivides
      <3>3. k \div 16 \in 0 .. n /\ k \div 16 # n
        BY <1>3, <3>2
      <3> QED BY <3>3, Zenon
    <2>2. HexStep(f, k) = HexStep(g, k)
      <3>1. k \in Nat
        OBVIOUS
      <3> HIDE DEF g
      <3> QED BY <2>1, <3>1, HexSame
    <2> HIDE DEF g
    <2> QED BY <1>5, <2>2, Zenon
  <1>8. P(n)
    <2> HIDE DEF g
    <2> QED BY <1>6, <1>7 DEF HexUpto
  <1> QED BY <1>3, <1>8

(* ... and only one. *)
LEMMA HexUnique ==
    ASSUME NEW N \in Nat, NEW M \in Nat, NEW f, NEW g, HexUpto(N, f), HexUpto(M, g),
           NEW n \in 0 .. N, n \in 0 .. M
    PROVE  f[n] = g[n]
  <1> DEFINE T == {k \in 0 .. n : f[k] # g[k]}
  <1>1. SUFFICES ASSUME T # {} PROVE FALSE
    BY <1>1
  <1>2. PICK k \in T : \A m \in T : k <= m
    <2>1. T \in SUBSET Nat
      OBVIOUS
    <2> HIDE DEF T
    <2> QED BY <1>1, <2>1, LeastNumber
  <1>3. k \in Nat /\ k \in 0 .. n /\ k \in 0 .. N /\ k \in 0 .. M /\ f[k] # g[k]
    BY <1>2
  <1>4. ~(k < 16) => f[k \div 16] = g[k \div 16]
    <2>1. SUFFICES ASSUME ~(k < 16) PROVE f[k \div 16] = g[k \div 16]
      OBVIOUS
    <2>2. k \div 16 \in 0 .. k - 1
      BY <1>3, <2>1, HexDivides
    <2>3. k \div 16 \in 0 .. n /\ ~(k <= k \div 16)
      BY <1>3, <2>2
    <2>4. k \div 16 \notin T
      <3> HIDE DEF T
      <3> QED BY <1>2, <2>3, Zenon
    <2> QED BY <2>3, <2>4, Zenon
  <1>5. HexStep(f, k) = HexStep(g, k)
    BY <1>3, <1>4, HexSame
  <1>6. f[k] = HexStep(f, k) /\ g[k] = HexStep(g, k)
    BY <1>3, Zenon DEF HexUpto
  <1> QED BY <1>3, <1>5, <1>6, Zenon

(* The size that is written is a text. *)
LEMMA HexTextType ==
    ASSUME NEW n \in Nat
    PROVE  HexText[n] \in Seq(Bytes)
  <1> DEFINE F(N) == CHOOSE f : f \in [0 .. N -> Seq(Bytes)] /\ HexUpto(N, f)
             g == [k \in Nat |-> F(k)[k]]
             Solves(h) == h = [k \in Nat |-> HexStep(h, k)]
  <1>1. ASSUME NEW N \in Nat PROVE F(N) \in [0 .. N -> Seq(Bytes)] /\ HexUpto(N, F(N))
    <2>1. \E f : f \in [0 .. N -> Seq(Bytes)] /\ HexUpto(N, f)
      BY HexExists, Zenon
    <2> QED BY <2>1, Zenon
  <1> HIDE DEF F
  <1>2. ASSUME NEW k \in Nat PROVE F(k)[k] = HexStep(g, k)
    <2>1. k \in 0 .. k
      OBVIOUS
    <2>2. F(k)[k] = HexStep(F(k), k)
      BY <1>1, <2>1, Zenon DEF HexUpto
    <2>3. ~(k < 16) => F(k)[k \div 16] = g[k \div 16]
      <3>1. SUFFICES ASSUME ~(k < 16) PROVE F(k)[k \div 16] = g[k \div 16]
        OBVIOUS
      <3> DEFINE d == k \div 16
      <3>2. d \in 0 .. k /\ d \in 0 .. d /\ d \in Nat
        BY <3>1, HexDivides
      <3> HIDE DEF d
      <3>3. F(k)[d] = F(d)[d]
        BY <1>1, <3>2, HexUnique
      <3> QED BY <3>2, <3>3, Zenon DEF d
    <2>4. HexStep(F(k), k) = HexStep(g, k)
      <3> HIDE DEF g
      <3> QED BY <2>3, HexSame
    <2> QED BY <2>2, <2>4, Zenon
  <1>3. Solves(g)
    BY <1>2
  <1>4. HexText = CHOOSE h : Solves(h)
    BY Zenon DEF HexText, HexStep
  <1>5. Solves(HexText)
    <2> HIDE DEF Solves, g
    <2> QED BY <1>3, <1>4, Zenon
  <1>6. HexUpto(n, HexText)
    <2>1. \A k \in Nat : HexText[k] = HexStep(HexText, k)
      <3>1. PICK h : h = HexText
        OBVIOUS
      <3>2. h = [k \in Nat |-> HexStep(h, k)]
        BY <1>5, <3>1, Zenon
      <3>3. \A k \in Nat : h[k] = HexStep(h, k)
        BY <3>2, Zenon
      <3> QED BY <3>1, <3>3, Zenon
    <2>2. \A k \in 0 .. n : k \in Nat
      OBVIOUS
    <2> QED BY <2>1, <2>2, Zenon DEF HexUpto
  <1>7. n \in 0 .. n
    OBVIOUS
  <1>8. HexText[n] = F(n)[n]
    BY <1>1, <1>6, <1>7, HexUnique
  <1> QED BY <1>1, <1>7, <1>8, Zenon

-----------------------------------------------------------------------------
(* s stands in w behind the first p. *)
Holds(w, p, s) == p + Len(s) <= Len(w) /\ \A j \in 1 .. Len(s) : w[p + j] = s[j]

(* Where two sequences stand in a row, each of them stands. *)
LEMMA HoldsParts ==
    ASSUME NEW S, NEW a \in Seq(S), NEW b \in Seq(S), NEW w \in Seq(S), NEW p \in Nat
    PROVE  Holds(w, p, a \o b) => Holds(w, p, a) /\ Holds(w, p + Len(a), b)
  <1>1. /\ Len(a \o b) = Len(a) + Len(b) /\ Len(a) \in Nat /\ Len(b) \in Nat /\ Len(w) \in Nat
        /\ \A j \in 1 .. Len(a) : (a \o b)[j] = a[j]
        /\ \A j \in 1 .. Len(b) : (a \o b)[Len(a) + j] = b[j]
    BY Joint
  <1> DEFINE t == a \o b
  <1>2. /\ Len(t) = Len(a) + Len(b)
        /\ \A j \in 1 .. Len(a) : t[j] = a[j]
        /\ \A j \in 1 .. Len(b) : t[Len(a) + j] = b[j]
    BY <1>1
  <1> HIDE DEF t
  <1>3. SUFFICES ASSUME Holds(w, p, t) PROVE Holds(w, p, a) /\ Holds(w, p + Len(a), b)
    BY DEF t
  <1>4. Holds(w, p, a)
    BY <1>1, <1>2, <1>3 DEF Holds
  <1>5. ASSUME NEW j \in 1 .. Len(b) PROVE w[p + Len(a) + j] = b[j]
    <2>1. Len(a) + j \in 1 .. Len(t) /\ p + (Len(a) + j) = p + Len(a) + j
      BY <1>1, <1>2
    <2>2. w[p + (Len(a) + j)] = t[Len(a) + j]
      BY <1>3, <2>1 DEF Holds
    <2> QED BY <1>2, <2>1, <2>2
  <1>6. p + Len(a) + Len(b) <= Len(w)
    BY <1>1, <1>2, <1>3 DEF Holds
  <1> QED BY <1>4, <1>5, <1>6 DEF Holds

(* What stands in a part stands in the whole. *)
LEMMA HoldsWithin ==
    ASSUME NEW S, NEW t \in Seq(S), NEW u \in Seq(S), NEW w \in Seq(S), NEW p \in Nat, NEW q \in Nat,
           Holds(w, p, t), Holds(t, q, u)
    PROVE  Holds(w, p + q, u)
  <1>1. Len(t) \in Nat /\ Len(u) \in Nat /\ Len(w) \in Nat
    OBVIOUS
  <1>2. ASSUME NEW j \in 1 .. Len(u) PROVE w[p + q + j] = u[j]
    <2>1. q + j \in 1 .. Len(t) /\ p + (q + j) = p + q + j
      BY <1>1 DEF Holds
    <2>2. w[p + (q + j)] = t[q + j] /\ t[q + j] = u[j]
      BY <2>1 DEF Holds
    <2> QED BY <2>1, <2>2
  <1> QED BY <1>1, <1>2 DEF Holds

(* Each of the joined sequences stands where the ones before it end. *)
LEMMA HoldsPiece ==
    ASSUME NEW S, NEW s \in Seq(Seq(S)), NEW i \in 1 .. Len(s)
    PROVE  /\ Holds(FlattenSeq(s), Upto(s, i - 1), s[i])
           /\ Upto(s, i - 1) \in Nat /\ Upto(s, i) \in Nat
           /\ Upto(s, i) = Upto(s, i - 1) + Len(s[i])
           /\ FlattenSeq(s) \in Seq(S) /\ s[i] \in Seq(S)
  <1>1. Len(s) \in Nat /\ s[i] \in Seq(S)
    OBVIOUS
  <1>2. i \in 0 .. Len(s) /\ i - 1 \in 0 .. Len(s)
    BY <1>1
  <1>3. /\ FlattenSeq(s) \in Seq(S)
        /\ Upto(s, i) \in 0 .. Len(FlattenSeq(s)) /\ Upto(s, i - 1) \in 0 .. Len(FlattenSeq(s))
        /\ Upto(s, i) = Upto(s, i - 1) + Len(s[i])
        /\ \A j \in 1 .. Len(s[i]) : FlattenSeq(s)[Upto(s, i - 1) + j] = s[i][j]
    BY <1>2, FlattenPlaces
  <1>4. Len(FlattenSeq(s)) \in Nat
    BY <1>3
  <1> QED BY <1>1, <1>3, <1>4 DEF Holds

-----------------------------------------------------------------------------
(* A chunk with the size line a, and the chunks of a message. *)
ChunkText(a, d) == a \o EndLine \o d \o EndLine
ChunksIn(m)  == [i \in DOMAIN m.chunks |-> ChunkText(m.chunks[i].line, m.chunks[i].data)]
ChunksOut(m) == [i \in DOMAIN m.chunks |-> ChunkText(HexText[Len(m.chunks[i].data)], m.chunks[i].data)]

(* The parts of a chunk. *)
LEMMA ChunkParts ==
    ASSUME NEW a \in Seq(Bytes), NEW d \in Seq(Bytes)
    PROVE  /\ ChunkText(a, d) \in Seq(Bytes) /\ Len(ChunkText(a, d)) = Len(a) + 2 + Len(d) + 2
           /\ a \o EndLine \in Seq(Bytes) /\ Len(a \o EndLine) = Len(a) + 2
           /\ \A w \in Seq(Bytes), p \in Nat :
                Holds(w, p, ChunkText(a, d)) =>
                    /\ Holds(w, p, a) /\ Holds(w, p + Len(a), EndLine)
                    /\ Holds(w, p, a \o EndLine)
                    /\ Holds(w, p + Len(a) + 2, d)
                    /\ Holds(w, p + Len(a) + 2 + Len(d), EndLine)
  <1>0. EndLine \in Seq(Bytes) /\ Len(EndLine) = 2 /\ Len(a) \in Nat /\ Len(d) \in Nat
    BY EndLineText
  <1> HIDE DEF EndLine
  <1> DEFINE x == a \o EndLine
             y == x \o d
             z == y \o EndLine
  <1>1. x \in Seq(Bytes) /\ Len(x) = Len(a) + 2
    <2>1. x \in Seq(Bytes) /\ Len(x) = Len(a) + Len(EndLine)
      BY <1>0, Joint, Zenon
    <2> HIDE DEF x
    <2> QED BY <1>0, <2>1
  <1>2. y \in Seq(Bytes) /\ Len(y) = Len(a) + 2 + Len(d)
    <2> HIDE DEF x
    <2>1. y \in Seq(Bytes) /\ Len(y) = Len(x) + Len(d)
      BY <1>1, Joint, Zenon
    <2> HIDE DEF y
    <2> QED BY <1>0, <1>1, <2>1
  <1>3. z \in Seq(Bytes) /\ Len(z) = Len(a) + 2 + Len(d) + 2 /\ ChunkText(a, d) = z
    <2>1. ChunkText(a, d) = z
      BY DEF ChunkText
    <2> HIDE DEF y
    <2>2. z \in Seq(Bytes) /\ Len(z) = Len(y) + Len(EndLine)
      BY <1>0, <1>2, Joint, Zenon
    <2> HIDE DEF z
    <2> QED BY <1>0, <1>2, <2>1, <2>2
  <1>4. ASSUME NEW w \in Seq(Bytes), NEW p \in Nat, Holds(w, p, z)
        PROVE  /\ Holds(w, p, a) /\ Holds(w, p + Len(a), EndLine) /\ Holds(w, p, x)
               /\ Holds(w, p + Len(a) + 2, d) /\ Holds(w, p + Len(a) + 2 + Len(d), EndLine)
    <2>1. Holds(w, p, y) /\ Holds(w, p + Len(y), EndLine)
      <3> HIDE DEF y
      <3> QED BY <1>0, <1>2, <1>4, HoldsParts
    <2>2. Holds(w, p, x) /\ Holds(w, p + Len(x), d)
      <3> HIDE DEF x
      <3> QED BY <1>1, <2>1, HoldsParts
    <2>3. Holds(w, p, a) /\ Holds(w, p + Len(a), EndLine)
      BY <1>0, <2>2, HoldsParts
    <2>4. p + Len(y) = p + Len(a) + 2 + Len(d) /\ p + Len(x) = p + Len(a) + 2
      <3> HIDE DEF x, y
      <3> QED BY <1>0, <1>1, <1>2
    <2> HIDE DEF x, y
    <2> QED BY <2>1, <2>2, <2>3, <2>4, Zenon
  <1> QED BY <1>1, <1>3, <1>4

(* The parts of a chunk are bytes. *)
LEMMA ChunkTypes ==
    ASSUME NEW m \in Messages, NEW c \in 1 .. Len(m.chunks)
    PROVE  /\ m.chunks[c].line \in Seq(Bytes) /\ m.chunks[c].data \in Seq(Bytes)
           /\ Len(m.chunks[c].line) \in Nat /\ Len(m.chunks[c].data) \in Nat
           /\ HexText[Len(m.chunks[c].data)] \in Seq(Bytes)
           /\ Len(HexText[Len(m.chunks[c].data)]) \in Nat
  <1>1. m.chunks \in Seq(Chunks)
    BY DEF Messages
  <1>2. m.chunks[c] \in Chunks
    BY <1>1
  <1>3. m.chunks[c].line \in Seq(STRING) /\ m.chunks[c].data \in Seq(STRING)
    BY <1>2 DEF Chunks
  <1>4. m.chunks[c].line \in Seq(Bytes) /\ m.chunks[c].data \in Seq(Bytes)
    BY <1>3, BytesText
  <1>5. Len(m.chunks[c].line) \in Nat /\ Len(m.chunks[c].data) \in Nat
    BY <1>4
  <1>6. HexText[Len(m.chunks[c].data)] \in Seq(Bytes)
    BY <1>5, HexTextType
  <1> QED BY <1>4, <1>5, <1>6

(* Sequences of sequences. *)
LEMMA SeqOfTexts ==
    ASSUME NEW n \in Nat, NEW f, DOMAIN f = 1 .. n, f = [i \in 1 .. n |-> f[i]],
           \A i \in 1 .. n : f[i] \in Seq(Bytes)
    PROVE  f \in Seq(Seq(Bytes)) /\ Len(f) = n
  <1> DEFINE S == Seq(Bytes)
  <1>1. f \in [1 .. n -> S]
    BY Zenon
  <1> HIDE DEF S
  <1> QED BY <1>1 DEF S

(* A sequence stands in itself. *)
LEMMA HoldsSelf ==
    ASSUME NEW S, NEW t \in Seq(S)
    PROVE  Holds(t, 0, t)
  BY DEF Holds

(* The body of a message, as sent and as forwarded. *)
BodyIn(m)  == IF m.enc = "CHUNKED" THEN FlattenSeq(ChunksIn(m)) ELSE Data(m)
BodyOut(m) == IF m.enc = "CHUNKED" THEN FlattenSeq(ChunksOut(m)) ELSE Data(m)

(* The chunks of a message, as sent and as forwarded. *)
LEMMA ChunksTexts ==
    ASSUME NEW m \in Messages
    PROVE  /\ ChunksIn(m) \in Seq(Seq(Bytes)) /\ Len(ChunksIn(m)) = Len(m.chunks)
           /\ ChunksOut(m) \in Seq(Seq(Bytes)) /\ Len(ChunksOut(m)) = Len(m.chunks)
           /\ Data(m) \in Seq(Bytes) /\ (m.chunks = <<>> => Data(m) = <<>>)
           /\ Len(m.chunks) \in Nat
  <1>1. m.chunks \in Seq(Chunks)
    BY DEF Messages
  <1>2. DOMAIN m.chunks = 1 .. Len(m.chunks) /\ Len(m.chunks) \in Nat
    BY <1>1
  <1>3. \A c \in 1 .. Len(m.chunks) :
            /\ ChunksIn(m)[c] \in Seq(Bytes) /\ ChunksOut(m)[c] \in Seq(Bytes)
            /\ m.chunks[c].data \in Seq(Bytes)
    BY <1>2, ChunkTypes, ChunkParts DEF ChunksIn, ChunksOut
  <1> DEFINE D == [i \in DOMAIN m.chunks |-> m.chunks[i].data]
  <1>4. D \in Seq(Seq(Bytes)) /\ Len(D) = Len(m.chunks)
    <2>1. DOMAIN D = 1 .. Len(m.chunks) /\ D = [i \in 1 .. Len(m.chunks) |-> D[i]]
      BY <1>2
    <2>2. \A c \in 1 .. Len(m.chunks) : D[c] \in Seq(Bytes)
      BY <1>2, <1>3
    <2> HIDE DEF D
    <2> QED BY <1>2, <2>1, <2>2, SeqOfTexts
  <1>5. ChunksIn(m) \in Seq(Seq(Bytes)) /\ Len(ChunksIn(m)) = Len(m.chunks)
    <2>1. DOMAIN ChunksIn(m) = 1 .. Len(m.chunks)
          /\ ChunksIn(m) = [i \in 1 .. Len(m.chunks) |-> ChunksIn(m)[i]]
      BY <1>2 DEF ChunksIn
    <2> QED BY <1>2, <1>3, <2>1, SeqOfTexts
  <1>6. ChunksOut(m) \in Seq(Seq(Bytes)) /\ Len(ChunksOut(m)) = Len(m.chunks)
    <2>1. DOMAIN ChunksOut(m) = 1 .. Len(m.chunks)
          /\ ChunksOut(m) = [i \in 1 .. Len(m.chunks) |-> ChunksOut(m)[i]]
      BY <1>2 DEF ChunksOut
    <2> QED BY <1>2, <1>3, <2>1, SeqOfTexts
  <1>7. Data(m) = FlattenSeq(D)
    BY DEF Data
  <1>8. FlattenSeq(D) \in Seq(Bytes)
    <2> HIDE DEF D
    <2> QED BY <1>4, FlattenPlaces
  <1>9. ASSUME m.chunks = <<>> PROVE FlattenSeq(D) = <<>>
    <2>1. Len(D) = 0
      <3> HIDE DEF D
      <3> QED BY <1>4, <1>9
    <2>2. D = <<>>
      <3> HIDE DEF D
      <3> QED BY <1>4, <2>1
    <2> HIDE DEF D
    <2> QED BY <2>1, <2>2 DEF FlattenSeq
  <1> HIDE DEF D
  <1> QED BY <1>2, <1>5, <1>6, <1>7, <1>8, <1>9

(* A header, a body and what is behind it. *)
LEMMA ThreeParts ==
    ASSUME NEW b \in Seq(Bytes), NEW e \in Seq(Bytes), NEW t, t = Header \o b \o e
    PROVE  /\ t \in Seq(Bytes) /\ Len(t) = 1 + Len(b) + Len(e)
           /\ Holds(t, 0, Header) /\ Holds(t, 1, b) /\ Holds(t, 1 + Len(b), e)
  <1>0. Header \in Seq(Bytes) /\ Len(Header) = 1 /\ Len(b) \in Nat /\ Len(e) \in Nat
    BY EndLineText
  <1> DEFINE x == Header \o b
  <1>1. x \in Seq(Bytes) /\ Len(x) = Len(Header) + Len(b)
    BY <1>0, Joint, Zenon
  <1>2. t = x \o e
    OBVIOUS
  <1>3. t \in Seq(Bytes) /\ Len(t) = Len(x) + Len(e)
    <2> HIDE DEF x
    <2> QED BY <1>1, <1>2, Joint, Zenon
  <1>4. Holds(t, 0, t)
    BY <1>3, HoldsSelf
  <1>5. Holds(t, 0, x) /\ Holds(t, 0 + Len(x), e)
    <2> HIDE DEF x
    <2> QED BY <1>1, <1>2, <1>3, <1>4, HoldsParts
  <1>6. Holds(t, 0, Header) /\ Holds(t, 0 + Len(Header), b)
    <2>1. Holds(t, 0, Header \o b)
      BY <1>5
    <2> QED BY <1>0, <1>3, <2>1, HoldsParts
  <1>7. 0 + Len(x) = 1 + Len(b) /\ 0 + Len(Header) = 1 /\ Len(t) = 1 + Len(b) + Len(e)
    <2> HIDE DEF x
    <2> QED BY <1>0, <1>1, <1>3
  <1> HIDE DEF x
  <1> QED BY <1>3, <1>5, <1>6, <1>7, Zenon

(* The parts of a message are bytes. *)
LEMMA MessageParts ==
    ASSUME NEW m \in Messages
    PROVE  /\ BodyIn(m) \in Seq(Bytes) /\ BodyOut(m) \in Seq(Bytes)
           /\ m.junk \in Seq(Bytes) /\ m.part \in Seq(Bytes)
           /\ Wire(m) \in Seq(Bytes) /\ Len(Wire(m)) = 1 + Len(BodyIn(m)) + Len(m.junk)
           /\ Holds(Wire(m), 0, Header) /\ Holds(Wire(m), 1, BodyIn(m))
           /\ Holds(Wire(m), 1 + Len(BodyIn(m)), m.junk)
           /\ Relay(m) \in Seq(Bytes) /\ Len(Relay(m)) = 1 + Len(BodyOut(m)) + Len(m.part)
           /\ Holds(Relay(m), 0, Header) /\ Holds(Relay(m), 1, BodyOut(m))
           /\ Holds(Relay(m), 1 + Len(BodyOut(m)), m.part)
  <1>1. BodyIn(m) \in Seq(Bytes) /\ BodyOut(m) \in Seq(Bytes)
    <2>1. /\ ChunksIn(m) \in Seq(Seq(Bytes)) /\ ChunksOut(m) \in Seq(Seq(Bytes))
          /\ Data(m) \in Seq(Bytes)
      BY ChunksTexts
    <2>2. FlattenSeq(ChunksIn(m)) \in Seq(Bytes) /\ FlattenSeq(ChunksOut(m)) \in Seq(Bytes)
      BY <2>1, FlattenPlaces
    <2> QED BY <2>1, <2>2 DEF BodyIn, BodyOut
  <1>2. m.junk \in Seq(Bytes) /\ m.part \in Seq(Bytes)
    <2>1. m.junk \in Seq(STRING) /\ m.part \in Seq(STRING)
      BY DEF Messages
    <2> QED BY <2>1, BytesText
  <1>3. Wire(m) = Header \o BodyIn(m) \o m.junk
    BY Zenon DEF Wire, BodyIn, ChunksIn, ChunkText
  <1>4. Relay(m) = Header \o BodyOut(m) \o m.part
    BY Zenon DEF Relay, BodyOut, ChunksOut, ChunkText
  <1> QED BY <1>1, <1>2, <1>3, <1>4, ThreeParts

-----------------------------------------------------------------------------
(* The messages in what is sent, and in what is expected. *)
Wires(ms)  == [i \in DOMAIN ms |-> Wire(ms[i])]
(* What is expected of the messages. *)
Relays(ms) == [i \in DOMAIN ms |-> Relay(ms[i])]
Sought(ms) == FlattenSeq(Relays(ms))

(* The messages, as sent and as forwarded. *)
LEMMA InputTexts ==
    ASSUME NEW ms \in Seq(Messages)
    PROVE  /\ Wires(ms) \in Seq(Seq(Bytes)) /\ Len(Wires(ms)) = Len(ms)
           /\ Relays(ms) \in Seq(Seq(Bytes)) /\ Len(Relays(ms)) = Len(ms)
           /\ Sent(ms) = FlattenSeq(Wires(ms))
           /\ Sent(ms) \in Seq(Bytes) /\ Sought(ms) \in Seq(Bytes) /\ Len(ms) \in Nat
           /\ \A i \in 1 .. Len(ms) : Wires(ms)[i] = Wire(ms[i]) /\ Relays(ms)[i] = Relay(ms[i])
  <1>1. DOMAIN ms = 1 .. Len(ms) /\ Len(ms) \in Nat
    OBVIOUS
  <1>2. \A i \in 1 .. Len(ms) : ms[i] \in Messages
    OBVIOUS
  <1>3. \A i \in 1 .. Len(ms) : Wires(ms)[i] = Wire(ms[i]) /\ Relays(ms)[i] = Relay(ms[i])
    BY <1>1 DEF Wires, Relays
  <1>4. \A i \in 1 .. Len(ms) : Wires(ms)[i] \in Seq(Bytes) /\ Relays(ms)[i] \in Seq(Bytes)
    BY <1>2, <1>3, MessageParts
  <1>5. Wires(ms) \in Seq(Seq(Bytes)) /\ Len(Wires(ms)) = Len(ms)
    <2>1. DOMAIN Wires(ms) = 1 .. Len(ms) /\ Wires(ms) = [i \in 1 .. Len(ms) |-> Wires(ms)[i]]
      BY <1>1 DEF Wires
    <2> QED BY <1>1, <1>4, <2>1, SeqOfTexts
  <1>6. Relays(ms) \in Seq(Seq(Bytes)) /\ Len(Relays(ms)) = Len(ms)
    <2>1. DOMAIN Relays(ms) = 1 .. Len(ms) /\ Relays(ms) = [i \in 1 .. Len(ms) |-> Relays(ms)[i]]
      BY <1>1 DEF Relays
    <2> QED BY <1>1, <1>4, <2>1, SeqOfTexts
  <1>7. Sent(ms) = FlattenSeq(Wires(ms))
    BY DEF Sent, Wires
  <1>8. FlattenSeq(Wires(ms)) \in Seq(Bytes) /\ FlattenSeq(Relays(ms)) \in Seq(Bytes)
    BY <1>5, <1>6, FlattenPlaces
  <1> QED BY <1>1, <1>3, <1>5, <1>6, <1>7, <1>8 DEF Sought

(* The i-th message, behind the ones before it. *)
LEMMA MessagePlace ==
    ASSUME NEW ms \in Seq(Messages), NEW i \in 1 .. Len(ms), NEW m, m = ms[i],
           NEW p, p = Upto(Wires(ms), i - 1), NEW q, q = Upto(Relays(ms), i - 1)
    PROVE  /\ p \in Nat /\ q \in Nat /\ m \in Messages
           /\ Holds(Sent(ms), p, Header) /\ Holds(Sought(ms), q, Header)
           /\ Holds(Sent(ms), p + 1, BodyIn(m)) /\ Holds(Sought(ms), q + 1, BodyOut(m))
           /\ Holds(Sent(ms), p + 1 + Len(BodyIn(m)), m.junk)
           /\ Holds(Sought(ms), q + 1 + Len(BodyOut(m)), m.part)
           /\ Upto(Wires(ms), i) = p + 1 + Len(BodyIn(m)) + Len(m.junk)
           /\ Upto(Relays(ms), i) = q + 1 + Len(BodyOut(m)) + Len(m.part)
  <1>1. m \in Messages
    OBVIOUS
  <1>2. /\ Wires(ms) \in Seq(Seq(Bytes)) /\ Relays(ms) \in Seq(Seq(Bytes))
        /\ i \in 1 .. Len(Wires(ms)) /\ i \in 1 .. Len(Relays(ms))
        /\ Wires(ms)[i] = Wire(m) /\ Relays(ms)[i] = Relay(m)
        /\ Sent(ms) = FlattenSeq(Wires(ms))
    BY InputTexts
  <1>3. /\ Holds(Sent(ms), p, Wire(m)) /\ p \in Nat /\ Sent(ms) \in Seq(Bytes)
        /\ Upto(Wires(ms), i) = p + Len(Wire(m))
    BY <1>2, HoldsPiece
  <1>4. /\ Holds(Sought(ms), q, Relay(m)) /\ q \in Nat /\ Sought(ms) \in Seq(Bytes)
        /\ Upto(Relays(ms), i) = q + Len(Relay(m))
    BY <1>2, HoldsPiece DEF Sought
  <1>5. /\ BodyIn(m) \in Seq(Bytes) /\ BodyOut(m) \in Seq(Bytes)
        /\ m.junk \in Seq(Bytes) /\ m.part \in Seq(Bytes)
        /\ Wire(m) \in Seq(Bytes) /\ Len(Wire(m)) = 1 + Len(BodyIn(m)) + Len(m.junk)
        /\ Holds(Wire(m), 0, Header) /\ Holds(Wire(m), 1, BodyIn(m))
        /\ Holds(Wire(m), 1 + Len(BodyIn(m)), m.junk)
        /\ Relay(m) \in Seq(Bytes) /\ Len(Relay(m)) = 1 + Len(BodyOut(m)) + Len(m.part)
        /\ Holds(Relay(m), 0, Header) /\ Holds(Relay(m), 1, BodyOut(m))
        /\ Holds(Relay(m), 1 + Len(BodyOut(m)), m.part)
    BY <1>1, MessageParts
  <1>6. Header \in Seq(Bytes)
    BY EndLineText
  <1>7. /\ Len(BodyIn(m)) \in Nat /\ Len(BodyOut(m)) \in Nat /\ Len(m.junk) \in Nat /\ Len(m.part) \in Nat
    BY <1>5
  <1> DEFINE a == Len(BodyIn(m))
             b == Len(BodyOut(m))
  <1>8. /\ Holds(Sent(ms), p + 0, Header) /\ Holds(Sent(ms), p + 1, BodyIn(m))
        /\ Holds(Sent(ms), p + (1 + a), m.junk)
    <2>1. 0 \in Nat /\ 1 \in Nat /\ 1 + a \in Nat
      BY <1>7
    <2> HIDE DEF a
    <2>2. Holds(Wire(m), 1 + a, m.junk)
      BY <1>5 DEF a
    <2> QED BY <1>3, <1>5, <1>6, <2>1, <2>2, HoldsWithin, Zenon
  <1>9. /\ Holds(Sought(ms), q + 0, Header) /\ Holds(Sought(ms), q + 1, BodyOut(m))
        /\ Holds(Sought(ms), q + (1 + b), m.part)
    <2>1. 0 \in Nat /\ 1 \in Nat /\ 1 + b \in Nat
      BY <1>7
    <2> HIDE DEF b
    <2>2. Holds(Relay(m), 1 + b, m.part)
      BY <1>5 DEF b
    <2> QED BY <1>4, <1>5, <1>6, <2>1, <2>2, HoldsWithin, Zenon
  <1>10. /\ p + 0 = p /\ q + 0 = q /\ p + (1 + a) = p + 1 + a /\ q + (1 + b) = q + 1 + b
         /\ Upto(Wires(ms), i) = p + 1 + a + Len(m.junk)
         /\ Upto(Relays(ms), i) = q + 1 + b + Len(m.part)
    <2> DEFINE x == Len(m.junk)
               y == Len(m.part)
    <2>1. /\ a \in Nat /\ b \in Nat /\ x \in Nat /\ y \in Nat /\ p \in Nat /\ q \in Nat
          /\ Upto(Wires(ms), i) = p + (1 + a + x) /\ Upto(Relays(ms), i) = q + (1 + b + y)
      BY <1>3, <1>4, <1>5, <1>7, Zenon
    <2> HIDE DEF a, b, x, y
    <2>2. \A k, d, e \in Nat : k + 0 = k /\ k + (1 + d) = k + 1 + d /\ k + (1 + d + e) = k + 1 + d + e
      OBVIOUS
    <2>3. p + 0 = p /\ q + 0 = q
      BY <2>1, <2>2, Zenon
    <2>4. p + (1 + a) = p + 1 + a /\ q + (1 + b) = q + 1 + b
      BY <2>1, <2>2, Zenon
    <2>5. a \in Nat /\ b \in Nat /\ x \in Nat /\ y \in Nat /\ p \in Nat /\ q \in Nat
      BY <2>1
    <2>6. p + (1 + a + x) = p + 1 + a + x /\ q + (1 + b + y) = q + 1 + b + y
      BY <2>5, SMT
    <2> QED BY <2>1, <2>3, <2>4, <2>6, Zenon DEF x, y
  <1> QED BY <1>1, <1>3, <1>4, <1>8, <1>9, <1>10, Zenon

-----------------------------------------------------------------------------
(* The c-th chunk, or the first one in the junk behind the last. *)
Pieces(m, c) ==
    IF c <= Len(m.chunks) THEN {m.chunks[c]}
    ELSE {JunkChunk(m.junk, ln[1], ln[2]) :
            ln \in {x \in (0 .. Len(m.junk)) \X (0 .. Len(m.junk)) : BadTrailer(m, x[1], x[2])}}

(* Where the chunks of the i-th message begin. *)
Start(ms, i, c) == Upto(Wires(ms), i - 1) + 1 + Upto(ChunksIn(ms[i]), c - 1)
OutStart(ms, i, c) == Upto(Relays(ms), i - 1) + 1 + Upto(ChunksOut(ms[i]), c - 1)

(* ch is the c-th chunk of the i-th message. *)
Piece(ms, i, c, ch) ==
    /\ i \in 1 .. Len(ms) /\ ms[i].enc = "CHUNKED"
    /\ c \in 1 .. Len(ms[i].chunks) + 1
    /\ c = Len(ms[i].chunks) + 1 => ms[i].junk # <<>>
    /\ ch \in Pieces(ms[i], c)

(* What is sent behind p for a chunk, and expected behind q. *)
Framing(ms, ch, P, Q) ==
    LET n == Len(ch.data)
        l == Len(ch.line)
        h == Len(HexText[n])
    IN  /\ P \in Nat /\ Q \in Nat /\ ch.line \in Seq(Bytes) /\ ch.data \in Seq(Bytes)
        /\ n \in Nat /\ l \in Nat /\ h \in Nat
        /\ SizeLine(ch.line, n) /\ HexText[n] \in Seq(Bytes)
        /\ Holds(Sent(ms), P, ch.line) /\ Holds(Sent(ms), P + l, EndLine)
        /\ Holds(Sent(ms), P + l + 2, ch.data)
        /\ Holds(Sought(ms), Q, HexText[n] \o EndLine)
        /\ Holds(Sought(ms), Q + h + 2, ch.data)

(* The end of a chunk, and what is behind it. *)
Ended(ms, ch, P, Q, P1, Q1) ==
    LET n == Len(ch.data)
        l == Len(ch.line)
        h == Len(HexText[n])
    IN  /\ Holds(Sent(ms), P + l + 2 + n, EndLine)
        /\ Holds(Sought(ms), Q + h + 2 + n, EndLine)
        /\ P1 = P + l + 4 + n /\ Q1 = Q + h + 4 + n

(* No end where it is to be. *)
Open(ms, ch, P) == NoEnd(Sent(ms), P + Len(ch.line) + 2 + Len(ch.data))

(* A part of a sequence. *)
LEMMA HoldsPart ==
    ASSUME NEW S, NEW s \in Seq(S), NEW a \in Nat, NEW n \in Nat, a + n <= Len(s)
    PROVE  /\ SubSeq(s, a + 1, a + n) \in Seq(S) /\ Len(SubSeq(s, a + 1, a + n)) = n
           /\ Holds(s, a, SubSeq(s, a + 1, a + n))
  <1>1. /\ SubSeq(s, a + 1, a + n) \in Seq(S) /\ Len(SubSeq(s, a + 1, a + n)) = n
        /\ \A j \in 1 .. n : SubSeq(s, a + 1, a + n)[j] = s[a + j]
    OBVIOUS
  <1> QED BY <1>1 DEF Holds

(* The length of a chunk with its two line ends. *)
ChunkSum(p, x, l, n) == p + 1 + (x + (l + 2 + n + 2)) = p + 1 + x + l + 4 + n

(* It is the same, however it is added up. *)
LEMMA ChunkSums == \A p, x, l, n \in Nat : ChunkSum(p, x, l, n)
  BY DEF ChunkSum

(* A whole chunk. *)
LEMMA WholePiece ==
    ASSUME NEW ms, WellFramed(ms), NEW i \in 1 .. Len(ms), ms[i].enc = "CHUNKED",
           NEW c \in 1 .. Len(ms[i].chunks)
    PROVE  /\ Framing(ms, ms[i].chunks[c], Start(ms, i, c), OutStart(ms, i, c))
           /\ Ended(ms, ms[i].chunks[c], Start(ms, i, c), OutStart(ms, i, c),
                    Start(ms, i, c + 1), OutStart(ms, i, c + 1))
  <1>0. PICK m, ch, P, Q, n, l, h :
            /\ m = ms[i] /\ ch = m.chunks[c] /\ n = Len(ch.data) /\ l = Len(ch.line)
            /\ h = Len(HexText[n])
            /\ P = Upto(Wires(ms), i - 1) + 1 + Upto(ChunksIn(m), c - 1)
            /\ Q = Upto(Relays(ms), i - 1) + 1 + Upto(ChunksOut(m), c - 1)
    OBVIOUS
  <1> USE <1>0
  <1> DEFINE p == Upto(Wires(ms), i - 1)
             q == Upto(Relays(ms), i - 1)
             x == Upto(ChunksIn(m), c - 1)
             y == Upto(ChunksOut(m), c - 1)
             t == ChunkText(ch.line, ch.data)
             u == ChunkText(HexText[n], ch.data)
  <1>1. ms \in Seq(Messages)
    BY DEF WellFramed
  <1>2. /\ p \in Nat /\ q \in Nat /\ m \in Messages
        /\ Holds(Sent(ms), p + 1, FlattenSeq(ChunksIn(m)))
        /\ Holds(Sought(ms), q + 1, FlattenSeq(ChunksOut(m)))
    BY <1>1, MessagePlace DEF BodyIn, BodyOut
  <1>3. /\ ChunksIn(m) \in Seq(Seq(Bytes)) /\ c \in 1 .. Len(ChunksIn(m))
        /\ ChunksOut(m) \in Seq(Seq(Bytes)) /\ c \in 1 .. Len(ChunksOut(m))
    BY <1>2, ChunksTexts
  <1>4. ChunksIn(m)[c] = t /\ ChunksOut(m)[c] = u
    <2>1. m.chunks \in Seq(Chunks)
      BY <1>2 DEF Messages
    <2>2. c \in DOMAIN m.chunks
      BY <2>1
    <2> QED BY <2>2, Zenon DEF ChunksIn, ChunksOut
  <1>5. /\ ch.line \in Seq(Bytes) /\ ch.data \in Seq(Bytes) /\ l \in Nat /\ n \in Nat
        /\ HexText[n] \in Seq(Bytes) /\ h \in Nat
    BY <1>2, ChunkTypes
  <1>6. /\ t \in Seq(Bytes) /\ Len(t) = l + 2 + n + 2
        /\ u \in Seq(Bytes) /\ Len(u) = h + 2 + n + 2
    BY <1>5, ChunkParts
  <1>7. /\ Holds(FlattenSeq(ChunksIn(m)), x, t) /\ x \in Nat /\ Upto(ChunksIn(m), c) = x + Len(t)
        /\ FlattenSeq(ChunksIn(m)) \in Seq(Bytes)
    BY <1>3, <1>4, HoldsPiece
  <1>8. /\ Holds(FlattenSeq(ChunksOut(m)), y, u) /\ y \in Nat /\ Upto(ChunksOut(m), c) = y + Len(u)
        /\ FlattenSeq(ChunksOut(m)) \in Seq(Bytes)
    BY <1>3, <1>4, HoldsPiece
  <1>9. Sent(ms) \in Seq(Bytes) /\ Sought(ms) \in Seq(Bytes)
    BY <1>1, InputTexts
  <1>10. P = p + 1 + x /\ Q = q + 1 + y /\ p + 1 \in Nat /\ q + 1 \in Nat /\ P \in Nat /\ Q \in Nat
    <2>1. P = p + 1 + x /\ Q = q + 1 + y
      BY Zenon
    <2>2. \A k, d \in Nat : k + 1 \in Nat /\ k + 1 + d \in Nat
      OBVIOUS
    <2> HIDE DEF p, q, x, y
    <2> QED BY <1>2, <1>7, <1>8, <2>1, <2>2, Zenon
  <1> HIDE DEF p, q, x, y, t, u
  <1>11. Holds(Sent(ms), P, t)
    BY <1>2, <1>6, <1>7, <1>9, <1>10, HoldsWithin
  <1>12. Holds(Sought(ms), Q, u)
    BY <1>2, <1>6, <1>8, <1>9, <1>10, HoldsWithin
  <1>13. /\ Holds(Sent(ms), P, ch.line) /\ Holds(Sent(ms), P + l, EndLine)
         /\ Holds(Sent(ms), P + l + 2, ch.data) /\ Holds(Sent(ms), P + l + 2 + n, EndLine)
    BY <1>5, <1>9, <1>10, <1>11, ChunkParts, Zenon DEF t
  <1>14. /\ Holds(Sought(ms), Q, HexText[n] \o EndLine)
         /\ Holds(Sought(ms), Q + h + 2, ch.data) /\ Holds(Sought(ms), Q + h + 2 + n, EndLine)
    BY <1>5, <1>9, <1>10, <1>12, ChunkParts, Zenon DEF u
  <1>15. p + 1 + Upto(ChunksIn(m), c) = P + l + 4 + n
    <2>1. ChunkSum(p, x, l, n)
      BY <1>2, <1>5, <1>7, ChunkSums, Zenon
    <2> QED BY <1>6, <1>7, <1>10, <2>1, Zenon DEF ChunkSum
  <1>16. q + 1 + Upto(ChunksOut(m), c) = Q + h + 4 + n
    <2>1. ChunkSum(q, y, h, n)
      BY <1>2, <1>5, <1>8, ChunkSums, Zenon
    <2> QED BY <1>6, <1>8, <1>10, <2>1, Zenon DEF ChunkSum
  <1>17. SizeLine(ch.line, n)
    BY Zenon DEF WellFramed, Framed
  <1>18. P = Start(ms, i, c) /\ Q = OutStart(ms, i, c)
    BY Zenon DEF Start, OutStart
  <1>19. Start(ms, i, c + 1) = P + l + 4 + n /\ OutStart(ms, i, c + 1) = Q + h + 4 + n
    <2>1. (c + 1) - 1 = c
      BY <1>3
    <2> QED BY <1>15, <1>16, <2>1, Zenon DEF Start, OutStart, p, q
  <1>20. Framing(ms, ch, P, Q)
    BY <1>5, <1>10, <1>13, <1>14, <1>17, Zenon DEF Framing
  <1>21. Ended(ms, ch, P, Q, P + l + 4 + n, Q + h + 4 + n)
    BY <1>13, <1>14, Zenon DEF Ended
  <1> QED BY <1>18, <1>19, <1>20, <1>21, Zenon

(* A chunk of which the end is missing. *)
LEMMA BrokenPiece ==
    ASSUME NEW ms, WellFramed(ms), NEW i \in 1 .. Len(ms), ms[i].enc = "CHUNKED",
           NEW l \in 0 .. Len(ms[i].junk), NEW n \in 0 .. Len(ms[i].junk), BadTrailer(ms[i], l, n),
           NEW c, c - 1 = Len(ms[i].chunks)
    PROVE  /\ Framing(ms, JunkChunk(ms[i].junk, l, n), Start(ms, i, c), OutStart(ms, i, c))
           /\ Open(ms, JunkChunk(ms[i].junk, l, n), Start(ms, i, c))
  <1>0. PICK m, ch, P, Q, h :
            /\ m = ms[i] /\ ch = JunkChunk(m.junk, l, n) /\ h = Len(HexText[n])
            /\ P = Upto(Wires(ms), i - 1) + 1 + Upto(ChunksIn(m), Len(m.chunks))
            /\ Q = Upto(Relays(ms), i - 1) + 1 + Upto(ChunksOut(m), Len(m.chunks))
    OBVIOUS
  <1> USE <1>0
  <1> DEFINE p == Upto(Wires(ms), i - 1)
             q == Upto(Relays(ms), i - 1)
             x == Upto(ChunksIn(m), Len(m.chunks))
             y == Upto(ChunksOut(m), Len(m.chunks))
             j == m.junk
  <1>1. ms \in Seq(Messages)
    BY DEF WellFramed
  <1>2. /\ p \in Nat /\ q \in Nat /\ m \in Messages
        /\ Holds(Sent(ms), p + 1 + Len(FlattenSeq(ChunksIn(m))), j)
        /\ Holds(Sought(ms), q + 1 + Len(FlattenSeq(ChunksOut(m))), m.part)
    BY <1>1, MessagePlace DEF BodyIn, BodyOut
  <1>3. x = Len(FlattenSeq(ChunksIn(m))) /\ y = Len(FlattenSeq(ChunksOut(m))) /\ x \in Nat /\ y \in Nat
    <2>1. /\ ChunksIn(m) \in Seq(Seq(Bytes)) /\ Len(ChunksIn(m)) = Len(m.chunks)
          /\ ChunksOut(m) \in Seq(Seq(Bytes)) /\ Len(ChunksOut(m)) = Len(m.chunks)
      BY <1>2, ChunksTexts
    <2>2. /\ x = Len(FlattenSeq(ChunksIn(m))) /\ FlattenSeq(ChunksIn(m)) \in Seq(Bytes)
          /\ y = Len(FlattenSeq(ChunksOut(m))) /\ FlattenSeq(ChunksOut(m)) \in Seq(Bytes)
      BY <2>1, FlattenPlaces
    <2> QED BY <2>2
  <1>4. j \in Seq(Bytes) /\ Len(j) \in Nat /\ l \in Nat /\ n \in Nat /\ m.part \in Seq(Bytes)
    <2>1. m.junk \in Seq(Bytes) /\ m.part \in Seq(Bytes)
      BY <1>2, MessageParts, Zenon
    <2>2. j \in Seq(Bytes)
      BY <2>1
    <2>3. Len(j) \in Nat
      <3> HIDE DEF j
      <3> QED BY <2>2
    <2>4. l \in 0 .. Len(j) /\ n \in 0 .. Len(j)
      OBVIOUS
    <2> HIDE DEF j
    <2>5. l \in Nat /\ n \in Nat
      BY <2>3, <2>4
    <2> QED BY <2>1, <2>2, <2>3, <2>5
  <1>5. Sent(ms) \in Seq(Bytes) /\ Sought(ms) \in Seq(Bytes)
    BY <1>1, InputTexts
  <1>6. P = p + 1 + x /\ Q = q + 1 + y /\ P \in Nat /\ Q \in Nat
    <2>1. P = p + 1 + x /\ Q = q + 1 + y
      BY Zenon
    <2>2. \A k, d \in Nat : k + 1 + d \in Nat
      OBVIOUS
    <2> HIDE DEF p, q, x, y
    <2> QED BY <1>2, <1>3, <2>1, <2>2, Zenon
  <1>7. Holds(Sent(ms), P, j) /\ Holds(Sought(ms), Q, m.part)
    BY <1>2, <1>3, <1>6, Zenon
  <1>8. /\ NoEnd(j, l + 2 + n) /\ j[l + 1] = "CR" /\ j[l + 2] = "LF"
        /\ SizeLine(SubSeq(j, 1, l), n)
        /\ m.part = HexText[n] \o EndLine \o SubSeq(j, l + 3, l + 2 + n)
    BY DEF BadTrailer
  <1>9. l + 2 + n < Len(j)
    BY <1>8 DEF NoEnd
  <1> HIDE DEF p, q, x, y, j
  <1>10. ch.line = SubSeq(j, 1, l) /\ ch.data = SubSeq(j, l + 3, l + 2 + n)
    BY DEF JunkChunk, j
  <1>11. /\ ch.line \in Seq(Bytes) /\ Len(ch.line) = l /\ Holds(j, 0, ch.line)
    <2>1. /\ SubSeq(j, 0 + 1, 0 + l) \in Seq(Bytes) /\ Len(SubSeq(j, 0 + 1, 0 + l)) = l
          /\ Holds(j, 0, SubSeq(j, 0 + 1, 0 + l))
      <3>1. 0 \in Nat /\ 0 + l <= Len(j)
        BY <1>4, <1>9
      <3> QED BY <1>4, <3>1, HoldsPart, Zenon
    <2>2. 0 + 1 = 1 /\ 0 + l = l
      BY <1>4
    <2> QED BY <1>10, <2>1, <2>2, Zenon
  <1>12. /\ ch.data \in Seq(Bytes) /\ Len(ch.data) = n /\ Holds(j, l + 2, ch.data)
    <2>1. /\ SubSeq(j, (l + 2) + 1, (l + 2) + n) \in Seq(Bytes) /\ Len(SubSeq(j, (l + 2) + 1, (l + 2) + n)) = n
          /\ Holds(j, l + 2, SubSeq(j, (l + 2) + 1, (l + 2) + n))
      <3>1. l + 2 \in Nat /\ (l + 2) + n <= Len(j)
        BY <1>4, <1>9
      <3> QED BY <1>4, <3>1, HoldsPart, Zenon
    <2>2. (l + 2) + 1 = l + 3 /\ (l + 2) + n = l + 2 + n
      BY <1>4
    <2> QED BY <1>10, <2>1, <2>2, Zenon
  <1>13. Holds(j, l, EndLine) /\ EndLine \in Seq(Bytes) /\ Len(EndLine) = 2
    <2>1. EndLine \in Seq(Bytes) /\ Len(EndLine) = 2 /\ EndLine[1] = "CR" /\ EndLine[2] = "LF"
      BY EndLineText DEF EndLine
    <2>2. \A k \in 1 .. 2 : k = 1 \/ k = 2
      OBVIOUS
    <2> QED BY <1>4, <1>8, <1>9, <2>1, <2>2 DEF Holds
  <1>14. Holds(Sent(ms), P, ch.line) /\ Holds(Sent(ms), P + l, EndLine) /\ Holds(Sent(ms), P + l + 2, ch.data)
    <2>1. Holds(Sent(ms), P + 0, ch.line)
      BY <1>4, <1>5, <1>6, <1>7, <1>11, HoldsWithin
    <2>2. Holds(Sent(ms), P + l, EndLine)
      BY <1>4, <1>5, <1>6, <1>7, <1>13, HoldsWithin
    <2>3. Holds(Sent(ms), P + (l + 2), ch.data)
      <3>1. l + 2 \in Nat
        BY <1>4
      <3> QED BY <1>4, <1>5, <1>6, <1>7, <1>12, <3>1, HoldsWithin
    <2>4. P + 0 = P /\ P + (l + 2) = P + l + 2
      BY <1>4, <1>6
    <2> QED BY <2>1, <2>2, <2>3, <2>4, Zenon
  <1>15. NoEnd(Sent(ms), P + l + 2 + n)
    <2> DEFINE a == l + 2 + n
    <2>1. a \in Nat /\ P + l + 2 + n = P + a /\ a < Len(j)
      BY <1>4, <1>6, <1>9
    <2> HIDE DEF a
    <2>2. NoEnd(j, a)
      BY <1>8 DEF a
    <2>3. Len(Sent(ms)) \in Nat
      BY <1>5
    <2>4. a + 1 \in 1 .. Len(j) /\ P + (a + 1) = P + a + 1
      <3>1. \A g, k, d \in Nat : k < d => k + 1 \in 1 .. d /\ g + (k + 1) = g + k + 1
        OBVIOUS
      <3> QED BY <1>4, <1>6, <2>1, <3>1
    <2>5. Sent(ms)[P + a + 1] = j[a + 1] /\ P + a < Len(Sent(ms))
      <3>1. Sent(ms)[P + a + 1] = j[a + 1]
        BY <1>7, <2>4 DEF Holds
      <3>2. P + Len(j) <= Len(Sent(ms))
        BY <1>7 DEF Holds
      <3>3. \A g, k, d, e \in Nat : k < d /\ g + d <= e => g + k < e
        OBVIOUS
      <3>4. P + a < Len(Sent(ms))
        BY <1>4, <1>6, <2>1, <2>3, <3>2, <3>3, Zenon
      <3> QED BY <3>1, <3>4
    <2>6. ASSUME j[a + 1] = "CR" PROVE P + a + 1 < Len(Sent(ms)) /\ Sent(ms)[P + a + 2] # "LF"
      <3>1. a + 1 < Len(j) /\ j[a + 2] # "LF"
        BY <2>2, <2>6 DEF NoEnd
      <3>2. a + 2 \in 1 .. Len(j) /\ P + (a + 2) = P + a + 2
        <4>1. \A g, k, d \in Nat : k + 1 < d => k + 2 \in 1 .. d /\ g + (k + 2) = g + k + 2
          OBVIOUS
        <4> QED BY <1>4, <1>6, <2>1, <3>1, <4>1
      <3>3. Sent(ms)[P + a + 2] = j[a + 2]
        BY <1>7, <3>2 DEF Holds
      <3>4. P + a + 1 < Len(Sent(ms))
        <4>1. P + Len(j) <= Len(Sent(ms))
          BY <1>7 DEF Holds
        <4>2. \A g, k, d, e \in Nat : k + 1 < d /\ g + d <= e => g + k + 1 < e
          OBVIOUS
        <4> QED BY <1>4, <1>6, <2>1, <2>3, <3>1, <4>1, <4>2, Zenon
      <3> QED BY <3>1, <3>3, <3>4
    <2> QED BY <2>1, <2>5, <2>6 DEF NoEnd
  <1>16. HexText[n] \in Seq(Bytes) /\ h \in Nat
    <2>1. HexText[n] \in Seq(Bytes)
      BY <1>4, HexTextType
    <2> QED BY <2>1
  <1>17. Holds(Sought(ms), Q, HexText[n] \o EndLine) /\ Holds(Sought(ms), Q + h + 2, ch.data)
    <2> DEFINE e == HexText[n] \o EndLine
    <2>1. e \in Seq(Bytes) /\ Len(e) = h + 2
      BY <1>4, <1>11, <1>16, ChunkParts
    <2>2. m.part = e \o ch.data
      BY <1>8, <1>10, Zenon
    <2> HIDE DEF e
    <2>3. Holds(Sought(ms), Q, e) /\ Holds(Sought(ms), Q + Len(e), ch.data)
      <3>1. Holds(Sought(ms), Q, e \o ch.data)
        BY <1>7, <2>2
      <3> QED BY <1>5, <1>6, <1>12, <2>1, <3>1, HoldsParts
    <2>4. Q + Len(e) = Q + h + 2
      BY <1>6, <1>16, <2>1
    <2> QED BY <2>3, <2>4, Zenon DEF e
  <1>18. P = Start(ms, i, c) /\ Q = OutStart(ms, i, c)
    BY Zenon DEF Start, OutStart
  <1>19. Framing(ms, ch, P, Q)
    BY <1>4, <1>6, <1>8, <1>10, <1>11, <1>12, <1>14, <1>16, <1>17, Zenon DEF Framing
  <1>20. Open(ms, ch, P)
    BY <1>11, <1>12, <1>15, Zenon DEF Open
  <1> QED BY <1>18, <1>19, <1>20, Zenon

(* A digit is not what ends a size line. *)
LEMMA NotHex ==
    ASSUME NEW b, IsHex(b)
    PROVE  b # "SP" /\ b # "CR" /\ b # "LF"
  <1>1. PICK v \in 0 .. 15 : IsDigit(b, v)
    BY DEF IsHex
  <1>2. HexDigits[v + 1] # "SP" /\ HexDigits[v + 1] # "CR" /\ HexDigits[v + 1] # "LF"
    BY DEF HexDigits
  <1>3. LowerDigits[v + 1] # "SP" /\ LowerDigits[v + 1] # "CR" /\ LowerDigits[v + 1] # "LF"
    BY DEF LowerDigits
  <1> QED BY <1>1, <1>2, <1>3, Zenon DEF IsDigit

(* What is sent there is what is expected. *)
LEMMA Carried ==
    ASSUME NEW S, NEW u \in Seq(S), NEW w \in Seq(S), NEW d \in Seq(S), NEW s \in Seq(S),
           NEW a \in Nat, NEW b \in Nat, NEW x \in Nat,
           Holds(u, a, d), Holds(w, b, d), Holds(u, a + x, s), x + Len(s) <= Len(d)
    PROVE  Holds(w, b + x, s)
  <1>1. Len(u) \in Nat /\ Len(w) \in Nat /\ Len(d) \in Nat /\ Len(s) \in Nat
    OBVIOUS
  <1>2. ASSUME NEW j \in 1 .. Len(s) PROVE w[b + x + j] = s[j]
    <2>1. x + j \in 1 .. Len(d) /\ a + (x + j) = a + x + j /\ b + (x + j) = b + x + j
      BY <1>1
    <2>2. u[a + (x + j)] = d[x + j] /\ w[b + (x + j)] = d[x + j]
      BY <2>1 DEF Holds
    <2>3. u[a + x + j] = s[j]
      BY DEF Holds
    <2> QED BY <2>1, <2>2, <2>3
  <1>3. b + x + Len(s) <= Len(w)
    BY <1>1 DEF Holds
  <1> QED BY <1>2, <1>3 DEF Holds

-----------------------------------------------------------------------------
(* What stands in both streams for a chunk, whole or not. *)
LEMMA PieceFramed ==
    ASSUME NEW ms, WellFramed(ms), NEW i, NEW c, NEW ch, Piece(ms, i, c, ch)
    PROVE  /\ Framing(ms, ch, Start(ms, i, c), OutStart(ms, i, c))
           /\ c <= Len(ms[i].chunks) =>
                /\ Ended(ms, ch, Start(ms, i, c), OutStart(ms, i, c),
                         Start(ms, i, c + 1), OutStart(ms, i, c + 1))
                /\ Len(ch.data) = 0 <=> c = Len(ms[i].chunks) /\ ms[i].junk = <<>>
           /\ ~(c <= Len(ms[i].chunks)) => Open(ms, ch, Start(ms, i, c))
  <1>0. PICK m : m = ms[i]
    OBVIOUS
  <1>1. i \in 1 .. Len(ms) /\ ms[i].enc = "CHUNKED" /\ c \in 1 .. Len(ms[i].chunks) + 1
    BY DEF Piece
  <1>2. m \in Messages
    BY <1>0, <1>1 DEF WellFramed
  <1>3. Len(ms[i].chunks) \in Nat
    BY <1>0, <1>2, ChunksTexts
  <1>4. CASE c <= Len(ms[i].chunks)
    <2>1. c \in 1 .. Len(ms[i].chunks) /\ ch = ms[i].chunks[c]
      BY <1>1, <1>3, <1>4 DEF Piece, Pieces
    <2>2. /\ Framing(ms, ch, Start(ms, i, c), OutStart(ms, i, c))
          /\ Ended(ms, ch, Start(ms, i, c), OutStart(ms, i, c),
                   Start(ms, i, c + 1), OutStart(ms, i, c + 1))
      BY <1>1, <2>1, WholePiece, Zenon
    <2>3. ch.data = <<>> <=> c = Len(ms[i].chunks) /\ ms[i].junk = <<>>
      BY <1>1, <2>1, Zenon DEF WellFramed, Framed
    <2>4. ch.data \in Seq(Bytes)
      BY <2>2 DEF Framing
    <2>5. Len(ch.data) = 0 <=> ch.data = <<>>
      BY <2>4
    <2> QED BY <1>4, <2>2, <2>3, <2>5, Zenon
  <1>5. CASE ~(c <= Len(ms[i].chunks))
    <2>1. c - 1 = Len(ms[i].chunks) /\ ch \in Pieces(ms[i], c)
      BY <1>1, <1>3, <1>5 DEF Piece
    <2>2. PICK l \in 0 .. Len(ms[i].junk), n \in 0 .. Len(ms[i].junk) :
              BadTrailer(ms[i], l, n) /\ ch = JunkChunk(ms[i].junk, l, n)
      BY <1>5, <2>1 DEF Pieces
    <2>3. /\ Framing(ms, ch, Start(ms, i, c), OutStart(ms, i, c))
          /\ Open(ms, ch, Start(ms, i, c))
      BY <1>1, <2>1, <2>2, BrokenPiece, Zenon
    <2> QED BY <1>5, <2>3
  <1> QED BY <1>4, <1>5

-----------------------------------------------------------------------------
(* Where a message begins in what is sent, and in what is expected. *)
From(ms, k) == Upto(Wires(ms), k)
To(ms, k)   == Upto(Relays(ms), k)

(* The k-th message and the one behind it. *)
LEMMA Neighbours ==
    ASSUME NEW ms, WellFramed(ms), NEW k \in Nat, k < Len(ms)
    PROVE  /\ From(ms, k) \in Nat /\ To(ms, k) \in Nat /\ ms[k + 1] \in Messages
           /\ k + 1 \in 1 .. Len(ms) /\ (k + 1) - 1 = k
           /\ Holds(Sent(ms), From(ms, k), Header) /\ Holds(Sought(ms), To(ms, k), Header)
           /\ Holds(Sent(ms), From(ms, k) + 1, BodyIn(ms[k + 1]))
           /\ Holds(Sought(ms), To(ms, k) + 1, BodyOut(ms[k + 1]))
           /\ Holds(Sent(ms), From(ms, k) + 1 + Len(BodyIn(ms[k + 1])), ms[k + 1].junk)
           /\ Holds(Sought(ms), To(ms, k) + 1 + Len(BodyOut(ms[k + 1])), ms[k + 1].part)
           /\ From(ms, k + 1) = From(ms, k) + 1 + Len(BodyIn(ms[k + 1])) + Len(ms[k + 1].junk)
           /\ To(ms, k + 1) = To(ms, k) + 1 + Len(BodyOut(ms[k + 1])) + Len(ms[k + 1].part)
  <1>1. ms \in Seq(Messages)
    BY DEF WellFramed
  <1>2. k + 1 \in 1 .. Len(ms) /\ (k + 1) - 1 = k
    BY <1>1
  <1>3. PICK i, m, p, q : i = k + 1 /\ m = ms[i] /\ p = Upto(Wires(ms), i - 1) /\ q = Upto(Relays(ms), i - 1)
    OBVIOUS
  <1>4. i \in 1 .. Len(ms)
    BY <1>2, <1>3, Zenon
  <1>5. /\ p \in Nat /\ q \in Nat /\ m \in Messages
           /\ Holds(Sent(ms), p, Header) /\ Holds(Sought(ms), q, Header)
           /\ Holds(Sent(ms), p + 1, BodyIn(m)) /\ Holds(Sought(ms), q + 1, BodyOut(m))
           /\ Holds(Sent(ms), p + 1 + Len(BodyIn(m)), m.junk)
           /\ Holds(Sought(ms), q + 1 + Len(BodyOut(m)), m.part)
           /\ Upto(Wires(ms), i) = p + 1 + Len(BodyIn(m)) + Len(m.junk)
           /\ Upto(Relays(ms), i) = q + 1 + Len(BodyOut(m)) + Len(m.part)
    BY <1>1, <1>3, <1>4, MessagePlace
  <1>6. p = From(ms, k) /\ q = To(ms, k) /\ m = ms[k + 1]
    BY <1>2, <1>3, Zenon DEF From, To
  <1> QED BY <1>2, <1>3, <1>5, <1>6, Zenon DEF From, To

(* Nothing is behind the last message. *)
LEMMA Whole ==
    ASSUME NEW ms, WellFramed(ms)
    PROVE  /\ From(ms, 0) = 0 /\ To(ms, 0) = 0 /\ From(ms, Len(ms)) = Len(Sent(ms))
           /\ Sent(ms) \in Seq(Bytes) /\ Sought(ms) \in Seq(Bytes) /\ Len(ms) \in Nat
           /\ Len(Sent(ms)) \in Nat /\ Len(Sought(ms)) \in Nat
  <1>1. ms \in Seq(Messages)
    BY DEF WellFramed
  <1>2. /\ Wires(ms) \in Seq(Seq(Bytes)) /\ Relays(ms) \in Seq(Seq(Bytes))
        /\ Len(Wires(ms)) = Len(ms) /\ Sent(ms) = FlattenSeq(Wires(ms))
        /\ Sent(ms) \in Seq(Bytes) /\ Sought(ms) \in Seq(Bytes) /\ Len(ms) \in Nat
    BY <1>1, InputTexts, Zenon
  <1>3. Upto(Wires(ms), 0) = 0 /\ Upto(Wires(ms), Len(ms)) = Len(Sent(ms)) /\ Upto(Relays(ms), 0) = 0
    BY <1>2, FlattenPlaces
  <1>4. Len(Sent(ms)) \in Nat /\ Len(Sought(ms)) \in Nat
    BY <1>2
  <1> QED BY <1>2, <1>3, <1>4, Zenon DEF From, To

(* A message with a body that is not chunked. *)
LEMMA DataPlace ==
    ASSUME NEW ms, WellFramed(ms), NEW k \in Nat, k < Len(ms), ms[k + 1].enc # "CHUNKED"
    PROVE  /\ Data(ms[k + 1]) \in Seq(Bytes) /\ Len(Data(ms[k + 1])) \in Nat
           /\ Holds(Sent(ms), From(ms, k) + 1, Data(ms[k + 1]))
           /\ Holds(Sought(ms), To(ms, k) + 1, Data(ms[k + 1]))
           /\ From(ms, k + 1) = From(ms, k) + 1 + Len(Data(ms[k + 1]))
           /\ To(ms, k + 1) = To(ms, k) + 1 + Len(Data(ms[k + 1]))
           /\ ms[k + 1].junk = <<>>
           /\ ms[k + 1].enc = "NONE" => Len(Data(ms[k + 1])) = 0
  <1>0. PICK m, p, q, p1, q1, d, a :
            /\ m = ms[k + 1] /\ p = From(ms, k) /\ q = To(ms, k) /\ d = Data(m) /\ a = Len(d)
            /\ p1 = From(ms, k + 1) /\ q1 = To(ms, k + 1)
    OBVIOUS
  <1>1. /\ p \in Nat /\ q \in Nat /\ m \in Messages /\ k + 1 \in 1 .. Len(ms)
        /\ Holds(Sent(ms), p + 1, BodyIn(m)) /\ Holds(Sought(ms), q + 1, BodyOut(m))
        /\ p1 = p + 1 + Len(BodyIn(m)) + Len(m.junk)
        /\ q1 = q + 1 + Len(BodyOut(m)) + Len(m.part)
    BY <1>0, Neighbours, Zenon
  <1>2. BodyIn(m) = d /\ BodyOut(m) = d
    BY <1>0, Zenon DEF BodyIn, BodyOut
  <1>3. Framed(m)
    BY <1>0, <1>1, Zenon DEF WellFramed
  <1>4. m.junk = <<>> /\ m.part = <<>> /\ (m.enc = "NONE" => m.chunks = <<>>)
    BY <1>0, <1>3, Zenon DEF Framed
  <1>5. d \in Seq(Bytes) /\ (m.chunks = <<>> => d = <<>>)
    BY <1>0, <1>1, ChunksTexts, Zenon
  <1>6. a \in Nat /\ (d = <<>> => a = 0) /\ Len(<<>>) = 0
    BY <1>0, <1>5
  <1>7. \A x, y \in Nat : x + 1 + y + 0 = x + 1 + y
    OBVIOUS
  <1>8. p1 = p + 1 + a /\ q1 = q + 1 + a
    <2>1. p1 = p + 1 + a + 0 /\ q1 = q + 1 + a + 0
      BY <1>0, <1>1, <1>2, <1>4, <1>6, Zenon
    <2> QED BY <1>1, <1>6, <1>7, <2>1, Zenon
  <1> QED BY <1>0, <1>1, <1>2, <1>4, <1>5, <1>6, <1>8, Zenon

(* A chunked message: its first chunk, and the end of the last one. *)
LEMMA ChunkedPlace ==
    ASSUME NEW ms, WellFramed(ms), NEW k \in Nat, k < Len(ms), ms[k + 1].enc = "CHUNKED"
    PROVE  /\ Len(ms[k + 1].chunks) \in Nat
           /\ Start(ms, k + 1, 1) = From(ms, k) + 1 /\ OutStart(ms, k + 1, 1) = To(ms, k) + 1
           /\ Start(ms, k + 1, Len(ms[k + 1].chunks) + 1) \in Nat
           /\ OutStart(ms, k + 1, Len(ms[k + 1].chunks) + 1) \in Nat
           /\ Holds(Sent(ms), Start(ms, k + 1, Len(ms[k + 1].chunks) + 1), ms[k + 1].junk)
           /\ ms[k + 1].junk \in Seq(Bytes)
           /\ ms[k + 1].junk = <<>> =>
                /\ Start(ms, k + 1, Len(ms[k + 1].chunks) + 1) = From(ms, k + 1)
                /\ OutStart(ms, k + 1, Len(ms[k + 1].chunks) + 1) = To(ms, k + 1)
                /\ ms[k + 1].chunks # <<>>
  <1>0. PICK m, p, q, p1, q1, a, b, n, i :
            /\ m = ms[k + 1] /\ p = From(ms, k) /\ q = To(ms, k) /\ i = k + 1
            /\ p1 = From(ms, k + 1) /\ q1 = To(ms, k + 1)
            /\ a = Len(BodyIn(m)) /\ b = Len(BodyOut(m)) /\ n = Len(m.chunks)
    OBVIOUS
  <1>1. /\ p \in Nat /\ q \in Nat /\ m \in Messages /\ i \in 1 .. Len(ms) /\ i - 1 = k
        /\ Holds(Sent(ms), p + 1 + a, m.junk)
        /\ p1 = p + 1 + a + Len(m.junk) /\ q1 = q + 1 + b + Len(m.part)
    BY <1>0, Neighbours, Zenon
  <1>2. BodyIn(m) = FlattenSeq(ChunksIn(m)) /\ BodyOut(m) = FlattenSeq(ChunksOut(m))
    BY <1>0, Zenon DEF BodyIn, BodyOut
  <1>3. /\ ChunksIn(m) \in Seq(Seq(Bytes)) /\ Len(ChunksIn(m)) = n
        /\ ChunksOut(m) \in Seq(Seq(Bytes)) /\ Len(ChunksOut(m)) = n /\ n \in Nat
    BY <1>0, <1>1, ChunksTexts, Zenon
  <1>4. /\ Upto(ChunksIn(m), 0) = 0 /\ Upto(ChunksIn(m), n) = a
        /\ Upto(ChunksOut(m), 0) = 0 /\ Upto(ChunksOut(m), n) = b
    BY <1>0, <1>2, <1>3, FlattenPlaces
  <1>5. a \in Nat /\ b \in Nat /\ m.junk \in Seq(Bytes) /\ m.part \in Seq(Bytes)
    <2>1. BodyIn(m) \in Seq(Bytes) /\ BodyOut(m) \in Seq(Bytes) /\ m.junk \in Seq(Bytes) /\ m.part \in Seq(Bytes)
      BY <1>1, MessageParts, Zenon
    <2> QED BY <1>0, <2>1
  <1>6. Framed(m)
    BY <1>0, <1>1, Zenon DEF WellFramed
  <1>7. m.junk = <<>> => m.part = <<>> /\ m.chunks # <<>>
    BY <1>0, <1>6, Zenon DEF Framed
  <1>8. \A c : Start(ms, i, c) = p + 1 + Upto(ChunksIn(m), c - 1) /\ OutStart(ms, i, c) = q + 1 + Upto(ChunksOut(m), c - 1)
    BY <1>0, <1>1, Zenon DEF Start, OutStart, From, To
  <1>9. 1 - 1 = 0 /\ (n + 1) - 1 = n /\ Len(<<>>) = 0
    BY <1>3
  <1>10. \A x, y \in Nat : x + 1 + 0 = x + 1 /\ x + 1 + y \in Nat /\ x + 1 + y + 0 = x + 1 + y
    OBVIOUS
  <1>11. Start(ms, i, 1) = p + 1 /\ OutStart(ms, i, 1) = q + 1
    <2>1. Start(ms, i, 1) = p + 1 + 0 /\ OutStart(ms, i, 1) = q + 1 + 0
      BY <1>4, <1>8, <1>9, Zenon
    <2> QED BY <1>1, <1>5, <1>10, <2>1, Zenon
  <1>12. Start(ms, i, n + 1) = p + 1 + a /\ OutStart(ms, i, n + 1) = q + 1 + b
    BY <1>4, <1>8, <1>9, Zenon
  <1>13. p + 1 + a \in Nat /\ q + 1 + b \in Nat
    BY <1>1, <1>5, <1>10, Zenon
  <1>14. ASSUME m.junk = <<>> PROVE p1 = p + 1 + a /\ q1 = q + 1 + b
    <2>1. p1 = p + 1 + a + 0 /\ q1 = q + 1 + b + 0
      BY <1>1, <1>7, <1>9, <1>14, Zenon
    <2> QED BY <1>1, <1>5, <1>10, <2>1, Zenon
  <1> QED BY <1>0, <1>1, <1>3, <1>5, <1>7, <1>11, <1>12, <1>13, <1>14, Zenon

(* Where a chunk ends there is another, or a line that is refused. *)
LEMMA NextPiece ==
    ASSUME NEW ms, WellFramed(ms), NEW i \in 1 .. Len(ms), ms[i].enc = "CHUNKED",
           NEW c \in 1 .. Len(ms[i].chunks) + 1, c = Len(ms[i].chunks) + 1 => ms[i].junk # <<>>
    PROVE  \/ \E ch : Piece(ms, i, c, ch)
           \/ /\ c = Len(ms[i].chunks) + 1
              /\ \E l \in 0 .. Len(ms[i].junk) : \E d \in 0 .. l : BadLine(ms[i].junk, l, d)
  <1>0. PICK m : m = ms[i]
    OBVIOUS
  <1>1. m \in Messages /\ Framed(m)
    BY <1>0 DEF WellFramed
  <1>2. Len(m.chunks) \in Nat
    BY <1>1, ChunksTexts
  <1>3. CASE c <= Len(m.chunks)
    <2>1. m.chunks[c] \in Pieces(m, c)
      BY <1>3 DEF Pieces
    <2> QED BY <1>0, <2>1, Zenon DEF Piece
  <1>4. CASE ~(c <= Len(m.chunks))
    <2>1. c = Len(m.chunks) + 1 /\ m.junk # <<>>
      BY <1>0, <1>2, <1>4
    <2>2. \/ \E l \in 0 .. Len(m.junk) : \E d \in 0 .. l : BadLine(m.junk, l, d)
          \/ \E l, n \in 0 .. Len(m.junk) : BadTrailer(m, l, n)
      BY <1>0, <1>1, <2>1, Zenon DEF Framed
    <2>3. ASSUME NEW l \in 0 .. Len(m.junk), NEW n \in 0 .. Len(m.junk), BadTrailer(m, l, n)
          PROVE  \E ch : Piece(ms, i, c, ch)
      <3>1. JunkChunk(m.junk, l, n) \in Pieces(m, c)
        <4> DEFINE X == {x \in (0 .. Len(m.junk)) \X (0 .. Len(m.junk)) : BadTrailer(m, x[1], x[2])}
        <4>1. <<l, n>>[1] = l /\ <<l, n>>[2] = n /\ <<l, n>> \in (0 .. Len(m.junk)) \X (0 .. Len(m.junk))
          OBVIOUS
        <4>2. <<l, n>> \in X
          BY <2>3, <4>1, Zenon
        <4>3. Pieces(m, c) = {JunkChunk(m.junk, ln[1], ln[2]) : ln \in X}
          BY <1>4, Zenon DEF Pieces
        <4> HIDE DEF X
        <4>4. JunkChunk(m.junk, <<l, n>>[1], <<l, n>>[2]) \in Pieces(m, c)
          BY <4>2, <4>3, Zenon
        <4> QED BY <4>1, <4>4, Zenon
      <3> QED BY <1>0, <3>1, Zenon DEF Piece
    <2> QED BY <1>0, <2>1, <2>2, <2>3, Zenon
  <1> QED BY <1>3, <1>4

-----------------------------------------------------------------------------
(* The message that is being parsed. *)
Message == input[done + 1]

(* The buffer and what is unread are the rest of what was sent. *)
Offset == Len(Sent(input)) - Len(unread) - Len(raw)

Stream ==
    /\ Offset \in Nat
    /\ Holds(Sent(input), Offset, raw) /\ Holds(Sent(input), Offset + Len(raw), unread)

(* How much of what was sent is dealt with. *)
Pos == Offset + (IF state = "END_CONNECTION" THEN write_position ELSE process_position)

(* p bytes are dealt with, and q are forwarded. *)
At(p, q) == Pos = p /\ Len(out) = q

(* us is what is expected next. *)
Follows(us) == Holds(Sought(input), Len(out), us)

(* What is claimed and not yet written. *)
Unwritten == write_end_position - write_position

(* All of the buffer is parsed when it is read again. *)
Parsed ==
    state \in {"PARSE_CHUNKSIZE", "PARSE_CHUNK", "MESSAGE_BODY_PARSE"} /\ pc # "parse" =>
        process_position = Len(raw)

(* Where the parser is, outside of a chunk. *)
PlainPlace ==
    /\ done <= Len(input) /\ (state # "PARSE_HEADER" => done < Len(input))
    /\ state = "PARSE_HEADER" => At(From(input, done), To(input, done))
    /\ state = "PUSH_HEADER" =>
         text["header"] = Header /\ At(From(input, done) + 1, To(input, done))
    /\ state = "NONE" =>
         Message.enc = "NONE" /\ At(From(input, done) + 1, To(input, done) + 1)
    /\ state = "MESSAGE_BODY_PARSE" =>
         At(From(input, done) + 1 + current_length, To(input, done) + 1 + current_length)
    /\ state \in {"INCOMPLETE_MESSAGE_BODY_FORWARD", "COMPLETE_MESSAGE_BODY_FORWARD"} =>
         /\ Unwritten <= current_length
         /\ At(From(input, done) + 1 + current_length,
               To(input, done) + 1 + current_length - Unwritten)
    /\ state \in {"MESSAGE_BODY_PARSE", "INCOMPLETE_MESSAGE_BODY_FORWARD",
                  "COMPLETE_MESSAGE_BODY_FORWARD"} =>
         /\ Message.enc = "CONTENT_LENGTH"
         /\ content_length = Len(Data(Message)) /\ current_length <= content_length
    /\ state = "COMPLETE_MESSAGE_BODY_FORWARD" => current_length = content_length
    /\ state = "END_CONNECTION" =>
         /\ Message.enc = "END_CONNECTION"
         /\ \E x \in Nat : At(From(input, done) + 1 + x, To(input, done) + 1 + x)

(* How far a size line with d digits is parsed. *)
Counted(d, j) ==
    IF j <= d THEN current_chunksize_length = j /\ num_chunk_size_spaces = 0
              ELSE current_chunksize_length = d /\ num_chunk_size_spaces = j - d

(* The digits read so far give the size so far. *)
SizeSoFar(line, n, j) ==
    \E d \in 0 .. Len(line) : \E v \in [0 .. d -> 0 .. n] :
        /\ Scans(line, d) /\ Values(line, d, v) /\ v[d] = n
        /\ Counted(d, j) /\ chunksize = v[current_chunksize_length]

(* The states of chunked_body_parser. *)
ChunkStates ==
    {"PARSE_CHUNKSIZE", "PARSE_CHUNKSIZE_LF", "FORWARD_CHUNKSIZE", "PARSE_CHUNK",
     "FORWARD_INCOMPLETE_CHUNK", "FORWARD_COMPLETE_CHUNK", "PARSE_TRAILER_CR",
     "PARSE_TRAILER_LF", "FORWARD_TRAILER_CRLF"}

(* In a chunk that begins behind p and is forwarded behind q. *)
AtChunk(ch, p, q) ==
    LET n == Len(ch.data)
        l == Len(ch.line)
        h == Len(HexText[n])
    IN  /\ state = "PARSE_CHUNKSIZE" =>
             \E j \in 0 .. l : At(p + j, q) /\ SizeSoFar(ch.line, n, j)
        /\ state # "PARSE_CHUNKSIZE" => chunksize = n
        /\ state = "PARSE_CHUNKSIZE_LF" => At(p + l + 1, q)
        /\ state = "FORWARD_CHUNKSIZE" =>
             /\ Follows(text["chunk_size"])
             /\ At(p + l + 2, q + h + 2 - Len(text["chunk_size"]))
        /\ state = "PARSE_CHUNK" =>
             n > 0 /\ At(p + l + 2 + current_length, q + h + 2 + current_length)
        /\ state \in {"FORWARD_INCOMPLETE_CHUNK", "FORWARD_COMPLETE_CHUNK"} =>
             /\ n > 0 /\ Unwritten <= current_length /\ current_length <= n
             /\ At(p + l + 2 + current_length, q + h + 2 + current_length - Unwritten)
        /\ state = "FORWARD_COMPLETE_CHUNK" => current_length = n
        /\ state = "PARSE_TRAILER_CR" => At(p + l + 2 + n, q + h + 2 + n)
        /\ state = "PARSE_TRAILER_LF" =>
             At(p + l + 3 + n, q + h + 2 + n) /\ Sent(input)[p + l + 3 + n] = "CR"
        /\ state \in {"FORWARD_CHUNKSIZE", "PARSE_CHUNK", "FORWARD_INCOMPLETE_CHUNK",
                      "FORWARD_COMPLETE_CHUNK", "PARSE_TRAILER_CR", "PARSE_TRAILER_LF"} =>
             text["endline"] = EndLine
        /\ state = "FORWARD_TRAILER_CRLF" =>
             /\ Follows(text["endline"])
             /\ At(p + l + 4 + n, q + h + 4 + n - Len(text["endline"]))

(* In a size line that is refused. *)
AtBadLine(junk, p, q) ==
    /\ state \in {"PARSE_CHUNKSIZE", "PARSE_CHUNKSIZE_LF"}
    /\ \E l \in 0 .. Len(junk) : \E d \in 0 .. l :
         /\ BadLine(junk, l, d)
         /\ state = "PARSE_CHUNKSIZE" => \E j \in 0 .. l : At(p + j, q) /\ Counted(d, j)
         /\ state = "PARSE_CHUNKSIZE_LF" => At(p + l + 1, q) /\ junk[l + 1] = "CR"

(* In one of the chunks of the message ... *)
InPiece ==
    \E c \in 1 .. Len(Message.chunks) + 1 : \E ch \in Pieces(Message, c) :
        /\ Piece(input, done + 1, c, ch)
        /\ AtChunk(ch, Start(input, done + 1, c), OutStart(input, done + 1, c))
        /\ state = "FORWARD_TRAILER_CRLF" => c <= Len(Message.chunks)

(* ... or in a line that is to be refused. *)
InBadLine ==
    /\ Message.enc = "CHUNKED"
    /\ AtBadLine(Message.junk, Start(input, done + 1, Len(Message.chunks) + 1),
                 OutStart(input, done + 1, Len(Message.chunks) + 1))

(* Where chunked_body_parser is. *)
ChunkPlace == state \in ChunkStates => InPiece \/ InBadLine

(* What does not depend on the place. *)
Kept ==
    /\ text \in [Texts -> Seq(Bytes)] /\ out \in Seq(Bytes)
    /\ current_chunksize_length \in Nat /\ num_chunk_size_spaces \in Nat
    /\ Stream /\ Holds(Sought(input), 0, out) /\ InStep

(* The parser knows its place until it refuses something. *)
Placed == pc # "denied" => Parsed /\ PlainPlace /\ ChunkPlace

(* The invariant: what is dealt with and what is forwarded belong together. *)
RelayInv == Kept /\ Placed

-----------------------------------------------------------------------------
(* The place depends on these variables only. *)
LEMMA SamePlace ==
    ASSUME PlainPlace, ChunkPlace,
           UNCHANGED <<input, done, state, chunksize, current_chunksize_length, num_chunk_size_spaces,
                       content_length, current_length, text, out>>,
           Pos' = Pos, Unwritten' = Unwritten \/ state \notin ClaimedStates
    PROVE  PlainPlace' /\ ChunkPlace'
  <1>1. PlainPlace'
    BY DEF PlainPlace, At, Message, ClaimedStates
  <1>2. \A p, q : At(p, q)' = At(p, q)
    BY DEF At
  <1>3. \A line, n, j : SizeSoFar(line, n, j)' = SizeSoFar(line, n, j)
    BY DEF SizeSoFar, Counted
  <1>4. \A d, j : Counted(d, j)' = Counted(d, j)
    BY DEF Counted
  <1>5. \A ch, p, q : AtChunk(ch, p, q) => AtChunk(ch, p, q)'
    <2>1. SUFFICES ASSUME NEW ch, NEW p, NEW q, AtChunk(ch, p, q) PROVE AtChunk(ch, p, q)'
      OBVIOUS
    <2> QED BY <1>2, <1>3, <2>1 DEF AtChunk, Follows, ClaimedStates
  <1>6. \A junk, p, q : AtBadLine(junk, p, q) => AtBadLine(junk, p, q)'
    BY <1>2, <1>4 DEF AtBadLine
  <1>7. InPiece => InPiece'
    BY <1>5 DEF InPiece, Message
  <1>8. InBadLine => InBadLine'
    BY <1>6 DEF InBadLine, Message
  <1> QED BY <1>1, <1>7, <1>8 DEF ChunkPlace

(* non_blocking_write() of what is expected next. *)
LEMMA WriteFollows ==
    ASSUME WellFramed(input), out \in Seq(Bytes), ready_to_write \in BOOLEAN,
           Holds(Sought(input), 0, out), input' = input,
           NEW us \in Seq(Bytes), Follows(us), NEW k \in 0 .. Len(us), NEW r, Write(us, k, r)
    PROVE  /\ out' \in Seq(Bytes) /\ Len(out') = Len(out) + k
           /\ Holds(Sought(input), 0, out)'
           /\ SubSeq(us, k + 1, Len(us)) \in Seq(Bytes)
           /\ Len(SubSeq(us, k + 1, Len(us))) = Len(us) - k
           /\ Holds(Sought(input), Len(out'), SubSeq(us, k + 1, Len(us)))
           /\ r = "COMPLETE" => k = Len(us)
  <1>0. PICK w : w = Sought(input)
    OBVIOUS
  <1>1. w \in Seq(Bytes) /\ Len(w) \in Nat /\ Len(us) \in Nat /\ k \in Nat /\ Len(out) \in Nat /\ k <= Len(us)
    <2>1. w \in Seq(Bytes)
      BY <1>0, Whole, Zenon
    <2> QED BY <2>1
  <1>2. out' = out \o SubSeq(us, 1, k)
    BY DEF Write
  <1>3. r = "COMPLETE" => k = Len(us)
    <2>1. us = <<>> => Len(us) = 0
      OBVIOUS
    <2>2. CASE us = <<>> /\ k = 0
      BY <2>1, <2>2
    <2>3. CASE k = Len(us)
      BY <2>3
    <2>4. CASE r = "INCOMPLETE"
      BY <2>4
    <2> QED BY <2>2, <2>3, <2>4, Zenon DEF Write
  <1> DEFINE t == SubSeq(us, 1, k)
             e == SubSeq(us, k + 1, Len(us))
  <1>4. t \in Seq(Bytes) /\ Len(t) = k /\ \A j \in 1 .. k : t[j] = us[j]
    BY <1>1
  <1>5. e \in Seq(Bytes) /\ Len(e) = Len(us) - k /\ \A j \in 1 .. Len(us) - k : e[j] = us[k + j]
    BY <1>1
  <1> HIDE DEF t, e
  <1>6. /\ out \o t \in Seq(Bytes) /\ Len(out \o t) = Len(out) + Len(t)
        /\ \A j \in 1 .. Len(out) : (out \o t)[j] = out[j]
        /\ \A j \in 1 .. Len(t) : (out \o t)[Len(out) + j] = t[j]
    <2>1. out \in Seq(Bytes) /\ t \in Seq(Bytes)
      BY <1>4
    <2> QED BY <2>1, Joint
  <1>7. PICK o : o = out'
    OBVIOUS
  <1>8. /\ o \in Seq(Bytes) /\ Len(o) = Len(out) + k
        /\ \A j \in 1 .. Len(out) : o[j] = out[j]
        /\ \A j \in 1 .. k : o[Len(out) + j] = t[j]
    <2>1. o = out \o t
      BY <1>2, <1>7 DEF t
    <2> QED BY <1>4, <1>6, <2>1, Zenon
  <1>9. Holds(w, Len(out), us) /\ Holds(w, 0, out)
    BY <1>0 DEF Follows
  <1>10. Holds(w, 0, o)
    <2>1. 0 + Len(o) <= Len(w)
      BY <1>1, <1>8, <1>9 DEF Holds
    <2>2. ASSUME NEW j \in 1 .. Len(o) PROVE w[0 + j] = o[j]
      <3>1. CASE j <= Len(out)
        <4>1. j \in 1 .. Len(out)
          BY <1>1, <1>8, <3>1
        <4> QED BY <1>8, <1>9, <4>1 DEF Holds
      <3>2. CASE ~(j <= Len(out))
        <4>1. PICK x : x = j - Len(out)
          OBVIOUS
        <4>2. x \in 1 .. k /\ x \in 1 .. Len(us) /\ j = Len(out) + x /\ 0 + j = j
          BY <1>1, <1>8, <3>2, <4>1
        <4>3. o[Len(out) + x] = us[x] /\ w[Len(out) + x] = us[x]
          BY <1>4, <1>8, <1>9, <4>2 DEF Holds
        <4> QED BY <4>2, <4>3
      <3> QED BY <3>1, <3>2
    <2> QED BY <2>1, <2>2 DEF Holds
  <1>11. Holds(w, Len(out) + k, e)
    <2>1. Len(out) + k + Len(e) <= Len(w)
      BY <1>1, <1>5, <1>9 DEF Holds
    <2>2. ASSUME NEW j \in 1 .. Len(e) PROVE w[Len(out) + k + j] = e[j]
      <3>1. k + j \in 1 .. Len(us) /\ Len(out) + (k + j) = Len(out) + k + j /\ j \in 1 .. Len(us) - k
        BY <1>1, <1>5
      <3>2. w[Len(out) + (k + j)] = us[k + j]
        BY <1>9, <3>1 DEF Holds
      <3> QED BY <1>5, <3>1, <3>2
    <2> QED BY <2>1, <2>2 DEF Holds
  <1>12. Sought(input)' = Sought(input)
    BY Zenon
  <1> QED BY <1>0, <1>3, <1>5, <1>7, <1>8, <1>10, <1>11, <1>12, Zenon DEF e

(* The next byte of the buffer is the next one of what was sent. *)
LEMMA NextSent ==
    ASSUME WellFramed(input), IInv, Stream, ~AtEnd
    PROVE  /\ NextByte = Sent(input)[Offset + process_position + 1]
           /\ Offset + process_position < Len(Sent(input))
  <1>0. PICK w, p : w = Sent(input) /\ p = Offset
    OBVIOUS
  <1>1. /\ p \in Nat /\ Holds(w, p, raw) /\ w \in Seq(Bytes) /\ raw \in Seq(STRING)
        /\ process_position \in Nat /\ process_position < Len(raw)
    BY <1>0, Whole DEF Stream, IInv, TypeInv, AtEnd
  <1>2. Len(raw) \in Nat /\ Len(w) \in Nat
    BY <1>1
  <1>3. /\ process_position + 1 \in 1 .. Len(raw)
        /\ p + (process_position + 1) = p + process_position + 1
    BY <1>1, <1>2
  <1>4. w[p + (process_position + 1)] = raw[process_position + 1]
    BY <1>1, <1>3 DEF Holds
  <1>5. p + process_position < Len(w)
    BY <1>1, <1>2 DEF Holds
  <1> QED BY <1>0, <1>3, <1>4, <1>5, Zenon DEF NextByte

-----------------------------------------------------------------------------
(* The stream stays when nothing is read. *)
LEMMA StreamSame ==
    ASSUME Stream, UNCHANGED <<input, unread, raw>>
    PROVE  Stream' /\ Offset' = Offset
  BY DEF Stream, Offset

(* Nothing is parsed or written. *)
LEMMA Waits ==
    ASSUME RelayInv, pc # "denied", Parsed', Stream',
           UNCHANGED <<input, done, state, chunksize, current_chunksize_length, num_chunk_size_spaces,
                       content_length, current_length, text, out>>,
           Pos' = Pos, Unwritten' = Unwritten \/ state \notin ClaimedStates, pc' # "denied"
    PROVE  RelayInv'
  <1>1. Parsed /\ PlainPlace /\ ChunkPlace
    BY DEF RelayInv, Placed
  <1>2. PlainPlace' /\ ChunkPlace'
    BY <1>1, SamePlace
  <1>3. Kept'
    BY DEF RelayInv, Kept, InStep
  <1> QED BY <1>2, <1>3 DEF RelayInv, Placed

(* A message with broken framing is refused. *)
LEMMA Denies ==
    ASSUME RelayInv, UNCHANGED <<input, unread, raw, done, text, out>>,
           current_chunksize_length' \in Nat, num_chunk_size_spaces' \in Nat,
           pc' = "denied", done < Len(input), Message.junk # <<>>
    PROVE  RelayInv'
  <1>1. Stream'
    BY StreamSame DEF RelayInv, Kept
  <1> QED BY <1>1 DEF RelayInv, Kept, Placed, InStep, Message

(* A new buffer continues where the old one ended. *)
LEMMA ReadRelays ==
    ASSUME WellFramed(input), IInv, RelayInv, ReadData \/ ReadNothing
    PROVE  RelayInv'
  <1>1. Reading /\ FullyWritten /\ pc' = "parse" /\ process_position' = 0 /\ write_position' = 0
    BY DEF ReadData, ReadNothing
  <1>2. UNCHANGED <<input, done, state, chunksize, current_chunksize_length, num_chunk_size_spaces,
                    content_length, current_length, text, out>>
    BY DEF ReadData, ReadNothing, sizeVars, destVars
  <1>3. state \notin ClaimedStates /\ state # "FORWARD_CHUNKSIZE"
    BY <1>1 DEF IInv, TypeInv, PositionsOK, ClaimKept, SizeKept, FullyWritten, Reading
  <1>4. pc # "denied" /\ pc # "parse"
    BY <1>1 DEF Reading
  <1>5. (IF state = "END_CONNECTION" THEN write_position ELSE process_position) = Len(raw)
    <2>1. write_position = Len(raw)
      BY <1>1 DEF IInv, TypeInv, PositionsOK, FullyWritten
    <2>2. state \in {"PARSE_CHUNKSIZE", "PARSE_CHUNK", "MESSAGE_BODY_PARSE"} => process_position = Len(raw)
      BY <1>4 DEF RelayInv, Placed, Parsed
    <2> QED BY <1>3, <2>1, <2>2 DEF IInv, TypeInv, Synced, States, SyncedStates, ClaimedStates, ParseStates
  <1>6. PICK w, o, u : w = Sent(input) /\ o = Offset /\ u = unread
    OBVIOUS
  <1>7. /\ w \in Seq(Bytes) /\ Len(w) \in Nat /\ o \in Nat /\ u \in Seq(STRING) /\ Len(u) \in Nat
        /\ Len(raw) \in Nat /\ Holds(w, o + Len(raw), u) /\ o = Len(w) - Len(u) - Len(raw)
    <2>1. w \in Seq(Bytes) /\ Len(w) \in Nat
      BY <1>6, Whole, Zenon
    <2>2. u \in Seq(STRING) /\ raw \in Seq(STRING)
      BY <1>6 DEF IInv, TypeInv
    <2>3. o \in Nat /\ Holds(w, o + Len(raw), u) /\ o = Len(w) - Len(u) - Len(raw)
      BY <1>6, Zenon DEF RelayInv, Kept, Stream, Offset
    <2> QED BY <2>1, <2>2, <2>3
  <1>8. Offset' = Offset + Len(raw) /\ Stream'
    <2>1. Sent(input)' = w
      BY <1>2, <1>6
    <2>2. PICK a, b : a = raw' /\ b = unread'
      OBVIOUS
    <2>3. /\ a \in Seq(STRING) /\ b \in Seq(STRING)
          /\ Len(a) + Len(b) = Len(u)
          /\ \A j \in 1 .. Len(a) : a[j] = u[j]
          /\ \A j \in 1 .. Len(b) : b[j] = u[Len(a) + j]
      <3>1. CASE ReadData
        <4>1. PICK k \in 1 .. BufLength : k <= Len(u) /\ a = SubSeq(u, 1, k) /\ b = SubSeq(u, k + 1, Len(u))
          BY <1>6, <2>2, <3>1 DEF ReadData
        <4>2. k \in Nat
          BY <4>1, BodyAssumption
        <4>3. a \in Seq(STRING) /\ Len(a) = k /\ \A j \in 1 .. k : a[j] = u[j]
          BY <1>7, <4>1, <4>2
        <4>4. b \in Seq(STRING) /\ Len(b) = Len(u) - k /\ \A j \in 1 .. Len(u) - k : b[j] = u[k + j]
          BY <1>7, <4>1, <4>2
        <4> QED BY <1>7, <4>1, <4>2, <4>3, <4>4
      <3>2. CASE ReadNothing
        <4>1. a = <<>> /\ b = u
          BY <1>6, <2>2, <3>2 DEF ReadNothing
        <4> QED BY <1>7, <4>1
      <3> QED BY <3>1, <3>2
    <2>4. Len(a) \in Nat /\ Len(b) \in Nat
      BY <2>3
    <2>5. Offset' = Len(w) - Len(b) - Len(a)
      BY <2>1, <2>2, Zenon DEF Offset
    <2>6. Len(w) - Len(b) - Len(a) = o + Len(raw) /\ o + Len(raw) \in Nat /\ Len(w) = o + Len(raw) + Len(a) + Len(b)
      <3> DEFINE A == Len(a)
                 B == Len(b)
                 R == Len(raw)
                 U == Len(u)
                 W == Len(w)
      <3>1. A \in Nat /\ B \in Nat /\ R \in Nat /\ U \in Nat /\ W \in Nat /\ o \in Nat
            /\ A + B = U /\ o = W - U - R
        BY <1>7, <2>3, <2>4, Zenon
      <3> HIDE DEF A, B, R, U, W
      <3>2. W - B - A = o + R /\ o + R \in Nat /\ W = o + R + A + B
        BY <3>1
      <3> QED BY <3>2, Zenon DEF A, B, R, W
    <2>7. Offset' = o + Len(raw)
      BY <2>5, <2>6, Zenon
    <2>8. Holds(w, o + Len(raw), a)
      <3>1. o + Len(raw) + Len(a) <= Len(w)
        BY <1>7, <2>4, <2>6
      <3>2. \A j \in 1 .. Len(a) : w[o + Len(raw) + j] = a[j]
        BY <1>7, <2>3, <2>4 DEF Holds
      <3> QED BY <3>1, <3>2 DEF Holds
    <2>9. Holds(w, o + Len(raw) + Len(a), b)
      <3>0. PICK s : s = o + Len(raw)
        OBVIOUS
      <3>1. s \in Nat /\ s + Len(a) + Len(b) <= Len(w) /\ Holds(w, s, u)
        BY <1>7, <2>4, <2>6, <3>0
      <3>2. ASSUME NEW j \in 1 .. Len(b) PROVE w[s + Len(a) + j] = b[j]
        <4>1. Len(a) + j \in 1 .. Len(u) /\ s + (Len(a) + j) = s + Len(a) + j
          BY <1>7, <2>3, <2>4, <3>1
        <4>2. w[s + (Len(a) + j)] = u[Len(a) + j]
          BY <3>1, <4>1 DEF Holds
        <4> QED BY <2>3, <4>1, <4>2
      <3> QED BY <3>0, <3>1, <3>2 DEF Holds
    <2> QED BY <1>6, <2>1, <2>2, <2>6, <2>7, <2>8, <2>9, Zenon DEF Stream
  <1>9. Pos' = Pos
    <2>1. Pos = Offset + Len(raw)
      BY <1>5, Zenon DEF Pos
    <2>2. (IF state = "END_CONNECTION" THEN write_position ELSE process_position)' = 0
      BY <1>1
    <2>3. Pos' = Offset' + 0
      BY <2>2, Zenon DEF Pos
    <2>4. Offset' + 0 = Offset'
      BY <1>6, <1>7, <1>8
    <2> QED BY <1>8, <2>1, <2>3, <2>4, Zenon
  <1>10. Parsed'
    BY <1>1 DEF Parsed
  <1> QED BY <1>1, <1>2, <1>3, <1>4, <1>8, <1>9, <1>10, Waits

(* Steps between two calls of the parsers. *)
LEMMA LoopRelays ==
    ASSUME RelayInv, SkipRead \/ Drain \/ Readable \/ Writable
    PROVE  RelayInv'
  <1>1. /\ UNCHANGED <<input, unread, raw>>
        /\ UNCHANGED <<done, state, chunksize, current_chunksize_length, num_chunk_size_spaces,
                       content_length, current_length, text, out>>
        /\ UNCHANGED <<process_position, write_position, write_end_position>>
    BY DEF SkipRead, Drain, Readable, Writable, readVars, sizeVars, posVars, destVars
  <1>2. pc' = pc \/ (pc \in {"read", "again"} /\ pc' = "parse") \/ (pc \in {"idle", "blocked"} /\ pc' = "read")
    BY DEF SkipRead, Drain, Readable, Writable, Reading, Waiting
  <1>3. Stream' /\ Offset' = Offset
    BY <1>1, StreamSame DEF RelayInv, Kept
  <1>4. Pos' = Pos /\ Unwritten' = Unwritten
    BY <1>1, <1>3 DEF Pos, Unwritten
  <1>5. CASE pc # "denied"
    <2>1. pc' # "denied"
      BY <1>2, <1>5
    <2>2. Parsed'
      BY <1>1, <1>2, <1>5 DEF RelayInv, Placed, Parsed
    <2> QED BY <1>1, <1>3, <1>4, <1>5, <2>1, <2>2, Waits
  <1>6. CASE pc = "denied"
    <2>1. pc' = "denied"
      BY <1>2, <1>6
    <2> QED BY <1>1, <1>3, <1>6, <2>1 DEF RelayInv, Kept, Placed, InStep
  <1> QED BY <1>5, <1>6

(* The first byte of a size line is the next one. *)
LEMMA EntersChunk ==
    ASSUME WellFramed(input), UNCHANGED <<input, done>>, done \in Nat, done < Len(input),
           Message.enc = "CHUNKED", NEW c \in 1 .. Len(Message.chunks) + 1,
           c = Len(Message.chunks) + 1 => Message.junk # <<>>,
           state' = "PARSE_CHUNKSIZE", chunksize' = 0, current_chunksize_length' = 0,
           num_chunk_size_spaces' = 0,
           At(Start(input, done + 1, c), OutStart(input, done + 1, c))'
    PROVE  ChunkPlace'
  <1>0. PICK i, P, Q, m : /\ i = done + 1 /\ P = Start(input, i, c) /\ Q = OutStart(input, i, c)
                          /\ m = input[i]
    OBVIOUS
  <1>1. /\ i \in 1 .. Len(input) /\ input[i].enc = "CHUNKED" /\ c \in 1 .. Len(input[i].chunks) + 1
        /\ c = Len(input[i].chunks) + 1 => input[i].junk # <<>>
    <2>1. i \in 1 .. Len(input)
      BY <1>0, Neighbours
    <2> QED BY <1>0, <2>1 DEF Message
  <1>2. /\ (done + 1)' = i /\ Message' = m /\ At(P, Q)'
        /\ P = Start(input, done + 1, c)' /\ Q = OutStart(input, done + 1, c)'
    BY <1>0 DEF Message, At
  <1>3. ASSUME NEW x \in Nat PROVE At(x, Q)' => At(x + 0, Q)'
    BY <1>3 DEF At
  <1>4. \A d \in Nat : Counted(d, 0)'
    BY DEF Counted
  <1>5. CASE \E ch : Piece(input, i, c, ch)
    <2>1. PICK ch : Piece(input, i, c, ch)
      BY <1>5
    <2>2. Framing(input, ch, P, Q)
      BY <1>0, <2>1, PieceFramed, Zenon
    <2>3. P \in Nat /\ SizeLine(ch.line, Len(ch.data)) /\ Len(ch.line) \in Nat /\ Len(ch.data) \in Nat
      BY <2>2, Zenon DEF Framing
    <2>4. 0 \in 0 .. Len(ch.line) /\ At(P + 0, Q)'
      BY <1>2, <1>3, <2>3
    <2>5. SizeSoFar(ch.line, Len(ch.data), 0)'
      <3>1. PICK d \in 0 .. Len(ch.line) : \E v \in [0 .. d -> 0 .. Len(ch.data)] :
                Scans(ch.line, d) /\ Values(ch.line, d, v) /\ v[d] = Len(ch.data)
        BY <2>3, Zenon DEF SizeLine
      <3>2. PICK v \in [0 .. d -> 0 .. Len(ch.data)] :
                Scans(ch.line, d) /\ Values(ch.line, d, v) /\ v[d] = Len(ch.data)
        BY <3>1
      <3>3. d \in Nat
        BY <2>3, <3>1
      <3>4. v[0] = 0
        BY <3>2 DEF Values
      <3>5. chunksize' = v[current_chunksize_length']
        BY <3>4
      <3> QED BY <1>4, <3>1, <3>2, <3>3, <3>5, Zenon DEF SizeSoFar
    <2>6. AtChunk(ch, P, Q)'
      <3> HIDE DEF At, SizeSoFar, Follows
      <3> QED BY <2>4, <2>5 DEF AtChunk
    <2>7. ch \in Pieces(m, c)
      BY <1>0, <2>1 DEF Piece
    <2>8. Piece(input, done + 1, c, ch)'
      BY <1>0, <2>1
    <2>9. InPiece'
      BY <1>0, <1>1, <1>2, <2>6, <2>7, <2>8 DEF InPiece
    <2> QED BY <2>9 DEF ChunkPlace
  <1>6. CASE /\ c = Len(input[i].chunks) + 1
             /\ \E l \in 0 .. Len(input[i].junk) : \E d \in 0 .. l : BadLine(input[i].junk, l, d)
    <2>1. PICK l \in 0 .. Len(m.junk) : \E d \in 0 .. l : BadLine(m.junk, l, d)
      BY <1>0, <1>6
    <2>2. PICK d \in 0 .. l : BadLine(m.junk, l, d)
      BY <2>1
    <2>3. /\ P \in Nat /\ Len(m.junk) \in Nat
      <3>1. /\ Start(input, done + 1, Len(input[done + 1].chunks) + 1) \in Nat
            /\ input[done + 1].junk \in Seq(Bytes)
        BY ChunkedPlace DEF Message
      <3>2. P = Start(input, done + 1, Len(input[done + 1].chunks) + 1)
        BY <1>0, <1>6, Zenon
      <3> QED BY <1>0, <3>1, <3>2
    <2>4. 0 \in 0 .. l /\ At(P + 0, Q)' /\ d \in Nat
      BY <1>2, <1>3, <2>1, <2>2, <2>3
    <2>5. AtBadLine(m.junk, P, Q)'
      <3>1. \E j \in 0 .. l : At(P + j, Q)' /\ Counted(d, j)'
        BY <1>4, <2>4
      <3> QED BY <2>1, <2>2, <3>1 DEF AtBadLine
    <2>6. InBadLine'
      BY <1>0, <1>1, <1>2, <1>6, <2>5 DEF InBadLine
    <2> QED BY <2>6 DEF ChunkPlace
  <1> QED BY <1>1, <1>5, <1>6, NextPiece

(* The next message follows a complete one. *)
LEMMA Completes ==
    ASSUME WellFramed(input), done \in Nat, RelayInv, done < Len(input), Message.junk = <<>>,
           CompleteMessage, pc = "parse", UNCHANGED <<input, unread, raw>>,
           text' \in [Texts -> Seq(Bytes)], out' \in Seq(Bytes), Holds(Sought(input), 0, out)',
           current_chunksize_length' \in Nat, num_chunk_size_spaces' \in Nat,
           Pos' = From(input, done + 1), Len(out') = To(input, done + 1)
    PROVE  RelayInv'
  <1>1. Stream'
    BY StreamSame DEF RelayInv, Kept
  <1>2. done' = done + 1 /\ state' = "PARSE_HEADER" /\ pc' = "parse"
    BY DEF CompleteMessage, GoTo
  <1>3. Len(input) \in Nat
    BY Whole
  <1>4. InStep'
    <2>1. \A i \in 1 .. done : input[i].junk = <<>>
      BY DEF RelayInv, Kept, InStep
    <2>2. \A i \in 1 .. done + 1 : i \in 1 .. done \/ i = done + 1
      OBVIOUS
    <2>3. \A i \in 1 .. done' : input'[i].junk = <<>>
      BY <1>2, <2>1, <2>2 DEF Message
    <2> QED BY <1>2, <2>3 DEF InStep
  <1>5. Kept'
    BY <1>1, <1>4 DEF Kept
  <1>6. done + 1 <= Len(input)
    BY <1>3
  <1>7. PlainPlace'
    BY <1>2, <1>6 DEF PlainPlace, At
  <1>8. Parsed' /\ ChunkPlace'
    BY <1>2 DEF Parsed, ChunkPlace, ChunkStates
  <1> QED BY <1>5, <1>7, <1>8 DEF RelayInv, Placed

(* What is claimed was sent. *)
LEMMA ClaimedSent ==
    ASSUME WellFramed(input), IInv, Stream
    PROVE  /\ Claimed \in Seq(Bytes) /\ Offset + write_position \in Nat
           /\ Holds(Sent(input), Offset + write_position, Claimed)
  <1>0. PICK w, o, a, b : w = Sent(input) /\ o = Offset /\ a = write_position /\ b = write_end_position
    OBVIOUS
  <1>1. /\ w \in Seq(Bytes) /\ o \in Nat /\ Holds(w, o, raw) /\ raw \in Seq(STRING)
        /\ a \in 0 .. Len(raw) /\ b \in 0 .. Len(raw)
    BY <1>0, Whole DEF Stream, IInv, TypeInv, PositionsOK
  <1>2. raw \in Seq(Bytes) /\ Len(raw) \in Nat /\ Len(w) \in Nat
    BY <1>1, BytesText
  <1>3. a \in Nat /\ b \in Nat /\ a <= Len(raw) /\ b <= Len(raw) /\ o + a \in Nat /\ o + Len(raw) <= Len(w)
    BY <1>1, <1>2 DEF Holds
  <1> DEFINE s == SubSeq(raw, a + 1, b)
  <1>4. CASE a <= b
    <2>1. PICK n \in Nat : b = a + n
      <3>1. b - a \in Nat /\ b = a + (b - a)
        BY <1>3, <1>4
      <3> QED BY <3>1
    <2>2. s \in Seq(Bytes) /\ Holds(raw, a, s)
      <3>1. a + n <= Len(raw)
        BY <1>3, <2>1
      <3>2. SubSeq(raw, a + 1, a + n) \in Seq(Bytes) /\ Holds(raw, a, SubSeq(raw, a + 1, a + n))
        BY <1>2, <1>3, <2>1, <3>1, HoldsPart
      <3> QED BY <2>1, <3>2, Zenon
    <2> HIDE DEF s
    <2>3. Holds(w, o + a, s)
      BY <1>1, <1>2, <1>3, <2>2, HoldsWithin
    <2> QED BY <1>0, <1>3, <2>2, <2>3, Zenon DEF Claimed, s
  <1>5. CASE ~(a <= b)
    <2>1. s = <<>>
      BY <1>2, <1>3, <1>5
    <2> HIDE DEF s
    <2>2. s \in Seq(Bytes)
      BY <2>1
    <2>3. Holds(w, o + a, s)
      <3>1. Len(s) = 0 /\ o + a + 0 <= Len(w)
        BY <1>1, <1>2, <1>3, <2>1
      <3>2. \A j \in 1 .. 0 : FALSE
        OBVIOUS
      <3> QED BY <3>1, <3>2, Zenon DEF Holds
    <2> QED BY <1>0, <1>3, <2>2, <2>3, Zenon DEF Claimed, s
  <1> QED BY <1>4, <1>5

(* What is claimed of d is expected next. *)
LEMMA ClaimedFollows ==
    ASSUME WellFramed(input), IInv, Stream, state \in ClaimedStates,
           NEW d \in Seq(Bytes), NEW a \in Nat, NEW b \in Nat,
           Holds(Sent(input), a, d), Holds(Sought(input), b, d),
           At(a + current_length, b + current_length - Unwritten),
           Unwritten <= current_length, current_length <= Len(d)
    PROVE  Follows(Claimed) /\ Claimed \in Seq(Bytes) /\ Len(Claimed) = Unwritten /\ Unwritten \in Nat
  <1>0. PICK o, x, u, p, s : /\ o = Offset /\ x = current_length - Unwritten /\ u = Unwritten
                             /\ p = write_position /\ s = Claimed
    OBVIOUS
  <1>1. /\ s \in Seq(Bytes) /\ o + p \in Nat /\ Holds(Sent(input), o + p, s)
    BY <1>0, ClaimedSent, Zenon
  <1>2. /\ o \in Nat /\ p \in Nat /\ write_end_position \in Nat /\ process_position = write_end_position
        /\ p <= write_end_position /\ current_length \in Nat /\ u = write_end_position - p
    BY <1>0 DEF Stream, IInv, TypeInv, ClaimKept, Unwritten
  <1>3. Len(s) = u /\ u \in Nat
    <2>1. TypeInv /\ PositionsOK
      BY DEF IInv
    <2>2. Len(Claimed) = write_end_position - write_position
      BY <1>0, <1>2, <2>1, ClaimedLength
    <2> QED BY <1>0, <1>2, <2>2
  <1>4. Pos = o + process_position
    BY <1>0 DEF Pos, ClaimedStates
  <1>5. x \in Nat /\ o + p = a + x /\ Len(out) = b + x /\ x + Len(s) <= Len(d)
    <2>1. o + process_position = a + current_length /\ Len(out) = b + current_length - u
      BY <1>0, <1>4 DEF At
    <2>2. u <= current_length /\ current_length <= Len(d) /\ x = current_length - u /\ Len(d) \in Nat
      BY <1>0
    <2> QED BY <1>2, <1>3, <2>1, <2>2
  <1>6. Sent(input) \in Seq(Bytes) /\ Sought(input) \in Seq(Bytes)
    BY Whole, Zenon
  <1>7. Holds(Sought(input), b + x, s)
    <2>1. Holds(Sent(input), a + x, s)
      BY <1>1, <1>5, Zenon
    <2> QED BY <1>1, <1>5, <1>6, <2>1, Carried
  <1> QED BY <1>0, <1>1, <1>3, <1>5, <1>7, Zenon DEF Follows

-----------------------------------------------------------------------------
(* parse_headers(): a header is where it is to be, and nothing is refused there. *)
LEMMA HeaderRelays ==
    ASSUME WellFramed(input), IInv, RelayInv, ParseHeader
    PROVE  RelayInv'
  <1>0. /\ UNCHANGED <<input, unread, raw>> /\ state = "PARSE_HEADER" /\ pc = "parse"
        /\ UNCHANGED <<done, chunksize, current_chunksize_length, num_chunk_size_spaces,
                       content_length, current_length, out>>
    BY DEF ParseHeader, Parsing, readVars, sizeVars, destVars
  <1>1. Stream' /\ Offset' = Offset /\ Stream
    BY <1>0, StreamSame DEF RelayInv, Kept
  <1>2. PlainPlace /\ done \in Nat /\ Len(input) \in Nat
    BY <1>0, Whole DEF RelayInv, Placed, IInv, TypeInv
  <1>3. /\ Pos = Offset + process_position /\ Pos = From(input, done) /\ Len(out) = To(input, done)
        /\ done <= Len(input)
    BY <1>0, <1>2 DEF PlainPlace, At, Pos
  <1>4. CASE AtEnd /\ Returns("INCOMPLETE") /\ UNCHANGED <<state, posVars, text>>
    <2>1. pc' # "denied" /\ TypeInv
      BY <1>4, ReturnsWhere DEF IInv
    <2>2. Pos' = Pos /\ Unwritten' = Unwritten
      BY <1>1, <1>4 DEF Pos, Unwritten, posVars
    <2>3. Parsed'
      BY <1>0, <1>4 DEF Parsed
    <2> QED BY <1>0, <1>1, <1>4, <2>1, <2>2, <2>3, Waits
  <1>5. CASE /\ ~AtEnd /\ AtHeader
             /\ Advance /\ write_position' = process_position + 1
             /\ text' = [text EXCEPT !["header"] = Header]
             /\ GoTo("PUSH_HEADER")
    <2>1. state' = "PUSH_HEADER" /\ pc' = "parse" /\ done < Len(input)
      BY <1>0, <1>5 DEF GoTo, AtHeader
    <2>2. Pos' = From(input, done) + 1
      <3>1. Pos' = Offset + (process_position + 1)
        BY <1>1, <1>5, <2>1 DEF Pos, Advance
      <3>2. Offset \in Nat /\ process_position \in Nat
        BY <1>1 DEF Stream, IInv, TypeInv
      <3>3. Offset + (process_position + 1) = Offset + process_position + 1
        BY <3>2
      <3> QED BY <1>3, <3>1, <3>3, Zenon
    <2>3. text' \in [Texts -> Seq(Bytes)] /\ text'["header"] = Header
      <3>1. text \in [Texts -> Seq(Bytes)] /\ Header \in Seq(Bytes) /\ "header" \in Texts
        BY EndLineText DEF RelayInv, Kept, Texts
      <3> HIDE DEF Header
      <3> QED BY <1>5, <3>1
    <2>4. Kept'
      BY <1>0, <1>1, <2>1, <2>3 DEF RelayInv, Kept, InStep
    <2>5. PlainPlace'
      BY <1>0, <1>2, <1>3, <2>1, <2>2, <2>3 DEF PlainPlace, At
    <2>6. Parsed' /\ ChunkPlace'
      BY <2>1 DEF Parsed, ChunkPlace, ChunkStates
    <2> QED BY <2>4, <2>5, <2>6 DEF RelayInv, Placed
  <1>6. ASSUME ~AtEnd PROVE AtHeader
    <2>1. /\ NextByte = Sent(input)[From(input, done) + 1]
          /\ From(input, done) < Len(Sent(input))
      BY <1>1, <1>3, <1>6, NextSent
    <2>2. From(input, Len(input)) = Len(Sent(input)) /\ Len(Sent(input)) \in Nat
      BY Whole, Zenon
    <2>3. done # Len(input)
      BY <2>1, <2>2
    <2>4. done < Len(input)
      BY <1>2, <1>3, <2>3
    <2>5. Holds(Sent(input), From(input, done), Header)
      BY <1>2, <2>4, Neighbours, Zenon
    <2>6. Header[1] = "H" /\ 1 \in 1 .. Len(Header)
      BY DEF Header
    <2>7. Sent(input)[From(input, done) + 1] = "H"
      BY <2>5, <2>6 DEF Holds
    <2> QED BY <2>1, <2>4, <2>7 DEF AtHeader
  <1> QED BY <1>4, <1>5, <1>6 DEF ParseHeader

(* The header is out, and a body parser begins behind it. *)
LEMMA PushRelays ==
    ASSUME WellFramed(input), IInv, RelayInv, PushHeader
    PROVE  RelayInv'
  <1>0. /\ UNCHANGED <<input, unread, raw>> /\ state = "PUSH_HEADER" /\ pc = "parse"
        /\ UNCHANGED <<done, process_position, write_position, write_end_position>>
    BY DEF PushHeader, Parsing, readVars, posVars
  <1>1. Stream' /\ Offset' = Offset /\ Stream
    BY <1>0, StreamSame DEF RelayInv, Kept
  <1>2. PlainPlace /\ done \in Nat /\ Len(input) \in Nat
    BY <1>0, Whole DEF RelayInv, Placed, IInv, TypeInv
  <1>3. /\ Pos = Offset + process_position /\ Pos = From(input, done) + 1 /\ Len(out) = To(input, done)
        /\ done < Len(input) /\ text["header"] = Header /\ write_position = process_position
    BY <1>0, <1>2 DEF PlainPlace, At, Pos, IInv, Synced, SyncedStates
  <1>4. PICK k \in 0 .. Len(Header), r \in {"COMPLETE", "INCOMPLETE"} :
         /\ Write(text["header"], k, r)
         /\ text' = [text EXCEPT !["header"] = SubSeq(@, k + 1, Len(@))]
         /\ \/ /\ r = "COMPLETE"
               /\ GoTo(FirstState(input[done + 1].enc))
               /\ ResetChunk
               /\ content_length' = Len(Data(input[done + 1]))
            \/ /\ r = "INCOMPLETE"
               /\ Returns("WRITE_INCOMPLETE")
               /\ UNCHANGED <<state, sizeVars, content_length, current_length>>
    BY DEF PushHeader
  <1>5. Header \in Seq(Bytes) /\ Len(Header) = 1
    BY EndLineText
  <1> HIDE DEF Header
  <1>6. Follows(Header)
    BY <1>2, <1>3, Neighbours, Zenon DEF Follows
  <1>7. /\ out' \in Seq(Bytes) /\ Len(out') = Len(out) + k
        /\ Holds(Sought(input), 0, out)'
        /\ SubSeq(Header, k + 1, Len(Header)) \in Seq(Bytes)
        /\ r = "COMPLETE" => k = Len(Header)
    <2>1. out \in Seq(Bytes) /\ Holds(Sought(input), 0, out) /\ ready_to_write \in BOOLEAN
      BY DEF RelayInv, Kept, IInv, TypeInv
    <2>2. Write(Header, k, r)
      BY <1>3, <1>4
    <2> QED BY <1>0, <1>4, <1>5, <1>6, <2>1, <2>2, WriteFollows
  <1>8. text' \in [Texts -> Seq(Bytes)] /\ text'["header"] = SubSeq(Header, k + 1, Len(Header))
    <2>1. text \in [Texts -> Seq(Bytes)] /\ "header" \in Texts
      BY DEF RelayInv, Kept, Texts
    <2> QED BY <1>3, <1>4, <1>7, <2>1
  <1>9. To(input, done) \in Nat /\ From(input, done) \in Nat
    BY <1>2, <1>3, Neighbours, Zenon
  <1>10. CASE r = "COMPLETE"
    <2>1. /\ pc' = "parse" /\ state' = FirstState(Message.enc)
          /\ chunksize' = 0 /\ current_chunksize_length' = 0 /\ num_chunk_size_spaces' = 0
          /\ current_length' = 0 /\ content_length' = Len(Data(Message))
      BY <1>0, <1>4, <1>10 DEF GoTo, ResetChunk, Message
    <2>2. Kept'
      BY <1>0, <1>1, <1>7, <1>8, <2>1 DEF RelayInv, Kept, InStep
    <2>3. At(From(input, done) + 1, To(input, done) + 1)'
      <3>1. Len(out') = To(input, done) + 1
        BY <1>3, <1>5, <1>7, <1>10
      <3>2. Pos' = Pos
        BY <1>0, <1>1, <1>3 DEF Pos
      <3> QED BY <1>0, <1>3, <3>1, <3>2 DEF At
    <2>4. /\ From(input, done) + 1 = From(input, done) + 1 + 0 /\ To(input, done) + 1 = To(input, done) + 1 + 0
      BY <1>9
    <2>5. Message' = Message /\ Message.enc \in Encodings
      <3>1. input[done + 1] \in Messages
        BY <1>2, <1>3, Neighbours, Zenon
      <3> QED BY <1>0, <3>1 DEF Message, Messages
    <2>6. Parsed'
      BY <2>1 DEF Parsed
    <2>7. CASE Message.enc = "CHUNKED"
      <3>1. state' = "PARSE_CHUNKSIZE"
        BY <2>1, <2>7 DEF FirstState
      <3>2. PlainPlace'
        BY <1>0, <1>2, <1>3, <3>1 DEF PlainPlace
      <3>3. /\ Len(Message.chunks) \in Nat
            /\ Start(input, done + 1, 1) = From(input, done) + 1
            /\ OutStart(input, done + 1, 1) = To(input, done) + 1
            /\ Message.junk = <<>> => Message.chunks # <<>>
            /\ Message.chunks \in Seq(Chunks)
        <4>1. input[done + 1].enc = "CHUNKED"
          BY <2>7 DEF Message
        <4>2. input[done + 1] \in Messages
          BY <1>2, <1>3, Neighbours, Zenon
        <4> QED BY <1>2, <1>3, <4>1, <4>2, ChunkedPlace DEF Message, Messages
      <3>4. 1 \in 1 .. Len(Message.chunks) + 1 /\ (1 = Len(Message.chunks) + 1 => Message.junk # <<>>)
        BY <3>3
      <3>5. At(Start(input, done + 1, 1), OutStart(input, done + 1, 1))'
        BY <1>0, <2>3, <3>3 DEF At
      <3>6. ChunkPlace'
        BY <1>0, <1>2, <1>3, <2>1, <2>7, <3>1, <3>4, <3>5, EntersChunk
      <3> QED BY <2>2, <2>6, <3>2, <3>6 DEF RelayInv, Placed
    <2>8. CASE Message.enc = "CONTENT_LENGTH"
      <3>1. state' = "MESSAGE_BODY_PARSE"
        BY <2>1, <2>8 DEF FirstState
      <3>2. Len(Data(Message)) \in Nat
        BY <1>2, <1>3, <2>8, DataPlace DEF Message
      <3>3. At(From(input, done) + 1 + 0, To(input, done) + 1 + 0)'
        BY <1>0, <2>3, <2>4 DEF At
      <3>4. PlainPlace'
        <4> HIDE DEF At
        <4> QED BY <1>0, <1>2, <1>3, <2>1, <2>5, <2>8, <3>1, <3>2, <3>3 DEF PlainPlace
      <3> QED BY <2>2, <2>6, <3>1, <3>4 DEF RelayInv, Placed, ChunkPlace, ChunkStates
    <2>9. CASE Message.enc = "END_CONNECTION"
      <3>1. state' = "END_CONNECTION"
        BY <2>1, <2>9 DEF FirstState
      <3>3. \E x \in Nat : At(From(input, done) + 1 + x, To(input, done) + 1 + x)'
        BY <1>0, <2>3, <2>4 DEF At
      <3>4. PlainPlace'
        <4> HIDE DEF At
        <4> QED BY <1>0, <1>2, <1>3, <2>1, <2>5, <2>9, <3>1, <3>3 DEF PlainPlace
      <3> QED BY <2>2, <2>6, <3>1, <3>4 DEF RelayInv, Placed, ChunkPlace, ChunkStates
    <2>10. CASE Message.enc = "NONE"
      <3>1. state' = "NONE"
        BY <2>1, <2>10 DEF FirstState
      <3>4. PlainPlace'
        <4> HIDE DEF At
        <4> QED BY <1>0, <1>2, <1>3, <2>1, <2>3, <2>5, <2>10, <3>1 DEF PlainPlace
      <3> QED BY <2>2, <2>6, <3>1, <3>4 DEF RelayInv, Placed, ChunkPlace, ChunkStates
    <2> QED BY <2>5, <2>7, <2>8, <2>9, <2>10 DEF Encodings
  <1>11. CASE r = "INCOMPLETE"
    <2>1. pc' = "blocked" /\ TypeInv
      BY <1>4, <1>11, ReturnsWhere DEF IInv
    <2>2. UNCHANGED <<state, chunksize, current_chunksize_length, num_chunk_size_spaces>>
      BY <1>4, <1>11 DEF sizeVars
    <2>3. k = 0
      <3>1. Write(Header, k, r)
        BY <1>3, <1>4
      <3>2. (~ready_to_write /\ k = 0) \/ k < Len(Header)
        <4>1. Len(Header) \in Nat /\ (Header = <<>> => Len(Header) = 0) /\ r # "COMPLETE"
          BY <1>5, <1>11
        <4> QED BY <2>1, <3>1, <4>1, WriteResult, Zenon
      <3> QED BY <1>4, <1>5, <3>2
    <2>4. text'["header"] = Header
      <3>1. SubSeq(Header, 0 + 1, Len(Header)) = Header
        BY <1>5
      <3> QED BY <1>8, <2>3, <3>1, Zenon
    <2>5. Kept'
      BY <1>0, <1>1, <1>7, <1>8, <2>1, <2>2 DEF RelayInv, Kept, InStep
    <2>6. Len(out') = To(input, done) /\ Pos' = From(input, done) + 1
      <3>1. Len(out') = To(input, done)
        BY <1>3, <1>7, <1>9, <2>3
      <3>2. Pos' = Pos
        BY <1>0, <1>1, <1>3, <2>2 DEF Pos
      <3> QED BY <1>3, <3>1, <3>2
    <2>7. PlainPlace'
      BY <1>0, <1>2, <1>3, <2>2, <2>4, <2>6 DEF PlainPlace, At
    <2> QED BY <1>0, <2>2, <2>5, <2>7 DEF RelayInv, Placed, Parsed, ChunkPlace, ChunkStates
  <1> QED BY <1>4, <1>10, <1>11

(* A message without a body. *)
LEMMA EndRelays ==
    ASSUME WellFramed(input), IInv, RelayInv, EndMessage
    PROVE  RelayInv'
  <1>0. /\ UNCHANGED <<input, unread, raw>> /\ state = "NONE" /\ pc = "parse" /\ CompleteMessage
        /\ UNCHANGED <<current_chunksize_length, num_chunk_size_spaces, text, out,
                       process_position, write_position>>
    BY DEF EndMessage, Parsing, readVars, posVars, sizeVars, destVars
  <1>1. Offset' = Offset
    BY <1>0, StreamSame DEF RelayInv, Kept
  <1>2. PlainPlace /\ done \in Nat
    BY <1>0 DEF RelayInv, Placed, IInv, TypeInv
  <1>3. /\ done < Len(input) /\ input[done + 1].enc = "NONE"
        /\ Pos = From(input, done) + 1 /\ Len(out) = To(input, done) + 1
    BY <1>0, <1>2 DEF PlainPlace, At, Message
  <1>4. /\ From(input, done + 1) = From(input, done) + 1 + Len(Data(input[done + 1]))
        /\ To(input, done + 1) = To(input, done) + 1 + Len(Data(input[done + 1]))
        /\ input[done + 1].junk = <<>> /\ Len(Data(input[done + 1])) = 0
    BY <1>2, <1>3, DataPlace
  <1>5. From(input, done) \in Nat /\ To(input, done) \in Nat
    BY <1>2, <1>3, Neighbours, Zenon
  <1>6. From(input, done + 1) = From(input, done) + 1 /\ To(input, done + 1) = To(input, done) + 1
    BY <1>4, <1>5
  <1>7. Pos' = Pos
    BY <1>0, <1>1 DEF Pos, CompleteMessage, GoTo
  <1>8. Message.junk = <<>>
    BY <1>4 DEF Message
  <1>9. Holds(Sought(input), 0, out)'
    BY <1>0 DEF RelayInv, Kept
  <1> QED BY <1>0, <1>2, <1>3, <1>6, <1>7, <1>8, <1>9, Completes DEF RelayInv, Kept

-----------------------------------------------------------------------------
(* A claim moves the parser and the length alike. *)
LEMMA ClaimMoves ==
    ASSUME IInv, Stream, state # "END_CONNECTION", NEW limit \in Nat, current_length <= limit,
           Claim(limit), UNCHANGED <<input, unread, raw>>, state' # "END_CONNECTION"
    PROVE  /\ Unwritten' \in 0 .. current_length'
           /\ current_length' \in 0 .. limit
           /\ current_length' = current_length + Unwritten'
           /\ Pos' = Pos + Unwritten'
  <1>0. PICK o : o = Offset
    OBVIOUS
  <1>1. Offset' = o /\ o \in Nat
    BY <1>0, StreamSame DEF Stream
  <1>2. /\ process_position \in Nat /\ current_length \in Nat /\ Len(raw) \in Nat
        /\ process_position <= Len(raw)
    BY DEF IInv, TypeInv, PositionsOK
  <1>3. /\ write_position' = process_position /\ write_end_position' = process_position'
        /\ process_position' \in Nat /\ process_position <= process_position'
        /\ current_length' = current_length + (process_position' - process_position)
        /\ current_length' <= limit
    BY <1>2 DEF Claim
  <1>4. Pos = o + process_position /\ Pos' = o + process_position'
    BY <1>0, <1>1 DEF Pos
  <1>5. Unwritten' = process_position' - process_position
    BY <1>3 DEF Unwritten
  <1>6. PICK u, x, y : u = Unwritten' /\ x = process_position' /\ y = current_length'
    OBVIOUS
  <1>7. /\ x \in Nat /\ process_position <= x /\ u = x - process_position
        /\ y = current_length + u /\ y <= limit
    BY <1>3, <1>5, <1>6, Zenon
  <1>8. u \in 0 .. y /\ y \in 0 .. limit /\ o + x = o + process_position + u
    BY <1>1, <1>2, <1>7
  <1> QED BY <1>4, <1>6, <1>7, <1>8, Zenon

(* What remains of a claim that is written in part, or of none. *)
LEMMA WriteMoves ==
    ASSUME IInv, Stream, state \in ClaimedStates, UNCHANGED <<input, unread, raw>>,
           UNCHANGED process_position, state' # "END_CONNECTION",
           NEW k \in Nat, write_position' = write_position + k
    PROVE  /\ Pos' = Pos
           /\ UNCHANGED write_end_position => Unwritten' = Unwritten - k
  <1>1. Offset' = Offset
    BY StreamSame
  <1>2. Pos' = Pos
    BY <1>1 DEF Pos, ClaimedStates
  <1>3. write_position \in Nat /\ write_end_position \in Nat
    BY DEF IInv, TypeInv
  <1> QED BY <1>2, <1>3 DEF Unwritten

(* content_length_body_parser claims what is there of the body. *)
LEMMA ContentRelays ==
    ASSUME WellFramed(input), IInv, RelayInv, ParseContent
    PROVE  RelayInv'
  <1>0. /\ UNCHANGED <<input, unread, raw>> /\ state = "MESSAGE_BODY_PARSE" /\ pc = "parse" /\ pc' = "parse"
        /\ UNCHANGED <<done, current_chunksize_length, num_chunk_size_spaces, content_length, text, out>>
        /\ Claim(content_length)
        /\ state' = IF current_length' < content_length THEN "INCOMPLETE_MESSAGE_BODY_FORWARD"
                                                        ELSE "COMPLETE_MESSAGE_BODY_FORWARD"
    BY DEF ParseContent, Parsing, GoTo, readVars, sizeVars, destVars
  <1>1. Stream' /\ Stream
    BY <1>0, StreamSame DEF RelayInv, Kept
  <1>2. PlainPlace /\ done \in Nat /\ content_length \in Nat /\ current_length \in Nat
    BY <1>0 DEF RelayInv, Placed, IInv, TypeInv
  <1>3. PICK p, q : p = From(input, done) + 1 /\ q = To(input, done) + 1
    OBVIOUS
  <1>4. /\ Pos = p + current_length /\ Len(out) = q + current_length /\ done < Len(input)
        /\ Message.enc = "CONTENT_LENGTH" /\ content_length = Len(Data(Message))
        /\ current_length <= content_length
    BY <1>0, <1>2, <1>3 DEF PlainPlace, At
  <1>5. p \in Nat /\ q \in Nat
    <2>1. From(input, done) \in Nat /\ To(input, done) \in Nat
      BY <1>2, <1>4, Neighbours, Zenon
    <2> QED BY <1>3, <2>1
  <1>6. /\ Unwritten' \in 0 .. current_length'
        /\ current_length' \in 0 .. content_length
        /\ current_length' = current_length + Unwritten'
        /\ Pos' = Pos + Unwritten'
    <2>1. state' # "END_CONNECTION" /\ state # "END_CONNECTION"
      BY <1>0
    <2> QED BY <1>0, <1>1, <1>2, <1>4, <2>1, ClaimMoves
  <1>7. /\ Unwritten' <= current_length' /\ current_length' <= content_length
        /\ Pos' = p + current_length' /\ Len(out) = q + current_length' - Unwritten'
        /\ ~(current_length' < content_length) => current_length' = content_length
    <2>1. PICK u, y : u = Unwritten' /\ y = current_length'
      OBVIOUS
    <2>2. u \in 0 .. y /\ y \in 0 .. content_length /\ y = current_length + u
      BY <1>6, <2>1, Zenon
    <2>3. /\ u <= y /\ y <= content_length /\ (~(y < content_length) => y = content_length)
          /\ p + current_length + u = p + y /\ q + current_length = q + y - u
      BY <1>2, <1>5, <2>2
    <2> QED BY <1>4, <1>6, <2>1, <2>3, Zenon
  <1>8. state' \in {"INCOMPLETE_MESSAGE_BODY_FORWARD", "COMPLETE_MESSAGE_BODY_FORWARD"}
        /\ (state' = "COMPLETE_MESSAGE_BODY_FORWARD" => current_length' = content_length)
    BY <1>0, <1>7
  <1>9. At(From(input, done) + 1 + current_length, To(input, done) + 1 + current_length - Unwritten)'
    BY <1>0, <1>3, <1>7, Zenon DEF At
  <1>10. PlainPlace'
    <2>1. Message' = Message /\ Len(input) \in Nat
      BY <1>0, Whole DEF Message
    <2>2. Unwritten' <= current_length' /\ current_length' <= content_length
      BY <1>7
    <2> HIDE DEF At, Unwritten
    <2> QED BY <1>0, <1>2, <1>4, <1>8, <1>9, <2>1, <2>2 DEF PlainPlace
  <1>11. Kept'
    BY <1>0, <1>1 DEF RelayInv, Kept, InStep
  <1>12. Parsed' /\ ChunkPlace'
    BY <1>0, <1>8 DEF Parsed, ChunkPlace, ChunkStates
  <1> QED BY <1>10, <1>11, <1>12 DEF RelayInv, Placed

(* ... and forwards it. *)
LEMMA ForwardContentRelays ==
    ASSUME WellFramed(input), IInv, RelayInv, ForwardContent
    PROVE  RelayInv'
  <1>0. /\ UNCHANGED <<input, unread, raw>> /\ pc = "parse"
        /\ state \in {"INCOMPLETE_MESSAGE_BODY_FORWARD", "COMPLETE_MESSAGE_BODY_FORWARD"}
        /\ UNCHANGED <<process_position, write_end_position, current_chunksize_length,
                       num_chunk_size_spaces, content_length, current_length, text>>
    BY DEF ForwardContent, readVars, sizeVars
  <1>1. Stream' /\ Stream
    BY <1>0, StreamSame DEF RelayInv, Kept
  <1>2. PlainPlace /\ done \in Nat /\ content_length \in Nat /\ current_length \in Nat
    BY <1>0 DEF RelayInv, Placed, IInv, TypeInv
  <1>3. PICK p, q, d : p = From(input, done) + 1 /\ q = To(input, done) + 1 /\ d = Data(Message)
    OBVIOUS
  <1>4. /\ At(p + current_length, q + current_length - Unwritten)
        /\ done < Len(input) /\ Message.enc = "CONTENT_LENGTH" /\ content_length = Len(d)
        /\ current_length <= content_length /\ Unwritten <= current_length
        /\ state = "COMPLETE_MESSAGE_BODY_FORWARD" => current_length = content_length
    BY <1>0, <1>2, <1>3 DEF PlainPlace
  <1>5. /\ p \in Nat /\ q \in Nat /\ d \in Seq(Bytes)
        /\ Holds(Sent(input), p, d) /\ Holds(Sought(input), q, d)
        /\ From(input, done + 1) = p + Len(d) /\ To(input, done + 1) = q + Len(d)
        /\ Message.junk = <<>>
    <2>1. From(input, done) \in Nat /\ To(input, done) \in Nat
      BY <1>2, <1>4, Neighbours, Zenon
    <2>2. p \in Nat /\ q \in Nat
      BY <1>3, <2>1
    <2>3. input[done + 1].enc # "CHUNKED"
      BY <1>4 DEF Message
    <2>4. /\ Data(input[done + 1]) \in Seq(Bytes)
          /\ Holds(Sent(input), From(input, done) + 1, Data(input[done + 1]))
          /\ Holds(Sought(input), To(input, done) + 1, Data(input[done + 1]))
          /\ From(input, done + 1) = From(input, done) + 1 + Len(Data(input[done + 1]))
          /\ To(input, done + 1) = To(input, done) + 1 + Len(Data(input[done + 1]))
          /\ input[done + 1].junk = <<>>
      BY <1>2, <1>4, <2>3, DataPlace, Zenon
    <2> QED BY <1>3, <2>2, <2>4, Zenon DEF Message
  <1>6. state \in ClaimedStates
    BY <1>0 DEF ClaimedStates
  <1>7. Follows(Claimed) /\ Claimed \in Seq(Bytes) /\ Len(Claimed) = Unwritten /\ Unwritten \in Nat
    BY <1>1, <1>4, <1>5, <1>6, ClaimedFollows
  <1>8. PICK k \in 0 .. Len(Claimed), r \in {"COMPLETE", "INCOMPLETE"} :
            /\ Write(Claimed, k, r)
            /\ write_position' = write_position + k
            /\ \/ /\ r = "COMPLETE" /\ state = "INCOMPLETE_MESSAGE_BODY_FORWARD"
                  /\ state' = "MESSAGE_BODY_PARSE" /\ Returns("INCOMPLETE")
                  /\ UNCHANGED done
               \/ /\ r = "COMPLETE" /\ state = "COMPLETE_MESSAGE_BODY_FORWARD"
                  /\ CompleteMessage
               \/ /\ r = "INCOMPLETE"
                  /\ Returns("WRITE_INCOMPLETE")
                  /\ UNCHANGED <<done, state>>
    BY DEF ForwardContent
  <1>9. /\ out' \in Seq(Bytes) /\ Len(out') = Len(out) + k
        /\ Holds(Sought(input), 0, out)'
        /\ r = "COMPLETE" => k = Unwritten
    <2>1. out \in Seq(Bytes) /\ Holds(Sought(input), 0, out) /\ ready_to_write \in BOOLEAN
      BY DEF RelayInv, Kept, IInv, TypeInv
    <2> QED BY <1>0, <1>7, <1>8, <2>1, WriteFollows
  <1>10. state' # "END_CONNECTION" /\ k \in Nat /\ k <= Unwritten
    BY <1>0, <1>7, <1>8 DEF CompleteMessage, GoTo
  <1>11. Pos' = Pos /\ Unwritten' = Unwritten - k
    BY <1>0, <1>1, <1>6, <1>8, <1>10, WriteMoves
  <1>12. PICK u : u = Unwritten
    OBVIOUS
  <1>13. /\ Pos' = p + current_length /\ Len(out') = q + current_length - (u - k)
         /\ u \in Nat /\ k \in Nat /\ k <= u /\ u <= current_length /\ Unwritten' = u - k
    <2>1. Pos = p + current_length /\ Len(out) = q + current_length - u
      BY <1>4, <1>12 DEF At
    <2>2. u \in Nat /\ k \in Nat /\ k <= u /\ u <= current_length /\ Unwritten' = u - k
      BY <1>4, <1>7, <1>10, <1>11, <1>12
    <2>3. q + current_length - u + k = q + current_length - (u - k)
      BY <1>2, <1>5, <2>2
    <2> QED BY <1>9, <1>11, <2>1, <2>2, <2>3, Zenon
  <1>14. r = "COMPLETE" => Len(out') = q + current_length
    <2>1. r = "COMPLETE" => k = u
      BY <1>9, <1>12
    <2> QED BY <1>2, <1>5, <1>13, <2>1
  <1>15. CASE r = "COMPLETE" /\ state = "COMPLETE_MESSAGE_BODY_FORWARD"
    <2>1. CompleteMessage
      BY <1>8, <1>15
    <2>2. Pos' = From(input, done + 1) /\ Len(out') = To(input, done + 1)
      BY <1>4, <1>5, <1>13, <1>14, <1>15
    <2>3. /\ text' \in [Texts -> Seq(Bytes)]
          /\ current_chunksize_length' \in Nat /\ num_chunk_size_spaces' \in Nat
      BY <1>0 DEF RelayInv, Kept
    <2> QED BY <1>0, <1>2, <1>4, <1>5, <1>9, <2>1, <2>2, <2>3, Completes
  <1>16. CASE ~(r = "COMPLETE" /\ state = "COMPLETE_MESSAGE_BODY_FORWARD")
    <2>0. TypeInv
      BY DEF IInv
    <2>1. done' = done /\ pc' # "denied" /\ pc' # "parse"
      BY <1>8, <1>16, <2>0, ReturnsWhere
    <2>2. Message' = Message /\ Len(input) \in Nat
      BY <1>0, <2>1, Whole DEF Message
    <2>3. Kept'
      BY <1>0, <1>1, <1>9, <2>1 DEF RelayInv, Kept, InStep
    <2>4. CASE r = "COMPLETE"
      <3>1. state' = "MESSAGE_BODY_PARSE" /\ state = "INCOMPLETE_MESSAGE_BODY_FORWARD"
        BY <1>8, <1>16, <2>4
      <3>2. At(From(input, done) + 1 + current_length, To(input, done) + 1 + current_length)'
        BY <1>0, <1>3, <1>13, <1>14, <2>1, <2>4, Zenon DEF At
      <3>3. PlainPlace'
        <4> HIDE DEF At, Unwritten
        <4> QED BY <1>0, <1>2, <1>3, <1>4, <2>1, <2>2, <3>1, <3>2 DEF PlainPlace
      <3>4. Parsed'
        BY <1>0, <3>1 DEF Parsed, IInv, ClaimKept, PartialStates
      <3> QED BY <2>3, <3>1, <3>3, <3>4 DEF RelayInv, Placed, ChunkPlace, ChunkStates
    <2>5. CASE r = "INCOMPLETE"
      <3>1. state' = state
        BY <1>8, <2>5
      <3>2. At(From(input, done) + 1 + current_length, To(input, done) + 1 + current_length - Unwritten)'
        BY <1>0, <1>3, <1>13, <2>1, Zenon DEF At
      <3>3. Unwritten' <= current_length
        BY <1>2, <1>13
      <3>4. PlainPlace'
        <4> HIDE DEF At, Unwritten
        <4> QED BY <1>0, <1>2, <1>3, <1>4, <2>1, <2>2, <3>1, <3>2, <3>3 DEF PlainPlace
      <3> QED BY <1>0, <2>3, <3>1, <3>4 DEF RelayInv, Placed, Parsed, ChunkPlace, ChunkStates
    <2> QED BY <1>8, <2>4, <2>5
  <1> QED BY <1>15, <1>16

(* end_connection_body_parser forwards all there is. *)
LEMMA ToCloseRelays ==
    ASSUME WellFramed(input), IInv, RelayInv, ForwardToClose
    PROVE  RelayInv'
  <1>0. /\ UNCHANGED <<input, unread, raw>> /\ pc = "parse" /\ state = "END_CONNECTION"
        /\ UNCHANGED <<done, process_position, write_end_position, state, chunksize,
                       current_chunksize_length, num_chunk_size_spaces, content_length,
                       current_length, text>>
    BY DEF ForwardToClose, Parsing, readVars, sizeVars
  <1>1. Stream' /\ Stream /\ Offset' = Offset /\ Offset \in Nat /\ write_position \in Nat
    BY <1>0, StreamSame DEF RelayInv, Kept, Stream, IInv, TypeInv
  <1>2. PlainPlace /\ done \in Nat
    BY <1>0 DEF RelayInv, Placed, IInv, TypeInv
  <1>3. CASE pc' = "aborted" /\ UNCHANGED <<write_position, destVars>>
    <2>1. Pos' = Pos /\ out' = out
      BY <1>0, <1>1, <1>3 DEF Pos, destVars
    <2>2. state \notin ClaimedStates /\ Parsed'
      BY <1>0 DEF ClaimedStates, Parsed
    <2> QED BY <1>0, <1>1, <1>3, <2>1, <2>2, Waits
  <1>4. CASE \E k \in 0 .. Len(Claimed), r \in {"COMPLETE", "INCOMPLETE"} :
               /\ Write(Claimed, k, r)
               /\ write_position' = write_position + k
               /\ Returns(IF r = "COMPLETE" THEN "INCOMPLETE" ELSE "WRITE_INCOMPLETE")
    <2>1. PICK k \in 0 .. Len(Claimed), r \in {"COMPLETE", "INCOMPLETE"} :
               /\ Write(Claimed, k, r)
               /\ write_position' = write_position + k
               /\ Returns(IF r = "COMPLETE" THEN "INCOMPLETE" ELSE "WRITE_INCOMPLETE")
      BY <1>4
    <2>2. PICK p, q, d, s : /\ p = From(input, done) + 1 /\ q = To(input, done) + 1
                            /\ d = Data(Message) /\ s = Claimed
      OBVIOUS
    <2>3. PICK x \in Nat : At(p + x, q + x)
      BY <1>0, <1>2, <2>2 DEF PlainPlace
    <2>4. done < Len(input) /\ Message.enc = "END_CONNECTION"
      BY <1>0, <1>2 DEF PlainPlace
    <2>5. /\ p \in Nat /\ q \in Nat /\ d \in Seq(Bytes)
          /\ Holds(Sent(input), p, d) /\ Holds(Sought(input), q, d)
          /\ Len(Sent(input)) = p + Len(d)
      <3>1. From(input, done) \in Nat /\ To(input, done) \in Nat /\ done + 1 \in 1 .. Len(input)
        BY <1>2, <2>4, Neighbours, Zenon
      <3>2. p \in Nat /\ q \in Nat
        BY <2>2, <3>1
      <3>3. input[done + 1].enc # "CHUNKED"
        BY <2>4 DEF Message
      <3>4. /\ Data(input[done + 1]) \in Seq(Bytes)
            /\ Holds(Sent(input), From(input, done) + 1, Data(input[done + 1]))
            /\ Holds(Sought(input), To(input, done) + 1, Data(input[done + 1]))
            /\ From(input, done + 1) = From(input, done) + 1 + Len(Data(input[done + 1]))
        BY <1>2, <2>4, <3>3, DataPlace, Zenon
      <3>5. done + 1 = Len(input)
        BY <2>4, <3>1 DEF WellFramed, Message
      <3>6. From(input, Len(input)) = Len(Sent(input))
        BY Whole, Zenon
      <3> QED BY <2>2, <3>2, <3>4, <3>5, <3>6, Zenon DEF Message
    <2>6. s \in Seq(Bytes) /\ Holds(Sent(input), Offset + write_position, s)
      BY <1>1, <2>2, ClaimedSent
    <2>7. Offset + write_position = p + x /\ Len(out) = q + x
      BY <1>0, <2>3 DEF At, Pos
    <2>8. x + Len(s) <= Len(d) /\ Len(s) \in Nat
      <3>1. Holds(Sent(input), p + x, s)
        BY <2>6, <2>7, Zenon
      <3>2. p + x + Len(s) <= p + Len(d)
        BY <2>5, <3>1, Zenon DEF Holds
      <3>3. Len(s) \in Nat /\ Len(d) \in Nat
        BY <2>5, <2>6
      <3> QED BY <2>3, <2>5, <3>2, <3>3
    <2>9. Follows(s)
      <3>1. Holds(Sent(input), p + x, s)
        BY <2>6, <2>7, Zenon
      <3>2. Sent(input) \in Seq(Bytes) /\ Sought(input) \in Seq(Bytes)
        BY Whole, Zenon
      <3>3. Holds(Sought(input), q + x, s)
        BY <2>3, <2>5, <2>6, <2>8, <3>1, <3>2, Carried
      <3> QED BY <2>7, <3>3, Zenon DEF Follows
    <2>10. /\ out' \in Seq(Bytes) /\ Len(out') = Len(out) + k
           /\ Holds(Sought(input), 0, out)' /\ k \in Nat
      <3>1. out \in Seq(Bytes) /\ Holds(Sought(input), 0, out) /\ ready_to_write \in BOOLEAN
        BY DEF RelayInv, Kept, IInv, TypeInv
      <3>2. k \in 0 .. Len(s) /\ Write(s, k, r)
        BY <2>1, <2>2
      <3> QED BY <1>0, <2>6, <2>8, <2>9, <3>1, <3>2, WriteFollows
    <2>11. pc' # "denied" /\ TypeInv
      BY <2>1, ReturnsWhere DEF IInv
    <2>12. Kept'
      BY <1>0, <1>1, <2>10, <2>11 DEF RelayInv, Kept, InStep
    <2>13. Pos' = p + (x + k) /\ Len(out') = q + (x + k) /\ x + k \in Nat
      <3>1. Pos' = Offset + (write_position + k)
        BY <1>0, <1>1, <2>1 DEF Pos
      <3>2. Offset + (write_position + k) = Offset + write_position + k
        BY <1>1, <2>10
      <3>3. p + x + k = p + (x + k) /\ q + x + k = q + (x + k) /\ x + k \in Nat
        BY <2>3, <2>5, <2>10
      <3> QED BY <2>7, <2>10, <3>1, <3>2, <3>3, Zenon
    <2>14. \E y \in Nat : At(From(input, done) + 1 + y, To(input, done) + 1 + y)'
      BY <1>0, <2>2, <2>13, Zenon DEF At
    <2>15. PlainPlace'
      <3>1. Message' = Message /\ Len(input) \in Nat
        BY <1>0, Whole DEF Message
      <3> HIDE DEF At, Unwritten
      <3> QED BY <1>0, <1>2, <2>4, <2>14, <3>1 DEF PlainPlace
    <2> QED BY <1>0, <2>12, <2>15 DEF RelayInv, Placed, Parsed, ChunkPlace, ChunkStates
  <1> QED BY <1>3, <1>4 DEF ForwardToClose

-----------------------------------------------------------------------------
(* The parser is in the chunk ch, the c-th one, which begins at P and Q. *)
Inside(c, ch, P, Q) ==
    /\ Piece(input, done + 1, c, ch)
    /\ P = Start(input, done + 1, c) /\ Q = OutStart(input, done + 1, c)

(* A parser in a chunk finds its framing ahead. *)
LEMMA ChunkOpens ==
    ASSUME WellFramed(input), InPiece
    PROVE  \E c, ch, P, Q : /\ Inside(c, ch, P, Q) /\ AtChunk(ch, P, Q) /\ Framing(input, ch, P, Q)
                            /\ state = "FORWARD_TRAILER_CRLF" => c <= Len(Message.chunks)
  <1>1. PICK c, ch : /\ Piece(input, done + 1, c, ch)
                     /\ AtChunk(ch, Start(input, done + 1, c), OutStart(input, done + 1, c))
                     /\ state = "FORWARD_TRAILER_CRLF" => c <= Len(Message.chunks)
    BY Zenon DEF InPiece
  <1>2. PICK P, Q : P = Start(input, done + 1, c) /\ Q = OutStart(input, done + 1, c)
    OBVIOUS
  <1>3. Framing(input, ch, P, Q)
    BY <1>1, <1>2, PieceFramed, Zenon
  <1> QED BY <1>1, <1>2, <1>3, Zenon DEF Inside

(* A step within a chunk. *)
LEMMA ChunkStays ==
    ASSUME done \in Nat, done < Len(input), Len(input) \in Nat, UNCHANGED <<input, done>>,
           NEW c, NEW ch, NEW P, NEW Q, Inside(c, ch, P, Q), AtChunk(ch, P, Q)',
           state' = "FORWARD_TRAILER_CRLF" => c <= Len(Message.chunks),
           state' \in ChunkStates, Kept', Parsed'
    PROVE  RelayInv'
  <1>1. Inside(c, ch, P, Q)' /\ Message' = Message
    BY DEF Inside, Message
  <1>2. InPiece'
    <2>1. c \in 1 .. Len(Message.chunks) + 1 /\ ch \in Pieces(Message, c)
      BY DEF Inside, Piece, Message
    <2>2. /\ Piece(input, done + 1, c, ch)'
          /\ P = Start(input, done + 1, c)' /\ Q = OutStart(input, done + 1, c)'
      BY <1>1 DEF Inside
    <2>3. AtChunk(ch, Start(input, done + 1, c), OutStart(input, done + 1, c))'
      BY <2>2, Zenon
    <2> QED BY <1>1, <2>1, <2>2, <2>3 DEF InPiece
  <1>3. PlainPlace'
    BY DEF PlainPlace, ChunkStates
  <1> QED BY <1>2, <1>3 DEF RelayInv, Placed, ChunkPlace

(* What is known in a chunk. *)
LEMMA InChunk ==
    ASSUME WellFramed(input), IInv, RelayInv, pc # "denied", state \in ChunkStates
    PROVE  /\ done \in Nat /\ done < Len(input) /\ Len(input) \in Nat /\ Stream /\ Offset \in Nat
           /\ InPiece \/ InBadLine
           /\ Pos = Offset + process_position /\ process_position \in Nat
  <1>1. done < Len(input)
    BY DEF RelayInv, Placed, PlainPlace, ChunkStates
  <1>2. Pos = Offset + process_position
    BY DEF Pos, ChunkStates
  <1> QED BY <1>1, <1>2, Whole DEF RelayInv, Kept, Placed, ChunkPlace, IInv, TypeInv, Stream

(* Most steps in a chunk leave the rest alone. *)
LEMMA KeptInChunk ==
    ASSUME RelayInv, UNCHANGED <<input, unread, raw, done>>, pc # "denied", pc' # "denied",
           text' \in [Texts -> Seq(Bytes)], out' \in Seq(Bytes), Holds(Sought(input), 0, out)',
           current_chunksize_length' \in Nat, num_chunk_size_spaces' \in Nat
    PROVE  Kept' /\ Stream' /\ Offset' = Offset
  <1>1. Stream' /\ Offset' = Offset
    BY StreamSame DEF RelayInv, Kept
  <1> QED BY <1>1 DEF RelayInv, Kept, InStep

(* The byte behind j of a size line and its end. *)
LEMMA LineByte ==
    ASSUME WellFramed(input), IInv, Stream, ~AtEnd, NEW ch, NEW P, NEW Q, Framing(input, ch, P, Q),
           NEW j \in 0 .. Len(ch.line), Offset + process_position = P + j
    PROVE  /\ j < Len(ch.line) => NextByte = ch.line[j + 1]
           /\ j = Len(ch.line) => NextByte = "CR"
  <1>0. PICK w, l : w = Sent(input) /\ l = Len(ch.line)
    OBVIOUS
  <1>1. P \in Nat /\ l \in Nat /\ Holds(w, P, ch.line) /\ Holds(w, P + l, EndLine)
    BY <1>0, Zenon DEF Framing
  <1>2. NextByte = w[P + j + 1]
    BY <1>0, NextSent
  <1>3. ASSUME j < l PROVE w[P + j + 1] = ch.line[j + 1]
    <2>1. j + 1 \in 1 .. Len(ch.line) /\ P + (j + 1) = P + j + 1
      BY <1>0, <1>1, <1>3
    <2>2. w[P + (j + 1)] = ch.line[j + 1]
      BY <1>1, <2>1 DEF Holds
    <2> QED BY <2>1, <2>2, Zenon
  <1>4. w[P + l + 1] = "CR"
    <2>1. 1 \in 1 .. Len(EndLine) /\ EndLine[1] = "CR"
      BY DEF EndLine
    <2> QED BY <1>1, <2>1 DEF Holds
  <1> QED BY <1>0, <1>2, <1>3, <1>4, Zenon

(* The byte behind j of what is not a chunk. *)
LEMMA JunkByte ==
    ASSUME WellFramed(input), IInv, Stream, ~AtEnd, NEW junk \in Seq(Bytes), NEW P \in Nat,
           Holds(Sent(input), P, junk), NEW j \in Nat, j < Len(junk), Offset + process_position = P + j
    PROVE  NextByte = junk[j + 1]
  <1>0. PICK w : w = Sent(input)
    OBVIOUS
  <1>2. NextByte = w[P + j + 1]
    BY <1>0, NextSent
  <1>3. w[P + j + 1] = junk[j + 1]
    <2>1. j + 1 \in 1 .. Len(junk) /\ P + (j + 1) = P + j + 1
      OBVIOUS
    <2>2. w[P + (j + 1)] = junk[j + 1]
      BY <1>0, <2>1 DEF Holds
    <2> QED BY <2>1, <2>2, Zenon
  <1> QED BY <1>2, <1>3, Zenon

(* Behind j characters of a size line with d digits. *)
LEMMA CountedPlaces ==
    ASSUME NEW d \in Nat, NEW j \in Nat, Counted(d, j)
    PROVE  /\ j <= d => current_chunksize_length = j /\ num_chunk_size_spaces = 0
           /\ ~(j <= d) => current_chunksize_length = d /\ num_chunk_size_spaces = j - d
           /\ num_chunk_size_spaces = 0 <=> j <= d
  BY DEF Counted

(* One more digit ... *)
LEMMA CountedDigit ==
    ASSUME NEW d \in Nat, NEW j \in Nat, Counted(d, j), j < d,
           current_chunksize_length' = current_chunksize_length + 1, UNCHANGED num_chunk_size_spaces
    PROVE  Counted(d, j + 1)'
  <1>1. current_chunksize_length = j /\ num_chunk_size_spaces = 0 /\ j + 1 <= d
    BY DEF Counted
  <1> QED BY <1>1 DEF Counted

(* ... or one more space. *)
LEMMA CountedSpace ==
    ASSUME NEW d \in Nat, NEW j \in Nat, Counted(d, j), ~(j < d),
           num_chunk_size_spaces' = num_chunk_size_spaces + 1, UNCHANGED current_chunksize_length
    PROVE  Counted(d, j + 1)'
  <1>1. current_chunksize_length = d /\ num_chunk_size_spaces = j - d /\ ~(j + 1 <= d)
    BY DEF Counted
  <1>2. num_chunk_size_spaces' = (j + 1) - d
    BY <1>1
  <1> QED BY <1>1, <1>2 DEF Counted

(* parse_chunk_size() in the size line of a chunk refuses nothing. *)
LEMMA SizeInPiece ==
    ASSUME WellFramed(input), IInv, RelayInv, ParseChunkSize, ~AtEnd, InPiece
    PROVE  RelayInv'
  <1>0. /\ UNCHANGED <<input, unread, raw>> /\ state = "PARSE_CHUNKSIZE" /\ pc = "parse"
        /\ UNCHANGED <<done, content_length, current_length, text, out>>
    BY DEF ParseChunkSize, Parsing, readVars, destVars
  <1>1. /\ done \in Nat /\ done < Len(input) /\ Len(input) \in Nat /\ Stream /\ Offset \in Nat
        /\ Pos = Offset + process_position /\ process_position \in Nat
    BY <1>0, InChunk DEF ChunkStates
  <1>2. PICK c, ch, P, Q : Inside(c, ch, P, Q) /\ AtChunk(ch, P, Q) /\ Framing(input, ch, P, Q)
    BY ChunkOpens, Zenon
  <1>3. PICK l, n : l = Len(ch.line) /\ n = Len(ch.data)
    OBVIOUS
  <1>4. l \in Nat /\ n \in Nat /\ P \in Nat
    BY <1>2, <1>3, Zenon DEF Framing
  <1>5. PICK j \in 0 .. l : At(P + j, Q) /\ SizeSoFar(ch.line, n, j)
    BY <1>0, <1>2, <1>3 DEF AtChunk
  <1>6. PICK d \in 0 .. l : \E v \in [0 .. d -> 0 .. n] :
            /\ Scans(ch.line, d) /\ Values(ch.line, d, v) /\ v[d] = n
            /\ Counted(d, j) /\ chunksize = v[current_chunksize_length]
    BY <1>3, <1>5, Zenon DEF SizeSoFar
  <1>7. PICK v \in [0 .. d -> 0 .. n] :
            /\ Scans(ch.line, d) /\ Values(ch.line, d, v) /\ v[d] = n
            /\ Counted(d, j) /\ chunksize = v[current_chunksize_length]
    BY <1>6
  <1>8. j \in Nat /\ d \in Nat /\ j <= l /\ d <= l
    BY <1>4, <1>5, <1>6
  <1>9. /\ j <= d => current_chunksize_length = j /\ num_chunk_size_spaces = 0
        /\ ~(j <= d) => current_chunksize_length = d /\ num_chunk_size_spaces = j - d
        /\ num_chunk_size_spaces = 0 <=> j <= d
    BY <1>7, <1>8, CountedPlaces
  <1>10. PICK b : b = NextByte
    OBVIOUS
  <1>11. (j < l => b = ch.line[j + 1]) /\ (j = l => b = "CR")
    <2>1. Offset + process_position = P + j /\ j \in 0 .. Len(ch.line)
      BY <1>1, <1>3, <1>5 DEF At
    <2> QED BY <1>1, <1>2, <1>3, <1>10, <2>1, LineByte
  <1>12. (j < d => IsHex(b)) /\ (~(j < d) /\ j < l => b = "SP")
    <2>1. ASSUME j < d PROVE IsHex(ch.line[j + 1])
      <3>1. j + 1 \in 1 .. d
        BY <1>8, <2>1
      <3> QED BY <1>7, <3>1, Zenon DEF Scans
    <2>2. ASSUME ~(j < d), j < l PROVE ch.line[j + 1] = "SP"
      <3>1. j + 1 \in d + 1 .. Len(ch.line)
        BY <1>3, <1>4, <1>8, <2>2
      <3> QED BY <1>7, <3>1, Zenon DEF Scans
    <2>3. j < d => j < l
      BY <1>4, <1>8
    <2> QED BY <1>11, <2>1, <2>2, <2>3, Zenon
  <1>13. IsHex(b) => b # "SP" /\ b # "CR"
    BY NotHex
  <1>14. d <= CHUNK_SIZE_LENGTH /\ l - d <= MAX_SPACES
    BY <1>3, <1>7, Zenon DEF Scans
  <1>15. Kept /\ out \in Seq(Bytes)
    BY DEF RelayInv, Kept
  <1>16. /\ Holds(Sought(input), 0, out)' /\ text' \in [Texts -> Seq(Bytes)] /\ out' \in Seq(Bytes)
         /\ current_chunksize_length \in Nat /\ num_chunk_size_spaces \in Nat /\ chunksize \in Nat
    BY <1>0, <1>15 DEF Kept, IInv, TypeInv
  (* a digit *)
  <1>20. CASE /\ IsHex(b) /\ num_chunk_size_spaces = 0
              /\ chunksize' = 16 * chunksize + HexValue(b)
              /\ current_chunksize_length' = current_chunksize_length + 1
              /\ Advance
              /\ UNCHANGED <<pc, state, num_chunk_size_spaces>>
    <2>1. j < d
      <3>1. j <= d /\ (j = l => b = "CR") /\ (~(j < d) /\ j < l => b = "SP") /\ b # "SP" /\ b # "CR"
        BY <1>9, <1>11, <1>12, <1>13, <1>20, Zenon
      <3> QED BY <1>4, <1>8, <3>1
    <2>2. Kept' /\ Offset' = Offset
      <3>1. current_chunksize_length' \in Nat /\ num_chunk_size_spaces' \in Nat /\ pc' # "denied"
        BY <1>0, <1>16, <1>20
      <3> QED BY <1>0, <1>16, <3>1, KeptInChunk
    <2>3. At(P + (j + 1), Q)'
      <3>1. Pos' = Offset + (process_position + 1)
        BY <1>0, <1>20, <2>2 DEF Pos, Advance
      <3>2. Offset + process_position = P + j /\ Len(out) = Q
        BY <1>1, <1>5 DEF At
      <3>3. Offset + (process_position + 1) = P + (j + 1)
        BY <1>1, <1>4, <1>8, <3>2
      <3> QED BY <1>0, <3>1, <3>2, <3>3 DEF At
    <2>4. Counted(d, j + 1)'
      BY <1>7, <1>8, <1>20, <2>1, CountedDigit
    <2>5. chunksize' = v[current_chunksize_length']
      <3>1. j + 1 \in 1 .. d /\ (j + 1) - 1 = j /\ current_chunksize_length' = j + 1 /\ chunksize = v[j]
        BY <1>7, <1>8, <1>9, <1>20, <2>1
      <3>2. v[j + 1] = 16 * v[j] + HexValue(ch.line[j + 1])
        BY <1>7, <3>1, Zenon DEF Values
      <3>3. b = ch.line[j + 1]
        BY <1>4, <1>8, <1>11, <2>1
      <3> QED BY <1>20, <3>1, <3>2, <3>3, Zenon
    <2>6. SizeSoFar(ch.line, n, j + 1)'
      BY <1>3, <1>6, <1>7, <2>4, <2>5, Zenon DEF SizeSoFar
    <2>7. j + 1 \in 0 .. l
      BY <1>4, <1>8, <2>1
    <2>8. AtChunk(ch, P, Q)'
      <3>1. \E x \in 0 .. l : At(P + x, Q)' /\ SizeSoFar(ch.line, n, x)'
        BY <2>3, <2>6, <2>7
      <3>2. state' = "PARSE_CHUNKSIZE"
        BY <1>0, <1>20
      <3> QED BY <1>3, <3>1, <3>2 DEF AtChunk
    <2>9. Parsed' /\ state' \in ChunkStates /\ state' # "FORWARD_TRAILER_CRLF"
      BY <1>0, <1>20 DEF Parsed, ChunkStates
    <2> QED BY <1>0, <1>1, <1>2, <2>2, <2>8, <2>9, ChunkStays
  (* a space *)
  <1>21. CASE /\ b = "SP" /\ num_chunk_size_spaces' = num_chunk_size_spaces + 1
              /\ Advance
              /\ UNCHANGED <<pc, state, chunksize, current_chunksize_length>>
    <2>1. ~(j < d) /\ j < l
      BY <1>8, <1>11, <1>12, <1>13, <1>21, <1>4
    <2>2. Kept' /\ Offset' = Offset
      <3>1. current_chunksize_length' \in Nat /\ num_chunk_size_spaces' \in Nat /\ pc' # "denied"
        BY <1>0, <1>16, <1>21
      <3> QED BY <1>0, <1>16, <3>1, KeptInChunk
    <2>3. At(P + (j + 1), Q)'
      <3>1. Pos' = Offset + (process_position + 1)
        BY <1>0, <1>21, <2>2 DEF Pos, Advance
      <3>2. Offset + process_position = P + j /\ Len(out) = Q
        BY <1>1, <1>5 DEF At
      <3>3. Offset + (process_position + 1) = P + (j + 1)
        BY <1>1, <1>4, <1>8, <3>2
      <3> QED BY <1>0, <3>1, <3>2, <3>3 DEF At
    <2>4. Counted(d, j + 1)'
      BY <1>7, <1>8, <1>21, <2>1, CountedSpace
    <2>5. chunksize' = v[current_chunksize_length']
      BY <1>7, <1>21
    <2>6. SizeSoFar(ch.line, n, j + 1)'
      BY <1>3, <1>6, <1>7, <2>4, <2>5, Zenon DEF SizeSoFar
    <2>7. j + 1 \in 0 .. l
      BY <1>4, <1>8, <2>1
    <2>8. AtChunk(ch, P, Q)'
      <3>1. \E x \in 0 .. l : At(P + x, Q)' /\ SizeSoFar(ch.line, n, x)'
        BY <2>3, <2>6, <2>7
      <3>2. state' = "PARSE_CHUNKSIZE"
        BY <1>0, <1>21
      <3> QED BY <1>3, <3>1, <3>2 DEF AtChunk
    <2>9. Parsed' /\ state' \in ChunkStates /\ state' # "FORWARD_TRAILER_CRLF"
      BY <1>0, <1>21 DEF Parsed, ChunkStates
    <2> QED BY <1>0, <1>1, <1>2, <2>2, <2>8, <2>9, ChunkStays
  (* the end of the line *)
  <1>22. CASE /\ b = "CR" /\ Advance /\ num_chunk_size_spaces' = 0
              /\ GoTo("PARSE_CHUNKSIZE_LF")
              /\ UNCHANGED <<chunksize, current_chunksize_length>>
    <2>1. j = l
      BY <1>8, <1>12, <1>13, <1>22, <1>4
    <2>2. state' = "PARSE_CHUNKSIZE_LF" /\ pc' = "parse"
      BY <1>0, <1>22 DEF GoTo
    <2>3. Kept' /\ Offset' = Offset
      <3>1. current_chunksize_length' \in Nat /\ num_chunk_size_spaces' \in Nat /\ pc' # "denied"
        BY <1>16, <1>22, <2>2
      <3> QED BY <1>0, <1>16, <3>1, KeptInChunk
    <2>4. At(P + l + 1, Q)'
      <3>1. Pos' = Offset + (process_position + 1)
        BY <1>22, <2>2, <2>3 DEF Pos, Advance
      <3>2. Offset + process_position = P + j /\ Len(out) = Q
        BY <1>1, <1>5 DEF At
      <3>3. Offset + (process_position + 1) = P + l + 1
        BY <1>1, <1>4, <1>8, <2>1, <3>2
      <3> QED BY <1>0, <3>1, <3>2, <3>3 DEF At
    <2>5. chunksize' = n
      <3>1. current_chunksize_length = d
        BY <1>8, <1>9, <2>1
      <3> QED BY <1>7, <1>22, <3>1
    <2>6. AtChunk(ch, P, Q)'
      BY <1>3, <2>2, <2>4, <2>5 DEF AtChunk
    <2>7. Parsed' /\ state' \in ChunkStates /\ state' # "FORWARD_TRAILER_CRLF"
      BY <2>2 DEF Parsed, ChunkStates
    <2> QED BY <1>0, <1>1, <1>2, <2>3, <2>6, <2>7, ChunkStays
  (* nothing else *)
  <1>23. \/ b = "CR" \/ (b = "SP" /\ num_chunk_size_spaces < MAX_SPACES)
         \/ (IsHex(b) /\ num_chunk_size_spaces = 0 /\ current_chunksize_length < CHUNK_SIZE_LENGTH)
    <2>1. CASE j < d
      <3>1. num_chunk_size_spaces = 0 /\ current_chunksize_length < CHUNK_SIZE_LENGTH
        BY <1>8, <1>9, <1>14, <2>1, BodyAssumption
      <3> QED BY <1>12, <2>1, <3>1
    <2>2. CASE ~(j < d) /\ j < l
      <3>1. num_chunk_size_spaces = j - d
        BY <1>8, <1>9, <2>2
      <3>2. num_chunk_size_spaces < MAX_SPACES
        BY <1>4, <1>8, <1>14, <2>2, <3>1, BodyAssumption
      <3> QED BY <1>12, <2>2, <3>2
    <2>3. CASE j = l
      BY <1>11, <2>3
    <2> QED BY <1>4, <1>8, <2>1, <2>2, <2>3
  <1> QED BY <1>10, <1>20, <1>21, <1>22, <1>23, Zenon DEF ParseChunkSize

(* A line that is refused where it is wrong. *)
LEMMA BadLineStays ==
    ASSUME done \in Nat, done < Len(input), Len(input) \in Nat, UNCHANGED <<input, done>>,
           Message.enc = "CHUNKED", NEW J, J = Message.junk,
           NEW P, P = Start(input, done + 1, Len(Message.chunks) + 1),
           NEW Q, Q = OutStart(input, done + 1, Len(Message.chunks) + 1),
           AtBadLine(J, P, Q)', Kept', Parsed'
    PROVE  RelayInv'
  <1>1. Message' = Message /\ state' \in {"PARSE_CHUNKSIZE", "PARSE_CHUNKSIZE_LF"}
    BY DEF Message, AtBadLine
  <1>2. /\ J = Message'.junk /\ P = Start(input, done + 1, Len(Message.chunks) + 1)'
        /\ Q = OutStart(input, done + 1, Len(Message.chunks) + 1)'
    BY <1>1
  <1>3. InBadLine'
    BY <1>1, <1>2, Zenon DEF InBadLine
  <1>4. PlainPlace'
    BY <1>1 DEF PlainPlace
  <1> QED BY <1>3, <1>4 DEF RelayInv, Placed, ChunkPlace

(* What is known in a line that is refused. *)
LEMMA BadLineOpens ==
    ASSUME WellFramed(input), done \in Nat, done < Len(input), InBadLine
    PROVE  \E J, P, Q :
               /\ J = Message.junk /\ J \in Seq(Bytes) /\ Len(J) \in Nat
               /\ P = Start(input, done + 1, Len(Message.chunks) + 1)
               /\ Q = OutStart(input, done + 1, Len(Message.chunks) + 1)
               /\ P \in Nat /\ AtBadLine(J, P, Q) /\ Holds(Sent(input), P, J)
  <1>1. Message.enc = "CHUNKED" /\ input[done + 1].enc = "CHUNKED"
    BY DEF InBadLine, Message
  <1>2. PICK J, P, Q :
               /\ J = Message.junk
               /\ P = Start(input, done + 1, Len(Message.chunks) + 1)
               /\ Q = OutStart(input, done + 1, Len(Message.chunks) + 1)
    OBVIOUS
  <1>3. P \in Nat /\ Holds(Sent(input), P, J) /\ J \in Seq(Bytes)
    <2>1. /\ Start(input, done + 1, Len(input[done + 1].chunks) + 1) \in Nat
          /\ Holds(Sent(input), Start(input, done + 1, Len(input[done + 1].chunks) + 1), input[done + 1].junk)
          /\ input[done + 1].junk \in Seq(Bytes)
      BY <1>1, ChunkedPlace, Zenon
    <2> QED BY <1>2, <2>1, Zenon DEF Message
  <1>4. AtBadLine(J, P, Q)
    BY <1>2, Zenon DEF InBadLine
  <1>5. Len(J) \in Nat
    BY <1>3
  <1> QED BY <1>2, <1>3, <1>4, <1>5, Zenon

(* parse_chunk_size() in a line that is wrong. *)
LEMMA SizeInBadLine ==
    ASSUME WellFramed(input), IInv, RelayInv, ParseChunkSize, ~AtEnd, InBadLine
    PROVE  RelayInv'
  <1>0. /\ UNCHANGED <<input, unread, raw>> /\ state = "PARSE_CHUNKSIZE" /\ pc = "parse"
        /\ UNCHANGED <<done, content_length, current_length, text, out>>
    BY DEF ParseChunkSize, Parsing, readVars, destVars
  <1>1. /\ done \in Nat /\ done < Len(input) /\ Len(input) \in Nat /\ Stream /\ Offset \in Nat
        /\ Pos = Offset + process_position /\ process_position \in Nat
    BY <1>0, InChunk DEF ChunkStates
  <1>2. PICK J, P, Q :
               /\ J = Message.junk /\ J \in Seq(Bytes) /\ Len(J) \in Nat
               /\ P = Start(input, done + 1, Len(Message.chunks) + 1)
               /\ Q = OutStart(input, done + 1, Len(Message.chunks) + 1)
               /\ P \in Nat /\ AtBadLine(J, P, Q) /\ Holds(Sent(input), P, J)
    BY <1>1, BadLineOpens, Zenon
  <1>3. PICK l \in 0 .. Len(J) : \E d \in 0 .. l :
            BadLine(J, l, d) /\ \E j \in 0 .. l : At(P + j, Q) /\ Counted(d, j)
    BY <1>0, <1>2 DEF AtBadLine
  <1>4. PICK d \in 0 .. l : BadLine(J, l, d) /\ \E j \in 0 .. l : At(P + j, Q) /\ Counted(d, j)
    BY <1>3
  <1>5. PICK j \in 0 .. l : At(P + j, Q) /\ Counted(d, j)
    BY <1>4
  <1>8. j \in Nat /\ d \in Nat /\ l \in Nat /\ j <= l /\ d <= l /\ l < Len(J)
    BY <1>2, <1>3, <1>4, <1>5 DEF BadLine
  <1>9. /\ j <= d => current_chunksize_length = j /\ num_chunk_size_spaces = 0
        /\ ~(j <= d) => current_chunksize_length = d /\ num_chunk_size_spaces = j - d
        /\ num_chunk_size_spaces = 0 <=> j <= d
    BY <1>5, <1>8, CountedPlaces
  <1>10. PICK b : b = NextByte
    OBVIOUS
  <1>11. b = J[j + 1]
    <2>1. Offset + process_position = P + j /\ j < Len(J)
      BY <1>1, <1>2, <1>5, <1>8 DEF At
    <2> QED BY <1>1, <1>2, <1>8, <1>10, <2>1, JunkByte
  <1>12. (j < d => IsHex(b)) /\ (~(j < d) /\ j < l => b = "SP")
    <2>0. PICK s : s = SubSeq(J, 1, l)
      OBVIOUS
    <2>1. Len(s) = l /\ \A x \in 1 .. l : s[x] = J[x]
      BY <1>2, <1>8, <2>0
    <2>2. Scans(s, d)
      BY <1>4, <2>0 DEF BadLine
    <2>3. ASSUME j < d PROVE IsHex(b)
      <3>1. j + 1 \in 1 .. d /\ j + 1 \in 1 .. l
        BY <1>8, <2>3
      <3> QED BY <1>11, <2>1, <2>2, <3>1, Zenon DEF Scans
    <2>4. ASSUME ~(j < d), j < l PROVE b = "SP"
      <3>1. j + 1 \in d + 1 .. Len(s) /\ j + 1 \in 1 .. l
        BY <1>8, <2>1, <2>4
      <3> QED BY <1>11, <2>1, <2>2, <3>1, Zenon DEF Scans
    <2> QED BY <2>3, <2>4
  <1>13. IsHex(b) => b # "SP" /\ b # "CR"
    BY NotHex
  <1>14. /\ j = l => Refused(b, l, d) \/ (b = "CR" /\ l + 1 < Len(J) /\ J[l + 2] # "LF")
    BY <1>4, <1>11 DEF BadLine
  <1>15. Kept /\ out \in Seq(Bytes)
    BY DEF RelayInv, Kept
  <1>16. /\ Holds(Sought(input), 0, out)' /\ text' \in [Texts -> Seq(Bytes)] /\ out' \in Seq(Bytes)
         /\ current_chunksize_length \in Nat /\ num_chunk_size_spaces \in Nat /\ chunksize \in Nat
    BY <1>0, <1>15 DEF Kept, IInv, TypeInv
  <1>17. Message.enc = "CHUNKED"
    BY DEF InBadLine
  <1>18. Offset + process_position = P + j /\ Len(out) = Q
    BY <1>1, <1>5 DEF At
  <1>19. Offset + (process_position + 1) = P + (j + 1)
    BY <1>1, <1>2, <1>8, <1>18
  (* a digit *)
  <1>20. CASE /\ IsHex(b) /\ num_chunk_size_spaces = 0 /\ current_chunksize_length < CHUNK_SIZE_LENGTH
              /\ current_chunksize_length' = current_chunksize_length + 1
              /\ Advance
              /\ UNCHANGED <<pc, state, num_chunk_size_spaces>>
    <2>1. j < d
      <3>1. j <= d /\ (~(j < d) /\ j < l => b = "SP") /\ b # "SP" /\ b # "CR"
        BY <1>9, <1>12, <1>13, <1>20, Zenon
      <3>2. ASSUME ~(j < d) PROVE FALSE
        <4>1. j = l /\ l = d /\ current_chunksize_length = d
          BY <1>8, <1>9, <3>1, <3>2
        <4>2. Refused(b, l, d)
          BY <1>14, <3>1, <4>1
        <4> QED BY <1>20, <4>1, <4>2 DEF Refused
      <3> QED BY <3>2
    <2>2. Kept' /\ Offset' = Offset
      <3>1. current_chunksize_length' \in Nat /\ num_chunk_size_spaces' \in Nat /\ pc' # "denied"
        BY <1>0, <1>16, <1>20
      <3> QED BY <1>0, <1>16, <3>1, KeptInChunk
    <2>3. At(P + (j + 1), Q)'
      <3>1. Pos' = Offset + (process_position + 1)
        BY <1>0, <1>20, <2>2 DEF Pos, Advance
      <3> QED BY <1>0, <1>18, <1>19, <3>1 DEF At
    <2>4. Counted(d, j + 1)'
      BY <1>5, <1>8, <1>20, <2>1, CountedDigit
    <2>5. j + 1 \in 0 .. l /\ state' = "PARSE_CHUNKSIZE"
      BY <1>0, <1>8, <1>20, <2>1
    <2>6. AtBadLine(J, P, Q)'
      <3>1. \E x \in 0 .. l : At(P + x, Q)' /\ Counted(d, x)'
        BY <2>3, <2>4, <2>5
      <3> QED BY <1>3, <1>4, <2>5, <3>1 DEF AtBadLine
    <2>7. Parsed'
      BY <1>0, <1>20 DEF Parsed
    <2> QED BY <1>0, <1>1, <1>2, <1>17, <2>2, <2>6, <2>7, BadLineStays
  (* a space *)
  <1>21. CASE /\ b = "SP" /\ num_chunk_size_spaces < MAX_SPACES
              /\ num_chunk_size_spaces' = num_chunk_size_spaces + 1
              /\ Advance
              /\ UNCHANGED <<pc, state, chunksize, current_chunksize_length>>
    <2>1. ~(j < d) /\ j < l
      <3>1. ~(j < d)
        BY <1>12, <1>13, <1>21
      <3>2. ASSUME j = l PROVE FALSE
        <4>1. Refused(b, l, d)
          BY <1>14, <1>21, <3>2
        <4>2. num_chunk_size_spaces = l - d
          BY <1>8, <1>9, <3>1, <3>2
        <4> QED BY <1>21, <4>1, <4>2 DEF Refused
      <3> QED BY <1>8, <3>1, <3>2
    <2>2. Kept' /\ Offset' = Offset
      <3>1. current_chunksize_length' \in Nat /\ num_chunk_size_spaces' \in Nat /\ pc' # "denied"
        BY <1>0, <1>16, <1>21
      <3> QED BY <1>0, <1>16, <3>1, KeptInChunk
    <2>3. At(P + (j + 1), Q)'
      <3>1. Pos' = Offset + (process_position + 1)
        BY <1>0, <1>21, <2>2 DEF Pos, Advance
      <3> QED BY <1>0, <1>18, <1>19, <3>1 DEF At
    <2>4. Counted(d, j + 1)'
      BY <1>5, <1>8, <1>21, <2>1, CountedSpace
    <2>5. j + 1 \in 0 .. l /\ state' = "PARSE_CHUNKSIZE"
      BY <1>0, <1>8, <1>21, <2>1
    <2>6. AtBadLine(J, P, Q)'
      <3>1. \E x \in 0 .. l : At(P + x, Q)' /\ Counted(d, x)'
        BY <2>3, <2>4, <2>5
      <3> QED BY <1>3, <1>4, <2>5, <3>1 DEF AtBadLine
    <2>7. Parsed'
      BY <1>0, <1>21 DEF Parsed
    <2> QED BY <1>0, <1>1, <1>2, <1>17, <2>2, <2>6, <2>7, BadLineStays
  (* the end of the line *)
  <1>22. CASE /\ b = "CR" /\ Advance /\ num_chunk_size_spaces' = 0
              /\ GoTo("PARSE_CHUNKSIZE_LF")
              /\ UNCHANGED <<chunksize, current_chunksize_length>>
    <2>1. j = l
      BY <1>8, <1>12, <1>13, <1>22
    <2>2. state' = "PARSE_CHUNKSIZE_LF" /\ pc' = "parse"
      BY <1>0, <1>22 DEF GoTo
    <2>3. Kept' /\ Offset' = Offset
      <3>1. current_chunksize_length' \in Nat /\ num_chunk_size_spaces' \in Nat /\ pc' # "denied"
        BY <1>16, <1>22, <2>2
      <3> QED BY <1>0, <1>16, <3>1, KeptInChunk
    <2>4. At(P + l + 1, Q)'
      <3>1. Pos' = Offset + (process_position + 1)
        BY <1>22, <2>2, <2>3 DEF Pos, Advance
      <3>2. P + (j + 1) = P + l + 1
        BY <1>2, <1>8, <2>1
      <3> QED BY <1>0, <1>18, <1>19, <3>1, <3>2 DEF At
    <2>5. AtBadLine(J, P, Q)'
      <3>1. J[l + 1] = "CR"
        BY <1>11, <1>22, <2>1
      <3> QED BY <1>3, <1>4, <2>2, <2>4, <3>1 DEF AtBadLine
    <2>6. Parsed'
      BY <2>2 DEF Parsed
    <2> QED BY <1>0, <1>1, <1>2, <1>17, <2>3, <2>5, <2>6, BadLineStays
  (* the fault *)
  <1>23. CASE /\ Returns("INVALID") /\ num_chunk_size_spaces' = 0
              /\ UNCHANGED <<state, chunksize, current_chunksize_length>>
    <2>1. pc' = "denied"
      <3>1. TypeInv
        BY DEF IInv
      <3> QED BY <1>23, <3>1, ReturnsWhere
    <2>2. Message.junk # <<>>
      BY <1>2, <1>8
    <2>3. current_chunksize_length' \in Nat /\ num_chunk_size_spaces' \in Nat
      BY <1>16, <1>23
    <2> QED BY <1>0, <1>1, <2>1, <2>2, <2>3, Denies
  <1> QED BY <1>10, <1>20, <1>21, <1>22, <1>23, Zenon DEF ParseChunkSize

(* parse_chunk_size(). *)
LEMMA SizeRelays ==
    ASSUME WellFramed(input), IInv, RelayInv, ParseChunkSize
    PROVE  RelayInv'
  <1>0. /\ UNCHANGED <<input, unread, raw>> /\ state = "PARSE_CHUNKSIZE" /\ pc = "parse"
        /\ UNCHANGED <<done, content_length, current_length, text, out>>
    BY DEF ParseChunkSize, Parsing, readVars, destVars
  <1>1. CASE AtEnd /\ Returns("INCOMPLETE") /\ UNCHANGED <<state, process_position, sizeVars>>
    <2>1. pc' # "denied" /\ TypeInv
      BY <1>1, ReturnsWhere DEF IInv
    <2>2. Stream' /\ Offset' = Offset
      BY <1>0, StreamSame DEF RelayInv, Kept
    <2>3. Pos' = Pos /\ state \notin ClaimedStates
      BY <1>0, <1>1, <2>2 DEF Pos, ClaimedStates
    <2>4. Parsed'
      BY <1>0, <1>1 DEF Parsed, AtEnd, IInv, TypeInv, PositionsOK
    <2> QED BY <1>0, <1>1, <2>1, <2>2, <2>3, <2>4, Waits DEF sizeVars
  <1>2. CASE ~AtEnd
    <2>1. InPiece \/ InBadLine
      BY <1>0, InChunk DEF ChunkStates
    <2> QED BY <1>2, <2>1, SizeInPiece, SizeInBadLine
  <1> QED BY <1>1, <1>2 DEF ParseChunkSize

(* The line feed behind a chunk size, which is written in its shortest form. *)
LEMMA LineFeedRelays ==
    ASSUME WellFramed(input), IInv, RelayInv, ParseChunkSizeLF
    PROVE  RelayInv'
  <1>0. /\ UNCHANGED <<input, unread, raw>> /\ state = "PARSE_CHUNKSIZE_LF" /\ pc = "parse"
        /\ UNCHANGED <<done, chunksize, current_chunksize_length, num_chunk_size_spaces,
                       content_length, current_length, out>>
    BY DEF ParseChunkSizeLF, Parsing, readVars, sizeVars, destVars
  <1>1. /\ done \in Nat /\ done < Len(input) /\ Len(input) \in Nat /\ Stream /\ Offset \in Nat
        /\ Pos = Offset + process_position /\ process_position \in Nat /\ (InPiece \/ InBadLine)
    BY <1>0, InChunk DEF ChunkStates
  <1>2. Stream' /\ Offset' = Offset /\ TypeInv
    BY <1>0, StreamSame DEF RelayInv, Kept, IInv
  <1>3. /\ text \in [Texts -> Seq(Bytes)] /\ out' \in Seq(Bytes) /\ Holds(Sought(input), 0, out)'
        /\ current_chunksize_length' \in Nat /\ num_chunk_size_spaces' \in Nat
    BY <1>0 DEF RelayInv, Kept
  <1>4. CASE AtEnd /\ Returns("INCOMPLETE") /\ UNCHANGED <<state, posVars, text>>
    <2>1. pc' # "denied"
      BY <1>2, <1>4, ReturnsWhere
    <2>2. Pos' = Pos /\ state \notin ClaimedStates
      BY <1>0, <1>2, <1>4 DEF Pos, ClaimedStates, posVars
    <2>3. Parsed'
      BY <1>0, <1>4 DEF Parsed
    <2> QED BY <1>0, <1>2, <1>4, <2>1, <2>2, <2>3, Waits
  <1>5. CASE InPiece /\ ~AtEnd
    <2>1. PICK c, ch, P, Q : Inside(c, ch, P, Q) /\ AtChunk(ch, P, Q) /\ Framing(input, ch, P, Q)
      BY <1>5, ChunkOpens, Zenon
    <2>2. PICK l, n, h : l = Len(ch.line) /\ n = Len(ch.data) /\ h = Len(HexText[n])
      OBVIOUS
    <2>3. /\ l \in Nat /\ n \in Nat /\ P \in Nat /\ Q \in Nat /\ h \in Nat /\ HexText[n] \in Seq(Bytes)
          /\ Holds(Sent(input), P + l, EndLine) /\ Holds(Sought(input), Q, HexText[n] \o EndLine)
      BY <2>1, <2>2, Zenon DEF Framing
    <2>4. chunksize = n /\ Offset + process_position = P + l + 1 /\ Len(out) = Q
      BY <1>0, <1>1, <2>1, <2>2 DEF AtChunk, At
    <2>5. NextByte = "LF"
      <3>1. NextByte = Sent(input)[P + l + 1 + 1]
        BY <1>1, <1>5, <2>4, NextSent
      <3>2. 2 \in 1 .. Len(EndLine) /\ EndLine[2] = "LF"
        BY DEF EndLine
      <3>3. Sent(input)[P + l + 2] = "LF"
        BY <2>3, <3>2 DEF Holds
      <3>4. P + l + 1 + 1 = P + l + 2
        BY <2>3
      <3> QED BY <3>1, <3>3, <3>4, Zenon
    <2>6. PICK z : z = HexText[n] \o EndLine
      OBVIOUS
    <2>7. z \in Seq(Bytes) /\ Len(z) = h + 2 /\ EndLine \in Seq(Bytes)
      <3>1. EndLine \in Seq(Bytes) /\ Len(EndLine) = 2
        BY EndLineText
      <3>2. z \in Seq(Bytes) /\ Len(z) = Len(HexText[n]) + Len(EndLine)
        BY <2>3, <2>6, <3>1, Joint, Zenon
      <3> QED BY <2>2, <3>1, <3>2, Zenon
    <2>8. /\ Advance /\ GoTo("FORWARD_CHUNKSIZE")
          /\ text' = [text EXCEPT !["chunk_size"] = HexText[chunksize] \o EndLine, !["endline"] = EndLine]
      BY <1>5, <2>5, Zenon DEF ParseChunkSizeLF, ParseChar
    <2>9. state' = "FORWARD_CHUNKSIZE" /\ pc' = "parse"
      BY <1>0, <2>8 DEF GoTo
    <2>10. text' \in [Texts -> Seq(Bytes)] /\ text'["chunk_size"] = z /\ text'["endline"] = EndLine
      <3>1. "chunk_size" \in Texts /\ "endline" \in Texts /\ "chunk_size" # "endline"
        BY DEF Texts
      <3>2. text' = [text EXCEPT !["chunk_size"] = z, !["endline"] = EndLine]
        BY <2>4, <2>6, <2>8, Zenon
      <3> HIDE DEF Texts, EndLine
      <3> QED BY <1>3, <2>7, <3>1, <3>2
    <2>11. Kept'
      BY <1>0, <1>3, <2>9, <2>10, KeptInChunk
    <2>12. At(P + l + 2, Q + h + 2 - Len(z))'
      <3>1. Pos' = Offset + (process_position + 1)
        BY <1>2, <2>8, <2>9 DEF Pos, Advance
      <3>2. Offset + (process_position + 1) = P + l + 2 /\ Q + h + 2 - (h + 2) = Q
        BY <1>1, <2>3, <2>4
      <3> QED BY <1>0, <2>4, <2>7, <3>1, <3>2 DEF At
    <2>13. Holds(Sought(input'), Len(out'), z)
      BY <1>0, <2>3, <2>4, <2>6
    <2>14. AtChunk(ch, P, Q)'
      BY <1>0, <2>2, <2>4, <2>9, <2>10, <2>12, <2>13 DEF AtChunk, Follows
    <2>15. Parsed' /\ state' \in ChunkStates /\ state' # "FORWARD_TRAILER_CRLF"
      BY <2>9 DEF Parsed, ChunkStates
    <2> QED BY <1>0, <1>1, <2>1, <2>11, <2>14, <2>15, ChunkStays
  <1>6. CASE InBadLine /\ ~AtEnd
    <2>1. PICK J, P, Q :
               /\ J = Message.junk /\ J \in Seq(Bytes) /\ Len(J) \in Nat
               /\ P = Start(input, done + 1, Len(Message.chunks) + 1)
               /\ Q = OutStart(input, done + 1, Len(Message.chunks) + 1)
               /\ P \in Nat /\ AtBadLine(J, P, Q) /\ Holds(Sent(input), P, J)
      BY <1>1, <1>6, BadLineOpens, Zenon
    <2>2. PICK l \in 0 .. Len(J) : \E d \in 0 .. l :
              BadLine(J, l, d) /\ At(P + l + 1, Q) /\ J[l + 1] = "CR"
      BY <1>0, <2>1 DEF AtBadLine
    <2>3. PICK d \in 0 .. l : BadLine(J, l, d) /\ At(P + l + 1, Q) /\ J[l + 1] = "CR"
      BY <2>2
    <2>4. l \in Nat /\ l + 1 < Len(J) /\ J[l + 2] # "LF"
      BY <2>1, <2>2, <2>3 DEF BadLine, Refused
    <2>5. NextByte = J[l + 2]
      <3>1. PICK j : j = l + 1
        OBVIOUS
      <3>2. j \in Nat /\ j < Len(J) /\ j + 1 = l + 2 /\ P + j = P + l + 1
        BY <2>1, <2>4, <3>1
      <3>3. Offset + process_position = P + j
        BY <1>1, <2>3, <3>2 DEF At
      <3>4. NextByte = J[j + 1]
        BY <1>1, <1>6, <2>1, <3>2, <3>3, JunkByte
      <3> QED BY <3>2, <3>4, Zenon
    <2>6. Returns("INVALID") /\ UNCHANGED <<state, posVars, text>>
      BY <1>6, <2>4, <2>5, Zenon DEF ParseChunkSizeLF, ParseChar
    <2>7. pc' = "denied"
      BY <1>2, <2>6, ReturnsWhere
    <2>8. Message.junk # <<>>
      BY <2>1, <2>4
    <2> QED BY <1>0, <1>1, <1>3, <2>6, <2>7, <2>8, Denies
  <1> QED BY <1>1, <1>4, <1>5, <1>6 DEF ParseChunkSizeLF, ParseChar

(* A chunk size is written. *)
LEMMA ForwardSizeRelays ==
    ASSUME WellFramed(input), IInv, RelayInv, ForwardChunkSize
    PROVE  RelayInv'
  <1>0. /\ UNCHANGED <<input, unread, raw>> /\ state = "FORWARD_CHUNKSIZE" /\ pc = "parse"
        /\ UNCHANGED <<done, process_position, chunksize, current_chunksize_length,
                       num_chunk_size_spaces, content_length, current_length>>
    BY DEF ForwardChunkSize, Parsing, readVars, sizeVars
  <1>1. /\ done \in Nat /\ done < Len(input) /\ Len(input) \in Nat /\ Stream /\ Offset \in Nat
        /\ Pos = Offset + process_position /\ process_position \in Nat /\ (InPiece \/ InBadLine)
    BY <1>0, InChunk DEF ChunkStates
  <1>2. InPiece
    BY <1>0, <1>1 DEF InBadLine, AtBadLine
  <1>3. PICK c, ch, P, Q : Inside(c, ch, P, Q) /\ AtChunk(ch, P, Q) /\ Framing(input, ch, P, Q)
    BY <1>2, ChunkOpens, Zenon
  <1>4. PICK l, n, h, z : /\ l = Len(ch.line) /\ n = Len(ch.data) /\ h = Len(HexText[n])
                          /\ z = text["chunk_size"]
    OBVIOUS
  <1>5. l \in Nat /\ n \in Nat /\ P \in Nat /\ Q \in Nat /\ h \in Nat
    BY <1>3, <1>4, Zenon DEF Framing
  <1>6. /\ chunksize = n /\ Follows(z) /\ Pos = P + l + 2 /\ Len(out) = Q + h + 2 - Len(z)
        /\ text["endline"] = EndLine
    BY <1>0, <1>3, <1>4 DEF AtChunk, At
  <1>7. PICK k \in 0 .. Len(z), r \in {"COMPLETE", "INCOMPLETE"} :
         /\ Write(z, k, r)
         /\ text' = [text EXCEPT !["chunk_size"] = SubSeq(@, k + 1, Len(@))]
         /\ \/ /\ r = "COMPLETE" /\ chunksize > 0
               /\ GoTo("PARSE_CHUNK")
            \/ /\ r = "COMPLETE" /\ chunksize = 0
               /\ GoTo("PARSE_TRAILER_CR")
            \/ /\ r = "INCOMPLETE"
               /\ Returns("WRITE_INCOMPLETE")
               /\ UNCHANGED state
    BY <1>4 DEF ForwardChunkSize
  <1>8. text \in [Texts -> Seq(Bytes)] /\ z \in Seq(Bytes) /\ Len(z) \in Nat
    <2>1. text \in [Texts -> Seq(Bytes)] /\ "chunk_size" \in Texts
      BY DEF RelayInv, Kept, Texts
    <2>2. z \in Seq(Bytes)
      BY <1>4, <2>1
    <2> QED BY <2>1, <2>2
  <1>9. PICK e : e = SubSeq(z, k + 1, Len(z))
    OBVIOUS
  <1>10. /\ out' \in Seq(Bytes) /\ Len(out') = Len(out) + k
         /\ Holds(Sought(input), 0, out)'
         /\ e \in Seq(Bytes) /\ Len(e) = Len(z) - k
         /\ Holds(Sought(input), Len(out'), e)
         /\ r = "COMPLETE" => k = Len(z)
    <2>1. out \in Seq(Bytes) /\ Holds(Sought(input), 0, out) /\ ready_to_write \in BOOLEAN
      BY DEF RelayInv, Kept, IInv, TypeInv
    <2> QED BY <1>0, <1>6, <1>7, <1>8, <1>9, <2>1, WriteFollows
  <1>11. text' \in [Texts -> Seq(Bytes)] /\ text'["chunk_size"] = e /\ text'["endline"] = EndLine
    <2>1. "chunk_size" \in Texts /\ "endline" \in Texts /\ "chunk_size" # "endline"
      BY DEF Texts
    <2>2. text' = [text EXCEPT !["chunk_size"] = e]
      BY <1>4, <1>7, <1>9
    <2> HIDE DEF Texts, EndLine
    <2> QED BY <1>6, <1>8, <1>10, <2>1, <2>2
  <1>12. /\ state' \in {"PARSE_CHUNK", "PARSE_TRAILER_CR", "FORWARD_CHUNKSIZE"}
         /\ pc' # "denied" /\ (state' = "PARSE_CHUNK" => pc' = "parse")
    <2>1. TypeInv
      BY DEF IInv
    <2> QED BY <1>0, <1>7, <2>1, ReturnsWhere DEF GoTo
  <1>13. current_chunksize_length' \in Nat /\ num_chunk_size_spaces' \in Nat
    BY <1>0 DEF RelayInv, Kept
  <1>14. Kept' /\ Offset' = Offset
    BY <1>0, <1>10, <1>11, <1>12, <1>13, KeptInChunk
  <1>15. Pos' = P + l + 2
    BY <1>0, <1>1, <1>6, <1>12, <1>14 DEF Pos
  <1>16. Len(out') = Q + h + 2 - Len(e) /\ (r = "COMPLETE" => Len(out') = Q + h + 2)
    <2>1. k \in Nat /\ k <= Len(z)
      BY <1>7, <1>8
    <2>2. Q + h + 2 - Len(z) + k = Q + h + 2 - (Len(z) - k)
      BY <1>5, <1>8, <2>1
    <2>3. Len(out') = Q + h + 2 - Len(e)
      BY <1>6, <1>10, <2>2, Zenon
    <2>4. r = "COMPLETE" => Len(e) = 0
      BY <1>8, <1>10
    <2> QED BY <1>5, <2>3, <2>4
  <1>17. current_length' = 0
    BY <1>0 DEF IInv, LengthKept
  <1>18. AtChunk(ch, P, Q)'
    <2>1. CASE r = "COMPLETE" /\ chunksize > 0
      <3>1. state' = "PARSE_CHUNK"
        BY <1>7, <2>1 DEF GoTo
      <3>2. At(P + l + 2 + current_length, Q + h + 2 + current_length)'
        BY <1>5, <1>15, <1>16, <1>17, <2>1 DEF At
      <3>3. chunksize' = n /\ n > 0
        BY <1>0, <1>6, <2>1
      <3> QED BY <1>4, <1>11, <3>1, <3>2, <3>3 DEF AtChunk
    <2>2. CASE r = "COMPLETE" /\ chunksize = 0
      <3>1. state' = "PARSE_TRAILER_CR" /\ n = 0 /\ chunksize' = n
        BY <1>0, <1>5, <1>6, <1>7, <2>2 DEF GoTo
      <3>2. At(P + l + 2 + n, Q + h + 2 + n)'
        BY <1>5, <1>15, <1>16, <2>2, <3>1 DEF At
      <3> QED BY <1>4, <1>11, <3>1, <3>2 DEF AtChunk
    <2>3. CASE r = "INCOMPLETE"
      <3>1. state' = "FORWARD_CHUNKSIZE" /\ chunksize' = n
        BY <1>0, <1>6, <1>7, <2>3
      <3>2. At(P + l + 2, Q + h + 2 - Len(text["chunk_size"]))'
        BY <1>11, <1>15, <1>16 DEF At
      <3>3. Follows(text["chunk_size"])'
        BY <1>0, <1>10, <1>11 DEF Follows
      <3> QED BY <1>4, <1>11, <3>1, <3>2, <3>3 DEF AtChunk
    <2> QED BY <1>5, <1>6, <1>7, <2>1, <2>2, <2>3
  <1>19. Parsed' /\ state' \in ChunkStates /\ state' # "FORWARD_TRAILER_CRLF"
    BY <1>12 DEF Parsed, ChunkStates
  <1> QED BY <1>0, <1>1, <1>3, <1>14, <1>18, <1>19, ChunkStays

(* chunked_body_parser claims what is there of the chunk. *)
LEMMA ChunkRelays ==
    ASSUME WellFramed(input), IInv, RelayInv, ParseChunk
    PROVE  RelayInv'
  <1>0. /\ UNCHANGED <<input, unread, raw>> /\ state = "PARSE_CHUNK" /\ pc = "parse" /\ pc' = "parse"
        /\ UNCHANGED <<done, chunksize, current_chunksize_length, num_chunk_size_spaces, text, out>>
        /\ Claim(chunksize)
        /\ state' = IF current_length' < chunksize THEN "FORWARD_INCOMPLETE_CHUNK"
                                                   ELSE "FORWARD_COMPLETE_CHUNK"
    BY DEF ParseChunk, Parsing, GoTo, readVars, sizeVars, destVars
  <1>1. /\ done \in Nat /\ done < Len(input) /\ Len(input) \in Nat /\ Stream /\ (InPiece \/ InBadLine)
    BY <1>0, InChunk DEF ChunkStates
  <1>2. InPiece
    BY <1>0, <1>1 DEF InBadLine, AtBadLine
  <1>3. PICK c, ch, P, Q : Inside(c, ch, P, Q) /\ AtChunk(ch, P, Q) /\ Framing(input, ch, P, Q)
    BY <1>2, ChunkOpens, Zenon
  <1>4. PICK l, n, h : l = Len(ch.line) /\ n = Len(ch.data) /\ h = Len(HexText[n])
    OBVIOUS
  <1>5. l \in Nat /\ n \in Nat /\ P \in Nat /\ Q \in Nat /\ h \in Nat
    BY <1>3, <1>4, Zenon DEF Framing
  <1>6. PICK p, q : p = P + l + 2 /\ q = Q + h + 2
    OBVIOUS
  <1>7. /\ chunksize = n /\ n > 0 /\ Pos = p + current_length /\ Len(out) = q + current_length
        /\ text["endline"] = EndLine
    BY <1>0, <1>3, <1>4, <1>6 DEF AtChunk, At
  <1>8. current_length \in Nat /\ current_length <= chunksize /\ chunksize \in Nat /\ p \in Nat /\ q \in Nat
    BY <1>0, <1>5, <1>6 DEF IInv, TypeInv, LengthKept
  <1>9. /\ Unwritten' \in 0 .. current_length'
        /\ current_length' \in 0 .. chunksize
        /\ current_length' = current_length + Unwritten'
        /\ Pos' = Pos + Unwritten'
    <2>1. state' # "END_CONNECTION" /\ state # "END_CONNECTION"
      BY <1>0
    <2> QED BY <1>0, <1>1, <1>8, <2>1, ClaimMoves
  <1>10. /\ Unwritten' <= current_length' /\ current_length' <= n
         /\ Pos' = p + current_length' /\ Len(out) = q + current_length' - Unwritten'
         /\ ~(current_length' < chunksize) => current_length' = n
    <2>1. PICK u, y : u = Unwritten' /\ y = current_length'
      OBVIOUS
    <2>2. u \in 0 .. y /\ y \in 0 .. n /\ y = current_length + u
      BY <1>7, <1>9, <2>1, Zenon
    <2>3. /\ u <= y /\ y <= n /\ (~(y < n) => y = n)
          /\ p + current_length + u = p + y /\ q + current_length = q + y - u
      BY <1>5, <1>8, <2>2
    <2> QED BY <1>7, <1>9, <2>1, <2>3, Zenon
  <1>11. /\ state' \in {"FORWARD_INCOMPLETE_CHUNK", "FORWARD_COMPLETE_CHUNK"}
         /\ (state' = "FORWARD_COMPLETE_CHUNK" => current_length' = n)
    BY <1>0, <1>10
  <1>12. At(P + l + 2 + current_length, Q + h + 2 + current_length - Unwritten)'
    BY <1>0, <1>6, <1>10, Zenon DEF At
  <1>13. AtChunk(ch, P, Q)'
    <2>1. /\ chunksize' = n /\ n > 0 /\ text'["endline"] = EndLine
          /\ Unwritten' <= current_length' /\ current_length' <= n
      BY <1>0, <1>7, <1>10, Zenon
    <2> HIDE DEF At, Unwritten, EndLine
    <2> QED BY <1>4, <1>11, <1>12, <2>1 DEF AtChunk
  <1>14. Kept'
    BY <1>0, KeptInChunk DEF RelayInv, Kept
  <1>15. Parsed' /\ state' \in ChunkStates /\ state' # "FORWARD_TRAILER_CRLF"
    BY <1>0, <1>11 DEF Parsed, ChunkStates
  <1> QED BY <1>0, <1>1, <1>3, <1>13, <1>14, <1>15, ChunkStays

(* ... and forwards it. *)
LEMMA ForwardChunkRelays ==
    ASSUME WellFramed(input), IInv, RelayInv, ForwardChunk
    PROVE  RelayInv'
  <1>0. /\ UNCHANGED <<input, unread, raw>> /\ pc = "parse"
        /\ state \in {"FORWARD_INCOMPLETE_CHUNK", "FORWARD_COMPLETE_CHUNK"}
        /\ UNCHANGED <<done, process_position, chunksize, current_chunksize_length,
                       num_chunk_size_spaces, current_length, text>>
    BY DEF ForwardChunk, readVars, sizeVars
  <1>1. /\ done \in Nat /\ done < Len(input) /\ Len(input) \in Nat /\ Stream /\ (InPiece \/ InBadLine)
    BY <1>0, InChunk DEF ChunkStates
  <1>2. InPiece
    BY <1>0, <1>1 DEF InBadLine, AtBadLine
  <1>3. PICK c, ch, P, Q : Inside(c, ch, P, Q) /\ AtChunk(ch, P, Q) /\ Framing(input, ch, P, Q)
    BY <1>2, ChunkOpens, Zenon
  <1>4. PICK l, n, h, d, p, q : /\ l = Len(ch.line) /\ n = Len(ch.data) /\ h = Len(HexText[n])
                                /\ d = ch.data /\ p = P + l + 2 /\ q = Q + h + 2
    OBVIOUS
  <1>5. /\ l \in Nat /\ n \in Nat /\ P \in Nat /\ Q \in Nat /\ h \in Nat /\ d \in Seq(Bytes)
        /\ Holds(Sent(input), p, d) /\ Holds(Sought(input), q, d) /\ n = Len(d)
    BY <1>3, <1>4, Zenon DEF Framing
  <1>6. /\ chunksize = n /\ n > 0 /\ At(p + current_length, q + current_length - Unwritten)
        /\ text["endline"] = EndLine /\ Unwritten <= current_length /\ current_length <= n
        /\ state = "FORWARD_COMPLETE_CHUNK" => current_length = n
    BY <1>0, <1>3, <1>4 DEF AtChunk
  <1>7. current_length \in Nat /\ p \in Nat /\ q \in Nat /\ state \in ClaimedStates
    BY <1>0, <1>4, <1>5 DEF IInv, TypeInv, ClaimedStates
  <1>8. Follows(Claimed) /\ Claimed \in Seq(Bytes) /\ Len(Claimed) = Unwritten /\ Unwritten \in Nat
    <2>1. current_length <= Len(d)
      BY <1>5, <1>6
    <2> QED BY <1>1, <1>5, <1>6, <1>7, <2>1, ClaimedFollows
  <1>9. PICK k \in 0 .. Len(Claimed), r \in {"COMPLETE", "INCOMPLETE"} :
            /\ Write(Claimed, k, r)
            /\ write_position' = write_position + k
            /\ \/ /\ r = "COMPLETE" /\ state = "FORWARD_INCOMPLETE_CHUNK"
                  /\ state' = "PARSE_CHUNK" /\ Returns("INCOMPLETE")
               \/ /\ r = "COMPLETE" /\ state = "FORWARD_COMPLETE_CHUNK"
                  /\ GoTo("PARSE_TRAILER_CR")
               \/ /\ r = "INCOMPLETE"
                  /\ Returns("WRITE_INCOMPLETE")
                  /\ UNCHANGED <<state, write_end_position>>
    BY DEF ForwardChunk
  <1>10. /\ out' \in Seq(Bytes) /\ Len(out') = Len(out) + k
         /\ Holds(Sought(input), 0, out)'
         /\ r = "COMPLETE" => k = Unwritten
    <2>1. out \in Seq(Bytes) /\ Holds(Sought(input), 0, out) /\ ready_to_write \in BOOLEAN
      BY DEF RelayInv, Kept, IInv, TypeInv
    <2> QED BY <1>0, <1>8, <1>9, <2>1, WriteFollows
  <1>11. /\ state' \in {"PARSE_CHUNK", "PARSE_TRAILER_CR", "FORWARD_INCOMPLETE_CHUNK", "FORWARD_COMPLETE_CHUNK"}
         /\ pc' # "denied" /\ k \in Nat /\ k <= Unwritten
    <2>1. TypeInv
      BY DEF IInv
    <2> QED BY <1>0, <1>8, <1>9, <2>1, ReturnsWhere DEF GoTo
  <1>12. Pos' = Pos /\ (r = "INCOMPLETE" => Unwritten' = Unwritten - k)
    <2>1. state' # "END_CONNECTION" /\ k \in Nat
      BY <1>11
    <2>2. Pos' = Pos /\ (UNCHANGED write_end_position => Unwritten' = Unwritten - k)
      BY <1>0, <1>1, <1>7, <1>9, <2>1, WriteMoves
    <2> QED BY <1>9, <2>2
  <1>13. PICK u : u = Unwritten
    OBVIOUS
  <1>14. /\ Pos' = p + current_length /\ Len(out') = q + current_length - (u - k)
         /\ u \in Nat /\ k \in Nat /\ k <= u /\ u <= current_length
         /\ (r = "INCOMPLETE" => Unwritten' = u - k) /\ (r = "COMPLETE" => k = u)
    <2>1. Pos = p + current_length /\ Len(out) = q + current_length - u
      BY <1>6, <1>13 DEF At
    <2>2. u \in Nat /\ k \in Nat /\ k <= u /\ u <= current_length
      BY <1>6, <1>8, <1>11, <1>13
    <2>3. q + current_length - u + k = q + current_length - (u - k)
      BY <1>7, <2>2
    <2> QED BY <1>10, <1>12, <1>13, <2>1, <2>2, <2>3, Zenon
  <1>15. r = "COMPLETE" => Len(out') = q + current_length
    BY <1>7, <1>14
  <1>16. Kept'
    <2>1. /\ text' \in [Texts -> Seq(Bytes)]
          /\ current_chunksize_length' \in Nat /\ num_chunk_size_spaces' \in Nat
      BY <1>0 DEF RelayInv, Kept
    <2> QED BY <1>0, <1>10, <1>11, <2>1, KeptInChunk
  <1>17. chunksize' = n /\ n > 0 /\ text'["endline"] = EndLine /\ current_length' = current_length
    BY <1>0, <1>6, Zenon
  <1>18. CASE r = "COMPLETE" /\ state = "FORWARD_INCOMPLETE_CHUNK"
    <2>1. state' = "PARSE_CHUNK"
      BY <1>9, <1>18
    <2>2. At(P + l + 2 + current_length, Q + h + 2 + current_length)'
      BY <1>4, <1>14, <1>15, <1>17, <1>18, Zenon DEF At
    <2>3. AtChunk(ch, P, Q)'
      <3> HIDE DEF At, EndLine
      <3> QED BY <1>4, <1>17, <2>1, <2>2 DEF AtChunk
    <2>4. Parsed'
      BY <1>0, <1>18, <2>1 DEF Parsed, IInv, ClaimKept, PartialStates
    <2>5. state' \in ChunkStates /\ state' # "FORWARD_TRAILER_CRLF"
      BY <2>1 DEF ChunkStates
    <2> QED BY <1>0, <1>1, <1>3, <1>16, <2>3, <2>4, <2>5, ChunkStays
  <1>19. CASE r = "COMPLETE" /\ state = "FORWARD_COMPLETE_CHUNK"
    <2>1. state' = "PARSE_TRAILER_CR" /\ current_length = n
      BY <1>6, <1>9, <1>19 DEF GoTo
    <2>2. At(P + l + 2 + n, Q + h + 2 + n)'
      BY <1>4, <1>14, <1>15, <1>19, <2>1, Zenon DEF At
    <2>3. AtChunk(ch, P, Q)'
      <3> HIDE DEF At, EndLine
      <3> QED BY <1>4, <1>17, <2>1, <2>2 DEF AtChunk
    <2>4. Parsed' /\ state' \in ChunkStates /\ state' # "FORWARD_TRAILER_CRLF"
      BY <2>1 DEF Parsed, ChunkStates
    <2> QED BY <1>0, <1>1, <1>3, <1>16, <2>3, <2>4, ChunkStays
  <1>20. CASE r = "INCOMPLETE"
    <2>1. state' = state
      BY <1>9, <1>20
    <2>2. At(P + l + 2 + current_length, Q + h + 2 + current_length - Unwritten)'
      BY <1>4, <1>14, <1>17, <1>20, Zenon DEF At
    <2>3. Unwritten' <= current_length
      BY <1>7, <1>14, <1>20
    <2>4. AtChunk(ch, P, Q)'
      <3> HIDE DEF At, EndLine, Unwritten
      <3> QED BY <1>0, <1>4, <1>6, <1>17, <2>1, <2>2, <2>3 DEF AtChunk
    <2>5. Parsed' /\ state' \in ChunkStates /\ state' # "FORWARD_TRAILER_CRLF"
      BY <1>0, <2>1 DEF Parsed, ChunkStates
    <2> QED BY <1>0, <1>1, <1>3, <1>16, <2>4, <2>5, ChunkStays
  <1> QED BY <1>0, <1>9, <1>18, <1>19, <1>20

(* The two bytes behind the data of a chunk: a line end, or none. *)
LEMMA ChunkEnd ==
    ASSUME WellFramed(input), NEW c, NEW ch, NEW P, NEW Q, Inside(c, ch, P, Q),
           Framing(input, ch, P, Q), NEW x, x = P + Len(ch.line) + 2 + Len(ch.data)
    PROVE  /\ x \in Nat /\ Len(Message.chunks) \in Nat /\ c \in 1 .. Len(Message.chunks) + 1
           /\ c <= Len(Message.chunks) => Sent(input)[x + 1] = "CR" /\ Sent(input)[x + 2] = "LF"
           /\ ~(c <= Len(Message.chunks)) =>
                /\ Sent(input)[x + 1] = "CR" => Sent(input)[x + 2] # "LF"
                /\ Message.junk # <<>>
  <1>0. PICK i : i = done + 1
    OBVIOUS
  <1>1. Piece(input, i, c, ch) /\ P = Start(input, i, c) /\ Q = OutStart(input, i, c) /\ input[i] = Message
    BY <1>0, Zenon DEF Inside, Message
  <1>2. x \in Nat
    <2>1. P \in Nat /\ Len(ch.line) \in Nat /\ Len(ch.data) \in Nat
      BY Zenon DEF Framing
    <2>2. \A a, b, d \in Nat : a + b + 2 + d \in Nat
      OBVIOUS
    <2> QED BY <2>1, <2>2, Zenon
  <1>3. Len(Message.chunks) \in Nat /\ c \in 1 .. Len(Message.chunks) + 1
    <2>1. i \in 1 .. Len(input) /\ c \in 1 .. Len(Message.chunks) + 1
      BY <1>1, Zenon DEF Piece
    <2>2. Message \in Messages
      BY <1>1, <2>1 DEF WellFramed
    <2> QED BY <2>1, <2>2, ChunksTexts
  <1>4. ASSUME c <= Len(Message.chunks)
        PROVE  Sent(input)[x + 1] = "CR" /\ Sent(input)[x + 2] = "LF"
    <2>1. Ended(input, ch, P, Q, Start(input, i, c + 1), OutStart(input, i, c + 1))
      BY <1>1, <1>4, PieceFramed, Zenon
    <2>2. Holds(Sent(input), x, EndLine)
      BY <2>1, Zenon DEF Ended
    <2>3. 1 \in 1 .. Len(EndLine) /\ 2 \in 1 .. Len(EndLine) /\ EndLine[1] = "CR" /\ EndLine[2] = "LF"
      BY DEF EndLine
    <2> HIDE DEF EndLine
    <2> QED BY <2>2, <2>3 DEF Holds
  <1>5. ASSUME ~(c <= Len(Message.chunks))
        PROVE  (Sent(input)[x + 1] = "CR" => Sent(input)[x + 2] # "LF") /\ Message.junk # <<>>
    <2>1. Open(input, ch, P)
      BY <1>1, <1>5, PieceFramed, Zenon
    <2>2. NoEnd(Sent(input), x)
      BY <2>1, Zenon DEF Open
    <2>3. c = Len(Message.chunks) + 1
      BY <1>3, <1>5
    <2> QED BY <1>1, <2>2, <2>3, Zenon DEF NoEnd, Piece
  <1> QED BY <1>2, <1>3, <1>4, <1>5

(* The carriage return behind a chunk. *)
LEMMA TrailerCRRelays ==
    ASSUME WellFramed(input), IInv, RelayInv, ParseTrailerCR
    PROVE  RelayInv'
  <1>0. /\ UNCHANGED <<input, unread, raw>> /\ state = "PARSE_TRAILER_CR" /\ pc = "parse"
        /\ UNCHANGED <<done, chunksize, current_chunksize_length, num_chunk_size_spaces,
                       content_length, current_length, text, out>>
    BY DEF ParseTrailerCR, ParseChar, Parsing, readVars, sizeVars, destVars
  <1>1. /\ done \in Nat /\ done < Len(input) /\ Len(input) \in Nat /\ Stream /\ Offset \in Nat
        /\ Pos = Offset + process_position /\ process_position \in Nat /\ (InPiece \/ InBadLine)
    BY <1>0, InChunk DEF ChunkStates
  <1>2. Stream' /\ Offset' = Offset /\ TypeInv
    BY <1>0, StreamSame DEF RelayInv, Kept, IInv
  <1>3. InPiece
    BY <1>0, <1>1 DEF InBadLine, AtBadLine
  <1>4. PICK c, ch, P, Q : Inside(c, ch, P, Q) /\ AtChunk(ch, P, Q) /\ Framing(input, ch, P, Q)
    BY <1>3, ChunkOpens, Zenon
  <1>5a. PICK l, n, h : l = Len(ch.line) /\ n = Len(ch.data) /\ h = Len(HexText[n])
    OBVIOUS
  <1>5. PICK x, y : x = P + l + 2 + n /\ y = Q + h + 2 + n
    OBVIOUS
  <1>6. /\ x \in Nat /\ l \in Nat /\ n \in Nat /\ P \in Nat
        /\ c <= Len(Message.chunks) => Sent(input)[x + 1] = "CR"
        /\ ~(c <= Len(Message.chunks)) => Message.junk # <<>>
    <2>1. l \in Nat /\ n \in Nat /\ P \in Nat
      BY <1>4, <1>5, <1>5a, Zenon DEF Framing
    <2> QED BY <1>4, <1>5, <1>5a, <2>1, ChunkEnd, Zenon
  <1>7. chunksize = n /\ Offset + process_position = x /\ Len(out) = y /\ text["endline"] = EndLine
    BY <1>0, <1>1, <1>4, <1>5, <1>5a DEF AtChunk, At
  <1>8. CASE AtEnd /\ Returns("INCOMPLETE") /\ UNCHANGED <<state, posVars, text>>
    <2>1. pc' # "denied"
      BY <1>2, <1>8, ReturnsWhere
    <2>2. Pos' = Pos /\ state \notin ClaimedStates
      BY <1>0, <1>2, <1>8 DEF Pos, ClaimedStates, posVars
    <2>3. Parsed'
      BY <1>0, <1>8 DEF Parsed
    <2> QED BY <1>0, <1>2, <1>8, <2>1, <2>2, <2>3, Waits
  <1>9. ~AtEnd => NextByte = Sent(input)[x + 1]
    BY <1>1, <1>7, NextSent
  <1>10. CASE ~AtEnd /\ NextByte = "CR" /\ Advance /\ GoTo("PARSE_TRAILER_LF")
    <2>1. state' = "PARSE_TRAILER_LF" /\ pc' = "parse"
      BY <1>0, <1>10 DEF GoTo
    <2>2. x + 1 = P + l + 3 + n /\ Offset + (process_position + 1) = x + 1
      <3>1. Offset \in Nat /\ process_position \in Nat /\ Offset + process_position = x
        BY <1>1, <1>7
      <3>2. P \in Nat /\ l \in Nat /\ n \in Nat
        BY <1>6
      <3> QED BY <1>5, <3>1, <3>2
    <2>3. At(P + l + 3 + n, Q + h + 2 + n)'
      <3>1. Pos' = Offset + (process_position + 1)
        BY <1>2, <1>10, <2>1 DEF Pos, Advance
      <3> QED BY <1>0, <1>5, <1>5a, <1>7, <2>2, <3>1, Zenon DEF At
    <2>4. Sent(input')[P + l + 3 + n] = "CR"
      BY <1>0, <1>9, <1>10, <2>2, Zenon
    <2>5. chunksize' = n /\ text'["endline"] = EndLine
      BY <1>0, <1>7, Zenon
    <2>6. AtChunk(ch, P, Q)'
      <3> HIDE DEF At, EndLine
      <3> QED BY <1>5, <1>5a, <2>1, <2>3, <2>4, <2>5 DEF AtChunk
    <2>7. Kept'
      BY <1>0, <2>1, KeptInChunk DEF RelayInv, Kept
    <2>8. Parsed' /\ state' \in ChunkStates /\ state' # "FORWARD_TRAILER_CRLF"
      BY <2>1 DEF Parsed, ChunkStates
    <2> QED BY <1>0, <1>1, <1>4, <2>6, <2>7, <2>8, ChunkStays
  <1>11. CASE ~AtEnd /\ NextByte # "CR" /\ Returns("INVALID")
    <2>1. pc' = "denied"
      BY <1>2, <1>11, ReturnsWhere
    <2>2. Message.junk # <<>>
      BY <1>6, <1>9, <1>11, Zenon
    <2>3. current_chunksize_length' \in Nat /\ num_chunk_size_spaces' \in Nat
      BY <1>0 DEF RelayInv, Kept
    <2> QED BY <1>0, <1>1, <2>1, <2>2, <2>3, Denies
  <1> QED BY <1>8, <1>10, <1>11 DEF ParseTrailerCR, ParseChar

(* The line feed behind it. *)
LEMMA TrailerLFRelays ==
    ASSUME WellFramed(input), IInv, RelayInv, ParseTrailerLF
    PROVE  RelayInv'
  <1>0. /\ UNCHANGED <<input, unread, raw>> /\ state = "PARSE_TRAILER_LF" /\ pc = "parse"
        /\ UNCHANGED <<done, chunksize, current_chunksize_length, num_chunk_size_spaces,
                       content_length, current_length, text, out>>
    BY DEF ParseTrailerLF, ParseChar, Parsing, readVars, sizeVars, destVars
  <1>1. /\ done \in Nat /\ done < Len(input) /\ Len(input) \in Nat /\ Stream /\ Offset \in Nat
        /\ Pos = Offset + process_position /\ process_position \in Nat /\ (InPiece \/ InBadLine)
    BY <1>0, InChunk DEF ChunkStates
  <1>2. Stream' /\ Offset' = Offset /\ TypeInv
    BY <1>0, StreamSame DEF RelayInv, Kept, IInv
  <1>3. InPiece
    BY <1>0, <1>1 DEF InBadLine, AtBadLine
  <1>4. PICK c, ch, P, Q : Inside(c, ch, P, Q) /\ AtChunk(ch, P, Q) /\ Framing(input, ch, P, Q)
    BY <1>3, ChunkOpens, Zenon
  <1>5a. PICK l, n, h : l = Len(ch.line) /\ n = Len(ch.data) /\ h = Len(HexText[n])
    OBVIOUS
  <1>5. PICK x, y : x = P + l + 2 + n /\ y = Q + h + 2 + n
    OBVIOUS
  <1>6. /\ x \in Nat
        /\ c <= Len(Message.chunks) => Sent(input)[x + 2] = "LF"
        /\ ~(c <= Len(Message.chunks)) =>
             (Sent(input)[x + 1] = "CR" => Sent(input)[x + 2] # "LF") /\ Message.junk # <<>>
    BY <1>4, <1>5, <1>5a, ChunkEnd, Zenon
  <1>7. l \in Nat /\ n \in Nat /\ P \in Nat /\ Q \in Nat /\ h \in Nat
    BY <1>4, <1>5, <1>5a, Zenon DEF Framing
  <1>8. /\ chunksize = n /\ Offset + process_position = P + l + 3 + n /\ Len(out) = y
        /\ Sent(input)[P + l + 3 + n] = "CR" /\ text["endline"] = EndLine
    BY <1>0, <1>1, <1>4, <1>5, <1>5a DEF AtChunk, At
  <1>9. P + l + 3 + n = x + 1 /\ x + 1 + 1 = x + 2 /\ x + 2 = P + l + 4 + n
    BY <1>5, <1>7
  <1>10. CASE AtEnd /\ Returns("INCOMPLETE") /\ UNCHANGED <<state, posVars, text>>
    <2>1. pc' # "denied"
      BY <1>2, <1>10, ReturnsWhere
    <2>2. Pos' = Pos /\ state \notin ClaimedStates
      BY <1>0, <1>2, <1>10 DEF Pos, ClaimedStates, posVars
    <2>3. Parsed'
      BY <1>0, <1>10 DEF Parsed
    <2> QED BY <1>0, <1>2, <1>10, <2>1, <2>2, <2>3, Waits
  <1>11. ~AtEnd => NextByte = Sent(input)[x + 2]
    <2>1. Offset + process_position = x + 1
      BY <1>8, <1>9, Zenon
    <2>2. ~AtEnd => NextByte = Sent(input)[x + 1 + 1]
      BY <1>1, <2>1, NextSent
    <2> QED BY <1>9, <2>2, Zenon
  <1>12. CASE ~AtEnd /\ NextByte = "LF" /\ Advance /\ GoTo("FORWARD_TRAILER_CRLF")
    <2>1. state' = "FORWARD_TRAILER_CRLF" /\ pc' = "parse"
      BY <1>0, <1>12 DEF GoTo
    <2>2. c <= Len(Message.chunks)
      BY <1>6, <1>8, <1>9, <1>11, <1>12, Zenon
    <2>3. Holds(Sought(input), y, EndLine) /\ Len(EndLine) = 2
      <3>1. Ended(input, ch, P, Q, Start(input, done + 1, c + 1), OutStart(input, done + 1, c + 1))
        BY <1>4, <2>2, PieceFramed, Zenon DEF Inside, Message
      <3> QED BY <1>5, <1>5a, <3>1, EndLineText, Zenon DEF Ended
    <2>4. At(P + l + 4 + n, Q + h + 4 + n - 2)'
      <3>1. Pos' = Offset + (process_position + 1)
        BY <1>2, <1>12, <2>1 DEF Pos, Advance
      <3>2. Offset + (process_position + 1) = P + l + 4 + n
        BY <1>1, <1>6, <1>8, <1>9
      <3>3. y = Q + h + 4 + n - 2
        BY <1>5, <1>7
      <3> QED BY <1>0, <1>8, <3>1, <3>2, <3>3, Zenon DEF At
    <2>5. chunksize' = n /\ text'["endline"] = EndLine
      BY <1>0, <1>8, Zenon
    <2>6. Follows(text["endline"])'
      BY <1>0, <1>8, <2>3, <2>5, Zenon DEF Follows
    <2>7. At(P + l + 4 + n, Q + h + 4 + n - Len(text["endline"]))'
      BY <2>3, <2>4, <2>5, Zenon DEF At
    <2>8. AtChunk(ch, P, Q)'
      <3> HIDE DEF At, EndLine, Follows
      <3> QED BY <1>5, <1>5a, <2>1, <2>5, <2>6, <2>7 DEF AtChunk
    <2>9. Kept'
      BY <1>0, <2>1, KeptInChunk DEF RelayInv, Kept
    <2>10. Parsed' /\ state' \in ChunkStates
      BY <2>1 DEF Parsed, ChunkStates
    <2> QED BY <1>0, <1>1, <1>4, <2>2, <2>8, <2>9, <2>10, ChunkStays
  <1>13. CASE ~AtEnd /\ NextByte # "LF" /\ Returns("INVALID")
    <2>1. pc' = "denied"
      BY <1>2, <1>13, ReturnsWhere
    <2>2. Message.junk # <<>>
      BY <1>6, <1>11, <1>13, Zenon
    <2>3. current_chunksize_length' \in Nat /\ num_chunk_size_spaces' \in Nat
      BY <1>0 DEF RelayInv, Kept
    <2> QED BY <1>0, <1>1, <2>1, <2>2, <2>3, Denies
  <1> QED BY <1>10, <1>12, <1>13 DEF ParseTrailerLF, ParseChar

(* The line end behind a chunk is written: there is another one, or the message is complete. *)
LEMMA ForwardTrailerRelays ==
    ASSUME WellFramed(input), IInv, RelayInv, ForwardTrailer
    PROVE  RelayInv'
  <1>0. /\ UNCHANGED <<input, unread, raw>> /\ state = "FORWARD_TRAILER_CRLF" /\ pc = "parse"
        /\ UNCHANGED <<process_position, write_position, write_end_position, content_length>>
    BY DEF ForwardTrailer, Parsing, readVars, posVars
  <1>1. /\ done \in Nat /\ done < Len(input) /\ Len(input) \in Nat /\ Stream /\ Offset \in Nat
        /\ Pos = Offset + process_position /\ process_position \in Nat /\ (InPiece \/ InBadLine)
    BY <1>0, InChunk DEF ChunkStates
  <1>2. InPiece
    BY <1>0, <1>1 DEF InBadLine, AtBadLine
  <1>3. PICK c, ch, P, Q : /\ Inside(c, ch, P, Q) /\ AtChunk(ch, P, Q) /\ Framing(input, ch, P, Q)
                           /\ c <= Len(Message.chunks)
    BY <1>0, <1>2, ChunkOpens, Zenon
  <1>4. PICK l, n, h, z : /\ l = Len(ch.line) /\ n = Len(ch.data) /\ h = Len(HexText[n])
                          /\ z = text["endline"]
    OBVIOUS
  <1>4a. text \in [Texts -> Seq(Bytes)] /\ z \in Seq(Bytes) /\ Len(z) \in Nat
    <2>1. text \in [Texts -> Seq(Bytes)] /\ "endline" \in Texts
      BY DEF RelayInv, Kept, Texts
    <2>2. z \in Seq(Bytes)
      BY <1>4, <2>1
    <2> QED BY <2>1, <2>2
  <1>5. l \in Nat /\ n \in Nat /\ P \in Nat /\ Q \in Nat /\ h \in Nat
    BY <1>3, <1>4, Zenon DEF Framing
  <1>6. PICK p, q : p = P + l + 4 + n /\ q = Q + h + 4 + n
    OBVIOUS
  <1>7. chunksize = n /\ Follows(z) /\ Pos = p /\ Len(out) = q - Len(z)
    <2>1. chunksize = n /\ Follows(z) /\ Pos = P + l + 4 + n /\ Len(out) = Q + h + 4 + n - Len(z)
      BY <1>0, <1>3, <1>4 DEF AtChunk, At
    <2>2. Len(z) \in Nat
      BY <1>4a
    <2>3. Q + h + 4 + n - Len(z) = q - Len(z)
      BY <1>5, <1>6, <2>2
    <2> QED BY <1>6, <2>1, <2>3, Zenon
  <1>8. /\ Piece(input, done + 1, c, ch) /\ p = Start(input, done + 1, c + 1)
        /\ q = OutStart(input, done + 1, c + 1)
        /\ n = 0 <=> c = Len(Message.chunks) /\ Message.junk = <<>>
    <2>1. Piece(input, done + 1, c, ch) /\ P = Start(input, done + 1, c) /\ Q = OutStart(input, done + 1, c)
      BY <1>3, Zenon DEF Inside
    <2>2. /\ Ended(input, ch, P, Q, Start(input, done + 1, c + 1), OutStart(input, done + 1, c + 1))
          /\ n = 0 <=> c = Len(Message.chunks) /\ Message.junk = <<>>
      BY <1>3, <1>4, <2>1, PieceFramed, Zenon DEF Message
    <2>3. p = Start(input, done + 1, c + 1) /\ q = OutStart(input, done + 1, c + 1)
      BY <1>4, <1>6, <2>2, Zenon DEF Ended
    <2> QED BY <2>1, <2>2, <2>3
  <1>9. PICK k \in 0 .. Len(z), r \in {"COMPLETE", "INCOMPLETE"} :
         /\ Write(z, k, r)
         /\ text' = [text EXCEPT !["endline"] = SubSeq(@, k + 1, Len(@))]
         /\ \/ /\ r = "COMPLETE" /\ chunksize = 0
               /\ CompleteMessage
               /\ UNCHANGED <<sizeVars, current_length>>
            \/ /\ r = "COMPLETE" /\ chunksize > 0
               /\ ResetChunk
               /\ GoTo("PARSE_CHUNKSIZE")
               /\ UNCHANGED done
            \/ /\ r = "INCOMPLETE"
               /\ Returns("WRITE_INCOMPLETE")
               /\ UNCHANGED <<done, state, sizeVars, current_length>>
    BY <1>4 DEF ForwardTrailer
  <1>11. PICK e : e = SubSeq(z, k + 1, Len(z))
    OBVIOUS
  <1>12. /\ out' \in Seq(Bytes) /\ Len(out') = Len(out) + k
         /\ Holds(Sought(input), 0, out)'
         /\ e \in Seq(Bytes) /\ Len(e) = Len(z) - k
         /\ Holds(Sought(input), Len(out'), e)
         /\ r = "COMPLETE" => k = Len(z)
    <2>1. out \in Seq(Bytes) /\ Holds(Sought(input), 0, out) /\ ready_to_write \in BOOLEAN
      BY DEF RelayInv, Kept, IInv, TypeInv
    <2> QED BY <1>0, <1>7, <1>9, <1>4a, <1>11, <2>1, WriteFollows
  <1>13. text' \in [Texts -> Seq(Bytes)] /\ text'["endline"] = e
    <2>1. "endline" \in Texts
      BY DEF Texts
    <2>2. text' = [text EXCEPT !["endline"] = e]
      BY <1>4, <1>9, <1>11
    <2> HIDE DEF Texts
    <2> QED BY <1>4a, <1>12, <2>1, <2>2
  <1>14. Stream' /\ Offset' = Offset /\ TypeInv
    BY <1>0, StreamSame DEF RelayInv, Kept, IInv
  <1>15. state' # "END_CONNECTION"
    BY <1>0, <1>9 DEF CompleteMessage, GoTo
  <1>16. Pos' = p
    BY <1>0, <1>1, <1>7, <1>14, <1>15 DEF Pos
  <1>17. Len(out') = q - Len(e) /\ (r = "COMPLETE" => Len(out') = q)
    <2>1. k \in Nat /\ k <= Len(z) /\ q \in Nat
      BY <1>5, <1>6, <1>9, <1>4a
    <2>2. q - Len(z) + k = q - (Len(z) - k)
      BY <1>4a, <2>1
    <2>3. Len(out') = q - Len(e)
      BY <1>7, <1>12, <2>2, Zenon
    <2>4. r = "COMPLETE" => Len(e) = 0
      BY <1>4a, <1>12
    <2> QED BY <2>1, <2>3, <2>4
  <1>18. current_chunksize_length \in Nat /\ num_chunk_size_spaces \in Nat
    BY DEF RelayInv, Kept
  <1>19. CASE r = "COMPLETE" /\ chunksize = 0
    <2>1. CompleteMessage /\ UNCHANGED sizeVars
      BY <1>9, <1>19
    <2>2. c = Len(Message.chunks) /\ Message.junk = <<>>
      BY <1>7, <1>8, <1>19
    <2>3. Message.enc = "CHUNKED"
      BY <1>8 DEF Piece, Message
    <2>4. p = From(input, done + 1) /\ q = To(input, done + 1)
      <3>1. /\ Start(input, done + 1, Len(input[done + 1].chunks) + 1) = From(input, done + 1)
            /\ OutStart(input, done + 1, Len(input[done + 1].chunks) + 1) = To(input, done + 1)
        BY <1>1, <2>2, <2>3, ChunkedPlace, Zenon DEF Message
      <3> QED BY <1>8, <2>2, <3>1, Zenon DEF Message
    <2>5. current_chunksize_length' \in Nat /\ num_chunk_size_spaces' \in Nat
      BY <1>18, <2>1 DEF sizeVars
    <2>6. Pos' = From(input, done + 1) /\ Len(out') = To(input, done + 1)
      BY <1>16, <1>17, <1>19, <2>4, Zenon
    <2> QED BY <1>0, <1>1, <1>12, <1>13, <2>1, <2>2, <2>5, <2>6, Completes
  <1>20. CASE r = "COMPLETE" /\ chunksize > 0
    <2>1. /\ ResetChunk /\ state' = "PARSE_CHUNKSIZE" /\ pc' = "parse" /\ UNCHANGED done
      BY <1>0, <1>9, <1>20 DEF GoTo
    <2>2. chunksize' = 0 /\ current_chunksize_length' = 0 /\ num_chunk_size_spaces' = 0
      BY <2>1 DEF ResetChunk
    <2>3. Kept'
      <3>1. current_chunksize_length' \in Nat /\ num_chunk_size_spaces' \in Nat
        BY <2>2
      <3> QED BY <1>0, <1>12, <1>13, <2>1, <3>1, KeptInChunk
    <2>4. /\ Message.enc = "CHUNKED" /\ c \in 1 .. Len(Message.chunks) + 1 /\ Len(Message.chunks) \in Nat
      <3>1. Message.enc = "CHUNKED" /\ c \in 1 .. Len(Message.chunks) + 1
        BY <1>8 DEF Piece, Message
      <3>2. Len(input[done + 1].chunks) \in Nat
        BY <1>1, <3>1, ChunkedPlace, Zenon DEF Message
      <3> QED BY <3>1, <3>2 DEF Message
    <2>5. PICK d : d = c + 1
      OBVIOUS
    <2>6. d \in 1 .. Len(Message.chunks) + 1 /\ (d = Len(Message.chunks) + 1 => c = Len(Message.chunks))
      BY <1>3, <2>4, <2>5
    <2>7. d = Len(Message.chunks) + 1 => Message.junk # <<>>
      BY <1>5, <1>7, <1>8, <1>20, <2>6
    <2>8. At(Start(input, done + 1, d), OutStart(input, done + 1, d))'
      BY <1>0, <1>8, <1>16, <1>17, <1>20, <2>1, <2>5, Zenon DEF At
    <2>9. ChunkPlace'
      BY <1>0, <1>1, <2>1, <2>2, <2>4, <2>6, <2>7, <2>8, EntersChunk
    <2>10. PlainPlace'
      BY <1>0, <1>1, <2>1 DEF PlainPlace
    <2>11. Parsed'
      BY <2>1 DEF Parsed
    <2> QED BY <2>3, <2>9, <2>10, <2>11 DEF RelayInv, Placed
  <1>21. CASE r = "INCOMPLETE"
    <2>1. /\ state' = "FORWARD_TRAILER_CRLF" /\ pc' # "denied" /\ UNCHANGED <<done, sizeVars>>
      BY <1>0, <1>9, <1>14, <1>21, ReturnsWhere
    <2>2. /\ chunksize' = n /\ current_chunksize_length' \in Nat /\ num_chunk_size_spaces' \in Nat
      BY <1>7, <1>18, <2>1 DEF sizeVars
    <2>3. Kept'
      BY <1>0, <1>12, <1>13, <2>1, <2>2, KeptInChunk
    <2>4. Follows(text["endline"])'
      BY <1>0, <1>12, <1>13, Zenon DEF Follows
    <2>5. At(P + l + 4 + n, Q + h + 4 + n - Len(text["endline"]))'
      <3>1. Len(e) \in Nat
        BY <1>12
      <3>2. Q + h + 4 + n - Len(e) = q - Len(e)
        BY <1>5, <1>6, <3>1
      <3> QED BY <1>6, <1>13, <1>16, <1>17, <3>2, Zenon DEF At
    <2>6. AtChunk(ch, P, Q)'
      <3> HIDE DEF At, Follows
      <3> QED BY <1>4, <2>1, <2>2, <2>4, <2>5 DEF AtChunk
    <2>7. Parsed' /\ state' \in ChunkStates
      BY <2>1 DEF Parsed, ChunkStates
    <2> QED BY <1>0, <1>1, <1>3, <2>1, <2>3, <2>6, <2>7, ChunkStays
  <1> QED BY <1>9, <1>19, <1>20, <1>21

-----------------------------------------------------------------------------
(* At the start nothing is read or written. *)
LEMMA InitRelays ==
    ASSUME WellFramed(input), Init
    PROVE  RelayInv
  <1>1. /\ input \in Inputs /\ done = 0 /\ unread = Sent(input) /\ raw = <<>> /\ out = <<>>
        /\ process_position = 0 /\ state = "PARSE_HEADER" /\ pc = "read"
        /\ text = [t \in Texts |-> <<>>]
        /\ current_chunksize_length = 0 /\ num_chunk_size_spaces = 0
    BY DEF Init
  <1>2. PICK w, u : w = Sent(input) /\ u = Sought(input)
    OBVIOUS
  <1>3. /\ w \in Seq(Bytes) /\ u \in Seq(Bytes) /\ Len(input) \in Nat /\ Len(w) \in Nat /\ Len(u) \in Nat
        /\ From(input, 0) = 0 /\ To(input, 0) = 0
    BY <1>2, Whole, Zenon
  <1>4. Len(raw) = 0 /\ Len(out) = 0 /\ raw \in Seq(Bytes) /\ out \in Seq(Bytes)
    BY <1>1
  <1>5. Offset = 0
    <2>1. Offset = Len(w) - Len(w) - 0
      BY <1>1, <1>2, <1>4, Zenon DEF Offset
    <2> QED BY <1>3, <2>1
  <1>6. Holds(w, 0, w) /\ Holds(w, 0, raw) /\ Holds(u, 0, out)
    <2>1. Holds(w, 0, w)
      BY <1>3, HoldsSelf, Zenon
    <2>2. 0 + 0 <= Len(w) /\ 0 + 0 <= Len(u) /\ \A j \in 1 .. 0 : FALSE
      BY <1>3
    <2> QED BY <1>4, <2>1, <2>2, Zenon DEF Holds
  <1>7. Stream
    <2>1. 0 + 0 = 0 /\ 0 \in Nat
      OBVIOUS
    <2> QED BY <1>1, <1>2, <1>4, <1>5, <1>6, <2>1, Zenon DEF Stream
  <1>8. InStep
    BY <1>1 DEF InStep
  <1>9. text \in [Texts -> Seq(Bytes)]
    BY <1>1
  <1>10. Kept
    BY <1>1, <1>2, <1>4, <1>6, <1>7, <1>8, <1>9 DEF Kept
  <1>11. At(From(input, done), To(input, done))
    <2>1. Pos = 0
      BY <1>1, <1>5 DEF Pos
    <2> QED BY <1>1, <1>3, <1>4, <2>1, Zenon DEF At
  <1>12. PlainPlace
    <2> HIDE DEF At
    <2> QED BY <1>1, <1>3, <1>11 DEF PlainPlace
  <1>13. Parsed /\ ChunkPlace
    BY <1>1 DEF Parsed, ChunkPlace, ChunkStates
  <1> QED BY <1>10, <1>12, <1>13 DEF RelayInv, Placed

(* Every step of the parsers and of the loop around them keeps the place. *)
LEMMA StepRelays ==
    ASSUME WellFramed(input), IInv, RelayInv, [Next]_vars
    PROVE  RelayInv'
  <1>1. CASE Next
    BY <1>1, ReadRelays, LoopRelays, HeaderRelays, PushRelays, EndRelays, SizeRelays, LineFeedRelays,
       ForwardSizeRelays, ChunkRelays, ForwardChunkRelays, TrailerCRRelays, TrailerLFRelays,
       ForwardTrailerRelays, ContentRelays, ForwardContentRelays, ToCloseRelays, Zenon
       DEF Next, Step
  <1>2. CASE UNCHANGED vars
    <2>1. /\ UNCHANGED <<input, unread, raw>> /\ pc' = pc
          /\ UNCHANGED <<done, state, chunksize, current_chunksize_length, num_chunk_size_spaces,
                         content_length, current_length, text, out>>
          /\ UNCHANGED <<process_position, write_position, write_end_position>>
      BY <1>2 DEF vars, readVars, posVars, sizeVars, destVars
    <2>2. Stream' /\ Offset' = Offset
      BY <2>1, StreamSame DEF RelayInv, Kept
    <2>3. Pos' = Pos /\ Unwritten' = Unwritten
      BY <2>1, <2>2 DEF Pos, Unwritten
    <2>4. CASE pc # "denied"
      <3>1. Parsed'
        BY <2>1, <2>4 DEF RelayInv, Placed, Parsed
      <3> QED BY <2>1, <2>2, <2>3, <2>4, <3>1, Waits
    <2>5. CASE pc = "denied"
      BY <2>1, <2>2, <2>5 DEF RelayInv, Kept, Placed, InStep
    <2> QED BY <2>4, <2>5
  <1> QED BY <1>1, <1>2

(* What has come out is the beginning of what is expected. *)
LEMMA HoldsPrefix ==
    ASSUME NEW S, NEW s \in Seq(S), NEW t \in Seq(S), Holds(t, 0, s)
    PROVE  IsPrefix(s, t)
  <1>1. Len(s) \in Nat /\ Len(t) \in Nat /\ Len(s) <= Len(t) /\ \A j \in 1 .. Len(s) : t[j] = s[j]
    BY DEF Holds
  <1>2. PICK a, b, n : a = SubSeq(s, 1, Len(s)) /\ b = SubSeq(t, 1, Len(s)) /\ n = Len(s)
    OBVIOUS
  <1>3. a \in Seq(S) /\ b \in Seq(S) /\ Len(a) = n /\ Len(b) = n
        /\ \A j \in 1 .. n : a[j] = s[j] /\ b[j] = t[j]
    BY <1>1, <1>2
  <1>4. a = b
    BY <1>1, <1>2, <1>3, SeqEqual
  <1> QED BY <1>1, <1>2, <1>4 DEF IsPrefix

(* The invariant with what it rests on. *)
RelayIInv == IInv /\ RelayInv /\ WellFramed(input)

(* The inductive invariant holds in every reachable state. *)
LEMMA RelayInvariant ==
    ASSUME FramedInputs
    PROVE  Spec => []RelayIInv
  <1>1. Init => RelayIInv
    <2>1. ASSUME Init PROVE WellFramed(input)
      BY <2>1 DEF Init, FramedInputs
    <2> QED BY <2>1, InitHolds, InitRelays DEF RelayIInv
  <1>2. RelayIInv /\ [Next]_vars => RelayIInv'
    <2>1. SUFFICES ASSUME RelayIInv, [Next]_vars PROVE RelayIInv'
      OBVIOUS
    <2>2. IInv' /\ RelayInv'
      BY <2>1, NextKeeps, StepRelays DEF RelayIInv
    <2>3. input' \in Inputs
      BY <2>2 DEF IInv, TypeInv
    <2> QED BY <2>2, <2>3 DEF RelayIInv, FramedInputs
  <1> QED BY <1>1, <1>2, PTL DEF Spec

(***************************************************************************)
(* Whatever the sizes, wherever the reads and writes are cut, the body     *)
(* parsers forward the reference encoding of what was sent: no byte is     *)
(* lost, doubled, or taken from the framing or from another message.       *)
(***************************************************************************)
THEOREM NothingLost ==
    ASSUME FramedInputs
    PROVE  Spec => []Relayed
  <1>1. RelayIInv => Relayed
    <2>1. SUFFICES ASSUME RelayIInv PROVE Relayed
      OBVIOUS
    <2>2. Sought(input) \in Seq(Bytes) /\ out \in Seq(Bytes) /\ Holds(Sought(input), 0, out)
      BY <2>1, Whole DEF RelayIInv, RelayInv, Kept
    <2>3. Expected = Sought(input)
      BY Zenon DEF Expected, Sought, Relays
    <2> QED BY <2>2, <2>3, HoldsPrefix, Zenon DEF Relayed
  <1> QED BY <1>1, RelayInvariant, PTL

(***************************************************************************)
(* Parsing never gets out of step with the messages: only a message whose  *)
(* framing is broken is refused, and none of those is completed.           *)
(***************************************************************************)
THEOREM FramingKept ==
    ASSUME FramedInputs
    PROVE  Spec => []InStep
  <1>1. RelayIInv => InStep
    BY DEF RelayIInv, RelayInv, Kept
  <1> QED BY <1>1, RelayInvariant, PTL

===============================================================================
