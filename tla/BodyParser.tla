------------------------------ MODULE BodyParser ------------------------------
(***************************************************************************)
(* http::body_parser and its three parsers at the level of bytes: the      *)
(* positions of the read_write_buffer they share with                      *)
(* connection::non_blocking_read() and non_blocking_write(), the chunk     *)
(* framing they rewrite, and the returns on which handle_stream() decides  *)
(* whether to read again.  One direction of one connection, message after  *)
(* message.  Headers are one byte here.                                    *)
(*                                                                         *)
(* ProxyHandler has bodies as units and allows any of them to block; here  *)
(* every byte may be the last one of a read or of a write.                 *)
(***************************************************************************)
EXTENDS Naturals, Sequences, SequencesExt

CONSTANTS
    Inputs,             \* sequences of messages, one of which the source sends
    BufLength,          \* physical length of the read buffer
    CHUNK_SIZE_LENGTH,  \* 8 in the code: as many digits as 32 bits hold
    MAX_SPACES          \* 256 in the code: spaces allowed behind a chunk size

ASSUME BodyAssumption ==
    /\ BufLength \in Nat \ {0}
    /\ CHUNK_SIZE_LENGTH \in Nat
    /\ MAX_SPACES \in Nat

(***************************************************************************)
(* A message: its body encoding and its body in chunks (one for a body     *)
(* that is not chunked), each with the characters of its size line.  junk  *)
(* is what follows the last of them if the framing is broken there, and    *)
(* part how much of that is in order, and forwarded before the fault.      *)
(***************************************************************************)
HexDigits == <<"0", "1", "2", "3", "4", "5", "6", "7",
               "8", "9", "A", "B", "C", "D", "E", "F">>
LowerDigits == <<"0", "1", "2", "3", "4", "5", "6", "7",
                 "8", "9", "a", "b", "c", "d", "e", "f">>

(* Either case is read; the upper case is written. *)
IsDigit(b, v) == b = HexDigits[v + 1] \/ b = LowerDigits[v + 1]
IsHex(b) == \E v \in 0 .. 15 : IsDigit(b, v)
HexValue(b) == CHOOSE v \in 0 .. 15 : IsDigit(b, v)

HexText[n \in Nat] ==
    IF n < 16 THEN <<HexDigits[n + 1]>>
    ELSE HexText[n \div 16] \o <<HexDigits[(n % 16) + 1]>>

EndLine == <<"CR", "LF">>
Header  == <<"H">>

Data(m) == FlattenSeq([i \in DOMAIN m.chunks |-> m.chunks[i].data])

(* What the source sends for a message ... *)
Wire(m) ==
    Header \o (IF m.enc = "CHUNKED"
               THEN FlattenSeq([i \in DOMAIN m.chunks |->
                        m.chunks[i].line \o EndLine \o m.chunks[i].data \o EndLine])
               ELSE Data(m)) \o m.junk

(* ... and what is to come out: each size line in its shortest form. *)
Relay(m) ==
    Header \o (IF m.enc = "CHUNKED"
               THEN FlattenSeq([i \in DOMAIN m.chunks |->
                        HexText[Len(m.chunks[i].data)] \o EndLine \o m.chunks[i].data \o EndLine])
               ELSE Data(m)) \o m.part

(* All that the source sends. *)
Sent(messages) == FlattenSeq([i \in DOMAIN messages |-> Wire(messages[i])])

ASSUME InputsAssumption ==
    \A messages \in Inputs :
        /\ Len(messages) \in Nat
        /\ Sent(messages) \in Seq(STRING)
        /\ \A i \in 1 .. Len(messages) : Len(Data(messages[i])) \in Nat

(***************************************************************************)
(* Which inputs the theorems about forwarding are for.  A message has the  *)
(* framing it announces: a size line is digits with the value of the       *)
(* chunk's length, then spaces; the empty chunk is the last; only the last *)
(* message may end with the connection.  A chunked message may be broken:  *)
(* in a size line, or behind the data of a chunk.                          *)
(***************************************************************************)
Encodings == {"CHUNKED", "CONTENT_LENGTH", "END_CONNECTION", "NONE"}
Chunks == [line : Seq(STRING), data : Seq(STRING)]
Messages == [enc : Encodings, chunks : Seq(Chunks), junk : Seq(STRING), part : Seq(STRING)]

(* d digits and spaces, within the limits. *)
Scans(line, d) ==
    /\ d <= CHUNK_SIZE_LENGTH /\ Len(line) - d <= MAX_SPACES
    /\ \A i \in 1 .. d : IsHex(line[i])
    /\ \A i \in d + 1 .. Len(line) : line[i] = "SP"

(* The first i digits have the value v[i]. *)
Values(line, d, v) == v[0] = 0 /\ \A i \in 1 .. d : v[i] = 16 * v[i - 1] + HexValue(line[i])

(* line announces n bytes. *)
SizeLine(line, n) ==
    \E d \in 0 .. Len(line) : \E v \in [0 .. d -> 0 .. n] :
        Scans(line, d) /\ Values(line, d, v) /\ v[d] = n

(* What is refused behind l characters of a size line, d of them digits. *)
Refused(b, l, d) ==
    /\ b # "CR"
    /\ ~(b = "SP" /\ l - d < MAX_SPACES)
    /\ ~(IsHex(b) /\ l = d /\ d < CHUNK_SIZE_LENGTH)

(* A size line that is refused there, or has no line feed. *)
BadLine(junk, l, d) ==
    /\ l < Len(junk) /\ Scans(SubSeq(junk, 1, l), d)
    /\ \/ Refused(junk[l + 1], l, d)
       \/ junk[l + 1] = "CR" /\ l + 1 < Len(junk) /\ junk[l + 2] # "LF"

(* The first l of junk are a size line, and n are data. *)
JunkChunk(junk, l, n) == [line |-> SubSeq(junk, 1, l), data |-> SubSeq(junk, l + 3, l + 2 + n)]

(* No end of line behind the first p. *)
NoEnd(s, p) == p < Len(s) /\ (s[p + 1] = "CR" => p + 1 < Len(s) /\ s[p + 2] # "LF")

(* A chunk that is in order up to its end, which is missing. *)
BadTrailer(m, l, n) ==
    /\ NoEnd(m.junk, l + 2 + n)
    /\ m.junk[l + 1] = "CR" /\ m.junk[l + 2] = "LF"
    /\ SizeLine(SubSeq(m.junk, 1, l), n)
    /\ m.part = HexText[n] \o EndLine \o SubSeq(m.junk, l + 3, l + 2 + n)

(* The framing of one message ... *)
Framed(m) ==
    /\ m.enc # "CHUNKED" => m.junk = <<>> /\ m.part = <<>>
    /\ m.enc = "NONE" => m.chunks = <<>>
    /\ m.enc = "CHUNKED" =>
         /\ \A c \in 1 .. Len(m.chunks) :
              /\ SizeLine(m.chunks[c].line, Len(m.chunks[c].data))
              /\ m.chunks[c].data = <<>> <=> c = Len(m.chunks) /\ m.junk = <<>>
         /\ m.junk = <<>> => m.part = <<>> /\ m.chunks # <<>>
         /\ m.junk # <<>> =>
              \/ m.part = <<>> /\ \E l \in 0 .. Len(m.junk) : \E d \in 0 .. l : BadLine(m.junk, l, d)
              \/ \E l, n \in 0 .. Len(m.junk) : BadTrailer(m, l, n)

(* ... and of all that are sent. *)
WellFramed(messages) ==
    /\ messages \in Seq(Messages)
    /\ \A i \in 1 .. Len(messages) :
         Framed(messages[i]) /\ (messages[i].enc = "END_CONNECTION" => i = Len(messages))

(* Every input is well framed, or broken where the chunked parser can tell. *)
FramedInputs == \A messages \in Inputs : WellFramed(messages)

-----------------------------------------------------------------------------
VARIABLES
    pc,                 \* where handle_stream() is
    input,              \* the messages of this connection
    unread,             \* sent, and not yet read
    done,               \* messages completed
  \* read_write_buffer of the source connection
    raw,                \* its working part
    ready_to_read,
    process_position, write_position, write_end_position,
  \* the parsers
    state,              \* state_ of the parser the encoding selects
    chunksize, current_chunksize_length, num_chunk_size_spaces,
    content_length,     \* of a CONTENT_LENGTH body
    current_length,     \* how much of the chunk or body has been claimed
    text,               \* what is left of the header, chunk_size_ and endline_buf_
  \* the destination
    ready_to_write, room, out

readVars == <<input, unread, raw, ready_to_read>>
posVars  == <<process_position, write_position, write_end_position>>
sizeVars == <<chunksize, current_chunksize_length, num_chunk_size_spaces>>
destVars == <<ready_to_write, room, out>>

vars == <<pc, done, readVars, posVars, state, sizeVars, content_length, current_length,
          text, destVars>>

Texts == {"header", "chunk_size", "endline"}

Init ==
    /\ pc = "read" /\ input \in Inputs /\ done = 0
    /\ unread = Sent(input)
    /\ raw = <<>> /\ ready_to_read = TRUE
    /\ process_position = 0 /\ write_position = 0 /\ write_end_position = 0
    /\ state = "PARSE_HEADER"
    /\ chunksize = 0 /\ current_chunksize_length = 0 /\ num_chunk_size_spaces = 0
    /\ content_length = 0 /\ current_length = 0
    /\ text = [t \in Texts |-> <<>>]
    /\ ready_to_write = TRUE /\ room = TRUE /\ out = <<>>

-----------------------------------------------------------------------------
(* read_write_buffer *)
FullyWritten == write_position >= Len(raw)
AtEnd == process_position >= Len(raw)
NextByte == raw[process_position + 1]

Advance == process_position' = process_position + 1

(* non_blocking_read(), at the top of the loop of handle_stream(). *)
Reading == pc \in {"read", "again"}

ReadData ==
    /\ Reading /\ ready_to_read /\ FullyWritten
    /\ \E k \in 1 .. BufLength :
         /\ k <= Len(unread)
         /\ raw' = SubSeq(unread, 1, k)
         /\ unread' = SubSeq(unread, k + 1, Len(unread))
         /\ write_end_position' = k
    /\ process_position' = 0 /\ write_position' = 0
    /\ pc' = "parse"
    /\ UNCHANGED <<input, ready_to_read, done, state, sizeVars, content_length, current_length,
                   text, destVars>>

(* EAGAIN or EINTR; the buffer has been reset all the same. *)
ReadNothing ==
    /\ Reading /\ ready_to_read /\ FullyWritten
    /\ raw' = <<>>
    /\ process_position' = 0 /\ write_position' = 0 /\ write_end_position' = 0
    /\ ready_to_read' \in BOOLEAN
    /\ pc' = "parse"
    /\ UNCHANGED <<input, unread, done, state, sizeVars, content_length, current_length, text,
                   destVars>>

SkipRead ==
    /\ Reading /\ ~(ready_to_read /\ FullyWritten)
    /\ pc' = "parse"
    /\ UNCHANGED <<done, readVars, posVars, state, sizeVars, content_length, current_length,
                   text, destVars>>

(* The destination reads. *)
Drain ==
    /\ ~room /\ room' = TRUE
    /\ UNCHANGED <<pc, done, readVars, posVars, state, sizeVars, content_length,
                   current_length, text, ready_to_write, out>>

(* An event on either connection starts handle_stream() again. *)
Waiting == pc \in {"idle", "blocked"}

Readable ==
    /\ Waiting /\ ~ready_to_read /\ unread # <<>>
    /\ pc' = "read"
    /\ ready_to_read' = TRUE
    /\ UNCHANGED <<input, unread, raw, done, posVars, state, sizeVars, content_length,
                   current_length, text, destVars>>

Writable ==
    /\ Waiting /\ ~ready_to_write /\ room
    /\ pc' = "read"
    /\ ready_to_write' = TRUE
    /\ UNCHANGED <<done, readVars, posVars, state, sizeVars, content_length, current_length,
                   text, room, out>>

WouldBlockUnmarked == room' = FALSE /\ UNCHANGED ready_to_write        \* mutant

WouldBlock == room' = FALSE /\ ready_to_write' = FALSE

(***************************************************************************)
(* non_blocking_write() of us: the first k bytes are taken, r is returned. *)
(***************************************************************************)
Write(us, k, r) ==
    /\ \/ /\ ~ready_to_write
          /\ k = 0 /\ r = "INCOMPLETE"
          /\ UNCHANGED <<ready_to_write, room>>
       \/ /\ ready_to_write /\ us = <<>>
          /\ k = 0 /\ r = "COMPLETE"
          /\ UNCHANGED <<ready_to_write, room>>
       \/ /\ ready_to_write /\ us # <<>> /\ room
          /\ k = Len(us) /\ r = "COMPLETE"
          /\ room' \in BOOLEAN
          /\ UNCHANGED ready_to_write
       \/ /\ ready_to_write /\ us # <<>>
          /\ k < Len(us) /\ r = "INCOMPLETE"
          /\ room = (k > 0)
          /\ WouldBlock
    /\ out' = out \o SubSeq(us, 1, k)

(* What is written of the read buffer. *)
Claimed == SubSeq(raw, write_position + 1, write_end_position)

-----------------------------------------------------------------------------
(* parse_body() returns r, process_data() and handle_stream() act on it. *)
Returns(r) ==
    pc' = CASE r = "INCOMPLETE" -> IF ready_to_read THEN "again" ELSE "idle"
            [] r = "WRITE_INCOMPLETE" -> "blocked"
            [] OTHER -> "denied"

Parsing(s) == pc = "parse" /\ state = s

GoTo(s) == state' = s /\ UNCHANGED pc

ResetKeepsDigits ==                          \* mutant
    /\ chunksize' = 0 /\ num_chunk_size_spaces' = 0
    /\ current_length' = 0
    /\ UNCHANGED current_chunksize_length

(* chunked_body_parser::reset(), and that of content_length_body_parser. *)
ResetChunk ==
    /\ chunksize' = 0 /\ current_chunksize_length' = 0 /\ num_chunk_size_spaces' = 0
    /\ current_length' = 0

FirstState(enc) ==
    CASE enc = "CHUNKED" -> "PARSE_CHUNKSIZE"
      [] enc = "CONTENT_LENGTH" -> "MESSAGE_BODY_PARSE"
      [] enc = "END_CONNECTION" -> "END_CONNECTION"
      [] OTHER -> "NONE"

(* The header of the next message is there; anything else is no header. *)
AtHeader == NextByte = "H" /\ done < Len(input)

(* parse_headers(), which also moves the write position, but not its end. *)
ParseHeader ==
    /\ Parsing("PARSE_HEADER")
    /\ \/ /\ AtEnd
          /\ Returns("INCOMPLETE")
          /\ UNCHANGED <<state, posVars, text>>
       \/ /\ ~AtEnd /\ AtHeader
          /\ Advance /\ write_position' = process_position + 1
          /\ text' = [text EXCEPT !["header"] = Header]
          /\ GoTo("PUSH_HEADER")
          /\ UNCHANGED write_end_position
       \/ /\ ~AtEnd /\ ~AtHeader
          /\ Returns("INVALID")
          /\ UNCHANGED <<state, posVars, text>>
    /\ UNCHANGED <<done, readVars, sizeVars, content_length, current_length, destVars>>

(* The header is out: body_parser::reset() with the encoding it announced. *)
PushHeader ==
    /\ Parsing("PUSH_HEADER")
    /\ \E k \in 0 .. Len(Header), r \in {"COMPLETE", "INCOMPLETE"} :
         /\ Write(text["header"], k, r)
         /\ text' = [text EXCEPT !["header"] = SubSeq(@, k + 1, Len(@))]
         /\ \/ /\ r = "COMPLETE"
               /\ GoTo(FirstState(input[done + 1].enc))
               /\ ResetChunk
               /\ content_length' = Len(Data(input[done + 1]))
            \/ /\ r = "INCOMPLETE"
               /\ Returns("WRITE_INCOMPLETE")
               /\ UNCHANGED <<state, sizeVars, content_length, current_length>>
    /\ UNCHANGED <<done, readVars, posVars>>

(* complete_message() *)
CompleteMessage ==
    /\ done' = done + 1
    /\ GoTo("PARSE_HEADER")

EndMessage ==
    /\ Parsing("NONE")
    /\ CompleteMessage
    /\ UNCHANGED <<readVars, posVars, sizeVars, content_length, current_length, text, destVars>>

-----------------------------------------------------------------------------
(* chunked_body_parser *)

MarkLineWritten(p) == write_position' = p + 1 /\ write_end_position' = p + 1   \* mutant

(* Both write positions follow when parse_chunk_size() returns. *)
MarkWritten(p) == write_position' = p /\ write_end_position' = p

ParseChunkSize ==
    /\ Parsing("PARSE_CHUNKSIZE")
    /\ \/ /\ AtEnd
          /\ MarkWritten(process_position)
          /\ Returns("INCOMPLETE")
          /\ UNCHANGED <<state, process_position, sizeVars>>
       \/ /\ ~AtEnd /\ IsHex(NextByte) /\ num_chunk_size_spaces = 0
          /\ current_chunksize_length < CHUNK_SIZE_LENGTH
          /\ chunksize' = 16 * chunksize + HexValue(NextByte)
          /\ current_chunksize_length' = current_chunksize_length + 1
          /\ Advance
          /\ UNCHANGED <<pc, state, num_chunk_size_spaces, write_position, write_end_position>>
       \/ /\ ~AtEnd /\ NextByte = "SP" /\ num_chunk_size_spaces < MAX_SPACES
          /\ num_chunk_size_spaces' = num_chunk_size_spaces + 1
          /\ Advance
          /\ UNCHANGED <<pc, state, chunksize, current_chunksize_length, write_position,
                         write_end_position>>
       \/ /\ ~AtEnd /\ NextByte = "CR"
          /\ Advance /\ MarkWritten(process_position + 1)
          /\ num_chunk_size_spaces' = 0
          /\ GoTo("PARSE_CHUNKSIZE_LF")
          /\ UNCHANGED <<chunksize, current_chunksize_length>>
       \/ /\ ~AtEnd /\ NextByte # "CR"
          /\ ~(NextByte = "SP" /\ num_chunk_size_spaces < MAX_SPACES)
          /\ ~(IsHex(NextByte) /\ num_chunk_size_spaces = 0
               /\ current_chunksize_length < CHUNK_SIZE_LENGTH)
          /\ MarkWritten(process_position)
          /\ num_chunk_size_spaces' = 0
          /\ Returns("INVALID")          \* or DATAOVERFLOW, with the same effect
          /\ UNCHANGED <<state, process_position, chunksize, current_chunksize_length>>
    /\ UNCHANGED <<done, readVars, content_length, current_length, text, destVars>>

(* parse_char() of b, and what is done when it is there. *)
ParseChar(b, then) ==
    \/ /\ AtEnd
       /\ Returns("INCOMPLETE")
       /\ UNCHANGED <<state, posVars, text>>
    \/ /\ ~AtEnd /\ NextByte = b
       /\ Advance
       /\ then
    \/ /\ ~AtEnd /\ NextByte # b
       /\ Returns("INVALID")
       /\ UNCHANGED <<state, posVars, text>>

(* set_chunk_size() renders the size again, and rewinds endline_buf_. *)
ParseChunkSizeLF ==
    /\ Parsing("PARSE_CHUNKSIZE_LF")
    /\ ParseChar("LF",
          /\ text' = [text EXCEPT !["chunk_size"] = HexText[chunksize] \o EndLine,
                                  !["endline"] = EndLine]
          /\ GoTo("FORWARD_CHUNKSIZE")
          /\ UNCHANGED <<write_position, write_end_position>>)
    /\ UNCHANGED <<done, readVars, sizeVars, content_length, current_length, destVars>>

ForwardChunkSize ==
    /\ Parsing("FORWARD_CHUNKSIZE")
    /\ \E k \in 0 .. Len(text["chunk_size"]), r \in {"COMPLETE", "INCOMPLETE"} :
         /\ Write(text["chunk_size"], k, r)
         /\ text' = [text EXCEPT !["chunk_size"] = SubSeq(@, k + 1, Len(@))]
         /\ \/ /\ r = "COMPLETE" /\ chunksize > 0
               /\ GoTo("PARSE_CHUNK")
               /\ UNCHANGED write_position
            \/ /\ r = "COMPLETE" /\ chunksize = 0
               /\ write_position' = process_position
               /\ GoTo("PARSE_TRAILER_CR")
            \/ /\ r = "INCOMPLETE"
               /\ Returns("WRITE_INCOMPLETE")
               /\ UNCHANGED <<state, write_position>>
    /\ UNCHANGED <<done, readVars, process_position, write_end_position, sizeVars,
                   content_length, current_length>>

(***************************************************************************)
(* parse_n_length_buffer() between set_write_position() and                *)
(* set_write_end_position(): the bytes up to limit that are in the buffer  *)
(* become the part to write.                                               *)
(***************************************************************************)
ClaimOneMore(limit) ==                       \* mutant: <= in place of <
    LET left == Len(raw) - process_position
        add  == IF left <= limit + 1 - current_length THEN left ELSE limit + 1 - current_length
    IN  /\ write_position' = process_position
        /\ process_position' = process_position + add
        /\ write_end_position' = process_position + add
        /\ current_length' = current_length + add

Claim(limit) ==
    LET left == Len(raw) - process_position
        add  == IF left < limit - current_length THEN left ELSE limit - current_length
    IN  /\ write_position' = process_position
        /\ process_position' = process_position + add
        /\ write_end_position' = process_position + add
        /\ current_length' = current_length + add

ParseChunk ==
    /\ Parsing("PARSE_CHUNK")
    /\ Claim(chunksize)
    /\ GoTo(IF current_length' < chunksize THEN "FORWARD_INCOMPLETE_CHUNK"
                                           ELSE "FORWARD_COMPLETE_CHUNK")
    /\ UNCHANGED <<done, readVars, sizeVars, content_length, text, destVars>>

(* set_body() of the claimed part; then whatever comes next may be written. *)
ForwardChunk ==
    /\ pc = "parse" /\ state \in {"FORWARD_INCOMPLETE_CHUNK", "FORWARD_COMPLETE_CHUNK"}
    /\ \E k \in 0 .. Len(Claimed), r \in {"COMPLETE", "INCOMPLETE"} :
         /\ Write(Claimed, k, r)
         /\ write_position' = write_position + k
         /\ \/ /\ r = "COMPLETE" /\ state = "FORWARD_INCOMPLETE_CHUNK"
               /\ state' = "PARSE_CHUNK" /\ Returns("INCOMPLETE")
               /\ write_end_position' = Len(raw)
            \/ /\ r = "COMPLETE" /\ state = "FORWARD_COMPLETE_CHUNK"
               /\ GoTo("PARSE_TRAILER_CR")
               /\ write_end_position' = Len(raw)
            \/ /\ r = "INCOMPLETE"
               /\ Returns("WRITE_INCOMPLETE")
               /\ UNCHANGED <<state, write_end_position>>
    /\ UNCHANGED <<done, readVars, process_position, sizeVars, content_length, current_length,
                   text>>

LeaveWritePosition == UNCHANGED write_position       \* mutant

(* The trailer is not written from this buffer, but has been dealt with. *)
SkipTrailerByte == write_position' = process_position + 1

ParseTrailerCR ==
    /\ Parsing("PARSE_TRAILER_CR")
    /\ ParseChar("CR",
          /\ SkipTrailerByte
          /\ GoTo("PARSE_TRAILER_LF")
          /\ UNCHANGED <<write_end_position, text>>)
    /\ UNCHANGED <<done, readVars, sizeVars, content_length, current_length, destVars>>

ParseTrailerLF ==
    /\ Parsing("PARSE_TRAILER_LF")
    /\ ParseChar("LF",
          /\ SkipTrailerByte
          /\ GoTo("FORWARD_TRAILER_CRLF")
          /\ UNCHANGED <<write_end_position, text>>)
    /\ UNCHANGED <<done, readVars, sizeVars, content_length, current_length, destVars>>

ForwardTrailer ==
    /\ Parsing("FORWARD_TRAILER_CRLF")
    /\ \E k \in 0 .. Len(text["endline"]), r \in {"COMPLETE", "INCOMPLETE"} :
         /\ Write(text["endline"], k, r)
         /\ text' = [text EXCEPT !["endline"] = SubSeq(@, k + 1, Len(@))]
         /\ \/ /\ r = "COMPLETE" /\ chunksize = 0
               /\ CompleteMessage
               /\ UNCHANGED <<sizeVars, current_length>>
            \/ /\ r = "COMPLETE" /\ chunksize > 0
               /\ ResetChunk
               /\ GoTo("PARSE_CHUNKSIZE")
               /\ UNCHANGED done
            \/ /\ r = "INCOMPLETE"
               /\ Returns("WRITE_INCOMPLETE")
               /\ UNCHANGED <<done, state, sizeVars, current_length>>
    /\ UNCHANGED <<readVars, posVars, content_length>>

-----------------------------------------------------------------------------
(* content_length_body_parser *)

ParseContent ==
    /\ Parsing("MESSAGE_BODY_PARSE")
    /\ Claim(content_length)
    /\ GoTo(IF current_length' < content_length THEN "INCOMPLETE_MESSAGE_BODY_FORWARD"
                                                ELSE "COMPLETE_MESSAGE_BODY_FORWARD")
    /\ UNCHANGED <<done, readVars, sizeVars, content_length, text, destVars>>

(* The write end position stays where the body ended. *)
ForwardContent ==
    /\ pc = "parse"
    /\ state \in {"INCOMPLETE_MESSAGE_BODY_FORWARD", "COMPLETE_MESSAGE_BODY_FORWARD"}
    /\ \E k \in 0 .. Len(Claimed), r \in {"COMPLETE", "INCOMPLETE"} :
         /\ Write(Claimed, k, r)
         /\ write_position' = write_position + k
         /\ \/ /\ r = "COMPLETE" /\ state = "INCOMPLETE_MESSAGE_BODY_FORWARD"
               /\ state' = "MESSAGE_BODY_PARSE" /\ Returns("INCOMPLETE")
               /\ UNCHANGED done
            \/ /\ r = "COMPLETE" /\ state = "COMPLETE_MESSAGE_BODY_FORWARD"
               /\ CompleteMessage
            \/ /\ r = "INCOMPLETE"
               /\ Returns("WRITE_INCOMPLETE")
               /\ UNCHANGED <<done, state>>
    /\ UNCHANGED <<readVars, process_position, write_end_position, sizeVars, content_length,
                   current_length, text>>

(* end_connection_body_parser: everything from the write position to its end.
   An end in front of the position trips the check on the number of bytes. *)
ForwardToClose ==
    /\ Parsing("END_CONNECTION")
    /\ \/ /\ ready_to_write /\ write_end_position < write_position
          /\ pc' = "aborted"
          /\ UNCHANGED <<write_position, destVars>>
       \/ /\ ~(ready_to_write /\ write_end_position < write_position)
          /\ \E k \in 0 .. Len(Claimed), r \in {"COMPLETE", "INCOMPLETE"} :
               /\ Write(Claimed, k, r)
               /\ write_position' = write_position + k
               /\ Returns(IF r = "COMPLETE" THEN "INCOMPLETE" ELSE "WRITE_INCOMPLETE")
    /\ UNCHANGED <<done, readVars, process_position, write_end_position, state, sizeVars,
                   content_length, current_length, text>>

-----------------------------------------------------------------------------
Step ==
    \/ ReadNothing \/ SkipRead
    \/ ParseHeader \/ PushHeader \/ EndMessage
    \/ ParseChunkSize \/ ParseChunkSizeLF \/ ForwardChunkSize
    \/ ParseChunk \/ ForwardChunk
    \/ ParseTrailerCR \/ ParseTrailerLF \/ ForwardTrailer
    \/ ParseContent \/ ForwardContent \/ ForwardToClose

Next == Step \/ ReadData \/ Drain \/ Readable \/ Writable

Spec == Init /\ [][Next]_vars

(* The program runs on, what was sent arrives and is reported, and a destination
   that is waited for drains and is reported. *)
Fairness ==
    /\ WF_vars(Step) /\ SF_vars(ReadData)
    /\ WF_vars(Drain) /\ SF_vars(Readable) /\ SF_vars(Writable)

FairSpec == Spec /\ Fairness

-----------------------------------------------------------------------------
(* Properties *)

(***************************************************************************)
(* The three positions stay within the part of the buffer that was read:   *)
(* the "buffer consistency" checks of read_write_buffer never fire.        *)
(***************************************************************************)
PositionsOK ==
    /\ Len(raw) <= BufLength
    /\ process_position \in 0 .. Len(raw)
    /\ write_position \in 0 .. Len(raw)
    /\ write_end_position \in 0 .. Len(raw)

Expected == FlattenSeq([i \in DOMAIN input |-> Relay(input[i])])

(***************************************************************************)
(* However the source's bytes are cut into reads and the destination's     *)
(* into writes, what is forwarded is the reference encoding: nothing lost, *)
(* repeated or taken from a neighbouring message.                          *)
(***************************************************************************)
Relayed == IsPrefix(out, Expected)

(***************************************************************************)
(* Parsing and framing stay together: only a message with broken framing   *)
(* is refused, and none with broken framing is completed.                  *)
(***************************************************************************)
InStep ==
    /\ pc = "denied" => done < Len(input) /\ input[done + 1].junk # <<>>
    /\ \A i \in 1 .. done : input[i].junk = <<>>

(***************************************************************************)
(* No jam (proxy_handler.cpp:219-226): when handle_stream() is told that a *)
(* buffer has been dealt with, the next read is really made.  Otherwise it *)
(* goes round for ever with the same buffer.                               *)
(***************************************************************************)
NoJam == pc = "again" => FullyWritten

(* The check of non_blocking_write() on the number of bytes never fires. *)
NoNegativeWrite == pc # "aborted"

(* A message that ends with the connection comes behind one with a body. *)
OpenBehindBody(messages) ==
    \E j \in DOMAIN messages :
        /\ messages[j].enc = "END_CONNECTION"
        /\ \E i \in 1 .. j - 1 : messages[i].enc \in {"CONTENT_LENGTH", "CHUNKED"}

(* Everything is forwarded in the end, unless the framing is broken: the read of
   handle_stream() and the returns of the body parsers never leave the rest in
   the buffer.  Nothing is said of a message that ends with the connection behind
   one with a body, on which the check of NoNegativeWrite may end the process. *)
AllRelayed ==
    ~OpenBehindBody(input) => <>(out = Expected \/ (pc = "denied" /\ Last(input).junk # <<>>))

===============================================================================
