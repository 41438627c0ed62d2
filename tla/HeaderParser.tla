----------------------------- MODULE HeaderParser -----------------------------
(***************************************************************************)
(* A message header on its way through one stream handler:                 *)
(* http::header_parser cuts the read buffer into tokens,                   *)
(* http::header_handler collects them in the message_buffer and finds out  *)
(* how the body is encoded, http::header_writer writes the message_buffer  *)
(* to the destination.  Header follows header; the bodies are BodyParser's *)
(* and end a behaviour here.  No host rule matches, so nothing is          *)
(* rewritten between parsing and writing.                                  *)
(*                                                                         *)
(* Tokens are sequences of bytes, since a read may end within one, but     *)
(* short ones: the names, methods and numbers that the code tells apart    *)
(* are two bytes long here.  Letter case is not represented.               *)
(***************************************************************************)
EXTENDS Naturals, Sequences, SequencesExt, FiniteSetsExt

CONSTANTS
    Inputs,             \* sequences of messages, one of which the source sends
    BufLength,          \* physical length of the read buffer
    MAX_FIELD_LENGTH,   \* 512 in the code
    MaxToken,           \* the start line's three buffers, and those of a
    MaxName,            \* header_buffer, as the configuration gives them
    MaxValue,
    MaxFields,          \* max_fields_ of the message_buffer
    CutStartLine        \* a read may end within a start line

ASSUME HeaderAssumption ==
    /\ {BufLength, MAX_FIELD_LENGTH, MaxToken, MaxName, MaxValue, MaxFields} \subseteq Nat
    /\ MAX_FIELD_LENGTH # 0 /\ CutStartLine \in BOOLEAN

ValidMethods == {<<"G", "E">>, <<"P", "O">>}
HTTP1_1  == <<"1", "1">>
Status304 == <<"3", "4">>
Host == <<"h", "o">>
ContentLength == <<"c", "l">>
TransferEncoding == <<"t", "e">>
Chunked == <<"c", "k">>

EndLine  == <<"CR", "LF">>
Space    == <<"SP">>
FieldSep == <<":", "SP">>
ControlChars == {"CR", "LF", "CTL"}

(* atoi() of the digits in front. *)
Digits == <<"0", "1", "2", "3", "4", "5", "6", "7", "8", "9">>
DigitValue(b) == (CHOOSE d \in 1 .. 10 : Digits[d] = b) - 1
Number(text) ==
    LET k == Max({j \in 0 .. Len(text) : \A i \in 1 .. j : text[i] \in ToSet(Digits)})
    IN  FoldLeft(LAMBDA n, b : 10 * n + DigitValue(b), 0, SubSeq(text, 1, k))

-----------------------------------------------------------------------------
(***************************************************************************)
(* A message: its stream type, the three tokens of its start line, its     *)
(* fields (with the blanks in front of a value), and what follows the last *)
(* of them, the empty line.                                                *)
(***************************************************************************)
StartLine(m) ==
    m.line[1] \o Space \o m.line[2] \o Space \o m.line[3] \o EndLine

Wire(m) ==
    StartLine(m) \o FlattenSeq([i \in DOMAIN m.fields |->
        m.fields[i].name \o <<":">> \o m.fields[i].pad \o m.fields[i].value \o EndLine]) \o m.tail

(* What is to come out of it. *)
Rendered(m) ==
    StartLine(m) \o FlattenSeq([i \in DOMAIN m.fields |->
        m.fields[i].name \o FieldSep \o m.fields[i].value \o EndLine]) \o EndLine

FieldsNamed(m, name) == {i \in DOMAIN m.fields : m.fields[i].name = name}

(***************************************************************************)
(* The body that the fields announce, in whichever order they stand: a     *)
(* transfer encoding outweighs a length (RFC 2616 4.4), 304 both.          *)
(***************************************************************************)
Announced(m) ==
    IF m.type = "RESPONSE" /\ m.line[2] = Status304 THEN [enc |-> "NONE", size |-> 0]
    ELSE IF \E i \in FieldsNamed(m, TransferEncoding) : m.fields[i].value = Chunked
         THEN [enc |-> "CHUNKED", size |-> 0]
    ELSE IF FieldsNamed(m, ContentLength) # {}
         THEN [enc |-> "CONTENT_LENGTH",
               size |-> Number(m.fields[Max(FieldsNamed(m, ContentLength))].value)]
    ELSE [enc |-> IF m.type = "REQUEST" THEN "NONE" ELSE "END_CONNECTION", size |-> 0]

(***************************************************************************)
(* The messages that must be let through: a method that is known, every    *)
(* part within its buffer and shorter than MAX_FIELD_LENGTH, no control    *)
(* characters, not too many fields, and a host if the version needs one.   *)
(***************************************************************************)
Plain(text, max) ==
    /\ Len(text) <= max /\ Len(text) < MAX_FIELD_LENGTH
    /\ ToSet(text) \cap ControlChars = {}

(* A line that begins with a blank belongs to the value before it. *)
Continued(m) == \E i \in DOMAIN m.fields : IsPrefix(Space, m.fields[i].name)

WellFormed(m) ==
    /\ m.type = "REQUEST" => m.line[1] \in ValidMethods
    /\ \A i \in 1 .. 3 : Plain(m.line[i], MaxToken)
    /\ Len(m.fields) <= MaxFields
    /\ \A i \in DOMAIN m.fields :
         /\ Plain(m.fields[i].name, MaxName)
         /\ Plain(m.fields[i].value, MaxValue)
         /\ Len(m.fields[i].pad) + Len(m.fields[i].value) < MAX_FIELD_LENGTH
    /\ ~Continued(m)
    /\ m.type = "REQUEST" /\ m.line[3] = HTTP1_1 => FieldsNamed(m, Host) # {}
    /\ m.tail = EndLine

(***************************************************************************)
(* The parts are where the bytes say: no token, name or value holds what   *)
(* ends it, but for a bare carriage return.  Nothing else is said of them. *)
(***************************************************************************)
Messages ==
    [type : {"REQUEST", "RESPONSE"}, line : Seq(Seq(STRING)), tail : Seq(STRING),
     fields : Seq([name : Seq(STRING), pad : Seq({"SP"}), value : Seq(STRING)])]

OneLine(text) == \A i \in 1 .. Len(text) - 1 : text[i] = "CR" => text[i + 1] # "LF"

Framed(m) ==
    /\ Len(m.line) = 3 /\ OneLine(m.line[3])
    /\ "SP" \notin ToSet(m.line[1]) \cup ToSet(m.line[2])
    /\ \A i \in DOMAIN m.fields :
         /\ ":" \notin ToSet(m.fields[i].name) /\ OneLine(m.fields[i].name)
         /\ ~IsPrefix(Space, m.fields[i].value) /\ OneLine(m.fields[i].value)
    /\ m.tail = EndLine \/ (Len(m.tail) >= 2 /\ m.tail[1] = "CR" /\ m.tail[2] # "LF")

FramedInputs ==
    \A messages \in Inputs :
        /\ messages \in Seq(Messages)
        /\ \A i \in DOMAIN messages : Framed(messages[i]) /\ messages[i].type = messages[1].type

Sent(messages) == FlattenSeq([i \in DOMAIN messages |-> Wire(messages[i])])

ASSUME InputAssumption == \A messages \in Inputs : Sent(messages) \in Seq(STRING)

-----------------------------------------------------------------------------
VARIABLES
    pc,                 \* where handle_stream() is
    input, unread,      \* the messages of this connection; what is not yet read
    message_state,      \* PARSE_HEADER, PUSH_HEADER or PARSE_BODY
    done,               \* headers written
  \* read_write_buffer; the write position goes with the process position
    raw, process_position,
  \* header_parser, and the local offsets of its two loops
    current_state, status_line_state, current_length,
    offset, line_offset,
  \* header_handler and message_buffer
    line, fields, current_field,
    have_host_header, ignore_body_encoding_headers, body_encoding, message_size,
  \* header_writer: its state, field and how much of the current text is out
    write_header_state, current_dump_header, written,
    out, bodies         \* what was written; what body_parser::reset() was given

bufVars    == <<input, unread, raw>>
parserVars == <<current_state, status_line_state, current_length, offset, line_offset>>
scanVars   == <<have_host_header, ignore_body_encoding_headers, body_encoding, message_size>>
writerVars == <<write_header_state, current_dump_header, written, out, bodies>>

vars == <<pc, message_state, done, bufVars, process_position, parserVars, line, fields,
          current_field, scanVars, writerVars>>

Type == input[1].type
DefaultEncoding(type) == IF type = "REQUEST" THEN "NONE" ELSE "END_CONNECTION"

(* header_writer's states, which it counts through. *)
START_LINE_TOKEN1 == 1
FIELD_NAME == 7
FIELD_SEPERATOR == 10
END_FIELDS == 11

Init ==
    /\ pc = "read" /\ input \in Inputs /\ unread = Sent(input)
    /\ message_state = "PARSE_HEADER" /\ done = 0
    /\ raw = <<>> /\ process_position = 0
    /\ current_state = "STATUS_LINE" /\ status_line_state = 1 /\ current_length = 0
    /\ offset = 0 /\ line_offset = 0
    /\ line = [i \in 1 .. 3 |-> <<>>] /\ fields = <<>> /\ current_field = 0
    /\ have_host_header = FALSE /\ ignore_body_encoding_headers = FALSE
    /\ body_encoding = DefaultEncoding(Type) /\ message_size = 0
    /\ write_header_state = START_LINE_TOKEN1 /\ current_dump_header = 0 /\ written = 0
    /\ out = <<>> /\ bodies = <<>>

-----------------------------------------------------------------------------
(* Whether c bytes into the stream is within a start line. *)
InStartLine(c) ==
    \E i \in DOMAIN input :
        LET before == Len(Sent(SubSeq(input, 1, i - 1)))
        IN  before < c /\ c < before + Len(StartLine(input[i]))

(* process_data() is entered, and parse_headers() from the process position. *)
Enter(position) ==
    /\ pc' = "process" /\ process_position' = position
    /\ offset' = position /\ line_offset' = position

FullyWritten == process_position >= Len(raw)

(* non_blocking_read(): a new buffer ... *)
ReadData ==
    /\ pc = "read" /\ FullyWritten
    /\ \E k \in 1 .. BufLength :
         /\ k <= Len(unread)
         /\ ~CutStartLine => ~InStartLine(Len(Sent(input)) - Len(unread) + k)
         /\ raw' = SubSeq(unread, 1, k)
         /\ unread' = SubSeq(unread, k + 1, Len(unread))
    /\ Enter(0)
    /\ UNCHANGED <<input, message_state, done, current_state, status_line_state, current_length,
                   line, fields, current_field, scanVars, writerVars>>

SkipReadWithData ==                          \* mutant
    /\ pc = "read" /\ ~FullyWritten
    /\ Enter(process_position)
    /\ UNCHANGED <<bufVars, message_state, done, current_state, status_line_state, current_length,
                   line, fields, current_field, scanVars, writerVars>>

(* ... or none: the old one is not fully written, or nothing has come. *)
SkipRead ==
    /\ pc = "read"
    /\ Enter(process_position)
    /\ UNCHANGED <<bufVars, message_state, done, current_state, status_line_state, current_length,
                   line, fields, current_field, scanVars, writerVars>>

-----------------------------------------------------------------------------
(***************************************************************************)
(* parse_token() and parse_equal(): from position begin on to the first    *)
(* byte that stops, at most as far as the buffer and the length go.        *)
(***************************************************************************)
Scan(begin, stops, refused) ==
    LET limit == Min({Len(raw), begin + MAX_FIELD_LENGTH - current_length})
        found == {i \in begin .. limit - 1 : raw[i + 1] \in stops \cup refused}
    IN  IF found # {}
        THEN LET i == Min(found)
             IN  [status |-> IF raw[i + 1] \in stops THEN "COMPLETE" ELSE "INVALID",
                  end |-> i, length |-> current_length + i - begin]
        ELSE [status |-> IF limit < Len(raw) \/ current_length + limit - begin >= MAX_FIELD_LENGTH
                         THEN "DATAOVERFLOW" ELSE "INCOMPLETE",
              end |-> limit, length |-> current_length + limit - begin]

ParseToken(begin, delimiters) == Scan(begin, delimiters, ControlChars)
ParseEqual(begin) == Scan(begin, {raw[i] : i \in DOMAIN raw} \ {"SP"}, {})

ParseChar(begin, c) ==
    IF begin >= Len(raw) THEN "INCOMPLETE"
    ELSE IF raw[begin + 1] = c THEN "COMPLETE" ELSE "INVALID"

Piece(begin, end) == SubSeq(raw, begin + 1, end)

(* parse_headers() returns: the process position is where its own loop stands.
   What a handler does that is called again after a refusal is ProxyHandler's. *)
Return(status, position) ==
    /\ pc' = IF status = "INCOMPLETE" THEN "read" ELSE "denied"
    /\ process_position' = position

Parsing(s) == pc = "process" /\ message_state = "PARSE_HEADER" /\ current_state = s

GoToKeepsLength(s, position) ==              \* mutant
    /\ current_state' = s
    /\ offset' = position
    /\ UNCHANGED <<pc, process_position, current_length>>

(* transition_to_state(), going on in the loop. *)
GoTo(s, position) ==
    /\ current_state' = s /\ current_length' = 0
    /\ offset' = position
    /\ UNCHANGED <<pc, process_position>>

FitsOneMore(old, piece, max) == Len(old) + Len(piece) <= max + 1        \* mutant

(* fits_in_buffer(), in front of every append. *)
Fits(old, piece, max) == Len(old) + Len(piece) <= max

-----------------------------------------------------------------------------
(* Start line: parse_status_line(), header_handler::start_line_token1() ... *)

(* compare_no_case() against the methods: a token that is complete must be one,
   another must be shorter or longer than one. *)
MethodOK(token, complete) ==
    IF complete THEN token \in ValidMethods
    ELSE \E m \in ValidMethods : token # m /\ (IsPrefix(token, m) \/ IsPrefix(m, token))

TokenStatus(n, piece, complete) ==
    IF ~Fits(line[n], piece, MaxToken) THEN "DATAOVERFLOW"
    ELSE IF n = 1 /\ Type = "REQUEST" /\ ~MethodOK(line[1] \o piece, complete) THEN "INVALID"
    ELSE "COMPLETE"

AppendToken(n, piece) ==
    line' = IF Fits(line[n], piece, MaxToken) THEN [line EXCEPT ![n] = @ \o piece] ELSE line

(* scan_return_code() *)
ScanReturnCode ==
    IF Type = "RESPONSE" /\ status_line_state = 2 /\ line'[2] = Status304
    THEN /\ body_encoding' = "NONE" /\ ignore_body_encoding_headers' = TRUE
         /\ UNCHANGED <<have_host_header, message_size>>
    ELSE UNCHANGED scanVars

LineReturn(status) ==
    /\ Return(status, offset)
    /\ UNCHANGED <<current_state, status_line_state, offset, line_offset>>

(* get_status_token_delimiters() of STRICT parsing *)
Delimiters(n) == IF n = 3 THEN {"CR"} ELSE {"SP"}

NextStatusLineState ==
    status_line_state' = status_line_state + 1 /\ current_length' = 0

ParseStatusToken ==
    /\ Parsing("STATUS_LINE") /\ status_line_state \in 1 .. 3
    /\ LET n == status_line_state
           r == ParseToken(line_offset, Delimiters(n))
           piece == Piece(line_offset, r.end)
           s == TokenStatus(n, piece, r.status = "COMPLETE")
       IN  \/ /\ r.status = "COMPLETE" /\ s = "COMPLETE"
              /\ AppendToken(n, piece) /\ ScanReturnCode
              /\ NextStatusLineState
              /\ line_offset' = r.end + 1
              /\ UNCHANGED <<pc, process_position, current_state, offset>>
           \/ /\ r.status = "COMPLETE" /\ s # "COMPLETE"
              /\ AppendToken(n, piece) /\ LineReturn(s)
              /\ current_length' = r.length
              /\ UNCHANGED scanVars
           \/ /\ r.status = "INCOMPLETE"
              /\ AppendToken(n, piece)
              /\ LineReturn(IF s = "COMPLETE" THEN "INCOMPLETE" ELSE s)
              /\ current_length' = r.length
              /\ UNCHANGED scanVars
           \/ /\ r.status \in {"INVALID", "DATAOVERFLOW"}
              /\ LineReturn("INVALID")
              /\ current_length' = r.length
              /\ UNCHANGED <<line, scanVars>>
    /\ UNCHANGED <<bufVars, message_state, done, fields, current_field, writerVars>>

ParseStatusLF ==
    /\ Parsing("STATUS_LINE") /\ status_line_state = 4
    /\ LET r == ParseChar(line_offset, "LF")
       IN  \/ /\ r = "COMPLETE"
              /\ GoTo("END_HEADERS_CR", line_offset + 1)
              /\ UNCHANGED <<status_line_state, line_offset>>
           \/ r # "COMPLETE" /\ LineReturn(r) /\ UNCHANGED current_length
    /\ UNCHANGED <<bufVars, message_state, done, line, fields, current_field, scanVars, writerVars>>

-----------------------------------------------------------------------------
(* End of the header: header_handler::end_fields(), then header_writer::reset(). *)

(* header_writer::reset() *)
ResetWriter ==
    /\ write_header_state' = START_LINE_TOKEN1 /\ current_dump_header' = 0 /\ written' = 0

HostMissing == Type = "REQUEST" /\ line[3] = HTTP1_1 /\ ~have_host_header

EndHeadersCR ==
    /\ Parsing("END_HEADERS_CR")
    /\ LET r == ParseChar(offset, "CR")
       IN  \/ r = "COMPLETE" /\ GoTo("END_HEADERS_LF", offset + 1)
           \/ r = "INVALID" /\ GoTo("FIELD_NAME", offset)
           \/ r = "INCOMPLETE" /\ Return(r, offset)
              /\ UNCHANGED <<current_state, current_length, offset>>
    /\ UNCHANGED <<bufVars, message_state, done, status_line_state, line_offset, line, fields,
                   current_field, scanVars, writerVars>>

EndHeadersLF ==
    /\ Parsing("END_HEADERS_LF")
    /\ LET r == ParseChar(offset, "LF")
       IN  \/ /\ r = "COMPLETE" /\ ~HostMissing
              /\ message_state' = "PUSH_HEADER"
              /\ process_position' = offset + 1
              /\ ResetWriter
              /\ UNCHANGED pc
           \/ /\ r = "COMPLETE" /\ HostMissing
              /\ Return("INVALID", offset + 1)
              /\ UNCHANGED <<message_state, write_header_state, current_dump_header, written>>
           \/ /\ r # "COMPLETE"
              /\ Return(r, offset)
              /\ UNCHANGED <<message_state, write_header_state, current_dump_header, written>>
    /\ UNCHANGED <<bufVars, done, parserVars, line, fields, current_field, scanVars, out, bodies>>

-----------------------------------------------------------------------------
(* Fields: header_handler::set_field_name(), set_field_value() *)

(* The field being named is added to the message_buffer by its first piece. *)
NewField == [name |-> <<>>, value |-> <<>>]

FieldsForName == IF Len(fields) = current_field THEN Append(fields, NewField) ELSE fields

(* The header_cache is taken to hold enough; ServerPools has it run empty. *)
TooManyFields == Len(fields) = current_field /\ current_field >= MaxFields

SetFieldName(piece, status) ==
    \/ /\ TooManyFields
       /\ status = "DATAOVERFLOW"
       /\ UNCHANGED fields
    \/ /\ ~TooManyFields
       /\ LET fs == FieldsForName
              n  == current_field + 1
          IN  \/ /\ Fits(fs[n].name, piece, MaxName)
                 /\ status = "COMPLETE"
                 /\ fields' = [fs EXCEPT ![n].name = @ \o piece]
              \/ /\ ~Fits(fs[n].name, piece, MaxName)
                 /\ status = "DATAOVERFLOW"
                 /\ fields' = fs

FieldName ==
    /\ Parsing("FIELD_NAME")
    /\ LET r == ParseToken(offset, {":"})
           piece == Piece(offset, r.end)
       IN  \/ /\ r.status = "COMPLETE"
              /\ \/ SetFieldName(piece, "COMPLETE") /\ GoTo("FIELD_VALUE_LEADING_LWS", r.end + 1)
                 \/ /\ SetFieldName(piece, "DATAOVERFLOW")
                    /\ Return("DATAOVERFLOW", r.end + 1)
                    /\ current_length' = r.length
                    /\ UNCHANGED <<current_state, offset>>
           \/ /\ r.status = "INCOMPLETE"
              /\ \/ SetFieldName(piece, "COMPLETE") /\ Return("INCOMPLETE", r.end)
                 \/ SetFieldName(piece, "DATAOVERFLOW") /\ Return("DATAOVERFLOW", r.end)
              /\ current_length' = r.length
              /\ UNCHANGED <<current_state, offset>>
           \/ /\ r.status \in {"INVALID", "DATAOVERFLOW"}
              /\ Return(r.status, offset)
              /\ current_length' = r.length
              /\ UNCHANGED <<fields, current_state, offset>>
    /\ UNCHANGED <<bufVars, message_state, done, status_line_state, line_offset, line,
                   current_field, scanVars, writerVars>>

(* Blanks in front of the value count towards its length. *)
FieldValueLeadingLWS ==
    /\ Parsing("FIELD_VALUE_LEADING_LWS")
    /\ LET r == ParseEqual(offset)
       IN  /\ current_length' = r.length
           /\ \/ /\ r.status = "COMPLETE"
                 /\ current_state' = "FIELD_VALUE_CONTENT" /\ offset' = r.end
                 /\ UNCHANGED <<pc, process_position>>
              \/ /\ r.status # "COMPLETE"
                 /\ Return(r.status, IF r.status = "INCOMPLETE" THEN r.end ELSE offset)
                 /\ UNCHANGED <<current_state, offset>>
    /\ UNCHANGED <<bufVars, message_state, done, status_line_state, line_offset, line, fields,
                   current_field, scanVars, writerVars>>

ScanFieldLengthWins(f) ==                    \* mutant: the last field decides
    /\ have_host_header' = (have_host_header \/ f.name = Host)
    /\ \/ /\ f.name = ContentLength /\ ~ignore_body_encoding_headers
          /\ body_encoding' = "CONTENT_LENGTH" /\ message_size' = Number(f.value)
       \/ /\ f.name = TransferEncoding /\ f.value = Chunked /\ ~ignore_body_encoding_headers
          /\ body_encoding' = "CHUNKED" /\ UNCHANGED message_size
       \/ /\ ignore_body_encoding_headers \/ f.name \notin {ContentLength, TransferEncoding}
             \/ (f.name = TransferEncoding /\ f.value # Chunked)
          /\ UNCHANGED <<body_encoding, message_size>>
    /\ UNCHANGED ignore_body_encoding_headers

(* scan_field() *)
ScanField(f) ==
    /\ have_host_header' = (have_host_header \/ f.name = Host)
    /\ LET sized   == f.name = ContentLength /\ body_encoding # "CHUNKED"
           chunked == f.name = TransferEncoding /\ f.value = Chunked
       IN  \/ /\ ~ignore_body_encoding_headers /\ sized
              /\ body_encoding' = "CONTENT_LENGTH" /\ message_size' = Number(f.value)
           \/ /\ ~ignore_body_encoding_headers /\ chunked
              /\ body_encoding' = "CHUNKED" /\ UNCHANGED message_size
           \/ /\ ignore_body_encoding_headers \/ ~(sized \/ chunked)
              /\ UNCHANGED <<body_encoding, message_size>>
    /\ UNCHANGED ignore_body_encoding_headers

(* A value behind a complete one has no field: get_header() aborts. *)
NoField == current_field >= Len(fields)

ValueFits(piece) == Fits(fields[current_field + 1].value, piece, MaxValue)

FieldValueContent ==
    /\ Parsing("FIELD_VALUE_CONTENT")
    /\ LET r == ParseToken(offset, {"CR"})
           piece == Piece(offset, r.end)
           n == current_field + 1
       IN  \/ /\ r.status \in {"COMPLETE", "INCOMPLETE"} /\ NoField
              /\ pc' = "aborted" /\ current_length' = r.length
              /\ UNCHANGED <<process_position, current_state, offset, fields, current_field, scanVars>>
           \/ /\ r.status = "COMPLETE" /\ ~NoField /\ ValueFits(piece)
              /\ fields' = [fields EXCEPT ![n].value = @ \o piece]
              /\ ScanField(fields'[n])
              /\ current_field' = n
              /\ GoTo("FIELD_VALUE_LWS_LF", r.end + 1)
           \/ /\ r.status = "COMPLETE" /\ ~NoField /\ ~ValueFits(piece)
              /\ Return("DATAOVERFLOW", r.end + 1)
              /\ current_state' = "FIELD_VALUE_LWS_LF" /\ current_length' = 0
              /\ UNCHANGED <<offset, fields, current_field, scanVars>>
           \/ /\ r.status = "INCOMPLETE" /\ ~NoField
              /\ \/ /\ ValueFits(piece)
                    /\ fields' = [fields EXCEPT ![n].value = @ \o piece]
                    /\ Return("INCOMPLETE", r.end)
                 \/ /\ ~ValueFits(piece)
                    /\ Return("DATAOVERFLOW", r.end)
                    /\ UNCHANGED fields
              /\ current_length' = r.length
              /\ UNCHANGED <<current_state, offset, current_field, scanVars>>
           \/ /\ r.status \in {"INVALID", "DATAOVERFLOW"}
              /\ Return(r.status, offset)
              /\ current_length' = r.length
              /\ UNCHANGED <<current_state, offset, fields, current_field, scanVars>>
    /\ UNCHANGED <<bufVars, message_state, done, status_line_state, line_offset, line, writerVars>>

FieldValueLF ==
    /\ Parsing("FIELD_VALUE_LWS_LF")
    /\ LET r == ParseChar(offset, "LF")
       IN  \/ r = "COMPLETE" /\ GoTo("FIELD_VALUE_LWS", offset + 1)
           \/ r # "COMPLETE" /\ Return(r, offset)
              /\ UNCHANGED <<current_state, current_length, offset>>
    /\ UNCHANGED <<bufVars, message_state, done, status_line_state, line_offset, line, fields,
                   current_field, scanVars, writerVars>>

(* A line that begins with a blank in this buffer continues the value. *)
FieldValueLWS ==
    /\ Parsing("FIELD_VALUE_LWS")
    /\ LET r == ParseEqual(offset)
       IN  \/ r.status = "COMPLETE" /\ r.end = offset /\ GoTo("END_HEADERS_CR", offset)
           \/ r.status = "COMPLETE" /\ r.end > offset /\ GoTo("FIELD_VALUE_CONTENT", r.end)
           \/ /\ r.status # "COMPLETE"
              /\ Return(r.status, IF r.status = "INCOMPLETE" THEN r.end ELSE offset)
              /\ current_length' = r.length
              /\ UNCHANGED <<current_state, offset>>
    /\ UNCHANGED <<bufVars, message_state, done, status_line_state, line_offset, line, fields,
                   current_field, scanVars, writerVars>>

-----------------------------------------------------------------------------
(* header_writer *)

(* The state write_header() goes on in: behind the last field it is the end. *)
WriteState ==
    IF write_header_state = FIELD_NAME /\ current_dump_header = Len(fields)
    THEN END_FIELDS ELSE write_header_state

(* get_header_buffer_to_write() *)
BufferToWrite ==
    LET field == fields[current_dump_header + 1]
    IN  CASE WriteState = 1 -> line[1]
          [] WriteState = 3 -> line[2]
          [] WriteState = 5 -> line[3]
          [] WriteState \in {2, 4} -> Space
          [] WriteState \in {6, FIELD_SEPERATOR, END_FIELDS} -> EndLine
          [] WriteState = FIELD_NAME -> field.name
          [] WriteState = 8 -> FieldSep
          [] OTHER -> field.value

Unwritten == SubSeq(BufferToWrite, written + 1, Len(BufferToWrite))

Pushing == pc = "process" /\ message_state = "PUSH_HEADER"

(* non_blocking_write() takes k bytes and would block. *)
WriteBlocks ==
    /\ Pushing
    /\ \E k \in 0 .. Len(Unwritten) :
         /\ k < Len(Unwritten) \/ k = 0
         /\ out' = out \o SubSeq(Unwritten, 1, k)
         /\ written' = written + k
    /\ write_header_state' = WriteState
    /\ pc' = "read"
    /\ UNCHANGED <<bufVars, process_position, message_state, done, parserVars, line, fields,
                   current_field, scanVars, current_dump_header, bodies>>

WriteRest == out' = out \o Unwritten /\ written' = 0

WriteHeader ==
    /\ Pushing /\ WriteState # END_FIELDS
    /\ WriteRest
    /\ write_header_state' = IF WriteState = FIELD_SEPERATOR THEN FIELD_NAME ELSE WriteState + 1
    /\ current_dump_header' = current_dump_header + IF WriteState = FIELD_SEPERATOR THEN 1 ELSE 0
    /\ UNCHANGED <<pc, bufVars, process_position, message_state, done, parserVars, line, fields,
                   current_field, scanVars, bodies>>

(* message_buffer::reset() *)
ResetMessage == line' = [i \in 1 .. 3 |-> <<>>] /\ fields' = <<>>

ResetHandlerKeepsHost ==                     \* mutant
    /\ current_field' = 0
    /\ ignore_body_encoding_headers' = FALSE /\ UNCHANGED have_host_header
    /\ body_encoding' = DefaultEncoding(Type) /\ message_size' = 0
    /\ ResetMessage

(* header_handler::reset() *)
ResetHandler ==
    /\ current_field' = 0
    /\ have_host_header' = FALSE /\ ignore_body_encoding_headers' = FALSE
    /\ body_encoding' = DefaultEncoding(Type) /\ message_size' = 0
    /\ ResetMessage

(* header_parser::reset() *)
ResetParser == status_line_state' = 1 /\ current_state' = "STATUS_LINE" /\ current_length' = 0

(* The header is out.  body_parser::reset(); without a body the message is
   complete, and the next header is looked for in the same buffer. *)
EndHeader ==
    /\ Pushing /\ WriteState = END_FIELDS
    /\ WriteRest
    /\ write_header_state' = END_FIELDS
    /\ bodies' = Append(bodies, [enc  |-> body_encoding,
                                 size |-> IF body_encoding = "CONTENT_LENGTH" THEN message_size ELSE 0])
    /\ \/ /\ body_encoding = "NONE"
          /\ done' = done + 1
          /\ message_state' = "PARSE_HEADER"
          /\ ResetParser /\ ResetHandler
          /\ Enter(process_position)
       \/ /\ body_encoding # "NONE"
          /\ message_state' = "PARSE_BODY"
          /\ UNCHANGED <<pc, done, process_position, parserVars, line, fields, current_field, scanVars>>
    /\ UNCHANGED <<bufVars, current_dump_header>>

-----------------------------------------------------------------------------
Write == WriteHeader \/ EndHeader

Parse ==
    \/ ParseStatusToken \/ ParseStatusLF \/ EndHeadersCR \/ EndHeadersLF
    \/ FieldName \/ FieldValueLeadingLWS \/ FieldValueContent \/ FieldValueLF \/ FieldValueLWS

Next == ReadData \/ SkipRead \/ Parse \/ Write \/ WriteBlocks

Spec == Init /\ [][Next]_vars

(* The program runs on, what was sent arrives, the destination keeps reading. *)
Fairness == WF_vars(Parse) /\ WF_vars(SkipRead) /\ SF_vars(ReadData) /\ SF_vars(Write)

FairSpec == Spec /\ Fairness

-----------------------------------------------------------------------------
(* Properties *)

(***************************************************************************)
(* Nothing is held beyond its buffer, the positions stay within what was   *)
(* read, and the field being filled is the last one or the next.           *)
(***************************************************************************)
BuffersOK ==
    /\ Len(raw) <= BufLength /\ process_position <= Len(raw)
    /\ offset <= Len(raw) /\ line_offset <= Len(raw)
    /\ \A i \in 1 .. 3 : Len(line[i]) <= MaxToken
    /\ Len(fields) <= MaxFields /\ Len(fields) - current_field \in 0 .. 1
    /\ \A i \in DOMAIN fields : Len(fields[i].name) <= MaxName /\ Len(fields[i].value) <= MaxValue
    /\ written <= Len(BufferToWrite)

(* The messages in front of the first that is not well formed. *)
Good == LET bad == {i \in DOMAIN input : ~WellFormed(input[i])}
        IN  IF bad = {} THEN input ELSE SubSeq(input, 1, Min(bad) - 1)

(* No claim is made beyond a continuation line. *)
Unclaimed == Good # input /\ Continued(input[Len(Good) + 1])

(***************************************************************************)
(* However the headers are cut into reads and writes, what is written is   *)
(* each of them with one blank in front of every value, and nothing of a   *)
(* header that must be refused.                                            *)
(***************************************************************************)
HeadersRelayed ==
    LET expected == FlattenSeq([i \in DOMAIN Good |-> Rendered(Good[i])])
    IN  IsPrefix(out, expected) \/ (Unclaimed /\ IsPrefix(expected, out))

(***************************************************************************)
(* The body parser is told what the fields announce, in whichever order    *)
(* they came and whatever the message before had (header_handler.cpp:198). *)
(***************************************************************************)
BodyAnnounced ==
    \A i \in DOMAIN bodies : i <= Len(Good) => bodies[i] = Announced(Good[i])

(***************************************************************************)
(* A message is refused only for what it is: INCOMPLETE means that more    *)
(* data is needed, not that the message is given up (http.hpp:22).  The    *)
(* process gives up only at a continuation line (header_parser.cpp:242).   *)
(***************************************************************************)
OnlyBadRefused ==
    /\ pc = "denied" => done < Len(input) /\ ~WellFormed(input[done + 1])
    /\ pc = "aborted" => done < Len(input) /\ Continued(input[done + 1])

(* Every header comes out or is refused in the end. *)
HeadersEnd ==
    <>(pc \in {"denied", "aborted"} \/ Len(bodies) = Len(input))

===============================================================================
