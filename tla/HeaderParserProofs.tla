-------------------------- MODULE HeaderParserProofs --------------------------
(***************************************************************************)
(* The theorems about HeaderParser, for messages of any content and        *)
(* length, every segmentation and every size of the buffers: no position   *)
(* leaves its buffer (BuffersOK), and, for inputs whose parts are where    *)
(* the bytes say, what is written is what came (HeadersRelayed), each body *)
(* is announced with its encoding and size (BodyAnnounced), and only       *)
(* what the code must refuse is refused (OnlyBadRefused).                  *)
(***************************************************************************)
EXTENDS HeaderParser, NaturalsInduction, WellFoundedInduction, SequenceTheorems,
        TLAPS

Text == Seq(STRING)
FieldRecord == [name : Text, value : Text]

(* The positions of the read buffer.  A token never grows beyond
   MAX_FIELD_LENGTH, so the bound of the scan is never in front of its begin. *)
PositionInv ==
    /\ raw \in Text /\ unread \in Text /\ Len(raw) <= BufLength
    /\ process_position \in 0 .. Len(raw) /\ offset \in 0 .. Len(raw)
    /\ line_offset \in 0 .. Len(raw)
    /\ current_length \in 0 .. MAX_FIELD_LENGTH

(* The message_buffer. *)
LineInv == line \in [1 .. 3 -> Text] /\ \A i \in 1 .. 3 : Len(line[i]) <= MaxToken

FieldsOK(fs) ==
    /\ fs \in Seq(FieldRecord) /\ Len(fs) <= MaxFields
    /\ \A i \in 1 .. Len(fs) : Len(fs[i].name) <= MaxName /\ Len(fs[i].value) <= MaxValue

FieldInv == FieldsOK(fields) /\ current_field \in Nat /\ Len(fields) - current_field \in 0 .. 1

(* header_writer is between two texts unless it is pushing, and never within
   a field that the message does not have. *)
WriterInv ==
    /\ message_state \in {"PARSE_HEADER", "PUSH_HEADER", "PARSE_BODY"}
    /\ written \in Nat /\ write_header_state \in 1 .. 11 /\ current_dump_header \in Nat
    /\ message_state # "PUSH_HEADER" => written = 0 /\ write_header_state \in {1, 11}
    /\ message_state = "PUSH_HEADER" =>
          /\ current_dump_header <= Len(fields)
          /\ write_header_state \in 8 .. 10 => current_dump_header < Len(fields)
    /\ written > 0 => written <= Len(BufferToWrite)

HeaderInv == PositionInv /\ LineInv /\ FieldInv /\ WriterInv

-----------------------------------------------------------------------------
(* The operators. *)

LEMMA LeastPosition ==
    ASSUME NEW T \in SUBSET Nat, T # {}
    PROVE  Min(T) \in T
  <1> DEFINE R == {ij \in Nat \X Nat : ij[1] < ij[2]}
  <1>1. IsWellFoundedOn(R, Nat)
    BY NatLessThanWellFounded DEF OpToRel
  <1>2. \E n \in T : \A m \in T : ~(<<m, n>> \in R)
    BY <1>1, WFMin
  <1>3. \A m, n \in Nat : m < n => <<m, n>> \in R
    OBVIOUS
  <1> HIDE DEF R
  <1>4. \A m, n \in Nat : ~(m < n) => n <= m
    OBVIOUS
  <1>5. \E n \in T : \A m \in T : n =< m
    BY <1>2, <1>3, <1>4
  <1> QED BY <1>5 DEF Min

(* parse_token() and parse_equal() stay in the buffer, and within the length. *)
ScanOK(r, begin) ==
    /\ r.end \in begin .. Len(raw) /\ r.length \in 0 .. MAX_FIELD_LENGTH
    /\ r.status = "COMPLETE" => r.end + 1 <= Len(raw)

LEMMA ScanBounds ==
    ASSUME PositionInv, NEW begin \in 0 .. Len(raw), NEW stops, NEW refused
    PROVE  ScanOK(Scan(begin, stops, refused), begin)
  <1> DEFINE limit == Min({Len(raw), begin + MAX_FIELD_LENGTH - current_length})
             found == {i \in begin .. limit - 1 : raw[i + 1] \in stops \cup refused}
             r == Scan(begin, stops, refused)
  <1>1. /\ Len(raw) \in Nat /\ MAX_FIELD_LENGTH \in Nat /\ begin \in Nat
        /\ current_length \in 0 .. MAX_FIELD_LENGTH
    BY HeaderAssumption DEF PositionInv, Text
  <1>2. /\ limit \in begin .. Len(raw) /\ limit <= begin + MAX_FIELD_LENGTH - current_length
    <2>1. \E x \in {Len(raw), begin + MAX_FIELD_LENGTH - current_length} :
             \A y \in {Len(raw), begin + MAX_FIELD_LENGTH - current_length} : x =< y
      BY <1>1
    <2>2. /\ limit \in {Len(raw), begin + MAX_FIELD_LENGTH - current_length}
          /\ \A y \in {Len(raw), begin + MAX_FIELD_LENGTH - current_length} : limit =< y
      BY <2>1 DEF Min
    <2> QED BY <1>1, <2>2
  <1>3. CASE found # {}
    <2>1. Min(found) \in found
      <3> HIDE DEF limit
      <3>1. found \in SUBSET Nat
        BY <1>1, <1>2
      <3> HIDE DEF found
      <3> QED BY <1>3, <3>1, LeastPosition
    <2>2. r.end = Min(found) /\ r.length = current_length + Min(found) - begin
      BY <1>3 DEF Scan
    <2> HIDE DEF r, limit
    <2>3. Min(found) \in begin .. limit - 1
      BY <2>1
    <2> QED BY <1>1, <1>2, <2>2, <2>3 DEF ScanOK, r
  <1>4. CASE found = {}
    <2>1. r.end = limit /\ r.length = current_length + limit - begin /\ r.status # "COMPLETE"
      BY <1>4 DEF Scan
    <2> HIDE DEF r, limit
    <2> QED BY <1>1, <1>2, <2>1 DEF ScanOK, r
  <1> QED BY <1>3, <1>4

LEMMA PieceText ==
    ASSUME PositionInv, NEW begin \in 0 .. Len(raw), NEW end \in begin .. Len(raw)
    PROVE  Piece(begin, end) \in Text
  BY DEF PositionInv, Text, Piece

LEMMA CharBounds ==
    ASSUME PositionInv, NEW begin \in 0 .. Len(raw), NEW c, ParseChar(begin, c) # "INCOMPLETE"
    PROVE  begin + 1 <= Len(raw)
  BY DEF PositionInv, Text, ParseChar

(* fits_in_buffer() in front of an append. *)
LEMMA FitsBound ==
    ASSUME NEW old \in Text, NEW piece \in Text, NEW max, Fits(old, piece, max)
    PROVE  old \o piece \in Text /\ Len(old \o piece) <= max
  BY DEF Text, Fits

LEMMA SetValueOK ==
    ASSUME NEW fs, FieldsOK(fs), NEW n \in 1 .. Len(fs), NEW piece \in Text,
           Fits(fs[n].value, piece, MaxValue)
    PROVE  /\ FieldsOK([fs EXCEPT ![n].value = @ \o piece])
           /\ Len([fs EXCEPT ![n].value = @ \o piece]) = Len(fs)
  <1> DEFINE f == [fs[n] EXCEPT !.value = @ \o piece]
             gs == [fs EXCEPT ![n] = f]
  <1>1. fs \in Seq(FieldRecord) /\ fs[n] \in FieldRecord
    BY DEF FieldsOK
  <1>2. fs[n].value \o piece \in Text /\ Len(fs[n].value \o piece) <= MaxValue
    BY <1>1, FitsBound DEF FieldRecord
  <1>3. f \in FieldRecord /\ f.name = fs[n].name /\ Len(f.value) <= MaxValue
    BY <1>1, <1>2 DEF FieldRecord
  <1> HIDE DEF f
  <1>4. gs \in Seq(FieldRecord) /\ Len(gs) = Len(fs)
    BY <1>1, <1>3
  <1>5. \A i \in 1 .. Len(gs) : Len(gs[i].name) <= MaxName /\ Len(gs[i].value) <= MaxValue
    BY <1>1, <1>3, <1>4 DEF FieldsOK
  <1> QED BY <1>4, <1>5 DEF FieldsOK, f

LEMMA SetNameOK ==
    ASSUME NEW fs, FieldsOK(fs), NEW n \in 1 .. Len(fs), NEW piece \in Text,
           Fits(fs[n].name, piece, MaxName)
    PROVE  /\ FieldsOK([fs EXCEPT ![n].name = @ \o piece])
           /\ Len([fs EXCEPT ![n].name = @ \o piece]) = Len(fs)
  <1> DEFINE f == [fs[n] EXCEPT !.name = @ \o piece]
             gs == [fs EXCEPT ![n] = f]
  <1>1. fs \in Seq(FieldRecord) /\ fs[n] \in FieldRecord
    BY DEF FieldsOK
  <1>2. fs[n].name \o piece \in Text /\ Len(fs[n].name \o piece) <= MaxName
    BY <1>1, FitsBound DEF FieldRecord
  <1>3. f \in FieldRecord /\ f.value = fs[n].value /\ Len(f.name) <= MaxName
    BY <1>1, <1>2 DEF FieldRecord
  <1> HIDE DEF f
  <1>4. gs \in Seq(FieldRecord) /\ Len(gs) = Len(fs)
    BY <1>1, <1>3
  <1>5. \A i \in 1 .. Len(gs) : Len(gs[i].name) <= MaxName /\ Len(gs[i].value) <= MaxValue
    BY <1>1, <1>3, <1>4 DEF FieldsOK
  <1> QED BY <1>4, <1>5 DEF FieldsOK, f

(* set_field_name(): of the fields there is room for. *)
LEMMA SetFieldNameOK ==
    ASSUME FieldInv, NEW piece \in Text, NEW status, SetFieldName(piece, status), UNCHANGED current_field
    PROVE  FieldInv' /\ Len(fields') >= Len(fields)
  <1> DEFINE fs == FieldsForName
             n == current_field + 1
  <1>1. /\ FieldsOK(fields) /\ fields \in Seq(FieldRecord) /\ Len(fields) \in Nat
        /\ current_field \in Nat /\ Len(fields) - current_field \in 0 .. 1
        /\ MaxFields \in Nat /\ MaxName \in Nat /\ MaxValue \in Nat
    BY HeaderAssumption DEF FieldInv, FieldsOK
  <1>2. CASE UNCHANGED fields
    BY <1>1, <1>2 DEF FieldInv
  <1>3. CASE ~TooManyFields
    <2>1. FieldsOK(fs) /\ Len(fs) = n
      <3>1. CASE Len(fields) = current_field
        <4>1. fs = Append(fields, NewField) /\ current_field < MaxFields
          BY <1>1, <1>3, <3>1 DEF FieldsForName, TooManyFields
        <4>2. <<>> \in Text /\ Len(<<>>) = 0
          BY DEF Text
        <4>3. NewField \in FieldRecord /\ Len(NewField.name) = 0 /\ Len(NewField.value) = 0
          BY <4>2 DEF NewField, FieldRecord
        <4> HIDE DEF fs
        <4>4. /\ fs \in Seq(FieldRecord) /\ Len(fs) = n /\ fs[n] = NewField
              /\ \A i \in 1 .. Len(fields) : fs[i] = fields[i]
          BY <1>1, <3>1, <4>1, <4>3
        <4>5. ASSUME NEW i \in 1 .. Len(fs)
              PROVE  Len(fs[i].name) <= MaxName /\ Len(fs[i].value) <= MaxValue
          <5>1. i \in 1 .. Len(fields) \/ i = n
            BY <1>1, <3>1, <4>4
          <5> QED BY <1>1, <4>3, <4>4, <5>1 DEF FieldsOK
        <4> QED BY <1>1, <4>1, <4>4, <4>5 DEF FieldsOK
      <3>2. CASE Len(fields) # current_field
        <4>1. fs = fields /\ Len(fields) = n
          BY <1>1, <3>2 DEF FieldsForName
        <4> QED BY <1>1, <4>1
      <3> QED BY <3>1, <3>2
    <2>2. \/ fields' = fs
          \/ Fits(fs[n].name, piece, MaxName) /\ fields' = [fs EXCEPT ![n].name = @ \o piece]
      BY <1>3 DEF SetFieldName
    <2> HIDE DEF fs
    <2>3. n \in 1 .. Len(fs)
      BY <1>1, <2>1
    <2>4. FieldsOK(fields') /\ Len(fields') = n
      <3>1. CASE fields' = fs
        BY <2>1, <3>1
      <3>2. CASE Fits(fs[n].name, piece, MaxName) /\ fields' = [fs EXCEPT ![n].name = @ \o piece]
        <4>1. /\ FieldsOK([fs EXCEPT ![n].name = @ \o piece])
              /\ Len([fs EXCEPT ![n].name = @ \o piece]) = Len(fs)
          BY <2>1, <2>3, <3>2, SetNameOK
        <4> QED BY <2>1, <3>2, <4>1
      <3> QED BY <2>2, <3>1, <3>2
    <2> QED BY <1>1, <2>4 DEF FieldInv
  <1> QED BY <1>2, <1>3 DEF SetFieldName

-----------------------------------------------------------------------------
(* The parser.  It never runs while a header is being written. *)

LEMMA PositionsMoved ==
    ASSUME PositionInv, UNCHANGED <<raw, unread>>,
           process_position' \in 0 .. Len(raw), offset' \in 0 .. Len(raw),
           line_offset' \in 0 .. Len(raw), current_length' \in 0 .. MAX_FIELD_LENGTH
    PROVE  PositionInv'
  BY DEF PositionInv

LEMMA MessageKept ==
    ASSUME LineInv, FieldInv, UNCHANGED <<line, fields, current_field>>
    PROVE  LineInv' /\ FieldInv'
  BY DEF LineInv, FieldInv

LEMMA WriterKept ==
    ASSUME WriterInv, UNCHANGED <<message_state, written, write_header_state, current_dump_header>>,
           message_state = "PARSE_HEADER" \/ UNCHANGED <<line, fields>>
    PROVE  WriterInv'
  <1>1. CASE message_state = "PARSE_HEADER"
    BY <1>1 DEF WriterInv
  <1>2. CASE UNCHANGED <<line, fields>>
    <2>1. UNCHANGED BufferToWrite
      BY <1>2 DEF BufferToWrite, WriteState
    <2> QED BY <1>2, <2>1 DEF WriterInv
  <1> QED BY <1>1, <1>2

(* What is known of the positions. *)
LEMMA PositionFacts ==
    ASSUME PositionInv
    PROVE  /\ Len(raw) \in Nat /\ MAX_FIELD_LENGTH \in Nat
           /\ process_position \in 0 .. Len(raw) /\ offset \in 0 .. Len(raw)
           /\ line_offset \in 0 .. Len(raw) /\ current_length \in 0 .. MAX_FIELD_LENGTH
           /\ 0 \in 0 .. MAX_FIELD_LENGTH /\ 0 \in 0 .. Len(raw)
  BY HeaderAssumption DEF PositionInv, Text

(* non_blocking_read(), or none. *)
LEMMA ReadInv ==
    ASSUME HeaderInv, ReadData \/ SkipRead
    PROVE  HeaderInv'
  <1> USE DEF bufVars, writerVars
  <1>1. LineInv' /\ FieldInv' /\ WriterInv'
    BY MessageKept, WriterKept DEF ReadData, SkipRead, HeaderInv
  <1>2. CASE SkipRead
    BY <1>1, <1>2, PositionFacts, PositionsMoved DEF SkipRead, Enter, HeaderInv
  <1>3. CASE ReadData
    <2>1. PICK k \in 1 .. BufLength :
            /\ k <= Len(unread)
            /\ raw' = SubSeq(unread, 1, k)
            /\ unread' = SubSeq(unread, k + 1, Len(unread))
      BY <1>3 DEF ReadData
    <2>2. BufLength \in Nat /\ unread \in Text /\ current_length \in 0 .. MAX_FIELD_LENGTH
      BY HeaderAssumption DEF HeaderInv, PositionInv
    <2>3. raw' \in Text /\ unread' \in Text /\ Len(raw') = k /\ k <= BufLength
      BY <2>1, <2>2 DEF Text
    <2>4. 0 \in 0 .. Len(raw')
      BY <2>2, <2>3
    <2>5. /\ process_position' = 0 /\ offset' = 0 /\ line_offset' = 0 /\ UNCHANGED current_length
      BY <1>3 DEF ReadData, Enter
    <2> QED BY <1>1, <2>2, <2>3, <2>4, <2>5 DEF HeaderInv, PositionInv
  <1> QED BY <1>2, <1>3

(* start_line_token1() and the two after it. *)
LEMMA AppendTokenOK ==
    ASSUME LineInv, NEW n \in 1 .. 3, NEW piece \in Text, AppendToken(n, piece)
    PROVE  LineInv'
  <1>1. CASE ~Fits(line[n], piece, MaxToken)
    BY <1>1 DEF AppendToken, LineInv
  <1>2. CASE Fits(line[n], piece, MaxToken)
    <2>1. line' = [line EXCEPT ![n] = line[n] \o piece] /\ line[n] \in Text
      BY <1>2 DEF AppendToken, LineInv
    <2>2. line[n] \o piece \in Text /\ Len(line[n] \o piece) <= MaxToken
      BY <1>2, <2>1, FitsBound
    <2> QED BY <2>1, <2>2 DEF LineInv
  <1> QED BY <1>1, <1>2

LEMMA StatusLineInv ==
    ASSUME HeaderInv, ParseStatusToken \/ ParseStatusLF
    PROVE  HeaderInv'
  <1> USE DEF bufVars, writerVars
  <1>1. UNCHANGED <<raw, unread, fields, current_field>> /\ FieldInv'
    BY DEF ParseStatusToken, ParseStatusLF, HeaderInv, FieldInv
  <1>2. WriterInv'
    BY WriterKept DEF ParseStatusToken, ParseStatusLF, Parsing, HeaderInv
  <1>3. PositionInv
    BY DEF HeaderInv
  <1>4. CASE ParseStatusToken
    <2> DEFINE n == status_line_state
               r == ParseToken(line_offset, Delimiters(n))
               piece == Piece(line_offset, r.end)
    <2>1. n \in 1 .. 3
      BY <1>4 DEF ParseStatusToken
    <2>2. ScanOK(r, line_offset)
      BY <1>3, PositionFacts, ScanBounds DEF ParseToken
    <2>3. /\ AppendToken(n, piece) \/ UNCHANGED line
          /\ \/ current_length' = 0 \/ current_length' = r.length
          /\ \/ UNCHANGED process_position \/ process_position' = offset
          /\ UNCHANGED offset
          /\ \/ UNCHANGED line_offset
             \/ r.status = "COMPLETE" /\ line_offset' = r.end + 1
      BY <1>4 DEF ParseStatusToken, LineReturn, Return, NextStatusLineState
    <2> HIDE DEF r
    <2>4. piece \in Text
      BY <1>3, <2>2, PositionFacts, PieceText DEF ScanOK
    <2> HIDE DEF n, piece
    <2>5. LineInv'
      BY <2>1, <2>3, <2>4, AppendTokenOK DEF HeaderInv, LineInv
    <2>6. /\ process_position' \in 0 .. Len(raw) /\ offset' \in 0 .. Len(raw)
          /\ line_offset' \in 0 .. Len(raw) /\ current_length' \in 0 .. MAX_FIELD_LENGTH
      BY <1>3, <2>2, <2>3, PositionFacts DEF ScanOK
    <2> QED BY <1>1, <1>2, <1>3, <2>5, <2>6, PositionsMoved DEF HeaderInv
  <1>5. CASE ParseStatusLF
    <2>1. /\ current_length' = 0 \/ UNCHANGED current_length
          /\ UNCHANGED process_position \/ process_position' = offset
          /\ \/ UNCHANGED offset
             \/ ParseChar(line_offset, "LF") = "COMPLETE" /\ offset' = line_offset + 1
          /\ UNCHANGED <<line_offset, line>>
      BY <1>5 DEF ParseStatusLF, LineReturn, Return, GoTo
    <2>2. LineInv'
      BY <2>1 DEF HeaderInv, LineInv
    <2>3. ParseChar(line_offset, "LF") = "COMPLETE" => line_offset + 1 <= Len(raw)
      BY <1>3, PositionFacts, CharBounds
    <2>4. /\ process_position' \in 0 .. Len(raw) /\ offset' \in 0 .. Len(raw)
          /\ line_offset' \in 0 .. Len(raw) /\ current_length' \in 0 .. MAX_FIELD_LENGTH
      BY <1>3, <2>1, <2>3, PositionFacts
    <2> QED BY <1>1, <1>2, <1>3, <2>2, <2>4, PositionsMoved DEF HeaderInv
  <1> QED BY <1>4, <1>5

(* The steps that look at one byte, or skip blanks. *)
LEMMA SeparatorInv ==
    ASSUME HeaderInv, EndHeadersCR \/ FieldValueLF \/ FieldValueLeadingLWS \/ FieldValueLWS
    PROVE  HeaderInv'
  <1> USE DEF bufVars, writerVars
  <1>1. /\ UNCHANGED <<raw, unread, line, fields, current_field, line_offset>>
        /\ LineInv' /\ FieldInv'
    BY MessageKept DEF EndHeadersCR, FieldValueLF, FieldValueLeadingLWS, FieldValueLWS, HeaderInv
  <1>2. WriterInv'
    BY <1>1, WriterKept DEF EndHeadersCR, FieldValueLF, FieldValueLeadingLWS, FieldValueLWS, HeaderInv
  <1>3. PositionInv
    BY DEF HeaderInv
  <1>4. CASE EndHeadersCR \/ FieldValueLF
    <2>1. /\ current_length' = 0 \/ UNCHANGED current_length
          /\ UNCHANGED process_position \/ process_position' = offset
          /\ \/ UNCHANGED offset
             \/ offset' = offset + 1 /\ \E c : ParseChar(offset, c) = "COMPLETE"
      BY <1>4 DEF EndHeadersCR, FieldValueLF, Return, GoTo
    <2>2. \A c : ParseChar(offset, c) = "COMPLETE" => offset + 1 <= Len(raw)
      BY <1>3, PositionFacts, CharBounds
    <2>3. /\ process_position' \in 0 .. Len(raw) /\ offset' \in 0 .. Len(raw)
          /\ line_offset' \in 0 .. Len(raw) /\ current_length' \in 0 .. MAX_FIELD_LENGTH
      BY <1>1, <1>3, <2>1, <2>2, PositionFacts
    <2> QED BY <1>1, <1>2, <1>3, <2>3, PositionsMoved DEF HeaderInv
  <1>5. CASE FieldValueLeadingLWS \/ FieldValueLWS
    <2> DEFINE r == ParseEqual(offset)
    <2>1. ScanOK(r, offset)
      BY <1>3, PositionFacts, ScanBounds DEF ParseEqual
    <2>2. /\ current_length' = 0 \/ current_length' = r.length
          /\ \/ UNCHANGED process_position \/ process_position' = offset \/ process_position' = r.end
          /\ UNCHANGED offset \/ offset' = offset \/ offset' = r.end
      BY <1>5 DEF FieldValueLeadingLWS, FieldValueLWS, Return, GoTo
    <2> HIDE DEF r
    <2>3. /\ process_position' \in 0 .. Len(raw) /\ offset' \in 0 .. Len(raw)
          /\ line_offset' \in 0 .. Len(raw) /\ current_length' \in 0 .. MAX_FIELD_LENGTH
      BY <1>1, <1>3, <2>1, <2>2, PositionFacts DEF ScanOK
    <2> QED BY <1>1, <1>2, <1>3, <2>3, PositionsMoved DEF HeaderInv
  <1> QED BY <1>4, <1>5

(* end_fields() *)
LEMMA EndHeadersInv ==
    ASSUME HeaderInv, EndHeadersLF
    PROVE  HeaderInv'
  <1> USE DEF bufVars, parserVars, writerVars
  <1>1. /\ UNCHANGED <<raw, unread, line, fields, current_field, offset, line_offset, current_length>>
        /\ LineInv' /\ FieldInv'
    BY MessageKept DEF EndHeadersLF, HeaderInv
  <1>2. PositionInv /\ PositionInv'
    <2>1. PositionInv
      BY DEF HeaderInv
    <2>2. \/ process_position' = offset
          \/ process_position' = offset + 1 /\ ParseChar(offset, "LF") = "COMPLETE"
      BY DEF EndHeadersLF, Return
    <2>3. ParseChar(offset, "LF") = "COMPLETE" => offset + 1 <= Len(raw)
      BY <2>1, PositionFacts, CharBounds
    <2>4. process_position' \in 0 .. Len(raw)
      BY <2>1, <2>2, <2>3, PositionFacts
    <2> QED BY <1>1, <2>1, <2>4, PositionFacts, PositionsMoved
  <1>3. WriterInv'
    <2>1. CASE UNCHANGED <<message_state, write_header_state, current_dump_header, written>>
      BY <1>1, <2>1, WriterKept DEF HeaderInv
    <2>2. CASE message_state' = "PUSH_HEADER" /\ ResetWriter
      <3>1. Len(fields) \in Nat
        BY DEF HeaderInv, FieldInv, FieldsOK
      <3> QED BY <1>1, <2>2, <3>1 DEF ResetWriter, START_LINE_TOKEN1, WriterInv
    <2> QED BY <2>1, <2>2 DEF EndHeadersLF
  <1> QED BY <1>1, <1>2, <1>3 DEF HeaderInv

(* set_field_name() *)
LEMMA FieldNameInv ==
    ASSUME HeaderInv, FieldName
    PROVE  HeaderInv'
  <1> USE DEF bufVars, writerVars
  <1>1. UNCHANGED <<raw, unread, line, current_field, line_offset>> /\ LineInv'
    BY DEF FieldName, HeaderInv, LineInv
  <1>2. WriterInv'
    BY WriterKept DEF FieldName, Parsing, HeaderInv
  <1>3. PositionInv
    BY DEF HeaderInv
  <1> DEFINE r == ParseToken(offset, {":"})
             piece == Piece(offset, r.end)
  <1>4. ScanOK(r, offset)
    BY <1>3, PositionFacts, ScanBounds DEF ParseToken
  <1>5. /\ UNCHANGED fields \/ \E status : SetFieldName(piece, status)
        /\ current_length' = 0 \/ current_length' = r.length
        /\ \/ UNCHANGED process_position \/ process_position' = offset \/ process_position' = r.end
           \/ r.status = "COMPLETE" /\ process_position' = r.end + 1
        /\ \/ UNCHANGED offset
           \/ r.status = "COMPLETE" /\ offset' = r.end + 1
    BY DEF FieldName, Return, GoTo
  <1> HIDE DEF r
  <1>6. piece \in Text
    BY <1>3, <1>4, PositionFacts, PieceText DEF ScanOK
  <1> HIDE DEF piece
  <1>7. FieldInv'
    <2>1. CASE UNCHANGED fields
      BY <1>1, <2>1 DEF HeaderInv, FieldInv
    <2>2. CASE \E status : SetFieldName(piece, status)
      BY <1>1, <1>6, <2>2, SetFieldNameOK DEF HeaderInv
    <2> QED BY <1>5, <2>1, <2>2
  <1>8. /\ process_position' \in 0 .. Len(raw) /\ offset' \in 0 .. Len(raw)
        /\ line_offset' \in 0 .. Len(raw) /\ current_length' \in 0 .. MAX_FIELD_LENGTH
    BY <1>1, <1>3, <1>4, <1>5, PositionFacts DEF ScanOK
  <1> QED BY <1>1, <1>2, <1>3, <1>7, <1>8, PositionsMoved DEF HeaderInv

(* set_field_value() *)
LEMMA FieldValueInv ==
    ASSUME HeaderInv, FieldValueContent
    PROVE  HeaderInv'
  <1> USE DEF bufVars, writerVars
  <1>1. UNCHANGED <<raw, unread, line, line_offset>> /\ LineInv'
    BY DEF FieldValueContent, HeaderInv, LineInv
  <1>2. WriterInv'
    BY WriterKept DEF FieldValueContent, Parsing, HeaderInv
  <1>3. PositionInv
    BY DEF HeaderInv
  <1> DEFINE r == ParseToken(offset, {"CR"})
             piece == Piece(offset, r.end)
             n == current_field + 1
  <1>4. ScanOK(r, offset)
    BY <1>3, PositionFacts, ScanBounds DEF ParseToken
  <1>5. /\ \/ UNCHANGED <<fields, current_field>>
           \/ /\ ~NoField /\ ValueFits(piece)
              /\ fields' = [fields EXCEPT ![n].value = @ \o piece]
              /\ current_field' \in {current_field, n}
        /\ UNCHANGED current_length \/ current_length' = 0 \/ current_length' = r.length
        /\ \/ UNCHANGED process_position \/ process_position' = offset \/ process_position' = r.end
           \/ r.status = "COMPLETE" /\ process_position' = r.end + 1
        /\ \/ UNCHANGED offset
           \/ r.status = "COMPLETE" /\ offset' = r.end + 1
    BY DEF FieldValueContent, Return, GoTo
  <1> HIDE DEF r
  <1>6. piece \in Text
    BY <1>3, <1>4, PositionFacts, PieceText DEF ScanOK
  <1> HIDE DEF piece
  <1>7. FieldInv'
    <2>1. /\ FieldsOK(fields) /\ Len(fields) \in Nat /\ current_field \in Nat
          /\ Len(fields) - current_field \in 0 .. 1
      BY DEF HeaderInv, FieldInv, FieldsOK
    <2>2. CASE UNCHANGED <<fields, current_field>>
      BY <2>1, <2>2 DEF FieldInv
    <2>3. CASE /\ ~NoField /\ ValueFits(piece)
               /\ fields' = [fields EXCEPT ![n].value = @ \o piece]
               /\ current_field' \in {current_field, n}
      <3>1. n \in 1 .. Len(fields) /\ Len(fields) = n
        BY <2>1, <2>3 DEF NoField
      <3>2. Fits(fields[n].value, piece, MaxValue)
        BY <2>3 DEF ValueFits
      <3>3. /\ FieldsOK([fields EXCEPT ![n].value = @ \o piece])
            /\ Len([fields EXCEPT ![n].value = @ \o piece]) = Len(fields)
        BY <1>6, <2>1, <3>1, <3>2, SetValueOK
      <3>4. FieldsOK(fields') /\ Len(fields') = n
        BY <2>3, <3>1, <3>3
      <3> QED BY <2>1, <2>3, <3>4 DEF FieldInv
    <2> QED BY <1>5, <2>2, <2>3
  <1>8. /\ process_position' \in 0 .. Len(raw) /\ offset' \in 0 .. Len(raw)
        /\ line_offset' \in 0 .. Len(raw) /\ current_length' \in 0 .. MAX_FIELD_LENGTH
    BY <1>1, <1>3, <1>4, <1>5, PositionFacts DEF ScanOK
  <1> QED BY <1>1, <1>2, <1>3, <1>7, <1>8, PositionsMoved DEF HeaderInv

-----------------------------------------------------------------------------
(* The writer. *)

(* The text that is being written has a length: it is one the message has. *)
LEMMA TextToWrite ==
    ASSUME HeaderInv, message_state = "PUSH_HEADER" \/ written = 0
    PROVE  /\ \E S : BufferToWrite \in Seq(S)
           /\ WriteState \in 1 .. 11 /\ written <= Len(BufferToWrite)
  <1> USE DEF FIELD_NAME, FIELD_SEPERATOR, END_FIELDS
  <1>1. /\ line[1] \in Seq(STRING) /\ line[2] \in Seq(STRING) /\ line[3] \in Seq(STRING)
        /\ fields \in Seq(FieldRecord) /\ Len(fields) \in Nat
    BY DEF HeaderInv, LineInv, FieldInv, FieldsOK, Text
  <1>2. /\ written \in Nat /\ write_header_state \in 1 .. 11 /\ current_dump_header \in Nat
        /\ WriteState \in 1 .. 11
    BY DEF HeaderInv, WriterInv, WriteState
  <1>3. EndLine \in Seq({"CR", "LF"}) /\ Space \in Seq({"SP"}) /\ FieldSep \in Seq({":", "SP"})
    BY DEF EndLine, Space, FieldSep
  <1>4. WriteState \in {7, 9} => current_dump_header + 1 \in 1 .. Len(fields)
    BY <1>1, <1>2 DEF HeaderInv, WriterInv, WriteState
  <1>5. WriteState \in {7, 9} => fields[current_dump_header + 1] \in FieldRecord
    BY <1>1, <1>4
  <1>6. \E S : BufferToWrite \in Seq(S)
    <2>1. CASE WriteState \in {1, 3, 5}
      <3>1. BufferToWrite \in Seq(STRING)
        BY <1>1, <2>1 DEF BufferToWrite
      <3> QED BY <3>1
    <2>2. CASE WriteState \in {2, 4, 6, 8, 10, 11}
      <3>1. BufferToWrite \in {EndLine, Space, FieldSep}
        BY <2>2 DEF BufferToWrite
      <3> QED BY <1>3, <3>1
    <2>3. CASE WriteState \in {7, 9}
      <3>1. BufferToWrite \in Seq(STRING)
        BY <1>5, <2>3 DEF BufferToWrite, FieldRecord, Text
      <3> QED BY <3>1
    <2>4. WriteState \in {1, 3, 5} \cup {2, 4, 6, 8, 10, 11} \cup {7, 9}
      BY <1>2
    <2> QED BY <2>1, <2>2, <2>3, <2>4
  <1>7. written <= Len(BufferToWrite)
    BY <1>2, <1>6 DEF HeaderInv, WriterInv
  <1> QED BY <1>2, <1>6, <1>7

(* write_header(): a text that blocked is resumed where it stopped, and the
   state goes from one text to the next. *)
LEMMA WriteInv ==
    ASSUME HeaderInv, WriteBlocks \/ WriteHeader
    PROVE  HeaderInv'
  <1> USE DEF bufVars, parserVars
  <1>1. /\ UNCHANGED <<raw, unread, process_position, offset, line_offset, current_length, line,
                       fields, current_field, message_state>>
        /\ message_state = "PUSH_HEADER"
    BY DEF WriteBlocks, WriteHeader, Pushing
  <1>2. PositionInv' /\ LineInv' /\ FieldInv'
    BY <1>1, MessageKept DEF HeaderInv, PositionInv
  <1>3. /\ written \in Nat /\ write_header_state \in 1 .. 11 /\ current_dump_header \in Nat
        /\ Len(fields) \in Nat /\ current_dump_header <= Len(fields)
        /\ write_header_state \in 8 .. 10 => current_dump_header < Len(fields)
    BY <1>1 DEF HeaderInv, WriterInv, FieldInv, FieldsOK
  <1>4. WriteState \in 1 .. 11 /\ (WriteState \in 7 .. 10 => current_dump_header < Len(fields))
    BY <1>3 DEF WriteState, FIELD_NAME, END_FIELDS
  <1>5. CASE WriteBlocks
    <2>1. UNCHANGED current_dump_header /\ write_header_state' = WriteState
      BY <1>5 DEF WriteBlocks
    <2>2. UNCHANGED BufferToWrite
      <3>1. WriteState' = WriteState
        BY <1>1, <2>1 DEF WriteState, FIELD_NAME, END_FIELDS
      <3> QED BY <1>1, <2>1, <3>1 DEF BufferToWrite
    <2>3. written' \in Nat /\ written' <= Len(BufferToWrite)
      <3> DEFINE B == BufferToWrite
      <3>1. PICK k \in 0 .. Len(Unwritten) : written' = written + k
        BY <1>5 DEF WriteBlocks
      <3>2. PICK S : B \in Seq(S)
        BY <1>1, TextToWrite
      <3>3. written <= Len(B) /\ Unwritten = SubSeq(B, written + 1, Len(B))
        BY <1>1, TextToWrite DEF Unwritten
      <3> HIDE DEF B
      <3>4. Len(Unwritten) = Len(B) - written
        BY <1>3, <3>2, <3>3
      <3>5. written' \in Nat /\ written' <= Len(B)
        BY <1>3, <3>1, <3>2, <3>3, <3>4
      <3> QED BY <3>5 DEF B
    <2>4. WriterInv'
      BY <1>1, <1>3, <1>4, <2>1, <2>2, <2>3 DEF WriterInv
    <2> QED BY <1>2, <2>4 DEF HeaderInv
  <1>6. CASE WriteHeader
    <2>1. /\ WriteState # 11 /\ written' = 0
          /\ write_header_state' = IF WriteState = 10 THEN 7 ELSE WriteState + 1
          /\ current_dump_header' = current_dump_header + IF WriteState = 10 THEN 1 ELSE 0
      BY <1>6 DEF WriteHeader, WriteRest, FIELD_NAME, FIELD_SEPERATOR, END_FIELDS
    <2>2. /\ current_dump_header' \in Nat /\ current_dump_header' <= Len(fields)
          /\ write_header_state' \in 1 .. 11
          /\ write_header_state' \in 8 .. 10 => current_dump_header' < Len(fields)
      BY <1>3, <1>4, <2>1
    <2>3. WriterInv'
      BY <1>1, <2>1, <2>2 DEF WriterInv
    <2> QED BY <1>2, <2>3 DEF HeaderInv
  <1> QED BY <1>5, <1>6

(* The header is out: the parser and the handler start over. *)
LEMMA EndHeaderInv ==
    ASSUME HeaderInv, EndHeader
    PROVE  HeaderInv'
  <1> USE DEF bufVars, parserVars
  <1>1. /\ UNCHANGED <<raw, unread, current_dump_header>> /\ written' = 0
        /\ write_header_state' = 11
    BY DEF EndHeader, WriteRest, END_FIELDS
  <1>2. CASE body_encoding = "NONE" /\ message_state' = "PARSE_HEADER" /\ ResetParser
             /\ ResetHandler /\ Enter(process_position)
    <2>1. PositionInv'
      BY <1>1, <1>2, PositionFacts, PositionsMoved DEF ResetParser, Enter, HeaderInv
    <2>2. LineInv'
      <3>1. line' = [i \in 1 .. 3 |-> <<>>] /\ <<>> \in Text /\ Len(<<>>) = 0 /\ MaxToken \in Nat
        BY <1>2, HeaderAssumption DEF ResetHandler, ResetMessage, Text
      <3> QED BY <3>1 DEF LineInv
    <2>3. FieldInv'
      <3>1. fields' = <<>> /\ current_field' = 0 /\ MaxFields \in Nat
        BY <1>2, HeaderAssumption DEF ResetHandler, ResetMessage
      <3> QED BY <3>1 DEF FieldInv, FieldsOK
    <2>4. WriterInv'
      BY <1>1, <1>2 DEF HeaderInv, WriterInv
    <2> QED BY <2>1, <2>2, <2>3, <2>4 DEF HeaderInv
  <1>3. CASE message_state' = "PARSE_BODY"
             /\ UNCHANGED <<pc, done, process_position, parserVars, line, fields, current_field, scanVars>>
    <2>1. PositionInv' /\ LineInv' /\ FieldInv'
      BY <1>1, <1>3, MessageKept DEF HeaderInv, PositionInv
    <2>2. WriterInv'
      BY <1>1, <1>3 DEF HeaderInv, WriterInv
    <2> QED BY <2>1, <2>2 DEF HeaderInv
  <1> QED BY <1>2, <1>3 DEF EndHeader

LEMMA HeaderInit == Init => HeaderInv
  <1> SUFFICES ASSUME Init PROVE HeaderInv
    OBVIOUS
  <1>1. /\ raw = <<>> /\ input \in Inputs /\ unread = Sent(input)
        /\ process_position = 0 /\ offset = 0 /\ line_offset = 0 /\ current_length = 0
        /\ line = [i \in 1 .. 3 |-> <<>>] /\ fields = <<>> /\ current_field = 0
        /\ message_state = "PARSE_HEADER" /\ written = 0 /\ write_header_state = 1
        /\ current_dump_header = 0
    BY DEF Init, START_LINE_TOKEN1
  <1>2. {BufLength, MAX_FIELD_LENGTH, MaxToken, MaxName, MaxValue, MaxFields} \subseteq Nat
    BY HeaderAssumption
  <1>3. <<>> \in Text /\ Len(<<>>) = 0 /\ unread \in Text
    BY <1>1, InputAssumption DEF Text
  <1>4. PositionInv
    BY <1>1, <1>2, <1>3 DEF PositionInv
  <1>5. LineInv
    BY <1>1, <1>2, <1>3 DEF LineInv
  <1>6. FieldInv
    BY <1>1, <1>2 DEF FieldInv, FieldsOK
  <1>7. WriterInv
    BY <1>1 DEF WriterInv
  <1> QED BY <1>4, <1>5, <1>6, <1>7 DEF HeaderInv

LEMMA HeaderStep == HeaderInv /\ [Next]_vars => HeaderInv'
  <1> SUFFICES ASSUME HeaderInv, [Next]_vars PROVE HeaderInv'
    OBVIOUS
  <1>1. CASE ReadData \/ SkipRead
    BY <1>1, ReadInv
  <1>2. CASE ParseStatusToken \/ ParseStatusLF
    BY <1>2, StatusLineInv
  <1>3. CASE EndHeadersCR \/ FieldValueLF \/ FieldValueLeadingLWS \/ FieldValueLWS
    BY <1>3, SeparatorInv
  <1>4. CASE EndHeadersLF
    BY <1>4, EndHeadersInv
  <1>5. CASE FieldName
    BY <1>5, FieldNameInv
  <1>6. CASE FieldValueContent
    BY <1>6, FieldValueInv
  <1>7. CASE WriteBlocks \/ WriteHeader
    BY <1>7, WriteInv
  <1>8. CASE EndHeader
    BY <1>8, EndHeaderInv
  <1>9. CASE UNCHANGED vars
    <2>1. UNCHANGED <<raw, unread, process_position, offset, line_offset, current_length, line, fields,
                      current_field, message_state, written, write_header_state, current_dump_header>>
      BY <1>9 DEF vars, bufVars, parserVars, writerVars
    <2>2. PositionInv' /\ LineInv' /\ FieldInv' /\ WriterInv'
      BY <2>1, MessageKept, WriterKept DEF HeaderInv, PositionInv
    <2> QED BY <2>2 DEF HeaderInv
  <1> QED BY <1>1, <1>2, <1>3, <1>4, <1>5, <1>6, <1>7, <1>8, <1>9 DEF Next, Parse, Write

(***************************************************************************)
(* The parser, the message_buffer and the writer stay within their buffers *)
(* for every input: no token, name or value outgrows its buffer however it *)
(* is cut into reads, no scan leaves the read buffer, a message has at     *)
(* most MaxFields fields of which the one being filled is the last, and    *)
(* the writer resumes within the text that blocked, whichever it was.      *)
(***************************************************************************)
THEOREM BuffersKept == Spec => []BuffersOK
  <1>1. HeaderInv => BuffersOK
    <2> SUFFICES ASSUME HeaderInv PROVE BuffersOK
      OBVIOUS
    <2>1. message_state = "PUSH_HEADER" \/ written = 0
      BY DEF HeaderInv, WriterInv
    <2>2. written <= Len(BufferToWrite)
      BY <2>1, TextToWrite
    <2>3. /\ Len(raw) <= BufLength /\ process_position <= Len(raw)
          /\ offset <= Len(raw) /\ line_offset <= Len(raw)
      BY PositionFacts DEF HeaderInv, PositionInv
    <2>4. /\ \A i \in 1 .. 3 : Len(line[i]) <= MaxToken
          /\ Len(fields) <= MaxFields /\ Len(fields) - current_field \in 0 .. 1
      BY DEF HeaderInv, LineInv, FieldInv, FieldsOK
    <2>5. \A i \in DOMAIN fields : Len(fields[i].name) <= MaxName /\ Len(fields[i].value) <= MaxValue
      BY DEF HeaderInv, FieldInv, FieldsOK
    <2> QED BY <2>2, <2>3, <2>4, <2>5 DEF BuffersOK
  <1> QED BY <1>1, HeaderInit, HeaderStep, PTL DEF Spec

-----------------------------------------------------------------------------
(* Sequences: what stands where in a sequence that is joined from others. *)

(* A set of numbers has a least one. *)
LEMMA LeastNumber ==
    ASSUME NEW T \in SUBSET Nat, T # {}
    PROVE  \E n \in T : \A k \in T : n <= k
  <1> DEFINE R == {ab \in Nat \X Nat : ab[1] < ab[2]}
  <1>1. IsWellFoundedOn(R, Nat)
    BY NatLessThanWellFounded DEF OpToRel
  <1>2. PICK n \in T : \A k \in T : ~(<<k, n>> \in R)
    <2> HIDE DEF R
    <2> QED BY <1>1, WFMin
  <1>3. ASSUME NEW k \in T PROVE n <= k
    <2>1. k \in Nat /\ n \in Nat
      OBVIOUS
    <2>2. k < n => <<k, n>> \in R
      BY <2>1
    <2> QED BY <1>2, <2>1, <2>2
  <1> QED BY <1>3

(* Two sequences in a row. *)
LEMMA Joint ==
    ASSUME NEW S, NEW a \in Seq(S), NEW b \in Seq(S)
    PROVE  /\ a \o b \in Seq(S) /\ Len(a \o b) = Len(a) + Len(b) /\ Len(a) \in Nat /\ Len(b) \in Nat
           /\ \A j \in 1 .. Len(a) : (a \o b)[j] = a[j]
           /\ \A j \in 1 .. Len(b) : (a \o b)[Len(a) + j] = b[j]
  OBVIOUS

(***************************************************************************)
(* FlattenSeq() joins one sequence after the other.                        *)
(***************************************************************************)
Joins(s, n, f) == f[0] = <<>> /\ \A i \in 1 .. n : f[i] = f[i - 1] \o s[i]

(* A sequence of sequences is joined step by step. *)
LEMMA Joined ==
    ASSUME NEW S, NEW s \in Seq(Seq(S))
    PROVE  \E f \in [0 .. Len(s) -> Seq(S)] : Joins(s, Len(s), f)
  <1> DEFINE P(n) == \E f \in [0 .. n -> Seq(S)] : Joins(s, n, f)
             T == {n \in 0 .. Len(s) : ~P(n)}
  <1>0. Len(s) \in Nat /\ T \in SUBSET Nat /\ \A i \in 1 .. Len(s) : s[i] \in Seq(S)
    OBVIOUS
  <1>1. SUFFICES ASSUME T # {} PROVE FALSE
    <2> HIDE DEF P
    <2>1. Len(s) \notin T => P(Len(s))
      BY <1>0
    <2> QED BY <1>1, <2>1 DEF P
  <1>2. PICK n \in T : \A k \in T : n <= k
    <2> HIDE DEF T
    <2> QED BY <1>0, <1>1, LeastNumber
  <1>3. n # 0
    <2>1. [i \in 0 .. 0 |-> <<>>] \in [0 .. 0 -> Seq(S)] /\ Joins(s, 0, [i \in 0 .. 0 |-> <<>>])
      BY DEF Joins
    <2> QED BY <1>2, <2>1
  <1>4. n - 1 \in 0 .. Len(s) /\ n \in 1 .. Len(s) /\ s[n] \in Seq(S)
    BY <1>0, <1>3
  <1>5. PICK f \in [0 .. n - 1 -> Seq(S)] : Joins(s, n - 1, f)
    <2>1. n - 1 \notin T
      <3>1. ~(n <= n - 1)
        BY <1>4
      <3> HIDE DEF T
      <3> QED BY <1>2, <3>1
    <2>2. P(n - 1)
      <3> HIDE DEF P
      <3> QED BY <1>4, <2>1
    <2> QED BY <2>2
  <1> DEFINE g == [i \in 0 .. n |-> IF i = n THEN f[n - 1] \o s[n] ELSE f[i]]
  <1>6. g \in [0 .. n -> Seq(S)]
    <2>1. f[n - 1] \o s[n] \in Seq(S)
      BY <1>4
    <2>2. \A i \in 0 .. n : i # n => f[i] \in Seq(S)
      BY <1>4
    <2> QED BY <2>1, <2>2
  <1>7. Joins(s, n, g)
    <2>1. g[0] = <<>>
      BY <1>4, <1>5 DEF Joins
    <2>2. ASSUME NEW i \in 1 .. n PROVE g[i] = g[i - 1] \o s[i]
      <3>1. CASE i = n
        <4>1. n \in 0 .. n /\ n - 1 \in 0 .. n /\ n - 1 # n
          BY <1>4
        <4>2. g[n] = f[n - 1] \o s[n] /\ g[n - 1] = f[n - 1]
          BY <4>1
        <4> HIDE DEF g
        <4> QED BY <3>1, <4>2
      <3>2. CASE i # n
        <4>1. i \in 1 .. n - 1 /\ i \in 0 .. n /\ i - 1 \in 0 .. n /\ i - 1 # n
          BY <1>4, <3>2
        <4>2. g[i] = f[i] /\ g[i - 1] = f[i - 1]
          BY <3>2, <4>1
        <4> QED BY <1>5, <4>1, <4>2 DEF Joins
      <3> QED BY <3>1, <3>2
    <2> QED BY <2>1, <2>2 DEF Joins
  <1> QED BY <1>2, <1>6, <1>7

(* ... and FlattenSeq() is what comes out. *)
LEMMA Flattened ==
    ASSUME NEW S, NEW s \in Seq(Seq(S)), NEW f \in [0 .. Len(s) -> Seq(S)], Joins(s, Len(s), f),
           NEW n \in 0 .. Len(s)
    PROVE  FlattenSeq(SubSeq(s, 1, n)) = f[n]
  <1> DEFINE t == SubSeq(s, 1, n)
             Solves(g) == g = [i \in 1 .. Len(t) |-> IF i = 1 THEN t[i] ELSE g[i - 1] \o t[i]]
  <1>0. Len(s) \in Nat /\ n \in Nat /\ \A i \in 1 .. Len(s) : s[i] \in Seq(S)
    OBVIOUS
  <1>1. Len(t) = n /\ \A i \in 1 .. n : t[i] = s[i]
    OBVIOUS
  <1> HIDE DEF t
  <1>2. CASE n = 0
    <2>1. t = <<>> /\ Len(t) = 0
      BY <1>1, <1>2 DEF t
    <2>2. FlattenSeq(t) = t
      BY <2>1 DEF FlattenSeq
    <2> QED BY <1>2, <2>1, <2>2 DEF Joins, t
  <1>3. CASE n # 0
    <2>1. FlattenSeq(t) = (CHOOSE g : Solves(g))[n]
      <3>1. Len(t) # 0
        BY <1>1, <1>3
      <3> QED BY <1>1, <3>1, Zenon DEF FlattenSeq
    <2>2. Solves([i \in 1 .. Len(t) |-> f[i]])
      <3> DEFINE h == [i \in 1 .. Len(t) |-> f[i]]
      <3>1. ASSUME NEW i \in 1 .. Len(t) PROVE f[i] = IF i = 1 THEN t[i] ELSE h[i - 1] \o t[i]
        <4>1. i \in 1 .. Len(s) /\ i \in 1 .. n /\ f[i] = f[i - 1] \o s[i] /\ t[i] = s[i] /\ s[i] \in Seq(S)
          <5>1. i \in 1 .. n /\ i \in 1 .. Len(s)
            BY <1>0, <1>1
          <5> QED BY <1>0, <1>1, <5>1 DEF Joins
        <4>2. CASE i = 1
          <5>1. i - 1 = 0
            BY <4>2
          <5>2. f[i - 1] = <<>>
            BY <5>1, Zenon DEF Joins
          <5>3. <<>> \o s[i] = s[i]
            BY <4>1
          <5>4. f[i] = t[i]
            BY <4>1, <5>2, <5>3, Zenon
          <5> HIDE DEF h
          <5> QED BY <4>2, <5>4, Zenon
        <4>3. CASE i # 1
          <5>1. i - 1 \in 1 .. Len(t)
            BY <1>0, <1>1, <4>3
          <5>2. h[i - 1] = f[i - 1]
            BY <5>1
          <5> HIDE DEF h
          <5>3. f[i] = h[i - 1] \o t[i]
            BY <4>1, <5>2, Zenon
          <5> HIDE DEF Solves
          <5> QED BY <4>3, <5>3, Zenon
        <4> QED BY <4>2, <4>3
      <3> QED BY <3>1
    <2> DEFINE g == CHOOSE g : Solves(g)
    <2>3. Solves(g)
      <3> HIDE DEF Solves
      <3> QED BY <2>2, Zenon
    <2> HIDE DEF g
    <2> DEFINE T == {i \in 1 .. n : g[i] # f[i]}
    <2>4. SUFFICES ASSUME T # {} PROVE FALSE
      <3>1. n \in 1 .. n
        BY <1>0, <1>3
      <3>2. FlattenSeq(t) = g[n]
        BY <2>1 DEF g
      <3> QED BY <2>4, <3>1, <3>2 DEF t
    <2>5. PICK i \in T : \A k \in T : i <= k
      <3>1. T \in SUBSET Nat
        OBVIOUS
      <3> HIDE DEF T
      <3> QED BY <2>4, <3>1, LeastNumber
    <2>6. /\ g[i] = IF i = 1 THEN t[i] ELSE g[i - 1] \o t[i]
          /\ i \in 1 .. n /\ g[i] # f[i]
      BY <1>1, <2>3
    <2>7. t[i] = s[i] /\ f[i] = f[i - 1] \o s[i] /\ s[i] \in Seq(S) /\ f[0] = <<>>
      <3>1. i \in 1 .. Len(s)
        BY <1>0, <2>6
      <3> QED BY <1>0, <1>1, <2>6, <3>1 DEF Joins
    <2>8. CASE i = 1
      <3>1. <<>> \o s[i] = s[i]
        BY <2>7
      <3>2. i - 1 = 0
        BY <2>8
      <3>3. f[i] = t[i]
        BY <2>7, <3>1, <3>2, Zenon
      <3>4. g[i] = t[i]
        BY <2>6, <2>8, Zenon
      <3> QED BY <2>6, <3>3, <3>4, Zenon
    <2>9. CASE i # 1
      <3>1. i - 1 \in 1 .. n /\ i - 1 \notin T
        <4>1. i - 1 \in 1 .. n /\ ~(i <= i - 1)
          BY <1>0, <2>6, <2>9
        <4> HIDE DEF T
        <4> QED BY <2>5, <4>1
      <3>2. g[i - 1] = f[i - 1]
        BY <3>1
      <3>3. g[i] = g[i - 1] \o t[i]
        BY <2>6, <2>9, Zenon
      <3>4. g[i] = f[i]
        BY <2>7, <3>2, <3>3, Zenon
      <3> QED BY <2>6, <3>4, Zenon
    <2> QED BY <2>8, <2>9
  <1> QED BY <1>2, <1>3

(* The number of bytes in the first i sequences of s. *)
Upto(s, i) == Len(FlattenSeq(SubSeq(s, 1, i)))

(***************************************************************************)
(* Where the bytes of a sequence are after FlattenSeq().                   *)
(***************************************************************************)
LEMMA FlattenPlaces ==
    ASSUME NEW S, NEW s \in Seq(Seq(S))
    PROVE  /\ FlattenSeq(s) \in Seq(S)
           /\ Upto(s, 0) = 0 /\ Upto(s, Len(s)) = Len(FlattenSeq(s))
           /\ \A i \in 0 .. Len(s) : Upto(s, i) \in 0 .. Len(FlattenSeq(s))
           /\ \A i \in 1 .. Len(s) :
                /\ Upto(s, i) = Upto(s, i - 1) + Len(s[i])
                /\ \A j \in 1 .. Len(s[i]) : FlattenSeq(s)[Upto(s, i - 1) + j] = s[i][j]
  <1>0. Len(s) \in Nat /\ \A i \in 1 .. Len(s) : s[i] \in Seq(S)
    OBVIOUS
  <1>1. PICK f \in [0 .. Len(s) -> Seq(S)] : Joins(s, Len(s), f)
    BY Joined
  <1>2. \A n \in 0 .. Len(s) : FlattenSeq(SubSeq(s, 1, n)) = f[n] /\ Upto(s, n) = Len(f[n])
    BY <1>1, Flattened DEF Upto
  <1>3. SubSeq(s, 1, Len(s)) = s
    OBVIOUS
  <1>4. FlattenSeq(s) = f[Len(s)] /\ FlattenSeq(s) \in Seq(S)
    <2>1. Len(s) \in 0 .. Len(s)
      BY <1>0
    <2> QED BY <1>1, <1>2, <1>3, <2>1
  <1>5. ASSUME NEW i \in 1 .. Len(s)
        PROVE  /\ f[i] = f[i - 1] \o s[i] /\ f[i] \in Seq(S) /\ f[i - 1] \in Seq(S) /\ s[i] \in Seq(S)
               /\ Len(f[i]) = Len(f[i - 1]) + Len(s[i])
    <2>1. i \in 0 .. Len(s) /\ i - 1 \in 0 .. Len(s)
      BY <1>0
    <2>2. f[i] = f[i - 1] \o s[i]
      BY <1>1 DEF Joins
    <2>3. f[i] \in Seq(S) /\ f[i - 1] \in Seq(S) /\ s[i] \in Seq(S)
      BY <1>0, <2>1
    <2> QED BY <2>2, <2>3
  <1> DEFINE R(i, n) ==
               /\ Len(f[i]) <= Len(f[n])
               /\ \A j \in 1 .. Len(f[i]) : f[n][j] = f[i][j]
  <1>6. ASSUME NEW i \in 0 .. Len(s), NEW n \in i .. Len(s) PROVE R(i, n)
    <2> DEFINE T == {k \in i .. Len(s) : ~R(i, k)}
    <2>1. SUFFICES ASSUME T # {} PROVE FALSE
      BY <2>1
    <2>2. PICK k \in T : \A m \in T : k <= m
      <3>1. T \in SUBSET Nat
        BY <1>0
      <3> HIDE DEF T
      <3> QED BY <2>1, <3>1, LeastNumber
    <2>3. k # i /\ k \in i .. Len(s) /\ ~R(i, k)
      BY <2>2
    <2>4. k - 1 \in i .. Len(s) /\ k \in 1 .. Len(s) /\ R(i, k - 1)
      BY <2>2, <2>3
    <2>5. /\ f[k] = f[k - 1] \o s[k] /\ f[k - 1] \in Seq(S) /\ s[k] \in Seq(S)
          /\ Len(f[k]) = Len(f[k - 1]) + Len(s[k])
      BY <1>5, <2>4
    <2>6. Len(f[i]) \in Nat
      BY <1>1
    <2>7. \A j \in 1 .. Len(f[k - 1]) : f[k][j] = f[k - 1][j]
      <3> HIDE DEF R
      <3>1. PICK a \in Seq(S), b \in Seq(S) : a = f[k - 1] /\ b = s[k] /\ f[k] = a \o b
        BY <2>5, Zenon
      <3>2. \A j \in 1 .. Len(a) : (a \o b)[j] = a[j]
        BY Joint
      <3> QED BY <3>1, <3>2, Zenon
    <2>8. Len(f[k - 1]) \in Nat /\ Len(s[k]) \in Nat
      BY <2>5
    <2>9. /\ Len(f[i]) <= Len(f[k - 1])
          /\ \A j \in 1 .. Len(f[i]) : f[k - 1][j] = f[i][j]
      BY <2>4
    <2>10. R(i, k)
      <3>1. ASSUME NEW j \in 1 .. Len(f[i]) PROVE f[k][j] = f[i][j]
        <4>1. j \in 1 .. Len(f[k - 1])
          BY <2>6, <2>8, <2>9
        <4> QED BY <2>7, <2>9, <4>1, Zenon
      <3>2. Len(f[i]) <= Len(f[k])
        <4> DEFINE x == Len(f[i])
                   y == Len(f[k - 1])
                   z == Len(s[k])
        <4>1. x \in Nat /\ y \in Nat /\ z \in Nat /\ x <= y /\ Len(f[k]) = y + z
          BY <2>5, <2>6, <2>8, <2>9, Zenon
        <4> HIDE DEF x, y, z
        <4>2. x <= y + z
          BY <4>1
        <4> QED BY <4>1, <4>2, Zenon DEF x
      <3> QED BY <3>1, <3>2
    <2> HIDE DEF R
    <2> QED BY <2>3, <2>10
  <1>7. ASSUME NEW i \in 1 .. Len(s), NEW j \in 1 .. Len(s[i])
        PROVE  f[Len(s)][Len(f[i - 1]) + j] = s[i][j]
    <2>1. f[i][Len(f[i - 1]) + j] = s[i][j] /\ Len(f[i - 1]) + j \in 1 .. Len(f[i])
      <3> HIDE DEF R
      <3>1. /\ f[i] = f[i - 1] \o s[i] /\ f[i - 1] \in Seq(S) /\ s[i] \in Seq(S)
            /\ Len(f[i]) = Len(f[i - 1]) + Len(s[i])
        BY <1>5
      <3>2. PICK a \in Seq(S), b \in Seq(S) : a = f[i - 1] /\ b = s[i] /\ f[i] = a \o b
        BY <3>1, Zenon
      <3>3. j \in 1 .. Len(b) /\ Len(b) \in Nat /\ Len(a) \in Nat
        BY <3>2
      <3>4. (a \o b)[Len(a) + j] = b[j] /\ Len(a) + j \in 1 .. Len(a \o b)
        BY <3>3, Joint
      <3> QED BY <3>2, <3>4, Zenon
    <2>2. R(i, Len(s))
      BY <1>6
    <2> QED BY <2>1, <2>2
  <1>8. Len(f[0]) = 0
    BY <1>1 DEF Joins
  <1>9. \A i \in 0 .. Len(s) : Len(f[i]) \in Nat /\ Len(f[i]) <= Len(f[Len(s)])
    BY <1>1, <1>6
  <1>10. 0 \in 0 .. Len(s) /\ Len(s) \in 0 .. Len(s) /\ \A i \in 1 .. Len(s) : i \in 0 .. Len(s)
             /\ i - 1 \in 0 .. Len(s)
    OBVIOUS
  <1> HIDE DEF R
  <1>11. Upto(s, 0) = 0 /\ Upto(s, Len(s)) = Len(FlattenSeq(s))
    BY <1>2, <1>4, <1>8, <1>10
  <1>12. \A i \in 0 .. Len(s) : Upto(s, i) \in 0 .. Len(FlattenSeq(s))
    BY <1>2, <1>4, <1>9, <1>10
  <1>13. \A i \in 1 .. Len(s) : Upto(s, i) = Upto(s, i - 1) + Len(s[i])
    BY <1>2, <1>5, <1>10
  <1>14. \A i \in 1 .. Len(s) : \A j \in 1 .. Len(s[i]) : FlattenSeq(s)[Upto(s, i - 1) + j] = s[i][j]
    BY <1>2, <1>4, <1>7, <1>10
  <1> QED BY <1>4, <1>11, <1>12, <1>13, <1>14

-----------------------------------------------------------------------------
(* s stands in w behind the first p. *)
Holds(w, p, s) == p + Len(s) <= Len(w) /\ \A j \in 1 .. Len(s) : w[p + j] = s[j]

(* What stands in a part stands in the whole. *)
LEMMA HoldsWithin ==
    ASSUME NEW S, NEW t \in Seq(S), NEW u \in Seq(S), NEW w \in Seq(S), NEW p \in Nat, NEW q \in Nat,
           Holds(w, p, t), Holds(t, q, u)
    PROVE  Holds(w, p + q, u)
  <1>1. Len(t) \in Nat /\ Len(u) \in Nat /\ Len(w) \in Nat
    OBVIOUS
  <1>2. ASSUME NEW j \in 1 .. Len(u) PROVE w[p + q + j] = u[j]
    <2>1. q + j \in 1 .. Len(t) /\ p + (q + j) = p + q + j
      BY <1>1 DEF Holds
    <2>2. w[p + (q + j)] = t[q + j] /\ t[q + j] = u[j]
      BY <2>1 DEF Holds
    <2> QED BY <2>1, <2>2
  <1> QED BY <1>1, <1>2 DEF Holds

(* Each of the joined sequences stands where the ones before it end. *)
LEMMA HoldsPiece ==
    ASSUME NEW S, NEW s \in Seq(Seq(S)), NEW i \in 1 .. Len(s)
    PROVE  /\ Holds(FlattenSeq(s), Upto(s, i - 1), s[i])
           /\ Upto(s, i - 1) \in Nat /\ Upto(s, i) \in Nat
           /\ Upto(s, i) = Upto(s, i - 1) + Len(s[i])
           /\ FlattenSeq(s) \in Seq(S) /\ s[i] \in Seq(S)
  <1>1. Len(s) \in Nat /\ s[i] \in Seq(S)
    OBVIOUS
  <1>2. i \in 0 .. Len(s) /\ i - 1 \in 0 .. Len(s)
    BY <1>1
  <1>3. /\ FlattenSeq(s) \in Seq(S)
        /\ Upto(s, i) \in 0 .. Len(FlattenSeq(s)) /\ Upto(s, i - 1) \in 0 .. Len(FlattenSeq(s))
        /\ Upto(s, i) = Upto(s, i - 1) + Len(s[i])
        /\ \A j \in 1 .. Len(s[i]) : FlattenSeq(s)[Upto(s, i - 1) + j] = s[i][j]
    BY <1>2, FlattenPlaces
  <1>4. Len(FlattenSeq(s)) \in Nat
    BY <1>3
  <1> QED BY <1>1, <1>3, <1>4 DEF Holds

(* STRING, with the literals it is not known to have by the provers. *)
Bytes == STRING \cup {"SP", ":", "CR", "LF"}

(* A string of characters is one of bytes. *)
LEMMA BytesText ==
    ASSUME NEW s \in Seq(STRING)
    PROVE  s \in Seq(Bytes)
  <1>1. STRING \subseteq Bytes
    BY DEF Bytes
  <1> HIDE DEF Bytes
  <1> QED BY <1>1, SeqMonotonic

(* Sequences of sequences. *)
LEMMA SeqOfTexts ==
    ASSUME NEW n \in Nat, NEW f, DOMAIN f = 1 .. n, f = [i \in 1 .. n |-> f[i]],
           \A i \in 1 .. n : f[i] \in Seq(Bytes)
    PROVE  f \in Seq(Seq(Bytes)) /\ Len(f) = n
  <1> DEFINE S == Seq(Bytes)
  <1>1. f \in [1 .. n -> S]
    BY Zenon
  <1> HIDE DEF S
  <1> QED BY <1>1 DEF S

(* A sequence stands in itself. *)
LEMMA HoldsSelf ==
    ASSUME NEW S, NEW t \in Seq(S)
    PROVE  Holds(t, 0, t)
  BY DEF Holds

(* A part of a sequence. *)
LEMMA HoldsPart ==
    ASSUME NEW S, NEW s \in Seq(S), NEW a \in Nat, NEW n \in Nat, a + n <= Len(s)
    PROVE  /\ SubSeq(s, a + 1, a + n) \in Seq(S) /\ Len(SubSeq(s, a + 1, a + n)) = n
           /\ Holds(s, a, SubSeq(s, a + 1, a + n))
  <1>1. /\ SubSeq(s, a + 1, a + n) \in Seq(S) /\ Len(SubSeq(s, a + 1, a + n)) = n
        /\ \A j \in 1 .. n : SubSeq(s, a + 1, a + n)[j] = s[a + j]
    OBVIOUS
  <1> QED BY <1>1 DEF Holds

(* What has come out is the beginning of what is expected. *)
LEMMA HoldsPrefix ==
    ASSUME NEW S, NEW s \in Seq(S), NEW t \in Seq(S), Holds(t, 0, s)
    PROVE  IsPrefix(s, t)
  <1>1. Len(s) \in Nat /\ Len(t) \in Nat /\ Len(s) <= Len(t) /\ \A j \in 1 .. Len(s) : t[j] = s[j]
    BY DEF Holds
  <1>2. PICK a, b, n : a = SubSeq(s, 1, Len(s)) /\ b = SubSeq(t, 1, Len(s)) /\ n = Len(s)
    OBVIOUS
  <1>3. a \in Seq(S) /\ b \in Seq(S) /\ Len(a) = n /\ Len(b) = n
        /\ \A j \in 1 .. n : a[j] = s[j] /\ b[j] = t[j]
    BY <1>1, <1>2
  <1>4. a = b
    BY <1>1, <1>2, <1>3, SeqEqual
  <1> QED BY <1>1, <1>2, <1>4 DEF IsPrefix

-----------------------------------------------------------------------------
(* The buffer as a part of what was sent, and the scans of it. *)

(* A scan stops at the first byte that stops it, at the end of the buffer, or
   where the length is used up. *)
ScanStops(r, begin, stops, refused) ==
    /\ r.status \in {"COMPLETE", "INVALID", "INCOMPLETE", "DATAOVERFLOW"}
    /\ r.end \in begin .. Len(raw) /\ r.length = current_length + (r.end - begin)
    /\ \A i \in begin .. r.end - 1 : raw[i + 1] \notin stops \cup refused
    /\ r.status \in {"COMPLETE", "INVALID"} => r.end < Len(raw) /\ r.length < MAX_FIELD_LENGTH
    /\ r.status = "COMPLETE" => raw[r.end + 1] \in stops
    /\ r.status = "INVALID" => raw[r.end + 1] \in refused \ stops
    /\ r.status = "INCOMPLETE" => r.end = Len(raw) /\ r.length < MAX_FIELD_LENGTH
    /\ r.status = "DATAOVERFLOW" => r.length >= MAX_FIELD_LENGTH

(* A scan stops at the first byte that stops it, or at a limit. *)
LEMMA ScanResult ==
    ASSUME PositionInv, NEW begin \in 0 .. Len(raw), NEW stops, NEW refused
    PROVE  ScanStops(Scan(begin, stops, refused), begin, stops, refused)
  <1> DEFINE limit == Min({Len(raw), begin + MAX_FIELD_LENGTH - current_length})
             found == {i \in begin .. limit - 1 : raw[i + 1] \in stops \cup refused}
             r == Scan(begin, stops, refused)
  <1>1. /\ Len(raw) \in Nat /\ MAX_FIELD_LENGTH \in Nat /\ begin \in Nat
        /\ current_length \in 0 .. MAX_FIELD_LENGTH
    BY HeaderAssumption DEF PositionInv, Text
  <1>2. /\ limit \in begin .. Len(raw) /\ limit <= begin + MAX_FIELD_LENGTH - current_length
        /\ limit = Len(raw) \/ limit = begin + MAX_FIELD_LENGTH - current_length
    <2>1. \E x \in {Len(raw), begin + MAX_FIELD_LENGTH - current_length} :
             \A y \in {Len(raw), begin + MAX_FIELD_LENGTH - current_length} : x =< y
      BY <1>1
    <2>2. /\ limit \in {Len(raw), begin + MAX_FIELD_LENGTH - current_length}
          /\ \A y \in {Len(raw), begin + MAX_FIELD_LENGTH - current_length} : limit =< y
      BY <2>1 DEF Min
    <2> QED BY <1>1, <2>2
  <1>3. CASE found # {}
    <2>1. PICK i : i = Min(found)
      OBVIOUS
    <2>2. i \in found /\ \A k \in found : i <= k
      <3> HIDE DEF limit
      <3>1. found \in SUBSET Nat
        BY <1>1, <1>2
      <3> HIDE DEF found
      <3>2. \E n \in found : \A k \in found : n <= k
        BY <1>3, <3>1, LeastNumber
      <3> QED BY <2>1, <3>2 DEF Min
    <2>3. /\ r.end = i /\ r.length = current_length + i - begin
          /\ r.status = IF raw[i + 1] \in stops THEN "COMPLETE" ELSE "INVALID"
      BY <1>3, <2>1 DEF Scan
    <2> HIDE DEF r, limit
    <2>4. i \in begin .. limit - 1 /\ raw[i + 1] \in stops \cup refused
      BY <2>2
    <2>5. \A k \in begin .. i - 1 : raw[k + 1] \notin stops \cup refused
      <3>1. \A k \in begin .. i - 1 : k \in begin .. limit - 1 /\ ~(i <= k)
        BY <1>1, <1>2, <2>4
      <3> QED BY <2>2, <3>1
    <2>6. /\ i \in begin .. Len(raw) /\ i < Len(raw) /\ current_length + i - begin = current_length + (i - begin)
          /\ current_length + i - begin < MAX_FIELD_LENGTH
      BY <1>1, <1>2, <2>4
    <2> HIDE DEF found
    <2> QED BY <2>3, <2>4, <2>5, <2>6 DEF ScanStops, r
  <1>4. CASE found = {}
    <2>1. /\ r.end = limit /\ r.length = current_length + limit - begin
          /\ r.status = IF limit < Len(raw) \/ current_length + limit - begin >= MAX_FIELD_LENGTH
                        THEN "DATAOVERFLOW" ELSE "INCOMPLETE"
      BY <1>4 DEF Scan
    <2> HIDE DEF r, limit
    <2>2. \A k \in begin .. limit - 1 : raw[k + 1] \notin stops \cup refused
      BY <1>4
    <2>3. /\ current_length + limit - begin = current_length + (limit - begin)
          /\ limit < Len(raw) => current_length + limit - begin >= MAX_FIELD_LENGTH
          /\ ~(limit < Len(raw)) => limit = Len(raw)
          /\ ~(current_length + limit - begin >= MAX_FIELD_LENGTH)
                => current_length + limit - begin < MAX_FIELD_LENGTH
      BY <1>1, <1>2
    <2> HIDE DEF found
    <2> QED BY <1>2, <2>1, <2>2, <2>3 DEF ScanStops, r
  <1> QED BY <1>3, <1>4

-----------------------------------------------------------------------------
(* What was sent before the buffer, and before what is unread. *)
Base == Len(Sent(input)) - Len(unread) - Len(raw)
End  == Base + Len(raw)

(* The buffer and what is unread are the rest of what was sent. *)
Stream ==
    /\ input \in Inputs /\ Base \in Nat
    /\ Holds(Sent(input), Base, raw) /\ Holds(Sent(input), End, unread)
    /\ ~CutStartLine => ~InStartLine(End)

(* The bytes of the buffer are those that were sent. *)
LEMMA BufferSent ==
    ASSUME PositionInv, Stream
    PROVE  /\ Base \in Nat /\ End \in Nat /\ End = Base + Len(raw) /\ Len(raw) \in Nat
           /\ Sent(input) \in Seq(STRING) /\ Len(Sent(input)) \in Nat /\ End <= Len(Sent(input))
           /\ \A i \in 0 .. Len(raw) - 1 : raw[i + 1] = Sent(input)[Base + i + 1]
  <1>1. Sent(input) \in Seq(STRING) /\ Base \in Nat /\ Holds(Sent(input), Base, raw) /\ raw \in Seq(STRING)
    BY InputAssumption DEF Stream, PositionInv, Text
  <1> DEFINE w == Sent(input)
             B == Base
  <1>2. w \in Seq(STRING) /\ B \in Nat /\ Holds(w, B, raw) /\ raw \in Seq(STRING) /\ End = B + Len(raw)
    BY <1>1 DEF End
  <1> HIDE DEF w, B
  <1>3. Len(raw) \in Nat /\ Len(w) \in Nat /\ B + Len(raw) <= Len(w) /\ B + Len(raw) \in Nat
    BY <1>2 DEF Holds
  <1>4. ASSUME NEW i \in 0 .. Len(raw) - 1 PROVE raw[i + 1] = w[B + i + 1]
    <2>1. i + 1 \in 1 .. Len(raw) /\ B + (i + 1) = B + i + 1
      BY <1>2, <1>3
    <2>2. w[B + (i + 1)] = raw[i + 1]
      BY <1>2, <2>1 DEF Holds
    <2> QED BY <2>1, <2>2
  <1> QED BY <1>2, <1>3, <1>4 DEF w, B

(***************************************************************************)
(* A scan that begins n bytes into text t, which stands behind P, ends q   *)
(* bytes into it if something behind the text stops it.                    *)
(***************************************************************************)
ScanEnds(r, begin, stops, refused, P, t, n, q) ==
    /\ q \in n .. Len(t) /\ Base + r.end = P + q /\ r.end \in begin .. Len(raw)
    /\ r.length = current_length + (q - n)
    /\ r.status \in {"COMPLETE", "INVALID", "INCOMPLETE", "DATAOVERFLOW"}
    /\ \A j \in n + 1 .. q : t[j] \notin stops \cup refused
    /\ r.status \in {"COMPLETE", "INVALID"} =>
          r.end < Len(raw) /\ P + q < Len(Sent(input)) /\ r.length < MAX_FIELD_LENGTH
    /\ r.status = "COMPLETE" => Sent(input)[P + q + 1] \in stops
    /\ r.status = "INVALID" => Sent(input)[P + q + 1] \in refused \ stops
    /\ r.status = "INCOMPLETE" => r.end = Len(raw) /\ r.length < MAX_FIELD_LENGTH
    /\ r.status = "DATAOVERFLOW" => r.length >= MAX_FIELD_LENGTH
    /\ Piece(begin, r.end) = SubSeq(t, n + 1, q)

(* So much of the text is scanned as is in the buffer and within the limit. *)
LEMMA ScanText ==
    ASSUME PositionInv, Stream, NEW begin \in 0 .. Len(raw), NEW stops, NEW refused,
           NEW P \in Nat, NEW t \in Seq(Bytes), NEW n \in 0 .. Len(t),
           Holds(Sent(input), P, t), Base + begin = P + n,
           P + Len(t) < End => Sent(input)[P + Len(t) + 1] \in stops \cup refused
    PROVE  \E q : ScanEnds(Scan(begin, stops, refused), begin, stops, refused, P, t, n, q)
  <1> DEFINE r == Scan(begin, stops, refused)
             w == Sent(input)
             B == Base
             R == Len(raw)
  <1>1. ScanStops(r, begin, stops, refused)
    BY ScanResult
  <1>2. /\ B \in Nat /\ R \in Nat /\ Len(w) \in Nat /\ B + R <= Len(w)
        /\ \A i \in 0 .. R - 1 : raw[i + 1] = w[B + i + 1]
        /\ Len(t) \in Nat /\ begin \in Nat /\ n \in Nat /\ n <= Len(t) /\ begin <= R
        /\ P + Len(t) < B + R => w[P + Len(t) + 1] \in stops \cup refused
        /\ P + Len(t) <= Len(w) /\ \A j \in 1 .. Len(t) : w[P + j] = t[j]
        /\ B + begin = P + n
    <2>1. /\ B \in Nat /\ R \in Nat /\ Len(w) \in Nat /\ B + R <= Len(w) /\ End = B + R
          /\ \A i \in 0 .. R - 1 : raw[i + 1] = w[B + i + 1]
      BY BufferSent
    <2>2. /\ P + Len(t) <= Len(w) /\ \A j \in 1 .. Len(t) : w[P + j] = t[j]
      BY DEF Holds
    <2>3. Len(t) \in Nat
      OBVIOUS
    <2> HIDE DEF w, B, r
    <2>4. begin \in Nat /\ n \in Nat /\ n <= Len(t) /\ begin <= R
      BY <2>1, <2>3
    <2> QED BY <2>1, <2>2, <2>3, <2>4 DEF w, B
  <1>3. PICK e : e = r.end
    OBVIOUS
  <1>4. PICK q : q = B + e - P
    OBVIOUS
  <1>5. raw \in Seq(STRING)
    BY DEF PositionInv, Text
  <1>6. e \in begin .. R /\ r.length = current_length + (e - begin)
        /\ \A i \in begin .. e - 1 : raw[i + 1] \notin stops \cup refused
    BY <1>1, <1>3 DEF ScanStops
  <1> HIDE DEF r, w, B
  <1> HIDE DEF R
  <1>7. e \in Nat /\ q \in Nat /\ n <= q /\ B + e = P + q /\ e - begin = q - n
    <2>1. B \in Nat /\ R \in Nat /\ P \in Nat /\ n \in Nat /\ begin \in Nat /\ B + begin = P + n
          /\ e \in begin .. R /\ q = B + e - P
      BY <1>2, <1>4, <1>6, Zenon
    <2> QED BY <2>1
  <1>8. q <= Len(t)
    <2>1. SUFFICES ASSUME q > Len(t) PROVE FALSE
      BY <1>2, <1>7
    <2>2. PICK i : i = P + Len(t) - B
      OBVIOUS
    <2>3. i \in begin .. e - 1 /\ i \in 0 .. R - 1 /\ B + i = P + Len(t) /\ P + Len(t) < B + R
      BY <1>2, <1>6, <1>7, <2>1, <2>2
    <2>4. raw[i + 1] = w[P + Len(t) + 1]
      <3>1. raw[i + 1] = w[B + i + 1]
        BY <1>2, <2>3, Zenon
      <3> QED BY <2>3, <3>1, Zenon
    <2> QED BY <1>2, <1>6, <2>3, <2>4
  <1>9. ASSUME NEW j \in n + 1 .. q PROVE t[j] = raw[begin + (j - n)] /\ t[j] \notin stops \cup refused
    <2>1. PICK i : i = begin + (j - n) - 1
      OBVIOUS
    <2>2. /\ i \in begin .. e - 1 /\ i \in 0 .. R - 1 /\ B + i + 1 = P + j /\ j \in 1 .. Len(t)
          /\ i + 1 = begin + (j - n)
      BY <1>2, <1>6, <1>7, <1>8, <2>1
    <2>3. raw[i + 1] = w[B + i + 1] /\ w[P + j] = t[j]
      BY <1>2, <2>2
    <2> QED BY <1>6, <2>2, <2>3
  <1>10. ASSUME e < R PROVE raw[e + 1] = w[P + q + 1] /\ P + q < Len(w)
    <2>1. e \in 0 .. R - 1 /\ B + e + 1 = P + q + 1
      BY <1>2, <1>7, <1>10
    <2>2. raw[e + 1] = w[B + e + 1]
      BY <1>2, <2>1
    <2>3. P + q < Len(w)
      BY <1>2, <1>7, <1>10
    <2> QED BY <2>1, <2>2, <2>3
  <1>11. Piece(begin, e) = SubSeq(t, n + 1, q)
    <2>1. PICK x, y : x = SubSeq(raw, begin + 1, e) /\ y = SubSeq(t, n + 1, q)
      OBVIOUS
    <2>2. PICK k : k = e - begin
      OBVIOUS
    <2>3. k \in Nat /\ e = begin + k /\ q = n + k
      BY <1>2, <1>6, <1>7, <2>2
    <2>4. Len(x) = k /\ x \in Seq(STRING) /\ \A j \in 1 .. k : x[j] = raw[begin + j]
      BY <1>2, <1>5, <1>6, <2>1, <2>3 DEF R
    <2>5. Len(y) = k /\ y \in Seq(Bytes) /\ \A j \in 1 .. k : y[j] = t[n + j]
      <3>1. n \in Nat /\ n + k <= Len(t) /\ y = SubSeq(t, n + 1, n + k)
        BY <1>2, <1>8, <2>1, <2>3
      <3>2. y \in Seq(Bytes) /\ Len(y) = k /\ Holds(t, n, y)
        <4>1. /\ SubSeq(t, n + 1, n + k) \in Seq(Bytes) /\ Len(SubSeq(t, n + 1, n + k)) = k
              /\ Holds(t, n, SubSeq(t, n + 1, n + k))
          BY <2>3, <3>1, HoldsPart
        <4> QED BY <3>1, <4>1, Zenon
      <3> QED BY <3>2 DEF Holds
    <2>6. ASSUME NEW j \in 1 .. k PROVE x[j] = y[j]
      <3>1. n + j \in n + 1 .. q /\ begin + (n + j - n) = begin + j
        BY <1>2, <2>3
      <3>2. t[n + j] = raw[begin + (n + j - n)]
        BY <1>9, <3>1
      <3> QED BY <2>4, <2>5, <3>1, <3>2
    <2>7. x \in Seq(Bytes)
      BY <2>4, BytesText
    <2>8. x = y
      BY <2>4, <2>5, <2>6, <2>7, SeqEqual
    <2> QED BY <2>1, <2>8 DEF Piece
  <1>12. ScanEnds(r, begin, stops, refused, P, t, n, q)
    <2>1. q \in n .. Len(t) /\ Base + r.end = P + q /\ r.end \in begin .. Len(raw)
      BY <1>2, <1>3, <1>6, <1>7, <1>8 DEF B, R
    <2>2. r.length = current_length + (q - n)
      BY <1>6, <1>7
    <2>3. \A j \in n + 1 .. q : t[j] \notin stops \cup refused
      BY <1>9
    <2>4. r.status \in {"COMPLETE", "INVALID"} =>
             r.end < Len(raw) /\ P + q < Len(Sent(input)) /\ r.length < MAX_FIELD_LENGTH
      BY <1>1, <1>3, <1>10 DEF ScanStops, R, w
    <2>5. r.status = "COMPLETE" => Sent(input)[P + q + 1] \in stops
      BY <1>1, <1>3, <1>10 DEF ScanStops, R, w
    <2>6. r.status = "INVALID" => Sent(input)[P + q + 1] \in refused \ stops
      BY <1>1, <1>3, <1>10 DEF ScanStops, R, w
    <2>7. /\ r.status = "INCOMPLETE" => r.end = Len(raw) /\ r.length < MAX_FIELD_LENGTH
          /\ r.status = "DATAOVERFLOW" => r.length >= MAX_FIELD_LENGTH
          /\ r.status \in {"COMPLETE", "INVALID", "INCOMPLETE", "DATAOVERFLOW"}
      BY <1>1 DEF ScanStops
    <2> QED BY <1>3, <1>11, <2>1, <2>2, <2>3, <2>4, <2>5, <2>6, <2>7 DEF ScanEnds
  <1> QED BY <1>12 DEF r

-----------------------------------------------------------------------------
(* The parts of a message, as it is sent and as it is to be written. *)

(* What a sequence holds it still holds when another is put behind it. *)
Keeps(x, t) == \A p \in Nat : \A u \in Seq(Bytes) : Holds(x, p, u) => Holds(t, p, u)
ExtendsBy(x, e, t) ==
    /\ t \in Seq(Bytes) /\ Len(t) = Len(x) + Len(e) /\ Holds(t, Len(x), e) /\ Holds(t, 0, x)
    /\ Keeps(x, t)

(* What stands in a sequence stands in what it is continued to. *)
LEMMA Extended ==
    ASSUME NEW x \in Seq(Bytes), NEW e \in Seq(Bytes), NEW t, t = x \o e
    PROVE  ExtendsBy(x, e, t)
  <1> DEFINE S == Bytes
  <1> HIDE DEF S
  <1>0. x \in Seq(S) /\ e \in Seq(S)
    BY DEF S
  <1>1. /\ t \in Seq(S) /\ Len(t) = Len(x) + Len(e) /\ Len(x) \in Nat /\ Len(e) \in Nat
        /\ \A j \in 1 .. Len(x) : t[j] = x[j]
        /\ \A j \in 1 .. Len(e) : t[Len(x) + j] = e[j]
    BY <1>0, Joint
  <1>2. Holds(t, Len(x), e) /\ Holds(t, 0, x)
    BY <1>1 DEF Holds
  <1>3. ASSUME NEW p \in Nat, NEW u \in Seq(S), Holds(x, p, u) PROVE Holds(t, p, u)
    <2>1. Len(u) \in Nat /\ p + Len(u) <= Len(x) /\ \A j \in 1 .. Len(u) : x[p + j] = u[j]
      BY <1>3 DEF Holds
    <2>2. \A j \in 1 .. Len(u) : p + j \in 1 .. Len(x)
      BY <1>1, <2>1
    <2>3. \A j \in 1 .. Len(u) : t[p + j] = u[j]
      BY <1>1, <2>1, <2>2
    <2>4. p + Len(u) <= Len(t)
      BY <1>1, <2>1
    <2> QED BY <2>3, <2>4 DEF Holds
  <1> QED BY <1>1, <1>2, <1>3 DEF S, ExtendsBy, Keeps

(* The separators are sequences of bytes. *)
LEMMA Marks ==
    /\ EndLine \in Seq(Bytes) /\ Len(EndLine) = 2 /\ EndLine[1] = "CR" /\ EndLine[2] = "LF"
    /\ Space \in Seq(Bytes) /\ Len(Space) = 1 /\ Space[1] = "SP"
    /\ FieldSep \in Seq(Bytes) /\ Len(FieldSep) = 2
    /\ <<":">> \in Seq(Bytes) /\ Len(<<":">>) = 1 /\ <<":">>[1] = ":"
  <1>1. "SP" \in Bytes /\ ":" \in Bytes /\ "CR" \in Bytes /\ "LF" \in Bytes
    BY DEF Bytes
  <1> HIDE DEF Bytes
  <1> QED BY <1>1 DEF EndLine, Space, FieldSep

(* The parts of a start line. *)
LineOf(a, b, c, t) ==
    /\ t \in Seq(Bytes) /\ Len(t) = Len(a) + 1 + Len(b) + 1 + Len(c) + 2
    /\ Holds(t, 0, a) /\ Holds(t, Len(a), Space)
    /\ Holds(t, Len(a) + 1, b) /\ Holds(t, Len(a) + 1 + Len(b), Space)
    /\ Holds(t, Len(a) + 1 + Len(b) + 1, c) /\ Holds(t, Len(a) + 1 + Len(b) + 1 + Len(c), EndLine)

(* The tokens and the separators of a start line stand in it one behind the other. *)
LEMMA LineParts ==
    ASSUME NEW a \in Seq(Bytes), NEW b \in Seq(Bytes), NEW c \in Seq(Bytes),
           NEW t, t = a \o Space \o b \o Space \o c \o EndLine
    PROVE  LineOf(a, b, c, t)
  <1>0. Len(a) \in Nat /\ Len(b) \in Nat /\ Len(c) \in Nat
    OBVIOUS
  <1>1. PICK t1, t2, t3, t4 : t1 = a \o Space /\ t2 = t1 \o b /\ t3 = t2 \o Space /\ t4 = t3 \o c
    OBVIOUS
  <1>2. t = t4 \o EndLine
    BY <1>1, Zenon
  <1>3. t1 \in Seq(Bytes) /\ Len(t1) = Len(a) + 1 /\ Holds(t1, Len(a), Space) /\ Holds(t1, 0, a)
    <2>1. a \in Seq(Bytes) /\ Space \in Seq(Bytes) /\ t1 = a \o Space
      BY <1>1, Marks, Zenon
    <2>2. ExtendsBy(a, Space, t1)
      BY <2>1, Extended, Zenon
    <2> QED BY <2>2, Marks, Zenon DEF ExtendsBy
  <1>4. /\ t2 \in Seq(Bytes) /\ Len(t2) = Len(t1) + Len(b) /\ Holds(t2, Len(t1), b)
        /\ Keeps(t1, t2)
    <2>1. t1 \in Seq(Bytes) /\ b \in Seq(Bytes) /\ t2 = t1 \o b
      BY <1>1, <1>3, Zenon
    <2>2. ExtendsBy(t1, b, t2)
      BY <2>1, Extended, Zenon
    <2> QED BY <2>2, Zenon DEF ExtendsBy
  <1>5. t3 \in Seq(Bytes) /\ Len(t3) = Len(t2) + 1 /\ Holds(t3, Len(t2), Space) /\ Keeps(t2, t3)
    <2>1. t2 \in Seq(Bytes) /\ Space \in Seq(Bytes) /\ t3 = t2 \o Space
      BY <1>1, <1>4, Marks, Zenon
    <2>2. ExtendsBy(t2, Space, t3)
      BY <2>1, Extended, Zenon
    <2> QED BY <2>2, Marks, Zenon DEF ExtendsBy
  <1>6. t4 \in Seq(Bytes) /\ Len(t4) = Len(t3) + Len(c) /\ Holds(t4, Len(t3), c) /\ Keeps(t3, t4)
    <2>1. t3 \in Seq(Bytes) /\ c \in Seq(Bytes) /\ t4 = t3 \o c
      BY <1>1, <1>5, Zenon
    <2>2. ExtendsBy(t3, c, t4)
      BY <2>1, Extended, Zenon
    <2> QED BY <2>2, Zenon DEF ExtendsBy
  <1>7. t \in Seq(Bytes) /\ Len(t) = Len(t4) + 2 /\ Holds(t, Len(t4), EndLine) /\ Keeps(t4, t)
    <2>1. t4 \in Seq(Bytes) /\ EndLine \in Seq(Bytes) /\ t = t4 \o EndLine
      BY <1>2, <1>6, Marks, Zenon
    <2>2. ExtendsBy(t4, EndLine, t)
      BY <2>1, Extended, Zenon
    <2> QED BY <2>2, Marks, Zenon DEF ExtendsBy
  <1>8. Len(t1) \in Nat /\ Len(t2) \in Nat /\ Len(t3) \in Nat /\ Len(t4) \in Nat /\ 0 \in Nat
    BY <1>3, <1>4, <1>5, <1>6
  <1>9. Keeps(t3, t) /\ Keeps(t2, t) /\ Keeps(t1, t)
    BY <1>4, <1>5, <1>6, <1>7, Zenon DEF Keeps
  <1>10. Space \in Seq(Bytes)
    BY Marks
  <1>11. /\ Holds(t, 0, a) /\ Holds(t, Len(a), Space) /\ Holds(t, Len(t1), b)
         /\ Holds(t, Len(t2), Space) /\ Holds(t, Len(t3), c)
    BY <1>0, <1>3, <1>4, <1>5, <1>6, <1>7, <1>8, <1>9, <1>10, Zenon DEF Keeps
  <1>12. /\ Len(t1) = Len(a) + 1 /\ Len(t2) = Len(a) + 1 + Len(b) /\ Len(t3) = Len(a) + 1 + Len(b) + 1
         /\ Len(t4) = Len(a) + 1 + Len(b) + 1 + Len(c) /\ Len(t) = Len(a) + 1 + Len(b) + 1 + Len(c) + 2
    BY <1>3, <1>4, <1>5, <1>6, <1>7, Zenon
  <1> QED BY <1>7, <1>11, <1>12, Zenon DEF LineOf

FieldWire(x) == x.name \o <<":">> \o x.pad \o x.value \o EndLine
FieldText(x) == x.name \o FieldSep \o x.value \o EndLine

(* The parts of a field, as sent ... *)
FieldWireOf(a, b, c, t) ==
    /\ t \in Seq(Bytes) /\ Len(t) = Len(a) + 1 + Len(b) + Len(c) + 2
    /\ Holds(t, 0, a) /\ Holds(t, Len(a), <<":">>)
    /\ Holds(t, Len(a) + 1, b) /\ Holds(t, Len(a) + 1 + Len(b), c)
    /\ Holds(t, Len(a) + 1 + Len(b) + Len(c), EndLine)

(* So do the parts of a field as it is sent ... *)
LEMMA FieldWireParts ==
    ASSUME NEW a \in Seq(Bytes), NEW b \in Seq(Bytes), NEW c \in Seq(Bytes),
           NEW t, t = a \o <<":">> \o b \o c \o EndLine
    PROVE  FieldWireOf(a, b, c, t)
  <1>0. Len(a) \in Nat /\ Len(b) \in Nat /\ Len(c) \in Nat
    OBVIOUS
  <1>1. PICK t1, t2, t3 : t1 = a \o <<":">> /\ t2 = t1 \o b /\ t3 = t2 \o c
    OBVIOUS
  <1>2. t = t3 \o EndLine
    BY <1>1, Zenon
  <1>3. t1 \in Seq(Bytes) /\ Len(t1) = Len(a) + 1 /\ Holds(t1, Len(a), <<":">>) /\ Holds(t1, 0, a)
    <2>1. a \in Seq(Bytes) /\ <<":">> \in Seq(Bytes) /\ t1 = a \o <<":">>
      BY <1>1, Marks, Zenon
    <2>2. ExtendsBy(a, <<":">>, t1)
      BY <2>1, Extended, Zenon
    <2> QED BY <2>2, Marks, Zenon DEF ExtendsBy
  <1>4. /\ t2 \in Seq(Bytes) /\ Len(t2) = Len(t1) + Len(b) /\ Holds(t2, Len(t1), b)
        /\ Keeps(t1, t2)
    <2>1. t1 \in Seq(Bytes) /\ b \in Seq(Bytes) /\ t2 = t1 \o b
      BY <1>1, <1>3, Zenon
    <2>2. ExtendsBy(t1, b, t2)
      BY <2>1, Extended, Zenon
    <2> QED BY <2>2, Zenon DEF ExtendsBy
  <1>5. t3 \in Seq(Bytes) /\ Len(t3) = Len(t2) + Len(c) /\ Holds(t3, Len(t2), c) /\ Keeps(t2, t3)
    <2>1. t2 \in Seq(Bytes) /\ c \in Seq(Bytes) /\ t3 = t2 \o c
      BY <1>1, <1>4, Zenon
    <2>2. ExtendsBy(t2, c, t3)
      BY <2>1, Extended, Zenon
    <2> QED BY <2>2, Zenon DEF ExtendsBy
  <1>6. t \in Seq(Bytes) /\ Len(t) = Len(t3) + 2 /\ Holds(t, Len(t3), EndLine) /\ Keeps(t3, t)
    <2>1. t3 \in Seq(Bytes) /\ EndLine \in Seq(Bytes) /\ t = t3 \o EndLine
      BY <1>2, <1>5, Marks, Zenon
    <2>2. ExtendsBy(t3, EndLine, t)
      BY <2>1, Extended, Zenon
    <2> QED BY <2>2, Marks, Zenon DEF ExtendsBy
  <1>7. Len(t1) \in Nat /\ Len(t2) \in Nat /\ Len(t3) \in Nat /\ 0 \in Nat
    BY <1>3, <1>4, <1>5
  <1>8. Keeps(t2, t) /\ Keeps(t1, t)
    BY <1>4, <1>5, <1>6, Zenon DEF Keeps
  <1>9. <<":">> \in Seq(Bytes)
    BY Marks
  <1>10. Holds(t, 0, a) /\ Holds(t, Len(a), <<":">>) /\ Holds(t, Len(t1), b) /\ Holds(t, Len(t2), c)
    BY <1>0, <1>3, <1>4, <1>5, <1>6, <1>7, <1>8, <1>9, Zenon DEF Keeps
  <1>11. /\ Len(t1) = Len(a) + 1 /\ Len(t2) = Len(a) + 1 + Len(b) /\ Len(t3) = Len(a) + 1 + Len(b) + Len(c)
         /\ Len(t) = Len(a) + 1 + Len(b) + Len(c) + 2
    BY <1>3, <1>4, <1>5, <1>6, Zenon
  <1> QED BY <1>6, <1>10, <1>11, Zenon DEF FieldWireOf

(* ... and as written. *)
FieldTextOf(a, c, t) ==
    /\ t \in Seq(Bytes) /\ Len(t) = Len(a) + 2 + Len(c) + 2
    /\ Holds(t, 0, a) /\ Holds(t, Len(a), FieldSep)
    /\ Holds(t, Len(a) + 2, c) /\ Holds(t, Len(a) + 2 + Len(c), EndLine)

(* ... and as it is to be written. *)
LEMMA FieldTextParts ==
    ASSUME NEW a \in Seq(Bytes), NEW c \in Seq(Bytes), NEW t, t = a \o FieldSep \o c \o EndLine
    PROVE  FieldTextOf(a, c, t)
  <1>0. Len(a) \in Nat /\ Len(c) \in Nat
    OBVIOUS
  <1>1. PICK t1, t2 : t1 = a \o FieldSep /\ t2 = t1 \o c
    OBVIOUS
  <1>2. t = t2 \o EndLine
    BY <1>1, Zenon
  <1>3. t1 \in Seq(Bytes) /\ Len(t1) = Len(a) + 2 /\ Holds(t1, Len(a), FieldSep) /\ Holds(t1, 0, a)
    <2>1. a \in Seq(Bytes) /\ FieldSep \in Seq(Bytes) /\ t1 = a \o FieldSep
      BY <1>1, Marks, Zenon
    <2>2. ExtendsBy(a, FieldSep, t1)
      BY <2>1, Extended, Zenon
    <2> QED BY <2>2, Marks, Zenon DEF ExtendsBy
  <1>4. /\ t2 \in Seq(Bytes) /\ Len(t2) = Len(t1) + Len(c) /\ Holds(t2, Len(t1), c)
        /\ Keeps(t1, t2)
    <2>1. t1 \in Seq(Bytes) /\ c \in Seq(Bytes) /\ t2 = t1 \o c
      BY <1>1, <1>3, Zenon
    <2>2. ExtendsBy(t1, c, t2)
      BY <2>1, Extended, Zenon
    <2> QED BY <2>2, Zenon DEF ExtendsBy
  <1>5. t \in Seq(Bytes) /\ Len(t) = Len(t2) + 2 /\ Holds(t, Len(t2), EndLine) /\ Keeps(t2, t)
    <2>1. t2 \in Seq(Bytes) /\ EndLine \in Seq(Bytes) /\ t = t2 \o EndLine
      BY <1>2, <1>4, Marks, Zenon
    <2>2. ExtendsBy(t2, EndLine, t)
      BY <2>1, Extended, Zenon
    <2> QED BY <2>2, Marks, Zenon DEF ExtendsBy
  <1>6. Len(t1) \in Nat /\ Len(t2) \in Nat /\ 0 \in Nat
    BY <1>3, <1>4
  <1>7. Keeps(t1, t) /\ FieldSep \in Seq(Bytes)
    BY <1>4, <1>5, Marks, Zenon DEF Keeps
  <1>8. Holds(t, 0, a) /\ Holds(t, Len(a), FieldSep) /\ Holds(t, Len(t1), c)
    BY <1>0, <1>3, <1>4, <1>5, <1>6, <1>7, Zenon DEF Keeps
  <1>9. /\ Len(t1) = Len(a) + 2 /\ Len(t2) = Len(a) + 2 + Len(c) /\ Len(t) = Len(a) + 2 + Len(c) + 2
    BY <1>3, <1>4, <1>5, Zenon
  <1> QED BY <1>5, <1>8, <1>9, Zenon DEF FieldTextOf

(* A start line, the fields and what follows them. *)
LEMMA ThreeParts ==
    ASSUME NEW a \in Seq(Bytes), NEW b \in Seq(Bytes), NEW c \in Seq(Bytes), NEW t, t = a \o b \o c
    PROVE  /\ t \in Seq(Bytes) /\ Len(t) = Len(a) + Len(b) + Len(c)
           /\ Holds(t, 0, a) /\ Holds(t, Len(a), b) /\ Holds(t, Len(a) + Len(b), c)
  <1>0. Len(a) \in Nat /\ Len(b) \in Nat /\ Len(c) \in Nat /\ 0 \in Nat
    OBVIOUS
  <1>1. PICK x : x = a \o b
    OBVIOUS
  <1>2. t = x \o c
    BY <1>1, Zenon
  <1>3. x \in Seq(Bytes) /\ Len(x) = Len(a) + Len(b) /\ Holds(x, Len(a), b) /\ Holds(x, 0, a)
    <2>1. a \in Seq(Bytes) /\ b \in Seq(Bytes) /\ x = a \o b
      BY <1>1, Zenon
    <2>2. ExtendsBy(a, b, x)
      BY <2>1, Extended, Zenon
    <2> QED BY <2>2, Zenon DEF ExtendsBy
  <1>4. /\ t \in Seq(Bytes) /\ Len(t) = Len(x) + Len(c) /\ Holds(t, Len(x), c)
        /\ Keeps(x, t)
    <2>1. x \in Seq(Bytes) /\ c \in Seq(Bytes) /\ t = x \o c
      BY <1>2, <1>3, Zenon
    <2>2. ExtendsBy(x, c, t)
      BY <2>1, Extended, Zenon
    <2> QED BY <2>2, Zenon DEF ExtendsBy
  <1> QED BY <1>0, <1>3, <1>4, Zenon DEF Keeps

(* The fields and the messages, as sent and as written. *)
FieldWires(m) == [i \in DOMAIN m.fields |-> FieldWire(m.fields[i])]
FieldTexts(m) == [i \in DOMAIN m.fields |-> FieldText(m.fields[i])]
Wires(ms) == [i \in DOMAIN ms |-> Wire(ms[i])]
Texts(ms) == [i \in DOMAIN ms |-> Rendered(ms[i])]

(* Where a token of the start line begins, the line feed being the fourth ... *)
TokenAt(m, n) ==
    CASE n = 1 -> 0
      [] n = 2 -> Len(m.line[1]) + 1
      [] n = 3 -> Len(m.line[1]) + 1 + Len(m.line[2]) + 1
      [] OTHER -> Len(m.line[1]) + 1 + Len(m.line[2]) + 1 + Len(m.line[3]) + 1

(* ... and a field, as sent and as written. *)
FieldAt(m, f) == Len(StartLine(m)) + Upto(FieldWires(m), f - 1)
TextAt(m, f)  == Len(StartLine(m)) + Upto(FieldTexts(m), f - 1)

Fields == [name : Seq(STRING), pad : Seq({"SP"}), value : Seq(STRING)]

(* The parts of a message are texts. *)
LEMMA MessageTypes ==
    ASSUME NEW m \in Messages, Framed(m)
    PROVE  /\ m.line[1] \in Seq(Bytes) /\ m.line[2] \in Seq(Bytes) /\ m.line[3] \in Seq(Bytes)
           /\ m.tail \in Seq(Bytes) /\ m.fields \in Seq(Fields) /\ Len(m.fields) \in Nat
           /\ DOMAIN m.fields = 1 .. Len(m.fields)
           /\ \A f \in 1 .. Len(m.fields) :
                /\ m.fields[f] \in Fields
                /\ m.fields[f].name \in Seq(Bytes) /\ m.fields[f].pad \in Seq(Bytes)
                /\ m.fields[f].value \in Seq(Bytes)
  <1>1. /\ m.line \in Seq(Seq(STRING)) /\ m.tail \in Seq(STRING) /\ m.fields \in Seq(Fields)
        /\ Len(m.line) = 3
    BY DEF Messages, Fields, Framed
  <1>2. 1 \in 1 .. Len(m.line) /\ 2 \in 1 .. Len(m.line) /\ 3 \in 1 .. Len(m.line)
    BY <1>1
  <1>3. m.line[1] \in Seq(STRING) /\ m.line[2] \in Seq(STRING) /\ m.line[3] \in Seq(STRING)
    <2> DEFINE T == Seq(STRING)
    <2>1. m.line \in Seq(T)
      BY <1>1
    <2> HIDE DEF T
    <2>2. m.line[1] \in T /\ m.line[2] \in T /\ m.line[3] \in T
      BY <1>2, <2>1
    <2> QED BY <2>2 DEF T
  <1>4. Len(m.fields) \in Nat /\ DOMAIN m.fields = 1 .. Len(m.fields)
        /\ \A f \in 1 .. Len(m.fields) : m.fields[f] \in Fields
    BY <1>1
  <1>5. ASSUME NEW x \in Fields PROVE x.name \in Seq(Bytes) /\ x.pad \in Seq(Bytes) /\ x.value \in Seq(Bytes)
    <2>1. x.name \in Seq(STRING) /\ x.pad \in Seq({"SP"}) /\ x.value \in Seq(STRING)
      BY DEF Fields
    <2>2. {"SP"} \subseteq Bytes
      BY DEF Bytes
    <2>3. x.pad \in Seq(Bytes)
      BY <2>1, <2>2, SeqMonotonic
    <2> QED BY <2>1, <2>3, BytesText
  <1>6. /\ m.line[1] \in Seq(Bytes) /\ m.line[2] \in Seq(Bytes) /\ m.line[3] \in Seq(Bytes)
        /\ m.tail \in Seq(Bytes)
    BY <1>1, <1>3, BytesText
  <1> QED BY <1>1, <1>4, <1>5, <1>6

(* The fields of a message are texts, and so is what they are joined to. *)
LEMMA FieldSeqs ==
    ASSUME NEW m \in Messages, Framed(m)
    PROVE  /\ FieldWires(m) \in Seq(Seq(Bytes)) /\ Len(FieldWires(m)) = Len(m.fields)
           /\ FieldTexts(m) \in Seq(Seq(Bytes)) /\ Len(FieldTexts(m)) = Len(m.fields)
           /\ \A f \in 1 .. Len(m.fields) : /\ FieldWires(m)[f] = FieldWire(m.fields[f])
                                            /\ FieldTexts(m)[f] = FieldText(m.fields[f])
  <1>1. /\ Len(m.fields) \in Nat /\ DOMAIN m.fields = 1 .. Len(m.fields)
        /\ \A f \in 1 .. Len(m.fields) :
                /\ m.fields[f].name \in Seq(Bytes) /\ m.fields[f].pad \in Seq(Bytes)
                /\ m.fields[f].value \in Seq(Bytes)
    BY MessageTypes
  <1>2. \A f \in 1 .. Len(m.fields) : FieldWires(m)[f] = FieldWire(m.fields[f])
                                      /\ FieldTexts(m)[f] = FieldText(m.fields[f])
    BY <1>1 DEF FieldWires, FieldTexts
  <1>3. ASSUME NEW f \in 1 .. Len(m.fields)
        PROVE  FieldWire(m.fields[f]) \in Seq(Bytes) /\ FieldText(m.fields[f]) \in Seq(Bytes)
    <2>1. PICK x : x = m.fields[f]
      OBVIOUS
    <2>2. x.name \in Seq(Bytes) /\ x.pad \in Seq(Bytes) /\ x.value \in Seq(Bytes)
      BY <1>1, <2>1
    <2>3. FieldWire(x) \in Seq(Bytes)
      <3>1. FieldWireOf(x.name, x.pad, x.value, FieldWire(x))
        BY <2>2, FieldWireParts, Zenon DEF FieldWire
      <3> QED BY <3>1, Zenon DEF FieldWireOf
    <2>4. FieldText(x) \in Seq(Bytes)
      <3>1. FieldTextOf(x.name, x.value, FieldText(x))
        BY <2>2, FieldTextParts, Zenon DEF FieldText
      <3> QED BY <3>1, Zenon DEF FieldTextOf
    <2> QED BY <2>1, <2>3, <2>4
  <1>4. DOMAIN FieldWires(m) = 1 .. Len(m.fields)
        /\ FieldWires(m) = [f \in 1 .. Len(m.fields) |-> FieldWires(m)[f]]
    BY <1>1 DEF FieldWires
  <1>5. DOMAIN FieldTexts(m) = 1 .. Len(m.fields)
        /\ FieldTexts(m) = [f \in 1 .. Len(m.fields) |-> FieldTexts(m)[f]]
    BY <1>1 DEF FieldTexts
  <1>6. FieldWires(m) \in Seq(Seq(Bytes)) /\ Len(FieldWires(m)) = Len(m.fields)
    <2>1. \A f \in 1 .. Len(m.fields) : FieldWires(m)[f] \in Seq(Bytes)
      BY <1>2, <1>3
    <2>2. PICK g : g = FieldWires(m)
      OBVIOUS
    <2>3. DOMAIN g = 1 .. Len(m.fields) /\ g = [f \in 1 .. Len(m.fields) |-> g[f]]
          /\ \A f \in 1 .. Len(m.fields) : g[f] \in Seq(Bytes)
      BY <1>4, <2>1, <2>2, Zenon
    <2>4. g \in Seq(Seq(Bytes)) /\ Len(g) = Len(m.fields)
      BY <1>1, <2>3, SeqOfTexts, Zenon
    <2> QED BY <2>2, <2>4, Zenon
  <1>7. FieldTexts(m) \in Seq(Seq(Bytes)) /\ Len(FieldTexts(m)) = Len(m.fields)
    <2>1. \A f \in 1 .. Len(m.fields) : FieldTexts(m)[f] \in Seq(Bytes)
      BY <1>2, <1>3
    <2>2. PICK g : g = FieldTexts(m)
      OBVIOUS
    <2>3. DOMAIN g = 1 .. Len(m.fields) /\ g = [f \in 1 .. Len(m.fields) |-> g[f]]
          /\ \A f \in 1 .. Len(m.fields) : g[f] \in Seq(Bytes)
      BY <1>5, <2>1, <2>2, Zenon
    <2>4. g \in Seq(Seq(Bytes)) /\ Len(g) = Len(m.fields)
      BY <1>1, <2>3, SeqOfTexts, Zenon
    <2> QED BY <2>2, <2>4, Zenon
  <1> QED BY <1>2, <1>6, <1>7

(* A start line, the fields and the end of a message. *)
LEMMA WholeMessage ==
    ASSUME NEW m \in Messages, Framed(m)
    PROVE  /\ StartLine(m) \in Seq(Bytes) /\ Len(StartLine(m)) = TokenAt(m, 4) + 1
           /\ Wire(m) \in Seq(Bytes) /\ Rendered(m) \in Seq(Bytes)
           /\ Len(Wire(m)) = FieldAt(m, Len(m.fields) + 1) + Len(m.tail)
           /\ Len(Rendered(m)) = TextAt(m, Len(m.fields) + 1) + 2
           /\ Holds(Wire(m), 0, StartLine(m)) /\ Holds(Rendered(m), 0, StartLine(m))
           /\ Holds(Wire(m), Len(StartLine(m)), FlattenSeq(FieldWires(m)))
           /\ Holds(Rendered(m), Len(StartLine(m)), FlattenSeq(FieldTexts(m)))
           /\ Holds(Wire(m), FieldAt(m, Len(m.fields) + 1), m.tail)
           /\ Holds(Rendered(m), TextAt(m, Len(m.fields) + 1), EndLine)
           /\ FlattenSeq(FieldWires(m)) \in Seq(Bytes) /\ FlattenSeq(FieldTexts(m)) \in Seq(Bytes)
  <1>1. /\ m.line[1] \in Seq(Bytes) /\ m.line[2] \in Seq(Bytes) /\ m.line[3] \in Seq(Bytes)
        /\ m.tail \in Seq(Bytes) /\ Len(m.fields) \in Nat
    BY MessageTypes
  <1>2. PICK s, u, v : s = StartLine(m) /\ u = FlattenSeq(FieldWires(m)) /\ v = FlattenSeq(FieldTexts(m))
    OBVIOUS
  <1>3. s \in Seq(Bytes) /\ Len(s) = Len(m.line[1]) + 1 + Len(m.line[2]) + 1 + Len(m.line[3]) + 2
    <2>1. LineOf(m.line[1], m.line[2], m.line[3], s)
      BY <1>1, <1>2, LineParts, Zenon DEF StartLine
    <2> QED BY <2>1, Zenon DEF LineOf
  <1>4. Len(s) = TokenAt(m, 4) + 1
    <2>1. TokenAt(m, 4) = Len(m.line[1]) + 1 + Len(m.line[2]) + 1 + Len(m.line[3]) + 1
      BY DEF TokenAt
    <2>2. \A x \in Nat : x + 2 = x + 1 + 1
      OBVIOUS
    <2>3. Len(m.line[1]) + 1 + Len(m.line[2]) + 1 + Len(m.line[3]) \in Nat
      <3>1. Len(m.line[1]) \in Nat /\ Len(m.line[2]) \in Nat /\ Len(m.line[3]) \in Nat
        BY <1>1
      <3>2. \A x, y, z \in Nat : x + 1 + y + 1 + z \in Nat
        OBVIOUS
      <3> QED BY <3>1, <3>2, Zenon
    <2> QED BY <1>3, <2>1, <2>2, <2>3, Zenon
  <1>5. /\ FieldWires(m) \in Seq(Seq(Bytes)) /\ Len(FieldWires(m)) = Len(m.fields)
        /\ FieldTexts(m) \in Seq(Seq(Bytes)) /\ Len(FieldTexts(m)) = Len(m.fields)
    BY FieldSeqs
  <1>6. u \in Seq(Bytes) /\ Upto(FieldWires(m), Len(m.fields)) = Len(u)
    BY <1>2, <1>5, FlattenPlaces
  <1>7. v \in Seq(Bytes) /\ Upto(FieldTexts(m), Len(m.fields)) = Len(v)
    BY <1>2, <1>5, FlattenPlaces
  <1>8. Len(m.fields) + 1 - 1 = Len(m.fields)
    BY <1>1
  <1>9. FieldAt(m, Len(m.fields) + 1) = Len(s) + Len(u) /\ TextAt(m, Len(m.fields) + 1) = Len(s) + Len(v)
    <2>1. FieldAt(m, Len(m.fields) + 1) = Len(s) + Upto(FieldWires(m), Len(m.fields))
      BY <1>2, <1>8 DEF FieldAt
    <2>2. TextAt(m, Len(m.fields) + 1) = Len(s) + Upto(FieldTexts(m), Len(m.fields))
      BY <1>2, <1>8 DEF TextAt
    <2> QED BY <1>6, <1>7, <2>1, <2>2, Zenon
  <1>10. Wire(m) = s \o u \o m.tail
    BY <1>2, Zenon DEF Wire, FieldWires, FieldWire
  <1>11. Rendered(m) = s \o v \o EndLine
    BY <1>2, Zenon DEF Rendered, FieldTexts, FieldText
  <1>12. /\ Wire(m) \in Seq(Bytes) /\ Len(Wire(m)) = Len(s) + Len(u) + Len(m.tail)
         /\ Holds(Wire(m), 0, s) /\ Holds(Wire(m), Len(s), u) /\ Holds(Wire(m), Len(s) + Len(u), m.tail)
    BY <1>1, <1>3, <1>6, <1>10, ThreeParts
  <1>13. /\ Rendered(m) \in Seq(Bytes) /\ Len(Rendered(m)) = Len(s) + Len(v) + Len(EndLine)
         /\ Holds(Rendered(m), 0, s) /\ Holds(Rendered(m), Len(s), v)
         /\ Holds(Rendered(m), Len(s) + Len(v), EndLine)
    BY <1>3, <1>7, <1>11, ThreeParts, Marks
  <1> QED BY <1>2, <1>3, <1>4, <1>6, <1>7, <1>9, <1>12, <1>13, Marks, Zenon

-----------------------------------------------------------------------------
(* Where the parts of a message are in what was sent. *)

(* Text t stands in w behind the first p, and c follows it. *)
Token(w, p, t, c) ==
    /\ p \in Nat /\ t \in Seq(Bytes) /\ Holds(w, p, t)
    /\ p + Len(t) < Len(w) /\ w[p + Len(t) + 1] = c

FieldLength(x) == Len(x.name) + 1 + Len(x.pad) + Len(x.value) + 2
PadAt(p, x) == p + Len(x.name) + 1
ValueAt(p, x) == p + Len(x.name) + 1 + Len(x.pad)

(* A field stands in w behind the first p. *)
FieldLayout(w, p, x) ==
    /\ Token(w, p, x.name, ":") /\ Holds(w, PadAt(p, x), x.pad) /\ Token(w, ValueAt(p, x), x.value, "CR")
    /\ p + FieldLength(x) <= Len(w) /\ w[p + FieldLength(x)] = "LF"

(* Where a field was sent its parts are. *)
LEMMA FieldLayoutHolds ==
    ASSUME NEW w \in Seq(Bytes), NEW p \in Nat, NEW x \in Fields, x.name \in Seq(Bytes),
           x.pad \in Seq(Bytes), x.value \in Seq(Bytes), Holds(w, p, FieldWire(x))
    PROVE  FieldLayout(w, p, x) /\ Len(FieldWire(x)) = FieldLength(x)
  <1>1. FieldWireOf(x.name, x.pad, x.value, FieldWire(x))
    BY FieldWireParts, Zenon DEF FieldWire
  <1>2. PICK t, n, d, v, l, k, j : t = FieldWire(x) /\ n = x.name /\ d = x.pad /\ v = x.value
                                   /\ l = Len(x.name) /\ k = Len(x.pad) /\ j = Len(x.value)
    OBVIOUS
  <1>3. /\ t \in Seq(Bytes) /\ Len(t) = l + 1 + k + j + 2
        /\ Holds(t, 0, n) /\ Holds(t, l, <<":">>) /\ Holds(t, l + 1, d) /\ Holds(t, l + 1 + k, v)
        /\ Holds(t, l + 1 + k + j, EndLine)
    BY <1>1, <1>2, Zenon DEF FieldWireOf
  <1>4. l \in Nat /\ k \in Nat /\ j \in Nat /\ l = Len(n) /\ k = Len(d) /\ j = Len(v) /\ Len(w) \in Nat
        /\ n \in Seq(Bytes) /\ d \in Seq(Bytes) /\ v \in Seq(Bytes) /\ Holds(w, p, t)
    BY <1>2
  <1>5. l + 1 \in Nat /\ l + 1 + k \in Nat /\ l + 1 + k + j \in Nat /\ 0 \in Nat
    BY <1>4
  <1>6. /\ Holds(w, p + 0, n) /\ Holds(w, p + l, <<":">>) /\ Holds(w, p + (l + 1), d)
        /\ Holds(w, p + (l + 1 + k), v) /\ Holds(w, p + (l + 1 + k + j), EndLine)
    <2>1. <<":">> \in Seq(Bytes) /\ EndLine \in Seq(Bytes)
      BY Marks
    <2>2. Holds(w, p + 0, n)
      BY <1>3, <1>4, <1>5, HoldsWithin, Zenon
    <2>3. Holds(w, p + l, <<":">>)
      BY <1>3, <1>4, <1>5, <2>1, HoldsWithin, Zenon
    <2>4. Holds(w, p + (l + 1), d)
      BY <1>3, <1>4, <1>5, HoldsWithin, Zenon
    <2>5. Holds(w, p + (l + 1 + k), v)
      BY <1>3, <1>4, <1>5, HoldsWithin, Zenon
    <2>6. Holds(w, p + (l + 1 + k + j), EndLine)
      BY <1>3, <1>4, <1>5, <2>1, HoldsWithin, Zenon
    <2> QED BY <2>2, <2>3, <2>4, <2>5, <2>6
  <1>7. p + l < Len(w) /\ w[p + l + 1] = ":"
    <2>1. PICK c : c = <<":">>
      OBVIOUS
    <2>2. Len(c) = 1 /\ c[1] = ":"
      BY <2>1, Marks
    <2>3. p + l + Len(c) <= Len(w) /\ w[p + l + 1] = c[1]
      BY <1>6, <2>1, <2>2 DEF Holds
    <2> QED BY <1>4, <2>2, <2>3
  <1>8. PICK y : y = p + (l + 1 + k + j)
    OBVIOUS
  <1>9. y + 2 <= Len(w) /\ w[y + 1] = "CR" /\ w[y + 2] = "LF"
    <2>1. Holds(w, y, EndLine)
      BY <1>6, <1>8
    <2> QED BY <2>1, Marks DEF Holds
  <1>10. /\ p + 0 = p /\ p + (l + 1) = p + l + 1 /\ p + (l + 1 + k) = p + l + 1 + k
         /\ y = p + l + 1 + k + j /\ y + 2 = p + (l + 1 + k + j + 2) /\ p + l + 1 + k \in Nat
         /\ y < y + 2 /\ y \in Nat
    BY <1>4, <1>8
  <1>11. Token(w, p, n, ":")
    BY <1>4, <1>6, <1>7, <1>10, Zenon DEF Token
  <1>12. Token(w, p + l + 1 + k, v, "CR")
    <2>1. Holds(w, p + l + 1 + k, v)
      BY <1>6, <1>10, Zenon
    <2>2. y < Len(w)
      BY <1>4, <1>9, <1>10
    <2> QED BY <1>4, <1>9, <1>10, <2>1, <2>2, Zenon DEF Token
  <1>13. Holds(w, p + l + 1, d)
    BY <1>6, <1>10, Zenon
  <1>14. FieldLength(x) = l + 1 + k + j + 2 /\ PadAt(p, x) = p + l + 1 /\ ValueAt(p, x) = p + l + 1 + k
    BY <1>2, Zenon DEF FieldLength, PadAt, ValueAt
  <1>15. p + FieldLength(x) <= Len(w) /\ w[p + FieldLength(x)] = "LF"
    BY <1>9, <1>10, <1>14, Zenon
  <1> QED BY <1>2, <1>3, <1>11, <1>12, <1>13, <1>14, <1>15, Zenon DEF FieldLayout

(* The start line stands there too. *)
LineLayout(w, b, m) ==
    /\ TokenAt(m, 1) = 0 /\ Token(w, b + TokenAt(m, 1), m.line[1], "SP")
    /\ TokenAt(m, 2) = TokenAt(m, 1) + Len(m.line[1]) + 1 /\ Token(w, b + TokenAt(m, 2), m.line[2], "SP")
    /\ TokenAt(m, 3) = TokenAt(m, 2) + Len(m.line[2]) + 1 /\ Token(w, b + TokenAt(m, 3), m.line[3], "CR")
    /\ TokenAt(m, 4) = TokenAt(m, 3) + Len(m.line[3]) + 1 /\ w[b + TokenAt(m, 4) + 1] = "LF"
    /\ b + Len(StartLine(m)) <= Len(w) /\ Len(StartLine(m)) = TokenAt(m, 4) + 1
    /\ TokenAt(m, 2) \in Nat /\ TokenAt(m, 3) \in Nat /\ TokenAt(m, 4) \in Nat

(* Where a start line was sent its tokens are. *)
LEMMA LineLayoutHolds ==
    ASSUME NEW w \in Seq(Bytes), NEW b \in Nat, NEW m \in Messages, Framed(m), Holds(w, b, StartLine(m))
    PROVE  LineLayout(w, b, m)
  <1>0. /\ m.line[1] \in Seq(Bytes) /\ m.line[2] \in Seq(Bytes) /\ m.line[3] \in Seq(Bytes)
        /\ Len(StartLine(m)) = TokenAt(m, 4) + 1
    BY MessageTypes, WholeMessage
  <1>1. LineOf(m.line[1], m.line[2], m.line[3], StartLine(m))
    BY <1>0, LineParts, Zenon DEF StartLine
  <1>2. PICK t, x, y, z, i, j, k : t = StartLine(m) /\ x = m.line[1] /\ y = m.line[2] /\ z = m.line[3]
                                   /\ i = Len(x) /\ j = Len(y) /\ k = Len(z)
    OBVIOUS
  <1>3. /\ t \in Seq(Bytes) /\ Len(t) = i + 1 + j + 1 + k + 2
        /\ Holds(t, 0, x) /\ Holds(t, i, Space) /\ Holds(t, i + 1, y) /\ Holds(t, i + 1 + j, Space)
        /\ Holds(t, i + 1 + j + 1, z) /\ Holds(t, i + 1 + j + 1 + k, EndLine)
    BY <1>1, <1>2, Zenon DEF LineOf
  <1>4. i \in Nat /\ j \in Nat /\ k \in Nat /\ Len(w) \in Nat
        /\ x \in Seq(Bytes) /\ y \in Seq(Bytes) /\ z \in Seq(Bytes) /\ Holds(w, b, t)
    <2>1. x \in Seq(Bytes) /\ y \in Seq(Bytes) /\ z \in Seq(Bytes) /\ Holds(w, b, t)
      BY <1>0, <1>2, Zenon
    <2>2. Len(x) \in Nat /\ Len(y) \in Nat /\ Len(z) \in Nat /\ Len(w) \in Nat
      BY <2>1
    <2> QED BY <1>2, <2>1, <2>2, Zenon
  <1>5. 0 \in Nat /\ i + 1 \in Nat /\ i + 1 + j \in Nat /\ i + 1 + j + 1 \in Nat /\ i + 1 + j + 1 + k \in Nat
    BY <1>4
  <1>6. Space \in Seq(Bytes) /\ EndLine \in Seq(Bytes)
    BY Marks
  <1>7. Holds(w, b + 0, x)
    BY <1>3, <1>4, <1>5, HoldsWithin, Zenon
  <1>8. Holds(w, b + i, Space)
    BY <1>3, <1>4, <1>5, <1>6, HoldsWithin, Zenon
  <1>9. Holds(w, b + (i + 1), y)
    BY <1>3, <1>4, <1>5, HoldsWithin, Zenon
  <1>10. Holds(w, b + (i + 1 + j), Space)
    BY <1>3, <1>4, <1>5, <1>6, HoldsWithin, Zenon
  <1>11. Holds(w, b + (i + 1 + j + 1), z)
    BY <1>3, <1>4, <1>5, HoldsWithin, Zenon
  <1>12. Holds(w, b + (i + 1 + j + 1 + k), EndLine)
    BY <1>3, <1>4, <1>5, <1>6, HoldsWithin, Zenon
  <1>13. \A p \in Nat : Holds(w, p, Space) => p < Len(w) /\ w[p + 1] = "SP"
    BY <1>4, Marks DEF Holds
  <1>14. \A p \in Nat : Holds(w, p, EndLine) => p + 1 < Len(w) /\ w[p + 1] = "CR" /\ w[p + 2] = "LF"
    BY <1>4, Marks DEF Holds
  <1>15. /\ TokenAt(m, 1) = 0 /\ TokenAt(m, 2) = i + 1 /\ TokenAt(m, 3) = i + 1 + j + 1
         /\ TokenAt(m, 4) = i + 1 + j + 1 + k + 1
    BY <1>2 DEF TokenAt
  <1>16. Token(w, b + 0, x, "SP")
    <2>1. b + 0 \in Nat /\ b + 0 + i = b + i /\ b + i \in Nat
      BY <1>4
    <2> QED BY <1>2, <1>4, <1>7, <1>8, <1>13, <2>1 DEF Token
  <1>17. Token(w, b + (i + 1), y, "SP")
    <2>1. b + (i + 1) \in Nat /\ b + (i + 1) + j = b + (i + 1 + j) /\ b + (i + 1 + j) \in Nat
      BY <1>4
    <2> QED BY <1>2, <1>4, <1>9, <1>10, <1>13, <2>1 DEF Token
  <1>18. PICK e : e = b + (i + 1 + j + 1 + k)
    OBVIOUS
  <1>19. e \in Nat /\ e + 1 < Len(w) /\ w[e + 1] = "CR" /\ w[e + 2] = "LF"
    <2>1. e \in Nat
      BY <1>4, <1>18
    <2> QED BY <1>12, <1>14, <1>18, <2>1
  <1>20. Token(w, b + (i + 1 + j + 1), z, "CR")
    <2>1. b + (i + 1 + j + 1) \in Nat /\ b + (i + 1 + j + 1) + k = e /\ e < Len(w)
      BY <1>4, <1>18, <1>19
    <2> QED BY <1>2, <1>4, <1>11, <1>19, <2>1 DEF Token
  <1>21. /\ b + TokenAt(m, 4) + 1 = e + 2 /\ b + (TokenAt(m, 4) + 1) <= Len(w)
    BY <1>4, <1>15, <1>18, <1>19
  <1>22. TokenAt(m, 2) \in Nat /\ TokenAt(m, 3) \in Nat /\ TokenAt(m, 4) \in Nat
         /\ 0 + i + 1 = i + 1
    BY <1>4, <1>15
  <1> QED BY <1>0, <1>2, <1>15, <1>16, <1>17, <1>19, <1>20, <1>21, <1>22 DEF LineLayout

(***************************************************************************)
(* A message stands in w behind the first b.                               *)
(***************************************************************************)
Layout(w, b, m) ==
    /\ b \in Nat /\ LineLayout(w, b, m) /\ FieldAt(m, 1) = Len(StartLine(m))
    /\ \A f \in 1 .. Len(m.fields) :
          /\ FieldAt(m, f) \in Nat /\ FieldLayout(w, b + FieldAt(m, f), m.fields[f])
          /\ FieldAt(m, f + 1) = FieldAt(m, f) + FieldLength(m.fields[f])
    /\ FieldAt(m, Len(m.fields) + 1) \in Nat /\ Holds(w, b + FieldAt(m, Len(m.fields) + 1), m.tail)
    /\ Len(Wire(m)) = FieldAt(m, Len(m.fields) + 1) + Len(m.tail)
    /\ b + Len(Wire(m)) <= Len(w)

(* Where a message was sent its parts are. *)
LEMMA LayoutHolds ==
    ASSUME NEW w \in Seq(Bytes), NEW b \in Nat, NEW m \in Messages, Framed(m), Holds(w, b, Wire(m))
    PROVE  Layout(w, b, m)
  <1>1. PICK s, u, t, d : s = StartLine(m) /\ u = FlattenSeq(FieldWires(m)) /\ t = Wire(m)
                          /\ d = FieldWires(m)
    OBVIOUS
  <1>2. /\ s \in Seq(Bytes) /\ t \in Seq(Bytes) /\ u \in Seq(Bytes) /\ Holds(w, b, t)
        /\ Holds(t, 0, s) /\ Holds(t, Len(s), u) /\ Holds(t, FieldAt(m, Len(m.fields) + 1), m.tail)
        /\ Len(Wire(m)) = FieldAt(m, Len(m.fields) + 1) + Len(m.tail)
    BY <1>1, WholeMessage
  <1>3. /\ m.tail \in Seq(Bytes) /\ Len(m.fields) \in Nat
        /\ \A f \in 1 .. Len(m.fields) :
              /\ m.fields[f] \in Fields /\ m.fields[f].name \in Seq(Bytes)
              /\ m.fields[f].pad \in Seq(Bytes) /\ m.fields[f].value \in Seq(Bytes)
    BY MessageTypes
  <1>4. Len(s) \in Nat /\ 0 \in Nat /\ b + 0 = b /\ Len(w) \in Nat /\ b + Len(s) \in Nat
    BY <1>2
  <1>5. LineLayout(w, b, m)
    <2>1. Holds(w, b + 0, s)
      BY <1>2, <1>4, HoldsWithin, Zenon
    <2>2. Holds(w, b, StartLine(m))
      BY <1>1, <1>4, <2>1, Zenon
    <2> QED BY <2>2, LineLayoutHolds, Zenon
  <1>6. d \in Seq(Seq(Bytes)) /\ Len(d) = Len(m.fields)
        /\ \A f \in 1 .. Len(m.fields) : d[f] = FieldWire(m.fields[f])
    BY <1>1, FieldSeqs
  <1>7. Upto(d, 0) = 0 /\ \A i \in 0 .. Len(d) : Upto(d, i) \in Nat
    BY <1>6, FlattenPlaces
  <1>8. FieldAt(m, 1) = Len(s)
    <2>1. FieldAt(m, 1) = Len(s) + Upto(d, 1 - 1) /\ 1 - 1 = 0
      BY <1>1 DEF FieldAt
    <2> QED BY <1>4, <1>7, <2>1
  <1>9. Holds(w, b + Len(s), u)
    BY <1>2, <1>4, HoldsWithin, Zenon
  <1>10. ASSUME NEW f \in 1 .. Len(m.fields)
         PROVE  /\ FieldAt(m, f) \in Nat /\ FieldLayout(w, b + FieldAt(m, f), m.fields[f])
                /\ FieldAt(m, f + 1) = FieldAt(m, f) + FieldLength(m.fields[f])
    <2>1. PICK x, k, l : x = m.fields[f] /\ k = Upto(d, f - 1) /\ l = Upto(d, f)
      OBVIOUS
    <2>2. /\ Holds(u, k, FieldWire(x)) /\ k \in Nat /\ l \in Nat /\ l = k + Len(FieldWire(x))
          /\ FieldWire(x) \in Seq(Bytes)
      <3>1. f \in 1 .. Len(d) /\ d[f] = FieldWire(x) /\ FlattenSeq(d) = u
        BY <1>1, <1>6, <2>1
      <3>2. /\ Holds(FlattenSeq(d), Upto(d, f - 1), d[f])
            /\ Upto(d, f - 1) \in Nat /\ Upto(d, f) \in Nat
            /\ Upto(d, f) = Upto(d, f - 1) + Len(d[f]) /\ d[f] \in Seq(Bytes)
        BY <1>6, <3>1, HoldsPiece
      <3> QED BY <2>1, <3>1, <3>2, Zenon
    <2>3. Holds(w, b + Len(s) + k, FieldWire(x))
      BY <1>2, <1>4, <1>9, <2>2, HoldsWithin, Zenon
    <2>4. FieldAt(m, f) = Len(s) + k /\ FieldAt(m, f + 1) = Len(s) + l
      <3>1. f + 1 - 1 = f
        BY <1>3
      <3> QED BY <1>1, <2>1, <3>1 DEF FieldAt
    <2>5. b + Len(s) + k = b + (Len(s) + k) /\ Len(s) + k \in Nat /\ b + (Len(s) + k) \in Nat
      BY <1>4, <2>2
    <2>6. /\ x \in Fields /\ x.name \in Seq(Bytes) /\ x.pad \in Seq(Bytes) /\ x.value \in Seq(Bytes)
      BY <1>3, <2>1
    <2>7. PICK p : p = b + (Len(s) + k)
      OBVIOUS
    <2>8. p \in Nat /\ Holds(w, p, FieldWire(x))
      BY <2>3, <2>5, <2>7, Zenon
    <2>9. FieldLayout(w, p, x) /\ Len(FieldWire(x)) = FieldLength(x)
      BY <2>6, <2>8, FieldLayoutHolds
    <2>10. Len(s) + (k + Len(FieldWire(x))) = Len(s) + k + Len(FieldWire(x))
      BY <1>4, <2>2
    <2> QED BY <2>1, <2>2, <2>4, <2>5, <2>7, <2>9, <2>10, Zenon
  <1>11. FieldAt(m, Len(m.fields) + 1) \in Nat
    <2>1. Len(m.fields) + 1 - 1 = Len(m.fields) /\ Len(m.fields) \in 0 .. Len(d)
      BY <1>3, <1>6
    <2>2. FieldAt(m, Len(m.fields) + 1) = Len(s) + Upto(d, Len(m.fields))
      BY <1>1, <2>1 DEF FieldAt
    <2> QED BY <1>4, <1>7, <2>1, <2>2
  <1>12. Holds(w, b + FieldAt(m, Len(m.fields) + 1), m.tail)
    BY <1>2, <1>3, <1>11, HoldsWithin, Zenon
  <1>13. b + Len(Wire(m)) <= Len(w)
    BY <1>1, <1>2 DEF Holds
  <1> QED BY <1>1, <1>2, <1>5, <1>8, <1>10, <1>11, <1>12, <1>13 DEF Layout

-----------------------------------------------------------------------------
(* Where the pieces that header_writer writes are in what is to come out. *)

(* Each field stands in what is to be written. *)
LEMMA TextLayout ==
    ASSUME NEW w \in Seq(Bytes), NEW q \in Nat, NEW m \in Messages, Framed(m), Holds(w, q, Rendered(m)),
           NEW f \in 1 .. Len(m.fields)
    PROVE  /\ TextAt(m, f) \in Nat /\ Holds(w, q + TextAt(m, f), FieldText(m.fields[f]))
           /\ TextAt(m, f + 1) = TextAt(m, f) + Len(FieldText(m.fields[f]))
  <1>1. PICK s, u, t, d : s = StartLine(m) /\ u = FlattenSeq(FieldTexts(m)) /\ t = Rendered(m)
                          /\ d = FieldTexts(m)
    OBVIOUS
  <1>2. /\ s \in Seq(Bytes) /\ t \in Seq(Bytes) /\ u \in Seq(Bytes) /\ Holds(w, q, t)
        /\ Holds(t, Len(s), u)
    BY <1>1, WholeMessage
  <1>3. Len(s) \in Nat /\ q + Len(s) \in Nat /\ Len(m.fields) \in Nat
    BY <1>2, MessageTypes
  <1>4. d \in Seq(Seq(Bytes)) /\ Len(d) = Len(m.fields) /\ d[f] = FieldText(m.fields[f])
    BY <1>1, FieldSeqs
  <1>5. Holds(w, q + Len(s), u)
    BY <1>2, <1>3, HoldsWithin, Zenon
  <1>6. PICK x, k, l : x = m.fields[f] /\ k = Upto(d, f - 1) /\ l = Upto(d, f)
    OBVIOUS
  <1>7. /\ Holds(u, k, FieldText(x)) /\ k \in Nat /\ l \in Nat /\ l = k + Len(FieldText(x))
        /\ FieldText(x) \in Seq(Bytes)
    <2>1. f \in 1 .. Len(d) /\ d[f] = FieldText(x) /\ FlattenSeq(d) = u
      BY <1>1, <1>4, <1>6
    <2>2. /\ Holds(FlattenSeq(d), Upto(d, f - 1), d[f])
          /\ Upto(d, f - 1) \in Nat /\ Upto(d, f) \in Nat
          /\ Upto(d, f) = Upto(d, f - 1) + Len(d[f]) /\ d[f] \in Seq(Bytes)
      BY <1>4, <2>1, HoldsPiece
    <2> QED BY <1>6, <2>1, <2>2, Zenon
  <1>8. Holds(w, q + Len(s) + k, FieldText(x))
    BY <1>2, <1>3, <1>5, <1>7, HoldsWithin, Zenon
  <1>9. TextAt(m, f) = Len(s) + k /\ TextAt(m, f + 1) = Len(s) + l
    <2>1. f + 1 - 1 = f
      BY <1>3
    <2> QED BY <1>1, <1>6, <2>1 DEF TextAt
  <1>10. q + Len(s) + k = q + (Len(s) + k) /\ Len(s) + k \in Nat
    BY <1>3, <1>7
  <1>11. Len(s) + (k + Len(FieldText(x))) = Len(s) + k + Len(FieldText(x))
    BY <1>3, <1>7
  <1> QED BY <1>6, <1>7, <1>8, <1>9, <1>10, <1>11, Zenon

(***************************************************************************)
(* What header_writer writes in state s, when d fields are written, and    *)
(* where that is in the message.                                           *)
(***************************************************************************)
PieceOf(m, s, d) ==
    CASE s = 1 -> m.line[1]
      [] s = 3 -> m.line[2]
      [] s = 5 -> m.line[3]
      [] s \in {2, 4} -> Space
      [] s \in {6, 10, 11} -> EndLine
      [] s = 7 -> m.fields[d + 1].name
      [] s = 8 -> FieldSep
      [] OTHER -> m.fields[d + 1].value

PieceAt(m, s, d) ==
    CASE s = 1 -> 0
      [] s = 2 -> Len(m.line[1])
      [] s = 3 -> Len(m.line[1]) + 1
      [] s = 4 -> Len(m.line[1]) + 1 + Len(m.line[2])
      [] s = 5 -> Len(m.line[1]) + 1 + Len(m.line[2]) + 1
      [] s = 6 -> Len(m.line[1]) + 1 + Len(m.line[2]) + 1 + Len(m.line[3])
      [] s = 7 -> TextAt(m, d + 1)
      [] s = 8 -> TextAt(m, d + 1) + Len(m.fields[d + 1].name)
      [] s = 9 -> TextAt(m, d + 1) + (Len(m.fields[d + 1].name) + 2)
      [] s = 10 -> TextAt(m, d + 1) + (Len(m.fields[d + 1].name) + 2 + Len(m.fields[d + 1].value))
      [] OTHER -> TextAt(m, Len(m.fields) + 1)

(* It stands there, and the next one follows. *)
PieceStands(w, q, m, s, d) ==
    /\ PieceAt(m, s, d) \in Nat /\ PieceOf(m, s, d) \in Seq(Bytes)
    /\ Holds(w, q + PieceAt(m, s, d), PieceOf(m, s, d))

PieceFollows(m, s, d) ==
    LET end == PieceAt(m, s, d) + Len(PieceOf(m, s, d))
    IN  /\ s \in (1 .. 5) \cup (7 .. 9) => PieceAt(m, s + 1, d) = end
        /\ s = 6 => TextAt(m, 1) = end
        /\ s = 10 => TextAt(m, d + 2) = end
        /\ s = 11 => Len(Rendered(m)) = end

(* A piece that is known, and what follows it. *)
LEMMA PieceIs ==
    ASSUME NEW w, NEW q, NEW m, NEW s, NEW d, NEW p \in Nat, NEW t \in Seq(Bytes),
           PieceAt(m, s, d) = p, PieceOf(m, s, d) = t, Holds(w, q + p, t),
           s \in (1 .. 5) \cup (7 .. 9) => PieceAt(m, s + 1, d) = p + Len(t),
           s = 6 => TextAt(m, 1) = p + Len(t), s = 10 => TextAt(m, d + 2) = p + Len(t),
           s = 11 => Len(Rendered(m)) = p + Len(t)
    PROVE  PieceStands(w, q, m, s, d) /\ PieceFollows(m, s, d)
  BY Zenon DEF PieceStands, PieceFollows

(* The pieces of the start line. *)
LEMMA LinePieces ==
    ASSUME NEW w \in Seq(Bytes), NEW q \in Nat, NEW m \in Messages, Framed(m), Holds(w, q, Rendered(m)),
           NEW s \in 1 .. 6, NEW d \in Nat
    PROVE  PieceStands(w, q, m, s, d) /\ PieceFollows(m, s, d)
  <1>0. /\ m.line[1] \in Seq(Bytes) /\ m.line[2] \in Seq(Bytes) /\ m.line[3] \in Seq(Bytes)
        /\ Len(m.fields) \in Nat
    BY MessageTypes
  <1>1. LineOf(m.line[1], m.line[2], m.line[3], StartLine(m))
    BY <1>0, LineParts, Zenon DEF StartLine
  <1>2. PICK t, x, y, z, i, j, k : t = StartLine(m) /\ x = m.line[1] /\ y = m.line[2] /\ z = m.line[3]
                                   /\ i = Len(x) /\ j = Len(y) /\ k = Len(z)
    OBVIOUS
  <1>3. /\ t \in Seq(Bytes) /\ Len(t) = i + 1 + j + 1 + k + 2
        /\ Holds(t, 0, x) /\ Holds(t, i, Space) /\ Holds(t, i + 1, y) /\ Holds(t, i + 1 + j, Space)
        /\ Holds(t, i + 1 + j + 1, z) /\ Holds(t, i + 1 + j + 1 + k, EndLine)
    BY <1>1, <1>2, Zenon DEF LineOf
  <1>4. /\ x \in Seq(Bytes) /\ y \in Seq(Bytes) /\ z \in Seq(Bytes)
        /\ i \in Nat /\ j \in Nat /\ k \in Nat
    <2>1. x \in Seq(Bytes) /\ y \in Seq(Bytes) /\ z \in Seq(Bytes)
      BY <1>0, <1>2, Zenon
    <2>2. Len(x) \in Nat /\ Len(y) \in Nat /\ Len(z) \in Nat
      BY <2>1
    <2> QED BY <1>2, <2>1, <2>2, Zenon
  <1>5. Holds(w, q, t)
    <2>1. Holds(Rendered(m), 0, t) /\ Rendered(m) \in Seq(Bytes)
      BY <1>2, WholeMessage
    <2>2. Holds(w, q + 0, t) /\ q + 0 = q
      <3>1. Holds(w, q + 0, t)
        BY <1>3, <2>1, HoldsWithin
      <3> QED BY <3>1
    <2> QED BY <2>2, Zenon
  <1>6. TextAt(m, 1) = i + 1 + j + 1 + k + 2
    <2>1. /\ FieldTexts(m) \in Seq(Seq(Bytes))
      BY FieldSeqs
    <2>2. Upto(FieldTexts(m), 0) = 0
      BY <2>1, FlattenPlaces
    <2>3. TextAt(m, 1) = Len(t) + Upto(FieldTexts(m), 1 - 1) /\ 1 - 1 = 0
      BY <1>2 DEF TextAt
    <2>4. TextAt(m, 1) = Len(t) + 0
      BY <2>2, <2>3, Zenon
    <2> QED BY <1>3, <1>4, <2>4
  <1>7. 0 \in Nat /\ i + 1 \in Nat /\ i + 1 + j \in Nat /\ i + 1 + j + 1 \in Nat /\ i + 1 + j + 1 + k \in Nat
        /\ 0 + i = i
    BY <1>4
  <1>8. /\ Space \in Seq(Bytes) /\ EndLine \in Seq(Bytes) /\ Len(Space) = 1 /\ Len(EndLine) = 2
    BY Marks
  <1>9. CASE s = 1
    <2>1. PieceAt(m, s, d) = 0 /\ PieceOf(m, s, d) = x /\ PieceAt(m, s + 1, d) = i
      BY <1>2, <1>9 DEF PieceAt, PieceOf
    <2>2. Holds(w, q + 0, x)
      BY <1>3, <1>4, <1>5, <1>7, HoldsWithin, Zenon
    <2>7. PieceAt(m, s + 1, d) = 0 + Len(x)
      BY <1>2, <1>4, <1>7, <2>1
    <2>8. s \notin {6, 10, 11} \ {1}
      BY <1>9
    <2>9. 0 \in Nat /\ x \in Seq(Bytes) /\ PieceAt(m, s, d) = 0 /\ PieceOf(m, s, d) = x /\ Holds(w, q + 0, x)
          /\ (s \in (1 .. 5) \cup (7 .. 9) => PieceAt(m, s + 1, d) = 0 + Len(x))
          /\ (s = 6 => TextAt(m, 1) = 0 + Len(x)) /\ (s = 10 => TextAt(m, d + 2) = 0 + Len(x))
          /\ (s = 11 => Len(Rendered(m)) = 0 + Len(x))
      BY <1>4, <1>7, <1>8, <1>9, <2>1, <2>2, <2>7, <2>8
    <2> QED BY <2>9, PieceIs, Zenon
  <1>10. CASE s = 2
    <2>1. PieceAt(m, s, d) = i /\ PieceOf(m, s, d) = Space /\ PieceAt(m, s + 1, d) = i + 1
      BY <1>2, <1>10 DEF PieceAt, PieceOf
    <2>2. Holds(w, q + i, Space)
      BY <1>3, <1>4, <1>5, <1>7, <1>8, HoldsWithin, Zenon
    <2>7. PieceAt(m, s + 1, d) = i + Len(Space)
      BY <1>8, <2>1
    <2>8. s \notin {6, 10, 11} \ {2}
      BY <1>10
    <2>9. i \in Nat /\ Space \in Seq(Bytes) /\ PieceAt(m, s, d) = i /\ PieceOf(m, s, d) = Space
              /\ Holds(w, q + i, Space)
          /\ (s \in (1 .. 5) \cup (7 .. 9) => PieceAt(m, s + 1, d) = i + Len(Space))
          /\ (s = 6 => TextAt(m, 1) = i + Len(Space)) /\ (s = 10 => TextAt(m, d + 2) = i + Len(Space))
          /\ (s = 11 => Len(Rendered(m)) = i + Len(Space))
      BY <1>4, <1>7, <1>8, <1>10, <2>1, <2>2, <2>7, <2>8
    <2> QED BY <2>9, PieceIs, Zenon
  <1>11. CASE s = 3
    <2>1. PieceAt(m, s, d) = i + 1 /\ PieceOf(m, s, d) = y /\ PieceAt(m, s + 1, d) = i + 1 + j
      BY <1>2, <1>11 DEF PieceAt, PieceOf
    <2>2. Holds(w, q + (i + 1), y)
      BY <1>3, <1>4, <1>5, <1>7, HoldsWithin, Zenon
    <2>7. PieceAt(m, s + 1, d) = (i + 1) + Len(y)
      BY <1>2, <2>1
    <2>8. s \notin {6, 10, 11} \ {3}
      BY <1>11
    <2>9. (i + 1) \in Nat /\ y \in Seq(Bytes) /\ PieceAt(m, s, d) = (i + 1) /\ PieceOf(m, s, d) = y
              /\ Holds(w, q + (i + 1), y)
          /\ (s \in (1 .. 5) \cup (7 .. 9) => PieceAt(m, s + 1, d) = (i + 1) + Len(y))
          /\ (s = 6 => TextAt(m, 1) = (i + 1) + Len(y)) /\ (s = 10 => TextAt(m, d + 2) = (i + 1) + Len(y))
          /\ (s = 11 => Len(Rendered(m)) = (i + 1) + Len(y))
      BY <1>4, <1>7, <1>8, <1>11, <2>1, <2>2, <2>7, <2>8
    <2> QED BY <2>9, PieceIs, Zenon
  <1>12. CASE s = 4
    <2>1. PieceAt(m, s, d) = i + 1 + j /\ PieceOf(m, s, d) = Space /\ PieceAt(m, s + 1, d) = i + 1 + j + 1
      BY <1>2, <1>12 DEF PieceAt, PieceOf
    <2>2. Holds(w, q + (i + 1 + j), Space)
      BY <1>3, <1>4, <1>5, <1>7, <1>8, HoldsWithin, Zenon
    <2>7. PieceAt(m, s + 1, d) = (i + 1 + j) + Len(Space)
      BY <1>8, <2>1
    <2>8. s \notin {6, 10, 11} \ {4}
      BY <1>12
    <2>9. (i + 1 + j) \in Nat /\ Space \in Seq(Bytes) /\ PieceAt(m, s, d) = (i + 1 + j)
              /\ PieceOf(m, s, d) = Space /\ Holds(w, q + (i + 1 + j), Space)
          /\ (s \in (1 .. 5) \cup (7 .. 9) => PieceAt(m, s + 1, d) = (i + 1 + j) + Len(Space))
          /\ (s = 6 => TextAt(m, 1) = (i + 1 + j) + Len(Space))
          /\ (s = 10 => TextAt(m, d + 2) = (i + 1 + j) + Len(Space))
          /\ (s = 11 => Len(Rendered(m)) = (i + 1 + j) + Len(Space))
      BY <1>4, <1>7, <1>8, <1>12, <2>1, <2>2, <2>7, <2>8
    <2> QED BY <2>9, PieceIs, Zenon
  <1>13. CASE s = 5
    <2>1. PieceAt(m, s, d) = i + 1 + j + 1 /\ PieceOf(m, s, d) = z /\ PieceAt(m, s + 1, d) = i + 1 + j + 1 + k
      BY <1>2, <1>13 DEF PieceAt, PieceOf
    <2>2. Holds(w, q + (i + 1 + j + 1), z)
      BY <1>3, <1>4, <1>5, <1>7, HoldsWithin, Zenon
    <2>7. PieceAt(m, s + 1, d) = (i + 1 + j + 1) + Len(z)
      BY <1>2, <2>1
    <2>8. s \notin {6, 10, 11} \ {5}
      BY <1>13
    <2>9. (i + 1 + j + 1) \in Nat /\ z \in Seq(Bytes) /\ PieceAt(m, s, d) = (i + 1 + j + 1)
              /\ PieceOf(m, s, d) = z /\ Holds(w, q + (i + 1 + j + 1), z)
          /\ (s \in (1 .. 5) \cup (7 .. 9) => PieceAt(m, s + 1, d) = (i + 1 + j + 1) + Len(z))
          /\ (s = 6 => TextAt(m, 1) = (i + 1 + j + 1) + Len(z))
          /\ (s = 10 => TextAt(m, d + 2) = (i + 1 + j + 1) + Len(z))
          /\ (s = 11 => Len(Rendered(m)) = (i + 1 + j + 1) + Len(z))
      BY <1>4, <1>7, <1>8, <1>13, <2>1, <2>2, <2>7, <2>8
    <2> QED BY <2>9, PieceIs, Zenon
  <1>14. CASE s = 6
    <2>1. PieceAt(m, s, d) = i + 1 + j + 1 + k /\ PieceOf(m, s, d) = EndLine
      BY <1>2, <1>14 DEF PieceAt, PieceOf
    <2>2. Holds(w, q + (i + 1 + j + 1 + k), EndLine)
      BY <1>3, <1>4, <1>5, <1>7, <1>8, HoldsWithin, Zenon
    <2>7. TextAt(m, 1) = (i + 1 + j + 1 + k) + Len(EndLine)
      BY <1>6, <1>8
    <2>8. s \notin {6, 10, 11} \ {6}
      BY <1>14
    <2>9. (i + 1 + j + 1 + k) \in Nat /\ EndLine \in Seq(Bytes)
              /\ PieceAt(m, s, d) = (i + 1 + j + 1 + k) /\ PieceOf(m, s, d) = EndLine
              /\ Holds(w, q + (i + 1 + j + 1 + k), EndLine)
          /\ (s \in (1 .. 5) \cup (7 .. 9) => PieceAt(m, s + 1, d) = (i + 1 + j + 1 + k) + Len(EndLine))
          /\ (s = 6 => TextAt(m, 1) = (i + 1 + j + 1 + k) + Len(EndLine))
          /\ (s = 10 => TextAt(m, d + 2) = (i + 1 + j + 1 + k) + Len(EndLine))
          /\ (s = 11 => Len(Rendered(m)) = (i + 1 + j + 1 + k) + Len(EndLine))
      BY <1>4, <1>7, <1>8, <1>14, <2>1, <2>2, <2>7, <2>8
    <2> QED BY <2>9, PieceIs, Zenon
  <1> QED BY <1>9, <1>10, <1>11, <1>12, <1>13, <1>14

(* The pieces of a field. *)
LEMMA FieldPieces ==
    ASSUME NEW w \in Seq(Bytes), NEW q \in Nat, NEW m \in Messages, Framed(m), Holds(w, q, Rendered(m)),
           NEW s \in 7 .. 10, NEW d \in Nat, d < Len(m.fields)
    PROVE  PieceStands(w, q, m, s, d) /\ PieceFollows(m, s, d)
  <1>1. PICK f, x, t, p, n, v, i, j : f = d + 1 /\ x = m.fields[f] /\ t = FieldText(x) /\ p = TextAt(m, f)
                          /\ n = x.name /\ v = x.value /\ i = Len(n) /\ j = Len(v)
    OBVIOUS
  <1>2. f \in 1 .. Len(m.fields) /\ Len(m.fields) \in Nat /\ f + 1 = d + 2
    BY <1>1, MessageTypes
  <1>3. n \in Seq(Bytes) /\ v \in Seq(Bytes) /\ i \in Nat /\ j \in Nat
    <2>1. n \in Seq(Bytes) /\ v \in Seq(Bytes)
      BY <1>1, <1>2, MessageTypes
    <2>2. Len(n) \in Nat /\ Len(v) \in Nat
      BY <2>1
    <2> QED BY <1>1, <2>1, <2>2, Zenon
  <1>4. FieldTextOf(n, v, t)
    BY <1>1, <1>3, FieldTextParts, Zenon DEF FieldText
  <1>5. /\ t \in Seq(Bytes) /\ Len(t) = i + 2 + j + 2
        /\ Holds(t, 0, n) /\ Holds(t, i, FieldSep) /\ Holds(t, i + 2, v) /\ Holds(t, i + 2 + j, EndLine)
    BY <1>1, <1>4, Zenon DEF FieldTextOf
  <1>6. p \in Nat /\ Holds(w, q + p, t) /\ TextAt(m, d + 2) = p + Len(t)
    BY <1>1, <1>2, TextLayout
  <1>7. /\ 0 \in Nat /\ i + 2 \in Nat /\ i + 2 + j \in Nat /\ q + p \in Nat
        /\ q + p + 0 = q + p /\ q + p + i = q + (p + i) /\ q + p + (i + 2) = q + (p + (i + 2))
        /\ q + p + (i + 2 + j) = q + (p + (i + 2 + j))
    BY <1>3, <1>6
  <1>8. /\ FieldSep \in Seq(Bytes) /\ EndLine \in Seq(Bytes) /\ Len(FieldSep) = 2 /\ Len(EndLine) = 2
    BY Marks
  <1>9. CASE s = 7
    <2>1. PieceAt(m, s, d) = p /\ PieceOf(m, s, d) = n /\ PieceAt(m, s + 1, d) = p + i
      BY <1>1, <1>9 DEF PieceAt, PieceOf
    <2>2. Holds(w, q + p + 0, n)
      BY <1>3, <1>5, <1>6, <1>7, HoldsWithin, Zenon
    <2>3. Holds(w, q + p, n)
      BY <1>7, <2>2, Zenon
    <2>7. PieceAt(m, s + 1, d) = p + Len(n)
      BY <1>1, <2>1
    <2>8. s \notin {6, 10, 11} \ {7}
      BY <1>9
    <2>9. p \in Nat /\ n \in Seq(Bytes) /\ PieceAt(m, s, d) = p /\ PieceOf(m, s, d) = n /\ Holds(w, q + p, n)
          /\ (s \in (1 .. 5) \cup (7 .. 9) => PieceAt(m, s + 1, d) = p + Len(n))
          /\ (s = 6 => TextAt(m, 1) = p + Len(n)) /\ (s = 10 => TextAt(m, d + 2) = p + Len(n))
          /\ (s = 11 => Len(Rendered(m)) = p + Len(n))
      BY <1>3, <1>6, <1>9, <2>1, <2>3, <2>7, <2>8
    <2> QED BY <2>9, PieceIs, Zenon
  <1>10. CASE s = 8
    <2>1. PieceAt(m, s, d) = p + i /\ PieceOf(m, s, d) = FieldSep /\ PieceAt(m, s + 1, d) = p + (i + 2)
      BY <1>1, <1>10 DEF PieceAt, PieceOf
    <2>2. Holds(w, q + p + i, FieldSep)
      BY <1>3, <1>5, <1>6, <1>7, <1>8, HoldsWithin, Zenon
    <2>3. Holds(w, q + (p + i), FieldSep)
      BY <1>7, <2>2, Zenon
    <2>4. p + i \in Nat /\ p + i + 2 = p + (i + 2)
      BY <1>3, <1>6
    <2>7. PieceAt(m, s + 1, d) = (p + i) + Len(FieldSep)
      BY <1>8, <2>1, <2>4
    <2>8. s \notin {6, 10, 11} \ {8}
      BY <1>10
    <2>9. (p + i) \in Nat /\ FieldSep \in Seq(Bytes) /\ PieceAt(m, s, d) = (p + i)
              /\ PieceOf(m, s, d) = FieldSep /\ Holds(w, q + (p + i), FieldSep)
          /\ (s \in (1 .. 5) \cup (7 .. 9) => PieceAt(m, s + 1, d) = (p + i) + Len(FieldSep))
          /\ (s = 6 => TextAt(m, 1) = (p + i) + Len(FieldSep))
          /\ (s = 10 => TextAt(m, d + 2) = (p + i) + Len(FieldSep))
          /\ (s = 11 => Len(Rendered(m)) = (p + i) + Len(FieldSep))
      BY <1>8, <1>10, <2>1, <2>3, <2>4, <2>7, <2>8
    <2> QED BY <2>9, PieceIs, Zenon
  <1>11. CASE s = 9
    <2>1. PieceAt(m, s, d) = p + (i + 2) /\ PieceOf(m, s, d) = v /\ PieceAt(m, s + 1, d) = p + (i + 2 + j)
      BY <1>1, <1>11 DEF PieceAt, PieceOf
    <2>2. Holds(w, q + p + (i + 2), v)
      <3>1. PICK a, b : a = q + p /\ b = i + 2
        OBVIOUS
      <3>2. a \in Nat /\ b \in Nat /\ Holds(w, a, t) /\ Holds(t, b, v)
        BY <1>5, <1>6, <1>7, <3>1, Zenon
      <3>3. Holds(w, a + b, v)
        BY <1>3, <1>5, <3>2, HoldsWithin, Zenon
      <3> QED BY <3>1, <3>3, Zenon
    <2>3. Holds(w, q + (p + (i + 2)), v)
      BY <1>7, <2>2, Zenon
    <2>4. p + (i + 2) \in Nat /\ p + (i + 2) + j = p + (i + 2 + j)
      BY <1>3, <1>6
    <2>7. PieceAt(m, s + 1, d) = (p + (i + 2)) + Len(v)
      BY <1>1, <2>1, <2>4
    <2>8. s \notin {6, 10, 11} \ {9}
      BY <1>11
    <2>9. (p + (i + 2)) \in Nat /\ v \in Seq(Bytes) /\ PieceAt(m, s, d) = (p + (i + 2))
              /\ PieceOf(m, s, d) = v /\ Holds(w, q + (p + (i + 2)), v)
          /\ (s \in (1 .. 5) \cup (7 .. 9) => PieceAt(m, s + 1, d) = (p + (i + 2)) + Len(v))
          /\ (s = 6 => TextAt(m, 1) = (p + (i + 2)) + Len(v))
          /\ (s = 10 => TextAt(m, d + 2) = (p + (i + 2)) + Len(v))
          /\ (s = 11 => Len(Rendered(m)) = (p + (i + 2)) + Len(v))
      BY <1>3, <1>11, <2>1, <2>3, <2>4, <2>7, <2>8
    <2> QED BY <2>9, PieceIs, Zenon
  <1>12. CASE s = 10
    <2>1. PieceAt(m, s, d) = p + (i + 2 + j) /\ PieceOf(m, s, d) = EndLine
      BY <1>1, <1>12 DEF PieceAt, PieceOf
    <2>2. Holds(w, q + p + (i + 2 + j), EndLine)
      BY <1>3, <1>5, <1>6, <1>7, <1>8, HoldsWithin
    <2>3. Holds(w, q + (p + (i + 2 + j)), EndLine)
      BY <1>7, <2>2, Zenon
    <2>4. p + (i + 2 + j) \in Nat /\ p + (i + 2 + j) + 2 = p + Len(t)
      BY <1>3, <1>5, <1>6
    <2>7. TextAt(m, d + 2) = (p + (i + 2 + j)) + Len(EndLine)
      BY <1>6, <1>8, <2>4
    <2>8. s \notin {6, 10, 11} \ {10}
      BY <1>12
    <2>9. (p + (i + 2 + j)) \in Nat /\ EndLine \in Seq(Bytes) /\ PieceAt(m, s, d) = (p + (i + 2 + j))
              /\ PieceOf(m, s, d) = EndLine /\ Holds(w, q + (p + (i + 2 + j)), EndLine)
          /\ (s \in (1 .. 5) \cup (7 .. 9) => PieceAt(m, s + 1, d) = (p + (i + 2 + j)) + Len(EndLine))
          /\ (s = 6 => TextAt(m, 1) = (p + (i + 2 + j)) + Len(EndLine))
          /\ (s = 10 => TextAt(m, d + 2) = (p + (i + 2 + j)) + Len(EndLine))
          /\ (s = 11 => Len(Rendered(m)) = (p + (i + 2 + j)) + Len(EndLine))
      BY <1>8, <1>12, <2>1, <2>3, <2>4, <2>7, <2>8
    <2> QED BY <2>9, PieceIs, Zenon
  <1> QED BY <1>9, <1>10, <1>11, <1>12

(* Every piece that header_writer writes stands in Rendered() where it should. *)
LEMMA Pieces ==
    ASSUME NEW w \in Seq(Bytes), NEW q \in Nat, NEW m \in Messages, Framed(m), Holds(w, q, Rendered(m)),
           NEW s \in 1 .. 11, NEW d \in Nat, s \in 7 .. 10 => d < Len(m.fields)
    PROVE  PieceStands(w, q, m, s, d) /\ PieceFollows(m, s, d)
  <1>1. CASE s \in 1 .. 6
    BY <1>1, LinePieces
  <1>2. CASE s \in 7 .. 10
    BY <1>2, FieldPieces
  <1>3. CASE s = 11
    <2>1. PICK p : p = TextAt(m, Len(m.fields) + 1)
      OBVIOUS
    <2>2. PieceAt(m, s, d) = p /\ PieceOf(m, s, d) = EndLine
      BY <1>3, <2>1 DEF PieceAt, PieceOf
    <2>3. /\ Rendered(m) \in Seq(Bytes) /\ Len(Rendered(m)) = p + 2 /\ Holds(Rendered(m), p, EndLine)
      BY <2>1, WholeMessage
    <2>4. p \in Nat
      <3>1. /\ FieldTexts(m) \in Seq(Seq(Bytes)) /\ Len(FieldTexts(m)) = Len(m.fields) /\ Len(m.fields) \in Nat
        BY FieldSeqs, MessageTypes
      <3>2. Upto(FieldTexts(m), Len(m.fields)) \in Nat /\ Len(m.fields) + 1 - 1 = Len(m.fields)
        BY <3>1, FlattenPlaces
      <3>3. StartLine(m) \in Seq(Bytes)
        BY WholeMessage
      <3>4. p = Len(StartLine(m)) + Upto(FieldTexts(m), Len(m.fields)) /\ Len(StartLine(m)) \in Nat
        BY <2>1, <3>2, <3>3 DEF TextAt
      <3> QED BY <3>2, <3>4
    <2>5. EndLine \in Seq(Bytes) /\ Len(EndLine) = 2
      BY Marks
    <2>6. Holds(w, q + p, EndLine)
      BY <2>3, <2>4, <2>5, HoldsWithin, Zenon
    <2>7. Len(Rendered(m)) = p + Len(EndLine)
      BY <2>3, <2>5
    <2>8. s \notin {6, 10, 11} \ {11}
      BY <1>3
    <2>9. p \in Nat /\ EndLine \in Seq(Bytes) /\ PieceAt(m, s, d) = p /\ PieceOf(m, s, d) = EndLine
              /\ Holds(w, q + p, EndLine)
          /\ (s \in (1 .. 5) \cup (7 .. 9) => PieceAt(m, s + 1, d) = p + Len(EndLine))
          /\ (s = 6 => TextAt(m, 1) = p + Len(EndLine)) /\ (s = 10 => TextAt(m, d + 2) = p + Len(EndLine))
          /\ (s = 11 => Len(Rendered(m)) = p + Len(EndLine))
      BY <1>3, <2>2, <2>4, <2>5, <2>6, <2>7, <2>8
    <2> QED BY <2>9, PieceIs, Zenon
  <1> QED BY <1>1, <1>2, <1>3

-----------------------------------------------------------------------------
(* The messages of an input. *)

WellFramed(ms) ==
    /\ ms \in Seq(Messages)
    /\ \A i \in DOMAIN ms : Framed(ms[i]) /\ ms[i].type = ms[1].type

(* What was sent in front of message i. *)
Before(ms, i) == Upto(Wires(ms), i - 1)

(* The messages of an input and their texts. *)
LEMMA InputTexts ==
    ASSUME NEW ms, WellFramed(ms)
    PROVE  /\ Len(ms) \in Nat /\ DOMAIN ms = 1 .. Len(ms)
           /\ \A i \in 1 .. Len(ms) : ms[i] \in Messages /\ Framed(ms[i]) /\ ms[i].type = ms[1].type
           /\ Wires(ms) \in Seq(Seq(Bytes)) /\ Len(Wires(ms)) = Len(ms)
           /\ Texts(ms) \in Seq(Seq(Bytes)) /\ Len(Texts(ms)) = Len(ms)
           /\ \A i \in 1 .. Len(ms) : Wires(ms)[i] = Wire(ms[i]) /\ Texts(ms)[i] = Rendered(ms[i])
           /\ Sent(ms) = FlattenSeq(Wires(ms)) /\ Sent(ms) \in Seq(Bytes) /\ Len(Sent(ms)) \in Nat
  <1>1. Len(ms) \in Nat /\ DOMAIN ms = 1 .. Len(ms)
        /\ \A i \in 1 .. Len(ms) : ms[i] \in Messages /\ Framed(ms[i]) /\ ms[i].type = ms[1].type
    BY DEF WellFramed
  <1>2. \A i \in 1 .. Len(ms) : Wire(ms[i]) \in Seq(Bytes) /\ Rendered(ms[i]) \in Seq(Bytes)
    BY <1>1, WholeMessage
  <1>3. \A i \in 1 .. Len(ms) : Wires(ms)[i] = Wire(ms[i]) /\ Texts(ms)[i] = Rendered(ms[i])
    BY <1>1 DEF Wires, Texts
  <1>4. Wires(ms) \in Seq(Seq(Bytes)) /\ Len(Wires(ms)) = Len(ms)
    <2>1. PICK g : g = Wires(ms)
      OBVIOUS
    <2>2. DOMAIN g = 1 .. Len(ms) /\ g = [i \in 1 .. Len(ms) |-> g[i]]
      BY <1>1, <2>1 DEF Wires
    <2>3. \A i \in 1 .. Len(ms) : g[i] \in Seq(Bytes)
      BY <1>2, <1>3, <2>1
    <2>4. g \in Seq(Seq(Bytes)) /\ Len(g) = Len(ms)
      BY <1>1, <2>2, <2>3, SeqOfTexts, Zenon
    <2> QED BY <2>1, <2>4, Zenon
  <1>5. Texts(ms) \in Seq(Seq(Bytes)) /\ Len(Texts(ms)) = Len(ms)
    <2>1. PICK g : g = Texts(ms)
      OBVIOUS
    <2>2. DOMAIN g = 1 .. Len(ms) /\ g = [i \in 1 .. Len(ms) |-> g[i]]
      BY <1>1, <2>1 DEF Texts
    <2>3. \A i \in 1 .. Len(ms) : g[i] \in Seq(Bytes)
      BY <1>2, <1>3, <2>1
    <2>4. g \in Seq(Seq(Bytes)) /\ Len(g) = Len(ms)
      BY <1>1, <2>2, <2>3, SeqOfTexts, Zenon
    <2> QED BY <2>1, <2>4, Zenon
  <1>6. Sent(ms) = FlattenSeq(Wires(ms))
    BY Zenon DEF Sent, Wires
  <1>7. Sent(ms) \in Seq(Bytes)
    BY <1>4, <1>6, FlattenPlaces
  <1>8. Len(Sent(ms)) \in Nat
    BY <1>7
  <1> QED BY <1>1, <1>3, <1>4, <1>5, <1>6, <1>7, <1>8

(* Every message stands where the ones before it end. *)
LEMMA MessagePlace ==
    ASSUME NEW ms, WellFramed(ms), NEW i \in 1 .. Len(ms)
    PROVE  /\ Layout(Sent(ms), Before(ms, i), ms[i])
           /\ Before(ms, i) \in Nat /\ Before(ms, i + 1) \in Nat
           /\ Before(ms, i + 1) = Before(ms, i) + Len(Wire(ms[i])) /\ Len(Wire(ms[i])) \in Nat
           /\ Before(ms, i + 1) <= Len(Sent(ms))
  <1>1. PICK g, m, w : g = Wires(ms) /\ m = ms[i] /\ w = Sent(ms)
    OBVIOUS
  <1>2. /\ Len(ms) \in Nat /\ m \in Messages /\ Framed(m) /\ g \in Seq(Seq(Bytes)) /\ Len(g) = Len(ms)
        /\ g[i] = Wire(m) /\ w = FlattenSeq(g) /\ w \in Seq(Bytes)
    BY <1>1, InputTexts
  <1>3. i \in 1 .. Len(g) /\ i + 1 - 1 = i
    BY <1>2
  <1>4. /\ Holds(FlattenSeq(g), Upto(g, i - 1), g[i]) /\ Upto(g, i - 1) \in Nat /\ Upto(g, i) \in Nat
        /\ Upto(g, i) = Upto(g, i - 1) + Len(g[i]) /\ g[i] \in Seq(Bytes)
    BY <1>2, <1>3, HoldsPiece
  <1>5. Before(ms, i) = Upto(g, i - 1) /\ Before(ms, i + 1) = Upto(g, i)
    BY <1>1, <1>3 DEF Before
  <1>6. Holds(w, Before(ms, i), Wire(m))
    BY <1>2, <1>4, <1>5, Zenon
  <1>7. Layout(w, Before(ms, i), m)
    BY <1>2, <1>4, <1>5, <1>6, LayoutHolds, Zenon
  <1>8. Before(ms, i) + Len(Wire(m)) <= Len(w)
    BY <1>6 DEF Holds
  <1>9. Len(Wire(m)) \in Nat
    BY <1>2, <1>4
  <1> QED BY <1>1, <1>2, <1>4, <1>5, <1>7, <1>8, <1>9, Zenon

(* The first message stands at the begin, the end is behind the last. *)
LEMMA Ends ==
    ASSUME NEW ms, WellFramed(ms)
    PROVE  Before(ms, 1) = 0 /\ Before(ms, Len(ms) + 1) = Len(Sent(ms))
  <1>1. /\ Len(ms) \in Nat /\ Wires(ms) \in Seq(Seq(Bytes)) /\ Len(Wires(ms)) = Len(ms)
        /\ Sent(ms) = FlattenSeq(Wires(ms))
    BY InputTexts
  <1>2. Upto(Wires(ms), 0) = 0 /\ Upto(Wires(ms), Len(ms)) = Len(Sent(ms))
    BY <1>1, FlattenPlaces
  <1>3. 1 - 1 = 0 /\ Len(ms) + 1 - 1 = Len(ms)
    BY <1>1
  <1> QED BY <1>2, <1>3 DEF Before

(* The messages in front of i, as InStartLine measures them. *)
LEMMA SentBefore ==
    ASSUME NEW ms, WellFramed(ms), NEW i \in 1 .. Len(ms)
    PROVE  Len(Sent(SubSeq(ms, 1, i - 1))) = Before(ms, i)
  <1>1. Len(ms) \in Nat /\ ms \in Seq(Messages) /\ DOMAIN ms = 1 .. Len(ms)
    BY InputTexts DEF WellFramed
  <1>2. PICK k, u, g : k = i - 1 /\ u = SubSeq(ms, 1, k) /\ g = Wires(ms)
    OBVIOUS
  <1>3. k \in Nat /\ k <= Len(ms)
    BY <1>1, <1>2
  <1>4. u \in Seq(Messages) /\ Len(u) = k /\ DOMAIN u = 1 .. k /\ \A j \in 1 .. k : u[j] = ms[j]
    BY <1>1, <1>2, <1>3
  <1>5. g \in Seq(Seq(Bytes)) /\ Len(g) = Len(ms) /\ \A j \in 1 .. Len(ms) : g[j] = Wire(ms[j])
    BY <1>2, InputTexts
  <1>6. PICK h : h = SubSeq(g, 1, k)
    OBVIOUS
  <1>7. h = [j \in 1 .. k |-> g[j]]
    BY <1>3, <1>5, <1>6
  <1>8. \A j \in 1 .. k : j \in 1 .. Len(ms)
    BY <1>1, <1>3
  <1>9. [j \in DOMAIN u |-> Wire(u[j])] = h
    BY <1>4, <1>5, <1>7, <1>8
  <1>10. Sent(u) = FlattenSeq(h)
    BY <1>9, Zenon DEF Sent
  <1> QED BY <1>2, <1>6, <1>10, Zenon DEF Before, Upto

-----------------------------------------------------------------------------
(* The messages in front of the first bad one. *)
LEMMA GoodFacts ==
    ASSUME WellFramed(input)
    PROVE  /\ Len(Good) \in Nat /\ Len(Good) <= Len(input) /\ WellFramed(Good)
           /\ \A i \in 1 .. Len(Good) : Good[i] = input[i] /\ WellFormed(input[i])
           /\ Len(Good) < Len(input) => ~WellFormed(input[Len(Good) + 1])
           /\ Good # input <=> Len(Good) < Len(input)
  <1> DEFINE bad == {i \in DOMAIN input : ~WellFormed(input[i])}
  <1>1. /\ Len(input) \in Nat /\ DOMAIN input = 1 .. Len(input) /\ input \in Seq(Messages)
        /\ \A i \in 1 .. Len(input) : Framed(input[i]) /\ input[i].type = input[1].type
    BY InputTexts DEF WellFramed
  <1>2. CASE bad = {}
    <2>1. Good = input
      BY <1>2 DEF Good
    <2>2. \A i \in 1 .. Len(input) : WellFormed(input[i])
      BY <1>1, <1>2
    <2> HIDE DEF bad
    <2> QED BY <1>1, <2>1, <2>2
  <1>3. CASE bad # {}
    <2>1. PICK k : k = Min(bad)
      OBVIOUS
    <2>2. bad \in SUBSET Nat
      BY <1>1
    <2>3. \E n \in bad : \A j \in bad : n <= j
      <3> HIDE DEF bad
      <3> QED BY <1>3, <2>2, LeastNumber
    <2>4. k \in bad /\ \A j \in bad : k <= j
      <3> HIDE DEF bad
      <3> QED BY <2>1, <2>3 DEF Min
    <2>5. Good = SubSeq(input, 1, k - 1)
      BY <1>3, <2>1 DEF Good
    <2>6. k \in 1 .. Len(input) /\ ~WellFormed(input[k])
      BY <1>1, <2>4
    <2>7. \A i \in 1 .. k - 1 : i \in 1 .. Len(input) /\ WellFormed(input[i])
      <3>1. \A i \in 1 .. k - 1 : i \in 1 .. Len(input) /\ ~(k <= i)
        BY <1>1, <2>6
      <3> QED BY <1>1, <2>4, <3>1
    <2> HIDE DEF bad
    <2>8. PICK n, g : n = k - 1 /\ g = Good
      OBVIOUS
    <2>9. n \in Nat /\ n < Len(input) /\ n + 1 = k /\ g = SubSeq(input, 1, n)
      BY <1>1, <2>5, <2>6, <2>8
    <2>10. g \in Seq(Messages) /\ Len(g) = n /\ \A i \in 1 .. n : g[i] = input[i]
      BY <1>1, <2>9
    <2>11. WellFramed(g)
      <3>1. DOMAIN g = 1 .. n
        BY <2>9, <2>10
      <3>2. ASSUME NEW i \in 1 .. n PROVE Framed(g[i]) /\ g[i].type = g[1].type
        <4>1. i \in 1 .. Len(input) /\ 1 \in 1 .. Len(input) /\ 1 \in 1 .. n
          BY <1>1, <2>9
        <4> QED BY <1>1, <2>10, <4>1
      <3> QED BY <2>10, <3>1, <3>2 DEF WellFramed
    <2>12. g # input
      BY <2>9, <2>10
    <2> QED BY <2>6, <2>7, <2>8, <2>9, <2>10, <2>11, <2>12
  <1> QED BY <1>2, <1>3

(* What is to be written, and where message i is in it. *)
Sought == FlattenSeq(Texts(Good))
OutBefore(i) == Upto(Texts(Good), i - 1)

(* The text of a message that must be let through stands in what is sought. *)
LEMMA TextPlace ==
    ASSUME WellFramed(input), NEW i \in 1 .. Len(Good)
    PROVE  /\ Holds(Sought, OutBefore(i), Rendered(input[i])) /\ Sought \in Seq(Bytes)
           /\ OutBefore(i) \in Nat /\ OutBefore(i + 1) = OutBefore(i) + Len(Rendered(input[i]))
  <1>1. /\ WellFramed(Good) /\ Len(Good) \in Nat /\ Good[i] = input[i]
    BY GoodFacts
  <1>2. PICK g, m : g = Texts(Good) /\ m = input[i]
    OBVIOUS
  <1>3. g \in Seq(Seq(Bytes)) /\ Len(g) = Len(Good) /\ g[i] = Rendered(m)
    BY <1>1, <1>2, InputTexts
  <1>4. i \in 1 .. Len(g) /\ i + 1 - 1 = i
    BY <1>1, <1>3
  <1>5. /\ Holds(FlattenSeq(g), Upto(g, i - 1), g[i]) /\ Upto(g, i - 1) \in Nat
        /\ Upto(g, i) = Upto(g, i - 1) + Len(g[i]) /\ FlattenSeq(g) \in Seq(Bytes)
    BY <1>3, <1>4, HoldsPiece
  <1>6. OutBefore(i) = Upto(g, i - 1) /\ OutBefore(i + 1) = Upto(g, i) /\ Sought = FlattenSeq(g)
    BY <1>2, <1>4 DEF OutBefore, Sought
  <1> QED BY <1>2, <1>3, <1>5, <1>6, Zenon

(* What is sought begins with the first and ends with the last of them. *)
LEMMA TextEnds ==
    ASSUME WellFramed(input)
    PROVE  /\ OutBefore(1) = 0 /\ OutBefore(Len(Good) + 1) = Len(Sought) /\ Sought \in Seq(Bytes)
           /\ Len(Sought) \in Nat
  <1>1. WellFramed(Good) /\ Len(Good) \in Nat
    BY GoodFacts
  <1>2. Texts(Good) \in Seq(Seq(Bytes)) /\ Len(Texts(Good)) = Len(Good)
    BY <1>1, InputTexts
  <1>3. Upto(Texts(Good), 0) = 0 /\ Upto(Texts(Good), Len(Good)) = Len(Sought) /\ Sought \in Seq(Bytes)
    BY <1>2, FlattenPlaces DEF Sought
  <1>4. 1 - 1 = 0 /\ Len(Good) + 1 - 1 = Len(Good) /\ Len(Sought) \in Nat
    BY <1>1, <1>3
  <1> QED BY <1>3, <1>4 DEF OutBefore

-----------------------------------------------------------------------------
(***************************************************************************)
(* The inductive invariant.  What was sent is cut by the parser's position *)
(* into what it has dealt with and the rest (Stream); the position is at a *)
(* known place of a known message, and what was taken of that message is   *)
(* in the message_buffer as it was sent (Place); what is out is a prefix   *)
(* of what is sought that ends where header_writer stands (OutInv); every  *)
(* header that is out has its entry in bodies (BodiesInv).                 *)
(***************************************************************************)

(* How much of what was sent the parser has dealt with. *)
Here ==
    Base + (IF pc = "read" \/ message_state # "PARSE_HEADER" THEN process_position
            ELSE IF current_state = "STATUS_LINE" THEN line_offset ELSE offset)

-----------------------------------------------------------------------------
(* What WellFormed asks of a token of the start line and of a field. *)
LineOK(m, k) == Plain(m.line[k], MaxToken) /\ (k = 1 /\ m.type = "REQUEST" => m.line[1] \in ValidMethods)
FieldOK(x) ==
    Plain(x.name, MaxName) /\ Plain(x.value, MaxValue) /\ Len(x.pad) + Len(x.value) < MAX_FIELD_LENGTH

(* The message_buffer holds the tokens in front of n, and n fields. *)
LineRead(m, n) ==
    \A k \in 1 .. 3 : /\ k < n => line[k] = m.line[k] /\ LineOK(m, k)
                      /\ k >= n => line[k] = <<>>
FieldsRead(m, n) ==
    \A k \in 1 .. n : /\ fields[k].name = m.fields[k].name /\ fields[k].value = m.fields[k].value
                      /\ FieldOK(m.fields[k])

Unscanned ==
    /\ have_host_header = FALSE /\ ignore_body_encoding_headers = FALSE
    /\ body_encoding = DefaultEncoding(Type)

NoBody(m) == m.type = "RESPONSE" /\ m.line[2] = Status304
IsChunked(x) == x.name = TransferEncoding /\ x.value = Chunked

(* What n fields say of the body. *)
HasHost(m, n) == \E k \in 1 .. n : m.fields[k].name = Host
HasChunked(m, n) == \E k \in 1 .. n : IsChunked(m.fields[k])
LastLength(m, n, j) ==
    /\ j \in 1 .. n /\ m.fields[j].name = ContentLength
    /\ \A k \in 1 .. n : m.fields[k].name = ContentLength => k <= j
NoLength(m, n) == \A k \in 1 .. n : m.fields[k].name # ContentLength

BodyScanned(m, n) ==
    \/ HasChunked(m, n) /\ body_encoding = "CHUNKED"
    \/ /\ ~HasChunked(m, n) /\ body_encoding = "CONTENT_LENGTH"
       /\ \E j \in 1 .. n : LastLength(m, n, j) /\ message_size = Number(m.fields[j].value)
    \/ ~HasChunked(m, n) /\ NoLength(m, n) /\ body_encoding = DefaultEncoding(m.type)

Scanned(m, n) ==
    /\ have_host_header = HasHost(m, n) /\ ignore_body_encoding_headers = NoBody(m)
    /\ NoBody(m) => body_encoding = "NONE"
    /\ ~NoBody(m) => BodyScanned(m, n)

(* Nothing is said of the content of a message that is continued. *)
Content(m) ==
    ~Continued(m) => LineRead(m, 4) /\ FieldsRead(m, current_field) /\ Scanned(m, current_field)

-----------------------------------------------------------------------------
(* Between two messages, and no data. *)
Idle(b) ==
    /\ current_state = "STATUS_LINE" /\ status_line_state = 1 /\ current_length = 0
    /\ \A k \in 1 .. 3 : line[k] = <<>>
    /\ fields = <<>> /\ current_field = 0 /\ Unscanned
    /\ Here = b /\ b = End /\ (pc = "process" => Base + offset = b)

(* In a start line: no read ends within it. *)
InLine(m, b) ==
    /\ current_state = "STATUS_LINE" /\ status_line_state \in 1 .. 4 /\ current_length = 0
    /\ fields = <<>> /\ current_field = 0 /\ pc = "process"
    /\ Base + offset = b /\ b + Len(StartLine(m)) <= End
    /\ Here = b + TokenAt(m, status_line_state)
    /\ LineRead(m, status_line_state)
    /\ status_line_state < 3 => Unscanned
    /\ status_line_state >= 3 => Scanned(m, 0)

(* n blanks of a continuation line were skipped. *)
Skipped(m, f, n) ==
    n # 0 => /\ Continued(m) /\ f <= Len(m.fields) /\ n <= Len(m.fields[f].name)
             /\ \A i \in 1 .. n : m.fields[f].name[i] = "SP"

BetweenFields(m, b) ==
    /\ current_state \in {"FIELD_VALUE_LWS", "END_HEADERS_CR"}
    /\ Len(fields) = current_field /\ current_field <= Len(m.fields)
    /\ \E n \in 0 .. Len(Sent(input)) :
         /\ Here = b + FieldAt(m, current_field + 1) + n /\ Skipped(m, current_field + 1, n)
         /\ ~Continued(m) => current_length = 0
    /\ Content(m)

AtEnd(m, b) ==
    /\ current_state = "END_HEADERS_LF" /\ current_field = Len(m.fields) /\ Len(fields) = current_field
    /\ Here = b + FieldAt(m, current_field + 1) + 1 /\ m.tail = EndLine /\ Content(m)

NameSoFar == IF Len(fields) = current_field THEN <<>> ELSE fields[current_field + 1].name
ValueSoFar == IF Len(fields) = current_field THEN <<>> ELSE fields[current_field + 1].value

(* Of the first n bytes of a text none is refused. *)
Clean(t, n) == \A j \in 1 .. n : t[j] \notin ControlChars

InName(m, b) ==
    /\ current_state = "FIELD_NAME" /\ current_field < Len(m.fields)
    /\ \E n \in 0 .. Len(m.fields[current_field + 1].name) :
         /\ Here = b + FieldAt(m, current_field + 1) + n
         /\ ~Continued(m) => /\ NameSoFar = SubSeq(m.fields[current_field + 1].name, 1, n)
                             /\ current_length = n /\ ValueSoFar = <<>>
                             /\ Clean(m.fields[current_field + 1].name, n)
    /\ Content(m)

Named(m) ==
    /\ fields[current_field + 1].name = m.fields[current_field + 1].name
    /\ Plain(m.fields[current_field + 1].name, MaxName)

InPad(m, b) ==
    /\ current_state = "FIELD_VALUE_LEADING_LWS" /\ current_field < Len(m.fields)
    /\ Len(fields) = current_field + 1
    /\ \E n \in 0 .. Len(m.fields[current_field + 1].pad) :
         /\ Here = PadAt(b + FieldAt(m, current_field + 1), m.fields[current_field + 1]) + n
         /\ ~Continued(m) => /\ Named(m) /\ fields[current_field + 1].value = <<>> /\ current_length = n
    /\ Content(m)

InValue(m, b) ==
    /\ current_state = "FIELD_VALUE_CONTENT" /\ current_field < Len(m.fields)
    /\ Len(fields) = current_field + 1
    /\ \E n \in 0 .. Len(m.fields[current_field + 1].value) :
         /\ Here = ValueAt(b + FieldAt(m, current_field + 1), m.fields[current_field + 1]) + n
         /\ ~Continued(m) =>
              /\ Named(m) /\ fields[current_field + 1].value = SubSeq(m.fields[current_field + 1].value, 1, n)
              /\ current_length = Len(m.fields[current_field + 1].pad) + n
              /\ Clean(m.fields[current_field + 1].value, n)
    /\ Content(m)

InContinuation(m) == current_state = "FIELD_VALUE_CONTENT" /\ Continued(m) /\ Len(fields) = current_field

AtLineFeed(m, b) ==
    /\ current_state = "FIELD_VALUE_LWS_LF" /\ current_field \in 1 .. Len(m.fields)
    /\ Len(fields) = current_field
    /\ Here + 1 = b + FieldAt(m, current_field + 1) /\ Content(m)

(* A carriage return in front of something else than a line feed. *)
Doomed(m) ==
    /\ ~WellFormed(m) /\ Here < Len(Sent(input)) /\ Sent(input)[Here + 1] # "LF"
    /\ \/ current_state \in {"END_HEADERS_LF", "FIELD_VALUE_LWS_LF"}
       \/ current_state = "STATUS_LINE" /\ status_line_state = 4 /\ pc = "process" /\ Here < End

InMessage(m, b) ==
    \/ InLine(m, b) \/ BetweenFields(m, b) \/ AtEnd(m, b) \/ InName(m, b) \/ InPad(m, b)
    \/ InValue(m, b) \/ InContinuation(m) \/ AtLineFeed(m, b) \/ Doomed(m)

Pushed(m, b) ==
    /\ Here = b + Len(Wire(m)) /\ Content(m)
    /\ ~Continued(m) => WellFormed(m) /\ Len(fields) = Len(m.fields) /\ current_field = Len(m.fields)
    /\ write_header_state \in 1 .. 6 => current_dump_header = 0

Placed(m, b) ==
    \/ message_state = "PARSE_HEADER" /\ pc \in {"read", "process"} /\ InMessage(m, b)
    \/ message_state = "PUSH_HEADER" /\ pc \in {"read", "process"} /\ Pushed(m, b)
    \/ message_state = "PARSE_BODY" /\ pc = "process"
    \/ message_state = "PARSE_HEADER" /\ pc = "denied" /\ ~WellFormed(m)
    \/ message_state = "PARSE_HEADER" /\ pc = "aborted" /\ Continued(m)

Waiting(b) == message_state = "PARSE_HEADER" /\ pc \in {"read", "process"} /\ Idle(b)

Place ==
    /\ done \in 0 .. Len(input)
    /\ \/ \E b \in {Before(input, done + 1)} : Waiting(b)
       \/ /\ done < Len(input)
          /\ \E m \in {input[done + 1]}, b \in {Before(input, done + 1)} : Placed(m, b)

-----------------------------------------------------------------------------
(* How much of message m is out. *)
Progress(m) ==
    IF message_state = "PUSH_HEADER" THEN PieceAt(m, WriteState, current_dump_header) + written
    ELSE Len(Rendered(m))

OutExpected ==
    /\ Holds(Sought, 0, out)
    /\ message_state = "PARSE_HEADER" => Len(out) = OutBefore(done + 1)
    /\ message_state # "PARSE_HEADER" =>
          \E m \in {input[done + 1]} : Len(out) = OutBefore(done + 1) + Progress(m)

Claimed == done < Len(Good) \/ (done = Len(Good) /\ message_state = "PARSE_HEADER")

(* Nothing is said of what comes out from a continued message on. *)
OutInv ==
    /\ out \in Seq(Bytes)
    /\ Claimed => OutExpected
    /\ ~Claimed => Unclaimed /\ Holds(out, 0, Sought)

BodiesInv ==
    /\ \E S : bodies \in Seq(S)
    /\ Len(bodies) = done + (IF message_state = "PARSE_BODY" THEN 1 ELSE 0)
    /\ BodyAnnounced

(* A message that is being read, and where it stands. *)
At(m, b) == m \in Messages /\ Framed(m) /\ Layout(Sent(input), b, m) /\ m.type = Type /\ Sent(input) \in Seq(Bytes)

RelayInv == Stream /\ Place /\ OutInv /\ BodiesInv

-----------------------------------------------------------------------------
(* Texts and tokens. *)

(* A prefix and the piece behind it are a longer prefix. *)
LEMMA Grown ==
    ASSUME NEW t \in Seq(Bytes), NEW n \in Nat, NEW q \in Nat, n <= q, q <= Len(t)
    PROVE  SubSeq(t, 1, n) \o SubSeq(t, n + 1, q) = SubSeq(t, 1, q)
  <1> DEFINE S == Bytes
  <1>0. t \in Seq(S) /\ Len(t) \in Nat
    OBVIOUS
  <1> HIDE DEF S
  <1>1. PICK a, c, d, e : a = SubSeq(t, 1, n) /\ c = SubSeq(t, n + 1, q) /\ d = SubSeq(t, 1, q) /\ e = a \o c
    OBVIOUS
  <1>2. a \in Seq(S) /\ Len(a) = n /\ \A j \in 1 .. n : a[j] = t[j]
    BY <1>0, <1>1
  <1>3. PICK k : k = q - n
    OBVIOUS
  <1>4. k \in Nat /\ q = n + k
    BY <1>3
  <1>5. c \in Seq(S) /\ Len(c) = k /\ \A j \in 1 .. k : c[j] = t[n + j]
    BY <1>0, <1>1, <1>4
  <1>6. d \in Seq(S) /\ Len(d) = q /\ \A j \in 1 .. q : d[j] = t[j]
    BY <1>0, <1>1
  <1>7. e \in Seq(S) /\ Len(e) = Len(a) + Len(c) /\ (\A j \in 1 .. Len(a) : e[j] = a[j])
        /\ (\A j \in 1 .. Len(c) : e[Len(a) + j] = c[j])
    BY <1>1, <1>2, <1>5, Joint
  <1>8. Len(e) = Len(d)
    BY <1>2, <1>4, <1>5, <1>6, <1>7
  <1>9. ASSUME NEW j \in 1 .. q PROVE e[j] = d[j]
    <2>1. CASE j <= n
      BY <1>2, <1>6, <1>7, <2>1
    <2>2. CASE j > n
      <3>1. PICK i : i = j - n
        OBVIOUS
      <3>2. i \in 1 .. k /\ j = n + i
        BY <1>4, <2>2, <3>1
      <3>3. e[n + i] = c[i] /\ c[i] = t[n + i]
        BY <1>2, <1>5, <1>7, <3>2
      <3> QED BY <1>6, <3>2, <3>3
    <2> QED BY <2>1, <2>2
  <1>10. e = d
    BY <1>6, <1>7, <1>8, <1>9, SeqEqual
  <1> QED BY <1>1, <1>10

(* The whole and the empty prefix. *)
LEMMA Wholly ==
    ASSUME NEW t \in Seq(Bytes)
    PROVE  SubSeq(t, 1, Len(t)) = t /\ SubSeq(t, 1, 0) = <<>> /\ <<>> \o t = t /\ Len(t) \in Nat /\ Len(<<>>) = 0
  <1> DEFINE S == Bytes
  <1>0. t \in Seq(S)
    OBVIOUS
  <1> HIDE DEF S
  <1>1. Len(t) \in Nat /\ SubSeq(t, 1, 0) = <<>> /\ Len(<<>>) = 0
    BY <1>0
  <1>2. SubSeq(t, 1, Len(t)) = t
    <2>1. PICK u : u = SubSeq(t, 1, Len(t))
      OBVIOUS
    <2>2. u \in Seq(S) /\ Len(u) = Len(t) /\ \A j \in 1 .. Len(t) : u[j] = t[j]
      BY <1>0, <2>1
    <2>3. u = t
      BY <1>0, <2>2, SeqEqual
    <2> QED BY <2>1, <2>3
  <1>3. <<>> \o t = t
    BY <1>0
  <1> QED BY <1>1, <1>2, <1>3

-----------------------------------------------------------------------------
(* Plain() of a text, byte by byte. *)
LEMMA PlainIs ==
    ASSUME NEW t \in Seq(Bytes), NEW max
    PROVE  Plain(t, max) <=> /\ Len(t) <= max /\ Len(t) < MAX_FIELD_LENGTH
                             /\ \A j \in 1 .. Len(t) : t[j] \notin ControlChars
  <1>1. DOMAIN t = 1 .. Len(t)
    OBVIOUS
  <1>2. ToSet(t) = {t[j] : j \in 1 .. Len(t)}
    BY <1>1 DEF ToSet
  <1>3. ToSet(t) \cap ControlChars = {} <=> \A j \in 1 .. Len(t) : t[j] \notin ControlChars
    BY <1>2
  <1> QED BY <1>3 DEF Plain

(* What a well-formed message has. *)
LEMMA FormedFacts ==
    ASSUME NEW m \in Messages, Framed(m), WellFormed(m)
    PROVE  /\ \A k \in 1 .. 3 : LineOK(m, k)
           /\ \A f \in 1 .. Len(m.fields) : FieldOK(m.fields[f])
           /\ Len(m.fields) <= MaxFields /\ ~Continued(m) /\ m.tail = EndLine
           /\ m.type = "REQUEST" /\ m.line[3] = HTTP1_1 => HasHost(m, Len(m.fields))
  <1>1. DOMAIN m.fields = 1 .. Len(m.fields)
    BY MessageTypes
  <1>2. m.type = "REQUEST" /\ m.line[3] = HTTP1_1 => HasHost(m, Len(m.fields))
    BY <1>1 DEF WellFormed, HasHost, FieldsNamed
  <1> QED BY <1>1, <1>2 DEF WellFormed, LineOK, FieldOK

(* And all that a message needs to be well formed. *)
LEMMA FormedIf ==
    ASSUME NEW m \in Messages, Framed(m),
           \A k \in 1 .. 3 : LineOK(m, k),
           \A f \in 1 .. Len(m.fields) : FieldOK(m.fields[f]),
           Len(m.fields) <= MaxFields, ~Continued(m), m.tail = EndLine,
           m.type = "REQUEST" /\ m.line[3] = HTTP1_1 => HasHost(m, Len(m.fields))
    PROVE  WellFormed(m)
  <1>1. DOMAIN m.fields = 1 .. Len(m.fields)
    BY MessageTypes
  <1>2. m.type = "REQUEST" /\ m.line[3] = HTTP1_1 => FieldsNamed(m, Host) # {}
    BY <1>1 DEF HasHost, FieldsNamed
  <1>3. m.type = "REQUEST" => m.line[1] \in ValidMethods
    BY DEF LineOK
  <1>4. \A i \in 1 .. 3 : Plain(m.line[i], MaxToken)
    BY DEF LineOK
  <1> QED BY <1>1, <1>2, <1>3, <1>4 DEF WellFormed, FieldOK

-----------------------------------------------------------------------------
(* A scan that begins n bytes into a token ends at what ends it, or before. *)
TokenEnds(r, t, c, stops, refused, q) ==
    /\ r.status = "COMPLETE" => (q = Len(t) /\ c \in stops) \/ (q < Len(t) /\ t[q + 1] \in stops)
    /\ r.status = "INVALID" => (q = Len(t) /\ c \in refused \ stops) \/ (q < Len(t) /\ t[q + 1] \in refused \ stops)

(* A scan within a token stops at its delimiter, or at a byte of it. *)
LEMMA TokenScan ==
    ASSUME PositionInv, Stream, NEW begin \in 0 .. Len(raw), NEW stops, NEW refused,
           NEW P, NEW t, NEW c, Token(Sent(input), P, t, c), NEW n \in 0 .. Len(t),
           Base + begin = P + n, c \in stops \cup refused
    PROVE  \E q : /\ ScanEnds(Scan(begin, stops, refused), begin, stops, refused, P, t, n, q)
                  /\ TokenEnds(Scan(begin, stops, refused), t, c, stops, refused, q)
  <1>1. P \in Nat /\ t \in Seq(Bytes) /\ Holds(Sent(input), P, t) /\ Sent(input)[P + Len(t) + 1] = c
    BY DEF Token
  <1>2. PICK q : ScanEnds(Scan(begin, stops, refused), begin, stops, refused, P, t, n, q)
    BY <1>1, ScanText
  <1>3. PICK r, w : r = Scan(begin, stops, refused) /\ w = Sent(input)
    OBVIOUS
  <1>4. /\ q \in n .. Len(t)
        /\ r.status = "COMPLETE" => w[P + q + 1] \in stops
        /\ r.status = "INVALID" => w[P + q + 1] \in refused \ stops
    BY <1>2, <1>3 DEF ScanEnds
  <1>5. Len(t) \in Nat /\ w[P + Len(t) + 1] = c /\ \A j \in 1 .. Len(t) : w[P + j] = t[j]
    BY <1>1, <1>3 DEF Holds
  <1>6. q = Len(t) \/ (q < Len(t) /\ q + 1 \in 1 .. Len(t) /\ P + q + 1 = P + (q + 1))
    BY <1>1, <1>4, <1>5
  <1>7. q = Len(t) \/ (q < Len(t) /\ w[P + q + 1] = t[q + 1])
    BY <1>5, <1>6
  <1>8. TokenEnds(r, t, c, stops, refused, q)
    BY <1>4, <1>5, <1>7 DEF TokenEnds
  <1> QED BY <1>2, <1>3, <1>8

(* Behind a bare carriage return is no line feed. *)
LEMMA BareCR ==
    ASSUME NEW w, NEW P, NEW t, NEW c, Token(w, P, t, c), OneLine(t), c # "LF", Len(w) \in Nat,
           NEW q \in Nat, q < Len(t), t[q + 1] = "CR"
    PROVE  P + q + 1 < Len(w) /\ w[P + q + 1 + 1] # "LF"
  <1>1. /\ P \in Nat /\ t \in Seq(Bytes) /\ P + Len(t) < Len(w) /\ w[P + Len(t) + 1] = c
        /\ \A j \in 1 .. Len(t) : w[P + j] = t[j]
    BY DEF Token, Holds
  <1>2. Len(t) \in Nat
    BY <1>1
  <1>3. CASE q + 1 = Len(t)
    <2>1. P + q + 1 + 1 = P + Len(t) + 1 /\ P + q + 1 < Len(w)
      BY <1>1, <1>2, <1>3
    <2> QED BY <1>1, <2>1
  <1>4. CASE q + 1 < Len(t)
    <2>1. /\ q + 1 \in 1 .. Len(t) - 1 /\ q + 1 + 1 \in 1 .. Len(t)
          /\ P + q + 1 + 1 = P + (q + 1 + 1) /\ P + q + 1 < Len(w)
      BY <1>1, <1>2, <1>4
    <2>2. t[q + 1 + 1] # "LF"
      BY <2>1 DEF OneLine
    <2> QED BY <1>1, <2>1, <2>2
  <1> QED BY <1>2, <1>3, <1>4

-----------------------------------------------------------------------------
(* The steps of the parser, from where it is in a message. *)

(* Where the parser is, before and after it took a step. *)
LEMMA HereParsing ==
    ASSUME NEW s, Parsing(s)
    PROVE  /\ s = "STATUS_LINE" => Here = Base + line_offset
           /\ s # "STATUS_LINE" => Here = Base + offset
  BY DEF Here, Parsing

(* After a step that leaves the buffer alone. *)
LEMMA Moves ==
    ASSUME UNCHANGED bufVars, message_state' = "PARSE_HEADER"
    PROVE  /\ Base' = Base /\ End' = End /\ input' = input
           /\ pc' = "read" => Here' = Base + process_position'
           /\ pc' = "process" /\ current_state' = "STATUS_LINE" => Here' = Base + line_offset'
           /\ pc' = "process" /\ current_state' # "STATUS_LINE" => Here' = Base + offset'
  <1>1. Base' = Base /\ End' = End /\ input' = input
    BY DEF bufVars, Base, End
  <1> QED BY <1>1 DEF Here

(* The content does not depend on the position. *)
LEMMA ContentKept ==
    ASSUME NEW m, Content(m), UNCHANGED <<line, fields, current_field, scanVars>>
    PROVE  Content(m)'
  BY DEF Content, LineRead, FieldsRead, Scanned, BodyScanned, scanVars

(* A bad message may be refused. *)
LEMMA Denied ==
    ASSUME NEW m, NEW b, message_state' = "PARSE_HEADER", pc' = "denied", ~WellFormed(m)
    PROVE  Placed(m, b)'
  BY DEF Placed

(* A message with a continuation line is not well formed. *)
LEMMA ContinuedBad ==
    ASSUME NEW m, Continued(m)
    PROVE  ~WellFormed(m)
  BY DEF WellFormed

(* A step that goes on within the message. *)
LEMMA Goes ==
    ASSUME NEW m, NEW b, message_state' = "PARSE_HEADER", pc' \in {"read", "process"}, InMessage(m, b)'
    PROVE  Placed(m, b)'
  BY DEF Placed

(* parse_char() sees the next byte, if it has come. *)
CharSeen(r, begin, c) ==
    \/ r = "INCOMPLETE" /\ begin = Len(raw)
    \/ r = "COMPLETE" /\ begin < Len(raw) /\ Base + begin < Len(Sent(input)) /\ Sent(input)[Base + begin + 1] = c
    \/ r = "INVALID" /\ begin < Len(raw) /\ Base + begin < Len(Sent(input)) /\ Sent(input)[Base + begin + 1] # c

(* parse_char() looks at the byte that was sent there. *)
LEMMA NextByte ==
    ASSUME PositionInv, Stream, NEW begin \in 0 .. Len(raw), NEW c
    PROVE  CharSeen(ParseChar(begin, c), begin, c)
  <1>1. /\ Base \in Nat /\ Len(raw) \in Nat /\ Base + Len(raw) <= Len(Sent(input)) /\ Len(Sent(input)) \in Nat
        /\ \A i \in 0 .. Len(raw) - 1 : raw[i + 1] = Sent(input)[Base + i + 1]
    BY BufferSent
  <1>2. CASE begin >= Len(raw)
    BY <1>1, <1>2 DEF ParseChar, CharSeen
  <1>3. CASE begin < Len(raw)
    <2>1. begin \in 0 .. Len(raw) - 1 /\ ~(begin >= Len(raw)) /\ Base + begin < Len(Sent(input))
      BY <1>1, <1>3
    <2> QED BY <1>1, <1>3, <2>1 DEF ParseChar, CharSeen
  <1> QED BY <1>1, <1>2, <1>3

(* Where field f of a message is. *)
LEMMA FieldPlaces ==
    ASSUME NEW m, NEW b, At(m, b), NEW f \in 1 .. Len(m.fields)
    PROVE  /\ FieldAt(m, f) \in Nat /\ b + FieldAt(m, f) \in Nat
           /\ FieldLayout(Sent(input), b + FieldAt(m, f), m.fields[f])
           /\ FieldAt(m, f + 1) = FieldAt(m, f) + FieldLength(m.fields[f])
           /\ m.fields[f].name \in Seq(Bytes) /\ m.fields[f].pad \in Seq(Bytes) /\ m.fields[f].value \in Seq(Bytes)
           /\ Len(m.fields[f].name) \in Nat /\ Len(m.fields[f].pad) \in Nat /\ Len(m.fields[f].value) \in Nat
           /\ FieldLength(m.fields[f]) \in Nat /\ FieldAt(m, f + 1) \in Nat
  <1>1. /\ b \in Nat /\ FieldAt(m, f) \in Nat /\ FieldLayout(Sent(input), b + FieldAt(m, f), m.fields[f])
        /\ FieldAt(m, f + 1) = FieldAt(m, f) + FieldLength(m.fields[f])
    BY DEF At, Layout
  <1>2. m.fields[f].name \in Seq(Bytes) /\ m.fields[f].pad \in Seq(Bytes) /\ m.fields[f].value \in Seq(Bytes)
    BY MessageTypes DEF At
  <1>3. Len(m.fields[f].name) \in Nat /\ Len(m.fields[f].pad) \in Nat /\ Len(m.fields[f].value) \in Nat
    BY <1>2
  <1>4. FieldLength(m.fields[f]) \in Nat
    <2>1. \A i, j, k \in Nat : i + 1 + j + k + 2 \in Nat
      OBVIOUS
    <2> QED BY <1>3, <2>1, Zenon DEF FieldLength
  <1> QED BY <1>1, <1>2, <1>3, <1>4

(* The counters of HeaderInv. *)
LEMMA Counts ==
    ASSUME HeaderInv
    PROVE  /\ current_field \in Nat /\ Len(fields) \in Nat /\ Len(fields) - current_field \in 0 .. 1
           /\ fields \in Seq(FieldRecord) /\ Len(fields) <= MaxFields /\ PositionInv
           /\ offset \in 0 .. Len(raw) /\ line_offset \in 0 .. Len(raw) /\ Len(raw) \in Nat
           /\ \A i \in 1 .. Len(fields) : Len(fields[i].name) <= MaxName /\ Len(fields[i].value) <= MaxValue
  BY DEF HeaderInv, FieldInv, FieldsOK, PositionInv, Text

-----------------------------------------------------------------------------
(* Behind a value. *)
LEMMA FieldValueLFStep ==
    ASSUME HeaderInv, Stream, NEW m, NEW b, At(m, b), AtLineFeed(m, b), FieldValueLF
    PROVE  Placed(m, b)'
  <1>1. /\ Parsing("FIELD_VALUE_LWS_LF") /\ UNCHANGED bufVars /\ message_state' = "PARSE_HEADER"
        /\ UNCHANGED <<line, fields, current_field, scanVars>> /\ pc = "process"
    BY DEF FieldValueLF, Parsing, bufVars
  <1>2. /\ PositionInv /\ offset \in 0 .. Len(raw) /\ Len(raw) \in Nat /\ current_field \in Nat
    BY Counts
  <1>3. PICK r : r = ParseChar(offset, "LF")
    OBVIOUS
  <1>4. CharSeen(r, offset, "LF")
    BY <1>2, <1>3, NextByte
  <1>5. PICK f, x, h : f = current_field /\ x = m.fields[f] /\ h = Here
    OBVIOUS
  <1>6. f \in 1 .. Len(m.fields) /\ h + 1 = b + FieldAt(m, f + 1) /\ Content(m) /\ Len(fields) = current_field
    BY <1>5 DEF AtLineFeed
  <1>7. /\ FieldAt(m, f) \in Nat /\ FieldAt(m, f + 1) = FieldAt(m, f) + FieldLength(x) /\ FieldLength(x) \in Nat
        /\ Sent(input)[b + FieldAt(m, f) + FieldLength(x)] = "LF" /\ FieldAt(m, f + 1) \in Nat
    BY <1>5, <1>6, FieldPlaces DEF FieldLayout
  <1>8. b \in Nat /\ Len(m.fields) \in Nat
    BY MessageTypes DEF At, Layout
  <1>9. h = Base + offset /\ Base \in Nat
    BY <1>1, <1>5, HereParsing DEF Stream
  <1>10. Base + offset + 1 = b + FieldAt(m, f) + FieldLength(x)
    BY <1>2, <1>6, <1>7, <1>8, <1>9
  <1>11. Content(m)'
    BY <1>1, <1>6, ContentKept
  <1>12. CASE r = "COMPLETE"
    <2>1. pc' = "process" /\ current_state' = "FIELD_VALUE_LWS" /\ current_length' = 0 /\ offset' = offset + 1
      BY <1>1, <1>3, <1>12 DEF FieldValueLF, GoTo
    <2>2. Here' = b + FieldAt(m, f + 1) + 0
      BY <1>1, <1>2, <1>6, <1>7, <1>8, <1>9, <2>1, Moves
    <2>3. 0 \in 0 .. Len(Sent(input)) /\ input' = input
      BY <1>1, BufferSent, <1>2, Moves
    <2>4. Skipped(m, f + 1, 0)
      BY DEF Skipped
    <2>5. BetweenFields(m, b)'
      BY <1>1, <1>5, <1>6, <1>8, <1>11, <2>1, <2>2, <2>3, <2>4 DEF BetweenFields
    <2> QED BY <1>1, <2>1, <2>5, Goes DEF InMessage
  <1>13. CASE r = "INCOMPLETE"
    <2>1. pc' = "read" /\ process_position' = offset /\ current_state' = "FIELD_VALUE_LWS_LF"
      BY <1>1, <1>3, <1>13 DEF FieldValueLF, Return, Parsing
    <2>2. Here' = h
      BY <1>1, <1>9, <2>1, Moves
    <2>3. AtLineFeed(m, b)'
      BY <1>1, <1>5, <1>6, <1>11, <2>1, <2>2 DEF AtLineFeed
    <2> QED BY <1>1, <2>1, <2>3, Goes DEF InMessage
  <1>14. r # "INVALID"
    <2>1. PICK w, k : w = Sent(input) /\ k = Base + offset + 1
      OBVIOUS
    <2>2. w[k] = "LF"
      BY <1>7, <1>10, <2>1
    <2> QED BY <1>4, <2>1, <2>2 DEF CharSeen
  <1> QED BY <1>4, <1>12, <1>13, <1>14 DEF CharSeen

(* A bare carriage return: no line feed comes. *)
LEMMA DoomedStep ==
    ASSUME HeaderInv, Stream, NEW m, NEW b, Doomed(m), ParseStatusLF \/ EndHeadersLF \/ FieldValueLF
    PROVE  Placed(m, b)'
  <1>1. /\ PositionInv /\ offset \in 0 .. Len(raw) /\ line_offset \in 0 .. Len(raw) /\ Len(raw) \in Nat
    BY Counts
  <1>2. ~WellFormed(m) /\ Here < Len(Sent(input)) /\ Sent(input)[Here + 1] # "LF"
    BY DEF Doomed
  <1>3. Base \in Nat /\ End = Base + Len(raw)
    BY <1>1, BufferSent
  <1>4. CASE ParseStatusLF
    <2>1. /\ Parsing("STATUS_LINE") /\ message_state' = "PARSE_HEADER" /\ Here = Base + line_offset
      BY <1>4, HereParsing DEF ParseStatusLF, Parsing
    <2>2. Here < End
      BY <2>1 DEF Doomed, Parsing
    <2>3. PICK r : r = ParseChar(line_offset, "LF")
      OBVIOUS
    <2>4. CharSeen(r, line_offset, "LF")
      BY <1>1, <2>3, NextByte
    <2>5. r = "INVALID"
      BY <1>1, <1>2, <1>3, <2>1, <2>2, <2>4 DEF CharSeen
    <2>6. pc' = "denied"
      BY <1>4, <2>3, <2>5 DEF ParseStatusLF, LineReturn, Return
    <2> QED BY <1>2, <2>1, <2>6, Denied
  <1>5. CASE EndHeadersLF
    <2>1. Parsing("END_HEADERS_LF") /\ Here = Base + offset /\ UNCHANGED bufVars
      BY <1>5, HereParsing DEF EndHeadersLF
    <2>2. PICK r : r = ParseChar(offset, "LF")
      OBVIOUS
    <2>3. CharSeen(r, offset, "LF")
      BY <1>1, <2>2, NextByte
    <2>4. r # "COMPLETE"
      BY <1>2, <2>1, <2>3 DEF CharSeen
    <2>5. Return(r, offset) /\ message_state' = "PARSE_HEADER" /\ current_state' = "END_HEADERS_LF"
      BY <1>5, <2>1, <2>2, <2>4 DEF EndHeadersLF, Parsing, parserVars
    <2>6. CASE r = "INVALID"
      BY <1>2, <2>5, <2>6, Denied DEF Return
    <2>7. CASE r = "INCOMPLETE"
      <3>1. pc' = "read" /\ process_position' = offset
        BY <2>5, <2>7 DEF Return
      <3>2. Here' = Here /\ input' = input
        BY <2>1, <2>5, <3>1, Moves
      <3>3. Doomed(m)'
        BY <1>2, <2>5, <3>2 DEF Doomed
      <3> QED BY <2>5, <3>1, <3>3, Goes DEF InMessage
    <2> QED BY <2>3, <2>4, <2>6, <2>7 DEF CharSeen
  <1>6. CASE FieldValueLF
    <2>1. Parsing("FIELD_VALUE_LWS_LF") /\ Here = Base + offset /\ UNCHANGED bufVars
          /\ message_state' = "PARSE_HEADER"
      BY <1>6, HereParsing DEF FieldValueLF, Parsing
    <2>2. PICK r : r = ParseChar(offset, "LF")
      OBVIOUS
    <2>3. CharSeen(r, offset, "LF")
      BY <1>1, <2>2, NextByte
    <2>4. r # "COMPLETE"
      BY <1>2, <2>1, <2>3 DEF CharSeen
    <2>5. Return(r, offset) /\ current_state' = "FIELD_VALUE_LWS_LF"
      BY <1>6, <2>1, <2>2, <2>4 DEF FieldValueLF, Parsing
    <2>6. CASE r = "INVALID"
      BY <1>2, <2>1, <2>5, <2>6, Denied DEF Return
    <2>7. CASE r = "INCOMPLETE"
      <3>1. pc' = "read" /\ process_position' = offset
        BY <2>5, <2>7 DEF Return
      <3>2. Here' = Here /\ input' = input
        BY <2>1, <2>5, <3>1, Moves
      <3>3. Doomed(m)'
        BY <1>2, <2>5, <3>2 DEF Doomed
      <3> QED BY <2>1, <2>5, <3>1, <3>3, Goes DEF InMessage
    <2> QED BY <2>3, <2>4, <2>6, <2>7 DEF CharSeen
  <1> QED BY <1>4, <1>5, <1>6

(* A message with a control character in a name is a bad one. *)
LEMMA BadName ==
    ASSUME NEW m, NEW b, At(m, b), NEW f \in 1 .. Len(m.fields), NEW j \in 1 .. Len(m.fields[f].name),
           m.fields[f].name[j] \in ControlChars
    PROVE  ~WellFormed(m)
  <1>1. m.fields[f].name \in Seq(Bytes)
    BY FieldPlaces
  <1>2. ~Plain(m.fields[f].name, MaxName)
    BY <1>1, PlainIs
  <1> QED BY <1>2, FormedFacts DEF At, FieldOK

(* The field that comes, or the end of the header. *)
LEMMA EndHeadersCRStep ==
    ASSUME HeaderInv, Stream, NEW m, NEW b, At(m, b), BetweenFields(m, b), EndHeadersCR
    PROVE  Placed(m, b)'
  <1>1. /\ Parsing("END_HEADERS_CR") /\ UNCHANGED bufVars /\ message_state' = "PARSE_HEADER"
        /\ UNCHANGED <<line, fields, current_field, scanVars>> /\ pc = "process"
    BY DEF EndHeadersCR, Parsing, bufVars
  <1>2. /\ PositionInv /\ offset \in 0 .. Len(raw) /\ Len(raw) \in Nat /\ current_field \in Nat
    BY Counts
  <1>3. PICK r : r = ParseChar(offset, "CR")
    OBVIOUS
  <1>4. CharSeen(r, offset, "CR")
    BY <1>2, <1>3, NextByte
  <1>5. PICK n \in 0 .. Len(Sent(input)) :
          /\ Here = b + FieldAt(m, current_field + 1) + n /\ Skipped(m, current_field + 1, n)
          /\ ~Continued(m) => current_length = 0
    BY DEF BetweenFields
  <1>6. PICK f, w, h, P : f = current_field + 1 /\ w = Sent(input) /\ h = Here /\ P = b + FieldAt(m, f)
    OBVIOUS
  <1>7. /\ Len(fields) = current_field /\ current_field <= Len(m.fields) /\ Content(m)
        /\ h = P + n /\ Skipped(m, f, n) /\ n \in 0 .. Len(w)
    BY <1>5, <1>6 DEF BetweenFields
  <1>8. b \in Nat /\ Len(m.fields) \in Nat /\ w \in Seq(Bytes) /\ Len(w) \in Nat
    <2>1. b \in Nat /\ w \in Seq(Bytes)
      BY <1>6 DEF At, Layout
    <2> QED BY <2>1, MessageTypes DEF At
  <1>9. h = Base + offset /\ Base \in Nat
    BY <1>1, <1>6, HereParsing DEF Stream
  <1>10. Content(m)' /\ input' = input
    BY <1>1, <1>7, ContentKept DEF bufVars
  <1>11. CASE r = "INCOMPLETE"
    <2>1. pc' = "read" /\ process_position' = offset /\ current_state' = "END_HEADERS_CR"
          /\ current_length' = current_length
      BY <1>1, <1>3, <1>11 DEF EndHeadersCR, Return, Parsing
    <2>2. Here' = b + FieldAt(m, current_field + 1) + n
      BY <1>1, <1>5, <1>6, <1>9, <2>1, Moves
    <2>3. BetweenFields(m, b)'
      BY <1>1, <1>5, <1>7, <1>10, <2>1, <2>2 DEF BetweenFields
    <2> QED BY <1>1, <2>1, <2>3, Goes DEF InMessage
  <1>12. CASE r = "COMPLETE"
    <2>1. pc' = "process" /\ current_state' = "END_HEADERS_LF" /\ current_length' = 0 /\ offset' = offset + 1
      BY <1>1, <1>3, <1>12 DEF EndHeadersCR, GoTo
    <2>2. Here' = h + 1
      BY <1>1, <1>2, <1>9, <2>1, Moves
    <2>3. w[h + 1] = "CR" /\ h < Len(w)
      BY <1>4, <1>6, <1>9, <1>12 DEF CharSeen
    <2>4. CASE f \in 1 .. Len(m.fields)
      <3>1. PICK x : x = m.fields[f]
        OBVIOUS
      <3>2. Token(w, P, x.name, ":") /\ x.name \in Seq(Bytes) /\ Len(x.name) \in Nat /\ P \in Nat
        BY <1>6, <2>4, <3>1, FieldPlaces DEF FieldLayout
      <3>3. n <= Len(x.name) /\ n \in Nat
        BY <1>7, <1>8, <3>1, <3>2 DEF Skipped
      <3>4. n < Len(x.name) /\ x.name[n + 1] = "CR"
        <4>1. w[P + Len(x.name) + 1] = ":" /\ \A j \in 1 .. Len(x.name) : w[P + j] = x.name[j]
          BY <3>2 DEF Token, Holds
        <4>2. n # Len(x.name)
          BY <1>7, <2>3, <4>1
        <4>3. n < Len(x.name) /\ n + 1 \in 1 .. Len(x.name) /\ P + (n + 1) = h + 1
          BY <1>7, <3>2, <3>3, <4>2
        <4> QED BY <2>3, <4>1, <4>3
      <3>5. OneLine(x.name)
        BY <2>4, <3>1, MessageTypes DEF At, Framed
      <3>6. P + n + 1 < Len(w) /\ w[P + n + 1 + 1] # "LF"
        BY <1>8, <3>2, <3>3, <3>4, <3>5, BareCR
      <3>7. ~WellFormed(m)
        <4>1. n + 1 \in 1 .. Len(x.name) /\ x.name[n + 1] \in ControlChars
          BY <3>2, <3>3, <3>4 DEF ControlChars
        <4> QED BY <2>4, <3>1, <4>1, BadName
      <3>8. Doomed(m)'
        BY <1>6, <1>7, <1>10, <2>1, <2>2, <3>6, <3>7 DEF Doomed
      <3> QED BY <1>1, <2>1, <3>8, Goes DEF InMessage
    <2>5. CASE f \notin 1 .. Len(m.fields)
      <3>1. f = Len(m.fields) + 1 /\ n = 0
        BY <1>2, <1>6, <1>7, <1>8, <2>5 DEF Skipped
      <3>2. Holds(w, P, m.tail) /\ P \in Nat /\ m.tail \in Seq(Bytes)
        BY <1>6, <1>8, <3>1, MessageTypes DEF At, Layout
      <3>3. CASE m.tail = EndLine
        <4>1. AtEnd(m, b)'
          BY <1>1, <1>6, <1>7, <1>8, <1>10, <2>1, <2>2, <3>1, <3>2, <3>3 DEF AtEnd
        <4> QED BY <1>1, <2>1, <4>1, Goes DEF InMessage
      <3>4. CASE m.tail # EndLine
        <4>1. Len(m.tail) >= 2 /\ m.tail[2] # "LF"
          BY <3>4 DEF At, Framed
        <4>2. Len(m.tail) \in Nat /\ P + Len(m.tail) <= Len(w) /\ w[P + 2] = m.tail[2]
          BY <3>2, <4>1 DEF Holds
        <4>3. h + 1 < Len(w) /\ h + 1 + 1 = P + 2
          BY <1>7, <1>8, <3>1, <3>2, <4>1, <4>2
        <4>4. ~WellFormed(m)
          BY <3>4 DEF WellFormed
        <4>5. Doomed(m)'
          BY <1>6, <1>10, <2>1, <2>2, <4>1, <4>2, <4>3, <4>4 DEF Doomed
        <4> QED BY <1>1, <2>1, <4>5, Goes DEF InMessage
      <3> QED BY <3>3, <3>4
    <2> QED BY <2>4, <2>5
  <1>13. CASE r = "INVALID"
    <2>1. pc' = "process" /\ current_state' = "FIELD_NAME" /\ current_length' = 0 /\ offset' = offset
      BY <1>1, <1>3, <1>13 DEF EndHeadersCR, GoTo
    <2>2. Here' = h
      BY <1>1, <1>9, <2>1, Moves
    <2>3. w[h + 1] # "CR"
      BY <1>4, <1>6, <1>9, <1>13 DEF CharSeen
    <2>4. f \in 1 .. Len(m.fields)
      <3> SUFFICES ASSUME f \notin 1 .. Len(m.fields) PROVE FALSE
        OBVIOUS
      <3>1. f = Len(m.fields) + 1 /\ n = 0
        BY <1>2, <1>6, <1>7, <1>8 DEF Skipped
      <3>2. Holds(w, P, m.tail) /\ P \in Nat /\ m.tail \in Seq(Bytes)
        BY <1>6, <1>8, <3>1, MessageTypes DEF At, Layout
      <3>3. m.tail[1] = "CR" /\ Len(m.tail) >= 2
        <4>1. m.tail = EndLine \/ (Len(m.tail) >= 2 /\ m.tail[1] = "CR")
          BY DEF At, Framed
        <4>2. EndLine[1] = "CR" /\ Len(EndLine) = 2
          BY Marks
        <4> QED BY <4>1, <4>2
      <3>4. w[P + 1] = m.tail[1] /\ h = P
        BY <1>7, <3>1, <3>2, <3>3 DEF Holds
      <3> QED BY <2>3, <3>3, <3>4
    <2>5. PICK x : x = m.fields[f]
      OBVIOUS
    <2>6. x.name \in Seq(Bytes) /\ Len(x.name) \in Nat
      BY <2>4, <2>5, FieldPlaces
    <2>7. n \in 0 .. Len(x.name)
      BY <1>7, <1>8, <2>5, <2>6 DEF Skipped
    <2>8. ~Continued(m) => n = 0
      BY <1>7 DEF Skipped
    <2>9. SubSeq(x.name, 1, 0) = <<>>
      BY <2>6, Wholly
    <2>10. NameSoFar' = <<>> /\ ValueSoFar' = <<>>
      BY <1>1, <1>7 DEF NameSoFar, ValueSoFar
    <2>11. current_field < Len(m.fields) /\ Here' = b + FieldAt(m, current_field + 1) + n
      BY <1>2, <1>6, <1>7, <1>8, <2>2, <2>4
    <2>12. InName(m, b)'
      <3>1. ~Continued(m) => /\ NameSoFar' = SubSeq(x.name, 1, n) /\ current_length' = n /\ ValueSoFar' = <<>>
                             /\ Clean(x.name, n)
        BY <2>1, <2>8, <2>9, <2>10 DEF Clean
      <3>2. x = m.fields[current_field' + 1] /\ current_field' = current_field
        BY <1>1, <1>6, <2>5
      <3> QED BY <1>10, <2>1, <2>7, <2>11, <3>1, <3>2 DEF InName
    <2> QED BY <1>1, <2>1, <2>12, Goes DEF InMessage
  <1> QED BY <1>4, <1>11, <1>12, <1>13 DEF CharSeen

(* The empty line. *)
LEMMA EndHeadersLFStep ==
    ASSUME HeaderInv, Stream, NEW m, NEW b, At(m, b), AtEnd(m, b), EndHeadersLF
    PROVE  Placed(m, b)'
  <1>1. /\ Parsing("END_HEADERS_LF") /\ UNCHANGED bufVars /\ pc = "process"
        /\ UNCHANGED <<line, fields, current_field, scanVars>> /\ current_state' = "END_HEADERS_LF"
    BY DEF EndHeadersLF, Parsing, parserVars
  <1>2. /\ PositionInv /\ offset \in 0 .. Len(raw) /\ Len(raw) \in Nat /\ current_field \in Nat
        /\ Len(fields) <= MaxFields
    BY Counts
  <1>3. PICK r : r = ParseChar(offset, "LF")
    OBVIOUS
  <1>4. CharSeen(r, offset, "LF")
    BY <1>2, <1>3, NextByte
  <1>5. PICK w, h, P : w = Sent(input) /\ h = Here /\ P = b + FieldAt(m, Len(m.fields) + 1)
    OBVIOUS
  <1>6. /\ current_field = Len(m.fields) /\ Len(fields) = current_field /\ h = P + 1 /\ m.tail = EndLine
        /\ Content(m)
    BY <1>5 DEF AtEnd
  <1>7. /\ b \in Nat /\ P \in Nat /\ Holds(w, P, m.tail) /\ b + Len(Wire(m)) = P + Len(m.tail) /\ w \in Seq(Bytes)
    BY <1>5, MessageTypes DEF At, Layout
  <1>8. Len(m.tail) = 2 /\ m.tail[2] = "LF"
    BY <1>6, Marks
  <1>9. w[P + 2] = "LF"
    BY <1>7, <1>8 DEF Holds
  <1>10. h = Base + offset /\ Base \in Nat
    BY <1>1, <1>5, HereParsing DEF Stream
  <1>11. Content(m)' /\ input' = input
    BY <1>1, <1>6, ContentKept DEF bufVars
  <1>12. ~Continued(m) => LineRead(m, 4) /\ FieldsRead(m, Len(m.fields)) /\ Scanned(m, Len(m.fields))
    BY <1>6 DEF Content
  <1>13. ~Continued(m) => line[3] = m.line[3] /\ have_host_header = HasHost(m, Len(m.fields))
    BY <1>12 DEF LineRead, Scanned
  <1>14. CASE r = "COMPLETE" /\ ~HostMissing
    <2>1. /\ message_state' = "PUSH_HEADER" /\ process_position' = offset + 1 /\ pc' = "process"
          /\ write_header_state' = 1 /\ current_dump_header' = 0
      BY <1>1, <1>3, <1>14 DEF EndHeadersLF, ResetWriter, START_LINE_TOKEN1
    <2>2. Here' = b + Len(Wire(m))
      <3>1. Here' = Base + (offset + 1)
        <4>1. Base' = Base
          BY <1>1 DEF bufVars, Base
        <4> QED BY <2>1, <4>1 DEF Here
      <3> QED BY <1>2, <1>6, <1>7, <1>8, <1>10, <3>1
    <2>3. ASSUME ~Continued(m) PROVE WellFormed(m)
      <3>1. \A k \in 1 .. 3 : LineOK(m, k)
        BY <1>12, <2>3 DEF LineRead
      <3>2. \A k \in 1 .. Len(m.fields) : FieldOK(m.fields[k])
        BY <1>12, <2>3 DEF FieldsRead
      <3>3. m.type = "REQUEST" /\ m.line[3] = HTTP1_1 => HasHost(m, Len(m.fields))
        BY <1>13, <1>14, <2>3 DEF HostMissing, At
      <3>4. Len(m.fields) <= MaxFields
        BY <1>2, <1>6
      <3> QED BY <1>6, <2>3, <3>1, <3>2, <3>3, <3>4, FormedIf DEF At
    <2>4. Pushed(m, b)'
      BY <1>1, <1>6, <1>11, <2>1, <2>2, <2>3 DEF Pushed
    <2> QED BY <2>1, <2>4 DEF Placed
  <1>15. CASE r = "COMPLETE" /\ HostMissing
    <2>1. message_state' = "PARSE_HEADER" /\ pc' = "denied"
      BY <1>1, <1>3, <1>15 DEF EndHeadersLF, Return, Parsing
    <2>2. ~WellFormed(m)
      <3> SUFFICES ASSUME WellFormed(m) PROVE FALSE
        OBVIOUS
      <3>1. ~Continued(m) /\ (m.type = "REQUEST" /\ m.line[3] = HTTP1_1 => HasHost(m, Len(m.fields)))
        BY FormedFacts DEF At
      <3> QED BY <1>13, <1>15, <3>1 DEF HostMissing, At
    <2> QED BY <2>1, <2>2, Denied
  <1>16. CASE r = "INCOMPLETE"
    <2>1. /\ pc' = "read" /\ process_position' = offset /\ message_state' = "PARSE_HEADER"
      BY <1>1, <1>3, <1>16 DEF EndHeadersLF, Return, Parsing
    <2>2. Here' = h
      BY <1>1, <1>10, <2>1, Moves
    <2>3. AtEnd(m, b)'
      BY <1>1, <1>5, <1>6, <1>11, <2>2 DEF AtEnd
    <2> QED BY <2>1, <2>3, Goes DEF InMessage
  <1>17. r # "INVALID"
    <2>1. Base + offset + 1 = P + 2
      BY <1>2, <1>6, <1>7, <1>10
    <2> QED BY <1>4, <1>5, <1>9, <2>1 DEF CharSeen
  <1> QED BY <1>4, <1>14, <1>15, <1>16, <1>17 DEF CharSeen

-----------------------------------------------------------------------------
(* A text that begins with a blank. *)
LEMMA SpacePrefix ==
    ASSUME NEW t \in Seq(Bytes), Len(t) >= 1, t[1] = "SP"
    PROVE  IsPrefix(Space, t)
  <1>1. Space \in Seq(Bytes) /\ Len(Space) = 1 /\ Space[1] = "SP"
    BY Marks
  <1>2. Holds(t, 0, Space)
    BY <1>1 DEF Holds
  <1> QED BY <1>1, <1>2, HoldsPrefix

(* parse_equal() over the blanks of text t. *)
BlanksEnd(r, begin, P, t, n, q) ==
    /\ q \in n .. Len(t) /\ Base + r.end = P + q /\ r.end \in begin .. Len(raw)
    /\ r.length = current_length + (q - n)
    /\ r.status \in {"COMPLETE", "INCOMPLETE", "DATAOVERFLOW"}
    /\ \A j \in n + 1 .. q : t[j] = "SP"
    /\ r.status = "COMPLETE" => q = Len(t) \/ t[q + 1] # "SP"
    /\ r.status = "INCOMPLETE" => r.end = Len(raw) /\ r.length < MAX_FIELD_LENGTH
    /\ r.status = "DATAOVERFLOW" => r.length >= MAX_FIELD_LENGTH

(* parse_equal() skips the blanks of a run and stops behind it. *)
LEMMA BlankScan ==
    ASSUME PositionInv, Stream, NEW begin \in 0 .. Len(raw),
           NEW P, NEW t, NEW c, Token(Sent(input), P, t, c), NEW n \in 0 .. Len(t),
           Base + begin = P + n, c # "SP"
    PROVE  \E q : BlanksEnd(ParseEqual(begin), begin, P, t, n, q)
  <1> DEFINE stops == {raw[i] : i \in DOMAIN raw} \ {"SP"}
  <1>1. /\ P \in Nat /\ t \in Seq(Bytes) /\ Holds(Sent(input), P, t) /\ Sent(input)[P + Len(t) + 1] = c
        /\ Len(t) \in Nat
    BY DEF Token
  <1>2. PICK w, B, R : w = Sent(input) /\ B = Base /\ R = Len(raw)
    OBVIOUS
  <1>3. /\ B \in Nat /\ R \in Nat /\ End = B + R /\ \A i \in 0 .. R - 1 : raw[i + 1] = w[B + i + 1]
    BY <1>2, BufferSent
  <1>4. DOMAIN raw = 1 .. R
    BY <1>2 DEF PositionInv, Text
  <1>5. \A i \in 0 .. R - 1 : w[B + i + 1] # "SP" => w[B + i + 1] \in stops
    <2>1. \A i \in 0 .. R - 1 : i + 1 \in 1 .. R
      BY <1>3
    <2> QED BY <1>3, <1>4, <2>1
  <1> HIDE DEF stops
  <1>6. P + Len(t) < End => Sent(input)[P + Len(t) + 1] \in stops \cup {}
    <2> SUFFICES ASSUME P + Len(t) < End PROVE w[P + Len(t) + 1] \in stops
      BY <1>2
    <2>1. PICK i : i = P + Len(t) - B
      OBVIOUS
    <2>2. i \in 0 .. R - 1 /\ B + i + 1 = P + Len(t) + 1
      BY <1>1, <1>2, <1>3, <2>1
    <2>3. w[B + i + 1] = c
      BY <1>1, <1>2, <2>2
    <2> QED BY <1>5, <2>2, <2>3
  <1>7. PICK q : ScanEnds(Scan(begin, stops, {}), begin, stops, {}, P, t, n, q)
    BY <1>1, <1>6, ScanText
  <1>8. PICK r : r = Scan(begin, stops, {})
    OBVIOUS
  <1>9. ParseEqual(begin) = r
    BY <1>8 DEF ParseEqual, stops
  <1>10. /\ q \in n .. Len(t) /\ B + r.end = P + q /\ r.end \in begin .. R
         /\ r.length = current_length + (q - n)
         /\ r.status \in {"COMPLETE", "INVALID", "INCOMPLETE", "DATAOVERFLOW"}
         /\ \A j \in n + 1 .. q : t[j] \notin stops
         /\ r.status = "COMPLETE" => w[P + q + 1] \in stops
         /\ r.status # "INVALID"
         /\ r.status = "INCOMPLETE" => r.end = Len(raw) /\ r.length < MAX_FIELD_LENGTH
         /\ r.status = "DATAOVERFLOW" => r.length >= MAX_FIELD_LENGTH
    BY <1>2, <1>7, <1>8 DEF ScanEnds
  <1>11. \A j \in 1 .. Len(t) : w[P + j] = t[j]
    BY <1>1, <1>2 DEF Holds
  <1>12. ASSUME NEW j \in n + 1 .. q PROVE t[j] = "SP"
    <2>1. PICK i : i = P + j - 1 - B
      OBVIOUS
    <2>2. i \in 0 .. R - 1 /\ B + i + 1 = P + j /\ j \in 1 .. Len(t)
      <3>1. PICK e : e = r.end
        OBVIOUS
      <3>2. e \in begin .. R /\ B + e = P + q /\ q \in n .. Len(t) /\ B + begin = P + n
        BY <1>2, <1>10, <3>1
      <3> QED BY <1>1, <1>3, <2>1, <3>2
    <2> QED BY <1>5, <1>10, <1>11, <2>2
  <1>13. ASSUME r.status = "COMPLETE", q # Len(t) PROVE t[q + 1] # "SP"
    <2>1. q + 1 \in 1 .. Len(t) /\ P + q + 1 = P + (q + 1)
      BY <1>1, <1>10, <1>13
    <2>2. w[P + q + 1] # "SP"
      BY <1>10, <1>13 DEF stops
    <2> QED BY <1>11, <2>1, <2>2
  <1>14. BlanksEnd(r, begin, P, t, n, q)
    BY <1>2, <1>10, <1>12, <1>13 DEF BlanksEnd
  <1> QED BY <1>9, <1>14

(* What comes behind a field: the next name, or the empty line. *)
LEMMA WhatFollows ==
    ASSUME NEW m, NEW b, At(m, b), NEW f \in Nat, f <= Len(m.fields)
    PROVE  \E t, c : /\ Token(Sent(input), b + FieldAt(m, f + 1), t, c) /\ c # "SP"
                     /\ f < Len(m.fields) => t = m.fields[f + 1].name
                     /\ f = Len(m.fields) => t = <<>>
  <1>1. Len(m.fields) \in Nat /\ b \in Nat /\ Sent(input) \in Seq(Bytes) /\ m.tail \in Seq(Bytes)
    BY MessageTypes DEF At, Layout
  <1>2. CASE f < Len(m.fields)
    <2>1. f + 1 \in 1 .. Len(m.fields) /\ f # Len(m.fields)
      BY <1>1, <1>2
    <2>2. Token(Sent(input), b + FieldAt(m, f + 1), m.fields[f + 1].name, ":")
      BY <2>1, FieldPlaces DEF FieldLayout
    <2> QED BY <2>1, <2>2
  <1>3. CASE f = Len(m.fields)
    <2>1. PICK P, w : P = b + FieldAt(m, f + 1) /\ w = Sent(input)
      OBVIOUS
    <2>2. P \in Nat /\ Holds(w, P, m.tail)
      BY <1>1, <1>3, <2>1 DEF At, Layout
    <2>3. m.tail[1] = "CR" /\ Len(m.tail) >= 2
      <3>1. m.tail = EndLine \/ (Len(m.tail) >= 2 /\ m.tail[1] = "CR")
        BY DEF At, Framed
      <3>2. EndLine[1] = "CR" /\ Len(EndLine) = 2
        BY Marks
      <3> QED BY <3>1, <3>2
    <2>4. P + 1 <= Len(w) /\ w[P + 1] = "CR" /\ Len(w) \in Nat
      BY <1>1, <2>1, <2>2, <2>3 DEF Holds
    <2>5. <<>> \in Seq(Bytes) /\ Len(<<>>) = 0
      OBVIOUS
    <2>6. Token(w, P, <<>>, "CR")
      BY <2>2, <2>4, <2>5 DEF Token, Holds
    <2>7. ~(f < Len(m.fields))
      BY <1>1, <1>3
    <2> QED BY <1>3, <2>1, <2>6, <2>7
  <1> QED BY <1>1, <1>2, <1>3

(* Behind a field the next name, or the empty line. *)
LEMMA Blank ==
    ASSUME NEW m, NEW b, At(m, b), NEW f \in 1 .. Len(m.fields), Len(m.fields[f].name) >= 1,
           m.fields[f].name[1] = "SP"
    PROVE  Continued(m)
  <1>1. m.fields[f].name \in Seq(Bytes)
    BY FieldPlaces
  <1>2. IsPrefix(Space, m.fields[f].name)
    BY <1>1, SpacePrefix
  <1>3. f \in DOMAIN m.fields
    BY MessageTypes DEF At
  <1> QED BY <1>2, <1>3 DEF Continued

(* Behind a field: blanks are the beginning of a continuation line. *)
LEMMA FieldValueLWSStep ==
    ASSUME HeaderInv, Stream, NEW m, NEW b, At(m, b), BetweenFields(m, b), FieldValueLWS
    PROVE  Placed(m, b)'
  <1>1. /\ Parsing("FIELD_VALUE_LWS") /\ UNCHANGED bufVars /\ message_state' = "PARSE_HEADER"
        /\ UNCHANGED <<line, fields, current_field, scanVars>> /\ pc = "process"
    BY DEF FieldValueLWS, Parsing, bufVars
  <1>2. /\ PositionInv /\ offset \in 0 .. Len(raw) /\ Len(raw) \in Nat /\ current_field \in Nat
        /\ MAX_FIELD_LENGTH \in Nat /\ MAX_FIELD_LENGTH # 0 /\ current_length \in Nat
    BY Counts, HeaderAssumption DEF PositionInv
  <1>3. PICK n \in 0 .. Len(Sent(input)) :
          /\ Here = b + FieldAt(m, current_field + 1) + n /\ Skipped(m, current_field + 1, n)
          /\ ~Continued(m) => current_length = 0
    BY DEF BetweenFields
  <1>4. PICK f, w, h, P, r : f = current_field + 1 /\ w = Sent(input) /\ h = Here /\ P = b + FieldAt(m, f)
                             /\ r = ParseEqual(offset)
    OBVIOUS
  <1>5. /\ Len(fields) = current_field /\ current_field <= Len(m.fields) /\ Content(m)
        /\ h = P + n /\ Skipped(m, f, n) /\ n \in 0 .. Len(w)
    BY <1>3, <1>4 DEF BetweenFields
  <1>6. b \in Nat /\ Len(m.fields) \in Nat /\ w \in Seq(Bytes) /\ Len(w) \in Nat
    <2>1. b \in Nat /\ w \in Seq(Bytes)
      BY <1>4 DEF At, Layout
    <2> QED BY <2>1, MessageTypes DEF At
  <1>7. h = Base + offset /\ Base \in Nat
    BY <1>1, <1>4, HereParsing DEF Stream
  <1>8. Content(m)' /\ input' = input
    BY <1>1, <1>5, ContentKept DEF bufVars
  <1>9. PICK t, c : /\ Token(w, P, t, c) /\ c # "SP"
                    /\ current_field < Len(m.fields) => t = m.fields[f].name
                    /\ current_field = Len(m.fields) => t = <<>>
    BY <1>2, <1>4, <1>5, WhatFollows
  <1>10. /\ t \in Seq(Bytes) /\ Len(t) \in Nat /\ P \in Nat /\ P + Len(t) <= Len(w)
    BY <1>9 DEF Token, Holds
  <1>11. n \in 0 .. Len(t)
    <2>1. CASE n = 0
      BY <1>10, <2>1
    <2>2. CASE n # 0
      <3>1. f <= Len(m.fields) /\ n <= Len(m.fields[f].name)
        BY <1>5, <2>2 DEF Skipped
      <3>2. t = m.fields[f].name
        BY <1>2, <1>4, <1>6, <1>9, <3>1
      <3> QED BY <1>5, <1>6, <1>10, <3>1, <3>2
    <2> QED BY <2>1, <2>2
  <1>12. PICK q : BlanksEnd(r, offset, P, t, n, q)
    <2>1. Base + offset = P + n
      BY <1>5, <1>7
    <2>2. Token(Sent(input), P, t, c)
      BY <1>4, <1>9
    <2>3. \E q : BlanksEnd(ParseEqual(offset), offset, P, t, n, q)
      BY <1>2, <1>9, <1>11, <2>1, <2>2, BlankScan
    <2> QED BY <1>4, <2>3
  <1>13. /\ q \in n .. Len(t) /\ Base + r.end = P + q /\ r.end \in offset .. Len(raw)
         /\ r.length = current_length + (q - n) /\ r.status \in {"COMPLETE", "INCOMPLETE", "DATAOVERFLOW"}
         /\ \A j \in n + 1 .. q : t[j] = "SP"
         /\ r.status = "DATAOVERFLOW" => r.length >= MAX_FIELD_LENGTH
    BY <1>12 DEF BlanksEnd
  <1>14. ASSUME q # 0 PROVE current_field < Len(m.fields) /\ f \in 1 .. Len(m.fields) /\ t = m.fields[f].name
    <2>1. current_field # Len(m.fields)
      <3> SUFFICES ASSUME current_field = Len(m.fields) PROVE FALSE
        OBVIOUS
      <3>1. t = <<>>
        BY <1>9
      <3>2. Len(t) = 0
        BY <3>1
      <3> QED BY <1>11, <1>13, <1>14, <3>2
    <2> QED BY <1>2, <1>4, <1>5, <1>6, <1>9, <2>1
  <1>15. ASSUME q # 0 PROVE Continued(m)
    <2>1. CASE n # 0
      BY <1>5, <2>1 DEF Skipped
    <2>2. CASE n = 0
      <3>1. 1 \in n + 1 .. q /\ Len(t) >= 1
        BY <1>10, <1>13, <1>15, <2>2
      <3>2. t[1] = "SP"
        BY <1>13, <3>1
      <3> QED BY <1>14, <1>15, <3>1, <3>2, Blank
    <2> QED BY <2>1, <2>2
  <1>16. CASE r.status = "COMPLETE" /\ r.end = offset
    <2>1. pc' = "process" /\ current_state' = "END_HEADERS_CR" /\ current_length' = 0 /\ offset' = offset
      BY <1>1, <1>2, <1>4, <1>16 DEF FieldValueLWS, GoTo
    <2>2. Here' = b + FieldAt(m, current_field + 1) + n
      BY <1>1, <1>4, <1>5, <1>7, <2>1, Moves
    <2>3. BetweenFields(m, b)'
      BY <1>1, <1>3, <1>5, <1>8, <2>1, <2>2 DEF BetweenFields
    <2> QED BY <1>1, <2>1, <2>3, Goes DEF InMessage
  <1>17. CASE r.status = "COMPLETE" /\ r.end > offset
    <2>1. pc' = "process" /\ current_state' = "FIELD_VALUE_CONTENT"
      BY <1>1, <1>2, <1>4, <1>17 DEF FieldValueLWS, GoTo
    <2>2. q # 0
      BY <1>2, <1>5, <1>7, <1>10, <1>13, <1>17
    <2>3. InContinuation(m)'
      BY <1>1, <1>5, <1>15, <2>1, <2>2 DEF InContinuation
    <2> QED BY <1>1, <2>1, <2>3, Goes DEF InMessage
  <1>18. CASE r.status = "INCOMPLETE"
    <2>1. /\ pc' = "read" /\ process_position' = r.end /\ current_state' = "FIELD_VALUE_LWS"
          /\ current_length' = r.length
      BY <1>1, <1>4, <1>18 DEF FieldValueLWS, Return, Parsing
    <2>2. Here' = b + FieldAt(m, current_field + 1) + q
      BY <1>1, <1>4, <1>13, <2>1, Moves
    <2>3. Skipped(m, f, q)
      <3>1. ASSUME q # 0 PROVE /\ f <= Len(m.fields) /\ q <= Len(m.fields[f].name)
                               /\ \A i \in 1 .. q : m.fields[f].name[i] = "SP"
        <4>1. f \in 1 .. Len(m.fields) /\ t = m.fields[f].name
          BY <1>14, <3>1
        <4>2. n # 0 => \A i \in 1 .. n : t[i] = "SP"
          BY <1>5, <4>1 DEF Skipped
        <4>3. \A i \in 1 .. q : (n # 0 /\ i \in 1 .. n) \/ i \in n + 1 .. q
          BY <1>10, <1>11, <1>13
        <4>4. q <= Len(t) /\ f <= Len(m.fields)
          BY <1>10, <1>13, <4>1, <1>6
        <4> QED BY <1>13, <4>1, <4>2, <4>3, <4>4
      <3> QED BY <1>15, <3>1 DEF Skipped
    <2>4. ~Continued(m) => current_length' = 0
      <3> SUFFICES ASSUME ~Continued(m) PROVE current_length' = 0
        OBVIOUS
      <3>1. q = 0 /\ current_length = 0
        BY <1>3, <1>15
      <3> QED BY <1>10, <1>11, <1>13, <2>1, <3>1
    <2>5. q \in 0 .. Len(w)
      BY <1>6, <1>10, <1>11, <1>13
    <2>6. BetweenFields(m, b)'
      BY <1>1, <1>4, <1>5, <1>8, <2>1, <2>2, <2>3, <2>4, <2>5 DEF BetweenFields
    <2> QED BY <1>1, <2>1, <2>6, Goes DEF InMessage
  <1>19. CASE r.status = "DATAOVERFLOW"
    <2>1. pc' = "denied"
      BY <1>1, <1>4, <1>19 DEF FieldValueLWS, Return
    <2>2. Continued(m)
      <3> SUFFICES ASSUME ~Continued(m) PROVE FALSE
        OBVIOUS
      <3>1. q = 0 /\ current_length = 0
        BY <1>3, <1>15
      <3> QED BY <1>2, <1>10, <1>11, <1>13, <1>19, <3>1
    <2> QED BY <1>1, <2>1, <2>2, ContinuedBad, Denied
  <1> QED
    <2>1. r.end = offset \/ r.end > offset
      BY <1>2, <1>13
    <2> QED BY <1>13, <1>16, <1>17, <1>18, <1>19, <2>1

(* Behind the blanks is the value, or its end. *)
LEMMA BehindPad ==
    ASSUME NEW m, NEW b, At(m, b), NEW f \in 1 .. Len(m.fields)
    PROVE  /\ \E c : Token(Sent(input), PadAt(b + FieldAt(m, f), m.fields[f]), m.fields[f].pad, c) /\ c # "SP"
           /\ \A j \in 1 .. Len(m.fields[f].pad) : m.fields[f].pad[j] = "SP"
           /\ ValueAt(b + FieldAt(m, f), m.fields[f]) =
                 PadAt(b + FieldAt(m, f), m.fields[f]) + Len(m.fields[f].pad)
           /\ PadAt(b + FieldAt(m, f), m.fields[f]) \in Nat
           /\ PadAt(b + FieldAt(m, f), m.fields[f]) = b + FieldAt(m, f) + Len(m.fields[f].name) + 1
  <1>1. PICK p, x, w, l, k : p = b + FieldAt(m, f) /\ x = m.fields[f] /\ w = Sent(input)
                             /\ l = Len(x.name) /\ k = Len(x.pad)
    OBVIOUS
  <1>2. /\ p \in Nat /\ FieldLayout(w, p, x) /\ x.pad \in Seq(Bytes) /\ x.value \in Seq(Bytes)
        /\ l \in Nat /\ k \in Nat /\ Len(x.value) \in Nat
    BY <1>1, FieldPlaces
  <1>3. PadAt(p, x) = p + l + 1 /\ ValueAt(p, x) = p + l + 1 + k
    BY <1>1 DEF PadAt, ValueAt
  <1>4. PICK P : P = p + l + 1
    OBVIOUS
  <1>5. P \in Nat /\ Holds(w, P, x.pad) /\ Token(w, P + k, x.value, "CR")
    BY <1>2, <1>3, <1>4 DEF FieldLayout
  <1>6. /\ P + k \in Nat /\ Len(w) \in Nat /\ P + k + Len(x.value) < Len(w)
        /\ w[P + k + Len(x.value) + 1] = "CR" /\ \A j \in 1 .. Len(x.value) : w[P + k + j] = x.value[j]
    <2>1. Len(w) \in Nat
      <3>1. w \in Seq(Bytes)
        BY <1>1 DEF At
      <3> QED BY <3>1
    <2> QED BY <1>5, <2>1 DEF Token, Holds
  <1>7. P + k < Len(w)
    BY <1>2, <1>6
  <1>8. w[P + k + 1] # "SP"
    <2>1. CASE Len(x.value) = 0
      <3>1. P + k + Len(x.value) + 1 = P + k + 1
        BY <1>6, <2>1
      <3> QED BY <1>6, <3>1
    <2>2. CASE Len(x.value) # 0
      <3>1. 1 \in 1 .. Len(x.value) /\ Len(x.value) >= 1
        BY <1>2, <2>2
      <3>2. ~IsPrefix(Space, x.value)
        BY <1>1, MessageTypes DEF At, Framed
      <3>3. x.value[1] # "SP"
        BY <1>2, <3>1, <3>2, SpacePrefix
      <3> QED BY <1>6, <3>1, <3>3
    <2> QED BY <2>1, <2>2
  <1>9. \A j \in 1 .. Len(x.pad) : x.pad[j] = "SP"
    <2>1. x.pad \in Seq({"SP"})
      BY <1>1, MessageTypes DEF At, Fields
    <2> QED BY <2>1
  <1>10. Token(w, P, x.pad, w[P + k + 1])
    BY <1>1, <1>2, <1>5, <1>7 DEF Token
  <1> QED BY <1>1, <1>3, <1>4, <1>5, <1>8, <1>9, <1>10

(* FieldValueLeadingLWS: the blanks in front of a value. *)
LEMMA LeadingLWSStep ==
    ASSUME HeaderInv, Stream, NEW m, NEW b, At(m, b), InPad(m, b), FieldValueLeadingLWS
    PROVE  Placed(m, b)'
  <1>1. /\ Parsing("FIELD_VALUE_LEADING_LWS") /\ UNCHANGED bufVars /\ message_state' = "PARSE_HEADER"
        /\ UNCHANGED <<line, fields, current_field, scanVars>> /\ pc = "process"
    BY DEF FieldValueLeadingLWS, Parsing, bufVars
  <1>2. /\ PositionInv /\ offset \in 0 .. Len(raw) /\ Len(raw) \in Nat /\ current_field \in Nat
        /\ MAX_FIELD_LENGTH \in Nat /\ current_length \in Nat
    BY Counts, HeaderAssumption DEF PositionInv
  <1>3. PICK f, x, h, P, r : f = current_field + 1 /\ x = m.fields[f] /\ h = Here
                             /\ P = PadAt(b + FieldAt(m, f), x) /\ r = ParseEqual(offset)
    OBVIOUS
  <1>4. PICK n \in 0 .. Len(x.pad) :
          /\ h = P + n
          /\ ~Continued(m) => Named(m) /\ fields[f].value = <<>> /\ current_length = n
    BY <1>3 DEF InPad
  <1>5. /\ current_field < Len(m.fields) /\ Len(fields) = current_field + 1 /\ Content(m)
    BY DEF InPad
  <1>6. Len(m.fields) \in Nat /\ f \in 1 .. Len(m.fields)
    <2>1. Len(m.fields) \in Nat
      BY MessageTypes DEF At
    <2> QED BY <1>2, <1>3, <1>5, <2>1
  <1>7. PICK c : Token(Sent(input), P, x.pad, c) /\ c # "SP"
    BY <1>3, <1>6, BehindPad
  <1>8. /\ \A j \in 1 .. Len(x.pad) : x.pad[j] = "SP"
        /\ ValueAt(b + FieldAt(m, f), x) = P + Len(x.pad) /\ P \in Nat
    BY <1>3, <1>6, BehindPad
  <1>9. Len(x.pad) \in Nat /\ Len(x.value) \in Nat
    BY <1>3, <1>6, FieldPlaces
  <1>10. h = Base + offset /\ Base \in Nat
    BY <1>1, <1>3, HereParsing DEF Stream
  <1>11. Content(m)' /\ input' = input
    BY <1>1, <1>5, ContentKept DEF bufVars
  <1>12. PICK q : BlanksEnd(r, offset, P, x.pad, n, q)
    <2>1. Base + offset = P + n
      BY <1>4, <1>10
    <2>2. \E q : BlanksEnd(ParseEqual(offset), offset, P, x.pad, n, q)
      BY <1>2, <1>7, <2>1, BlankScan
    <2> QED BY <1>3, <2>2
  <1>13. /\ q \in n .. Len(x.pad) /\ Base + r.end = P + q /\ r.end \in offset .. Len(raw)
         /\ r.length = current_length + (q - n) /\ r.status \in {"COMPLETE", "INCOMPLETE", "DATAOVERFLOW"}
         /\ r.status = "COMPLETE" => q = Len(x.pad) \/ x.pad[q + 1] # "SP"
         /\ r.status = "DATAOVERFLOW" => r.length >= MAX_FIELD_LENGTH
    BY <1>12 DEF BlanksEnd
  <1>14. ~Continued(m) => r.length = q
    BY <1>4, <1>9, <1>13
  <1>15. /\ ~Continued(m) => Named(m)' /\ fields'[f].value = <<>>
         /\ current_field' + 1 = f /\ current_field' = current_field /\ fields' = fields
    BY <1>1, <1>3, <1>4 DEF Named
  <1>16. CASE r.status = "COMPLETE"
    <2>1. /\ pc' = "process" /\ current_state' = "FIELD_VALUE_CONTENT" /\ offset' = r.end
          /\ current_length' = r.length
      BY <1>1, <1>3, <1>16 DEF FieldValueLeadingLWS
    <2>2. q = Len(x.pad)
      <3> SUFFICES ASSUME q # Len(x.pad) PROVE FALSE
        OBVIOUS
      <3>1. q + 1 \in 1 .. Len(x.pad)
        BY <1>9, <1>13
      <3> QED BY <1>8, <1>13, <1>16, <3>1
    <2>3. Here' = ValueAt(b + FieldAt(m, f), x) + 0
      BY <1>1, <1>8, <1>9, <1>13, <2>1, <2>2, Moves
    <2>4. SubSeq(x.value, 1, 0) = <<>>
      BY <1>3, <1>6, FieldPlaces, Wholly
    <2>5. 0 \in 0 .. Len(x.value) /\ Len(x.pad) = Len(x.pad) + 0 /\ Clean(x.value, 0)
      BY <1>9 DEF Clean
    <2>6. InValue(m, b)'
      BY <1>3, <1>5, <1>11, <1>14, <1>15, <2>1, <2>2, <2>3, <2>4, <2>5 DEF InValue
    <2> QED BY <1>1, <2>1, <2>6, Goes DEF InMessage
  <1>17. CASE r.status = "INCOMPLETE"
    <2>1. /\ pc' = "read" /\ process_position' = r.end /\ current_state' = "FIELD_VALUE_LEADING_LWS"
          /\ current_length' = r.length
      BY <1>1, <1>3, <1>17 DEF FieldValueLeadingLWS, Return, Parsing
    <2>2. Here' = P + q
      BY <1>1, <1>13, <2>1, Moves
    <2>3. q \in 0 .. Len(x.pad)
      BY <1>9, <1>13
    <2>4. InPad(m, b)'
      BY <1>3, <1>5, <1>11, <1>14, <1>15, <2>1, <2>2, <2>3 DEF InPad
    <2> QED BY <1>1, <2>1, <2>4, Goes DEF InMessage
  <1>18. CASE r.status = "DATAOVERFLOW"
    <2>1. pc' = "denied"
      BY <1>1, <1>3, <1>18 DEF FieldValueLeadingLWS, Return
    <2>2. ~WellFormed(m)
      <3> SUFFICES ASSUME WellFormed(m) PROVE FALSE
        OBVIOUS
      <3>1. ~Continued(m) /\ FieldOK(x)
        BY <1>3, <1>6, FormedFacts DEF At
      <3>2. Len(x.pad) + Len(x.value) < MAX_FIELD_LENGTH
        BY <3>1 DEF FieldOK
      <3>3. q >= MAX_FIELD_LENGTH
        BY <1>13, <1>14, <1>18, <3>1
      <3>4. q \in n .. Len(x.pad) /\ n \in 0 .. Len(x.pad)
        BY <1>13
      <3>5. \A k, l, i, j, z \in Nat : k + l < z /\ i \in 0 .. k /\ j \in i .. k => ~(j >= z)
        OBVIOUS
      <3>6. q \in Nat /\ n \in Nat
        BY <1>9, <3>4
      <3> QED BY <1>2, <1>9, <3>2, <3>3, <3>4, <3>5, <3>6, Zenon
    <2> QED BY <1>1, <2>1, <2>2, Denied
  <1> QED BY <1>13, <1>16, <1>17, <1>18

(* A field that is being filled does not change the ones before it. *)
LEMMA ContentGrows ==
    ASSUME NEW m, Content(m), UNCHANGED <<line, current_field, scanVars>>,
           \A k \in 1 .. current_field : fields'[k] = fields[k]
    PROVE  Content(m)'
  <1> SUFFICES ASSUME ~Continued(m)
               PROVE  LineRead(m, 4)' /\ FieldsRead(m, current_field)' /\ Scanned(m, current_field)'
    BY DEF Content
  <1>1. LineRead(m, 4) /\ FieldsRead(m, current_field) /\ Scanned(m, current_field)
    BY DEF Content
  <1>2. LineRead(m, 4)'
    BY <1>1 DEF LineRead
  <1>3. FieldsRead(m, current_field)'
    BY <1>1 DEF FieldsRead
  <1>4. Scanned(m, current_field)'
    BY <1>1 DEF Scanned, BodyScanned, scanVars
  <1> QED BY <1>2, <1>3, <1>4

(* set_field_name() appends to the field being named. *)
NameSet(piece) ==
    /\ Len(fields') = current_field + 1 /\ fields'[current_field + 1].name = NameSoFar \o piece
    /\ fields'[current_field + 1].value = ValueSoFar
    /\ \A k \in 1 .. current_field : fields'[k] = fields[k]
    /\ Fits(NameSoFar, piece, MaxName)

(* set_field_name() appends to the name of the field being filled, or refuses. *)
LEMMA FieldNameSet ==
    ASSUME HeaderInv, NEW piece
    PROVE  /\ SetFieldName(piece, "COMPLETE") => NameSet(piece)
           /\ SetFieldName(piece, "DATAOVERFLOW") => current_field >= MaxFields \/ ~Fits(NameSoFar, piece, MaxName)
  <1>1. /\ current_field \in Nat /\ Len(fields) \in Nat /\ Len(fields) - current_field \in 0 .. 1
        /\ fields \in Seq(FieldRecord)
    BY Counts
  <1>2. PICK fs, n : fs = FieldsForName /\ n = current_field + 1
    OBVIOUS
  <1>3. NewField \in FieldRecord
    <2>1. <<>> \in Text
      BY DEF Text
    <2> QED BY <2>1 DEF NewField, FieldRecord
  <1>4. /\ fs \in Seq(FieldRecord) /\ Len(fs) = n /\ fs[n].name = NameSoFar /\ fs[n].value = ValueSoFar
        /\ \A k \in 1 .. current_field : fs[k] = fields[k]
    <2>1. CASE Len(fields) = current_field
      <3>1. fs = Append(fields, NewField) /\ NameSoFar = <<>> /\ ValueSoFar = <<>>
        BY <1>2, <2>1 DEF FieldsForName, NameSoFar, ValueSoFar
      <3>2. /\ fs \in Seq(FieldRecord) /\ Len(fs) = n /\ fs[n] = NewField
            /\ \A k \in 1 .. current_field : fs[k] = fields[k]
        <4> HIDE DEF FieldRecord
        <4> QED BY <1>1, <1>2, <1>3, <2>1, <3>1
      <3>3. NewField.name = <<>> /\ NewField.value = <<>>
        BY DEF NewField
      <3> QED BY <3>1, <3>2, <3>3
    <2>2. CASE Len(fields) # current_field
      <3>1. fs = fields /\ Len(fields) = n /\ NameSoFar = fields[n].name /\ ValueSoFar = fields[n].value
        BY <1>1, <1>2, <2>2 DEF FieldsForName, NameSoFar, ValueSoFar
      <3> QED BY <1>1, <3>1
    <2> QED BY <2>1, <2>2
  <1>5. n \in 1 .. Len(fs) /\ \A k \in 1 .. current_field : k # n /\ k \in 1 .. Len(fs)
    BY <1>1, <1>2, <1>4
  <1>6. ASSUME SetFieldName(piece, "COMPLETE") PROVE NameSet(piece)
    <2>1. Fits(NameSoFar, piece, MaxName) /\ fields' = [fs EXCEPT ![n].name = @ \o piece]
      BY <1>2, <1>4, <1>6 DEF SetFieldName
    <2>2. fs[n] \in FieldRecord
      BY <1>4, <1>5
    <2>3. PICK g : g = [fs[n] EXCEPT !.name = @ \o piece]
      OBVIOUS
    <2>4. g.name = NameSoFar \o piece /\ g.value = ValueSoFar
      BY <1>4, <2>2, <2>3 DEF FieldRecord
    <2>5. fields' = [fs EXCEPT ![n] = g]
      BY <2>1, <2>3
    <2>6. DOMAIN fs = 1 .. n
      BY <1>4
    <2>7. /\ Len(fields') = n /\ fields'[n] = g
          /\ \A k \in 1 .. current_field : fields'[k] = fields[k]
      <3>1. DOMAIN fields' = 1 .. n /\ n \in Nat
        BY <1>1, <1>2, <2>5, <2>6
      <3>2. Len(fields') = n
        <4>1. \A y : y \in Nat /\ DOMAIN fields' = 1 .. y => Len(fields') = y
          <5> HIDE DEF FieldRecord
          <5>1. fields' = [i \in 1 .. n |-> IF i = n THEN g ELSE fs[i]]
            BY <2>5, <2>6
          <5>2. Len([i \in 1 .. n |-> IF i = n THEN g ELSE fs[i]]) = n
            BY <3>1
          <5> QED BY <3>1, <5>1, <5>2
        <4> QED BY <3>1, <4>1
      <3> QED BY <1>4, <1>5, <2>5, <2>6, <3>2
    <2> QED BY <1>2, <2>1, <2>4, <2>7 DEF NameSet
  <1>7. ASSUME SetFieldName(piece, "DATAOVERFLOW")
        PROVE  current_field >= MaxFields \/ ~Fits(NameSoFar, piece, MaxName)
    BY <1>2, <1>4, <1>7 DEF SetFieldName, TooManyFields
  <1> QED BY <1>6, <1>7

(* FieldName: a piece of the name, all of it, or a name that must be refused. *)
LEMMA FieldNameStep ==
    ASSUME HeaderInv, Stream, NEW m, NEW b, At(m, b), InName(m, b), FieldName
    PROVE  Placed(m, b)'
  <1>1. /\ Parsing("FIELD_NAME") /\ UNCHANGED bufVars /\ message_state' = "PARSE_HEADER"
        /\ UNCHANGED <<line, current_field, scanVars>> /\ pc = "process"
    BY DEF FieldName, Parsing, bufVars
  <1>2. /\ PositionInv /\ offset \in 0 .. Len(raw) /\ Len(raw) \in Nat /\ current_field \in Nat
        /\ MAX_FIELD_LENGTH \in Nat /\ current_length \in Nat /\ MaxName \in Nat /\ MaxFields \in Nat
    BY Counts, HeaderAssumption DEF PositionInv
  <1>3. PICK f, t, h, P, r, piece : f = current_field + 1 /\ t = m.fields[f].name /\ h = Here
                             /\ P = b + FieldAt(m, f) /\ r = ParseToken(offset, {":"})
                             /\ piece = Piece(offset, r.end)
    OBVIOUS
  <1>4. PICK n \in 0 .. Len(t) :
          /\ h = P + n
          /\ ~Continued(m) => /\ NameSoFar = SubSeq(t, 1, n) /\ current_length = n /\ ValueSoFar = <<>>
                              /\ Clean(t, n)
    BY <1>3 DEF InName
  <1>5. current_field < Len(m.fields) /\ Content(m)
    BY DEF InName
  <1>6. Len(m.fields) \in Nat /\ f \in 1 .. Len(m.fields)
    <2>1. Len(m.fields) \in Nat
      BY MessageTypes DEF At
    <2> QED BY <1>2, <1>3, <1>5, <2>1
  <1>7. /\ Token(Sent(input), P, t, ":") /\ t \in Seq(Bytes) /\ Len(t) \in Nat /\ P \in Nat
        /\ FieldAt(m, f) \in Nat
    BY <1>3, <1>6, FieldPlaces DEF FieldLayout
  <1>8. \A j \in 1 .. Len(t) : t[j] # ":"
    <2>1. ":" \notin ToSet(t)
      BY <1>3, <1>6, MessageTypes DEF At, Framed
    <2>2. DOMAIN t = 1 .. Len(t)
      BY <1>7
    <2> QED BY <2>1, <2>2 DEF ToSet
  <1>9. h = Base + offset /\ Base \in Nat
    BY <1>1, <1>3, HereParsing DEF Stream
  <1>10. PICK q : /\ ScanEnds(r, offset, {":"}, ControlChars, P, t, n, q)
                  /\ TokenEnds(r, t, ":", {":"}, ControlChars, q)
    <2>1. Base + offset = P + n
      BY <1>4, <1>9
    <2>2. \E q : /\ ScanEnds(Scan(offset, {":"}, ControlChars), offset, {":"}, ControlChars, P, t, n, q)
                 /\ TokenEnds(Scan(offset, {":"}, ControlChars), t, ":", {":"}, ControlChars, q)
      BY <1>2, <1>7, <2>1, TokenScan
    <2> QED BY <1>3, <2>2 DEF ParseToken
  <1>11. /\ q \in n .. Len(t) /\ Base + r.end = P + q /\ r.end \in offset .. Len(raw)
         /\ r.length = current_length + (q - n)
         /\ r.status \in {"COMPLETE", "INVALID", "INCOMPLETE", "DATAOVERFLOW"}
         /\ \A j \in n + 1 .. q : t[j] \notin {":"} \cup ControlChars
         /\ r.status \in {"COMPLETE", "INVALID"} => r.length < MAX_FIELD_LENGTH
         /\ r.status = "DATAOVERFLOW" => r.length >= MAX_FIELD_LENGTH
         /\ piece = SubSeq(t, n + 1, q)
    BY <1>3, <1>10 DEF ScanEnds
  <1>12. /\ q \in Nat /\ n \in Nat /\ n <= q /\ q <= Len(t)
    BY <1>7, <1>11
  <1>13. ~Continued(m) => r.length = q
    BY <1>4, <1>11, <1>12
  <1>14. ~Continued(m) => Clean(t, q)
    <2> SUFFICES ASSUME ~Continued(m), NEW j \in 1 .. q PROVE t[j] \notin ControlChars
      BY DEF Clean
    <2>1. j \in 1 .. n \/ j \in n + 1 .. q
      BY <1>12
    <2>2. \A k \in 1 .. n : t[k] \notin ControlChars
      BY <1>4 DEF Clean
    <2> QED BY <1>11, <2>1, <2>2
  <1>15. ~Continued(m) => NameSoFar \o piece = SubSeq(t, 1, q)
    <2>1. SubSeq(t, 1, n) \o SubSeq(t, n + 1, q) = SubSeq(t, 1, q)
      BY <1>7, <1>12, Grown
    <2>2. piece = SubSeq(t, n + 1, q) /\ (~Continued(m) => NameSoFar = SubSeq(t, 1, n))
      BY <1>4, <1>11
    <2> QED BY <2>1, <2>2, Zenon
  <1>16. ASSUME SetFieldName(piece, "COMPLETE")
         PROVE  /\ Len(fields') = current_field + 1 /\ fields'[f].value = ValueSoFar
                /\ ~Continued(m) => fields'[f].name = SubSeq(t, 1, q) /\ fields'[f].value = <<>> /\ q <= MaxName
                /\ Content(m)'
    <2>1. NameSet(piece)
      BY <1>16, FieldNameSet
    <2>2. /\ Len(fields') = current_field + 1 /\ fields'[f].value = ValueSoFar
          /\ fields'[f].name = NameSoFar \o piece /\ Fits(NameSoFar, piece, MaxName)
          /\ \A k \in 1 .. current_field : fields'[k] = fields[k]
      BY <1>3, <2>1 DEF NameSet
    <2>3. Content(m)'
      BY <1>1, <1>5, <2>2, ContentGrows
    <2>4. ASSUME ~Continued(m) PROVE q <= MaxName
      <3>1. NameSoFar = SubSeq(t, 1, n) /\ Len(NameSoFar) = n
        BY <1>4, <1>7, <1>12, <2>4
      <3>2. Len(piece) = q - n
        BY <1>7, <1>11, <1>12
      <3> QED BY <1>2, <1>12, <2>2, <3>1, <3>2 DEF Fits
    <2> QED BY <1>4, <1>15, <2>2, <2>3, <2>4
  <1>17. ASSUME SetFieldName(piece, "DATAOVERFLOW") PROVE ~WellFormed(m)
    <2> SUFFICES ASSUME WellFormed(m) PROVE FALSE
      OBVIOUS
    <2>1. ~Continued(m) /\ Len(m.fields) <= MaxFields /\ FieldOK(m.fields[f])
      BY <1>6, FormedFacts DEF At
    <2>2. Len(t) <= MaxName
      BY <1>3, <2>1 DEF FieldOK, Plain
    <2>3. ~Fits(NameSoFar, piece, MaxName)
      BY <1>2, <1>5, <1>6, <1>17, <2>1, FieldNameSet
    <2>4. NameSoFar = SubSeq(t, 1, n) /\ Len(NameSoFar) = n
      BY <1>4, <1>7, <1>12, <2>1
    <2>5. Len(piece) = q - n
      BY <1>7, <1>11, <1>12
    <2> QED BY <1>2, <1>7, <1>12, <2>2, <2>3, <2>4, <2>5 DEF Fits
  <1>18. CASE r.status = "COMPLETE" /\ SetFieldName(piece, "COMPLETE")
                  /\ GoTo("FIELD_VALUE_LEADING_LWS", r.end + 1)
    <2>1. /\ pc' = "process" /\ current_state' = "FIELD_VALUE_LEADING_LWS" /\ offset' = r.end + 1
          /\ current_length' = 0
      BY <1>1, <1>18 DEF GoTo
    <2>2. q = Len(t)
      <3> SUFFICES ASSUME q # Len(t) PROVE FALSE
        OBVIOUS
      <3>1. t[q + 1] = ":" /\ q < Len(t)
        BY <1>10, <1>18 DEF TokenEnds
      <3> QED BY <1>7, <1>8, <1>12, <3>1
    <2>3. PadAt(b + FieldAt(m, f), m.fields[f]) = P + Len(t) + 1
      BY <1>3 DEF PadAt
    <2>4. Here' = PadAt(b + FieldAt(m, f), m.fields[f]) + 0
      <3>1. Here' = Base + (r.end + 1)
        BY <1>1, <2>1, Moves
      <3>2. PICK e : e = r.end
        OBVIOUS
      <3>3. e \in Nat /\ Base + e = P + Len(t)
        BY <1>2, <1>11, <2>2, <3>2
      <3> QED BY <1>7, <1>9, <2>3, <3>1, <3>2, <3>3
    <2>5. ~Continued(m) => fields'[f].name = t /\ fields'[f].value = <<>> /\ Plain(t, MaxName)
      <3>1. SubSeq(t, 1, Len(t)) = t
        BY <1>7, Wholly
      <3>2. ~Continued(m) => Len(t) <= MaxName /\ Len(t) < MAX_FIELD_LENGTH /\ Clean(t, Len(t))
        BY <1>11, <1>13, <1>14, <1>16, <1>18, <2>2
      <3> QED BY <1>7, <1>16, <1>18, <2>2, <3>1, <3>2, PlainIs DEF Clean
    <2>6. 0 \in 0 .. Len(m.fields[f].pad)
      BY <1>6, FieldPlaces
    <2>7. current_field' = current_field /\ current_field' + 1 = f /\ Len(fields') = current_field' + 1
      BY <1>1, <1>3, <1>16, <1>18
    <2>8. InPad(m, b)'
      BY <1>3, <1>5, <1>16, <1>18, <2>1, <2>4, <2>5, <2>6, <2>7 DEF InPad, Named
    <2> QED BY <1>1, <2>1, <2>8, Goes DEF InMessage
  <1>19. CASE /\ r.status = "INCOMPLETE" /\ SetFieldName(piece, "COMPLETE") /\ Return("INCOMPLETE", r.end)
              /\ current_length' = r.length /\ UNCHANGED <<current_state, offset>>
    <2>1. pc' = "read" /\ current_state' = "FIELD_NAME" /\ process_position' = r.end /\ current_length' = r.length
      BY <1>1, <1>19 DEF Return, Parsing
    <2>2. Here' = P + q
      BY <1>1, <1>11, <2>1, Moves
    <2>3. current_field' = current_field /\ current_field' + 1 = f /\ Len(fields') = current_field' + 1
          /\ Len(fields') # current_field'
      BY <1>1, <1>2, <1>3, <1>16, <1>19
    <2>4. NameSoFar' = fields'[f].name /\ ValueSoFar' = fields'[f].value
      BY <2>3 DEF NameSoFar, ValueSoFar
    <2>5. q \in 0 .. Len(t)
      BY <1>7, <1>12
    <2>6. ~Continued(m) => /\ NameSoFar' = SubSeq(t, 1, q) /\ current_length' = q /\ ValueSoFar' = <<>>
                           /\ Clean(t, q)
      BY <1>13, <1>14, <1>16, <1>19, <2>1, <2>4
    <2>7. InName(m, b)'
      BY <1>3, <1>5, <1>16, <1>19, <2>1, <2>2, <2>3, <2>5, <2>6 DEF InName
    <2> QED BY <1>1, <2>1, <2>7, Goes DEF InMessage
  <1>20. CASE /\ SetFieldName(piece, "DATAOVERFLOW") /\ pc' = "denied"
    BY <1>1, <1>17, <1>20, Denied
  <1>21. CASE r.status \in {"INVALID", "DATAOVERFLOW"} /\ pc' = "denied"
    <2>1. ~WellFormed(m)
      <3>1. CASE r.status = "INVALID"
        <4>1. q < Len(t) /\ t[q + 1] \in ControlChars
          BY <1>10, <3>1 DEF TokenEnds, ControlChars
        <4>2. q + 1 \in 1 .. Len(t)
          BY <1>7, <1>12, <4>1
        <4> QED BY <1>3, <1>6, <4>1, <4>2, BadName
      <3>2. CASE r.status = "DATAOVERFLOW"
        <4> SUFFICES ASSUME WellFormed(m) PROVE FALSE
          OBVIOUS
        <4>1. ~Continued(m) /\ FieldOK(m.fields[f])
          BY <1>6, FormedFacts DEF At
        <4>2. Len(t) < MAX_FIELD_LENGTH
          BY <1>3, <4>1 DEF FieldOK, Plain
        <4>3. q >= MAX_FIELD_LENGTH
          BY <1>11, <1>13, <3>2, <4>1
        <4> QED BY <1>2, <1>7, <1>12, <4>2, <4>3
      <3> QED BY <1>21, <3>1, <3>2
    <2> QED BY <1>1, <1>21, <2>1, Denied
  <1> QED BY <1>3, <1>18, <1>19, <1>20, <1>21 DEF FieldName, Return

(* scan_field() keeps track of the encoding, whichever field comes when. *)
LEMMA BodyScannedStep ==
    ASSUME NEW m, NEW n \in Nat, BodyScanned(m, n), ~ignore_body_encoding_headers,
           NEW g, g.name = m.fields[n + 1].name, g.value = m.fields[n + 1].value, ScanField(g)
    PROVE  BodyScanned(m, n + 1)'
  <1>1. PICK x : x = m.fields[n + 1]
    OBVIOUS
  <1>2. \A k \in 1 .. n + 1 : k \in 1 .. n \/ k = n + 1
    OBVIOUS
  <1>3. n + 1 \in 1 .. n + 1 /\ \A k \in 1 .. n : k \in 1 .. n + 1 /\ k <= n + 1
    OBVIOUS
  <1>4. HasChunked(m, n + 1) <=> HasChunked(m, n) \/ IsChunked(x)
    BY <1>1, <1>2, <1>3 DEF HasChunked
  <1>5. ContentLength # TransferEncoding
    BY DEF ContentLength, TransferEncoding
  <1>6. DefaultEncoding(m.type) \notin {"CHUNKED", "CONTENT_LENGTH"}
    BY DEF DefaultEncoding
  <1>7. g.name = x.name /\ g.value = x.value
    BY <1>1
  <1>8. CASE g.name = ContentLength /\ body_encoding # "CHUNKED"
    <2>1. body_encoding' = "CONTENT_LENGTH" /\ message_size' = Number(g.value)
      BY <1>5, <1>8 DEF ScanField
    <2>2. ~HasChunked(m, n)
      BY <1>8 DEF BodyScanned
    <2>3. ~IsChunked(x)
      BY <1>5, <1>7, <1>8 DEF IsChunked
    <2>4. LastLength(m, n + 1, n + 1)
      BY <1>1, <1>2, <1>3, <1>7, <1>8 DEF LastLength
    <2>5. ~HasChunked(m, n + 1)
      BY <1>4, <2>2, <2>3
    <2> QED BY <1>1, <1>3, <1>7, <2>1, <2>4, <2>5 DEF BodyScanned
  <1>9. CASE IsChunked(x)
    <2>1. body_encoding' = "CHUNKED"
      BY <1>5, <1>7, <1>9 DEF ScanField, IsChunked
    <2>2. HasChunked(m, n + 1)
      BY <1>4, <1>9
    <2> QED BY <2>1, <2>2 DEF BodyScanned
  <1>10. CASE ~(g.name = ContentLength /\ body_encoding # "CHUNKED") /\ ~IsChunked(x)
    <2>1. body_encoding' = body_encoding /\ message_size' = message_size
      BY <1>7, <1>10 DEF ScanField, IsChunked
    <2>2. HasChunked(m, n + 1) <=> HasChunked(m, n)
      BY <1>4, <1>10
    <2>3. CASE HasChunked(m, n) /\ body_encoding = "CHUNKED"
      BY <2>1, <2>2, <2>3 DEF BodyScanned
    <2>4. CASE /\ ~HasChunked(m, n) /\ body_encoding = "CONTENT_LENGTH"
               /\ \E j \in 1 .. n : LastLength(m, n, j) /\ message_size = Number(m.fields[j].value)
      <3>1. PICK j \in 1 .. n : LastLength(m, n, j) /\ message_size = Number(m.fields[j].value)
        BY <2>4
      <3>2. x.name # ContentLength
        BY <1>7, <1>10, <2>4
      <3>3. LastLength(m, n + 1, j) /\ j \in 1 .. n + 1
        BY <1>1, <1>2, <1>3, <3>1, <3>2 DEF LastLength
      <3> QED BY <2>1, <2>2, <2>4, <3>1, <3>3 DEF BodyScanned
    <2>5. CASE ~HasChunked(m, n) /\ NoLength(m, n) /\ body_encoding = DefaultEncoding(m.type)
      <3>1. x.name # ContentLength
        BY <1>6, <1>7, <1>10, <2>5
      <3>2. NoLength(m, n + 1)
        BY <1>1, <1>2, <2>5, <3>1 DEF NoLength
      <3> QED BY <2>1, <2>2, <2>5, <3>2 DEF BodyScanned
    <2> QED BY <2>3, <2>4, <2>5 DEF BodyScanned
  <1> QED BY <1>8, <1>9, <1>10

(* scan_field() of the next field. *)
LEMMA ScannedStep ==
    ASSUME NEW m, NEW n \in Nat, Scanned(m, n),
           NEW g, g.name = m.fields[n + 1].name, g.value = m.fields[n + 1].value, ScanField(g)
    PROVE  Scanned(m, n + 1)'
  <1>1. HasHost(m, n + 1) <=> HasHost(m, n) \/ m.fields[n + 1].name = Host
    <2>1. \A k : k \in 1 .. n + 1 <=> k \in 1 .. n \/ k = n + 1
      OBVIOUS
    <2> QED BY <2>1 DEF HasHost
  <1>2. have_host_header' = HasHost(m, n + 1)
    <2>1. have_host_header' = (have_host_header \/ g.name = Host)
      BY DEF ScanField
    <2>2. have_host_header = HasHost(m, n)
      BY DEF Scanned
    <2>3. HasHost(m, n + 1) \in BOOLEAN
      BY DEF HasHost
    <2> QED BY <1>1, <2>1, <2>2, <2>3
  <1>3. ignore_body_encoding_headers' = NoBody(m) /\ ignore_body_encoding_headers = NoBody(m)
    BY DEF ScanField, Scanned
  <1>4. CASE NoBody(m)
    <2>1. body_encoding' = body_encoding /\ body_encoding = "NONE"
      BY <1>3, <1>4 DEF ScanField, Scanned
    <2> QED BY <1>2, <1>3, <1>4, <2>1 DEF Scanned
  <1>5. CASE ~NoBody(m)
    <2>1. BodyScanned(m, n) /\ ~ignore_body_encoding_headers
      BY <1>3, <1>5 DEF Scanned
    <2>2. BodyScanned(m, n + 1)'
      BY <2>1, BodyScannedStep
    <2> QED BY <1>2, <1>3, <1>5, <2>2 DEF Scanned
  <1> QED BY <1>4, <1>5

(* A message with a bad value is a bad one. *)
LEMMA BadValue ==
    ASSUME NEW m, NEW b, At(m, b), NEW f \in 1 .. Len(m.fields), NEW j \in 1 .. Len(m.fields[f].value),
           m.fields[f].value[j] \in ControlChars
    PROVE  ~WellFormed(m)
  <1>1. m.fields[f].value \in Seq(Bytes)
    BY FieldPlaces
  <1>2. ~Plain(m.fields[f].value, MaxValue)
    BY <1>1, PlainIs
  <1> QED BY <1>2, FormedFacts DEF At, FieldOK

(* A value without a field. *)
LEMMA ContinuationStep ==
    ASSUME HeaderInv, NEW m, NEW b, InContinuation(m), FieldValueContent
    PROVE  Placed(m, b)'
  <1>1. message_state' = "PARSE_HEADER" /\ NoField /\ Continued(m)
    BY Counts DEF FieldValueContent, Parsing, InContinuation, NoField
  <1>2. PICK r : r = ParseToken(offset, {"CR"})
    OBVIOUS
  <1>3. CASE pc' = "aborted"
    BY <1>1, <1>3 DEF Placed
  <1>4. CASE pc' = "denied"
    BY <1>1, <1>4, ContinuedBad, Denied
  <1> QED BY <1>1, <1>2, <1>3, <1>4 DEF FieldValueContent, Return

(* set_field_value() appends to the field that was named. *)
LEMMA ValueSet ==
    ASSUME HeaderInv, NEW f, f = current_field + 1, Len(fields) = f, NEW piece,
           fields' = [fields EXCEPT ![f].value = @ \o piece]
    PROVE  /\ Len(fields') = f /\ fields'[f].name = fields[f].name /\ fields'[f].value = fields[f].value \o piece
           /\ \A k \in 1 .. current_field : fields'[k] = fields[k]
  <1>1. current_field \in Nat /\ fields \in Seq(FieldRecord) /\ f \in Nat
    BY Counts
  <1>2. f \in 1 .. Len(fields) /\ DOMAIN fields = 1 .. f /\ \A k \in 1 .. current_field : k # f /\ k \in 1 .. f
    BY <1>1
  <1>3. fields[f] \in FieldRecord
    BY <1>1, <1>2
  <1>4. PICK g : g = [fields[f] EXCEPT !.value = @ \o piece]
    OBVIOUS
  <1>5. g.name = fields[f].name /\ g.value = fields[f].value \o piece
    BY <1>3, <1>4 DEF FieldRecord
  <1>6. fields' = [fields EXCEPT ![f] = g]
    BY <1>4
  <1>7. fields' = [i \in 1 .. f |-> IF i = f THEN g ELSE fields[i]]
    BY <1>2, <1>6
  <1>8. Len(fields') = f
    BY <1>1, <1>7
  <1> QED BY <1>2, <1>5, <1>7, <1>8

(* FieldValueContent: a piece of the value, all of it, or one that must be refused. *)
LEMMA FieldValueStep ==
    ASSUME HeaderInv, Stream, NEW m, NEW b, At(m, b), InValue(m, b), FieldValueContent
    PROVE  Placed(m, b)'
  <1>1. /\ Parsing("FIELD_VALUE_CONTENT") /\ UNCHANGED bufVars /\ message_state' = "PARSE_HEADER"
        /\ UNCHANGED line /\ pc = "process"
    BY DEF FieldValueContent, Parsing, bufVars
  <1>2. /\ PositionInv /\ offset \in 0 .. Len(raw) /\ Len(raw) \in Nat /\ current_field \in Nat
        /\ MAX_FIELD_LENGTH \in Nat /\ current_length \in Nat /\ MaxValue \in Nat
    BY Counts, HeaderAssumption DEF PositionInv
  <1>3. PICK f, x, t, h, P, r, piece : f = current_field + 1 /\ x = m.fields[f] /\ t = x.value /\ h = Here
                             /\ P = ValueAt(b + FieldAt(m, f), x) /\ r = ParseToken(offset, {"CR"})
                             /\ piece = Piece(offset, r.end)
    OBVIOUS
  <1>4. PICK n \in 0 .. Len(t) :
          /\ h = P + n
          /\ ~Continued(m) => /\ Named(m) /\ fields[f].value = SubSeq(t, 1, n)
                              /\ current_length = Len(x.pad) + n /\ Clean(t, n)
    BY <1>3 DEF InValue
  <1>5. current_field < Len(m.fields) /\ Content(m) /\ Len(fields) = f
    BY <1>3 DEF InValue
  <1>6. Len(m.fields) \in Nat /\ f \in 1 .. Len(m.fields) /\ ~NoField
    <2>1. Len(m.fields) \in Nat
      BY MessageTypes DEF At
    <2> QED BY <1>2, <1>3, <1>5, <2>1 DEF NoField
  <1>7. /\ Token(Sent(input), P, t, "CR") /\ t \in Seq(Bytes) /\ Len(t) \in Nat /\ P \in Nat
        /\ Len(x.pad) \in Nat /\ x.name \in Seq(Bytes) /\ Sent(input) \in Seq(Bytes)
        /\ FieldAt(m, f + 1) = FieldAt(m, f) + FieldLength(x)
    <2>1. /\ Token(Sent(input), P, t, "CR") /\ t \in Seq(Bytes) /\ Len(t) \in Nat
          /\ Len(x.pad) \in Nat /\ x.name \in Seq(Bytes)
          /\ FieldAt(m, f + 1) = FieldAt(m, f) + FieldLength(x)
      BY <1>3, <1>6, FieldPlaces DEF FieldLayout
    <2> QED BY <2>1 DEF Token, At
  <1>8. b + FieldAt(m, f + 1) = P + Len(t) + 2
    <2>1. PICK p, i, j, k : p = FieldAt(m, f) /\ i = Len(x.name) /\ j = Len(x.pad) /\ k = Len(t)
      OBVIOUS
    <2>2. p \in Nat /\ i \in Nat /\ j \in Nat /\ k \in Nat /\ b \in Nat
      BY <1>3, <1>6, <2>1, FieldPlaces DEF At, Layout
    <2>3. P = b + p + i + 1 + j /\ FieldLength(x) = i + 1 + j + k + 2
      BY <1>3, <2>1 DEF ValueAt, FieldLength
    <2>4. PICK z, l : z = FieldAt(m, f + 1) /\ l = FieldLength(x)
      OBVIOUS
    <2>5. z = p + l
      BY <1>7, <2>1, <2>4
    <2>6. b + z = P + k + 2
      BY <2>2, <2>3, <2>4, <2>5
    <2> QED BY <2>1, <2>4, <2>6
  <1>9. h = Base + offset /\ Base \in Nat
    BY <1>1, <1>3, HereParsing DEF Stream
  <1>10. PICK q : /\ ScanEnds(r, offset, {"CR"}, ControlChars, P, t, n, q)
                  /\ TokenEnds(r, t, "CR", {"CR"}, ControlChars, q)
    <2>1. Base + offset = P + n
      BY <1>4, <1>9
    <2>2. \E q : /\ ScanEnds(Scan(offset, {"CR"}, ControlChars), offset, {"CR"}, ControlChars, P, t, n, q)
                 /\ TokenEnds(Scan(offset, {"CR"}, ControlChars), t, "CR", {"CR"}, ControlChars, q)
      BY <1>2, <1>7, <2>1, TokenScan
    <2> QED BY <1>3, <2>2 DEF ParseToken
  <1>11. /\ q \in n .. Len(t) /\ Base + r.end = P + q /\ r.end \in offset .. Len(raw)
         /\ r.length = current_length + (q - n)
         /\ r.status \in {"COMPLETE", "INVALID", "INCOMPLETE", "DATAOVERFLOW"}
         /\ \A j \in n + 1 .. q : t[j] \notin {"CR"} \cup ControlChars
         /\ r.status \in {"COMPLETE", "INVALID"} => r.length < MAX_FIELD_LENGTH
         /\ r.status = "DATAOVERFLOW" => r.length >= MAX_FIELD_LENGTH
         /\ piece = SubSeq(t, n + 1, q)
    BY <1>3, <1>10 DEF ScanEnds
  <1>12. q \in Nat /\ n \in Nat /\ n <= q /\ q <= Len(t)
    BY <1>7, <1>11
  <1>13. ~Continued(m) => r.length = Len(x.pad) + q
    BY <1>4, <1>7, <1>11, <1>12
  <1>14. ~Continued(m) => Clean(t, q)
    <2> SUFFICES ASSUME ~Continued(m), NEW j \in 1 .. q PROVE t[j] \notin ControlChars
      BY DEF Clean
    <2>1. j \in 1 .. n \/ j \in n + 1 .. q
      BY <1>12
    <2>2. \A k \in 1 .. n : t[k] \notin ControlChars
      BY <1>4 DEF Clean
    <2> QED BY <1>11, <2>1, <2>2
  <1>15. ~Continued(m) => fields[f].value \o piece = SubSeq(t, 1, q)
    <2>1. SubSeq(t, 1, n) \o SubSeq(t, n + 1, q) = SubSeq(t, 1, q)
      BY <1>7, <1>12, Grown
    <2>2. piece = SubSeq(t, n + 1, q) /\ (~Continued(m) => fields[f].value = SubSeq(t, 1, n))
      BY <1>4, <1>11
    <2> QED BY <2>1, <2>2, Zenon
  <1>16. ~Continued(m) => (ValueFits(piece) <=> q <= MaxValue)
    <2> SUFFICES ASSUME ~Continued(m) PROVE ValueFits(piece) <=> q <= MaxValue
      OBVIOUS
    <2>1. Len(fields[f].value) = n
      BY <1>4, <1>7, <1>12
    <2>2. Len(piece) = q - n
      BY <1>7, <1>11, <1>12
    <2> QED BY <1>2, <1>3, <1>12, <2>1, <2>2 DEF ValueFits, Fits
  <1>17. WellFormed(m) => ~Continued(m) /\ Len(t) <= MaxValue /\ Len(x.pad) + Len(t) < MAX_FIELD_LENGTH
    <2> SUFFICES ASSUME WellFormed(m)
                 PROVE  ~Continued(m) /\ Len(t) <= MaxValue /\ Len(x.pad) + Len(t) < MAX_FIELD_LENGTH
      OBVIOUS
    <2>1. ~Continued(m) /\ FieldOK(x)
      BY <1>3, <1>6, FormedFacts DEF At
    <2> QED BY <1>3, <2>1 DEF FieldOK, Plain
  <1>18. CASE ~ValueFits(piece) /\ pc' = "denied"
    <2>1. ~WellFormed(m)
      BY <1>2, <1>7, <1>12, <1>16, <1>17, <1>18
    <2> QED BY <1>1, <1>18, <2>1, Denied
  <1>19. CASE r.status \in {"INVALID", "DATAOVERFLOW"} /\ pc' = "denied"
    <2>1. ~WellFormed(m)
      <3>1. CASE r.status = "INVALID"
        <4>1. q < Len(t) /\ t[q + 1] \in ControlChars
          BY <1>10, <3>1 DEF TokenEnds, ControlChars
        <4>2. q + 1 \in 1 .. Len(t)
          BY <1>7, <1>12, <4>1
        <4> QED BY <1>3, <1>6, <4>1, <4>2, BadValue
      <3>2. CASE r.status = "DATAOVERFLOW"
        <4> SUFFICES ASSUME WellFormed(m) PROVE FALSE
          OBVIOUS
        <4>1. Len(x.pad) + q >= MAX_FIELD_LENGTH /\ Len(x.pad) + Len(t) < MAX_FIELD_LENGTH
          BY <1>11, <1>13, <1>17, <3>2
        <4> QED BY <1>2, <1>7, <1>12, <4>1
      <3> QED BY <1>19, <3>1, <3>2
    <2> QED BY <1>1, <1>19, <2>1, Denied
  <1>20. CASE /\ r.status = "INCOMPLETE" /\ ValueFits(piece) /\ fields' = [fields EXCEPT ![f].value = @ \o piece]
              /\ Return("INCOMPLETE", r.end) /\ current_length' = r.length
              /\ UNCHANGED <<current_state, offset, current_field, scanVars>>
    <2>1. pc' = "read" /\ current_state' = "FIELD_VALUE_CONTENT" /\ process_position' = r.end
          /\ current_length' = r.length
      BY <1>1, <1>20 DEF Return, Parsing
    <2>2. Here' = P + q
      BY <1>1, <1>11, <2>1, Moves
    <2>3. /\ Len(fields') = f /\ fields'[f].name = fields[f].name /\ fields'[f].value = fields[f].value \o piece
          /\ \A k \in 1 .. current_field : fields'[k] = fields[k]
      BY <1>3, <1>5, <1>20, ValueSet
    <2>4. Content(m)'
      BY <1>1, <1>5, <1>20, <2>3, ContentGrows
    <2>5. current_field' = current_field /\ current_field' + 1 = f
      BY <1>3, <1>20
    <2>6. q \in 0 .. Len(t)
      BY <1>7, <1>12
    <2>7. ~Continued(m) => Named(m)'
      <3>1. ~Continued(m) => fields[f].name = m.fields[f].name /\ Plain(m.fields[f].name, MaxName)
        BY <1>3, <1>4 DEF Named
      <3> QED BY <2>3, <2>5, <3>1 DEF Named
    <2>8. InValue(m, b)'
      BY <1>3, <1>5, <1>13, <1>14, <1>15, <2>1, <2>2, <2>3, <2>4, <2>5, <2>6, <2>7 DEF InValue
    <2> QED BY <1>1, <2>1, <2>8, Goes DEF InMessage
  <1>21. CASE /\ r.status = "COMPLETE" /\ ValueFits(piece) /\ fields' = [fields EXCEPT ![f].value = @ \o piece]
              /\ ScanField(fields'[f]) /\ current_field' = f /\ GoTo("FIELD_VALUE_LWS_LF", r.end + 1)
    <2>1. pc' = "process" /\ current_state' = "FIELD_VALUE_LWS_LF" /\ offset' = r.end + 1
      BY <1>1, <1>21 DEF GoTo
    <2>2. Here' = P + q + 1
      <3>1. Here' = Base + (r.end + 1)
        BY <1>1, <2>1, Moves
      <3>2. PICK e : e = r.end
        OBVIOUS
      <3>3. e \in Nat /\ Base + e = P + q
        BY <1>2, <1>11, <3>2
      <3>4. PICK B : B = Base
        OBVIOUS
      <3>5. B \in Nat /\ B + e = P + q /\ P \in Nat /\ q \in Nat
        BY <1>7, <1>9, <1>12, <3>3, <3>4
      <3>6. B + (e + 1) = P + q + 1
        BY <3>3, <3>5
      <3> QED BY <3>1, <3>2, <3>4, <3>6
    <2>3. /\ Len(fields') = f /\ fields'[f].name = fields[f].name /\ fields'[f].value = fields[f].value \o piece
          /\ \A k \in 1 .. current_field : fields'[k] = fields[k]
      BY <1>3, <1>5, <1>21, ValueSet
    <2>4. CASE q < Len(t)
      <3>1. t[q + 1] = "CR" /\ q + 1 \in 1 .. Len(t)
        BY <1>7, <1>10, <1>12, <1>21, <2>4 DEF TokenEnds
      <3>2. OneLine(t)
        BY <1>3, <1>6, MessageTypes DEF At, Framed
      <3>3. P + q + 1 < Len(Sent(input)) /\ Sent(input)[P + q + 1 + 1] # "LF"
        <4>1. Len(Sent(input)) \in Nat
          BY <1>7
        <4> QED BY <1>7, <1>12, <2>4, <3>1, <3>2, <4>1, BareCR
      <3>4. ~WellFormed(m)
        <4>1. t[q + 1] \in ControlChars
          BY <3>1 DEF ControlChars
        <4> QED BY <1>3, <1>6, <3>1, <4>1, BadValue
      <3>5. Doomed(m)'
        <4>1. input' = input
          BY <1>1 DEF bufVars
        <4> QED BY <2>1, <2>2, <3>3, <3>4, <4>1 DEF Doomed
      <3> QED BY <1>1, <2>1, <3>5, Goes DEF InMessage
    <2>5. CASE q = Len(t)
      <3>1. Here' + 1 = b + FieldAt(m, f + 1)
        BY <1>7, <1>8, <2>2, <2>5
      <3>2. Content(m)'
        <4> SUFFICES ASSUME ~Continued(m)
                     PROVE  LineRead(m, 4)' /\ FieldsRead(m, current_field)' /\ Scanned(m, current_field)'
          BY DEF Content
        <4>1. LineRead(m, 4) /\ FieldsRead(m, current_field) /\ Scanned(m, current_field)
          BY <1>5 DEF Content
        <4>2. LineRead(m, 4)'
          BY <1>1, <4>1 DEF LineRead
        <4>3. fields'[f].name = x.name /\ fields'[f].value = t /\ Plain(x.name, MaxName)
          <5>1. fields[f].name = x.name /\ Plain(x.name, MaxName)
            BY <1>3, <1>4 DEF Named
          <5>2. SubSeq(t, 1, Len(t)) = t
            BY <1>7, Wholly
          <5> QED BY <1>15, <2>3, <2>5, <5>1, <5>2
        <4>4. FieldOK(x)
          <5>1. Len(t) <= MaxValue /\ Len(x.pad) + Len(t) < MAX_FIELD_LENGTH /\ Clean(t, Len(t))
            BY <1>11, <1>13, <1>14, <1>16, <1>21, <2>5
          <5>2. Len(t) < MAX_FIELD_LENGTH
            BY <1>2, <1>7, <5>1
          <5>3. Plain(t, MaxValue)
            BY <1>7, <5>1, <5>2, PlainIs DEF Clean
          <5> QED BY <1>3, <4>3, <5>1, <5>3 DEF FieldOK
        <4>5. FieldsRead(m, f)'
          <5> SUFFICES ASSUME NEW k \in 1 .. f
                       PROVE  /\ fields'[k].name = m.fields[k].name /\ fields'[k].value = m.fields[k].value
                              /\ FieldOK(m.fields[k])
            BY DEF FieldsRead
          <5>1. k \in 1 .. current_field \/ k = f
            BY <1>2, <1>3
          <5> QED BY <1>3, <2>3, <4>1, <4>3, <4>4, <5>1 DEF FieldsRead
        <4>6. Scanned(m, f)'
          <5>1. PICK g : g = fields'[f]
            OBVIOUS
          <5>2. g.name = m.fields[current_field + 1].name /\ g.value = m.fields[current_field + 1].value
                /\ ScanField(g)
            BY <1>3, <1>21, <4>3, <5>1
          <5> QED
            <6>1. PICK c : c = current_field
              OBVIOUS
            <6>2. Scanned(m, c) /\ c \in Nat /\ g.name = m.fields[c + 1].name /\ g.value = m.fields[c + 1].value
              BY <1>2, <4>1, <5>2, <6>1
            <6>3. Scanned(m, c + 1)'
              BY <5>2, <6>2, ScannedStep
            <6>4. c + 1 = f
              BY <1>3, <6>1
            <6> QED BY <6>3, <6>4
        <4> QED BY <1>21, <4>2, <4>5, <4>6
      <3>3. AtLineFeed(m, b)'
        BY <1>6, <1>21, <2>1, <2>3, <3>1, <3>2 DEF AtLineFeed
      <3> QED BY <1>1, <2>1, <3>3, Goes DEF InMessage
    <2> QED BY <1>7, <1>12, <2>4, <2>5
  <1> QED BY <1>3, <1>6, <1>18, <1>19, <1>20, <1>21 DEF FieldValueContent, Return

-----------------------------------------------------------------------------
(* The start line. *)

(* Where the tokens of the start line are. *)
Ending(n) == IF n = 3 THEN "CR" ELSE "SP"

(* Token n of the start line, and what ends it. *)
LEMMA LinePlaces ==
    ASSUME NEW m, NEW b, At(m, b), NEW n \in 1 .. 3
    PROVE  /\ Token(Sent(input), b + TokenAt(m, n), m.line[n], Ending(n))
           /\ TokenAt(m, n) \in Nat /\ TokenAt(m, n + 1) = TokenAt(m, n) + Len(m.line[n]) + 1
           /\ m.line[n] \in Seq(Bytes) /\ Len(m.line[n]) \in Nat
           /\ TokenAt(m, n + 1) < Len(StartLine(m))
           /\ n < 3 => \A j \in 1 .. Len(m.line[n]) : m.line[n][j] # "SP"
  <1>1. LineLayout(Sent(input), b, m) /\ m.line[1] \in Seq(Bytes) /\ m.line[2] \in Seq(Bytes)
            /\ m.line[3] \in Seq(Bytes)
    BY MessageTypes DEF At, Layout
  <1>2. PICK t1, t2, t3, t4, l1, l2, l3, s : /\ t1 = TokenAt(m, 1) /\ t2 = TokenAt(m, 2)
                                  /\ t3 = TokenAt(m, 3) /\ t4 = TokenAt(m, 4) /\ s = Len(StartLine(m))
                                  /\ l1 = Len(m.line[1]) /\ l2 = Len(m.line[2]) /\ l3 = Len(m.line[3])
    OBVIOUS
  <1>3. /\ t1 = 0 /\ t2 = t1 + l1 + 1 /\ t3 = t2 + l2 + 1 /\ t4 = t3 + l3 + 1 /\ s = t4 + 1
        /\ t2 \in Nat /\ t3 \in Nat /\ t4 \in Nat
    BY <1>1, <1>2 DEF LineLayout
  <1>4. l1 \in Nat /\ l2 \in Nat /\ l3 \in Nat
    <2>1. \A t \in Seq(Bytes) : Len(t) \in Nat
      OBVIOUS
    <2> QED BY <1>1, <1>2, <2>1, Zenon
  <1>5. t2 < s /\ t3 < s /\ t4 < s /\ t1 \in Nat
    BY <1>3, <1>4
  <1>6. /\ Token(Sent(input), b + t1, m.line[1], "SP") /\ Token(Sent(input), b + t2, m.line[2], "SP")
        /\ Token(Sent(input), b + t3, m.line[3], "CR")
    BY <1>1, <1>2 DEF LineLayout
  <1>7. /\ "SP" \notin ToSet(m.line[1]) /\ "SP" \notin ToSet(m.line[2])
    BY DEF At, Framed
  <1>8. n = 1 \/ n = 2 \/ n = 3
    OBVIOUS
  <1>9. ASSUME NEW t \in Seq(Bytes), "SP" \notin ToSet(t) PROVE \A j \in 1 .. Len(t) : t[j] # "SP"
    <2>1. DOMAIN t = 1 .. Len(t)
      OBVIOUS
    <2> QED BY <1>9, <2>1 DEF ToSet
  <1>10. CASE n = 1
    <2>1. n + 1 = 2 /\ Ending(n) = "SP"
      BY <1>10 DEF Ending
    <2> QED BY <1>1, <1>2, <1>3, <1>4, <1>5, <1>6, <1>7, <1>9, <1>10, <2>1
  <1>11. CASE n = 2
    <2>1. n + 1 = 3 /\ Ending(n) = "SP"
      BY <1>11 DEF Ending
    <2> QED BY <1>1, <1>2, <1>3, <1>4, <1>5, <1>6, <1>7, <1>9, <1>11, <2>1
  <1>12. CASE n = 3
    <2>1. n + 1 = 4 /\ Ending(n) = "CR" /\ ~(n < 3)
      BY <1>12 DEF Ending
    <2> QED BY <1>1, <1>2, <1>3, <1>4, <1>5, <1>6, <1>12, <2>1
  <1> QED BY <1>8, <1>10, <1>11, <1>12

(* A message with a bad token is a bad one. *)
LEMMA BadToken ==
    ASSUME NEW m, NEW b, At(m, b), NEW n \in 1 .. 3, ~LineOK(m, n)
    PROVE  ~WellFormed(m)
  BY FormedFacts DEF At

(* No data: nothing of the next message is there. *)
LEMMA IdleStep ==
    ASSUME HeaderInv, Stream, NEW b, Idle(b), ParseStatusToken
    PROVE  Waiting(b)'
  <1>1. /\ Parsing("STATUS_LINE") /\ UNCHANGED bufVars /\ message_state' = "PARSE_HEADER" /\ pc = "process"
        /\ UNCHANGED <<fields, current_field>>
    BY DEF ParseStatusToken, Parsing
  <1>2. /\ PositionInv /\ offset \in 0 .. Len(raw) /\ line_offset \in 0 .. Len(raw) /\ Len(raw) \in Nat
        /\ MAX_FIELD_LENGTH \in Nat /\ MAX_FIELD_LENGTH # 0 /\ MaxToken \in Nat /\ raw \in Seq(STRING)
        /\ line \in [1 .. 3 -> Text]
    BY Counts, HeaderAssumption DEF PositionInv, HeaderInv, LineInv, Text
  <1>3. /\ status_line_state = 1 /\ current_length = 0 /\ \A k \in 1 .. 3 : line[k] = <<>>
        /\ fields = <<>> /\ current_field = 0 /\ Unscanned /\ Base + line_offset = b /\ b = End
        /\ Base + offset = b
    BY <1>1, HereParsing DEF Idle
  <1>4. line_offset = Len(raw)
    BY <1>2, <1>3, BufferSent
  <1>5. PICK r, piece : r = ParseToken(line_offset, Delimiters(1)) /\ piece = Piece(line_offset, r.end)
    OBVIOUS
  <1>6. ScanStops(r, line_offset, Delimiters(1), ControlChars)
    BY <1>2, <1>5, ScanResult DEF ParseToken
  <1>7. r.end = Len(raw) /\ r.length = 0 /\ r.status = "INCOMPLETE"
    <2>1. PICK e : e = r.end
      OBVIOUS
    <2>2. e \in line_offset .. Len(raw) /\ r.length = current_length + (e - line_offset)
      BY <1>6, <2>1 DEF ScanStops
    <2>3. e = Len(raw) /\ e - line_offset = 0
      BY <1>2, <1>4, <2>2
    <2>4. r.length = 0 /\ ~(r.end < Len(raw)) /\ ~(r.length >= MAX_FIELD_LENGTH)
      BY <1>2, <1>3, <2>1, <2>2, <2>3
    <2> QED BY <1>6, <2>1, <2>3, <2>4 DEF ScanStops
  <1>8. piece = <<>>
    BY <1>2, <1>4, <1>5, <1>7 DEF Piece
  <1>9. TokenStatus(1, piece, r.status = "COMPLETE") = "COMPLETE" /\ Fits(line[1], piece, MaxToken)
    <2>1. Fits(line[1], piece, MaxToken)
      BY <1>2, <1>3, <1>8 DEF Fits
    <2>2. PICK g : g = <<"G", "E">>
      OBVIOUS
    <2>3. g \in Seq({"G", "E"}) /\ Len(g) = 2 /\ g \in ValidMethods
      <3>1. <<"G", "E">> \in ValidMethods
        BY Zenon DEF ValidMethods
      <3>2. g \in ValidMethods
        BY <2>2, <3>1, Zenon
      <3>3. g \in Seq({"G", "E"}) /\ Len(g) = 2
        BY <2>2
      <3> QED BY <3>2, <3>3
    <2>4. <<>> # g
      BY <2>2
    <2>5. <<>> \in Seq({"G", "E"}) /\ Len(<<>>) = 0
      OBVIOUS
    <2>6. Holds(g, 0, <<>>)
      BY <2>3, <2>5 DEF Holds
    <2>7. IsPrefix(<<>>, g)
      BY <2>3, <2>5, <2>6, HoldsPrefix
    <2>8. MethodOK(<<>>, FALSE)
      BY <2>3, <2>4, <2>7 DEF MethodOK
    <2>9. line[1] \o piece = <<>>
      BY <1>3, <1>8
    <2>10. (r.status = "COMPLETE") = FALSE
      BY <1>7
    <2> QED BY <2>1, <2>8, <2>9, <2>10 DEF TokenStatus
  <1>10. /\ AppendToken(1, piece) /\ LineReturn("INCOMPLETE") /\ current_length' = r.length /\ UNCHANGED scanVars
    BY <1>3, <1>5, <1>7, <1>9 DEF ParseStatusToken
  <1>11. \A k \in 1 .. 3 : line'[k] = <<>>
    <2>1. line' = [line EXCEPT ![1] = line[1] \o piece] /\ line[1] \o piece = <<>>
      BY <1>3, <1>8, <1>9, <1>10 DEF AppendToken
    <2> QED BY <1>2, <1>3, <2>1
  <1>12. /\ pc' = "read" /\ process_position' = offset /\ current_state' = "STATUS_LINE" /\ status_line_state' = 1
    BY <1>1, <1>3, <1>10 DEF LineReturn, Return, Parsing
  <1>13. Here' = b /\ b = End'
    BY <1>1, <1>3, <1>12, Moves
  <1>14. Unscanned'
    BY <1>1, <1>3, <1>10 DEF Unscanned, scanVars, bufVars, Type
  <1> QED BY <1>1, <1>3, <1>7, <1>10, <1>11, <1>12, <1>13, <1>14 DEF Waiting, Idle

(* Nothing is known of the body in front of the fields but the return code. *)
LEMMA ReturnCodeStep ==
    ASSUME NEW m, m.type = Type, Unscanned, status_line_state = 2, line'[2] = m.line[2], ScanReturnCode
    PROVE  Scanned(m, 0)'
  <1>1. ~HasHost(m, 0) /\ ~HasChunked(m, 0) /\ NoLength(m, 0)
    BY DEF HasHost, HasChunked, NoLength
  <1>2. HasHost(m, 0) = FALSE
    BY <1>1 DEF HasHost
  <1>3. CASE NoBody(m)
    <2>1. body_encoding' = "NONE" /\ ignore_body_encoding_headers' = TRUE /\ have_host_header' = FALSE
      BY <1>3 DEF ScanReturnCode, NoBody, Unscanned
    <2>2. NoBody(m) = TRUE
      BY <1>3 DEF NoBody
    <2> QED BY <1>2, <1>3, <2>1, <2>2 DEF Scanned
  <1>4. CASE ~NoBody(m)
    <2>1. UNCHANGED scanVars
      BY <1>4 DEF ScanReturnCode, NoBody
    <2>2. /\ body_encoding' = DefaultEncoding(m.type) /\ ignore_body_encoding_headers' = FALSE
          /\ have_host_header' = FALSE
      BY <2>1 DEF Unscanned, scanVars
    <2>3. NoBody(m) = FALSE
      BY <1>4 DEF NoBody
    <2>4. BodyScanned(m, 0)'
      BY <1>1, <2>2 DEF BodyScanned
    <2> QED BY <1>2, <1>4, <2>2, <2>3, <2>4 DEF Scanned
  <1> QED BY <1>3, <1>4

(* ParseStatusToken: the token is all in the buffer; it is taken or refused. *)
LEMMA LineTokenStep ==
    ASSUME HeaderInv, Stream, NEW m, NEW b, At(m, b), InLine(m, b), ParseStatusToken
    PROVE  Placed(m, b)'
  <1>1. /\ Parsing("STATUS_LINE") /\ UNCHANGED bufVars /\ message_state' = "PARSE_HEADER" /\ pc = "process"
        /\ UNCHANGED <<fields, current_field>> /\ status_line_state \in 1 .. 3
    BY DEF ParseStatusToken, Parsing
  <1>2. /\ PositionInv /\ offset \in 0 .. Len(raw) /\ line_offset \in 0 .. Len(raw) /\ Len(raw) \in Nat
        /\ MAX_FIELD_LENGTH \in Nat /\ MaxToken \in Nat /\ line \in [1 .. 3 -> Text]
    BY Counts, HeaderAssumption DEF PositionInv, HeaderInv, LineInv
  <1>3. PICK n, t, c, P, r, piece, h, s :
          /\ n = status_line_state /\ t = m.line[n] /\ c = Ending(n) /\ P = b + TokenAt(m, n)
          /\ r = ParseToken(line_offset, Delimiters(n)) /\ piece = Piece(line_offset, r.end) /\ h = Here
          /\ s = TokenStatus(n, piece, r.status = "COMPLETE")
    OBVIOUS
  <1>4. n \in 1 .. 3 /\ n + 1 \in 1 .. 4
    BY <1>1, <1>3
  <1>5. /\ current_length = 0 /\ fields = <<>> /\ current_field = 0 /\ Base + offset = b
        /\ b + Len(StartLine(m)) <= End /\ h = P /\ LineRead(m, n)
        /\ n < 3 => Unscanned
        /\ n >= 3 => Scanned(m, 0)
    BY <1>3 DEF InLine
  <1>6. /\ Token(Sent(input), P, t, c) /\ TokenAt(m, n) \in Nat
        /\ TokenAt(m, n + 1) = TokenAt(m, n) + Len(t) + 1 /\ t \in Seq(Bytes) /\ Len(t) \in Nat
        /\ TokenAt(m, n + 1) < Len(StartLine(m))
        /\ n < 3 => \A j \in 1 .. Len(t) : t[j] # "SP"
    BY <1>3, <1>4, LinePlaces
  <1>7. b \in Nat /\ P \in Nat /\ m.type = Type
    BY <1>6 DEF At, Layout, Token
  <1>8. h = Base + line_offset /\ Base \in Nat /\ End = Base + Len(raw) /\ Len(Sent(input)) \in Nat
    BY <1>1, <1>2, <1>3, HereParsing, BufferSent
  <1>9. c \in Delimiters(n) \cup ControlChars /\ c \notin ControlChars \ Delimiters(n)
        /\ Delimiters(n) = {c}
    BY <1>3, <1>4 DEF Ending, Delimiters, ControlChars
  <1>10. PICK q : /\ ScanEnds(r, line_offset, Delimiters(n), ControlChars, P, t, 0, q)
                  /\ TokenEnds(r, t, c, Delimiters(n), ControlChars, q)
    <2>1. Base + line_offset = P + 0 /\ 0 \in 0 .. Len(t)
      BY <1>5, <1>6, <1>7, <1>8
    <2>2. \E q : /\ ScanEnds(Scan(line_offset, Delimiters(n), ControlChars), line_offset, Delimiters(n), ControlChars, P, t, 0, q)
                 /\ TokenEnds(Scan(line_offset, Delimiters(n), ControlChars), t, c, Delimiters(n), ControlChars, q)
      BY <1>2, <1>6, <1>9, <2>1, TokenScan
    <2> QED BY <1>3, <2>2 DEF ParseToken
  <1>11. PICK e : e = r.end
    OBVIOUS
  <1>12. /\ q \in 0 .. Len(t) /\ Base + e = P + q /\ e \in line_offset .. Len(raw)
         /\ r.length = current_length + (q - 0)
         /\ r.status \in {"COMPLETE", "INVALID", "INCOMPLETE", "DATAOVERFLOW"}
         /\ \A j \in 0 + 1 .. q : t[j] \notin Delimiters(n) \cup ControlChars
         /\ r.status \in {"COMPLETE", "INVALID"} => r.length < MAX_FIELD_LENGTH
         /\ r.status = "DATAOVERFLOW" => r.length >= MAX_FIELD_LENGTH
         /\ r.status = "INCOMPLETE" => e = Len(raw)
         /\ piece = SubSeq(t, 0 + 1, q)
    BY <1>3, <1>10, <1>11 DEF ScanEnds
  <1>13. q \in Nat /\ q <= Len(t) /\ r.length = q /\ e \in Nat /\ 0 + 1 = 1
    BY <1>2, <1>5, <1>6, <1>12
  <1>14. Clean(t, q)
    BY <1>12, <1>13 DEF Clean
  <1>15. r.status # "INCOMPLETE"
    <2> SUFFICES ASSUME r.status = "INCOMPLETE" PROVE FALSE
      OBVIOUS
    <2>1. End = P + q
      BY <1>8, <1>12
    <2> QED BY <1>3, <1>5, <1>6, <1>7, <1>13, <2>1
  <1>16. ASSUME q < Len(t), t[q + 1] \in ControlChars PROVE ~LineOK(m, n)
    <2>1. q + 1 \in 1 .. Len(t)
      BY <1>6, <1>13, <1>16
    <2>2. ~Plain(t, MaxToken)
      BY <1>6, <1>16, <2>1, PlainIs
    <2> QED BY <1>3, <2>2 DEF LineOK
  <1>17. r.status = "COMPLETE" => q = Len(t) \/ (q < Len(t) /\ n = 3 /\ t[q + 1] = "CR")
    <2> SUFFICES ASSUME r.status = "COMPLETE", q # Len(t) PROVE q < Len(t) /\ n = 3 /\ t[q + 1] = "CR"
      OBVIOUS
    <2>1. q < Len(t) /\ t[q + 1] = c
      BY <1>9, <1>10 DEF TokenEnds
    <2>2. q + 1 \in 1 .. Len(t)
      BY <1>6, <1>13, <2>1
    <2>3. n = 3
      BY <1>3, <1>4, <1>6, <2>1, <2>2 DEF Ending
    <2> QED BY <1>3, <2>1, <2>3 DEF Ending
  <1>18. line[n] = <<>>
    BY <1>4, <1>5 DEF LineRead
  <1>19. q = Len(t) => piece = t /\ line[n] \o piece = t
    <2>1. SubSeq(t, 1, Len(t)) = t /\ <<>> \o t = t
      BY <1>6, Wholly
    <2> QED BY <1>12, <1>13, <1>18, <2>1
  <1>20. Fits(line[n], piece, MaxToken) <=> q <= MaxToken
    <2>1. Len(piece) = q /\ Len(line[n]) = 0
      BY <1>6, <1>12, <1>13, <1>18
    <2> QED BY <1>2, <1>13, <2>1 DEF Fits
  <1>21. r.status = "COMPLETE" /\ q = Len(t) => (s = "COMPLETE" <=> LineOK(m, n))
    <2> SUFFICES ASSUME r.status = "COMPLETE", q = Len(t) PROVE s = "COMPLETE" <=> LineOK(m, n)
      OBVIOUS
    <2>1. Plain(t, MaxToken) <=> Len(t) <= MaxToken
      <3>1. Len(t) < MAX_FIELD_LENGTH /\ \A j \in 1 .. Len(t) : t[j] \notin ControlChars
        BY <1>12, <1>13, <1>14 DEF Clean
      <3> QED BY <1>6, <3>1, PlainIs
    <2>2. LineOK(m, n) <=> Len(t) <= MaxToken /\ (n = 1 /\ m.type = "REQUEST" => t \in ValidMethods)
      BY <1>3, <2>1 DEF LineOK
    <2>3. n = 1 => (MethodOK(line[1] \o piece, r.status = "COMPLETE") <=> t \in ValidMethods)
      BY <1>19 DEF MethodOK
    <2> QED BY <1>3, <1>7, <1>20, <2>2, <2>3 DEF TokenStatus
  <1>22. ASSUME ~LineOK(m, n), pc' = "denied" PROVE Placed(m, b)'
    BY <1>1, <1>4, <1>22, BadToken, Denied
  <1>23. CASE /\ r.status = "COMPLETE" /\ s = "COMPLETE"
              /\ AppendToken(n, piece) /\ ScanReturnCode
              /\ NextStatusLineState
              /\ line_offset' = r.end + 1
              /\ UNCHANGED <<pc, process_position, current_state, offset>>
    <2>1. /\ pc' = "process" /\ current_state' = "STATUS_LINE" /\ status_line_state' = n + 1
          /\ current_length' = 0 /\ line_offset' = e + 1 /\ offset' = offset
      BY <1>1, <1>3, <1>11, <1>23 DEF NextStatusLineState, Parsing
    <2>2. Base' = Base /\ End' = End /\ input' = input /\ Here' = P + q + 1
      <3>1. Here' = Base + (e + 1) /\ Base' = Base /\ End' = End /\ input' = input
        BY <1>1, <2>1, Moves
      <3> QED BY <1>7, <1>8, <1>12, <1>13, <3>1
    <2>3. CASE q = Len(t)
      <3>1. Here' = b + TokenAt(m, n + 1)
        BY <1>3, <1>6, <1>7, <2>2, <2>3
      <3>2. LineOK(m, n) /\ Fits(line[n], piece, MaxToken)
        <4>1. LineOK(m, n)
          BY <1>21, <1>23, <2>3
        <4>2. Len(t) <= MaxToken
          BY <1>3, <4>1 DEF LineOK, Plain
        <4> QED BY <1>20, <2>3, <4>1, <4>2
      <3>3. line' = [line EXCEPT ![n] = t]
        BY <1>19, <1>23, <2>3, <3>2 DEF AppendToken
      <3>4. LineRead(m, n + 1)'
        <4> SUFFICES ASSUME NEW k \in 1 .. 3
                     PROVE  /\ k < n + 1 => line'[k] = m.line[k] /\ LineOK(m, k)
                            /\ k >= n + 1 => line'[k] = <<>>
          BY DEF LineRead, LineOK, Plain
        <4>1. CASE k = n
          BY <1>2, <1>3, <1>4, <3>2, <3>3, <4>1
        <4>2. CASE k # n
          <5>1. line'[k] = line[k]
            BY <1>2, <3>3, <4>2
          <5>2. k < n => line[k] = m.line[k] /\ LineOK(m, k)
            BY <1>5 DEF LineRead
          <5>3. k >= n => line[k] = <<>>
            BY <1>5 DEF LineRead
          <5> QED BY <1>4, <4>2, <5>1, <5>2, <5>3
        <4> QED BY <4>1, <4>2
      <3>5. n + 1 < 3 => Unscanned'
        <4> SUFFICES ASSUME n + 1 < 3 PROVE Unscanned'
          OBVIOUS
        <4>1. n = 1
          BY <1>4
        <4>2. UNCHANGED scanVars
          BY <1>3, <1>23, <4>1 DEF ScanReturnCode
        <4> QED BY <1>1, <1>5, <4>1, <4>2 DEF Unscanned, scanVars, bufVars, Type
      <3>6. n + 1 >= 3 => Scanned(m, 0)'
        <4> SUFFICES ASSUME n + 1 >= 3 PROVE Scanned(m, 0)'
          OBVIOUS
        <4>1. n = 2 \/ n = 3
          BY <1>4
        <4>2. CASE n = 2
          <5>1. line'[2] = m.line[2] /\ Unscanned /\ status_line_state = 2
            BY <1>2, <1>3, <1>5, <3>3, <4>2
          <5> QED BY <1>7, <1>23, <5>1, ReturnCodeStep
        <4>3. CASE n = 3
          <5>1. UNCHANGED scanVars /\ Scanned(m, 0)
            BY <1>3, <1>5, <1>23, <4>3 DEF ScanReturnCode
          <5> QED BY <5>1 DEF Scanned, BodyScanned, scanVars
        <4> QED BY <4>1, <4>2, <4>3
      <3>7. fields' = <<>> /\ current_field' = 0 /\ Base' + offset' = b /\ b + Len(StartLine(m)) <= End'
        BY <1>1, <1>5, <2>1, <2>2
      <3>8. InLine(m, b)'
        BY <1>4, <2>1, <3>1, <3>4, <3>5, <3>6, <3>7 DEF InLine
      <3> QED BY <1>1, <2>1, <3>8, Goes DEF InMessage
    <2>4. CASE q # Len(t)
      <3>1. q < Len(t) /\ n = 3 /\ t[q + 1] = "CR" /\ c = "CR" /\ OneLine(t)
        BY <1>3, <1>17, <1>23, <2>4 DEF Ending, At, Framed
      <3>2. ~WellFormed(m)
        BY <1>4, <1>16, <3>1, BadToken DEF ControlChars
      <3>3. P + q + 1 < Len(Sent(input)) /\ Sent(input)[P + q + 1 + 1] # "LF"
        BY <1>6, <1>8, <1>13, <3>1, BareCR
      <3>4. P + q + 1 < End
        <4>1. P + q + 1 < P + Len(t) + 1
          BY <1>6, <1>7, <1>13, <3>1
        <4>2. End \in Nat
          BY <1>2, <1>8
        <4>3. PICK x, y, z, l, E : x = TokenAt(m, n) /\ y = TokenAt(m, n + 1) /\ z = Len(StartLine(m))
                       /\ l = Len(t) /\ E = End
          OBVIOUS
        <4>4. x \in Nat /\ y = x + l + 1 /\ y < z /\ b + z <= E /\ P = b + x /\ l \in Nat /\ E \in Nat /\ q < l
          BY <1>3, <1>5, <1>6, <3>1, <4>2, <4>3
        <4>5. z \in Nat
          <5>1. b \in Nat /\ LineLayout(Sent(input), b, m)
            BY DEF At, Layout
          <5>2. z = TokenAt(m, 4) + 1 /\ TokenAt(m, 4) \in Nat
            BY <4>3, <5>1 DEF LineLayout
          <5> QED BY <5>2
        <4>6. P + q + 1 < E
          BY <1>7, <1>13, <4>4, <4>5
        <4> QED BY <4>3, <4>6
      <3>5. status_line_state' = 4
        BY <2>1, <3>1
      <3>6. Doomed(m)'
        BY <2>1, <2>2, <3>2, <3>3, <3>4, <3>5 DEF Doomed
      <3> QED BY <1>1, <2>1, <3>6, Goes DEF InMessage
    <2> QED BY <2>3, <2>4
  <1>24. CASE r.status = "COMPLETE" /\ s # "COMPLETE" /\ LineReturn(s)
    <2>1. ~LineOK(m, n)
      <3>1. CASE q = Len(t)
        BY <1>21, <1>24, <3>1
      <3>2. CASE q # Len(t)
        BY <1>16, <1>17, <1>24, <3>2 DEF ControlChars
      <3> QED BY <3>1, <3>2
    <2>2. s # "INCOMPLETE"
      BY <1>3 DEF TokenStatus
    <2>3. pc' = "denied"
      BY <1>24, <2>2 DEF LineReturn, Return
    <2> QED BY <1>22, <2>1, <2>3
  <1>25. CASE r.status \in {"INVALID", "DATAOVERFLOW"} /\ LineReturn("INVALID")
    <2>1. ~LineOK(m, n)
      <3>1. CASE r.status = "INVALID"
        <4>1. q < Len(t) /\ t[q + 1] \in ControlChars
          BY <1>9, <1>10, <3>1 DEF TokenEnds
        <4> QED BY <1>16, <4>1
      <3>2. CASE r.status = "DATAOVERFLOW"
        <4>1. ~(Len(t) < MAX_FIELD_LENGTH)
          BY <1>2, <1>6, <1>12, <1>13, <3>2
        <4> QED BY <1>3, <4>1 DEF LineOK, Plain
      <3> QED BY <1>25, <3>1, <3>2
    <2>2. pc' = "denied"
      BY <1>25 DEF LineReturn, Return
    <2> QED BY <1>22, <2>1, <2>2
  <1> QED BY <1>3, <1>15, <1>23, <1>24, <1>25 DEF ParseStatusToken

(* Behind the start line. *)
LEMMA LineLFStep ==
    ASSUME HeaderInv, Stream, NEW m, NEW b, At(m, b), InLine(m, b), ParseStatusLF
    PROVE  Placed(m, b)'
  <1>1. /\ Parsing("STATUS_LINE") /\ UNCHANGED bufVars /\ message_state' = "PARSE_HEADER" /\ pc = "process"
        /\ UNCHANGED <<line, fields, current_field, scanVars>> /\ status_line_state = 4
    BY DEF ParseStatusLF, Parsing
  <1>2. /\ PositionInv /\ line_offset \in 0 .. Len(raw) /\ Len(raw) \in Nat
    BY Counts
  <1>3. PICK t4, r : t4 = TokenAt(m, 4) /\ r = ParseChar(line_offset, "LF")
    OBVIOUS
  <1>4. /\ fields = <<>> /\ current_field = 0 /\ Here = b + t4 /\ LineRead(m, 4) /\ Scanned(m, 0)
        /\ b + Len(StartLine(m)) <= End
    BY <1>1, <1>3 DEF InLine
  <1>5. b \in Nat /\ t4 \in Nat /\ Sent(input)[b + t4 + 1] = "LF" /\ Len(StartLine(m)) = t4 + 1
        /\ FieldAt(m, 1) = Len(StartLine(m))
    BY <1>3 DEF At, Layout, LineLayout
  <1>6. Here = Base + line_offset /\ Base \in Nat /\ End = Base + Len(raw)
    BY <1>1, <1>2, HereParsing, BufferSent
  <1>7. CharSeen(r, line_offset, "LF")
    BY <1>2, <1>3, NextByte
  <1>8. line_offset < Len(raw)
    BY <1>2, <1>4, <1>5, <1>6
  <1>9. Sent(input)[Base + line_offset + 1] = "LF"
    BY <1>4, <1>5, <1>6
  <1>10. r = "COMPLETE"
    <2>1. PICK w, k : w = Sent(input) /\ k = Base + line_offset + 1
      OBVIOUS
    <2>2. w[k] = "LF" /\ line_offset # Len(raw)
      BY <1>2, <1>8, <1>9, <2>1
    <2> QED BY <1>7, <2>1, <2>2 DEF CharSeen
  <1>11. pc' = "process" /\ current_state' = "END_HEADERS_CR" /\ current_length' = 0 /\ offset' = line_offset + 1
    BY <1>1, <1>3, <1>10 DEF ParseStatusLF, GoTo
  <1>12. Here' = b + FieldAt(m, 0 + 1) + 0 /\ input' = input
    <2>1. Here' = Base + (line_offset + 1) /\ input' = input
      BY <1>1, <1>11, Moves
    <2> QED BY <1>2, <1>4, <1>5, <1>6, <2>1
  <1>13. 0 \in 0 .. Len(Sent(input)) /\ Skipped(m, 1, 0)
    BY <1>2, BufferSent DEF Skipped
  <1>14. Content(m)'
    <2>1. FieldsRead(m, 0)
      BY DEF FieldsRead
    <2>2. Content(m)
      BY <1>4, <2>1 DEF Content
    <2> QED BY <1>1, <2>2, ContentKept
  <1>15. Len(fields') = 0 /\ current_field' = 0 /\ 0 <= Len(m.fields) /\ 0 + 1 = 1
    BY <1>1, <1>4, MessageTypes DEF At
  <1>16. BetweenFields(m, b)'
    BY <1>11, <1>12, <1>13, <1>14, <1>15 DEF BetweenFields
  <1> QED BY <1>1, <1>11, <1>16, Goes DEF InMessage

(* The parser takes a step within a message. *)
LEMMA ParseStep ==
    ASSUME HeaderInv, Stream, NEW m, NEW b, At(m, b), Placed(m, b), Parse
    PROVE  Placed(m, b)'
  <1>1. pc = "process" /\ message_state = "PARSE_HEADER"
    BY DEF Parse, ParseStatusToken, ParseStatusLF, EndHeadersCR, EndHeadersLF, FieldName,
           FieldValueLeadingLWS, FieldValueContent, FieldValueLF, FieldValueLWS, Parsing
  <1>2. InMessage(m, b)
    BY <1>1 DEF Placed
  <1>3. CASE ParseStatusToken
    <2>1. current_state = "STATUS_LINE" /\ status_line_state # 4
      BY <1>3 DEF ParseStatusToken, Parsing
    <2>2. InLine(m, b)
      BY <1>2, <2>1 DEF InMessage, BetweenFields, AtEnd, InName, InPad, InValue, InContinuation, AtLineFeed, Doomed
    <2> QED BY <1>3, <2>2, LineTokenStep
  <1>4. CASE ParseStatusLF
    <2>1. current_state = "STATUS_LINE"
      BY <1>4 DEF ParseStatusLF, Parsing
    <2>2. InLine(m, b) \/ Doomed(m)
      BY <1>2, <2>1 DEF InMessage, BetweenFields, AtEnd, InName, InPad, InValue, InContinuation, AtLineFeed
    <2> QED BY <1>4, <2>2, LineLFStep, DoomedStep
  <1>5. CASE EndHeadersCR
    <2>1. current_state = "END_HEADERS_CR"
      BY <1>5 DEF EndHeadersCR, Parsing
    <2>2. BetweenFields(m, b)
      BY <1>2, <2>1 DEF InMessage, InLine, AtEnd, InName, InPad, InValue, InContinuation, AtLineFeed, Doomed
    <2> QED BY <1>5, <2>2, EndHeadersCRStep
  <1>6. CASE EndHeadersLF
    <2>1. current_state = "END_HEADERS_LF"
      BY <1>6 DEF EndHeadersLF, Parsing
    <2>2. AtEnd(m, b) \/ Doomed(m)
      BY <1>2, <2>1 DEF InMessage, InLine, BetweenFields, InName, InPad, InValue, InContinuation, AtLineFeed
    <2> QED BY <1>6, <2>2, EndHeadersLFStep, DoomedStep
  <1>7. CASE FieldName
    <2>1. current_state = "FIELD_NAME"
      BY <1>7 DEF FieldName, Parsing
    <2>2. InName(m, b)
      BY <1>2, <2>1 DEF InMessage, InLine, BetweenFields, AtEnd, InPad, InValue, InContinuation, AtLineFeed, Doomed
    <2> QED BY <1>7, <2>2, FieldNameStep
  <1>8. CASE FieldValueLeadingLWS
    <2>1. current_state = "FIELD_VALUE_LEADING_LWS"
      BY <1>8 DEF FieldValueLeadingLWS, Parsing
    <2>2. InPad(m, b)
      BY <1>2, <2>1 DEF InMessage, InLine, BetweenFields, AtEnd, InName, InValue, InContinuation, AtLineFeed, Doomed
    <2> QED BY <1>8, <2>2, LeadingLWSStep
  <1>9. CASE FieldValueContent
    <2>1. current_state = "FIELD_VALUE_CONTENT"
      BY <1>9 DEF FieldValueContent, Parsing
    <2>2. InValue(m, b) \/ InContinuation(m)
      BY <1>2, <2>1 DEF InMessage, InLine, BetweenFields, AtEnd, InName, InPad, AtLineFeed, Doomed
    <2> QED BY <1>9, <2>2, FieldValueStep, ContinuationStep
  <1>10. CASE FieldValueLF
    <2>1. current_state = "FIELD_VALUE_LWS_LF"
      BY <1>10 DEF FieldValueLF, Parsing
    <2>2. AtLineFeed(m, b) \/ Doomed(m)
      BY <1>2, <2>1 DEF InMessage, InLine, BetweenFields, AtEnd, InName, InPad, InValue, InContinuation
    <2> QED BY <1>10, <2>2, FieldValueLFStep, DoomedStep
  <1>11. CASE FieldValueLWS
    <2>1. current_state = "FIELD_VALUE_LWS"
      BY <1>11 DEF FieldValueLWS, Parsing
    <2>2. BetweenFields(m, b)
      BY <1>2, <2>1 DEF InMessage, InLine, AtEnd, InName, InPad, InValue, InContinuation, AtLineFeed, Doomed
    <2> QED BY <1>11, <2>2, FieldValueLWSStep
  <1> QED BY <1>3, <1>4, <1>5, <1>6, <1>7, <1>8, <1>9, <1>10, <1>11 DEF Parse

(* And where there is nothing to parse. *)
LEMMA ParseWaits ==
    ASSUME HeaderInv, Stream, NEW b, Waiting(b), Parse
    PROVE  Waiting(b)'
  <1>1. Idle(b) /\ current_state = "STATUS_LINE" /\ status_line_state = 1
    BY DEF Waiting, Idle
  <1>2. ParseStatusToken
    BY <1>1 DEF Parse, ParseStatusLF, EndHeadersCR, EndHeadersLF, FieldName,
           FieldValueLeadingLWS, FieldValueContent, FieldValueLF, FieldValueLWS, Parsing
  <1> QED BY <1>1, <1>2, IdleStep

-----------------------------------------------------------------------------
(* Reads. *)

(* The input of this connection is one of Inputs. *)
LEMMA InputFramed ==
    ASSUME FramedInputs, Stream
    PROVE  WellFramed(input)
  BY DEF FramedInputs, Stream, WellFramed

(* Message i stands behind the ones before it. *)
LEMMA MessageAt ==
    ASSUME FramedInputs, Stream, NEW i \in 1 .. Len(input)
    PROVE  At(input[i], Before(input, i))
  <1>1. WellFramed(input)
    BY InputFramed
  <1>2. Layout(Sent(input), Before(input, i), input[i])
    BY <1>1, MessagePlace
  <1>3. input[i] \in Messages /\ Framed(input[i]) /\ input[i].type = Type /\ Sent(input) \in Seq(Bytes)
    BY <1>1, InputTexts DEF Type
  <1> QED BY <1>2, <1>3 DEF At

-----------------------------------------------------------------------------
(* A read goes on where the buffer ended. *)
LEMMA ReadStream ==
    ASSUME HeaderInv, Stream, ReadData
    PROVE  Stream' /\ Base' = End /\ End < End' /\ End' <= Len(Sent(input)) /\ Here' = Here /\ input' = input
  <1>1. /\ PositionInv /\ Len(raw) \in Nat /\ raw \in Seq(STRING) /\ unread \in Seq(STRING)
        /\ process_position \in 0 .. Len(raw)
    BY Counts DEF PositionInv, Text
  <1>2. PICK k \in 1 .. BufLength :
          /\ k <= Len(unread)
          /\ ~CutStartLine => ~InStartLine(Len(Sent(input)) - Len(unread) + k)
          /\ raw' = SubSeq(unread, 1, k)
          /\ unread' = SubSeq(unread, k + 1, Len(unread))
    BY DEF ReadData
  <1>3. input' = input /\ pc = "read" /\ FullyWritten /\ Enter(0) /\ message_state' = message_state
        /\ current_state' = current_state
    BY DEF ReadData
  <1>4. PICK w, u, E, n, B, R : w = Sent(input) /\ u = unread /\ E = End /\ n = Len(u) - k /\ B = Base
                 /\ R = Len(raw)
    OBVIOUS
  <1>5. /\ E \in Nat /\ w \in Seq(STRING) /\ Len(w) \in Nat /\ Holds(w, E, u) /\ u \in Seq(STRING) /\ B \in Nat
        /\ E = B + R /\ R \in Nat
    BY <1>1, <1>4, BufferSent DEF Stream
  <1>6. k \in Nat /\ k # 0 /\ n \in Nat /\ Len(u) \in Nat /\ k + n = Len(u) /\ 0 + k = k /\ 0 + 1 = 1
    <2>1. BufLength \in Nat
      BY HeaderAssumption
    <2> QED BY <1>2, <1>4, <1>5, <2>1
  <1>7. B = Len(w) - Len(u) - R
    BY <1>4 DEF Base
  <1>8. E = Len(w) - Len(u)
    BY <1>5, <1>6, <1>7
  <1>9. raw' = SubSeq(u, 0 + 1, 0 + k) /\ unread' = SubSeq(u, k + 1, k + n)
    BY <1>2, <1>4, <1>6
  <1>10. /\ raw' \in Seq(STRING) /\ Len(raw') = k /\ Holds(u, 0, raw')
    <2>1. 0 + k <= Len(u) /\ 0 \in Nat
      BY <1>6
    <2>2. /\ SubSeq(u, 0 + 1, 0 + k) \in Seq(STRING) /\ Len(SubSeq(u, 0 + 1, 0 + k)) = k
          /\ Holds(u, 0, SubSeq(u, 0 + 1, 0 + k))
      BY <1>5, <1>6, <2>1, HoldsPart, Zenon
    <2> QED BY <1>9, <2>2, Zenon
  <1>11. /\ unread' \in Seq(STRING) /\ Len(unread') = n /\ Holds(u, k, unread')
    <2>1. k + n <= Len(u)
      BY <1>6
    <2>2. /\ SubSeq(u, k + 1, k + n) \in Seq(STRING) /\ Len(SubSeq(u, k + 1, k + n)) = n
          /\ Holds(u, k, SubSeq(u, k + 1, k + n))
      BY <1>5, <1>6, <2>1, HoldsPart, Zenon
    <2> QED BY <1>9, <2>2, Zenon
  <1>12. Base' = E
    <2>1. Base' = Len(w) - n - k
      BY <1>3, <1>4, <1>10, <1>11 DEF Base
    <2> QED BY <1>5, <1>6, <1>8, <2>1
  <1>13. End' = E + k
    BY <1>10, <1>12 DEF End
  <1>14. Holds(w, E + 0, raw') /\ Holds(w, E + k, unread')
    BY <1>5, <1>6, <1>10, <1>11, HoldsWithin
  <1>15. E + 0 = E /\ E < E + k /\ Len(w) - Len(u) + k = E + k
    BY <1>5, <1>6, <1>8
  <1>16. E + k <= Len(w)
    BY <1>5, <1>6, <1>8
  <1>17. Here' = Here
    <2>1. Here = B + process_position /\ process_position = R
      BY <1>1, <1>3, <1>4 DEF Here, FullyWritten
    <2>2. Here' = E + 0
      BY <1>3, <1>12 DEF Here, Enter
    <2> QED BY <1>5, <2>1, <2>2
  <1>18. ~CutStartLine => ~InStartLine(E + k)
    BY <1>2, <1>4, <1>15
  <1>19. ~CutStartLine => ~InStartLine(End)'
    <2>1. InStartLine(E + k)' <=> InStartLine(E + k)
      BY <1>3 DEF InStartLine
    <2> QED BY <1>13, <1>18, <2>1
  <1>20. Holds(Sent(input), Base, raw)' /\ Holds(Sent(input), End, unread)'
    BY <1>3, <1>4, <1>12, <1>13, <1>14, <1>15
  <1>21. Stream'
    BY <1>3, <1>5, <1>12, <1>19, <1>20 DEF Stream
  <1> QED BY <1>3, <1>4, <1>12, <1>13, <1>15, <1>16, <1>17, <1>21

(* Without a read the position remains. *)
LEMMA SkipStream ==
    ASSUME Stream, SkipRead
    PROVE  Stream' /\ Here' = Here /\ Base' = Base /\ End' = End /\ input' = input
  <1>1. UNCHANGED <<input, unread, raw>>
    BY DEF SkipRead, bufVars
  <1>2. Base' = Base /\ End' = End
    BY <1>1 DEF Base, End
  <1>3. Stream'
    BY <1>1, <1>2 DEF Stream, InStartLine
  <1>4. Here' = Here
    BY <1>2 DEF SkipRead, Enter, Here
  <1> QED BY <1>1, <1>2, <1>3, <1>4

-----------------------------------------------------------------------------
(* What a read leaves alone. *)
ReadKept ==
    /\ Here' = Here /\ input' = input /\ pc = "read" /\ pc' = "process"
    /\ UNCHANGED <<message_state, current_state, status_line_state, current_length, line, fields,
                   current_field, scanVars, write_header_state, current_dump_header>>

(* A read does not change where in the message the parser is. *)
LEMMA ReadPlaced ==
    ASSUME NEW m, NEW b, Placed(m, b), ReadKept
    PROVE  Placed(m, b)'
  <1>1. Content(m) => Content(m)'
    BY ContentKept DEF ReadKept
  <1>2. Here' = Here /\ input' = input /\ pc = "read" /\ pc' = "process"
        /\ UNCHANGED <<message_state, current_state, current_length, fields, current_field,
                       write_header_state, current_dump_header>>
    BY DEF ReadKept
  <1>3. CASE message_state = "PARSE_HEADER" /\ InMessage(m, b)
    <2>1. CASE InLine(m, b)
      BY <1>2, <2>1 DEF InLine
    <2>2. CASE BetweenFields(m, b)
      <3>1. BetweenFields(m, b)'
        BY <1>1, <1>2, <2>2 DEF BetweenFields
      <3> QED BY <1>2, <1>3, <3>1, Goes DEF InMessage
    <2>3. CASE AtEnd(m, b)
      <3>1. AtEnd(m, b)'
        BY <1>1, <1>2, <2>3 DEF AtEnd
      <3> QED BY <1>2, <1>3, <3>1, Goes DEF InMessage
    <2>4. CASE InName(m, b)
      <3>1. InName(m, b)'
        BY <1>1, <1>2, <2>4 DEF InName, NameSoFar, ValueSoFar
      <3> QED BY <1>2, <1>3, <3>1, Goes DEF InMessage
    <2>5. CASE InPad(m, b)
      <3>1. InPad(m, b)'
        BY <1>1, <1>2, <2>5 DEF InPad, Named
      <3> QED BY <1>2, <1>3, <3>1, Goes DEF InMessage
    <2>6. CASE InValue(m, b)
      <3>1. InValue(m, b)'
        BY <1>1, <1>2, <2>6 DEF InValue, Named
      <3> QED BY <1>2, <1>3, <3>1, Goes DEF InMessage
    <2>7. CASE InContinuation(m)
      <3>1. InContinuation(m)'
        BY <1>2, <2>7 DEF InContinuation
      <3> QED BY <1>2, <1>3, <3>1, Goes DEF InMessage
    <2>8. CASE AtLineFeed(m, b)
      <3>1. AtLineFeed(m, b)'
        BY <1>1, <1>2, <2>8 DEF AtLineFeed
      <3> QED BY <1>2, <1>3, <3>1, Goes DEF InMessage
    <2>9. CASE Doomed(m)
      <3>1. Doomed(m)'
        BY <1>2, <2>9 DEF Doomed
      <3> QED BY <1>2, <1>3, <3>1, Goes DEF InMessage
    <2> QED BY <1>3, <2>1, <2>2, <2>3, <2>4, <2>5, <2>6, <2>7, <2>8, <2>9 DEF InMessage
  <1>4. CASE message_state = "PUSH_HEADER" /\ Pushed(m, b)
    <2>1. Pushed(m, b)'
      BY <1>1, <1>2, <1>4 DEF Pushed
    <2> QED BY <1>2, <1>4, <2>1 DEF Placed
  <1> QED BY <1>2, <1>3, <1>4 DEF Placed

(* Both forms of a read leave all but the buffer alone. *)
LEMMA ReadsKeep ==
    ASSUME HeaderInv, Stream, ReadData \/ SkipRead
    PROVE  ReadKept /\ Stream' /\ done' = done
  <1>1. CASE ReadData
    <2>1. Stream' /\ Here' = Here /\ input' = input
      BY <1>1, ReadStream
    <2> QED BY <1>1, <2>1 DEF ReadData, Enter, ReadKept, writerVars
  <1>2. CASE SkipRead
    <2>1. Stream' /\ Here' = Here /\ input' = input
      BY <1>2, SkipStream
    <2> QED BY <1>2, <2>1 DEF SkipRead, Enter, ReadKept, writerVars
  <1> QED BY <1>1, <1>2

(* A start line that is looked for where it begins, all of it in the buffer. *)
Begins(m, b) ==
    /\ current_state = "STATUS_LINE" /\ status_line_state = 1 /\ current_length = 0 /\ pc = "process"
    /\ message_state = "PARSE_HEADER" /\ (\A k \in 1 .. 3 : line[k] = <<>>)
    /\ fields = <<>> /\ current_field = 0 /\ Unscanned /\ Here = b /\ Base + offset = b
    /\ b + Len(StartLine(m)) <= End

(* The message is then in its first token. *)
LEMMA LineBegins ==
    ASSUME NEW m, NEW b \in Nat, TokenAt(m, 1) = 0, Begins(m, b)'
    PROVE  Placed(m, b)'
  <1>1. LineRead(m, 1)'
    BY DEF Begins, LineRead
  <1>2. InLine(m, b)'
    BY <1>1 DEF Begins, InLine
  <1> QED BY <1>2, Goes DEF Begins, InMessage

(* No read ends within a start line. *)
LEMMA LineWhole ==
    ASSUME FramedInputs, ~CutStartLine, PositionInv, Stream, NEW i \in 1 .. Len(input), Before(input, i) < End
    PROVE  Before(input, i) + Len(StartLine(input[i])) <= End
  <1>1. WellFramed(input) /\ ~InStartLine(End)
    BY InputFramed DEF Stream
  <1>2. Len(Sent(SubSeq(input, 1, i - 1))) = Before(input, i) /\ i \in DOMAIN input
    BY <1>1, SentBefore, InputTexts
  <1>3. ~(Before(input, i) < End /\ End < Before(input, i) + Len(StartLine(input[i])))
    BY <1>1, <1>2 DEF InStartLine
  <1>4. PICK e, s : e = End /\ s = Before(input, i) + Len(StartLine(input[i]))
    OBVIOUS
  <1>5. e \in Nat /\ s \in Nat
    <2>1. At(input[i], Before(input, i))
      BY MessageAt
    <2>2. PICK m, b : m = input[i] /\ b = Before(input, i)
      OBVIOUS
    <2>3. b \in Nat /\ Len(StartLine(m)) = TokenAt(m, 4) + 1 /\ TokenAt(m, 4) \in Nat
      BY <2>1, <2>2 DEF At, Layout, LineLayout
    <2>4. s = b + Len(StartLine(m))
      BY <1>4, <2>2
    <2>5. e \in Nat
      BY <1>4, BufferSent
    <2> QED BY <2>3, <2>4, <2>5
  <1> QED BY <1>3, <1>4, <1>5

(* The first token stands where the message does. *)
LEMMA MessageBegins ==
    ASSUME NEW m, NEW b, At(m, b)
    PROVE  TokenAt(m, 1) = 0 /\ b \in Nat
  BY DEF At, Layout, LineLayout

(* The place in the stream after a step, for a given number of messages. *)
LEMMA PlaceGoes ==
    ASSUME NEW n, NEW ms, done' = n, input' = ms, n \in 0 .. Len(ms), NEW b, b = Before(ms, n + 1),
           Waiting(b)' \/ (n < Len(ms) /\ \E m : m = ms[n + 1] /\ Placed(m, b)')
    PROVE  Place'
  BY DEF Place

(* Place is kept by reads: what comes behind a message is the next one. *)
LEMMA ReadPlace ==
    ASSUME FramedInputs, ~CutStartLine, HeaderInv, Stream, Place, ReadData \/ SkipRead
    PROVE  Place'
  <1>1. ReadKept /\ Stream' /\ done' = done /\ input' = input
    BY ReadsKeep DEF ReadKept
  <1>2. PICK n, ms, b : n = done /\ ms = input /\ b = Before(ms, n + 1)
    OBVIOUS
  <1>3. n \in 0 .. Len(ms) /\ (Waiting(b) \/ (n < Len(ms) /\ \E m : m = ms[n + 1] /\ Placed(m, b)))
    BY <1>2 DEF Place
  <1>4. WellFramed(ms) /\ Len(ms) \in Nat
    BY <1>2, InputFramed, InputTexts
  <1>5. CASE n < Len(ms) /\ \E m : m = ms[n + 1] /\ Placed(m, b)
    <2>1. PICK m : m = ms[n + 1] /\ Placed(m, b)
      BY <1>5
    <2>2. Placed(m, b)'
      BY <1>1, <2>1, ReadPlaced
    <2> QED BY <1>1, <1>2, <1>3, <1>5, <2>1, <2>2, PlaceGoes
  <1>6. CASE Waiting(b) /\ SkipRead
    <2>1. Here' = Here /\ Base' = Base /\ End' = End
      BY <1>6, SkipStream
    <2>2. Waiting(b)'
      <3>1. Idle(b) /\ pc = "read" /\ message_state = "PARSE_HEADER" /\ message_state' = message_state
        BY <1>1, <1>6 DEF Waiting, ReadKept
      <3>2. Base' + offset' = b /\ pc' = "process"
        BY <1>6, <2>1, <3>1 DEF Idle, Here, SkipRead, Enter
      <3>3. Idle(b)'
        BY <1>1, <2>1, <3>1, <3>2 DEF Idle, ReadKept, Unscanned, scanVars, Type
      <3> QED BY <3>1, <3>2, <3>3 DEF Waiting
    <2> QED BY <1>1, <1>2, <1>3, <2>2, PlaceGoes
  <1>7. CASE Waiting(b) /\ ReadData
    <2>1. Here' = Here /\ Base' = End /\ End < End' /\ End' <= Len(Sent(ms))
      BY <1>2, <1>7, ReadStream
    <2>2. Idle(b) /\ pc = "read" /\ message_state = "PARSE_HEADER"
      BY <1>1, <1>7 DEF Waiting, ReadKept
    <2>3. b = End /\ Here = b /\ End \in Nat /\ End' \in Nat
      <3>1. b = End /\ Here = b
        BY <2>2 DEF Idle
      <3>2. PositionInv /\ PositionInv'
        BY <1>7, ReadInv, Counts DEF HeaderInv
      <3>3. End \in Nat
        BY <3>2, BufferSent
      <3>4. Base' \in Nat /\ Len(raw') \in Nat
        BY <2>1, <3>2, <3>3 DEF PositionInv, Text
      <3>5. End' \in Nat
        BY <3>4 DEF End
      <3> QED BY <3>1, <3>3, <3>5
    <2>4. n < Len(ms)
      <3> SUFFICES ASSUME ~(n < Len(ms)) PROVE FALSE
        OBVIOUS
      <3>1. n = Len(ms)
        BY <1>3, <1>4
      <3>2. b = Len(Sent(ms)) /\ Len(Sent(ms)) \in Nat
        BY <1>2, <1>4, <3>1, Ends, InputTexts
      <3> QED BY <2>1, <2>3, <3>2
    <2>5. PICK i, m : i = n + 1 /\ m = ms[i]
      OBVIOUS
    <2>6. i \in 1 .. Len(ms)
      BY <1>3, <1>4, <2>4, <2>5
    <2>7. At(m, b)
      BY <1>2, <2>5, <2>6, MessageAt
    <2>8. b + Len(StartLine(m)) <= End'
      <3>1. ~InStartLine(End)'
        BY <1>1 DEF Stream
      <3>2. Len(Sent(SubSeq(ms, 1, i - 1))) = b /\ i \in DOMAIN ms
        BY <1>2, <1>4, <2>5, <2>6, SentBefore, InputTexts
      <3>3. ~(b < End' /\ End' < b + Len(StartLine(m)))
        BY <1>1, <1>2, <2>5, <3>1, <3>2 DEF InStartLine
      <3>4. Len(StartLine(m)) \in Nat /\ b \in Nat
        <4>1. b \in Nat /\ Len(StartLine(m)) = TokenAt(m, 4) + 1 /\ TokenAt(m, 4) \in Nat
          BY <2>7 DEF At, Layout, LineLayout
        <4> QED BY <4>1
      <3> QED BY <2>1, <2>3, <3>3, <3>4
    <2>9. Begins(m, b)'
      <3>1. Base' + offset' = b
        BY <1>7, <2>1, <2>3 DEF ReadData, Enter
      <3>2. Unscanned'
        BY <1>1, <2>2 DEF Idle, ReadKept, Unscanned, scanVars, Type
      <3> QED BY <1>1, <2>1, <2>2, <2>3, <2>8, <3>1, <3>2 DEF Idle, ReadKept, Begins
    <2>10. Placed(m, b)'
      BY <2>7, <2>9, LineBegins, MessageBegins
    <2> QED BY <1>1, <1>2, <1>3, <2>4, <2>5, <2>10, PlaceGoes
  <1> QED BY <1>3, <1>5, <1>6, <1>7

-----------------------------------------------------------------------------
(* The writer. *)

(* The next k bytes of a text that stands behind p are written. *)
GrowsBy(w, o, p, t, n, k, v) ==
    /\ v \in Seq(Bytes) /\ Len(v) = k /\ o \o v \in Seq(Bytes) /\ Len(o \o v) = Len(o) + k
    /\ Holds(w, 0, o) /\ Holds(w, p, t) /\ Len(o) = p + n => Holds(w, 0, o \o v)
    /\ Holds(o, 0, w) => Holds(o \o v, 0, w)

(* What was written and the piece behind it. *)
LEMMA OutGrows ==
    ASSUME NEW w \in Seq(Bytes), NEW o \in Seq(Bytes), NEW t \in Seq(Bytes), NEW p \in Nat, NEW n \in Nat,
           NEW k \in Nat, n + k <= Len(t), NEW u, u = SubSeq(t, n + 1, Len(t)), NEW v, v = SubSeq(u, 1, k)
    PROVE  GrowsBy(w, o, p, t, n, k, v)
  <1> DEFINE S == Bytes
  <1>0. w \in Seq(S) /\ o \in Seq(S) /\ t \in Seq(S)
    OBVIOUS
  <1> HIDE DEF S
  <1>1. Len(t) \in Nat /\ Len(w) \in Nat /\ Len(o) \in Nat
    BY <1>0
  <1>2. PICK d : d = Len(t) - n
    OBVIOUS
  <1>3. d \in Nat /\ n + d = Len(t) /\ k <= d
    BY <1>1, <1>2
  <1>4. u \in Seq(S) /\ Len(u) = d /\ \A j \in 1 .. d : u[j] = t[n + j]
    BY <1>0, <1>1, <1>3
  <1>5. v \in Seq(S) /\ Len(v) = k /\ \A j \in 1 .. k : v[j] = u[j]
    BY <1>3, <1>4
  <1>6. \A j \in 1 .. k : v[j] = t[n + j]
    <2>1. \A j \in 1 .. k : j \in 1 .. d
      BY <1>3
    <2> QED BY <1>4, <1>5, <2>1
  <1>7. PICK x : x = o \o v
    OBVIOUS
  <1>8. /\ x \in Seq(S) /\ Len(x) = Len(o) + Len(v)
        /\ \A j \in 1 .. Len(o) : x[j] = o[j]
        /\ \A j \in 1 .. Len(v) : x[Len(o) + j] = v[j]
    <2>1. v \in Seq(S) /\ o \in Seq(S)
      BY <1>0, <1>5
    <2>2. /\ o \o v \in Seq(S) /\ Len(o \o v) = Len(o) + Len(v)
          /\ \A j \in 1 .. Len(o) : (o \o v)[j] = o[j]
          /\ \A j \in 1 .. Len(v) : (o \o v)[Len(o) + j] = v[j]
      <3>1. ASSUME NEW y \in Seq(S)
            PROVE  /\ o \o y \in Seq(S) /\ Len(o \o y) = Len(o) + Len(y)
                   /\ \A j \in 1 .. Len(o) : (o \o y)[j] = o[j]
                   /\ \A j \in 1 .. Len(y) : (o \o y)[Len(o) + j] = y[j]
        BY <1>0
      <3> QED BY <2>1, <3>1, Zenon
    <2> QED BY <1>7, <2>2, Zenon
  <1>9. ASSUME Holds(w, 0, o), Holds(w, p, t), Len(o) = p + n PROVE Holds(w, 0, x)
    <2>1. /\ Len(o) <= Len(w) /\ (\A j \in 1 .. Len(o) : w[0 + j] = o[j])
          /\ p + Len(t) <= Len(w) /\ (\A j \in 1 .. Len(t) : w[p + j] = t[j])
      BY <1>1, <1>9 DEF Holds
    <2>2. Len(x) \in Nat /\ 0 + Len(x) <= Len(w)
      BY <1>1, <1>5, <1>8, <1>9, <2>1
    <2>3. ASSUME NEW j \in 1 .. Len(x) PROVE w[0 + j] = x[j]
      <3>1. CASE j \in 1 .. Len(o)
        BY <1>8, <2>1, <3>1
      <3>2. CASE j \notin 1 .. Len(o)
        <4>1. PICK i : i = j - Len(o)
          OBVIOUS
        <4>2. i \in 1 .. k /\ j = Len(o) + i /\ n + i \in 1 .. Len(t) /\ 0 + j = p + (n + i)
          BY <1>1, <1>5, <1>8, <1>9, <2>2, <3>2, <4>1
        <4>3. x[j] = v[i] /\ v[i] = t[n + i] /\ w[p + (n + i)] = t[n + i]
          BY <1>5, <1>6, <1>8, <2>1, <4>2
        <4> QED BY <4>2, <4>3
      <3> QED BY <3>1, <3>2
    <2> QED BY <2>2, <2>3 DEF Holds
  <1>10. ASSUME Holds(o, 0, w) PROVE Holds(x, 0, w)
    <2>1. Len(w) <= Len(o) /\ (\A j \in 1 .. Len(w) : o[0 + j] = w[j])
      BY <1>1, <1>10 DEF Holds
    <2>2. 0 + Len(w) <= Len(x)
      BY <1>1, <1>5, <1>8, <2>1
    <2>3. \A j \in 1 .. Len(w) : 0 + j = j /\ j \in 1 .. Len(o)
      BY <1>1, <2>1
    <2>4. \A j \in 1 .. Len(w) : x[0 + j] = w[j]
      BY <1>8, <2>1, <2>3
    <2> QED BY <2>2, <2>4 DEF Holds
  <1>11. x \in Seq(S) /\ v \in Seq(S) /\ Len(v) = k /\ Len(x) = Len(o) + k
    BY <1>5, <1>8
  <1> QED BY <1>7, <1>9, <1>10, <1>11 DEF S, GrowsBy

(* The text that is being written. *)
LEMMA BytesToWrite ==
    ASSUME HeaderInv, message_state = "PUSH_HEADER"
    PROVE  /\ BufferToWrite \in Seq(Bytes) /\ written \in Nat /\ written <= Len(BufferToWrite)
           /\ WriteState \in 1 .. 11 /\ current_dump_header \in Nat /\ current_dump_header <= Len(fields)
           /\ Len(fields) \in Nat /\ write_header_state \in 1 .. 11
           /\ WriteState \in 7 .. 10 => current_dump_header < Len(fields)
           /\ write_header_state # WriteState => WriteState = 11 /\ write_header_state = 7
                  /\ current_dump_header = Len(fields)
  <1> USE DEF FIELD_NAME, FIELD_SEPERATOR, END_FIELDS
  <1>1. /\ line[1] \in Seq(STRING) /\ line[2] \in Seq(STRING) /\ line[3] \in Seq(STRING)
        /\ fields \in Seq(FieldRecord) /\ Len(fields) \in Nat
    BY DEF HeaderInv, LineInv, FieldInv, FieldsOK, Text
  <1>2. /\ written \in Nat /\ write_header_state \in 1 .. 11 /\ current_dump_header \in Nat
        /\ WriteState \in 1 .. 11 /\ current_dump_header <= Len(fields) /\ written <= Len(BufferToWrite)
        /\ write_header_state # WriteState => WriteState = 11 /\ write_header_state = 7
               /\ current_dump_header = Len(fields)
    BY TextToWrite DEF HeaderInv, WriterInv, WriteState
  <1>3. WriteState \in 7 .. 10 => current_dump_header < Len(fields)
    BY <1>1, <1>2 DEF HeaderInv, WriterInv, WriteState
  <1>4. EndLine \in Seq(Bytes) /\ Space \in Seq(Bytes) /\ FieldSep \in Seq(Bytes)
    BY Marks
  <1>5. BufferToWrite \in Seq(Bytes)
    <2>1. CASE WriteState \in {1, 3, 5}
      <3>1. BufferToWrite \in Seq(STRING)
        BY <1>1, <2>1 DEF BufferToWrite
      <3> QED BY <3>1, BytesText
    <2>2. CASE WriteState \in {2, 4, 6, 8, 10, 11}
      <3>1. BufferToWrite \in {EndLine, Space, FieldSep}
        BY <2>2 DEF BufferToWrite
      <3> QED BY <1>4, <3>1, Zenon
    <2>3. CASE WriteState \in {7, 9}
      <3>1. current_dump_header + 1 \in 1 .. Len(fields)
        BY <1>1, <1>2, <1>3, <2>3
      <3>2. fields[current_dump_header + 1] \in FieldRecord
        BY <1>1, <3>1
      <3>3. BufferToWrite \in Seq(STRING)
        BY <2>3, <3>2 DEF BufferToWrite, FieldRecord, Text
      <3> QED BY <3>3, BytesText
    <2>4. WriteState \in {1, 3, 5} \cup {2, 4, 6, 8, 10, 11} \cup {7, 9}
      BY <1>2
    <2> QED BY <2>1, <2>2, <2>3, <2>4
  <1> QED BY <1>1, <1>2, <1>3, <1>5

(* It is the one that the message has there. *)
LEMMA WritesPiece ==
    ASSUME HeaderInv, message_state = "PUSH_HEADER", NEW m \in Messages, Framed(m),
           LineRead(m, 4), FieldsRead(m, Len(m.fields)), Len(fields) = Len(m.fields)
    PROVE  BufferToWrite = PieceOf(m, WriteState, current_dump_header)
  <1> USE DEF FIELD_NAME, FIELD_SEPERATOR, END_FIELDS
  <1>1. /\ WriteState \in 1 .. 11 /\ current_dump_header \in Nat /\ Len(fields) \in Nat
        /\ WriteState \in 7 .. 10 => current_dump_header < Len(fields)
    BY BytesToWrite
  <1>2. line[1] = m.line[1] /\ line[2] = m.line[2] /\ line[3] = m.line[3]
    BY DEF LineRead
  <1>3. WriteState \in {7, 9} =>
           /\ fields[current_dump_header + 1].name = m.fields[current_dump_header + 1].name
           /\ fields[current_dump_header + 1].value = m.fields[current_dump_header + 1].value
    <2>1. WriteState \in {7, 9} => current_dump_header + 1 \in 1 .. Len(m.fields)
      BY <1>1
    <2> QED BY <2>1 DEF FieldsRead
  <1>4. PICK s : s = WriteState
    OBVIOUS
  <1>5. s \in {1, 2, 3, 4, 5, 6, 7, 8, 9, 10, 11}
    BY <1>1, <1>4
  <1> QED BY <1>2, <1>3, <1>4, <1>5 DEF BufferToWrite, PieceOf

(* The message whose header is being written. *)
LEMMA PushedNow ==
    ASSUME FramedInputs, Stream, Place, message_state = "PUSH_HEADER",
           NEW m, m = input[done + 1], NEW b, b = Before(input, done + 1)
    PROVE  /\ done \in Nat /\ done + 1 \in 1 .. Len(input) /\ Len(input) \in Nat /\ done < Len(input)
           /\ Pushed(m, b) /\ At(m, b) /\ WellFramed(input)
  <1>1. WellFramed(input) /\ Len(input) \in Nat
    BY InputFramed, InputTexts
  <1>2. done \in 0 .. Len(input) /\ done < Len(input) /\ Placed(m, b)
    BY DEF Place, Waiting
  <1>3. done \in Nat /\ done + 1 \in 1 .. Len(input)
    BY <1>1, <1>2
  <1>4. Pushed(m, b)
    BY <1>2 DEF Placed
  <1>5. At(m, b)
    BY <1>3, MessageAt
  <1> QED BY <1>1, <1>2, <1>3, <1>4, <1>5

PieceNow(m) ==
    /\ PieceStands(Sought, OutBefore(done + 1), m, WriteState, current_dump_header)
    /\ PieceFollows(m, WriteState, current_dump_header)
    /\ BufferToWrite = PieceOf(m, WriteState, current_dump_header)
    /\ Len(fields) = Len(m.fields)
    /\ OutBefore(done + 1) \in Nat /\ OutBefore(done + 1 + 1) = OutBefore(done + 1) + Len(Rendered(m))

(* The writer is at a piece of a message that was read as it was sent. *)
LEMMA PieceIsNow ==
    ASSUME HeaderInv, FramedInputs, Stream, Place, message_state = "PUSH_HEADER", done < Len(Good),
           NEW m, m = input[done + 1]
    PROVE  PieceNow(m)
  <1>1. PICK b, i : b = Before(input, done + 1) /\ i = done + 1
    OBVIOUS
  <1>2. done \in Nat /\ Pushed(m, b) /\ At(m, b) /\ WellFramed(input)
    BY <1>1, PushedNow
  <1>3. Len(Good) \in Nat /\ i \in 1 .. Len(Good) /\ WellFormed(m)
    <2>1. Len(Good) \in Nat /\ \A k \in 1 .. Len(Good) : WellFormed(input[k])
      BY <1>2, GoodFacts
    <2>2. i \in 1 .. Len(Good)
      BY <1>1, <1>2, <2>1
    <2> QED BY <1>1, <2>1, <2>2
  <1>4. /\ Holds(Sought, OutBefore(i), Rendered(m)) /\ Sought \in Seq(Bytes) /\ OutBefore(i) \in Nat
        /\ OutBefore(i + 1) = OutBefore(i) + Len(Rendered(m))
    BY <1>1, <1>2, <1>3, TextPlace
  <1>5. m \in Messages /\ Framed(m)
    BY <1>2 DEF At
  <1>6. /\ LineRead(m, 4) /\ FieldsRead(m, Len(m.fields)) /\ Len(fields) = Len(m.fields)
    BY <1>2, <1>3 DEF Pushed, Content, WellFormed
  <1>7. BufferToWrite = PieceOf(m, WriteState, current_dump_header)
    BY <1>5, <1>6, WritesPiece
  <1>8. /\ WriteState \in 1 .. 11 /\ current_dump_header \in Nat
        /\ WriteState \in 7 .. 10 => current_dump_header < Len(m.fields)
    BY <1>6, BytesToWrite
  <1>9. /\ PieceStands(Sought, OutBefore(i), m, WriteState, current_dump_header)
        /\ PieceFollows(m, WriteState, current_dump_header)
    BY <1>4, <1>5, <1>8, Pieces
  <1> QED BY <1>1, <1>4, <1>6, <1>7, <1>9 DEF PieceNow

(* k more bytes of it come out. *)
LEMMA Emits ==
    ASSUME HeaderInv, FramedInputs, Stream, Place, OutInv, message_state = "PUSH_HEADER",
           NEW k \in Nat, written + k <= Len(BufferToWrite), out' = out \o SubSeq(Unwritten, 1, k)
    PROVE  /\ out' \in Seq(Bytes) /\ Len(out') = Len(out) + k /\ Len(out) \in Nat
           /\ done < Len(Good) => Holds(Sought, 0, out')
           /\ ~(done < Len(Good)) => Unclaimed /\ Holds(out', 0, Sought)
  <1>1. BufferToWrite \in Seq(Bytes) /\ written \in Nat
    BY BytesToWrite
  <1>2. WellFramed(input)
    BY InputFramed
  <1>3. Sought \in Seq(Bytes) /\ out \in Seq(Bytes)
    BY <1>2, TextEnds DEF OutInv
  <1>4. PICK w, o, t, u, v, n : w = Sought /\ o = out /\ t = BufferToWrite /\ u = SubSeq(t, n + 1, Len(t))
                                /\ v = SubSeq(u, 1, k) /\ n = written
    OBVIOUS
  <1>5. out' = o \o v
    BY <1>4 DEF Unwritten
  <1>6. /\ w \in Seq(Bytes) /\ o \in Seq(Bytes) /\ t \in Seq(Bytes) /\ n \in Nat /\ n + k <= Len(t)
        /\ u = SubSeq(t, n + 1, Len(t)) /\ v = SubSeq(u, 1, k) /\ 0 \in Nat
    BY <1>1, <1>3, <1>4
  <1>7. /\ o \o v \in Seq(Bytes) /\ Len(o \o v) = Len(o) + k /\ (Holds(o, 0, w) => Holds(o \o v, 0, w))
    <2>1. GrowsBy(w, o, 0, t, n, k, v)
      BY <1>6, OutGrows, Zenon
    <2> QED BY <2>1 DEF GrowsBy
  <1>8. ASSUME done < Len(Good) PROVE Holds(w, 0, o \o v)
    <2>1. PICK m, p : m = input[done + 1] /\ p = OutBefore(done + 1) + PieceAt(m, WriteState, current_dump_header)
      OBVIOUS
    <2>2. PieceNow(m)
      BY <1>8, <2>1, PieceIsNow
    <2>3. p \in Nat /\ Holds(w, p, t)
      BY <1>4, <2>1, <2>2 DEF PieceNow, PieceStands
    <2>4. Holds(w, 0, o) /\ Len(o) = p + n
      <3>1. Holds(Sought, 0, out) /\ Len(out) = OutBefore(done + 1) + (PieceAt(m, WriteState, current_dump_header) + written)
        BY <1>8, <2>1 DEF OutInv, Claimed, OutExpected, Progress
      <3>2. OutBefore(done + 1) \in Nat /\ PieceAt(m, WriteState, current_dump_header) \in Nat
        BY <2>2 DEF PieceNow, PieceStands
      <3> QED BY <1>1, <1>4, <2>1, <3>1, <3>2
    <2>5. GrowsBy(w, o, p, t, n, k, v)
      BY <1>6, <2>3, OutGrows, Zenon
    <2> QED BY <2>3, <2>4, <2>5 DEF GrowsBy
  <1>9. ASSUME ~(done < Len(Good)) PROVE Unclaimed /\ Holds(o, 0, w)
    BY <1>4, <1>9 DEF OutInv, Claimed
  <1>10. Len(out) \in Nat
    BY <1>3
  <1> QED BY <1>4, <1>5, <1>7, <1>8, <1>9, <1>10

(* A step that leaves the buffer alone. *)
LEMMA StreamKept ==
    ASSUME Stream, UNCHANGED bufVars
    PROVE  Stream' /\ Base' = Base /\ End' = End /\ input' = input /\ Good' = Good /\ Sought' = Sought
           /\ Unclaimed' = Unclaimed
  <1>1. UNCHANGED <<input, unread, raw>>
    BY DEF bufVars
  <1>2. Base' = Base /\ End' = End
    BY <1>1 DEF Base, End
  <1>3. Stream'
    BY <1>1, <1>2 DEF Stream, InStartLine
  <1>4. Good' = Good
    BY <1>1 DEF Good
  <1>5. Sought' = Sought
    BY <1>4 DEF Sought
  <1>6. Unclaimed' = Unclaimed
    BY <1>1, <1>4 DEF Unclaimed
  <1> QED BY <1>1, <1>2, <1>3, <1>4, <1>5, <1>6

(* What is sought depends on the input only. *)
LEMMA OutBeforeKept ==
    ASSUME input' = input, NEW i
    PROVE  OutBefore(i)' = OutBefore(i)
  <1>1. Good' = Good
    BY DEF Good
  <1> QED BY <1>1 DEF OutBefore

(* A step that announces no body. *)
LEMMA BodiesKept ==
    ASSUME BodiesInv, input' = input, bodies' = bodies, done' = done,
           message_state # "PARSE_BODY", message_state' # "PARSE_BODY"
    PROVE  BodiesInv'
  <1>1. Good' = Good
    BY DEF Good
  <1> QED BY <1>1 DEF BodiesInv, BodyAnnounced

-----------------------------------------------------------------------------
(* A part of the header is written, all of it or as much as goes. *)
LEMMA WritePlace ==
    ASSUME HeaderInv, FramedInputs, Stream, Place, WriteBlocks \/ WriteHeader
    PROVE  Stream' /\ Place'
  <1>1. /\ pc = "process" /\ pc' \in {"read", "process"} /\ message_state = "PUSH_HEADER"
            /\ message_state' = "PUSH_HEADER"
        /\ UNCHANGED <<process_position, done, line, fields, current_field, scanVars>> /\ UNCHANGED bufVars
    BY DEF WriteBlocks, WriteHeader, Pushing, Parsing
  <1>2. Stream' /\ Base' = Base /\ input' = input
    BY <1>1, StreamKept
  <1>3. PICK n, ms, m, b : n = done /\ ms = input /\ m = ms[n + 1] /\ b = Before(ms, n + 1)
    OBVIOUS
  <1>4. n \in Nat /\ n < Len(ms) /\ Len(ms) \in Nat /\ Pushed(m, b)
    BY <1>1, <1>3, PushedNow
  <1>5. Here' = Here
    BY <1>1, <1>2 DEF Here
  <1>6. Content(m)'
    BY <1>1, <1>4, ContentKept DEF Pushed
  <1>7. write_header_state' \in 1 .. 6 => current_dump_header' = 0
    <2>1. /\ WriteState \in 1 .. 11 /\ write_header_state \in 1 .. 11
          /\ write_header_state # WriteState => WriteState = 11
          /\ write_header_state \in 1 .. 6 => current_dump_header = 0
      BY <1>1, <1>4, BytesToWrite DEF Pushed
    <2>2. CASE WriteBlocks
      <3>1. write_header_state' = WriteState /\ current_dump_header' = current_dump_header
        BY <2>2 DEF WriteBlocks
      <3> QED BY <2>1, <3>1
    <2>3. CASE WriteHeader
      <3>1. /\ write_header_state' = IF WriteState = 10 THEN 7 ELSE WriteState + 1
            /\ current_dump_header' = current_dump_header + IF WriteState = 10 THEN 1 ELSE 0
        BY <2>3 DEF WriteHeader, FIELD_NAME, FIELD_SEPERATOR
      <3> QED BY <2>1, <3>1
    <2> QED BY <2>2, <2>3
  <1>8. Pushed(m, b)'
    BY <1>1, <1>4, <1>5, <1>6, <1>7 DEF Pushed
  <1>9. Placed(m, b)'
    BY <1>1, <1>8 DEF Placed
  <1>10. n \in 0 .. Len(ms)
    BY <1>4
  <1>11. Place'
    BY <1>1, <1>2, <1>3, <1>4, <1>9, <1>10, PlaceGoes
  <1> QED BY <1>2, <1>11

(* WriteBlocks: a part of the piece is out. *)
LEMMA WriteBlocksOut ==
    ASSUME HeaderInv, FramedInputs, Stream, Place, OutInv, BodiesInv, WriteBlocks
    PROVE  OutInv' /\ BodiesInv'
  <1>1. /\ message_state = "PUSH_HEADER" /\ message_state' = "PUSH_HEADER" /\ UNCHANGED bufVars
        /\ UNCHANGED <<done, fields, current_dump_header, bodies>> /\ write_header_state' = WriteState
    BY DEF WriteBlocks, Pushing
  <1>2. input' = input /\ Good' = Good /\ Sought' = Sought /\ Unclaimed' = Unclaimed
    BY <1>1, StreamKept
  <1>3. PICK k \in 0 .. Len(Unwritten) : out' = out \o SubSeq(Unwritten, 1, k) /\ written' = written + k
    BY DEF WriteBlocks
  <1>4. /\ BufferToWrite \in Seq(Bytes) /\ written \in Nat /\ written <= Len(BufferToWrite)
        /\ WriteState \in 1 .. 11 /\ (WriteState \in 7 .. 10 => current_dump_header < Len(fields))
        /\ current_dump_header \in Nat /\ Len(fields) \in Nat
    BY <1>1, BytesToWrite
  <1>5. k \in Nat /\ written + k <= Len(BufferToWrite)
    <2>1. PICK t : t = BufferToWrite
      OBVIOUS
    <2>2. t \in Seq(Bytes) /\ written <= Len(t) /\ Unwritten = SubSeq(t, written + 1, Len(t))
      BY <1>4, <2>1 DEF Unwritten
    <2>3. Len(Unwritten) = Len(t) - written /\ Len(t) \in Nat
      BY <1>4, <2>2
    <2> QED BY <1>3, <1>4, <2>1, <2>2, <2>3
  <1>6. /\ out' \in Seq(Bytes) /\ Len(out') = Len(out) + k /\ Len(out) \in Nat
        /\ done < Len(Good) => Holds(Sought, 0, out')
        /\ ~(done < Len(Good)) => Unclaimed /\ Holds(out', 0, Sought)
    BY <1>1, <1>3, <1>5, Emits
  <1>7. WriteState' = WriteState
    BY <1>1, <1>4 DEF WriteState, FIELD_NAME, END_FIELDS
  <1>8. CASE done < Len(Good)
    <2>1. PICK m, p, q : m = input[done + 1] /\ p = PieceAt(m, WriteState, current_dump_header)
                   /\ q = OutBefore(done + 1)
      OBVIOUS
    <2>2. p \in Nat /\ q \in Nat
      BY <1>1, <1>8, <2>1, PieceIsNow DEF PieceNow, PieceStands
    <2>3. Len(out) = q + (p + written)
      BY <1>1, <1>8, <2>1 DEF OutInv, Claimed, OutExpected, Progress
    <2>4. Progress(m)' = p + (written + k)
      BY <1>1, <1>3, <1>7, <2>1 DEF Progress
    <2>5. Len(out') = q + Progress(m)'
      BY <1>4, <1>5, <1>6, <2>2, <2>3, <2>4
    <2>6. OutBefore(done + 1)' = q
      <3>1. PICK i : i = done + 1
        OBVIOUS
      <3>2. OutBefore(i)' = OutBefore(i)
        BY <1>2, OutBeforeKept
      <3> QED BY <1>1, <2>1, <3>1, <3>2
    <2>7. OutExpected'
      BY <1>1, <1>2, <1>6, <1>8, <2>1, <2>5, <2>6 DEF OutExpected
    <2>8. Claimed'
      BY <1>1, <1>2, <1>8 DEF Claimed
    <2>9. OutInv'
      BY <1>6, <2>7, <2>8 DEF OutInv
    <2> QED BY <1>1, <1>2, <2>9, BodiesKept
  <1>9. CASE ~(done < Len(Good))
    <2>1. ~Claimed'
      BY <1>1, <1>2, <1>9 DEF Claimed
    <2>2. OutInv'
      BY <1>2, <1>6, <1>9, <2>1 DEF OutInv
    <2> QED BY <1>1, <1>2, <2>2, BodiesKept
  <1> QED BY <1>8, <1>9

(* WriteRest is the case of all that is left. *)
LEMMA RestOut ==
    ASSUME HeaderInv, message_state = "PUSH_HEADER", WriteRest
    PROVE  \E k \in Nat : /\ k + written = Len(BufferToWrite) /\ written + k <= Len(BufferToWrite)
                          /\ out' = out \o SubSeq(Unwritten, 1, k)
  <1>1. BufferToWrite \in Seq(Bytes) /\ written \in Nat /\ written <= Len(BufferToWrite)
    BY BytesToWrite
  <1>2. PICK t, u, k : t = BufferToWrite /\ u = Unwritten /\ k = Len(t) - written
    OBVIOUS
  <1>3. t \in Seq(Bytes) /\ u = SubSeq(t, written + 1, Len(t)) /\ Len(t) \in Nat /\ k \in Nat
            /\ k + written = Len(t)
    BY <1>1, <1>2 DEF Unwritten
  <1>4. u \in Seq(Bytes) /\ Len(u) = k
    BY <1>1, <1>3
  <1>5. SubSeq(u, 1, k) = u
    BY <1>4, Wholly
  <1>6. out' = out \o SubSeq(u, 1, k)
    BY <1>2, <1>5 DEF WriteRest
  <1>7. written + k <= Len(t)
    BY <1>1, <1>3
  <1> QED BY <1>2, <1>3, <1>6, <1>7

(* All that is left of a text is out. *)
LEMMA TextOut ==
    ASSUME HeaderInv, FramedInputs, Stream, Place, OutInv, message_state = "PUSH_HEADER", WriteRest
    PROVE  /\ out' \in Seq(Bytes)
           /\ done < Len(Good) =>
                 /\ Holds(Sought, 0, out')
                 /\ \E m : /\ m = input[done + 1] /\ PieceNow(m)
                           /\ Len(out') = OutBefore(done + 1)
                                 + (PieceAt(m, WriteState, current_dump_header)
                                    + Len(PieceOf(m, WriteState, current_dump_header)))
           /\ ~(done < Len(Good)) => Unclaimed /\ Holds(out', 0, Sought)
  <1>1. PICK k \in Nat : /\ k + written = Len(BufferToWrite) /\ written + k <= Len(BufferToWrite)
                         /\ out' = out \o SubSeq(Unwritten, 1, k)
    BY RestOut
  <1>2. /\ out' \in Seq(Bytes) /\ Len(out') = Len(out) + k /\ Len(out) \in Nat
        /\ done < Len(Good) => Holds(Sought, 0, out')
        /\ ~(done < Len(Good)) => Unclaimed /\ Holds(out', 0, Sought)
    BY <1>1, Emits
  <1>3. ASSUME done < Len(Good)
        PROVE  \E m : /\ m = input[done + 1] /\ PieceNow(m)
                      /\ Len(out') = OutBefore(done + 1)
                            + (PieceAt(m, WriteState, current_dump_header)
                               + Len(PieceOf(m, WriteState, current_dump_header)))
    <2>1. PICK m, p, q, l, wr : m = input[done + 1] /\ p = PieceAt(m, WriteState, current_dump_header)
                         /\ q = OutBefore(done + 1) /\ l = Len(PieceOf(m, WriteState, current_dump_header))
                         /\ wr = written
      OBVIOUS
    <2>2. PieceNow(m)
      BY <1>3, <2>1, PieceIsNow
    <2>3. p \in Nat /\ q \in Nat /\ l = Len(BufferToWrite)
      BY <2>1, <2>2 DEF PieceNow, PieceStands
    <2>4. Len(out) = q + (p + wr)
      BY <1>3, <2>1 DEF OutInv, Claimed, OutExpected, Progress
    <2>5. l = k + wr /\ wr \in Nat
      BY <1>1, <2>1, <2>3, BytesToWrite
    <2>6. Len(out') = q + (p + l)
      BY <1>2, <2>3, <2>4, <2>5
    <2> QED BY <2>1, <2>2, <2>6
  <1> QED BY <1>2, <1>3

(* WriteHeader: the piece is out and the next one follows it. *)
LEMMA WriteHeaderOut ==
    ASSUME HeaderInv, FramedInputs, Stream, Place, OutInv, BodiesInv, WriteHeader
    PROVE  OutInv' /\ BodiesInv'
  <1>1. /\ message_state = "PUSH_HEADER" /\ message_state' = "PUSH_HEADER" /\ UNCHANGED bufVars
        /\ UNCHANGED <<done, fields, bodies>> /\ WriteRest /\ written' = 0 /\ WriteState # 11
        /\ write_header_state' = IF WriteState = 10 THEN 7 ELSE WriteState + 1
        /\ current_dump_header' = current_dump_header + IF WriteState = 10 THEN 1 ELSE 0
    BY DEF WriteHeader, Pushing, WriteRest, FIELD_NAME, FIELD_SEPERATOR, END_FIELDS
  <1>2. input' = input /\ Good' = Good /\ Sought' = Sought /\ Unclaimed' = Unclaimed
    BY <1>1, StreamKept
  <1>3. /\ WriteState \in 1 .. 11 /\ (WriteState \in 7 .. 10 => current_dump_header < Len(fields))
        /\ current_dump_header \in Nat /\ Len(fields) \in Nat
        /\ write_header_state # WriteState => WriteState = 11
    BY <1>1, BytesToWrite
  <1>4. out' \in Seq(Bytes)
    BY <1>1, TextOut
  <1>5. CASE done < Len(Good)
    <2>1. PICK m : /\ m = input[done + 1] /\ PieceNow(m)
                   /\ Len(out') = OutBefore(done + 1)
                         + (PieceAt(m, WriteState, current_dump_header)
                            + Len(PieceOf(m, WriteState, current_dump_header)))
      BY <1>1, <1>5, TextOut
    <2>2. Holds(Sought, 0, out')
      BY <1>1, <1>5, TextOut
    <2>3. PICK s, d, p, e, f : s = WriteState /\ d = current_dump_header /\ p = PieceAt(m, s, d)
                         /\ e = p + Len(PieceOf(m, s, d)) /\ f = Len(fields)
      OBVIOUS
    <2>4. /\ s \in (1 .. 5) \cup (7 .. 9) => PieceAt(m, s + 1, d) = e
          /\ s = 6 => TextAt(m, 1) = e
          /\ s = 10 => TextAt(m, d + 2) = e
          /\ f = Len(m.fields) /\ f \in Nat /\ d \in Nat
      BY <1>3, <2>1, <2>3 DEF PieceNow, PieceFollows
    <2>5. s = 6 => d = 0
      <3>1. PICK b : b = Before(input, done + 1)
        OBVIOUS
      <3>2. Pushed(m, b)
        BY <1>1, <2>1, <3>1, PushedNow
      <3> QED BY <1>3, <2>3, <3>2 DEF Pushed
    <2>6. PieceAt(m, WriteState', current_dump_header') = e
      <3>1. CASE s \in (1 .. 5) \cup (7 .. 9)
        <4>1. write_header_state' = s + 1 /\ current_dump_header' = d /\ s + 1 # 7
          BY <1>1, <1>3, <2>3, <2>4, <3>1
        <4>2. WriteState' = s + 1
          BY <4>1 DEF WriteState, FIELD_NAME
        <4> QED BY <2>4, <3>1, <4>1, <4>2
      <3>2. CASE s = 6
        <4>1. write_header_state' = 7 /\ current_dump_header' = 0 /\ 0 + 1 = 1
          BY <1>1, <1>3, <2>3, <2>4, <2>5, <3>2
        <4>2. PieceAt(m, 7, 0) = TextAt(m, 1)
          BY DEF PieceAt
        <4>3. f = 0 => PieceAt(m, 11, 0) = TextAt(m, 1)
          BY <2>4 DEF PieceAt
        <4>4. WriteState' = IF f = 0 THEN 11 ELSE 7
          BY <1>1, <2>3, <4>1 DEF WriteState, FIELD_NAME, END_FIELDS
        <4> QED BY <2>4, <3>2, <4>1, <4>2, <4>3, <4>4
      <3>3. CASE s = 10
        <4>1. write_header_state' = 7 /\ current_dump_header' = d + 1 /\ d + 1 + 1 = d + 2
          BY <1>1, <1>3, <2>3, <2>4, <3>3
        <4>2. PieceAt(m, 7, d + 1) = TextAt(m, d + 2)
          BY <4>1 DEF PieceAt
        <4>3. f = d + 1 => PieceAt(m, 11, d + 1) = TextAt(m, d + 2)
          BY <2>4, <4>1 DEF PieceAt
        <4>4. WriteState' = IF f = d + 1 THEN 11 ELSE 7
          BY <1>1, <2>3, <4>1 DEF WriteState, FIELD_NAME, END_FIELDS
        <4> QED BY <2>4, <3>3, <4>1, <4>2, <4>3, <4>4
      <3> QED BY <1>1, <1>3, <2>3, <3>1, <3>2, <3>3
    <2>7. e \in Nat
      <3>1. p \in Nat /\ PieceOf(m, s, d) \in Seq(Bytes)
        BY <2>1, <2>3 DEF PieceNow, PieceStands
      <3>2. Len(PieceOf(m, s, d)) \in Nat
        BY <3>1
      <3> QED BY <2>3, <3>1, <3>2
    <2>8. Progress(m)' = e
      BY <1>1, <2>6, <2>7 DEF Progress
    <2>9. OutBefore(done + 1)' = OutBefore(done + 1)
      <3>1. PICK i : i = done + 1
        OBVIOUS
      <3>2. OutBefore(i)' = OutBefore(i)
        BY <1>2, OutBeforeKept
      <3> QED BY <1>1, <3>1, <3>2
    <2>10. Len(out') = OutBefore(done + 1)' + Progress(m)'
      BY <2>1, <2>3, <2>8, <2>9
    <2>11. OutExpected'
      BY <1>1, <1>2, <2>1, <2>2, <2>10 DEF OutExpected
    <2>12. Claimed'
      BY <1>1, <1>2, <1>5 DEF Claimed
    <2>13. OutInv'
      BY <1>4, <2>11, <2>12 DEF OutInv
    <2> QED BY <1>1, <1>2, <2>13, BodiesKept
  <1>6. CASE ~(done < Len(Good))
    <2>1. ~Claimed'
      BY <1>1, <1>2, <1>6 DEF Claimed
    <2>2. Unclaimed /\ Holds(out', 0, Sought)
      BY <1>1, <1>6, TextOut
    <2>3. OutInv'
      BY <1>2, <1>4, <2>1, <2>2 DEF OutInv
    <2> QED BY <1>1, <1>2, <2>3, BodiesKept
  <1> QED BY <1>5, <1>6

-----------------------------------------------------------------------------
(* The end of a header. *)

(* What the fields announce is what was found out when they were read. *)
LEMMA AnnouncedIs ==
    ASSUME NEW m \in Messages, Scanned(m, Len(m.fields))
    PROVE  [enc |-> body_encoding, size |-> IF body_encoding = "CONTENT_LENGTH" THEN message_size ELSE 0] = Announced(m)
  <1>1. PICK n : n = Len(m.fields)
    OBVIOUS
  <1>2. n \in Nat /\ DOMAIN m.fields = 1 .. n
    BY <1>1, MessageTypes
  <1>3. \A name : FieldsNamed(m, name) = {i \in 1 .. n : m.fields[i].name = name}
    BY <1>2 DEF FieldsNamed
  <1>4. HasChunked(m, n) <=> \E i \in FieldsNamed(m, TransferEncoding) : m.fields[i].value = Chunked
    BY <1>3 DEF HasChunked, IsChunked
  <1>5. CASE NoBody(m)
    <2>1. body_encoding = "NONE"
      BY <1>5 DEF Scanned
    <2> QED BY <1>5, <2>1 DEF Announced, NoBody
  <1>6. CASE ~NoBody(m) /\ HasChunked(m, n)
    <2>1. body_encoding = "CHUNKED"
      BY <1>1, <1>6 DEF Scanned, BodyScanned
    <2> QED BY <1>4, <1>6, <2>1 DEF Announced, NoBody
  <1>7. CASE ~NoBody(m) /\ ~HasChunked(m, n) /\ ~NoLength(m, n)
    <2>1. PICK j \in 1 .. n : body_encoding = "CONTENT_LENGTH" /\ LastLength(m, n, j)
                   /\ message_size = Number(m.fields[j].value)
      BY <1>1, <1>7 DEF Scanned, BodyScanned
    <2>2. PICK F : F = FieldsNamed(m, ContentLength)
      OBVIOUS
    <2>3. j \in F /\ F \in SUBSET Nat /\ \A k \in F : k <= j
      BY <1>2, <1>3, <2>1, <2>2 DEF LastLength
    <2>4. Max(F) = j
      <3>1. Max(F) \in F /\ \A k \in F : Max(F) >= k
        <4>1. \E x \in F : \A y \in F : x >= y
          BY <2>3
        <4> QED BY <4>1 DEF Max
      <3>2. PICK x : x = Max(F)
        OBVIOUS
      <3>3. x \in Nat /\ x >= j /\ x <= j /\ j \in Nat
        BY <2>3, <3>1, <3>2
      <3>4. x = j
        BY <3>3
      <3> QED BY <3>2, <3>4
    <2>5. Announced(m) = [enc |-> "CONTENT_LENGTH", size |-> Number(m.fields[Max(F)].value)]
      BY <1>4, <1>7, <2>2, <2>3 DEF Announced, NoBody
    <2> QED BY <2>1, <2>4, <2>5
  <1>8. CASE ~NoBody(m) /\ ~HasChunked(m, n) /\ NoLength(m, n)
    <2>1. FieldsNamed(m, ContentLength) = {}
      BY <1>3, <1>8 DEF NoLength
    <2>2. ~\E j \in 1 .. n : LastLength(m, n, j)
      BY <1>8 DEF NoLength, LastLength
    <2>3. body_encoding = DefaultEncoding(m.type)
      BY <1>1, <1>8, <2>2 DEF Scanned, BodyScanned
    <2>4. body_encoding # "CONTENT_LENGTH"
              /\ body_encoding = IF m.type = "REQUEST" THEN "NONE" ELSE "END_CONNECTION"
      BY <2>3 DEF DefaultEncoding
    <2>5. Announced(m) = [enc |-> IF m.type = "REQUEST" THEN "NONE" ELSE "END_CONNECTION", size |-> 0]
      BY <1>4, <1>8, <2>1 DEF Announced, NoBody
    <2> QED BY <2>4, <2>5
  <1> QED BY <1>5, <1>6, <1>7, <1>8

(* The header is out, and the body parser is told. *)
LEMMA EndHeaderBodies ==
    ASSUME HeaderInv, FramedInputs, Stream, Place, BodiesInv, EndHeader
    PROVE  BodiesInv'
  <1>1. /\ message_state = "PUSH_HEADER" /\ UNCHANGED bufVars
        /\ bodies' = Append(bodies, [enc |-> body_encoding,
                                     size |-> IF body_encoding = "CONTENT_LENGTH" THEN message_size ELSE 0])
        /\ \/ done' = done + 1 /\ message_state' = "PARSE_HEADER"
           \/ done' = done /\ message_state' = "PARSE_BODY"
    BY DEF EndHeader, Pushing
  <1>2. input' = input /\ Good' = Good
    BY <1>1, StreamKept
  <1>3. PICK n, m, b, e : n = done + 1 /\ m = input[n] /\ b = Before(input, n)
                    /\ e = [enc |-> body_encoding,
                            size |-> IF body_encoding = "CONTENT_LENGTH" THEN message_size ELSE 0]
    OBVIOUS
  <1>4. done \in Nat /\ Pushed(m, b) /\ At(m, b) /\ WellFramed(input)
    BY <1>1, <1>3, PushedNow
  <1>5. Len(bodies) = done /\ BodyAnnounced /\ \E S : bodies \in Seq(S)
    BY <1>1, <1>4 DEF BodiesInv
  <1>6. n <= Len(Good) => e = Announced(Good[n])
    <2> SUFFICES ASSUME n <= Len(Good) PROVE e = Announced(Good[n])
      OBVIOUS
    <2>1. Len(Good) \in Nat /\ \A i \in 1 .. Len(Good) : Good[i] = input[i] /\ WellFormed(input[i])
      BY <1>4, GoodFacts
    <2>2. n \in 1 .. Len(Good)
      BY <1>3, <1>4, <2>1
    <2>3. Good[n] = m /\ WellFormed(m)
      BY <1>3, <2>1, <2>2
    <2>4. ~Continued(m)
      BY <2>3 DEF WellFormed
    <2>5. Scanned(m, Len(m.fields)) /\ m \in Messages
      BY <1>4, <2>4 DEF Pushed, Content, At
    <2>6. e = Announced(m)
      BY <1>3, <2>5, AnnouncedIs
    <2> QED BY <2>3, <2>6
  <1>7. PICK B, B2 : B = bodies /\ B2 = bodies'
    OBVIOUS
  <1>8. (\E S : B2 \in Seq(S)) /\ DOMAIN B2 = 1 .. n /\ Len(B2) = n /\ B2[n] = e
            /\ \A i \in 1 .. n - 1 : B2[i] = B[i] /\ i \in DOMAIN B
    <2>1. B2 = Append(B, e) /\ Len(B) = done
      BY <1>1, <1>3, <1>5, <1>7
    <2>2. PICK S, T : B \in Seq(S) /\ T = S \cup {e}
      BY <1>5, <1>7
    <2>3. B \in Seq(T) /\ e \in T
      <3>1. S \subseteq T /\ e \in T
        BY <2>2
      <3> QED BY <2>2, <3>1, SeqMonotonic
    <2>4. /\ Append(B, e) \in Seq(T) /\ Len(Append(B, e)) = done + 1 /\ Append(B, e)[done + 1] = e
          /\ \A i \in 1 .. done : Append(B, e)[i] = B[i]
      BY <1>4, <2>1, <2>3
    <2>5. B2 \in Seq(T) /\ DOMAIN B2 = 1 .. Len(B2) /\ DOMAIN B = 1 .. Len(B)
      BY <2>1, <2>3, <2>4
    <2> QED BY <1>3, <1>4, <2>1, <2>4, <2>5
  <1> QED BY <1>1, <1>2, <1>3, <1>5, <1>6, <1>7, <1>8 DEF BodiesInv, BodyAnnounced

(* EndHeader: all of the header is out. *)
LEMMA EndHeaderOut ==
    ASSUME HeaderInv, FramedInputs, Stream, Place, OutInv, EndHeader
    PROVE  OutInv'
  <1>1. /\ message_state = "PUSH_HEADER" /\ UNCHANGED bufVars /\ WriteRest /\ WriteState = 11
        /\ \/ done' = done + 1 /\ message_state' = "PARSE_HEADER"
           \/ done' = done /\ message_state' = "PARSE_BODY"
    BY DEF EndHeader, Pushing, END_FIELDS
  <1>2. input' = input /\ Good' = Good /\ Sought' = Sought /\ Unclaimed' = Unclaimed /\ WellFramed(input)
    BY <1>1, StreamKept, InputFramed
  <1>3. out' \in Seq(Bytes)
    BY <1>1, TextOut
  <1>4. done \in Nat /\ Len(Good) \in Nat
    BY <1>1, <1>2, PushedNow, GoodFacts
  <1>5. CASE done < Len(Good)
    <2>1. PICK m : /\ m = input[done + 1] /\ PieceNow(m)
                   /\ Len(out') = OutBefore(done + 1)
                         + (PieceAt(m, WriteState, current_dump_header)
                            + Len(PieceOf(m, WriteState, current_dump_header)))
      BY <1>1, <1>5, TextOut
    <2>2. Holds(Sought, 0, out')
      BY <1>1, <1>5, TextOut
    <2>3. Len(out') = OutBefore(done + 1) + Len(Rendered(m))
      BY <1>1, <2>1 DEF PieceNow, PieceFollows
    <2>4. OutBefore(done + 1 + 1) = OutBefore(done + 1) + Len(Rendered(m))
      BY <2>1 DEF PieceNow
    <2>5. \A i : OutBefore(i)' = OutBefore(i)
      BY <1>2, OutBeforeKept
    <2>6. PICK n : n = done
      OBVIOUS
    <2>7. OutBefore(n + 1)' = OutBefore(n + 1) /\ OutBefore(n + 1 + 1)' = OutBefore(n + 1 + 1)
      BY <2>5
    <2>8. CASE done' = done + 1 /\ message_state' = "PARSE_HEADER"
      <3>1. OutBefore(done + 1)' = OutBefore(n + 1 + 1)
        <4>1. done' + 1 = n + 1 + 1
          BY <2>6, <2>8
        <4> QED BY <1>2, <2>7, <4>1 DEF OutBefore
      <3>2. OutExpected'
        BY <1>2, <2>2, <2>3, <2>4, <2>6, <2>8, <3>1 DEF OutExpected
      <3>3. Claimed'
        BY <1>2, <1>4, <1>5, <2>8 DEF Claimed
      <3> QED BY <1>3, <3>2, <3>3 DEF OutInv
    <2>9. CASE done' = done /\ message_state' = "PARSE_BODY"
      <3>1. OutBefore(done + 1)' = OutBefore(n + 1)
        BY <1>2, <2>6, <2>7, <2>9 DEF OutBefore
      <3>2. Progress(m)' = Len(Rendered(m))
        BY <2>9 DEF Progress
      <3>3. OutExpected'
        BY <1>2, <2>1, <2>2, <2>3, <2>6, <2>9, <3>1, <3>2 DEF OutExpected
      <3>4. Claimed'
        BY <1>2, <1>5, <2>9 DEF Claimed
      <3> QED BY <1>3, <3>3, <3>4 DEF OutInv
    <2> QED BY <1>1, <2>8, <2>9
  <1>6. CASE ~(done < Len(Good))
    <2>1. ~Claimed'
      BY <1>1, <1>2, <1>4, <1>6 DEF Claimed
    <2>2. Unclaimed /\ Holds(out', 0, Sought)
      BY <1>1, <1>6, TextOut
    <2> QED BY <1>2, <1>3, <2>1, <2>2 DEF OutInv
  <1> QED BY <1>5, <1>6

(* EndHeader: the next message is looked for where it begins. *)
LEMMA EndHeaderPlace ==
    ASSUME FramedInputs, ~CutStartLine, HeaderInv, Stream, Place, EndHeader
    PROVE  Stream' /\ Place'
  <1>1. /\ pc = "process" /\ message_state = "PUSH_HEADER" /\ UNCHANGED bufVars
    BY DEF EndHeader, Pushing
  <1>2. Stream' /\ Base' = Base /\ End' = End /\ input' = input
    BY <1>1, StreamKept
  <1>3. PICK n, ms, i, m, b : n = done /\ ms = input /\ i = n + 1 /\ m = ms[i] /\ b = Before(ms, i)
    OBVIOUS
  <1>4. /\ n \in Nat /\ i \in 1 .. Len(ms) /\ n < Len(ms) /\ Len(ms) \in Nat /\ Pushed(m, b) /\ At(m, b)
        /\ WellFramed(ms)
    BY <1>1, <1>3, PushedNow
  <1>5. Here = b + Len(Wire(m)) /\ Here = Base + process_position
    BY <1>1, <1>4 DEF Pushed, Here
  <1>6. CASE body_encoding # "NONE"
    <2>1. message_state' = "PARSE_BODY" /\ pc' = "process" /\ done' = n
      BY <1>1, <1>3, <1>6 DEF EndHeader
    <2>2. Placed(m, b)'
      BY <2>1 DEF Placed
    <2>3. n \in 0 .. Len(ms)
      BY <1>4
    <2>4. Place'
      BY <1>2, <1>3, <1>4, <2>1, <2>2, <2>3, PlaceGoes
    <2> QED BY <1>2, <2>4
  <1>7. CASE body_encoding = "NONE"
    <2>1. /\ done' = i /\ message_state' = "PARSE_HEADER" /\ ResetParser /\ ResetHandler /\ Enter(process_position)
      BY <1>3, <1>7 DEF EndHeader
    <2>2. PICK c : c = Before(ms, i + 1)
      OBVIOUS
    <2>3. c = Here /\ c \in Nat
      BY <1>3, <1>4, <1>5, <2>2, MessagePlace
    <2>4. /\ pc' = "process" /\ current_state' = "STATUS_LINE" /\ status_line_state' = 1 /\ current_length' = 0
          /\ (\A k \in 1 .. 3 : line'[k] = <<>>) /\ fields' = <<>> /\ current_field' = 0
          /\ offset' = process_position /\ line_offset' = process_position
      BY <2>1 DEF ResetParser, ResetHandler, ResetMessage, Enter
    <2>5. Unscanned'
      BY <1>2, <2>1 DEF Unscanned, ResetHandler, Type
    <2>6. Here' = c /\ Base' + offset' = c
      BY <1>2, <1>5, <2>1, <2>3, <2>4 DEF Here
    <2>7. i \in 0 .. Len(ms)
      BY <1>4
    <2>8. PositionInv /\ End \in Nat /\ c <= End /\ End <= Len(Sent(ms)) /\ Len(Sent(ms)) \in Nat
      <3>1. PositionInv /\ process_position \in 0 .. Len(raw)
        BY DEF HeaderInv, PositionInv
      <3>2. Base \in Nat /\ End \in Nat /\ End = Base + Len(raw) /\ Len(raw) \in Nat /\ End <= Len(Sent(ms))
            /\ Len(Sent(ms)) \in Nat
        BY <1>3, <3>1, BufferSent
      <3> QED BY <1>5, <2>3, <3>1, <3>2
    <2>9. CASE c = End
      <3>1. Waiting(c)'
        BY <1>2, <2>1, <2>4, <2>5, <2>6, <2>9 DEF Waiting, Idle
      <3>2. Place'
        BY <1>2, <1>3, <2>1, <2>2, <2>7, <3>1, PlaceGoes
      <3> QED BY <1>2, <3>2
    <2>10. CASE c # End
      <3>1. c < End
        BY <2>3, <2>8, <2>10
      <3>2. i < Len(ms)
        <4> SUFFICES ASSUME ~(i < Len(ms)) PROVE FALSE
          OBVIOUS
        <4>1. i = Len(ms)
          BY <1>4
        <4>2. c = Len(Sent(ms))
          BY <1>4, <2>2, <4>1, Ends
        <4> QED BY <2>3, <2>8, <3>1, <4>2
      <3>3. PICK j, m2 : j = i + 1 /\ m2 = ms[j]
        OBVIOUS
      <3>4. j \in 1 .. Len(ms)
        BY <1>4, <3>2, <3>3
      <3>5. At(m2, c)
        BY <1>3, <2>2, <3>3, <3>4, MessageAt
      <3>6. c + Len(StartLine(m2)) <= End'
        BY <1>2, <1>3, <2>2, <2>8, <3>1, <3>3, <3>4, LineWhole
      <3>7. Begins(m2, c)'
        BY <2>1, <2>4, <2>5, <2>6, <3>6 DEF Begins
      <3>8. Placed(m2, c)'
        BY <3>5, <3>7, LineBegins, MessageBegins
      <3>9. Place'
        BY <1>2, <1>3, <2>1, <2>2, <2>7, <3>2, <3>3, <3>8, PlaceGoes
      <3> QED BY <1>2, <3>9
    <2> QED BY <2>9, <2>10
  <1> QED BY <1>6, <1>7

-----------------------------------------------------------------------------
(* All steps. *)

ParseKept ==
    /\ UNCHANGED bufVars /\ UNCHANGED <<done, out, bodies>> /\ message_state = "PARSE_HEADER"
    /\ \/ message_state' = "PARSE_HEADER"
       \/ /\ message_state' = "PUSH_HEADER"
          /\ write_header_state' = 1 /\ current_dump_header' = 0 /\ written' = 0

(* What all steps of the parser have in common. *)
LEMMA ParseKeeps ==
    ASSUME Parse
    PROVE  ParseKept
  <1> USE DEF ParseKept, Parsing, writerVars
  <1>1. CASE ParseStatusToken \/ ParseStatusLF
    BY <1>1 DEF ParseStatusToken, ParseStatusLF
  <1>2. CASE EndHeadersCR \/ FieldName \/ FieldValueLeadingLWS
    BY <1>2 DEF EndHeadersCR, FieldName, FieldValueLeadingLWS
  <1>3. CASE FieldValueContent \/ FieldValueLF \/ FieldValueLWS
    BY <1>3 DEF FieldValueContent, FieldValueLF, FieldValueLWS
  <1>4. CASE EndHeadersLF
    BY <1>4 DEF EndHeadersLF, ResetWriter, START_LINE_TOKEN1
  <1> QED BY <1>1, <1>2, <1>3, <1>4 DEF Parse

(* Place is kept by the parser. *)
LEMMA ParsePlace ==
    ASSUME HeaderInv, FramedInputs, Stream, Place, Parse
    PROVE  Place'
  <1>1. done' = done /\ input' = input
    BY ParseKeeps DEF ParseKept, bufVars
  <1>2. PICK n, ms, b : n = done /\ ms = input /\ b = Before(ms, n + 1)
    OBVIOUS
  <1>3. n \in 0 .. Len(ms) /\ (Waiting(b) \/ (n < Len(ms) /\ \E m : m = ms[n + 1] /\ Placed(m, b)))
    BY <1>2 DEF Place
  <1>4. Len(ms) \in Nat
    BY <1>2, InputFramed, InputTexts
  <1>5. CASE Waiting(b)
    <2>1. Waiting(b)'
      BY <1>5, ParseWaits
    <2> QED BY <1>1, <1>2, <1>3, <2>1, PlaceGoes
  <1>6. CASE n < Len(ms) /\ \E m : m = ms[n + 1] /\ Placed(m, b)
    <2>1. PICK m : m = ms[n + 1] /\ Placed(m, b)
      BY <1>6
    <2>2. n + 1 \in 1 .. Len(ms)
      BY <1>3, <1>4, <1>6
    <2>3. At(m, b)
      BY <1>2, <2>1, <2>2, MessageAt
    <2>4. Placed(m, b)'
      BY <2>1, <2>3, ParseStep
    <2> QED BY <1>1, <1>2, <1>3, <1>6, <2>1, <2>4, PlaceGoes
  <1> QED BY <1>3, <1>5, <1>6

(* When the header is complete nothing of it is out. *)
LEMMA ParseOut ==
    ASSUME HeaderInv, FramedInputs, Stream, Place, OutInv, BodiesInv, Parse
    PROVE  OutInv' /\ BodiesInv'
  <1>1. /\ done' = done /\ out' = out /\ bodies' = bodies /\ message_state = "PARSE_HEADER"
        /\ UNCHANGED bufVars
        /\ \/ message_state' = "PARSE_HEADER"
           \/ /\ message_state' = "PUSH_HEADER"
              /\ write_header_state' = 1 /\ current_dump_header' = 0 /\ written' = 0
    BY ParseKeeps DEF ParseKept
  <1>2. input' = input /\ Good' = Good /\ Sought' = Sought /\ Unclaimed' = Unclaimed /\ WellFramed(input)
    BY <1>1, StreamKept, InputFramed
  <1>3. BodiesInv'
    BY <1>1, <1>2, BodiesKept
  <1>4. PICK n : n = done
    OBVIOUS
  <1>5. OutBefore(n + 1)' = OutBefore(n + 1)
    BY <1>2, OutBeforeKept
  <1>6. OutBefore(done + 1)' = OutBefore(done + 1)
    BY <1>1, <1>2 DEF OutBefore
  <1>7. CASE message_state' = "PARSE_HEADER"
    <2>1. Claimed' <=> Claimed
      BY <1>1, <1>2, <1>7 DEF Claimed
    <2>2. OutExpected => OutExpected'
      BY <1>1, <1>2, <1>6, <1>7 DEF OutExpected
    <2>3. OutInv'
      BY <1>1, <1>2, <2>1, <2>2 DEF OutInv
    <2> QED BY <1>3, <2>3
  <1>8. CASE message_state' = "PUSH_HEADER"
    <2>1. PICK m, b : m = input[n + 1] /\ b = Before(input, n + 1)
      OBVIOUS
    <2>2. Place'
      BY ParsePlace
    <2>3. n \in 0 .. Len(input) /\ n < Len(input) /\ Placed(m, b)' /\ Len(input) \in Nat
      <3>1. n \in 0 .. Len(input) /\ n < Len(input) /\ Placed(m, b)'
        BY <1>1, <1>2, <1>4, <1>8, <2>1, <2>2 DEF Place, Waiting
      <3> QED BY <1>2, <3>1, InputTexts
    <2>4. Pushed(m, b)'
      BY <1>8, <2>3 DEF Placed
    <2>5. ~Continued(m) => WellFormed(m)
      BY <2>4 DEF Pushed
    <2>6. /\ Len(Good) \in Nat /\ (Len(Good) < Len(input) => ~WellFormed(input[Len(Good) + 1]))
          /\ (Good # input <=> Len(Good) < Len(input))
      BY <1>2, GoodFacts
    <2>7. CASE n < Len(Good)
      <3>1. Claimed /\ Claimed'
        BY <1>1, <1>2, <1>4, <2>7 DEF Claimed
      <3>2. Holds(Sought, 0, out) /\ Len(out) = OutBefore(n + 1)
        BY <1>1, <1>4, <3>1 DEF OutInv, OutExpected
      <3>3. Progress(m)' = 0
        <4>1. WriteState' = 1 /\ PieceAt(m, 1, 0) = 0
          BY <1>1, <1>8 DEF WriteState, FIELD_NAME, PieceAt
        <4> QED BY <1>1, <1>8, <4>1 DEF Progress
      <3>4. OutBefore(n + 1) \in Nat
        <4>1. n + 1 \in 1 .. Len(Good)
          BY <2>3, <2>6, <2>7
        <4> QED BY <1>2, <4>1, TextPlace
      <3>5. Len(out') = OutBefore(done + 1)' + Progress(m)'
        BY <1>1, <1>4, <1>6, <3>2, <3>3, <3>4
      <3>6. OutExpected'
        BY <1>1, <1>2, <1>4, <1>8, <2>1, <3>2, <3>5 DEF OutExpected
      <3>7. OutInv'
        BY <1>1, <3>1, <3>6 DEF OutInv
      <3> QED BY <1>3, <3>7
    <2>8. CASE ~(n < Len(Good))
      <3>1. ~Claimed'
        BY <1>1, <1>2, <1>4, <1>8, <2>8 DEF Claimed
      <3>2. CASE ~Claimed
        <4>1. OutInv'
          BY <1>1, <1>2, <3>1, <3>2 DEF OutInv
        <4> QED BY <1>3, <4>1
      <3>3. CASE Claimed
        <4>1. n = Len(Good)
          BY <1>4, <2>8, <3>3 DEF Claimed
        <4>2. Unclaimed
          BY <2>1, <2>3, <2>5, <2>6, <4>1 DEF Unclaimed
        <4>3. Holds(Sought, 0, out) /\ Len(out) = OutBefore(n + 1) /\ out \in Seq(Bytes)
          BY <1>1, <1>4, <3>3 DEF OutInv, OutExpected
        <4>4. OutBefore(n + 1) = Len(Sought) /\ Len(Sought) \in Nat
          BY <1>2, <4>1, TextEnds
        <4>5. Holds(out, 0, Sought)
          <5>1. PICK w, o : w = Sought /\ o = out
            OBVIOUS
          <5>2. Len(o) = Len(w) /\ Len(w) \in Nat /\ \A j \in 1 .. Len(o) : w[0 + j] = o[j]
            BY <4>3, <4>4, <5>1 DEF Holds
          <5>3. Holds(o, 0, w)
            BY <5>2 DEF Holds
          <5> QED BY <5>1, <5>3
        <4>6. OutInv'
          BY <1>1, <1>2, <3>1, <4>2, <4>3, <4>5 DEF OutInv
        <4> QED BY <1>3, <4>6
      <3> QED BY <3>2, <3>3
    <2> QED BY <2>7, <2>8
  <1> QED BY <1>1, <1>7, <1>8

(* Reads write nothing. *)
LEMMA ReadOut ==
    ASSUME HeaderInv, Stream, OutInv, BodiesInv, Place, ReadData \/ SkipRead
    PROVE  OutInv' /\ BodiesInv'
  <1>1. ReadKept /\ done' = done
    BY ReadsKeep
  <1>2. out' = out /\ bodies' = bodies /\ written' = written
    BY DEF ReadData, SkipRead, writerVars
  <1>3. input' = input /\ message_state' = message_state /\ fields' = fields /\ pc = "read"
        /\ write_header_state' = write_header_state /\ current_dump_header' = current_dump_header
    BY <1>1 DEF ReadKept
  <1>4. Good' = Good
    BY <1>3 DEF Good
  <1>5. Sought' = Sought /\ Unclaimed' = Unclaimed /\ OutBefore(done + 1)' = OutBefore(done + 1)
    BY <1>1, <1>3, <1>4 DEF Sought, Unclaimed, OutBefore
  <1>6. WriteState' = WriteState
    BY <1>3 DEF WriteState
  <1>7. PICK m : m = input[done + 1]
    OBVIOUS
  <1>8. Progress(m)' = Progress(m)
    BY <1>2, <1>3, <1>6 DEF Progress
  <1>9. OutExpected => OutExpected'
    BY <1>1, <1>2, <1>3, <1>5, <1>7, <1>8 DEF OutExpected
  <1>10. Claimed' <=> Claimed
    BY <1>1, <1>3, <1>4 DEF Claimed
  <1>11. OutInv'
    BY <1>2, <1>5, <1>9, <1>10 DEF OutInv
  <1>12. BodiesInv'
    BY <1>1, <1>2, <1>3, <1>4 DEF BodiesInv, BodyAnnounced
  <1> QED BY <1>11, <1>12

(* The invariant holds initially ... *)
LEMMA RelayInit ==
    ASSUME FramedInputs, Init
    PROVE  RelayInv
  <1>1. /\ pc = "read" /\ input \in Inputs /\ unread = Sent(input) /\ raw = <<>> /\ process_position = 0
        /\ message_state = "PARSE_HEADER" /\ done = 0 /\ out = <<>> /\ bodies = <<>>
    BY DEF Init
  <1>2. WellFramed(input)
    BY <1>1 DEF FramedInputs, WellFramed
  <1>3. Sent(input) \in Seq(Bytes) /\ Len(Sent(input)) \in Nat /\ Len(input) \in Nat
            /\ DOMAIN input = 1 .. Len(input)
    BY <1>2, InputTexts
  <1>4. Len(raw) = 0 /\ Base = 0 /\ End = 0
    <2>1. Len(raw) = 0
      BY <1>1
    <2>2. PICK l : l = Len(Sent(input))
      OBVIOUS
    <2>3. Base = l - l - 0
      BY <1>1, <2>1, <2>2 DEF Base
    <2>4. Base = 0
      BY <1>3, <2>2, <2>3
    <2> QED BY <2>1, <2>4 DEF End
  <1>5. Stream
    <2>1. Holds(Sent(input), 0, raw)
      BY <1>3, <1>4 DEF Holds
    <2>2. Holds(Sent(input), 0, unread)
      BY <1>1, <1>3, HoldsSelf
    <2>3. ~InStartLine(0)
      <3> SUFFICES ASSUME NEW i \in 1 .. Len(input), Len(Sent(SubSeq(input, 1, i - 1))) < 0 PROVE FALSE
        BY <1>3 DEF InStartLine
      <3>1. Len(Sent(SubSeq(input, 1, i - 1))) = Before(input, i)
        BY <1>2, SentBefore
      <3>2. Before(input, i) \in Nat
        BY <1>2, MessagePlace
      <3> QED BY <3>1, <3>2
    <2> QED BY <1>1, <1>4, <2>1, <2>2, <2>3 DEF Stream
  <1>6. Place
    <2>1. Before(input, 0 + 1) = 0
      BY <1>2, Ends
    <2>2. Unscanned /\ Here = 0
      BY <1>1, <1>4 DEF Init, Unscanned, Here
    <2>3. Waiting(0)
      BY <1>1, <1>4, <2>2 DEF Init, Waiting, Idle
    <2> QED BY <1>1, <1>3, <2>1, <2>3 DEF Place
  <1>7. OutInv
    <2>1. Len(Good) \in Nat /\ Sought \in Seq(Bytes) /\ Len(Sought) \in Nat /\ OutBefore(1) = 0
      BY <1>2, GoodFacts, TextEnds
    <2>2. out \in Seq(Bytes) /\ Len(out) = 0
      BY <1>1
    <2>3. Holds(Sought, 0, out)
      BY <2>1, <2>2 DEF Holds
    <2>4. OutExpected
      BY <1>1, <2>1, <2>2, <2>3 DEF OutExpected
    <2>5. Claimed
      BY <1>1, <2>1 DEF Claimed
    <2> QED BY <2>2, <2>4, <2>5 DEF OutInv
  <1>8. BodiesInv
    <2>1. bodies \in Seq({}) /\ Len(bodies) = 0 /\ DOMAIN bodies = {}
      BY <1>1
    <2> QED BY <1>1, <2>1 DEF BodiesInv, BodyAnnounced
  <1> QED BY <1>5, <1>6, <1>7, <1>8 DEF RelayInv

(* ... and every step keeps it. *)
LEMMA RelayStep ==
    ASSUME FramedInputs, ~CutStartLine, HeaderInv, RelayInv, [Next]_vars
    PROVE  RelayInv'
  <1>1. Stream /\ Place /\ OutInv /\ BodiesInv
    BY DEF RelayInv
  <1>2. CASE ReadData \/ SkipRead
    BY <1>1, <1>2, ReadsKeep, ReadPlace, ReadOut DEF RelayInv
  <1>3. CASE Parse
    <2>1. Stream'
      BY <1>1, <1>3, ParseKeeps, StreamKept DEF ParseKept
    <2> QED BY <1>1, <1>3, <2>1, ParsePlace, ParseOut DEF RelayInv
  <1>4. CASE WriteBlocks
    BY <1>1, <1>4, WritePlace, WriteBlocksOut DEF RelayInv
  <1>5. CASE WriteHeader
    BY <1>1, <1>5, WritePlace, WriteHeaderOut DEF RelayInv
  <1>6. CASE EndHeader
    BY <1>1, <1>6, EndHeaderPlace, EndHeaderOut, EndHeaderBodies DEF RelayInv
  <1>7. CASE UNCHANGED vars
    <2>1. /\ UNCHANGED <<pc, message_state, done, process_position, line, fields, current_field>>
          /\ UNCHANGED <<bufVars, parserVars, scanVars, writerVars>>
      BY <1>7 DEF vars
    <2>2. /\ input' = input /\ unread' = unread /\ raw' = raw /\ current_state' = current_state
          /\ status_line_state' = status_line_state /\ current_length' = current_length
          /\ offset' = offset /\ line_offset' = line_offset
          /\ have_host_header' = have_host_header
          /\ ignore_body_encoding_headers' = ignore_body_encoding_headers
          /\ body_encoding' = body_encoding /\ message_size' = message_size
          /\ write_header_state' = write_header_state /\ current_dump_header' = current_dump_header
          /\ written' = written /\ out' = out /\ bodies' = bodies
          /\ pc' = pc /\ message_state' = message_state /\ done' = done
          /\ process_position' = process_position /\ line' = line /\ fields' = fields
          /\ current_field' = current_field
      BY <2>1 DEF bufVars, parserVars, scanVars, writerVars
    <2>3. Stream' /\ Base' = Base /\ End' = End /\ Good' = Good /\ Sought' = Sought /\ Unclaimed' = Unclaimed
      BY <1>1, <2>1, StreamKept
    <2>4. Here' = Here
      BY <2>2, <2>3 DEF Here
    <2>5. \A m, b : Placed(m, b)' <=> Placed(m, b)
      <3> SUFFICES ASSUME NEW m, NEW b PROVE Placed(m, b)' <=> Placed(m, b)
        OBVIOUS
      <3>1. Content(m)' <=> Content(m)
        BY <2>2 DEF Content, LineRead, FieldsRead, Scanned, BodyScanned
      <3>2. InLine(m, b)' <=> InLine(m, b)
        BY <2>2, <2>3, <2>4 DEF InLine, LineRead, Scanned, BodyScanned, Unscanned, Type
      <3>3. /\ BetweenFields(m, b)' <=> BetweenFields(m, b)
            /\ AtEnd(m, b)' <=> AtEnd(m, b)
            /\ AtLineFeed(m, b)' <=> AtLineFeed(m, b)
        BY <2>2, <2>4, <3>1 DEF BetweenFields, AtEnd, AtLineFeed
      <3>4. InName(m, b)' <=> InName(m, b)
        BY <2>2, <2>4, <3>1 DEF InName, NameSoFar, ValueSoFar
      <3>5. /\ InPad(m, b)' <=> InPad(m, b)
            /\ InValue(m, b)' <=> InValue(m, b)
        BY <2>2, <2>4, <3>1 DEF InPad, InValue, Named
      <3>6. /\ InContinuation(m)' <=> InContinuation(m)
            /\ Doomed(m)' <=> Doomed(m)
        BY <2>2, <2>3, <2>4 DEF InContinuation, Doomed
      <3>7. Pushed(m, b)' <=> Pushed(m, b)
        BY <2>2, <2>4, <3>1 DEF Pushed
      <3> QED BY <2>2, <3>2, <3>3, <3>4, <3>5, <3>6, <3>7 DEF Placed, InMessage
    <2>6. \A b : Waiting(b)' <=> Waiting(b)
      BY <2>2, <2>3, <2>4 DEF Waiting, Idle, Unscanned, Type
    <2>7. Place'
      BY <1>1, <2>2, <2>5, <2>6 DEF Place
    <2>8. OutInv'
      <3>1. OutBefore(done + 1)' = OutBefore(done + 1) /\ WriteState' = WriteState
        BY <2>2, <2>3 DEF OutBefore, WriteState
      <3>2. Progress(input[done + 1])' = Progress(input[done + 1])
        BY <2>2, <3>1 DEF Progress
      <3>3. OutExpected' <=> OutExpected
        BY <2>2, <2>3, <3>1, <3>2 DEF OutExpected
      <3>4. Claimed' <=> Claimed
        BY <2>2, <2>3 DEF Claimed
      <3> QED BY <1>1, <2>2, <2>3, <3>3, <3>4 DEF OutInv
    <2>9. BodiesInv'
      BY <1>1, <2>2, <2>3 DEF BodiesInv, BodyAnnounced
    <2> QED BY <2>3, <2>7, <2>8, <2>9 DEF RelayInv
  <1> QED BY <1>2, <1>3, <1>4, <1>5, <1>6, <1>7 DEF Next, Write

(* It says what the three properties say. *)
LEMMA Relayed ==
    ASSUME FramedInputs, RelayInv
    PROVE  HeadersRelayed /\ BodyAnnounced /\ OnlyBadRefused
  <1>1. WellFramed(input) /\ Place /\ OutInv /\ BodiesInv
    BY InputFramed DEF RelayInv
  <1>2. Sought = FlattenSeq([i \in DOMAIN Good |-> Rendered(Good[i])])
    BY DEF Sought, Texts
  <1>3. Sought \in Seq(Bytes) /\ out \in Seq(Bytes)
    BY <1>1, TextEnds DEF OutInv
  <1>4. IsPrefix(out, Sought) \/ (Unclaimed /\ IsPrefix(Sought, out))
    <2>1. CASE Claimed
      <3>1. Holds(Sought, 0, out)
        BY <1>1, <2>1 DEF OutInv, OutExpected
      <3> QED BY <1>3, <3>1, HoldsPrefix
    <2>2. CASE ~Claimed
      <3>1. Unclaimed /\ Holds(out, 0, Sought)
        BY <1>1, <2>2 DEF OutInv
      <3> QED BY <1>3, <3>1, HoldsPrefix
    <2> QED BY <2>1, <2>2
  <1>5. HeadersRelayed
    BY <1>2, <1>4, Zenon DEF HeadersRelayed
  <1>6. OnlyBadRefused
    BY <1>1 DEF Place, Waiting, Placed, OnlyBadRefused
  <1> QED BY <1>1, <1>5, <1>6 DEF BodiesInv

(* It is an invariant, together with the one of the buffers. *)
LEMMA RelayKept ==
    ASSUME FramedInputs, ~CutStartLine
    PROVE  Spec => [](HeaderInv /\ RelayInv)
  <1>1. Init => HeaderInv /\ RelayInv
    BY HeaderInit, RelayInit
  <1>2. (HeaderInv /\ RelayInv) /\ [Next]_vars => (HeaderInv /\ RelayInv)'
    BY HeaderStep, RelayStep
  <1> QED BY <1>1, <1>2, PTL DEF Spec

(***************************************************************************)
(* However the headers are cut into reads and writes, what is written is   *)
(* each of them, field by field in their order, with one blank in front of *)
(* every value, and nothing of one that must be refused; for any number of *)
(* messages of any length and for every size of the buffers, up to a       *)
(* continuation line.  CutStartLine is excluded because the code loses a   *)
(* start line that is cut.                                                 *)
(***************************************************************************)
THEOREM HeadersAreRelayed ==
    ASSUME FramedInputs, ~CutStartLine
    PROVE  Spec => []HeadersRelayed
  <1>1. HeaderInv /\ RelayInv => HeadersRelayed
    BY Relayed
  <1> QED BY <1>1, RelayKept, PTL

(***************************************************************************)
(* Under the same hypotheses body_parser::reset() is given the encoding    *)
(* and the length that the fields of that message announce, in whichever   *)
(* order they came and whatever the message before it had.                 *)
(***************************************************************************)
THEOREM BodiesAreAnnounced ==
    ASSUME FramedInputs, ~CutStartLine
    PROVE  Spec => []BodyAnnounced
  <1>1. HeaderInv /\ RelayInv => BodyAnnounced
    BY Relayed
  <1> QED BY <1>1, RelayKept, PTL

(***************************************************************************)
(* Under the same hypotheses a message is refused only if it is not well   *)
(* formed, never for how it was cut into reads, and get_header() aborts    *)
(* only at a continuation line.                                            *)
(***************************************************************************)
THEOREM OnlyBadAreRefused ==
    ASSUME FramedInputs, ~CutStartLine
    PROVE  Spec => []OnlyBadRefused
  <1>1. HeaderInv /\ RelayInv => OnlyBadRefused
    BY Relayed
  <1> QED BY <1>1, RelayKept, PTL

================================================================================
