---------------------------- MODULE MCHeaderParser ----------------------------
(***************************************************************************)
(* Instances of HeaderParser for TLC.                                      *)
(***************************************************************************)
EXTENDS HeaderParser

Msg(type, start, fs) == [type |-> type, line |-> start, fields |-> fs, tail |-> EndLine]
Field(name, pad, value) == [name |-> name, pad |-> pad, value |-> value]

GE == <<"G", "E">>
Path == <<"/">>
HTTP1_0 == <<"1", "0">>
Get(version, fs) == Msg("REQUEST", <<GE, Path, version>>, fs)
Answer(code, fs) == Msg("RESPONSE", <<<<"1">>, code, <<"O">>>>, fs)

HostField == Field(Host, <<"SP">>, <<"a">>)
Size(n) == Field(ContentLength, <<>>, n)
ChunkedField == Field(TransferEncoding, <<"SP", "SP">>, Chunked)

(* A length in front of and behind a transfer encoding, a body that 304 rules
   out, an empty value, one that fills its buffer, a blank within one. *)
Accepted ==
    {<<Get(HTTP1_1, <<HostField, Field(<<"x">>, <<>>, <<>>)>>), Get(HTTP1_0, <<Size(<<"1", "2">>)>>)>>,
     <<Msg("REQUEST", <<<<"P", "O">>, Path, HTTP1_1>>, <<ChunkedField, HostField>>)>>,
     <<Answer(Status304, <<Size(<<"3">>), ChunkedField>>), Answer(<<"2">>, <<Size(<<"7">>), ChunkedField>>)>>,
     <<Answer(<<"2">>, <<ChunkedField, Size(<<"7">>)>>)>>,
     <<Answer(<<"2">>, <<Field(<<"x">>, <<>>, <<"a", "SP", ":">>)>>)>>}

X(n) == [i \in 1 .. n |-> "x"]

(* A method that is unknown, tokens, names and values that are too long for
   their buffer or altogether, blanks without end, control characters, a bare
   carriage return, no host, too many fields, a continuation line. *)
BadFields ==
    {<<Field(X(n), <<>>, X(1))>> : n \in {MaxName + 1, MAX_FIELD_LENGTH}} \cup
    {<<Field(X(1), <<>>, X(n))>> : n \in {MaxValue + 1, MAX_FIELD_LENGTH}} \cup
    {<<Field(X(1), [i \in 1 .. n |-> "SP"], X(2))>> : n \in {MAX_FIELD_LENGTH - 2, MAX_FIELD_LENGTH}} \cup
    {<<Field(<<"CTL">>, <<>>, X(1))>>, <<Field(X(1), <<>>, <<"CTL">>)>>, <<Field(X(1), <<>>, <<"CR">>)>>,
     <<HostField, HostField, HostField>>,
     <<HostField, Field(<<"SP", "x">>, <<>>, X(1))>>}

Refused ==
    {<<Get(HTTP1_0, fs)>> : fs \in BadFields} \cup
    {<<Answer(token, <<>>)>> : token \in {<<"CTL">>, X(MaxToken + 1)}} \cup
    {<<Msg("REQUEST", <<<<"x">>, Path, HTTP1_0>>, <<>>)>>,
     <<Msg("REQUEST", <<GE, Path, <<"1", "CR">>>>, <<>>)>>,
     <<Get(HTTP1_1, <<HostField>>), Get(HTTP1_1, <<>>)>>,
     <<[Get(HTTP1_0, <<>>) EXCEPT !.tail = <<"CR", "x">>]>>}

AllHeaders == Accepted \cup Refused

(* One response, whose status line is cut. *)
OneAnswer == {<<Answer(<<"2">>, <<>>)>>}

(* The hypothesis of the theorems about what is relayed. *)
ASSUME FramedInputs

===============================================================================
