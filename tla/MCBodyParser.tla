----------------------------- MODULE MCBodyParser -----------------------------
(***************************************************************************)
(* Instances of BodyParser for TLC.                                        *)
(***************************************************************************)
EXTENDS BodyParser

Chunk(line, data) == [line |-> line, data |-> data]
LastChunk == Chunk(<<"0">>, <<>>)

Msg(enc, chunks) == [enc |-> enc, chunks |-> chunks, junk |-> <<>>, part |-> <<>>]
Sized(data) == Msg("CONTENT_LENGTH", <<Chunk(<<>>, data)>>)
Open(data)  == Msg("END_CONNECTION", <<Chunk(<<>>, data)>>)
NoBody      == Msg("NONE", <<>>)
Broken(part, rest) ==
    [enc |-> "CHUNKED", chunks |-> <<Chunk(<<"1">>, <<"x">>)>>, junk |-> part \o rest, part |-> part]

(* Size lines with a leading zero and with a space; data that looks like
   framing; a digit that comes in the other case. *)
TwoChunks == Msg("CHUNKED", <<Chunk(<<"0", "2">>, <<"x", "CR">>),
                              Chunk(<<"1", "SP">>, <<"y">>), LastChunk>>)
OneChunk  == Msg("CHUNKED", <<Chunk(<<"2">>, <<"H", "0">>), LastChunk>>)
TenBytes  == Msg("CHUNKED", <<Chunk(<<"a">>, [i \in 1 .. 10 |-> "x"]), LastChunk>>)

Bodies ==
    {<<TwoChunks, Sized(<<"x">>)>>,
     <<Sized(<<"x", "y", "H">>), NoBody, OneChunk>>,
     <<Sized(<<>>), Sized(<<"x", "y">>), Open(<<"x", "y", "CR">>)>>,
     <<OneChunk, Open(<<"y">>)>>,
     <<NoBody, Open(<<"x", "CR", "y">>)>>,
     <<TenBytes>>}

(* A digit behind a space, a digit too many, no line feed, a space too many, no
   end of line behind the data, bytes between two messages. *)
Malformed ==
    {<<Broken(<<>>, line)>> : line \in {<<"1", "SP", "1">>, <<"0", "0", "1">>, <<"1", "CR", "x">>,
                                        <<"SP", "SP">>, <<"x">>}} \cup
    {<<Broken(<<"1", "CR", "LF", "y">>, end)>> : end \in {<<"x">>, <<"CR", "x">>}}

(* A sized response with one that ends with the connection behind it. *)
SizedThenOpen == {<<Sized(<<"x">>), Open(<<"y">>)>>}

AllBodies == Bodies \cup Malformed

(* The hypothesis of the theorems about forwarding. *)
ASSUME FramedInputs

===============================================================================
