---------------------------- MODULE MCProxyHandler ----------------------------
(***************************************************************************)
(* Instances of ProxyHandler for TLC: what the client and the server say.  *)
(***************************************************************************)
EXTENDS ProxyHandler

U(m, k, n) == [m |-> m, k |-> k, n |-> n]

(* A message with a header of two or three units and a body of n units. *)
NoBodyMsg(m)     == <<U(m, "start", 0), U(m, "none", 0)>>
FieldMsg(m)      == <<U(m, "start", 0), U(m, "field", 0), U(m, "none", 0)>>
LengthMsg(m, n)  == <<U(m, "start", 0), U(m, "length", n)>>
                      \o [i \in 1 .. n |-> U(m, "body", i)]
CloseMsg(m, n)   == <<U(m, "start", 0), U(m, "close", 0)>>
                      \o [i \in 1 .. n |-> U(m, "body", i)]
BadMsg(m)        == <<U(m, "start", 0), U(m, "bad", 0), U(m, "none", 0)>>
OverMsg(m)       == <<U(m, "start", 0), U(m, "over", 0), U(m, "none", 0)>>

(* A POST and a GET, answered by one sized and one unsized response. *)
PostGet   == {LengthMsg(1, 1) \o NoBodyMsg(2)}
SizedOpen == {LengthMsg(1, 2) \o CloseMsg(2, 1)}

(* Three GETs, more than a pipeline of two holds, or a GET and a request the
   header parser refuses.  The last answer is unsized. *)
GetsOrBad    == {FieldMsg(1) \o NoBodyMsg(2) \o NoBodyMsg(3), NoBodyMsg(1) \o BadMsg(2)}
ThreeAnswers == {LengthMsg(1, 1) \o NoBodyMsg(2) \o CloseMsg(3, 1)}

(* One GET and one answer. *)
ShortGet  == {NoBodyMsg(1)}
OneAnswer == {LengthMsg(1, 1)}

(* Clients of one handler that say different things, of which only the first
   request is answered. *)
MixedGets   == {NoBodyMsg(1) \o NoBodyMsg(2), NoBodyMsg(3)}
FirstAnswer == {LengthMsg(1, 1)}

(* A GET, and a request with an overlong field. *)
GetThenOver == {NoBodyMsg(1) \o OverMsg(2)}

(* More than a pipeline of one holds. *)
TwoGets   == {NoBodyMsg(1) \o NoBodyMsg(2)}

(* Two answers, the second one without a body. *)
ShortAnswers == {LengthMsg(1, 1) \o NoBodyMsg(2)}

===============================================================================
