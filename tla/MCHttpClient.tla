----------------------------- MODULE MCHttpClient -----------------------------
(***************************************************************************)
(* Instances of HttpClient for TLC.                                        *)
(***************************************************************************)
EXTENDS HttpClient

R(h, e, n, b) == [head |-> h, enc |-> e, size |-> n, bad |-> b]
AllResponses  == {R(2, e, 3, "no") : e \in Encodings \ {"NONE"}}
                   \cup {R(3, "NONE", 0, "no"), R(1, "CONTENT_LENGTH", 0, "no"),
                         R(2, "CHUNKED", 2, "body"), R(2, "CONTENT_LENGTH", 1, "head")}

===============================================================================
