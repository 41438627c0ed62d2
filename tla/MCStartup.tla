------------------------------ MODULE MCStartup -------------------------------
(***************************************************************************)
(* Instances of Startup for TLC.                                           *)
(***************************************************************************)
EXTENDS Startup

L(key, text) == [key |-> key, text |-> text, comment |-> FALSE]
T(text)      == L(<<>>, text)
Comment      == [Empty EXCEPT !.comment = TRUE]
Commented(l) == [l EXCEPT !.comment = TRUE]
F(lines)     == [lines |-> lines, nl |-> TRUE, found |-> TRUE]
Cut(f)       == [f EXCEPT !.nl = FALSE]

(* Short files of every shape: values, records and arrays of one key, values
   that go on, comments and blank lines. *)
A          == <<Name("a")>>
ShortLines == {L(A, <<"1">>), Commented(L(A \o <<Name("b")>>, <<"2">>)), L(A \o <<Index(1)>>, <<"3">>),
               L(A \o <<Index(1), Name("b")>>, <<"4">>), T(<<"t">>), Comment, Empty}
ShortFiles == {F(s) : s \in UNION {[1 .. n -> ShortLines] : n \in 0 .. 3}}
                \cup {F(<<L(A, <<"1">>), x, y, z>>) : x \in ShortLines, y \in ShortLines, z \in ShortLines}
CutFiles   == {Cut(f) : f \in {g \in ShortFiles : g.lines # <<>> /\ Last(g.lines) # Empty}}
BadFiles   == {F(<<L(A \o <<Index(-1)>>, <<"1">>)>>), F(<<L(A \o <<Index(-1), Name("b")>>, <<"1">>), L(A, <<"2">>)>>)}

(* A configuration with every key that main() reads; the words stand for any. *)
W       == <<"1">>
Basic   == <<Comment,
             L(Proxy("run-as-daemon"), <<"no">>), L(Listen("address"), <<"lo">>), L(Listen("port"), <<"80">>),
             Empty,
             L(Forward("address"), <<"lo">>), L(Forward("port"), <<"8082">>),
             L(AccessLog("enable"), <<"yes">>), L(AccessLog("location"), <<"/">>), T(<<"log">>),
             L(Parser("max-URI-length"), W), L(Parser("max-num-headers"), W),
             L(Parser("max-header-name-length"), W), L(Parser("max-header-value-length"), W),
             L(Parser("header-pool-size"), W), L(Proxy("input-buffer-size"), W),
             L(Proxy("user"), <<"nobody">>), L(Proxy("client-timeout-milliseconds"), W),
             L(Proxy("server-timeout-milliseconds"), W), L(Proxy("max-connections"), W)>>
Host_(i, name, url, preserve) ==
  <<L(VHost(i, "host-name"), name), L(VHost(i, "default-forward-url"), url), L(VHost(i, "preserve-host"), preserve)>>
Rule_(i, j, path, url) == <<L(Rule(i, j, "match-path"), path), L(Rule(i, j, "forward-url"), url)>>

Plain   == <<"http", "://", "sa">>
Ported  == <<"http", "://", "sb", ":", "8082", "/", "x">>
Nested  == <<"http", "://", "b">>
HostA   == Host_(0, <<"a">>, Plain, <<"yes">>)
HostB   == Host_(1, <<"b", ":", "8082">>, Ported, <<"yes">>)

Without(s, key) == SelectSeq(s, LAMBDA l : l.key # key)

AtPort(port)  == <<"http", "://", "sa", ":", port, "/">>
Long         == <<"s", ":", "6", ":", "1">>

(* Files that start the proxy. *)
GoodFiles == {F(Basic \o HostA \o HostB),
              Cut(F(HostB \o Basic \o HostA)),
              F(Basic \o HostA \o Host_(1, <<"b">>, Ported, <<"no">>)
                  \o Rule_(0, 0, <<"/", "p">>, Ported) \o Rule_(0, 1, <<"/", "p">>, Plain)),
              F(Basic \o Host_(0, <<"a">>, Nested, <<"no">>) \o Host_(1, <<"b">>, Ported, <<"0">>)),
              F(Basic \o HostA \o Host_(1, <<"a">>, Ported, <<"true">>) \o <<L(VHost(0, "preserve-host"), <<"no">>)>>),
              F(Basic \o Host_(0, <<"a">>, <<"http", "://", "[", "s", ":", "6", "]", ":", "8082", "/">>, <<"yes">>)),
              F(Basic \o HostA \o <<L(Proxy("run-as-daemon"), <<"yes">>), L(AccessLog("enable"), <<"no">>)>>)}
               \cup {F(Basic \o Host_(0, <<"a">>, AtPort(port), <<"yes">>)) : port \in {"0", "65535"}}

(* Files that cannot start it, or may not, or have a URL that is none or a host
   name or a number that is too large. *)
PoorFiles == {[F(<<>>) EXCEPT !.found = FALSE],
              F(Basic),
              F(Basic \o HostB),
              F(Basic \o Host_(0, <<"a">>, <<"sa">>, <<"yes">>)),
              F(Basic \o Host_(0, <<"a">>, <<"http", "://", "[", "sa", "]">>, <<"yes">>)),
              F(Basic \o Host_(0, <<"a">>, <<"http", "://", "sa", "]">>, <<"yes">>)),
              F(Basic \o HostA \o Rule_(0, 0, <<"/", "p">>, <<"sa">>)),
              F(Basic \o HostA \o <<L(Rule(0, 0, "match-path"), <<"/", "p">>)>>),
              F(Basic \o Host_(0, <<"a">>, <<"http", "://", "nowhere">>, <<"yes">>)),
              F(Basic \o Host_(0, <<"a">>, AtPort("70000"), <<"yes">>)),
              F(Basic \o Host_(0, <<"a">>, <<"http", "://", "[">> \o Long \o <<"]">>, <<"no">>)),
              F(Basic \o HostA \o <<L(Listen("address"), <<"sa">>)>>),
              F(Basic \o HostA \o <<L(Forward("address"), <<"sa">>)>>),
              F(Basic \o <<L(Key("proxy", <<>>), W)>>)}
               \cup {F(Without(Basic \o HostA, k)) :
                       k \in {Proxy("user"), Proxy("run-as-daemon"), Forward("port"), Parser("max-URI-length"),
                              Listen("port"), VHost(0, "host-name"), VHost(0, "default-forward-url")}}

AllFiles == ShortFiles \cup CutFiles \cup BadFiles \cup GoodFiles \cup PoorFiles

-------------------------------------------------------------------------------
Numerals  == ("80" :> 80) @@ ("8082" :> 8082) @@ ("0" :> 0) @@ ("65535" :> 65535) @@ ("70000" :> 70000)
Addresses == (<<"lo">> :> "lo") @@ (<<>> :> "lo") @@ (<<"sa">> :> "sa") @@ (<<"sb">> :> "sb") @@ (<<"b">> :> "sc")
               @@ (<<"s", ":", "6">> :> "s6") @@ (Long :> "s61")
Literals  == {<<"lo">>, <<"s", ":", "6">>, Long}

Field(n, v)  == [name |-> n, value |-> v]
Get(v, p, f) == [version |-> v, path |-> p, fields |-> f]
AllRequests ==
  {Get("HTTP/1.1", <<"/", "p">>, <<Field("Via", <<"v">>), Field("Host", <<"a">>)>>),
   Get("HTTP/1.1", <<"/">>, <<Field("Host", <<"b", ":", "8082">>), Field("Via", <<"v">>)>>),
   Get("HTTP/1.1", <<"/", "p">>, <<Field("Host", <<"b">>), Field("Host", <<"a">>)>>),
   Get("HTTP/1.1", <<"/", "p", "/", "p">>, <<Field("Host", <<"a">>)>>),
   Get("HTTP/1.1", <<"/">>, <<>>),
   Get("HTTP/1.0", <<"/">>, <<Field("Host", <<"a">>)>>)}

===============================================================================
