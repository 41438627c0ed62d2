------------------------------- MODULE Routing --------------------------------
(***************************************************************************)
(* Where a request goes and what is rewritten in it: http/url,             *)
(* app/host_rules, and the part of http_proxy_stream_handler and           *)
(* proxy_handler that looks the Host field up.  The header of a request    *)
(* arrives in pieces, and the server is looked for after every piece.      *)
(***************************************************************************)
EXTENDS Integers, Sequences, SequencesExt, TLC

CONSTANTS
    Numeral,            \* words that are numbers -> the number
    Address,            \* host names that resolve, the empty one too -> address
    Requests,           \* what clients send: [version, path, fields]
    MAX_URI,            \* max-URI-length, in words
    MAX_VALUE,          \* max-header-value-length, in words
    MaxRequests         \* bound: requests per client

VARIABLES
    rules_,             \* host name -> [url, preserve_host, rules]
    server_addr_,       \* proxy_handler: the default forward address
    server_data_,       \* where the server connection goes, or NoServer
    asked,              \* the requests of this client so far
    at,                 \* how much of the last one has been parsed
    reads,              \* history: where reads ended within the first one
    forwarded           \* the header last passed on, or NoHeader

routingVars == <<rules_, server_addr_, server_data_, asked, at, reads, forwarded>>

NoServer == <<"none", 0>>
NoHeader == [version |-> "", path |-> <<>>, fields |-> <<>>, server |-> NoServer]

-------------------------------------------------------------------------------
(* url. *)
From(s, j)     == SubSeq(s, j, Len(s))
First(s, W, j) ==                           \* first place of a word of W from j on
  LET n == SelectInSeq(From(s, j), LAMBDA w : w \in W) IN IF n = 0 THEN Len(s) + 1 ELSE j + n - 1
Has(s, w)      == \E j \in DOMAIN s : s[j] = w

NoUrl == [hostname |-> <<>>, port |-> 80, path |-> <<>>]

(* port is an unsigned short, and zero counts as not given. *)
Port_Default(rest, j) == 80                 \* mutant: what follows the host is skipped
Port(rest, j) ==
  LET n == IF j < Len(rest) /\ rest[j] = ":" /\ rest[j + 1] \in DOMAIN Numeral
           THEN Numeral[rest[j + 1]] % 65536 ELSE 0
  IN  IF n = 0 THEN 80 ELSE n

Path(rest, j) == IF j > Len(rest) THEN <<"/">> ELSE From(rest, j)

(* What parse_url() may leave in the url, given what follows the protocol.  In
   brackets the buffer is searched for a colon before it is terminated, so that
   a stale one may count. *)
parse_rest(rest) ==
  LET e    == First(rest, {":", "/", "["}, 1)
      c    == First(rest, {"]"}, e)
      h    == SubSeq(rest, 1, e - 1) \o SubSeq(rest, e + 1, c - 1)
      end  == IF c < Len(rest) /\ rest[c + 1] = ":" THEN First(rest, {"/"}, c + 1) ELSE c + 1
  IN  IF rest = <<>> THEN {NoUrl}
      ELSE IF \E j \in 1 .. e : Has(From(rest, j), "[") # Has(From(rest, j), "]") THEN {NoUrl}
      ELSE IF e > Len(rest) \/ rest[e] # "["
      THEN {[hostname |-> SubSeq(rest, 1, e - 1), port |-> Port(rest, e),
             path |-> Path(rest, First(rest, {"/"}, e))]}
      ELSE {[hostname |-> h, port |-> Port(rest, c + 1), path |-> Path(rest, end)]}
             \cup IF Has(h, ":") THEN {} ELSE {NoUrl}

parse_url(text) == UNION {parse_rest(rest) : rest \in {From(text, First(text, {"://"}, 1) + 1)}}

(* resolve_addr() throws where the name does not resolve.  That the URL did not
   parse is not looked at: it has an empty name, for which the resolver gives
   the loopback address. *)
Resolves(url) == url.hostname \in DOMAIN Address
Endpoint(url) == <<Address[url.hostname], url.port>>

-------------------------------------------------------------------------------
(* host_rules::find_forward_url(), falling back on default_forward_url(). *)
RuleFor(hr, path)     == SelectInSeq(hr.rules, LAMBDA r : r.match_path = path)
Matches(hr, path)     == RuleFor(hr, path) # 0
forward_url(hr, path) == IF Matches(hr, path) THEN hr.rules[RuleFor(hr, path)].forward_url ELSE hr.url

(* message_buffer::get_header_index_by_name("Host"), 0 where there is none. *)
HostIndex(header) == SelectInSeq(header.fields, LAMBDA f : f.name = "Host")
Host(header)      == header.fields[HostIndex(header)].value

(* Whether the header names a virtual host. *)
Named(header) == HostIndex(header) # 0 /\ Host(header) \in DOMAIN rules_

(* The path update_header_host_and_path() writes. *)
NewPath_Prepend(header) ==                  \* mutant: rules replace nothing
  forward_url(rules_[Host(header)], header.path).path \o header.path
NewPath(header) ==
  LET hr == rules_[Host(header)]
  IN  IF Matches(hr, header.path) THEN forward_url(hr, header.path).path
      ELSE hr.url.path \o header.path

update_header_host_and_path(header) ==
  IF ~Named(header) THEN header
  ELSE LET hr == rules_[Host(header)]
       IN  [header EXCEPT !.path = NewPath(header),
                          !.fields[HostIndex(header)].value =
                             IF hr.preserve_host THEN @ ELSE forward_url(hr, header.path).hostname]

(* append_from_string() aborts where the string is longer than the buffer. *)
Fits(header) ==
  Named(header) =>
    /\ Len(NewPath(header)) <= MAX_URI
    /\ Len(Host(update_header_host_and_path(header))) <= MAX_VALUE

(* get_forward_address_status() and attempt_jit_server_connect(): the server of
   a client that has none yet, from the header as it is now. *)
jit_connect_Always(header) ==               \* mutant: unknown hosts get any rule
  IF HostIndex(header) = 0 THEN NoServer
  ELSE LET h == IF Named(header) THEN Host(header) ELSE CHOOSE n \in DOMAIN rules_ : TRUE
       IN  Endpoint(forward_url(rules_[h], header.path))
jit_connect(header) ==
  IF server_data_ # NoServer THEN server_data_
  ELSE IF header.version = "HTTP/1.0" THEN server_addr_
  ELSE IF HostIndex(header) = 0 THEN NoServer
  ELSE IF ~Named(header) THEN server_addr_
  ELSE Endpoint(forward_url(rules_[Host(header)], header.path))

-------------------------------------------------------------------------------
(* The handler of one client. *)

(* Places a read can end: behind the start line, in or behind a field's value. *)
Places(r) == {<<0, 1>>}
               \cup UNION {{<<j, k>> : k \in 0 .. Len(r.fields[j].value)} : j \in DOMAIN r.fields}
Done(r)   == <<Len(r.fields) + 1, 0>>
Before(p, q) == p[1] < q[1] \/ (p[1] = q[1] /\ p[2] < q[2])

(* The header buffer when the parser has come to p. *)
Parsed(r, p) ==
  IF p = <<0, 0>> THEN [version |-> "", path |-> <<>>, fields |-> <<>>]
  ELSE [r EXCEPT !.fields =
          [j \in 1 .. (IF p = Done(r) THEN Len(@) ELSE p[1]) |->
             IF j = p[1] THEN [@[j] EXCEPT !.value = SubSeq(@, 1, p[2])] ELSE @[j]]]

Request == Last(asked)
Idle    == IF asked = <<>> THEN TRUE ELSE at = Done(Request)

(* A request begins once the one before has been passed on. *)
SendRequest ==
  /\ Idle /\ Len(asked) < MaxRequests
  /\ asked # <<>> => server_data_ # NoServer
  /\ \E r \in Requests : asked' = Append(asked, r)
  /\ at' = <<0, 0>>
  /\ UNCHANGED <<rules_, server_addr_, server_data_, reads, forwarded>>

(* A read that ends within the header. *)
ReceivePart ==
  /\ ~Idle
  /\ \E p \in Places(Request) :
        /\ Before(at, p)
        /\ at' = p
        /\ reads' = IF Len(asked) = 1 THEN reads \cup {p} ELSE reads
        /\ server_data_' = jit_connect(Parsed(Request, p))
  /\ UNCHANGED <<rules_, server_addr_, asked, forwarded>>

(* The read that completes the header: it is rewritten and then looked at. *)
ReceiveAll ==
  LET header == update_header_host_and_path(Request)
  IN  /\ ~Idle /\ Fits(Request)
      /\ at' = Done(Request)
      /\ server_data_' = jit_connect(header)
      /\ forwarded' = IF server_data_' = NoServer THEN forwarded
                      ELSE [version |-> header.version, path |-> header.path,
                            fields |-> header.fields, server |-> server_data_']
      /\ UNCHANGED <<rules_, server_addr_, asked, reads>>

TooLong == ~Idle /\ ~Fits(Request)

(* The handler is released and serves another client. *)
NextClient ==
  /\ asked # <<>>
  /\ asked' = <<>> /\ at' = <<0, 0>> /\ reads' = {}
  /\ server_data_' = NoServer /\ forwarded' = NoHeader
  /\ UNCHANGED <<rules_, server_addr_>>

RoutingInit ==
  /\ rules_ = <<>> /\ server_addr_ = NoServer /\ server_data_ = NoServer
  /\ asked = <<>> /\ at = <<0, 0>> /\ reads = {} /\ forwarded = NoHeader

RoutingStep == SendRequest \/ ReceivePart \/ ReceiveAll \/ NextClient

===============================================================================
