------------------------------- MODULE Startup --------------------------------
(***************************************************************************)
(* main() of sfrp: the configuration is read, the socket is bound, the     *)
(* user is switched, the daemon is started, the routing table is built and *)
(* clients are served.  Every call that can fail may fail, a lookup of a   *)
(* key that cannot be read aborts, and a name that does not resolve throws *)
(* out of main(); both end the process without running the scope guards.   *)
(***************************************************************************)
EXTENDS ConfigFile, Routing

CONSTANT
    Literal             \* the texts that from_string() takes for an address

ASSUME StartupAssumption == Literal \subseteq DOMAIN Address

VARIABLES
    pc,                 \* the stage of main()
    uid,                \* "root" or "user"
    server_handle,      \* "none", "open", "bound", "listening" or "closed"
    logfd_,             \* access log: "none", "open" or "closed"
    vhost,              \* build_host_rules(): virtual host at hand
    rule, built         \*   its next rule, and its host_rules so far

mainVars == <<pc, uid, server_handle, logfd_, vhost, rule, built>>
vars     == <<configVars, routingVars, mainVars>>

NoRules == [url |-> NoUrl, preserve_host |-> FALSE, rules |-> <<>>]

(* Keys, in the order main() reads them. *)
Key(root, rest)  == <<Name(root)>> \o rest
Parser(n)        == Key("http-parser", <<Name(n)>>)
Proxy(n)         == Key("proxy", <<Name(n)>>)
Listen(n)        == Key("proxy", <<Name("listen-address"), Index(0), Name(n)>>)
Forward(n)       == Key("proxy", <<Name("default-forward-address"), Name(n)>>)
VHost(i, n)      == Key("virtual-host", <<Index(i), Name(n)>>)
Rule(i, j, n)    == Key("virtual-host", <<Index(i), Name("rule"), Index(j), Name(n)>>)
AccessLog(n)     == Key("access-log", <<Name(n)>>)

FirstKeys == {Parser("header-pool-size"), Parser("max-header-name-length"),
              Parser("max-header-value-length"), AccessLog("enable")}
BindKeys  == {Listen("address"), Listen("port")}
LastKeys  == {Forward("address"), Forward("port"), Proxy("max-connections"),
              Proxy("input-buffer-size"), Proxy("client-timeout-milliseconds"),
              Proxy("server-timeout-milliseconds")}
PoolKeys  == {Parser("max-URI-length"), Parser("max-num-headers")}

AllReadable(K) == \A k \in K : Readable(k)

-------------------------------------------------------------------------------
Goto(stage) == pc' = stage

(* access_log::open() may fail; ~access_log() closes. *)
OpenLog  == logfd_' \in {"none", "open"}
CloseLog == logfd_' = IF logfd_ = "open" THEN "closed" ELSE logfd_

(* return from main(): ~access_log() and the guard on the socket. *)
Return ==
  /\ pc' = "exited" /\ CloseLog
  /\ server_handle' = IF server_handle = "none" THEN "none" ELSE "closed"

(* abort(), or an exception nobody catches. *)
Die == pc' = "aborted" /\ UNCHANGED <<logfd_, server_handle>>

(* process_command_line(): run, or print something, or complain. *)
Options ==
  /\ pc = "options"
  /\ Goto("config") \/ Goto("exited")
  /\ UNCHANGED <<configVars, routingVars, uid, server_handle, logfd_, vhost, rule, built>>

ParseFile ==
  /\ pc = "config"
  /\ ReadStep
  /\ IF rpc' = "thrown" THEN Die ELSE UNCHANGED <<pc, logfd_, server_handle>>
  /\ UNCHANGED <<routingVars, uid, vhost, rule, built>>

(* Not of main(): another user of the class dumps what was read. *)
DumpAndRead ==
  /\ pc = "config" /\ ReadBack
  /\ UNCHANGED <<routingVars, mainVars>>

(* The result of parse_file() is not looked at.  The log is open when the
   address to listen on turns out to be none. *)
Configured ==
  /\ pc = "config" /\ rpc = "done" /\ ~dumped
  /\ IF /\ AllReadable(FirstKeys)
        /\ AsBool(Raw(AccessLog("enable"))) => Readable(AccessLog("location"))
     THEN /\ IF AsBool(Raw(AccessLog("enable"))) THEN OpenLog ELSE UNCHANGED logfd_
          /\ IF AllReadable(BindKeys) /\ Raw(Listen("address")) \in Literal
             THEN Goto("socket") ELSE Goto("aborted")
          /\ UNCHANGED server_handle
     ELSE Die
  /\ rpc' = "returned"
  /\ UNCHANGED <<file, input, pos, is, line, nextline, contents_, dumped>>
  /\ UNCHANGED <<routingVars, uid, vhost, rule, built>>

Socket ==
  /\ pc = "socket"
  /\ \/ Goto("bind") /\ server_handle' = "open" /\ UNCHANGED logfd_
     \/ Return
  /\ UNCHANGED <<configVars, routingVars, uid, vhost, rule, built>>

Bind ==
  /\ pc = "bind"
  /\ \/ Goto("listen") /\ server_handle' = "bound" /\ UNCHANGED logfd_
     \/ Return
  /\ UNCHANGED <<configVars, routingVars, uid, vhost, rule, built>>

ListenCall ==
  /\ pc = "listen"
  /\ \/ Goto("user") /\ server_handle' = "listening" /\ UNCHANGED logfd_
     \/ Return
  /\ UNCHANGED <<configVars, routingVars, uid, vhost, rule, built>>

switch_user_Tolerant ==                     \* mutant: goes on as root
  /\ pc = "user"
  /\ uid' \in {uid, "user"}
  /\ Goto("daemon")
  /\ UNCHANGED <<configVars, routingVars, server_handle, logfd_, vhost, rule, built>>

(* No user name, no such user, root, or a set*id() that fails: refused. *)
switch_user ==
  /\ pc = "user"
  /\ IF ~Readable(Proxy("user")) THEN Die /\ UNCHANGED uid
     ELSE \/ Return /\ UNCHANGED uid
          \/ /\ Raw(Proxy("user")) # NoWords
             /\ uid' = "user"
             /\ Goto("daemon")
             /\ UNCHANGED <<logfd_, server_handle>>
  /\ UNCHANGED <<configVars, routingVars, vhost, rule, built>>

daemonize ==
  /\ pc = "daemon"
  /\ IF ~Readable(Proxy("run-as-daemon")) THEN Die
     ELSE \/ Goto("pools") /\ UNCHANGED <<logfd_, server_handle>>
          \/ AsBool(Raw(Proxy("run-as-daemon"))) /\ Return
  /\ UNCHANGED <<configVars, routingVars, uid, vhost, rule, built>>

(* from_string() throws on what is no address, a name included. *)
ProxyHandlers ==
  /\ pc = "pools"
  /\ IF AllReadable(LastKeys) /\ Raw(Forward("address")) \in Literal
     THEN /\ server_addr_' = <<Address[Raw(Forward("address"))], Numeral[Head(Raw(Forward("port")))]>>
          /\ vhost' = 0 /\ built' = NoRules
          /\ Goto("vhost") /\ UNCHANGED <<logfd_, server_handle>>
     ELSE Die /\ UNCHANGED <<server_addr_, vhost, built>>
  /\ UNCHANGED <<configVars, rules_, server_data_, asked, at, reads, forwarded, uid, rule>>

-------------------------------------------------------------------------------
(* build_host_rules(): the outer loop, its rules, and the entry of the map. *)
VirtualHosts == Key("virtual-host", <<>>)

VirtualHost ==
  /\ pc = "vhost" /\ Lookup(VirtualHosts) # {}
  /\ vhost < get_array_size(VirtualHosts)
  /\ IF Readable(VHost(vhost, "default-forward-url")) /\ Readable(VHost(vhost, "preserve-host"))
     THEN \E u \in parse_url(Raw(VHost(vhost, "default-forward-url"))) :
            IF ~Resolves(u) THEN Die /\ UNCHANGED <<rule, built>>
            ELSE /\ built' = [url |-> u, preserve_host |-> AsBool(Raw(VHost(vhost, "preserve-host"))),
                              rules |-> <<>>]
                 /\ rule' = 0
                 /\ Goto("rule") /\ UNCHANGED <<logfd_, server_handle>>
     ELSE Die /\ UNCHANGED <<rule, built>>
  /\ UNCHANGED <<configVars, routingVars, uid, vhost>>

Rules(i) == Key("virtual-host", <<Index(i), Name("rule")>>)

AddRule ==
  /\ pc = "rule" /\ rule < get_array_size(Rules(vhost))
  /\ IF Readable(Rule(vhost, rule, "forward-url")) /\ Readable(Rule(vhost, rule, "match-path"))
     THEN \E u \in parse_url(Raw(Rule(vhost, rule, "forward-url"))) :
            IF ~Resolves(u) THEN Die /\ UNCHANGED <<rule, built>>
            ELSE /\ built' = [built EXCEPT !.rules =
                       Append(@, [match_path |-> Raw(Rule(vhost, rule, "match-path")), forward_url |-> u])]
                 /\ rule' = rule + 1
                 /\ UNCHANGED <<pc, logfd_, server_handle>>
     ELSE Die /\ UNCHANGED <<rule, built>>
  /\ UNCHANGED <<configVars, routingVars, uid, vhost>>

EnterHost ==
  /\ pc = "rule" /\ rule >= get_array_size(Rules(vhost))
  /\ IF Readable(VHost(vhost, "host-name"))
     THEN /\ rules_' = (Raw(VHost(vhost, "host-name")) :> built) @@ rules_
          /\ vhost' = vhost + 1
          /\ Goto("vhost") /\ UNCHANGED <<logfd_, server_handle>>
     ELSE Die /\ UNCHANGED <<rules_, vhost>>
  /\ UNCHANGED <<configVars, server_addr_, server_data_, asked, at, reads, forwarded, uid, rule, built>>

(* No virtual-host key at all aborts; otherwise the event loop is entered. *)
Dispatch ==
  /\ pc = "vhost"
  /\ Lookup(VirtualHosts) # {} => vhost >= get_array_size(VirtualHosts)
  /\ IF Lookup(VirtualHosts) # {} /\ AllReadable(PoolKeys)
     THEN Goto("serving") /\ UNCHANGED <<logfd_, server_handle>>
     ELSE Die
  /\ UNCHANGED <<configVars, routingVars, uid, vhost, rule, built>>

(* http_proxy_stream_handler at work; a path or Host that does not fit aborts. *)
Serve ==
  /\ pc = "serving" /\ RoutingStep
  /\ UNCHANGED <<configVars, mainVars>>

PathTooLong ==
  /\ pc = "serving" /\ TooLong
  /\ Die
  /\ UNCHANGED <<configVars, routingVars, uid, vhost, rule, built>>

-------------------------------------------------------------------------------
Init ==
  /\ ConfigInit /\ RoutingInit
  /\ pc = "options" /\ uid \in {"root", "user"}
  /\ server_handle = "none" /\ logfd_ = "none"
  /\ vhost = 0 /\ rule = 0 /\ built = NoRules

Main == \/ Options \/ ParseFile \/ Configured \/ Socket \/ Bind \/ ListenCall
        \/ switch_user \/ daemonize \/ ProxyHandlers
        \/ VirtualHost \/ AddRule \/ EnterHost \/ Dispatch

Next == Main \/ DumpAndRead \/ Serve \/ PathTooLong

Spec     == Init /\ [][Next]_vars
FairSpec == Spec /\ WF_vars(Main)

-------------------------------------------------------------------------------
(* What the file, read by LastAssigned, says of a request. *)
Set(path)      == \E j \in KeyLines(file) : file.lines[j].key = path /\ Visible(file, path)
Says(path)     == LastAssigned(file, path)
Indexes        == UNION {{e.i : e \in ToSet(file.lines[j].key)} : j \in KeyLines(file)}
HostsFor(h)    == {i \in Indexes : Set(VHost(i, "host-name")) /\ Says(VHost(i, "host-name")) = h}
RulesFor(i, p) == {j \in Indexes : Set(Rule(i, j, "match-path")) /\ Says(Rule(i, j, "match-path")) = p}
AnyRule(i)     == \E j \in Indexes : Set(Rule(i, j, "match-path"))

(* What a URL says: protocol://host:port/path, the host in brackets where it has
   colons; 80 where there is no port, or a port of zero. *)
Start(text, h) == <<Head(text), "://">> \o IF Has(h, ":") THEN <<"[">> \o h \o <<"]">> ELSE h
IsUrl(text, h, n, p) ==
  /\ \A w \in {"/", "[", "]"} : ~Has(h, w)
  /\ p # <<>> => Head(p) = "/" /\ \A w \in {"[", "]"} : ~Has(p, w)
  /\ \/ n = 80 /\ text = Start(text, h) \o p
     \/ \E w \in DOMAIN Numeral : /\ n = IF Numeral[w] = 0 THEN 80 ELSE Numeral[w]
                                  /\ text = Start(text, h) \o <<":", w>> \o p
Splits(text) == {SubSeq(text, i, j) : i \in {3, 4}, j \in 2 .. Len(text)}
Tails(text) == {SubSeq(text, j, Len(text)) : j \in 3 .. Len(text) + 1}
Ports       == {80} \cup {Numeral[w] : w \in DOMAIN Numeral}

(* The URL that text is, or none where it is no URL: what the proxy makes of
   such a text nothing says. *)
Urls(text)  == {u \in [hostname : Splits(text), port : Ports, path : Tails(text)] :
                  IsUrl(text, u.hostname, u.port, u.path)}

MinOf(S) == CHOOSE m \in S : \A i \in S : m <= i

(* The URL the file gives a request that names host h. *)
UrlFor(h, path) ==
  LET i == MaxOf(HostsFor(h))
  IN  IF RulesFor(i, path) = {} THEN Says(VHost(i, "default-forward-url"))
      ELSE Says(Rule(i, MinOf(RulesFor(i, path)), "forward-url"))
(* s is the server of the URL; a number that is no port gives no port. *)
Goes(text, s) ==
  \A u \in Urls(text) : /\ u.hostname \in DOMAIN Address /\ s[1] = Address[u.hostname]
                        /\ u.port < 65536 => s[2] = u.port

PassedOn == forwarded # NoHeader /\ at = Done(Request)

(* A header is passed on with the path the file asks for: that of the URL of
   the rule it matches, or its own behind that of the default URL, where the
   path of a URL without one may be "/"; its Host is kept or replaced as
   preserve-host says, its other fields are kept, and a header that names no
   virtual host is passed on as it came (build_host_rules(), parse_url(),
   update_header_host_and_path()).  Nothing is said of the path and the Host
   where the file has a text there that is no URL. *)
ForwardedAsConfigured ==
  PassedOn =>
    IF HostIndex(Request) = 0 \/ HostsFor(Host(Request)) = {}
    THEN forwarded.path = Request.path /\ forwarded.fields = Request.fields
    ELSE LET i == MaxOf(HostsFor(Host(Request)))
             u == UrlFor(Host(Request), Request.path)
         IN  /\ \A v \in Urls(u) :
                  /\ IF RulesFor(i, Request.path) # {}
                     THEN forwarded.path = IF v.path = <<>> THEN <<"/">> ELSE v.path
                     ELSE \/ forwarded.path = v.path \o Request.path
                          \/ v.path = <<>> /\ forwarded.path = <<"/">> \o Request.path
                  /\ Host(forwarded) = IF AsBool(Says(VHost(i, "preserve-host")))
                                       THEN Host(Request) ELSE v.hostname
             /\ \A j \in DOMAIN Request.fields \ {HostIndex(Request)} :
                  forwarded.fields[j] = Request.fields[j]

(* No read ended within the Host of the first request. *)
HostUncut == \A p \in reads : p[1] = HostIndex(asked[1]) => p[2] = Len(Host(asked[1]))

FirstRouted == PassedOn /\ Len(asked) = 1 /\ HostIndex(asked[1]) # 0 /\ HostUncut

(* However its header arrives otherwise, the first request of a client that
   names a host with preserve-host, without rules and with a default URL that is
   one, goes to the server of that URL (attempt_jit_server_connect() with the
   header rewritten or not yet, parse_url()). *)
PreservedHostRouted ==
  LET h == Host(asked[1])
      u == UrlFor(h, asked[1].path)
  IN  (/\ FirstRouted /\ asked[1].version = "HTTP/1.1" /\ HostsFor(h) # {}
       /\ AsBool(Says(VHost(MaxOf(HostsFor(h)), "preserve-host")))
       /\ ~AnyRule(MaxOf(HostsFor(h)))) => Goes(u, forwarded.server)

(* However its header arrives otherwise, the first request of a client that
   names no virtual host goes to the default server of the file
   (get_forward_address_status(), attempt_jit_server_connect()).  Nothing is
   said of its later requests: they follow the first one, also where they name
   a virtual host. *)
UnknownToDefault ==
  (FirstRouted /\ HostsFor(Host(asked[1])) = {}) =>
    forwarded.server = <<Address[Says(Forward("address"))], Numeral[Head(Says(Forward("port")))]>>

(* The first request of a client that names a virtual host goes to the server
   of its URL.  This is what sfrp.conf.example says of default-forward-url; it
   does not hold where process_data() replaced the Host before it is looked up. *)
RightServer ==
  (FirstRouted /\ asked[1].version = "HTTP/1.1" /\ HostsFor(Host(asked[1])) # {}) =>
    Goes(UrlFor(Host(asked[1]), asked[1].path), forwarded.server)

(* Clients are served without root's rights, on a listening socket, and with a
   table of exactly the hosts the file names (main(), switch_user(),
   build_host_rules()). *)
ServesAsConfigured ==
  pc = "serving" =>
    /\ uid = "user" /\ server_handle = "listening"
    /\ DOMAIN rules_ = {Says(VHost(i, "host-name")) : i \in {n \in Indexes : Set(VHost(n, "host-name"))}}

(* Reading the file and starting up come to an end (read() with its line read
   ahead, build_host_rules()). *)
StartupEnds == <>(pc \in {"serving", "exited", "aborted"} \/ (dumped /\ rpc = "done"))

===============================================================================
