# A TLA+ model of the SwitchFlow reverse proxy

`sfrp` is a single-threaded, event-driven HTTP reverse proxy.  One process
serves many clients; for each of them a pooled `proxy_handler` owns a client
connection, a server connection, two stream handlers (one parses requests, one
parses responses) and a small queue that ties the responses to the requests
they answer.  Everything is driven by one-shot libevent notifications: a
callback does as much as it can without blocking, then asks for exactly the
events it is not already ready for.  What is hard about this program is not any
one function but the order in which blocked writes, partial reads, closing
peers and recycled objects meet.

Paths below are relative to the repository's root (`src/` here).

## 1. Inventory

| component | state | operations | talks to |
|---|---|---|---|
| `sfrp/proxylib/proxy_handler` | two `connection`s, two events, two stream handlers, the pipeline queue | `handle_event`, `handle_stream`, `attempt_jit_server_connect`, `initiate_server_connect`, `shutdown`, `reset`, `add_client` | called by the poller; calls stream handlers, connections, pools |
| `switchflow/socketlib/connection` | `STATE`, ready flags, descriptor, read buffer | `state`, `non_blocking_read`, `non_blocking_write`, `open_for_*` | kernel |
| `sfrp/app/http_proxy_stream_handler` | `message_state_`, current pipeline element, parsers, writer | `process_data`, `complete_message`, `reset`, `log_request`, `get_forward_address_status` | parsers, writer, destination connection, queue |
| `sfrp/proxylib/pipeline_data_queue` | `active_queue_`, `free_list_` | `queue_element`, `front`, `dequeue_element`, `empty_queue` | shared by the two stream handlers of a handler |
| `pessimistic_memory_manager`, `http/header_cache`, `new_connection_handler` | free stacks, cached headers | allocate, release, accept | shared by all connections |
| `http/header_parser`, `header_handler`, `message_buffer` | parse state, fields, body encoding | `parse_headers`, `set_field_*`, `end_fields` | stream handler, header cache |
| `http/body_parser` and its three parsers, `util/read_write_buffer` | parse state, chunk counters, buffer positions | `parse_body`, `set_body` | stream handler |
| `http/header_writer` | which token of the header is being written | `write_header` | destination connection |
| `event/poller` | libevent registrations | `add_event`, `del_event`, `event_callback` | proxy handlers |
| `app/host_rules`, `http/url` | virtual host table | `build_host_rules`, `parse_url`, `find_forward_url` | stream handler, configuration |
| `util/config_file` | a tree of values, the line read ahead | `read`, lookups, `dump` | `sfrp_main` |
| `app/sfrp_main`, `app/options` | listening socket, user, access log | `main`, `switch_user`, `daemonize` | everything, once |
| `client/client_handler`, `http/client/http_client_handler` | a connection, its event, its timeout; one request and one response | `initiate_server_connect`, `handle_event`, `handle_stream`, `handle_timeout`, `shutdown` | poller, connection, parsers, the caller's `i_http_client` |
| `util/pooled_list` | active lists and the free list of their pool | the operations of `std::list` | its users (none in the proxy) |
| `app/access_log`, `combined_log_record` | open log file, one record per pipeline element | `log_access` | stream handler |
| `util/queue`, asio client and crawler, `serverlib` | - | - | not used by the proxy, or not built |

What makes each of them correct, and what is hard to test about it, is the list
of hazards in `PROJECT.json`; in short:

* the proxy relays both directions in order, without loss or repetition, over
  any segmentation of the input and any pattern of blocked writes;
* responses are matched to their requests, also with pipelining and with
  requests the proxy refuses itself;
* a handler always waits for something, every callback ends, and a vanished
  server ends the session;
* a recycled handler shows its new client nothing of the old one;
* pooled objects have one owner;
* the configuration means what the file says, clients are served without root's
  rights, and a request goes to the server its host is configured for;
* a request of the client library has one outcome, a response called complete
  is whole, and nothing is left registered;
* a `pooled_list` is a list: no operation repeats or shares an element, and none
  loses one, except a copy that throws (section 4).

## 2. Modules

| module | models | notes |
|---|---|---|
| `Connection` | `connection::STATE`, `state()`, `open_for_*` | pure operators |
| `PipelineDataQueue` | `pipeline_data_queue` | a specification of its own (`QueueSpec`) |
| `ProxyHandler` | `proxy_handler`, its two `connection`s and stream handlers, poller, kernel, peers | extends the two above |
| `MCProxyHandler` | | the scripts of the peers for TLC |
| `ProxyHandlerProofs` | | the queue conserves its elements; types, no null element, refinement of the queue; the "will deadlock" check never fires, descriptors are kept |
| `ProxyHandlerFlowProofs` | | both streams keep their order, refused requests are kept apart |
| `ProxyHandlerTurnProofs` | | the proxy's 400 comes in its turn, no response is truncated |
| `BodyParser` | the three body parsers, the positions of `read_write_buffer`, the socket calls on it | bytes; complements `ProxyHandler`, which has units |
| `MCBodyParser` | | the messages for TLC |
| `BodyParserProofs` | | positions and absence of the state jam; what is forwarded is the reference encoding, parsing and framing stay together |
| `HeaderParser` | `header_parser`, `header_handler`, `message_buffer`, `header_writer` | bytes, like `BodyParser` |
| `MCHeaderParser` | | the headers for TLC |
| `HeaderParserProofs` | | buffers, positions and the writer; what is relayed, announced and refused |
| `ServerPools` | the three pools and the header cache over all connections | complements `ProxyHandler`, which sees one handler |
| `ServerPoolsProofs` | | pooled objects have one owner, headers add up |
| `ConfigFile` | `config_file`: `read`, the tree, lookups, `dump` | a text is a sequence of words |
| `Routing` | `url`, `host_rules`, host and path rewriting, the choice of the server | one client after the other on one handler |
| `Startup` | `main()` up to the event loop, and then `Routing` at work | composes the two above |
| `MCStartup` | | the files, addresses and requests for TLC |
| `HttpClient` | `client_handler` with `http_client_handler` | bytes are counted |
| `MCHttpClient` | | the responses for TLC |
| `HttpClientProofs` | | types, nothing left behind, the checks, whole responses, one outcome |
| `ListSpec` | what a `std::list` promises, also where a call throws | abstract specification |
| `PooledList` | `pooled_list` and its pools | implements `ListSpec` |
| `MCPooledList` | | the pools for TLC |
| `PooledListProofs` | | elements are conserved, `ListSpec` is implemented |

### ProxyHandler

`pc` is the place in `handle_event()`; each system call is a step, so the peers
and the kernel move between any two of them.

| code | action |
|---|---|
| `handle_event` up to the first `handle_stream` | `HandleEvent` (`Dispatch`) |
| the `handle_stream` loop | `SkipRead`, `ReadData`, `ReadNothing`, then `process_data`, then `NoConnect` or `InitiateServerConnect`, then `AfterProcess` |
| `process_data`, `START_MESSAGE` | `StartRequest`, `StartResponse` |
| `PARSE_HEADER`, `PUSH_HEADER` | `ParseHeader`, `PushHeader` |
| `PARSE_BODY` | `EndMessage`, `ParseBody`, `ForwardBody`, `ForwardToClose` |
| the three passes of `handle_event` | `strm` = "response", "request", "deny"; `StreamReturned` goes from one to the next |
| registering events, the CHECK before it | `RegisterEvents` |
| `shutdown` | `Shutdown` |
| `new_connection_handler` reusing the handler | `Accept` |

Data is a sequence of *units*: a start line, a field from which the forward
address is known, the end of a header together with the body encoding it
announces, a body piece, a piece the header parser refuses.  `Content-Length`
and chunked bodies are both "length" bodies here: the parsers share the claim
and forward cycle, and what differs is inside a unit.  A read returns any
non-empty run of units that fits the buffer.  The positions of the read buffer
are represented by `buf` (behind the parse position), `out` (claimed and not
yet written) and `stale_end` (the write end position was left in front of the
parse position by an earlier body in the same read).

The peers are external.  What they may do besides sending in turn is the
constant `Env`, so that a run states exactly which disturbances it allows:
pipelining, unsolicited or early answers, FIN or RST at any time, full windows,
a refused connect, a failing `socket()`/`connect()`.

A failed `CHECK_CONDITION` aborts the process (`util/logger.cpp`): `failed`
holds its name and nothing happens any more.

### BodyParser

One direction of one connection, byte by byte.  Every state of the three
parsers is an action of that name (`ParseChunkSize`, `ForwardChunk`, ...); the
variables `process_position`, `write_position`, `write_end_position` and the
counters are the code's.  A header is one byte, `H`, because only what it does
to the positions matters here: `parse_headers` moves the process and the write
position, not the write end position.  `current_length` is
`current_chunk_length_` or `current_length_`, whichever parser is selected.  A
read returns any number of bytes that fit the buffer, or none (EAGAIN, EINTR);
a write takes any part.  `Returns` is the way `process_data` and `handle_stream`
act on what a parser returns: read again (`again`), wait for the source
(`idle`), wait for the destination (`blocked`), refuse (`denied`).

The reference is `Relay`: each message with its size lines in their shortest
form, which is what `set_chunk_size` prints; a broken message up to its fault.
`WellFramed` says of an input that its messages have the framing they announce,
or are chunked and broken in a size line or behind a chunk's data.  The theorems
about forwarding have it as their hypothesis, and TLC evaluates it for the inputs
of the run (`ASSUME FramedInputs` in `MCBodyParser`).
`AllRelayed` leaves out a message that ends with the connection behind one with a
body: the process may abort there (section 4, `NoNegativeWrite`).
The source stays open: its end, and a destination that fails, are `ProxyHandler`'s.

### HeaderParser

One direction again, header after header.  Each case of the loop in
`parse_headers` is an action (`FieldName`, `FieldValueContent`, ...), the start
line has two (`ParseStatusToken`, `ParseStatusLF`), and the writer has one for a
text that goes out whole, one for a text that blocks, and one for the end.
`offset` and `line_offset` are the local `current_offset` of `parse_headers` and
of `parse_status_line`: that there are two is what goes wrong in `cut_line`.  The
write position of the read buffer is not a variable, because every return of the
parser sets it to the process position.

Methods, versions and field names are two bytes long instead of three to
seventeen, so that each can still be cut in every place.  The reference is
`WellFormed` (what must be let through), `Rendered` (what must come out: one
blank in front of every value) and `Announced` (which body follows, whatever the
order of the fields).  The host rules match nothing, so
`update_header_host_and_path` returns early.  A message with a body ends the
behaviour; `BodyParser` takes over there.  `CutStartLine` says whether a read may
end within a start line.  `Framed` says of an input that its parts are where its
bytes say: the first two tokens of the start line hold no blank, a name holds no
colon, a value does not begin with a blank, the last token, names and values hold no
line end, and behind the fields is an empty line or a carriage return without its
line feed.  Everything else, bare carriage returns and control characters too, may
stand anywhere.  It is the hypothesis of the theorems, which TLC evaluates for the inputs of the runs.

### ServerPools

The three `pessimistic_memory_manager`s as the code keeps them (a vector and a
position), the stream handlers each live connection holds, and the number of
header fields in each `message_buffer`.  Released stream handlers keep their
fields until they are used again: that is how the code behaves, and why the
cache can run empty with few live connections.

### ConfigFile, Routing, Startup

`Startup` is `main()`: each call of it that can fail is an action, in the code's
order (`Options`, `ParseFile`, `Configured`, `Socket`, `Bind`, `ListenCall`,
`switch_user`, `daemonize`, `ProxyHandlers`, `VirtualHost`, `AddRule`,
`EnterHost`, `Dispatch`).  A `return` runs the scope guards (`Return`); a failed
check or an exception out of `main` does not (`Die`).  The result of reading the
file is ignored, as in the code; what is missing shows when its key is looked up.

`ConfigFile` reads line by line with the line read ahead and the state of the
stream, because that is where `read()` is subtle: a value goes on over lines
without a delimiter, and at the end of a file without a final newline `getline`
leaves the string as it was, so the last of them is added twice
(`config_file.cpp:164`).  `value()` leaves its type unset and `parse_array` an
index it could not read: both are choices over what may be there.  The reference
is `LastAssigned`, a declarative reading of the file; `dump()` is checked by
reading its output back.

`Routing` is one handler with a table of rules.  A header arrives in parts, cut
in any place behind its start line; after each part `jit_connect` looks at what
there is, after the last one the header has been rewritten first.  A server, once
chosen, serves all later requests of the client.  The reference is again the
file (`UrlFor`, `IsUrl`, `Goes`), not the table.  `Address` is the resolver, which
is external: it has an address for the empty name too, the loopback one, so that a
text that is no URL, whose host stays empty, is served all the same.
`Literal` are the texts that `from_string()` takes for the addresses to listen on
and to forward to.  A path longer than `MAX_URI` or a Host longer than `MAX_VALUE`
behind the rewriting aborts (`Fits`).  The properties say nothing of the path,
the Host and the server where the text is no URL, and nothing of the port where
the number is above 65535; a URL without a path may stand for the path "/" or for
none.  `PreservedHostRouted`, `UnknownToDefault` and `RightServer` are about the
first request of a client, because the later ones follow it (section 4).

### HttpClient

One request.  `pc` is "waiting" between callbacks, "read" and "stream" in the
loop of `handle_event()`; every `read`, `write` and state of `handle_stream` is a
step, and the server and the timer move in between.  The calls on the
`i_http_client` are recorded in `calls`.  A read that ends inside the status line
gets the response refused, as `cut_line` shows of the parser (section 4); where in
the header that line ends is left open, so every cut of a header's first read may
be such a one (`ParseResponseHeader`).  `add_event` may fail silently, as
`poller.cpp:42` does when `fcntl` fails: the handler is then `Stranded`.  Where
`socket()` fails the caller hears only of the shutdown, and `add_fd(-1)` is never
taken back (`client_handler.cpp:170`).  A `handle_body()` that does not take a
part at once makes the response complete (`http_client_handler.cpp:149`), and so
does a reset in a body that ends with the connection; both are in the model, and
`CompleteIsWhole` says of them only what the code does.

### PooledList and ListSpec

The elements are the raw memory of a pool; `data` says which hold a live object.
A copy of a `T` may throw at any element, and so does an insertion when the pool
is empty: `k` of the values are inserted, and the rest of the operation does not
happen.  `ListSpec` knows values only, and says for every operation what the
lists are after it, and after it threw: where a constructor, `operator=` or a
comparison throws, nothing has changed, the number of free elements included.
`ImplementsListSpec` is the refinement (`INSTANCE ListSpec WITH` the values of the
elements in order).  The code does not keep that one promise (section 4): what such
a call took from the pool is in no list and no pool any more, it is `lost`.  The
mapping counts the lost elements as still free (`Owed`), so the refinement says
that all else is as promised; `remaining <- Cardinality(free_list_[p])` in its
place is refuted by the first copy that throws.
`ElementsConserved` is about what the abstract view hides: every element is
active in one list, free in one pool, or lost, and live objects are exactly the
ones that are not free.

## 3. Runs

Bounds are chosen so that every action happens, queues fill, buffers hold the
end of one message and the beginning of the next, and every write can block
before, in the middle of and after a message.

| run | instance | shows |
|---|---|---|
| `session` | POST and GET, a sized and an unsized answer, buffer of 3 units, all failures of both peers and one failing connect | `NoTruncation`, `DeadlockCheckHolds` |
| `pipelined` | three pipelined GETs (or a GET and a refused request), pipeline of 2, buffer of 4 | `TypeOK`, `RequestsInOrder`, `ResponsesInOrder`, `ErrorInTurn`, `DeniedNotForwarded` |
| `reuse` | two clients one after the other on one handler, each with one of two scripts | `Conserved`, `RequestsInOrder`, `HoldsElement`, `NoDescriptorLost` |
| `live` | two GETs through a pipeline of 1, stalls, a server that refuses, closes or resets | `HandlerReturns`, `ServerGoneEndsSession`, `AllAnswered` |
| `body` | thirteen sequences of messages, seven of them broken; buffer of 4 bytes, chunk sizes of at most 2 digits and 1 space | `PositionsOK`, `Relayed`, `InStep`, `NoJam`, `AllRelayed` |
| `header` | five sequences of headers that must pass and seventeen that must not, one for each way to be refused; buffer of 10 bytes, lengths of 3 and 5, two fields | `BuffersOK`, `HeadersRelayed`, `BodyAnnounced`, `OnlyBadRefused`, `HeadersEnd` |
| `pools` | three connections, three headers, two per message | `NoSharing`, `HeadersConserved` |
| `startup` | every file of up to three lines over an alphabet of seven, and of three more behind a value, with and without a final newline; 9 whole configurations (URLs with and without a port, of port 0 and 65535) and 21 deficient ones (a key missing, a text that is no URL, a name that does not resolve or is too long, a port of 70000); two of six requests per client | `ConfigRead`, `ForwardedAsConfigured`, `PreservedHostRouted`, `UnknownToDefault`, `ServesAsConfigured`, `StartupEnds` |
| `client` | seven responses (each body encoding, an empty body, a broken header, a broken body), requests of 2 bytes, buffer of 2, with and without a timeout | `TypeOK`, `OneOutcome`, `CompleteIsWhole`, `NothingBehind`, `ChecksHold`, `RequestEnds` |
| `list` | two lists, a pool of 3 and one of 1, two values, at most 2 values per operation | `ImplementsListSpec`, `ElementsConserved` |

A pipeline of 1 or 2 instead of the code's 5 makes "full" reachable with two or
three requests; the theorems below hold for every depth.  The scripts are two
or three messages because every interaction between messages in this code is
between a message and the one before it, or between a message and the element
its predecessor freed.  A buffer of 4 bytes is shorter than any chunk with its
framing, so that every boundary falls into a size line, into data and between
CR and LF; two digits and one space put both limits of the size line (8 and 256
in the code) within reach.  In `header` the buffer just holds a start line, which
must arrive whole there, while every field is cut in every place; the limits
(512 for any part, and the configured buffers) are 5 and 3, so that a part can
be too long for its buffer, or altogether, or only together with the blanks in
front of it.  In `startup` three lines are a key, what may continue it and what
ends it; the requests are two because the second meets the server the first one
chose, and a released handler the next client.  In `client` the buffer is shorter
than a header and a body, so that they meet in one read.  In `list` the small
pool makes every insertion into its list but one fail, the large one is drained
by two lists, and `swap` exchanges them.  `CHECK_DEADLOCK` is off in all of them: a session ends
("dead"), a stranded one has nothing to do, and an aborted process stops.

### Fairness

`SystemSpec` assumes of the program and the kernel only: a callback that runs
goes on (`WF(Step)`; one thread, no blocking call); a condition that is polled
for and holds again and again is reported (`SF(Report)`; libevent runs every
active event of a poll before polling again); a handshake ends; a peer drains a
full window.  Nothing is assumed of what the peers send, except where a
property says so itself: `AllAnswered` is an implication from a client and a
server that keep sending.

`BodyParser`'s `FairSpec` assumes the same of one direction: the program runs
on, bytes that were sent are read and reported in the end, a destination that
is waited for drains and is reported.  A readiness that comes and goes (another
event first, an EINTR) needs strong fairness; a drain cannot be undone, so weak
fairness does.  `HeaderParser`'s assumes of a destination that what is tried
again and again is written in the end.

`Startup` assumes that the process runs (`WF(Main)`), nothing of clients.
`HttpClient` assumes that the process runs, that a timer expires unless its
event happens first, and that the poller delivers what is `Due`: an event for
data that is there, and any event once the server has closed (its close answers
whatever is sent with a reset, which ends a blocked write too).  A server is not
assumed to answer: `RequestEnds` needs a timeout or a server that closes.

## 4. Where the code and its documentation part

Two runs state what the documentation or an assertion says, and TLC refutes
them; `PROJECT.json` quotes the line.

* `cut_line`: a start line that arrives in two reads is refused.
  `parse_headers` returns with the position it had on entry, so the first half
  stays in the buffer, is not read over, and is parsed and appended again.  A
  request that is cut right behind its method is refused for another reason:
  the method compares EQUAL where an unfinished token must be a SUBSTRING
  (`header_handler.cpp:85-90`).
* `misrouted`: a request for a virtual host whose URL names another one, without
  `preserve-host`, goes to that other host's server.  `process_data` replaces the
  Host of a complete header (`http_proxy_stream_handler.cpp:112`) before
  `get_forward_address_status` looks it up (line 404); a header that arrives in
  two reads may have been looked up before.

Four more can be reproduced in `MCProxyHandler` and `MCBodyParser`:

* with "unsolicited" in `Env` (`ShortGet`, `OneAnswer`), `HandlerReturns`
  fails: `handle_stream` does not return when a server sends before a request
  was passed on. `process_data` answers COMPLETE without consuming, and the
  read is skipped because the buffer is not written.
* `LogPaired` fails with two pipelined requests (`TwoGets`, `ShortAnswers`,
  "pipelining"): the response pass returns its pipeline element to the free
  list when it *starts*. The next request takes the same element (the free list
  is a stack) and resets its log record.
* with an overlong field in the second request (`GetThenOver`, `OneAnswer`,
  "pipelining"), `DeniedNotForwarded` fails: after DATAOVERFLOW the request
  handler is still in PARSE_HEADER with the refused value consumed; when it
  runs again it forwards the rest.
* `NoNegativeWrite` fails with an unsized body behind a sized or chunked one
  (`SizedThenOpen`): the write end position stays where the first body ended,
  the header behind it moves the write position further, and the unsized body
  is written from there to the old end. The check in `non_blocking_write`
  aborts the process.

Also met while modelling, and in the model, but not stated as runs.  Two of them
contradict a comment of the repository:

* a copy of a `pooled_list` that throws (`pooled_list.hpp:305`, 139-142) loses the
  elements it has taken for good: the constructor throws before there is a list
  whose destructor would release them.  The comment in `operator=` (lines 303-304)
  says "This temporarily drains the pool of x.size() elements. The operation might
  fail here, but this the only way to provide strong exception safety."  The
  comparisons take their arguments by value, so they drain the pool too.
* once a client's first request has chosen a server, its later requests go there
  too, also when they name a virtual host of their own: their header is rewritten
  for that host and sent to the server of the first (`proxy_handler.cpp:280` connects
  only while there is no server connection).  `sfrp.conf.example:22-23` says of
  `default-forward-url` "This is the URL to send requests which match the
  example.com host to."

The others:
a refused third request takes the element the first response is still using
and marks it DENY, so that response ends after its header
(`http_proxy_stream_handler.cpp:464`, the cause that breaks `LogPaired`;
`NoTruncation` fails with `PIPELINE_DEPTH = 1`, `GetsOrBad`, `ThreeAnswers` and
"pipelining" with "stall");
`release_headers` asserts that the cache is not empty, which is when a release
is needed most (`header_cache.cpp:37`, `CompleteMessage` in `ServerPools`); a
continuation line aborts the process when it arrives with its blank and is taken
for a field of its own when it is cut behind the blank (`header_parser.cpp:241-245`
says as much; `NoField`);
`connection::state(WRITE_SHUT)` on a READ_SHUT connection stores WRITE_SHUT
(`connection.cpp:74-82`, see `SetState`), so a closed read side opens again;
`CONNECTION_FAILED` is not looked at by `handle_event`, and the next event
tries again over the open descriptor (`proxy_handler.cpp:347`); a client that
closes before its header is complete leaves a handler that waits for nothing
that can come; `pipeline_data::HEAD` is never assigned, so the answer to a
HEAD request is waited for as if it had its body; a client beyond
`max-connections` is served through a null pointer (`AcceptFails`); timeouts
are configured but never armed.

Of start-up and configuration: `docs/sfrp.conf` has `forward-url` where
`host_rules.cpp:16` looks up `default-forward-url`, and a file without a virtual
host aborts; a failure behind `daemonize` is silent; the result of `parse_url` is
ignored, so that a text that is no URL has an empty host and path and is served
through the loopback address; a port is collected in an unsigned short, so that
one above 65535 wraps, and zero means 80; the path of a URL without one is "/", so
that "//p" is asked for where "/p" was; `resolve_addr` (`url.cpp:140`) may end
without a return; an HTTP/1.1 request
without Host is never connected; a path that no longer fits behind the
configured prefix, or a Host of a URL that does not fit a header value, aborts
the process (`read_write_buffer.cpp:241`); a response
with a Host field that names a virtual host has its status rewritten.
Of the client: when the name does not resolve, the handler is told and stays.
Of `pooled_list`: `operator=` has no return, `assign(n, x)` with an own element
reads it after it was destroyed, and lists of different pools cannot be merged.

## 5. Proofs

All theorems hold for every value of the constants, that is for every script,
buffer size, pipeline depth, number of connections and environment, under the
named assumptions of the modules (`ParameterAssumption`, `DepthAssumption`,
`BodyAssumption`, `InputsAssumption`, `HeaderAssumption`, `InputAssumption`,
`PoolAssumption`, `HttpClientAssumption`, `PooledListAssumption`), which only give
the constants their types (and say that there is a pool, which a `pooled_list` is
constructed from, that values can be ordered, and that `MAX_FIELD_LENGTH`, 512 in
`http.cpp:22`, is not 0).  Six theorems about `ProxyHandler`, two about `BodyParser`
and three about `HeaderParser` have a hypothesis of their own, which is where the code is known to do otherwise (section 4) or says what a message is:

| hypothesis | of | why |
|---|---|---|
| `"connectfault" \notin Env` | `DescriptorsKept` | a `connect()` that fails at once leaves its descriptor open, and the next event overwrites it |
| `NoOver` | `RequestsKeepOrder`, `ResponsesKeepOrder`, `DeniedKeptApart`, `ErrorsTakeTurn` | an overlong value is consumed before it is refused, and the bytes behind it are passed on |
| `NoError` | `ResponsesKeepOrder` | the unit "error" is the proxy's; a server does not send it |
| `RequestScript` | `DeniedKeptApart` | a request's body has the announced length, and what is refused is in its header; together with `NoOver` the theorem is about every refused header but one with an overlong field, whose rest the code does forward (section 4) |
| `Messages` | `ErrorsTakeTurn`, `NothingTruncated` | a script is a sequence of messages, numbered from 1, each a header and the body it announces; it may stop anywhere |
| `OneBad` (client) | `ErrorsTakeTurn` | the property speaks of the responses before *each* refused request; before a second one they would include answers to requests the proxy never forwarded |
| `Sound` (server) | `ErrorsTakeTurn` | a response the parser refuses is not relayed |
| `FramedInputs` (of `BodyParser`) | `NothingLost`, `FramingKept` | the reference encoding is that of messages whose size lines say how long their chunks are; a broken one is broken in a size line or behind the data, where the parser can tell.  Data, sizes, digits in either case, leading zeros and spaces are arbitrary |
| `FramedInputs` (of `HeaderParser`) | `HeadersAreRelayed`, `BodiesAreAnnounced`, `OnlyBadAreRefused` | the reference names the parts of a message, so they have to be the ones the grammar finds in its bytes (section 3); all messages of a direction are of one type |
| `~CutStartLine` | the same three | a read that ends within a start line loses it (section 4, `cut_line`) |
| `Regular` = `Messages` and `Sound`, both peers | `NothingTruncated` | the server as above; a refused request behind a full pipeline does cut a response off |

* **`DeadlockCheckNeverFires`** (`ProxyHandlerProofs`): `Spec => []DeadlockCheckHolds`.
  `DeadlockCheckHolds` is not inductive.  `SomethingToWaitFor` adds the reason:
  the response stream is served first and `handle_event` goes on only when it
  is blocked (`ResponseBlocked`: no server, nothing to read from it, or a client
  that takes no more); none of the three can be undone by the request pass; and
  a client connection whose write side failed never outlives the response pass
  that noticed.  `WaitInv` adds the types of the variables involved.  One step
  of `WaitInvStep` per action, with lemmas for writes to either side.
* **`DescriptorsKept`** (`ProxyHandlerProofs`): `Spec => []NoDescriptorLost`.
  `Owned` ties a descriptor to the state of its connection: a living handler's
  client is open, and a server that was connected to has its descriptor until
  `shutdown()`.  The exception that makes it inductive is `Denied`: between the
  end of a denied request and the `shutdown()` that follows, a server connection
  is shut for reading that was never open.
* **`TypeCorrect`, `NeverNull`** (`ProxyHandlerProofs`): `TypeOK`, and
  `HoldsElement`, which is inductive only together with the types and with the
  queue holding elements only.  One lemma per group of actions and variables.
* **`RequestsKeepOrder`** (`ProxyHandlerFlowProofs`): what the server got is a
  prefix of what the client says.  The invariant is `Flow`: the five places of a
  stream (got by the other side, message buffer, claimed part of the read buffer,
  rest of it, kernel queue) hold adjacent pieces of the script (`Chain`), which
  together are all that was sent unless a reset took the queue; `Tidy` says which
  places are empty in which state, so that nothing overtakes.  The scripts are
  read by position (`Piece`), so no induction is needed; one lemma for each way
  in which a step moves units from a place to the next.
* **`ResponsesKeepOrder`**: the same for the other direction, with the proxy's own
  400 in it.  `ResponseFlow` has three cases: `Flow`, the 400 waiting to be
  written (`Refusing`), and the last pass of a client (`Ending`).  The second
  needs that a request stream that refused a header never gets past it (`Stuck`),
  so that the element it marked stays marked (`DenyStuck`), although it is in the
  free list by then.
* **`DeniedKeptApart`**: nothing of a request the header parser refuses as malformed
  reaches the server.  Overlong fields are excluded by its hypothesis: with one the
  statement is false of this code (section 4).  `DeniedApart` adds to `RequestFlow` how far the client's script has
  been parsed without meeting anything bad (`Clean`), that what was passed on, or
  may be passed on now, is of other requests (`Apart`), and that the body that is
  being claimed is body (`BodyFollows`).
* **`ErrorsTakeTurn`** (`ProxyHandlerTurnProofs`): `Spec => []ErrorInTurn`.  Nothing
  in the code carries a number from a request to its response; what pairs them is
  the queue.  `Placed` says what a stream handler expects at the position it has
  reached in its script (a message, a header line, so many units of body, or
  nothing but body up to the end), and `Number` how many messages it has begun.
  `Paired` is then that the requests begun are the responses begun and the
  elements queued, and `DenyLast` that the denied request is the last in the
  queue.  So when its element comes to the front, the responses begun are those
  to all requests before it, and a response is only begun behind the end of the
  one before.  `InTurn` joins this to the three cases of `ResponseFlow`: while
  `Refusing` the turn is fixed (`Turn`), while `Ending` the property itself is kept.
* **`NothingTruncated`** (`ProxyHandlerTurnProofs`): `Spec => []NoTruncation`.
  `Relaying` has the flow and place of both streams and that no element is marked
  DENY.  `Ended` says that in a session without a reset the server connection is
  shut for reading only when the kernel queue, the read buffer and the message
  buffer are empty (`ShutDrained`), that a response pass ends the session only
  behind that (`PassEnds`), and hence that everything was handed on when the
  handler is dead.
* **`QueueConserves`** (`ProxyHandlerProofs`): the invariant `QueueInv`
  splits `Conserved` into the two lists being free of repetitions, disjoint,
  and of total length `PIPELINE_DEPTH`.
* **`UsesQueue`**, **`PipelineConserved`**: `ProxyHandler` implements
  `PipelineDataQueue` (each step is one of the queue's operations with its
  precondition, or stutters), so conservation carries over.
* **`PositionsConsistent`, `NeverJams`** (`BodyParserProofs`): neither property
  is inductive.  A claimed part must survive until it is written, which needs
  that the buffer is not read over it (`ClaimKept`, `SizeKept`): a blocked write
  leaves a byte, and an *empty* claim never waits, because a parser only runs
  when the destination is ready (`ReadyToParse`).  In all other states the write
  position has caught up with the parser (`Synced`).  For unsized bodies it is
  needed that the write end position is the end of the buffer or already behind
  the write position (`EndPassed`): the second case is the one that aborts.  One
  lemma per action.
* **`NothingLost`, `FramingKept`** (`BodyParserProofs`): `Spec => []Relayed` and
  `Spec => []InStep`.  The invariant `RelayInv` follows two places: how much of
  what was sent is dealt with (`Pos`: what was read before this buffer, and the
  position of the parser in it) and how much of what is expected is out.  `Stream`
  says that the buffer and what is unread stand in what was sent from there on;
  `PlainPlace`, `AtChunk` and `AtBadLine` give both places for each state of the
  parsers, as the begin of the message or chunk plus what the state has behind it
  (digits counted, size so far, bytes claimed, bytes not yet written).  It uses
  `IInv`, the invariant of the positions: a claim ends where the parser stands, and the
  buffer is read over only when it has been parsed to its end (`Parsed`).  What is
  ahead in the two streams comes from lemmas without state: `FlattenPlaces` (each
  message and chunk stands where the ones before it end), `HexTextType`
  (the recursion of `HexText` ends, and gives bytes), `PieceFramed` (a chunk, its
  line end or the lack of one, in both streams).  Those about `FlattenSeq` and
  `HexText` take a least counterexample in the place of an induction.  One lemma
  per action (`...Relays`); a byte of a size line needs four.
* **`BuffersKept`** (`HeaderParserProofs`): `Spec => []BuffersOK`, for messages of
  any content.  `HeaderInv` adds what keeps the scans within the buffer (a token
  never grows beyond `MAX_FIELD_LENGTH`, so that the limit of a scan is never in
  front of its begin), that a field is open exactly while it is parsed, and that
  the writer is between two texts unless it is pushing.  `parse_token` and
  `parse_equal` have lemmas of their own (`ScanOK`).
* **`HeadersAreRelayed`, `BodiesAreAnnounced`, `OnlyBadAreRefused`**
  (`HeaderParserProofs`): `Spec => []HeadersRelayed`, `[]BodyAnnounced` and
  `[]OnlyBadRefused`, all from `RelayInv`, next to `HeaderInv`.  None of the three is
  inductive: they speak of whole messages, and a step of one byte or one token.
  `Stream` says that the buffer and what is unread stand in what was sent, from the
  place (`Base`) where the buffer was last read over.  `Place` gives, for each
  state of the parser, where in which part of the current message it stands
  (`InLine`, `InName`, `InPad`, `InValue`, `AtLineFeed`, ...), what the `message_buffer`
  holds of it (`Content`: whole tokens and fields, and the part of the open one that
  has been scanned), and that what has been accepted so far met its part of
  `WellFormed`; a message whose fault has been seen but not yet refused is
  `Doomed`.  `OutInv` places what is out: the headers before this one, the texts the
  writer has finished (`PieceAt`), and `written` bytes of the one it is at.
  `BodiesInv` counts the announced bodies.  What stands where in `Wire` and `Rendered`
  comes from lemmas without state (`LineLayout`, `Layout`, `PieceAt`); a scan is
  characterised once (`ScanEnds`: it ends at the first delimiter, at the first
  refused character, at the limit or at the end of the buffer).  The body
  of the fields handled so far is chunked if one of them says so, else has the last
  length among them (`BodyScanned`).  One lemma per action; beyond a continuation line nothing is claimed, as in the
  properties.
* **`HandlersNotShared`** (`ServerPoolsProofs`): `PoolSpec => []NoSharing`.
  `PoolInv` says that a manager's free entries are distinct and that they and the
  entries that are taken split the pool (`Distinct`, `Split`), and that the three
  managers move together (`InStep`): only then does the third allocation of a
  connection succeed whenever the first one does.
* **`NoHeaderLost`**: `PoolSpec => []HeadersConserved`.  The sum over all stream
  handlers is a fold over a set; that it changes as one of its terms does
  (`SumChange`), and by what a set of terms changes, is proved by taking a
  counterexample of least cardinality, as the recursion takes its elements in an
  unspecified order.
* **`ClientTypes`, `LeavesNothing`, `ChecksNeverFire`, `WholeWhenComplete`**
  (`HttpClientProofs`): all four follow from `ClientInv`.  `Lifecycle` ties the
  descriptor, the monitor and the event to the handler's place: a living handler
  has its descriptor open and registered once, and no event while it handles one.
  `Counted` says for each state of the stream how much was written, parsed and
  delivered.  `Drained` is what makes a body that ends with the connection whole:
  the read side is shut only when the server closed and nothing is left to read.
  `Announced` orders the calls.  The checks hold because a stream leaves the loop
  READ_INCOMPLETE only when it is not ready to read, so EV_READ is waited for,
  and WRITE_INCOMPLETE only when it is not ready to write (`ReadIncompleteLeaves`,
  `WriteIncompleteLeaves`).
* **`OutcomeOnce`** (`HttpClientProofs`): `Spec => []OneOutcome`.  `Story` says for
  each place which calls the caller has had; a living handler can still write, so
  no INCOMPLETE of `handle_stream` ends it without an outcome.
* **`PooledListConserves`** (`PooledListProofs`): `Spec => []ElementsConserved`.  The
  property counts the places of an element; the invariant `ListInv` says it with
  sets.  Free elements and those of a list are of its pool (`HomeInv`); a list has
  none twice and two lists none in common (`OnceInv`); free, held and lost are
  disjoint (`ApartInv`) and are all there are (`CoverInv`); a T is alive in the held
  ones, none in the free ones (`AliveInv`); a list that is not constructed is empty.
  Three lemmas carry the operations: one list and the free elements of its pool
  exchange some (`ListStep`: insert, erase, assign, resize, remove, unique, destroy,
  `operator=`), free ones are lost (`LeakStep`: a constructor or comparison that
  throws), lists exchange what they hold (`ExchangeStep`: merge, splice, swap).
  What they ask of the loops of `remove_if`, `unique` and `merge` (`SelectSet`,
  `KeptSet`, `MergedSet`) is proved of the recursive functions by induction over a
  set of numbers (`SetInduction`).
* **`PooledListRefines`** (`PooledListProofs`): `Spec => ImplementsListSpec`, with
  `ListInv` as its invariant.  The values of a list are the image of its elements
  under `data` (`Map`).  That commutes with what the operations do to sequences
  (`MapInserted`, `MapErased`, `MapReverse`, `MapSelect`, `MapKept`, ...), a list that
  a step leaves alone keeps its values because the elements the step writes are not
  in it (`ValueStep`), and a pool has as many elements fewer as the list has more
  because the two together are the same set before and after (`Balance`); the lost
  elements count as free, as in the property (`OwedSum`, `LeakView`).  One
  lemma per operation (`...View`); for `merge` it is proved that sorted lists stay
  sorted, for `sort` that the result is sorted and the same values.  The proof found
  a defect of an earlier `PooledList`: with the strict order it gave the library's
  sort, the result was unspecified where two elements compare equal.  `sort` is
  now any stable ordering, as in `std::list`.

Only model-checked, and why:

* liveness (`HandlerReturns`, `ServerGoneEndsSession`, `AllAnswered`, `AllRelayed`,
  `HeadersEnd`, `StartupEnds`, `RequestEnds`): out of the prover's reach;
* `Startup` with `ConfigFile` and `Routing`: the reader of the file is a RECURSIVE
  operator, which the prover cannot use.

## 6. Not modelled

`EINTR` in `ProxyHandler` and `HttpClient` (logged and retried by the code;
`BodyParser` has it for reads); `connect()` succeeding at once on a non-blocking
socket (aborts by a CHECK); `handle_timeout` of the proxy (no caller; that of the
client is modelled); failure of `fcntl()` in `add_event` for the proxy
(`HttpClient` has it); `cork`/`flush`; the optional request post-processor (null
in `sfrp_main`); loose parsing of status lines; the byte `scan_field` stores
behind a length that fills its buffer, and lengths beyond an `int`.
`handle_event` ends without a return statement after registering events; its
caller ignores the value.  Re-registering a pending server event after a failed
connect is taken to replace the registration.  Log formatting and the text of
options and messages have no state.  `util/queue`, the asio client and crawler
and `serverlib` are not part of the proxy, and the last two are not built.
`http_client_handler.cpp` is modelled although no target compiles it: it includes
a header that does not exist.

## 7. Plan

1. Done: `Connection`, `PipelineDataQueue`, `ProxyHandler`, `ServerPools`, and
   the theorems about them: the safety invariants that the passing runs check of `ProxyHandler`,
   `PipelineDataQueue` and `ServerPools` are proved.
2. Done: `BodyParser` and `HeaderParser` and their theorems, with every safety
   invariant of their passing runs proved.
3. Done: `ConfigFile`, `Routing`, `Startup`; `PooledList` and the refinement of
   `ListSpec`, proved as well as checked; `HttpClient` and its theorems.
4. Next: `ConfigFile` with its reader as a recursive function, which would open
   `Startup` and `Routing` to the prover.
5. `BlockingQueue` (`util/queue`), the only code for several threads.
