----------------------------- MODULE ProxyHandler -----------------------------
(***************************************************************************)
(* proxylib::proxy_handler and the http_proxy_stream_handler pair it       *)
(* drives: one client/server connection pair of sfrp, from the accepted    *)
(* client socket to the release of the handler, and its reuse.             *)
(*                                                                         *)
(* The program is one thread.  pc says where handle_event() is; every      *)
(* system call (read, write, connect, event notification) is a step of its *)
(* own, so the two peers and the kernel move between them.                 *)
(*                                                                         *)
(* Data is abstracted to units, the pieces of a message the control flow   *)
(* tells apart.  A read returns any non-empty run of units, so every       *)
(* segmentation of the peers' byte streams at these boundaries occurs.     *)
(***************************************************************************)
EXTENDS Naturals, Sequences, SequencesExt, Connection, PipelineDataQueue

CONSTANTS
    Requests,   \* unit sequences, one of which the client sends on a connection
    Responses,  \* unit sequences, one of which the server sends back
    BufLength,  \* units that fit in a connection's read buffer
    MaxAccepts, \* bound: how many clients the handler serves one after another
    MaxFaults,  \* bound: how many socket() or connect() calls fail for one client
    Env         \* what the peers and the kernel may do besides the normal case

Behaviours == {"pipelining",  \* the client sends before earlier responses arrived
               "unsolicited", \* the server sends without having got a request
               "early",       \* the server answers before it has the request body
               "clientclose", "serverclose",   \* a peer stops sending (FIN)
               "clientreset", "serverreset",   \* a peer resets (RST)
               "stall",       \* a peer's receive window fills up
               "refused",     \* the forward server refuses the connection
               "connectfault",\* socket() or connect() fails at once
               "reuse"}       \* the released handler serves another client

Sides   == {"client", "server"}
Streams == {"request", "response"}

(***************************************************************************)
(* Units.  m is the number of the message (a response carries the number   *)
(* of the request it answers).  A header is a start line, then fields,     *)
(* then the unit that ends it and fixes how the body is delimited: "none", *)
(* "length" (n body units follow: Content-Length or chunked) or "close"    *)
(* (up to the end of the connection).  "field" stands for the fields with  *)
(* Host or an HTTP/1.0 version, from which the forward address is known.   *)
(* "bad" is input at which the header parser stays, returning INVALID each *)
(* time (a control character, an unknown method, a start line cut by a     *)
(* segment boundary); "over" is a value too long for its buffer, which the *)
(* parser has already consumed when it returns DATAOVERFLOW.  "error" is   *)
(* the proxy's own 400 response.                                           *)
(***************************************************************************)
BodyKinds == {"none", "length", "close"}
Kinds == {"start", "field", "body", "bad", "over", "error"} \cup BodyKinds
Units == [m : Nat, k : Kinds, n : Nat]

ErrorResponse == [m |-> 0, k |-> "error", n |-> 0]
Encodings == [k : BodyKinds, n : Nat]
NoBody == [k |-> "none", n |-> 0]

ASSUME ParameterAssumption ==
    /\ Requests \subseteq Seq(Units)
    /\ Responses \subseteq Seq(Units)
    /\ BufLength \in Nat \ {0}
    /\ MaxAccepts \in Nat \ {0}
    /\ MaxFaults \in Nat
    /\ Env \subseteq Behaviours

-----------------------------------------------------------------------------
VARIABLES
  \* proxy_handler
    pc,               \* where handle_event() is
    strm,             \* which of its handle_stream() calls is running
    status,           \* the STATUS that call works with or has returned
    failed,           \* "" or the CHECK_CONDITION that aborted the process
  \* the two connections
    state, ready_to_read, ready_to_write,
    fd,               \* "none" (-1), "open", or "closed" (number still stored)
    lost_fds,         \* open descriptors no connection refers to any more
    buf,              \* received and not yet parsed
    out,              \* parsed body still to be written from the same buffer
    stale_end,        \* write_end_position left behind the parse position
  \* events
    pending,          \* the mask each event is registered with, {} if none
  \* the two stream handlers
    message_state,
    header,           \* message_buffer: what header_writer still has to write
    encoding,         \* body encoding found in the headers
    body,             \* what body_parser still expects
    forwarding,       \* body_parser is in one of its FORWARD states
    current,          \* current_pipeline_data_, 0 for a null pointer
  \* pipeline_data, by element
    process_type, request_complete, logrecord,
    access_log,       \* <<request, response>> numbers of the records written
  \* the kernel and the peers
    inq,              \* sent by the peer, not yet read
    fin, rst,         \* the peer has closed its side, has reset
    room,             \* the peer's window has room
    link,             \* the forward connection as the kernel sees it
    got,              \* written to the peer
    req, resp,        \* what the peers say on this connection
    sent,             \* how many units of it each peer has sent
    accepts, faults

phVars     == <<pc, strm, status, failed>>
connVars   == <<state, ready_to_read, ready_to_write>>
fdVars     == <<fd, lost_fds, link, faults>>
bufVars    == <<buf, out, stale_end>>
streamVars == <<message_state, header, encoding, body, forwarding, current>>
elemVars   == <<process_type, request_complete, logrecord>>
netVars    == <<inq, fin, rst, room, got>>
peerVars   == <<req, resp, sent, accepts>>

vars == <<phVars, connVars, fdVars, bufVars, pending, streamVars, qvars,
          elemVars, access_log, netVars, peerVars>>

-----------------------------------------------------------------------------
(* Which connection and which stream handler a handle_stream() call works on.
   "deny" is the second response pass, after a request was denied. *)
Passes == {"response", "request", "deny"}
Stream == IF strm = "request" THEN "request" ELSE "response"
Src    == IF strm = "request" THEN "client" ELSE "server"
Dest   == IF strm = "request" THEN "server" ELSE "client"

(* Mutant: readiness that survives the end of the connection. *)
ReadyToReadFlag(c) == ready_to_read[c]

ReadyToRead(c)  == ready_to_read[c] /\ OpenForRead(state[c])
ReadyToWrite(c) == ready_to_write[c] /\ OpenForWrite(state[c])

(* read_write_buffer::fully_written() of a connection's read buffer. *)
FullyWritten(c) == buf[c] = <<>> /\ out[c] = <<>>

(* What poll reports for a descriptor. *)
Readable(c) ==
    IF c = "server" /\ link # "up" THEN link \in {"refused", "broken"}
    ELSE inq[c] # <<>> \/ fin[c] \/ rst[c]
Writable(c) ==
    IF c = "server" /\ link # "up" THEN link \in {"refused", "broken"}
    ELSE room[c] \/ rst[c]
Ready(c) == {e \in pending[c] : IF e = "READ" THEN Readable(c) ELSE Writable(c)}

-----------------------------------------------------------------------------
(* A handler that was given a client: reset() and add_client(). *)
Neither == [c \in Sides |-> FALSE]
NoUnits == [c \in Sides |-> <<>>]
ClientConnected == [c \in Sides |-> IF c = "client" THEN "CONNECTED" ELSE "NOT_CONNECTED"]
ClientOpen == [c \in Sides |-> IF c = "client" THEN "open" ELSE "none"]
ClientPolled == [c \in Sides |-> IF c = "client" THEN {"READ", "WRITE"} ELSE {}]

(* header_handler::reset(): the default encoding depends on the stream. *)
DefaultEncoding(s) == [k |-> IF s = "request" THEN "none" ELSE "close", n |-> 0]

Init ==
    /\ pc = "idle" /\ strm = "response" /\ status = "COMPLETE" /\ failed = ""
    /\ state = ClientConnected /\ ready_to_read = Neither /\ ready_to_write = Neither
    /\ fd = ClientOpen /\ lost_fds = 0 /\ pending = ClientPolled
    /\ buf = NoUnits /\ out = NoUnits /\ stale_end = Neither
    /\ message_state = [s \in Streams |-> "START_MESSAGE"]
    /\ header = [s \in Streams |-> <<>>]
    /\ encoding = [s \in Streams |-> DefaultEncoding(s)]
    /\ body = [s \in Streams |-> NoBody]
    /\ forwarding = [s \in Streams |-> FALSE]
    /\ current = [s \in Streams |-> 0]
    /\ QueueInit
    /\ process_type = [e \in Elements |-> "NORMAL"]
    /\ request_complete = [e \in Elements |-> FALSE]
    /\ logrecord = [e \in Elements |-> 0]
    /\ access_log = <<>>
    /\ inq = NoUnits /\ fin = Neither /\ rst = Neither
    /\ room = [c \in Sides |-> TRUE] /\ got = NoUnits
    /\ req \in Requests /\ resp \in Responses
    /\ sent = [c \in Sides |-> 0]
    /\ link = "down" /\ accepts = 1 /\ faults = 0

-----------------------------------------------------------------------------
(* The client and the server. *)

Delivered(c, u) == u \in ToSet(got[c])

(* Without pipelining the client waits for all earlier responses. *)
ClientMaySend(u) ==
    \/ "pipelining" \in Env
    \/ \A i \in DOMAIN resp : resp[i].m < u.m => Delivered("client", resp[i])

(* The server answers a request it has received: all of it, or its header. *)
ServerMaySend(u) ==
    \/ "unsolicited" \in Env
    \/ /\ \E i \in DOMAIN req : req[i].m = u.m
       /\ \A i \in DOMAIN req :
            req[i].m = u.m /\ ("early" \in Env => req[i].k # "body")
                => Delivered("server", req[i])

CloseOf(c) == IF c = "client" THEN "clientclose" ELSE "serverclose"
ResetOf(c) == IF c = "client" THEN "clientreset" ELSE "serverreset"

Script(c) == IF c = "client" THEN req ELSE resp

PeerSend(c) ==
    /\ pc # "dead" /\ failed = ""
    /\ c = "server" => link = "up"
    /\ ~fin[c] /\ ~rst[c]
    /\ sent[c] < Len(Script(c))
    /\ LET u == Script(c)[sent[c] + 1]
       IN  /\ IF c = "client" THEN ClientMaySend(u) ELSE ServerMaySend(u)
           /\ inq' = [inq EXCEPT ![c] = Append(@, u)]
           /\ sent' = [sent EXCEPT ![c] = @ + 1]
    /\ UNCHANGED <<phVars, connVars, fdVars, bufVars, pending, streamVars, qvars,
                   elemVars, access_log, fin, rst, room, got, req, resp, accepts>>

(* FIN.  A peer that has said everything may always close; with "clientclose"
   or "serverclose" it may do so in the middle. *)
PeerClose(c) ==
    /\ pc # "dead" /\ failed = ""
    /\ c = "server" => link = "up"
    /\ ~fin[c] /\ ~rst[c]
    /\ CloseOf(c) \in Env \/ sent[c] = Len(Script(c))
    /\ fin' = [fin EXCEPT ![c] = TRUE]
    /\ UNCHANGED <<phVars, connVars, fdVars, bufVars, pending, streamVars, qvars,
                   elemVars, access_log, inq, rst, room, got, peerVars>>

(* RST: what was queued in either direction is gone. *)
PeerReset(c) ==
    /\ pc # "dead" /\ failed = ""
    /\ c = "server" => link = "up"
    /\ ResetOf(c) \in Env
    /\ ~rst[c]
    /\ rst' = [rst EXCEPT ![c] = TRUE]
    /\ inq' = [inq EXCEPT ![c] = <<>>]
    /\ UNCHANGED <<phVars, connVars, fdVars, bufVars, pending, streamVars, qvars,
                   elemVars, access_log, fin, room, got, peerVars>>

(* The peer reads, its window opens again. *)
PeerDrain(c) ==
    /\ pc # "dead" /\ failed = ""
    /\ ~room[c]
    /\ room' = [room EXCEPT ![c] = TRUE]
    /\ UNCHANGED <<phVars, connVars, fdVars, bufVars, pending, streamVars, qvars,
                   elemVars, access_log, inq, fin, rst, got, peerVars>>

(* The kernel finishes the three-way handshake, or learns that it cannot. *)
ConnectResult ==
    /\ pc # "dead" /\ failed = ""
    /\ link = "pending"
    /\ link' \in {"up"} \cup (IF "refused" \in Env THEN {"refused"} ELSE {})
    /\ UNCHANGED <<phVars, connVars, fd, lost_fds, faults, bufVars, pending,
                   streamVars, qvars, elemVars, access_log, netVars, peerVars>>

-----------------------------------------------------------------------------
(* Mutant: the descriptors are closed with their events still registered. *)
ShutdownKeepsEvents ==
    /\ pc' = "dead"
    /\ fd' = [c \in Sides |-> IF fd[c] = "open" THEN "closed" ELSE fd[c]]
    /\ UNCHANGED pending

(* shutdown(): events removed, descriptors closed, handler and stream handlers
   back to their pools.  A denied stream handler is not reset here; that is
   left to the next reset(). *)
Shutdown ==
    /\ pc' = "dead"
    /\ pending' = [c \in Sides |-> {}]
    /\ fd' = [c \in Sides |-> IF fd[c] = "open" THEN "closed" ELSE fd[c]]

(* handle_event(), up to its first handle_stream(): the ready flags are set
   from revents, and a first event on a connecting server socket is the result
   of the connect.  Events are one-shot.  revents is what poll saw, which may be
   less than what has become ready since. *)
ConnectFailed == link = "refused" \/ rst["server"]       \* SO_ERROR

HandleEvent(c, revents) ==
    /\ pc = "idle" /\ failed = ""
    /\ revents # {} /\ revents \subseteq Ready(c)
    /\ ready_to_write' = [ready_to_write EXCEPT ![c] = @ \/ "WRITE" \in revents]
    /\ ready_to_read' = [ready_to_read EXCEPT ![c] = @ \/ "READ" \in revents]
    /\ strm' = "response"
    /\ \/ /\ c = "server" /\ state[c] = "CONNECTING" /\ ConnectFailed
          /\ Shutdown
          /\ UNCHANGED state
       \/ /\ c = "server" /\ state[c] = "CONNECTING" /\ ~ConnectFailed
          /\ state' = [state EXCEPT ![c] = SetState(@, "CONNECTED")]
          /\ pc' = "read"
          /\ pending' = [pending EXCEPT ![c] = {}]
          /\ UNCHANGED fd
       \/ /\ ~(c = "server" /\ state[c] = "CONNECTING")
          /\ pc' = "read"
          /\ pending' = [pending EXCEPT ![c] = {}]
          /\ UNCHANGED <<state, fd>>
    /\ UNCHANGED <<status, failed, lost_fds, link, faults, bufVars, streamVars, qvars,
                   elemVars, access_log, netVars, peerVars>>

-----------------------------------------------------------------------------
(* One round of the loop of handle_stream(): a read, process_data(), the
   just-in-time connect, and what is done with the status. *)

(* non_blocking_read() is only attempted when it may be: a connected source,
   ready, and nothing of the previous read left in the buffer. *)
MayReadAnyway ==       \* mutant: the rest of the last read is forgotten
    /\ state[Src] \notin {"NOT_CONNECTED", "CONNECTING"}
    /\ ReadyToRead(Src)

MayRead ==
    /\ state[Src] \notin {"NOT_CONNECTED", "CONNECTING"}
    /\ ReadyToRead(Src)
    /\ FullyWritten(Src)

SkipRead ==
    /\ pc = "read" /\ ~MayRead
    /\ pc' = "process"
    /\ UNCHANGED <<strm, status, failed, connVars, fdVars, bufVars, pending, streamVars,
                   qvars, elemVars, access_log, netVars, peerVars>>

(* What is read replaces the contents of the buffer. *)
ReadData ==
    /\ pc = "read" /\ MayRead
    /\ \E k \in 1 .. BufLength :
         /\ k <= Len(inq[Src])
         /\ buf' = [buf EXCEPT ![Src] = SubSeq(inq[Src], 1, k)]
         /\ inq' = [inq EXCEPT ![Src] = SubSeq(inq[Src], k + 1, Len(inq[Src]))]
    /\ stale_end' = [stale_end EXCEPT ![Src] = FALSE]
    /\ pc' = "process"
    /\ UNCHANGED <<strm, status, failed, connVars, fdVars, out, pending, streamVars,
                   qvars, elemVars, access_log, fin, rst, room, got, peerVars>>

(* Nothing to read: end of file or an error shuts the read side, EAGAIN clears
   the ready flag. *)
ReadNothing ==
    /\ pc = "read" /\ MayRead
    /\ inq[Src] = <<>>
    /\ \/ /\ fin[Src] \/ rst[Src]
          /\ state' = [state EXCEPT ![Src] = SetState(@, "READ_SHUT")]
          /\ UNCHANGED ready_to_read
       \/ /\ ~fin[Src] /\ ~rst[Src]
          /\ ready_to_read' = [ready_to_read EXCEPT ![Src] = FALSE]
          /\ UNCHANGED state
    /\ stale_end' = [stale_end EXCEPT ![Src] = FALSE]
    /\ pc' = "process"
    /\ UNCHANGED <<strm, status, failed, ready_to_write, fdVars, buf, out, pending,
                   streamVars, qvars, elemVars, access_log, netVars, peerVars>>

(***************************************************************************)
(* non_blocking_write() of us to connection d: the first k units reach the *)
(* peer, and r is returned.  The call loops until everything is written,   *)
(* the write would block, or it fails.                                     *)
(***************************************************************************)
Write(d, us, k, r) ==
    \/ /\ ~ReadyToWrite(d)
       /\ k = 0 /\ r = "INCOMPLETE"
       /\ UNCHANGED <<state, ready_to_write, got, room>>
    \/ /\ ReadyToWrite(d) /\ us = <<>>
       /\ k = 0 /\ r = "COMPLETE"
       /\ UNCHANGED <<state, ready_to_write, got, room>>
    \/ /\ ReadyToWrite(d) /\ us # <<>> /\ rst[d]
       /\ k = 0 /\ r = "DEST_CLOSED"
       /\ state' = [state EXCEPT ![d] = SetState(@, "WRITE_SHUT")]
       /\ UNCHANGED <<ready_to_write, got, room>>
    \/ /\ ReadyToWrite(d) /\ us # <<>> /\ ~rst[d] /\ room[d]
       /\ k = Len(us) /\ r = "COMPLETE"
       /\ got' = [got EXCEPT ![d] = @ \o us]
       /\ room' \in {room} \cup (IF "stall" \in Env THEN {[room EXCEPT ![d] = FALSE]} ELSE {})
       /\ UNCHANGED <<state, ready_to_write>>
    \/ /\ ReadyToWrite(d) /\ us # <<>> /\ ~rst[d]
       /\ IF room[d] THEN "stall" \in Env /\ k > 0 ELSE k = 0
       /\ k < Len(us) /\ r = "INCOMPLETE"
       /\ got' = [got EXCEPT ![d] = @ \o SubSeq(us, 1, k)]
       /\ room' = [room EXCEPT ![d] = FALSE]
       /\ ready_to_write' = [ready_to_write EXCEPT ![d] = FALSE]
       /\ UNCHANGED state

(* Mutant: a write that blocked starts over. *)
AfterNothing(us, k) == us

(* What is left of us after k units were written. *)
After(us, k) == SubSeq(us, k + 1, Len(us))

-----------------------------------------------------------------------------
(* http_proxy_stream_handler::process_data(), one step per case of its loop. *)

Processing(ms) == pc = "process" /\ message_state[Stream] = ms

(* process_data() returns r. *)
Returns(r) == pc' = "jit" /\ status' = r

(* ... or goes round its loop. *)
Continues == UNCHANGED <<pc, status>>

GoTo(ms) == message_state' = [message_state EXCEPT ![Stream] = ms]

(* set_current_pipeline_data() *)
TakeNothing(s, e) == UNCHANGED current                       \* mutant

TakeElement(s, e) == current' = [current EXCEPT ![s] = e]

(* START_MESSAGE of the request: a slot of the pipeline, or wait for one. *)
StartRequest ==
    /\ Processing("START_MESSAGE") /\ Stream = "request"
    /\ \/ /\ QueueFull
          /\ Returns("INCOMPLETE")
          /\ UNCHANGED <<qvars, elemVars, current, message_state>>
       \/ /\ QueueElement
          /\ process_type' = [process_type EXCEPT ![NextFree] = "NORMAL"]
          /\ request_complete' = [request_complete EXCEPT ![NextFree] = FALSE]
          /\ logrecord' = [logrecord EXCEPT ![NextFree] = 0]
          /\ TakeElement("request", NextFree)
          /\ GoTo("PARSE_HEADER")
          /\ Continues
    /\ UNCHANGED <<strm, failed, connVars, fdVars, bufVars, pending, header, encoding, body,
                   forwarding, access_log, netVars, peerVars>>

(* START_MESSAGE of the response: the oldest request, if its header has been
   passed on.  The element goes back to the free list here, before it is used. *)
StartResponse ==
    /\ Processing("START_MESSAGE") /\ Stream = "response"
    /\ \/ /\ QueueEmpty
          /\ Returns("COMPLETE")
          /\ UNCHANGED <<current, qvars, message_state, header>>
       \/ /\ ~QueueEmpty /\ ~request_complete[FrontElement]
          /\ TakeElement("response", FrontElement)
          /\ Returns("COMPLETE")
          /\ UNCHANGED <<qvars, message_state, header>>
       \/ /\ ~QueueEmpty /\ request_complete[FrontElement]
          /\ DequeueElement
          /\ TakeElement("response", FrontElement)
          /\ IF process_type[FrontElement] = "DENY"
             THEN /\ header' = [header EXCEPT !["response"] = <<ErrorResponse>>]
                  /\ GoTo("PUSH_HEADER")
             ELSE /\ GoTo("PARSE_HEADER")
                  /\ UNCHANGED header
          /\ Continues
    /\ UNCHANGED <<strm, failed, connVars, fdVars, bufVars, pending, encoding, body,
                   forwarding, elemVars, access_log, netVars, peerVars>>

(* log_request(): the request fills the record, the response writes it out. *)
LogRequest(u) ==
    IF Stream = "request"
    THEN /\ logrecord' = [logrecord EXCEPT ![current["request"]] = u.m]
         /\ UNCHANGED access_log
    ELSE /\ access_log' = Append(access_log, <<logrecord[current["response"]], u.m>>)
         /\ UNCHANGED logrecord

(* A header begins with its start line, and has no other. *)
ExpectedAnything(u) == (u.k = "start") = (header[Stream] = <<>>)     \* mutant

Expected(u) == u.k \in {"start", "field"} \cup BodyKinds /\ (u.k = "start") = (header[Stream] = <<>>)

(* PARSE_HEADER, over the next unit of the buffer. *)
ParseHeader ==
    /\ Processing("PARSE_HEADER")
    /\ \/ /\ buf[Src] = <<>>
          /\ Returns("COMPLETE")
          /\ UNCHANGED <<buf, header, encoding, message_state, elemVars, access_log>>
       \/ /\ buf[Src] # <<>> /\ Expected(Head(buf[Src])) /\ Head(buf[Src]).k \notin BodyKinds
          /\ buf' = [buf EXCEPT ![Src] = Tail(@)]
          /\ header' = [header EXCEPT ![Stream] = Append(@, Head(buf[Src]))]
          /\ Continues
          /\ UNCHANGED <<encoding, message_state, elemVars, access_log>>
       \/ /\ buf[Src] # <<>> /\ Expected(Head(buf[Src])) /\ Head(buf[Src]).k \in BodyKinds
          /\ LET u == Head(buf[Src])
             IN  /\ encoding' = [encoding EXCEPT ![Stream] = [k |-> u.k, n |-> u.n]]
                 /\ LogRequest(u)
          /\ buf' = [buf EXCEPT ![Src] = Tail(@)]
          /\ header' = [header EXCEPT ![Stream] = Append(@, Head(buf[Src]))]
          /\ GoTo("PUSH_HEADER")
          /\ Continues
          /\ UNCHANGED <<process_type, request_complete>>
       \/ /\ buf[Src] # <<>> /\ ~Expected(Head(buf[Src]))
          /\ buf' = [buf EXCEPT ![Src] = IF Head(@).k = "over" THEN Tail(@) ELSE @]
          /\ IF Stream = "request"
             THEN /\ process_type' = [process_type EXCEPT ![current["request"]] = "DENY"]
                  /\ request_complete' = [request_complete EXCEPT ![current["request"]] = TRUE]
             ELSE UNCHANGED <<process_type, request_complete>>
          /\ Returns("DENY")
          /\ UNCHANGED <<header, encoding, message_state, logrecord, access_log>>
    /\ UNCHANGED <<strm, failed, connVars, fdVars, out, stale_end, pending, body, forwarding,
                   current, qvars, netVars, peerVars>>

(* PUSH_HEADER: header_writer::write_header() resumes where it blocked.  Once
   the header is out the element is marked complete, whichever stream this is. *)
PushHeader ==
    /\ Processing("PUSH_HEADER")
    /\ \E k \in 0 .. Len(header[Stream]), r \in Statuses :
         /\ Write(Dest, header[Stream], k, r)
         /\ header' = [header EXCEPT ![Stream] = After(@, k)]
         /\ \/ /\ r = "COMPLETE"
               /\ GoTo("PARSE_BODY")
               /\ request_complete' = [request_complete EXCEPT ![current[Stream]] = TRUE]
               /\ IF process_type[current[Stream]] = "DENY"
                  THEN Returns("SRC_CLOSED") /\ UNCHANGED body
                  ELSE Continues /\ body' = [body EXCEPT ![Stream] = encoding[Stream]]
            \/ /\ r # "COMPLETE"
               /\ Returns(r)
               /\ UNCHANGED <<message_state, request_complete, body>>
    /\ UNCHANGED <<strm, failed, ready_to_read, fdVars, bufVars, pending, encoding,
                   forwarding, current, qvars, process_type, logrecord, access_log,
                   inq, fin, rst, peerVars>>

(* complete_message(): the message is done, the stream handler starts over. *)
CompleteMessage ==
    /\ GoTo("START_MESSAGE")
    /\ current' = [current EXCEPT ![Stream] = 0]
    /\ header' = [header EXCEPT ![Stream] = <<>>]
    /\ encoding' = [encoding EXCEPT ![Stream] = DefaultEncoding(Stream)]
    /\ body' = [body EXCEPT ![Stream] = NoBody]
    /\ forwarding' = [forwarding EXCEPT ![Stream] = FALSE]
    /\ Continues

(* PARSE_BODY without a body. *)
EndMessage ==
    /\ Processing("PARSE_BODY") /\ body[Stream].k = "none"
    /\ CompleteMessage
    /\ UNCHANGED <<strm, failed, connVars, fdVars, bufVars, pending, qvars, elemVars,
                   access_log, netVars, peerVars>>

(* PARSE_BODY, MESSAGE_BODY_PARSE: claim what belongs to this body, up to a
   piece that is no valid chunk framing.  The write end is moved to the end of
   the claim, and nothing moves it back. *)
ClaimOneMore(us, n, k) == k <= n + 1 /\ (k = n + 1 \/ k = Len(us))      \* mutant

Claimable(us, n, k) ==
    /\ k <= n /\ \A i \in 1 .. k : us[i].k # "bad"
    /\ k < n /\ k < Len(us) => us[k + 1].k = "bad"

ParseBody ==
    /\ Processing("PARSE_BODY") /\ body[Stream].k = "length" /\ ~forwarding[Stream]
    /\ \E k \in 0 .. Len(buf[Src]) :
         /\ Claimable(buf[Src], body[Stream].n, k)
         /\ \/ /\ k = 0 /\ buf[Src] # <<>> /\ body[Stream].n > 0
               /\ Returns("DENY")
               /\ UNCHANGED <<bufVars, body, forwarding>>
            \/ /\ ~(k = 0 /\ buf[Src] # <<>> /\ body[Stream].n > 0)
               /\ out' = [out EXCEPT ![Src] = SubSeq(buf[Src], 1, k)]
               /\ buf' = [buf EXCEPT ![Src] = After(@, k)]
               /\ body' = [body EXCEPT ![Stream] = [k |-> "length", n |-> @.n - k]]
               /\ stale_end' = [stale_end EXCEPT ![Src] = k < Len(buf[Src])]
               /\ forwarding' = [forwarding EXCEPT ![Stream] = TRUE]
               /\ Continues
    /\ UNCHANGED <<strm, failed, connVars, fdVars, pending, message_state, header, encoding,
                   current, qvars, elemVars, access_log, netVars, peerVars>>

(* PARSE_BODY, the two FORWARD states: set_body() of the claimed part.  The loop
   of the chunked parser refuses broken framing behind it at once. *)
Broken(c) == buf[c] # <<>> /\ Head(buf[c]).k = "bad"
ForwardBody ==
    /\ Processing("PARSE_BODY") /\ body[Stream].k = "length" /\ forwarding[Stream]
    /\ \E k \in 0 .. Len(out[Src]), r \in Statuses :
         /\ Write(Dest, out[Src], k, r)
         /\ out' = [out EXCEPT ![Src] = After(@, k)]
         /\ \/ /\ r = "COMPLETE" /\ body[Stream].n = 0
               /\ CompleteMessage
            \/ /\ r = "COMPLETE" /\ body[Stream].n > 0
               /\ forwarding' = [forwarding EXCEPT ![Stream] = FALSE]
               /\ Returns(IF Broken(Src) THEN "DENY" ELSE "COMPLETE")
               /\ UNCHANGED <<message_state, current, header, encoding, body>>
            \/ /\ r # "COMPLETE"
               /\ Returns(r)
               /\ UNCHANGED <<message_state, current, header, encoding, body, forwarding>>
    /\ UNCHANGED <<strm, failed, ready_to_read, fdVars, buf, stale_end, pending, qvars,
                   elemVars, access_log, inq, fin, rst, peerVars>>

(* PARSE_BODY up to the end of the connection: the rest of the buffer, from the
   write position to the write end.  A write end that is behind the write
   position trips the check on the number of bytes and aborts the process. *)
ForwardToClose ==
    /\ Processing("PARSE_BODY") /\ body[Stream].k = "close"
    /\ \/ /\ ReadyToWrite(Dest) /\ stale_end[Src]
          /\ failed' = "negative write"
          /\ pc' = "aborted"
          /\ UNCHANGED <<state, ready_to_write, got, room, buf, status>>
       \/ /\ ~(ReadyToWrite(Dest) /\ stale_end[Src])
          /\ \E k \in 0 .. Len(buf[Src]), r \in Statuses :
               /\ Write(Dest, buf[Src], k, r)
               /\ buf' = [buf EXCEPT ![Src] = After(@, k)]
               /\ Returns(r)
          /\ UNCHANGED failed
    /\ UNCHANGED <<strm, ready_to_read, fdVars, out, stale_end, pending, streamVars, qvars,
                   elemVars, access_log, inq, fin, rst, peerVars>>

-----------------------------------------------------------------------------
(* get_forward_address_status(): the address is known once Host or an HTTP/1.0
   version is in the message buffer of the request. *)
ForwardAddressKnown == \E i \in DOMAIN header["request"] : header["request"][i].k # "start"

NeedsServer ==
    /\ strm = "request"
    /\ state["server"] = "NOT_CONNECTED"
    /\ ForwardAddressKnown

NoConnect ==
    /\ pc = "jit" /\ ~NeedsServer
    /\ pc' = "after"
    /\ UNCHANGED <<strm, status, failed, connVars, fdVars, bufVars, pending, streamVars,
                   qvars, elemVars, access_log, netVars, peerVars>>

(* initiate_server_connect(): the new descriptor replaces whatever number was
   stored; add_event() before connect().  A failure is returned at once from
   handle_stream(), in place of the status of process_data(). *)
FaultOccurs ==
    /\ "connectfault" \in Env
    /\ faults < MaxFaults /\ faults' = faults + 1
    /\ pc' = "return" /\ status' = "CONNECTION_FAILED"
    /\ UNCHANGED state

NewServerSocket ==
    /\ fd' = [fd EXCEPT !["server"] = "open"]
    /\ ready_to_read' = [ready_to_read EXCEPT !["server"] = FALSE]
    /\ ready_to_write' = [ready_to_write EXCEPT !["server"] = FALSE]
    /\ pending' = [pending EXCEPT !["server"] = {"READ", "WRITE"}]

InitiateServerConnect ==
    /\ pc = "jit" /\ NeedsServer
    /\ lost_fds' = lost_fds + (IF fd["server"] = "open" THEN 1 ELSE 0)
    /\ \/ /\ NewServerSocket               \* EINPROGRESS
          /\ link' = "pending"
          /\ state' = [state EXCEPT !["server"] = SetState(@, "CONNECTING")]
          /\ pc' = "after"
          /\ UNCHANGED <<status, faults>>
       \/ /\ NewServerSocket               \* connect() fails
          /\ link' = "broken"
          /\ FaultOccurs
       \/ /\ fd' = [fd EXCEPT !["server"] = "none"]     \* socket() fails
          /\ link' = "down"
          /\ FaultOccurs
          /\ UNCHANGED <<ready_to_read, ready_to_write, pending>>
    /\ UNCHANGED <<strm, failed, bufVars, streamVars, qvars, elemVars, access_log, netVars,
                   peerVars>>

(* handle_stream() on the status of process_data(). *)
AfterProcess ==
    /\ pc = "after"
    /\ \/ /\ status = "COMPLETE" /\ ReadyToRead(Src)
          /\ pc' = "read"
          /\ UNCHANGED <<state, status>>
       \/ /\ status = "COMPLETE" /\ ~ReadyToRead(Src)
          /\ pc' = "return"
          /\ status' = IF state[Src] \in {"READ_SHUT", "HUNGUP"}
                       THEN "COMPLETE" ELSE "INCOMPLETE"
          /\ UNCHANGED state
       \/ /\ status \in {"INCOMPLETE", "DENY"}
          /\ pc' = "return"
          /\ UNCHANGED <<state, status>>
       \/ /\ status = "SRC_CLOSED"
          /\ state' = [state EXCEPT ![Src] = SetState(@, "READ_SHUT")]
          /\ pc' = "return" /\ status' = "COMPLETE"
       \/ /\ status = "DEST_CLOSED"
          /\ pc' = "return" /\ status' = "COMPLETE"
          /\ UNCHANGED state
    /\ UNCHANGED <<strm, failed, ready_to_read, ready_to_write, fdVars, bufVars, pending,
                   streamVars, qvars, elemVars, access_log, netVars, peerVars>>

(* handle_event() on what handle_stream() returned.  Of the request stream only
   DENY matters: shutdown_request() shuts the client socket for reading, and
   the response stream gets another pass. *)
StreamReturned ==
    /\ pc = "return"
    /\ \/ /\ strm # "request" /\ status \in {"COMPLETE", "DENY"}
          /\ Shutdown
          /\ UNCHANGED <<strm, fin>>
       \/ /\ strm = "response" /\ status \notin {"COMPLETE", "DENY"}
          /\ strm' = "request" /\ pc' = "read"
          /\ UNCHANGED <<pending, fd, fin>>
       \/ /\ strm = "request" /\ status = "DENY"
          /\ fin' = [fin EXCEPT !["client"] = TRUE]
          /\ strm' = "deny" /\ pc' = "read"
          /\ UNCHANGED <<pending, fd>>
       \/ /\ \/ strm = "request" /\ status # "DENY"
             \/ strm = "deny" /\ status \notin {"COMPLETE", "DENY"}
          /\ pc' = "register"
          /\ UNCHANGED <<strm, pending, fd, fin>>
    /\ UNCHANGED <<status, failed, connVars, lost_fds, link, faults, bufVars, streamVars,
                   qvars, elemVars, access_log, inq, rst, room, got, peerVars>>

(* The end of handle_event(): wait for what the connections are not ready for.
   If nothing is left to wait for while the server connection is open, the
   process aborts ("connection will deadlock under current conditions"). *)
InterestIfReadable(c) ==       \* mutant: both tests ask open_for_read()
    {e \in {"READ", "WRITE"} :
        /\ OpenForRead(state[c])
        /\ IF e = "READ" THEN ~ReadyToRead(c) ELSE ~ReadyToWrite(c)}

InterestInWriting(c) ==        \* mutant: EV_READ is never asked for
    {e \in {"WRITE"} : ~ReadyToWrite(c) /\ OpenForWrite(state[c])}

Interest(c) ==
    {e \in {"READ", "WRITE"} :
        IF e = "READ" THEN ~ReadyToRead(c) /\ OpenForRead(state[c])
                      ELSE ~ReadyToWrite(c) /\ OpenForWrite(state[c])}

WillDeadlock ==
    /\ Interest("client") = {} /\ Interest("server") = {}
    /\ OpenForRead(state["server"]) \/ OpenForWrite(state["server"])

RegisterEvents ==
    /\ pc = "register"
    /\ \/ /\ WillDeadlock
          /\ failed' = "deadlock" /\ pc' = "aborted"
          /\ UNCHANGED pending
       \/ /\ ~WillDeadlock
          /\ pending' = [c \in Sides |-> IF Interest(c) # {} THEN Interest(c) ELSE pending[c]]
          /\ pc' = "idle"
          /\ UNCHANGED failed
    /\ UNCHANGED <<strm, status, connVars, fdVars, bufVars, streamVars, qvars, elemVars,
                   access_log, netVars, peerVars>>

(* connection::reset() of both connections, read buffers included. *)
KeepBuffers == UNCHANGED bufVars

ResetBuffers == buf' = NoUnits /\ out' = NoUnits /\ stale_end' = Neither

ResetConnections ==
    /\ state' = ClientConnected /\ ready_to_read' = Neither /\ ready_to_write' = Neither
    /\ ResetBuffers

(* initialize_state() of both stream handlers.  The pointer to the last pipeline
   element is not reset. *)
ResetStreams ==
    /\ message_state' = [s \in Streams |-> "START_MESSAGE"]
    /\ header' = [s \in Streams |-> <<>>]
    /\ encoding' = [s \in Streams |-> DefaultEncoding(s)]
    /\ body' = [s \in Streams |-> NoBody]
    /\ forwarding' = [s \in Streams |-> FALSE]
    /\ UNCHANGED current

(* new_connection_handler takes the handler from the pool again: reset() and
   add_client(), with two new peers. *)
Accept ==
    /\ pc = "dead" /\ "reuse" \in Env
    /\ accepts < MaxAccepts /\ accepts' = accepts + 1
    /\ pc' = "idle"
    /\ ResetConnections
    /\ ResetStreams
    /\ EmptyQueue
    /\ fd' = ClientOpen /\ pending' = ClientPolled
    /\ inq' = NoUnits /\ fin' = Neither /\ rst' = Neither
    /\ room' = [c \in Sides |-> TRUE] /\ got' = NoUnits
    /\ req' \in Requests /\ resp' \in Responses
    /\ sent' = [c \in Sides |-> 0]
    /\ link' = "down" /\ faults' = 0
    /\ UNCHANGED <<strm, status, failed, lost_fds, elemVars, access_log>>

-----------------------------------------------------------------------------
(* The steps of a handle_event() call that has begun. *)
Step ==
    \/ SkipRead \/ ReadData \/ ReadNothing
    \/ StartRequest \/ StartResponse \/ ParseHeader \/ PushHeader
    \/ EndMessage \/ ParseBody \/ ForwardBody \/ ForwardToClose
    \/ NoConnect \/ InitiateServerConnect \/ AfterProcess \/ StreamReturned
    \/ RegisterEvents

Dispatch(c) == \E revents \in SUBSET {"READ", "WRITE"} : HandleEvent(c, revents)

(* ... with e among the reported events *)
Report(c, e) == \E revents \in SUBSET {"READ", "WRITE"} : e \in revents /\ HandleEvent(c, revents)

Peer(c) == PeerSend(c) \/ PeerClose(c) \/ PeerReset(c) \/ PeerDrain(c)

Next ==
    \/ Step
    \/ \E c \in Sides : Dispatch(c) \/ Peer(c)
    \/ ConnectResult
    \/ Accept

Spec == Init /\ [][Next]_vars

(***************************************************************************)
(* Fairness of the program and of the kernel: a callback runs to its end,  *)
(* event_dispatch() calls every active event of a poll before it polls     *)
(* again and poll reports every condition that holds (so no condition that *)
(* is waited for is passed over for ever), a handshake ends, and a window  *)
(* that is full is drained by its peer.                                    *)
(***************************************************************************)
SystemFairness ==
    /\ WF_vars(Step)
    /\ \A c \in Sides, e \in {"READ", "WRITE"} : SF_vars(Report(c, e))
    /\ \A c \in Sides : WF_vars(PeerDrain(c))
    /\ WF_vars(ConnectResult)

SystemSpec == Spec /\ SystemFairness

-----------------------------------------------------------------------------
(* Properties *)

MessageStates == {"START_MESSAGE", "PARSE_HEADER", "PUSH_HEADER", "PARSE_BODY"}
Places == {"idle", "read", "process", "jit", "after", "return", "register",
           "dead", "aborted"}

HandlerTypeOK ==
    /\ pc \in Places /\ strm \in Passes /\ status \in Statuses
    /\ failed \in {"", "deadlock", "negative write"}

ConnTypeOK ==
    /\ state \in [Sides -> States]
    /\ ready_to_read \in [Sides -> BOOLEAN] /\ ready_to_write \in [Sides -> BOOLEAN]

FdTypeOK ==
    /\ fd \in [Sides -> {"none", "open", "closed"}] /\ lost_fds \in Nat
    /\ link \in {"down", "pending", "up", "refused", "broken"} /\ faults \in Nat
    /\ pending \in [Sides -> SUBSET {"READ", "WRITE"}]

BufTypeOK ==
    /\ buf \in [Sides -> Seq(Units)] /\ out \in [Sides -> Seq(Units)]
    /\ stale_end \in [Sides -> BOOLEAN]

StreamTypeOK ==
    /\ message_state \in [Streams -> MessageStates]
    /\ header \in [Streams -> Seq(Units)]
    /\ encoding \in [Streams -> Encodings] /\ body \in [Streams -> Encodings]
    /\ forwarding \in [Streams -> BOOLEAN]
    /\ current \in [Streams -> Elements \cup {0}]

ElemTypeOK ==
    /\ process_type \in [Elements -> {"NORMAL", "HEAD", "DENY"}]
    /\ request_complete \in [Elements -> BOOLEAN]
    /\ logrecord \in [Elements -> Nat]
    /\ access_log \in Seq(Nat \X Nat)

PeerTypeOK ==
    /\ inq \in [Sides -> Seq(Units)] /\ got \in [Sides -> Seq(Units)]
    /\ fin \in [Sides -> BOOLEAN] /\ rst \in [Sides -> BOOLEAN]
    /\ room \in [Sides -> BOOLEAN]
    /\ req \in Seq(Units) /\ resp \in Seq(Units)
    /\ sent \in [Sides -> Nat] /\ accepts \in Nat

(* The type invariant.  A body that claimed more than was left of it would show
   here as a negative count. *)
TypeOK ==
    /\ HandlerTypeOK /\ ConnTypeOK /\ FdTypeOK /\ BufTypeOK
    /\ StreamTypeOK /\ QueueTypeOK /\ ElemTypeOK /\ PeerTypeOK

(***************************************************************************)
(* current_pipeline_data_ is not null where process_data() follows it:     *)
(* from START_MESSAGE to the end of its message a stream handler holds an  *)
(* element, also in a handler that was taken from the pool again with the  *)
(* pointer of an earlier client.                                           *)
(***************************************************************************)
HoldsElement ==
    \A s \in Streams : message_state[s] # "START_MESSAGE" => current[s] \in Elements

(***************************************************************************)
(* The check of handle_event() before it registers events ("connection    *)
(* will deadlock under current conditions") never fires: whenever the      *)
(* handler goes back to the event loop with an open server connection,     *)
(* something is left to wait for.                                          *)
(***************************************************************************)
DeadlockCheckHolds == failed # "deadlock"

(***************************************************************************)
(* Why it holds, as an inductive invariant.  The response stream is served *)
(* first, and handle_event() only goes on when it is blocked: no server    *)
(* yet, nothing to read from it, or a client that takes no more.  The      *)
(* request stream that runs after it can end none of these, and a client   *)
(* whose write side failed never outlives the response pass that saw it.   *)
(***************************************************************************)
ResponseBlocked ==
    \/ state["server"] \in {"NOT_CONNECTED", "CONNECTING"}
    \/ state["server"] \in {"CONNECTED", "WRITE_SHUT"} /\ ~ready_to_read["server"]
    \/ ~ready_to_write["client"]

ClientWritable == state["client"] \in {"CONNECTED", "READ_SHUT"}

SomethingToWaitFor ==
    /\ DeadlockCheckHolds
    /\ pc \in {"idle", "read", "process", "register"} => ClientWritable
    /\ pc \in {"jit", "after"} =>
          ClientWritable \/ (strm # "request" /\ status = "DEST_CLOSED")
    /\ pc = "return" =>
          ClientWritable \/ (strm # "request" /\ status = "COMPLETE")
    /\ pc \in {"jit", "after"} /\ strm # "request" /\ status = "INCOMPLETE" =>
          ~ready_to_write["client"]
    /\ pc = "return" /\ strm # "request" /\ status \notin {"COMPLETE", "DENY"} =>
          ResponseBlocked
    /\ pc \in {"read", "process", "jit", "after", "return"} /\ strm = "request" =>
          ResponseBlocked
    /\ pc = "register" => ResponseBlocked

(***************************************************************************)
(* The server receives the client's bytes, in order, without gaps or       *)
(* repetitions, across blocked writes (header_writer and body_parser       *)
(* resume where they stopped), buffer boundaries and pipelining.           *)
(***************************************************************************)
RequestsInOrder == IsPrefix(got["server"], req)

(* What the client received from the server: all but the proxy's own 400, after
   which nothing comes. *)
Relayed ==
    IF got["client"] # <<>> /\ Last(got["client"]).k = "error"
    THEN Front(got["client"]) ELSE got["client"]

(***************************************************************************)
(* The client receives the server's bytes in order, and nothing after an   *)
(* error response of the proxy, which ends the connection.                 *)
(***************************************************************************)
ResponsesInOrder ==
    /\ IsPrefix(Relayed, resp)
    /\ \A i \in DOMAIN got["client"] :
          got["client"][i].k = "error" => i = Len(got["client"])

(***************************************************************************)
(* The proxy's error response takes the place of the response to the       *)
(* denied request: every earlier response has reached the client in full.  *)
(***************************************************************************)
ErrorInTurn ==
    Delivered("client", ErrorResponse) =>
        \A i \in DOMAIN req, j \in DOMAIN resp :
            req[i].k \in {"bad", "over"} /\ resp[j].m < req[i].m
                => Delivered("client", resp[j])

(***************************************************************************)
(* No truncation: a session that ended without a reset and without a       *)
(* denied request has handed to the client everything the server sent but  *)
(* a header the server did not finish, although end of file may be read    *)
(* while the client's window is full.                                      *)
(***************************************************************************)
NoTruncation ==
    /\ pc = "dead" /\ link = "up"
    /\ \A c \in Sides : ~rst[c]
    /\ ~Delivered("client", ErrorResponse)
    => SubSeq(resp, 1, sent["server"]) =
           Relayed \o (IF message_state["response"] = "PARSE_HEADER"
                       THEN header["response"] ELSE <<>>)

(* Every record of the access log joins a request to its own response. *)
LogPaired == \A i \in DOMAIN access_log : access_log[i][1] = access_log[i][2]

(***************************************************************************)
(* No descriptor is lost: one that is open belongs to a live handler and   *)
(* is registered with the poller only while it is open.                    *)
(***************************************************************************)
NoDescriptorLost ==
    /\ lost_fds = 0
    /\ \A c \in Sides :
          /\ pc = "dead" => fd[c] # "open"
          /\ pending[c] # {} => fd[c] = "open"

(* A request that the header parser refused never reaches the server. *)
DeniedNotForwarded ==
    \A i \in DOMAIN req :
        req[i].k \in {"bad", "over"} =>
            \A j \in DOMAIN got["server"] : got["server"][j].m # req[i].m

(***************************************************************************)
(* handle_event() comes to an end: it returns to the event loop, releases  *)
(* the handler, or (not in the runs that check this) aborts.               *)
(***************************************************************************)
HandlerReturns == pc = "read" ~> pc \in {"idle", "dead"}

(* The forward server refused the connection, closed it or reset it. *)
ServerGone ==
    \/ link = "refused"
    \/ link = "up" /\ (fin["server"] \/ rst["server"])

(* Once the server is gone the handler is released, whatever is blocked. *)
ServerGoneEndsSession == ServerGone ~> pc = "dead"

(***************************************************************************)
(* With a client that sends its requests and a server that answers them,   *)
(* every response reaches the client in full, through a pipeline of any    *)
(* depth, unless the server refuses, resets or closes before it has        *)
(* answered.                                                               *)
(***************************************************************************)
AllAnswered ==
    (\A c \in Sides : WF_vars(PeerSend(c))) =>
        <>(\/ Relayed = resp
           \/ link = "refused" \/ rst["server"]
           \/ fin["server"] /\ sent["server"] < Len(resp))

=============================================================================
