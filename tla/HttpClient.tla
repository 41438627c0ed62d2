------------------------------ MODULE HttpClient ------------------------------
(***************************************************************************)
(* The client of libswitchflow: client/client_handler, which owns the      *)
(* socket, its event and itself, and http/client/http_client_handler,      *)
(* which writes one request and parses one response.  The i_http_client    *)
(* that uses them is external; so are the server and the kernel.  Bytes    *)
(* are counted: a request is Request of them and an empty line, a response *)
(* is a header of head bytes and a body of size bytes.                     *)
(***************************************************************************)
EXTENDS Integers, Sequences, FiniteSets, Connection

CONSTANTS
    Request,            \* length of the request header
    Responses,          \* what servers answer: [head, enc, size, bad]
    BufLength,          \* buffer_length of the connection
    BodyReplies         \* what i_http_client::handle_body() may return

VARIABLES
    pc,                 \* "new", "waiting", "read", "stream", "gone", "abandoned" or "aborted"
    state_,             \* server_data_: state, readiness, and bytes read ahead
    ready_to_read_, ready_to_write_, buffer_,
    fd_,                \* its descriptor: "none", "open" or "closed"
    monitored,          \* add_fd() less remove_fd() on the i_fp_monitor
    armed, timeout_,    \* server_event_ in the poller; server_timeout_seconds_ > 0
    message_state_,     \* http_client_handler
    written, parsed,    \* request bytes written, response bytes parsed
    delivered,          \* body bytes handle_body() took
    refused,            \* handle_body() did not return COMPLETE once
    calls,              \* the other calls on the i_http_client
    resp, kernel,       \* the server's answer, its bytes waiting to be read,
    peer,               \*   what it has sent, "open", "fin" or "reset"
    space               \* the kernel is known to take a byte

conn == <<state_, ready_to_read_, ready_to_write_, buffer_>>
res  == <<fd_, monitored, armed>>
http == <<message_state_, written, parsed, delivered, refused>>
net  == <<kernel, peer>>
vars == <<pc, conn, res, timeout_, http, calls, resp, net, space>>

Encodings == {"NONE", "CONTENT_LENGTH", "CHUNKED", "END_CONNECTION"}
Outcomes  == {"request_complete", "invalid_header", "invalid_body", "send_header_failed",
              "send_body_failed", "connect_failed", "timeout"}

ASSUME HttpClientAssumption ==
  /\ Request \in Nat \ {0} /\ BufLength \in Nat \ {0}
  /\ Responses \subseteq [head : Nat \ {0}, enc : Encodings, size : Nat, bad : {"no", "head", "body"}]
  /\ BodyReplies \subseteq {"COMPLETE", "INCOMPLETE", "INVALID"}

Least(a, b)    == IF a < b THEN a ELSE b
ready_to_read  == ready_to_read_ /\ OpenForRead(state_)
ready_to_write == ready_to_write_ /\ OpenForWrite(state_)

-------------------------------------------------------------------------------
(* client_handler. *)

(* shutdown() after the calls c: the socket goes, the client is told, and the
   handler deletes itself. *)
Shutdown_AfterConnect(c) ==                 \* mutant: closes what was connected
  /\ fd_' = IF state_ \in {"NOT_CONNECTED", "CONNECTING"} THEN fd_ ELSE "closed"
  /\ monitored' = IF fd_ = "none" THEN monitored ELSE monitored - 1
  /\ armed' = {}
  /\ calls' = calls \o c \o <<"shutdown">>
  /\ pc' = "gone"
Shutdown(c) ==
  /\ fd_' = IF fd_ = "none" THEN "none" ELSE "closed"
  /\ monitored' = IF fd_ = "none" THEN monitored ELSE monitored - 1
  /\ armed' = IF fd_ = "none" THEN armed ELSE {}
  /\ calls' = calls \o c \o <<"shutdown">>
  /\ pc' = "gone"

(* poller::add_event(), which returns silently where fcntl() fails. *)
AddEvent(events) == armed' \in {events, {}}

(* initiate_server_connect(): no socket, connect() at once, or under way. *)
SocketFails ==
  /\ pc = "new"
  /\ monitored' = monitored + 1
  /\ calls' = Append(calls, "shutdown") /\ pc' = "gone"
  /\ UNCHANGED <<conn, fd_, armed, timeout_, http, resp, net, space>>

ConnectFails ==
  /\ pc = "new"
  /\ fd_' = "closed" /\ UNCHANGED <<monitored, armed>>
  /\ calls' = calls \o <<"connect_failed", "shutdown">> /\ pc' = "gone"
  /\ UNCHANGED <<conn, timeout_, http, resp, net, space>>

initiate_server_connect ==
  /\ pc = "new"
  /\ fd_' = "open" /\ monitored' = monitored + 1
  /\ AddEvent({"EV_READ", "EV_WRITE"})
  /\ state_' = "CONNECTING"
  /\ pc' = "waiting"
  /\ UNCHANGED <<ready_to_read_, ready_to_write_, buffer_, timeout_, http, calls, resp, net, space>>

(* The name did not resolve: the client is told, and nothing else happens. *)
dns_failed ==
  /\ pc = "new"
  /\ calls' = Append(calls, "dns_failed") /\ pc' = "abandoned"
  /\ UNCHANGED <<conn, res, timeout_, http, resp, net, space>>

(* handle_event() with EV_TIMEOUT. *)
handle_timeout_Stay ==                      \* mutant: only the client is told
  /\ pc = "waiting" /\ armed # {} /\ timeout_
  /\ armed' = {} /\ calls' = Append(calls, "timeout")
  /\ UNCHANGED <<pc, fd_, monitored, conn, timeout_, http, resp, net, space>>
handle_timeout ==
  /\ pc = "waiting" /\ armed # {} /\ timeout_
  /\ Shutdown(<<"timeout">>)
  /\ UNCHANGED <<conn, timeout_, http, resp, net, space>>

(* Events the kernel has for a socket: EV_READ for data or the end of it. *)
Readable == kernel > 0 \/ peer # "open" \/ state_ = "CONNECTING"

(* handle_pollin() and handle_pollout(). *)
handle_poll(revents) ==
  /\ ready_to_write_' = (ready_to_write_ \/ "EV_WRITE" \in revents)
  /\ ready_to_read_' = (ready_to_read_ \/ "EV_READ" \in revents)
  /\ space' = (space \/ "EV_WRITE" \in revents)

(* check_for_server_connect() and handle_server_connect(): connected, or not. *)
handle_server_connect ==
  \/ /\ state_' = IF state_ = "CONNECTING" THEN "CONNECTED" ELSE state_
     /\ armed' = {} /\ pc' = "read"
     /\ UNCHANGED <<fd_, monitored, calls>>
  \/ /\ state_ = "CONNECTING"
     /\ Shutdown(<<"connect_failed">>)
     /\ UNCHANGED state_

(* handle_event() up to its loop.  The event is gone from the poller when its
   handler is called. *)
handle_event ==
  /\ pc = "waiting" /\ armed # {}
  /\ \E revents \in SUBSET armed \ {{}} :
        /\ "EV_READ" \in revents => Readable
        /\ handle_poll(revents)
  /\ handle_server_connect
  /\ UNCHANGED <<buffer_, timeout_, http, resp, net>>

(* The most that read() returns. *)
Room_All == kernel                          \* mutant: not limited to the buffer
Room     == Least(kernel, BufLength)

(* non_blocking_read() at the top of the loop of handle_event(). *)
non_blocking_read ==
  /\ pc = "read" /\ pc' = "stream"
  /\ IF ~ready_to_read \/ buffer_ > 0 THEN UNCHANGED <<conn, kernel>>
     ELSE IF kernel > 0
     THEN \E n \in 1 .. Room :
            /\ buffer_' = n /\ kernel' = kernel - n
            /\ UNCHANGED <<state_, ready_to_read_, ready_to_write_>>
     ELSE /\ IF peer = "open" THEN ready_to_read_' = FALSE /\ UNCHANGED state_
                              ELSE state_' = SetState(state_, "READ_SHUT") /\ UNCHANGED ready_to_read_
          /\ UNCHANGED <<ready_to_write_, buffer_, kernel>>
  /\ UNCHANGED <<res, timeout_, http, calls, resp, peer, space>>

(* The end of handle_event(): the events to wait for next. *)
Interest == {e \in {"EV_READ"} : ~ready_to_read_' /\ OpenForRead(state_')}
              \cup {e \in {"EV_WRITE"} : ~ready_to_write_' /\ OpenForWrite(state_')}
Rearm_ReadOnly ==                           \* mutant: waits for the server only
  /\ AddEvent({"EV_READ"}) /\ pc' = "waiting"
  /\ UNCHANGED <<fd_, monitored, calls>>
Rearm ==
  /\ UNCHANGED <<fd_, monitored, calls>>
  /\ IF Interest = {} THEN pc' = "aborted" /\ UNCHANGED armed
                      ELSE pc' = "waiting" /\ AddEvent(Interest)

(* What the loop does with the status of handle_stream(), c being its calls. *)
ReadIncomplete_Wait ==                      \* mutant: the loop is left at once
  IF ~OpenForRead(state_') THEN Shutdown(<<>>) ELSE Rearm
ReadIncomplete ==
  IF ready_to_read_' /\ OpenForRead(state_')
  THEN pc' = "read" /\ UNCHANGED <<res, calls>>
  ELSE IF ~OpenForRead(state_') THEN Shutdown(<<>>) ELSE Rearm
WriteIncomplete ==
  IF ~OpenForWrite(state_') THEN Shutdown(<<>>)
  ELSE IF ready_to_write_' THEN pc' = "aborted" /\ UNCHANGED <<res, calls>> ELSE Rearm

-------------------------------------------------------------------------------
(* http_client_handler::handle_stream(), one state of its loop at a time. *)

(* non_blocking_write() of what is left up to end: written whole, in part and
   then EAGAIN, or failed.  failed is the call made where it fails. *)
Write(end, next, failed) ==
  /\ UNCHANGED <<ready_to_read_, buffer_, parsed, delivered, refused>>
  /\ space' = FALSE
  /\ \/ /\ ready_to_write
        /\ written' = end /\ message_state_' = next
        /\ pc' = "stream"
        /\ UNCHANGED <<state_, ready_to_write_, res, calls>>
     \/ /\ IF ready_to_write
           THEN /\ \E n \in (IF space THEN 1 ELSE 0) .. end - written - 1 : written' = written + n
                /\ ready_to_write_' = FALSE
           ELSE UNCHANGED <<written, ready_to_write_>>
        /\ UNCHANGED <<state_, message_state_>>
        /\ WriteIncomplete
     \/ /\ ready_to_write
        /\ state_' = SetState(state_, "WRITE_SHUT")
        /\ UNCHANGED <<ready_to_write_, written, message_state_>>
        /\ Shutdown(<<failed>>)

PushHeader ==
  /\ pc = "stream" /\ message_state_ = "PUSH_HEADER"
  /\ Write(Request, "PUSH_BODY", "send_header_failed")
  /\ UNCHANGED <<timeout_, resp, net>>

PushBody ==
  /\ pc = "stream" /\ message_state_ = "PUSH_BODY"
  /\ Write(Request + 1, "PARSE_RESPONSE_HEADER", "send_body_failed")
  /\ UNCHANGED <<timeout_, resp, net>>

(* A read may end inside the status line, wherever that line ends: its bytes
   are then parsed again from where they began, and never any that follow
   (non_blocking_read() leaves a buffer with unprocessed bytes alone), until
   the line overflows or is refused (header_parser.cpp:120, 270). *)
ParseResponseHeader ==
  LET n == Least(buffer_, resp.head - parsed)
  IN  /\ pc = "stream" /\ message_state_ = "PARSE_RESPONSE_HEADER"
      /\ parsed' = parsed + n /\ buffer_' = buffer_ - n
      /\ UNCHANGED <<state_, ready_to_read_, ready_to_write_>>
      /\ IF parsed' = resp.head /\ resp.bad # "head"
         THEN /\ message_state_' = "PARSE_BODY"
              /\ calls' = Append(calls, "headers_complete")
              /\ UNCHANGED <<pc, res>>
         ELSE /\ UNCHANGED message_state_
              /\ IF parsed' = resp.head \/ ~OpenForRead(state_)
                 THEN Shutdown(<<"invalid_header">>)
                 ELSE \/ ReadIncomplete
                      \/ parsed = 0 /\ n > 0 /\ Shutdown(<<"invalid_header">>)
      /\ UNCHANGED <<written, delivered, refused, timeout_, resp, net, space>>

(* parse_body(), which hands what there is of the body to handle_body(): its
   status for the reply r, and n more bytes taken. *)
parse_body(r, n) ==
  IF resp.enc = "NONE" THEN "COMPLETE"
  ELSE IF r # "COMPLETE" THEN (IF r = "INCOMPLETE" THEN "WRITE_INCOMPLETE" ELSE r)
  ELSE IF resp.enc = "END_CONNECTION" \/ parsed + n < resp.head + resp.size THEN "INCOMPLETE"
  ELSE IF resp.bad = "body" THEN "INVALID" ELSE "COMPLETE"

Body_AtEnd(status) ==                       \* mutant: the end of the connection ends any body
  CASE status = "INVALID" -> Shutdown(<<"invalid_body">>)
    [] status = "INCOMPLETE" /\ OpenForRead(state_) -> ReadIncomplete
    [] OTHER -> Shutdown(<<"request_complete">>)

(* Any other status counts as complete. *)
Body(status) ==
  CASE status = "INVALID" -> Shutdown(<<"invalid_body">>)
    [] status = "INCOMPLETE" /\ OpenForRead(state_) -> ReadIncomplete
    [] status = "INCOMPLETE" /\ ~OpenForRead(state_) /\ resp.enc # "END_CONNECTION" ->
         Shutdown(<<"invalid_body">>)
    [] OTHER -> Shutdown(<<"request_complete">>)

ParseBody ==
  LET n == IF resp.enc = "NONE" THEN 0 ELSE Least(buffer_, resp.head + resp.size - parsed)
  IN  /\ pc = "stream" /\ message_state_ = "PARSE_BODY"
      /\ parsed' = parsed + n /\ buffer_' = buffer_ - n
      /\ UNCHANGED <<state_, ready_to_read_, ready_to_write_>>
      /\ \E r \in IF resp.enc = "NONE" THEN {"COMPLETE"} ELSE BodyReplies :
            /\ refused' = (refused \/ r # "COMPLETE")
            /\ delivered' = IF r = "COMPLETE" THEN delivered + n ELSE delivered
            /\ Body(parse_body(r, n))
      /\ UNCHANGED <<message_state_, written, timeout_, resp, net, space>>

-------------------------------------------------------------------------------
(* The server: it may answer early, fall silent, close or reset. *)
Connected == state_ \notin {"NOT_CONNECTED", "CONNECTING"} /\ fd_ = "open"
Sent      == parsed + buffer_ + kernel

ServerSends ==
  /\ Connected /\ peer = "open"
  /\ Sent < resp.head + resp.size
  /\ kernel' = kernel + 1
  /\ UNCHANGED <<pc, conn, res, timeout_, http, calls, resp, peer, space>>

ServerCloses ==
  /\ Connected /\ peer = "open"
  /\ \/ peer' = "fin" /\ UNCHANGED kernel
     \/ peer' = "reset" /\ kernel' = 0
  /\ UNCHANGED <<pc, conn, res, timeout_, http, calls, resp, space>>

-------------------------------------------------------------------------------
Init ==
  /\ pc = "new"
  /\ state_ = "NOT_CONNECTED" /\ ready_to_read_ = FALSE /\ ready_to_write_ = FALSE /\ buffer_ = 0
  /\ fd_ = "none" /\ monitored = 0 /\ armed = {}
  /\ timeout_ \in BOOLEAN
  /\ message_state_ = "PUSH_HEADER" /\ written = 0 /\ parsed = 0
  /\ delivered = 0 /\ refused = FALSE
  /\ calls = <<>>
  /\ resp \in Responses /\ kernel = 0 /\ peer = "open" /\ space = FALSE

Connect == SocketFails \/ ConnectFails \/ initiate_server_connect \/ dns_failed
Handler == non_blocking_read \/ PushHeader \/ PushBody \/ ParseResponseHeader \/ ParseBody
Next    == Connect \/ handle_timeout \/ handle_event \/ Handler \/ ServerSends \/ ServerCloses

Spec == Init /\ [][Next]_vars

(* An event that is due: one the peer's closing, or its data, brings about. *)
Due == (peer # "open" \/ ("EV_READ" \in armed /\ kernel > 0)) /\ handle_event

(* The process runs, the poller delivers what is due and timers expire. *)
FairSpec == Spec /\ WF_vars(Connect) /\ WF_vars(Handler) /\ WF_vars(Due) /\ WF_vars(handle_timeout)

-------------------------------------------------------------------------------
TypeOK ==
  /\ pc \in {"new", "waiting", "read", "stream", "gone", "abandoned", "aborted"}
  /\ state_ \in States /\ ready_to_read_ \in BOOLEAN /\ ready_to_write_ \in BOOLEAN
  /\ buffer_ \in 0 .. BufLength
  /\ fd_ \in {"none", "open", "closed"} /\ monitored \in 0 .. 1
  /\ armed \subseteq {"EV_READ", "EV_WRITE"} /\ timeout_ \in BOOLEAN
  /\ message_state_ \in {"PUSH_HEADER", "PUSH_BODY", "PARSE_RESPONSE_HEADER", "PARSE_BODY"}
  /\ written \in 0 .. Request + 1 /\ parsed \in 0 .. resp.head + resp.size
  /\ delivered \in 0 .. resp.size /\ refused \in BOOLEAN
  /\ resp \in Responses /\ kernel \in Nat /\ peer \in {"open", "fin", "reset"} /\ space \in BOOLEAN

Happened(S) == {i \in DOMAIN calls : calls[i] \in S}
Told(c)     == Happened({c}) # {}

(* The client of a request is told one outcome and then of the shutdown, in
   this order, once each; only where socket() fails, and no outcome is known,
   is the shutdown all it hears (handle_event(), handle_stream(),
   handle_timeout(), initiate_server_connect()). *)
OneOutcome ==
  /\ Cardinality(Happened(Outcomes)) <= 1
  /\ Happened(Outcomes) # {} => calls[Len(calls)] = "shutdown" /\ calls[Len(calls) - 1] \in Outcomes
  /\ pc = "gone" => /\ Cardinality(Happened({"shutdown"})) = 1
                    /\ Happened(Outcomes) = {} => fd_ = "none" /\ calls = <<"shutdown">>

(* A request is called complete only when its header has been parsed and the
   body is whole: as long as announced, or all that the server sent before it
   closed the connection.  Where handle_body() did not take a part at once, or
   the server reset the connection, the code calls it complete all the same. *)
CompleteIsWhole ==
  (Told("request_complete") /\ ~refused) =>
    /\ Told("headers_complete") /\ written = Request + 1
    /\ IF resp.enc = "END_CONNECTION" THEN peer = "fin" => kernel = 0 /\ delivered = parsed - resp.head
       ELSE delivered = IF resp.enc = "NONE" THEN 0 ELSE resp.size

(* A deleted handler leaves nothing behind: no descriptor, no event that would
   call it again, and no descriptor with the monitor, which is told of -1 where
   socket() fails (shutdown(), initiate_server_connect()). *)
NothingBehind ==
  pc = "gone" => fd_ # "open" /\ armed = {} /\ (fd_ = "closed" => monitored = 0)

(* The checks of handle_event() hold: a stream that cannot go on always leaves
   something to wait for, and one that could not write is not ready to. *)
ChecksHold == pc # "aborted"

(* No event will come: add_event() returned without adding it. *)
Stranded == pc = "waiting" /\ armed = {}

(* With a timeout, or a server that closes the connection, every request comes
   to its end, whatever the server sends or does not send. *)
RequestEnds ==
  (timeout_ \/ <>(peer # "open")) => <>(pc \in {"gone", "abandoned"} \/ Stranded)

===============================================================================
