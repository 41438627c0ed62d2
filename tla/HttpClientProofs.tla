--------------------------- MODULE HttpClientProofs ---------------------------
(***************************************************************************)
(* Whatever the server answers and however it is cut up, the client of     *)
(* libswitchflow keeps its types, leaves nothing behind, passes its own    *)
(* checks, calls only a whole response complete and has one outcome.       *)
(***************************************************************************)
EXTENDS HttpClient, TLAPS, SequenceTheorems, FiniteSetTheorems

(* The types, truth values apart. *)
Flags ==
  /\ ready_to_read_ \in BOOLEAN /\ ready_to_write_ \in BOOLEAN
  /\ timeout_ \in BOOLEAN /\ refused \in BOOLEAN /\ space \in BOOLEAN
Places ==
  /\ pc \in {"new", "waiting", "read", "stream", "gone", "abandoned", "aborted"}
  /\ fd_ \in {"none", "open", "closed"} /\ monitored \in 0 .. 1
  /\ armed \subseteq {"EV_READ", "EV_WRITE"}
Sizes ==
  /\ state_ \in States /\ buffer_ \in 0 .. BufLength
  /\ message_state_ \in {"PUSH_HEADER", "PUSH_BODY", "PARSE_RESPONSE_HEADER", "PARSE_BODY"}
  /\ written \in 0 .. Request + 1 /\ parsed \in 0 .. resp.head + resp.size
  /\ delivered \in 0 .. resp.size
  /\ resp \in Responses /\ kernel \in Nat /\ peer \in {"open", "fin", "reset"}

(* A living handler has its descriptor with the monitor, and between its
   callbacks only: no event is registered while one is being handled. *)
Lifecycle ==
  /\ pc # "aborted"
  /\ pc = "new" => /\ fd_ = "none" /\ monitored = 0 /\ armed = {}
                   /\ state_ = "NOT_CONNECTED"
  /\ pc \in {"waiting", "read", "stream"} => fd_ = "open" /\ monitored = 1
  /\ pc \in {"read", "stream"} => armed = {} /\ state_ \notin {"NOT_CONNECTED", "CONNECTING"}
  /\ pc = "waiting" => state_ # "NOT_CONNECTED"
  /\ pc = "abandoned" => fd_ = "none" /\ armed = {}
  /\ NothingBehind

(* How far the request and the response are, for each state of the stream. *)
Counted ==
  /\ message_state_ = "PUSH_HEADER" => written <= Request
  /\ message_state_ \in {"PARSE_RESPONSE_HEADER", "PARSE_BODY"} => written = Request + 1
  /\ message_state_ # "PARSE_BODY" => parsed <= resp.head /\ delivered = 0
  /\ message_state_ = "PARSE_BODY" =>
       /\ parsed >= resp.head /\ delivered <= parsed - resp.head
       /\ resp.enc = "NONE" => parsed = resp.head
       /\ ~refused => delivered = parsed - resp.head

(* The read side is shut only when the server has closed and all was read. *)
Drained == state_ \in {"READ_SHUT", "HUNGUP"} => peer # "open" /\ kernel = 0

Names == Outcomes \cup {"shutdown", "headers_complete", "dns_failed"}

Heard(s, c) == \E i \in 1 .. Len(s) : s[i] = c

(* What the client has been told, and when. *)
Announced ==
  /\ calls \in Seq(Names)
  /\ message_state_ = "PARSE_BODY" <=> Heard(calls, "headers_complete")
  /\ Heard(calls, "request_complete") => pc = "gone" /\ CompleteIsWhole

ClientInv == Flags /\ Places /\ Sizes /\ Lifecycle /\ Counted /\ Drained /\ Announced

-------------------------------------------------------------------------------
(* The two ways a step of the stream can leave the handler: living, or gone
   after the calls c. *)
Continues ==
  /\ fd_' = "open" /\ monitored' = 1 /\ calls' = calls
  /\ \/ pc' = "waiting" /\ armed' \subseteq {"EV_READ", "EV_WRITE"}
     \/ pc' \in {"read", "stream"} /\ armed' = {}
Ends(c) ==
  /\ fd_' = "closed" /\ monitored' = 0 /\ armed' = {} /\ pc' = "gone"
  /\ calls' = calls \o c \o <<"shutdown">>
Alive == fd_ = "open" /\ monitored = 1 /\ armed = {}

LEMMA CallNames ==
  /\ "shutdown" \in Names /\ "headers_complete" \in Names /\ "dns_failed" \in Names
  /\ "connect_failed" \in Names /\ Outcomes \subseteq Names
BY DEF Names, Outcomes

(* Appending a call is hearing it. *)
LEMMA HeardAppend ==
  ASSUME NEW s \in Seq(Names), NEW x \in Names
  PROVE  /\ Append(s, x) \in Seq(Names)
         /\ \A c : Heard(Append(s, x), c) <=> Heard(s, c) \/ x = c
<1> DEFINE t == Append(s, x)
           n == Len(s)
<1>1. t \in Seq(Names) /\ Len(t) = n + 1 /\ n \in Nat
  BY AppendProperties, LenProperties
<1>2. t[n + 1] = x
  BY AppendProperties
<1>3. \A i \in 1 .. n : t[i] = s[i]
  BY AppendProperties
<1> HIDE DEF t
<1>4. ASSUME NEW c PROVE Heard(t, c) <=> Heard(s, c) \/ x = c
  <2>1. ASSUME Heard(t, c) PROVE Heard(s, c) \/ x = c
    <3>1. PICK i \in 1 .. n + 1 : t[i] = c
      BY <1>1, <2>1 DEF Heard
    <3>2. i = n + 1 \/ i \in 1 .. n
      BY <1>1
    <3> QED BY <1>2, <1>3, <3>1, <3>2 DEF Heard
  <2>2. ASSUME Heard(s, c) PROVE Heard(t, c)
    BY <1>1, <1>3, <2>2 DEF Heard
  <2>3. ASSUME x = c PROVE Heard(t, c)
    <3>1. n + 1 \in 1 .. Len(t)
      BY <1>1
    <3> QED BY <1>2, <2>3, <3>1, Zenon DEF Heard
  <2> QED BY <2>1, <2>2, <2>3
<1> QED BY <1>1, <1>4 DEF t

(* The calls of an ending handler. *)
LEMMA HeardEnds ==
  ASSUME NEW s \in Seq(Names), NEW x \in Names
  PROVE  /\ s \o <<>> \o <<"shutdown">> = Append(s, "shutdown")
         /\ s \o <<x>> \o <<"shutdown">> = Append(Append(s, x), "shutdown")
<1>1. s \o <<>> = s /\ s \o <<x>> = Append(s, x)
  BY ConcatEmptySeq, AppendIsConcat
<1>2. \A r \in Seq(Names) : r \o <<"shutdown">> = Append(r, "shutdown")
  BY AppendIsConcat
<1> QED BY <1>1, <1>2, CallNames, HeardAppend

LEMMA ToldHeard ==
  ASSUME NEW c, calls \in Seq(Names)
  PROVE  Told(c) <=> Heard(calls, c)
BY DEF Told, Happened, Heard

(* shutdown() of a living handler closes and forgets its descriptor. *)
LEMMA ShutdownEnds ==
  ASSUME NEW c, Alive, Shutdown(c)
  PROVE  Ends(c)
BY DEF Alive, Shutdown, Ends

(* A stream that waits to read is re-armed for EV_READ at least, one that waits
   to write for EV_WRITE: the checks of handle_event() hold. *)
LEMMA RearmContinues ==
  ASSUME Alive, Rearm, Interest # {}
  PROVE  Continues
<1>1. Interest \subseteq {"EV_READ", "EV_WRITE"}
  BY DEF Interest
<1> QED BY <1>1 DEF Alive, Rearm, Continues, AddEvent

LEMMA ReadIncompleteLeaves ==
  ASSUME Alive, ReadIncomplete, ready_to_read_' \in BOOLEAN
  PROVE  Continues \/ Ends(<<>>)
<1>1. CASE ready_to_read_' /\ OpenForRead(state_')
  BY <1>1 DEF ReadIncomplete, Continues, Alive, res
<1>2. CASE ~OpenForRead(state_')
  BY <1>2, ShutdownEnds DEF ReadIncomplete
<1>3. CASE ~ready_to_read_' /\ OpenForRead(state_')
  <2>1. "EV_READ" \in Interest
    BY <1>3 DEF Interest
  <2> QED BY <1>3, <2>1, RearmContinues DEF ReadIncomplete
<1> QED BY <1>1, <1>2, <1>3

LEMMA WriteIncompleteLeaves ==
  ASSUME Alive, WriteIncomplete, ~(ready_to_write_' /\ OpenForWrite(state_'))
  PROVE  Continues \/ Ends(<<>>)
<1>1. CASE ~OpenForWrite(state_')
  BY <1>1, ShutdownEnds DEF WriteIncomplete
<1>2. CASE ~ready_to_write_' /\ OpenForWrite(state_')
  <2>1. "EV_WRITE" \in Interest
    BY <1>2 DEF Interest
  <2> QED BY <1>2, <2>1, RearmContinues DEF WriteIncomplete
<1> QED BY <1>1, <1>2

(* Either way the handler's resources are where its place says. *)
LEMMA LeavesLifecycle ==
  ASSUME NEW c, Continues \/ Ends(c), state_' \notin {"NOT_CONNECTED", "CONNECTING"}
  PROVE  Lifecycle' /\ Places'
BY DEF Continues, Ends, Lifecycle, NothingBehind, Places

(* What the client has heard after a step that leaves the stream so. *)
LEMMA ContinuesHeard ==
  ASSUME Announced, Continues, pc # "gone", message_state_' = message_state_
  PROVE  Announced'
BY DEF Announced, Continues

(* The last call but one says how it ended. *)
LEMMA EndsHeard ==
  ASSUME Announced, pc # "gone", message_state_' = message_state_, NEW c,
         Ends(c), c = <<>> \/ (\E x \in Names : c = <<x>> /\ x # "headers_complete"),
         c = <<"request_complete">> => CompleteIsWhole'
  PROVE  Announced'
<1>1. calls \in Seq(Names) /\ ~Heard(calls, "request_complete")
  BY DEF Announced
<1>2. CASE c = <<>>
  <2>1. calls' = Append(calls, "shutdown")
    BY <1>1, <1>2, HeardEnds DEF Ends
  <2>2. /\ calls' \in Seq(Names)
        /\ \A d : Heard(calls', d) <=> Heard(calls, d) \/ "shutdown" = d
    BY <1>1, <2>1, HeardAppend, CallNames, Zenon
  <2> QED BY <1>1, <2>2 DEF Announced
<1>3. ASSUME NEW x \in Names, c = <<x>>, x # "headers_complete"
      PROVE  Announced'
  <2>1. calls' = Append(Append(calls, x), "shutdown")
    BY <1>1, <1>3, HeardEnds DEF Ends
  <2> DEFINE s == Append(calls, x)
  <2>4. s \in Seq(Names) /\ \A d : Heard(s, d) <=> Heard(calls, d) \/ x = d
    BY <1>1, HeardAppend, CallNames, Zenon
  <2>2. /\ calls' \in Seq(Names)
        /\ \A d : Heard(calls', d) <=> Heard(calls, d) \/ x = d \/ "shutdown" = d
    <3> HIDE DEF s
    <3>1. calls' = Append(s, "shutdown")
      BY <2>1 DEF s
    <3> QED BY <2>4, <3>1, HeardAppend, CallNames, Zenon
  <2>3. Heard(calls', "request_complete") => CompleteIsWhole'
    BY <1>1, <1>3, <2>2
  <2> QED BY <1>1, <1>3, <2>2, <2>3 DEF Announced, Ends
<1> QED BY <1>2, <1>3

-------------------------------------------------------------------------------
LEMMA TypesAreTypeOK == TypeOK <=> Flags /\ Places /\ Sizes
BY DEF TypeOK, Flags, Places, Sizes

LEMMA RespType ==
  ASSUME resp \in Responses
  PROVE  /\ resp.head \in Nat \ {0} /\ resp.size \in Nat
         /\ Request \in Nat \ {0} /\ BufLength \in Nat \ {0}
BY HttpClientAssumption

LEMMA ClientInit == Init => ClientInv
<1> SUFFICES ASSUME Init PROVE ClientInv
  OBVIOUS
<1> USE DEF Init
<1>0. resp \in Responses
  OBVIOUS
<1>1. Flags
  BY DEF Flags
<1>4. Places /\ Sizes
  BY <1>0, RespType DEF Places, Sizes, States
<1>2. Lifecycle /\ Counted /\ Drained
  BY HttpClientAssumption DEF Lifecycle, Counted, Drained, NothingBehind
<1>3. Announced
  BY DEF Announced, Heard
<1> QED BY <1>1, <1>2, <1>3, <1>4 DEF ClientInv

(* initiate_server_connect() and dns_failed(). *)
LEMMA ConnectStep ==
  ASSUME ClientInv, Connect
  PROVE  ClientInv'
<1> USE DEF ClientInv
<1>1. pc = "new" /\ UNCHANGED <<ready_to_read_, ready_to_write_, buffer_, timeout_, http, resp, net, space>>
  BY DEF Connect, SocketFails, ConnectFails, initiate_server_connect, dns_failed, conn, res
<1>2. state_' \in {state_, "CONNECTING"}
  BY DEF Connect, SocketFails, ConnectFails, initiate_server_connect, dns_failed, conn
<1>7. Flags'
  BY <1>1 DEF Flags, http
<1>3. Places'
  <2>1. CASE initiate_server_connect
    BY <1>1, <2>1 DEF initiate_server_connect, AddEvent, Places, Lifecycle
  <2>2. CASE SocketFails
    BY <2>2 DEF SocketFails, Places, Lifecycle
  <2>3. CASE ConnectFails
    BY <2>3 DEF ConnectFails, Places, Lifecycle
  <2>4. CASE dns_failed
    BY <2>4 DEF dns_failed, res, Places, Lifecycle
  <2> QED BY <2>1, <2>2, <2>3, <2>4 DEF Connect
<1>8. Sizes'
  BY <1>1, <1>2 DEF Sizes, http, net, States
<1>4. Lifecycle'
  BY DEF Connect, SocketFails, ConnectFails, initiate_server_connect, dns_failed, conn, res,
     Lifecycle, AddEvent, NothingBehind
<1>5. Counted' /\ Drained'
  BY <1>1, <1>2 DEF Counted, Drained, http, net, Lifecycle
<1>6. Announced'
  <2>1. CASE initiate_server_connect
    BY <1>1, <2>1 DEF initiate_server_connect, Announced, http
  <2>2. CASE SocketFails
    BY <1>1, <2>2, HeardAppend, CallNames DEF SocketFails, Announced, http
  <2>3. CASE dns_failed
    BY <1>1, <2>3, HeardAppend, CallNames DEF dns_failed, Announced, http
  <2>4. CASE ConnectFails
    <3>1. calls \o <<"connect_failed", "shutdown">> = calls \o <<"connect_failed">> \o <<"shutdown">>
      BY DEF Announced
    <3>2. Ends(<<"connect_failed">>)
      BY <1>1, <2>4, <3>1 DEF ConnectFails, Ends, Lifecycle
    <3>3. \E x \in Names : <<"connect_failed">> = <<x>> /\ x # "headers_complete"
      BY CallNames
    <3>4. <<"connect_failed">> # <<"request_complete">>
      OBVIOUS
    <3> QED BY <1>1, <3>2, <3>3, <3>4, EndsHeard DEF http
  <2> QED BY <2>1, <2>2, <2>3, <2>4 DEF Connect
<1> QED BY <1>3, <1>4, <1>5, <1>6, <1>7, <1>8

(* The timer and the callback up to its loop. *)
LEMMA TimeoutStep ==
  ASSUME ClientInv, handle_timeout
  PROVE  ClientInv'
<1> USE DEF ClientInv
<1>1. Ends(<<"timeout">>) /\ pc # "gone"
  BY DEF handle_timeout, Shutdown, Ends, Lifecycle
<1>2. UNCHANGED <<conn, timeout_, http, resp, net, space>>
  BY DEF handle_timeout
<1>3. Flags' /\ Sizes' /\ Counted' /\ Drained'
  BY <1>2 DEF conn, http, net, Flags, Sizes, Counted, Drained
<1>4. Lifecycle' /\ Places'
  BY <1>1 DEF Ends, Lifecycle, Places, NothingBehind
<1>5. Announced'
  <2>1. \E x \in Names : <<"timeout">> = <<x>> /\ x # "headers_complete"
    BY DEF Names, Outcomes
  <2>2. <<"timeout">> # <<"request_complete">>
    OBVIOUS
  <2> QED BY <1>1, <1>2, <2>1, <2>2, EndsHeard DEF http
<1> QED BY <1>3, <1>4, <1>5

LEMMA EventStep ==
  ASSUME ClientInv, handle_event
  PROVE  ClientInv'
<1> USE DEF ClientInv
<1>1. /\ pc = "waiting" /\ handle_server_connect
      /\ UNCHANGED <<buffer_, timeout_, http, resp, net>>
      /\ \E revents : handle_poll(revents)
  BY DEF handle_event
<1>2. Flags'
  BY <1>1 DEF Flags, http, handle_poll
<1>3. CASE /\ state_' = IF state_ = "CONNECTING" THEN "CONNECTED" ELSE state_
           /\ armed' = {} /\ pc' = "read"
           /\ UNCHANGED <<fd_, monitored, calls>>
  <2>1. Sizes' /\ Counted' /\ Drained'
    BY <1>1, <1>3 DEF Sizes, Counted, Drained, http, net, States
  <2>2. Continues
    BY <1>1, <1>3 DEF Continues, Lifecycle
  <2>3. Announced'
    BY <1>1, <2>2, ContinuesHeard DEF http
  <2>4. state_' \notin {"NOT_CONNECTED", "CONNECTING"}
    BY <1>1, <1>3 DEF Lifecycle
  <2> QED BY <1>2, <2>1, <2>2, <2>3, <2>4, LeavesLifecycle
<1>4. CASE /\ state_ = "CONNECTING"
           /\ Shutdown(<<"connect_failed">>)
           /\ UNCHANGED state_
  <2>1. Sizes' /\ Counted' /\ Drained'
    BY <1>1, <1>4 DEF Sizes, Counted, Drained, http, net
  <2>2. Ends(<<"connect_failed">>)
    BY <1>1, <1>4 DEF Shutdown, Ends, Lifecycle
  <2>3. Lifecycle' /\ Places'
    BY <2>2 DEF Ends, Lifecycle, Places, NothingBehind
  <2>4. \E x \in Names : <<"connect_failed">> = <<x>> /\ x # "headers_complete"
    BY CallNames
  <2>5. <<"connect_failed">> # <<"request_complete">>
    OBVIOUS
  <2>6. Announced'
    BY <1>1, <2>2, <2>4, <2>5, EndsHeard DEF http
  <2> QED BY <1>2, <2>1, <2>3, <2>6
<1> QED BY <1>1, <1>3, <1>4 DEF handle_server_connect

LEMMA ReadStep ==
  ASSUME ClientInv, non_blocking_read
  PROVE  ClientInv'
<1> USE DEF ClientInv
<1>1. /\ pc = "read" /\ pc' = "stream"
      /\ UNCHANGED <<res, timeout_, http, calls, resp, peer, space>>
  BY DEF non_blocking_read
<1>2. /\ ready_to_read_' \in BOOLEAN /\ ready_to_write_' = ready_to_write_
      /\ state_' = state_ \/ (state_' = SetState(state_, "READ_SHUT") /\ peer # "open" /\ kernel' = 0)
      /\ buffer_' \in 0 .. BufLength /\ kernel' \in Nat /\ (kernel = 0 => kernel' = 0)
  <2>1. CASE ~ready_to_read \/ buffer_ > 0
    BY <2>1 DEF non_blocking_read, conn, Sizes, Flags
  <2>2. CASE ~(~ready_to_read \/ buffer_ > 0) /\ kernel > 0
    <3>1. PICK n \in 1 .. Room :
            /\ buffer_' = n /\ kernel' = kernel - n
            /\ UNCHANGED <<state_, ready_to_read_, ready_to_write_>>
      BY <2>2 DEF non_blocking_read
    <3>2. n \in 0 .. BufLength /\ n <= kernel
      BY <2>2, RespType DEF Room, Least, Sizes
    <3> QED BY <2>2, <3>1, <3>2 DEF Sizes, Flags
  <2>3. CASE ~(~ready_to_read \/ buffer_ > 0) /\ ~(kernel > 0)
    <3>1. /\ UNCHANGED <<ready_to_write_, buffer_, kernel>>
          /\ IF peer = "open" THEN ready_to_read_' = FALSE /\ UNCHANGED state_
             ELSE state_' = SetState(state_, "READ_SHUT") /\ UNCHANGED ready_to_read_
      BY <2>3 DEF non_blocking_read
    <3>2. kernel = 0
      BY <2>3 DEF Sizes
    <3> QED BY <3>1, <3>2 DEF Sizes, Flags
  <2> QED BY <2>1, <2>2, <2>3
<1>3. Flags'
  BY <1>1, <1>2 DEF Flags, http
<1>4. Sizes' /\ Drained'
  BY <1>1, <1>2 DEF Sizes, Drained, http, SetState, States
<1>5. Counted'
  BY <1>1 DEF Counted, http
<1>6. Continues
  BY <1>1 DEF Continues, Lifecycle, res
<1>7. Announced'
  BY <1>1, <1>6, ContinuesHeard DEF http
<1>8. state_' \notin {"NOT_CONNECTED", "CONNECTING"}
  BY <1>1, <1>2 DEF Lifecycle, SetState
<1> QED BY <1>3, <1>4, <1>5, <1>6, <1>7, <1>8, LeavesLifecycle

-------------------------------------------------------------------------------
(* A write, whole, in part or failed, of the part of the request that ends at
   end. *)
LEMMA WriteStep ==
  ASSUME ClientInv, pc = "stream", NEW end \in {Request, Request + 1}, NEW next, NEW failed,
         Write(end, next, failed), UNCHANGED <<timeout_, resp, net>>,
         message_state_ = "PUSH_HEADER" => end = Request /\ next = "PUSH_BODY",
         message_state_ # "PUSH_HEADER" => end = Request + 1 /\ next = "PARSE_RESPONSE_HEADER",
         message_state_ \in {"PUSH_HEADER", "PUSH_BODY"},
         failed \in {"send_header_failed", "send_body_failed"}
  PROVE  ClientInv'
<1> USE DEF ClientInv
<1>1. UNCHANGED <<ready_to_read_, buffer_, parsed, delivered, refused>> /\ space' = FALSE
  BY DEF Write
<1>2. Alive /\ state_ \notin {"NOT_CONNECTED", "CONNECTING"} /\ pc # "gone"
  BY DEF Alive, Lifecycle
<1>3. Request \in Nat \ {0} /\ resp.head \in Nat /\ written \in Nat /\ written <= end
  BY RespType DEF Sizes, Counted
<1>4. CASE /\ ready_to_write
           /\ written' = end /\ message_state_' = next
           /\ pc' = "stream"
           /\ UNCHANGED <<state_, ready_to_write_, res, calls>>
  <2>1. Flags'
    BY <1>1, <1>4 DEF Flags
  <2>2. Sizes' /\ Counted' /\ Drained'
    BY <1>1, <1>3, <1>4 DEF Sizes, Counted, Drained, net
  <2>3. Continues
    BY <1>2, <1>4 DEF Continues, Alive, res
  <2>4. Announced'
    BY <1>2, <1>4 DEF Announced, res
  <2> QED BY <1>2, <1>4, <2>1, <2>2, <2>3, <2>4, LeavesLifecycle
<1>5. CASE /\ IF ready_to_write
              THEN /\ \E n \in (IF space THEN 1 ELSE 0) .. end - written - 1 : written' = written + n
                   /\ ready_to_write_' = FALSE
              ELSE UNCHANGED <<written, ready_to_write_>>
           /\ UNCHANGED <<state_, message_state_>>
           /\ WriteIncomplete
  <2>1. ready_to_write_' \in BOOLEAN /\ ~(ready_to_write_' /\ OpenForWrite(state_'))
    BY <1>5 DEF ready_to_write, Flags
  <2>2. written' \in Nat /\ written' <= end
    <3>1. CASE ready_to_write
      <4>1. PICK n \in (IF space THEN 1 ELSE 0) .. end - written - 1 : written' = written + n
        BY <1>5, <3>1
      <4>2. n \in Int /\ n >= 0 /\ n <= end - written - 1
        OBVIOUS
      <4> QED BY <1>3, <4>1, <4>2
    <3>2. CASE ~ready_to_write
      BY <1>3, <1>5, <3>2
    <3> QED BY <3>1, <3>2
  <2>3. Flags'
    BY <1>1, <2>1 DEF Flags
  <2>4. Sizes' /\ Counted' /\ Drained'
    BY <1>1, <1>3, <1>5, <2>2 DEF Sizes, Counted, Drained, net
  <2>5. Continues \/ Ends(<<>>)
    BY <1>2, <1>5, <2>1, WriteIncompleteLeaves
  <2>6. Announced'
    <3>1. <<>> # <<"request_complete">>
      OBVIOUS
    <3> QED BY <1>2, <1>5, <2>5, <3>1, ContinuesHeard, EndsHeard
  <2> QED BY <1>2, <1>5, <2>3, <2>4, <2>5, <2>6, LeavesLifecycle
<1>6. CASE /\ ready_to_write
           /\ state_' = SetState(state_, "WRITE_SHUT")
           /\ UNCHANGED <<ready_to_write_, written, message_state_>>
           /\ Shutdown(<<failed>>)
  <2>1. Ends(<<failed>>)
    BY <1>2, <1>6, ShutdownEnds
  <2>2. Flags'
    BY <1>1, <1>6 DEF Flags
  <2>3. Sizes' /\ Counted' /\ Drained'
    BY <1>1, <1>6 DEF Sizes, Counted, Drained, net, SetState, States
  <2>4. failed \in Names /\ failed # "headers_complete" /\ <<failed>> # <<"request_complete">>
    BY DEF Names, Outcomes
  <2>5. Announced'
    BY <1>2, <1>6, <2>1, <2>4, EndsHeard
  <2>6. state_' \notin {"NOT_CONNECTED", "CONNECTING"}
    BY <1>6 DEF SetState
  <2> QED BY <2>1, <2>2, <2>3, <2>5, <2>6, LeavesLifecycle
<1> QED BY <1>4, <1>5, <1>6 DEF Write

LEMMA PushStep ==
  ASSUME ClientInv, PushHeader \/ PushBody
  PROVE  ClientInv'
<1>1. CASE PushHeader
  BY <1>1, WriteStep DEF PushHeader
<1>2. CASE PushBody
  BY <1>2, WriteStep DEF PushBody
<1> QED BY <1>1, <1>2

LEMMA HeaderStep ==
  ASSUME ClientInv, ParseResponseHeader
  PROVE  ClientInv'
<1> USE DEF ClientInv
<1> DEFINE n == Least(buffer_, resp.head - parsed)
<1>1. /\ pc = "stream" /\ message_state_ = "PARSE_RESPONSE_HEADER"
      /\ parsed' = parsed + n /\ buffer_' = buffer_ - n
      /\ UNCHANGED <<state_, ready_to_read_, ready_to_write_>>
      /\ UNCHANGED <<written, delivered, refused, timeout_, resp, net, space>>
  BY DEF ParseResponseHeader
<1>2. Alive /\ state_ \notin {"NOT_CONNECTED", "CONNECTING"} /\ pc # "gone"
  BY <1>1 DEF Alive, Lifecycle
<1>3. /\ resp.head \in Nat /\ resp.size \in Nat /\ parsed \in Nat /\ parsed <= resp.head
      /\ buffer_ \in 0 .. BufLength /\ BufLength \in Nat
  BY <1>1, RespType DEF Sizes, Counted
<1>4. n \in Nat /\ n <= buffer_ /\ parsed + n <= resp.head
  BY <1>3 DEF Least
<1> HIDE DEF n
<1>5. Flags'
  BY <1>1 DEF Flags
<1>6. /\ buffer_' \in 0 .. BufLength /\ parsed' \in 0 .. resp.head + resp.size
      /\ parsed' <= resp.head
  BY <1>1, <1>3, <1>4
<1>7. CASE /\ parsed' = resp.head /\ message_state_' = "PARSE_BODY"
           /\ calls' = Append(calls, "headers_complete")
           /\ UNCHANGED <<pc, res>>
  <2>1. Sizes' /\ Counted' /\ Drained'
    BY <1>1, <1>3, <1>6, <1>7 DEF Sizes, Counted, Drained, net
  <2>2. Lifecycle' /\ Places'
    BY <1>1, <1>2, <1>7 DEF Lifecycle, Places, res, NothingBehind
  <2>3. Announced'
    BY <1>2, <1>7, HeardAppend, CallNames DEF Announced
  <2> QED BY <1>5, <2>1, <2>2, <2>3
<1>8. CASE /\ UNCHANGED message_state_
           /\ Shutdown(<<"invalid_header">>) \/ ReadIncomplete
  <2>1. Sizes' /\ Counted' /\ Drained'
    BY <1>1, <1>3, <1>6, <1>8 DEF Sizes, Counted, Drained, net
  <2>2. Continues \/ Ends(<<>>) \/ Ends(<<"invalid_header">>)
    BY <1>2, <1>5, <1>8, ShutdownEnds, ReadIncompleteLeaves DEF Flags
  <2>3. Lifecycle' /\ Places'
    BY <1>1, <1>2, <2>2, LeavesLifecycle
  <2>4. Announced'
    <3>1. <<>> # <<"request_complete">> /\ <<"invalid_header">> # <<"request_complete">>
      OBVIOUS
    <3>2. \E x \in Names : <<"invalid_header">> = <<x>> /\ x # "headers_complete"
      BY DEF Names, Outcomes
    <3> QED BY <1>2, <1>8, <2>2, <3>1, <3>2, ContinuesHeard, EndsHeard
  <2> QED BY <1>5, <2>1, <2>3, <2>4
<1> QED BY <1>7, <1>8 DEF ParseResponseHeader

(* The body: complete only when parse_body() has seen the end of it, or the
   server its own. *)
LEMMA BodyStep ==
  ASSUME ClientInv, ParseBody
  PROVE  ClientInv'
<1> USE DEF ClientInv
<1> DEFINE n == IF resp.enc = "NONE" THEN 0 ELSE Least(buffer_, resp.head + resp.size - parsed)
<1>1. /\ pc = "stream" /\ message_state_ = "PARSE_BODY"
      /\ parsed' = parsed + n /\ buffer_' = buffer_ - n
      /\ UNCHANGED <<state_, ready_to_read_, ready_to_write_>>
      /\ UNCHANGED <<message_state_, written, timeout_, resp, net, space>>
  BY DEF ParseBody
<1>2. PICK r \in IF resp.enc = "NONE" THEN {"COMPLETE"} ELSE BodyReplies :
        /\ refused' = (refused \/ r # "COMPLETE")
        /\ delivered' = IF r = "COMPLETE" THEN delivered + n ELSE delivered
        /\ Body(parse_body(r, n))
  BY DEF ParseBody
<1>3. Alive /\ state_ \notin {"NOT_CONNECTED", "CONNECTING"} /\ pc # "gone"
  BY <1>1 DEF Alive, Lifecycle
<1>4. /\ resp.head \in Nat /\ resp.size \in Nat /\ parsed \in 0 .. resp.head + resp.size
      /\ buffer_ \in 0 .. BufLength /\ BufLength \in Nat /\ delivered \in Nat
      /\ parsed >= resp.head /\ delivered <= parsed - resp.head
      /\ ~refused => delivered = parsed - resp.head
      /\ resp.enc = "NONE" => parsed = resp.head
  BY <1>1, RespType DEF Sizes, Counted
<1>5. /\ n \in Nat /\ n <= buffer_ /\ parsed + n <= resp.head + resp.size
      /\ resp.enc = "NONE" => n = 0
  BY <1>4 DEF Least
<1> HIDE DEF n
<1>6. Flags'
  <2>1. refused' \in BOOLEAN
    BY <1>2
  <2> QED BY <1>1, <2>1 DEF Flags
<1>7. /\ buffer_' \in 0 .. BufLength /\ parsed' \in 0 .. resp.head + resp.size
      /\ parsed' >= resp.head /\ delivered' \in 0 .. resp.size
      /\ delivered' <= parsed' - resp.head
      /\ resp.enc = "NONE" => parsed' = resp.head
  BY <1>1, <1>2, <1>4, <1>5
<1>8. ~refused' => r = "COMPLETE" /\ delivered' = parsed' - resp.head
  <2>1. ~refused' => ~refused /\ r = "COMPLETE"
    BY <1>2, Zenon
  <2>2. r = "COMPLETE" => delivered' = delivered + n
    BY <1>2
  <2> QED BY <1>1, <1>4, <1>5, <2>1, <2>2
<1>9. Sizes' /\ Counted' /\ Drained'
  <2>1. Sizes'
    BY <1>1, <1>7 DEF Sizes, net
  <2>2. Counted'
    BY <1>1, <1>7, <1>8 DEF Counted
  <2>3. Drained'
    BY <1>1 DEF Drained, net
  <2> QED BY <2>1, <2>2, <2>3
<1>10. \/ Shutdown(<<"invalid_body">>) \/ ReadIncomplete
       \/ /\ Shutdown(<<"request_complete">>)
          /\ \/ parse_body(r, n) \notin {"INVALID", "INCOMPLETE"}
             \/ parse_body(r, n) = "INCOMPLETE" /\ ~OpenForRead(state_) /\ resp.enc = "END_CONNECTION"
  BY <1>2 DEF Body
<1>11. CASE Shutdown(<<"invalid_body">>) \/ ReadIncomplete
  <2>1. Continues \/ Ends(<<>>) \/ Ends(<<"invalid_body">>)
    BY <1>3, <1>6, <1>11, ShutdownEnds, ReadIncompleteLeaves DEF Flags
  <2>2. Lifecycle' /\ Places'
    BY <1>1, <1>3, <2>1, LeavesLifecycle
  <2>3. <<>> # <<"request_complete">> /\ <<"invalid_body">> # <<"request_complete">>
    OBVIOUS
  <2>4. \E x \in Names : <<"invalid_body">> = <<x>> /\ x # "headers_complete"
    BY DEF Names, Outcomes
  <2>5. Announced'
    BY <1>1, <1>3, <2>1, <2>3, <2>4, ContinuesHeard, EndsHeard
  <2> QED BY <1>6, <1>9, <2>2, <2>5
<1>12. CASE /\ Shutdown(<<"request_complete">>)
            /\ \/ parse_body(r, n) \notin {"INVALID", "INCOMPLETE"}
               \/ parse_body(r, n) = "INCOMPLETE" /\ ~OpenForRead(state_) /\ resp.enc = "END_CONNECTION"
  <2>1. Ends(<<"request_complete">>)
    BY <1>3, <1>12, ShutdownEnds
  <2>2. Lifecycle' /\ Places'
    BY <1>1, <1>3, <2>1, LeavesLifecycle
  <2>3. \E x \in Names : <<"request_complete">> = <<x>> /\ x # "headers_complete"
    BY DEF Names, Outcomes
  <2>4. Told("headers_complete")'
    <3>1. calls \in Seq(Names) /\ Heard(calls, "headers_complete")
      BY <1>1 DEF Announced
    <3>2. calls' = Append(Append(calls, "request_complete"), "shutdown")
      BY <2>1, <3>1, HeardEnds DEF Ends, Names, Outcomes
    <3> DEFINE s == Append(calls, "request_complete")
    <3>3. s \in Seq(Names) /\ Heard(s, "headers_complete")
      BY <3>1, HeardAppend DEF Names, Outcomes
    <3> HIDE DEF s
    <3>4. calls' = Append(s, "shutdown")
      BY <3>2 DEF s
    <3>5. calls' \in Seq(Names) /\ Heard(calls', "headers_complete")
      BY <3>3, <3>4, HeardAppend, CallNames
    <3> QED BY <3>5 DEF Told, Happened, Heard
  <2>5. written' = Request + 1
    BY <1>1 DEF Counted
  <2>6. ASSUME ~refused', resp.enc = "END_CONNECTION"
        PROVE  peer' = "fin" => kernel' = 0 /\ delivered' = parsed' - resp.head
    <3>1. ~OpenForRead(state_)
      BY <1>8, <1>12, <2>6 DEF parse_body
    <3>2. state_ \in {"READ_SHUT", "HUNGUP"}
      BY <1>3, <3>1 DEF OpenForRead, Sizes, States
    <3> QED BY <1>1, <1>8, <2>6, <3>2 DEF Drained, net
  <2>7. ASSUME ~refused', resp.enc # "END_CONNECTION"
        PROVE  delivered' = IF resp.enc = "NONE" THEN 0 ELSE resp.size
    <3>1. CASE resp.enc = "NONE"
      BY <1>4, <1>7, <1>8, <2>7, <3>1
    <3>2. CASE resp.enc # "NONE"
      <4>1. parse_body(r, n) # "INCOMPLETE"
        BY <1>12, <2>7
      <4>2. ~(parsed + n < resp.head + resp.size)
        BY <1>8, <2>7, <3>2, <4>1 DEF parse_body
      <4>3. parsed' = resp.head + resp.size
        BY <1>1, <1>4, <1>5, <4>2
      <4> QED BY <1>4, <1>8, <2>7, <3>2, <4>3
    <3> QED BY <3>1, <3>2
  <2>8. CompleteIsWhole'
    BY <1>1, <2>4, <2>5, <2>6, <2>7 DEF CompleteIsWhole
  <2>9. Announced'
    BY <1>1, <1>3, <2>1, <2>3, <2>8, EndsHeard
  <2> QED BY <1>6, <1>9, <2>2, <2>9
<1> QED BY <1>10, <1>11, <1>12

(* The server acts only while the descriptor is open, so that what was said of
   a complete response stays true. *)
LEMMA ServerStep ==
  ASSUME ClientInv, ServerSends \/ ServerCloses
  PROVE  ClientInv'
<1> USE DEF ClientInv
<1>1. /\ Connected /\ peer = "open"
      /\ UNCHANGED <<pc, conn, res, timeout_, http, calls, resp, space>>
      /\ kernel' \in Nat /\ peer' \in {"open", "fin", "reset"}
  BY DEF ServerSends, ServerCloses, Sizes
<1>2. pc # "gone"
  BY <1>1 DEF Connected, Lifecycle, NothingBehind
<1>3. Flags' /\ Places' /\ Lifecycle' /\ Counted'
  BY <1>1 DEF Flags, Places, Lifecycle, Counted, conn, res, http, NothingBehind
<1>4. Sizes' /\ Drained'
  BY <1>1 DEF Sizes, Drained, conn, http
<1>5. Announced'
  BY <1>1, <1>2 DEF Announced, http
<1> QED BY <1>3, <1>4, <1>5

LEMMA ClientStep ==
  ASSUME ClientInv, [Next]_vars
  PROVE  ClientInv'
<1>1. CASE Next
  BY <1>1, ConnectStep, TimeoutStep, EventStep, ReadStep, PushStep, HeaderStep, BodyStep,
     ServerStep DEF Next, Handler
<1>2. CASE UNCHANGED vars
  BY <1>2 DEF vars, conn, res, http, net, ClientInv, Flags, Places, Sizes, Lifecycle, Counted,
     Drained, Announced, NothingBehind, CompleteIsWhole, Told, Happened
<1> QED BY <1>1, <1>2

LEMMA ClientInvariant == Spec => []ClientInv
BY ClientInit, ClientStep, PTL DEF Spec

(* The variables of the client keep their types: no counter leaves its range. *)
THEOREM ClientTypes == Spec => []TypeOK
<1>1. ClientInv => TypeOK
  BY TypesAreTypeOK DEF ClientInv
<1> QED BY <1>1, ClientInvariant, PTL

(* A deleted client_handler leaves no descriptor and no event behind. *)
THEOREM LeavesNothing == Spec => []NothingBehind
<1>1. ClientInv => NothingBehind
  BY DEF ClientInv, Lifecycle
<1> QED BY <1>1, ClientInvariant, PTL

(* The two checks of handle_event() never abort the client. *)
THEOREM ChecksNeverFire == Spec => []ChecksHold
<1>1. ClientInv => ChecksHold
  BY DEF ClientInv, Lifecycle, ChecksHold
<1> QED BY <1>1, ClientInvariant, PTL

(* request_complete() is called for whole responses only. *)
THEOREM WholeWhenComplete == Spec => []CompleteIsWhole
<1>1. ClientInv => CompleteIsWhole
  BY ToldHeard DEF ClientInv, Announced, CompleteIsWhole
<1> QED BY <1>1, ClientInvariant, PTL

-------------------------------------------------------------------------------
(* What the client has been told, call by call.  A living handler can always
   write: no INCOMPLETE of handle_stream() ends it without an outcome. *)
Heading == IF message_state_ = "PARSE_BODY" THEN <<"headers_complete">> ELSE <<>>
Story ==
  /\ pc \in {"new", "waiting", "read", "stream"} => calls = Heading
  /\ pc \in {"waiting", "read", "stream"} => state_ \notin {"WRITE_SHUT", "HUNGUP"}
  /\ pc = "new" => message_state_ = "PUSH_HEADER"
  /\ pc = "abandoned" => calls = <<"dns_failed">>
  /\ pc = "gone" => \/ fd_ = "none" /\ calls = <<"shutdown">>
                    \/ \E x \in Outcomes : calls \in {<<x, "shutdown">>, <<"headers_complete", x, "shutdown">>}

(* A step of a living handler that keeps the story: it goes on with nothing
   said, or ends after one outcome. *)
GoesOn == Continues /\ message_state_' = message_state_ /\ state_' \notin {"WRITE_SHUT", "HUNGUP"}
EndsOnce == \E x \in Outcomes : Ends(<<x>>)

LEMMA StoryGoesOn ==
  ASSUME Story, pc \in {"new", "waiting", "read", "stream"}, GoesOn
  PROVE  Story'
BY DEF Story, GoesOn, Continues, Heading

(* Tuples of two and three calls, made by appending. *)
LEMMA AppendPair ==
  ASSUME NEW a, NEW b
  PROVE  Append(<<a>>, b) = <<a, b>>
<1> DEFINE S == {a, b}
           s == Append(<<a>>, b)
<1>1. <<a>> \in Seq(S) /\ Len(<<a>>) = 1 /\ <<a>>[1] = a
  OBVIOUS
<1>2. s \in Seq(S) /\ Len(s) = 2 /\ s[1] = a /\ s[2] = b
  BY <1>1, AppendProperties
<1>3. <<a, b>> \in Seq(S) /\ Len(<<a, b>>) = 2 /\ <<a, b>>[1] = a /\ <<a, b>>[2] = b
  OBVIOUS
<1> HIDE DEF s, S
<1>4. \A i \in 1 .. Len(s) : s[i] = <<a, b>>[i]
  BY <1>2, <1>3
<1>5. s = <<a, b>>
  BY <1>2, <1>3, <1>4, SeqEqual
<1> QED BY <1>5 DEF s

LEMMA AppendTriple ==
  ASSUME NEW a, NEW b, NEW c
  PROVE  Append(<<a, b>>, c) = <<a, b, c>>
<1> DEFINE S == {a, b, c}
           s == Append(<<a, b>>, c)
<1>1. <<a, b>> \in Seq(S) /\ Len(<<a, b>>) = 2 /\ <<a, b>>[1] = a /\ <<a, b>>[2] = b
  OBVIOUS
<1>2. s \in Seq(S) /\ Len(s) = 3 /\ s[1] = a /\ s[2] = b /\ s[3] = c
  BY <1>1, AppendProperties
<1>3. /\ <<a, b, c>> \in Seq(S) /\ Len(<<a, b, c>>) = 3
      /\ <<a, b, c>>[1] = a /\ <<a, b, c>>[2] = b /\ <<a, b, c>>[3] = c
  OBVIOUS
<1> HIDE DEF s, S
<1>4. \A i \in 1 .. Len(s) : s[i] = <<a, b, c>>[i]
  BY <1>2, <1>3
<1>5. s = <<a, b, c>>
  BY <1>2, <1>3, <1>4, SeqEqual
<1> QED BY <1>5 DEF s

LEMMA StoryEnds ==
  ASSUME Story, pc \in {"new", "waiting", "read", "stream"}, EndsOnce
  PROVE  Story'
<1>1. PICK x \in Outcomes : Ends(<<x>>)
  BY DEF EndsOnce
<1>2. calls = <<>> \/ calls = <<"headers_complete">>
  BY DEF Story, Heading
<1>3. calls' = <<x, "shutdown">> \/ calls' = <<"headers_complete", x, "shutdown">>
  <2>1. calls' = Append(Append(calls, x), "shutdown")
    BY <1>1, <1>2, HeardEnds, CallNames DEF Ends
  <2>2. CASE calls = <<>>
    <3>1. Append(calls, x) = <<x>>
      BY <2>2
    <3>2. Append(<<x>>, "shutdown") = <<x, "shutdown">>
      BY AppendPair
    <3> QED BY <2>1, <3>1, <3>2, Zenon
  <2>3. CASE calls = <<"headers_complete">>
    <3>1. Append(calls, x) = <<"headers_complete", x>>
      BY <2>3, AppendPair
    <3>2. Append(<<"headers_complete", x>>, "shutdown") = <<"headers_complete", x, "shutdown">>
      BY AppendTriple
    <3> QED BY <2>1, <3>1, <3>2, Zenon
  <2> QED BY <1>2, <2>2, <2>3
<1> QED BY <1>1, <1>3 DEF Story, Ends

LEMMA StoryInit == Init => Story
BY DEF Init, Story, Heading

LEMMA StoryConnect ==
  ASSUME ClientInv, Story, Connect
  PROVE  Story'
<1>1. calls = <<>> /\ fd_ = "none" /\ message_state_ = "PUSH_HEADER" /\ pc = "new"
  BY DEF Connect, SocketFails, ConnectFails, initiate_server_connect, dns_failed,
     Story, Heading, ClientInv, Lifecycle
<1>2. CASE initiate_server_connect
  BY <1>1, <1>2 DEF initiate_server_connect, Story, Heading, http
<1>3. CASE SocketFails
  BY <1>1, <1>3 DEF SocketFails, Story
<1>4. CASE dns_failed
  BY <1>1, <1>4 DEF dns_failed, Story
<1>5. CASE ConnectFails
  <2>1. calls' = <<"connect_failed", "shutdown">>
    BY <1>1, <1>5 DEF ConnectFails
  <2> QED BY <1>5, <2>1 DEF ConnectFails, Story, Outcomes
<1> QED BY <1>2, <1>3, <1>4, <1>5 DEF Connect

LEMMA StoryEvent ==
  ASSUME ClientInv, Story, handle_timeout \/ handle_event
  PROVE  Story'
<1> USE DEF ClientInv
<1>1. pc = "waiting" /\ fd_ = "open" /\ monitored = 1 /\ state_ \notin {"WRITE_SHUT", "HUNGUP"}
  BY DEF handle_timeout, handle_event, Lifecycle, Story
<1>2. CASE handle_timeout
  <2>1. Ends(<<"timeout">>)
    BY <1>1, <1>2 DEF handle_timeout, Shutdown, Ends
  <2> QED BY <1>1, <2>1, StoryEnds DEF EndsOnce, Outcomes
<1>3. CASE handle_event
  <2>1. CASE /\ state_' = IF state_ = "CONNECTING" THEN "CONNECTED" ELSE state_
             /\ armed' = {} /\ pc' = "read"
             /\ UNCHANGED <<fd_, monitored, calls>>
    <3>1. GoesOn
      BY <1>1, <1>3, <2>1 DEF handle_event, GoesOn, Continues, http
    <3> QED BY <1>1, <3>1, StoryGoesOn
  <2>2. CASE Shutdown(<<"connect_failed">>)
    <3>1. Ends(<<"connect_failed">>)
      BY <1>1, <2>2 DEF Shutdown, Ends
    <3> QED BY <1>1, <3>1, StoryEnds DEF EndsOnce, Outcomes
  <2> QED BY <1>3, <2>1, <2>2 DEF handle_event, handle_server_connect
<1> QED BY <1>2, <1>3

LEMMA StoryRead ==
  ASSUME ClientInv, Story, non_blocking_read
  PROVE  Story'
<1>1. /\ pc = "read" /\ pc' = "stream"
      /\ UNCHANGED <<res, http, calls>>
      /\ state_' \in {state_, SetState(state_, "READ_SHUT")}
  BY DEF non_blocking_read, conn
<1>2. state_' \notin {"WRITE_SHUT", "HUNGUP"}
  BY <1>1 DEF Story, SetState
<1>3. GoesOn
  BY <1>1, <1>2 DEF GoesOn, Continues, ClientInv, Lifecycle, res, http
<1> QED BY <1>1, <1>3, StoryGoesOn

(* A part of the request: a handler that could not write waits, and one whose
   write failed says so. *)
LEMMA StoryWrite ==
  ASSUME ClientInv, Story, pc = "stream", NEW end, NEW next, NEW failed \in Outcomes,
         Write(end, next, failed),
         message_state_ \in {"PUSH_HEADER", "PUSH_BODY"}, next # "PARSE_BODY"
  PROVE  Story'
<1> USE DEF ClientInv
<1>1. Alive /\ state_ \in {"CONNECTED", "READ_SHUT"}
  BY DEF Alive, Lifecycle, Story, Sizes, States
<1>2. CASE /\ ready_to_write
           /\ written' = end /\ message_state_' = next
           /\ pc' = "stream"
           /\ UNCHANGED <<state_, ready_to_write_, res, calls>>
  BY <1>2 DEF Story, Heading
<1>3. CASE /\ IF ready_to_write
              THEN /\ \E n \in (IF space THEN 1 ELSE 0) .. end - written - 1 : written' = written + n
                   /\ ready_to_write_' = FALSE
              ELSE UNCHANGED <<written, ready_to_write_>>
           /\ UNCHANGED <<state_, message_state_>>
           /\ WriteIncomplete
  <2>1. OpenForWrite(state_')
    BY <1>1, <1>3 DEF OpenForWrite
  <2>2. ready_to_write_' = FALSE
    BY <1>1, <1>3 DEF ready_to_write, OpenForWrite, Flags
  <2>3. "EV_WRITE" \in Interest
    BY <2>1, <2>2 DEF Interest
  <2>4. Continues
    BY <1>1, <1>3, <2>1, <2>2, <2>3, RearmContinues DEF WriteIncomplete
  <2> QED BY <1>1, <1>3, <2>4, StoryGoesOn DEF GoesOn
<1>4. CASE Shutdown(<<failed>>)
  BY <1>1, <1>4, ShutdownEnds, StoryEnds DEF EndsOnce
<1> QED BY <1>2, <1>3, <1>4 DEF Write

(* A read that is incomplete goes on while the server can be read from. *)
LEMMA StoryReadIncomplete ==
  ASSUME ClientInv, Story, pc = "stream", ReadIncomplete, OpenForRead(state_),
         UNCHANGED <<state_, ready_to_read_, message_state_>>
  PROVE  Story'
<1>1. Alive /\ state_' \notin {"WRITE_SHUT", "HUNGUP"} /\ ready_to_read_' \in BOOLEAN
  BY DEF Alive, ClientInv, Lifecycle, Story, Flags
<1>2. OpenForRead(state_')
  OBVIOUS
<1>3. CASE ready_to_read_'
  BY <1>1, <1>2, <1>3, StoryGoesOn DEF ReadIncomplete, GoesOn, Continues, Alive, res
<1>4. CASE ~ready_to_read_'
  <2>1. "EV_READ" \in Interest
    BY <1>2, <1>4 DEF Interest
  <2>2. Continues
    BY <1>1, <1>2, <1>4, <2>1, RearmContinues DEF ReadIncomplete
  <2> QED BY <1>1, <2>2, StoryGoesOn DEF GoesOn
<1> QED BY <1>1, <1>3, <1>4

LEMMA StoryHeader ==
  ASSUME ClientInv, Story, ParseResponseHeader
  PROVE  Story'
<1>1. /\ pc = "stream" /\ message_state_ = "PARSE_RESPONSE_HEADER"
      /\ UNCHANGED <<state_, ready_to_read_, ready_to_write_>>
  BY DEF ParseResponseHeader
<1>2. CASE /\ message_state_' = "PARSE_BODY"
           /\ calls' = Append(calls, "headers_complete")
           /\ UNCHANGED <<pc, res>>
  BY <1>1, <1>2 DEF Story, Heading
<1>3. CASE UNCHANGED message_state_ /\ Shutdown(<<"invalid_header">>)
  <2>1. Alive
    BY <1>1 DEF Alive, ClientInv, Lifecycle
  <2> QED BY <1>1, <1>3, <2>1, ShutdownEnds, StoryEnds DEF EndsOnce, Outcomes
<1>4. CASE UNCHANGED message_state_ /\ OpenForRead(state_) /\ ReadIncomplete
  BY <1>1, <1>4, StoryReadIncomplete
<1> QED BY <1>2, <1>3, <1>4 DEF ParseResponseHeader

LEMMA StoryBody ==
  ASSUME ClientInv, Story, ParseBody
  PROVE  Story'
<1>1. /\ pc = "stream"
      /\ UNCHANGED <<state_, ready_to_read_, ready_to_write_, message_state_>>
  BY DEF ParseBody
<1>2. PICK status : Body(status)
  BY DEF ParseBody
<1>3. \/ \E x \in {"invalid_body", "request_complete"} : Shutdown(<<x>>)
      \/ OpenForRead(state_) /\ ReadIncomplete
  BY <1>2 DEF Body
<1>4. Alive
  BY <1>1 DEF Alive, ClientInv, Lifecycle
<1>5. CASE \E x \in {"invalid_body", "request_complete"} : Shutdown(<<x>>)
  BY <1>1, <1>4, <1>5, ShutdownEnds, StoryEnds DEF EndsOnce, Outcomes
<1>6. CASE OpenForRead(state_) /\ ReadIncomplete
  BY <1>1, <1>6, StoryReadIncomplete
<1> QED BY <1>3, <1>5, <1>6

LEMMA StoryStep ==
  ASSUME ClientInv, Story, [Next]_vars
  PROVE  Story'
<1>1. CASE PushHeader \/ PushBody
  BY <1>1, StoryWrite DEF PushHeader, PushBody, Outcomes
<1>2. CASE ServerSends \/ ServerCloses \/ UNCHANGED vars
  BY <1>2 DEF ServerSends, ServerCloses, vars, conn, res, http, Story, Heading
<1> QED BY <1>1, <1>2, StoryConnect, StoryEvent, StoryRead, StoryHeader, StoryBody
        DEF Next, Handler

(* The story has one outcome at most, followed by the shutdown. *)
LEMMA StoryOutcome ==
  ASSUME Story, Places, pc # "aborted"
  PROVE  OneOutcome
<1>1. "shutdown" \notin Outcomes /\ "headers_complete" \notin Outcomes /\ "dns_failed" \notin Outcomes
  BY DEF Outcomes
<1>2. Cardinality({}) = 0 /\ \A i : Cardinality({i}) = 1
  BY FS_EmptySet, FS_Singleton
<1>3. CASE /\ pc # "gone"
           /\ calls \in {<<>>, <<"headers_complete">>, <<"dns_failed">>}
  <2>1. Happened(Outcomes) = {}
    BY <1>1, <1>3 DEF Happened
  <2> QED BY <1>2, <1>3, <2>1 DEF OneOutcome
<1>4. CASE pc = "gone" /\ fd_ = "none" /\ calls = <<"shutdown">>
  <2>1. Happened(Outcomes) = {} /\ Happened({"shutdown"}) = {1}
    BY <1>1, <1>4 DEF Happened
  <2> QED BY <1>2, <1>4, <2>1 DEF OneOutcome
<1>5. ASSUME NEW x \in Outcomes, calls = <<x, "shutdown">>
      PROVE  OneOutcome
  <2>1. Happened(Outcomes) = {1} /\ Happened({"shutdown"}) = {2}
    BY <1>1, <1>5 DEF Happened
  <2>2. calls[Len(calls)] = "shutdown" /\ calls[Len(calls) - 1] \in Outcomes
    BY <1>5
  <2>3. Cardinality(Happened(Outcomes)) = 1 /\ Cardinality(Happened({"shutdown"})) = 1
    BY <1>2, <2>1
  <2>4. Happened(Outcomes) # {}
    BY <2>1
  <2> QED BY <2>2, <2>3, <2>4 DEF OneOutcome
<1>6. ASSUME NEW x \in Outcomes, calls = <<"headers_complete", x, "shutdown">>
      PROVE  OneOutcome
  <2>1. Happened(Outcomes) = {2} /\ Happened({"shutdown"}) = {3}
    BY <1>1, <1>6 DEF Happened
  <2>2. calls[Len(calls)] = "shutdown" /\ calls[Len(calls) - 1] \in Outcomes
    BY <1>6
  <2>3. Cardinality(Happened(Outcomes)) = 1 /\ Cardinality(Happened({"shutdown"})) = 1
    BY <1>2, <2>1
  <2>4. Happened(Outcomes) # {}
    BY <2>1
  <2> QED BY <2>2, <2>3, <2>4 DEF OneOutcome
<1>7. CASE pc # "gone"
  BY <1>3, <1>7 DEF Story, Heading, Places
<1>8. CASE pc = "gone"
  BY <1>4, <1>5, <1>6, <1>8 DEF Story
<1> QED BY <1>7, <1>8

(* The client hears one outcome and then of the shutdown, whatever the server,
   the kernel and the timer do. *)
THEOREM OutcomeOnce == Spec => []OneOutcome
<1>1. ClientInv /\ Story /\ [Next]_vars => (ClientInv /\ Story)'
  BY ClientStep, StoryStep
<1>2. ClientInv /\ Story => OneOutcome
  BY StoryOutcome DEF ClientInv, Lifecycle
<1> QED BY <1>1, <1>2, ClientInit, StoryInit, PTL DEF Spec

===============================================================================
