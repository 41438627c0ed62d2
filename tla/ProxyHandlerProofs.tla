--------------------------- MODULE ProxyHandlerProofs ---------------------------
(***************************************************************************)
(* Theorems about ProxyHandler and the pipeline queue it extends, for      *)
(* every value of their constants: the queue conserves its elements; types *)
(* with what they rest on (a stream handler inside a message holds a       *)
(* pipeline element, and the pipeline is used only through its three       *)
(* operations), and the control state, which the deadlock check and the    *)
(* descriptors depend on.                                                  *)
(***************************************************************************)
EXTENDS ProxyHandler, TLAPS

(* pipeline_data_queue: it conserves its elements, whatever its depth. *)

(* Types, and every element in one place. *)
QueueInv == QueueTypeOK /\ Conserved

(* The queue starts with every element on the free list, once. *)
LEMMA QueueInvInit == QueueInit => QueueInv
  <1> SUFFICES ASSUME QueueInit PROVE QueueInv
    OBVIOUS
  <1>1. free_list \in Seq(Elements) /\ Len(free_list) = PIPELINE_DEPTH
    BY DepthAssumption DEF QueueInit, Elements
  <1>2. active_queue \o free_list = free_list
    BY <1>1 DEF QueueInit
  <1>3. \A i, j \in 1 .. Len(free_list) : i # j => free_list[i] # free_list[j]
    BY <1>1 DEF QueueInit
  <1>4. active_queue \in Seq(Elements)
    BY DEF QueueInit
  <1>5. Conserved
    BY <1>1, <1>2, <1>3, Zenon DEF Conserved
  <1> QED BY <1>1, <1>4, <1>5 DEF QueueInv, QueueTypeOK

(***************************************************************************)
(* What Conserved says without concatenation: the lengths add up, no list  *)
(* holds an element twice, and the lists have none in common.              *)
(***************************************************************************)
Disjoint(s, t) ==
    /\ \A i, j \in 1 .. Len(s) : i # j => s[i] # s[j]
    /\ \A i, j \in 1 .. Len(t) : i # j => t[i] # t[j]
    /\ \A i \in 1 .. Len(s), j \in 1 .. Len(t) : s[i] # t[j]

(* Two lists in a row have no repetition exactly when they are disjoint. *)
LEMMA DisjointLists ==
    ASSUME NEW S, NEW s \in Seq(S), NEW t \in Seq(S)
    PROVE  (\A i, j \in 1 .. Len(s \o t) : i # j => (s \o t)[i] # (s \o t)[j])
             <=> Disjoint(s, t)
  <1>1. /\ Len(s \o t) = Len(s) + Len(t) /\ Len(s) \in Nat /\ Len(t) \in Nat
        /\ \A i \in 1 .. Len(s) : (s \o t)[i] = s[i]
        /\ \A i \in 1 .. Len(t) : (s \o t)[Len(s) + i] = t[i]
    OBVIOUS
  <1>2. ASSUME \A i, j \in 1 .. Len(s \o t) : i # j => (s \o t)[i] # (s \o t)[j]
        PROVE  Disjoint(s, t)
    <2>1. \A i, j \in 1 .. Len(s) : i # j => s[i] # s[j]
      BY <1>1, <1>2
    <2>2. ASSUME NEW i \in 1 .. Len(t), NEW j \in 1 .. Len(t), i # j
          PROVE  t[i] # t[j]
      <3>1. /\ Len(s) + i \in 1 .. Len(s \o t) /\ Len(s) + j \in 1 .. Len(s \o t)
            /\ Len(s) + i # Len(s) + j
        BY <1>1, <2>2
      <3>2. (s \o t)[Len(s) + i] # (s \o t)[Len(s) + j]
        BY <1>2, <3>1, Zenon
      <3> QED BY <1>1, <3>2, Zenon
    <2>3. ASSUME NEW i \in 1 .. Len(s), NEW j \in 1 .. Len(t)
          PROVE  s[i] # t[j]
      <3>1. i \in 1 .. Len(s \o t) /\ Len(s) + j \in 1 .. Len(s \o t) /\ i # Len(s) + j
        BY <1>1
      <3> QED BY <1>1, <1>2, <3>1
    <2> QED BY <2>1, <2>2, <2>3 DEF Disjoint
  <1>3. ASSUME Disjoint(s, t), NEW i \in 1 .. Len(s \o t), NEW j \in 1 .. Len(s \o t), i # j
        PROVE  (s \o t)[i] # (s \o t)[j]
    <2>1. \A k \in 1 .. Len(s \o t) :
             IF k <= Len(s) THEN k \in 1 .. Len(s) /\ (s \o t)[k] = s[k]
             ELSE k - Len(s) \in 1 .. Len(t) /\ (s \o t)[k] = t[k - Len(s)]
      BY <1>1
    <2>2. CASE i <= Len(s) /\ j <= Len(s)
      BY <1>3, <2>1, <2>2 DEF Disjoint
    <2>3. CASE i <= Len(s) /\ ~(j <= Len(s))
      BY <1>3, <2>1, <2>3 DEF Disjoint
    <2>4. CASE ~(i <= Len(s)) /\ j <= Len(s)
      BY <1>3, <2>1, <2>4 DEF Disjoint
    <2>5. CASE ~(i <= Len(s)) /\ ~(j <= Len(s))
      <3>1. i - Len(s) # j - Len(s)
        BY <1>1, <1>3
      <3> QED BY <1>3, <2>1, <2>5, <3>1 DEF Disjoint
    <2> QED BY <2>2, <2>3, <2>4, <2>5
  <1> QED BY <1>2, <1>3

(* Each operation moves elements between the lists and keeps them distinct. *)
LEMMA QueueInvStep == QueueInv /\ [QueueNext]_qvars => QueueInv'
  <1> SUFFICES ASSUME QueueInv, [QueueNext]_qvars PROVE QueueInv'
    OBVIOUS
  <1>1. /\ active_queue \in Seq(Elements) /\ free_list \in Seq(Elements)
        /\ Len(active_queue) + Len(free_list) = PIPELINE_DEPTH
        /\ Disjoint(active_queue, free_list)
    BY DisjointLists DEF QueueInv, QueueTypeOK, Conserved
  <1>2. SUFFICES /\ active_queue' \in Seq(Elements) /\ free_list' \in Seq(Elements)
                 /\ Len(active_queue') + Len(free_list') = PIPELINE_DEPTH
                 /\ Disjoint(active_queue', free_list')
    <2>1. Len(active_queue' \o free_list') = PIPELINE_DEPTH
      BY <1>2
    <2> QED BY <1>2, <2>1, DisjointLists DEF QueueInv, QueueTypeOK, Conserved
  <1>3. CASE QueueElement
    BY <1>1, <1>3 DEF QueueElement, QueueFull, NextFree, Disjoint
  <1>4. CASE DequeueElement
    BY <1>1, <1>4 DEF DequeueElement, QueueEmpty, FrontElement, Disjoint
  <1>5. CASE EmptyQueue
    <2>1. Disjoint(free_list, active_queue)
      BY <1>1 DEF Disjoint
    <2>2. \A i, j \in 1 .. Len(free_list') : i # j => free_list'[i] # free_list'[j]
      BY <1>1, <1>5, <2>1, DisjointLists DEF EmptyQueue
    <2>3. active_queue' = <<>> /\ free_list' \in Seq(Elements)
          /\ Len(free_list') = PIPELINE_DEPTH
      BY <1>1, <1>5 DEF EmptyQueue
    <2> QED BY <2>2, <2>3 DEF Disjoint
  <1>6. CASE UNCHANGED qvars
    BY <1>1, <1>6 DEF qvars
  <1> QED BY <1>3, <1>4, <1>5, <1>6 DEF QueueNext

(***************************************************************************)
(* No sequence of queue_element(), dequeue_element() and empty_queue()     *)
(* loses, duplicates or shares a pipeline element, for every depth.        *)
(***************************************************************************)
THEOREM QueueConserves == QueueSpec => []Conserved
  <1>1. QueueInv => Conserved
    BY DEF QueueInv
  <1> QED BY <1>1, QueueInvInit, QueueInvStep, PTL DEF QueueSpec

-----------------------------------------------------------------------------
(* What a stream handler relies on. *)
TypeInv == TypeOK /\ HoldsElement

(* Writing all or part of a sequence of units leaves a sequence of units. *)
LEMMA Pieces ==
    ASSUME NEW us \in Seq(Units), NEW k \in 0 .. Len(us)
    PROVE  SubSeq(us, 1, k) \in Seq(Units) /\ After(us, k) \in Seq(Units)
  BY DEF After

(* non_blocking_write() keeps the types of what it changes. *)
LEMMA WriteTypes ==
    ASSUME ConnTypeOK, PeerTypeOK, NEW d \in Sides, NEW us \in Seq(Units),
           NEW k \in 0 .. Len(us), NEW r, Write(d, us, k, r)
    PROVE  /\ state' \in [Sides -> States] /\ ready_to_write' \in [Sides -> BOOLEAN]
           /\ got' \in [Sides -> Seq(Units)] /\ room' \in [Sides -> BOOLEAN]
  <1>1. \A v \in [Sides -> Seq(Units)], w \in Seq(Units) :
           [v EXCEPT ![d] = @ \o w] \in [Sides -> Seq(Units)]
    OBVIOUS
  <1>2. SubSeq(us, 1, k) \in Seq(Units)
    BY Pieces
  <1>3. got' \in [Sides -> Seq(Units)]
    <2>1. got' \in {got, [got EXCEPT ![d] = @ \o us], [got EXCEPT ![d] = @ \o SubSeq(us, 1, k)]}
      BY DEF Write
    <2>2. got \in [Sides -> Seq(Units)]
      BY DEF PeerTypeOK
    <2>3. /\ [got EXCEPT ![d] = @ \o us] \in [Sides -> Seq(Units)]
          /\ [got EXCEPT ![d] = @ \o SubSeq(us, 1, k)] \in [Sides -> Seq(Units)]
      BY <1>1, <1>2, <2>2, Zenon
    <2> QED BY <2>1, <2>2, <2>3
  <1>4. room' \in [Sides -> BOOLEAN]
    BY DEF Write, PeerTypeOK
  <1>5. state' \in [Sides -> States] /\ ready_to_write' \in [Sides -> BOOLEAN]
    BY DEF Write, ConnTypeOK, SetState, States
  <1> QED BY <1>3, <1>4, <1>5

(* The pass that runs works on one of the two connections and streams. *)
LEMMA Endpoints == Src \in Sides /\ Dest \in Sides /\ Stream \in Streams
  BY DEF Src, Dest, Stream, Sides, Streams

(* What the queue hands out is an element. *)
LEMMA QueueTypes ==
    ASSUME QueueTypeOK
    PROVE  /\ ~QueueEmpty => FrontElement \in Elements
           /\ ~QueueFull => NextFree \in Elements
           /\ QueueElement => QueueTypeOK'
           /\ DequeueElement => QueueTypeOK'
           /\ EmptyQueue => QueueTypeOK'
  <1>1. /\ ~QueueEmpty => FrontElement \in Elements
        /\ ~QueueFull => NextFree \in Elements
    BY DEF QueueTypeOK, QueueEmpty, QueueFull, FrontElement, NextFree
  <1>2. QueueElement => QueueTypeOK'
    BY <1>1 DEF QueueTypeOK, QueueElement, QueueFull
  <1>3. DequeueElement => QueueTypeOK'
    BY <1>1 DEF QueueTypeOK, DequeueElement, QueueEmpty
  <1>4. EmptyQueue => QueueTypeOK'
    BY DEF QueueTypeOK, EmptyQueue
  <1> QED BY <1>1, <1>2, <1>3, <1>4

(***************************************************************************)
(* The initial state has the declared types.                               *)
(***************************************************************************)
LEMMA TypeInit == Init => TypeInv
  <1> SUFFICES ASSUME Init PROVE TypeInv
    OBVIOUS
  <1>1. HandlerTypeOK
    BY Zenon DEF Init, HandlerTypeOK, Places, Passes, Statuses
  <1>2. ConnTypeOK
    <2>1. state = ClientConnected /\ ready_to_read = Neither /\ ready_to_write = Neither
      BY Zenon DEF Init
    <2> QED BY <2>1 DEF ConnTypeOK, ClientConnected, Neither, States
  <1>3. FdTypeOK
    <2>1. fd = ClientOpen /\ lost_fds = 0 /\ link = "down" /\ faults = 0
          /\ pending = ClientPolled
      BY Zenon DEF Init
    <2> QED BY <2>1 DEF FdTypeOK, ClientOpen, ClientPolled
  <1>4. BufTypeOK
    <2>1. buf = NoUnits /\ out = NoUnits /\ stale_end = Neither
      BY Zenon DEF Init
    <2> QED BY <2>1 DEF BufTypeOK, NoUnits, Neither
  <1>5. StreamTypeOK /\ HoldsElement
    <2>1. /\ message_state = [s \in Streams |-> "START_MESSAGE"]
          /\ header = [s \in Streams |-> <<>>]
          /\ encoding = [s \in Streams |-> DefaultEncoding(s)]
          /\ body = [s \in Streams |-> NoBody]
          /\ forwarding = [s \in Streams |-> FALSE]
          /\ current = [s \in Streams |-> 0]
      BY Zenon DEF Init
    <2> QED BY <2>1 DEF StreamTypeOK, HoldsElement, MessageStates, Encodings, BodyKinds,
                        DefaultEncoding, NoBody
  <1>6. QueueTypeOK
    <2>1. QueueInit
      BY Zenon DEF Init
    <2> QED BY <2>1, QueueInvInit DEF QueueInv
  <1>7. ElemTypeOK
    <2>1. /\ process_type = [e \in Elements |-> "NORMAL"]
          /\ request_complete = [e \in Elements |-> FALSE]
          /\ logrecord = [e \in Elements |-> 0] /\ access_log = <<>>
      BY Zenon DEF Init
    <2> QED BY <2>1 DEF ElemTypeOK
  <1>8. PeerTypeOK
    <2>1. /\ inq = NoUnits /\ fin = Neither /\ rst = Neither
          /\ room = [c \in Sides |-> TRUE] /\ got = NoUnits
          /\ req \in Requests /\ resp \in Responses
          /\ sent = [c \in Sides |-> 0] /\ accepts = 1
      BY Zenon DEF Init
    <2> QED BY <2>1, ParameterAssumption DEF PeerTypeOK, NoUnits, Neither
  <1> QED BY <1>1, <1>2, <1>3, <1>4, <1>5, <1>6, <1>7, <1>8 DEF TypeInv, TypeOK

(* What a step leaves alone keeps its type. *)
LEMMA Frame ==
    ASSUME TypeInv
    PROVE  /\ UNCHANGED phVars => HandlerTypeOK'
           /\ UNCHANGED connVars => ConnTypeOK'
           /\ UNCHANGED <<fdVars, pending>> => FdTypeOK'
           /\ UNCHANGED bufVars => BufTypeOK'
           /\ UNCHANGED streamVars => StreamTypeOK' /\ HoldsElement'
           /\ UNCHANGED qvars => QueueTypeOK'
           /\ UNCHANGED <<elemVars, access_log>> => ElemTypeOK'
           /\ UNCHANGED <<netVars, peerVars>> => PeerTypeOK'
  <1> USE DEF TypeInv, TypeOK
  <1>1. UNCHANGED phVars => HandlerTypeOK'
    BY DEF HandlerTypeOK, phVars
  <1>2. UNCHANGED connVars => ConnTypeOK'
    BY DEF ConnTypeOK, connVars
  <1>3. UNCHANGED <<fdVars, pending>> => FdTypeOK'
    BY DEF FdTypeOK, fdVars
  <1>4. UNCHANGED bufVars => BufTypeOK'
    BY DEF BufTypeOK, bufVars
  <1>5. UNCHANGED streamVars => StreamTypeOK' /\ HoldsElement'
    BY DEF StreamTypeOK, HoldsElement, streamVars
  <1>6. UNCHANGED qvars => QueueTypeOK'
    BY DEF QueueTypeOK, qvars
  <1>7. UNCHANGED <<elemVars, access_log>> => ElemTypeOK'
    BY DEF ElemTypeOK, elemVars
  <1>8. UNCHANGED <<netVars, peerVars>> => PeerTypeOK'
    BY DEF PeerTypeOK, netVars, peerVars
  <1> QED BY <1>1, <1>2, <1>3, <1>4, <1>5, <1>6, <1>7, <1>8

(* The peers and the kernel. *)
LEMMA PeerTypes ==
    ASSUME TypeInv, (\E c \in Sides : Peer(c)) \/ ConnectResult \/ UNCHANGED vars
    PROVE  TypeInv'
  <1>1. CASE \E c \in Sides : Peer(c)
    <2> PICK c \in Sides : Peer(c)
      BY <1>1
    <2>1. UNCHANGED <<phVars, connVars, fdVars, pending, bufVars, streamVars, qvars,
                      elemVars, access_log>>
      BY DEF Peer, PeerSend, PeerClose, PeerReset, PeerDrain
    <2>2. PeerTypeOK
      BY DEF TypeInv, TypeOK
    <2>3. ASSUME PeerSend(c) PROVE PeerTypeOK'
      <3>1. /\ sent[c] < Len(Script(c))
            /\ inq' = [inq EXCEPT ![c] = Append(@, Script(c)[sent[c] + 1])]
            /\ sent' = [sent EXCEPT ![c] = @ + 1]
        BY <2>3, Zenon DEF PeerSend
      <3>2. Script(c) \in Seq(Units) /\ sent[c] \in Nat /\ inq \in [Sides -> Seq(Units)]
        BY <2>2 DEF PeerTypeOK, Script
      <3>3. Script(c)[sent[c] + 1] \in Units
        BY <3>1, <3>2
      <3>4. inq' \in [Sides -> Seq(Units)]
        BY <3>1, <3>2, <3>3
      <3>5. sent' \in [Sides -> Nat]
        BY <2>2, <3>1 DEF PeerTypeOK
      <3>6. UNCHANGED <<fin, rst, room, got, req, resp, accepts>>
        BY <2>3, Zenon DEF PeerSend
      <3> QED BY <2>2, <3>4, <3>5, <3>6, Zenon DEF PeerTypeOK
    <2>4. ASSUME PeerClose(c) PROVE PeerTypeOK'
      BY <2>2, <2>4 DEF PeerClose, PeerTypeOK, peerVars
    <2>5. ASSUME PeerReset(c) PROVE PeerTypeOK'
      <3>1. /\ rst' = [rst EXCEPT ![c] = TRUE] /\ inq' = [inq EXCEPT ![c] = <<>>]
            /\ UNCHANGED <<fin, room, got, req, resp, sent, accepts>>
        BY <2>5 DEF PeerReset, peerVars
      <3>2. <<>> \in Seq(Units) /\ inq \in [Sides -> Seq(Units)]
        BY <2>2 DEF PeerTypeOK
      <3>3. inq' \in [Sides -> Seq(Units)]
        BY <3>1, <3>2, Zenon
      <3> QED BY <2>2, <3>1, <3>3 DEF PeerTypeOK
    <2>6. ASSUME PeerDrain(c) PROVE PeerTypeOK'
      BY <2>2, <2>6 DEF PeerDrain, PeerTypeOK, peerVars
    <2>7. PeerTypeOK'
      BY <2>3, <2>4, <2>5, <2>6 DEF Peer
    <2> QED BY <2>1, <2>7, Frame DEF TypeInv, TypeOK
  <1>2. CASE ConnectResult
    <2>1. FdTypeOK'
      BY <1>2 DEF ConnectResult, FdTypeOK, TypeInv, TypeOK
    <2> QED BY <1>2, <2>1, Frame DEF ConnectResult, TypeInv, TypeOK
  <1>3. CASE UNCHANGED vars
    BY <1>3, Frame DEF vars, TypeInv, TypeOK
  <1> QED BY <1>1, <1>2, <1>3

(* Reading. *)
LEMMA ReadTypes ==
    ASSUME TypeInv, SkipRead \/ ReadData \/ ReadNothing
    PROVE  TypeInv'
  <1> USE DEF TypeInv, TypeOK
  <1>1. HandlerTypeOK'
    BY DEF SkipRead, ReadData, ReadNothing, HandlerTypeOK, Places
  <1>2. CASE SkipRead
    BY <1>1, <1>2, Frame DEF SkipRead
  <1>3. CASE ReadData
    <2>1. PICK k \in 1 .. BufLength :
            /\ k <= Len(inq[Src])
            /\ buf' = [buf EXCEPT ![Src] = SubSeq(inq[Src], 1, k)]
            /\ inq' = [inq EXCEPT ![Src] = SubSeq(inq[Src], k + 1, Len(inq[Src]))]
      BY <1>3 DEF ReadData
    <2>2. inq[Src] \in Seq(Units) /\ k \in 0 .. Len(inq[Src])
      BY <2>1, Endpoints, ParameterAssumption DEF PeerTypeOK
    <2>3. /\ SubSeq(inq[Src], 1, k) \in Seq(Units)
          /\ SubSeq(inq[Src], k + 1, Len(inq[Src])) \in Seq(Units)
      BY <2>2, Pieces DEF After
    <2>4. BufTypeOK'
      BY <1>3, <2>1, <2>3, Endpoints DEF ReadData, BufTypeOK
    <2>5. PeerTypeOK'
      BY <1>3, <2>1, <2>3, Endpoints DEF ReadData, PeerTypeOK, peerVars
    <2> QED BY <1>1, <1>3, <2>4, <2>5, Frame DEF ReadData
  <1>4. CASE ReadNothing
    <2>1. ConnTypeOK' /\ BufTypeOK'
      BY <1>4, Endpoints DEF ReadNothing, ConnTypeOK, BufTypeOK, SetState, States
    <2> QED BY <1>1, <1>4, <2>1, Frame DEF ReadNothing
  <1> QED BY <1>2, <1>3, <1>4

(* START_MESSAGE. *)
LEMMA StartTypes ==
    ASSUME TypeInv, StartRequest \/ StartResponse
    PROVE  TypeInv'
  <1> USE DEF TypeInv, TypeOK
  <1>1. HandlerTypeOK'
    BY DEF StartRequest, StartResponse, Returns, Continues, HandlerTypeOK, Places, Statuses
  <1>2. QueueTypeOK'
    <2>1. QueueElement \/ DequeueElement \/ UNCHANGED qvars
      BY DEF StartRequest, StartResponse
    <2> QED BY <2>1, QueueTypes, Frame
  <1>3. CASE StartRequest
    <2>1. CASE UNCHANGED <<qvars, elemVars, current, message_state>>
      <3>1. UNCHANGED streamVars
        BY <1>3, <2>1 DEF StartRequest, streamVars
      <3> QED BY <1>1, <1>2, <1>3, <2>1, <3>1, Frame DEF StartRequest
    <2>2. CASE ~UNCHANGED <<qvars, elemVars, current, message_state>>
      <3>1. /\ QueueElement
            /\ process_type' = [process_type EXCEPT ![NextFree] = "NORMAL"]
            /\ request_complete' = [request_complete EXCEPT ![NextFree] = FALSE]
            /\ logrecord' = [logrecord EXCEPT ![NextFree] = 0]
            /\ UNCHANGED access_log
            /\ TakeElement("request", NextFree) /\ GoTo("PARSE_HEADER")
            /\ UNCHANGED <<header, encoding, body, forwarding>>
        BY <1>3, <2>2 DEF StartRequest
      <3>2. NextFree \in Elements
        BY <3>1, QueueTypes DEF QueueElement
      <3>3. ElemTypeOK'
        BY <3>1, <3>2 DEF ElemTypeOK
      <3>4. StreamTypeOK' /\ HoldsElement'
        BY <1>3, <3>1, <3>2 DEF StartRequest, StreamTypeOK, HoldsElement, TakeElement, GoTo,
                                MessageStates, Streams
      <3> QED BY <1>1, <1>2, <1>3, <3>3, <3>4, Frame DEF StartRequest
    <2> QED BY <2>1, <2>2
  <1>4. CASE StartResponse
    <2>1. CASE QueueEmpty
      <3>1. UNCHANGED streamVars
        BY <1>4, <2>1 DEF StartResponse, streamVars, DequeueElement
      <3> QED BY <1>1, <1>2, <1>4, <3>1, Frame DEF StartResponse
    <2>2. CASE ~QueueEmpty
      <3>1. FrontElement \in Elements
        BY <2>2, QueueTypes
      <3>2. /\ TakeElement("response", FrontElement)
            /\ header' \in {header, [header EXCEPT !["response"] = <<ErrorResponse>>]}
            /\ UNCHANGED message_state \/ GoTo("PUSH_HEADER") \/ GoTo("PARSE_HEADER")
            /\ UNCHANGED <<encoding, body, forwarding>>
        BY <1>4, <2>2 DEF StartResponse
      <3>3. <<ErrorResponse>> \in Seq(Units)
        BY DEF ErrorResponse, Units, Kinds
      <3>4. header' \in [Streams -> Seq(Units)]
        BY <3>2, <3>3 DEF StreamTypeOK
      <3>5. StreamTypeOK' /\ HoldsElement'
        BY <1>4, <3>1, <3>2, <3>4 DEF StartResponse, StreamTypeOK, HoldsElement, TakeElement,
                                     GoTo, MessageStates, Streams
      <3> QED BY <1>1, <1>2, <1>4, <3>5, Frame DEF StartResponse
    <2> QED BY <2>1, <2>2
  <1> QED BY <1>3, <1>4

(* PARSE_HEADER. *)
LEMMA ParseHeaderTypes ==
    ASSUME TypeInv, ParseHeader
    PROVE  TypeInv'
  <1> USE DEF TypeInv, TypeOK
  <1>1. HandlerTypeOK'
    BY DEF ParseHeader, Returns, Continues, HandlerTypeOK, Places, Statuses
  <1>2. CASE buf[Src] = <<>>
    <2>1. UNCHANGED <<bufVars, streamVars, elemVars, access_log>>
      BY <1>2 DEF ParseHeader, bufVars, streamVars
    <2> QED BY <1>1, <2>1, Frame DEF ParseHeader
  <1>3. CASE buf[Src] # <<>>
    <2>1. /\ buf[Src] \in Seq(Units) /\ Head(buf[Src]) \in Units /\ Tail(buf[Src]) \in Seq(Units)
          /\ header[Stream] \in Seq(Units)
      BY <1>3, Endpoints DEF BufTypeOK, StreamTypeOK
    <2>2. \E w \in {buf[Src], Tail(buf[Src])} : buf' = [buf EXCEPT ![Src] = w]
      BY <1>3 DEF ParseHeader
    <2>3. BufTypeOK'
      BY <2>1, <2>2, Endpoints DEF ParseHeader, BufTypeOK
    <2>4. header' \in {header, [header EXCEPT ![Stream] = Append(header[Stream], Head(buf[Src]))]}
      BY <1>3 DEF ParseHeader
    <2>5. header' \in [Streams -> Seq(Units)]
      <3>1. Append(header[Stream], Head(buf[Src])) \in Seq(Units)
        BY <2>1
      <3> QED BY <2>4, <3>1, Endpoints DEF StreamTypeOK
    <2>6. \/ UNCHANGED encoding
          \/ /\ encoding' = [encoding EXCEPT ![Stream] = [k |-> Head(buf[Src]).k,
                                                          n |-> Head(buf[Src]).n]]
             /\ Head(buf[Src]).k \in BodyKinds
      BY <1>3 DEF ParseHeader
    <2>7. encoding' \in [Streams -> Encodings]
      <3>1. ASSUME Head(buf[Src]).k \in BodyKinds
            PROVE  [k |-> Head(buf[Src]).k, n |-> Head(buf[Src]).n] \in Encodings
        BY <2>1, <3>1 DEF Encodings, Units
      <3> QED BY <2>6, <3>1, Endpoints DEF StreamTypeOK
    <2>8. /\ UNCHANGED message_state \/ GoTo("PUSH_HEADER")
          /\ message_state[Stream] = "PARSE_HEADER"
          /\ UNCHANGED <<body, forwarding, current>>
      BY <1>3 DEF ParseHeader, Processing
    <2>9. message_state' \in [Streams -> MessageStates]
      BY <2>8 DEF StreamTypeOK, GoTo, MessageStates
    <2>10. StreamTypeOK'
      BY <2>5, <2>7, <2>8, <2>9 DEF StreamTypeOK
    <2>11. HoldsElement'
      BY <2>8, Endpoints DEF HoldsElement, GoTo, StreamTypeOK
    <2>12. current[Stream] \in Elements
      BY <2>8, Endpoints DEF HoldsElement
    <2>13. ElemTypeOK'
      <3>1. Head(buf[Src]).m \in Nat
        BY <2>1 DEF Units
      <3>2. \/ UNCHANGED <<logrecord, access_log>>
            \/ LogRequest(Head(buf[Src]))
        BY <1>3 DEF ParseHeader, elemVars
      <3>3. /\ logrecord' \in [Elements -> Nat] /\ access_log' \in Seq(Nat \X Nat)
        <4>1. CASE UNCHANGED <<logrecord, access_log>>
          BY <4>1 DEF ElemTypeOK
        <4>2. CASE LogRequest(Head(buf[Src])) /\ Stream = "request"
          BY <3>1, <4>2 DEF ElemTypeOK, LogRequest
        <4>3. CASE LogRequest(Head(buf[Src])) /\ Stream # "request"
          <5>1. Stream = "response"
            BY <4>3, Endpoints DEF Streams
          <5>2. <<logrecord[current["response"]], Head(buf[Src]).m>> \in Nat \X Nat
            BY <2>12, <3>1, <5>1 DEF ElemTypeOK
          <5>3. /\ access_log' = Append(access_log, <<logrecord[current["response"]],
                                                        Head(buf[Src]).m>>)
                /\ UNCHANGED logrecord
            BY <4>3 DEF LogRequest
          <5>4. access_log \in Seq(Nat \X Nat) /\ logrecord \in [Elements -> Nat]
            BY DEF ElemTypeOK
          <5>5. access_log' \in Seq(Nat \X Nat)
            BY <5>2, <5>3, <5>4
          <5> QED BY <5>3, <5>4, <5>5
        <4> QED BY <3>2, <4>1, <4>2, <4>3
      <3>4. \/ UNCHANGED <<process_type, request_complete>>
            \/ /\ process_type' = [process_type EXCEPT ![current["request"]] = "DENY"]
               /\ request_complete' = [request_complete EXCEPT ![current["request"]] = TRUE]
        BY <1>3 DEF ParseHeader, elemVars
      <3> QED BY <3>3, <3>4 DEF ElemTypeOK
    <2> QED BY <1>1, <2>3, <2>10, <2>11, <2>13, Frame DEF ParseHeader
  <1> QED BY <1>2, <1>3

(* A stream handler that starts over. *)
LEMMA CompleteTypes ==
    ASSUME StreamTypeOK, HoldsElement, CompleteMessage
    PROVE  StreamTypeOK' /\ HoldsElement'
  <1>1. DefaultEncoding(Stream) \in Encodings /\ NoBody \in Encodings
    BY DEF DefaultEncoding, NoBody, Encodings, BodyKinds
  <1>2. /\ message_state' \in [Streams -> MessageStates]
        /\ header' \in [Streams -> Seq(Units)]
        /\ forwarding' \in [Streams -> BOOLEAN]
        /\ current' \in [Streams -> Elements \cup {0}]
    BY Endpoints DEF CompleteMessage, GoTo, StreamTypeOK, MessageStates
  <1>3. encoding' \in [Streams -> Encodings] /\ body' \in [Streams -> Encodings]
    BY <1>1, Endpoints DEF CompleteMessage, StreamTypeOK
  <1>4. HoldsElement'
    BY Endpoints DEF CompleteMessage, GoTo, StreamTypeOK, HoldsElement
  <1> QED BY <1>2, <1>3, <1>4 DEF StreamTypeOK

(* PUSH_HEADER. *)
LEMMA PushHeaderTypes ==
    ASSUME TypeInv, PushHeader
    PROVE  TypeInv'
  <1> USE DEF TypeInv, TypeOK
  <1>1. PICK k \in 0 .. Len(header[Stream]), r \in Statuses :
          /\ Write(Dest, header[Stream], k, r)
          /\ header' = [header EXCEPT ![Stream] = After(@, k)]
          /\ UNCHANGED message_state \/ GoTo("PARSE_BODY")
          /\ \/ UNCHANGED request_complete
             \/ request_complete' = [request_complete EXCEPT ![current[Stream]] = TRUE]
          /\ UNCHANGED body \/ body' = [body EXCEPT ![Stream] = encoding[Stream]]
          /\ Continues \/ Returns("SRC_CLOSED") \/ Returns(r)
    BY DEF PushHeader
  <1>2. /\ UNCHANGED <<strm, failed, ready_to_read, encoding, forwarding, current, process_type,
                       logrecord, access_log, inq, fin, rst, peerVars>>
        /\ message_state[Stream] = "PUSH_HEADER"
    BY DEF PushHeader, Processing
  <1>3. HandlerTypeOK'
    BY <1>1, <1>2 DEF HandlerTypeOK, Continues, Returns, Places, Statuses
  <1>4. header[Stream] \in Seq(Units)
    BY Endpoints DEF StreamTypeOK
  <1>5. ConnTypeOK'
    BY <1>1, <1>2, <1>4, WriteTypes, Endpoints DEF ConnTypeOK
  <1>6. PeerTypeOK'
    BY <1>1, <1>2, <1>4, WriteTypes, Endpoints DEF PeerTypeOK, peerVars
  <1>7. header' \in [Streams -> Seq(Units)]
    BY <1>1, <1>4, Pieces, Endpoints DEF StreamTypeOK
  <1>8. message_state' \in [Streams -> MessageStates] /\ body' \in [Streams -> Encodings]
    BY <1>1, Endpoints DEF StreamTypeOK, GoTo, MessageStates
  <1>9. StreamTypeOK'
    BY <1>2, <1>7, <1>8 DEF StreamTypeOK
  <1>10. HoldsElement'
    BY <1>1, <1>2, Endpoints DEF HoldsElement, GoTo, StreamTypeOK
  <1>11. ElemTypeOK'
    BY <1>1, <1>2 DEF ElemTypeOK
  <1> QED BY <1>3, <1>5, <1>6, <1>9, <1>10, <1>11, Frame DEF PushHeader

(* PARSE_BODY. *)
LEMMA ParseBodyTypes ==
    ASSUME TypeInv, EndMessage \/ ParseBody
    PROVE  TypeInv'
  <1> USE DEF TypeInv, TypeOK
  <1>1. HandlerTypeOK'
    BY DEF EndMessage, ParseBody, CompleteMessage, Continues, Returns, HandlerTypeOK, Places,
           Statuses
  <1>2. CASE EndMessage
    BY <1>1, <1>2, CompleteTypes, Frame DEF EndMessage
  <1>3. CASE ParseBody
    <2>1. PICK k \in 0 .. Len(buf[Src]) :
            /\ Claimable(buf[Src], body[Stream].n, k)
            /\ \/ UNCHANGED <<bufVars, body, forwarding>>
               \/ /\ out' = [out EXCEPT ![Src] = SubSeq(buf[Src], 1, k)]
                  /\ buf' = [buf EXCEPT ![Src] = After(@, k)]
                  /\ body' = [body EXCEPT ![Stream] = [k |-> "length", n |-> @.n - k]]
                  /\ stale_end' = [stale_end EXCEPT ![Src] = k < Len(buf[Src])]
                  /\ forwarding' = [forwarding EXCEPT ![Stream] = TRUE]
      BY <1>3 DEF ParseBody
    <2>2. buf[Src] \in Seq(Units) /\ body[Stream].n \in Nat
      BY Endpoints DEF BufTypeOK, StreamTypeOK, Encodings
    <2>3. [k |-> "length", n |-> body[Stream].n - k] \in Encodings
      BY <2>1, <2>2 DEF Claimable, Encodings, BodyKinds
    <2>4. BufTypeOK'
      <3>1. CASE UNCHANGED bufVars
        BY <3>1, Frame
      <3>2. CASE ~UNCHANGED bufVars
        <4>1. (k < Len(buf[Src])) \in BOOLEAN
          OBVIOUS
        <4>2. /\ out' = [out EXCEPT ![Src] = SubSeq(buf[Src], 1, k)]
              /\ buf' = [buf EXCEPT ![Src] = After(buf[Src], k)]
              /\ stale_end' = [stale_end EXCEPT ![Src] = k < Len(buf[Src])]
          BY <2>1, <3>2
        <4>3. stale_end' \in [Sides -> BOOLEAN]
          BY <4>1, <4>2, Endpoints, Zenon DEF BufTypeOK
        <4>4. SubSeq(buf[Src], 1, k) \in Seq(Units) /\ After(buf[Src], k) \in Seq(Units)
          BY <2>2, Pieces
        <4>5. out' \in [Sides -> Seq(Units)] /\ buf' \in [Sides -> Seq(Units)]
          BY <4>2, <4>4, Endpoints DEF BufTypeOK
        <4> QED BY <4>3, <4>5 DEF BufTypeOK
      <3> QED BY <3>1, <3>2
    <2>5. /\ body' \in [Streams -> Encodings] /\ forwarding' \in [Streams -> BOOLEAN]
      BY <2>1, <2>3, Endpoints DEF StreamTypeOK
    <2>6. StreamTypeOK' /\ HoldsElement'
      BY <1>3, <2>5 DEF ParseBody, StreamTypeOK, HoldsElement
    <2> QED BY <1>1, <1>3, <2>4, <2>6, Frame DEF ParseBody
  <1> QED BY <1>2, <1>3

(* Forwarding a body of known length. *)
LEMMA ForwardBodyTypes ==
    ASSUME TypeInv, ForwardBody
    PROVE  TypeInv'
  <1> USE DEF TypeInv, TypeOK
  <1>1. PICK k \in 0 .. Len(out[Src]), r \in Statuses :
          /\ Write(Dest, out[Src], k, r)
          /\ out' = [out EXCEPT ![Src] = After(@, k)]
          /\ \/ CompleteMessage
             \/ /\ Returns(r) \/ Returns("DENY")
                /\ \/ UNCHANGED forwarding
                   \/ forwarding' = [forwarding EXCEPT ![Stream] = FALSE]
                /\ UNCHANGED <<message_state, current, header, encoding, body>>
    BY DEF ForwardBody
  <1>2. UNCHANGED <<strm, failed, ready_to_read, buf, stale_end, inq, fin, rst, peerVars>>
    BY DEF ForwardBody
  <1>3. HandlerTypeOK'
    <2>1. CASE CompleteMessage \/ Returns(r)
      BY <1>2, <2>1 DEF HandlerTypeOK, CompleteMessage, Continues, Returns, Places
    <2>2. CASE Returns("DENY")
      BY <1>2, <2>2 DEF HandlerTypeOK, Returns, Places, Statuses
    <2> QED BY <1>1, <2>1, <2>2
  <1>4. out[Src] \in Seq(Units)
    BY Endpoints DEF BufTypeOK
  <1>5. ConnTypeOK'
    BY <1>1, <1>2, <1>4, WriteTypes, Endpoints DEF ConnTypeOK
  <1>6. PeerTypeOK'
    BY <1>1, <1>2, <1>4, WriteTypes, Endpoints DEF PeerTypeOK, peerVars
  <1>7. BufTypeOK'
    BY <1>1, <1>2, <1>4, Pieces, Endpoints DEF BufTypeOK
  <1>8. StreamTypeOK' /\ HoldsElement'
    <2>1. CASE CompleteMessage
      BY <2>1, CompleteTypes
    <2>2. CASE /\ \/ UNCHANGED forwarding
                  \/ forwarding' = [forwarding EXCEPT ![Stream] = FALSE]
               /\ UNCHANGED <<message_state, current, header, encoding, body>>
      BY <2>2 DEF StreamTypeOK, HoldsElement
    <2> QED BY <1>1, <2>1, <2>2
  <1> QED BY <1>3, <1>5, <1>6, <1>7, <1>8, Frame DEF ForwardBody

(* Forwarding up to the end of the connection. *)
LEMMA ForwardToCloseTypes ==
    ASSUME TypeInv, ForwardToClose
    PROVE  TypeInv'
  <1> USE DEF TypeInv, TypeOK
  <1>1. UNCHANGED <<strm, ready_to_read, out, stale_end, inq, fin, rst, peerVars>>
    BY DEF ForwardToClose
  <1>2. CASE ReadyToWrite(Dest) /\ stale_end[Src]
    <2>1. /\ failed' = "negative write" /\ pc' = "aborted"
          /\ UNCHANGED <<state, ready_to_write, got, room, buf, status>>
      BY <1>2 DEF ForwardToClose
    <2>2. HandlerTypeOK'
      BY <1>1, <2>1 DEF HandlerTypeOK, Places
    <2>3. UNCHANGED <<connVars, bufVars, netVars>>
      BY <1>1, <2>1 DEF connVars, bufVars, netVars
    <2> QED BY <2>2, <2>3, Frame DEF ForwardToClose
  <1>3. CASE ~(ReadyToWrite(Dest) /\ stale_end[Src])
    <2>1. PICK k \in 0 .. Len(buf[Src]), r \in Statuses :
            /\ Write(Dest, buf[Src], k, r)
            /\ buf' = [buf EXCEPT ![Src] = After(@, k)]
            /\ Returns(r) /\ UNCHANGED failed
      BY <1>3 DEF ForwardToClose
    <2>2. HandlerTypeOK'
      BY <1>1, <2>1 DEF HandlerTypeOK, Returns, Places
    <2>3. buf[Src] \in Seq(Units)
      BY Endpoints DEF BufTypeOK
    <2>4. ConnTypeOK'
      BY <1>1, <2>1, <2>3, WriteTypes, Endpoints DEF ConnTypeOK
    <2>5. PeerTypeOK'
      BY <1>1, <2>1, <2>3, WriteTypes, Endpoints DEF PeerTypeOK, peerVars
    <2>6. BufTypeOK'
      BY <1>1, <2>1, <2>3, Pieces, Endpoints DEF BufTypeOK
    <2> QED BY <2>2, <2>4, <2>5, <2>6, Frame DEF ForwardToClose
  <1> QED BY <1>2, <1>3

(* The just-in-time connect, and the returns of handle_stream(). *)
LEMMA ReturnTypes ==
    ASSUME TypeInv, NoConnect \/ InitiateServerConnect \/ AfterProcess \/ StreamReturned
                      \/ RegisterEvents
    PROVE  TypeInv'
  <1> USE DEF TypeInv, TypeOK
  <1>1. HandlerTypeOK'
    BY DEF NoConnect, InitiateServerConnect, FaultOccurs, AfterProcess, StreamReturned, Shutdown,
           RegisterEvents, HandlerTypeOK, Places, Passes, Statuses
  <1>2. CASE NoConnect
    BY <1>1, <1>2, Frame DEF NoConnect
  <1>3. CASE InitiateServerConnect
    <2>1. ConnTypeOK'
      BY <1>3 DEF InitiateServerConnect, NewServerSocket, FaultOccurs, ConnTypeOK, SetState, States
    <2>2. pending' \in [Sides -> SUBSET {"READ", "WRITE"}]
      BY <1>3 DEF InitiateServerConnect, NewServerSocket, FdTypeOK
    <2>3. FdTypeOK'
      BY <1>3, <2>2 DEF InitiateServerConnect, NewServerSocket, FaultOccurs, FdTypeOK
    <2> QED BY <1>1, <1>3, <2>1, <2>3, Frame DEF InitiateServerConnect
  <1>4. CASE AfterProcess
    <2>1. ConnTypeOK'
      BY <1>4 DEF AfterProcess, ConnTypeOK, SetState, States
    <2> QED BY <1>1, <1>4, <2>1, Frame DEF AfterProcess
  <1>5. CASE StreamReturned
    <2>1. FdTypeOK'
      BY <1>5 DEF StreamReturned, Shutdown, FdTypeOK
    <2>2. PeerTypeOK'
      BY <1>5 DEF StreamReturned, Shutdown, PeerTypeOK, peerVars
    <2> QED BY <1>1, <1>5, <2>1, <2>2, Frame DEF StreamReturned
  <1>6. CASE RegisterEvents
    <2>1. pending' \in [Sides -> SUBSET {"READ", "WRITE"}]
      BY <1>6 DEF RegisterEvents, Interest, FdTypeOK
    <2>2. FdTypeOK'
      BY <1>6, <2>1 DEF RegisterEvents, FdTypeOK, fdVars
    <2> QED BY <1>1, <1>6, <2>2, Frame DEF RegisterEvents
  <1> QED BY <1>2, <1>3, <1>4, <1>5, <1>6

(* The start of handle_event(). *)
LEMMA DispatchTypes ==
    ASSUME TypeInv, NEW c \in Sides, NEW revents \in SUBSET {"READ", "WRITE"},
           HandleEvent(c, revents)
    PROVE  TypeInv'
  <1> USE DEF TypeInv, TypeOK
  <1>1. HandlerTypeOK'
    BY DEF HandleEvent, Shutdown, HandlerTypeOK, Places, Passes
  <1>2. ConnTypeOK'
    <2>1. state' \in [Sides -> States]
      BY DEF HandleEvent, ConnTypeOK, SetState, States
    <2>2. /\ (ready_to_write[c] \/ "WRITE" \in revents) \in BOOLEAN
          /\ (ready_to_read[c] \/ "READ" \in revents) \in BOOLEAN
      OBVIOUS
    <2>3. ready_to_write' \in [Sides -> BOOLEAN] /\ ready_to_read' \in [Sides -> BOOLEAN]
      BY <2>2, Zenon DEF HandleEvent, ConnTypeOK
    <2> QED BY <2>1, <2>3 DEF ConnTypeOK
  <1>3. FdTypeOK'
    BY DEF HandleEvent, Shutdown, FdTypeOK
  <1> QED BY <1>1, <1>2, <1>3, Frame DEF HandleEvent

(* reset() and add_client(). *)
LEMMA AcceptTypes ==
    ASSUME TypeInv, Accept
    PROVE  TypeInv'
  <1> USE DEF TypeInv, TypeOK
  <1>1. HandlerTypeOK'
    BY DEF Accept, HandlerTypeOK, Places
  <1>2. ConnTypeOK'
    BY DEF Accept, ResetConnections, ConnTypeOK, ClientConnected, Neither, States
  <1>3. FdTypeOK'
    BY DEF Accept, FdTypeOK, ClientOpen, ClientPolled
  <1>4. BufTypeOK'
    BY DEF Accept, ResetConnections, ResetBuffers, BufTypeOK, NoUnits, Neither
  <1>5. StreamTypeOK' /\ HoldsElement'
    BY DEF Accept, ResetStreams, StreamTypeOK, HoldsElement, MessageStates, DefaultEncoding,
           NoBody, Encodings, BodyKinds
  <1>6. QueueTypeOK'
    BY QueueTypes DEF Accept
  <1>7. PeerTypeOK'
    BY ParameterAssumption DEF Accept, PeerTypeOK, NoUnits, Neither
  <1> QED BY <1>1, <1>2, <1>3, <1>4, <1>5, <1>6, <1>7, Frame DEF Accept

(* Every step keeps the types, one group of actions at a time. *)
LEMMA TypeStep == TypeInv /\ [Next]_vars => TypeInv'
  <1> SUFFICES ASSUME TypeInv, [Next]_vars PROVE TypeInv'
    OBVIOUS
  <1>1. CASE SkipRead \/ ReadData \/ ReadNothing
    BY <1>1, ReadTypes
  <1>2. CASE StartRequest \/ StartResponse
    BY <1>2, StartTypes
  <1>3. CASE ParseHeader
    BY <1>3, ParseHeaderTypes
  <1>4. CASE PushHeader
    BY <1>4, PushHeaderTypes
  <1>5. CASE EndMessage \/ ParseBody
    BY <1>5, ParseBodyTypes
  <1>6. CASE ForwardBody
    BY <1>6, ForwardBodyTypes
  <1>7. CASE ForwardToClose
    BY <1>7, ForwardToCloseTypes
  <1>8. CASE NoConnect \/ InitiateServerConnect \/ AfterProcess \/ StreamReturned
               \/ RegisterEvents
    BY <1>8, ReturnTypes
  <1>9. CASE \E c \in Sides : Dispatch(c)
    BY <1>9, DispatchTypes DEF Dispatch
  <1>10. CASE Accept
    BY <1>10, AcceptTypes
  <1>11. CASE (\E c \in Sides : Peer(c)) \/ ConnectResult \/ UNCHANGED vars
    BY <1>11, PeerTypes
  <1> QED
    BY <1>1, <1>2, <1>3, <1>4, <1>5, <1>6, <1>7, <1>8, <1>9, <1>10, <1>11 DEF Next, Step

(***************************************************************************)
(* The variables keep their types in every behaviour.  In particular a     *)
(* body parser never counts below zero.                                    *)
(***************************************************************************)
THEOREM TypeCorrect == Spec => []TypeOK
  <1>1. TypeInv => TypeOK
    BY DEF TypeInv
  <1> QED BY <1>1, TypeInit, TypeStep, PTL DEF Spec

(***************************************************************************)
(* process_data() never follows a null current_pipeline_data_.             *)
(***************************************************************************)
THEOREM NeverNull == Spec => []HoldsElement
  <1>1. TypeInv => HoldsElement
    BY DEF TypeInv
  <1> QED BY <1>1, TypeInit, TypeStep, PTL DEF Spec

(* Each step is one of the queue's operations, or leaves the queue alone. *)
LEMMA QueueSteps == [Next]_vars => [QueueNext]_qvars
  <1> SUFFICES ASSUME [Next]_vars PROVE [QueueNext]_qvars
    OBVIOUS
  <1>1. CASE StartRequest
    BY <1>1 DEF StartRequest, QueueNext
  <1>2. CASE StartResponse
    BY <1>2 DEF StartResponse, QueueNext
  <1>3. CASE Accept
    BY <1>3 DEF Accept, QueueNext
  <1>4. CASE \/ SkipRead \/ ReadData \/ ReadNothing \/ ParseHeader \/ PushHeader
             \/ EndMessage \/ ParseBody \/ ForwardBody \/ ForwardToClose
    BY <1>4 DEF SkipRead, ReadData, ReadNothing, ParseHeader, PushHeader, EndMessage,
                ParseBody, ForwardBody, ForwardToClose
  <1>5. CASE \/ NoConnect \/ InitiateServerConnect \/ AfterProcess \/ StreamReturned
             \/ RegisterEvents \/ ConnectResult \/ UNCHANGED vars
    BY <1>5 DEF NoConnect, InitiateServerConnect, AfterProcess, StreamReturned,
                RegisterEvents, ConnectResult, vars
  <1>6. CASE \E c \in Sides : Dispatch(c) \/ Peer(c)
    BY <1>6 DEF Dispatch, HandleEvent, Peer, PeerSend, PeerClose, PeerReset, PeerDrain
  <1> QED BY <1>1, <1>2, <1>3, <1>4, <1>5, <1>6 DEF Next, Step

(***************************************************************************)
(* The two stream handlers and the recycling of proxy_handler together use *)
(* the pipeline only as pipeline_data_queue allows: each step is one of    *)
(* its operations, with the operation's precondition, or leaves it alone.  *)
(***************************************************************************)
THEOREM UsesQueue == Spec => QueueSpec
  <1>1. Init => QueueInit
    BY Zenon DEF Init
  <1> QED BY <1>1, QueueSteps, PTL DEF Spec, QueueSpec

(***************************************************************************)
(* So every pipeline element stays in exactly one place of exactly one of  *)
(* the queue's two lists, over any number of clients: none is lost, and    *)
(* none is queued for two requests.  (The response stream goes on using an *)
(* element after it returned it to the free list; that is not excluded.)   *)
(***************************************************************************)
THEOREM PipelineConserved == Spec => []Conserved
  BY UsesQueue, QueueConserves, PTL

-----------------------------------------------------------------------------
(***************************************************************************)
(* The deadlock argument needs the types of the control state and of the   *)
(* two connections, and nothing about data.                                *)
(***************************************************************************)
WaitInv == HandlerTypeOK /\ ConnTypeOK /\ SomethingToWaitFor

USE DEF HandlerTypeOK, ConnTypeOK, SomethingToWaitFor, DeadlockCheckHolds, ResponseBlocked,
        ClientWritable, Places, Passes, Statuses, States, Sides

(* The steps of the peers and of the kernel leave the program's state alone. *)
LEMMA PeerStep ==
    ASSUME WaitInv, (\E c \in Sides : Peer(c)) \/ ConnectResult \/ UNCHANGED vars
    PROVE  WaitInv'
  <1>1. UNCHANGED <<phVars, connVars>>
    <2>1. CASE \E c \in Sides : Peer(c)
      BY <2>1 DEF Peer, PeerSend, PeerClose, PeerReset, PeerDrain
    <2>2. CASE ConnectResult
      BY <2>2 DEF ConnectResult
    <2>3. CASE UNCHANGED vars
      BY <2>3 DEF vars
    <2> QED BY <2>1, <2>2, <2>3
  <1>2. HandlerTypeOK' /\ ConnTypeOK'
    BY <1>1 DEF WaitInv, phVars, connVars
  <1>3. SomethingToWaitFor'
    BY <1>1 DEF WaitInv, phVars, connVars
  <1> QED BY <1>2, <1>3 DEF WaitInv

(* non_blocking_write() as the two streams use it. *)
LEMMA WriteToClient ==
    ASSUME HandlerTypeOK, ConnTypeOK, ClientWritable,
           NEW us, NEW k, NEW r, Write("client", us, k, r)
    PROVE  /\ state' \in [Sides -> States] /\ ready_to_write' \in [Sides -> BOOLEAN]
           /\ r \in {"COMPLETE", "INCOMPLETE", "DEST_CLOSED"}
           /\ r # "DEST_CLOSED" => ClientWritable'
           /\ r = "INCOMPLETE" => ~ready_to_write'["client"]
           /\ state'["server"] = state["server"]
  BY DEF Write, ReadyToWrite, OpenForWrite, SetState

LEMMA WriteToServer ==
    ASSUME HandlerTypeOK, ConnTypeOK, ClientWritable, ResponseBlocked, UNCHANGED ready_to_read,
           NEW us, NEW k, NEW r, Write("server", us, k, r)
    PROVE  /\ state' \in [Sides -> States] /\ ready_to_write' \in [Sides -> BOOLEAN]
           /\ r \in {"COMPLETE", "INCOMPLETE", "DEST_CLOSED"}
           /\ ClientWritable' /\ ResponseBlocked'
  BY DEF Write, ReadyToWrite, OpenForWrite, SetState

(***************************************************************************)
(* Every step keeps the invariant, one action at a time.                   *)
(***************************************************************************)
LEMMA WaitInvStep == WaitInv /\ [Next]_vars => WaitInv'
  <1> SUFFICES ASSUME WaitInv, [Next]_vars PROVE WaitInv'
    OBVIOUS
  <1> USE DEF WaitInv, connVars
  <1>1. CASE SkipRead
    BY <1>1 DEF SkipRead
  <1>2. CASE ReadData
    BY <1>2 DEF ReadData
  <1>3. CASE ReadNothing
    BY <1>3 DEF ReadNothing, Src, SetState, MayRead, ReadyToRead, OpenForRead
  <1>4. CASE StartRequest
    BY <1>4 DEF StartRequest, Processing, Stream, Returns, Continues
  <1>5. CASE StartResponse
    BY <1>5 DEF StartResponse, Processing, Stream, Returns, Continues
  <1>6. CASE ParseHeader
    BY <1>6 DEF ParseHeader, Processing, Returns, Continues
  <1>7. CASE PushHeader
    <2>1. PICK k \in 0 .. Len(header[Stream]), r \in Statuses : 
            /\ Write(Dest, header[Stream], k, r)
            /\ \/ r = "COMPLETE" /\ (Returns("SRC_CLOSED") \/ Continues)
               \/ r # "COMPLETE" /\ Returns(r)
      BY <1>7 DEF PushHeader
    <2>2. UNCHANGED <<strm, failed, ready_to_read>> /\ pc = "process"
      BY <1>7 DEF PushHeader, Processing
    <2>3. CASE strm = "request"
      BY <2>1, <2>2, <2>3, WriteToServer DEF Dest, Returns, Continues
    <2>4. CASE strm # "request"
      BY <2>1, <2>2, <2>4, WriteToClient DEF Dest, Returns, Continues
    <2> QED BY <2>3, <2>4
  <1>8. CASE EndMessage
    BY <1>8 DEF EndMessage, CompleteMessage, Continues, Processing
  <1>9. CASE ParseBody
    BY <1>9 DEF ParseBody, Processing, Returns, Continues
  <1>10. CASE ForwardBody
    <2>1. PICK k \in 0 .. Len(out[Src]), r \in Statuses : 
            /\ Write(Dest, out[Src], k, r)
            /\ Continues \/ Returns(r) \/ Returns("DENY")
            /\ r # "COMPLETE" => Returns(r)
      BY <1>10 DEF ForwardBody, CompleteMessage
    <2>2. UNCHANGED <<strm, failed, ready_to_read>> /\ pc = "process"
      BY <1>10 DEF ForwardBody, Processing
    <2>3. CASE strm = "request"
      BY <2>1, <2>2, <2>3, WriteToServer DEF Dest, Returns, Continues
    <2>4. CASE strm # "request"
      BY <2>1, <2>2, <2>4, WriteToClient DEF Dest, Returns, Continues
    <2> QED BY <2>3, <2>4
  <1>11. CASE ForwardToClose
    <2>1. CASE ReadyToWrite(Dest) /\ stale_end[Src]
      BY <1>11, <2>1 DEF ForwardToClose
    <2>2. CASE ~(ReadyToWrite(Dest) /\ stale_end[Src])
      <3>1. PICK k \in 0 .. Len(buf[Src]), r \in Statuses :
              Write(Dest, buf[Src], k, r) /\ Returns(r)
        BY <1>11, <2>2 DEF ForwardToClose
      <3>2. UNCHANGED <<strm, failed, ready_to_read>> /\ pc = "process"
        BY <1>11, <2>2 DEF ForwardToClose, Processing
      <3>3. CASE strm = "request"
        BY <3>1, <3>2, <3>3, WriteToServer DEF Dest, Returns
      <3>4. CASE strm # "request"
        BY <3>1, <3>2, <3>4, WriteToClient DEF Dest, Returns
      <3> QED BY <3>3, <3>4
    <2> QED BY <2>1, <2>2
  <1>12. CASE NoConnect
    BY <1>12 DEF NoConnect
  <1>13. CASE InitiateServerConnect
    BY <1>13 DEF InitiateServerConnect, NewServerSocket, FaultOccurs, NeedsServer, SetState
  <1>14. CASE AfterProcess
    BY <1>14 DEF AfterProcess, ReadyToRead, OpenForRead, Src, SetState
  <1>15. CASE StreamReturned
    BY <1>15 DEF StreamReturned, Shutdown
  <1>16. CASE RegisterEvents
    BY <1>16 DEF RegisterEvents, WillDeadlock, Interest, ReadyToRead, ReadyToWrite,
                 OpenForRead, OpenForWrite
  <1>17. CASE \E c \in Sides : Dispatch(c)
    <2>1. PICK c \in Sides, revents \in SUBSET {"READ", "WRITE"} : HandleEvent(c, revents)
      BY <1>17 DEF Dispatch
    <2>2. /\ ready_to_write' = [ready_to_write EXCEPT ![c] = @ \/ "WRITE" \in revents]
          /\ ready_to_read' = [ready_to_read EXCEPT ![c] = @ \/ "READ" \in revents]
      BY <2>1 DEF HandleEvent
    <2>3. /\ (ready_to_write[c] \/ "WRITE" \in revents) \in BOOLEAN
          /\ (ready_to_read[c] \/ "READ" \in revents) \in BOOLEAN
      OBVIOUS
    <2>4. ready_to_write' \in [Sides -> BOOLEAN] /\ ready_to_read' \in [Sides -> BOOLEAN]
      BY <2>2, <2>3, Zenon
    <2>5. /\ pc = "idle" /\ pc' \in {"read", "dead"} /\ strm' = "response"
          /\ UNCHANGED <<status, failed>>
      BY <2>1 DEF HandleEvent, Shutdown
    <2>6. state' \in [Sides -> States] /\ ClientWritable'
      BY <2>1 DEF HandleEvent, SetState
    <2> QED BY <2>4, <2>5, <2>6
  <1>18. CASE Accept
    BY <1>18 DEF Accept, ResetConnections, ClientConnected, Neither
  <1>19. CASE (\E c \in Sides : Peer(c)) \/ ConnectResult \/ UNCHANGED vars
    BY <1>19, PeerStep
  <1> QED
    BY <1>1, <1>2, <1>3, <1>4, <1>5, <1>6, <1>7, <1>8, <1>9, <1>10, <1>11, <1>12,
       <1>13, <1>14, <1>15, <1>16, <1>17, <1>18, <1>19 DEF Next, Step

(***************************************************************************)
(* handle_event() never reaches its "connection will deadlock" abort, for  *)
(* every pipeline depth, buffer length, pair of scripts and behaviour of   *)
(* the peers.                                                              *)
(***************************************************************************)
THEOREM DeadlockCheckNeverFires == Spec => []DeadlockCheckHolds
  <1>1. ASSUME Init PROVE WaitInv
    <2>1. /\ pc = "idle" /\ strm = "response" /\ status = "COMPLETE" /\ failed = ""
          /\ state = ClientConnected /\ ready_to_read = Neither /\ ready_to_write = Neither
      BY <1>1, Zenon DEF Init
    <2> QED BY <2>1 DEF WaitInv, ClientConnected, Neither
  <1>2. WaitInv => DeadlockCheckHolds
    BY DEF WaitInv
  <1> QED BY <1>1, <1>2, WaitInvStep, PTL DEF Spec

-----------------------------------------------------------------------------
(***************************************************************************)
(* Descriptors.  A server connection that was never made has none, one     *)
(* that was has it until shutdown(); only between the end of a denied      *)
(* request and the shutdown() that follows it is a server connection shut  *)
(* for reading that was never open.                                        *)
(***************************************************************************)
Denied == pc = "return" /\ strm # "request" /\ status = "COMPLETE"

Owned ==
    /\ fd \in [Sides -> {"none", "open", "closed"}] /\ pending \in [Sides -> SUBSET {"READ", "WRITE"}]
    /\ lost_fds = 0
    /\ pc = "dead" => \A c \in Sides : fd[c] # "open" /\ pending[c] = {}
    /\ pc # "dead" => fd["client"] = "open"
    /\ pc # "dead" /\ state["server"] = "NOT_CONNECTED" => fd["server"] = "none"
    /\ pc # "dead" /\ state["server"] # "NOT_CONNECTED" => fd["server"] = "open" \/ Denied
    /\ \A c \in Sides : pending[c] # {} => fd[c] = "open"

(* What reads, parses and writes leaves the descriptors alone. *)
LEMMA StreamOwned ==
    ASSUME WaitInv, Owned, UNCHANGED <<fd, lost_fds, pending>>,
           pc \notin {"return", "dead"}, pc' # "dead",
           (state'["server"] = "NOT_CONNECTED") = (state["server"] = "NOT_CONNECTED")
    PROVE  Owned'
  BY DEF Owned, Denied

LEMMA WriteConnected ==
    ASSUME WaitInv, NEW d \in Sides, NEW us, NEW k, NEW r, Write(d, us, k, r)
    PROVE  (state'["server"] = "NOT_CONNECTED") = (state["server"] = "NOT_CONNECTED")
  BY DEF WaitInv, Write, ReadyToWrite, OpenForWrite, SetState

LEMMA NothingLost == 0 + 0 = 0
  OBVIOUS

LEMMA OwnedStep ==
    ASSUME WaitInv, Owned, [Next]_vars, "connectfault" \notin Env
    PROVE  Owned'
  <1> USE DEF WaitInv, connVars, fdVars
  <1>1. CASE SkipRead \/ ReadData
    BY <1>1, StreamOwned DEF SkipRead, ReadData
  <1>2. CASE ReadNothing
    BY <1>2, StreamOwned DEF ReadNothing, MayRead, SetState, Src
  <1>3. CASE StartRequest \/ StartResponse
    BY <1>3, StreamOwned DEF StartRequest, StartResponse, Processing, Returns, Continues
  <1>4. CASE ParseHeader
    BY <1>4, StreamOwned DEF ParseHeader, Processing, Returns, Continues
  <1>5. CASE PushHeader
    <2>1. PICK k \in 0 .. Len(header[Stream]), r \in Statuses : Write(Dest, header[Stream], k, r)
      BY <1>5 DEF PushHeader
    <2>2. pc = "process" /\ pc' \in {"process", "jit"} /\ UNCHANGED <<fd, lost_fds, pending>>
      BY <1>5 DEF PushHeader, Processing, Returns, Continues
    <2> QED BY <2>1, <2>2, WriteConnected, StreamOwned DEF Dest
  <1>6. CASE EndMessage \/ ParseBody
    BY <1>6, StreamOwned DEF EndMessage, CompleteMessage, ParseBody, Processing, Returns, Continues
  <1>7. CASE ForwardBody
    <2>1. PICK k \in 0 .. Len(out[Src]), r \in Statuses : Write(Dest, out[Src], k, r)
      BY <1>7 DEF ForwardBody
    <2>2. pc = "process" /\ pc' \in {"process", "jit"} /\ UNCHANGED <<fd, lost_fds, pending>>
      BY <1>7 DEF ForwardBody, CompleteMessage, Processing, Returns, Continues
    <2> QED BY <2>1, <2>2, WriteConnected, StreamOwned DEF Dest
  <1>8. CASE ForwardToClose
    <2>1. pc = "process" /\ pc' \in {"aborted", "jit"} /\ UNCHANGED <<fd, lost_fds, pending>>
      BY <1>8 DEF ForwardToClose, Processing, Returns
    <2>2. UNCHANGED state \/ (\E k, r : Write(Dest, buf[Src], k, r))
      BY <1>8 DEF ForwardToClose
    <2> QED BY <2>1, <2>2, WriteConnected, StreamOwned DEF Dest
  <1>9. CASE NoConnect
    BY <1>9, StreamOwned DEF NoConnect
  <1>10. CASE InitiateServerConnect
    <2>1. /\ pc = "jit" /\ NeedsServer /\ NewServerSocket /\ pc' = "after"
          /\ lost_fds' = lost_fds + (IF fd["server"] = "open" THEN 1 ELSE 0)
          /\ state' = [state EXCEPT !["server"] = SetState(@, "CONNECTING")]
      BY <1>10 DEF InitiateServerConnect, FaultOccurs
    <2>2. fd["server"] = "none" /\ lost_fds = 0
      BY <2>1 DEF Owned, NeedsServer
    <2>2a. lost_fds' = 0 + 0
      BY <2>1, <2>2
    <2>2b. lost_fds' = 0
      BY <2>2a, NothingLost, Zenon
    <2>3. /\ fd' = [fd EXCEPT !["server"] = "open"]
          /\ pending' = [pending EXCEPT !["server"] = {"READ", "WRITE"}]
      BY <2>1 DEF NewServerSocket
    <2>4. fd' \in [Sides -> {"none", "open", "closed"}] /\ fd'["client"] = "open" /\ fd'["server"] = "open"
      BY <2>1, <2>3 DEF Owned
    <2>5. pending' \in [Sides -> SUBSET {"READ", "WRITE"}]
      BY <2>3 DEF Owned
    <2>6. state'["server"] # "NOT_CONNECTED"
      BY <2>1 DEF SetState
    <2> QED BY <2>1, <2>2b, <2>4, <2>5, <2>6 DEF Owned
  <1>11. CASE AfterProcess
    BY <1>11 DEF AfterProcess, Owned, Denied, Src, SetState
  <1>12. CASE StreamReturned
    <2>1. CASE Shutdown
      BY <1>12, <2>1 DEF StreamReturned, Shutdown, Owned
    <2>2. CASE ~Shutdown
      BY <1>12, <2>2 DEF StreamReturned, Owned, Denied
    <2> QED BY <2>1, <2>2
  <1>13. CASE RegisterEvents
    <2>1. pc = "register" /\ pc' \in {"idle", "aborted"} /\ UNCHANGED <<state, fd, lost_fds>>
      BY <1>13 DEF RegisterEvents
    <2>2. \A c \in Sides : Interest(c) \subseteq {"READ", "WRITE"} /\ (Interest(c) # {} => fd[c] = "open")
      BY <2>1 DEF Interest, OpenForRead, OpenForWrite, Owned, Denied
    <2>3. \/ UNCHANGED pending
          \/ pending' = [c \in Sides |-> IF Interest(c) # {} THEN Interest(c) ELSE pending[c]]
      BY <1>13 DEF RegisterEvents
    <2>4. \A c \in Sides : /\ pending[c] \subseteq {"READ", "WRITE"}
                           /\ pending[c] # {} => fd[c] = "open"
      BY DEF Owned
    <2>5. CASE UNCHANGED pending
      BY <2>1, <2>5 DEF Owned, Denied
    <2>6. CASE pending' = [c \in Sides |-> IF Interest(c) # {} THEN Interest(c) ELSE pending[c]]
      <3>1. \A c \in Sides : /\ pending'[c] \subseteq {"READ", "WRITE"}
                             /\ pending'[c] # {} => fd[c] = "open"
        BY <2>2, <2>4, <2>6
      <3>2. pending' \in [Sides -> SUBSET {"READ", "WRITE"}]
        BY <2>6, <3>1
      <3> QED BY <2>1, <3>1, <3>2 DEF Owned, Denied
    <2> QED BY <2>3, <2>5, <2>6
  <1>14. CASE \E c \in Sides : Dispatch(c)
    <2>1. PICK c \in Sides, revents \in SUBSET {"READ", "WRITE"} : HandleEvent(c, revents)
      BY <1>14 DEF Dispatch
    <2>2. pc = "idle" /\ UNCHANGED lost_fds
      BY <2>1 DEF HandleEvent
    <2>3. CASE Shutdown
      BY <2>2, <2>3 DEF Shutdown, Owned
    <2>4. CASE ~Shutdown
      <3>1. pc' = "read" /\ UNCHANGED fd /\ pending' = [pending EXCEPT ![c] = {}]
        BY <2>1, <2>4 DEF HandleEvent
      <3>2. (state'["server"] = "NOT_CONNECTED") = (state["server"] = "NOT_CONNECTED")
        BY <2>1, <2>4 DEF HandleEvent, SetState
      <3>3. \A d \in Sides : pending'[d] \subseteq pending[d]
        BY <3>1 DEF Owned
      <3>4. pending' \in [Sides -> SUBSET {"READ", "WRITE"}]
        BY <3>1 DEF Owned
      <3>5. \A d \in Sides : pending'[d] # {} => fd[d] = "open"
        BY <3>3 DEF Owned
      <3> QED BY <2>2, <3>1, <3>2, <3>4, <3>5 DEF Owned, Denied
    <2> QED BY <2>3, <2>4
  <1>15. CASE Accept
    BY <1>15 DEF Accept, Owned, ResetConnections, ClientConnected, ClientOpen, ClientPolled
  <1>16. CASE (\E c \in Sides : Peer(c)) \/ ConnectResult \/ UNCHANGED vars
    <2>1. UNCHANGED <<phVars, state, fd, lost_fds, pending>>
      BY <1>16 DEF Peer, PeerSend, PeerClose, PeerReset, PeerDrain, ConnectResult, vars
    <2> QED BY <2>1 DEF phVars, Owned, Denied
  <1> QED
    BY <1>1, <1>2, <1>3, <1>4, <1>5, <1>6, <1>7, <1>8, <1>9, <1>10, <1>11, <1>12,
       <1>13, <1>14, <1>15, <1>16 DEF Next, Step

(***************************************************************************)
(* As long as socket() and connect() do not fail at once, no descriptor is *)
(* lost: each open one belongs to a live handler, shutdown() closes both,  *)
(* and nothing is polled for that is not open, over any number of clients  *)
(* of a handler.  (Where connect() fails initiate_server_connect() does    *)
(* leave its socket behind.)                                               *)
(***************************************************************************)
THEOREM DescriptorsKept ==
    ASSUME "connectfault" \notin Env
    PROVE  Spec => []NoDescriptorLost
  <1>1. ASSUME Init PROVE WaitInv /\ Owned
    <2>1. /\ pc = "idle" /\ strm = "response" /\ status = "COMPLETE" /\ failed = ""
          /\ state = ClientConnected /\ ready_to_read = Neither /\ ready_to_write = Neither
          /\ fd = ClientOpen /\ lost_fds = 0 /\ pending = ClientPolled
      BY <1>1, Zenon DEF Init
    <2>2. WaitInv
      BY <2>1 DEF WaitInv, ClientConnected, Neither
    <2>3. Owned
      BY <2>1 DEF Owned, ClientConnected, ClientOpen, ClientPolled
    <2> QED BY <2>2, <2>3
  <1>2. WaitInv /\ Owned /\ [Next]_vars => (WaitInv /\ Owned)'
    BY WaitInvStep, OwnedStep
  <1>3. WaitInv /\ Owned => NoDescriptorLost
    BY DEF Owned, NoDescriptorLost
  <1> QED BY <1>1, <1>2, <1>3, PTL DEF Spec

HIDE DEF HandlerTypeOK, ConnTypeOK, SomethingToWaitFor, DeadlockCheckHolds, ResponseBlocked,
         ClientWritable, Places, Passes, Statuses, States, Sides

=================================================================================
