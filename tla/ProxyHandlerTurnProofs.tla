------------------------- MODULE ProxyHandlerTurnProofs -------------------------
(***************************************************************************)
(* Which response belongs to which request.  Nothing in the code carries a *)
(* number from a request to its response: the n-th message of the server   *)
(* is taken for the answer to the n-th message of the client because both  *)
(* stream handlers take one pipeline element for each message.             *)
(***************************************************************************)
EXTENDS ProxyHandlerFlowProofs, NaturalsInduction, WellFoundedInduction

(***************************************************************************)
(* Scripts that are sequences of messages, numbered from 1, the last one   *)
(* perhaps unfinished.  A message begins with its start line, or with      *)
(* input that is refused in place of one.                                  *)
(***************************************************************************)
Opens(t, i) ==
    \/ t[i].k = "start"
    \/ t[i].k = "bad" /\ (i = 1 \/ t[i - 1].k \notin {"start", "field"})

(* The number of messages the first p units begin. *)
Begun(t, p) == IF p = 0 THEN 0 ELSE t[p].m

Numbered(t) == \A i \in DOMAIN t : t[i].m = Begun(t, i - 1) + (IF Opens(t, i) THEN 1 ELSE 0)

(* What follows the first p units: a message; the rest of a header; the rest e
   of a body, and then a message. *)
MessageAt(t, p) == p + 1 \in DOMAIN t => Opens(t, p + 1)

HeaderAt(t, p) ==
    p + 1 \in DOMAIN t => t[p + 1].k \in {"field", "bad"} \cup BodyKinds /\ ~Opens(t, p + 1)

BodyAt(t, p, e) ==
    /\ e.k = "none" => MessageAt(t, p)
    /\ e.k = "length" =>
         /\ \A j \in p + 1 .. p + e.n : j \in DOMAIN t => t[j].k = "body" /\ t[j].m = t[p].m
         /\ MessageAt(t, p + e.n)
    /\ e.k = "close" => \A j \in p + 1 .. Len(t) : t[j].k = "body" /\ t[j].m = t[p].m

Messages(t) ==
    /\ Numbered(t) /\ MessageAt(t, 0)
    /\ \A i \in DOMAIN t :
         /\ t[i].k \in {"start", "field"} => HeaderAt(t, i)
         /\ t[i].k \in BodyKinds => BodyAt(t, i, t[i])

(* The numbers grow, and a message that begins has a new one. *)
LEMMA LaterNumbers ==
    ASSUME NEW t \in Seq(Units), Numbered(t), NEW i \in DOMAIN t, NEW j \in DOMAIN t, i < j
    PROVE  t[i].m <= t[j].m /\ (Opens(t, j) => t[i].m < t[j].m)
  <1> DEFINE P(n) == t[i].m <= t[n].m /\ (Opens(t, n) => t[i].m < t[n].m)
             T == {n \in i + 1 .. Len(t) : ~P(n)}
             R == {ab \in Nat \X Nat : ab[1] < ab[2]}
  <1>1. SUFFICES ASSUME T # {} PROVE FALSE
    <2>1. j \in i + 1 .. Len(t)
      OBVIOUS
    <2> QED BY <1>1, <2>1
  <1>2. IsWellFoundedOn(R, Nat)
    BY NatLessThanWellFounded DEF OpToRel
  <1>3. T \subseteq Nat
    OBVIOUS
  <1>4. PICK n \in T : \A a \in T : ~(<<a, n>> \in R)
    <2> HIDE DEF T, R
    <2> QED BY <1>1, <1>2, <1>3, WFMin
  <1>5. /\ n \in DOMAIN t /\ i \in DOMAIN t /\ n > i /\ n - 1 \in DOMAIN t /\ i \in Nat
        /\ n \in Nat /\ n # 1 /\ n - 1 # 0
    OBVIOUS
  <1>6. \A a \in DOMAIN t : t[a].m \in Nat
    <2>1. \A a \in DOMAIN t : t[a] \in Units
      OBVIOUS
    <2> QED BY <2>1 DEF Units
  <1>7. t[n].m = t[n - 1].m + (IF Opens(t, n) THEN 1 ELSE 0)
    BY <1>5 DEF Numbered, Begun
  <1>8. t[i].m <= t[n - 1].m
    <2>1. CASE n - 1 = i
      BY <1>5, <1>6, <2>1
    <2>2. CASE n - 1 # i
      <3>1. n - 1 \in i + 1 .. Len(t)
        BY <1>5, <2>2
      <3>2. <<n - 1, n>> \in R
        BY <1>5
      <3>3. n - 1 \notin T
        BY <1>4, <3>2
      <3> QED BY <3>1, <3>3
    <2> QED BY <2>1, <2>2
  <1>9. P(n)
    BY <1>5, <1>6, <1>7, <1>8
  <1> QED BY <1>4, <1>9

(* A header begins, goes on, ends. *)
InHeader(t, p, q) == \A j \in 1 .. p : t[j].m = t[q].m => t[j].k \in {"start", "field"}

LEMMA HeaderBegins ==
    ASSUME NEW t \in Seq(Units), Messages(t), NEW p \in Nat, p + 1 \in DOMAIN t,
           MessageAt(t, p), t[p + 1].k = "start"
    PROVE  HeaderAt(t, p + 1) /\ InHeader(t, p + 1, p + 1) /\ t[p + 1].m = Begun(t, p) + 1
  <1>1. Opens(t, p + 1)
    BY DEF MessageAt
  <1>2. t[p + 1].m = Begun(t, p) + 1
    <2>1. (p + 1) - 1 = p
      OBVIOUS
    <2> QED BY <1>1, <2>1 DEF Messages, Numbered
  <1>3. HeaderAt(t, p + 1)
    BY DEF Messages
  <1>4. ASSUME NEW j \in 1 .. p + 1, t[j].m = t[p + 1].m PROVE t[j].k \in {"start", "field"}
    <2>1. j \in DOMAIN t /\ (j # p + 1 => j < p + 1) /\ \A a \in DOMAIN t : t[a] \in Units
      OBVIOUS
    <2>2. t[j].m \in Nat /\ t[p + 1].m \in Nat
      BY <2>1 DEF Units
    <2>3. j < p + 1 => t[j].m < t[p + 1].m
      BY <1>1, <2>1, LaterNumbers DEF Messages
    <2>4. j = p + 1
      BY <1>4, <2>1, <2>2, <2>3
    <2> QED BY <2>4
  <1> QED BY <1>2, <1>3, <1>4 DEF InHeader

LEMMA HeaderGoesOn ==
    ASSUME NEW t \in Seq(Units), Messages(t), NEW p \in Nat \ {0}, p + 1 \in DOMAIN t,
           HeaderAt(t, p), InHeader(t, p, p), t[p + 1].k \in {"field"} \cup BodyKinds
    PROVE  /\ t[p + 1].m = t[p].m /\ InHeader(t, p, p + 1)
           /\ t[p + 1].k = "field" => HeaderAt(t, p + 1) /\ InHeader(t, p + 1, p + 1)
           /\ t[p + 1].k # "field" => BodyAt(t, p + 1, t[p + 1])
  <1>1. ~Opens(t, p + 1)
    BY DEF HeaderAt
  <1>2. t[p + 1].m = t[p].m
    <2>1. (p + 1) - 1 = p /\ p # 0 /\ p \in DOMAIN t /\ \A a \in DOMAIN t : t[a] \in Units
      OBVIOUS
    <2>2. t[p].m \in Nat
      BY <2>1 DEF Units
    <2>3. t[p + 1].m = t[p].m + 0
      BY <1>1, <2>1 DEF Messages, Numbered, Begun
    <2> QED BY <2>2, <2>3
  <1>3. InHeader(t, p, p + 1)
    BY <1>2 DEF InHeader
  <1>4. t[p + 1].k = "field" => InHeader(t, p + 1, p + 1)
    BY <1>3 DEF InHeader
  <1>5. t[p + 1].k = "field" => HeaderAt(t, p + 1)
    BY DEF Messages
  <1>6. t[p + 1].k # "field" => BodyAt(t, p + 1, t[p + 1])
    BY DEF Messages
  <1> QED BY <1>2, <1>3, <1>4, <1>5, <1>6

(* A part of a body is passed. *)
LEMMA BodyPassed ==
    ASSUME NEW t \in Seq(Units), NEW p \in Nat \ {0}, NEW n \in Nat, NEW k \in 0 .. n,
           p + k <= Len(t), BodyAt(t, p, [k |-> "length", n |-> n])
    PROVE  BodyAt(t, p + k, [k |-> "length", n |-> n - k]) /\ Begun(t, p + k) = Begun(t, p)
  <1>1. /\ \A j \in p + 1 .. p + n : j \in DOMAIN t => t[j].k = "body" /\ t[j].m = t[p].m
        /\ MessageAt(t, p + n)
    BY DEF BodyAt
  <1>2. t[p + k].m = t[p].m
    <2>1. CASE k = 0
      BY <2>1
    <2>2. CASE k # 0
      <3>1. p + k \in p + 1 .. p + n /\ p + k \in DOMAIN t
        BY <2>2
      <3> QED BY <1>1, <3>1
    <2> QED BY <2>1, <2>2
  <1>3. (p + k) + (n - k) = p + n /\ p + k # 0 /\ p # 0
    OBVIOUS
  <1>4. \A j \in (p + k) + 1 .. p + n : j \in p + 1 .. p + n
    OBVIOUS
  <1>5. MessageAt(t, (p + k) + (n - k))
    BY <1>1, <1>3
  <1>6. \A j \in (p + k) + 1 .. (p + k) + (n - k) :
            j \in DOMAIN t => t[j].k = "body" /\ t[j].m = t[p + k].m
    BY <1>1, <1>2, <1>3, <1>4
  <1>7. BodyAt(t, p + k, [k |-> "length", n |-> n - k])
    BY <1>5, <1>6 DEF BodyAt
  <1> QED BY <1>2, <1>3, <1>7 DEF Begun

LEMMA RestPassed ==
    ASSUME NEW t \in Seq(Units), NEW p \in Nat \ {0}, NEW k \in Nat, p + k <= Len(t),
           NEW e, e.k = "close", BodyAt(t, p, e)
    PROVE  BodyAt(t, p + k, e) /\ Begun(t, p + k) = Begun(t, p)
  <1>1. \A j \in p + 1 .. Len(t) : t[j].k = "body" /\ t[j].m = t[p].m
    BY DEF BodyAt
  <1>2. t[p + k].m = t[p].m
    <2>1. CASE k = 0
      BY <2>1
    <2>2. CASE k # 0
      <3>1. p + k \in p + 1 .. Len(t)
        BY <2>2
      <3> QED BY <1>1, <3>1
    <2> QED BY <2>1, <2>2
  <1>3. \A j \in (p + k) + 1 .. Len(t) : t[j].k = "body" /\ t[j].m = t[p + k].m
    BY <1>1, <1>2
  <1>4. p + k # 0 /\ p # 0
    OBVIOUS
  <1> QED BY <1>2, <1>3, <1>4 DEF BodyAt, Begun

-----------------------------------------------------------------------------
(***************************************************************************)
(* How far a stream's script has been parsed, what the stream handler then *)
(* expects, and how many pipeline elements the stream has taken.           *)
(***************************************************************************)
Reached(s) == Len(got[To(s)]) + Len(header[s]) + Len(out[From(s)])

Expects(t, p, ms, h, e, b) ==
    /\ ms = "START_MESSAGE" => MessageAt(t, p)
    /\ ms = "PARSE_HEADER" /\ h = <<>> => MessageAt(t, p)
    /\ ms = "PARSE_HEADER" /\ h # <<>> =>
         p # 0 /\ h[1].k = "start" /\ HeaderAt(t, p) /\ InHeader(t, p, p)
    /\ ms = "PUSH_HEADER" =>
         p # 0 /\ h # <<>> /\ t[p].k \in BodyKinds /\ InHeader(t, p - 1, p) /\ BodyAt(t, p, e)
    /\ ms = "PARSE_BODY" => p # 0 /\ BodyAt(t, p, b)

Placed(s) ==
    Expects(Script(From(s)), Reached(s), message_state[s], header[s], encoding[s], body[s])

Number(s) ==
    Begun(Script(From(s)), Reached(s))
      + (IF message_state[s] = "PARSE_HEADER" /\ header[s] = <<>> THEN 1 ELSE 0)

(* A step that takes no element. *)
Steady(s) == Placed(s)' /\ Number(s)' = Number(s)

(* The read buffer continues what was parsed. *)
LEMMA ReachedNext ==
    ASSUME NEW s \in Streams, Flow(s)
    PROVE  /\ Script(From(s)) \in Seq(Units) /\ buf[From(s)] \in Seq(Units)
           /\ got[To(s)] \in Seq(Units) /\ header[s] \in Seq(Units) /\ out[From(s)] \in Seq(Units)
           /\ Reached(s) \in Nat /\ Len(got[To(s)]) \in 0 .. Reached(s)
           /\ Piece(Script(From(s)), buf[From(s)], Reached(s))
           /\ Begun(Script(From(s)), Reached(s)) \in Nat
  <1> DEFINE t == Script(From(s))
  <1>1. /\ t \in Seq(Units) /\ got[To(s)] \in Seq(Units) /\ header[s] \in Seq(Units)
        /\ out[From(s)] \in Seq(Units) /\ buf[From(s)] \in Seq(Units)
        /\ Piece(t, buf[From(s)], Reached(s))
    BY DEF Flow, Linked, Pipe, Chain, Reached
  <1>2. Len(got[To(s)]) \in Nat /\ Len(header[s]) \in Nat /\ Len(out[From(s)]) \in Nat
    BY <1>1
  <1>3. \A i, j, k \in Nat : i + j + k \in Nat /\ i \in 0 .. i + j + k
    OBVIOUS
  <1>4. Reached(s) \in Nat /\ Len(got[To(s)]) \in 0 .. Reached(s)
    BY <1>2, <1>3, Zenon DEF Reached
  <1>5. Reached(s) <= Len(t)
    BY <1>1, <1>4 DEF Piece
  <1>6. Reached(s) # 0 => t[Reached(s)] \in Units
    BY <1>1, <1>4, <1>5
  <1>7. Begun(t, Reached(s)) \in Nat
    BY <1>6 DEF Begun, Units
  <1> QED BY <1>1, <1>4, <1>7

LEMMA PlacedKept ==
    ASSUME NEW s \in Streams, Placed(s), UNCHANGED <<req, resp>>, got'[To(s)] = got[To(s)],
           header'[s] = header[s], out'[From(s)] = out[From(s)],
           message_state'[s] = message_state[s], body'[s] = body[s], encoding'[s] = encoding[s]
    PROVE  Steady(s)
  <1>1. Reached(s)' = Reached(s) /\ Script(From(s))' = Script(From(s))
    BY DEF Reached, Script
  <1> QED BY <1>1 DEF Steady, Placed, Number

(* START_MESSAGE. *)
LEMMA StartPlaced ==
    ASSUME NEW s \in Streams, s = Stream, TypeInv, Flow(s), Placed(s), StartRequest \/ StartResponse,
           UNCHANGED header
    PROVE  /\ Placed(s)'
           /\ \/ UNCHANGED qvars /\ message_state'[s] = "START_MESSAGE" /\ Number(s)' = Number(s)
              \/ /\ QueueElement \/ DequeueElement
                 /\ message_state'[s] = "PARSE_HEADER" /\ Number(s)' = Number(s) + 1
  <1> USE DEF bufVars, netVars, peerVars
  <1>1. UNCHANGED <<req, resp, got, out, body, encoding>> /\ message_state[s] = "START_MESSAGE"
    BY DEF StartRequest, StartResponse, Processing
  <1>2. header[s] = <<>> /\ header'[s] = <<>>
    BY <1>1 DEF Flow, Tidy
  <1>3. Reached(s)' = Reached(s) /\ Script(From(s))' = Script(From(s))
    BY <1>1 DEF Reached, Script
  <1>4. MessageAt(Script(From(s)), Reached(s))
    BY <1>1 DEF Placed, Expects
  <1>5. ASSUME message_state'[s] \in {"START_MESSAGE", "PARSE_HEADER"} PROVE Placed(s)'
    BY <1>2, <1>3, <1>4, <1>5 DEF Placed, Expects
  <1>6. Begun(Script(From(s)), Reached(s)) \in Nat
    BY ReachedNext
  <1>7. CASE UNCHANGED message_state /\ UNCHANGED qvars
    BY <1>1, <1>3, <1>5, <1>7 DEF Number
  <1>8. CASE GoTo("PARSE_HEADER") /\ (QueueElement \/ DequeueElement)
    <2>1. message_state'[s] = "PARSE_HEADER"
      BY <1>8 DEF GoTo, TypeInv, TypeOK, StreamTypeOK
    <2>2. Number(s)' = Number(s) + 1
      BY <1>1, <1>2, <1>3, <1>6, <2>1 DEF Number
    <2> QED BY <1>5, <1>8, <2>1, <2>2
  <1>9. CASE header' = [header EXCEPT !["response"] = <<ErrorResponse>>] /\ s = "response"
    BY <1>2, <1>9 DEF TypeInv, TypeOK, StreamTypeOK
  <1> QED BY <1>7, <1>8, <1>9 DEF StartRequest, StartResponse

LEMMA Appended ==
    ASSUME NEW h \in Seq(Units), NEW u \in Units
    PROVE  /\ Len(Append(h, u)) = Len(h) + 1 /\ Append(h, u) # <<>>
           /\ h = <<>> => Append(h, u)[1] = u
           /\ h # <<>> => Append(h, u)[1] = h[1]
  <1> DEFINE a == Append(h, u)
  <1>1. /\ Len(a) = Len(h) + 1 /\ a[Len(h) + 1] = u /\ \A i \in 1 .. Len(h) : a[i] = h[i]
        /\ Len(h) \in Nat /\ (h = <<>> => Len(h) = 0) /\ (Len(h) = 0 => h = <<>>)
    OBVIOUS
  <1>2. a = <<>> => Len(a) = 0
    OBVIOUS
  <1> HIDE DEF a
  <1>3. Len(h) # 0 => 1 \in 1 .. Len(h)
    BY <1>1
  <1>4. h = <<>> => a[1] = u
    <2>1. 0 + 1 = 1
      OBVIOUS
    <2> QED BY ONLY <1>1, <2>1
  <1>5. a # <<>>
    BY <1>1, <1>2
  <1> QED BY <1>1, <1>3, <1>4, <1>5 DEF a

(* PARSE_HEADER. *)
LEMMA ParseHeaderPlaced ==
    ASSUME NEW s \in Streams, s = Stream, TypeInv, Flow(s), Messages(Script(From(s))), Placed(s),
           ParseHeader
    PROVE  Steady(s)
  <1> USE DEF bufVars, netVars, peerVars
  <1> DEFINE t == Script(From(s))
             p == Reached(s)
             u == Head(buf[From(s)])
  <1>1. UNCHANGED <<req, resp, got, out, body>> /\ message_state[s] = "PARSE_HEADER"
    BY DEF ParseHeader, Processing
  <1>2. Src = From(s)
    BY Running
  <1>3. /\ header \in [Streams -> Seq(Units)] /\ message_state \in [Streams -> MessageStates]
        /\ encoding \in [Streams -> Encodings]
    BY DEF TypeInv, TypeOK, StreamTypeOK
  <1>4. t \in Seq(Units) /\ p \in Nat /\ Piece(t, buf[From(s)], p) /\ buf[From(s)] \in Seq(Units)
    BY ReachedNext
  <1>5. Script(From(s))' = t
    BY <1>1 DEF Script
  <1>6. CASE UNCHANGED <<header, encoding, message_state>>
    BY <1>1, <1>6, PlacedKept
  <1>7. CASE /\ buf[From(s)] # <<>> /\ Expected(u)
             /\ header' = [header EXCEPT ![Stream] = Append(@, u)]
             /\ \/ u.k \notin BodyKinds /\ UNCHANGED message_state
                \/ /\ u.k \in BodyKinds /\ GoTo("PUSH_HEADER")
                   /\ encoding' = [encoding EXCEPT ![Stream] = [k |-> u.k, n |-> u.n]]
    <2>1. header'[s] = Append(header[s], u)
      BY <1>3, <1>7
    <2>2. u \in Units /\ u = t[p + 1] /\ p + 1 \in DOMAIN t
      BY <1>4, <1>7 DEF Piece
    <2>3. /\ Len(header'[s]) = Len(header[s]) + 1 /\ header'[s] # <<>>
          /\ header[s] = <<>> => header'[s][1] = u
          /\ header[s] # <<>> => header'[s][1] = header[s][1]
      <3>1. header[s] \in Seq(Units)
        BY <1>3
      <3> HIDE DEF u
      <3> QED BY <2>1, <2>2, <3>1, Appended
    <2>4. Reached(s)' = p + 1
      <3>1. Reached(s)' = Len(got[To(s)]) + (Len(header[s]) + 1) + Len(out[From(s)])
        BY <1>1, <2>3 DEF Reached
      <3>2. Len(got[To(s)]) \in Nat /\ Len(header[s]) \in Nat /\ Len(out[From(s)]) \in Nat
        BY ReachedNext
      <3>3. \A i, j, k \in Nat : i + (j + 1) + k = (i + j + k) + 1
        OBVIOUS
      <3> QED BY <3>1, <3>2, <3>3, Zenon DEF Reached
    <2>5. u.k \in {"start", "field"} \cup BodyKinds /\ (u.k = "start") = (header[s] = <<>>)
      BY <1>7 DEF Expected
    <2>6. p + 1 # 0 /\ (p + 1) - 1 = p
      BY <1>4
    <2>7. "start" \notin BodyKinds /\ "field" \notin BodyKinds
      BY DEF BodyKinds
    <2> HIDE DEF t, p, u
    <2>8. CASE u.k = "start"
      <3>1. header[s] = <<>>
        BY <2>5, <2>8
      <3>2. MessageAt(t, p)
        BY <1>1, <3>1 DEF Placed, Expects, t, p
      <3>3. HeaderAt(t, p + 1) /\ InHeader(t, p + 1, p + 1) /\ t[p + 1].m = Begun(t, p) + 1
        BY <1>4, <2>2, <2>8, <3>2, HeaderBegins DEF t
      <3>4. message_state'[s] = "PARSE_HEADER"
        BY <1>1, <1>7, <2>7, <2>8
      <3>5. Placed(s)'
        BY <1>5, <2>3, <2>4, <2>6, <2>8, <3>1, <3>3, <3>4 DEF Placed, Expects
      <3>6. Number(s) = Begun(t, p) + 1
        BY <1>1, <3>1 DEF Number, t, p
      <3>7. Number(s)' = t[p + 1].m + 0
        BY <1>5, <2>3, <2>4, <2>6 DEF Number, Begun
      <3>8. t[p + 1].m + 0 = t[p + 1].m
        BY <2>2 DEF Units
      <3> QED BY <3>3, <3>5, <3>6, <3>7, <3>8 DEF Steady
    <2>9. CASE u.k # "start"
      <3>1. header[s] # <<>> /\ u.k \in {"field"} \cup BodyKinds
        BY <2>5, <2>9
      <3>2. p # 0 /\ header[s][1].k = "start" /\ HeaderAt(t, p) /\ InHeader(t, p, p)
        BY <1>1, <3>1 DEF Placed, Expects, t, p
      <3>3. /\ t[p + 1].m = t[p].m /\ InHeader(t, p, p + 1)
            /\ u.k = "field" => HeaderAt(t, p + 1) /\ InHeader(t, p + 1, p + 1)
            /\ u.k # "field" => BodyAt(t, p + 1, u)
        BY <1>4, <2>2, <3>1, <3>2, HeaderGoesOn DEF t
      <3>4. Placed(s)'
        <4>1. CASE u.k = "field"
          <5>1. message_state'[s] = "PARSE_HEADER"
            BY <1>1, <1>7, <2>7, <4>1
          <5> QED BY <1>5, <2>3, <2>4, <2>6, <3>1, <3>2, <3>3, <4>1, <5>1 DEF Placed, Expects
        <4>2. CASE u.k # "field"
          <5>1. u.k \in BodyKinds
            BY <3>1, <4>2
          <5>2. message_state'[s] = "PUSH_HEADER" /\ encoding'[s] = [k |-> u.k, n |-> u.n]
            BY <1>3, <1>7, <5>1 DEF GoTo
          <5>3. encoding'[s].k = u.k /\ encoding'[s].n = u.n
            BY <5>2
          <5>4. BodyAt(t, p + 1, encoding'[s])
            BY <3>3, <4>2, <5>3 DEF BodyAt
          <5> QED BY <1>5, <2>2, <2>3, <2>4, <2>6, <3>3, <5>1, <5>2, <5>4 DEF Placed, Expects
        <4> QED BY <4>1, <4>2
      <3>5. Number(s) = t[p].m + 0
        BY <1>1, <3>1, <3>2 DEF Number, Begun, t, p
      <3>6. Number(s)' = t[p + 1].m + 0
        BY <1>5, <2>3, <2>4, <2>6 DEF Number, Begun
      <3> QED BY <3>3, <3>4, <3>5, <3>6 DEF Steady
    <2> QED BY <2>8, <2>9
  <1> QED BY <1>2, <1>6, <1>7 DEF ParseHeader

(* What a write leaves. *)
LEMMA WriteRest ==
    ASSUME NEW d, NEW us \in Seq(Units), us # <<>>, NEW k \in 0 .. Len(us), NEW r,
           Write(d, us, k, r), r # "COMPLETE"
    PROVE  After(us, k) # <<>>
  <1>1. Len(us) > 0
    OBVIOUS
  <1>2. k < Len(us)
    BY <1>1 DEF Write
  <1>3. Len(After(us, k)) = Len(us) - k
    BY DEF After
  <1>4. After(us, k) = <<>> => Len(After(us, k)) = 0
    OBVIOUS
  <1> QED BY <1>1, <1>2, <1>3, <1>4

(* PUSH_HEADER. *)
LEMMA PushHeaderPlaced ==
    ASSUME NEW s \in Streams, s = Stream, TypeInv, Flow(s), Placed(s), PushHeader,
           process_type[current[s]] # "DENY" \/ UNCHANGED message_state
    PROVE  Steady(s) /\ Reached(s)' = Reached(s)
  <1> USE DEF bufVars, netVars, peerVars
  <1>1. UNCHANGED <<req, resp, out, encoding>> /\ message_state[s] = "PUSH_HEADER"
    BY DEF PushHeader, Processing
  <1>2. Dest = To(s) /\ To(s) \in Sides
    BY Running, FlowTypes
  <1>3. /\ header[s] \in Seq(Units) /\ message_state \in [Streams -> MessageStates]
        /\ body \in [Streams -> Encodings] /\ header \in [Streams -> Seq(Units)]
        /\ got[To(s)] \in Seq(Units) /\ out[From(s)] \in Seq(Units)
    BY ReachedNext DEF TypeInv, TypeOK, StreamTypeOK
  <1>4. PICK k \in 0 .. Len(header[Stream]), r \in Statuses :
          /\ Write(Dest, header[Stream], k, r)
          /\ header' = [header EXCEPT ![Stream] = After(@, k)]
          /\ \/ /\ GoTo("PARSE_BODY") /\ body' = [body EXCEPT ![Stream] = encoding[Stream]]
             \/ r # "COMPLETE" /\ UNCHANGED <<message_state, body>>
    BY <1>1, <1>3 DEF PushHeader, GoTo
  <1>5. k \in 0 .. Len(header[s]) /\ Write(To(s), header[s], k, r)
    BY <1>2, <1>4
  <1>6. got'[To(s)] = got[To(s)] \o SubSeq(header[s], 1, k)
    BY <1>2, <1>3, <1>5, WriteGot
  <1>7. header'[s] = After(header[s], k)
    BY <1>3, <1>4
  <1>8. Reached(s)' = Reached(s)
    <2>1. Len(got[To(s)] \o SubSeq(header[s], 1, k)) = Len(got[To(s)]) + k
      BY <1>3, <1>5, CutLengths, Zenon
    <2>2. Len(After(header[s], k)) = Len(header[s]) - k
      BY <1>3, <1>5, CutLengths, Zenon
    <2>3. Reached(s)' = (Len(got[To(s)]) + k) + (Len(header[s]) - k) + Len(out[From(s)])
      BY <1>1, <1>6, <1>7, <2>1, <2>2 DEF Reached
    <2>4. /\ Len(got[To(s)]) \in Nat /\ Len(header[s]) \in Nat /\ Len(out[From(s)]) \in Nat
          /\ k \in Nat /\ k <= Len(header[s])
      BY <1>3, <1>5
    <2>5. (Len(got[To(s)]) + k) + (Len(header[s]) - k) + Len(out[From(s)])
            = Len(got[To(s)]) + Len(header[s]) + Len(out[From(s)])
      <3> DEFINE g == Len(got[To(s)])
                 h == Len(header[s])
                 o == Len(out[From(s)])
      <3>1. g \in Nat /\ h \in Nat /\ o \in Nat /\ k \in Nat /\ k <= h
        BY <2>4
      <3> HIDE DEF g, h, o
      <3>2. (g + k) + (h - k) + o = g + h + o
        BY ONLY <3>1
      <3> QED BY ONLY <3>2 DEF g, h, o
    <2> QED BY <2>3, <2>5 DEF Reached
  <1>9. Script(From(s))' = Script(From(s))
    BY <1>1 DEF Script
  <1>10. /\ Reached(s) # 0 /\ header[s] # <<>>
         /\ Script(From(s))[Reached(s)].k \in BodyKinds
         /\ InHeader(Script(From(s)), Reached(s) - 1, Reached(s))
         /\ BodyAt(Script(From(s)), Reached(s), encoding[s])
    BY <1>1 DEF Placed, Expects
  <1>11. CASE /\ GoTo("PARSE_BODY") /\ body' = [body EXCEPT ![Stream] = encoding[Stream]]
    <2>1. message_state'[s] = "PARSE_BODY" /\ body'[s] = encoding[s]
      BY <1>3, <1>11 DEF GoTo
    <2>2. Placed(s)'
      BY <1>8, <1>9, <1>10, <2>1 DEF Placed, Expects
    <2>3. Number(s)' = Number(s)
      BY <1>1, <1>8, <1>9, <2>1 DEF Number
    <2> QED BY <1>8, <2>2, <2>3 DEF Steady
  <1>12. CASE r # "COMPLETE" /\ UNCHANGED <<message_state, body>>
    <2>1. header'[s] # <<>>
      BY <1>3, <1>5, <1>7, <1>10, <1>12, WriteRest
    <2>2. Placed(s)'
      BY <1>1, <1>8, <1>9, <1>10, <1>12, <2>1 DEF Placed, Expects
    <2>3. Number(s)' = Number(s)
      BY <1>1, <1>8, <1>9, <1>12 DEF Number
    <2> QED BY <1>8, <2>2, <2>3 DEF Steady
  <1> QED BY <1>4, <1>11, <1>12

(* The message is done. *)
LEMMA CompletePlaced ==
    ASSUME NEW s \in Streams, s = Stream, TypeInv, CompleteMessage, UNCHANGED <<req, resp>>,
           Reached(s)' = Reached(s), MessageAt(Script(From(s)), Reached(s)),
           message_state[s] = "PARSE_BODY"
    PROVE  Steady(s)
  <1>1. message_state'[s] = "START_MESSAGE"
    BY DEF TypeInv, TypeOK, StreamTypeOK, CompleteMessage, GoTo
  <1>2. Script(From(s))' = Script(From(s))
    BY DEF Script
  <1> QED BY <1>1, <1>2 DEF Steady, Placed, Expects, Number

(* PARSE_BODY without a body. *)
LEMMA EndMessagePlaced ==
    ASSUME NEW s \in Streams, s = Stream, TypeInv, Flow(s), Placed(s), EndMessage
    PROVE  Steady(s)
  <1> USE DEF bufVars, netVars, peerVars
  <1>1. /\ UNCHANGED <<req, resp, got, out>> /\ message_state[s] = "PARSE_BODY"
        /\ CompleteMessage /\ body[s].k = "none"
    BY DEF EndMessage, Processing
  <1>2. header[s] = <<>> /\ header'[s] = <<>>
    BY <1>1 DEF TypeInv, TypeOK, StreamTypeOK, CompleteMessage, Flow, Tidy
  <1>3. Reached(s)' = Reached(s)
    BY <1>1, <1>2 DEF Reached
  <1>4. MessageAt(Script(From(s)), Reached(s))
    BY <1>1 DEF Placed, Expects, BodyAt
  <1> QED BY <1>1, <1>3, <1>4, CompletePlaced

(* PARSE_BODY: a claim. *)
LEMMA ParseBodyPlaced ==
    ASSUME NEW s \in Streams, s = Stream, TypeInv, Flow(s), Placed(s), ParseBody
    PROVE  Steady(s)
  <1> USE DEF bufVars, netVars, peerVars
  <1> DEFINE t == Script(From(s))
             p == Reached(s)
             n == body[s].n
  <1>1. /\ UNCHANGED <<req, resp, got, header, message_state, encoding>>
        /\ message_state[s] = "PARSE_BODY" /\ body[s].k = "length" /\ ~forwarding[s]
    BY DEF ParseBody, Processing
  <1>2. Src = From(s) /\ From(s) \in Sides
    BY Running, FlowTypes
  <1>3. /\ out \in [Sides -> Seq(Units)] /\ body \in [Streams -> Encodings]
        /\ header[s] \in Seq(Units) /\ got[To(s)] \in Seq(Units) /\ buf[From(s)] \in Seq(Units)
        /\ t \in Seq(Units) /\ p \in Nat /\ Piece(t, buf[From(s)], p)
    BY ReachedNext DEF TypeInv, TypeOK, StreamTypeOK, BufTypeOK
  <1>4. out[From(s)] = <<>> /\ Script(From(s))' = t
    BY <1>1 DEF Flow, Tidy, Script
  <1>5. PICK k \in 0 .. Len(buf[Src]) :
          /\ Claimable(buf[Src], body[Stream].n, k)
          /\ \/ UNCHANGED <<out, body>>
             \/ /\ out' = [out EXCEPT ![Src] = SubSeq(buf[Src], 1, k)]
                /\ body' = [body EXCEPT ![Stream] = [k |-> "length", n |-> @.n - k]]
    BY DEF ParseBody
  <1>6. CASE UNCHANGED <<out, body>>
    BY <1>1, <1>6, PlacedKept
  <1>7. CASE /\ out' = [out EXCEPT ![Src] = SubSeq(buf[Src], 1, k)]
             /\ body' = [body EXCEPT ![Stream] = [k |-> "length", n |-> @.n - k]]
    <2>1. n \in Nat /\ body[s] = [k |-> "length", n |-> n]
      BY <1>1, <1>3 DEF Encodings
    <2>2. k \in 0 .. n /\ k \in 0 .. Len(buf[From(s)])
      BY <1>2, <1>5, <2>1 DEF Claimable
    <2>3. body'[s] = [k |-> "length", n |-> n - k]
      BY <1>3, <1>7
    <2>4. out'[From(s)] = SubSeq(buf[From(s)], 1, k) /\ Len(out'[From(s)]) = k
      BY <1>2, <1>3, <1>7, <2>2
    <2>5. Reached(s)' = p + k
      <3>1. Reached(s)' = Len(got[To(s)]) + Len(header[s]) + k
        BY <1>1, <2>4 DEF Reached
      <3>2. Reached(s) = Len(got[To(s)]) + Len(header[s]) + 0
        BY <1>4 DEF Reached
      <3>3. Len(got[To(s)]) \in Nat /\ Len(header[s]) \in Nat /\ k \in Nat
        BY <1>3, <2>2
      <3> DEFINE g == Len(got[To(s)])
                 h == Len(header[s])
                 x == Reached(s)
                 y == Reached(s)'
      <3>4. y = g + h + k /\ x = g + h + 0 /\ g \in Nat /\ h \in Nat /\ k \in Nat
        BY ONLY <3>1, <3>2, <3>3
      <3> HIDE DEF g, h, x, y
      <3>5. y = x + k
        BY ONLY <3>4
      <3> QED BY ONLY <3>5 DEF x, y, p
    <2>6. p + k <= Len(t)
      BY <1>3, <2>2 DEF Piece
    <2>7. p # 0 /\ BodyAt(t, p, [k |-> "length", n |-> n])
      BY <1>1, <2>1 DEF Placed, Expects
    <2> HIDE DEF t, p, n
    <2>8. BodyAt(t, p + k, [k |-> "length", n |-> n - k]) /\ Begun(t, p + k) = Begun(t, p)
      BY <1>3, <2>1, <2>2, <2>6, <2>7, BodyPassed
    <2>9. p + k # 0
      BY <1>3, <2>2, <2>7
    <2>10. Placed(s)'
      BY <1>1, <1>4, <2>3, <2>5, <2>8, <2>9 DEF Placed, Expects
    <2>11. Number(s) = Begun(t, p) + 0
      BY <1>1 DEF Number, t, p
    <2>12. Number(s)' = Begun(t, p + k) + 0
      BY <1>1, <1>4, <2>5 DEF Number
    <2> QED BY <2>8, <2>10, <2>11, <2>12 DEF Steady
  <1> QED BY <1>5, <1>6, <1>7

(* PARSE_BODY: the FORWARD states. *)
LEMMA ForwardBodyPlaced ==
    ASSUME NEW s \in Streams, s = Stream, TypeInv, Flow(s), Placed(s), ForwardBody
    PROVE  Steady(s)
  <1> USE DEF bufVars, netVars, peerVars
  <1>1. /\ UNCHANGED <<req, resp>> /\ message_state[s] = "PARSE_BODY" /\ body[s].k = "length"
    BY DEF ForwardBody, Processing
  <1>2. Src = From(s) /\ Dest = To(s) /\ From(s) \in Sides /\ To(s) \in Sides
    BY Running, FlowTypes
  <1>3. /\ header[s] \in Seq(Units) /\ header[s] = <<>>
        /\ out[From(s)] \in Seq(Units) /\ got[To(s)] \in Seq(Units)
        /\ out \in [Sides -> Seq(Units)] /\ header \in [Streams -> Seq(Units)]
    BY <1>1, ReachedNext DEF TypeInv, TypeOK, StreamTypeOK, BufTypeOK, Flow, Tidy
  <1>4. PICK k \in 0 .. Len(out[Src]), r \in Statuses :
          /\ Write(Dest, out[Src], k, r)
          /\ out' = [out EXCEPT ![Src] = After(@, k)]
          /\ \/ CompleteMessage /\ body[Stream].n = 0
             \/ UNCHANGED <<message_state, header, encoding, body>>
    BY DEF ForwardBody
  <1>5. k \in 0 .. Len(out[From(s)]) /\ Write(To(s), out[From(s)], k, r)
    BY <1>2, <1>4
  <1>6. got'[To(s)] = got[To(s)] \o SubSeq(out[From(s)], 1, k)
    BY <1>2, <1>3, <1>5, WriteGot
  <1>7. out'[From(s)] = After(out[From(s)], k)
    BY <1>2, <1>3, <1>4
  <1>8. header'[s] = header[s]
    BY <1>3, <1>4 DEF CompleteMessage
  <1>9. Reached(s)' = Reached(s)
    <2>1. Len(got[To(s)] \o SubSeq(out[From(s)], 1, k)) = Len(got[To(s)]) + k
      BY <1>3, <1>5, CutLengths, Zenon
    <2>2. Len(After(out[From(s)], k)) = Len(out[From(s)]) - k
      BY <1>3, <1>5, CutLengths, Zenon
    <2>3. Reached(s)' = (Len(got[To(s)]) + k) + Len(header[s]) + (Len(out[From(s)]) - k)
      BY <1>6, <1>7, <1>8, <2>1, <2>2 DEF Reached
    <2>4. /\ Len(got[To(s)]) \in Nat /\ Len(header[s]) \in Nat /\ Len(out[From(s)]) \in Nat
          /\ k \in Nat /\ k <= Len(out[From(s)])
      BY <1>3, <1>5
    <2>5. (Len(got[To(s)]) + k) + Len(header[s]) + (Len(out[From(s)]) - k)
            = Len(got[To(s)]) + Len(header[s]) + Len(out[From(s)])
      <3> DEFINE g == Len(got[To(s)])
                 h == Len(header[s])
                 o == Len(out[From(s)])
      <3>1. g \in Nat /\ h \in Nat /\ o \in Nat /\ k \in Nat /\ k <= o
        BY <2>4
      <3> HIDE DEF g, h, o
      <3>2. (g + k) + h + (o - k) = g + h + o
        BY ONLY <3>1
      <3> QED BY ONLY <3>2 DEF g, h, o
    <2> QED BY <2>3, <2>5 DEF Reached
  <1>10. Script(From(s))' = Script(From(s))
    BY <1>1 DEF Script
  <1>11. BodyAt(Script(From(s)), Reached(s), body[s])
    BY <1>1 DEF Placed, Expects
  <1>12. CASE CompleteMessage /\ body[Stream].n = 0
    <2>1. MessageAt(Script(From(s)), Reached(s) + 0)
      BY <1>1, <1>11, <1>12 DEF BodyAt
    <2>2. Reached(s) + 0 = Reached(s)
      BY ReachedNext
    <2> QED BY <1>1, <1>9, <1>12, <2>1, <2>2, CompletePlaced
  <1>13. CASE UNCHANGED <<message_state, header, encoding, body>>
    BY <1>9, <1>10, <1>13 DEF Steady, Placed, Number
  <1> QED BY <1>4, <1>12, <1>13

(* PARSE_BODY up to the close of the connection. *)
LEMMA ForwardToClosePlaced ==
    ASSUME NEW s \in Streams, s = Stream, TypeInv, Flow(s), Placed(s), ForwardToClose
    PROVE  Steady(s)
  <1> USE DEF bufVars, streamVars, netVars, peerVars
  <1> DEFINE t == Script(From(s))
             p == Reached(s)
  <1>1. /\ UNCHANGED <<req, resp, out, header, message_state, encoding, body>>
        /\ message_state[s] = "PARSE_BODY" /\ body[s].k = "close"
    BY DEF ForwardToClose, Processing
  <1>2. Src = From(s) /\ Dest = To(s) /\ To(s) \in Sides
    BY Running, FlowTypes
  <1>3. /\ header[s] = <<>> /\ out[From(s)] = <<>> /\ got[To(s)] \in Seq(Units)
        /\ buf[From(s)] \in Seq(Units) /\ t \in Seq(Units) /\ p \in Nat
        /\ Piece(t, buf[From(s)], p) /\ Script(From(s))' = t
    BY <1>1, ReachedNext DEF Flow, Tidy, Script
  <1>4. CASE UNCHANGED got
    BY <1>1, <1>4, PlacedKept
  <1>5. CASE \E k \in 0 .. Len(buf[Src]), r \in Statuses : Write(Dest, buf[Src], k, r)
    <2>1. PICK k \in 0 .. Len(buf[From(s)]), r \in Statuses : Write(To(s), buf[From(s)], k, r)
      BY <1>2, <1>5
    <2>2. got'[To(s)] = got[To(s)] \o SubSeq(buf[From(s)], 1, k)
      BY <1>2, <1>3, <2>1, WriteGot
    <2>3. Len(got[To(s)] \o SubSeq(buf[From(s)], 1, k)) = Len(got[To(s)]) + k
      BY <1>3, <2>1, CutLengths, Zenon
    <2>4. Reached(s)' = p + k
      <3>1. Reached(s)' = (Len(got[To(s)]) + k) + Len(header[s]) + Len(out[From(s)])
        BY <1>1, <2>2, <2>3 DEF Reached
      <3>2. /\ Len(got[To(s)]) \in Nat /\ Len(header[s]) \in Nat /\ Len(out[From(s)]) \in Nat
            /\ k \in Nat
        BY <1>3
      <3> DEFINE g == Len(got[To(s)])
                 h == Len(header[s])
                 o == Len(out[From(s)])
                 x == Reached(s)
                 y == Reached(s)'
      <3>3. /\ y = (g + k) + h + o /\ x = g + h + o /\ g \in Nat /\ h \in Nat /\ o \in Nat
            /\ k \in Nat
        BY ONLY <3>1, <3>2 DEF Reached
      <3> HIDE DEF g, h, o, x, y
      <3>4. y = x + k
        BY ONLY <3>3
      <3> QED BY ONLY <3>4 DEF x, y, p
    <2>5. p + k <= Len(t) /\ k \in Nat
      BY <1>3 DEF Piece
    <2>6. p # 0 /\ BodyAt(t, p, body[s])
      BY <1>1 DEF Placed, Expects
    <2> HIDE DEF t, p
    <2>7. BodyAt(t, p + k, body[s]) /\ Begun(t, p + k) = Begun(t, p)
      BY <1>1, <1>3, <2>5, <2>6, RestPassed
    <2>8. p + k # 0
      BY <1>3, <2>5, <2>6
    <2>9. Placed(s)'
      BY <1>1, <1>3, <2>4, <2>7, <2>8 DEF Placed, Expects
    <2>10. Number(s) = Begun(t, p) + 0
      BY <1>1 DEF Number, t, p
    <2>11. Number(s)' = Begun(t, p + k) + 0
      BY <1>1, <1>3, <2>4 DEF Number
    <2> QED BY <2>7, <2>9, <2>10, <2>11 DEF Steady
  <1> QED BY <1>4, <1>5 DEF ForwardToClose

(* Every other step takes no element. *)
LEMMA PlacedStep ==
    ASSUME NEW s \in Streams, TypeInv, Flow(s), Messages(Script(From(s))), Placed(s), [Next]_vars,
           ~Accept, s = Stream => ~StartRequest /\ ~StartResponse,
           PushHeader /\ s = Stream => process_type[current[s]] # "DENY" \/ UNCHANGED message_state
    PROVE  Steady(s)
  <1> USE DEF bufVars, streamVars, netVars, peerVars
  <1>1. ASSUME Kept(s), encoding'[s] = encoding[s] PROVE Steady(s)
    BY <1>1, PlacedKept DEF Kept
  <1>2. CASE \/ SkipRead \/ ReadNothing \/ NoConnect \/ InitiateServerConnect \/ AfterProcess
             \/ StreamReturned \/ RegisterEvents \/ (\E c \in Sides : Dispatch(c))
             \/ ConnectResult \/ UNCHANGED vars
             \/ (\E c \in Sides : PeerClose(c) \/ PeerDrain(c))
    <2>1. UNCHANGED encoding
      BY <1>2 DEF SkipRead, ReadNothing, NoConnect, InitiateServerConnect, AfterProcess,
                  StreamReturned, RegisterEvents, Dispatch, HandleEvent, ConnectResult,
                  PeerClose, PeerDrain, vars
    <2> QED BY <1>1, <1>2, <2>1, AsideKept
  <1>3. CASE \E c \in Sides : PeerSend(c) \/ PeerReset(c)
    <2>1. UNCHANGED <<req, resp, got, header, out, message_state, body, encoding>>
      BY <1>3 DEF PeerSend, PeerReset
    <2> QED BY <2>1, PlacedKept
  <1>4. CASE /\ \/ ReadData \/ StartRequest \/ StartResponse \/ ParseHeader \/ PushHeader
                \/ EndMessage \/ ParseBody \/ ForwardBody \/ ForwardToClose
             /\ s # Stream
    BY <1>1, <1>4, OtherKept, EncodingKept
  <1>5. CASE ReadData
    <2>1. UNCHANGED <<req, resp, got, header, out, message_state, body, encoding>>
      BY <1>5 DEF ReadData
    <2> QED BY <2>1, PlacedKept
  <1>6. CASE ParseHeader /\ s = Stream
    BY <1>6, ParseHeaderPlaced
  <1>7. CASE PushHeader /\ s = Stream
    BY <1>7, PushHeaderPlaced
  <1>8. CASE EndMessage /\ s = Stream
    BY <1>8, EndMessagePlaced
  <1>9. CASE ParseBody /\ s = Stream
    BY <1>9, ParseBodyPlaced
  <1>10. CASE ForwardBody /\ s = Stream
    BY <1>10, ForwardBodyPlaced
  <1>11. CASE ForwardToClose /\ s = Stream
    BY <1>11, ForwardToClosePlaced
  <1> QED BY <1>2, <1>3, <1>4, <1>5, <1>6, <1>7, <1>8, <1>9, <1>10, <1>11 DEF Next, Step, Peer

-----------------------------------------------------------------------------
(***************************************************************************)
(* The elements.  The one a request stream took last is the last one of    *)
(* the queue, unless it was taken from the queue already (an element may   *)
(* be marked complete by the response that used it before).                *)
(***************************************************************************)
Held ==
    /\ QueueInv
    /\ active_queue # <<>> /\ message_state["request"] # "START_MESSAGE" =>
         active_queue[Len(active_queue)] = current["request"]

(* The request in the pipeline that is to be denied is the last one. *)
DenyLast ==
    /\ DenyStuck
    /\ \A i \in 1 .. Len(active_queue) :
         process_type[active_queue[i]] = "DENY" => i = Len(active_queue)
    /\ message_state["request"] # "START_MESSAGE" /\ process_type[current["request"]] = "DENY"
         => Stuck

(* The request stream keeps its element, or has none. *)
RequestKeeps ==
    \/ message_state'["request"] = "START_MESSAGE"
    \/ message_state["request"] # "START_MESSAGE" /\ current'["request"] = current["request"]

(* ParseHeader refuses a request. *)
Refuses ==
    /\ Stream = "request" /\ message_state["request"] = "PARSE_HEADER"
    /\ UNCHANGED <<active_queue, message_state, current, header>>
    /\ buf["client"] # <<>> /\ ~Expected(Head(buf["client"]))
    /\ process_type' = [process_type EXCEPT ![current["request"]] = "DENY"]

LEMMA ElementSteps ==
    ASSUME TypeInv, [Next]_vars, ~Accept
    PROVE  \/ UNCHANGED <<process_type, active_queue>> /\ RequestKeeps
           \/ /\ StartRequest /\ QueueElement /\ message_state'["request"] = "PARSE_HEADER"
              /\ current'["request"] = NextFree
              /\ process_type' = [process_type EXCEPT ![NextFree] = "NORMAL"]
           \/ StartResponse /\ DequeueElement /\ UNCHANGED process_type /\ RequestKeeps
           \/ ParseHeader /\ Refuses
  <1> USE DEF elemVars, qvars, streamVars
  <1>1. /\ "request" \in Streams /\ current \in [Streams -> Elements \cup {0}]
        /\ message_state \in [Streams -> MessageStates] /\ Stream \in Streams
    BY Running DEF TypeInv, TypeOK, StreamTypeOK, Streams
  <1>2. ASSUME message_state'["request"] = message_state["request"],
               current'["request"] = current["request"]
        PROVE  RequestKeeps
    BY <1>2 DEF RequestKeeps
  <1>3. CASE StartRequest
    BY <1>1, <1>2, <1>3 DEF StartRequest, TakeElement, GoTo
  <1>4. CASE StartResponse
    <2>1. "response" # "request" /\ Stream = "response"
      BY <1>4 DEF StartResponse
    <2>2. message_state'["request"] = message_state["request"]
      BY <1>1, <1>4, <2>1 DEF StartResponse, GoTo
    <2>3. current'["request"] = current["request"]
      BY <1>1, <1>4, <2>1 DEF StartResponse, TakeElement
    <2>4. RequestKeeps
      BY <1>2, <2>2, <2>3
    <2> QED BY <1>4, <2>4 DEF StartResponse
  <1>5. CASE ParseHeader
    <2>1. Stream = "request" => Src = "client"
      BY DEF Src, Stream
    <2>2. UNCHANGED <<active_queue, current>> /\ message_state[Stream] = "PARSE_HEADER"
      BY <1>5 DEF ParseHeader, Processing
    <2>3. \/ UNCHANGED <<process_type, message_state>>
          \/ UNCHANGED process_type /\ GoTo("PUSH_HEADER")
          \/ /\ Stream = "request" /\ UNCHANGED <<message_state, header>>
             /\ buf[Src] # <<>> /\ ~Expected(Head(buf[Src]))
             /\ process_type' = [process_type EXCEPT ![current["request"]] = "DENY"]
      BY <1>5 DEF ParseHeader
    <2>4. CASE UNCHANGED <<process_type, message_state>>
      BY <1>2, <2>2, <2>4
    <2>5. CASE UNCHANGED process_type /\ GoTo("PUSH_HEADER")
      <3>1. CASE Stream = "request"
        BY <2>2, <2>5, <3>1 DEF RequestKeeps
      <3>2. CASE Stream # "request"
        BY <1>1, <1>2, <2>2, <2>5, <3>2 DEF GoTo
      <3> QED BY <2>2, <2>5, <3>1, <3>2
    <2> QED BY <1>5, <2>1, <2>2, <2>3, <2>4, <2>5 DEF Refuses
  <1>6. CASE PushHeader
    <2>1. /\ UNCHANGED <<process_type, active_queue, current>>
          /\ message_state[Stream] = "PUSH_HEADER"
          /\ UNCHANGED message_state \/ GoTo("PARSE_BODY")
      BY <1>6 DEF PushHeader, Processing
    <2>2. CASE Stream = "request"
      BY <2>1, <2>2 DEF RequestKeeps
    <2>3. CASE Stream # "request"
      BY <1>1, <1>2, <2>1, <2>3 DEF GoTo
    <2> QED BY <2>1, <2>2, <2>3
  <1>7. CASE EndMessage \/ ForwardBody
    <2>1. /\ UNCHANGED <<process_type, active_queue>>
          /\ UNCHANGED <<message_state, current>> \/ CompleteMessage
      BY <1>7 DEF EndMessage, ForwardBody
    <2>2. CASE CompleteMessage /\ Stream = "request"
      BY <1>1, <2>1, <2>2 DEF CompleteMessage, GoTo, RequestKeeps
    <2>3. CASE CompleteMessage /\ Stream # "request"
      BY <1>1, <1>2, <2>1, <2>3 DEF CompleteMessage, GoTo
    <2> QED BY <1>2, <2>1, <2>2, <2>3
  <1>8. CASE \/ SkipRead \/ ReadData \/ ReadNothing \/ ParseBody
             \/ ForwardToClose \/ NoConnect \/ InitiateServerConnect
    BY <1>2, <1>8 DEF SkipRead, ReadData, ReadNothing, ParseBody, ForwardToClose, NoConnect,
                InitiateServerConnect
  <1>9. CASE \/ AfterProcess \/ StreamReturned \/ RegisterEvents \/ ConnectResult
             \/ (\E c \in Sides : Dispatch(c) \/ Peer(c)) \/ UNCHANGED vars
    BY <1>2, <1>9 DEF AfterProcess, StreamReturned, RegisterEvents, ConnectResult, vars,
                Dispatch, HandleEvent, Peer, PeerSend, PeerClose, PeerReset, PeerDrain
  <1> QED BY <1>3, <1>4, <1>5, <1>6, <1>7, <1>8, <1>9 DEF Next, Step

LEMMA HeldStep ==
    ASSUME TypeInv, Held, [Next]_vars
    PROVE  Held'
  <1>1. QueueInv'
    BY QueueSteps, QueueInvStep DEF Held
  <1>2. active_queue \in Seq(Elements)
    BY DEF TypeInv, TypeOK, QueueTypeOK
  <1>3. CASE Accept
    BY <1>1, <1>3 DEF Accept, EmptyQueue, Held
  <1>4. CASE UNCHANGED <<process_type, active_queue>> /\ RequestKeeps
    BY <1>1, <1>4 DEF Held, RequestKeeps
  <1>5. CASE QueueElement /\ current'["request"] = NextFree
    <2>1. NextFree \in Elements
      BY <1>5, QueueTypes DEF QueueElement, TypeInv, TypeOK
    <2>2. Append(active_queue, NextFree)[Len(Append(active_queue, NextFree))] = NextFree
      BY <1>2, <2>1
    <2> QED BY <1>1, <1>5, <2>2 DEF Held, QueueElement
  <1>6. CASE DequeueElement /\ RequestKeeps
    <2>1. active_queue # <<>> /\ active_queue' = Tail(active_queue)
      BY <1>6 DEF DequeueElement, QueueEmpty
    <2>2. active_queue' # <<>> => active_queue'[Len(active_queue')] = active_queue[Len(active_queue)]
      BY <1>2, <2>1
    <2> QED BY <1>1, <1>6, <2>1, <2>2 DEF Held, RequestKeeps
  <1>7. CASE Refuses
    BY <1>1, <1>7 DEF Held, Refuses
  <1> QED BY <1>3, <1>4, <1>5, <1>6, <1>7, ElementSteps

(* What is refused stays in the buffer. *)
LEMMA RefusesStuck ==
    ASSUME \A t \in Requests : NoOver(t), RequestFlow, Refuses
    PROVE  Stuck
  <1>1. "request" \in Streams /\ From("request") = "client" /\ Script("client") = req
    BY DEF Streams, From, Script
  <1>2. NoOver(req) /\ buf["client"] # <<>>
    BY DEF RequestFlow, Scripted, Refuses
  <1>3. Head(buf["client"]).k # "over"
    BY <1>1, <1>2, HeadSaid DEF RequestFlow, NoOver
  <1> QED BY <1>3 DEF Refuses, Stuck, Expected

LEMMA DenyLastStep ==
    ASSUME \A t \in Requests : NoOver(t), RequestFlow, Held, DenyLast, [Next]_vars
    PROVE  DenyLast'
  <1>1. /\ TypeInv /\ active_queue \in Seq(Elements)
        /\ process_type \in [Elements -> {"NORMAL", "HEAD", "DENY"}]
        /\ message_state["request"] # "START_MESSAGE" => current["request"] \in Elements
    BY DEF RequestFlow, TypeInv, TypeOK, QueueTypeOK, ElemTypeOK, HoldsElement, Streams
  <1>2. DenyStuck'
    BY DenyStuckStep DEF DenyLast
  <1>3. CASE Accept
    <2>1. active_queue' = <<>> /\ message_state' = [s \in Streams |-> "START_MESSAGE"]
      BY <1>3 DEF Accept, EmptyQueue, ResetStreams
    <2> QED BY <1>2, <2>1 DEF DenyLast, Streams
  <1>4. CASE Stuck /\ ~Accept
    <2>1. Stuck'
      BY <1>1, <1>4, StuckStep
    <2>2. SUFFICES \A i \in 1 .. Len(active_queue') :
                     process_type'[active_queue'[i]] = "DENY" => i = Len(active_queue')
      BY <1>2, <2>1, <2>2 DEF DenyLast
    <2>3. CASE UNCHANGED <<process_type, active_queue>>
      BY <2>3 DEF DenyLast
    <2>4. CASE StartRequest
      BY <1>4, <2>4 DEF StartRequest, Processing, Stuck
    <2>5. CASE DequeueElement /\ UNCHANGED process_type
      <3>1. active_queue # <<>> /\ active_queue' = Tail(active_queue)
        BY <2>5 DEF DequeueElement, QueueEmpty
      <3> QED BY <1>1, <2>5, <3>1 DEF DenyLast
    <2>6. CASE Refuses
      <3>1. \A i, j \in 1 .. Len(active_queue) : i # j => active_queue[i] # active_queue[j]
        BY DisjointLists DEF Held, QueueInv, QueueTypeOK, Conserved, Disjoint
      <3>2. active_queue # <<>> => active_queue[Len(active_queue)] = current["request"]
        BY <1>4 DEF Held, Stuck
      <3>3. SUFFICES ASSUME NEW i \in 1 .. Len(active_queue), process_type'[active_queue[i]] = "DENY"
                     PROVE  i = Len(active_queue)
        BY <2>6, <3>3 DEF Refuses
      <3>4. active_queue # <<>> /\ Len(active_queue) \in 1 .. Len(active_queue) /\ active_queue[i] \in Elements
        BY <1>1
      <3>5. CASE active_queue[i] = current["request"]
        BY <3>1, <3>2, <3>4, <3>5
      <3>6. CASE active_queue[i] # current["request"]
        <4>1. process_type[active_queue[i]] = "DENY"
          BY <1>1, <2>6, <3>3, <3>4, <3>6 DEF Refuses
        <4> QED BY <4>1 DEF DenyLast
      <3> QED BY <3>5, <3>6
    <2> QED BY <1>1, <1>4, <2>3, <2>4, <2>5, <2>6, ElementSteps
  <1>5. CASE ~Stuck /\ ~Accept
    <2>1. /\ \A i \in 1 .. Len(active_queue) : process_type[active_queue[i]] # "DENY"
          /\ message_state["request"] # "START_MESSAGE" => process_type[current["request"]] # "DENY"
      BY <1>5 DEF DenyLast, DenyStuck
    <2>2. SUFFICES /\ \A i \in 1 .. Len(active_queue') : process_type'[active_queue'[i]] # "DENY"
                   /\ message_state'["request"] # "START_MESSAGE" =>
                        process_type'[current'["request"]] # "DENY"
      BY <1>2, <2>2 DEF DenyLast
    <2>3. CASE UNCHANGED <<process_type, active_queue>> /\ RequestKeeps
      BY <2>1, <2>3 DEF RequestKeeps
    <2>4. CASE /\ QueueElement /\ current'["request"] = NextFree
               /\ process_type' = [process_type EXCEPT ![NextFree] = "NORMAL"]
      <3>1. ~QueueFull /\ active_queue' = Append(active_queue, NextFree)
        BY <2>4 DEF QueueElement
      <3>2. NextFree \in Elements
        BY <1>1, <3>1, QueueTypes DEF TypeInv, TypeOK
      <3>3. \A i \in 1 .. Len(active_queue') : process_type'[active_queue'[i]] # "DENY"
        BY <1>1, <2>1, <2>4, <3>1, <3>2
      <3> QED BY <1>1, <2>4, <3>2, <3>3
    <2>5. CASE DequeueElement /\ UNCHANGED process_type /\ RequestKeeps
      <3>1. active_queue # <<>> /\ active_queue' = Tail(active_queue)
        BY <2>5 DEF DequeueElement, QueueEmpty
      <3>2. \A i \in 1 .. Len(active_queue') : process_type'[active_queue'[i]] # "DENY"
        BY <1>1, <2>1, <2>5, <3>1
      <3> QED BY <2>1, <2>5, <3>2 DEF RequestKeeps
    <2>6. CASE Refuses
      BY <1>5, <2>6, RefusesStuck
    <2> QED BY <1>1, <1>5, <2>3, <2>4, <2>5, <2>6, ElementSteps
  <1> QED BY <1>3, <1>4, <1>5

-----------------------------------------------------------------------------
(* A handler that serves its first client, or its next. *)
LEMMA AcceptPlaced ==
    ASSUME NEW s \in Streams, Accept, Messages(Script(From(s))')
    PROVE  Placed(s)' /\ Number(s)' = 0
  <1>1. got' = NoUnits /\ out' = NoUnits
    BY DEF Accept, ResetConnections, ResetBuffers
  <1>2. header'[s] = <<>> /\ message_state'[s] = "START_MESSAGE"
    BY DEF Accept, ResetStreams
  <1>3. got'[To(s)] = <<>> /\ out'[From(s)] = <<>>
    BY <1>1 DEF NoUnits, From, To, Sides
  <1>4. Reached(s)' = 0
    BY <1>2, <1>3 DEF Reached
  <1>5. Placed(s)'
    BY <1>2, <1>4 DEF Placed, Expects, Messages
  <1>6. Number(s)' = 0
    BY <1>2, <1>4 DEF Number, Begun
  <1> QED BY <1>5, <1>6

LEMMA InitPlaced ==
    ASSUME NEW s \in Streams, Init, Messages(Script(From(s)))
    PROVE  Placed(s) /\ Number(s) = 0
  <1>1. /\ got = NoUnits /\ out = NoUnits /\ header = [x \in Streams |-> <<>>]
        /\ message_state = [x \in Streams |-> "START_MESSAGE"]
    BY Zenon DEF Init
  <1>2. /\ got[To(s)] = <<>> /\ out[From(s)] = <<>> /\ header[s] = <<>>
        /\ message_state[s] = "START_MESSAGE"
    BY <1>1 DEF NoUnits, From, To, Sides
  <1>3. Reached(s) = 0
    BY <1>2 DEF Reached
  <1>4. Placed(s)
    BY <1>2, <1>3 DEF Placed, Expects, Messages
  <1>5. Number(s) = 0
    BY <1>2, <1>3 DEF Number, Begun
  <1> QED BY <1>4, <1>5

(* While a client is served the scripts stay, and what a peer got it has. *)
LEMMA ScriptsKept ==
    ASSUME [Next]_vars, ~Accept
    PROVE  UNCHANGED <<req, resp>>
  <1> USE DEF peerVars, vars
  <1>1. CASE \/ SkipRead \/ ReadData \/ ReadNothing \/ StartRequest \/ StartResponse
             \/ ParseHeader \/ PushHeader \/ EndMessage \/ ParseBody \/ ForwardBody
             \/ ForwardToClose \/ NoConnect
    BY <1>1 DEF SkipRead, ReadData, ReadNothing, StartRequest, StartResponse, ParseHeader,
                PushHeader, EndMessage, ParseBody, ForwardBody, ForwardToClose, NoConnect
  <1>2. CASE \/ InitiateServerConnect \/ AfterProcess \/ StreamReturned \/ RegisterEvents
             \/ ConnectResult \/ (\E c \in Sides : Dispatch(c) \/ Peer(c)) \/ UNCHANGED vars
    BY <1>2 DEF InitiateServerConnect, AfterProcess, StreamReturned, RegisterEvents,
                ConnectResult, Dispatch, HandleEvent, Peer, PeerSend, PeerClose, PeerReset,
                PeerDrain
  <1> QED BY <1>1, <1>2 DEF Next, Step

LEMMA SetOfParts ==
    ASSUME NEW g \in Seq(Units), NEW us \in Seq(Units)
    PROVE  \A u \in ToSet(g) : u \in ToSet(g \o us)
  <1> DEFINE j == g \o us
  <1>1. Len(j) = Len(g) + Len(us) /\ \A i \in 1 .. Len(g) : j[i] = g[i]
    OBVIOUS
  <1>2. Len(g) \in Nat /\ Len(us) \in Nat /\ j \in Seq(Units)
    OBVIOUS
  <1> HIDE DEF j
  <1>3. \A i \in DOMAIN g : i \in DOMAIN j /\ j[i] = g[i]
    BY <1>1, <1>2
  <1>4. \A u \in ToSet(g) : u \in ToSet(j)
    BY <1>3, Zenon DEF ToSet
  <1> QED BY <1>4 DEF j

LEMMA DeliveredStays ==
    ASSUME TypeInv, [Next]_vars, ~Accept, NEW c \in Sides, NEW u, Delivered(c, u)
    PROVE  Delivered(c, u)'
  <1> USE DEF netVars
  <1>1. got \in [Sides -> Seq(Units)]
    BY DEF TypeInv, TypeOK, PeerTypeOK
  <1>2. ASSUME NEW us \in Seq(Units), NEW k \in 0 .. Len(us), NEW r, Write(Dest, us, k, r)
        PROVE  Delivered(c, u)'
    <2>1. Dest \in Sides
      BY DEF Dest, Sides
    <2>2. got'[Dest] = got[Dest] \o SubSeq(us, 1, k) /\ \A d \in Sides : d # Dest => got'[d] = got[d]
      BY <1>2, <2>1, WriteGot
    <2>3. SubSeq(us, 1, k) \in Seq(Units)
      OBVIOUS
    <2>4. CASE c = Dest
      BY <1>1, <2>2, <2>3, <2>4, SetOfParts DEF Delivered
    <2>5. CASE c # Dest
      BY <2>2, <2>5 DEF Delivered
    <2> QED BY <2>4, <2>5
  <1>3. ASSUME UNCHANGED got PROVE Delivered(c, u)'
    BY <1>3 DEF Delivered
  <1>4. /\ header[Stream] \in Seq(Units) /\ out[Src] \in Seq(Units) /\ buf[Src] \in Seq(Units)
    BY Running DEF TypeInv, TypeOK, StreamTypeOK, BufTypeOK, Src, Sides
  <1>5. CASE PushHeader
    <2>1. \E k \in 0 .. Len(header[Stream]), r \in Statuses : Write(Dest, header[Stream], k, r)
      BY <1>5 DEF PushHeader
    <2> QED BY <1>2, <1>4, <2>1
  <1>6. CASE ForwardBody
    <2>1. \E k \in 0 .. Len(out[Src]), r \in Statuses : Write(Dest, out[Src], k, r)
      BY <1>6 DEF ForwardBody
    <2> QED BY <1>2, <1>4, <2>1
  <1>7. CASE ForwardToClose
    <2>1. \/ UNCHANGED got
          \/ \E k \in 0 .. Len(buf[Src]), r \in Statuses : Write(Dest, buf[Src], k, r)
      BY <1>7 DEF ForwardToClose
    <2> QED BY <1>2, <1>3, <1>4, <2>1
  <1>8. CASE \/ SkipRead \/ ReadData \/ ReadNothing \/ StartRequest \/ StartResponse
             \/ ParseHeader \/ EndMessage \/ ParseBody \/ NoConnect
    BY <1>3, <1>8 DEF SkipRead, ReadData, ReadNothing, StartRequest, StartResponse, ParseHeader,
                EndMessage, ParseBody, NoConnect
  <1>9. CASE \/ InitiateServerConnect \/ AfterProcess \/ StreamReturned \/ RegisterEvents
             \/ ConnectResult \/ (\E d \in Sides : Dispatch(d) \/ Peer(d)) \/ UNCHANGED vars
    BY <1>3, <1>9 DEF InitiateServerConnect, AfterProcess, StreamReturned, RegisterEvents,
                ConnectResult, Dispatch, HandleEvent, Peer, PeerSend, PeerClose, PeerReset,
                PeerDrain, vars
  <1> QED BY <1>5, <1>6, <1>7, <1>8, <1>9 DEF Next, Step

-----------------------------------------------------------------------------
(* Scripts of the client and of the server for the theorem below. *)
OneBad(t) == \A i, j \in DOMAIN t : t[i].k = "bad" /\ t[j].k = "bad" => t[i].m = t[j].m

Sound(t) == \A i \in DOMAIN t : t[i].k \notin {"bad", "over", "error"}

(* Each message of the client has had its answer, or an element of the queue. *)
Paired == Number("request") = Number("response") + Len(active_queue)

(* The input a stream refuses belongs to its last message. *)
LEMMA RefusedBad ==
    ASSUME NEW s \in Streams, Flow(s), Messages(Script(From(s))), Placed(s),
           message_state[s] = "PARSE_HEADER", buf[From(s)] # <<>>, NEW u, u = Head(buf[From(s)]),
           ~(u.k \in {"start", "field"} \cup BodyKinds /\ (u.k = "start") = (header[s] = <<>>))
    PROVE  \E i \in DOMAIN Script(From(s)) :
               Script(From(s))[i].k = "bad" /\ Script(From(s))[i].m = Number(s)
  <1> DEFINE t == Script(From(s))
             p == Reached(s)
  <1>1. /\ t \in Seq(Units) /\ buf[From(s)] \in Seq(Units) /\ p \in Nat
        /\ Piece(t, buf[From(s)], p) /\ Begun(t, p) \in Nat
    BY ReachedNext
  <1>2. Expects(t, p, "PARSE_HEADER", header[s], encoding[s], body[s])
    BY DEF Placed
  <1>3. Number(s) = Begun(t, p) + (IF header[s] = <<>> THEN 1 ELSE 0)
    BY DEF Number
  <1>4. Numbered(t)
    BY DEF Messages
  <1> HIDE DEF t, p
  <1>5. p + 1 \in DOMAIN t /\ u = t[p + 1] /\ (p + 1) - 1 = p
    BY <1>1 DEF Piece
  <1>6. t[p + 1].m = Begun(t, p) + (IF Opens(t, p + 1) THEN 1 ELSE 0)
    BY <1>4, <1>5 DEF Numbered
  <1>7. CASE header[s] = <<>>
    <2>1. Opens(t, p + 1)
      BY <1>2, <1>5, <1>7 DEF Expects, MessageAt
    <2>2. t[p + 1].k = "bad"
      BY <1>5, <1>7, <2>1 DEF Opens
    <2> QED BY <1>3, <1>5, <1>6, <1>7, <2>1, <2>2 DEF t
  <1>8. CASE header[s] # <<>>
    <2>1. ~Opens(t, p + 1) /\ t[p + 1].k \in {"field", "bad"} \cup BodyKinds
      BY <1>2, <1>5, <1>8 DEF Expects, HeaderAt
    <2>2. t[p + 1].k = "bad"
      BY <1>5, <1>8, <2>1 DEF BodyKinds
    <2> QED BY <1>3, <1>5, <1>6, <1>8, <2>1, <2>2 DEF t
  <1> QED BY <1>7, <1>8

LEMMA StuckBad ==
    ASSUME Flow("request"), Messages(req), Placed("request"), Stuck
    PROVE  \E i \in DOMAIN req : req[i].k = "bad" /\ req[i].m = Number("request")
  <1>1. /\ "request" \in Streams /\ From("request") = "client" /\ Script("client") = req
    BY DEF Streams, From, Script
  <1> QED BY <1>1, RefusedBad DEF Stuck

(* Between two messages a peer has all of the messages begun. *)
LEMMA EarlierGot ==
    ASSUME NEW t \in Seq(Units), Messages(t), NEW g \in Seq(Units), Piece(t, g, 0),
           MessageAt(t, Len(g)), NEW j \in DOMAIN t, t[j].m <= Begun(t, Len(g))
    PROVE  t[j] \in ToSet(g)
  <1> DEFINE n == Len(g)
  <1>1. n \in Nat /\ n <= Len(t) /\ (\A i \in 1 .. n : g[i] = t[i]) /\ DOMAIN g = 1 .. n
    BY DEF Piece
  <1>2. \A i \in DOMAIN t : t[i] \in Units
    OBVIOUS
  <1>3. \A i \in DOMAIN t : t[i].m \in Nat
    BY <1>2 DEF Units
  <1>4. MessageAt(t, n) /\ t[j].m <= Begun(t, n)
    OBVIOUS
  <1> HIDE DEF n
  <1>5. j \in 1 .. n
    <2>1. SUFFICES ASSUME n < j PROVE FALSE
      BY <1>1
    <2>2. n + 1 \in DOMAIN t /\ (n + 1) - 1 = n /\ (n + 1 < j \/ n + 1 = j)
      BY <1>1, <2>1
    <2>3. Opens(t, n + 1)
      BY <1>4, <2>2 DEF MessageAt
    <2>4. t[n + 1].m = Begun(t, n) + 1
      BY <2>2, <2>3 DEF Messages, Numbered
    <2>5. n + 1 < j => t[n + 1].m <= t[j].m
      BY <2>2, LaterNumbers DEF Messages
    <2>6. Begun(t, n) \in Nat
      BY <1>1, <1>3 DEF Begun
    <2>7. t[n + 1].m <= t[j].m /\ t[j].m \in Nat
      BY <1>3, <2>2, <2>5
    <2> QED BY ONLY <1>4, <2>4, <2>6, <2>7
  <1>6. j \in DOMAIN g /\ g[j] = t[j]
    BY <1>1, <1>5
  <1> QED BY <1>6, Zenon DEF ToSet

(***************************************************************************)
(* Every response to a request before the refused one has reached the      *)
(* client in full.                                                         *)
(***************************************************************************)
Turn ==
    \A i \in DOMAIN req, j \in DOMAIN resp :
        req[i].k = "bad" /\ resp[j].m < req[i].m => Delivered("client", resp[j])

(* So it is when the refused request comes to the front of the queue. *)
LEMMA TurnComes ==
    ASSUME RequestFlow, Messages(req), OneBad(req), Placed("request"), Messages(resp),
           Flow("response"), Placed("response"), Paired, Stuck, Len(active_queue) = 1,
           message_state["response"] = "START_MESSAGE"
    PROVE  Turn
  <1> DEFINE g == got["client"]
             n == Len(got["client"])
  <1>1. /\ "response" \in Streams /\ From("response") = "server" /\ To("response") = "client"
        /\ Script("server") = resp
    BY DEF Streams, From, To, Script
  <1>2. /\ resp \in Seq(Units) /\ g \in Seq(Units) /\ Piece(resp, g, 0) /\ n \in Nat
        /\ header["response"] = <<>> /\ out["server"] = <<>>
    BY <1>1 DEF Flow, Linked, Pipe, Chain, Tidy
  <1>3. Reached("response") = n
    <2>1. Len(header["response"]) = 0 /\ Len(out["server"]) = 0
      BY <1>2
    <2>2. Reached("response") = n + Len(header["response"]) + Len(out["server"])
      BY <1>1 DEF Reached
    <2>3. n \in Nat
      BY <1>2
    <2> HIDE DEF n
    <2>4. Reached("response") = n + 0 + 0
      BY ONLY <2>1, <2>2
    <2> QED BY ONLY <2>3, <2>4
  <1>4. MessageAt(resp, n) /\ Number("response") = Begun(resp, n) + 0
    BY <1>1, <1>3 DEF Placed, Expects, Number
  <1>5. Begun(resp, n) \in Nat
    BY <1>1, <1>3, ReachedNext
  <1>6. Number("request") = Begun(resp, n) + 1
    BY <1>4, <1>5 DEF Paired
  <1>7. PICK b \in DOMAIN req : req[b].k = "bad" /\ req[b].m = Number("request")
    BY StuckBad DEF RequestFlow
  <1>8. ASSUME NEW i \in DOMAIN req, NEW j \in DOMAIN resp, req[i].k = "bad",
               resp[j].m < req[i].m
        PROVE  Delivered("client", resp[j])
    <2>1. req[i].m = Begun(resp, n) + 1
      BY <1>6, <1>7, <1>8 DEF OneBad
    <2>2. resp[j] \in Units
      BY <1>2
    <2>3. resp[j].m \in Nat
      BY <2>2 DEF Units
    <2>4. resp[j].m <= Begun(resp, n)
      BY ONLY <1>5, <1>8, <2>1, <2>3
    <2> QED BY <1>2, <1>4, <2>4, EarlierGot DEF Delivered
  <1> QED BY <1>8 DEF Turn

(* The inductive invariant. *)
InTurn ==
    /\ RequestFlow /\ Held /\ DenyLast /\ Placed("request")
    /\ \/ Flow("response") /\ Placed("response") /\ Paired
       \/ Refusing /\ Turn
       \/ Ending /\ ErrorInTurn

TurnScripts ==
    /\ \A t \in Requests : Messages(t) /\ NoOver(t) /\ OneBad(t)
    /\ \A t \in Responses : Messages(t) /\ Sound(t)

LEMMA TurnScripted ==
    ASSUME TurnScripts, Scripted
    PROVE  /\ Messages(req) /\ NoOver(req) /\ OneBad(req) /\ Messages(resp) /\ Sound(resp)
           /\ NoError(resp)
  BY DEF TurnScripts, Scripted, Sound, NoError

(* The request stream takes an element for each message it begins. *)
LEMMA RequestPlaced ==
    ASSUME TurnScripts, RequestFlow, Held, DenyLast, Placed("request"), [Next]_vars, ~Accept
    PROVE  /\ Placed("request")'
           /\ \/ Number("request")' = Number("request") /\ ~(StartRequest /\ QueueElement)
              \/ StartRequest /\ QueueElement /\ Number("request")' = Number("request") + 1
  <1>1. /\ "request" \in Streams /\ From("request") = "client" /\ Script("client") = req
        /\ TypeInv /\ Messages(req) /\ Flow("request")
    BY TurnScripted DEF Streams, From, Script, RequestFlow
  <1>2. CASE StartRequest
    <2>1. "request" = Stream /\ UNCHANGED header /\ message_state["request"] = "START_MESSAGE"
      BY <1>2 DEF StartRequest, Processing
    <2>3. /\ Placed("request")'
          /\ \/ /\ UNCHANGED qvars /\ message_state'["request"] = "START_MESSAGE"
                /\ Number("request")' = Number("request")
             \/ /\ message_state'["request"] = "PARSE_HEADER"
                /\ Number("request")' = Number("request") + 1
      BY <1>1, <1>2, <2>1, StartPlaced
    <2>4. QueueElement <=> message_state'["request"] # "START_MESSAGE"
      BY <1>1, <1>2, <2>1 DEF StartRequest, QueueElement, GoTo, TypeInv, TypeOK, StreamTypeOK
    <2> QED BY <1>2, <2>3, <2>4
  <1>3. CASE ~StartRequest
    <2>1. "request" = Stream => ~StartResponse
      BY DEF StartResponse
    <2>2. PushHeader /\ "request" = Stream => process_type[current["request"]] # "DENY"
      BY DEF PushHeader, Processing, DenyLast, Stuck
    <2>3. Steady("request")
      BY <1>1, <1>3, <2>1, <2>2, PlacedStep
    <2> QED BY <1>3, <2>3 DEF Steady
  <1> QED BY <1>2, <1>3

(* The refused request comes to the front, and the proxy answers it. *)
LEMMA RefusalTurn ==
    ASSUME TurnScripts, RequestFlow, Held, DenyLast, Placed("request"), Flow("response"),
           Placed("response"), Paired, StartResponse, ~UNCHANGED header, [Next]_vars, ~Accept
    PROVE  Refusing' /\ Turn'
  <1>1. /\ TypeInv /\ active_queue \in Seq(Elements) /\ Messages(req) /\ OneBad(req)
        /\ Messages(resp) /\ NoError(resp) /\ "response" \in Streams
    BY TurnScripted DEF RequestFlow, TypeInv, TypeOK, QueueTypeOK, Streams
  <1>2. /\ Stream = "response" /\ active_queue # <<>> /\ process_type[FrontElement] = "DENY"
        /\ message_state["response"] = "START_MESSAGE"
        /\ header' = [header EXCEPT !["response"] = <<ErrorResponse>>]
        /\ current' = [current EXCEPT !["response"] = FrontElement]
        /\ GoTo("PUSH_HEADER") /\ UNCHANGED <<got, resp, process_type>>
    BY DEF StartResponse, Processing, QueueEmpty, TakeElement, netVars, peerVars, elemVars
  <1>3. 1 \in 1 .. Len(active_queue) /\ FrontElement = active_queue[1]
    BY <1>1, <1>2 DEF FrontElement
  <1>4. Stuck /\ Len(active_queue) = 1
    BY <1>2, <1>3 DEF DenyLast, DenyStuck
  <1>5. Turn
    BY <1>1, <1>2, <1>4, TurnComes
  <1>6. UNCHANGED <<req, resp>>
    BY ScriptsKept
  <1>7. Turn'
    BY <1>2, <1>5, <1>6 DEF Turn, Delivered
  <1>8. Piece(resp, got["client"], 0)
    BY <1>1 DEF Flow, Linked, Pipe, Chain, From, To, Script
  <1>9. /\ header'["response"] = <<ErrorResponse>> /\ message_state'["response"] = "PUSH_HEADER"
        /\ current'["response"] = FrontElement
    BY <1>1, <1>2 DEF GoTo, TypeInv, TypeOK, StreamTypeOK
  <1>10. Stuck'
    BY <1>1, <1>4, StuckStep
  <1> QED BY <1>2, <1>7, <1>8, <1>9, <1>10 DEF Refusing

(* Until the proxy answers the client has nothing but the server's bytes. *)
LEMMA NothingRefused ==
    ASSUME NEW t \in Seq(Units), NEW g \in Seq(Units), NoError(t), Piece(t, g, 0)
    PROVE  ErrorResponse \notin ToSet(g)
  <1>1. \A i \in DOMAIN g : g[i].k # "error"
    BY DEF Piece, NoError
  <1>2. ErrorResponse.k = "error"
    BY DEF ErrorResponse
  <1> QED BY <1>1, <1>2 DEF ToSet

(* The steps of the response stream while it passes the server's bytes on. *)
LEMMA PairedStep ==
    ASSUME TurnScripts, RequestFlow, Held, DenyLast, Placed("request"), Flow("response"),
           Placed("response"), Paired, [Next]_vars, ~Accept
    PROVE  \/ Flow("response")' /\ Placed("response")' /\ Paired'
           \/ Refusing' /\ Turn'
           \/ Ending' /\ ErrorInTurn'
  <1>1. /\ TypeInv /\ active_queue \in Seq(Elements) /\ Messages(resp) /\ Sound(resp)
        /\ NoError(resp) /\ resp \in Seq(Units)
    BY TurnScripted, ParameterAssumption DEF RequestFlow, TypeInv, TypeOK, QueueTypeOK, PeerTypeOK
  <1>2. /\ "response" \in Streams /\ From("response") = "server" /\ To("response") = "client"
        /\ Script("server") = resp
    BY DEF Streams, From, To, Script
  <1>3. /\ Number("request") \in Nat /\ Number("response") \in Nat /\ Len(active_queue) \in Nat
    <2>1. /\ Begun(Script(From("request")), Reached("request")) \in Nat
          /\ Begun(Script(From("response")), Reached("response")) \in Nat
      BY <1>2, ReachedNext DEF RequestFlow, Streams
    <2>2. Number("request") \in Nat /\ Number("response") \in Nat
      BY <2>1 DEF Number
    <2> QED BY <1>1, <2>2
  <1>4. CASE StartResponse /\ ~UNCHANGED header
    BY <1>4, RefusalTurn
  <1>5. CASE ~(StartResponse /\ ~UNCHANGED header)
    <2>1. Flow("response")'
      <3>1. ParseHeader /\ "response" = Stream /\ buf[Src] # <<>> => Head(buf[Src]).k # "over"
        <4>1. SUFFICES ASSUME "response" = Stream, buf[Src] # <<>> PROVE Head(buf[Src]).k # "over"
          OBVIOUS
        <4>2. Src = "server"
          BY <1>2, <4>1, Running
        <4>3. \E i \in DOMAIN resp : resp[i] = Head(buf["server"])
          BY <1>2, <4>1, <4>2, HeadSaid
        <4> QED BY <1>1, <4>2, <4>3 DEF Sound
      <3> QED BY <1>1, <1>2, <1>5, <3>1, FlowStep
    <2>2. CASE /\ PushHeader /\ Stream = "response" /\ process_type[current["response"]] = "DENY"
               /\ ~UNCHANGED message_state
      <3>1. Returns("SRC_CLOSED") /\ UNCHANGED strm
        BY <2>2 DEF PushHeader
      <3>2. Ending'
        BY <2>2, <3>1 DEF Ending, Returns, Stream
      <3>3. resp' \in Seq(Units) /\ NoError(resp')
        BY <1>1, ScriptsKept
      <3>4. got'["client"] \in Seq(Units) /\ Piece(resp', got'["client"], 0)
        BY <1>2, <2>1 DEF Flow, Linked, Pipe, Chain, Script
      <3>5. ErrorInTurn'
        BY <3>3, <3>4, NothingRefused DEF ErrorInTurn, Delivered
      <3> QED BY <3>2, <3>5
    <2>3. CASE ~ /\ PushHeader /\ Stream = "response" /\ process_type[current["response"]] = "DENY"
                 /\ ~UNCHANGED message_state
      <3>1. CASE StartResponse
        <4>1. Stream = "response" /\ UNCHANGED header /\ ~StartRequest
          BY <1>5, <3>1 DEF StartResponse, StartRequest
        <4>2. Number("request")' = Number("request")
          BY <4>1, RequestPlaced
        <4>3. /\ Placed("response")'
              /\ \/ UNCHANGED qvars /\ message_state'["response"] = "START_MESSAGE"
                    /\ Number("response")' = Number("response")
                 \/ /\ message_state'["response"] = "PARSE_HEADER"
                    /\ Number("response")' = Number("response") + 1
          BY <1>1, <1>2, <3>1, <4>1, StartPlaced
        <4>4. message_state'["response"] = "PARSE_HEADER" => DequeueElement
          BY <1>1, <1>2, <3>1, <4>1 DEF StartResponse, Processing, GoTo, TypeInv, TypeOK, StreamTypeOK
        <4>5. DequeueElement => Len(active_queue') = Len(active_queue) - 1
          BY <1>1 DEF DequeueElement, QueueEmpty
        <4>6. Number("request") = Number("response") + Len(active_queue)
          BY DEF Paired
        <4>7. Number("request")' = Number("response")' + Len(active_queue')
          BY <1>3, <4>2, <4>3, <4>4, <4>5, <4>6 DEF qvars
        <4> QED BY <2>1, <4>3, <4>7 DEF Paired
      <3>2. CASE ~StartResponse
        <4>1. "response" = Stream => ~StartRequest
          BY DEF StartRequest
        <4>2. Steady("response")
          BY <1>1, <1>2, <2>3, <3>2, <4>1, PlacedStep
        <4>3. CASE StartRequest /\ QueueElement
          <5>1. Number("request")' = Number("request") + 1
            BY <4>3, RequestPlaced
          <5>2. NextFree \in Elements
            BY <1>1, <4>3, QueueTypes DEF QueueElement, TypeInv, TypeOK
          <5>3. Len(active_queue') = Len(active_queue) + 1
            BY <1>1, <4>3, <5>2 DEF QueueElement
          <5>4. Number("request")' = Number("response")' + Len(active_queue')
            BY <1>3, <4>2, <5>1, <5>3 DEF Steady, Paired
          <5> QED BY <2>1, <4>2, <5>4 DEF Paired, Steady
        <4>4. CASE ~(StartRequest /\ QueueElement)
          <5>1. Number("request")' = Number("request")
            BY <4>4, RequestPlaced
          <5>2. active_queue' = active_queue
            BY <1>1, <3>2, <4>4, ElementSteps DEF Refuses
          <5> QED BY <2>1, <4>2, <5>1, <5>2 DEF Paired, Steady
        <4> QED BY <4>3, <4>4
      <3> QED BY <3>1, <3>2
    <2> QED BY <2>2, <2>3
  <1> QED BY <1>4, <1>5

(* While the proxy's answer waits, and when it is written. *)
LEMMA TurnStays ==
    ASSUME TypeInv, Turn, [Next]_vars, ~Accept
    PROVE  Turn'
  <1>1. UNCHANGED <<req, resp>> /\ "client" \in Sides
    BY ScriptsKept DEF Sides
  <1> QED BY <1>1, DeliveredStays DEF Turn

LEMMA InTurnStep ==
    ASSUME TurnScripts, InTurn, [Next]_vars
    PROVE  InTurn'
  <1>1. /\ \A t \in Requests : NoOver(t)
        /\ \A t \in Responses : NoError(t)
    BY DEF TurnScripts, Sound, NoError
  <1>2. RequestFlow' /\ Held' /\ DenyLast' /\ TypeInv /\ Scripted
    BY <1>1, RequestFlowStep, HeldStep, DenyLastStep DEF InTurn, RequestFlow
  <1>3. Messages(req') /\ NoOver(req') /\ Messages(resp')
    BY <1>2 DEF TurnScripts, RequestFlow, Scripted
  <1>4. CASE Accept
    <2>1. /\ "request" \in Streams /\ "response" \in Streams
          /\ Script(From("request"))' = req' /\ Script(From("response"))' = resp'
      BY DEF Streams, From, Script
    <2>2. /\ Placed("request")' /\ Number("request")' = 0
          /\ Placed("response")' /\ Number("response")' = 0
      BY <1>3, <1>4, <2>1, AcceptPlaced
    <2>3. Flow("response")' /\ Len(active_queue') = 0
      BY <1>4, <2>1, AcceptFlow DEF Accept, EmptyQueue
    <2> QED BY <1>2, <2>2, <2>3 DEF InTurn, Paired
  <1>5. CASE ~Accept
    <2>1. Placed("request")'
      BY <1>5, RequestPlaced DEF InTurn
    <2>2. CASE Flow("response") /\ Placed("response") /\ Paired
      BY <1>2, <1>5, <2>1, <2>2, PairedStep DEF InTurn
    <2>3. CASE Refusing /\ Turn
      <3>1. Turn'
        BY <1>2, <1>5, <2>3, TurnStays
      <3>2. ErrorInTurn'
        BY <1>3, <3>1 DEF ErrorInTurn, Turn, NoOver
      <3>3. Refusing' \/ Ending'
        BY <1>1, <1>2, <1>5, <2>3, RefusingStep
      <3> QED BY <1>2, <2>1, <3>1, <3>2, <3>3 DEF InTurn
    <2>4. CASE Ending /\ ErrorInTurn
      <3>1. Ending' /\ UNCHANGED <<got, req, resp>>
        BY <1>5, <2>4, EndingStep
      <3>2. ErrorInTurn'
        BY <2>4, <3>1 DEF ErrorInTurn, Delivered
      <3> QED BY <1>2, <2>1, <3>1, <3>2 DEF InTurn
    <2> QED BY <2>2, <2>3, <2>4 DEF InTurn
  <1> QED BY <1>4, <1>5

(***************************************************************************)
(* The proxy's error response takes the place of the response to the       *)
(* denied request: when the client has it, it has every response to an     *)
(* earlier request in full, in a pipeline of any depth, with any buffers   *)
(* and any blocked writes.  Nothing carries a number from a request to its *)
(* response: the theorem rests on the queue, which holds an element for    *)
(* each request that has no response yet, the denied one last.  The        *)
(* scripts are messages with consecutive numbers; a client's holds one     *)
(* message that is refused (the server would have to answer those before a *)
(* second one, which the proxy never forwards), and refused input stays in *)
(* the buffer; a server's holds none.                                      *)
(***************************************************************************)
THEOREM ErrorsTakeTurn ==
    ASSUME \A t \in Requests : Messages(t) /\ NoOver(t) /\ OneBad(t),
           \A t \in Responses : Messages(t) /\ Sound(t)
    PROVE  Spec => []ErrorInTurn
  <1>1. TurnScripts
    BY DEF TurnScripts
  <1>2. Init => InTurn
    <2> SUFFICES ASSUME Init PROVE InTurn
      OBVIOUS
    <2>1. QueueInit /\ message_state = [s \in Streams |-> "START_MESSAGE"]
      BY Zenon DEF Init
    <2>2. RequestFlow /\ Flow("response") /\ Scripted
      BY TypeInit, FlowInit DEF RequestFlow, Streams
    <2>3. active_queue = <<>> /\ Len(active_queue) = 0 /\ QueueInv
      BY <2>1, QueueInvInit DEF QueueInit
    <2>4. Held /\ DenyLast
      BY <2>1, <2>3 DEF Held, DenyLast, DenyStuck, Streams
    <2>5. /\ "request" \in Streams /\ "response" \in Streams
          /\ Messages(Script(From("request"))) /\ Messages(Script(From("response")))
      BY <1>1, <2>2, TurnScripted DEF Streams, From, Script
    <2>6. /\ Placed("request") /\ Number("request") = 0
          /\ Placed("response") /\ Number("response") = 0
      BY <2>5, InitPlaced
    <2> QED BY <2>2, <2>3, <2>4, <2>6 DEF InTurn, Paired
  <1>3. InTurn /\ [Next]_vars => InTurn'
    BY <1>1, InTurnStep
  <1>4. InTurn => ErrorInTurn
    <2> SUFFICES ASSUME InTurn PROVE ErrorInTurn
      OBVIOUS
    <2>1. /\ resp \in Seq(Units) /\ got["client"] \in Seq(Units) /\ NoError(resp)
      BY <1>1, TurnScripted DEF InTurn, RequestFlow, TypeInv, TypeOK, PeerTypeOK, Sides
    <2>2. CASE Flow("response") \/ Refusing
      <3>1. Piece(resp, got["client"], 0)
        BY <2>2 DEF Flow, Linked, Pipe, Chain, From, To, Script, Refusing
      <3> QED BY <2>1, <3>1, NothingRefused DEF ErrorInTurn, Delivered
    <2> QED BY <2>2 DEF InTurn
  <1> QED BY <1>2, <1>3, <1>4, PTL DEF Spec

-----------------------------------------------------------------------------
(***************************************************************************)
(* Nothing is cut off.  The element of a message is used by the response   *)
(* stream after it went back to the free list; a request that is refused   *)
(* may mark it DENY, and the response then ends behind its header.  So     *)
(* these scripts have nothing that is refused.                             *)
(***************************************************************************)
Regular(t) == Messages(t) /\ Sound(t)

NoDeny == \A e \in Elements : process_type[e] # "DENY"

Relaying ==
    /\ RequestFlow /\ NoDeny /\ Flow("response")
    /\ Placed("request") /\ Placed("response")

LEMMA FrontNormal ==
    ASSUME TypeInv, NoDeny, StartResponse
    PROVE  UNCHANGED header
  <1>1. active_queue \in Seq(Elements)
    BY DEF TypeInv, TypeOK, QueueTypeOK
  <1>2. ~QueueEmpty => FrontElement \in Elements
    BY <1>1 DEF QueueEmpty, FrontElement
  <1> QED BY <1>2 DEF StartResponse, NoDeny

LEMMA PlacedOn ==
    ASSUME TypeInv, NoDeny, NEW s \in Streams, Flow(s), Messages(Script(From(s))), Placed(s),
           [Next]_vars, ~Accept
    PROVE  Placed(s)'
  <1>1. CASE s = Stream /\ (StartRequest \/ StartResponse)
    <2>1. UNCHANGED header
      BY <1>1, FrontNormal DEF StartRequest
    <2> QED BY <1>1, <2>1, StartPlaced
  <1>2. CASE ~(s = Stream /\ (StartRequest \/ StartResponse))
    <2>1. PushHeader /\ s = Stream => process_type[current[s]] # "DENY"
      <3>1. PushHeader /\ s = Stream => current[s] \in Elements
        BY DEF PushHeader, Processing, TypeInv, HoldsElement
      <3> QED BY <3>1 DEF NoDeny
    <2>2. Steady(s)
      BY <1>2, <2>1, PlacedStep
    <2> QED BY <2>2 DEF Steady
  <1> QED BY <1>1, <1>2

(* No request is refused. *)
LEMMA NoDenyStep ==
    ASSUME \A t \in Requests : Regular(t), RequestFlow, NoDeny, Placed("request"), [Next]_vars
    PROVE  NoDeny'
  <1>1. /\ TypeInv /\ process_type \in [Elements -> {"NORMAL", "HEAD", "DENY"}]
        /\ Messages(req) /\ Sound(req) /\ Flow("request") /\ \A t \in Requests : NoOver(t)
    BY DEF RequestFlow, Scripted, TypeInv, TypeOK, ElemTypeOK, Regular, Sound, NoOver
  <1>2. CASE Accept
    BY <1>2 DEF Accept, elemVars, NoDeny
  <1>3. CASE UNCHANGED process_type
    BY <1>3 DEF NoDeny
  <1>4. CASE process_type' = [process_type EXCEPT ![NextFree] = "NORMAL"]
    BY <1>1, <1>4 DEF NoDeny
  <1>5. CASE Refuses
    <2>1. Stuck
      BY <1>1, <1>5, RefusesStuck
    <2>2. \E i \in DOMAIN req : req[i].k = "bad"
      BY <1>1, <2>1, StuckBad
    <2> QED BY <1>1, <2>2 DEF Sound
  <1> QED BY <1>1, <1>2, <1>3, <1>4, <1>5, ElementSteps

LEMMA RelayingStep ==
    ASSUME \A t \in Requests : Regular(t), \A t \in Responses : Regular(t), Relaying, [Next]_vars
    PROVE  Relaying'
  <1>1. /\ \A t \in Requests : NoOver(t)
        /\ TypeInv /\ Scripted /\ "request" \in Streams /\ "response" \in Streams
        /\ From("request") = "client" /\ From("response") = "server"
        /\ Script("client") = req /\ Script("server") = resp
        /\ Script("client")' = req' /\ Script("server")' = resp'
    BY DEF Relaying, RequestFlow, Regular, Sound, NoOver, Streams, From, Script
  <1>2. RequestFlow' /\ NoDeny' /\ Scripted'
    BY <1>1, RequestFlowStep, NoDenyStep DEF Relaying, RequestFlow
  <1>3. /\ Messages(req) /\ Messages(resp) /\ Sound(resp) /\ Messages(req') /\ Messages(resp')
    BY <1>1, <1>2 DEF Scripted, Regular
  <1>4. CASE Accept
    BY <1>1, <1>2, <1>3, <1>4, AcceptFlow, AcceptPlaced DEF Relaying
  <1>5. CASE ~Accept
    <2>1. Placed("request")' /\ Placed("response")'
      BY <1>1, <1>3, <1>5, PlacedOn DEF Relaying, RequestFlow
    <2>2. ParseHeader /\ "response" = Stream /\ buf[Src] # <<>> => Head(buf[Src]).k # "over"
      <3>1. SUFFICES ASSUME "response" = Stream, buf[Src] # <<>> PROVE Head(buf[Src]).k # "over"
        OBVIOUS
      <3>2. Src = "server"
        BY <1>1, <3>1, Running
      <3>3. \E i \in DOMAIN resp : resp[i] = Head(buf["server"])
        BY <1>1, <3>1, <3>2, HeadSaid DEF Relaying
      <3> QED BY <1>3, <3>2, <3>3 DEF Sound
    <2>3. Flow("response")'
      BY <1>1, <2>2, FlowStep, FrontNormal DEF Relaying
    <2> QED BY <1>2, <2>1, <2>3 DEF Relaying
  <1> QED BY <1>4, <1>5

(* Neither peer has reset its connection. *)
Unbroken == \A c \in Sides : ~rst[c]

(* What process_data() returns to a response pass. *)
LEMMA WriteStatus ==
    ASSUME NEW d, NEW us, NEW k, NEW r, Write(d, us, k, r), ~rst[d]
    PROVE  r \in {"COMPLETE", "INCOMPLETE"} /\ UNCHANGED state
  BY DEF Write

LEMMA ResponsePass ==
    ASSUME \A t \in Responses : Regular(t), Relaying, Unbroken, strm # "request",
           \/ StartResponse \/ ParseHeader \/ PushHeader \/ EndMessage \/ ParseBody
           \/ ForwardBody \/ ForwardToClose
    PROVE  /\ UNCHANGED <<strm, state>>
           /\ \/ pc' \in {"process", "aborted"}
              \/ /\ pc' = "jit" /\ status' \in {"COMPLETE", "INCOMPLETE"}
                 /\ status' = "COMPLETE" => message_state'["response"] # "PUSH_HEADER"
  <1> USE DEF connVars
  <1>1. /\ "response" \in Streams /\ From("response") = "server" /\ Script("server") = resp
        /\ Stream = "response" /\ Src = "server" /\ Dest = "client" /\ ~rst["client"]
    BY DEF Streams, From, Script, Stream, Src, Dest, Unbroken, Sides
  <1>2. /\ TypeInv /\ Messages(resp) /\ Sound(resp) /\ Flow("response") /\ Placed("response")
    BY DEF Relaying, RequestFlow, Scripted, Regular
  <1>3. message_state \in [Streams -> MessageStates]
    BY <1>2 DEF TypeInv, TypeOK, StreamTypeOK
  <1>4. CASE StartResponse
    BY <1>1, <1>4 DEF StartResponse, Processing, Returns, Continues
  <1>5. CASE ParseHeader
    <2>1. message_state["response"] = "PARSE_HEADER" /\ UNCHANGED <<strm, state>> /\ pc = "process"
      BY <1>1, <1>5 DEF ParseHeader, Processing
    <2>2. buf["server"] # <<>> => Expected(Head(buf["server"]))
      <3>1. SUFFICES ASSUME buf["server"] # <<>>, ~Expected(Head(buf["server"])) PROVE FALSE
        OBVIOUS
      <3>2. \E i \in DOMAIN resp : resp[i].k = "bad"
        BY <1>1, <1>2, <2>1, <3>1, RefusedBad DEF Expected
      <3> QED BY <1>2, <3>2 DEF Sound
    <2>3. \/ Returns("COMPLETE") /\ UNCHANGED message_state
          \/ Continues
      BY <1>1, <1>5, <2>2 DEF ParseHeader
    <2> QED BY <2>1, <2>3 DEF Returns, Continues
  <1>6. CASE PushHeader
    <2>1. PICK k \in 0 .. Len(header["response"]), r \in Statuses :
            /\ Write("client", header["response"], k, r)
            /\ \/ r = "COMPLETE" /\ (process_type[current["response"]] = "DENY" \/ Continues)
               \/ r # "COMPLETE" /\ Returns(r)
      BY <1>1, <1>6 DEF PushHeader
    <2>2. process_type[current["response"]] # "DENY" /\ pc = "process" /\ UNCHANGED strm
      BY <1>1, <1>2, <1>6 DEF PushHeader, Processing, TypeInv, HoldsElement, Relaying, NoDeny
    <2>3. r \in {"COMPLETE", "INCOMPLETE"} /\ UNCHANGED state
      BY <1>1, <2>1, WriteStatus
    <2> QED BY <2>1, <2>2, <2>3 DEF Returns, Continues
  <1>7. CASE EndMessage
    BY <1>7 DEF EndMessage, CompleteMessage, Continues, Processing
  <1>8. CASE ParseBody
    <2>1. /\ message_state["response"] = "PARSE_BODY" /\ pc = "process"
          /\ UNCHANGED <<strm, state, message_state>>
      BY <1>1, <1>8 DEF ParseBody, Processing
    <2>2. PICK k \in 0 .. Len(buf["server"]) :
            /\ Claimable(buf["server"], body["response"].n, k)
            /\ (k = 0 /\ buf["server"] # <<>> /\ body["response"].n > 0) \/ Continues
      BY <1>1, <1>8 DEF ParseBody
    <2>3. ~(k = 0 /\ buf["server"] # <<>> /\ body["response"].n > 0)
      <3>1. SUFFICES ASSUME k = 0, buf["server"] # <<>>, body["response"].n > 0 PROVE FALSE
        OBVIOUS
      <3>2. buf["server"] \in Seq(Units)
        BY <1>1, <1>2, ReachedNext
      <3>3. 0 < Len(buf["server"]) /\ Head(buf["server"]) = buf["server"][1]
        BY <3>1, <3>2
      <3>4. buf["server"][0 + 1].k = "bad"
        BY <2>2, <3>1, <3>3 DEF Claimable
      <3>5. \E i \in DOMAIN resp : resp[i] = Head(buf["server"])
        BY <1>1, <1>2, <3>1, HeadSaid
      <3> QED BY <1>2, <3>3, <3>4, <3>5 DEF Sound
    <2> QED BY <2>1, <2>2, <2>3 DEF Continues
  <1>9. CASE ForwardBody
    <2>1. PICK k \in 0 .. Len(out["server"]), r \in Statuses :
            /\ Write("client", out["server"], k, r)
            /\ \/ CompleteMessage
               \/ (Returns(r) \/ Broken("server")) /\ UNCHANGED message_state
      BY <1>1, <1>9 DEF ForwardBody
    <2>4. ~Broken("server")
      <3> SUFFICES ASSUME Broken("server") PROVE FALSE
        OBVIOUS
      <3>1. buf["server"] # <<>> /\ Head(buf["server"]).k = "bad"
        BY DEF Broken
      <3>2. \E i \in DOMAIN resp : resp[i] = Head(buf["server"])
        BY <1>1, <1>2, <3>1, HeadSaid
      <3> QED BY <1>2, <3>1, <3>2 DEF Sound
    <2>2. message_state["response"] = "PARSE_BODY" /\ pc = "process" /\ UNCHANGED strm
      BY <1>1, <1>9 DEF ForwardBody, Processing
    <2>3. r \in {"COMPLETE", "INCOMPLETE"} /\ UNCHANGED state
      BY <1>1, <2>1, WriteStatus
    <2> QED BY <2>1, <2>2, <2>3, <2>4 DEF Returns, CompleteMessage, Continues
  <1>10. CASE ForwardToClose
    <2>1. /\ message_state["response"] = "PARSE_BODY" /\ UNCHANGED <<strm, message_state>>
      BY <1>1, <1>10 DEF ForwardToClose, Processing, streamVars
    <2>2. \/ pc' = "aborted" /\ UNCHANGED state
          \/ \E k \in 0 .. Len(buf["server"]), r \in Statuses :
               Write("client", buf["server"], k, r) /\ Returns(r)
      BY <1>1, <1>10 DEF ForwardToClose
    <2>3. \/ pc' = "aborted" /\ UNCHANGED state
          \/ \E r \in {"COMPLETE", "INCOMPLETE"} : Returns(r) /\ UNCHANGED state
      BY <1>1, <2>2, WriteStatus
    <2> QED BY <2>1, <2>3 DEF Returns
  <1> QED BY <1>4, <1>5, <1>6, <1>7, <1>8, <1>9, <1>10

(***************************************************************************)
(* The server's connection is shut for reading only when all of it has     *)
(* been read, parsed and written, and a response pass releases the handler *)
(* only behind that.                                                       *)
(***************************************************************************)
Drained == inq["server"] = <<>> /\ buf["server"] = <<>> /\ out["server"] = <<>>

ShutDrained ==
    state["server"] \in {"READ_SHUT", "WRITE_SHUT", "HUNGUP"} =>
        state["server"] = "READ_SHUT" /\ fin["server"] /\ Drained

Over == state["server"] = "READ_SHUT" /\ message_state["response"] # "PUSH_HEADER"

PassEnds ==
    strm # "request" =>
        /\ pc \in {"jit", "after"} =>
             /\ status \in {"COMPLETE", "INCOMPLETE"}
             /\ status = "COMPLETE" => message_state["response"] # "PUSH_HEADER"
        /\ pc = "return" /\ status \in {"COMPLETE", "DENY"} => Over

Ended ==
    Unbroken => ShutDrained /\ PassEnds /\ (pc = "dead" /\ link = "up" => Over)

(* A reset is for good, and so is the end of what the server sends. *)
LEMMA BrokenStays ==
    ASSUME TypeInv, [Next]_vars, ~Accept
    PROVE  /\ Unbroken' => Unbroken
           /\ fin["server"] => fin'["server"]
  <1> USE DEF netVars
  <1>1. /\ rst \in [Sides -> BOOLEAN] /\ fin \in [Sides -> BOOLEAN]
    BY DEF TypeInv, TypeOK, PeerTypeOK
  <1>2. CASE UNCHANGED <<rst, fin>>
    BY <1>2 DEF Unbroken
  <1>3. CASE \/ SkipRead \/ ReadData \/ ReadNothing \/ StartRequest \/ StartResponse
             \/ ParseHeader \/ PushHeader \/ EndMessage \/ ParseBody \/ ForwardBody
             \/ ForwardToClose \/ NoConnect
    BY <1>2, <1>3 DEF SkipRead, ReadData, ReadNothing, StartRequest, StartResponse, ParseHeader,
                PushHeader, EndMessage, ParseBody, ForwardBody, ForwardToClose, NoConnect
  <1>4. CASE \/ InitiateServerConnect \/ AfterProcess \/ RegisterEvents
             \/ ConnectResult \/ (\E c \in Sides : Dispatch(c) \/ PeerSend(c) \/ PeerDrain(c))
             \/ UNCHANGED vars
    BY <1>2, <1>4 DEF InitiateServerConnect, AfterProcess, RegisterEvents, ConnectResult,
                Dispatch, HandleEvent, PeerSend, PeerDrain, vars
  <1>5. CASE StreamReturned
    <2>1. UNCHANGED rst /\ (UNCHANGED fin \/ fin' = [fin EXCEPT !["client"] = TRUE])
      BY <1>5 DEF StreamReturned
    <2>2. fin'["server"] = fin["server"]
      BY <1>1, <2>1 DEF Sides
    <2> QED BY <2>1, <2>2 DEF Unbroken
  <1>6. CASE \E c \in Sides : PeerClose(c)
    <2>1. UNCHANGED rst /\ \E c \in Sides : fin' = [fin EXCEPT ![c] = TRUE]
      BY <1>6 DEF PeerClose
    <2>2. fin["server"] => fin'["server"]
      BY <1>1, <2>1
    <2> QED BY <2>1, <2>2 DEF Unbroken
  <1>7. CASE \E c \in Sides : PeerReset(c)
    <2>1. UNCHANGED fin /\ \E c \in Sides : rst' = [rst EXCEPT ![c] = TRUE]
      BY <1>7 DEF PeerReset
    <2>2. \A c \in Sides : rst[c] => rst'[c]
      BY <1>1, <2>1
    <2> QED BY <2>1, <2>2 DEF Unbroken
  <1> QED BY <1>3, <1>4, <1>5, <1>6, <1>7 DEF Next, Step, Peer

LEMMA NothingLeft ==
    ASSUME NEW k \in 0 .. Len(<<>>)
    PROVE  SubSeq(<<>>, 1, k) = <<>> /\ After(<<>>, k) = <<>>
  <1>1. k = 0
    OBVIOUS
  <1> QED BY <1>1 DEF After

LEMMA StaysDrained ==
    ASSUME TypeInv, [Next]_vars, ~Accept, state["server"] = "READ_SHUT", fin["server"], Drained
    PROVE  Drained'
  <1> USE DEF bufVars, netVars
  <1>1. "response" \in Streams /\ From("response") = "server"
    BY DEF Streams, From
  <1>2. /\ inq \in [Sides -> Seq(Units)] /\ buf \in [Sides -> Seq(Units)]
        /\ out \in [Sides -> Seq(Units)] /\ "server" \in Sides
    BY DEF TypeInv, TypeOK, PeerTypeOK, BufTypeOK, Sides
  <1>3. ASSUME Kept("response") PROVE Drained'
    BY <1>1, <1>3 DEF Kept, Drained
  <1>4. CASE \/ SkipRead \/ ReadNothing \/ NoConnect \/ InitiateServerConnect \/ AfterProcess
             \/ StreamReturned \/ RegisterEvents \/ (\E c \in Sides : Dispatch(c))
             \/ ConnectResult \/ UNCHANGED vars
             \/ (\E c \in Sides : PeerClose(c) \/ PeerDrain(c))
    BY <1>1, <1>3, <1>4, AsideKept
  <1>5. CASE /\ Stream # "response"
             /\ \/ ReadData \/ StartRequest \/ StartResponse \/ ParseHeader \/ PushHeader
                \/ EndMessage \/ ParseBody \/ ForwardBody \/ ForwardToClose
    BY <1>1, <1>3, <1>5, OtherKept
  <1>6. CASE Stream = "response" /\ ReadData
    BY <1>1, <1>6, Running DEF ReadData, MayRead, ReadyToRead, OpenForRead
  <1>7. CASE \/ StartRequest \/ StartResponse \/ PushHeader \/ EndMessage
    BY <1>7 DEF StartRequest, StartResponse, PushHeader, EndMessage, Drained
  <1>8. CASE Stream = "response" /\ ParseHeader
    <2>1. Src = "server"
      BY <1>1, <1>8, Running
    <2> QED BY <1>8, <2>1 DEF ParseHeader, Drained
  <1>9. CASE Stream = "response" /\ (ParseBody \/ ForwardBody \/ ForwardToClose)
    <2>1. Src = "server"
      BY <1>1, <1>9, Running
    <2>2. CASE ParseBody
      <3>1. PICK k \in 0 .. Len(buf["server"]) :
              \/ UNCHANGED bufVars
              \/ /\ out' = [out EXCEPT !["server"] = SubSeq(buf["server"], 1, k)]
                 /\ buf' = [buf EXCEPT !["server"] = After(@, k)]
        BY <2>1, <2>2 DEF ParseBody
      <3>2. /\ SubSeq(buf["server"], 1, k) = <<>> /\ After(buf["server"], k) = <<>>
        BY NothingLeft DEF Drained
      <3>3. UNCHANGED inq
        BY <2>2 DEF ParseBody
      <3> QED BY <1>2, <3>1, <3>2, <3>3 DEF Drained
    <2>3. CASE ForwardBody
      <3>1. PICK k \in 0 .. Len(out["server"]) : out' = [out EXCEPT !["server"] = After(@, k)]
        BY <2>1, <2>3 DEF ForwardBody
      <3>2. After(out["server"], k) = <<>>
        BY NothingLeft DEF Drained
      <3>3. UNCHANGED <<inq, buf>>
        BY <2>3 DEF ForwardBody
      <3> QED BY <1>2, <3>1, <3>2, <3>3 DEF Drained
    <2>4. CASE ForwardToClose
      <3>1. \/ UNCHANGED buf
            \/ \E k \in 0 .. Len(buf["server"]) : buf' = [buf EXCEPT !["server"] = After(@, k)]
        BY <2>1, <2>4 DEF ForwardToClose
      <3>2. \A k \in 0 .. Len(buf["server"]) : After(buf["server"], k) = <<>>
        BY NothingLeft DEF Drained
      <3>3. UNCHANGED <<inq, out>>
        BY <2>4 DEF ForwardToClose
      <3> QED BY <1>2, <3>1, <3>2, <3>3 DEF Drained
    <2> QED BY <1>9, <2>2, <2>3, <2>4
  <1>10. CASE \E c \in Sides : PeerSend(c)
    <2>1. PICK c \in Sides : PeerSend(c)
      BY <1>10
    <2>2. c # "server"
      BY <2>1 DEF PeerSend
    <2>3. inq'["server"] = inq["server"] /\ UNCHANGED bufVars
      BY <1>2, <2>1, <2>2 DEF PeerSend
    <2> QED BY <2>3 DEF Drained
  <1>11. CASE \E c \in Sides : PeerReset(c)
    BY <1>2, <1>11 DEF PeerReset, Drained
  <1> QED BY <1>4, <1>5, <1>6, <1>7, <1>8, <1>9, <1>10, <1>11 DEF Next, Step, Peer

LEMMA ShutStep ==
    ASSUME TypeInv, [Next]_vars, ~Accept, Unbroken, ShutDrained, PassEnds
    PROVE  ShutDrained'
  <1> USE DEF connVars
  <1>1. state \in [Sides -> States] /\ "server" \in Sides /\ ~rst["client"] /\ ~rst["server"]
    BY DEF TypeInv, TypeOK, ConnTypeOK, Sides, Unbroken
  <1>2. ASSUME state'["server"] = state["server"] PROVE ShutDrained'
    BY <1>2, StaysDrained, BrokenStays DEF ShutDrained
  <1>3. ASSUME state'["server"] \in {"CONNECTED", "CONNECTING", "NOT_CONNECTED"} PROVE ShutDrained'
    BY <1>3 DEF ShutDrained
  <1>4. CASE UNCHANGED state
    BY <1>2, <1>4
  <1>5. CASE ReadNothing
    <2>1. CASE Src = "server" /\ ~UNCHANGED state
      <3>1. /\ fin["server"] /\ state' = [state EXCEPT !["server"] = SetState(@, "READ_SHUT")]
            /\ UNCHANGED <<inq, buf, out, fin>>
        BY <1>1, <1>5, <2>1 DEF ReadNothing, netVars
      <3>2. Drained /\ OpenForRead(state["server"])
        BY <1>5, <2>1 DEF ReadNothing, MayRead, FullyWritten, ReadyToRead, Drained
      <3>3. state["server"] = "CONNECTED"
        BY <3>2 DEF ShutDrained, OpenForRead
      <3>4. state'["server"] = "READ_SHUT"
        BY <1>1, <3>1, <3>3 DEF SetState
      <3> QED BY <3>1, <3>2, <3>4 DEF ShutDrained, Drained
    <2>2. CASE Src # "server"
      <3>1. state'["server"] = state["server"]
        BY <1>1, <1>5, <2>2 DEF ReadNothing
      <3> QED BY <1>2, <3>1
    <2> QED BY <1>4, <2>1, <2>2
  <1>6. CASE \/ SkipRead \/ ReadData \/ StartRequest \/ StartResponse
             \/ ParseHeader \/ EndMessage \/ ParseBody \/ NoConnect
    BY <1>4, <1>6 DEF SkipRead, ReadData, StartRequest, StartResponse, ParseHeader, EndMessage,
                ParseBody, NoConnect
  <1>7. CASE PushHeader \/ ForwardBody \/ ForwardToClose
    <2>1. ~rst[Dest]
      BY <1>1 DEF Dest
    <2>2. \/ UNCHANGED state
          \/ \E us \in {header[Stream], out[Src], buf[Src]} :
               \E k \in 0 .. Len(us), r \in Statuses : Write(Dest, us, k, r)
      BY <1>7 DEF PushHeader, ForwardBody, ForwardToClose
    <2> QED BY <1>4, <2>1, <2>2, WriteStatus
  <1>8. CASE InitiateServerConnect
    BY <1>1, <1>2, <1>3, <1>8 DEF InitiateServerConnect, FaultOccurs, SetState
  <1>9. CASE AfterProcess
    <2>1. CASE strm = "request"
      <3>1. state'["server"] = state["server"]
        BY <1>1, <1>9, <2>1 DEF AfterProcess, Src
      <3> QED BY <1>2, <3>1
    <2>2. CASE strm # "request"
      <3>1. status # "SRC_CLOSED"
        BY <1>9, <2>2 DEF AfterProcess, PassEnds
      <3> QED BY <1>4, <1>9, <3>1 DEF AfterProcess
    <2> QED BY <2>1, <2>2
  <1>10. CASE \/ StreamReturned \/ RegisterEvents \/ ConnectResult
              \/ (\E c \in Sides : Peer(c)) \/ UNCHANGED vars
    BY <1>4, <1>10 DEF StreamReturned, RegisterEvents, ConnectResult, Peer, PeerSend, PeerClose,
                PeerReset, PeerDrain, vars
  <1>11. CASE \E c \in Sides : Dispatch(c)
    <2>1. \/ UNCHANGED state
          \/ state' = [state EXCEPT !["server"] = SetState(@, "CONNECTED")]
      BY <1>11 DEF Dispatch, HandleEvent
    <2> QED BY <1>1, <1>3, <1>4, <2>1 DEF SetState
  <1> QED BY <1>5, <1>6, <1>7, <1>8, <1>9, <1>10, <1>11 DEF Next, Step

LEMMA EndedStep ==
    ASSUME \A t \in Responses : Regular(t), Relaying, Ended, [Next]_vars
    PROVE  Ended'
  <1> USE DEF connVars, streamVars, phVars, fdVars
  <1>1. TypeInv
    BY DEF Relaying, RequestFlow
  <1>2. CASE Accept
    <2>1. pc' = "idle" /\ state' = ClientConnected
      BY <1>2 DEF Accept, ResetConnections
    <2>2. state'["server"] = "NOT_CONNECTED"
      BY <2>1 DEF ClientConnected, Sides
    <2> QED BY <2>1, <2>2 DEF Ended, ShutDrained, PassEnds
  <1>3. CASE ~Accept
    <2>1. SUFFICES ASSUME Unbroken'
                   PROVE  ShutDrained' /\ PassEnds' /\ (pc' = "dead" /\ link' = "up" => Over')
      BY <2>1 DEF Ended
    <2>2. Unbroken /\ ShutDrained /\ PassEnds /\ (pc = "dead" /\ link = "up" => Over)
      BY <1>1, <1>3, <2>1, BrokenStays DEF Ended
    <2>3. ShutDrained'
      BY <1>1, <1>3, <2>2, ShutStep
    <2> SUFFICES PassEnds' /\ (pc' = "dead" /\ link' = "up" => Over')
      BY <2>3
    <2>4. ASSUME pc' \in {"idle", "read", "process", "register", "aborted"}
          PROVE  PassEnds' /\ (pc' = "dead" /\ link' = "up" => Over')
      BY <2>4 DEF PassEnds
    <2>5. CASE \/ SkipRead \/ ReadData \/ ReadNothing \/ RegisterEvents
      BY <2>4, <2>5 DEF SkipRead, ReadData, ReadNothing, RegisterEvents
    <2>6. CASE /\ strm # "request"
               /\ \/ StartResponse \/ ParseHeader \/ PushHeader \/ EndMessage \/ ParseBody
                  \/ ForwardBody \/ ForwardToClose
      BY <2>2, <2>4, <2>6, ResponsePass DEF PassEnds
    <2>7. CASE /\ strm = "request"
               /\ \/ StartRequest \/ ParseHeader \/ PushHeader \/ EndMessage \/ ParseBody
                  \/ ForwardBody \/ ForwardToClose \/ NoConnect \/ InitiateServerConnect
      <3>1. strm' = "request" /\ pc' # "dead"
        BY <2>7 DEF StartRequest, ParseHeader, PushHeader, EndMessage, ParseBody, ForwardBody,
                    ForwardToClose, NoConnect, InitiateServerConnect, FaultOccurs, Processing,
                    CompleteMessage, Returns, Continues
      <3> QED BY <3>1 DEF PassEnds
    <2>8. CASE strm # "request" /\ NoConnect
      BY <2>2, <2>8 DEF NoConnect, PassEnds
    <2>9. CASE AfterProcess
      <3>1. CASE strm = "request"
        BY <2>9, <3>1 DEF AfterProcess, PassEnds
      <3>2. CASE strm # "request"
        <4>1. /\ status \in {"COMPLETE", "INCOMPLETE"} /\ Src = "server"
              /\ status = "COMPLETE" => message_state["response"] # "PUSH_HEADER"
          BY <2>2, <2>9, <3>2 DEF AfterProcess, PassEnds, Src
        <4>2. \/ pc' = "read"
              \/ /\ pc' = "return" /\ status' = "COMPLETE" /\ UNCHANGED <<strm, state, message_state>>
                 /\ status = "COMPLETE" /\ state["server"] \in {"READ_SHUT", "HUNGUP"}
              \/ pc' = "return" /\ status' = "INCOMPLETE"
          BY <2>9, <4>1 DEF AfterProcess
        <4>3. state["server"] \in {"READ_SHUT", "HUNGUP"} => state["server"] = "READ_SHUT"
          BY <2>2 DEF ShutDrained
        <4> QED BY <2>4, <4>1, <4>2, <4>3 DEF PassEnds, Over
      <3> QED BY <3>1, <3>2
    <2>10. CASE StreamReturned
      BY <2>2, <2>10 DEF StreamReturned, Shutdown, PassEnds, Over
    <2>11. CASE \E c \in Sides : Dispatch(c)
      <3>1. pc' = "read" \/ (pc' = "dead" /\ link' = "refused")
        BY <2>2, <2>11 DEF Dispatch, HandleEvent, ConnectFailed, Shutdown, Unbroken, Sides
      <3> QED BY <2>4, <3>1 DEF PassEnds
    <2>12. CASE (\E c \in Sides : Peer(c)) \/ ConnectResult \/ UNCHANGED vars
      <3>1. /\ UNCHANGED <<pc, strm, status, state, message_state>>
            /\ pc = "dead" => UNCHANGED link
        BY <2>12 DEF Peer, PeerSend, PeerClose, PeerReset, PeerDrain, ConnectResult, vars
      <3> QED BY <2>2, <3>1 DEF PassEnds, Over
    <2>13. /\ strm = "request" => ~StartResponse
           /\ strm # "request" => ~StartRequest /\ ~InitiateServerConnect
      BY DEF StartRequest, StartResponse, Stream, InitiateServerConnect, NeedsServer
    <2> QED BY <1>3, <2>5, <2>6, <2>7, <2>8, <2>9, <2>10, <2>11, <2>12, <2>13 DEF Next, Step
  <1> QED BY <1>2, <1>3

(* Two adjacent pieces are the script up to the end of the second one. *)
LEMMA TwoPieces ==
    ASSUME NEW t \in Seq(Units), NEW g \in Seq(Units), NEW h \in Seq(Units),
           Piece(t, g, 0), Piece(t, h, Len(g))
    PROVE  SubSeq(t, 1, Len(g) + Len(h)) = g \o h
  <1>1. Len(g) \in Nat /\ Len(h) \in Nat /\ Len(g) + Len(h) <= Len(t)
    BY DEF Piece
  <1> DEFINE a == SubSeq(t, 1, Len(g) + Len(h))
             b == g \o h
  <1>2. a \in Seq(Units) /\ Len(a) = Len(g) + Len(h) /\ \A i \in 1 .. Len(g) + Len(h) : a[i] = t[i]
    BY <1>1
  <1>3. /\ b \in Seq(Units) /\ Len(b) = Len(g) + Len(h)
        /\ \A i \in 1 .. Len(g) : b[i] = g[i]
        /\ \A i \in 1 .. Len(h) : b[Len(g) + i] = h[i]
    OBVIOUS
  <1> HIDE DEF a, b
  <1>4. ASSUME NEW i \in 1 .. Len(g) + Len(h) PROVE b[i] = t[i]
    <2>1. CASE i \in 1 .. Len(g)
      BY <1>3, <2>1 DEF Piece
    <2>2. CASE i \notin 1 .. Len(g)
      <3>1. i - Len(g) \in 1 .. Len(h) /\ Len(g) + (i - Len(g)) = i
        BY <1>1, <2>2
      <3> QED BY <1>3, <3>1 DEF Piece
    <2> QED BY <2>1, <2>2
  <1>5. a = b
    BY <1>2, <1>3, <1>4
  <1> QED BY <1>5 DEF a, b

(* The end of a session. *)
LEMMA AllRelayed ==
    ASSUME Flow("response"), TypeInv, NoError(resp), ~rst["server"], Drained,
           message_state["response"] # "PUSH_HEADER"
    PROVE  SubSeq(resp, 1, sent["server"]) =
               Relayed \o (IF message_state["response"] = "PARSE_HEADER"
                           THEN header["response"] ELSE <<>>)
  <1> DEFINE g == got["client"]
             h == header["response"]
  <1>1. /\ "response" \in Streams /\ From("response") = "server" /\ To("response") = "client"
        /\ Script("server") = resp
    BY DEF Streams, From, To, Script
  <1>2. /\ resp \in Seq(Units) /\ g \in Seq(Units) /\ h \in Seq(Units)
        /\ Piece(resp, g, 0) /\ Piece(resp, h, Len(g))
        /\ Total(g, h, <<>>, <<>>, <<>>) = sent["server"]
    BY <1>1 DEF Flow, Linked, Pipe, Chain, InFlight, Drained
  <1>3. Relayed = g
    <2>1. NoError(g)
      BY <1>2, PieceNoError
    <2>2. g # <<>> => Len(g) \in DOMAIN g
      BY <1>2
    <2> QED BY <2>1, <2>2 DEF Relayed, Last, NoError
  <1>4. (IF message_state["response"] = "PARSE_HEADER" THEN h ELSE <<>>) = h
    <2>1. message_state["response"] \in MessageStates
      BY <1>1 DEF TypeInv, TypeOK, StreamTypeOK
    <2> QED BY <2>1 DEF MessageStates, Flow, Tidy
  <1>5. sent["server"] = Len(g) + Len(h)
    <2>1. Len(g) \in Nat /\ Len(h) \in Nat /\ Len(<<>>) = 0
      BY <1>2
    <2>2. Len(g) + Len(h) + Len(<<>>) + Len(<<>>) + Len(<<>>) = sent["server"]
      BY <1>2 DEF Total
    <2> DEFINE x == Len(g)
               y == Len(h)
    <2>3. x + y + 0 + 0 + 0 = sent["server"] /\ x \in Nat /\ y \in Nat
      BY <2>1, <2>2
    <2> HIDE DEF x, y
    <2>4. x + y = sent["server"]
      BY <2>3
    <2> QED BY <2>4 DEF x, y
  <1>6. SubSeq(resp, 1, Len(g) + Len(h)) = g \o h
    BY <1>2, TwoPieces
  <1> QED BY <1>3, <1>4, <1>5, <1>6

(***************************************************************************)
(* A session that ended without a reset has handed to the client all that  *)
(* the server sent, but for a header the server did not finish: with any   *)
(* buffers, any blocked writes, an end of file that is read while the      *)
(* client's window is full, and a server that closes in the middle.  The   *)
(* scripts are messages with nothing that is refused; with a refused       *)
(* request behind a full pipeline the code does cut a response off.        *)
(***************************************************************************)
THEOREM NothingTruncated ==
    ASSUME \A t \in Requests : Regular(t), \A t \in Responses : Regular(t)
    PROVE  Spec => []NoTruncation
  <1>1. Init => Relaying /\ Ended
    <2> SUFFICES ASSUME Init PROVE Relaying /\ Ended
      OBVIOUS
    <2>1. /\ process_type = [e \in Elements |-> "NORMAL"] /\ pc = "idle"
          /\ state = ClientConnected
      BY Zenon DEF Init
    <2>2. RequestFlow /\ Flow("response") /\ Scripted
      BY TypeInit, FlowInit DEF RequestFlow, Streams
    <2>3. /\ "request" \in Streams /\ "response" \in Streams
          /\ Messages(Script(From("request"))) /\ Messages(Script(From("response")))
      BY <2>2 DEF Streams, From, Script, Scripted, Regular
    <2>4. Placed("request") /\ Placed("response")
      BY <2>3, InitPlaced
    <2>5. NoDeny
      BY <2>1 DEF NoDeny
    <2>6. state["server"] = "NOT_CONNECTED"
      BY <2>1 DEF ClientConnected, Sides
    <2>7. Ended
      BY <2>1, <2>6 DEF Ended, ShutDrained, PassEnds
    <2> QED BY <2>2, <2>4, <2>5, <2>7 DEF Relaying
  <1>2. Relaying /\ Ended /\ [Next]_vars => (Relaying /\ Ended)'
    BY RelayingStep, EndedStep
  <1>3. Relaying /\ Ended => NoTruncation
    <2> SUFFICES ASSUME Relaying, Ended, pc = "dead", link = "up", \A c \in Sides : ~rst[c]
                 PROVE  SubSeq(resp, 1, sent["server"]) =
                          Relayed \o (IF message_state["response"] = "PARSE_HEADER"
                                      THEN header["response"] ELSE <<>>)
      BY DEF NoTruncation
    <2>1. Over /\ Drained
      BY DEF Ended, Unbroken, Over, ShutDrained
    <2>2. Flow("response") /\ TypeInv /\ ~rst["server"]
      BY DEF Relaying, RequestFlow, Sides
    <2>3. NoError(resp)
      BY DEF Relaying, RequestFlow, Scripted, Regular, Sound, NoError
    <2> QED BY <2>1, <2>2, <2>3, AllRelayed DEF Over
  <1> QED BY <1>1, <1>2, <1>3, PTL DEF Spec

===============================================================================
