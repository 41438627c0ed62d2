------------------------- MODULE ProxyHandlerFlowProofs -------------------------
(***************************************************************************)
(* The bytes of the two streams of ProxyHandler, for every value of its    *)
(* constants: what a peer says passes the kernel, the read buffer, the     *)
(* message buffer or the claimed part of the read buffer, and the other    *)
(* connection, and keeps its order on the way.                             *)
(***************************************************************************)
EXTENDS ProxyHandlerProofs

(***************************************************************************)
(* Pieces of a script, by position: q is what t says after its first n     *)
(* units.                                                                  *)
(***************************************************************************)
Piece(t, q, n) == n + Len(q) <= Len(t) /\ \A i \in 1 .. Len(q) : q[i] = t[n + i]

(* The five places of a stream, the oldest units first, hold adjacent pieces. *)
Chain(t, g, h, o, b, q) ==
    /\ Piece(t, g, 0)
    /\ Piece(t, h, Len(g))
    /\ Piece(t, o, Len(g) + Len(h))
    /\ Piece(t, b, Len(g) + Len(h) + Len(o))
    /\ Piece(t, q, Len(g) + Len(h) + Len(o) + Len(b))

Total(g, h, o, b, q) == Len(g) + Len(h) + Len(o) + Len(b) + Len(q)

(* ... and n units altogether. *)
Pipe(t, n, g, h, o, b, q) ==
    /\ t \in Seq(Units) /\ g \in Seq(Units) /\ h \in Seq(Units) /\ o \in Seq(Units)
    /\ b \in Seq(Units) /\ q \in Seq(Units)
    /\ Chain(t, g, h, o, b, q) /\ Total(g, h, o, b, q) = n

LEMMA TotalNat ==
    ASSUME NEW g \in Seq(Units), NEW h \in Seq(Units), NEW o \in Seq(Units),
           NEW b \in Seq(Units), NEW q \in Seq(Units)
    PROVE  Total(g, h, o, b, q) \in Nat
  BY DEF Total

LEMMA PieceEmpty ==
    ASSUME NEW t \in Seq(Units), NEW n \in Nat, n <= Len(t)
    PROVE  Piece(t, <<>>, n)
  BY DEF Piece

(* A piece that is cut in two. *)
LEMMA PieceCut ==
    ASSUME NEW t \in Seq(Units), NEW q \in Seq(Units), NEW n \in Nat, Piece(t, q, n),
           NEW k \in 0 .. Len(q)
    PROVE  /\ Piece(t, SubSeq(q, 1, k), n) /\ Len(SubSeq(q, 1, k)) = k
           /\ Piece(t, After(q, k), n + k) /\ Len(After(q, k)) = Len(q) - k
           /\ SubSeq(q, 1, k) \in Seq(Units) /\ After(q, k) \in Seq(Units)
  <1>1. /\ SubSeq(q, 1, k) \in Seq(Units) /\ Len(SubSeq(q, 1, k)) = k
        /\ \A i \in 1 .. k : SubSeq(q, 1, k)[i] = q[i]
    OBVIOUS
  <1>2. /\ After(q, k) \in Seq(Units) /\ Len(After(q, k)) = Len(q) - k
        /\ \A i \in 1 .. Len(q) - k : After(q, k)[i] = q[k + i]
    BY DEF After
  <1>3. Piece(t, SubSeq(q, 1, k), n)
    BY <1>1 DEF Piece
  <1>4. Piece(t, After(q, k), n + k)
    <2>1. \A i \in 1 .. Len(q) - k : k + i \in 1 .. Len(q) /\ n + (k + i) = n + k + i
      OBVIOUS
    <2>2. \A i \in 1 .. Len(q) - k : After(q, k)[i] = t[n + k + i]
      BY <1>2, <2>1 DEF Piece
    <2> QED BY <1>2, <2>2 DEF Piece
  <1> QED BY <1>1, <1>2, <1>3, <1>4

(* A piece that is continued by the next. *)
LEMMA PieceJoin ==
    ASSUME NEW t \in Seq(Units), NEW g \in Seq(Units), NEW p \in Seq(Units),
           Piece(t, g, 0), Piece(t, p, Len(g))
    PROVE  Piece(t, g \o p, 0)
  <1>1. Len(g \o p) = Len(g) + Len(p)
    OBVIOUS
  <1>2. ASSUME NEW i \in 1 .. Len(g) + Len(p) PROVE (g \o p)[i] = t[0 + i]
    <2>1. CASE i <= Len(g)
      BY <2>1 DEF Piece
    <2>2. CASE i > Len(g)
      <3>1. i - Len(g) \in 1 .. Len(p) /\ Len(g) + (i - Len(g)) = 0 + i
        BY <2>2
      <3>2. p[i - Len(g)] = t[Len(g) + (i - Len(g))]
        BY <3>1 DEF Piece
      <3>3. (g \o p)[i] = p[i - Len(g)]
        BY <2>2, <3>1
      <3> QED BY <3>1, <3>2, <3>3
    <2> QED BY <2>1, <2>2
  <1>3. 0 + (Len(g) + Len(p)) <= Len(t)
    BY DEF Piece
  <1> QED BY <1>1, <1>2, <1>3 DEF Piece

(* The piece at the start of a script is a prefix of it. *)
LEMMA PiecePrefix ==
    ASSUME NEW t \in Seq(Units), NEW q \in Seq(Units), Piece(t, q, 0)
    PROVE  IsPrefix(q, t)
  BY DEF Piece, IsPrefix

(* What a peer sends goes to the end of the chain. *)
LEMMA PipeSend ==
    ASSUME NEW t, NEW n, NEW g, NEW h, NEW o, NEW b, NEW q, Pipe(t, n, g, h, o, b, q),
           n < Len(t), NEW u, u = t[n + 1]
    PROVE  Pipe(t, n + 1, g, h, o, b, Append(q, u))
  <1>0. /\ t \in Seq(Units) /\ g \in Seq(Units) /\ h \in Seq(Units) /\ o \in Seq(Units)
        /\ b \in Seq(Units) /\ q \in Seq(Units) /\ Chain(t, g, h, o, b, q)
        /\ Total(g, h, o, b, q) = n
    BY DEF Pipe
  <1> USE <1>0
  <1> DEFINE m == Len(g) + Len(h) + Len(o) + Len(b)
  <1>1. m \in Nat /\ n = m + Len(q)
    BY DEF Total
  <1>2. Piece(t, q, m) /\ u \in Units
    BY <1>1 DEF Chain
  <1>3. Len(Append(q, u)) = Len(q) + 1
    BY <1>2
  <1> HIDE DEF m
  <1>4. Piece(t, Append(q, u), m)
    BY <1>1, <1>2, <1>3 DEF Piece
  <1>5. Chain(t, g, h, o, b, Append(q, u))
    BY <1>4 DEF Chain, m
  <1>6. Total(g, h, o, b, Append(q, u)) = n + 1
    BY <1>3 DEF Total
  <1> QED BY <1>2, <1>5, <1>6 DEF Pipe

(* A reset takes what the kernel still holds. *)
LEMMA PipeReset ==
    ASSUME NEW t, NEW n, NEW g, NEW h, NEW o, NEW b, NEW q, Pipe(t, n, g, h, o, b, q)
    PROVE  \E i : Pipe(t, i, g, h, o, b, <<>>)
  <1>1. /\ t \in Seq(Units) /\ g \in Seq(Units) /\ h \in Seq(Units) /\ o \in Seq(Units)
        /\ b \in Seq(Units) /\ q \in Seq(Units) /\ Chain(t, g, h, o, b, q)
    BY DEF Pipe
  <1> DEFINE m == Len(g) + Len(h) + Len(o) + Len(b)
  <1>2. m \in Nat /\ m <= Len(t)
    BY <1>1 DEF Chain, Piece
  <1>3. Chain(t, g, h, o, b, <<>>)
    BY <1>1, <1>2, PieceEmpty DEF Chain
  <1> QED BY <1>1, <1>3 DEF Pipe

(* A read moves units from the kernel to an empty buffer. *)
LEMMA PipeRead ==
    ASSUME NEW t, NEW n, NEW g, NEW h, NEW o, NEW b, NEW q, Pipe(t, n, g, h, o, b, q),
           b = <<>>, NEW k \in 0 .. Len(q)
    PROVE  Pipe(t, n, g, h, o, SubSeq(q, 1, k), After(q, k))
  <1>0. /\ t \in Seq(Units) /\ g \in Seq(Units) /\ h \in Seq(Units) /\ o \in Seq(Units)
        /\ b \in Seq(Units) /\ q \in Seq(Units) /\ Chain(t, g, h, o, b, q)
        /\ Total(g, h, o, b, q) = n
    BY DEF Pipe
  <1> USE <1>0
  <1> DEFINE m == Len(g) + Len(h) + Len(o)
  <1>1. m \in Nat /\ Piece(t, q, m)
    BY DEF Chain
  <1> DEFINE p == SubSeq(q, 1, k)
             r == After(q, k)
  <1>2. /\ p \in Seq(Units) /\ r \in Seq(Units)
        /\ Piece(t, p, m) /\ Len(p) = k /\ Piece(t, r, m + k) /\ Len(r) = Len(q) - k
    BY <1>1, PieceCut
  <1> HIDE DEF p, r
  <1>3. Chain(t, g, h, o, p, r)
    BY <1>2 DEF Chain
  <1>4. Total(g, h, o, p, r) = n
    BY <1>2 DEF Total
  <1>5. Pipe(t, n, g, h, o, p, r)
    BY <1>2, <1>3, <1>4 DEF Pipe
  <1> QED BY <1>5 DEF p, r

(* The body parser claims a part of the buffer. *)
LEMMA PipeClaim ==
    ASSUME NEW t, NEW n, NEW g, NEW h, NEW o, NEW b, NEW q, Pipe(t, n, g, h, o, b, q),
           o = <<>>, NEW k \in 0 .. Len(b)
    PROVE  Pipe(t, n, g, h, SubSeq(b, 1, k), After(b, k), q)
  <1>0. /\ t \in Seq(Units) /\ g \in Seq(Units) /\ h \in Seq(Units) /\ o \in Seq(Units)
        /\ b \in Seq(Units) /\ q \in Seq(Units) /\ Chain(t, g, h, o, b, q)
        /\ Total(g, h, o, b, q) = n
    BY DEF Pipe
  <1> USE <1>0
  <1> DEFINE m == Len(g) + Len(h)
  <1>1. m \in Nat /\ Piece(t, b, m) /\ Piece(t, q, m + Len(b))
    BY DEF Chain
  <1> DEFINE p == SubSeq(b, 1, k)
             r == After(b, k)
  <1>2. /\ p \in Seq(Units) /\ r \in Seq(Units)
        /\ Piece(t, p, m) /\ Len(p) = k /\ Piece(t, r, m + k) /\ Len(r) = Len(b) - k
    BY <1>1, PieceCut
  <1>3. m + k + (Len(b) - k) = m + Len(b)
    BY <1>1
  <1> HIDE DEF p, r
  <1>4. Chain(t, g, h, p, r, q)
    BY <1>1, <1>2, <1>3 DEF Chain
  <1>5. Total(g, h, p, r, q) = n
    BY <1>2 DEF Total
  <1>6. Pipe(t, n, g, h, p, r, q)
    BY <1>2, <1>4, <1>5 DEF Pipe
  <1> QED BY <1>6 DEF p, r

(* The header parser moves a unit from the buffer to the message buffer. *)
LEMMA PipeParse ==
    ASSUME NEW t, NEW n, NEW g, NEW h, NEW o, NEW b, NEW q, Pipe(t, n, g, h, o, b, q),
           o = <<>>, b # <<>>
    PROVE  Pipe(t, n, g, Append(h, Head(b)), o, Tail(b), q)
  <1>0. /\ t \in Seq(Units) /\ g \in Seq(Units) /\ h \in Seq(Units) /\ o \in Seq(Units)
        /\ b \in Seq(Units) /\ q \in Seq(Units) /\ Chain(t, g, h, o, b, q)
        /\ Total(g, h, o, b, q) = n
    BY DEF Pipe
  <1> USE <1>0
  <1>1. /\ Piece(t, g, 0) /\ Piece(t, h, Len(g)) /\ Piece(t, b, Len(g) + Len(h))
        /\ Piece(t, q, Len(g) + Len(h) + Len(b))
    BY DEF Chain
  <1>2. /\ Len(b) > 0 /\ Head(b) = b[1] /\ Head(b) \in Units /\ Len(Tail(b)) = Len(b) - 1
        /\ Tail(b) = After(b, 1)
    BY DEF After
  <1>3. Append(h, Head(b)) \in Seq(Units) /\ Len(Append(h, Head(b))) = Len(h) + 1
    BY <1>2
  <1>4. Piece(t, Append(h, Head(b)), Len(g))
    BY <1>1, <1>2, <1>3 DEF Piece
  <1>5. Len(g) + Len(h) \in Nat /\ 1 \in 0 .. Len(b)
    BY <1>2
  <1>6. Piece(t, Tail(b), Len(g) + Len(h) + 1)
    <2>1. Piece(t, After(b, 1), Len(g) + Len(h) + 1)
      BY <1>1, <1>5, PieceCut
    <2> QED BY <1>2, <2>1, Zenon
  <1>7. /\ Len(g) + (Len(h) + 1) = Len(g) + Len(h) + 1
        /\ Len(g) + (Len(h) + 1) + (Len(b) - 1) = Len(g) + Len(h) + Len(b)
        /\ Len(g) + Len(h) + 1 <= Len(t)
    BY <1>1, <1>2 DEF Piece
  <1>8. Piece(t, o, Len(g) + Len(h) + 1)
    BY <1>7, PieceEmpty
  <1>9. Chain(t, g, Append(h, Head(b)), o, Tail(b), q)
    BY <1>1, <1>2, <1>3, <1>4, <1>6, <1>7, <1>8 DEF Chain
  <1>10. Total(g, Append(h, Head(b)), o, Tail(b), q) = n
    BY <1>2, <1>3, <1>7 DEF Total
  <1>11. Tail(b) \in Seq(Units)
    BY <1>2
  <1> QED BY <1>3, <1>9, <1>10, <1>11 DEF Pipe

(* header_writer writes from the message buffer. *)
LEMMA PipePush ==
    ASSUME NEW t, NEW n, NEW g, NEW h, NEW o, NEW b, NEW q, Pipe(t, n, g, h, o, b, q),
           NEW k \in 0 .. Len(h)
    PROVE  Pipe(t, n, g \o SubSeq(h, 1, k), After(h, k), o, b, q)
  <1>0. /\ t \in Seq(Units) /\ g \in Seq(Units) /\ h \in Seq(Units) /\ o \in Seq(Units)
        /\ b \in Seq(Units) /\ q \in Seq(Units) /\ Chain(t, g, h, o, b, q)
        /\ Total(g, h, o, b, q) = n
    BY DEF Pipe
  <1> USE <1>0
  <1> DEFINE p == SubSeq(h, 1, k)
             r == After(h, k)
  <1>1. Piece(t, g, 0) /\ Piece(t, h, Len(g)) /\ Len(g) \in Nat
    BY DEF Chain
  <1>2. /\ Piece(t, p, Len(g)) /\ Len(p) = k
        /\ p \in Seq(Units) /\ r \in Seq(Units)
        /\ Piece(t, r, Len(g) + k) /\ Len(r) = Len(h) - k
    BY <1>1, PieceCut
  <1> HIDE DEF p, r
  <1>3. Piece(t, g \o p, 0) /\ Len(g \o p) = Len(g) + k
    <2>1. Piece(t, g, 0) /\ Piece(t, p, Len(g)) /\ p \in Seq(Units)
      BY <1>1, <1>2
    <2>2. Piece(t, g \o p, 0)
      BY <2>1, PieceJoin, Zenon
    <2>3. Len(g \o p) = Len(g) + Len(p)
      BY <2>1, SMT
    <2> QED BY <1>2, <2>2, <2>3, Zenon
  <1>4. Len(g) + k + (Len(h) - k) = Len(g) + Len(h)
    OBVIOUS
  <1>5. Chain(t, g \o p, r, o, b, q)
    BY <1>2, <1>3, <1>4 DEF Chain
  <1>6. Total(g \o p, r, o, b, q) = n
    BY <1>2, <1>3, <1>4 DEF Total
  <1>7. g \o p \in Seq(Units)
    BY <1>2
  <1>8. Pipe(t, n, g \o p, r, o, b, q)
    BY <1>2, <1>5, <1>6, <1>7 DEF Pipe
  <1> QED BY <1>8 DEF p, r

(* set_body() writes the claimed part of the buffer. *)
LEMMA PipeForward ==
    ASSUME NEW t, NEW n, NEW g, NEW h, NEW o, NEW b, NEW q, Pipe(t, n, g, h, o, b, q),
           h = <<>>, NEW k \in 0 .. Len(o)
    PROVE  Pipe(t, n, g \o SubSeq(o, 1, k), h, After(o, k), b, q)
  <1>0. /\ t \in Seq(Units) /\ g \in Seq(Units) /\ h \in Seq(Units) /\ o \in Seq(Units)
        /\ b \in Seq(Units) /\ q \in Seq(Units) /\ Chain(t, g, h, o, b, q)
        /\ Total(g, h, o, b, q) = n
    BY DEF Pipe
  <1> USE <1>0
  <1> DEFINE p == SubSeq(o, 1, k)
             r == After(o, k)
  <1>1. /\ Piece(t, g, 0) /\ Len(g) \in Nat /\ Len(h) = 0
        /\ Piece(t, o, Len(g)) /\ Piece(t, b, Len(g) + Len(o))
        /\ Piece(t, q, Len(g) + Len(o) + Len(b))
    BY DEF Chain
  <1>2. /\ Piece(t, p, Len(g)) /\ Len(p) = k
        /\ p \in Seq(Units) /\ r \in Seq(Units)
        /\ Piece(t, r, Len(g) + k) /\ Len(r) = Len(o) - k
    BY <1>1, PieceCut
  <1> HIDE DEF p, r
  <1>3. Piece(t, g \o p, 0) /\ Len(g \o p) = Len(g) + k
    <2>1. Piece(t, g, 0) /\ Piece(t, p, Len(g)) /\ p \in Seq(Units)
      BY <1>1, <1>2
    <2>2. Piece(t, g \o p, 0)
      BY <2>1, PieceJoin, Zenon
    <2>3. Len(g \o p) = Len(g) + Len(p)
      BY <2>1, SMT
    <2> QED BY <1>2, <2>2, <2>3, Zenon
  <1>4. /\ Len(g) + k + 0 = Len(g) + k
        /\ Len(g) + k + (Len(o) - k) = Len(g) + Len(o)
    OBVIOUS
  <1>5. Piece(t, h, Len(g) + k)
    <2>1. Len(g) + k \in Nat /\ Len(g) + k <= Len(t)
      BY <1>1 DEF Piece
    <2> QED BY <2>1, PieceEmpty
  <1>6. Chain(t, g \o p, h, r, b, q)
    BY <1>1, <1>2, <1>3, <1>4, <1>5 DEF Chain
  <1>7. Total(g \o p, h, r, b, q) = n
    BY <1>1, <1>2, <1>3, <1>4 DEF Total
  <1>8. g \o p \in Seq(Units)
    BY <1>2
  <1>9. Pipe(t, n, g \o p, h, r, b, q)
    BY <1>2, <1>6, <1>7, <1>8 DEF Pipe
  <1> QED BY <1>9 DEF p, r

(* forward to close writes from the buffer. *)
LEMMA PipeDirect ==
    ASSUME NEW t, NEW n, NEW g, NEW h, NEW o, NEW b, NEW q, Pipe(t, n, g, h, o, b, q),
           h = <<>>, o = <<>>, NEW k \in 0 .. Len(b)
    PROVE  Pipe(t, n, g \o SubSeq(b, 1, k), h, o, After(b, k), q)
  <1>0. /\ t \in Seq(Units) /\ g \in Seq(Units) /\ h \in Seq(Units) /\ o \in Seq(Units)
        /\ b \in Seq(Units) /\ q \in Seq(Units) /\ Chain(t, g, h, o, b, q)
        /\ Total(g, h, o, b, q) = n
    BY DEF Pipe
  <1> USE <1>0
  <1> DEFINE p == SubSeq(b, 1, k)
             r == After(b, k)
  <1>1. /\ Piece(t, g, 0) /\ Len(g) \in Nat /\ Len(h) = 0 /\ Len(o) = 0
        /\ Piece(t, b, Len(g)) /\ Piece(t, q, Len(g) + Len(b))
    BY DEF Chain
  <1>2. /\ Piece(t, p, Len(g)) /\ Len(p) = k
        /\ p \in Seq(Units) /\ r \in Seq(Units)
        /\ Piece(t, r, Len(g) + k) /\ Len(r) = Len(b) - k
    BY <1>1, PieceCut
  <1> HIDE DEF p, r
  <1>3. Piece(t, g \o p, 0) /\ Len(g \o p) = Len(g) + k
    <2>1. Piece(t, g, 0) /\ Piece(t, p, Len(g)) /\ p \in Seq(Units)
      BY <1>1, <1>2
    <2>2. Piece(t, g \o p, 0)
      BY <2>1, PieceJoin, Zenon
    <2>3. Len(g \o p) = Len(g) + Len(p)
      BY <2>1, SMT
    <2> QED BY <1>2, <2>2, <2>3, Zenon
  <1>4. /\ Len(g) + k + 0 = Len(g) + k /\ Len(g) + k + 0 + 0 = Len(g) + k
        /\ Len(g) + k + (Len(b) - k) = Len(g) + Len(b)
    OBVIOUS
  <1>5. Piece(t, h, Len(g) + k) /\ Piece(t, o, Len(g) + k)
    <2>1. Len(g) + k \in Nat /\ Len(g) + k <= Len(t)
      BY <1>1 DEF Piece
    <2> QED BY <2>1, PieceEmpty
  <1>6. Chain(t, g \o p, h, o, r, q)
    BY <1>1, <1>2, <1>3, <1>4, <1>5 DEF Chain
  <1>7. Total(g \o p, h, o, r, q) = n
    BY <1>1, <1>2, <1>3, <1>4 DEF Total
  <1>8. g \o p \in Seq(Units)
    BY <1>2
  <1>9. Pipe(t, n, g \o p, h, o, r, q)
    BY <1>2, <1>6, <1>7, <1>8 DEF Pipe
  <1> QED BY <1>9 DEF p, r

-----------------------------------------------------------------------------
(* The connection a stream comes from, and the one it goes to. *)
From(s) == IF s = "request" THEN "client" ELSE "server"
To(s)   == IF s = "request" THEN "server" ELSE "client"

(***************************************************************************)
(* The units of a stream are adjacent pieces of what its peer says: those  *)
(* the other peer got, the message buffer, the claimed part of the read    *)
(* buffer, the rest of it, the kernel's queue.  Together they are all the  *)
(* peer has sent, until a reset takes the queue.                           *)
(***************************************************************************)
InFlight(s) == Total(got[To(s)], header[s], out[From(s)], buf[From(s)], inq[From(s)])

Linked(s) == Pipe(Script(From(s)), InFlight(s), got[To(s)], header[s], out[From(s)],
                  buf[From(s)], inq[From(s)])

(* No unit is left behind: the message buffer is used up to PUSH_HEADER, the
   claimed part of the buffer only in the FORWARD states. *)
Tidy(s) ==
    /\ message_state[s] \in {"START_MESSAGE", "PARSE_BODY"} => header[s] = <<>>
    /\ forwarding[s] => message_state[s] = "PARSE_BODY" /\ body[s].k = "length"
    /\ ~forwarding[s] => out[From(s)] = <<>>

Flow(s) ==
    /\ Linked(s)
    /\ ~rst[From(s)] => InFlight(s) = sent[From(s)]
    /\ Tidy(s)

LEMMA FlowTypes ==
    ASSUME TypeInv, NEW s \in Streams
    PROVE  /\ Script(From(s)) \in Seq(Units) /\ got[To(s)] \in Seq(Units)
           /\ header[s] \in Seq(Units) /\ out[From(s)] \in Seq(Units)
           /\ buf[From(s)] \in Seq(Units) /\ inq[From(s)] \in Seq(Units)
           /\ From(s) \in Sides /\ To(s) \in Sides /\ From(s) # To(s)
           /\ sent[From(s)] \in Nat /\ InFlight(s) \in Nat
  <1>1. From(s) \in Sides /\ To(s) \in Sides /\ From(s) # To(s)
    BY DEF From, To, Sides
  <1>2. /\ Script(From(s)) \in Seq(Units) /\ got[To(s)] \in Seq(Units)
        /\ inq[From(s)] \in Seq(Units) /\ sent[From(s)] \in Nat
    BY <1>1 DEF TypeInv, TypeOK, PeerTypeOK, Script
  <1>3. /\ header[s] \in Seq(Units) /\ out[From(s)] \in Seq(Units)
        /\ buf[From(s)] \in Seq(Units)
    BY <1>1 DEF TypeInv, TypeOK, BufTypeOK, StreamTypeOK
  <1>4. InFlight(s) \in Nat
    BY <1>2, <1>3, TotalNat DEF InFlight
  <1> QED BY <1>1, <1>2, <1>3, <1>4

(* The stream that runs, and the other one. *)
LEMMA Running ==
    /\ Stream \in Streams /\ Src = From(Stream) /\ Dest = To(Stream)
    /\ \A s \in Streams : s # Stream => From(s) # Src /\ To(s) # Dest
  BY DEF Stream, Streams, Src, Dest, From, To

(* What a write hands to the peer. *)
LEMMA WriteGot ==
    ASSUME TypeInv, NEW d \in Sides, NEW us \in Seq(Units), NEW k \in 0 .. Len(us), NEW r,
           Write(d, us, k, r)
    PROVE  /\ got'[d] = got[d] \o SubSeq(us, 1, k)
           /\ \A c \in Sides : c # d => got'[c] = got[c]
           /\ r = "COMPLETE" => k = Len(us)
  <1>1. got \in [Sides -> Seq(Units)]
    BY DEF TypeInv, TypeOK, PeerTypeOK
  <1>2. SubSeq(us, 1, Len(us)) = us /\ (us = <<>> => Len(us) = 0)
    OBVIOUS
  <1>3. k = 0 => got[d] \o SubSeq(us, 1, k) = got[d]
    BY <1>1
  <1>4. r = "COMPLETE" => k = Len(us)
    BY <1>2 DEF Write
  <1>5. \/ k = 0 /\ UNCHANGED got
        \/ k = Len(us) /\ got' = [got EXCEPT ![d] = @ \o us]
        \/ got' = [got EXCEPT ![d] = @ \o SubSeq(us, 1, k)]
    BY DEF Write
  <1> QED BY <1>1, <1>2, <1>3, <1>4, <1>5

(* What the other stream and the rest of the handler do leaves a stream alone. *)
Kept(s) ==
    /\ got'[To(s)] = got[To(s)] /\ header'[s] = header[s]
    /\ out'[From(s)] = out[From(s)] /\ buf'[From(s)] = buf[From(s)]
    /\ inq'[From(s)] = inq[From(s)]
    /\ rst'[From(s)] = rst[From(s)] /\ sent'[From(s)] = sent[From(s)]
    /\ message_state'[s] = message_state[s] /\ forwarding'[s] = forwarding[s]
    /\ body'[s] = body[s]
    /\ UNCHANGED <<req, resp>>

LEMMA FlowKept ==
    ASSUME NEW s \in Streams, Flow(s), Kept(s)
    PROVE  Flow(s)'
  <1>1. Script(From(s))' = Script(From(s))
    BY DEF Kept, Script
  <1>2. Linked(s)'
    BY <1>1 DEF Flow, Kept, Linked, InFlight
  <1>3. ~rst'[From(s)] => InFlight(s)' = sent'[From(s)]
    BY DEF Flow, Kept, InFlight
  <1>4. Tidy(s)'
    BY DEF Flow, Kept, Tidy
  <1> QED BY <1>2, <1>3, <1>4 DEF Flow

(* The handler's own steps, the events, and the peers' closing. *)
LEMMA AsideKept ==
    ASSUME NEW s \in Streams,
           \/ SkipRead \/ ReadNothing \/ NoConnect \/ InitiateServerConnect \/ AfterProcess
           \/ StreamReturned \/ RegisterEvents \/ (\E c \in Sides : Dispatch(c))
           \/ ConnectResult \/ UNCHANGED vars
           \/ (\E c \in Sides : PeerClose(c) \/ PeerDrain(c))
    PROVE  Kept(s)
  <1> USE DEF bufVars, streamVars, netVars, peerVars
  <1>1. UNCHANGED <<got, header, out, buf, inq, rst, sent, message_state, forwarding, body,
                    req, resp>>
    <2>1. CASE SkipRead \/ ReadNothing \/ NoConnect \/ InitiateServerConnect \/ AfterProcess
      BY <2>1 DEF SkipRead, ReadNothing, NoConnect, InitiateServerConnect, AfterProcess
    <2>2. CASE StreamReturned \/ RegisterEvents \/ ConnectResult \/ UNCHANGED vars
      BY <2>2 DEF StreamReturned, RegisterEvents, ConnectResult, vars
    <2>3. CASE \E c \in Sides : Dispatch(c)
      BY <2>3 DEF Dispatch, HandleEvent
    <2>4. CASE \E c \in Sides : PeerClose(c) \/ PeerDrain(c)
      BY <2>4 DEF PeerClose, PeerDrain
    <2> QED BY <2>1, <2>2, <2>3, <2>4
  <1> QED BY <1>1 DEF Kept

(* The steps of process_data() and of its read, for the stream that does not run. *)
LEMMA OtherKept ==
    ASSUME TypeInv, NEW s \in Streams, s # Stream,
           \/ ReadData \/ StartRequest \/ StartResponse \/ ParseHeader \/ PushHeader
           \/ EndMessage \/ ParseBody \/ ForwardBody \/ ForwardToClose
    PROVE  Kept(s)
  <1> USE DEF bufVars, streamVars, netVars, peerVars
  <1>1. /\ From(s) \in Sides /\ To(s) \in Sides /\ From(s) # Src /\ To(s) # Dest
        /\ Src \in Sides /\ Dest \in Sides /\ Stream \in Streams
    BY Running, FlowTypes, Endpoints
  <1>2. /\ buf \in [Sides -> Seq(Units)] /\ out \in [Sides -> Seq(Units)]
        /\ inq \in [Sides -> Seq(Units)] /\ got \in [Sides -> Seq(Units)]
        /\ message_state \in [Streams -> MessageStates] /\ header \in [Streams -> Seq(Units)]
        /\ body \in [Streams -> Encodings] /\ forwarding \in [Streams -> BOOLEAN]
    BY DEF TypeInv, TypeOK, BufTypeOK, StreamTypeOK, PeerTypeOK
  <1>3. CASE ReadData
    BY <1>1, <1>2, <1>3 DEF ReadData, Kept
  <1>4. CASE StartRequest \/ StartResponse
    BY <1>1, <1>2, <1>4 DEF StartRequest, StartResponse, GoTo, Kept
  <1>5. CASE ParseHeader
    BY <1>1, <1>2, <1>5 DEF ParseHeader, GoTo, Kept
  <1>6. CASE PushHeader
    <2>1. PICK k \in 0 .. Len(header[Stream]), r \in Statuses :
            /\ Write(Dest, header[Stream], k, r)
            /\ header' = [header EXCEPT ![Stream] = After(@, k)]
            /\ UNCHANGED message_state \/ GoTo("PARSE_BODY")
            /\ UNCHANGED body \/ body' = [body EXCEPT ![Stream] = encoding[Stream]]
      BY <1>6 DEF PushHeader
    <2>2. got'[To(s)] = got[To(s)]
      BY <1>1, <1>2, <2>1, WriteGot
    <2>3. UNCHANGED <<out, buf, inq, rst, sent, forwarding, req, resp>>
      BY <1>6 DEF PushHeader
    <2> QED BY <1>1, <1>2, <2>1, <2>2, <2>3 DEF GoTo, Kept
  <1>7. CASE EndMessage
    BY <1>1, <1>2, <1>7 DEF EndMessage, CompleteMessage, GoTo, Kept
  <1>8. CASE ParseBody
    BY <1>1, <1>2, <1>8 DEF ParseBody, Kept
  <1>9. CASE ForwardBody
    <2>1. PICK k \in 0 .. Len(out[Src]), r \in Statuses :
            /\ Write(Dest, out[Src], k, r)
            /\ out' = [out EXCEPT ![Src] = After(@, k)]
            /\ \/ CompleteMessage
               \/ /\ \/ UNCHANGED forwarding
                     \/ forwarding' = [forwarding EXCEPT ![Stream] = FALSE]
                  /\ UNCHANGED <<message_state, header, body>>
      BY <1>9 DEF ForwardBody
    <2>2. got'[To(s)] = got[To(s)]
      BY <1>1, <1>2, <2>1, WriteGot
    <2>3. UNCHANGED <<buf, inq, rst, sent, req, resp>>
      BY <1>9 DEF ForwardBody
    <2> QED BY <1>1, <1>2, <2>1, <2>2, <2>3 DEF CompleteMessage, GoTo, Kept
  <1>10. CASE ForwardToClose
    <2>1. \/ UNCHANGED <<got, buf>>
          \/ \E k \in 0 .. Len(buf[Src]), r \in Statuses :
                Write(Dest, buf[Src], k, r) /\ buf' = [buf EXCEPT ![Src] = After(@, k)]
      BY <1>10 DEF ForwardToClose
    <2>2. got'[To(s)] = got[To(s)] /\ buf'[From(s)] = buf[From(s)]
      BY <1>1, <1>2, <2>1, WriteGot
    <2>3. UNCHANGED <<out, inq, rst, sent, header, message_state, body, forwarding, req, resp>>
      BY <1>10 DEF ForwardToClose
    <2> QED BY <2>2, <2>3 DEF Kept
  <1> QED BY <1>3, <1>4, <1>5, <1>6, <1>7, <1>8, <1>9, <1>10

(* A step that moves units along the pipe. *)
LEMMA FlowMoved ==
    ASSUME NEW s \in Streams, Flow(s), Tidy(s)',
           UNCHANGED <<req, resp>>, rst'[From(s)] = rst[From(s)], sent'[From(s)] = sent[From(s)],
           Pipe(Script(From(s)), InFlight(s), got'[To(s)], header'[s], out'[From(s)],
                buf'[From(s)], inq'[From(s)])
    PROVE  Flow(s)'
  <1>1. Script(From(s))' = Script(From(s))
    BY DEF Script
  <1>2. InFlight(s)' = InFlight(s)
    BY DEF Pipe, InFlight
  <1>3. Linked(s)'
    BY <1>1, <1>2 DEF Linked
  <1>4. ~rst'[From(s)] => InFlight(s)' = sent'[From(s)]
    BY <1>2 DEF Flow
  <1> QED BY <1>3, <1>4 DEF Flow

(* What the lemmas about pipes need, for the stream that runs. *)
LEMMA RunningFlow ==
    ASSUME NEW s \in Streams, s = Stream, Flow(s)
    PROVE  /\ Src = From(s) /\ Dest = To(s) /\ From(s) \in Sides /\ To(s) \in Sides
           /\ Pipe(Script(From(s)), InFlight(s), got[To(s)], header[s], out[From(s)],
                   buf[From(s)], inq[From(s)])
  BY Running, Endpoints DEF Flow, Linked

(* non_blocking_read(). *)
LEMMA ReadFlow ==
    ASSUME TypeInv, NEW s \in Streams, s = Stream, Flow(s), ReadData
    PROVE  Flow(s)'
  <1> USE DEF bufVars, streamVars, netVars, peerVars
  <1>1. Src = From(s) /\ From(s) \in Sides
    BY RunningFlow
  <1>2. PICK k \in 1 .. BufLength :
          /\ k <= Len(inq[Src])
          /\ buf' = [buf EXCEPT ![Src] = SubSeq(inq[Src], 1, k)]
          /\ inq' = [inq EXCEPT ![Src] = SubSeq(inq[Src], k + 1, Len(inq[Src]))]
    BY DEF ReadData
  <1>3. /\ buf'[From(s)] = SubSeq(inq[From(s)], 1, k)
        /\ inq'[From(s)] = After(inq[From(s)], k)
    BY <1>1, <1>2 DEF TypeInv, TypeOK, BufTypeOK, PeerTypeOK, After
  <1>4. k \in 0 .. Len(inq[From(s)]) /\ buf[From(s)] = <<>>
    BY <1>1, <1>2, ParameterAssumption DEF ReadData, MayRead, FullyWritten
  <1>5. /\ UNCHANGED <<got, header, out, rst, sent, req, resp, message_state, forwarding, body>>
    BY DEF ReadData
  <1>6. Pipe(Script(From(s)), InFlight(s), got[To(s)], header[s], out[From(s)],
             SubSeq(inq[From(s)], 1, k), After(inq[From(s)], k))
    BY <1>4, RunningFlow, PipeRead
  <1>7. Tidy(s)'
    BY <1>5 DEF Flow, Tidy
  <1> QED BY <1>3, <1>5, <1>6, <1>7, FlowMoved

(* START_MESSAGE, unless the message buffer is given the proxy's own response. *)
LEMMA StartFlow ==
    ASSUME TypeInv, NEW s \in Streams, s = Stream, Flow(s), StartRequest \/ StartResponse,
           UNCHANGED header
    PROVE  Flow(s)'
  <1> USE DEF bufVars, netVars, peerVars
  <1>1. UNCHANGED <<got, out, buf, inq, rst, sent, req, resp, forwarding, body>>
    BY DEF StartRequest, StartResponse
  <1>2. message_state[s] = "START_MESSAGE" /\ ~forwarding[s]
    BY DEF StartRequest, StartResponse, Processing, Flow, Tidy
  <1>3. Tidy(s)'
    BY <1>1, <1>2 DEF Flow, Tidy
  <1> QED BY <1>1, <1>3, RunningFlow, FlowMoved

(* PARSE_HEADER, unless the unit at its head is dropped. *)
LEMMA ParseHeaderFlow ==
    ASSUME TypeInv, NEW s \in Streams, s = Stream, Flow(s), ParseHeader,
           buf[Src] # <<>> => Head(buf[Src]).k # "over"
    PROVE  Flow(s)'
  <1> USE DEF bufVars, netVars, peerVars
  <1>1. UNCHANGED <<got, out, inq, rst, sent, req, resp, forwarding, body>>
    BY DEF ParseHeader
  <1>2. message_state[s] = "PARSE_HEADER" /\ ~forwarding[s] /\ out[From(s)] = <<>>
    BY DEF ParseHeader, Processing, Flow, Tidy
  <1>3. Src = From(s) /\ From(s) \in Sides
    BY RunningFlow
  <1>4. message_state'[s] \in {"PARSE_HEADER", "PUSH_HEADER"}
    BY <1>2 DEF ParseHeader, GoTo, TypeInv, TypeOK, StreamTypeOK
  <1>5. Tidy(s)'
    BY <1>1, <1>2, <1>4 DEF Tidy
  <1>6. \/ UNCHANGED <<buf, header>>
        \/ /\ buf[Src] # <<>>
           /\ buf' = [buf EXCEPT ![Src] = Tail(@)]
           /\ header' = [header EXCEPT ![Stream] = Append(@, Head(buf[Src]))]
    <2>1. buf = [buf EXCEPT ![Src] = buf[Src]]
      BY DEF TypeInv, TypeOK, BufTypeOK
    <2> QED BY <2>1 DEF ParseHeader
  <1>7. CASE UNCHANGED <<buf, header>>
    BY <1>1, <1>5, <1>7, RunningFlow, FlowMoved
  <1>8. CASE /\ buf[Src] # <<>>
             /\ buf' = [buf EXCEPT ![Src] = Tail(@)]
             /\ header' = [header EXCEPT ![Stream] = Append(@, Head(buf[Src]))]
    <2>1. /\ buf'[From(s)] = Tail(buf[From(s)]) /\ buf[From(s)] # <<>>
          /\ header'[s] = Append(header[s], Head(buf[From(s)]))
      BY <1>3, <1>8 DEF TypeInv, TypeOK, BufTypeOK, StreamTypeOK
    <2>2. Pipe(Script(From(s)), InFlight(s), got[To(s)], Append(header[s], Head(buf[From(s)])),
               out[From(s)], Tail(buf[From(s)]), inq[From(s)])
      BY <1>2, <2>1, RunningFlow, PipeParse
    <2> QED BY <1>1, <1>5, <2>1, <2>2, FlowMoved
  <1> QED BY <1>6, <1>7, <1>8

(* PUSH_HEADER: header_writer. *)
LEMMA PushHeaderFlow ==
    ASSUME TypeInv, NEW s \in Streams, s = Stream, Flow(s), PushHeader
    PROVE  Flow(s)'
  <1> USE DEF bufVars, netVars, peerVars
  <1>1. UNCHANGED <<out, buf, inq, rst, sent, req, resp, forwarding>>
    BY DEF PushHeader
  <1>2. message_state[s] = "PUSH_HEADER" /\ ~forwarding[s]
    BY DEF PushHeader, Processing, Flow, Tidy
  <1>3. PICK k \in 0 .. Len(header[Stream]), r \in Statuses :
          /\ Write(Dest, header[Stream], k, r)
          /\ header' = [header EXCEPT ![Stream] = After(@, k)]
          /\ \/ r = "COMPLETE" /\ GoTo("PARSE_BODY")
             \/ r # "COMPLETE" /\ UNCHANGED message_state
    BY DEF PushHeader
  <1>4. /\ header'[s] = After(header[s], k) /\ header[s] \in Seq(Units)
        /\ k \in 0 .. Len(header[s]) /\ To(s) \in Sides /\ Write(To(s), header[s], k, r)
    BY <1>3, RunningFlow DEF TypeInv, TypeOK, StreamTypeOK
  <1>5. got'[To(s)] = got[To(s)] \o SubSeq(header[s], 1, k) /\ (r = "COMPLETE" => k = Len(header[s]))
    BY <1>4, WriteGot
  <1>6. Pipe(Script(From(s)), InFlight(s), got[To(s)] \o SubSeq(header[s], 1, k),
             After(header[s], k), out[From(s)], buf[From(s)], inq[From(s)])
    BY <1>4, RunningFlow, PipePush
  <1>7. Tidy(s)'
    <2>1. r = "COMPLETE" => header'[s] = <<>>
      BY <1>4, <1>5 DEF After
    <2>2. r # "COMPLETE" => message_state'[s] = "PUSH_HEADER"
      BY <1>2, <1>3
    <2> QED BY <1>1, <1>2, <2>1, <2>2 DEF Flow, Tidy
  <1> QED BY <1>1, <1>4, <1>5, <1>6, <1>7, FlowMoved

(* complete_message() finds nothing to throw away. *)
LEMMA CompleteTidy ==
    ASSUME TypeInv, NEW s \in Streams, s = Stream, CompleteMessage, out'[From(s)] = <<>>
    PROVE  Tidy(s)' /\ header'[s] = <<>>
  BY DEF CompleteMessage, GoTo, Tidy, TypeInv, TypeOK, StreamTypeOK

(* PARSE_BODY: nothing to do, or a claim. *)
LEMMA ParseBodyFlow ==
    ASSUME TypeInv, NEW s \in Streams, s = Stream, Flow(s), EndMessage \/ ParseBody
    PROVE  Flow(s)'
  <1> USE DEF bufVars, netVars, peerVars
  <1>1. UNCHANGED <<got, inq, rst, sent, req, resp>>
    BY DEF EndMessage, ParseBody
  <1>2. message_state[s] = "PARSE_BODY" /\ ~forwarding[s] /\ out[From(s)] = <<>> /\ header[s] = <<>>
    BY DEF EndMessage, ParseBody, Processing, Flow, Tidy
  <1>3. CASE EndMessage
    <2>1. UNCHANGED <<buf, out>>
      BY <1>3 DEF EndMessage
    <2>2. Tidy(s)' /\ header'[s] = <<>>
      BY <1>2, <1>3, <2>1, CompleteTidy DEF EndMessage
    <2> QED BY <1>1, <1>2, <2>1, <2>2, RunningFlow, FlowMoved
  <1>4. CASE ParseBody
    <2>1. UNCHANGED <<message_state, header>> /\ body[s].k = "length"
      BY <1>4 DEF ParseBody
    <2>2. PICK k \in 0 .. Len(buf[Src]) :
            \/ UNCHANGED <<bufVars, body, forwarding>>
            \/ /\ out' = [out EXCEPT ![Src] = SubSeq(buf[Src], 1, k)]
               /\ buf' = [buf EXCEPT ![Src] = After(@, k)]
               /\ body' = [body EXCEPT ![Stream] = [k |-> "length", n |-> @.n - k]]
               /\ forwarding' = [forwarding EXCEPT ![Stream] = TRUE]
      BY <1>4 DEF ParseBody
    <2>3. CASE UNCHANGED <<bufVars, body, forwarding>>
      <3>1. Tidy(s)'
        BY <2>1, <2>3 DEF Flow, Tidy
      <3> QED BY <1>1, <2>1, <2>3, <3>1, RunningFlow, FlowMoved
    <2>4. CASE /\ out' = [out EXCEPT ![Src] = SubSeq(buf[Src], 1, k)]
               /\ buf' = [buf EXCEPT ![Src] = After(@, k)]
               /\ body' = [body EXCEPT ![Stream] = [k |-> "length", n |-> @.n - k]]
               /\ forwarding' = [forwarding EXCEPT ![Stream] = TRUE]
      <3>1. /\ out'[From(s)] = SubSeq(buf[From(s)], 1, k) /\ k \in 0 .. Len(buf[From(s)])
            /\ buf'[From(s)] = After(buf[From(s)], k)
        BY <2>4, RunningFlow DEF TypeInv, TypeOK, BufTypeOK
      <3>2. body'[s].k = "length" /\ forwarding'[s]
        BY <2>4 DEF TypeInv, TypeOK, StreamTypeOK
      <3>3. Tidy(s)'
        BY <1>2, <2>1, <3>2 DEF Tidy
      <3>4. Pipe(Script(From(s)), InFlight(s), got[To(s)], header[s],
                 SubSeq(buf[From(s)], 1, k), After(buf[From(s)], k), inq[From(s)])
        BY <1>2, <3>1, RunningFlow, PipeClaim
      <3> QED BY <1>1, <2>1, <3>1, <3>3, <3>4, FlowMoved
    <2> QED BY <2>2, <2>3, <2>4
  <1> QED BY <1>3, <1>4

(* PARSE_BODY: the FORWARD states. *)
LEMMA ForwardBodyFlow ==
    ASSUME TypeInv, NEW s \in Streams, s = Stream, Flow(s), ForwardBody
    PROVE  Flow(s)'
  <1> USE DEF bufVars, netVars, peerVars
  <1>1. UNCHANGED <<buf, inq, rst, sent, req, resp>>
    BY DEF ForwardBody
  <1>2. /\ message_state[s] = "PARSE_BODY" /\ forwarding[s] /\ header[s] = <<>>
        /\ body[s].k = "length"
    BY DEF ForwardBody, Processing, Flow, Tidy
  <1>3. PICK k \in 0 .. Len(out[Src]), r \in Statuses :
          /\ Write(Dest, out[Src], k, r)
          /\ out' = [out EXCEPT ![Src] = After(@, k)]
          /\ \/ r = "COMPLETE" /\ CompleteMessage
             \/ /\ r = "COMPLETE"
                /\ forwarding' = [forwarding EXCEPT ![Stream] = FALSE]
                /\ UNCHANGED <<message_state, header, body>>
             \/ /\ r # "COMPLETE"
                /\ UNCHANGED <<message_state, header, body, forwarding>>
    BY DEF ForwardBody
  <1>4. /\ out'[From(s)] = After(out[From(s)], k) /\ out[From(s)] \in Seq(Units)
        /\ k \in 0 .. Len(out[From(s)]) /\ To(s) \in Sides /\ Write(To(s), out[From(s)], k, r)
    BY <1>3, RunningFlow DEF TypeInv, TypeOK, BufTypeOK
  <1>5. /\ got'[To(s)] = got[To(s)] \o SubSeq(out[From(s)], 1, k)
        /\ r = "COMPLETE" => k = Len(out[From(s)])
    BY <1>4, WriteGot
  <1>6. r = "COMPLETE" => out'[From(s)] = <<>>
    BY <1>4, <1>5 DEF After
  <1>7. Tidy(s)' /\ header'[s] = header[s]
    <2>1. CASE r = "COMPLETE" /\ CompleteMessage
      BY <1>2, <1>6, <2>1, CompleteTidy
    <2>2. CASE /\ r = "COMPLETE"
               /\ forwarding' = [forwarding EXCEPT ![Stream] = FALSE]
               /\ UNCHANGED <<message_state, header, body>>
      BY <1>2, <1>6, <2>2 DEF Tidy, TypeInv, TypeOK, StreamTypeOK
    <2>3. CASE /\ r # "COMPLETE"
               /\ UNCHANGED <<message_state, header, body, forwarding>>
      BY <1>2, <2>3 DEF Tidy
    <2> QED BY <1>3, <2>1, <2>2, <2>3
  <1>8. Pipe(Script(From(s)), InFlight(s), got[To(s)] \o SubSeq(out[From(s)], 1, k), header[s],
             After(out[From(s)], k), buf[From(s)], inq[From(s)])
    BY <1>2, <1>4, RunningFlow, PipeForward
  <1> QED BY <1>1, <1>4, <1>5, <1>7, <1>8, FlowMoved

(* PARSE_BODY up to the end of the connection. *)
LEMMA ForwardToCloseFlow ==
    ASSUME TypeInv, NEW s \in Streams, s = Stream, Flow(s), ForwardToClose
    PROVE  Flow(s)'
  <1> USE DEF bufVars, streamVars, netVars, peerVars
  <1>1. UNCHANGED <<out, header, inq, rst, sent, req, resp, message_state, forwarding, body>>
    BY DEF ForwardToClose
  <1>2. /\ message_state[s] = "PARSE_BODY" /\ header[s] = <<>>
        /\ ~forwarding[s] /\ out[From(s)] = <<>>
    BY DEF ForwardToClose, Processing, Flow, Tidy
  <1>3. Tidy(s)'
    BY <1>1 DEF Flow, Tidy
  <1>4. \/ UNCHANGED <<got, buf>>
        \/ \E k \in 0 .. Len(buf[Src]), r \in Statuses :
              Write(Dest, buf[Src], k, r) /\ buf' = [buf EXCEPT ![Src] = After(@, k)]
    BY DEF ForwardToClose
  <1>5. CASE UNCHANGED <<got, buf>>
    BY <1>1, <1>3, <1>5, RunningFlow, FlowMoved
  <1>6. CASE \E k \in 0 .. Len(buf[Src]), r \in Statuses :
               Write(Dest, buf[Src], k, r) /\ buf' = [buf EXCEPT ![Src] = After(@, k)]
    <2>1. PICK k \in 0 .. Len(buf[Src]), r \in Statuses :
            Write(Dest, buf[Src], k, r) /\ buf' = [buf EXCEPT ![Src] = After(@, k)]
      BY <1>6
    <2>2. /\ buf'[From(s)] = After(buf[From(s)], k) /\ buf[From(s)] \in Seq(Units)
          /\ k \in 0 .. Len(buf[From(s)]) /\ To(s) \in Sides /\ Write(To(s), buf[From(s)], k, r)
      BY <2>1, RunningFlow DEF TypeInv, TypeOK, BufTypeOK
    <2>3. got'[To(s)] = got[To(s)] \o SubSeq(buf[From(s)], 1, k)
      BY <2>2, WriteGot
    <2>4. Pipe(Script(From(s)), InFlight(s), got[To(s)] \o SubSeq(buf[From(s)], 1, k), header[s],
               out[From(s)], After(buf[From(s)], k), inq[From(s)])
      BY <1>2, <2>2, RunningFlow, PipeDirect
    <2> QED BY <1>1, <1>3, <2>2, <2>3, <2>4, FlowMoved
  <1> QED BY <1>4, <1>5, <1>6

(* A peer sends, or resets. *)
LEMMA PeerFlow ==
    ASSUME TypeInv, NEW s \in Streams, Flow(s), NEW c \in Sides, PeerSend(c) \/ PeerReset(c)
    PROVE  Flow(s)'
  <1> USE DEF bufVars, streamVars, peerVars
  <1>1. /\ inq \in [Sides -> Seq(Units)] /\ rst \in [Sides -> BOOLEAN] /\ sent \in [Sides -> Nat]
        /\ From(s) \in Sides
    BY FlowTypes DEF TypeInv, TypeOK, PeerTypeOK
  <1>2. /\ UNCHANGED <<got, header, out, buf, message_state, forwarding, body, req, resp>>
    BY DEF PeerSend, PeerReset
  <1>3. /\ \A d \in Sides : d # c => inq'[d] = inq[d] /\ rst'[d] = rst[d] /\ sent'[d] = sent[d]
    BY <1>1, Zenon DEF PeerSend, PeerReset
  <1>4. Tidy(s)' /\ Script(From(s))' = Script(From(s))
    BY <1>2 DEF Flow, Tidy, Script
  <1>5. CASE From(s) # c
    BY <1>1, <1>2, <1>3, <1>5, FlowKept DEF Kept
  <1>6. CASE From(s) = c /\ PeerSend(c)
    <2>1. /\ ~rst[c] /\ sent[c] < Len(Script(c)) /\ UNCHANGED rst
          /\ inq'[c] = Append(inq[c], Script(c)[sent[c] + 1]) /\ sent'[c] = sent[c] + 1
      BY <1>1, <1>6 DEF PeerSend
    <2>2. InFlight(s) = sent[c] /\ Linked(s)
      BY <1>6, <2>1 DEF Flow
    <2>3. Pipe(Script(c), sent[c] + 1, got[To(s)], header[s], out[c], buf[c], inq'[c])
      BY <1>6, <2>1, <2>2, PipeSend DEF Linked
    <2>4. InFlight(s)' = sent'[c]
      BY <1>2, <1>6, <2>1, <2>3 DEF Pipe, InFlight
    <2>5. Linked(s)'
      BY <1>2, <1>4, <1>6, <2>1, <2>3, <2>4 DEF Linked
    <2> QED BY <1>4, <1>6, <2>4, <2>5 DEF Flow
  <1>7. CASE From(s) = c /\ PeerReset(c)
    <2>1. rst'[c] /\ inq'[c] = <<>>
      BY <1>1, <1>7 DEF PeerReset
    <2>2. PICK n : Pipe(Script(c), n, got[To(s)], header[s], out[c], buf[c], <<>>)
      BY <1>7, PipeReset DEF Flow, Linked
    <2>3. InFlight(s)' = n
      BY <1>2, <1>7, <2>1, <2>2 DEF Pipe, InFlight
    <2>4. Linked(s)'
      BY <1>2, <1>4, <1>7, <2>1, <2>2, <2>3 DEF Linked
    <2> QED BY <1>4, <1>7, <2>1, <2>4 DEF Flow
  <1> QED BY <1>5, <1>6, <1>7

LEMMA EmptyPipe ==
    ASSUME NEW t \in Seq(Units)
    PROVE  Pipe(t, 0, <<>>, <<>>, <<>>, <<>>, <<>>)
  BY DEF Pipe, Chain, Piece, Total

(* A handler that serves its first client, or its next. *)
LEMMA FreshFlow ==
    ASSUME NEW s \in Streams, req \in Seq(Units), resp \in Seq(Units),
           got = NoUnits, out = NoUnits, buf = NoUnits, inq = NoUnits, header[s] = <<>>,
           sent = [c \in Sides |-> 0], message_state[s] = "START_MESSAGE", ~forwarding[s]
    PROVE  Flow(s)
  <1>1. From(s) \in Sides /\ To(s) \in Sides /\ Script(From(s)) \in Seq(Units)
    BY DEF From, To, Sides, Script
  <1>2. /\ got[To(s)] = <<>> /\ out[From(s)] = <<>> /\ buf[From(s)] = <<>> /\ inq[From(s)] = <<>>
        /\ sent[From(s)] = 0
    BY <1>1 DEF NoUnits
  <1>3. InFlight(s) = 0
    BY <1>2 DEF InFlight, Total
  <1>5. Linked(s)
    BY <1>1, <1>2, <1>3, EmptyPipe DEF Linked
  <1>6. Tidy(s)
    BY <1>2 DEF Tidy
  <1> QED BY <1>2, <1>3, <1>5, <1>6 DEF Flow

LEMMA AcceptFlow ==
    ASSUME NEW s \in Streams, Accept
    PROVE  Flow(s)'
  <1>1. /\ got' = NoUnits /\ out' = NoUnits /\ buf' = NoUnits /\ inq' = NoUnits
        /\ sent' = [c \in Sides |-> 0] /\ req' \in Seq(Units) /\ resp' \in Seq(Units)
    BY ParameterAssumption DEF Accept, ResetConnections, ResetBuffers
  <1>2. header'[s] = <<>> /\ message_state'[s] = "START_MESSAGE" /\ ~forwarding'[s]
    BY DEF Accept, ResetStreams
  <1>3. From(s) \in Sides /\ To(s) \in Sides /\ Script(From(s))' \in Seq(Units)
    BY <1>1 DEF From, To, Sides, Script
  <1>4. /\ got'[To(s)] = <<>> /\ out'[From(s)] = <<>> /\ buf'[From(s)] = <<>>
        /\ inq'[From(s)] = <<>> /\ sent'[From(s)] = 0
    BY <1>1, <1>3 DEF NoUnits
  <1>5. InFlight(s)' = 0
    BY <1>2, <1>4 DEF InFlight, Total
  <1>6. Linked(s)'
    BY <1>2, <1>3, <1>4, <1>5, EmptyPipe DEF Linked
  <1>7. Tidy(s)'
    BY <1>2, <1>4 DEF Tidy
  <1> QED BY <1>4, <1>5, <1>6, <1>7 DEF Flow

(***************************************************************************)
(* Every step of the handler keeps a stream in order, but for two: a value *)
(* too long for its buffer, which the header parser has consumed when it   *)
(* says so, and the proxy's own response, which is not the peer's.         *)
(***************************************************************************)
LEMMA FlowStep ==
    ASSUME TypeInv, NEW s \in Streams, Flow(s), [Next]_vars,
           ParseHeader /\ s = Stream /\ buf[Src] # <<>> => Head(buf[Src]).k # "over",
           StartResponse /\ s = "response" => UNCHANGED header
    PROVE  Flow(s)'
  <1>1. CASE \/ SkipRead \/ ReadNothing \/ NoConnect \/ InitiateServerConnect \/ AfterProcess
             \/ StreamReturned \/ RegisterEvents \/ (\E c \in Sides : Dispatch(c))
             \/ ConnectResult \/ UNCHANGED vars
             \/ (\E c \in Sides : PeerClose(c) \/ PeerDrain(c))
    BY <1>1, AsideKept, FlowKept
  <1>2. CASE \/ ReadData \/ StartRequest \/ StartResponse \/ ParseHeader \/ PushHeader
             \/ EndMessage \/ ParseBody \/ ForwardBody \/ ForwardToClose
    <2>1. CASE s # Stream
      BY <1>2, <2>1, OtherKept, FlowKept
    <2>2. CASE s = Stream
      <3>1. CASE ReadData
        BY <2>2, <3>1, ReadFlow
      <3>2. CASE StartRequest \/ StartResponse
        <4>1. UNCHANGED header
          BY <2>2, <3>2 DEF StartRequest, StartResponse
        <4> QED BY <2>2, <3>2, <4>1, StartFlow
      <3>3. CASE ParseHeader
        BY <2>2, <3>3, ParseHeaderFlow
      <3>4. CASE PushHeader
        BY <2>2, <3>4, PushHeaderFlow
      <3>5. CASE EndMessage \/ ParseBody
        BY <2>2, <3>5, ParseBodyFlow
      <3>6. CASE ForwardBody
        BY <2>2, <3>6, ForwardBodyFlow
      <3>7. CASE ForwardToClose
        BY <2>2, <3>7, ForwardToCloseFlow
      <3> QED BY <1>2, <3>1, <3>2, <3>3, <3>4, <3>5, <3>6, <3>7
    <2> QED BY <2>1, <2>2
  <1>3. CASE \E c \in Sides : PeerSend(c) \/ PeerReset(c)
    BY <1>3, PeerFlow
  <1>4. CASE Accept
    BY <1>4, AcceptFlow
  <1> QED BY <1>1, <1>2, <1>3, <1>4 DEF Next, Step, Peer

(* What the peers say is one of the scripts, and the same up to the next client. *)
Scripted == req \in Requests /\ resp \in Responses

LEMMA ScriptedStep ==
    ASSUME Scripted, [Next]_vars
    PROVE  Scripted'
  <1> USE DEF peerVars, vars
  <1>1. CASE Accept
    BY <1>1 DEF Accept, Scripted
  <1>2. CASE \/ SkipRead \/ ReadData \/ ReadNothing \/ StartRequest \/ StartResponse
             \/ ParseHeader \/ PushHeader \/ EndMessage \/ ParseBody \/ ForwardBody
             \/ ForwardToClose \/ NoConnect
    BY <1>2 DEF SkipRead, ReadData, ReadNothing, StartRequest, StartResponse, ParseHeader,
                PushHeader, EndMessage, ParseBody, ForwardBody, ForwardToClose, NoConnect, Scripted
  <1>3. CASE \/ InitiateServerConnect \/ AfterProcess \/ StreamReturned \/ RegisterEvents
             \/ ConnectResult \/ (\E c \in Sides : Dispatch(c) \/ Peer(c)) \/ UNCHANGED vars
    BY <1>3 DEF InitiateServerConnect, AfterProcess, StreamReturned, RegisterEvents,
                ConnectResult, Dispatch, HandleEvent, Peer, PeerSend, PeerClose, PeerReset,
                PeerDrain, Scripted
  <1> QED BY <1>1, <1>2, <1>3 DEF Next, Step

LEMMA FlowInit == Init => Scripted /\ \A s \in Streams : Flow(s)
  <1> SUFFICES ASSUME Init PROVE Scripted /\ \A s \in Streams : Flow(s)
    OBVIOUS
  <1>1. /\ got = NoUnits /\ out = NoUnits /\ buf = NoUnits /\ inq = NoUnits
        /\ header = [s \in Streams |-> <<>>] /\ sent = [c \in Sides |-> 0]
        /\ message_state = [s \in Streams |-> "START_MESSAGE"]
        /\ forwarding = [s \in Streams |-> FALSE] /\ req \in Requests /\ resp \in Responses
    BY Zenon DEF Init
  <1>2. ASSUME NEW s \in Streams PROVE Flow(s)
    BY <1>1, <1>2, FreshFlow, ParameterAssumption
  <1> QED BY <1>1, <1>2 DEF Scripted

(* The unit the header parser looks at is one the peer says. *)
LEMMA HeadSaid ==
    ASSUME NEW s \in Streams, Flow(s), buf[From(s)] # <<>>
    PROVE  \E i \in DOMAIN Script(From(s)) : Script(From(s))[i] = Head(buf[From(s)])
  <1> DEFINE t == Script(From(s))
             b == buf[From(s)]
             n == Len(got[To(s)]) + Len(header[s]) + Len(out[From(s)])
  <1>1. t \in Seq(Units) /\ b \in Seq(Units) /\ Piece(t, b, n) /\ b # <<>>
    BY DEF Flow, Linked, Pipe, Chain
  <1>2. n \in Nat
    <2>1. got[To(s)] \in Seq(Units) /\ header[s] \in Seq(Units) /\ out[From(s)] \in Seq(Units)
      BY DEF Flow, Linked, Pipe
    <2>2. Len(got[To(s)]) \in Nat /\ Len(header[s]) \in Nat /\ Len(out[From(s)]) \in Nat
      BY <2>1
    <2>3. \A i, j, k \in Nat : i + j + k \in Nat
      OBVIOUS
    <2> QED BY <2>2, <2>3, Zenon
  <1> HIDE DEF t, b, n
  <1>3. Head(b) = t[n + 1] /\ n + 1 \in DOMAIN t
    BY <1>1, <1>2 DEF Piece
  <1> QED BY <1>3 DEF t, b

NoOver(t) == \A i \in DOMAIN t : t[i].k # "over"

(* The inductive invariant of the request stream. *)
RequestFlow == TypeInv /\ Scripted /\ Flow("request")

LEMMA RequestFlowStep ==
    ASSUME \A t \in Requests : NoOver(t), RequestFlow, [Next]_vars
    PROVE  RequestFlow'
  <1>1. TypeInv' /\ Scripted'
    BY TypeStep, ScriptedStep DEF RequestFlow
  <1>2. "request" \in Streams /\ From("request") = "client"
    BY DEF Streams, From
  <1>3. ASSUME ParseHeader, "request" = Stream, buf[Src] # <<>>
        PROVE  Head(buf[Src]).k # "over"
    <2>1. Src = "client" /\ Script("client") = req /\ NoOver(req)
      BY <1>2, <1>3, Running DEF Script, RequestFlow, Scripted
    <2> QED BY <1>2, <1>3, <2>1, HeadSaid DEF RequestFlow, NoOver
  <1>4. Flow("request")'
    BY <1>2, <1>3, FlowStep DEF RequestFlow
  <1> QED BY <1>1, <1>4 DEF RequestFlow

(***************************************************************************)
(* The server receives the client's bytes in order, without gaps or        *)
(* repetitions, over any number of messages and clients, for every buffer  *)
(* length, segmentation, blocked write and behaviour of the peers: what    *)
(* the server got is followed by the message buffer, the claimed part of   *)
(* the read buffer, the rest of it, and what the kernel holds.  (A value   *)
(* too long for its buffer is consumed before it is refused, and the bytes *)
(* after it would be passed on without it.)                                *)
(***************************************************************************)
THEOREM RequestsKeepOrder ==
    ASSUME \A t \in Requests : NoOver(t)
    PROVE  Spec => []RequestsInOrder
  <1>1. Init => RequestFlow
    BY TypeInit, FlowInit DEF RequestFlow, Streams
  <1>2. RequestFlow /\ [Next]_vars => RequestFlow'
    BY RequestFlowStep
  <1>3. RequestFlow => RequestsInOrder
    <2> SUFFICES ASSUME RequestFlow PROVE RequestsInOrder
      OBVIOUS
    <2>1. /\ req \in Seq(Units) /\ got["server"] \in Seq(Units) /\ Piece(req, got["server"], 0)
      BY DEF RequestFlow, Flow, Linked, Pipe, Chain, From, To, Script
    <2> QED BY <2>1, PiecePrefix DEF RequestsInOrder
  <1> QED BY <1>1, <1>2, <1>3, PTL DEF Spec

-----------------------------------------------------------------------------
(***************************************************************************)
(* The response stream.  The proxy's own response is not the server's; it  *)
(* is written because the request stream stopped at input it refuses, and  *)
(* the request stream never gets past it: it stays in PARSE_HEADER, so it  *)
(* takes no pipeline element, and the one it marked DENY stays marked,     *)
(* although it is back in the free list while the response is written.     *)
(***************************************************************************)
Stuck ==
    /\ message_state["request"] = "PARSE_HEADER" /\ buf["client"] # <<>>
    /\ Head(buf["client"]).k # "over"
    /\ ~ /\ Head(buf["client"]).k \in {"start", "field"} \cup BodyKinds
         /\ (Head(buf["client"]).k = "start") = (header["request"] = <<>>)

DenyStuck == \A i \in 1 .. Len(active_queue) : process_type[active_queue[i]] = "DENY" => Stuck

(* The steps of the request stream that a refused header leaves. *)
LEMMA StuckStep ==
    ASSUME TypeInv, Stuck, [Next]_vars, ~Accept
    PROVE  Stuck' /\ \A e \in Elements : process_type[e] = "DENY" => process_type'[e] = "DENY"
  <1> USE DEF bufVars, streamVars, elemVars, peerVars, netVars
  <1>1. "request" \in Streams /\ From("request") = "client"
    BY DEF Streams, From
  <1>2. ASSUME Kept("request") PROVE Stuck'
    BY <1>1, <1>2 DEF Kept, Stuck
  <1>3. CASE \/ SkipRead \/ ReadNothing \/ NoConnect \/ InitiateServerConnect \/ AfterProcess
             \/ StreamReturned \/ RegisterEvents \/ (\E c \in Sides : Dispatch(c))
             \/ ConnectResult \/ UNCHANGED vars
             \/ (\E c \in Sides : PeerClose(c) \/ PeerDrain(c))
    <2>1. Stuck'
      BY <1>1, <1>2, <1>3, AsideKept
    <2>2. UNCHANGED process_type
      BY <1>3 DEF SkipRead, ReadNothing, NoConnect, InitiateServerConnect, AfterProcess,
                  StreamReturned, RegisterEvents, Dispatch, HandleEvent, ConnectResult, vars,
                  PeerClose, PeerDrain
    <2> QED BY <2>1, <2>2
  <1>4. CASE /\ Stream # "request"
             /\ \/ ReadData \/ StartRequest \/ StartResponse \/ ParseHeader \/ PushHeader
                \/ EndMessage \/ ParseBody \/ ForwardBody \/ ForwardToClose
    <2>1. Stuck'
      BY <1>1, <1>2, <1>4, OtherKept
    <2>2. UNCHANGED process_type
      BY <1>4 DEF ReadData, StartRequest, StartResponse, ParseHeader, PushHeader, EndMessage,
                  ParseBody, ForwardBody, ForwardToClose
    <2> QED BY <2>1, <2>2
  <1>5. CASE /\ Stream = "request"
             /\ \/ ReadData \/ StartRequest \/ StartResponse \/ PushHeader
                \/ EndMessage \/ ParseBody \/ ForwardBody \/ ForwardToClose
    <2>1. Src = "client"
      BY <1>1, <1>5, Running
    <2> QED BY <1>5, <2>1 DEF ReadData, MayRead, FullyWritten, StartRequest, StartResponse,
                PushHeader, EndMessage, ParseBody, ForwardBody, ForwardToClose, Processing, Stuck
  <1>6. CASE Stream = "request" /\ ParseHeader
    <2>1. Src = "client"
      BY <1>1, <1>6, Running
    <2>2. buf["client"] # <<>> /\ ~Expected(Head(buf["client"]))
      BY <1>6 DEF Stuck, Expected
    <2>3. /\ buf' = [buf EXCEPT ![Src] = IF Head(@).k = "over" THEN Tail(@) ELSE @]
          /\ process_type' = [process_type EXCEPT ![current["request"]] = "DENY"]
          /\ UNCHANGED <<header, message_state>>
      BY <1>6, <2>1, <2>2 DEF ParseHeader
    <2>4. buf'["client"] = buf["client"]
      BY <2>1, <2>3 DEF Stuck, TypeInv, TypeOK, BufTypeOK
    <2>5. Stuck'
      BY <2>3, <2>4 DEF Stuck
    <2>6. \A e \in Elements : process_type[e] = "DENY" => process_type'[e] = "DENY"
      BY <2>3 DEF TypeInv, TypeOK, ElemTypeOK
    <2> QED BY <2>5, <2>6
  <1>7. CASE \E c \in Sides : PeerSend(c) \/ PeerReset(c)
    BY <1>7 DEF PeerSend, PeerReset, Stuck
  <1> QED BY <1>3, <1>4, <1>5, <1>6, <1>7 DEF Next, Step, Peer

(* The pipeline holds a denied request only while the request stream is stuck. *)
LEMMA DenyStuckStep ==
    ASSUME \A t \in Requests : NoOver(t), RequestFlow, DenyStuck, [Next]_vars
    PROVE  DenyStuck'
  <1> USE DEF elemVars, qvars
  <1>1. TypeInv /\ QueueTypeOK /\ process_type \in [Elements -> {"NORMAL", "HEAD", "DENY"}]
    BY DEF RequestFlow, TypeInv, TypeOK, ElemTypeOK
  <1>2. CASE Accept
    BY <1>2 DEF Accept, EmptyQueue, DenyStuck
  <1>3. CASE Stuck /\ ~Accept
    BY <1>1, <1>3, StuckStep DEF DenyStuck
  <1>4. CASE ~Stuck /\ ~Accept
    <2>1. \A i \in 1 .. Len(active_queue) : process_type[active_queue[i]] # "DENY"
      BY <1>4 DEF DenyStuck
    <2>2. CASE UNCHANGED <<process_type, active_queue>>
      BY <2>1, <2>2 DEF DenyStuck
    <2>3. CASE StartRequest /\ QueueElement
      <3>1. /\ ~QueueFull /\ active_queue' = Append(active_queue, NextFree)
            /\ process_type' = [process_type EXCEPT ![NextFree] = "NORMAL"]
        BY <2>3 DEF StartRequest, QueueElement
      <3>2. NextFree \in Elements /\ active_queue \in Seq(Elements)
        BY <1>1, <3>1, QueueTypes DEF QueueTypeOK
      <3>3. \A i \in 1 .. Len(active_queue') : process_type'[active_queue'[i]] # "DENY"
        BY <1>1, <2>1, <3>1, <3>2
      <3> QED BY <3>3 DEF DenyStuck
    <2>4. CASE StartResponse /\ DequeueElement
      <3>1. /\ active_queue # <<>> /\ active_queue' = Tail(active_queue) /\ UNCHANGED process_type
        BY <2>4 DEF StartResponse, DequeueElement, QueueEmpty
      <3>2. \A i \in 1 .. Len(active_queue') : process_type'[active_queue'[i]] # "DENY"
        BY <1>1, <2>1, <3>1 DEF QueueTypeOK
      <3> QED BY <3>2 DEF DenyStuck
    <2>5. CASE ParseHeader /\ ~UNCHANGED process_type
      <3>1. "request" \in Streams /\ From("request") = "client"
        BY DEF Streams, From
      <3>2. /\ Stream = "request" /\ buf[Src] # <<>> /\ ~Expected(Head(buf[Src]))
            /\ message_state[Stream] = "PARSE_HEADER"
            /\ buf' = [buf EXCEPT ![Src] = IF Head(@).k = "over" THEN Tail(@) ELSE @]
            /\ UNCHANGED <<header, message_state>>
        BY <2>5 DEF ParseHeader, Processing
      <3>3. Src = "client" /\ Script("client") = req /\ NoOver(req)
        BY <3>1, <3>2, Running DEF Script, RequestFlow, Scripted
      <3>4. Head(buf["client"]).k # "over"
        BY <3>1, <3>2, <3>3, HeadSaid DEF RequestFlow, NoOver
      <3>5. Stuck
        BY <3>2, <3>3, <3>4 DEF Stuck, Expected
      <3> QED BY <1>4, <3>5
    <2>6. \/ UNCHANGED <<process_type, active_queue>>
          \/ StartRequest /\ QueueElement
          \/ StartResponse /\ DequeueElement
          \/ ParseHeader /\ ~UNCHANGED process_type
      <3>1. CASE StartRequest
        BY <3>1 DEF StartRequest
      <3>2. CASE StartResponse
        BY <3>2 DEF StartResponse
      <3>3. CASE ParseHeader
        BY <3>3 DEF ParseHeader
      <3>4. CASE \/ SkipRead \/ ReadData \/ ReadNothing \/ PushHeader \/ EndMessage \/ ParseBody
                 \/ ForwardBody \/ ForwardToClose \/ NoConnect \/ InitiateServerConnect
        BY <3>4 DEF SkipRead, ReadData, ReadNothing, PushHeader, EndMessage, ParseBody,
                    ForwardBody, ForwardToClose, NoConnect, InitiateServerConnect
      <3>5. CASE \/ AfterProcess \/ StreamReturned \/ RegisterEvents \/ ConnectResult
                 \/ (\E c \in Sides : Dispatch(c) \/ Peer(c)) \/ UNCHANGED vars
        BY <3>5 DEF AfterProcess, StreamReturned, RegisterEvents, ConnectResult, vars,
                    Dispatch, HandleEvent, Peer, PeerSend, PeerClose, PeerReset, PeerDrain
      <3> QED BY <1>4, <3>1, <3>2, <3>3, <3>4, <3>5 DEF Next, Step
    <2> QED BY <2>2, <2>3, <2>4, <2>5, <2>6
  <1> QED BY <1>2, <1>3, <1>4

(* The proxy's own response is to be written, in the place of the server's. *)
Refusing ==
    /\ header["response"] = <<ErrorResponse>> /\ message_state["response"] = "PUSH_HEADER"
    /\ Stuck /\ process_type[current["response"]] = "DENY"
    /\ Piece(resp, got["client"], 0)

(* The pass that runs is the last one of this client. *)
Ending ==
    \/ pc = "dead"
    \/ strm # "request" /\ pc \in {"jit", "after"} /\ status \in {"DENY", "SRC_CLOSED"}
    \/ strm # "request" /\ pc = "return" /\ status \in {"DENY", "COMPLETE"}

NoError(t) == \A i \in DOMAIN t : t[i].k # "error"

(* The inductive invariant of the response stream. *)
ResponseFlow ==
    /\ RequestFlow /\ DenyStuck
    /\ \/ Flow("response")
       \/ Refusing
       \/ Ending /\ ResponsesInOrder

LEMMA PieceNoError ==
    ASSUME NEW t \in Seq(Units), NEW q \in Seq(Units), NoError(t), Piece(t, q, 0)
    PROVE  NoError(q)
  BY DEF Piece, NoError

(* As long as the client has pieces of the server's script, all is well. *)
LEMMA PieceInOrder ==
    ASSUME resp \in Seq(Units), got["client"] \in Seq(Units), NoError(resp),
           Piece(resp, got["client"], 0)
    PROVE  ResponsesInOrder
  <1>1. \A i \in DOMAIN got["client"] : got["client"][i].k # "error"
    BY DEF Piece, NoError
  <1>2. IsPrefix(got["client"], resp)
    BY PiecePrefix
  <1>3. Relayed = got["client"]
    <2>1. got["client"] # <<>> => Len(got["client"]) \in DOMAIN got["client"]
      OBVIOUS
    <2> QED BY <1>1, <2>1 DEF Relayed, Last
  <1> QED BY <1>1, <1>2, <1>3 DEF ResponsesInOrder

(* The proxy's own response comes last. *)
LEMMA ErrorInOrder ==
    ASSUME resp' \in Seq(Units), got["client"] \in Seq(Units), NoError(resp'),
           Piece(resp', got["client"], 0), got'["client"] = got["client"] \o <<ErrorResponse>>
    PROVE  ResponsesInOrder'
  <1> DEFINE g == got["client"]
             h == got'["client"]
  <1>1. /\ g \in Seq(Units) /\ h = g \o <<ErrorResponse>> /\ ErrorResponse \in Units
        /\ ErrorResponse.k = "error"
    BY DEF ErrorResponse, Units, Kinds
  <1>2. \A i \in DOMAIN g : g[i].k # "error"
    <2>1. NoError(g)
      BY PieceNoError
    <2> QED BY <2>1 DEF NoError
  <1>3. IsPrefix(g, resp')
    BY PiecePrefix
  <1> HIDE DEF g, h
  <1>4. /\ Len(h) = Len(g) + 1 /\ h # <<>> /\ h[Len(h)] = ErrorResponse /\ Front(h) = g
        /\ \A i \in DOMAIN h : i = Len(h) \/ (i \in DOMAIN g /\ h[i] = g[i])
    BY <1>1 DEF Front
  <1>5. Relayed' = g
    BY <1>1, <1>4 DEF Relayed, Last, h
  <1>6. \A i \in DOMAIN h : h[i].k = "error" => i = Len(h)
    BY <1>2, <1>4
  <1> QED BY <1>3, <1>5, <1>6 DEF ResponsesInOrder, h

(* The last pass ends in shutdown(), and hands nothing to the client. *)
LEMMA EndingStep ==
    ASSUME Ending, [Next]_vars, ~Accept
    PROVE  Ending' /\ UNCHANGED <<got, req, resp>>
  <1> USE DEF netVars, peerVars, phVars
  <1>1. pc \notin {"process", "idle", "read", "register"}
    BY DEF Ending
  <1>2. CASE NoConnect \/ InitiateServerConnect
    BY <1>2 DEF NoConnect, InitiateServerConnect, NeedsServer, Ending
  <1>3. CASE AfterProcess
    BY <1>3 DEF AfterProcess, Ending
  <1>4. CASE StreamReturned
    BY <1>4 DEF StreamReturned, Shutdown, Ending
  <1>5. CASE (\E c \in Sides : Peer(c)) \/ ConnectResult \/ UNCHANGED vars
    BY <1>5 DEF Peer, PeerSend, PeerClose, PeerReset, PeerDrain, ConnectResult, vars, Ending
  <1>6. ~ \/ SkipRead \/ ReadData \/ ReadNothing \/ StartRequest \/ StartResponse
          \/ ParseHeader \/ PushHeader \/ EndMessage \/ ParseBody \/ ForwardBody
          \/ ForwardToClose \/ RegisterEvents \/ (\E c \in Sides : Dispatch(c))
    BY <1>1 DEF SkipRead, ReadData, ReadNothing, StartRequest, StartResponse, ParseHeader,
                PushHeader, EndMessage, ParseBody, ForwardBody, ForwardToClose, Processing,
                RegisterEvents, Dispatch, HandleEvent
  <1> QED BY <1>2, <1>3, <1>4, <1>5, <1>6 DEF Next, Step

LEMMA OneUnit ==
    ASSUME NEW u \in Units
    PROVE  Len(<<u>>) = 1 /\ SubSeq(<<u>>, 1, 1) = <<u>> /\ After(<<u>>, 0) = <<u>>
  <1>1. <<u>> \in Seq(Units) /\ Len(<<u>>) = 1 /\ <<u>>[1] = u
    OBVIOUS
  <1> DEFINE w == <<u>>
  <1> HIDE DEF w
  <1>2. ASSUME w \in Seq(Units), Len(w) = 1 PROVE SubSeq(w, 1, 1) = w /\ After(w, 0) = w
    BY <1>2 DEF After
  <1> QED BY <1>1, <1>2 DEF w

(* While the proxy's response waits to be written. *)
LEMMA RefusingStep ==
    ASSUME TypeInv, Scripted, \A t \in Responses : NoError(t), Refusing, [Next]_vars, ~Accept
    PROVE  Refusing' \/ (Ending' /\ ResponsesInOrder')
  <1> USE DEF bufVars, streamVars, netVars, peerVars
  <1>1. /\ Stuck' /\ \A e \in Elements : process_type[e] = "DENY" => process_type'[e] = "DENY"
    BY StuckStep DEF Refusing
  <1>2. /\ "response" \in Streams /\ From("response") = "server" /\ To("response") = "client"
        /\ current["response"] \in Elements
    BY DEF Streams, From, To, TypeInv, HoldsElement, Refusing
  <1>3. ASSUME header'["response"] = header["response"], got'["client"] = got["client"],
               message_state'["response"] = message_state["response"],
               current'["response"] = current["response"], UNCHANGED resp
        PROVE  Refusing'
    BY <1>1, <1>2, <1>3 DEF Refusing
  <1>4. CASE \/ SkipRead \/ ReadNothing \/ NoConnect \/ InitiateServerConnect \/ AfterProcess
             \/ StreamReturned \/ RegisterEvents \/ (\E c \in Sides : Dispatch(c))
             \/ ConnectResult \/ UNCHANGED vars
             \/ (\E c \in Sides : PeerClose(c) \/ PeerDrain(c))
    <2>1. Kept("response")
      BY <1>2, <1>4, AsideKept
    <2>2. UNCHANGED current
      BY <1>4 DEF SkipRead, ReadNothing, NoConnect, InitiateServerConnect, AfterProcess,
                  StreamReturned, RegisterEvents, Dispatch, HandleEvent, ConnectResult, vars,
                  PeerClose, PeerDrain
    <2> QED BY <1>2, <1>3, <2>1, <2>2 DEF Kept
  <1>5. CASE \/ ReadData \/ \E c \in Sides : PeerSend(c) \/ PeerReset(c)
    BY <1>3, <1>5 DEF ReadData, PeerSend, PeerReset
  <1>6. CASE /\ Stream = "request"
             /\ \/ StartRequest \/ StartResponse \/ ParseHeader \/ PushHeader
                \/ EndMessage \/ ParseBody \/ ForwardBody \/ ForwardToClose
    <2>1. Kept("response")
      BY <1>2, <1>6, OtherKept
    <2>2. current'["response"] = current["response"]
      BY <1>6 DEF StartRequest, StartResponse, TakeElement, ParseHeader, PushHeader, EndMessage,
                  CompleteMessage, ParseBody, ForwardBody, ForwardToClose, TypeInv, TypeOK,
                  StreamTypeOK, Streams
    <2> QED BY <1>2, <1>3, <2>1, <2>2 DEF Kept
  <1>7. CASE /\ Stream # "request"
             /\ \/ StartRequest \/ StartResponse \/ ParseHeader
                \/ EndMessage \/ ParseBody \/ ForwardBody \/ ForwardToClose
    <2>1. Stream = "response"
      BY <1>7 DEF Stream
    <2> QED BY <1>7, <2>1 DEF StartRequest, StartResponse, ParseHeader, EndMessage, ParseBody,
                ForwardBody, ForwardToClose, Processing, Refusing
  <1>8. CASE Stream # "request" /\ PushHeader
    <2>1. Stream = "response" /\ strm # "request" /\ Dest = "client"
      BY <1>8 DEF Stream, Dest
    <2>2. header["response"] = <<ErrorResponse>> /\ header["response"] \in Seq(Units)
      BY <1>2 DEF Refusing, TypeInv, TypeOK, StreamTypeOK
    <2>3. PICK k \in 0 .. Len(header[Stream]), r \in Statuses :
            /\ Write(Dest, header[Stream], k, r)
            /\ header' = [header EXCEPT ![Stream] = After(@, k)]
            /\ \/ /\ r = "COMPLETE"
                  /\ process_type[current[Stream]] = "DENY" => Returns("SRC_CLOSED")
               \/ /\ r # "COMPLETE"
                  /\ UNCHANGED message_state
      BY <1>8 DEF PushHeader
    <2>4. UNCHANGED <<strm, current, resp>>
      BY <1>8 DEF PushHeader
    <2>5. /\ got'["client"] = got["client"] \o SubSeq(header["response"], 1, k)
          /\ r = "COMPLETE" => k = Len(header["response"])
      BY <2>1, <2>2, <2>3, WriteGot DEF Sides
    <2>6. /\ Len(header["response"]) = 1 /\ SubSeq(header["response"], 1, 1) = <<ErrorResponse>>
          /\ After(header["response"], 0) = header["response"]
      <3>1. ErrorResponse \in Units
        BY DEF ErrorResponse, Units, Kinds
      <3> QED BY <2>2, <3>1, OneUnit
    <2>7. got["client"] \in Seq(Units) /\ resp \in Seq(Units) /\ NoError(resp)
      BY ParameterAssumption DEF TypeInv, TypeOK, PeerTypeOK, Scripted, Sides
    <2>8. CASE r = "COMPLETE"
      <3>1. got'["client"] = got["client"] \o <<ErrorResponse>>
        BY <2>5, <2>6, <2>8
      <3>2. ResponsesInOrder'
        BY <2>4, <2>7, <3>1, ErrorInOrder DEF Refusing
      <3>3. Ending'
        BY <2>1, <2>3, <2>4, <2>8 DEF Refusing, Returns, Ending
      <3> QED BY <3>2, <3>3
    <2>9. CASE r # "COMPLETE" /\ k = 0
      <3>1. header'["response"] = header["response"]
        BY <1>2, <2>1, <2>3, <2>6, <2>9 DEF TypeInv, TypeOK, StreamTypeOK
      <3>2. got'["client"] = got["client"]
        BY <2>2, <2>5, <2>7, <2>9
      <3> QED BY <1>3, <2>3, <2>4, <2>9, <3>1, <3>2
    <2>10. r # "COMPLETE" => k = 0
      <3>1. r # "COMPLETE" => k = 0 \/ k < Len(header["response"])
        BY <2>1, <2>3 DEF Write
      <3> QED BY <2>1, <2>3, <2>6, <3>1
    <2> QED BY <2>8, <2>9, <2>10
  <1> QED BY <1>4, <1>5, <1>6, <1>7, <1>8 DEF Next, Step, Peer

LEMMA ResponseFlowStep ==
    ASSUME \A t \in Requests : NoOver(t), \A t \in Responses : NoError(t),
           ResponseFlow, [Next]_vars
    PROVE  ResponseFlow'
  <1>1. RequestFlow' /\ DenyStuck' /\ TypeInv /\ Scripted
    BY RequestFlowStep, DenyStuckStep DEF ResponseFlow, RequestFlow
  <1>2. /\ "response" \in Streams /\ From("response") = "server" /\ To("response") = "client"
    BY DEF Streams, From, To
  <1>3. CASE Accept
    BY <1>1, <1>2, <1>3, AcceptFlow DEF ResponseFlow
  <1>4. CASE ~Accept /\ Refusing
    BY <1>1, <1>4, RefusingStep DEF ResponseFlow
  <1>5. CASE ~Accept /\ Ending /\ ResponsesInOrder
    BY <1>1, <1>5, EndingStep DEF ResponseFlow, ResponsesInOrder, Relayed
  <1>6. CASE ~Accept /\ Flow("response")
    <2>1. /\ resp \in Seq(Units) /\ got["client"] \in Seq(Units) /\ NoError(resp)
          /\ Piece(resp, got["client"], 0)
      BY <1>1, <1>2, <1>6, ParameterAssumption DEF Flow, Linked, Pipe, Chain, Script, Scripted
    <2>2. CASE StartResponse /\ ~UNCHANGED header
      <3>1. /\ Stream = "response" /\ ~QueueEmpty /\ process_type[FrontElement] = "DENY"
            /\ header' = [header EXCEPT !["response"] = <<ErrorResponse>>]
            /\ current' = [current EXCEPT !["response"] = FrontElement]
            /\ GoTo("PUSH_HEADER") /\ UNCHANGED <<got, resp, process_type>>
        BY <2>2 DEF StartResponse, TakeElement, netVars, peerVars, elemVars
      <3>2. Stuck
        <4>1. active_queue \in Seq(Elements) /\ active_queue # <<>>
          BY <1>1, <3>1 DEF TypeInv, TypeOK, QueueTypeOK, QueueEmpty
        <4>2. 1 \in 1 .. Len(active_queue) /\ FrontElement = active_queue[1]
          BY <4>1 DEF FrontElement
        <4> QED BY <3>1, <4>2 DEF ResponseFlow, DenyStuck
      <3>3. Stuck'
        BY <1>1, <1>6, <3>2, StuckStep
      <3>4. /\ header'["response"] = <<ErrorResponse>> /\ message_state'["response"] = "PUSH_HEADER"
            /\ current'["response"] = FrontElement
        BY <1>1, <1>2, <3>1 DEF GoTo, TypeInv, TypeOK, StreamTypeOK
      <3>5. Refusing'
        BY <2>1, <3>1, <3>3, <3>4 DEF Refusing
      <3> QED BY <1>1, <3>5 DEF ResponseFlow
    <2>3. CASE /\ ParseHeader /\ Stream = "response" /\ buf[Src] # <<>>
               /\ Head(buf[Src]).k = "over"
      <3>1. ~Expected(Head(buf[Src]))
        BY <2>3 DEF Expected, BodyKinds
      <3>2. Returns("DENY") /\ UNCHANGED <<strm, got, resp>>
        BY <2>3, <3>1 DEF ParseHeader, netVars, peerVars
      <3>3. Ending'
        BY <2>3, <3>2 DEF Ending, Returns, Stream
      <3>4. ResponsesInOrder
        BY <2>1, PieceInOrder
      <3>5. ResponsesInOrder'
        BY <3>2, <3>4 DEF ResponsesInOrder, Relayed
      <3> QED BY <1>1, <3>3, <3>5 DEF ResponseFlow
    <2>4. CASE /\ ~(StartResponse /\ ~UNCHANGED header)
               /\ ~ /\ ParseHeader /\ Stream = "response" /\ buf[Src] # <<>>
                    /\ Head(buf[Src]).k = "over"
      <3>1. Flow("response")'
        BY <1>1, <1>2, <1>6, <2>4, FlowStep
      <3> QED BY <1>1, <3>1 DEF ResponseFlow
    <2> QED BY <2>2, <2>3, <2>4
  <1> QED BY <1>3, <1>4, <1>5, <1>6 DEF ResponseFlow

(***************************************************************************)
(* The client receives the server's bytes in order, without gaps or        *)
(* repetitions, and nothing after the proxy's own error response.  The     *)
(* hypotheses leave out the request whose overlong value is consumed (the  *)
(* request stream would go on, and take the element of the request it      *)
(* denied) and give the unit "error" to the proxy alone.                   *)
(***************************************************************************)
THEOREM ResponsesKeepOrder ==
    ASSUME \A t \in Requests : NoOver(t), \A t \in Responses : NoError(t)
    PROVE  Spec => []ResponsesInOrder
  <1>1. Init => ResponseFlow
    <2> SUFFICES ASSUME Init PROVE ResponseFlow
      OBVIOUS
    <2>1. QueueInit
      BY Zenon DEF Init
    <2>2. DenyStuck
      BY <2>1 DEF QueueInit, DenyStuck
    <2> QED BY <2>2, TypeInit, FlowInit DEF ResponseFlow, RequestFlow, Streams
  <1>2. ResponseFlow /\ [Next]_vars => ResponseFlow'
    BY ResponseFlowStep
  <1>3. ResponseFlow => ResponsesInOrder
    <2> SUFFICES ASSUME ResponseFlow PROVE ResponsesInOrder
      OBVIOUS
    <2>1. resp \in Seq(Units) /\ got["client"] \in Seq(Units) /\ NoError(resp)
      BY DEF ResponseFlow, RequestFlow, Scripted, TypeInv, TypeOK, PeerTypeOK, Sides
    <2>2. CASE Flow("response")
      <3>1. Piece(resp, got["client"], 0)
        BY <2>2 DEF Flow, Linked, Pipe, Chain, From, To, Script
      <3> QED BY <2>1, <3>1, PieceInOrder
    <2>3. CASE Refusing
      BY <2>1, <2>3, PieceInOrder DEF Refusing
    <2> QED BY <2>2, <2>3 DEF ResponseFlow
  <1> QED BY <1>1, <1>2, <1>3, PTL DEF Spec

-----------------------------------------------------------------------------
(***************************************************************************)
(* A request the header parser refuses.  The scripts are requests: a body  *)
(* has the length its header says and no request lasts up to the close of  *)
(* its connection, and what is refused is in the header, behind nothing    *)
(* but the start line and the fields of the same request.                  *)
(***************************************************************************)
BodyFollows(t, p, e) ==
    /\ e.k # "close"
    /\ e.k = "length" => \A j \in p + 1 .. p + e.n : j \in DOMAIN t => t[j].k = "body"

BadInHeader(t) ==
    \A i \in DOMAIN t : t[i].k = "bad" =>
        \A j \in 1 .. i - 1 : t[j].m = t[i].m =>
            \A l \in j .. i - 1 : t[l].k \in {"start", "field"}

RequestScript(t) == BadInHeader(t) /\ \A i \in DOMAIN t : BodyFollows(t, i, t[i])

(* How far the client's script has been parsed; what is bad is not parsed, and
   of its request nothing was passed on up to the f-th unit. *)
Parsed == Len(got["server"]) + Len(header["request"]) + Len(out["client"])

Clean(t, p) == \A i \in 1 .. p : t[i].k # "bad"
Apart(t, f) == \A i \in DOMAIN t, j \in 1 .. f : t[i].k = "bad" => t[j].m # t[i].m

(***************************************************************************)
(* The inductive invariant.  A header leaves the message buffer only once  *)
(* its end was parsed, so nothing of a request is passed on before all of  *)
(* its header is known to be good; and a body claims body units only, so   *)
(* the next request is not passed on as a part of it.                      *)
(***************************************************************************)
DeniedApart ==
    /\ Clean(req, Parsed) /\ Apart(req, Len(got["server"]))
    /\ message_state["request"] \in {"PUSH_HEADER", "PARSE_BODY"} => Apart(req, Parsed)
    /\ message_state["request"] = "PUSH_HEADER" => BodyFollows(req, Parsed, encoding["request"])
    /\ message_state["request"] = "PARSE_BODY" => BodyFollows(req, Parsed, body["request"])
    /\ message_state["request"] # "PARSE_BODY" => body["request"] = NoBody

(* The end of a header that holds nothing bad. *)
LEMMA HeaderApart ==
    ASSUME NEW t \in Seq(Units), BadInHeader(t), NEW p \in Nat, p < Len(t), Clean(t, p),
           NEW f \in 0 .. p, Apart(t, f), t[p + 1].k \in BodyKinds
    PROVE  Clean(t, p + 1) /\ Apart(t, p + 1)
  <1>1. t[p + 1].k \notin {"bad", "start", "field"}
    BY DEF BodyKinds
  <1>2. Clean(t, p + 1)
    BY <1>1 DEF Clean
  <1>3. ASSUME NEW i \in DOMAIN t, NEW j \in 1 .. p + 1, t[i].k = "bad", t[j].m = t[i].m
        PROVE  FALSE
    <2>1. i \in 1 .. Len(t) /\ i > p + 1
      BY <1>2, <1>3 DEF Clean
    <2>2. j \in 1 .. i - 1 /\ p + 1 \in j .. i - 1
      BY <2>1
    <2> QED BY <1>1, <1>3, <2>2 DEF BadInHeader
  <1> QED BY <1>2, <1>3 DEF Apart

(* A body that is what it says. *)
LEMMA BodyApart ==
    ASSUME NEW t \in Seq(Units), BadInHeader(t), NEW p \in Nat, Clean(t, p), Apart(t, p),
           NEW n \in Nat, BodyFollows(t, p, [k |-> "length", n |-> n]),
           NEW k \in 0 .. n, p + k <= Len(t)
    PROVE  /\ Clean(t, p + k) /\ Apart(t, p + k)
           /\ BodyFollows(t, p + k, [k |-> "length", n |-> n - k])
  <1>1. \A j \in p + 1 .. p + n : j \in DOMAIN t => t[j].k = "body"
    BY DEF BodyFollows
  <1>2. \A j \in p + 1 .. p + k : j \in DOMAIN t /\ t[j].k = "body"
    BY <1>1
  <1>3. Clean(t, p + k)
    BY <1>2 DEF Clean
  <1>4. ASSUME NEW i \in DOMAIN t, NEW j \in 1 .. p + k, t[i].k = "bad", t[j].m = t[i].m
        PROVE  FALSE
    <2>1. i \in 1 .. Len(t) /\ i > p + k /\ j \in 1 .. i - 1 /\ j \in j .. i - 1
      BY <1>3, <1>4 DEF Clean
    <2>2. t[j].k \in {"start", "field"}
      BY <1>4, <2>1 DEF BadInHeader
    <2>3. j > p
      BY <1>4 DEF Apart
    <2> QED BY <1>2, <2>2, <2>3
  <1>5. \A j \in (p + k) + 1 .. (p + k) + (n - k) : j \in DOMAIN t => t[j].k = "body"
    BY <1>1
  <1> QED BY <1>3, <1>4, <1>5 DEF Apart, BodyFollows

(* The read buffer of the client continues what was parsed. *)
LEMMA ParsedNext ==
    ASSUME RequestFlow
    PROVE  /\ req \in Seq(Units) /\ Parsed \in Nat /\ Len(got["server"]) \in 0 .. Parsed
           /\ buf["client"] \in Seq(Units) /\ Piece(req, buf["client"], Parsed)
  <1>1. /\ req \in Seq(Units) /\ got["server"] \in Seq(Units) /\ header["request"] \in Seq(Units)
        /\ out["client"] \in Seq(Units) /\ buf["client"] \in Seq(Units)
        /\ Piece(req, buf["client"], Parsed)
    BY DEF RequestFlow, Flow, Linked, Pipe, Chain, From, To, Script, Parsed
  <1>2. Len(got["server"]) \in Nat /\ Len(header["request"]) \in Nat /\ Len(out["client"]) \in Nat
    BY <1>1
  <1>3. \A i, j, k \in Nat : i + j + k \in Nat /\ i \in 0 .. i + j + k
    OBVIOUS
  <1>4. Parsed \in Nat /\ Len(got["server"]) \in 0 .. Parsed
    BY <1>2, <1>3, Zenon DEF Parsed
  <1> QED BY <1>1, <1>4

(* What DeniedApart is about, unchanged. *)
LEMMA DeniedApartKept ==
    ASSUME DeniedApart, UNCHANGED req, got'["server"] = got["server"],
           header'["request"] = header["request"], out'["client"] = out["client"],
           message_state'["request"] = message_state["request"],
           body'["request"] = body["request"], encoding'["request"] = encoding["request"]
    PROVE  DeniedApart'
  <1>1. Parsed' = Parsed
    BY DEF Parsed
  <1> QED BY <1>1 DEF DeniedApart

(* The encoding of its body is a stream's own. *)
LEMMA EncodingKept ==
    ASSUME TypeInv, [Next]_vars, NEW s \in Streams, s # Stream, ~Accept
    PROVE  encoding'[s] = encoding[s]
  <1> USE DEF bufVars, streamVars, netVars, peerVars, vars
  <1>1. encoding \in [Streams -> Encodings] /\ Stream \in Streams
    BY Running DEF TypeInv, TypeOK, StreamTypeOK
  <1>2. UNCHANGED encoding \/ \E e : encoding' = [encoding EXCEPT ![Stream] = e]
    <2>1. CASE \/ SkipRead \/ ReadData \/ ReadNothing \/ StartRequest \/ StartResponse
               \/ PushHeader \/ ParseBody \/ ForwardToClose \/ NoConnect
      BY <2>1 DEF SkipRead, ReadData, ReadNothing, StartRequest, StartResponse, PushHeader,
                  ParseBody, ForwardToClose, NoConnect
    <2>2. CASE ParseHeader \/ EndMessage \/ ForwardBody
      BY <2>2 DEF ParseHeader, EndMessage, ForwardBody, CompleteMessage
    <2>3. CASE \/ InitiateServerConnect \/ AfterProcess \/ StreamReturned \/ RegisterEvents
               \/ ConnectResult \/ (\E c \in Sides : Dispatch(c) \/ Peer(c)) \/ UNCHANGED vars
      BY <2>3 DEF InitiateServerConnect, AfterProcess, StreamReturned, RegisterEvents,
                  ConnectResult, Dispatch, HandleEvent, Peer, PeerSend, PeerClose, PeerReset,
                  PeerDrain
    <2> QED BY <2>1, <2>2, <2>3 DEF Next, Step
  <1> QED BY <1>1, <1>2

(* PARSE_HEADER of the request. *)
LEMMA ParseHeaderApart ==
    ASSUME RequestFlow, RequestScript(req), DeniedApart, ParseHeader, Stream = "request"
    PROVE  DeniedApart'
  <1> USE DEF bufVars, netVars, peerVars
  <1>1. UNCHANGED <<req, got, out, body>> /\ message_state["request"] = "PARSE_HEADER"
    BY DEF ParseHeader, Processing
  <1>2. Src = "client" /\ "request" \in Streams /\ "client" \in Sides
    BY Running DEF From, Streams, Sides
  <1>3. /\ header \in [Streams -> Seq(Units)] /\ message_state \in [Streams -> MessageStates]
        /\ encoding \in [Streams -> Encodings]
    BY DEF RequestFlow, TypeInv, TypeOK, StreamTypeOK
  <1>4. body["request"] = NoBody
    BY <1>1 DEF DeniedApart
  <1>5. ASSUME buf["client"] # <<>>
        PROVE  /\ Parsed < Len(req) /\ Head(buf["client"]) = req[Parsed + 1]
               /\ Parsed + 1 \in DOMAIN req
    BY <1>5, ParsedNext DEF Piece
  <1>6. ASSUME header' = [header EXCEPT !["request"] = Append(@, Head(buf["client"]))]
        PROVE  Parsed' = Parsed + 1
    <2>1. Len(header'["request"]) = Len(header["request"]) + 1
      BY <1>2, <1>3, <1>6
    <2>2. \A i, j, k \in Nat : i + (j + 1) + k = (i + j + k) + 1
      OBVIOUS
    <2>3. Len(got["server"]) \in Nat /\ Len(header["request"]) \in Nat /\ Len(out["client"]) \in Nat
      BY <1>2, <1>3 DEF RequestFlow, TypeInv, TypeOK, PeerTypeOK, BufTypeOK, Sides
    <2>4. Parsed' = Len(got["server"]) + (Len(header["request"]) + 1) + Len(out["client"])
      BY <1>1, <2>1 DEF Parsed
    <2> QED BY <2>2, <2>3, <2>4, Zenon DEF Parsed
  <1>7. CASE UNCHANGED <<header, encoding, message_state>>
    BY <1>1, <1>7, DeniedApartKept
  <1>8. CASE /\ buf[Src] # <<>> /\ Expected(Head(buf[Src])) /\ Head(buf[Src]).k \notin BodyKinds
             /\ header' = [header EXCEPT ![Stream] = Append(@, Head(buf[Src]))]
             /\ UNCHANGED message_state
    <2>1. Parsed' = Parsed + 1 /\ Parsed < Len(req) /\ Head(buf["client"]) = req[Parsed + 1]
      BY <1>2, <1>5, <1>6, <1>8
    <2>2. req[Parsed + 1].k # "bad"
      BY <1>2, <1>8, <2>1 DEF Expected, BodyKinds
    <2>3. Clean(req, Parsed + 1)
      BY <2>2, ParsedNext DEF Clean, DeniedApart
    <2> QED BY <1>1, <1>4, <1>8, <2>1, <2>3 DEF DeniedApart
  <1>9. CASE /\ buf[Src] # <<>> /\ Head(buf[Src]).k \in BodyKinds
             /\ encoding' = [encoding EXCEPT ![Stream] = [k |-> Head(buf[Src]).k, n |-> Head(buf[Src]).n]]
             /\ header' = [header EXCEPT ![Stream] = Append(@, Head(buf[Src]))]
             /\ GoTo("PUSH_HEADER")
    <2>1. /\ Parsed' = Parsed + 1 /\ Parsed < Len(req) /\ Head(buf["client"]) = req[Parsed + 1]
          /\ Parsed + 1 \in DOMAIN req
      BY <1>2, <1>5, <1>6, <1>9
    <2>2. message_state'["request"] = "PUSH_HEADER"
      BY <1>2, <1>3, <1>9 DEF GoTo
    <2>3. encoding'["request"] = [k |-> req[Parsed + 1].k, n |-> req[Parsed + 1].n]
      BY <1>2, <1>3, <1>9, <2>1
    <2>4. BodyFollows(req, Parsed + 1, encoding'["request"])
      <3>1. BodyFollows(req, Parsed + 1, req[Parsed + 1])
        BY <2>1 DEF RequestScript
      <3>2. encoding'["request"].k = req[Parsed + 1].k /\ encoding'["request"].n = req[Parsed + 1].n
        BY <2>3
      <3> QED BY <3>1, <3>2 DEF BodyFollows
    <2>5. Clean(req, Parsed + 1) /\ Apart(req, Parsed + 1)
      BY <1>2, <1>9, <2>1, ParsedNext, HeaderApart DEF DeniedApart, RequestScript
    <2>6. Apart(req, Len(got["server"]))
      BY DEF DeniedApart
    <2> QED BY <1>1, <1>4, <2>1, <2>2, <2>4, <2>5, <2>6 DEF DeniedApart
  <1> QED BY <1>7, <1>8, <1>9 DEF ParseHeader

(* A write out of the message buffer or of the claimed part: the parsed units stay. *)
LEMMA ParsedWritten ==
    ASSUME NEW g \in Nat, NEW h \in Nat, NEW o \in Nat, NEW k \in Nat
    PROVE  /\ k <= h => (g + k) + (h - k) + o = g + h + o /\ g + k \in 0 .. g + h + o
           /\ k <= o => (g + k) + h + (o - k) = g + h + o /\ g + k \in 0 .. g + h + o
  OBVIOUS

LEMMA CutLengths ==
    ASSUME NEW g \in Seq(Units), NEW q \in Seq(Units), NEW k \in 0 .. Len(q)
    PROVE  Len(g \o SubSeq(q, 1, k)) = Len(g) + k /\ Len(After(q, k)) = Len(q) - k
  <1>1. SubSeq(q, 1, k) \in Seq(Units) /\ Len(SubSeq(q, 1, k)) = k
    OBVIOUS
  <1>2. Len(After(q, k)) = Len(q) - k
    BY DEF After
  <1> QED BY <1>1, <1>2

LEMMA ApartLess ==
    ASSUME NEW t, NEW p \in Nat, Apart(t, p), NEW f \in 0 .. p
    PROVE  Apart(t, f)
  BY DEF Apart

(* PUSH_HEADER of the request. *)
LEMMA PushHeaderApart ==
    ASSUME RequestFlow, DeniedApart, PushHeader, Stream = "request"
    PROVE  DeniedApart'
  <1> USE DEF bufVars, netVars, peerVars
  <1>1. UNCHANGED <<req, out, encoding>> /\ message_state["request"] = "PUSH_HEADER"
    BY DEF PushHeader, Processing
  <1>2. Dest = "server" /\ "request" \in Streams /\ "server" \in Sides /\ "client" \in Sides
    BY Running DEF To, Streams, Sides
  <1>3. /\ header["request"] \in Seq(Units) /\ message_state \in [Streams -> MessageStates]
        /\ body \in [Streams -> Encodings] /\ header \in [Streams -> Seq(Units)]
        /\ got["server"] \in Seq(Units) /\ out["client"] \in Seq(Units)
    BY <1>2 DEF RequestFlow, TypeInv, TypeOK, StreamTypeOK, PeerTypeOK, BufTypeOK
  <1>4. PICK k \in 0 .. Len(header[Stream]), r \in Statuses :
          /\ Write(Dest, header[Stream], k, r)
          /\ header' = [header EXCEPT ![Stream] = After(@, k)]
          /\ \/ GoTo("PARSE_BODY") /\ UNCHANGED body
             \/ GoTo("PARSE_BODY") /\ body' = [body EXCEPT ![Stream] = encoding[Stream]]
             \/ UNCHANGED <<message_state, body>>
    BY DEF PushHeader
  <1>5. k \in 0 .. Len(header["request"]) /\ Write("server", header["request"], k, r)
    BY <1>2, <1>4
  <1>6. got'["server"] = got["server"] \o SubSeq(header["request"], 1, k)
    BY <1>2, <1>3, <1>5, WriteGot DEF RequestFlow
  <1>7. /\ Len(got'["server"]) = Len(got["server"]) + k
        /\ Len(header'["request"]) = Len(header["request"]) - k
    <2>1. header'["request"] = After(header["request"], k)
      BY <1>2, <1>3, <1>4
    <2>2. Len(got["server"] \o SubSeq(header["request"], 1, k)) = Len(got["server"]) + k
      BY <1>3, <1>5, CutLengths, Zenon
    <2>3. Len(After(header["request"], k)) = Len(header["request"]) - k
      BY <1>3, <1>5, CutLengths, Zenon
    <2> QED BY <1>6, <2>1, <2>2, <2>3, Zenon
  <1>8. Parsed' = Parsed /\ Len(got'["server"]) \in 0 .. Parsed
    <2>1. /\ Len(got["server"]) \in Nat /\ Len(header["request"]) \in Nat
          /\ Len(out["client"]) \in Nat /\ k \in Nat /\ k <= Len(header["request"])
      BY <1>3, <1>5
    <2>2. Parsed' = (Len(got["server"]) + k) + (Len(header["request"]) - k) + Len(out["client"])
      BY <1>1, <1>7 DEF Parsed
    <2>3. /\ (Len(got["server"]) + k) + (Len(header["request"]) - k) + Len(out["client"])
             = Len(got["server"]) + Len(header["request"]) + Len(out["client"])
          /\ Len(got["server"]) + k \in 0 .. Len(got["server"]) + Len(header["request"]) + Len(out["client"])
      BY <2>1, ParsedWritten
    <2>4. Parsed' = Parsed
      BY <2>2, <2>3 DEF Parsed
    <2>5. Len(got'["server"]) \in 0 .. Parsed
      BY <1>7, <2>3 DEF Parsed
    <2> QED BY <2>4, <2>5
  <1>9. Clean(req, Parsed) /\ Apart(req, Parsed) /\ Apart(req, Len(got'["server"]))
    BY <1>1, <1>8, ParsedNext, ApartLess DEF DeniedApart
  <1>10. BodyFollows(req, Parsed, encoding["request"]) /\ body["request"] = NoBody
    BY <1>1 DEF DeniedApart
  <1>11. CASE UNCHANGED <<message_state, body>>
    BY <1>1, <1>8, <1>9, <1>10, <1>11 DEF DeniedApart
  <1>12. CASE /\ GoTo("PARSE_BODY")
              /\ UNCHANGED body \/ body' = [body EXCEPT ![Stream] = encoding[Stream]]
    <2>1. message_state'["request"] = "PARSE_BODY"
      BY <1>2, <1>3, <1>12 DEF GoTo
    <2>2. BodyFollows(req, Parsed, NoBody)
      BY DEF BodyFollows, NoBody
    <2>3. body'["request"] \in {NoBody, encoding["request"]}
      BY <1>2, <1>3, <1>10, <1>12
    <2>4. BodyFollows(req, Parsed, body'["request"])
      BY <1>10, <2>2, <2>3
    <2> QED BY <1>1, <1>8, <1>9, <2>1, <2>4 DEF DeniedApart
  <1> QED BY <1>4, <1>11, <1>12

(* The message is done. *)
LEMMA CompleteApart ==
    ASSUME RequestFlow, DeniedApart, CompleteMessage, Stream = "request", UNCHANGED req,
           Parsed' = Parsed, Apart(req, Parsed), Len(got'["server"]) \in 0 .. Parsed
    PROVE  DeniedApart'
  <1>1. message_state'["request"] = "START_MESSAGE" /\ body'["request"] = NoBody
    BY DEF RequestFlow, TypeInv, TypeOK, StreamTypeOK, CompleteMessage, GoTo, Streams
  <1>2. Clean(req, Parsed) /\ Apart(req, Len(got'["server"]))
    BY ParsedNext, ApartLess DEF DeniedApart
  <1> QED BY <1>1, <1>2 DEF DeniedApart

(* PARSE_BODY of the request, without a body. *)
LEMMA EndMessageApart ==
    ASSUME RequestFlow, DeniedApart, EndMessage, Stream = "request"
    PROVE  DeniedApart'
  <1> USE DEF bufVars, netVars, peerVars
  <1>1. /\ UNCHANGED <<req, got, out>> /\ message_state["request"] = "PARSE_BODY"
        /\ CompleteMessage
    BY DEF EndMessage, Processing
  <1>2. header["request"] = <<>> /\ header'["request"] = <<>>
    BY <1>1 DEF RequestFlow, TypeInv, TypeOK, StreamTypeOK, CompleteMessage, Streams, Flow, Tidy
  <1>3. Parsed' = Parsed
    BY <1>1, <1>2 DEF Parsed
  <1>4. Apart(req, Parsed)
    BY <1>1 DEF DeniedApart
  <1> QED BY <1>1, <1>3, <1>4, ParsedNext, CompleteApart

(* PARSE_BODY of the request: a claim. *)
LEMMA ParseBodyApart ==
    ASSUME RequestFlow, RequestScript(req), DeniedApart, ParseBody, Stream = "request"
    PROVE  DeniedApart'
  <1> USE DEF bufVars, netVars, peerVars
  <1>1. /\ UNCHANGED <<req, got, header, message_state, encoding>>
        /\ message_state["request"] = "PARSE_BODY"
        /\ body["request"].k = "length" /\ ~forwarding["request"]
    BY DEF ParseBody, Processing
  <1>2. Src = "client" /\ "request" \in Streams /\ "client" \in Sides /\ "server" \in Sides
    BY Running DEF From, Streams, Sides
  <1>3. /\ out \in [Sides -> Seq(Units)] /\ body \in [Streams -> Encodings]
        /\ header["request"] \in Seq(Units) /\ got["server"] \in Seq(Units)
        /\ buf["client"] \in Seq(Units)
    BY <1>2 DEF RequestFlow, TypeInv, TypeOK, StreamTypeOK, PeerTypeOK, BufTypeOK
  <1>4. out["client"] = <<>>
    BY <1>1 DEF RequestFlow, Flow, Tidy, From
  <1>5. PICK k \in 0 .. Len(buf[Src]) :
          /\ Claimable(buf[Src], body[Stream].n, k)
          /\ \/ UNCHANGED <<out, body>>
             \/ /\ out' = [out EXCEPT ![Src] = SubSeq(buf[Src], 1, k)]
                /\ body' = [body EXCEPT ![Stream] = [k |-> "length", n |-> @.n - k]]
    BY DEF ParseBody
  <1>6. CASE UNCHANGED <<out, body>>
    BY <1>1, <1>6, DeniedApartKept
  <1>7. CASE /\ out' = [out EXCEPT ![Src] = SubSeq(buf[Src], 1, k)]
             /\ body' = [body EXCEPT ![Stream] = [k |-> "length", n |-> @.n - k]]
    <2> DEFINE n == body["request"].n
    <2>1. n \in Nat /\ body["request"] = [k |-> "length", n |-> n]
      BY <1>1, <1>2, <1>3 DEF Encodings
    <2>2. k \in 0 .. n /\ k \in 0 .. Len(buf["client"])
      BY <1>2, <1>5, <2>1 DEF Claimable
    <2>3. body'["request"] = [k |-> "length", n |-> n - k]
      BY <1>2, <1>3, <1>7
    <2>4. out'["client"] = SubSeq(buf["client"], 1, k) /\ Len(out'["client"]) = k
      BY <1>2, <1>3, <1>7, <2>2
    <2> HIDE DEF n
    <2>5. Parsed' = Parsed + k
      <3>1. Parsed' = Len(got["server"]) + Len(header["request"]) + k
        BY <1>1, <2>4 DEF Parsed
      <3>2. Parsed = Len(got["server"]) + Len(header["request"]) + 0
        BY <1>4 DEF Parsed
      <3>3. \A i, j, l \in Nat : i + j + l = (i + j + 0) + l
        OBVIOUS
      <3>4. Len(got["server"]) \in Nat /\ Len(header["request"]) \in Nat /\ k \in Nat
        BY <1>3, <2>2
      <3> QED BY <3>1, <3>2, <3>3, <3>4, Zenon
    <2>6. Parsed + k <= Len(req)
      BY <2>2, ParsedNext DEF Piece
    <2>7. Clean(req, Parsed) /\ Apart(req, Parsed) /\ BodyFollows(req, Parsed, [k |-> "length", n |-> n])
      BY <1>1, <2>1 DEF DeniedApart
    <2>8. /\ Clean(req, Parsed + k) /\ Apart(req, Parsed + k)
          /\ BodyFollows(req, Parsed + k, [k |-> "length", n |-> n - k])
      BY <2>1, <2>2, <2>6, <2>7, ParsedNext, BodyApart DEF RequestScript
    <2>9. Apart(req, Len(got["server"]))
      BY DEF DeniedApart
    <2> QED BY <1>1, <2>3, <2>5, <2>8, <2>9 DEF DeniedApart
  <1> QED BY <1>5, <1>6, <1>7

(* PARSE_BODY of the request: the FORWARD states. *)
LEMMA ForwardBodyApart ==
    ASSUME RequestFlow, DeniedApart, ForwardBody, Stream = "request"
    PROVE  DeniedApart'
  <1> USE DEF bufVars, netVars, peerVars
  <1>1. UNCHANGED req /\ message_state["request"] = "PARSE_BODY"
    BY DEF ForwardBody, Processing
  <1>2. /\ Src = "client" /\ Dest = "server" /\ "request" \in Streams /\ "client" \in Sides
        /\ "server" \in Sides
    BY Running DEF From, To, Streams, Sides
  <1>3. /\ header["request"] \in Seq(Units) /\ header["request"] = <<>>
        /\ out["client"] \in Seq(Units) /\ got["server"] \in Seq(Units)
        /\ out \in [Sides -> Seq(Units)] /\ header \in [Streams -> Seq(Units)]
    BY <1>1, <1>2 DEF RequestFlow, TypeInv, TypeOK, StreamTypeOK, PeerTypeOK, BufTypeOK, Flow, Tidy
  <1>4. PICK k \in 0 .. Len(out[Src]), r \in Statuses :
          /\ Write(Dest, out[Src], k, r)
          /\ out' = [out EXCEPT ![Src] = After(@, k)]
          /\ \/ CompleteMessage
             \/ UNCHANGED <<message_state, header, encoding, body>>
    BY DEF ForwardBody
  <1>5. k \in 0 .. Len(out["client"]) /\ Write("server", out["client"], k, r)
    BY <1>2, <1>4
  <1>6. got'["server"] = got["server"] \o SubSeq(out["client"], 1, k)
    BY <1>2, <1>3, <1>5, WriteGot DEF RequestFlow
  <1>7. /\ Len(got'["server"]) = Len(got["server"]) + k
        /\ Len(out'["client"]) = Len(out["client"]) - k
    <2>1. out'["client"] = After(out["client"], k)
      BY <1>2, <1>3, <1>4
    <2>2. Len(got["server"] \o SubSeq(out["client"], 1, k)) = Len(got["server"]) + k
      BY <1>3, <1>5, CutLengths, Zenon
    <2>3. Len(After(out["client"], k)) = Len(out["client"]) - k
      BY <1>3, <1>5, CutLengths, Zenon
    <2> QED BY <1>6, <2>1, <2>2, <2>3, Zenon
  <1>8. header'["request"] = header["request"]
    BY <1>2, <1>3, <1>4 DEF CompleteMessage
  <1>9. Parsed' = Parsed /\ Len(got'["server"]) \in 0 .. Parsed
    <2>1. /\ Len(got["server"]) \in Nat /\ Len(header["request"]) \in Nat
          /\ Len(out["client"]) \in Nat /\ k \in Nat /\ k <= Len(out["client"])
      BY <1>3, <1>5
    <2>2. Parsed' = (Len(got["server"]) + k) + Len(header["request"]) + (Len(out["client"]) - k)
      BY <1>7, <1>8 DEF Parsed
    <2>3. /\ (Len(got["server"]) + k) + Len(header["request"]) + (Len(out["client"]) - k)
             = Len(got["server"]) + Len(header["request"]) + Len(out["client"])
          /\ Len(got["server"]) + k \in 0 .. Len(got["server"]) + Len(header["request"]) + Len(out["client"])
      BY <2>1, ParsedWritten
    <2>4. Parsed' = Parsed
      BY <2>2, <2>3 DEF Parsed
    <2>5. Len(got'["server"]) \in 0 .. Parsed
      BY <1>7, <2>3 DEF Parsed
    <2> QED BY <2>4, <2>5
  <1>10. Clean(req, Parsed) /\ Apart(req, Parsed) /\ Apart(req, Len(got'["server"]))
    BY <1>1, <1>9, ParsedNext, ApartLess DEF DeniedApart
  <1>11. CASE CompleteMessage
    BY <1>1, <1>9, <1>10, <1>11, CompleteApart
  <1>12. CASE UNCHANGED <<message_state, header, encoding, body>>
    BY <1>1, <1>9, <1>10, <1>12 DEF DeniedApart
  <1> QED BY <1>4, <1>11, <1>12

LEMMA DeniedApartStep ==
    ASSUME \A t \in Requests : NoOver(t) /\ RequestScript(t), RequestFlow, DeniedApart, [Next]_vars
    PROVE  DeniedApart'
  <1> USE DEF bufVars, streamVars, netVars, peerVars
  <1>1. RequestScript(req) /\ TypeInv /\ "request" \in Streams
    BY DEF RequestFlow, Scripted, Streams
  <1>2. ASSUME Kept("request"), encoding'["request"] = encoding["request"]
        PROVE  DeniedApart'
    BY <1>2, DeniedApartKept DEF Kept, From, To
  <1>3. CASE \/ SkipRead \/ ReadNothing \/ NoConnect \/ InitiateServerConnect \/ AfterProcess
             \/ StreamReturned \/ RegisterEvents \/ (\E c \in Sides : Dispatch(c))
             \/ ConnectResult \/ UNCHANGED vars
             \/ (\E c \in Sides : PeerClose(c) \/ PeerDrain(c))
    <2>1. UNCHANGED encoding
      BY <1>3 DEF SkipRead, ReadNothing, NoConnect, InitiateServerConnect, AfterProcess,
                  StreamReturned, RegisterEvents, Dispatch, HandleEvent, ConnectResult,
                  PeerClose, PeerDrain, vars
    <2> QED BY <1>1, <1>2, <1>3, <2>1, AsideKept
  <1>4. CASE \E c \in Sides : PeerSend(c) \/ PeerReset(c)
    BY <1>4, DeniedApartKept DEF PeerSend, PeerReset
  <1>5. CASE /\ \/ ReadData \/ StartRequest \/ StartResponse \/ ParseHeader \/ PushHeader
                \/ EndMessage \/ ParseBody \/ ForwardBody \/ ForwardToClose
             /\ Stream # "request"
    <2>1. ~Accept
      BY <1>5 DEF Accept, ReadData, StartRequest, StartResponse, ParseHeader, PushHeader,
                  EndMessage, ParseBody, ForwardBody, ForwardToClose, Processing
    <2> QED BY <1>1, <1>2, <1>5, <2>1, OtherKept, EncodingKept
  <1>6. CASE ReadData
    BY <1>6, DeniedApartKept DEF ReadData
  <1>7. CASE StartRequest
    <2>1. UNCHANGED <<req, got, header, out, body, encoding>>
      BY <1>7 DEF StartRequest
    <2>2. message_state["request"] = "START_MESSAGE" /\ body["request"] = NoBody
      BY <1>7 DEF StartRequest, Processing, DeniedApart
    <2>3. message_state'["request"] \in {"START_MESSAGE", "PARSE_HEADER"}
      BY <1>1, <1>7, <2>2 DEF StartRequest, GoTo, TypeInv, TypeOK, StreamTypeOK
    <2>4. Parsed' = Parsed
      BY <2>1 DEF Parsed
    <2> QED BY <2>1, <2>2, <2>3, <2>4 DEF DeniedApart
  <1>8. CASE StartResponse /\ Stream = "request"
    BY <1>8 DEF StartResponse
  <1>9. CASE ParseHeader /\ Stream = "request"
    BY <1>1, <1>9, ParseHeaderApart
  <1>10. CASE PushHeader /\ Stream = "request"
    BY <1>10, PushHeaderApart
  <1>11. CASE EndMessage /\ Stream = "request"
    BY <1>11, EndMessageApart
  <1>12. CASE ParseBody /\ Stream = "request"
    BY <1>1, <1>12, ParseBodyApart
  <1>13. CASE ForwardBody /\ Stream = "request"
    BY <1>13, ForwardBodyApart
  <1>14. CASE ForwardToClose /\ Stream = "request"
    <2>1. message_state["request"] = "PARSE_BODY" /\ body["request"].k = "close"
      BY <1>14 DEF ForwardToClose, Processing
    <2> QED BY <2>1 DEF DeniedApart, BodyFollows
  <1>15. CASE Accept
    <2>1. /\ got'["server"] = <<>> /\ out'["client"] = <<>> /\ header'["request"] = <<>>
          /\ body'["request"] = NoBody /\ message_state'["request"] = "START_MESSAGE"
      BY <1>15 DEF Accept, ResetConnections, ResetBuffers, ResetStreams, NoUnits, Streams, Sides
    <2>2. Parsed' = 0 /\ Len(got'["server"]) = 0
      BY <2>1 DEF Parsed
    <2> QED BY <2>1, <2>2 DEF DeniedApart, Clean, Apart
  <1> QED BY <1>3, <1>4, <1>5, <1>6, <1>7, <1>8, <1>9, <1>10, <1>11, <1>12, <1>13, <1>14, <1>15
          DEF Next, Step, Peer

(***************************************************************************)
(* Nothing of a request whose header the parser refuses as malformed is    *)
(* ever passed on to the server, however the request was cut into segments *)
(* and whatever was pipelined in front of it: the header is written out of *)
(* the message buffer only once it has been parsed to its end, and the     *)
(* body in front of it does not claim its units.  Requests with an         *)
(* overlong field are left out (NoOver): such a field is consumed before   *)
(* it is refused, and process_data() passes the rest of the header on when *)
(* it is called again.                                                     *)
(***************************************************************************)
THEOREM DeniedKeptApart ==
    ASSUME \A t \in Requests : NoOver(t),
           \A t \in Requests : RequestScript(t)
    PROVE  Spec => []DeniedNotForwarded
  <1>1. \A t \in Requests : NoOver(t)
    OBVIOUS
  <1>2. Init => RequestFlow /\ DeniedApart
    <2> SUFFICES ASSUME Init PROVE RequestFlow /\ DeniedApart
      OBVIOUS
    <2>1. RequestFlow
      BY TypeInit, FlowInit DEF RequestFlow, Streams
    <2>2. /\ got = NoUnits /\ out = NoUnits /\ header = [s \in Streams |-> <<>>]
          /\ body = [s \in Streams |-> NoBody] /\ message_state = [s \in Streams |-> "START_MESSAGE"]
      BY Zenon DEF Init
    <2>3. /\ got["server"] = <<>> /\ out["client"] = <<>> /\ header["request"] = <<>>
          /\ body["request"] = NoBody /\ message_state["request"] = "START_MESSAGE"
      BY <2>2 DEF NoUnits, Streams, Sides
    <2>4. Parsed = 0 /\ Len(got["server"]) = 0
      BY <2>3 DEF Parsed
    <2> QED BY <2>1, <2>3, <2>4 DEF DeniedApart, Clean, Apart
  <1>3. RequestFlow /\ DeniedApart /\ [Next]_vars => RequestFlow' /\ DeniedApart'
    BY <1>1, RequestFlowStep, DeniedApartStep
  <1>4. RequestFlow /\ DeniedApart => DeniedNotForwarded
    <2> SUFFICES ASSUME RequestFlow, DeniedApart PROVE DeniedNotForwarded
      OBVIOUS
    <2>1. /\ req \in Seq(Units) /\ got["server"] \in Seq(Units) /\ Piece(req, got["server"], 0)
      BY DEF RequestFlow, Flow, Linked, Pipe, Chain, From, To, Script
    <2>2. \A j \in DOMAIN got["server"] : got["server"][j] = req[j] /\ j \in 1 .. Len(got["server"])
      BY <2>1 DEF Piece
    <2>3. NoOver(req) /\ Apart(req, Len(got["server"]))
      BY <1>1 DEF RequestFlow, Scripted, DeniedApart
    <2> QED BY <2>2, <2>3 DEF NoOver, Apart, DeniedNotForwarded
  <1> QED BY <1>2, <1>3, <1>4, PTL DEF Spec

================================================================================
