--------------------------- MODULE LinkProtoProofs ---------------------------
(***************************************************************************)
(* Proofs about LinkProto, for every set of streams, sizes of the fields    *)
(* and the buffer, and however the reads cut a stream.  IndInv was checked   *)
(* with TLC on the instance of LinkProtoSafety.cfg.                          *)
(***************************************************************************)
EXTENDS LinkProto, FiniteSetTheorems, WellFoundedInduction, TLAPS

\* The request that _runLink is at, and where its data begins.
Fr   == stream[handled + 1]
Base == off + aHeadEnd

\* A whole header was found and its request is not yet done with.
Taken == Handler \cup {"handle", "done"}

\* The stream is cut where its requests begin: aBuf[0] is the first byte of the
\* request that comes next, a header's end is that of its header, and the data of a
\* request in hand is only looked at after all of its header is there.
CutInv ==
  /\ stream \in Stream
  /\ off = Begin(stream, handled + 1)
  /\ aHeadEnd # 0 => handled < Len(stream) /\ aHeadEnd = HexLen + Fr.head
  /\ at \in {"accept", "read", "parse", "handle"} => off + aPos = rd
  /\ at = "accept" => aPos = 0
  /\ at \in Taken => aHeadEnd # 0 /\ aHeadEnd <= aPos /\ Check(Fr)
  /\ ReadRoom

\* Which requests a place in _handleMsg is for.
OpInv ==
  /\ at = "ping" => Fr.op \in {"invite", "ping"} /\ Fr.data <= PingMax
  /\ at = "note" => Fr.op = "postnotify" /\ Fr.note < Fr.data
  /\ at = "data" => \/ Fr.op = "post"
                    \/ Fr.op = "postnotify" /\ Fr.note < Fr.data
  /\ at \in {"link", "self"} => Fr.op = "login"
  /\ at = "edit" => Fr.op = "edit"
  /\ at \in {"queue", "quenote", "ack", "ackerr"} =>
       Fr.op \in {"edit", "invite", "ping", "post", "postnotify"}
  /\ at = "queue" => Fr.op # "edit"
  /\ at = "quenote" => Fr.op \in {"postnotify", "invite"}

\* The bytes from a to b - 1 that were read.
ReadOf(a, b) == {p \in a .. (b - 1) : p < rd}

\* The link was read beyond the buffer only for the data of the request, no further
\* than that goes, and each file has of its part what was read.
DataInv ==
  /\ at \in Taken => off + aPos <= rd /\ (rd = off + aPos \/ rd <= Base + Fr.data)
  /\ at \in {"link", "self", "edit"} => Fr.data = 0
  /\ at \in {"queue", "quenote", "ack", "ackerr", "done"} => Base + Fr.data <= rd
  /\ at = "note" => /\ notefile = ReadOf(Base, Base + Fr.note)
                    /\ rd = off + aPos \/ rd <= Base + Fr.note
  /\ at \in {"ping", "data", "queue"} => /\ file = ReadOf(Base + Fr.note, Base + Fr.data)
                                         /\ Base + Fr.note <= rd
  /\ at \in {"data", "queue", "quenote"} => notefile = Base .. (Base + Fr.note - 1)
  /\ at \in {"accept", "read", "parse", "handle", "ping"} => notefile = {}

\* What was queued and answered: of the requests done with all, of the one in hand
\* what its place in _handleMsg says.
HistInv ==
  /\ Intact /\ AckMeansAll
  /\ \A q \in queued :
       \/ q.i <= handled
       \/ q.i = handled + 1 /\ at \in {"quenote", "ack", "ackerr", "done"}
  /\ \A a \in acks : \/ a.i <= handled
                     \/ a.i = handled + 1 /\ at = "done"
  /\ \A q \in queued : \/ \E a \in acks : a.i = q.i
                       \/ q.i = handled + 1 /\ at \in {"quenote", "ack", "ackerr"}
  /\ at = "quenote" => Queued(handled + 1, "msg") /\ ~Queued(handled + 1, "note")
  /\ at = "ack" => /\ Fr.op # "edit" => Queued(handled + 1, "msg")
                   /\ Fr.op \in {"postnotify", "invite"} => Queued(handled + 1, "note")
  /\ at = "ackerr" => /\ ~Queued(handled + 1, "note")
                      /\ Fr.op \notin {"postnotify", "invite"} => ~Queued(handled + 1, "msg")

\* The process ends between requests, or with a ping that does not fit, a sum that
\* wraps, or while it receives a post.
ProcInv ==
  /\ proc = "exit" => at \notin Handler
  /\ proc = "panic" => /\ aHeadEnd # 0
                       /\ \/ at = "ping" /\ Fr.head + PingMax > MaxHead
                          \/ aHeadEnd + Fr.data > IntMax
                          \/ at \in {"note", "data"}

IndInv == TypeOK /\ CutInv /\ OpInv /\ DataInv /\ HistInv /\ ProcInv

-----------------------------------------------------------------------------
(* Where the requests of a stream begin.                                    *)

\* A set of numbers has a least one: the induction over a stream rests on it.
LEMMA Least ==
  ASSUME NEW T \in SUBSET Nat, T # {}
  PROVE  \E x \in T : \A y \in T : x <= y
<1> DEFINE R == {ss \in Nat \X Nat : ss[1] < ss[2]}
<1>1. R = OpToRel(<, Nat)
  BY DEF OpToRel
<1>2. IsWellFoundedOn(R, Nat)
  BY <1>1, NatLessThanWellFounded
<1> HIDE DEF R
<1>3. PICK x \in T : \A y \in T : ~(<<y, x>> \in R)
  BY <1>2, WFMin
<1>4. \A y \in T : x <= y
  <2> SUFFICES ASSUME NEW y \in T, y < x PROVE FALSE
    OBVIOUS
  <2>1. <<y, x>> \in R
    BY DEF R
  <2> QED
    BY <2>1, <1>3
<1> QED
  BY <1>3, <1>4

\* What a stream is made of.
LEMMA FrameType ==
  ASSUME NEW s \in Stream, NEW i \in 1..Len(s)
  PROVE  /\ s[i] \in Frame
         /\ s[i].pos = Begin(s, i) /\ s[i].head < MaxHead
         /\ s[i].pos \in Nat /\ s[i].head \in Nat /\ s[i].data \in Nat
         /\ s[i].note \in Nat /\ s[i].op \in Op
         /\ Size(s[i]) \in Nat /\ Size(s[i]) > 0
<1>1. s \in Seq(Frame) /\ s[i].pos = Begin(s, i) /\ s[i].head < MaxHead
  BY StreamAssumption
<1>2. s[i] \in Frame
  BY <1>1
<1>3. /\ s[i].pos \in Nat /\ s[i].head \in Nat /\ s[i].data \in Nat
      /\ s[i].note \in Nat /\ s[i].op \in Op
  BY <1>2 DEF Frame
<1>4. Size(s[i]) \in Nat /\ Size(s[i]) > 0
  BY <1>3, SizeAssumption, SMTT(30) DEF Size
<1> QED
  BY <1>1, <1>2, <1>3, <1>4

\* No request begins before an earlier one has ended.
LEMMA InTurn ==
  ASSUME NEW s \in Stream, NEW i \in 1..Len(s), NEW j \in 1..Len(s), i < j
  PROVE  s[i].pos + Size(s[i]) <= s[j].pos
<1> DEFINE early == {k \in Nat : /\ i < k /\ k <= Len(s)
                                 /\ s[k].pos < s[i].pos + Size(s[i])}
<1>0. Len(s) \in Nat
  BY StreamAssumption
<1>1. SUFFICES early = {}
  <2>1. j \notin early
    BY <1>1
  <2> QED
    BY <2>1, <1>0, FrameType
<1>2. SUFFICES ASSUME early # {} PROVE FALSE
  OBVIOUS
<1>3. PICK k \in early : \A m \in early : k <= m
  BY <1>2, Least
<1>4. k \in 1..Len(s) /\ k - 1 \in 1..Len(s) /\ k # 1
  BY <1>0
<1>5. s[k].pos = s[k-1].pos + Size(s[k-1])
  BY <1>4, FrameType DEF Begin
<1>6. CASE k - 1 = i
  BY <1>3, <1>5, <1>6, <1>4, FrameType
<1>7. CASE k - 1 # i
  <2>1. k - 1 \notin early
    BY <1>3, <1>4
  <2>2. s[k-1].pos >= s[i].pos + Size(s[i])
    BY <2>1, <1>4, <1>7, <1>0, FrameType, SMTT(30)
  <2>3. /\ s[k].pos \in Nat /\ s[k-1].pos \in Nat /\ Size(s[k-1]) \in Nat
        /\ s[i].pos \in Nat /\ Size(s[i]) \in Nat
    BY <1>4, FrameType
  <2>4. s[k].pos < s[i].pos + Size(s[i])
    BY <1>3
  <2> HIDE DEF early
  <2> QED
    BY <2>2, <2>3, <2>4, <1>5, SMTT(30)
<1> QED
  BY <1>6, <1>7

\* The whole stream is as long as its requests are together.
LEMMA Ends ==
  ASSUME NEW s \in Stream
  PROVE  /\ Len(s) \in Nat
         /\ Begin(s, Len(s) + 1) \in Nat
         /\ \A i \in 1..Len(s) : /\ Begin(s, i + 1) = s[i].pos + Size(s[i])
                                 /\ Begin(s, i + 1) <= Begin(s, Len(s) + 1)
<1>0. Len(s) \in Nat
  BY StreamAssumption
<1>1. \A i \in 1..Len(s) : Begin(s, i + 1) = s[i].pos + Size(s[i])
  BY <1>0, Z3 DEF Begin
<1>2. Begin(s, Len(s) + 1) \in Nat
  <2>1. CASE Len(s) = 0
    BY <2>1 DEF Begin
  <2>2. CASE Len(s) # 0
    <3>1. Len(s) \in 1..Len(s)
      BY <1>0, <2>2
    <3>2. Begin(s, Len(s) + 1) = s[Len(s)].pos + Size(s[Len(s)])
      BY <3>1, <1>1
    <3>3. s[Len(s)].pos \in Nat /\ Size(s[Len(s)]) \in Nat
      BY <3>1, FrameType
    <3> QED
      BY <3>2, <3>3
  <2> QED
    BY <2>1, <2>2
<1>3. ASSUME NEW i \in 1..Len(s)
      PROVE  Begin(s, i + 1) <= Begin(s, Len(s) + 1)
  <2>1. Len(s) \in 1..Len(s)
    BY <1>0
  <2>2. CASE i = Len(s)
    BY <2>2, <1>2
  <2>3. CASE i # Len(s)
    <3>1. s[i].pos + Size(s[i]) <= s[Len(s)].pos
      BY <2>1, <2>3, <1>0, InTurn
    <3>2. /\ Begin(s, i + 1) = s[i].pos + Size(s[i])
          /\ Begin(s, Len(s) + 1) = s[Len(s)].pos + Size(s[Len(s)])
      BY <2>1, <1>1
    <3>3. /\ s[i].pos \in Nat /\ Size(s[i]) \in Nat
          /\ s[Len(s)].pos \in Nat /\ Size(s[Len(s)]) \in Nat
      BY <2>1, FrameType
    <3> QED
      BY <3>1, <3>2, <3>3
  <2> QED
    BY <2>2, <2>3
<1> QED
  BY <1>0, <1>1, <1>2, <1>3

\* The request at aBuf[0] is the next one of the stream; there is none at the end.
LEMMA Found ==
  ASSUME TypeOK, CutInv
  PROVE  /\ Len(stream) \in Nat /\ handled \in Nat /\ Total \in Nat
         /\ handled < Len(stream) =>
              /\ Now = handled + 1 /\ Cur = Fr /\ Here # {}
              /\ handled + 1 \in 1..Len(stream)
              /\ Fr.head \in Nat /\ Fr.data \in Nat /\ Fr.note \in Nat /\ Fr.op \in Op
              /\ Fr.head < MaxHead /\ off = Fr.pos
              /\ Begin(stream, handled + 2) = off + HexLen + Fr.head + Fr.data
              /\ off + HexLen + Fr.head + Fr.data <= Total
         /\ handled = Len(stream) => Here = {}
<1>1. /\ stream \in Stream /\ Len(stream) \in Nat /\ handled \in Nat
      /\ handled <= Len(stream) /\ Total \in Nat
  BY Ends DEF TypeOK, CutInv, Total
<1>2. ASSUME handled < Len(stream)
      PROVE  /\ Now = handled + 1 /\ Cur = Fr /\ Here # {}
             /\ handled + 1 \in 1..Len(stream)
             /\ Fr.head \in Nat /\ Fr.data \in Nat /\ Fr.note \in Nat /\ Fr.op \in Op
             /\ Fr.head < MaxHead /\ off = Fr.pos
             /\ Begin(stream, handled + 2) = off + HexLen + Fr.head + Fr.data
             /\ off + HexLen + Fr.head + Fr.data <= Total
  <2>1. handled + 1 \in 1..Len(stream)
    BY <1>1, <1>2
  <2>2. /\ Fr.head \in Nat /\ Fr.data \in Nat /\ Fr.note \in Nat /\ Fr.op \in Op
        /\ Fr.head < MaxHead /\ off = Fr.pos /\ off \in Nat
        /\ Size(Fr) > 0 /\ Size(Fr) = HexLen + Fr.head + Fr.data
    BY <1>1, <2>1, FrameType DEF Fr, CutInv, Size
  <2>3. ASSUME NEW i \in 1..Len(stream), stream[i].pos = off
        PROVE  i = handled + 1
    <3>1. CASE i < handled + 1
      <4>1. stream[i].pos + Size(stream[i]) <= stream[handled+1].pos
        BY <1>1, <2>1, <3>1, InTurn
      <4>2. stream[i].pos \in Nat /\ Size(stream[i]) \in Nat /\ Size(stream[i]) > 0
        BY <1>1, FrameType
      <4> QED
        BY <4>1, <4>2, <2>2, <2>3 DEF Fr
    <3>2. CASE handled + 1 < i
      <4>1. stream[handled+1].pos + Size(stream[handled+1]) <= stream[i].pos
        BY <1>1, <2>1, <3>2, InTurn
      <4> QED
        BY <4>1, <2>1, <2>2, <2>3, <1>1, FrameType DEF Fr
    <3> QED
      BY <3>1, <3>2, <1>1
  <2>4. Here = {handled + 1}
    BY <2>1, <2>2, <2>3 DEF Here, Fr
  <2>5. Now = handled + 1 /\ Cur = Fr /\ Here # {}
    BY <2>4 DEF Now, Cur, Fr
  <2>6. Begin(stream, (handled + 1) + 1) = off + HexLen + Fr.head + Fr.data
    <3>1. Begin(stream, (handled + 1) + 1) = off + Size(Fr)
      BY <1>1, <2>1, <2>2, Ends DEF Fr
    <3> QED
      BY <3>1, <2>2, SizeAssumption
  <2>7. (handled + 1) + 1 = handled + 2
    BY <1>1
  <2>8. off + HexLen + Fr.head + Fr.data <= Total
    BY <1>1, <2>1, <2>6, Ends DEF Total
  <2> QED
    BY <2>1, <2>2, <2>5, <2>6, <2>7, <2>8
<1>3. ASSUME handled = Len(stream) PROVE Here = {}
  <2> SUFFICES ASSUME NEW i \in 1..Len(stream), stream[i].pos = off PROVE FALSE
    BY DEF Here
  <2>1. Begin(stream, i + 1) = stream[i].pos + Size(stream[i]) /\ Begin(stream, i + 1) <= off
    BY <1>1, <1>3, Ends DEF CutInv
  <2> QED
    BY <2>1, <1>1, FrameType
<1> QED
  BY <1>1, <1>2, <1>3
-----------------------------------------------------------------------------
(* The initial states and the steps.                                        *)

LEMMA InitInv == Init => IndInv
<1> SUFFICES ASSUME Init PROVE IndInv
  OBVIOUS
<1>1. /\ stream \in Stream /\ stream \in Seq(Frame) /\ Len(stream) \in Nat
      /\ Total \in Nat
  BY StreamAssumption, Ends DEF Init, Total
<1>2. TypeOK
  <2>1. tmtprev \in BOOLEAN /\ node \in BOOLEAN
    BY DEF Init
  <2>2. /\ rd \in 0..Total /\ off \in 0..Total /\ handled \in 0..Len(stream)
        /\ aPos \in 0..BufLen /\ aHeadEnd \in 0..(HexLen + MaxHead)
    BY <1>1, SizeAssumption DEF Init, BufLen
  <2> QED
    BY <1>1, <2>1, <2>2 DEF Init, TypeOK
<1>3. CutInv
  BY <1>1, SizeAssumption DEF Init, CutInv, Begin, ReadRoom, Taken, Handler
<1>4. OpInv /\ DataInv
  BY DEF Init, OpInv, DataInv, Taken, Handler
<1>5. HistInv /\ ProcInv
  BY DEF Init, HistInv, ProcInv, Intact, AckMeansAll
<1> QED
  BY <1>2, <1>3, <1>4, <1>5 DEF IndInv

\* What was queued and answered stays so while nothing is added to it.
LEMMA PastKept ==
  ASSUME HistInv, UNCHANGED <<stream, queued, acks>>
  PROVE  /\ Intact' /\ AckMeansAll'
         /\ \A i, k : Queued(i, k)' <=> Queued(i, k)
<1>1. Intact'
  BY DEF HistInv, Intact, Data
<1>2. AckMeansAll'
  BY DEF HistInv, AckMeansAll, Queued, Twofold
<1> QED
  BY <1>1, <1>2 DEF Queued

\* Steps of _runLink that leave buffer, files and history alone.
LEMMA ScanStep ==
  ASSUME IndInv,
         Accept \/ ReadFail \/ ParseMore \/ LengthBad \/ ParseHead \/ Close
  PROVE  IndInv'
<1>0. /\ UNCHANGED <<stream, rd, off, aPos, aHeadEnd, login, file, notefile, queued, acks,
                     handled, proc>>
      /\ at \in {"accept", "read", "parse", "quit"} /\ proc \in {"up", "suspend"}
      /\ \/ at = "accept" /\ at' = "read"
         \/ at = "parse" /\ at' = "read" /\ (aPos < MinHead + HexLen \/ aPos < aHeadEnd)
         \/ at = "parse" /\ at' = "handle" /\ aHeadEnd # 0 /\ aHeadEnd <= aPos /\ Check(Cur)
         \/ at' = "quit"
         \/ at' = "closed"
  BY DEF Accept, ReadFail, ParseMore, LengthBad, ParseHead, Close, Running, past, files,
         buffer
<1>1. /\ Len(stream) \in Nat /\ handled \in Nat /\ Total \in Nat
      /\ aHeadEnd # 0 => Cur = Fr /\ Fr.head \in Nat /\ Fr.head < MaxHead
  BY Found DEF IndInv, CutInv
<1>2. Fr' = Fr /\ Check(Fr)' = Check(Fr) /\ Total' = Total
  BY <1>0 DEF Fr, Check, Total, Begin, Size
<1>3. TypeOK'
  BY <1>0, <1>2 DEF IndInv, TypeOK, login, Handler
<1>4. CutInv'
  BY <1>0, <1>1, <1>2, SizeAssumption DEF IndInv, TypeOK, CutInv, ReadRoom, Begin, Size, Taken, Handler, BufLen
<1>5. OpInv'
  BY <1>0 DEF OpInv
<1>6. DataInv'
  BY <1>0, <1>1, <1>2, SMTT(30) DEF IndInv, TypeOK, CutInv, DataInv, Taken, Handler, Base
<1>7. HistInv'
  BY <1>0, PastKept DEF IndInv, HistInv
<1>8. ProcInv'
  BY <1>0, <1>2 DEF IndInv, ProcInv, Handler
<1> QED
  BY <1>3, <1>4, <1>5, <1>6, <1>7, <1>8 DEF IndInv

\* A read fills more of the buffer.
LEMMA ReadStep ==
  ASSUME IndInv, NEW n \in 1..BufLen, Read(n)
  PROVE  IndInv'
<1>0. /\ UNCHANGED <<stream, off, aHeadEnd, login, file, notefile, queued, acks,
                     handled, proc>>
      /\ at = "read" /\ at' = "parse" /\ proc \in {"up", "suspend"}
      /\ n <= BufLen - aPos /\ rd + n <= Total /\ rd' = rd + n /\ aPos' = aPos + n
      /\ BufLen \in Nat /\ n \in Nat
  BY SizeAssumption DEF Read, Running, past, files, BufLen
<1>1. Len(stream) \in Nat /\ handled \in Nat /\ Total \in Nat
  BY Found DEF IndInv, CutInv
<1>2. Fr' = Fr /\ Total' = Total
  BY <1>0 DEF Fr, Total, Begin, Size
<1>3. TypeOK'
  <2>1. rd' \in 0..Total' /\ aPos' \in 0..BufLen'
    BY <1>0, <1>1, <1>2 DEF IndInv, TypeOK, BufLen
  <2> QED
    BY <1>0, <1>2, <2>1 DEF IndInv, TypeOK, login, BufLen
<1>4. CutInv'
  <2>0. off \in Nat /\ aPos \in Nat /\ rd = off + aPos
    BY <1>0, <1>1 DEF IndInv, TypeOK, CutInv
  <2>1. off' + aPos' = rd'
    BY <2>0, <1>0
  <2>2. off' = Begin(stream, handled + 1)'
    BY <1>0 DEF IndInv, CutInv, Begin, Size
  <2> QED
    BY <1>0, <1>2, <2>1, <2>2 DEF IndInv, CutInv, ReadRoom, Taken, Handler
<1>5. OpInv'
  BY <1>0 DEF OpInv
<1>6. DataInv'
  BY <1>0 DEF IndInv, DataInv, Taken, Handler
<1>7. HistInv'
  BY <1>0, PastKept DEF IndInv, HistInv
<1>8. ProcInv'
  BY <1>0, <1>2 DEF IndInv, ProcInv, Handler
<1> QED
  BY <1>3, <1>4, <1>5, <1>6, <1>7, <1>8 DEF IndInv

\* The length field is that of the next request.
LEMMA LengthStep ==
  ASSUME IndInv, ParseLength
  PROVE  IndInv'
<1>0. /\ UNCHANGED <<stream, rd, off, aPos, at, login, file, notefile, queued, acks,
                     handled, proc>>
      /\ at = "parse" /\ Here # {} /\ aHeadEnd = 0 /\ proc \in {"up", "suspend"}
      /\ aHeadEnd' = Cur.head + HexLen
  BY DEF ParseLength, Running, past, files
<1>1. /\ Len(stream) \in Nat /\ handled \in Nat /\ handled < Len(stream)
      /\ Cur = Fr /\ Fr.head \in Nat /\ Fr.head < MaxHead
  BY <1>0, Found DEF IndInv, TypeOK
<1>2. Fr' = Fr /\ Total' = Total
  BY <1>0 DEF Fr, Total, Begin, Size
<1>3. TypeOK'
  <2>1. aHeadEnd' \in 0..(HexLen + MaxHead)
    BY <1>0, <1>1, SizeAssumption
  <2> QED
    BY <1>0, <1>2, <2>1 DEF IndInv, TypeOK, login
<1>4. CutInv'
  BY <1>0, <1>1, <1>2, SizeAssumption
     DEF IndInv, TypeOK, CutInv, ReadRoom, Begin, Size, Taken, Handler
<1>5. OpInv'
  BY <1>0 DEF OpInv
<1>6. DataInv'
  BY <1>0 DEF IndInv, DataInv, Taken, Handler
<1>7. HistInv'
  BY <1>0, PastKept DEF IndInv, HistInv
<1>8. ProcInv'
  BY <1>0, <1>2 DEF IndInv, ProcInv, Handler
<1> QED
  BY <1>3, <1>4, <1>5, <1>6, <1>7, <1>8 DEF IndInv

\* The request in hand.
LEMMA InHand ==
  ASSUME IndInv, at \in Taken
  PROVE  /\ Now = handled + 1 /\ Cur = Fr
         /\ Len(stream) \in Nat /\ handled \in Nat /\ Total \in Nat
         /\ handled + 1 \in 1..Len(stream)
         /\ Fr.head \in Nat /\ Fr.data \in Nat /\ Fr.note \in Nat /\ Fr.head < MaxHead
         /\ Begin(stream, handled + 2) = Base + Fr.data /\ Base + Fr.data <= Total
         /\ off \in Nat /\ aPos \in Nat /\ rd \in Nat /\ Base \in Nat
         /\ aHeadEnd = HexLen + Fr.head /\ aHeadEnd # 0 /\ off = Fr.pos
         /\ Base <= off + aPos /\ off + aPos <= rd
<1>1. /\ handled < Len(stream) /\ aHeadEnd = HexLen + Fr.head /\ aHeadEnd # 0
      /\ aHeadEnd <= aPos /\ off + aPos <= rd
  BY DEF IndInv, CutInv, DataInv
<1>2. off \in Nat /\ aPos \in Nat /\ rd \in Nat /\ aHeadEnd \in Nat
  BY SizeAssumption, Found DEF IndInv, TypeOK, BufLen
<1>3. /\ Now = handled + 1 /\ Cur = Fr
      /\ Len(stream) \in Nat /\ handled \in Nat /\ Total \in Nat
      /\ handled + 1 \in 1..Len(stream)
      /\ Fr.head \in Nat /\ Fr.data \in Nat /\ Fr.note \in Nat /\ Fr.head < MaxHead
      /\ off = Fr.pos
      /\ Begin(stream, handled + 2) = off + HexLen + Fr.head + Fr.data
      /\ off + HexLen + Fr.head + Fr.data <= Total
  BY <1>1, Found DEF IndInv
<1>4. off + HexLen + Fr.head + Fr.data = Base + Fr.data /\ Base \in Nat /\ Base <= off + aPos
  <2>1. Fr.head \in Nat /\ Fr.data \in Nat /\ HexLen \in Nat
    BY <1>3, SizeAssumption
  <2>2. aHeadEnd = HexLen + Fr.head /\ aHeadEnd <= aPos
    BY <1>1
  <2> QED
    BY <1>2, <2>1, <2>2 DEF Base
<1> QED
  BY <1>1, <1>2, <1>3, <1>4

\* A request that is not yet handled was neither queued nor answered.
LEMMA Fresh ==
  ASSUME IndInv, at \in {"read", "parse", "handle", "link", "self", "edit", "ping", "note",
                         "data", "queue"}
  PROVE  /\ \A k : ~Queued(handled + 1, k)
         /\ \A q \in queued : q.i <= handled
<1>1. handled \in Nat
  BY DEF IndInv, TypeOK
<1> QED
  BY <1>1 DEF IndInv, HistInv, Queued

\* The steps of requests that have no data.
LEMMA PlainStep ==
  ASSUME IndInv, Handle \/ HandleLogin \/ HandleEdit \/ QueueLink \/ PostSelf \/ Edit
  PROVE  IndInv'
<1>a. at \in {"handle", "link", "self", "edit"} /\ at \in Taken
  BY DEF Handle, HandleLogin, HandleEdit, QueueLink, PostSelf, Edit, Taken, Handler
<1>b. Cur = Fr
  BY <1>a, InHand
<1>0. /\ UNCHANGED <<stream, rd, off, aPos, aHeadEnd, file, notefile, queued, acks,
                     handled, proc>>
      /\ proc \in {"up", "suspend"}
      /\ \/ at' = "quit"
         \/ at = "handle" /\ at' = "done" /\ Fr.op \in {"tmtprev", "pulse"}
         \/ at = "handle" /\ at' = "link" /\ Fr.op = "login"
         \/ at = "handle" /\ at' = "edit" /\ Fr.op = "edit"
         \/ at = "link" /\ at' \in {"self", "done"}
         \/ at = "self" /\ at' = "done"
         \/ at = "edit" /\ at' \in {"ack", "ackerr"}
  BY <1>b DEF Handle, HandleLogin, HandleEdit, QueueLink, PostSelf, Edit, Running, past,
              files, buffer
<1>1. tmtprev' \in BOOLEAN /\ node' \in BOOLEAN
  BY DEF Handle, HandleLogin, HandleEdit, QueueLink, PostSelf, Edit, login, IndInv, TypeOK
<1>2. Fr' = Fr /\ Check(Fr)' = Check(Fr) /\ Total' = Total /\ Base' = Base
  BY <1>0 DEF Fr, Check, Total, Begin, Size, Base
<1>3. TypeOK'
  BY <1>0, <1>1, <1>2 DEF IndInv, TypeOK, Handler
<1>4. CutInv'
  BY <1>a, <1>0, <1>2 DEF IndInv, CutInv, ReadRoom, Begin, Size, Taken, Handler
<1>5. OpInv'
  BY <1>0, <1>2 DEF IndInv, OpInv
<1>6. DataInv'
  <2>0. Fr.data \in Nat /\ rd \in Nat /\ Base \in Nat /\ Base <= rd
    BY <1>a, InHand
  <2>1. at' # "quit" => Fr.data = 0
    <3>1. Check(Fr)
      BY <1>a DEF IndInv, CutInv
    <3>2. CASE at = "handle"
      BY <3>1, <3>2, <2>0, <1>0 DEF Check
    <3>3. CASE at # "handle"
      BY <3>3, <1>a DEF IndInv, DataInv
    <3> QED
      BY <3>2, <3>3
  <2>2. at' # "quit" => Base' + Fr'.data <= rd'
    BY <1>0, <1>2, <2>0, <2>1
  <2>3. /\ off + aPos <= rd
        /\ rd = off + aPos \/ rd <= Base + Fr.data
    BY <1>a DEF IndInv, DataInv
  <2> QED
    BY <1>0, <1>2, <2>1, <2>2, <2>3 DEF DataInv, Taken, Handler
<1>7. HistInv'
  <2>1. /\ \A k : ~Queued(handled + 1, k)
        /\ \A q \in queued : q.i <= handled
    BY <1>a, Fresh
  <2>2. at' \in {"ack", "ackerr"} => Fr.op = "edit"
    BY <1>0 DEF IndInv, OpInv
  <2> QED
    BY <1>0, <1>2, <1>a, <2>1, <2>2, PastKept DEF IndInv, HistInv
<1>8. ProcInv'
  BY <1>0 DEF ProcInv
<1> QED
  BY <1>3, <1>4, <1>5, <1>6, <1>7, <1>8 DEF IndInv

\* What the buffer has of a part of the data is what was read of it, while nothing
\* was read beyond the buffer or no byte of the part was.
LEMMA BufIsRead ==
  ASSUME IndInv, at \in Taken, NEW k \in Nat, NEW m \in Nat,
         rd = off + aPos \/ rd <= Base + k
  PROVE  InBuf(k, m) = ReadOf(Base + k, Base + m)
<1>1. off \in Nat /\ aPos \in Nat /\ rd \in Nat /\ Base \in Nat /\ off + aPos <= rd
  BY InHand
<1>2. InBuf(k, m) = {p \in (Base + k) .. (Base + m - 1) : p < off + aPos}
  BY DEF InBuf, Base
<1> QED
  BY <1>1, <1>2 DEF ReadOf

\* What was read of a part that begins in the buffer or at the next byte to be read.
LEMMA ReadPart ==
  ASSUME IndInv, at \in Taken, NEW k \in Nat, NEW m \in Nat, k <= m, Base + k <= rd
  PROVE  /\ rd < Base + m => /\ ReadOf(Base + k, Base + m) = (Base + k) .. (rd - 1)
                             /\ Cardinality(ReadOf(Base + k, Base + m)) = rd - (Base + k)
         /\ rd >= Base + m => /\ ReadOf(Base + k, Base + m) = (Base + k) .. (Base + m - 1)
                              /\ Cardinality(ReadOf(Base + k, Base + m)) = m - k
<1>1. rd \in Nat /\ Base \in Nat
  BY InHand
<1>2. ASSUME rd < Base + m
      PROVE  /\ ReadOf(Base + k, Base + m) = (Base + k) .. (rd - 1)
             /\ Cardinality(ReadOf(Base + k, Base + m)) = rd - (Base + k)
  <2>1. ReadOf(Base + k, Base + m) = (Base + k) .. (rd - 1)
    BY <1>1, <1>2 DEF ReadOf
  <2>2. Cardinality((Base + k) .. (rd - 1)) = rd - (Base + k)
    <3>1. Base + k \in Int /\ rd - 1 \in Int
      BY <1>1
    <3>2. Cardinality((Base + k) .. (rd - 1)) =
            IF Base + k > rd - 1 THEN 0 ELSE (rd - 1) - (Base + k) + 1
      BY <3>1, FS_Interval
    <3> QED
      BY <3>2, <1>1
  <2> QED
    BY <2>1, <2>2
<1>3. ASSUME rd >= Base + m
      PROVE  /\ ReadOf(Base + k, Base + m) = (Base + k) .. (Base + m - 1)
             /\ Cardinality(ReadOf(Base + k, Base + m)) = m - k
  <2>1. ReadOf(Base + k, Base + m) = (Base + k) .. (Base + m - 1)
    BY <1>1, <1>3 DEF ReadOf
  <2>2. Cardinality((Base + k) .. (Base + m - 1)) = m - k
    <3>1. Base + k \in Int /\ Base + m - 1 \in Int
      BY <1>1
    <3>2. Cardinality((Base + k) .. (Base + m - 1)) =
            IF Base + k > Base + m - 1 THEN 0 ELSE (Base + m - 1) - (Base + k) + 1
      BY <3>1, FS_Interval
    <3> QED
      BY <3>2, <1>1
  <2> QED
    BY <2>1, <2>2
<1> QED
  BY <1>2, <1>3

\* A file, or a ping's slice, starts with what the buffer has.
LEMMA StartStep ==
  ASSUME IndInv, HandlePost \/ HandlePing
  PROVE  IndInv'
<1>a. at = "handle" /\ at \in Taken /\ notefile = {} /\ rd = off + aPos
  BY DEF HandlePost, HandlePing, Taken, IndInv, DataInv, CutInv
<1>b. /\ Cur = Fr /\ Fr.data \in Nat /\ Fr.note \in Nat /\ Check(Fr)
      /\ off \in Nat /\ aPos \in Nat /\ rd \in Nat /\ Base \in Nat
      /\ Base <= off + aPos
  BY <1>a, InHand DEF IndInv, CutInv
<1>c. /\ UNCHANGED <<stream, rd, off, aPos, aHeadEnd, login, queued, acks, handled, proc>>
      /\ proc = "up"
      /\ at' \in {"data", "note", "ping", "quit"}
  BY DEF HandlePost, HandlePing, past, buffer
<1>0. \/ /\ at' = "data" /\ Fr.op = "post" /\ Fr.note = 0
         /\ file' = ReadOf(Base + Fr.note, Base + Fr.data) /\ notefile' = {}
      \/ /\ at' = "note" /\ Fr.op = "postnotify" /\ Fr.note < Fr.data
         /\ notefile' = ReadOf(Base, Base + Fr.note) /\ file' = file
      \/ /\ at' = "ping" /\ Fr.op \in {"invite", "ping"} /\ Fr.note = 0
         /\ Fr.data <= PingMax
         /\ file' = ReadOf(Base + Fr.note, Base + Fr.data) /\ notefile' = {}
      \/ at' = "quit" /\ notefile' = {} /\ (file' = file \/ file' = InBuf(0, Fr.data))
  <2>1. \A m \in Nat : InBuf(0, m) = ReadOf(Base, Base + m)
    <3>1. Base + 0 = Base
      BY <1>b
    <3> QED
      BY <1>a, <3>1, BufIsRead
  <2>2. Fr.op # "postnotify" => Fr.note = 0 /\ Base + Fr.note = Base
    BY <1>b DEF Check
  <2>3. CASE HandlePost
    BY <1>a, <1>b, <2>1, <2>2, <2>3 DEF HandlePost, files
  <2>4. CASE HandlePing
    <3>1. Fr.op \in {"invite", "ping"} /\ file' = InBuf(0, Fr.data) /\ notefile' = {}
      BY <2>4, <1>a, <1>b DEF HandlePing
    <3>2. at' = "quit" \/ (at' = "ping" /\ Fr.data <= PingMax)
      <4>1. at' = IF Fr.data > PingMax THEN "quit" ELSE "ping"
        BY <2>4, <1>b DEF HandlePing
      <4>2. Fr.data \in Nat /\ PingMax \in Nat
        BY <1>b, SizeAssumption
      <4> QED
        BY <4>1, <4>2
    <3> QED
      BY <3>1, <3>2, <1>b, <2>1, <2>2
  <2> QED
    BY <2>3, <2>4
<1>2. Fr' = Fr /\ Check(Fr)' = Check(Fr) /\ Total' = Total /\ Base' = Base
      /\ \A a, b : ReadOf(a, b)' = ReadOf(a, b)
  BY <1>c DEF Fr, Check, Total, Begin, Size, Base, ReadOf
<1>3. TypeOK'
  <2>1. file' \in SUBSET Nat /\ notefile' \in SUBSET Nat
    <3>1. \A a, b \in Nat : ReadOf(a, b) \in SUBSET Nat
      BY DEF ReadOf
    <3>2. InBuf(0, Fr.data) \in SUBSET Nat
      BY <1>b DEF InBuf, Base
    <3>3. Base + Fr.note \in Nat /\ Base + Fr.data \in Nat
      BY <1>b
    <3> QED
      BY <1>0, <1>b, <3>1, <3>2, <3>3 DEF IndInv, TypeOK
  <2> QED
    BY <1>c, <1>2, <2>1 DEF IndInv, TypeOK, login, Handler
<1>4. CutInv'
  BY <1>a, <1>c, <1>2 DEF IndInv, CutInv, ReadRoom, Begin, Size, Taken, Handler
<1>5. OpInv'
  BY <1>0, <1>c, <1>2 DEF OpInv
<1>6. DataInv'
  <2>1. Fr.note = 0 => Base .. (Base + Fr.note - 1) = {} /\ Base + Fr.note <= rd
    BY <1>a, <1>b
  <2>2. UNCHANGED <<rd, off, aPos, Base, Fr>> /\ rd = off + aPos
    BY <1>a, <1>c, <1>2
  <2>3. CASE at' = "quit"
    BY <2>3 DEF DataInv, Taken, Handler
  <2>4. CASE at' = "note"
    BY <2>4, <2>2, <1>0, <1>b, <1>2 DEF DataInv, Taken, Handler
  <2>5. CASE at' \in {"data", "ping"}
    <3>1. /\ file' = ReadOf(Base + Fr.note, Base + Fr.data) /\ notefile' = {}
          /\ Base + Fr.note <= rd
          /\ Base .. (Base + Fr.note - 1) = {}
      BY <2>5, <1>0, <2>1
    <3> QED
      BY <2>5, <2>2, <3>1, <1>b, <1>2 DEF DataInv, Taken, Handler
  <2> QED
    BY <1>c, <2>3, <2>4, <2>5
<1>7. HistInv'
  BY <1>c, <1>a, PastKept DEF IndInv, HistInv
<1>8. ProcInv'
  BY <1>c DEF ProcInv
<1> QED
  BY <1>3, <1>4, <1>5, <1>6, <1>7, <1>8 DEF IndInv

\* What Want and Have are at each place.
LEMMA Counts ==
  ASSUME IndInv, Receiving
  PROVE  /\ at \in Taken /\ Check(Fr)
         /\ at = "note" => Want = Fr.note /\ Have = Cardinality(notefile)
         /\ at # "note" => Want = Fr.data - Fr.note /\ Have = Cardinality(file)
         /\ Fr.note <= Fr.data /\ Base <= rd
         /\ at # "note" => Base + Fr.note <= rd
         /\ Fr.op # "postnotify" => Fr.note = 0
<1>1. at \in {"ping", "note", "data"} /\ at \in Taken
  BY DEF Receiving, Taken, Handler
<1>2. /\ Cur = Fr /\ Check(Fr) /\ Fr.note \in Nat /\ Fr.data \in Nat
      /\ off \in Nat /\ aPos \in Nat /\ rd \in Nat /\ Base \in Nat
      /\ Base <= off + aPos /\ off + aPos <= rd
  BY <1>1, InHand DEF IndInv, CutInv
<1>3. Fr.op # "postnotify" => Fr.note = 0
  BY <1>2 DEF Check
<1>4. Fr.note <= Fr.data
  BY <1>1, <1>2, <1>3 DEF IndInv, OpInv
<1>5. at # "note" => Base + Fr.note <= rd
  BY <1>1 DEF IndInv, DataInv
<1>6. Base <= rd
  BY <1>2
<1> QED
  BY <1>1, <1>2, <1>3, <1>4, <1>5, <1>6 DEF Want, Have

\* More data is read from the connection.
LEMMA ReceiveStep ==
  ASSUME IndInv, NEW n \in 1..Total, Receive(n)
  PROVE  IndInv'
<1>a. Receiving /\ at \in {"ping", "note", "data"} /\ at \in Taken
  BY DEF Receive, Receiving, Taken, Handler
<1>b. /\ Cur = Fr /\ Fr.data \in Nat /\ Fr.note \in Nat /\ Total \in Nat
      /\ off \in Nat /\ aPos \in Nat /\ rd \in Nat /\ Base \in Nat
      /\ Base <= off + aPos /\ off + aPos <= rd /\ n \in Nat /\ n > 0
  BY <1>a, InHand
<1>c. /\ UNCHANGED <<stream, off, aPos, aHeadEnd, at, login, queued, acks, handled, proc>>
      /\ n <= Want - Have /\ rd + n <= Total /\ rd' = rd + n
      /\ IF at = "note" THEN notefile' = notefile \cup rd .. (rd + n - 1) /\ file' = file
                        ELSE file' = file \cup rd .. (rd + n - 1) /\ notefile' = notefile
  BY DEF Receive, past, buffer
<1>2. Fr' = Fr /\ Check(Fr)' = Check(Fr) /\ Total' = Total /\ Base' = Base
  BY <1>c DEF Fr, Check, Total, Begin, Size, Base
<1>d. ASSUME at = "note"
      PROVE  DataInv' /\ file' \in SUBSET Nat /\ notefile' \in SUBSET Nat
  <2>1. /\ notefile = ReadOf(Base + 0, Base + Fr.note)
        /\ rd = off + aPos \/ rd <= Base + Fr.note
        /\ Fr.note < Fr.data
    <3>1. Base + 0 = Base
      BY <1>b
    <3> QED
      BY <1>d, <3>1 DEF IndInv, DataInv, OpInv
  <2>2. Want = Fr.note /\ Have = Cardinality(notefile) /\ Base + 0 <= rd /\ 0 <= Fr.note
    BY <1>a, <1>b, <1>d, Counts
  <2>3. rd < Base + Fr.note
    <3> SUFFICES ASSUME rd >= Base + Fr.note PROVE FALSE
      BY <1>b
    <3>1. Cardinality(notefile) = Fr.note - 0
      BY <1>a, <1>b, <2>1, <2>2, ReadPart
    <3> QED
      BY <3>1, <2>2, <1>b, <1>c
  <2>4. notefile = (Base + 0) .. (rd - 1) /\ Cardinality(notefile) = rd - (Base + 0)
    BY <1>a, <1>b, <2>1, <2>2, <2>3, ReadPart
  <2>5. n <= Fr.note - (rd - Base)
    BY <2>2, <2>4, <1>b, <1>c
  <2>6. notefile' = Base .. (rd + n - 1) /\ rd + n <= Base + Fr.note
    <3>1. notefile' = Base .. (rd - 1) \cup rd .. (rd + n - 1)
      BY <2>4, <1>b, <1>c, <1>d
    <3>2. Base .. (rd - 1) \cup rd .. (rd + n - 1) = Base .. (rd + n - 1)
      BY <1>b, <2>2
    <3> QED
      BY <3>1, <3>2, <2>5, <1>b
  <2>7. notefile' = ReadOf(Base, Base + Fr.note)'
    BY <2>6, <1>b, <1>c, <1>2 DEF ReadOf
  <2>8. /\ rd' <= Base' + Fr'.note /\ rd' <= Base' + Fr'.data /\ off' + aPos' <= rd'
    BY <2>6, <2>1, <1>b, <1>c, <1>2
  <2>9. file' \in SUBSET Nat /\ notefile' \in SUBSET Nat
    <3>1. Base .. (rd + n - 1) \in SUBSET Nat
      BY <1>b
    <3> QED
      BY <3>1, <2>6, <1>c, <1>d DEF IndInv, TypeOK
  <2>10. DataInv'
    BY <1>c, <1>d, <2>7, <2>8, <1>2 DEF DataInv
  <2> QED
    BY <2>9, <2>10
<1>e. ASSUME at # "note"
      PROVE  DataInv' /\ file' \in SUBSET Nat /\ notefile' \in SUBSET Nat
  <2>1. /\ file = ReadOf(Base + Fr.note, Base + Fr.data)
        /\ Base + Fr.note <= rd
        /\ Fr.note <= Fr.data
    BY <1>a, <1>e, Counts DEF IndInv, DataInv
  <2>2. Want = Fr.data - Fr.note /\ Have = Cardinality(file)
    BY <1>a, <1>e, Counts
  <2>3. rd < Base + Fr.data
    <3> SUFFICES ASSUME rd >= Base + Fr.data PROVE FALSE
      BY <1>b
    <3>1. Cardinality(file) = Fr.data - Fr.note
      BY <1>a, <1>b, <2>1, ReadPart
    <3> QED
      BY <3>1, <2>2, <1>b, <1>c
  <2>4. file = (Base + Fr.note) .. (rd - 1) /\ Cardinality(file) = rd - (Base + Fr.note)
    BY <1>a, <1>b, <2>1, <2>3, ReadPart
  <2>5. n <= (Fr.data - Fr.note) - (rd - (Base + Fr.note))
    BY <2>2, <2>4, <1>c
  <2>6. file' = (Base + Fr.note) .. (rd + n - 1) /\ rd + n <= Base + Fr.data
    <3>1. file' = (Base + Fr.note) .. (rd - 1) \cup rd .. (rd + n - 1)
      BY <2>4, <1>c, <1>e
    <3>2. (Base + Fr.note) .. (rd - 1) \cup rd .. (rd + n - 1) = (Base + Fr.note) .. (rd + n - 1)
      BY <1>b, <2>1
    <3> QED
      BY <3>1, <3>2, <2>5, <1>b
  <2>7. file' = ReadOf(Base + Fr.note, Base + Fr.data)'
    BY <2>6, <1>b, <1>c, <1>2, SMTT(30) DEF ReadOf
  <2>8. /\ rd' <= Base' + Fr'.data /\ off' + aPos' <= rd' /\ Base' + Fr'.note <= rd'
    BY <2>6, <2>1, <1>b, <1>c, <1>2
  <2>9. file' \in SUBSET Nat /\ notefile' \in SUBSET Nat
    <3>1. (Base + Fr.note) .. (rd + n - 1) \in SUBSET Nat
      BY <1>b
    <3> QED
      BY <3>1, <2>6, <1>c, <1>e DEF IndInv, TypeOK
  <2>10. DataInv'
    BY <1>a, <1>c, <1>e, <2>7, <2>8, <1>2 DEF DataInv, IndInv
  <2> QED
    BY <2>9, <2>10
<1>3. TypeOK'
  <2>1. rd' \in 0..Total'
    BY <1>b, <1>c, <1>2
  <2> QED
    BY <1>c, <1>2, <2>1, <1>d, <1>e DEF IndInv, TypeOK, login
<1>4. CutInv'
  BY <1>a, <1>c, <1>2 DEF IndInv, CutInv, ReadRoom, Begin, Size
<1>5. OpInv'
  BY <1>c, <1>2 DEF IndInv, OpInv
<1>7. HistInv'
  BY <1>c, <1>a, PastKept DEF IndInv, HistInv
<1>8. ProcInv'
  BY <1>c, <1>2 DEF IndInv, ProcInv
<1> QED
  BY <1>3, <1>4, <1>5, <1>d, <1>e, <1>7, <1>8 DEF IndInv

\* The data does not come, or does not fit.
LEMMA ReceiveEnds ==
  ASSUME IndInv, ReceiveFail \/ ReceivePanic \/ PingPanic
  PROVE  IndInv'
<1>a. Receiving /\ at \in {"ping", "note", "data"} /\ at \in Taken
  BY DEF ReceiveFail, ReceivePanic, PingPanic, Receiving, Taken, Handler
<1>c. /\ UNCHANGED <<stream, rd, off, aPos, aHeadEnd, login, file, notefile, queued, acks,
                     handled>>
      /\ \/ at' = "quit" /\ proc' = proc
         \/ at' = at /\ at = "ping" /\ proc' = "panic" /\ ~PingFits
         \/ at' = at /\ at \in {"note", "data"} /\ proc' = "panic"
      /\ proc \in {"up", "suspend"}
  BY <1>a DEF ReceiveFail, ReceivePanic, PingPanic, Receiving, Running, past, buffer, files
<1>2. /\ Fr' = Fr /\ Check(Fr)' = Check(Fr) /\ Total' = Total /\ Base' = Base
      /\ \A a, b : ReadOf(a, b)' = ReadOf(a, b)
  BY <1>c DEF Fr, Check, Total, Begin, Size, Base, ReadOf
<1>3. TypeOK'
  BY <1>c, <1>2 DEF IndInv, TypeOK, login
<1>4. CutInv'
  BY <1>a, <1>c, <1>2 DEF IndInv, CutInv, ReadRoom, Begin, Size, Taken, Handler
<1>5. OpInv'
  BY <1>c, <1>2 DEF IndInv, OpInv
<1>6. DataInv'
  BY <1>c, <1>2 DEF IndInv, DataInv, Taken, Handler
<1>7. HistInv'
  BY <1>c, <1>a, PastKept DEF IndInv, HistInv
<1>8. ProcInv'
  <2>1. CASE proc' = "panic" /\ at = "ping"
    <3>1. at = "ping" /\ ~(Fr.data <= BufLen - aHeadEnd) /\ Fr.data <= PingMax
      BY <2>1, <1>a, <1>c, InHand DEF PingFits, IndInv, OpInv
    <3>2. /\ aHeadEnd = HexLen + Fr.head /\ aHeadEnd # 0
          /\ Fr.head \in Nat /\ Fr.data \in Nat
      BY <1>a, InHand
    <3>3. Fr.head + PingMax > MaxHead
      BY <3>1, <3>2, SizeAssumption DEF BufLen
    <3> QED
      BY <2>1, <3>2, <3>3, <1>c, <1>2 DEF ProcInv
  <2>2. CASE proc' = "panic" /\ at # "ping"
    BY <2>2, <1>a, <1>c, InHand DEF ProcInv
  <2>3. CASE proc' # "panic"
    BY <2>3, <1>c DEF ProcInv
  <2> QED
    BY <2>1, <2>2, <2>3
<1> QED
  BY <1>3, <1>4, <1>5, <1>6, <1>7, <1>8 DEF IndInv

\* The end of the data is no int64.
LEMMA SliceStep ==
  ASSUME IndInv, SlicePanic
  PROVE  IndInv'
<1>1. /\ UNCHANGED <<stream, rd, off, aPos, aHeadEnd, at, login, file, notefile, queued, acks,
                     handled>>
      /\ proc' = "panic" /\ EndWraps
      /\ at = "done" \/ aHeadEnd # 0
  BY DEF SlicePanic, past, buffer, files
<1>2. /\ Fr' = Fr /\ Check(Fr)' = Check(Fr) /\ Total' = Total /\ Base' = Base
      /\ \A a, b : ReadOf(a, b)' = ReadOf(a, b)
  BY <1>1 DEF Fr, Check, Total, Begin, Size, Base, ReadOf
<1>3. aHeadEnd # 0
  BY <1>1, InHand DEF Taken
<1>4. Cur = Fr
  BY <1>3, Found DEF IndInv, CutInv
<1>5. TypeOK' /\ CutInv' /\ OpInv' /\ DataInv'
  <2>1. TypeOK'
    BY <1>1, <1>2 DEF IndInv, TypeOK, login
  <2>2. CutInv'
    BY <1>1, <1>2 DEF IndInv, CutInv, ReadRoom, Begin, Size
  <2>3. OpInv'
    BY <1>1, <1>2 DEF IndInv, OpInv
  <2>4. DataInv'
    BY <1>1, <1>2 DEF IndInv, DataInv
  <2> QED
    BY <2>1, <2>2, <2>3, <2>4
<1>6. HistInv'
  BY <1>1, <1>2, PastKept DEF IndInv, HistInv
<1>7. ProcInv'
  BY <1>1, <1>2, <1>3, <1>4 DEF ProcInv, EndWraps
<1> QED
  BY <1>5, <1>6, <1>7 DEF IndInv

\* All data of the part is there.
LEMMA ReceivedStep ==
  ASSUME IndInv, Received
  PROVE  IndInv'
<1>a. Receiving /\ at \in {"ping", "note", "data"} /\ at \in Taken
  BY DEF Received, Receiving, Taken, Handler
<1>b. /\ Cur = Fr /\ Fr.data \in Nat /\ Fr.note \in Nat /\ Total \in Nat
      /\ off \in Nat /\ aPos \in Nat /\ rd \in Nat /\ Base \in Nat
      /\ Base <= off + aPos /\ off + aPos <= rd
  BY <1>a, InHand
<1>c. /\ UNCHANGED <<stream, rd, off, aPos, aHeadEnd, login, notefile, queued, acks,
                     handled, proc>>
      /\ Have = Want
      /\ \/ at = "note" /\ at' = "data" /\ file' = InBuf(Fr.note, Fr.data)
         \/ at \in {"ping", "data"} /\ at' = "queue" /\ file' = file
         \/ at = "ping" /\ at' \in {"quit", "ackerr"} /\ file' = file
      /\ proc \in {"up", "suspend"}
  BY <1>b DEF Received, Receiving, Running, past, buffer
<1>2. /\ Fr' = Fr /\ Check(Fr)' = Check(Fr) /\ Total' = Total /\ Base' = Base
      /\ \A a, b : ReadOf(a, b)' = ReadOf(a, b)
  BY <1>c DEF Fr, Check, Total, Begin, Size, Base, ReadOf
<1>d. ASSUME at = "note"
      PROVE  /\ notefile = Base .. (Base + Fr.note - 1) /\ Base + Fr.note <= rd
             /\ file' = ReadOf(Base + Fr.note, Base + Fr.data)
             /\ rd = off + aPos \/ rd <= Base + Fr.data
             /\ Fr.op = "postnotify" /\ Fr.note < Fr.data
  <2>1. /\ notefile = ReadOf(Base + 0, Base + Fr.note)
        /\ rd = off + aPos \/ rd <= Base + Fr.note
        /\ Fr.op = "postnotify" /\ Fr.note < Fr.data
    <3>1. Base + 0 = Base
      BY <1>b
    <3> QED
      BY <1>d, <3>1 DEF IndInv, DataInv, OpInv
  <2>2. Want = Fr.note /\ Have = Cardinality(notefile) /\ Base + 0 <= rd /\ 0 <= Fr.note
    BY <1>a, <1>b, <1>d, Counts
  <2>3. rd >= Base + Fr.note
    <3> SUFFICES ASSUME rd < Base + Fr.note PROVE FALSE
      BY <1>b
    <3>1. Cardinality(notefile) = rd - (Base + 0)
      BY <1>a, <1>b, <2>1, <2>2, ReadPart
    <3> QED
      BY <3>1, <2>2, <1>b, <1>c
  <2>4. notefile = (Base + 0) .. (Base + Fr.note - 1)
    BY <1>a, <1>b, <2>1, <2>2, <2>3, ReadPart
  <2>5. file' = ReadOf(Base + Fr.note, Base + Fr.data)
    BY <1>a, <1>b, <1>c, <1>d, <2>1, BufIsRead
  <2> QED
    BY <2>1, <2>3, <2>4, <2>5, <1>b
<1>e. ASSUME at # "note"
      PROVE  /\ file = ReadOf(Base + Fr.note, Base + Fr.data) /\ Base + Fr.note <= rd
             /\ Base + Fr.data <= rd
             /\ notefile = Base .. (Base + Fr.note - 1)
             /\ rd = off + aPos \/ rd <= Base + Fr.data
  <2>1. /\ file = ReadOf(Base + Fr.note, Base + Fr.data)
        /\ Base + Fr.note <= rd
        /\ Fr.note <= Fr.data
        /\ Want = Fr.data - Fr.note /\ Have = Cardinality(file)
        /\ rd = off + aPos \/ rd <= Base + Fr.data
    BY <1>a, <1>e, Counts DEF IndInv, DataInv
  <2>3. rd >= Base + Fr.data
    <3> SUFFICES ASSUME rd < Base + Fr.data PROVE FALSE
      BY <1>b
    <3>1. Cardinality(file) = rd - (Base + Fr.note)
      BY <1>a, <1>b, <2>1, ReadPart
    <3> QED
      BY <3>1, <2>1, <1>b, <1>c
  <2>4. notefile = Base .. (Base + Fr.note - 1)
    <3>1. CASE at = "ping"
      <4>1. Fr.note = 0 /\ notefile = {}
        BY <3>1, <1>a, Counts DEF IndInv, DataInv, OpInv
      <4> QED
        BY <4>1, <1>b
    <3>2. CASE at = "data"
      BY <3>2 DEF IndInv, DataInv
    <3> QED
      BY <3>1, <3>2, <1>a, <1>e
  <2> QED
    BY <2>1, <2>3, <2>4
<1>3. TypeOK'
  <2>1. file' \in SUBSET Nat
    <3>1. CASE at = "note"
      <4>1. Base + Fr.note \in Nat /\ Base + Fr.data \in Nat
        BY <1>b
      <4> QED
        BY <3>1, <1>d, <4>1 DEF ReadOf
    <3>2. CASE at # "note"
      BY <3>2, <1>c DEF IndInv, TypeOK
    <3> QED
      BY <3>1, <3>2
  <2> QED
    BY <1>c, <1>2, <2>1 DEF IndInv, TypeOK, login, Handler
<1>4. CutInv'
  BY <1>a, <1>c, <1>2 DEF IndInv, CutInv, ReadRoom, Begin, Size, Taken, Handler
<1>5. OpInv'
  BY <1>c, <1>2, <1>d DEF IndInv, OpInv
<1>6. DataInv'
  <2>1. CASE at' = "data"
    BY <2>1, <1>b, <1>c, <1>d, <1>2 DEF DataInv
  <2>2. CASE at' \in {"queue", "ackerr"}
    <3>1. /\ file' = ReadOf(Base + Fr.note, Base + Fr.data) /\ Base + Fr.note <= rd
          /\ Base + Fr.data <= rd
          /\ notefile' = Base .. (Base + Fr.note - 1)
          /\ rd = off + aPos \/ rd <= Base + Fr.data
      BY <2>2, <1>c, <1>e
    <3> QED
      BY <2>2, <3>1, <1>b, <1>c, <1>2 DEF DataInv
  <2>3. CASE at' = "quit"
    BY <2>3 DEF DataInv, Taken, Handler
  <2> QED
    BY <1>c, <2>1, <2>2, <2>3
<1>7. HistInv'
  <2>1. \A k : ~Queued(handled + 1, k)
    BY <1>a, Fresh
  <2> QED
    BY <1>c, <1>2, <1>a, <2>1, PastKept DEF IndInv, HistInv
<1>8. ProcInv'
  BY <1>c DEF ProcInv
<1> QED
  BY <1>3, <1>4, <1>5, <1>6, <1>7, <1>8 DEF IndInv

\* A queue step leaves all but at and queued alone.
LEMMA QueueStep ==
  ASSUME IndInv, QueueMsg \/ QueueNote
  PROVE  IndInv'
<1>a. at \in {"queue", "quenote"} /\ at \in Taken
  BY DEF QueueMsg, QueueNote, Taken, Handler
<1>b. /\ Now = handled + 1 /\ Cur = Fr /\ Len(stream) \in Nat /\ handled \in Nat
      /\ handled + 1 \in 1..Len(stream)
      /\ Fr.data \in Nat /\ Fr.note \in Nat /\ Fr.head \in Nat /\ HexLen \in Nat
      /\ rd \in Nat /\ Base \in Nat /\ off \in Nat
      /\ aHeadEnd = HexLen + Fr.head /\ off = Fr.pos
  BY <1>a, InHand, SizeAssumption
<1>c. /\ UNCHANGED <<stream, rd, off, aPos, aHeadEnd, login, file, notefile, acks,
                     handled, proc>>
      /\ proc \in {"up", "suspend"}
      /\ \/ /\ at = "queue" /\ queued' = queued \cup {Item("msg", file)}
            /\ at' = IF Fr.op \in {"postnotify", "invite"} THEN "quenote" ELSE "ack"
         \/ /\ at = "quenote" /\ queued' = queued \cup {Item("note", notefile)}
            /\ at' = "ack"
         \/ queued' = queued /\ at' = "ackerr"
  <2>1. Twice <=> Fr.op \in {"postnotify", "invite"}
    BY <1>b DEF Twice, Twofold, Fr
  <2> QED
    BY <2>1 DEF QueueMsg, QueueNote, Running, files, buffer
<1>2. /\ Fr' = Fr /\ Check(Fr)' = Check(Fr) /\ Total' = Total /\ Base' = Base
      /\ \A a, b : ReadOf(a, b)' = ReadOf(a, b)
  BY <1>c DEF Fr, Check, Total, Begin, Size, Base, ReadOf
<1>d. /\ at = "queue" => file = Data(handled + 1, "msg")
      /\ at = "quenote" => notefile = Data(handled + 1, "note")
  <2>1. Fr.pos + HexLen + Fr.head = Base
    BY <1>b, SMTT(30) DEF Base
  <2>2. /\ Data(handled + 1, "note") = Base .. (Base + Fr.note - 1)
        /\ Data(handled + 1, "msg") = (Base + Fr.note) .. (Base + Fr.data - 1)
    BY <2>1 DEF Data, Fr
  <2>3. ASSUME at = "queue" PROVE file = (Base + Fr.note) .. (Base + Fr.data - 1)
    <3>1. file = ReadOf(Base + Fr.note, Base + Fr.data) /\ Base + Fr.data <= rd
      BY <2>3 DEF IndInv, DataInv
    <3> QED
      BY <3>1, <1>b, SMTT(30) DEF ReadOf
  <2>4. at = "quenote" => notefile = Base .. (Base + Fr.note - 1)
    BY DEF IndInv, DataInv
  <2> QED
    BY <2>2, <2>3, <2>4
<1>3. TypeOK'
  <2>1. ASSUME NEW k \in {"msg", "note"}, NEW b \in SUBSET Nat
        PROVE  Item(k, b) \in [i : 1..Len(stream), kind : {"msg", "note"}, bytes : SUBSET Nat]
    BY <1>b DEF Item
  <2>2. queued' \in SUBSET [i : 1..Len(stream), kind : {"msg", "note"}, bytes : SUBSET Nat]
    BY <1>c, <2>1 DEF IndInv, TypeOK
  <2> QED
    BY <1>c, <1>2, <2>2 DEF IndInv, TypeOK, login, Handler
<1>4. CutInv'
  BY <1>a, <1>c, <1>2 DEF IndInv, CutInv, ReadRoom, Begin, Size, Taken, Handler
<1>5. OpInv'
  BY <1>a, <1>c, <1>2 DEF IndInv, OpInv
<1>6. DataInv'
  BY <1>a, <1>c, <1>2 DEF IndInv, DataInv, Taken, Handler
<1>7. HistInv'
  <2>1. CASE queued' = queued
    <3>1. \A i, k : Queued(i, k)' <=> Queued(i, k)
      BY <2>1 DEF Queued
    <3>2. /\ ~Queued(handled + 1, "note")
          /\ Fr.op \notin {"postnotify", "invite"} => ~Queued(handled + 1, "msg")
      BY <1>a, Fresh DEF IndInv, HistInv, OpInv
    <3>3. at' = "ackerr"
      <4>1. ASSUME at' # "ackerr" PROVE FALSE
        <5>1. CASE at = "queue"
          <6>1. Item("msg", file) \in queued
            BY <5>1, <4>1, <2>1, <1>c
          <6>2. Item("msg", file).i = handled + 1
            BY <1>b DEF Item
          <6> QED
            BY <6>1, <6>2, <5>1, <1>b, Fresh
        <5>2. CASE at = "quenote"
          <6>1. Item("note", notefile) \in queued
            BY <5>2, <4>1, <2>1, <1>c
          <6>2. Item("note", notefile).i = handled + 1 /\ Item("note", notefile).kind = "note"
            BY <1>b DEF Item
          <6> QED
            BY <6>1, <6>2, <5>2 DEF IndInv, HistInv, Queued
        <5> QED
          BY <5>1, <5>2, <1>a
      <4> QED
        BY <4>1
    <3> QED
      BY <1>a, <1>c, <2>1, <3>1, <3>2, <3>3, <1>2, PastKept DEF IndInv, HistInv
  <2>2. ASSUME NEW k \in {"msg", "note"}, NEW b,
               queued' = queued \cup {Item(k, b)}, b = Data(handled + 1, k),
               \/ k = "msg" /\ at = "queue" /\
                  at' = (IF Fr.op \in {"postnotify", "invite"} THEN "quenote" ELSE "ack")
               \/ k = "note" /\ at = "quenote" /\ at' = "ack"
        PROVE  HistInv'
    <3>1. /\ Item(k, b).i = handled + 1 /\ Item(k, b).kind = k /\ Item(k, b).bytes = b
      BY <1>b DEF Item
    <3>2. Intact'
      <4>1. \A r \in queued : r.bytes = Data(r.i, r.kind)
        BY DEF IndInv, HistInv, Intact
      <4>2. \A i, m : Data(i, m)' = Data(i, m)
        BY <1>c DEF Data
      <4> QED
        BY <2>2, <3>1, <4>1, <4>2 DEF Intact
    <3>3. \A i, m : Queued(i, m)' <=> (Queued(i, m) \/ (i = handled + 1 /\ m = k))
      BY <2>2, <3>1 DEF Queued
    <3>4. AckMeansAll'
      <4>1. \A a \in acks : a.i # handled + 1
        BY <1>a, <1>b DEF IndInv, HistInv
      <4>2. \A a \in acks : \A m : Queued(a.i, m)' <=> Queued(a.i, m)
        BY <3>3, <4>1
      <4> QED
        BY <1>c, <4>2 DEF IndInv, HistInv, AckMeansAll, Twofold
    <3>5. \A q \in queued' :
            \/ q.i <= handled'
            \/ q.i = handled' + 1 /\ at' \in {"quenote", "ack", "ackerr", "done"}
      BY <1>a, <1>c, <2>2, <3>1 DEF IndInv, HistInv
    <3>6. \A q \in queued' : \/ \E a \in acks' : a.i = q.i
                             \/ q.i = handled' + 1 /\ at' \in {"quenote", "ack", "ackerr"}
      BY <1>a, <1>c, <2>2, <3>1 DEF IndInv, HistInv
    <3>7. \A a \in acks' : \/ a.i <= handled'
                           \/ a.i = handled' + 1 /\ at' = "done"
      BY <1>a, <1>c DEF IndInv, HistInv
    <3>8. at = "queue" => ~Queued(handled + 1, "note")
      BY Fresh
    <3>9. at = "quenote" => Queued(handled + 1, "msg")
      BY DEF IndInv, HistInv
    <3>10. /\ at' = "quenote" => Queued(handled + 1, "msg")' /\ ~Queued(handled + 1, "note")'
           /\ at' = "ack" =>
                /\ Fr.op # "edit" => Queued(handled + 1, "msg")'
                /\ Fr.op \in {"postnotify", "invite"} => Queued(handled + 1, "note")'
      BY <1>c, <2>2, <3>3, <3>8, <3>9
    <3>11. at' # "ackerr"
      BY <2>2
    <3> QED
      BY <1>c, <1>2, <3>2, <3>4, <3>5, <3>6, <3>7, <3>10, <3>11 DEF HistInv
  <2>3. ASSUME queued' # queued PROVE HistInv'
    <3>1. CASE at = "queue"
      BY <3>1, <2>3, <1>c, <1>d, <2>2
    <3>2. CASE at = "quenote"
      BY <3>2, <2>3, <1>c, <1>d, <2>2
    <3> QED
      BY <3>1, <3>2, <1>a
  <2> QED
    BY <2>1, <2>3
<1>8. ProcInv'
  BY <1>c DEF ProcInv
<1> QED
  BY <1>3, <1>4, <1>5, <1>6, <1>7, <1>8 DEF IndInv

\* The request is answered.
LEMMA AckStep ==
  ASSUME IndInv, AckAsap
  PROVE  IndInv'
<1>a. at \in {"ack", "ackerr"} /\ at \in Taken
  BY DEF AckAsap, Taken, Handler
<1>b. /\ Now = handled + 1 /\ Cur = Fr /\ Len(stream) \in Nat /\ handled \in Nat
      /\ handled + 1 \in 1..Len(stream)
  BY <1>a, InHand
<1> DEFINE ack == [i |-> handled + 1, ok |-> at = "ack"]
<1>c. /\ UNCHANGED <<stream, rd, off, aPos, aHeadEnd, login, file, notefile, queued,
                     handled, proc>>
      /\ proc \in {"up", "suspend"}
      /\ acks' = acks \cup {ack} /\ at' = "done"
  BY <1>b DEF AckAsap, Running, files, buffer
<1>d. ack.i = handled + 1 /\ ack.ok = (at = "ack")
  OBVIOUS
<1>e. ack \in [i : 1..Len(stream), ok : BOOLEAN]
  BY <1>b
<1> HIDE DEF ack
<1>2. /\ Fr' = Fr /\ Check(Fr)' = Check(Fr) /\ Total' = Total /\ Base' = Base
      /\ \A i, k : Queued(i, k)' <=> Queued(i, k)
  BY <1>c DEF Fr, Check, Total, Begin, Size, Base, Queued
<1>3. TypeOK'
  BY <1>c, <1>e, <1>2 DEF IndInv, TypeOK, login
<1>4. CutInv'
  BY <1>a, <1>c, <1>2 DEF IndInv, CutInv, ReadRoom, Begin, Size, Taken
<1>5. OpInv'
  BY <1>c DEF OpInv
<1>6. DataInv'
  BY <1>a, <1>c, <1>2 DEF IndInv, DataInv
<1>7. HistInv'
  <2>1. Intact'
    BY <1>c DEF IndInv, HistInv, Intact, Data
  <2>2. AckMeansAll'
    <3> SUFFICES ASSUME NEW a \in acks'
                 PROVE  stream[a.i].op # "edit" =>
                          (a.ok <=> Queued(a.i, "msg") /\ (Twofold(a.i) => Queued(a.i, "note")))
      BY <1>c, <1>2 DEF AckMeansAll, Twofold
    <3>1. CASE a \in acks
      BY <3>1 DEF IndInv, HistInv, AckMeansAll
    <3>2. CASE a = ack
      <4>1. stream[a.i] = Fr /\ a.i = handled + 1 /\ a.ok = (at = "ack")
        BY <3>2, <1>d DEF Fr
      <4> QED
        BY <4>1, <1>a DEF IndInv, HistInv, Twofold
    <3> QED
      BY <3>1, <3>2, <1>c
  <2>3. \A q \in queued' : \/ q.i <= handled'
                           \/ q.i = handled' + 1 /\ at' = "done"
    BY <1>c DEF IndInv, HistInv
  <2>4. \A a \in acks' : \/ a.i <= handled'
                         \/ a.i = handled' + 1 /\ at' = "done"
    BY <1>a, <1>c, <1>d DEF IndInv, HistInv
  <2>5. \A q \in queued' : \E a \in acks' : a.i = q.i
    BY <1>c, <1>d DEF IndInv, HistInv
  <2> QED
    BY <1>c, <2>1, <2>2, <2>3, <2>4, <2>5 DEF HistInv
<1>8. ProcInv'
  BY <1>c DEF ProcInv
<1> QED
  BY <1>3, <1>4, <1>5, <1>6, <1>7, <1>8 DEF IndInv

\* The next request begins where this one ends, in the buffer or at the next byte.
LEMMA AdvanceStep ==
  ASSUME IndInv, Advance
  PROVE  IndInv'
<1>a. at = "done" /\ at \in Taken
  BY DEF Advance, Taken
<1>b. /\ Cur = Fr /\ Len(stream) \in Nat /\ handled \in Nat /\ Total \in Nat
      /\ handled + 1 \in 1..Len(stream)
      /\ Begin(stream, handled + 2) = Base + Fr.data /\ Base + Fr.data <= Total
      /\ Fr.data \in Nat /\ off \in Nat /\ aPos \in Nat /\ rd \in Nat /\ Base \in Nat
      /\ off + aPos <= rd
  BY <1>a, InHand
<1>c. /\ UNCHANGED <<stream, rd, login, queued, acks, proc>>
      /\ proc \in {"up", "suspend"}
      /\ IF aPos > aHeadEnd + Fr.data
         THEN /\ aPos' = aPos - (aHeadEnd + Fr.data) /\ off' = off + (aHeadEnd + Fr.data)
              /\ at' = "parse"
         ELSE aPos' = 0 /\ off' = rd /\ at' = "read"
      /\ aHeadEnd' = 0 /\ handled' = handled + 1
      /\ file' = {} /\ notefile' = {}
  BY <1>b DEF Advance, Running
<1>d. aHeadEnd \in Nat /\ BufLen \in Nat /\ BufLen > 0 /\ aPos <= BufLen
  BY SizeAssumption DEF IndInv, TypeOK, BufLen
<1>e. /\ Base + Fr.data <= rd
      /\ rd = off + aPos \/ rd <= Base + Fr.data
  BY <1>a DEF IndInv, DataInv
<1>f. /\ off' = Base + Fr.data /\ off' + aPos' = rd
      /\ aPos' \in 0..BufLen /\ (at' = "read" => aPos' = 0)
      /\ at' \in {"parse", "read"}
  <2>1. CASE aPos > aHeadEnd + Fr.data
    <3>1. rd = off + aPos
      BY <2>1, <1>b, <1>d, <1>e DEF Base
    <3>2. aPos' = aPos - (aHeadEnd + Fr.data) /\ off' = off + (aHeadEnd + Fr.data) /\ at' = "parse"
      BY <2>1, <1>c
    <3>3. /\ off \in Nat /\ aPos \in Nat /\ aHeadEnd \in Nat /\ Fr.data \in Nat
          /\ BufLen \in Nat /\ aPos <= BufLen
      BY <1>b, <1>d
    <3>4. off' = Base + Fr.data
      BY <3>2, <3>3 DEF Base
    <3>5. off' + aPos' = rd /\ aPos' \in 0..BufLen
      BY <2>1, <3>1, <3>2, <3>3
    <3> QED
      BY <3>2, <3>4, <3>5
  <2>2. CASE ~(aPos > aHeadEnd + Fr.data)
    <3>1. rd = Base + Fr.data
      BY <2>2, <1>b, <1>d, <1>e, SMTT(30) DEF Base
    <3>2. aPos' = 0 /\ off' = rd /\ at' = "read"
      BY <2>2, <1>c
    <3> QED
      BY <3>1, <3>2, <1>b, <1>d
  <2> QED
    BY <2>1, <2>2
<1>2. Total' = Total
  BY <1>c DEF Total, Begin, Size
<1>3. TypeOK'
  <2>1. off' \in 0..Total' /\ handled' \in 0..Len(stream') /\ aHeadEnd' \in 0..(HexLen + MaxHead)
    BY <1>b, <1>c, <1>f, <1>2, SizeAssumption, SMTT(30)
  <2> QED
    BY <1>c, <1>2, <1>f, <2>1 DEF IndInv, TypeOK, login, BufLen
<1>4. CutInv'
  <2>1. off' = Begin(stream, handled + 1)'
    <3>1. Begin(stream, handled + 1)' = Begin(stream, handled + 2)
      <4>1. handled' + 1 = handled + 2
        BY <1>b, <1>c
      <4> QED
        BY <4>1, <1>c DEF Begin, Size
    <3> QED
      BY <3>1, <1>b, <1>f
  <2>2. ReadRoom'
    BY <1>d, <1>f DEF ReadRoom, BufLen
  <2> QED
    BY <1>c, <1>f, <2>1, <2>2 DEF IndInv, CutInv, Taken, Handler
<1>5. OpInv'
  BY <1>f DEF OpInv
<1>6. DataInv'
  BY <1>c, <1>f DEF DataInv, Taken, Handler
<1>7. HistInv'
  <2>0. (\A q \in queued : q.i \in Nat) /\ (\A a \in acks : a.i \in Nat)
    BY DEF IndInv, TypeOK
  <2>1. \A q \in queued : q.i <= handled'
    <3>1. \A q \in queued : q.i <= handled \/ q.i = handled + 1
      BY DEF IndInv, HistInv
    <3> QED
      BY <2>0, <3>1, <1>b, <1>c
  <2>2. \A a \in acks : a.i <= handled'
    <3>1. \A a \in acks : a.i <= handled \/ a.i = handled + 1
      BY DEF IndInv, HistInv
    <3> QED
      BY <2>0, <3>1, <1>b, <1>c
  <2>3. \A q \in queued : \E a \in acks : a.i = q.i
    BY <1>a DEF IndInv, HistInv
  <2> QED
    BY <1>c, <1>f, <2>1, <2>2, <2>3, PastKept DEF IndInv, HistInv
<1>8. ProcInv'
  BY <1>c DEF ProcInv
<1> QED
  BY <1>3, <1>4, <1>5, <1>6, <1>7, <1>8 DEF IndInv

\* The process is told to end, and does once no handler runs.
LEMMA ProcStep ==
  ASSUME IndInv, Suspend \/ Exit \/ UNCHANGED vars
  PROVE  IndInv'
<1>c. /\ UNCHANGED <<stream, rd, off, aPos, aHeadEnd, at, login, file, notefile, queued, acks,
                     handled>>
      /\ \/ proc' = proc
         \/ proc' = "suspend"
         \/ proc' = "exit" /\ at \notin Handler
  BY DEF Suspend, Exit, vars, past, buffer, files
<1>2. /\ Fr' = Fr /\ Check(Fr)' = Check(Fr) /\ Total' = Total /\ Base' = Base
      /\ \A a, b : ReadOf(a, b)' = ReadOf(a, b)
  BY <1>c DEF Fr, Check, Total, Begin, Size, Base, ReadOf
<1>3. TypeOK'
  BY <1>c, <1>2 DEF IndInv, TypeOK, login
<1>4. CutInv'
  BY <1>c, <1>2 DEF IndInv, CutInv, ReadRoom, Begin, Size
<1>5. OpInv'
  BY <1>c, <1>2 DEF IndInv, OpInv
<1>6. DataInv'
  BY <1>c, <1>2 DEF IndInv, DataInv
<1>7. HistInv'
  BY <1>c, <1>2, PastKept DEF IndInv, HistInv
<1>8. ProcInv'
  BY <1>c, <1>2 DEF IndInv, ProcInv
<1> QED
  BY <1>3, <1>4, <1>5, <1>6, <1>7, <1>8 DEF IndInv

-----------------------------------------------------------------------------
(* The theorems.                                                            *)

LEMMA NextInv == IndInv /\ [Next]_vars => IndInv'
<1> SUFFICES ASSUME IndInv, [Next]_vars PROVE IndInv'
  OBVIOUS
<1>1. CASE Accept \/ ReadFail \/ ParseMore \/ LengthBad \/ ParseHead \/ Close
  BY <1>1, ScanStep
<1>2. CASE \E n \in 1..BufLen : Read(n)
  BY <1>2, ReadStep
<1>3. CASE ParseLength
  BY <1>3, LengthStep
<1>4. CASE Handle \/ HandleLogin \/ HandleEdit \/ QueueLink \/ PostSelf \/ Edit
  BY <1>4, PlainStep
<1>5. CASE HandlePost \/ HandlePing
  BY <1>5, StartStep
<1>6. CASE \E n \in 1..Total : Receive(n)
  BY <1>6, ReceiveStep
<1>7. CASE ReceiveFail \/ ReceivePanic \/ PingPanic
  BY <1>7, ReceiveEnds
<1>8. CASE Received
  BY <1>8, ReceivedStep
<1>9. CASE QueueMsg \/ QueueNote
  BY <1>9, QueueStep
<1>10. CASE AckAsap
  BY <1>10, AckStep
<1>11. CASE Advance
  BY <1>11, AdvanceStep
<1>12. CASE Suspend \/ Exit \/ UNCHANGED vars
  BY <1>12, ProcStep
<1>13. CASE SlicePanic
  BY <1>13, SliceStep
<1> QED
  BY <1>1, <1>2, <1>3, <1>4, <1>5, <1>6, <1>7, <1>8, <1>9, <1>10, <1>11, <1>12, <1>13
     DEF Next, HandlerStep, SharedStep

\* The inductive invariant holds whatever a client sends and however the reads and
\* the handlers cut it.
THEOREM Invariance == Spec => []IndInv
<1> QED
  BY InitInv, NextInv, PTL DEF Spec

\* _runLink's indexes stay within its buffer and the stream.
THEOREM TypeCorrect == Spec => []TypeOK
<1>1. IndInv => TypeOK
  BY DEF IndInv
<1> QED
  BY <1>1, Invariance, PTL

\* Every request is found where it begins, in turn: _runLink moves up what the buffer
\* holds after a request, or starts anew, by exactly what the handler left.
THEOREM StreamAligned == Spec => []Aligned
<1>1. IndInv => Aligned
  BY DEF IndInv, CutInv, Aligned
<1> QED
  BY <1>1, Invariance, PTL

\* The buffer is never full when _runLink reads.
THEOREM RoomToRead == Spec => []ReadRoom
<1>1. IndInv => ReadRoom
  BY DEF IndInv, CutInv
<1> QED
  BY <1>1, Invariance, PTL

\* recvFile and _checkPing give _queueMsg all of the data of a request and no other
\* byte, however it was split between buffer and connection.
THEOREM DataIntact == Spec => []Intact
<1>1. IndInv => Intact
  BY DEF IndInv, HistInv
<1> QED
  BY <1>1, Invariance, PTL

\* ackAsap reports success exactly if _queueMsg took every message of the request.
THEOREM AcksMeanAll == Spec => []AckMeansAll
<1>1. IndInv => AckMeansAll
  BY DEF IndInv, HistInv
<1> QED
  BY <1>1, Invariance, PTL

\* No slice of aBuf panics but that of a ping whose header is nearly as large as a
\* header may be, or that of data whose end no int64 can hold.
THEOREM SlicesInBuffer == Spec => []NoPanic
<1>1. IndInv => NoPanic
  <2> SUFFICES ASSUME IndInv, proc = "panic"
               PROVE  (at = "ping" /\ LongPing) \/ EndWraps \/ at \in {"note", "data"}
    BY DEF NoPanic
  <2>1. /\ aHeadEnd # 0
        /\ \/ at = "ping" /\ Fr.head + PingMax > MaxHead
           \/ aHeadEnd + Fr.data > IntMax
           \/ at \in {"note", "data"}
    BY DEF IndInv, ProcInv
  <2>2. Cur = Fr
    BY <2>1, Found DEF IndInv, CutInv
  <2>3. at = "ping" => Fr.op \in {"ping", "invite"}
    BY DEF IndInv, OpInv
  <2> QED
    BY <2>1, <2>2, <2>3 DEF LongPing, EndWraps
<1> QED
  BY <1>1, Invariance, PTL

\* Suspend lets the process exit only when every message queued was answered.
THEOREM ExitsClean == Spec => []ExitClean
<1>1. IndInv => ExitClean
  BY DEF IndInv, HistInv, ProcInv, ExitClean, Handler
<1> QED
  BY <1>1, Invariance, PTL

-----------------------------------------------------------------------------
(* Answers.  IndInv says that what is answered was in hand; that nothing in   *)
(* hand is left without its answer is an invariant of its own on top of it.   *)

Answered(i) == \E a \in acks : a.i = i
Silent == {"tmtprev", "login", "pulse"}

\* A request that is done with was answered, unless its kind has no answer.
AnswerInv ==
  /\ \A i \in 1..handled : Answered(i) <=> (stream[i].op \notin Silent)
  /\ at = "done" => (Answered(handled + 1) <=> (Fr.op \notin Silent))

\* A step that neither answers nor ends a request.
LEMMA AnswerKept ==
  ASSUME AnswerInv, UNCHANGED <<stream, acks, handled>>, at' = "done" => at = "done"
  PROVE  AnswerInv'
<1>1. \A i : Answered(i)' <=> Answered(i)
  BY DEF Answered
<1>2. Fr' = Fr
  BY DEF Fr
<1> QED
  BY <1>1, <1>2 DEF AnswerInv

\* What ends without an answer has none.
LEMMA AnswerPlain ==
  ASSUME IndInv, AnswerInv, Handle \/ QueueLink \/ PostSelf
  PROVE  AnswerInv'
<1>1. at \in {"handle", "link", "self"} /\ at \in Taken
  BY DEF Handle, QueueLink, PostSelf, Taken, Handler
<1>2. Cur = Fr /\ handled \in Nat
  BY <1>1, InHand
<1>3. /\ UNCHANGED <<stream, acks, handled>>
      /\ at' \in {"quit", "self"} \/ (at' = "done" /\ Fr.op \in Silent)
  BY <1>1, <1>2 DEF Handle, QueueLink, PostSelf, past, Silent, IndInv, OpInv
<1>4. \A i : Answered(i)' <=> Answered(i)
  BY <1>3 DEF Answered
<1>5. ~Answered(handled + 1)
  BY <1>1, <1>2 DEF Answered, IndInv, HistInv
<1>6. Fr' = Fr
  BY <1>3 DEF Fr
<1> QED
  BY <1>3, <1>4, <1>5, <1>6 DEF AnswerInv

\* The answer is to the request in hand.
LEMMA AnswerAck ==
  ASSUME IndInv, AnswerInv, AckAsap
  PROVE  AnswerInv'
<1>1. at \in {"ack", "ackerr"} /\ at \in Taken
  BY DEF AckAsap, Taken, Handler
<1>2. Now = handled + 1 /\ handled \in Nat
  BY <1>1, InHand
<1>3. /\ UNCHANGED <<stream, handled>> /\ at' = "done"
      /\ acks' = acks \cup {[i |-> handled + 1, ok |-> at = "ack"]}
  BY <1>2 DEF AckAsap
<1>4. \A i : Answered(i)' <=> (Answered(i) \/ i = handled + 1)
  <2> DEFINE ack == [i |-> handled + 1, ok |-> at = "ack"]
  <2>1. ack.i = handled + 1
    OBVIOUS
  <2>2. acks' = acks \cup {ack}
    BY <1>3
  <2> HIDE DEF ack
  <2> QED
    BY <2>1, <2>2 DEF Answered
<1>5. Fr.op \notin Silent
  BY <1>1 DEF IndInv, OpInv, Silent
<1>6. Fr' = Fr
  BY <1>3 DEF Fr
<1>7. \A i \in 1..handled : Answered(i)' <=> Answered(i)
  BY <1>2, <1>4
<1> QED
  BY <1>3, <1>4, <1>5, <1>6, <1>7 DEF AnswerInv

\* The request in hand joins those done with.
LEMMA AnswerAdvance ==
  ASSUME IndInv, AnswerInv, Advance
  PROVE  AnswerInv'
<1>1. at = "done" /\ at \in Taken
  BY DEF Advance, Taken
<1>2. handled \in Nat
  BY <1>1, InHand
<1>3. UNCHANGED <<stream, acks>> /\ handled' = handled + 1 /\ at' # "done"
  BY DEF Advance
<1>4. \A i : Answered(i)' <=> Answered(i)
  BY <1>3 DEF Answered
<1>5. ASSUME NEW i \in 1..handled' PROVE Answered(i)' <=> (stream'[i].op \notin Silent)
  <2>1. CASE i = handled + 1
    BY <2>1, <1>1, <1>3, <1>4 DEF AnswerInv, Fr
  <2>2. CASE i # handled + 1
    <3>1. i \in 1..handled
      BY <2>2, <1>2, <1>3
    <3> QED
      BY <3>1, <1>3, <1>4 DEF AnswerInv
  <2> QED
    BY <2>1, <2>2
<1> QED
  BY <1>3, <1>5 DEF AnswerInv

LEMMA NextAnswer == IndInv /\ AnswerInv /\ [Next]_vars => AnswerInv'
<1> SUFFICES ASSUME IndInv, AnswerInv, [Next]_vars PROVE AnswerInv'
  OBVIOUS
<1>1. CASE \/ Accept \/ ReadFail \/ ParseMore \/ ParseLength \/ LengthBad \/ ParseHead
           \/ SlicePanic \/ Close
  <2>1. UNCHANGED <<stream, acks, handled>> /\ (at' = "done" => at = "done")
    BY <1>1 DEF Accept, ReadFail, ParseMore, ParseLength, LengthBad, ParseHead, SlicePanic,
                Close, past
  <2> QED
    BY <2>1, AnswerKept
<1>2. CASE \E n \in 1..BufLen : Read(n)
  <2>1. UNCHANGED <<stream, acks, handled>> /\ (at' = "done" => at = "done")
    BY <1>2 DEF Read, past
  <2> QED
    BY <2>1, AnswerKept
<1>3. CASE Handle \/ QueueLink \/ PostSelf
  BY <1>3, AnswerPlain
<1>4. CASE HandleLogin \/ HandleEdit \/ HandlePost \/ HandlePing \/ Edit
  <2>1. UNCHANGED <<stream, acks, handled>> /\ (at' = "done" => at = "done")
    BY <1>4 DEF HandleLogin, HandleEdit, HandlePost, HandlePing, Edit, past
  <2> QED
    BY <2>1, AnswerKept
<1>5. CASE \/ \E n \in 1..Total : Receive(n)
           \/ ReceiveFail \/ ReceivePanic \/ PingPanic \/ Received
  <2>1. UNCHANGED <<stream, acks, handled>> /\ (at' = "done" => at = "done")
    BY <1>5 DEF Receive, ReceiveFail, ReceivePanic, PingPanic, Received, past
  <2> QED
    BY <2>1, AnswerKept
<1>6. CASE QueueMsg \/ QueueNote
  <2>1. UNCHANGED <<stream, acks, handled>> /\ (at' = "done" => at = "done")
    BY <1>6 DEF QueueMsg, QueueNote
  <2> QED
    BY <2>1, AnswerKept
<1>7. CASE AckAsap
  BY <1>7, AnswerAck
<1>8. CASE Advance
  BY <1>8, AnswerAdvance
<1>9. CASE Suspend \/ Exit \/ UNCHANGED vars
  <2>1. UNCHANGED <<stream, acks, handled>> /\ (at' = "done" => at = "done")
    BY <1>9 DEF Suspend, Exit, vars, past
  <2> QED
    BY <2>1, AnswerKept
<1> QED
  BY <1>1, <1>2, <1>3, <1>4, <1>5, <1>6, <1>7, <1>8, <1>9 DEF Next, HandlerStep, SharedStep

\* _handleMsg answers every request that it accepts and that has an answer, one time,
\* and queues nothing twice.
THEOREM EachAnswered == Spec => []AnsweredOnce
<1>1. Init => AnswerInv
  BY DEF Init, AnswerInv
<1>2. IndInv /\ AnswerInv => AnsweredOnce
  <2> SUFFICES ASSUME IndInv, AnswerInv PROVE AnsweredOnce
    OBVIOUS
  <2>1. \A i \in 1..handled :
          (\E a \in acks : a.i = i) <=> (stream[i].op \notin {"tmtprev", "login", "pulse"})
    BY DEF AnswerInv, Answered, Silent
  <2>2. handled \in Nat /\ (\A q \in queued : q.i \in Nat /\ q.kind \in {"msg", "note"})
        /\ (\A a \in acks : a.i \in Nat)
    BY DEF IndInv, TypeOK
  <2>3. at \in {"queue", "quenote", "ack", "ackerr"} => Now = handled + 1
    BY InHand DEF Taken, Handler
  <2>4. ASSUME at \in {"queue", "quenote", "ack", "ackerr"}, NEW a \in acks
        PROVE  a.i < Now
    <3>1. a.i <= handled
      BY <2>4 DEF IndInv, HistInv
    <3> QED
      BY <3>1, <2>2, <2>3, <2>4
  <2>5. ASSUME at = "queue", NEW q \in queued
        PROVE  q.i < Now
    <3>1. q.i <= handled
      BY <2>5, Fresh
    <3> QED
      BY <3>1, <2>2, <2>3, <2>5
  <2>6. ASSUME at = "quenote", NEW q \in queued
        PROVE  q.i < Now \/ (q.i = Now /\ q.kind = "msg")
    <3>1. q.i <= handled \/ q.i = handled + 1
      BY <2>6 DEF IndInv, HistInv
    <3>2. q.i = handled + 1 => q.kind # "note"
      BY <2>6 DEF IndInv, HistInv, Queued
    <3> QED
      BY <3>1, <3>2, <2>2, <2>3, <2>6
  <2> QED
    BY <2>1, <2>4, <2>5, <2>6 DEF AnsweredOnce
<1> QED
  BY <1>1, <1>2, NextAnswer, Invariance, PTL DEF Spec
==============================================================================
