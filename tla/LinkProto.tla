----------------------------- MODULE LinkProto -----------------------------
(***************************************************************************)
(* One connection from Accept to Close: _runLink cuts the client's stream   *)
(* into requests with a buffer that reads fill as they please, _handleMsg    *)
(* admits a request by the link's state and takes the data that follows it,  *)
(* partly from the buffer and partly from the connection, and Suspend waits  *)
(* for handlers before the process exits.                                   *)
(*                                                                         *)
(* A byte is its position in the stream; what a file holds is a set of       *)
(* positions, since reading only goes forward.  What becomes of a message    *)
(* after it is stored in temp/ is Fanout's and NodeQueue's subject; here it   *)
(* is queued or fails.                                                      *)
(***************************************************************************)
EXTENDS Naturals, Sequences, FiniteSets

CONSTANTS
  HexLen,   \* size of a header's length field  (4)
  MinHead,  \* kMsgHeaderMinLen  (8)
  MaxHead,  \* kMsgHeaderMaxLen  (2^16), above the largest length field
  PingMax,  \* kPingCharMax * 3  (420)
  IntMax,   \* the largest int64  (2^63 - 1)
  Stream    \* what a client may send: sequences of requests

\* Register counts as a login, Ack as a pulse, and the requests without data that
\* edit the user, its presence or a group are one.  "bad" is a header that does
\* not decode.
Op == {"tmtprev", "login", "edit", "invite", "post", "postnotify", "ping",
       "pulse", "quit", "bad"}

\* A request: its place in the stream, the size of its header, .datalen, .notelen.
Frame == [op : Op, pos : Nat, head : Nat, data : Nat, note : Nat]

Size(f) == HexLen + f.head + f.data

\* Where request i begins, or would begin.
Begin(s, i) == IF i = 1 THEN 0 ELSE s[i-1].pos + Size(s[i-1])

ASSUME SizeAssumption ==
  /\ HexLen \in Nat \ {0} /\ MinHead \in Nat \ {0}
  /\ MaxHead \in Nat /\ PingMax \in Nat /\ IntMax \in Nat
  /\ MinHead < MaxHead /\ HexLen + MaxHead <= IntMax
ASSUME StreamAssumption ==
  \A s \in Stream : /\ s \in Seq(Frame)
                    /\ \A i \in 1..Len(s) : /\ s[i].pos = Begin(s, i)
                                            /\ s[i].head < MaxHead
                                            /\ s[i].data <= IntMax

VARIABLES
  stream,    \* what this client sends
  rd,        \* how much of it was read from the connection
  off,       \* the stream position of aBuf[0]
  aPos,      \* how much of aBuf is filled
  aHeadEnd,  \* end of the current header in aBuf, or 0
  at,        \* where _runLink stands
  tmtprev,   \* tLink.tmtprev is set
  node,      \* tLink.node is set
  file,      \* what recvFile, or _checkPing's slice, holds
  notefile,  \* what the file of a notification holds
  queued,    \* history: what _queueMsg was given, with the request it is from
  acks,      \* history: answers of ackAsap
  handled,   \* history: number of requests handled
  proc       \* the process, and the state of sRecvDoor's writer

buffer == <<off, aPos, aHeadEnd>>
files  == <<file, notefile>>
login  == <<tmtprev, node>>
past   == <<queued, acks, handled>>
vars   == <<stream, rd, buffer, at, login, files, past, proc>>

\* Mutant: the length field is forgotten.
BufLen_NoHex == MaxHead

\* The size of aBuf.
BufLen == MaxHead + HexLen
Total  == Begin(stream, Len(stream) + 1)

\* The handler holds sRecvDoor for reading.
Handler == {"link", "self", "edit", "ping", "note", "data", "queue", "quenote", "ack",
            "ackerr"}

TypeOK ==
  /\ stream \in Seq(Frame)
  /\ rd \in 0..Total /\ off \in 0..Total
  /\ aPos \in 0..BufLen /\ aHeadEnd \in 0..(HexLen + MaxHead)
  /\ at \in {"accept", "read", "parse", "handle", "done", "quit", "closed"} \cup Handler
  /\ tmtprev \in BOOLEAN /\ node \in BOOLEAN
  /\ file \in SUBSET Nat /\ notefile \in SUBSET Nat
  /\ queued \in SUBSET [i : 1..Len(stream), kind : {"msg", "note"}, bytes : SUBSET Nat]
  /\ acks \in SUBSET [i : 1..Len(stream), ok : BOOLEAN]
  /\ handled \in 0..Len(stream)
  /\ proc \in {"up", "suspend", "exit", "panic"}

Init ==
  /\ stream \in Stream
  /\ rd = 0 /\ off = 0 /\ aPos = 0 /\ aHeadEnd = 0
  /\ at = "accept"
  /\ tmtprev = FALSE /\ node = FALSE
  /\ file = {} /\ notefile = {}
  /\ queued = {} /\ acks = {} /\ handled = 0
  /\ proc = "up"

Running == proc \in {"up", "suspend"}

\* The requests that begin at aBuf[0]: one, if the stream was cut where it should.
Here == {i \in 1..Len(stream) : stream[i].pos = off}
Now  == CHOOSE i \in Here : TRUE
Cur  == stream[Now]

-----------------------------------------------------------------------------
(* _runLink.                                                                *)

\* startServer accepts a connection: NewLink.
Accept ==
  /\ proc = "up" /\ at = "accept"
  /\ at' = "read"
  /\ UNCHANGED <<stream, rd, buffer, login, files, past, proc>>

\* Mutant: Read takes all of aBuf for free.
Read_Over(n) ==
  /\ Running /\ at = "read"
  /\ n <= BufLen /\ rd + n <= Total
  /\ rd' = rd + n
  /\ aPos' = aPos + n
  /\ at' = "parse"
  /\ UNCHANGED <<stream, off, aHeadEnd, login, files, past, proc>>

\* Read into what is left of aBuf, as many bytes as happen to be there.
Read(n) ==
  /\ Running /\ at = "read"
  /\ n <= BufLen - aPos /\ rd + n <= Total
  /\ rd' = rd + n
  /\ aPos' = aPos + n
  /\ at' = "parse"
  /\ UNCHANGED <<stream, off, aHeadEnd, login, files, past, proc>>

\* End of the stream, a timeout, another error: the link ends.
ReadFail ==
  /\ Running /\ at = "read"
  /\ at' = "quit"
  /\ UNCHANGED <<stream, rd, buffer, login, files, past, proc>>

\* Too little for a header, or for this one.
ParseMore ==
  /\ Running /\ at = "parse"
  /\ aPos < MinHead + HexLen \/ aPos < aHeadEnd
  /\ at' = "read"
  /\ UNCHANGED <<stream, rd, buffer, login, files, past, proc>>

\* The length field is there.
ParseLength ==
  /\ Running /\ at = "parse"
  /\ aPos >= MinHead + HexLen /\ aHeadEnd = 0
  /\ Here # {} /\ Cur.head >= MinHead
  /\ aHeadEnd' = Cur.head + HexLen
  /\ UNCHANGED <<stream, rd, off, aPos, at, login, files, past, proc>>

\* It holds too small a number; anything but a header has no valid one.
LengthBad ==
  /\ Running /\ at = "parse"
  /\ aPos >= MinHead + HexLen /\ aHeadEnd = 0
  /\ Here = {} \/ Cur.head < MinHead
  /\ at' = "quit"
  /\ UNCHANGED <<stream, rd, buffer, login, files, past, proc>>

\* tHeader.check: which requests have data, and which a notification.
Check(f) ==
  /\ f.op # "bad"
  /\ f.op \notin {"invite", "ping"} => (f.op \in {"post", "postnotify"}) = (f.data > 0)
  /\ (f.op = "postnotify") = (f.note > 0)

\* int64 cannot hold the end of the data: the sum is negative.
EndWraps == aHeadEnd + Cur.data > IntMax

\* The whole header is there, and data after it is cut at its end.
ParseHead ==
  /\ Running /\ at = "parse"
  /\ aHeadEnd # 0 /\ aHeadEnd <= aPos
  /\ ~Check(Cur) \/ aHeadEnd = aPos \/ ~EndWraps
  /\ at' = IF Check(Cur) THEN "handle" ELSE "quit"
  /\ UNCHANGED <<stream, rd, buffer, login, files, past, proc>>

\* _runLink slices aBuf at the end of the data, before a request with data in the
\* buffer is handled and after any is: the expression panics, and the process with
\* it, if that is negative.
SlicePanic ==
  /\ Running
  /\ \/ at = "parse" /\ aHeadEnd # 0 /\ aHeadEnd < aPos /\ Check(Cur)
     \/ at = "done"
  /\ EndWraps
  /\ proc' = "panic"
  /\ UNCHANGED <<stream, rd, buffer, at, login, files, past>>

-----------------------------------------------------------------------------
(* _handleMsg.                                                              *)

\* A request the link's state does not allow.
Barred(op) ==
  CASE op = "tmtprev" -> tmtprev
    [] op = "login"   -> ~tmtprev \/ node
    [] OTHER          -> ~node

\* The data of the request that is in aBuf already, from byte k to byte m of it.
InBuf(k, m) == {p \in (off + aHeadEnd + k) .. (off + aHeadEnd + m - 1) : p < off + aPos}

\* sRecvDoor.RLock, which waits if Suspend does, and the requests that end at once:
\* refused, or failed, or without an answer.
Handle ==
  /\ proc = "up" /\ at = "handle"
  /\ \/ at' = "quit" /\ (Barred(Cur.op) \/ Cur.op \in {"login", "edit", "quit"})
        /\ UNCHANGED tmtprev
     \/ /\ ~Barred(Cur.op)
        /\ Cur.op \in {"tmtprev", "pulse"}
        /\ tmtprev' = (tmtprev \/ Cur.op = "tmtprev")
        /\ at' = "done"
  /\ UNCHANGED <<stream, rd, buffer, node, files, past, proc>>

\* Register, Login: the user is made, or its node verified.
HandleLogin ==
  /\ proc = "up" /\ at = "handle"
  /\ ~Barred(Cur.op) /\ Cur.op = "login"
  /\ at' = "link"
  /\ UNCHANGED <<stream, rd, buffer, login, files, past, proc>>

\* queueLink, which refuses a node that is online; see NodeQueue.
QueueLink ==
  /\ Running /\ at = "link"
  /\ \/ at' = "quit" /\ UNCHANGED node
     \/ at' \in {"self", "done"} /\ node' = TRUE
  /\ UNCHANGED <<stream, rd, buffer, tmtprev, files, past, proc>>

\* Login tells the user's other nodes, by a _postMsg without data to a user that
\* Verify has found.
PostSelf ==
  /\ Running /\ at = "self"
  /\ at' = "done"
  /\ UNCHANGED <<stream, rd, buffer, login, files, past, proc>>

\* A request without data that is answered.
HandleEdit ==
  /\ proc = "up" /\ at = "handle"
  /\ ~Barred(Cur.op) /\ Cur.op = "edit"
  /\ at' = "edit"
  /\ UNCHANGED <<stream, rd, buffer, login, files, past, proc>>

\* The user, group or presence is changed, and the news posted; either may fail.
Edit ==
  /\ Running /\ at = "edit"
  /\ at' \in {"ack", "ackerr"}
  /\ UNCHANGED <<stream, rd, buffer, login, files, past, proc>>

\* Post, PostNotify: recvFile starts with what the buffer has.  PostNotify refuses
\* data that is no longer than the notification, or an empty list.
HandlePost ==
  /\ proc = "up" /\ at = "handle"
  /\ ~Barred(Cur.op) /\ Cur.op \in {"post", "postnotify"}
  /\ \/ /\ Cur.op = "post"
        /\ at' = "data" /\ file' = InBuf(0, Cur.data) /\ UNCHANGED notefile
     \/ /\ Cur.op = "postnotify" /\ Cur.data > Cur.note
        /\ at' = "note" /\ notefile' = InBuf(0, Cur.note) /\ UNCHANGED file
     \/ /\ Cur.op = "postnotify"
        /\ at' = "quit" /\ UNCHANGED files
  /\ UNCHANGED <<stream, rd, buffer, login, past, proc>>

\* Mutant: the size of the data is not limited.
HandlePing_NoMax ==
  /\ proc = "up" /\ at = "handle"
  /\ ~Barred(Cur.op) /\ Cur.op \in {"invite", "ping"}
  /\ at' = "ping"
  /\ file' = InBuf(0, Cur.data)
  /\ UNCHANGED <<stream, rd, buffer, login, notefile, past, proc>>

\* Ping, GroupInvite: _checkPing.
HandlePing ==
  /\ proc = "up" /\ at = "handle"
  /\ ~Barred(Cur.op) /\ Cur.op \in {"invite", "ping"}
  /\ at' = IF Cur.data > PingMax THEN "quit" ELSE "ping"
  /\ file' = InBuf(0, Cur.data)
  /\ UNCHANGED <<stream, rd, buffer, login, notefile, past, proc>>

-----------------------------------------------------------------------------
(* The data of a request.                                                   *)

\* How much a file, or a ping's slice, is to hold.
Want == IF at = "note" THEN Cur.note ELSE Cur.data - Cur.note
Have == Cardinality(IF at = "note" THEN notefile ELSE file)
Receiving == Running /\ at \in {"ping", "note", "data"}

\* _checkPing extends its slice of aBuf to the end of the data.
PingFits == Cur.data <= BufLen - aHeadEnd

\* io.CopyN from the link, or a Read of _checkPing.
Receive(n) ==
  /\ Receiving
  /\ at = "ping" => PingFits
  /\ n <= Want - Have /\ rd + n <= Total
  /\ rd' = rd + n
  /\ LET new == rd .. (rd + n - 1)
     IN  IF at = "note" THEN notefile' = notefile \cup new /\ UNCHANGED file
                        ELSE file' = file \cup new /\ UNCHANGED notefile
  /\ UNCHANGED <<stream, buffer, at, login, past, proc>>

\* The slice expression panics, and the process with it.
PingPanic ==
  /\ Receiving /\ at = "ping"
  /\ Have < Want /\ ~PingFits
  /\ proc' = "panic"
  /\ UNCHANGED <<stream, rd, buffer, at, login, files, past>>

\* Mutant: reads have no deadline.
ReceiveFail_NoDeadline ==
  /\ Receiving
  /\ at = "ping" => PingFits
  /\ Have < Want
  /\ rd = Total
  /\ at' = "quit"
  /\ UNCHANGED <<stream, rd, buffer, login, files, past, proc>>

\* End of the stream, a timeout, another error of the network before all is there:
\* the file is removed and the link ends.
ReceiveFail ==
  /\ Receiving
  /\ at = "ping" => PingFits
  /\ Have < Want
  /\ at' = "quit"
  /\ UNCHANGED <<stream, rd, buffer, login, files, past, proc>>

\* Any other error of recvFile, as of a TLS record that is cut short, is a panic.
ReceivePanic ==
  /\ Receiving /\ at # "ping"
  /\ Have < Want
  /\ proc' = "panic"
  /\ UNCHANGED <<stream, rd, buffer, at, login, files, past>>

\* Mutant: the message's file starts with the data in the buffer, notification
\* and all.
Received_All ==
  /\ Receiving
  /\ Have = Want
  /\ \/ at = "note" /\ at' = "data" /\ file' = InBuf(0, Cur.data)
     \/ at \in {"ping", "data"} /\ at' = "queue" /\ UNCHANGED file
     \/ at = "ping" /\ at' = "quit" /\ UNCHANGED file
  /\ UNCHANGED <<stream, rd, buffer, login, notefile, past, proc>>

\* All is there.  The message's file follows that of the notification; text that
\* is not UTF-8 or too long ends the link; GroupInvite may fail.
Received ==
  /\ Receiving
  /\ Have = Want
  /\ \/ at = "note" /\ at' = "data" /\ file' = InBuf(Cur.note, Cur.data)
     \/ at \in {"ping", "data"} /\ at' = "queue" /\ UNCHANGED file
     \/ at = "ping" /\ at' \in {"quit", "ackerr"} /\ UNCHANGED file
  /\ UNCHANGED <<stream, rd, buffer, login, notefile, past, proc>>

\* What is queued for the current request.
Item(k, b) == [i |-> Now, kind |-> k, bytes |-> b]

\* PostNotify and GroupInvite queue a second message: the notification, or the
\* news for the members.
Twofold(i) == stream[i].op \in {"postnotify", "invite"}
Twice == Twofold(Now)

\* Mutant: the second message is queued although the first was not.
QueueMsg_Both ==
  /\ Running /\ at = "queue"
  /\ \/ /\ queued' = queued \cup {Item("msg", file)}
        /\ at' = IF Twice THEN "quenote" ELSE "ack"
     \/ UNCHANGED queued /\ at' = IF Twice THEN "quenote" ELSE "ackerr"
  /\ UNCHANGED <<stream, rd, buffer, login, files, acks, handled, proc>>

\* _queueMsg of the message, which may fail.
QueueMsg ==
  /\ Running /\ at = "queue"
  /\ \/ /\ queued' = queued \cup {Item("msg", file)}
        /\ at' = IF Twice THEN "quenote" ELSE "ack"
     \/ UNCHANGED queued /\ at' = "ackerr"
  /\ UNCHANGED <<stream, rd, buffer, login, files, acks, handled, proc>>

\* Mutant: an error is not answered.
QueueNote_NoAck ==
  /\ Running /\ at = "quenote"
  /\ \/ queued' = queued \cup {Item("note", notefile)} /\ at' = "ack"
     \/ UNCHANGED queued /\ at' = "done"
  /\ UNCHANGED <<stream, rd, buffer, login, files, acks, handled, proc>>

\* _queueMsg of the second one.
QueueNote ==
  /\ Running /\ at = "quenote"
  /\ \/ queued' = queued \cup {Item("note", notefile)} /\ at' = "ack"
     \/ UNCHANGED queued /\ at' = "ackerr"
  /\ UNCHANGED <<stream, rd, buffer, login, files, acks, handled, proc>>

\* ackAsap, which may wait for the connection; see NodeQueue.
AckAsap ==
  /\ Running /\ at \in {"ack", "ackerr"}
  /\ acks' = acks \cup {[i |-> Now, ok |-> at = "ack"]}
  /\ at' = "done"
  /\ UNCHANGED <<stream, rd, buffer, login, files, queued, handled, proc>>

\* Mutant: what the buffer holds after the request is dropped.
Advance_Drop ==
  /\ Running /\ at = "done"
  /\ aPos' = 0 /\ off' = rd /\ at' = "read"
  /\ aHeadEnd' = 0 /\ handled' = handled + 1
  /\ file' = {} /\ notefile' = {}
  /\ UNCHANGED <<stream, rd, login, queued, acks, proc>>

\* The handler has returned: what aBuf holds after the request is moved up, or
\* aBuf starts anew with what is read next.
Advance ==
  /\ Running /\ at = "done"
  /\ LET end == aHeadEnd + Cur.data
     IN  IF aPos > end
         THEN aPos' = aPos - end /\ off' = off + end /\ at' = "parse"
         ELSE aPos' = 0 /\ off' = rd /\ at' = "read"
  /\ aHeadEnd' = 0 /\ handled' = handled + 1
  /\ file' = {} /\ notefile' = {}
  /\ UNCHANGED <<stream, rd, login, queued, acks, proc>>

\* The end of _runLink; see NodeQueue for unlink.
Close ==
  /\ Running /\ at = "quit"
  /\ at' = "closed"
  /\ UNCHANGED <<stream, rd, buffer, login, files, past, proc>>

-----------------------------------------------------------------------------
(* startServer ends.                                                        *)

\* Accept fails for good, after an interrupt or by itself: Suspend calls
\* sRecvDoor.Lock().
Suspend ==
  /\ proc = "up"
  /\ proc' = "suspend"
  /\ UNCHANGED <<stream, rd, buffer, at, login, files, past>>

\* Mutant: Suspend does not wait.
Exit_NoWait ==
  /\ proc = "suspend"
  /\ proc' = "exit"
  /\ UNCHANGED <<stream, rd, buffer, at, login, files, past>>

\* Suspend has the lock and main returns.
Exit ==
  /\ proc = "suspend"
  /\ at \notin Handler
  /\ proc' = "exit"
  /\ UNCHANGED <<stream, rd, buffer, at, login, files, past>>

-----------------------------------------------------------------------------
\* Steps of a handler that wait for nobody.
HandlerStep == PingPanic \/ Received

\* Those that may wait for others: for the lock of the node or of a user, for the
\* channels of a queue, and for the connection while somebody writes to the client.
SharedStep == QueueLink \/ PostSelf \/ Edit \/ QueueMsg \/ QueueNote \/ AckAsap

Next ==
  \/ Accept \/ ReadFail \/ \E n \in 1..BufLen : Read(n)
  \/ ParseMore \/ ParseLength \/ LengthBad \/ ParseHead \/ SlicePanic
  \/ Handle \/ HandleLogin \/ HandleEdit \/ HandlePost \/ HandlePing
  \/ HandlerStep \/ SharedStep
  \/ ReceiveFail \/ ReceivePanic \/ \E n \in 1..Total : Receive(n)
  \/ Advance \/ Close
  \/ Suspend \/ Exit

Spec == Init /\ [][Next]_vars

\* A handler goes on where it waits for nobody.  Nothing makes a client send its
\* data, but reads of a link that is logged in have a deadline (kPulseTimeout).
FairSpec == /\ Spec
            /\ WF_vars(HandlerStep)
            /\ WF_vars(ReceiveFail)
            /\ WF_vars(Exit)

\* An assumption about the rest of the server and the clients, which neither
\* guarantees: nobody keeps a lock, a channel or the connection for ever.  It leaves
\* out the login that hangs in queueLink (LoginEnds of NodeQueue), the posts that
\* wait for each other (PostAnswered of Fanout), and a client that stays connected
\* and stops reading, for which writes have no deadline.
Served == WF_vars(SharedStep)

-----------------------------------------------------------------------------
\* Whatever the reads return, every request is found where it begins, in turn, and
\* the buffer holds exactly the bytes between there and the last one read: no
\* request is skipped, read twice or cut by the data that a handler took from the
\* connection itself.
Aligned ==
  at \in {"read", "parse", "handle"} => /\ off + aPos = rd
                                        /\ off = Begin(stream, handled + 1)

\* There is always room to read into: the buffer takes the largest header, so
\* that _runLink never spins on reads of nothing.
ReadRoom == at = "read" => aPos < BufLen

\* The data of request i, and the part of it that is the message or the notification.
Data(i, k) ==
  LET f == stream[i]
      b == f.pos + HexLen + f.head
  IN  IF k = "note" THEN b .. (b + f.note - 1) ELSE (b + f.note) .. (b + f.data - 1)

\* A queued message or notification has all of its data and nothing else, though
\* the bytes come from the buffer and from the connection, and the client may go
\* away at any byte.
Intact == \A q \in queued : q.bytes = Data(q.i, q.kind)

Queued(i, k) == \E q \in queued : q.i = i /\ q.kind = k

\* A message is acked exactly if all of it was queued: after an ack the second one of
\* a PostNotify or GroupInvite is queued too, and without the first the second is
\* not.  (An error may come after the first alone: see ErrorMeansNotSent.)
AckMeansAll ==
  \A a \in acks :
    stream[a.i].op # "edit" =>
      (a.ok <=> Queued(a.i, "msg") /\ (Twofold(a.i) => Queued(a.i, "note")))

\* What the protocol's document says of an answer with an error: the message was not
\* delivered.  Refuted: PostNotify and GroupInvite queue two messages, and the second
\* may fail when the first is on its way.
ErrorMeansNotSent == \A a \in acks : ~a.ok => ~Queued(a.i, "msg")

\* Every request that is done with has its answer, unless its kind has none, and
\* none is answered or queued twice, in spite of errors between the two messages
\* of a request and of requests that share a buffer: what _handleMsg is about to
\* answer or queue was not before, nor was anything of a later request.
AnsweredOnce ==
  /\ \A i \in 1..handled :
       (\E a \in acks : a.i = i) <=> (stream[i].op \notin {"tmtprev", "login", "pulse"})
  /\ at \in {"queue", "quenote", "ack", "ackerr"} => \A a \in acks : a.i < Now
  /\ at = "queue" => \A q \in queued : q.i < Now
  /\ at = "quenote" => \A q \in queued : q.i < Now \/ (q.i = Now /\ q.kind = "msg")

\* A slice of the buffer panics the server in two cases only, whatever little of a
\* request's data is there when it is handled: a ping or invitation whose header leaves
\* less than PingMax bytes of the largest one unused, as the code notes, or a request
\* that states more data than an int64 can add to its header.  (recvFile may panic at
\* any read of a post's data.)
LongPing == Cur.op \in {"ping", "invite"} /\ Cur.head + PingMax > MaxHead

NoPanic ==
  proc = "panic" => (at = "ping" /\ LongPing) \/ EndWraps \/ at \in {"note", "data"}

\* The process exits between requests: whatever was queued has been answered, and
\* no PostNotify is left with its message queued and its notification lost.
ExitClean ==
  proc = "exit" => \A q \in queued : \E a \in acks : a.i = q.i

\* If handlers are served where they wait for the rest of the server, Suspend gets the
\* lock, though a handler may be waiting for its client's data.
SuspendEnds == Served => (proc = "suspend" ~> proc \in {"exit", "panic"})
=============================================================================
