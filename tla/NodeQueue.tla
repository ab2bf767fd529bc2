----------------------------- MODULE NodeQueue -----------------------------
(***************************************************************************)
(* The message queue of ONE node (a client device of a user): the store    *)
(* directory qstore/<node>/, the node's RWMutex, the tQueue object with    *)
(* its channels, and the goroutines that meet there:                       *)
(*                                                                         *)
(*  - posters: links of other nodes inside _queueMsg, one per message,     *)
(*    which hard-link a message file into the directory and feed the       *)
(*    queue;                                                               *)
(*  - links: connections of this node, which log in (queueLink), forward   *)
(*    the client's acks, answer requests (ackAsap) and log out (unlink);   *)
(*  - _runElasticChan, the unbounded sorted buffer between both;           *)
(*  - _runQueue, which sends the current message until it is acked.        *)
(*                                                                         *)
(* A message is its queue key, the priority byte followed by the id made   *)
(* by tStore.makeId; keys are distinct and sort.Strings orders them, so a  *)
(* key is a number here.  Everything is lost in a crash but the directory. *)
(***************************************************************************)
EXTENDS Naturals, Sequences

CONSTANTS
  Msg,      \* message keys
  Link,     \* connections of this node's client; reused after they close
  None,     \* no connection, no message
  AckCap,   \* capacity of tQueue.ack  (10 in the code)
  OhiCap,   \* capacity of tQueue.ohi  (100 in the code)
  WireMax,  \* messages a connection takes before the client must read on
  MaxCrash  \* bound on the number of crashes

ASSUME MsgAssumption   == Msg \subseteq Nat
ASSUME NoneAssumption  == None \notin Msg /\ None \notin Link
ASSUME BoundAssumption == /\ AckCap \in Nat \ {0}
                          /\ OhiCap \in Nat \ {0}
                          /\ WireMax \in Nat \ {0}
                          /\ MaxCrash \in Nat

VARIABLES
  dir,      \* messages linked in the node's directory
  volat,    \* directory entries made or removed since the last fsync
  post,     \* where the poster of each message stands
  q,        \* tNode.queue: nil, allocated without channels, complete
  hasConn,  \* tQueue.hasConn: a link uses the queue
  connChan, \* tQueue.connChan: the connection nobody is writing to
  ack,      \* tQueue.ack: acks forwarded by the link
  buf,      \* tQueue.buf: how often the sorted list holds each message
  ohi,      \* tQueue.ohi: number of presence notices waiting
  rq,       \* where _runQueue stands
  cur,      \* _runQueue's aMsgId
  rconn,    \* _runQueue's aConn while it sends
  link,     \* where each link stands
  hand,     \* the connection a link took out of connChan in ackAsap
  wire,     \* messages written to a connection, the client's ack not yet read
  broken,   \* connections that fail: nothing written arrives any more
  acked,    \* history: messages whose ack the client has sent
  crashes   \* number of crashes so far

disk   == <<dir, volat>>
chans  == <<connChan, ack, ohi>>
runq   == <<rq, cur, rconn>>
conns  == <<link, hand, wire, broken>>
vars   == <<disk, post, q, hasConn, chans, buf, runq, conns, acked, crashes>>

-----------------------------------------------------------------------------
(* Program counters and the lock they stand for.                            *)

PostState == {"idle", "locked", "linked", "send", "unlock", "done", "dead"}
RqState   == {"none", "WaitMsg", "WaitConn", "Send", "Sent", "RecvAck",
              "OhiMsg", "OhiConn", "OhiAck"}
LinkState == {"off", "lock", "fill", "cas", "put", "stuck",
              "on", "asap", "unlink", "signal", "clear"}

\* tNode's RWMutex: the posters that hold it for reading ...
Readers == {m \in Msg : post[m] \in {"locked", "linked", "send", "unlock"}}

\* ... and the link that holds it for writing.
Writers == {l \in Link : link[l] = "fill"}

\* The messages in tQueue.buf, and the one at its front.
Buffered    == {m \in Msg : buf[m] > 0}
Front(m)    == m \in Buffered /\ \A n \in Buffered : m <= n

TypeOK ==
  /\ dir \in SUBSET Msg
  /\ volat \in SUBSET Msg
  /\ post \in [Msg -> PostState]
  /\ q \in {"nil", "new", "made"}
  /\ hasConn \in BOOLEAN
  /\ connChan \in Link \cup {None}
  /\ ack \in Seq(Msg) /\ Len(ack) <= AckCap
  /\ buf \in [Msg -> Nat]
  /\ ohi \in 0..OhiCap
  /\ rq \in RqState
  /\ cur \in Msg \cup {None}
  /\ rconn \in Link \cup {None}
  /\ link \in [Link -> LinkState]
  /\ hand \in [Link -> Link \cup {None}]
  /\ wire \in [Link -> Seq(Msg)]
  /\ \A l \in Link : Len(wire[l]) <= WireMax
  /\ broken \in SUBSET Link
  /\ acked \in SUBSET Msg
  /\ crashes \in 0..MaxCrash

-----------------------------------------------------------------------------
\* What a process that has just started holds in memory: sNode.list is empty.
Init ==
  /\ dir = {} /\ volat = {}
  /\ post = [m \in Msg |-> "idle"]
  /\ q = "nil" /\ hasConn = FALSE
  /\ connChan = None /\ ack = <<>> /\ ohi = 0
  /\ buf = [m \in Msg |-> 0]
  /\ rq = "none" /\ cur = None /\ rconn = None
  /\ link = [l \in Link |-> "off"]
  /\ hand = [l \in Link |-> None]
  /\ wire = [l \in Link |-> <<>>]
  /\ broken = {}
  /\ acked = {}
  /\ crashes = 0

-----------------------------------------------------------------------------
(* Posters: the loop body of _queueMsg for this node.                       *)

\* Mutant: the poster does not wait for the link that lists the directory.
PostLock_NoRLock(m) ==
  /\ post[m] = "idle"
  /\ post' = [post EXCEPT ![m] = "locked"]
  /\ UNCHANGED <<disk, q, hasConn, chans, buf, runq, conns, acked, crashes>>

\* getNode and aNd.RLock(); the message file is complete and synced in temp/.
PostLock(m) ==
  /\ post[m] = "idle"
  /\ Writers = {}
  /\ post' = [post EXCEPT ![m] = "locked"]
  /\ UNCHANGED <<disk, q, hasConn, chans, buf, runq, conns, acked, crashes>>

\* putLink: MkdirAll and os.Link.
PutLink(m) ==
  /\ post[m] = "locked"
  /\ dir' = dir \cup {m}
  /\ volat' = volat \cup {m}
  /\ post' = [post EXCEPT ![m] = "linked"]
  /\ UNCHANGED <<q, hasConn, chans, buf, runq, conns, acked, crashes>>

\* Mutant: putLink returns without _syncDirs.
SyncDirs_NoSync(m) ==
  /\ post[m] = "linked"
  /\ post' = [post EXCEPT ![m] = IF q = "nil" THEN "unlock" ELSE "send"]
  /\ UNCHANGED <<disk, q, hasConn, chans, buf, runq, conns, acked, crashes>>

\* putLink: _syncDirs makes every entry of the directory durable; then the
\* test aNd.queue != nil.
SyncDirs(m) ==
  /\ post[m] = "linked"
  /\ volat' = {}
  /\ post' = [post EXCEPT ![m] = IF q = "nil" THEN "unlock" ELSE "send"]
  /\ UNCHANGED <<dir, q, hasConn, chans, buf, runq, conns, acked, crashes>>

\* aNd.queue.in <- aPrioId meets the receive of _runElasticChan, which
\* appends and sorts.
ElasticRecv(m) ==
  /\ post[m] = "send"
  /\ q = "made"
  /\ buf' = [buf EXCEPT ![m] = @ + 1]
  /\ post' = [post EXCEPT ![m] = "unlock"]
  /\ UNCHANGED <<disk, q, hasConn, chans, runq, conns, acked, crashes>>

\* aNd.RUnlock(); _queueMsg goes on and, once it is through with every node,
\* the sender is told that the message is posted.
PostUnlock(m) ==
  /\ post[m] = "unlock"
  /\ post' = [post EXCEPT ![m] = "done"]
  /\ UNCHANGED <<disk, q, hasConn, chans, buf, runq, conns, acked, crashes>>

\* _sendOhi for this node by some link of another user: a node without a
\* queue is skipped, a full channel makes the notice time out.
SendOhi ==
  /\ Writers = {}
  /\ q # "nil"
  /\ ohi < OhiCap
  /\ ohi' = ohi + 1
  /\ UNCHANGED <<disk, post, q, hasConn, connChan, ack, buf, runq, conns,
                 acked, crashes>>

-----------------------------------------------------------------------------
(* Links: queueLink.                                                        *)

LinkGoes(l, from, to) ==
  /\ link[l] = from
  /\ link' = [link EXCEPT ![l] = to]

\* The client connects and logs in; aNd.queue is read without the lock.
Login(l) ==
  /\ LinkGoes(l, "off", IF q = "nil" THEN "lock" ELSE "cas")
  /\ UNCHANGED <<disk, post, q, hasConn, chans, buf, runq, hand, wire, broken,
                 acked, crashes>>

\* Mutant: the queue is made while posters still hold the read lock.
LockNode_NoReaders(l) ==
  /\ Writers = {}
  /\ LinkGoes(l, "lock", IF q = "nil" THEN "fill" ELSE "cas")
  /\ q' = IF q = "nil" THEN "new" ELSE q
  /\ UNCHANGED <<disk, post, hasConn, chans, buf, runq, hand, wire, broken,
                 acked, crashes>>

\* aNd.Lock(), the second look at aNd.queue, and new(tQueue).
LockNode(l) ==
  /\ Readers = {} /\ Writers = {}
  /\ LinkGoes(l, "lock", IF q = "nil" THEN "fill" ELSE "cas")
  /\ q' = IF q = "nil" THEN "new" ELSE q
  /\ UNCHANGED <<disk, post, hasConn, chans, buf, runq, hand, wire, broken,
                 acked, crashes>>

\* The channels, the directory listing, aNd.Unlock() and both goroutines.
FillQueue(l) ==
  /\ LinkGoes(l, "fill", "cas")
  /\ q' = "made"
  /\ connChan' = None /\ ack' = <<>> /\ ohi' = 0
  /\ buf' = [m \in Msg |-> IF m \in dir THEN 1 ELSE 0]
  /\ rq' = "WaitMsg"
  /\ UNCHANGED <<disk, post, hasConn, cur, rconn, hand, wire, broken,
                 acked, crashes>>

\* CompareAndSwapInt32(&hasConn, 0, 1); a link that fails quits with
\* "node already connected".
CasConn(l) ==
  /\ LinkGoes(l, "cas", IF hasConn THEN "off" ELSE "put")
  /\ hasConn' = TRUE
  /\ wire' = [wire EXCEPT ![l] = <<>>]
  /\ broken' = broken \ {l}
  /\ UNCHANGED <<disk, post, q, chans, buf, runq, hand, acked, crashes>>

\* aNd.queue.connChan <- iConn; a send on the nil channel of a queue that
\* another link is still filling in blocks for ever.
PutConn(l) ==
  /\ connChan = None
  /\ LinkGoes(l, "put", IF q = "made" THEN "on" ELSE "stuck")
  /\ connChan' = IF q = "made" THEN l ELSE connChan
  /\ UNCHANGED <<disk, post, q, hasConn, ack, ohi, buf, runq, hand, wire,
                 broken, acked, crashes>>

-----------------------------------------------------------------------------
(* Links: requests and logout.                                              *)

\* Mutant: the send on the ack channel has no limit.
ForwardAck_NoLimit(m) == ack' = Append(ack, m)

\* The forwarding select of the Ack handler gives up after two seconds on a
\* full channel.
ForwardAck(m) ==
  ack' = IF Len(ack) < AckCap THEN Append(ack, m) ELSE ack

\* Handler of Ack: the client acks the first message it has not acked ...
ClientAck(l) ==
  /\ link[l] = "on"
  /\ wire[l] # <<>>
  /\ acked' = acked \cup {Head(wire[l])}
  /\ wire' = [wire EXCEPT ![l] = Tail(@)]
  /\ ForwardAck(Head(wire[l]))
  /\ UNCHANGED <<disk, post, q, hasConn, connChan, ohi, buf, runq, link, hand,
                 broken, crashes>>

\* ... or acks once more what it acked before.
ClientAckAgain(l, m) ==
  /\ link[l] = "on"
  /\ m \in acked
  /\ ForwardAck(m)
  /\ UNCHANGED <<disk, post, q, hasConn, connChan, ohi, buf, runq, conns, acked,
                 crashes>>

\* ackAsap at the end of a request: take the connection, write ...
AckAsapTake(l) ==
  /\ connChan # None
  /\ LinkGoes(l, "on", "asap")
  /\ hand' = [hand EXCEPT ![l] = connChan]
  /\ connChan' = None
  /\ UNCHANGED <<disk, post, q, hasConn, ack, ohi, buf, runq, wire, broken,
                 acked, crashes>>

\* ... and put it back.
AckAsapPut(l) ==
  /\ connChan = None
  /\ LinkGoes(l, "asap", "on")
  /\ connChan' = hand[l]
  /\ hand' = [hand EXCEPT ![l] = None]
  /\ UNCHANGED <<disk, post, q, hasConn, ack, ohi, buf, runq, wire, broken,
                 acked, crashes>>

\* _runLink leaves its loop: quit, protocol error, end of file, timeout.
Hangup(l) ==
  /\ LinkGoes(l, "on", "unlink")
  /\ UNCHANGED <<disk, post, q, hasConn, chans, buf, runq, hand, wire, broken,
                 acked, crashes>>

\* Mutant: unlink does not wait until _runQueue is through with the connection.
UnlinkTake_NoWait(l) ==
  /\ LinkGoes(l, "unlink", "signal")
  /\ connChan' = None
  /\ UNCHANGED <<disk, post, q, hasConn, ack, ohi, buf, runq, hand, wire,
                 broken, acked, crashes>>

\* unlink: <-o.connChan.
UnlinkTake(l) ==
  /\ connChan # None
  /\ LinkGoes(l, "unlink", "signal")
  /\ connChan' = None
  /\ UNCHANGED <<disk, post, q, hasConn, ack, ohi, buf, runq, hand, wire,
                 broken, acked, crashes>>

\* unlink: the non-blocking send on off reaches _runQueue only in its select.
UnlinkSignal(l) ==
  /\ LinkGoes(l, "signal", "clear")
  /\ rq' = IF rq = "RecvAck" THEN "WaitConn" ELSE rq
  /\ UNCHANGED <<disk, post, q, hasConn, chans, buf, cur, rconn, hand, wire,
                 broken, acked, crashes>>

\* unlink: hasConn = 0; then _runLink closes the connection.
UnlinkClear(l) ==
  /\ LinkGoes(l, "clear", "off")
  /\ hasConn' = FALSE
  /\ wire' = [wire EXCEPT ![l] = <<>>]
  /\ broken' = broken \ {l}
  /\ UNCHANGED <<disk, post, q, chans, buf, runq, hand, acked, crashes>>

\* The client goes on reading, but its acks are not read any more.
ClientRead(l) ==
  /\ link[l] = "unlink"
  /\ wire[l] # <<>>
  /\ wire' = [wire EXCEPT ![l] = Tail(@)]
  /\ UNCHANGED <<disk, post, q, hasConn, chans, buf, runq, link, hand, broken,
                 acked, crashes>>

\* The network or the client's machine fails; the server does not know yet.
Break(l) ==
  /\ link[l] \in {"on", "asap", "unlink"}
  /\ l \notin broken
  /\ broken' = broken \cup {l}
  /\ UNCHANGED <<disk, post, q, hasConn, chans, buf, runq, link, hand, wire,
                 acked, crashes>>

-----------------------------------------------------------------------------
(* _runQueue.                                                               *)

\* _waitForMsg: o.out meets the send of _runElasticChan, lowest key first.
NextMsg ==
  /\ rq = "WaitMsg"
  /\ \E m \in Msg : /\ Front(m)
                    /\ cur' = m
                    /\ buf' = [buf EXCEPT ![m] = @ - 1]
  /\ rq' = "WaitConn"
  /\ UNCHANGED <<disk, post, q, hasConn, chans, rconn, conns, acked, crashes>>

\* aConn = <-o.connChan.
TakeConn ==
  /\ rq = "WaitConn"
  /\ connChan # None
  /\ rconn' = connChan
  /\ connChan' = None
  /\ rq' = "Send"
  /\ UNCHANGED <<disk, post, q, hasConn, ack, ohi, buf, cur, conns, acked,
                 crashes>>

\* sendFile writes the whole file and the connection goes back to connChan.
\* A failing connection may accept the bytes and drop them.  (os.Open panics
\* the server when the link is gone: FilePresent.)
SendFile ==
  /\ rq = "Send" /\ connChan = None
  /\ cur \in dir
  /\ \/ /\ Len(wire[rconn]) < WireMax
        /\ rconn \notin broken
        /\ wire' = [wire EXCEPT ![rconn] = Append(@, cur)]
     \/ rconn \in broken /\ UNCHANGED wire
  /\ connChan' = rconn
  /\ rconn' = None
  /\ rq' = "Sent"
  /\ UNCHANGED <<disk, post, q, hasConn, ack, ohi, buf, cur, link, hand,
                 broken, acked, crashes>>

\* Mutant: the connection is not put back after an error.
SendError_KeepConn ==
  /\ rq = "Send" /\ connChan = None
  /\ rconn \in broken
  /\ rconn' = None
  /\ rq' = "WaitConn"
  /\ UNCHANGED <<disk, post, q, hasConn, chans, buf, cur, conns, acked, crashes>>

\* sendFile returns a network error: try again with the same message.
SendError ==
  /\ rq = "Send" /\ connChan = None
  /\ rconn \in broken
  /\ connChan' = rconn
  /\ rconn' = None
  /\ rq' = "WaitConn"
  /\ UNCHANGED <<disk, post, q, hasConn, ack, ohi, buf, cur, conns, acked,
                 crashes>>

\* The timer is made, or a select case is done with: enter select RecvAck.
EnterRecvAck ==
  /\ rq = "Sent"
  /\ rq' = "RecvAck"
  /\ UNCHANGED <<disk, post, q, hasConn, chans, buf, cur, rconn, conns, acked,
                 crashes>>

\* Mutant: the ack's id is not compared with the message's.
RecvAck_AnyAck ==
  /\ rq = "RecvAck"
  /\ ack # <<>>
  /\ ack' = Tail(ack)
  /\ dir' = dir \ {cur}
  /\ volat' = volat \cup {cur}
  /\ rq' = "WaitMsg"
  /\ cur' = None
  /\ UNCHANGED <<post, q, hasConn, connChan, ohi, buf, rconn, conns, acked,
                 crashes>>

\* <-o.ack: another message's ack is dropped, ours removes the link.
RecvAck ==
  /\ rq = "RecvAck"
  /\ ack # <<>>
  /\ ack' = Tail(ack)
  /\ \/ /\ Head(ack) # cur
        /\ rq' = "Sent"
        /\ UNCHANGED <<disk, cur>>
     \/ /\ Head(ack) = cur
        /\ dir' = dir \ {cur}
        /\ volat' = volat \cup {cur}
        /\ rq' = "WaitMsg"
        /\ cur' = None
  /\ UNCHANGED <<post, q, hasConn, connChan, ohi, buf, rconn, conns, acked,
                 crashes>>

\* Mutant: the timeout is logged and the message is not sent again.
AckTimeout_NoResend ==
  /\ rq = "RecvAck"
  /\ rq' = "Sent"
  /\ UNCHANGED <<disk, post, q, hasConn, chans, buf, cur, rconn, conns, acked,
                 crashes>>

\* kQueueAckTimeout: send the message again.
AckTimeout ==
  /\ rq = "RecvAck"
  /\ rq' = "WaitConn"
  /\ UNCHANGED <<disk, post, q, hasConn, chans, buf, cur, rconn, conns, acked,
                 crashes>>

\* Where the three selects that receive from o.ohi go on, with the connection
\* and after it; RecvAck is entered anew through "Sent".
OhiSelect == [WaitMsg |-> "OhiMsg", WaitConn |-> "OhiConn", RecvAck |-> "OhiAck"]
OhiReturn == [OhiMsg |-> "WaitMsg", OhiConn |-> "WaitConn", OhiAck |-> "Sent"]

\* <-o.ohi and _tryOhi: take the connection if it is free, else drop the notice.
TryOhi ==
  /\ rq \in DOMAIN OhiSelect
  /\ ohi > 0
  /\ ohi' = ohi - 1
  /\ IF connChan = None
     THEN rq' = OhiReturn[OhiSelect[rq]] /\ UNCHANGED <<connChan, rconn>>
     ELSE rq' = OhiSelect[rq] /\ rconn' = connChan /\ connChan' = None
  /\ UNCHANGED <<disk, post, q, hasConn, ack, buf, cur, conns, acked, crashes>>

\* _tryOhi has written the notice (or failed to) and returns the connection.
OhiDone ==
  /\ rq \in DOMAIN OhiReturn
  /\ connChan = None
  /\ connChan' = rconn
  /\ rconn' = None
  /\ rq' = OhiReturn[rq]
  /\ UNCHANGED <<disk, post, q, hasConn, ack, ohi, buf, cur, conns, acked,
                 crashes>>

-----------------------------------------------------------------------------
\* The server dies, or the machine does: an entry that was not synced may be
\* there or not.  A poster that had not returned never will.
Crash ==
  /\ crashes < MaxCrash
  /\ crashes' = crashes + 1
  /\ dir' \in {d \in SUBSET Msg : d \ volat = dir \ volat}
  /\ volat' = {}
  /\ post' = [m \in Msg |-> IF post[m] \in {"idle", "done"} THEN post[m]
                                                           ELSE "dead"]
  /\ q' = "nil" /\ hasConn' = FALSE
  /\ connChan' = None /\ ack' = <<>> /\ ohi' = 0
  /\ buf' = [m \in Msg |-> 0]
  /\ rq' = "none" /\ cur' = None /\ rconn' = None
  /\ link' = [l \in Link |-> "off"]
  /\ hand' = [l \in Link |-> None]
  /\ wire' = [l \in Link |-> <<>>]
  /\ broken' = {}
  /\ UNCHANGED acked

-----------------------------------------------------------------------------
PosterStep(m) ==
  PutLink(m) \/ SyncDirs(m) \/ ElasticRecv(m) \/ PostUnlock(m)

\* The steps a link takes by itself once it has begun them.
LinkStep(l) ==
  \/ LockNode(l) \/ FillQueue(l) \/ CasConn(l) \/ PutConn(l)
  \/ AckAsapPut(l) \/ UnlinkSignal(l) \/ UnlinkClear(l)

Next ==
  \/ \E m \in Msg : PostLock(m) \/ PosterStep(m)
  \/ \E l \in Link : \/ Login(l) \/ LinkStep(l)
                     \/ ClientAck(l) \/ AckAsapTake(l)
                     \/ \E m \in Msg : ClientAckAgain(l, m)
                     \/ Hangup(l) \/ UnlinkTake(l) \/ ClientRead(l) \/ Break(l)
  \/ NextMsg \/ TakeConn \/ SendFile \/ SendError
  \/ EnterRecvAck \/ RecvAck \/ AckTimeout \/ TryOhi \/ OhiDone
  \/ SendOhi
  \/ Crash

Spec == Init /\ [][Next]_vars

-----------------------------------------------------------------------------
(* Safety.                                                                  *)

\* Once the poster has returned from _queueMsg (its client is then told that
\* the message is posted), the message stays in the node's directory until
\* the node's client acks it, whatever crashes happen in between.
NoLoss == \A m \in Msg : post[m] = "done" => m \in dir \cup acked

\* The message that _runQueue sends, or waits to send again, still has its
\* file: sendFile cannot fail with the PathError that panics the server.
FilePresent == cur # None => cur \in dir

\* How often a message is scheduled for sending in this process.
Copies(m) == buf[m] + IF cur = m THEN 1 ELSE 0

\* In a node with a queue every stored message is scheduled exactly once:
\* getDir and the senders on queue.in neither miss one nor both bring it.
\* A poster between putLink and its send on queue.in still owes it.
ScheduledOnce ==
  q = "made" =>
    \A m \in Msg : Copies(m) = IF /\ m \in dir
                                  /\ post[m] \notin {"linked", "send"}
                               THEN 1 ELSE 0

\* The links between the compare-and-swap of hasConn and its reset.
Attached == {"put", "stuck", "on", "asap", "unlink", "signal", "clear"}

\* At most one link uses the queue, and while it does its connection is in
\* exactly one pair of hands: connChan, _runQueue or ackAsap.  So nobody
\* writes to a connection that unlink has given up and _runLink closes, and
\* two writers never mix their bytes.
ConnExclusive ==
  /\ \A k, l \in Link : link[k] \in Attached /\ link[l] \in Attached => k = l
  /\ \A l \in Link : link[l] \in {"on", "unlink"} => ((connChan = l) <=> (rconn # l))
  /\ connChan # None => link[connChan] \in {"on", "unlink"}
  /\ rconn # None => link[rconn] \in {"on", "unlink"}
  /\ \A l \in Link : hand[l] = IF link[l] = "asap" THEN l ELSE None

\* The queue implements the abstract mailbox: its directory is the box.
Posted == {m \in Msg : post[m] = "done"}
Box == INSTANCE Mailbox WITH box <- dir, posted <- Posted

\* Every step of the queue is a step of the mailbox or leaves it alone: only
\* stored messages are acked, only acked ones are removed, and a crash takes
\* nothing whose poster was told "posted".
ImplementsMailbox == Box!Spec

-----------------------------------------------------------------------------
(* The inductive invariant behind the safety properties.                    *)

\* The node's RWMutex excludes, tNode.queue is half made only under it, and
\* the goroutines of the queue exist once it is complete.
LockInv ==
  /\ \A k, l \in Writers : k = l
  /\ Writers # {} => Readers = {}
  /\ q = "new" <=> Writers # {}
  /\ q = "nil" => \A l \in Link : link[l] \in {"off", "lock"}
  /\ q = "made" <=> rq # "none"
  /\ \A l \in Link : link[l] \in Attached \ {"put", "stuck"} => q = "made"
  /\ \A m \in Msg : post[m] = "send" => q = "made"

\* _runQueue holds a message and a connection exactly where its code does, and
\* hasConn is set exactly while a link is attached.
ConnInv ==
  /\ ConnExclusive
  /\ rconn # None <=> rq \in {"Send", "OhiMsg", "OhiConn", "OhiAck"}
  /\ hasConn <=> \E l \in Link : link[l] \in Attached

\* Acks come from the client, and what is on the wire came from the directory.
\* What putLink has stored is durable until it is acked: an entry that the
\* next crash may lose is acked or not yet synced by its poster.
StoreInv ==
  /\ \A i \in 1..Len(ack) : ack[i] \in acked
  /\ \A l \in Link : \A i \in 1..Len(wire[l]) : wire[l][i] \in dir \cup acked
  /\ \A m \in Msg :
       /\ post[m] \in {"idle", "locked"} => m \notin dir \cup volat \cup acked
       /\ post[m] = "linked" => m \in dir
       /\ post[m] = "send" => m \in dir \ volat
       /\ post[m] \in {"unlock", "done"} => m \in acked \/ m \in dir \ volat
       /\ m \in volat => m \in dir \cup acked

\* What is scheduled, whether the queue exists or not.
SchedInv ==
  /\ ScheduledOnce
  /\ cur # None <=> rq \in {"WaitConn", "Send", "Sent", "RecvAck",
                           "OhiConn", "OhiAck"}

IndInv == TypeOK /\ LockInv /\ ConnInv /\ StoreInv /\ SchedInv

-----------------------------------------------------------------------------
(* Liveness.  Go schedules every runnable goroutine, serves the goroutines  *)
(* that wait on a channel or a mutex in turn and picks among the ready      *)
(* cases of a select at random, so a goroutine that can proceed again and   *)
(* again does (SF where another one can take what it waits for).  Clients   *)
(* read and ack what arrives, and a connection that has failed is noticed   *)
(* by the read deadline of _runLink.  Nothing makes a client log in, log    *)
(* out, post or request, and nothing makes a connection or the server fail. *)

Fairness ==
  /\ \A m \in Msg : WF_vars(PosterStep(m))
  /\ \A l \in Link : /\ SF_vars(LinkStep(l))
                     /\ SF_vars(UnlinkTake(l))
                     /\ WF_vars(ClientAck(l))
                     /\ WF_vars(Hangup(l) /\ l \in broken)
  /\ SF_vars(NextMsg)
  /\ SF_vars(TakeConn)
  /\ WF_vars(SendFile \/ SendError)
  /\ WF_vars(EnterRecvAck)
  /\ SF_vars(RecvAck)
  /\ SF_vars(AckTimeout)
  /\ WF_vars(OhiDone)

FairSpec == Spec /\ Fairness

\* A client whose link is being closed goes on reading, or goes away some day
\* and TCP reports it.
PeerMoves ==
  \A l \in Link : WF_vars(ClientRead(l) \/ (Break(l) /\ link[l] = "unlink"))

PeerSpec == FairSpec /\ PeerMoves

\* If from some time on the node's client stays connected, and does not repeat
\* old acks for ever (they can keep the ack channel full, and the Ack handler
\* gives up on a full one), every message posted to the node is acked and its
\* link removed: timeouts, resends, stale and dropped acks and presence
\* notices cannot starve a message.
Connected == \E l \in Link : link[l] \in {"on", "asap"} /\ l \notin broken

Delivered ==
  /\ <>[]Connected
  /\ <>[][~ \E l \in Link, m \in Msg : ClientAckAgain(l, m)]_vars
  => \A m \in Msg : (post[m] = "done") ~> (m \notin dir)

\* A link that has left its read loop gets through unlink and closes its
\* connection, and the node can log in again.
LogoutEnds == \A l \in Link : (link[l] = "unlink") ~> (link[l] = "off")

\* A login whose compare-and-swap succeeded, for which the client is told
\* "login ok", hands its connection to the queue; it never sends it to a
\* channel that does not exist and keeps the node's hasConn for ever.
LoginEnds == \A l \in Link : link[l] # "stuck"
=============================================================================
