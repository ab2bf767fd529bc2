-------------------------- MODULE NodeQueueProofs --------------------------
(***************************************************************************)
(* The safety properties of NodeQueue hold for any messages, connections,  *)
(* channel capacities and number of crashes.  IndInv is inductive; each of *)
(* its parts is preserved by every step given the others, and it implies   *)
(* the properties and the refinement of Mailbox.                           *)
(***************************************************************************)
EXTENDS NodeQueue, TLAPS

\* The sequence operations the queue uses, element by element.
LEMMA AppendFacts ==
  ASSUME NEW S, NEW s \in Seq(S), NEW e \in S
  PROVE  /\ Append(s, e) \in Seq(S)
         /\ Len(Append(s, e)) = Len(s) + 1
         /\ \A i \in 1..Len(Append(s, e))
              : Append(s, e)[i] = e \/ (i \in 1..Len(s) /\ Append(s, e)[i] = s[i])
  OBVIOUS

\* The head, the tail and the elements of a nonempty sequence.
LEMMA TailFacts ==
  ASSUME NEW S, NEW s \in Seq(S), s # <<>>
  PROVE  /\ Head(s) \in S
         /\ Len(s) \in Nat \ {0}
         /\ Head(s) = s[1]
         /\ Tail(s) \in Seq(S)
         /\ Len(Tail(s)) = Len(s) - 1
         /\ \A i \in 1..Len(Tail(s)) : i + 1 \in 1..Len(s) /\ Tail(s)[i] = s[i + 1]
  OBVIOUS

\* The empty sequence, the content of a channel that was just made.
LEMMA EmptyFacts ==
  ASSUME NEW S
  PROVE  <<>> \in Seq(S) /\ Len(<<>>) = 0
  OBVIOUS
\* Every step keeps every variable in its type: no action exceeds the capacity
\* of the ack and ohi channels or of a connection.
LEMMA TypeStep == TypeOK /\ [Next]_vars => TypeOK'
<1> SUFFICES ASSUME TypeOK, [Next]_vars PROVE TypeOK'
  OBVIOUS
<1> USE DEF TypeOK, PostState, RqState, LinkState,
           disk, chans, runq, conns
<1>1. ASSUME NEW m \in Msg, PostLock(m) PROVE TypeOK'
  BY <1>1 DEF PostLock
<1>2. ASSUME NEW m \in Msg, PutLink(m) PROVE TypeOK'
  BY <1>2 DEF PutLink
<1>3. ASSUME NEW m \in Msg, SyncDirs(m) PROVE TypeOK'
  BY <1>3 DEF SyncDirs
<1>4. ASSUME NEW m \in Msg, ElasticRecv(m) PROVE TypeOK'
  BY <1>4 DEF ElasticRecv
<1>5. ASSUME NEW m \in Msg, PostUnlock(m) PROVE TypeOK'
  BY <1>5 DEF PostUnlock
<1>6. ASSUME NEW l \in Link, Login(l) PROVE TypeOK'
  BY <1>6 DEF Login, LinkGoes
<1>7. ASSUME NEW l \in Link, LockNode(l) PROVE TypeOK'
  BY <1>7 DEF LockNode, LinkGoes
<1>8. ASSUME NEW l \in Link, FillQueue(l) PROVE TypeOK'
  <2>1. ack' \in Seq(Msg) /\ Len(ack') <= AckCap
    BY <1>8, EmptyFacts, BoundAssumption DEF FillQueue
  <2> QED
    BY <1>8, <2>1, BoundAssumption DEF FillQueue, LinkGoes
<1>9. ASSUME NEW l \in Link, CasConn(l) PROVE TypeOK'
  <2>1. wire' \in [Link -> Seq(Msg)] /\ \A k \in Link : Len(wire'[k]) <= WireMax
    BY <1>9, EmptyFacts, BoundAssumption DEF CasConn
  <2> QED
    BY <1>9, <2>1 DEF CasConn, LinkGoes
<1>10. ASSUME NEW l \in Link, PutConn(l) PROVE TypeOK'
  BY <1>10 DEF PutConn, LinkGoes
<1>11. ASSUME NEW l \in Link, ClientAck(l) PROVE TypeOK'
  <2>1. Head(wire[l]) \in Msg /\ Tail(wire[l]) \in Seq(Msg)
          /\ Len(Tail(wire[l])) = Len(wire[l]) - 1 /\ Len(wire[l]) \in Nat
    BY <1>11, TailFacts DEF ClientAck
  <2>2. ack' \in Seq(Msg) /\ Len(ack') <= AckCap
    BY <1>11, <2>1, AppendFacts, BoundAssumption DEF ClientAck, ForwardAck
  <2>3. wire' \in [Link -> Seq(Msg)] /\ \A k \in Link : Len(wire'[k]) <= WireMax
    BY <1>11, <2>1, BoundAssumption DEF ClientAck
  <2> QED
    BY <1>11, <2>1, <2>2, <2>3 DEF ClientAck
<1>12. ASSUME NEW l \in Link, AckAsapTake(l) PROVE TypeOK'
  BY <1>12 DEF AckAsapTake, LinkGoes
<1>13. ASSUME NEW l \in Link, AckAsapPut(l) PROVE TypeOK'
  BY <1>13 DEF AckAsapPut, LinkGoes
<1>14. ASSUME NEW l \in Link, Hangup(l) PROVE TypeOK'
  BY <1>14 DEF Hangup, LinkGoes
<1>15. ASSUME NEW l \in Link, UnlinkTake(l) PROVE TypeOK'
  BY <1>15 DEF UnlinkTake, LinkGoes
<1>16. ASSUME NEW l \in Link, UnlinkSignal(l) PROVE TypeOK'
  BY <1>16 DEF UnlinkSignal, LinkGoes
<1>17. ASSUME NEW l \in Link, UnlinkClear(l) PROVE TypeOK'
  <2>1. wire' \in [Link -> Seq(Msg)] /\ \A k \in Link : Len(wire'[k]) <= WireMax
    BY <1>17, EmptyFacts, BoundAssumption DEF UnlinkClear
  <2> QED
    BY <1>17, <2>1 DEF UnlinkClear, LinkGoes
<1>18. ASSUME NEW l \in Link, ClientRead(l) PROVE TypeOK'
  <2>1. Tail(wire[l]) \in Seq(Msg) /\ Len(Tail(wire[l])) = Len(wire[l]) - 1
          /\ Len(wire[l]) \in Nat
    BY <1>18, TailFacts DEF ClientRead
  <2>2. wire' \in [Link -> Seq(Msg)] /\ \A k \in Link : Len(wire'[k]) <= WireMax
    BY <1>18, <2>1, BoundAssumption DEF ClientRead
  <2> QED
    BY <1>18, <2>2 DEF ClientRead
<1>19. ASSUME NEW l \in Link, Break(l) PROVE TypeOK'
  BY <1>19 DEF Break
<1>20. ASSUME NEW l \in Link, NEW m \in Msg, ClientAckAgain(l, m) PROVE TypeOK'
  <2>1. ack' \in Seq(Msg) /\ Len(ack') <= AckCap
    BY <1>20, AppendFacts, BoundAssumption DEF ClientAckAgain, ForwardAck
  <2> QED
    BY <1>20, <2>1 DEF ClientAckAgain
<1>21. ASSUME NextMsg PROVE TypeOK'
  BY <1>21 DEF NextMsg, Front, Buffered
<1>22. ASSUME TakeConn PROVE TypeOK'
  BY <1>22 DEF TakeConn
<1>23. ASSUME SendFile PROVE TypeOK'
  <2>1. wire' \in [Link -> Seq(Msg)] /\ \A k \in Link : Len(wire'[k]) <= WireMax
    <3>1. CASE UNCHANGED wire
      BY <3>1
    <3>2. CASE /\ Len(wire[rconn]) < WireMax
               /\ wire' = [wire EXCEPT ![rconn] = Append(@, cur)]
      <4>1. cur \in Msg
        BY <1>23 DEF SendFile
      <4>2. CASE rconn \in Link
        <5>1. Append(wire[rconn], cur) \in Seq(Msg)
                /\ Len(Append(wire[rconn], cur)) = Len(wire[rconn]) + 1
                /\ Len(wire[rconn]) \in Nat
          BY <4>1, <4>2, AppendFacts
        <5> QED
          BY <3>2, <4>2, <5>1, BoundAssumption
      <4>3. CASE rconn \notin Link
        BY <3>2, <4>3
      <4> QED
        BY <4>2, <4>3
    <3> QED
      BY <1>23, <3>1, <3>2 DEF SendFile
  <2> QED
    BY <1>23, <2>1 DEF SendFile
<1>24. ASSUME SendError PROVE TypeOK'
  BY <1>24 DEF SendError
<1>25. ASSUME EnterRecvAck PROVE TypeOK'
  BY <1>25 DEF EnterRecvAck
<1>26. ASSUME RecvAck PROVE TypeOK'
  <2>1. ack' \in Seq(Msg) /\ Len(ack') <= AckCap
    BY <1>26, TailFacts, BoundAssumption DEF RecvAck
  <2> QED
    BY <1>26, <2>1 DEF RecvAck
<1>27. ASSUME AckTimeout PROVE TypeOK'
  BY <1>27 DEF AckTimeout
<1>28. ASSUME TryOhi PROVE TypeOK'
  BY <1>28, BoundAssumption DEF TryOhi, OhiSelect, OhiReturn
<1>29. ASSUME OhiDone PROVE TypeOK'
  BY <1>29 DEF OhiDone, OhiReturn
<1>30. ASSUME SendOhi PROVE TypeOK'
  BY <1>30, BoundAssumption DEF SendOhi
<1>31. ASSUME Crash PROVE TypeOK'
  <2>1. ack' \in Seq(Msg) /\ Len(ack') <= AckCap
    BY <1>31, EmptyFacts, BoundAssumption DEF Crash
  <2>2. wire' \in [Link -> Seq(Msg)] /\ \A k \in Link : Len(wire'[k]) <= WireMax
    BY <1>31, EmptyFacts, BoundAssumption DEF Crash
  <2>3. post' \in [Msg -> PostState] /\ buf' \in [Msg -> Nat]
    BY <1>31 DEF Crash
  <2>4. link' \in [Link -> LinkState] /\ hand' \in [Link -> Link \cup {None}]
    BY <1>31 DEF Crash
  <2>5. dir' \in SUBSET Msg /\ crashes' \in 0..MaxCrash /\ ohi' \in 0..OhiCap
    BY <1>31, BoundAssumption DEF Crash
  <2> QED
    BY <1>31, <2>1, <2>2, <2>3, <2>4, <2>5 DEF Crash
<1>32. ASSUME UNCHANGED vars PROVE TypeOK'
  BY <1>32 DEF vars
<1> QED
  BY <1>1, <1>2, <1>3, <1>4, <1>5, <1>6, <1>7, <1>8, <1>9,
     <1>10, <1>11, <1>12, <1>13, <1>14, <1>15, <1>16, <1>17, <1>18,
     <1>19, <1>20, <1>21, <1>22, <1>23, <1>24, <1>25, <1>26, <1>27,
     <1>28, <1>29, <1>30, <1>31, <1>32
     DEF Next, PosterStep, LinkStep

\* The RWMutex of tNode orders getDir and new(tQueue) against the posters.
LEMMA LockStep == TypeOK /\ LockInv /\ [Next]_vars => LockInv'
<1> SUFFICES ASSUME TypeOK, LockInv, [Next]_vars PROVE LockInv'
  OBVIOUS
<1> USE DEF TypeOK, LockInv, Readers, Writers, Attached,
           PostState, RqState, LinkState, disk, chans, runq, conns
<1>1. ASSUME NEW m \in Msg, PostLock(m) PROVE LockInv'
  BY <1>1 DEF PostLock
<1>2. ASSUME NEW m \in Msg, PutLink(m) PROVE LockInv'
  BY <1>2 DEF PutLink
<1>3. ASSUME NEW m \in Msg, SyncDirs(m) PROVE LockInv'
  BY <1>3 DEF SyncDirs
<1>4. ASSUME NEW m \in Msg, ElasticRecv(m) PROVE LockInv'
  BY <1>4 DEF ElasticRecv
<1>5. ASSUME NEW m \in Msg, PostUnlock(m) PROVE LockInv'
  BY <1>5 DEF PostUnlock
<1>6. ASSUME NEW l \in Link, Login(l) PROVE LockInv'
  BY <1>6 DEF Login, LinkGoes
<1>7. ASSUME NEW l \in Link, LockNode(l) PROVE LockInv'
  BY <1>7 DEF LockNode, LinkGoes
<1>8. ASSUME NEW l \in Link, FillQueue(l) PROVE LockInv'
  BY <1>8 DEF FillQueue, LinkGoes
<1>9. ASSUME NEW l \in Link, CasConn(l) PROVE LockInv'
  BY <1>9 DEF CasConn, LinkGoes
<1>10. ASSUME NEW l \in Link, PutConn(l) PROVE LockInv'
  BY <1>10 DEF PutConn, LinkGoes
<1>11. ASSUME NEW l \in Link, ClientAck(l) PROVE LockInv'
  BY <1>11 DEF ClientAck, ForwardAck
<1>12. ASSUME NEW l \in Link, AckAsapTake(l) PROVE LockInv'
  BY <1>12 DEF AckAsapTake, LinkGoes
<1>13. ASSUME NEW l \in Link, AckAsapPut(l) PROVE LockInv'
  BY <1>13 DEF AckAsapPut, LinkGoes
<1>14. ASSUME NEW l \in Link, Hangup(l) PROVE LockInv'
  BY <1>14 DEF Hangup, LinkGoes
<1>15. ASSUME NEW l \in Link, UnlinkTake(l) PROVE LockInv'
  BY <1>15 DEF UnlinkTake, LinkGoes
<1>16. ASSUME NEW l \in Link, UnlinkSignal(l) PROVE LockInv'
  BY <1>16 DEF UnlinkSignal, LinkGoes
<1>17. ASSUME NEW l \in Link, UnlinkClear(l) PROVE LockInv'
  BY <1>17 DEF UnlinkClear, LinkGoes
<1>18. ASSUME NEW l \in Link, ClientRead(l) PROVE LockInv'
  BY <1>18 DEF ClientRead
<1>19. ASSUME NEW l \in Link, Break(l) PROVE LockInv'
  BY <1>19 DEF Break
<1>20. ASSUME NEW l \in Link, NEW m \in Msg, ClientAckAgain(l, m) PROVE LockInv'
  BY <1>20 DEF ClientAckAgain, ForwardAck
<1>21. ASSUME NextMsg PROVE LockInv'
  BY <1>21 DEF NextMsg, Front, Buffered
<1>22. ASSUME TakeConn PROVE LockInv'
  BY <1>22 DEF TakeConn
<1>23. ASSUME SendFile PROVE LockInv'
  BY <1>23 DEF SendFile
<1>24. ASSUME SendError PROVE LockInv'
  BY <1>24 DEF SendError
<1>25. ASSUME EnterRecvAck PROVE LockInv'
  BY <1>25 DEF EnterRecvAck
<1>26. ASSUME RecvAck PROVE LockInv'
  BY <1>26 DEF RecvAck
<1>27. ASSUME AckTimeout PROVE LockInv'
  BY <1>27 DEF AckTimeout
<1>28. ASSUME TryOhi PROVE LockInv'
  BY <1>28 DEF TryOhi, OhiSelect, OhiReturn
<1>29. ASSUME OhiDone PROVE LockInv'
  BY <1>29 DEF OhiDone, OhiReturn
<1>30. ASSUME SendOhi PROVE LockInv'
  BY <1>30 DEF SendOhi
<1>31. ASSUME Crash PROVE LockInv'
  BY <1>31 DEF Crash
<1>32. ASSUME UNCHANGED vars PROVE LockInv'
  BY <1>32 DEF vars
<1> QED
  BY <1>1, <1>2, <1>3, <1>4, <1>5, <1>6, <1>7, <1>8, <1>9,
     <1>10, <1>11, <1>12, <1>13, <1>14, <1>15, <1>16, <1>17, <1>18,
     <1>19, <1>20, <1>21, <1>22, <1>23, <1>24, <1>25, <1>26, <1>27,
     <1>28, <1>29, <1>30, <1>31, <1>32
     DEF Next, PosterStep, LinkStep

\* The connection is passed from hand to hand, never duplicated or dropped.
LEMMA ConnStep == TypeOK /\ LockInv /\ ConnInv /\ [Next]_vars => ConnInv'
<1> SUFFICES ASSUME TypeOK, LockInv, ConnInv, [Next]_vars PROVE ConnInv'
  OBVIOUS
<1> USE DEF TypeOK, ConnInv, ConnExclusive, Attached, PostState,
           RqState, LinkState, disk, chans, runq, conns
<1>1. ASSUME NEW m \in Msg, PostLock(m) PROVE ConnInv'
  BY <1>1 DEF PostLock
<1>2. ASSUME NEW m \in Msg, PutLink(m) PROVE ConnInv'
  BY <1>2 DEF PutLink
<1>3. ASSUME NEW m \in Msg, SyncDirs(m) PROVE ConnInv'
  BY <1>3 DEF SyncDirs
<1>4. ASSUME NEW m \in Msg, ElasticRecv(m) PROVE ConnInv'
  BY <1>4 DEF ElasticRecv
<1>5. ASSUME NEW m \in Msg, PostUnlock(m) PROVE ConnInv'
  BY <1>5 DEF PostUnlock
<1>6. ASSUME NEW l \in Link, Login(l) PROVE ConnInv'
  BY <1>6 DEF Login, LinkGoes
<1>7. ASSUME NEW l \in Link, LockNode(l) PROVE ConnInv'
  BY <1>7 DEF LockNode, LinkGoes
<1>8. ASSUME NEW l \in Link, FillQueue(l) PROVE ConnInv'
  <2>1. q = "new" /\ rconn = None
    BY <1>8 DEF FillQueue, LinkGoes, LockInv, Writers
  <2>2. \A k \in Link : link[k] \notin Attached \ {"put", "stuck"}
    BY <2>1 DEF LockInv
  <2> QED
    BY <1>8, <2>1, <2>2, NoneAssumption DEF FillQueue, LinkGoes
<1>9. ASSUME NEW l \in Link, CasConn(l) PROVE ConnInv'
  BY <1>9 DEF CasConn, LinkGoes
<1>10. ASSUME NEW l \in Link, PutConn(l) PROVE ConnInv'
  BY <1>10, NoneAssumption DEF PutConn, LinkGoes
<1>11. ASSUME NEW l \in Link, ClientAck(l) PROVE ConnInv'
  BY <1>11 DEF ClientAck, ForwardAck
<1>12. ASSUME NEW l \in Link, AckAsapTake(l) PROVE ConnInv'
  BY <1>12 DEF AckAsapTake, LinkGoes
<1>13. ASSUME NEW l \in Link, AckAsapPut(l) PROVE ConnInv'
  BY <1>13, NoneAssumption DEF AckAsapPut, LinkGoes
<1>14. ASSUME NEW l \in Link, Hangup(l) PROVE ConnInv'
  BY <1>14 DEF Hangup, LinkGoes
<1>15. ASSUME NEW l \in Link, UnlinkTake(l) PROVE ConnInv'
  BY <1>15 DEF UnlinkTake, LinkGoes
<1>16. ASSUME NEW l \in Link, UnlinkSignal(l) PROVE ConnInv'
  BY <1>16 DEF UnlinkSignal, LinkGoes
<1>17. ASSUME NEW l \in Link, UnlinkClear(l) PROVE ConnInv'
  BY <1>17 DEF UnlinkClear, LinkGoes
<1>18. ASSUME NEW l \in Link, ClientRead(l) PROVE ConnInv'
  BY <1>18 DEF ClientRead
<1>19. ASSUME NEW l \in Link, Break(l) PROVE ConnInv'
  BY <1>19 DEF Break
<1>20. ASSUME NEW l \in Link, NEW m \in Msg, ClientAckAgain(l, m) PROVE ConnInv'
  BY <1>20 DEF ClientAckAgain, ForwardAck
<1>21. ASSUME NextMsg PROVE ConnInv'
  BY <1>21 DEF NextMsg, Front, Buffered
<1>22. ASSUME TakeConn PROVE ConnInv'
  BY <1>22 DEF TakeConn
<1>23. ASSUME SendFile PROVE ConnInv'
  BY <1>23 DEF SendFile
<1>24. ASSUME SendError PROVE ConnInv'
  BY <1>24 DEF SendError
<1>25. ASSUME EnterRecvAck PROVE ConnInv'
  BY <1>25 DEF EnterRecvAck
<1>26. ASSUME RecvAck PROVE ConnInv'
  BY <1>26 DEF RecvAck
<1>27. ASSUME AckTimeout PROVE ConnInv'
  BY <1>27 DEF AckTimeout
<1>28. ASSUME TryOhi PROVE ConnInv'
  BY <1>28 DEF TryOhi, OhiSelect, OhiReturn
<1>29. ASSUME OhiDone PROVE ConnInv'
  BY <1>29 DEF OhiDone, OhiReturn
<1>30. ASSUME SendOhi PROVE ConnInv'
  BY <1>30 DEF SendOhi
<1>31. ASSUME Crash PROVE ConnInv'
  BY <1>31 DEF Crash
<1>32. ASSUME UNCHANGED vars PROVE ConnInv'
  BY <1>32 DEF vars
<1> QED
  BY <1>1, <1>2, <1>3, <1>4, <1>5, <1>6, <1>7, <1>8, <1>9,
     <1>10, <1>11, <1>12, <1>13, <1>14, <1>15, <1>16, <1>17, <1>18,
     <1>19, <1>20, <1>21, <1>22, <1>23, <1>24, <1>25, <1>26, <1>27,
     <1>28, <1>29, <1>30, <1>31, <1>32
     DEF Next, PosterStep, LinkStep

\* What is stored stays stored: only rmLink removes an entry, only for an ack
\* that the client sent, and no entry is removed while its poster still owes it
\* to the queue.
LEMMA StoreStep == TypeOK /\ LockInv /\ SchedInv /\ StoreInv /\ [Next]_vars => StoreInv'
<1> SUFFICES ASSUME TypeOK, LockInv, SchedInv, StoreInv, [Next]_vars PROVE StoreInv'
  OBVIOUS
<1> USE DEF TypeOK, StoreInv, PostState, RqState, LinkState,
           disk, chans, runq, conns
<1>1. ASSUME NEW m \in Msg, PostLock(m) PROVE StoreInv'
  BY <1>1 DEF PostLock
<1>2. ASSUME NEW m \in Msg, PutLink(m) PROVE StoreInv'
  BY <1>2 DEF PutLink
<1>3. ASSUME NEW m \in Msg, SyncDirs(m) PROVE StoreInv'
  BY <1>3 DEF SyncDirs
<1>4. ASSUME NEW m \in Msg, ElasticRecv(m) PROVE StoreInv'
  BY <1>4 DEF ElasticRecv
<1>5. ASSUME NEW m \in Msg, PostUnlock(m) PROVE StoreInv'
  BY <1>5 DEF PostUnlock
<1>6. ASSUME NEW l \in Link, Login(l) PROVE StoreInv'
  BY <1>6 DEF Login, LinkGoes
<1>7. ASSUME NEW l \in Link, LockNode(l) PROVE StoreInv'
  BY <1>7 DEF LockNode, LinkGoes
<1>8. ASSUME NEW l \in Link, FillQueue(l) PROVE StoreInv'
  BY <1>8 DEF FillQueue, LinkGoes
<1>9. ASSUME NEW l \in Link, CasConn(l) PROVE StoreInv'
  BY <1>9 DEF CasConn, LinkGoes
<1>10. ASSUME NEW l \in Link, PutConn(l) PROVE StoreInv'
  BY <1>10 DEF PutConn, LinkGoes
<1>11. ASSUME NEW l \in Link, ClientAck(l) PROVE StoreInv'
  <2> DEFINE m == Head(wire[l])
  <2>1. m \in Msg /\ m \in dir \cup acked /\ acked' = acked \cup {m}
    BY <1>11, TailFacts DEF ClientAck
  <2>2. \A i \in 1..Len(ack') : ack'[i] \in acked'
    BY <1>11, <2>1, AppendFacts, SMTT(30) DEF ClientAck, ForwardAck
  <2>3. \A k \in Link : \A i \in 1..Len(wire'[k]) : wire'[k][i] \in dir' \cup acked'
    <3>1. ASSUME NEW k \in Link, NEW i \in 1..Len(wire'[k])
          PROVE wire'[k][i] \in dir' \cup acked'
      <4>1. CASE k = l
        BY <1>11, <2>1, <3>1, <4>1, TailFacts, SMTT(30) DEF ClientAck
      <4>2. CASE k # l
        BY <1>11, <2>1, <3>1, <4>2 DEF ClientAck
      <4> QED
        BY <4>1, <4>2
    <3> QED
      BY <3>1
  <2> QED
    BY <1>11, <2>1, <2>2, <2>3 DEF ClientAck
<1>12. ASSUME NEW l \in Link, AckAsapTake(l) PROVE StoreInv'
  BY <1>12 DEF AckAsapTake, LinkGoes
<1>13. ASSUME NEW l \in Link, AckAsapPut(l) PROVE StoreInv'
  BY <1>13 DEF AckAsapPut, LinkGoes
<1>14. ASSUME NEW l \in Link, Hangup(l) PROVE StoreInv'
  BY <1>14 DEF Hangup, LinkGoes
<1>15. ASSUME NEW l \in Link, UnlinkTake(l) PROVE StoreInv'
  BY <1>15 DEF UnlinkTake, LinkGoes
<1>16. ASSUME NEW l \in Link, UnlinkSignal(l) PROVE StoreInv'
  BY <1>16 DEF UnlinkSignal, LinkGoes
<1>17. ASSUME NEW l \in Link, UnlinkClear(l) PROVE StoreInv'
  BY <1>17 DEF UnlinkClear, LinkGoes
<1>18. ASSUME NEW l \in Link, ClientRead(l) PROVE StoreInv'
  <2>1. \A k \in Link : \A i \in 1..Len(wire'[k]) : wire'[k][i] \in dir \cup acked
    <3>1. ASSUME NEW k \in Link, NEW i \in 1..Len(wire'[k])
          PROVE wire'[k][i] \in dir \cup acked
      <4>1. CASE k = l
        <5>1. wire'[l] = Tail(wire[l]) /\ wire[l] # <<>> /\ UNCHANGED <<dir, acked>>
          BY <1>18 DEF ClientRead
        <5>2. wire[l] \in Seq(Msg)
          OBVIOUS
        <5>3. i \in 1..Len(Tail(wire[l]))
          BY <3>1, <4>1, <5>1
        <5>4. wire'[k][i] = Tail(wire[l])[i]
          BY <4>1, <5>1
        <5> HIDE DEF StoreInv, TypeOK
        <5>5. \A j \in 1..Len(wire[l]) : wire[l][j] \in dir \cup acked
          BY DEF StoreInv
        <5> QED
          BY <5>1, <5>2, <5>3, <5>4, <5>5, TailFacts
      <4>2. CASE k # l
        BY <1>18, <3>1, <4>2 DEF ClientRead
      <4> QED
        BY <4>1, <4>2
    <3> QED
      BY <3>1
  <2> QED
    BY <1>18, <2>1 DEF ClientRead
<1>19. ASSUME NEW l \in Link, Break(l) PROVE StoreInv'
  BY <1>19 DEF Break
<1>20. ASSUME NEW l \in Link, NEW m \in Msg, ClientAckAgain(l, m) PROVE StoreInv'
  <2>1. UNCHANGED <<dir, volat, post, wire, acked>> /\ m \in acked /\ ForwardAck(m)
    BY <1>20 DEF ClientAckAgain
  <2>2. \A i \in 1..Len(ack') : ack'[i] \in acked
    <3>1. CASE ack' = ack
      BY <3>1
    <3>2. CASE ack' = Append(ack, m)
      BY <2>1, <3>2
    <3> QED
      BY <2>1, <3>1, <3>2 DEF ForwardAck
  <2> QED
    BY <2>1, <2>2
<1>21. ASSUME NextMsg PROVE StoreInv'
  BY <1>21 DEF NextMsg, Front, Buffered
<1>22. ASSUME TakeConn PROVE StoreInv'
  BY <1>22 DEF TakeConn
<1>23. ASSUME SendFile PROVE StoreInv'
  <2>1. \A k \in Link : \A i \in 1..Len(wire'[k]) : wire'[k][i] \in dir \cup acked
    <3>1. ASSUME NEW k \in Link, NEW i \in 1..Len(wire'[k])
          PROVE wire'[k][i] \in dir \cup acked
      <4>1. CASE wire'[k] = wire[k]
        BY <3>1, <4>1
      <4>2. CASE k = rconn /\ wire'[k] = Append(wire[k], cur)
        BY <1>23, <3>1, <4>2, AppendFacts DEF SendFile
      <4> QED
        BY <1>23, <4>1, <4>2, SMTT(30) DEF SendFile
    <3> QED
      BY <3>1
  <2> QED
    BY <1>23, <2>1 DEF SendFile
<1>24. ASSUME SendError PROVE StoreInv'
  BY <1>24 DEF SendError
<1>25. ASSUME EnterRecvAck PROVE StoreInv'
  BY <1>25 DEF EnterRecvAck
<1>26. ASSUME RecvAck PROVE StoreInv'
  <2>1. Head(ack) \in acked /\ \A i \in 1..Len(ack') : ack'[i] \in acked
    BY <1>26, TailFacts DEF RecvAck
  <2>2. CASE Head(ack) # cur
    BY <1>26, <2>1, <2>2 DEF RecvAck
  <2>3. CASE Head(ack) = cur
    <3>1. cur \in Msg /\ post[cur] \notin {"linked", "send"}
      BY <1>26, <2>1, <2>3, NoneAssumption DEF RecvAck, SchedInv,
           ScheduledOnce, Copies, LockInv
    <3> QED
      BY <1>26, <2>1, <2>3, <3>1 DEF RecvAck
  <2> QED
    BY <2>2, <2>3
<1>27. ASSUME AckTimeout PROVE StoreInv'
  BY <1>27 DEF AckTimeout
<1>28. ASSUME TryOhi PROVE StoreInv'
  BY <1>28 DEF TryOhi, OhiSelect, OhiReturn
<1>29. ASSUME OhiDone PROVE StoreInv'
  BY <1>29 DEF OhiDone, OhiReturn
<1>30. ASSUME SendOhi PROVE StoreInv'
  BY <1>30 DEF SendOhi
<1>31. ASSUME Crash PROVE StoreInv'
  BY <1>31 DEF Crash
<1>32. ASSUME UNCHANGED vars PROVE StoreInv'
  BY <1>32 DEF vars
<1> QED
  BY <1>1, <1>2, <1>3, <1>4, <1>5, <1>6, <1>7, <1>8, <1>9,
     <1>10, <1>11, <1>12, <1>13, <1>14, <1>15, <1>16, <1>17, <1>18,
     <1>19, <1>20, <1>21, <1>22, <1>23, <1>24, <1>25, <1>26, <1>27,
     <1>28, <1>29, <1>30, <1>31, <1>32
     DEF Next, PosterStep, LinkStep

\* Each stored message is scheduled once: getDir runs while no poster is between
\* its link and its send, and every later poster finds the queue.
LEMMA SchedStep == TypeOK /\ LockInv /\ StoreInv /\ SchedInv /\ [Next]_vars => SchedInv'
<1> SUFFICES ASSUME TypeOK, LockInv, StoreInv, SchedInv, [Next]_vars PROVE SchedInv'
  OBVIOUS
<1> USE DEF TypeOK, LockInv, SchedInv, ScheduledOnce, Copies,
           PostState, RqState, LinkState, disk, chans, runq, conns
<1>1. ASSUME NEW m \in Msg, PostLock(m) PROVE SchedInv'
  BY <1>1 DEF PostLock
<1>2. ASSUME NEW m \in Msg, PutLink(m) PROVE SchedInv'
  BY <1>2, NoneAssumption, MsgAssumption DEF PutLink, StoreInv
<1>3. ASSUME NEW m \in Msg, SyncDirs(m) PROVE SchedInv'
  BY <1>3 DEF SyncDirs
<1>4. ASSUME NEW m \in Msg, ElasticRecv(m) PROVE SchedInv'
  BY <1>4, NoneAssumption, MsgAssumption DEF ElasticRecv, StoreInv
<1>5. ASSUME NEW m \in Msg, PostUnlock(m) PROVE SchedInv'
  BY <1>5 DEF PostUnlock
<1>6. ASSUME NEW l \in Link, Login(l) PROVE SchedInv'
  BY <1>6 DEF Login, LinkGoes
<1>7. ASSUME NEW l \in Link, LockNode(l) PROVE SchedInv'
  BY <1>7 DEF LockNode, LinkGoes
<1>8. ASSUME NEW l \in Link, FillQueue(l) PROVE SchedInv'
  <2>1. q = "new" /\ cur = None /\ Readers = {}
    BY <1>8 DEF FillQueue, LinkGoes, Writers
  <2>2. \A m \in Msg : post[m] \notin {"linked", "send"}
    BY <2>1 DEF Readers
  <2> QED
    BY <1>8, <2>1, <2>2, NoneAssumption, MsgAssumption DEF FillQueue, LinkGoes
<1>9. ASSUME NEW l \in Link, CasConn(l) PROVE SchedInv'
  BY <1>9 DEF CasConn, LinkGoes
<1>10. ASSUME NEW l \in Link, PutConn(l) PROVE SchedInv'
  BY <1>10 DEF PutConn, LinkGoes
<1>11. ASSUME NEW l \in Link, ClientAck(l) PROVE SchedInv'
  BY <1>11 DEF ClientAck, ForwardAck
<1>12. ASSUME NEW l \in Link, AckAsapTake(l) PROVE SchedInv'
  BY <1>12 DEF AckAsapTake, LinkGoes
<1>13. ASSUME NEW l \in Link, AckAsapPut(l) PROVE SchedInv'
  BY <1>13 DEF AckAsapPut, LinkGoes
<1>14. ASSUME NEW l \in Link, Hangup(l) PROVE SchedInv'
  BY <1>14 DEF Hangup, LinkGoes
<1>15. ASSUME NEW l \in Link, UnlinkTake(l) PROVE SchedInv'
  BY <1>15 DEF UnlinkTake, LinkGoes
<1>16. ASSUME NEW l \in Link, UnlinkSignal(l) PROVE SchedInv'
  BY <1>16 DEF UnlinkSignal, LinkGoes
<1>17. ASSUME NEW l \in Link, UnlinkClear(l) PROVE SchedInv'
  BY <1>17 DEF UnlinkClear, LinkGoes
<1>18. ASSUME NEW l \in Link, ClientRead(l) PROVE SchedInv'
  BY <1>18 DEF ClientRead
<1>19. ASSUME NEW l \in Link, Break(l) PROVE SchedInv'
  BY <1>19 DEF Break
<1>20. ASSUME NEW l \in Link, NEW m \in Msg, ClientAckAgain(l, m) PROVE SchedInv'
  BY <1>20 DEF ClientAckAgain, ForwardAck
<1>21. ASSUME NextMsg PROVE SchedInv'
  BY <1>21, NoneAssumption, MsgAssumption DEF NextMsg, Front, Buffered
<1>22. ASSUME TakeConn PROVE SchedInv'
  BY <1>22 DEF TakeConn
<1>23. ASSUME SendFile PROVE SchedInv'
  BY <1>23 DEF SendFile
<1>24. ASSUME SendError PROVE SchedInv'
  BY <1>24 DEF SendError
<1>25. ASSUME EnterRecvAck PROVE SchedInv'
  BY <1>25 DEF EnterRecvAck
<1>26. ASSUME RecvAck PROVE SchedInv'
  BY <1>26, NoneAssumption, SMTT(30) DEF RecvAck
<1>27. ASSUME AckTimeout PROVE SchedInv'
  BY <1>27 DEF AckTimeout
<1>28. ASSUME TryOhi PROVE SchedInv'
  BY <1>28 DEF TryOhi, OhiSelect, OhiReturn
<1>29. ASSUME OhiDone PROVE SchedInv'
  BY <1>29 DEF OhiDone, OhiReturn
<1>30. ASSUME SendOhi PROVE SchedInv'
  BY <1>30 DEF SendOhi
<1>31. ASSUME Crash PROVE SchedInv'
  BY <1>31 DEF Crash
<1>32. ASSUME UNCHANGED vars PROVE SchedInv'
  BY <1>32 DEF vars
<1> QED
  BY <1>1, <1>2, <1>3, <1>4, <1>5, <1>6, <1>7, <1>8, <1>9,
     <1>10, <1>11, <1>12, <1>13, <1>14, <1>15, <1>16, <1>17, <1>18,
     <1>19, <1>20, <1>21, <1>22, <1>23, <1>24, <1>25, <1>26, <1>27,
     <1>28, <1>29, <1>30, <1>31, <1>32
     DEF Next, PosterStep, LinkStep

-----------------------------------------------------------------------------
\* A process that has just started with an empty directory satisfies IndInv.
LEMMA IndInit == Init => IndInv
<1> SUFFICES ASSUME Init PROVE IndInv
  OBVIOUS
<1>1. TypeOK
  <2>1. ack \in Seq(Msg) /\ Len(ack) <= AckCap
    BY EmptyFacts, BoundAssumption DEF Init
  <2>2. wire \in [Link -> Seq(Msg)] /\ \A l \in Link : Len(wire[l]) <= WireMax
    BY EmptyFacts, BoundAssumption DEF Init
  <2>3. link \in [Link -> LinkState] /\ hand \in [Link -> Link \cup {None}]
    BY DEF Init, LinkState
  <2>4. post \in [Msg -> PostState] /\ buf \in [Msg -> Nat]
    BY DEF Init, PostState
  <2>5. /\ dir \in SUBSET Msg /\ volat \in SUBSET Msg
        /\ broken \in SUBSET Link /\ acked \in SUBSET Msg
        /\ q \in {"nil", "new", "made"} /\ hasConn \in BOOLEAN
        /\ connChan \in Link \cup {None} /\ rconn \in Link \cup {None}
        /\ cur \in Msg \cup {None} /\ rq \in RqState
    BY DEF Init, RqState
  <2>6. ohi \in 0..OhiCap /\ crashes \in 0..MaxCrash
    BY BoundAssumption DEF Init
  <2> QED
    BY <2>1, <2>2, <2>3, <2>4, <2>5, <2>6 DEF TypeOK
<1>2. LockInv /\ ConnInv
  BY NoneAssumption
     DEF Init, LockInv, ConnInv, ConnExclusive, Attached, Readers, Writers
<1>3. StoreInv /\ SchedInv
  BY EmptyFacts DEF Init, StoreInv, SchedInv, ScheduledOnce
<1> QED
  BY <1>1, <1>2, <1>3 DEF IndInv

\* The inductive invariant holds in every reachable state.
THEOREM Invariance == Spec => []IndInv
<1>1. IndInv /\ [Next]_vars => IndInv'
  BY TypeStep, LockStep, ConnStep, StoreStep, SchedStep DEF IndInv
<1> QED
  BY IndInit, <1>1, PTL DEF Spec

\* The channels never hold more than their capacity, and every goroutine is at
\* a place its code has.
THEOREM TypeCorrect == Spec => []TypeOK
<1>1. IndInv => TypeOK
  BY DEF IndInv
<1> QED
  BY Invariance, <1>1, PTL

\* A message whose poster was told "posted" is in the directory until acked,
\* across any number of crashes, connections and resends.
THEOREM MessageNotLost == Spec => []NoLoss
<1>1. IndInv => NoLoss
  BY DEF IndInv, StoreInv, NoLoss
<1> QED
  BY Invariance, <1>1, PTL

\* Every stored message is scheduled exactly once per process.
THEOREM MessageScheduled == Spec => []ScheduledOnce
<1>1. IndInv => ScheduledOnce
  BY DEF IndInv, SchedInv
<1> QED
  BY Invariance, <1>1, PTL

\* sendFile always finds the file of the message it is given.
THEOREM SendFindsFile == Spec => []FilePresent
<1>1. IndInv => FilePresent
  <2> SUFFICES ASSUME IndInv, cur # None PROVE cur \in dir
    BY DEF FilePresent
  <2>1. q = "made" /\ cur \in Msg /\ buf[cur] \in Nat
    BY DEF IndInv, SchedInv, LockInv, TypeOK
  <2> QED
    BY <2>1 DEF IndInv, SchedInv, ScheduledOnce, Copies
<1> QED
  BY Invariance, <1>1, PTL

\* No connection is written to by two goroutines, nor after unlink gave it up.
THEOREM ConnectionOwned == Spec => []ConnExclusive
<1>1. IndInv => ConnExclusive
  BY DEF IndInv, ConnInv
<1> QED
  BY Invariance, <1>1, PTL

-----------------------------------------------------------------------------
\* A step of the queue is a step of the abstract mailbox or changes nothing
\* that the mailbox has.
LEMMA MailboxStep ==
  IndInv /\ [Next]_vars => [Box!Next]_<<dir, Posted, acked>>
<1> SUFFICES ASSUME IndInv, [Next]_vars
             PROVE  Box!Next \/ UNCHANGED <<dir, Posted, acked>>
  OBVIOUS
<1> USE DEF IndInv, TypeOK, Posted, disk, PostState
<1>1. ASSUME NEW m \in Msg, PostLock(m) PROVE UNCHANGED <<dir, Posted, acked>>
  BY <1>1 DEF PostLock
<1>2. ASSUME NEW m \in Msg, PutLink(m) PROVE Box!Put(m)
  BY <1>2 DEF PutLink, Box!Put, StoreInv
<1>3. ASSUME NEW m \in Msg, SyncDirs(m) PROVE UNCHANGED <<dir, Posted, acked>>
  BY <1>3 DEF SyncDirs
<1>4. ASSUME NEW m \in Msg, ElasticRecv(m) PROVE UNCHANGED <<dir, Posted, acked>>
  BY <1>4 DEF ElasticRecv
<1>5. ASSUME NEW m \in Msg, PostUnlock(m) PROVE Box!Confirm(m)
  BY <1>5 DEF PostUnlock, Box!Confirm, StoreInv
<1>6. ASSUME NEW l \in Link, ClientAck(l)
      PROVE  Box!Ack(Head(wire[l])) \/ UNCHANGED <<dir, Posted, acked>>
  <2>1. Head(wire[l]) \in dir \cup acked
    BY <1>6, TailFacts DEF ClientAck, StoreInv
  <2> QED
    BY <1>6, <2>1 DEF ClientAck, Box!Ack
<1>7. ASSUME NEW l \in Link, ClientAck(l) PROVE Head(wire[l]) \in Msg
  BY <1>7, TailFacts DEF ClientAck
<1>8. ASSUME RecvAck
      PROVE  (cur \in Msg /\ Box!Remove(cur)) \/ UNCHANGED <<dir, Posted, acked>>
  <2>1. Head(ack) \in acked
    BY <1>8, TailFacts DEF RecvAck, StoreInv
  <2>2. CASE Head(ack) = cur
    <3>1. cur \in Msg /\ q = "made"
      BY <1>8, <2>1, <2>2 DEF RecvAck, LockInv
    <3>2. cur \in dir
      BY <3>1, NoneAssumption DEF SchedInv, ScheduledOnce, Copies
    <3> QED
      BY <1>8, <2>1, <2>2, <3>1, <3>2, NoneAssumption DEF RecvAck, Box!Remove
  <2>3. CASE Head(ack) # cur
    BY <1>8, <2>3 DEF RecvAck
  <2> QED
    BY <2>2, <2>3
<1>9. ASSUME Crash PROVE Box!Crash
  <2>1. Posted' = Posted /\ acked' = acked
    BY <1>9 DEF Crash
  <2>2. dir' \subseteq dir \cup acked
    BY <1>9 DEF Crash, StoreInv
  <2>3. Posted \subseteq dir' \cup acked
    BY <1>9 DEF Crash, StoreInv
  <2> QED
    BY <2>1, <2>2, <2>3 DEF Box!Crash
<1>10. ASSUME NEW l \in Link, LinkStep(l) \/ Login(l) \/ AckAsapTake(l)
                \/ Hangup(l) \/ UnlinkTake(l) \/ ClientRead(l) \/ Break(l)
                \/ \E m \in Msg : ClientAckAgain(l, m)
       PROVE  UNCHANGED <<dir, Posted, acked>>
  BY <1>10 DEF LinkStep, LockNode, FillQueue, CasConn, PutConn, AckAsapPut,
       UnlinkSignal, UnlinkClear, Login, AckAsapTake, Hangup, UnlinkTake,
       ClientRead, Break, ClientAckAgain
<1>11. ASSUME NextMsg \/ TakeConn \/ SendFile \/ SendError \/ EnterRecvAck
                \/ AckTimeout \/ TryOhi \/ OhiDone \/ SendOhi
       PROVE  UNCHANGED <<dir, Posted, acked>>
  BY <1>11 DEF NextMsg, TakeConn, SendFile, SendError, EnterRecvAck,
       AckTimeout, TryOhi, OhiDone, SendOhi
<1>12. ASSUME UNCHANGED vars PROVE UNCHANGED <<dir, Posted, acked>>
  BY <1>12 DEF vars
<1> QED
  BY <1>1, <1>2, <1>3, <1>4, <1>5, <1>6, <1>7, <1>8, <1>9, <1>10, <1>11, <1>12
     DEF Next, PosterStep, Box!Next

\* The queue of a node implements the mailbox.
THEOREM Refinement == Spec => ImplementsMailbox
<1>1. Init => Box!Init
  BY DEF Init, Box!Init, Posted
<1> QED
  BY <1>1, MailboxStep, Invariance, PTL DEF Spec, ImplementsMailbox, Box!Spec
=============================================================================
