---------------------------- MODULE FanoutProofs ----------------------------
(***************************************************************************)
(* Proofs about Fanout, for any users, groups, messages and UserEdit        *)
(* requests, lists of any length and any number of crashes.  IndInv was     *)
(* checked with TLC on the instance of FanoutSafety.cfg.                    *)
(***************************************************************************)
EXTENDS Fanout, FiniteSetTheorems, TLAPS

\* Message m is, or was, in the queue of node n.
Got(m, n) == m \in dir[n] \cup acked[n]

\* Nodes of a user are numbered from 1, so that AddNode's next number is free.
NumInv ==
  \A u \in User :
    /\ IsFiniteSet(nodes[u]) /\ Cardinality(nodes[u]) \in 1..UserNodeMax
    /\ nodes[u] = {<<u, k>> : k \in 1..Cardinality(nodes[u])}

\* Requests come from nodes whose own queue is complete.  A new node is one of the
\* user's, and has no parent until its queue is copied.
EditInv ==
  /\ \A e \in Edit : edit[e].at \in {"lock", "copy", "link", "done"} =>
       /\ Usable(edit[e].uid, edit[e].node)
       /\ edit[e].at = "lock" => edit[e].new = None
       /\ edit[e].at \in {"copy", "link"} =>
            edit[e].new # None /\ parent[edit[e].new] = None
       /\ edit[e].new # None => /\ edit[e].new \in nodes[edit[e].uid]
                                /\ edit[e].new # First(edit[e].uid)
  /\ OwnQueue
  /\ \A n \in Node : parent[n] # None =>
       \E u \in User : n \in nodes[u] /\ Usable(u, parent[n])

\* A message is nowhere before its list is resolved.
PostFor(m) ==
  call[m].at \in {"idle", "fail"} \/ (Running(m) /\ ~Opened(m)) =>
    \A n \in Node : ~Got(m, n)

\* The nodes of a user whose lock _queueMsg holds are all among those to be given the
\* message, or have it; the sending one may be left out.  Other users' nodes are not,
\* and nobody gave it to them.
HeldFor(m) ==
  Running(m) =>
    \A u \in User : \A n \in nodes[u] :
      /\ call[m].held[u] > 0 =>
           \/ n \in call[m].forNodes
           \/ Opened(m) /\ (Got(m, n) \/ (n = call[m].node /\ ~call[m].forMyUid))
      /\ call[m].held[u] = 0 => n \notin call[m].forNodes /\ ~Got(m, n)

\* Only nodes that a user has are given a message.
KnownFor(m) ==
  /\ \A n \in Node : Got(m, n) => n \in nodes[n[1]]
  /\ Running(m) => \A n \in call[m].forNodes : n \in nodes[n[1]]

\* The number of entries of the list that were taken.
Past(m) == Len(call[m].to) - Len(call[m].todo)

\* Of the entries taken, all users are open, or are to be, with the last one.
ListFor(m) ==
  Running(m) =>
    /\ Past(m) \in 0..Len(call[m].to)
    /\ \A j \in 1..Len(call[m].todo) : call[m].todo[j] = call[m].to[Past(m) + j]
    /\ call[m].uids # {} => Past(m) > 0 /\ call[m].type = call[m].to[Past(m)].type
    /\ \A i \in 1..Past(m) : \A u \in Reached(call[m].to[i], call[m].uid) :
         /\ u \in User
         /\ \/ i = Past(m) /\ u \in call[m].uids
            \/ /\ call[m].held[u] > 0
               /\ call[m].to[i].type # "self" /\ u = call[m].uid => call[m].forMyUid

\* Fanned for one message.
DoneFor(m) ==
  call[m].at = "done" =>
    \A u \in Recipients(m) :
      /\ u \in User
      /\ Got(m, First(u)) \/ (First(u) = call[m].node /\ ~ToMyself(m))

MsgOK(m) == PostFor(m) /\ HeldFor(m) /\ KnownFor(m) /\ ListFor(m) /\ DoneFor(m)
MsgInv   == \A m \in Msg : MsgOK(m)

\* What copyDir has listed and not yet linked is all that the new node misses.
CopyInv ==
  \A e \in Edit, m \in Msg :
    /\ edit[e].at = "link" /\ call[m].at = "done"
    /\ m \in dir[edit[e].node] \ acked[edit[e].node]
    => m \in edit[e].list \/ Got(m, edit[e].new) \/ call[m].node = edit[e].new

IndInv == TypeOK /\ NumInv /\ EditInv /\ MsgInv /\ CopyInv /\ NodeInherits

-----------------------------------------------------------------------------
(* Facts about the operators.                                               *)

LEMMA FirstNode ==
  ASSUME NEW u \in User
  PROVE  First(u) = <<u, 1>> /\ First(u) \in Node
<1>1. 1 % NumMod = 1
  BY NumAssumption
<1>2. 1 \in 0..(NumMod - 1)
  BY NumAssumption
<1> QED
  BY <1>1, <1>2 DEF First, qid, Node

\* A user's nodes are its own, and it has the first one.
LEMMA Owned ==
  ASSUME NumInv, NEW u \in User
  PROVE  /\ First(u) \in nodes[u]
         /\ \A n \in nodes[u] : n \in Node /\ n[1] = u
<1>1. /\ Cardinality(nodes[u]) \in 1..UserNodeMax
      /\ nodes[u] = {<<u, k>> : k \in 1..Cardinality(nodes[u])}
  BY DEF NumInv
<1>2. 1 \in 1..Cardinality(nodes[u])
  BY <1>1, NumAssumption
<1>3. First(u) \in nodes[u]
  BY <1>1, <1>2, FirstNode
<1>4. \A k \in 1..Cardinality(nodes[u]) : k \in 0..(NumMod - 1)
  BY <1>1, NumAssumption
<1>5. \A n \in nodes[u] : n \in Node /\ n[1] = u
  BY <1>1, <1>4 DEF Node
<1> QED
  BY <1>3, <1>5

\* Two users have no node in common.
LEMMA OneOwner ==
  ASSUME NumInv, NEW u \in User, NEW v \in User, NEW n \in nodes[u], n \in nodes[v]
  PROVE  u = v
BY Owned

\* AddNode's number is free.
LEMMA Free ==
  ASSUME NumInv, NEW u \in User, Cardinality(nodes[u]) # UserNodeMax
  PROVE  /\ NewNode(u) = <<u, Cardinality(nodes[u]) + 1>> /\ NewNode(u) \in Node
         /\ NewNode(u) \notin nodes[u] /\ NewNode(u) # First(u)
<1> DEFINE c == Cardinality(nodes[u])
<1>1. c \in 1..UserNodeMax /\ nodes[u] = {<<u, k>> : k \in 1..c}
  BY DEF NumInv
<1> HIDE DEF c
<1>2. c \in Nat /\ c >= 1 /\ c < UserNodeMax /\ c + 1 < NumMod
  BY <1>1, NumAssumption DEF c
<1>3. c % NumMod = c /\ (c + 1) % NumMod = c + 1
  BY <1>2, NumAssumption
<1>4. NewNode(u) = <<u, c + 1>>
  BY <1>3 DEF NewNode, qid, c
<1>5. c + 1 \in 0..(NumMod - 1) /\ c + 1 \notin 1..c /\ c + 1 # 1
  BY <1>2, NumAssumption
<1>6. NewNode(u) \in Node /\ NewNode(u) # First(u)
  BY <1>4, <1>5, FirstNode DEF Node
<1>7. NewNode(u) \notin nodes[u]
  BY <1>1, <1>4, <1>5
<1> QED
  BY <1>4, <1>6, <1>7 DEF c

LEMMA CallType ==
  ASSUME TypeOK, NEW m \in Msg, call[m].at \in {"run", "done", "fail"}
  PROVE  call[m] \in Call
BY DEF TypeOK, Idle, Dead

LEMMA EditType ==
  ASSUME TypeOK, NEW e \in Edit, edit[e].at \in {"lock", "copy", "link", "done"}
  PROVE  edit[e] \in Request
BY DEF TypeOK, Idle, Dead

\* None is no node.
LEMMA NoNode == None \notin Node
BY NoneAssumption DEF Node

-----------------------------------------------------------------------------
(* The initial states and what a step leaves alone.                         *)

LEMMA InitInv == Init => IndInv
<1> SUFFICES ASSUME Init PROVE IndInv
  OBVIOUS
<1>1. TypeOK
  BY FirstNode, BoundAssumption DEF Init, TypeOK
<1>2. NumInv
  <2> SUFFICES ASSUME NEW u \in User
               PROVE  /\ IsFiniteSet(nodes[u]) /\ Cardinality(nodes[u]) \in 1..UserNodeMax
                      /\ nodes[u] = {<<u, k>> : k \in 1..Cardinality(nodes[u])}
    BY DEF NumInv
  <2>1. nodes[u] = {<<u, 1>>}
    BY FirstNode DEF Init
  <2>2. IsFiniteSet(nodes[u]) /\ Cardinality(nodes[u]) = 1
    BY <2>1, FS_Singleton
  <2>3. 1..1 = {1} /\ 1 \in 1..UserNodeMax
    BY NumAssumption
  <2> QED
    BY <2>1, <2>2, <2>3
<1>3. EditInv
  BY DEF Init, EditInv, OwnQueue, Idle
<1>4. MsgInv
  BY DEF Init, MsgInv, MsgOK, PostFor, HeldFor, KnownFor, ListFor, DoneFor, Got, Running, Idle
<1>5. CopyInv /\ NodeInherits
  BY DEF Init, CopyInv, NodeInherits, Idle
<1> QED
  BY <1>1, <1>2, <1>3, <1>4, <1>5 DEF IndInv

LEMMA NumKept ==
  ASSUME NumInv, UNCHANGED nodes
  PROVE  NumInv'
BY DEF NumInv

LEMMA EditKept ==
  ASSUME EditInv, UNCHANGED <<nodes, parent, edit>>
  PROVE  EditInv'
BY DEF EditInv, OwnQueue, Usable

\* A call that a step does not touch, while no node gets its message.
LEMMA MsgKept ==
  ASSUME NEW m \in Msg, MsgOK(m),
         NumInv, call'[m] = call[m], nodes' = nodes,
         \A n \in Node : Got(m, n)' <=> Got(m, n)
  PROVE  MsgOK(m)'
<1>1. Running(m)' = Running(m) /\ Opened(m)' = Opened(m)
  BY DEF Running, Opened
<1>2. PostFor(m)'
  BY <1>1 DEF PostFor, MsgOK
<1>3. HeldFor(m)'
  <2>1. \A u \in User : \A n \in nodes[u] : Got(m, n)' <=> Got(m, n)
    BY Owned
  <2> QED
    BY <1>1, <2>1 DEF HeldFor, MsgOK
<1>4. ListFor(m)'
  <2>1. Past(m)' = Past(m)
    BY DEF Past
  <2>2. \A t : Reached(t, call[m].uid)' = Reached(t, call[m].uid)
    BY DEF Reached, GroupGetUsers
  <2> QED
    BY <1>1, <2>1, <2>2 DEF ListFor, MsgOK
<1>5. DoneFor(m)'
  <2>1. Recipients(m)' = Recipients(m) /\ ToMyself(m)' = ToMyself(m)
    BY DEF Recipients, ToMyself
  <2>2. \A u \in User : Got(m, First(u))' <=> Got(m, First(u))
    BY FirstNode
  <2> QED
    BY <2>1, <2>2 DEF DoneFor, MsgOK
<1>6. KnownFor(m)'
  BY <1>1 DEF KnownFor, MsgOK
<1> QED
  BY <1>2, <1>3, <1>4, <1>5, <1>6 DEF MsgOK

\* A step of one call leaves what is said of the others alone.
LEMMA OthersKept ==
  ASSUME IndInv, NEW m \in Msg, UNCHANGED <<nodes, dir, acked>>,
         \A x \in Msg \ {m} : call'[x] = call[x],
         MsgOK(m)'
  PROVE  MsgInv'
<1>1. \A x \in Msg, n \in Node : Got(x, n)' <=> Got(x, n)
  BY DEF Got
<1>2. ASSUME NEW x \in Msg \ {m}
      PROVE  MsgOK(x)'
  BY <1>1, MsgKept DEF IndInv, MsgInv
<1> QED
  BY <1>2 DEF MsgInv

\* No call ends and no queue changes.
LEMMA CopyKept ==
  ASSUME IndInv, UNCHANGED <<dir, acked, parent, edit>>,
         \A x \in Msg : call'[x].at = "done" => call'[x] = call[x]
  PROVE  CopyInv' /\ NodeInherits'
<1>1. CopyInv'
  BY DEF IndInv, CopyInv, Got
<1>2. NodeInherits'
  BY DEF IndInv, NodeInherits
<1> QED
  BY <1>1, <1>2

-----------------------------------------------------------------------------
(* The steps of _queueMsg.                                                  *)

LEMMA PostStep ==
  ASSUME IndInv, NEW m \in Msg, NEW u \in User, NEW n \in Node, NEW for \in ForList,
         NEW iSelf \in BOOLEAN, Post(m, u, n, for, iSelf)
  PROVE  IndInv'
<1> DEFINE to == IF iSelf THEN Append(for, [type |-> "self", id |-> u]) ELSE for
           new == [at |-> "run", uid |-> u, node |-> n, to |-> to, todo |-> to,
                   uids |-> {}, type |-> "self", held |-> [v \in User |-> 0],
                   forNodes |-> {}, forMyUid |-> FALSE]
<1>1. /\ UNCHANGED <<nodes, dir, acked, parent, edit, crashes>>
      /\ call[m].at = "idle" /\ call' = [call EXCEPT ![m] = new]
  BY DEF Post, Idle
<1>2. to \in Seq(Target)
  <2>1. for \in Seq(Target)
    BY BoundAssumption DEF ForList, SeqOf
  <2>2. [type |-> "self", id |-> u] \in Target
    BY DEF Target
  <2> QED
    BY <2>1, <2>2
<1> HIDE DEF to
<1>3. new \in Call
  BY <1>2 DEF Call
<1>4. /\ new.at = "run" /\ new.to = to /\ new.todo = to /\ new.uids = {}
      /\ new.held = [v \in User |-> 0] /\ new.forNodes = {}
  OBVIOUS
<1> HIDE DEF new
<1>5. /\ call'[m] = new /\ \A x \in Msg \ {m} : call'[x] = call[x]
      /\ call' \in [Msg -> Call \cup {Idle, Dead}]
  BY <1>1, <1>3 DEF IndInv, TypeOK
<1>6. TypeOK'
  BY <1>1, <1>5 DEF IndInv, TypeOK
<1>7. NumInv' /\ EditInv'
  BY <1>1, NumKept, EditKept DEF IndInv
<1>8. \A k \in Node : ~Got(m, k) /\ ~Got(m, k)'
  BY <1>1 DEF IndInv, MsgInv, MsgOK, PostFor, Got
<1>9. PostFor(m)'
  BY <1>8 DEF PostFor
<1>10. HeldFor(m)'
  <2>1. \A v \in User : \A k \in nodes[v] : ~Got(m, k)'
    BY <1>8, Owned DEF IndInv
  <2> QED
    BY <1>1, <1>4, <1>5, <2>1 DEF HeldFor
<1>11. ListFor(m)'
  <2>1. Past(m)' = 0 /\ Len(to) \in Nat
    BY <1>2, <1>4, <1>5 DEF Past
  <2>2. call'[m].todo = to /\ call'[m].to = to /\ call'[m].uids = {}
    BY <1>4, <1>5
  <2> QED
    BY <2>1, <2>2 DEF ListFor
<1>12. DoneFor(m)'
  BY <1>4, <1>5 DEF DoneFor
<1>13. MsgInv'
  <2>1. KnownFor(m)'
    BY <1>4, <1>5, <1>8 DEF KnownFor
  <2> QED
    BY <1>1, <1>5, <1>9, <1>10, <1>11, <1>12, <2>1, OthersKept DEF MsgOK
<1>14. CopyInv' /\ NodeInherits'
  <2>1. \A x \in Msg : call'[x].at = "done" => call'[x] = call[x]
    BY <1>4, <1>5
  <2> QED
    BY <1>1, <2>1, CopyKept
<1> QED
  BY <1>6, <1>7, <1>13, <1>14 DEF IndInv

\* The users an entry reaches, unless it is refused.
LEMMA ReachedUsers ==
  ASSUME NEW t \in Target, NEW by, ~Refused(t, by)
  PROVE  Reached(t, by) \in SUBSET User
<1>1. CASE t.type \in {"all", "excl"}
  <2>1. t.id \in Group
    BY <1>1 DEF Target
  <2> QED
    BY <1>1, <2>1, MemberAssumption DEF Reached, GroupGetUsers
<1>2. CASE t.type \notin {"all", "excl"}
  <2>1. t.id \in User
    BY <1>2 DEF Target, Refused
  <2> QED
    BY <1>2, <2>1 DEF Reached, GroupGetUsers
<1> QED
  BY <1>1, <1>2

LEMMA NextForStep ==
  ASSUME IndInv, NEW m \in Msg, NextFor(m)
  PROVE  IndInv'
<1> DEFINE c == call[m]
           t == Head(c.todo)
<1>0. Running(m) /\ c \in Call /\ c.uids = {} /\ c.todo # <<>> /\ ~Refused(t, c.uid)
  BY CallType DEF NextFor, Running, IndInv
<1>1. /\ UNCHANGED <<nodes, dir, acked, parent, edit, crashes>>
      /\ call' = [call EXCEPT ![m].todo = Tail(@), ![m].type = t.type,
                              ![m].uids = Reached(t, c.uid)]
  BY DEF NextFor
<1>2. c.todo \in Seq(Target) /\ c.to \in Seq(Target) /\ t \in Target
  BY <1>0 DEF Call
<1>3. Reached(t, c.uid) \in SUBSET User /\ t.type \in {"user", "self", "all", "excl"}
  BY <1>0, <1>2, ReachedUsers DEF Target
<1>4. /\ call'[m] = [c EXCEPT !.todo = Tail(@), !.type = t.type, !.uids = Reached(t, c.uid)]
      /\ \A x \in Msg \ {m} : call'[x] = call[x]
  BY <1>0, <1>1 DEF IndInv, TypeOK, Call
<1>5. /\ call'[m] \in Call
      /\ call'[m].at = "run" /\ call'[m].uid = c.uid /\ call'[m].node = c.node
      /\ call'[m].to = c.to /\ call'[m].todo = Tail(c.todo) /\ call'[m].type = t.type
      /\ call'[m].uids = Reached(t, c.uid) /\ call'[m].held = c.held
      /\ call'[m].forNodes = c.forNodes /\ call'[m].forMyUid = c.forMyUid
  <2>1. c.at = "run"
    BY <1>0 DEF Running
  <2>2. Tail(c.todo) \in Seq(Target)
    BY <1>0, <1>2
  <2> HIDE DEF c, t
  <2>3. [c EXCEPT !.todo = Tail(@), !.type = t.type, !.uids = Reached(t, c.uid)] \in Call
    BY <1>0, <2>2, <1>3 DEF Call
  <2> QED
    BY <1>0, <1>4, <2>1, <2>3 DEF Call
<1>6. TypeOK'
  BY <1>1, <1>5 DEF IndInv, TypeOK
<1>7. NumInv' /\ EditInv'
  BY <1>1, NumKept, EditKept DEF IndInv
<1>8. ~Opened(m) /\ \A k \in Node : ~Got(m, k) /\ ~Got(m, k)'
  BY <1>0, <1>1 DEF IndInv, MsgInv, MsgOK, PostFor, Got, Opened
<1>9. PostFor(m)'
  BY <1>8 DEF PostFor
<1>10. HeldFor(m)'
  <2>1. \A v \in User : \A k \in nodes[v] : ~Got(m, k)' /\ (c.held[v] > 0 => k \in c.forNodes)
                                                    /\ (c.held[v] = 0 => k \notin c.forNodes)
    BY <1>0, <1>8, Owned DEF IndInv, MsgInv, MsgOK, HeldFor
  <2> QED
    BY <1>1, <1>5, <2>1 DEF HeldFor
<1>11. ListFor(m)'
  <2>1. /\ Len(c.todo) \in Nat /\ Len(c.todo) > 0 /\ Len(c.to) \in Nat
        /\ Len(Tail(c.todo)) = Len(c.todo) - 1
        /\ \A j \in 1..Len(Tail(c.todo)) : Tail(c.todo)[j] = c.todo[j + 1]
        /\ t = c.todo[1]
    BY <1>0, <1>2
  <2>2. /\ Past(m) \in 0..Len(c.to)
        /\ \A j \in 1..Len(c.todo) : c.todo[j] = c.to[Past(m) + j]
        /\ \A i \in 1..Past(m) : \A u \in Reached(c.to[i], c.uid) :
             /\ u \in User
             /\ c.held[u] > 0
             /\ c.to[i].type # "self" /\ u = c.uid => c.forMyUid
    BY <1>0 DEF IndInv, MsgInv, MsgOK, ListFor
  <2>3. Past(m) = Len(c.to) - Len(c.todo) /\ Past(m)' = Len(c.to) - Len(Tail(c.todo))
    BY <1>5 DEF Past
  <2>4. Past(m)' = Past(m) + 1 /\ Past(m)' \in 1..Len(c.to) /\ Past(m) \in Nat
    <3>1. Past(m) \in Nat /\ Past(m) <= Len(c.to)
      BY <2>1, <2>2
    <3>2. Len(c.todo) \in Nat /\ Len(c.todo) > 0 /\ Len(c.to) \in Nat
      BY <2>1
    <3>3. Past(m)' = Len(c.to) - (Len(c.todo) - 1)
      BY <2>1, <2>3
    <3>4. \A a, b \in Nat : b > 0 /\ a - b \in Nat =>
            a - (b - 1) = (a - b) + 1 /\ a - (b - 1) \in 1..a
      OBVIOUS
    <3>5. Past(m) = Len(c.to) - Len(c.todo)
      BY <2>3
    <3> HIDE DEF c, t
    <3> QED
      BY <3>1, <3>2, <3>3, <3>4, <3>5
  <2>5. t = c.to[Past(m) + 1]
    BY <2>1, <2>2
  <2>6. ASSUME NEW j \in 1..Len(Tail(c.todo))
        PROVE  Tail(c.todo)[j] = c.to[(Past(m) + 1) + j]
    <3>1. j + 1 \in 1..Len(c.todo) /\ Past(m) + (j + 1) = (Past(m) + 1) + j
      BY <2>1, <2>4
    <3> QED
      BY <2>1, <2>2, <3>1
  <2>7. ASSUME NEW i \in 1..(Past(m) + 1), NEW u \in Reached(c.to[i], c.uid)
        PROVE  /\ u \in User
               /\ \/ i = Past(m) + 1 /\ u \in Reached(t, c.uid)
                  \/ /\ c.held[u] > 0
                     /\ c.to[i].type # "self" /\ u = c.uid => c.forMyUid
    <3>1. CASE i = Past(m) + 1
      BY <3>1, <2>5, <1>3
    <3>2. CASE i # Past(m) + 1
      <4>1. i \in 1..Past(m)
        BY <3>2, <2>4
      <4> QED
        BY <4>1, <2>2
    <3> QED
      BY <3>1, <3>2
  <2>8. \A s, v : Reached(s, v)' = Reached(s, v)
    BY DEF Reached, GroupGetUsers
  <2>9. Past(m)' \in 0..Len(c.to) /\ Past(m)' > 0
    BY <2>4, <2>1
  <2> HIDE DEF c, t
  <2> QED
    BY <1>5, <2>4, <2>5, <2>6, <2>7, <2>8, <2>9 DEF ListFor
<1>12. DoneFor(m)'
  BY <1>5 DEF DoneFor
<1>13. MsgInv'
  <2>1. KnownFor(m)'
    BY <1>0, <1>1, <1>5, <1>8 DEF IndInv, MsgInv, MsgOK, KnownFor
  <2> QED
    BY <1>1, <1>4, <1>9, <1>10, <1>11, <1>12, <2>1, OthersKept DEF MsgOK
<1>14. CopyInv' /\ NodeInherits'
  <2>1. \A x \in Msg : call'[x].at = "done" => call'[x] = call[x]
    BY <1>4, <1>5
  <2> QED
    BY <1>1, <2>1, CopyKept
<1> QED
  BY <1>6, <1>7, <1>13, <1>14 DEF IndInv

LEMMA FailForStep ==
  ASSUME IndInv, NEW m \in Msg, FailFor(m)
  PROVE  IndInv'
<1> DEFINE c == call[m]
<1>0. Running(m) /\ c \in Call /\ c.todo # <<>>
  BY CallType DEF FailFor, Running, IndInv
<1>1. /\ UNCHANGED <<nodes, dir, acked, parent, edit, crashes>>
      /\ call' = [call EXCEPT ![m].at = "fail", ![m].held = NoLocks]
  BY DEF FailFor
<1>2. NoLocks \in [User -> Nat]
  BY DEF NoLocks
<1>4. /\ call'[m] = [c EXCEPT !.at = "fail", !.held = NoLocks]
      /\ \A x \in Msg \ {m} : call'[x] = call[x]
  BY <1>0, <1>1 DEF IndInv, TypeOK, Call
<1>5. call'[m] \in Call /\ call'[m].at = "fail"
  BY <1>0, <1>2, <1>4 DEF Call
<1>6. TypeOK'
  BY <1>1, <1>5 DEF IndInv, TypeOK
<1>7. NumInv' /\ EditInv'
  BY <1>1, NumKept, EditKept DEF IndInv
<1>8. \A k \in Node : ~Got(m, k) /\ ~Got(m, k)'
  BY <1>0, <1>1 DEF IndInv, MsgInv, MsgOK, PostFor, Got, Opened
<1>9. MsgOK(m)'
  BY <1>5, <1>8 DEF MsgOK, PostFor, HeldFor, KnownFor, ListFor, DoneFor, Running
<1>10. MsgInv'
  BY <1>1, <1>4, <1>9, OthersKept
<1>11. CopyInv' /\ NodeInherits'
  <2>1. \A x \in Msg : call'[x].at = "done" => call'[x] = call[x]
    BY <1>4, <1>5
  <2> QED
    BY <1>1, <2>1, CopyKept
<1> QED
  BY <1>6, <1>7, <1>10, <1>11 DEF IndInv

LEMMA OpenNodesStep ==
  ASSUME IndInv, NEW m \in Msg, NEW u \in User, OpenNodes(m, u)
  PROVE  IndInv'
<1> DEFINE c == call[m]
           mine == c.forMyUid \/ (u = c.uid /\ c.type # "self")
<1>0. Running(m) /\ c \in Call /\ u \in c.uids
  BY CallType DEF OpenNodes, Running, IndInv
<1>1. /\ UNCHANGED <<nodes, dir, acked, parent, edit, crashes>>
      /\ call' = [call EXCEPT ![m].uids = @ \ {u},
                              ![m].held[u] = @ + 1,
                              ![m].forNodes = @ \cup nodes[u],
                              ![m].forMyUid = mine]
  BY DEF OpenNodes
<1>2. /\ c.held \in [User -> Nat] /\ c.uids \subseteq User /\ c.forNodes \subseteq Node
      /\ nodes[u] \subseteq Node /\ mine \in BOOLEAN /\ c.at = "run"
  BY <1>0 DEF Call, IndInv, TypeOK, Running
<1>3. [c.held EXCEPT ![u] = @ + 1] \in [User -> Nat]
  BY <1>2
<1>4. /\ call'[m] = [c EXCEPT !.uids = @ \ {u}, !.held = [c.held EXCEPT ![u] = @ + 1],
                              !.forNodes = @ \cup nodes[u], !.forMyUid = mine]
      /\ \A x \in Msg \ {m} : call'[x] = call[x]
  BY <1>0, <1>1 DEF IndInv, TypeOK, Call
<1>5. /\ call'[m] \in Call
      /\ call'[m].at = "run" /\ call'[m].uid = c.uid /\ call'[m].node = c.node
      /\ call'[m].to = c.to /\ call'[m].todo = c.todo /\ call'[m].type = c.type
      /\ call'[m].uids = c.uids \ {u} /\ call'[m].held = [c.held EXCEPT ![u] = @ + 1]
      /\ call'[m].forNodes = c.forNodes \cup nodes[u] /\ call'[m].forMyUid = mine
  <2> HIDE DEF c, mine
  <2> DEFINE h == [c.held EXCEPT ![u] = @ + 1]
             x == c.uids \ {u}
             y == c.forNodes \cup nodes[u]
  <2>1. h \in [User -> Nat] /\ x \subseteq User /\ y \subseteq Node
    BY <1>2, <1>3
  <2>2. call'[m] = [c EXCEPT !.uids = x, !.held = h, !.forNodes = y, !.forMyUid = mine]
    BY <1>0, <1>4 DEF Call
  <2> HIDE DEF h, x, y
  <2>3. call'[m] \in Call
    BY <2>1, <2>2, <1>0, <1>2 DEF Call
  <2>4. /\ call'[m].at = c.at /\ call'[m].uid = c.uid /\ call'[m].node = c.node
        /\ call'[m].to = c.to /\ call'[m].todo = c.todo /\ call'[m].type = c.type
        /\ call'[m].uids = x /\ call'[m].held = h
        /\ call'[m].forNodes = y /\ call'[m].forMyUid = mine
    BY <2>2, <1>0 DEF Call
  <2> QED
    BY <2>3, <2>4, <1>2 DEF h, x, y
<1>6. TypeOK'
  BY <1>1, <1>5 DEF IndInv, TypeOK
<1>7. NumInv' /\ EditInv'
  BY <1>1, NumKept, EditKept DEF IndInv
<1>8. ~Opened(m) /\ \A k \in Node : ~Got(m, k) /\ ~Got(m, k)'
  BY <1>0, <1>1 DEF IndInv, MsgInv, MsgOK, PostFor, Got, Opened
<1>9. PostFor(m)'
  BY <1>8 DEF PostFor
<1>e. /\ call'[m].held[u] > 0
      /\ \A v \in User : /\ v # u => call'[m].held[v] = c.held[v]
                         /\ c.held[v] > 0 => call'[m].held[v] > 0
  BY <1>2, <1>5
<1>10. HeldFor(m)'
  <2> SUFFICES ASSUME NEW v \in User, NEW k \in nodes[v]
               PROVE  /\ call'[m].held[v] > 0 => k \in call'[m].forNodes
                      /\ call'[m].held[v] = 0 => k \notin call'[m].forNodes /\ ~Got(m, k)'
    BY <1>1 DEF HeldFor
  <2>1. /\ c.held[v] > 0 => k \in c.forNodes
        /\ c.held[v] = 0 => k \notin c.forNodes
    BY <1>0, <1>8 DEF IndInv, MsgInv, MsgOK, HeldFor
  <2>2. k \in nodes[u] => v = u
    BY OneOwner DEF IndInv
  <2>3. k \in Node
    BY Owned DEF IndInv
  <2>4. CASE v = u
    BY <2>4, <1>e, <1>5, <1>2
  <2>5. CASE v # u
    BY <2>5, <2>1, <2>2, <2>3, <1>5, <1>e, <1>8
  <2> QED
    BY <2>4, <2>5
<1>11. ListFor(m)'
  <2>1. /\ Past(m) \in 0..Len(c.to)
        /\ \A j \in 1..Len(c.todo) : c.todo[j] = c.to[Past(m) + j]
        /\ Past(m) > 0 /\ c.type = c.to[Past(m)].type
        /\ \A i \in 1..Past(m) : \A v \in Reached(c.to[i], c.uid) :
             /\ v \in User
             /\ \/ i = Past(m) /\ v \in c.uids
                \/ /\ c.held[v] > 0
                   /\ c.to[i].type # "self" /\ v = c.uid => c.forMyUid
    BY <1>0 DEF IndInv, MsgInv, MsgOK, ListFor
  <2>2. Past(m)' = Past(m)
    BY <1>5 DEF Past
  <2>3. ASSUME NEW i \in 1..Past(m), NEW v \in Reached(c.to[i], c.uid)
        PROVE  /\ v \in User
               /\ \/ i = Past(m) /\ v \in c.uids \ {u}
                  \/ /\ call'[m].held[v] > 0
                     /\ c.to[i].type # "self" /\ v = c.uid => mine
    <3>1. CASE i = Past(m) /\ v = u
      BY <3>1, <2>1, <1>e
    <3>2. CASE ~(i = Past(m) /\ v = u)
      BY <3>2, <2>1, <1>e
    <3> QED
      BY <3>1, <3>2
  <2>4. \A s, v : Reached(s, v)' = Reached(s, v)
    BY DEF Reached, GroupGetUsers
  <2> HIDE DEF c, mine
  <2> QED
    BY <1>5, <2>1, <2>2, <2>3, <2>4 DEF ListFor
<1>12. KnownFor(m)'
  <2>1. \A n \in nodes[u] : n \in nodes[n[1]]
    BY Owned DEF IndInv
  <2> QED
    BY <1>0, <1>1, <1>5, <1>8, <2>1 DEF IndInv, MsgInv, MsgOK, KnownFor
<1>13. DoneFor(m)'
  BY <1>5 DEF DoneFor
<1>14. MsgInv'
  BY <1>1, <1>4, <1>9, <1>10, <1>11, <1>12, <1>13, OthersKept DEF MsgOK
<1>15. CopyInv' /\ NodeInherits'
  <2>1. \A x \in Msg : call'[x].at = "done" => call'[x] = call[x]
    BY <1>4, <1>5
  <2> QED
    BY <1>1, <2>1, CopyKept
<1> QED
  BY <1>6, <1>7, <1>14, <1>15 DEF IndInv

LEMMA PutLinkStep ==
  ASSUME IndInv, NEW m \in Msg, NEW n \in Node, PutLink(m, n)
  PROVE  IndInv'
<1> DEFINE c == call[m]
           out == n = c.node /\ ~c.forMyUid
<1>0. /\ Opened(m) /\ Running(m) /\ c \in Call /\ n \in c.forNodes
      /\ c.uids = {} /\ c.todo = <<>>
  BY CallType DEF PutLink, Opened, Running, IndInv
<1>1. /\ UNCHANGED <<nodes, acked, parent, edit, crashes>>
      /\ call' = [call EXCEPT ![m].forNodes = @ \ {n}]
      /\ dir' = IF out THEN dir ELSE [dir EXCEPT ![n] = @ \cup {m}]
  BY DEF PutLink
<1>4. /\ call'[m] = [c EXCEPT !.forNodes = @ \ {n}]
      /\ \A x \in Msg \ {m} : call'[x] = call[x]
  BY <1>0, <1>1 DEF IndInv, TypeOK, Call
<1>5. /\ call'[m] \in Call
      /\ call'[m].at = "run" /\ call'[m].uid = c.uid /\ call'[m].node = c.node
      /\ call'[m].to = c.to /\ call'[m].todo = c.todo /\ call'[m].type = c.type
      /\ call'[m].uids = c.uids /\ call'[m].held = c.held
      /\ call'[m].forNodes = c.forNodes \ {n} /\ call'[m].forMyUid = c.forMyUid
  <2>1. c.at = "run"
    BY <1>0 DEF Running
  <2> HIDE DEF c
  <2> QED
    BY <1>0, <1>4, <2>1 DEF Call
<1>6. TypeOK'
  <2>1. dir' \in [Node -> SUBSET Msg]
    BY <1>1 DEF IndInv, TypeOK
  <2> QED
    BY <1>1, <1>5, <2>1 DEF IndInv, TypeOK
<1>7. NumInv' /\ EditInv'
  BY <1>1, NumKept, EditKept DEF IndInv
<1>8. /\ \A x \in Msg \ {m}, k \in Node : /\ x \in dir'[k] <=> x \in dir[k]
                                          /\ Got(x, k)' <=> Got(x, k)
      /\ \A k \in Node : Got(m, k)' <=> Got(m, k) \/ (k = n /\ ~out)
  BY <1>1 DEF Got, IndInv, TypeOK
<1>9. Opened(m)' /\ Running(m)'
  BY <1>0, <1>5 DEF Opened, Running
<1>10. PostFor(m)'
  BY <1>5, <1>9 DEF PostFor
<1>11. HeldFor(m)'
  <2> SUFFICES ASSUME NEW v \in User, NEW k \in nodes[v]
               PROVE  /\ c.held[v] > 0 =>
                           k \in c.forNodes \ {n} \/ Got(m, k)' \/ (k = c.node /\ ~c.forMyUid)
                      /\ c.held[v] = 0 => k \notin c.forNodes \ {n} /\ ~Got(m, k)'
    BY <1>1, <1>5, <1>9 DEF HeldFor
  <2>1. k \in Node
    BY Owned DEF IndInv
  <2>2. /\ c.held[v] > 0 => k \in c.forNodes \/ Got(m, k) \/ (k = c.node /\ ~c.forMyUid)
        /\ c.held[v] = 0 => k \notin c.forNodes /\ ~Got(m, k)
    BY <1>0 DEF IndInv, MsgInv, MsgOK, HeldFor
  <2> QED
    BY <1>0, <1>8, <2>1, <2>2
<1>12. KnownFor(m)'
  BY <1>0, <1>1, <1>5, <1>8, <1>9 DEF IndInv, MsgInv, MsgOK, KnownFor
<1>13. ListFor(m)'
  <2>1. ListFor(m) /\ Past(m)' = Past(m)
    BY <1>5 DEF IndInv, MsgInv, MsgOK, Past
  <2>2. \A s, v : Reached(s, v)' = Reached(s, v)
    BY DEF Reached, GroupGetUsers
  <2> HIDE DEF c
  <2>3. c = call[m]
    BY DEF c
  <2> QED
    BY <1>0, <1>5, <2>1, <2>2, <2>3 DEF ListFor
<1>14. DoneFor(m)'
  BY <1>5 DEF DoneFor
<1>15. MsgInv'
  <2>1. ASSUME NEW x \in Msg \ {m} PROVE MsgOK(x)'
    BY <1>1, <1>4, <1>8, MsgKept DEF IndInv, MsgInv
  <2> QED
    BY <1>10, <1>11, <1>12, <1>13, <1>14, <2>1 DEF MsgInv, MsgOK
<1>16. CopyInv'
  <2> SUFFICES ASSUME NEW e \in Edit, NEW x \in Msg, edit[e].at = "link",
                      call'[x].at = "done", x \in dir'[edit[e].node] \ acked[edit[e].node]
               PROVE  x \in edit[e].list \/ Got(x, edit[e].new)' \/ call'[x].node = edit[e].new
    BY <1>1 DEF CopyInv
  <2>1. x # m /\ call'[x] = call[x]
    BY <1>4, <1>5
  <2>2. edit[e].node \in Node /\ edit[e].new \in Node
    BY EditType, NoNode DEF IndInv, EditInv, Request
  <2> QED
    BY <1>1, <2>1, <2>2, <1>8 DEF IndInv, CopyInv, Got
<1>17. NodeInherits'
  <2> SUFFICES ASSUME NEW k \in Node, NEW x \in Msg, parent[k] # None,
                      call'[x].at = "done", x \in dir'[parent[k]] \ acked[parent[k]]
               PROVE  Got(x, k)' \/ call'[x].node = k
    BY <1>1 DEF NodeInherits, Got
  <2>1. x # m /\ call'[x] = call[x]
    BY <1>4, <1>5
  <2>2. parent[k] \in Node
    BY DEF IndInv, TypeOK
  <2> QED
    BY <2>1, <2>2, <1>8 DEF IndInv, NodeInherits, Got
<1> QED
  BY <1>6, <1>7, <1>15, <1>16, <1>17 DEF IndInv

\* _queueMsg returns: every node of a user it had open has the message, or is the one
\* that sent it.
LEMMA ReturnStep ==
  ASSUME IndInv, NEW m \in Msg, Return(m)
  PROVE  IndInv'
<1> DEFINE c == call[m]
<1>0. /\ Opened(m) /\ Running(m) /\ c \in Call /\ c.forNodes = {}
      /\ c.uids = {} /\ c.todo = <<>>
  BY CallType DEF Return, Opened, Running, IndInv
<1>1. /\ UNCHANGED <<nodes, dir, acked, parent, edit, crashes>>
      /\ call' = [call EXCEPT ![m].at = "done", ![m].held = NoLocks]
  BY DEF Return
<1>2. NoLocks \in [User -> Nat]
  BY DEF NoLocks
<1>4. /\ call'[m] = [c EXCEPT !.at = "done", !.held = NoLocks]
      /\ \A x \in Msg \ {m} : call'[x] = call[x]
  BY <1>0, <1>1 DEF IndInv, TypeOK, Call
<1>5. /\ call'[m] \in Call /\ call'[m].at = "done" /\ call'[m].to = c.to
      /\ call'[m].uid = c.uid /\ call'[m].node = c.node
  <2> HIDE DEF c
  <2> QED
    BY <1>0, <1>2, <1>4 DEF Call
<1>6. TypeOK'
  BY <1>1, <1>5 DEF IndInv, TypeOK
<1>7. NumInv' /\ EditInv'
  BY <1>1, NumKept, EditKept DEF IndInv
<1>8. \A x \in Msg, k \in Node : Got(x, k)' <=> Got(x, k)
  BY <1>1 DEF Got
<1>9. \A u \in User : \A k \in nodes[u] :
        /\ c.held[u] > 0 => Got(m, k) \/ (k = c.node /\ ~c.forMyUid)
        /\ c.held[u] = 0 => ~Got(m, k)
  BY <1>0 DEF IndInv, MsgInv, MsgOK, HeldFor
<1>10. \A i \in 1..Len(c.to) : \A u \in Reached(c.to[i], c.uid) :
         /\ u \in User /\ c.held[u] > 0
         /\ c.to[i].type # "self" /\ u = c.uid => c.forMyUid
  <2>1. Past(m) = Len(c.to)
    <3>1. Len(c.todo) = 0 /\ Len(c.to) \in Nat
      BY <1>0 DEF Call
    <3> QED
      BY <3>1 DEF Past
  <2> QED
    BY <1>0, <2>1 DEF IndInv, MsgInv, MsgOK, ListFor
<1>11. DoneFor(m)'
  <2>1. c.to \in Seq(Target) /\ DOMAIN c.to = 1..Len(c.to)
    BY <1>0 DEF Call
  <2>2. Recipients(m)' = Recipients(m) /\ ToMyself(m)' = ToMyself(m)
    BY <1>5 DEF Recipients, ToMyself, Reached, GroupGetUsers
  <2>3. \A u \in Recipients(m) : u \in User /\ c.held[u] > 0
    BY <2>1, <1>10 DEF Recipients
  <2>4. ToMyself(m) => c.forMyUid
    BY <2>1, <1>10 DEF ToMyself
  <2>5. ASSUME NEW u \in Recipients(m)
        PROVE  /\ u \in User
               /\ Got(m, First(u))' \/ (First(u) = c.node /\ ~ToMyself(m))
    <3>1. u \in User /\ c.held[u] > 0
      BY <2>3
    <3>2. First(u) \in nodes[u] /\ First(u) \in Node
      BY <3>1, Owned, FirstNode DEF IndInv
    <3> QED
      BY <3>1, <3>2, <2>4, <1>8, <1>9
  <2> HIDE DEF c
  <2> QED
    BY <1>5, <2>2, <2>5 DEF DoneFor
<1>12. MsgOK(m)'
  <2>1. PostFor(m)' /\ HeldFor(m)' /\ ListFor(m)'
    BY <1>5 DEF PostFor, HeldFor, ListFor, Running
  <2>2. KnownFor(m)'
    BY <1>1, <1>5, <1>8 DEF IndInv, MsgInv, MsgOK, KnownFor, Running
  <2> QED
    BY <1>11, <2>1, <2>2 DEF MsgOK
<1>13. MsgInv'
  BY <1>1, <1>4, <1>12, OthersKept
<1>14. ASSUME NEW u \in User, NEW p \in nodes[u], NEW k \in nodes[u], m \in dir[p]
       PROVE  Got(m, k) \/ k = c.node
  <2>1. c.held[u] \in Nat /\ Got(m, p)
    BY <1>0, <1>14 DEF Call, Got
  <2>2. c.held[u] > 0
    BY <2>1, <1>9
  <2> QED
    BY <2>2, <1>9
<1>15. CopyInv'
  <2> SUFFICES ASSUME NEW e \in Edit, NEW x \in Msg, edit[e].at = "link",
                      call'[x].at = "done", x \in dir[edit[e].node] \ acked[edit[e].node]
               PROVE  x \in edit[e].list \/ Got(x, edit[e].new)' \/ call'[x].node = edit[e].new
    BY <1>1 DEF CopyInv
  <2>1. /\ edit[e] \in Request /\ edit[e].new \in Node
        /\ edit[e].node \in nodes[edit[e].uid] /\ edit[e].new \in nodes[edit[e].uid]
    BY EditType, NoNode DEF IndInv, EditInv, Request, Usable
  <2>2. edit[e].uid \in User
    BY <2>1 DEF Request
  <2>3. CASE x = m
    BY <1>1, <2>1, <2>2, <2>3, <1>5, <1>14 DEF Got
  <2>4. CASE x # m
    <3>1. call'[x] = call[x]
      BY <2>4, <1>4
    <3>2. x \in edit[e].list \/ Got(x, edit[e].new) \/ call[x].node = edit[e].new
      BY <3>1 DEF IndInv, CopyInv
    <3> QED
      BY <3>1, <3>2, <1>1 DEF Got
  <2> QED
    BY <2>3, <2>4
<1>16. NodeInherits'
  <2> SUFFICES ASSUME NEW k \in Node, NEW x \in Msg, parent[k] # None,
                      call'[x].at = "done", x \in dir[parent[k]] \ acked[parent[k]]
               PROVE  Got(x, k) \/ call'[x].node = k
    BY <1>1 DEF NodeInherits, Got
  <2>1. PICK u \in User : k \in nodes[u] /\ parent[k] \in nodes[u]
    BY DEF IndInv, EditInv, Usable
  <2>2. CASE x = m
    BY <2>1, <2>2, <1>5, <1>14
  <2>3. CASE x # m
    BY <2>3, <1>4 DEF IndInv, NodeInherits, Got
  <2> QED
    BY <2>2, <2>3
<1> QED
  BY <1>6, <1>7, <1>13, <1>15, <1>16 DEF IndInv

\* An ack moves a message from a queue to what was acked there.
LEMMA RmLinkStep ==
  ASSUME IndInv, NEW u \in User, NEW n \in Node, NEW m \in Msg, RmLink(u, n, m)
  PROVE  IndInv'
<1>1. /\ UNCHANGED <<nodes, parent, call, edit, crashes>>
      /\ m \in dir[n]
      /\ dir' = [dir EXCEPT ![n] = @ \ {m}] /\ acked' = [acked EXCEPT ![n] = @ \cup {m}]
  BY DEF RmLink
<1>2. TypeOK'
  BY <1>1 DEF IndInv, TypeOK
<1>3. NumInv' /\ EditInv'
  BY <1>1, NumKept, EditKept DEF IndInv
<1>4. /\ \A x \in Msg, k \in Node : Got(x, k)' <=> Got(x, k)
      /\ \A x \in Msg, k \in Node : x \in dir'[k] \ acked'[k] => x \in dir[k] \ acked[k]
  BY <1>1 DEF Got, IndInv, TypeOK
<1>5. MsgInv'
  <2> SUFFICES ASSUME NEW x \in Msg PROVE MsgOK(x)'
    BY DEF MsgInv
  <2> QED
    BY <1>1, <1>4, MsgKept DEF IndInv, MsgInv
<1>6. CopyInv'
  <2> SUFFICES ASSUME NEW e \in Edit, NEW x \in Msg, edit[e].at = "link",
                      call[x].at = "done", x \in dir'[edit[e].node] \ acked'[edit[e].node]
               PROVE  x \in edit[e].list \/ Got(x, edit[e].new)' \/ call[x].node = edit[e].new
    BY <1>1 DEF CopyInv
  <2>1. edit[e].node \in Node /\ edit[e].new \in Node
    BY EditType, NoNode DEF IndInv, EditInv, Request
  <2> QED
    BY <1>1, <2>1, <1>4 DEF IndInv, CopyInv, Got
<1>7. NodeInherits'
  <2> SUFFICES ASSUME NEW k \in Node, NEW x \in Msg, parent[k] # None,
                      call[x].at = "done", x \in dir'[parent[k]] \ acked'[parent[k]]
               PROVE  Got(x, k)' \/ call[x].node = k
    BY <1>1 DEF NodeInherits, Got
  <2>1. parent[k] \in Node
    BY DEF IndInv, TypeOK
  <2> QED
    BY <2>1, <1>4 DEF IndInv, NodeInherits, Got
<1> QED
  BY <1>2, <1>3, <1>5, <1>6, <1>7 DEF IndInv

-----------------------------------------------------------------------------
(* The steps of UserEdit.                                                   *)

\* A step of requests alone.
LEMMA CallsKept ==
  ASSUME IndInv, UNCHANGED <<nodes, dir, acked, call, parent>>
  PROVE  NumInv' /\ MsgInv' /\ NodeInherits'
<1>1. \A x \in Msg, k \in Node : Got(x, k)' <=> Got(x, k)
  BY DEF Got
<1>2. ASSUME NEW x \in Msg PROVE MsgOK(x)'
  BY <1>1, MsgKept DEF IndInv, MsgInv
<1>3. NodeInherits'
  BY DEF IndInv, NodeInherits
<1> QED
  BY <1>2, <1>3, NumKept DEF IndInv, MsgInv

\* UserEdit starts, and the steps that give no node.
LEMMA EditOnlyStep ==
  ASSUME IndInv, NEW e \in Edit,
         \/ \E u \in User, n \in Node, newnode \in BOOLEAN : UserEdit(e, u, n, newnode)
         \/ AddAlias(e) \/ AddNodeMax(e) \/ GetDir(e)
  PROVE  IndInv'
<1>1. UNCHANGED <<nodes, dir, acked, parent, call, crashes>>
  BY DEF UserEdit, AddAlias, AddNodeMax, GetDir
<1>2. /\ \A f \in Edit \ {e} : edit'[f] = edit[f]
      /\ edit'[e] \in Request
      /\ Usable(edit'[e].uid, edit'[e].node)
      /\ \/ edit'[e].at \in {"lock", "done"} /\ edit'[e].new = None
         \/ /\ edit[e].at = "copy" /\ edit'[e].at = "link" /\ edit[e] \in Request
            /\ edit'[e].new = edit[e].new /\ edit'[e].uid = edit[e].uid
            /\ edit'[e].node = edit[e].node /\ edit'[e].list = dir[edit[e].node]
      /\ edit' \in [Edit -> Request \cup {Idle, Dead}]
  <2>0. edit \in [Edit -> Request \cup {Idle, Dead}]
    BY DEF IndInv, TypeOK
  <2>1. CASE \E u \in User, n \in Node, newnode \in BOOLEAN : UserEdit(e, u, n, newnode)
    <3>1. PICK u \in User, n \in Node, newnode \in BOOLEAN : UserEdit(e, u, n, newnode)
      BY <2>1
    <3> DEFINE new == [at |-> "lock", uid |-> u, node |-> n,
                       newnode |-> newnode, new |-> None, list |-> {}]
    <3>2. edit' = [edit EXCEPT ![e] = new] /\ Usable(u, n)
      BY <3>1 DEF UserEdit
    <3>3. /\ new \in Request /\ new.at = "lock" /\ new.new = None
          /\ new.uid = u /\ new.node = n
      BY DEF Request
    <3> HIDE DEF new
    <3> QED
      BY <2>0, <3>2, <3>3
  <2>2. CASE AddAlias(e) \/ AddNodeMax(e)
    <3>1. edit[e].at = "lock" /\ edit' = [edit EXCEPT ![e].at = "done"]
      BY <2>2 DEF AddAlias, AddNodeMax
    <3>2. edit[e] \in Request /\ edit[e].new = None /\ Usable(edit[e].uid, edit[e].node)
      BY <3>1, EditType DEF IndInv, EditInv
    <3>3. edit'[e] = [edit[e] EXCEPT !.at = "done"]
      BY <2>0, <3>1, <3>2 DEF Request
    <3>4. /\ edit'[e] \in Request /\ edit'[e].at = "done" /\ edit'[e].new = None
          /\ edit'[e].uid = edit[e].uid /\ edit'[e].node = edit[e].node
      BY <3>2, <3>3 DEF Request
    <3> QED
      BY <2>0, <3>1, <3>2, <3>4
  <2>3. CASE GetDir(e)
    <3>1. /\ edit[e].at = "copy"
          /\ edit' = [edit EXCEPT ![e].at = "link", ![e].list = dir[edit[e].node]]
      BY <2>3 DEF GetDir
    <3>2. edit[e] \in Request /\ Usable(edit[e].uid, edit[e].node)
      BY <3>1, EditType DEF IndInv, EditInv
    <3>3. dir[edit[e].node] \in SUBSET Msg
      BY <3>2 DEF Request, IndInv, TypeOK
    <3>4. edit'[e] = [edit[e] EXCEPT !.at = "link", !.list = dir[edit[e].node]]
      BY <2>0, <3>1, <3>2 DEF Request
    <3>5. /\ edit'[e] \in Request /\ edit'[e].at = "link" /\ edit'[e].new = edit[e].new
          /\ edit'[e].uid = edit[e].uid /\ edit'[e].node = edit[e].node
          /\ edit'[e].list = dir[edit[e].node]
      BY <3>2, <3>3, <3>4 DEF Request
    <3> QED
      BY <2>0, <3>1, <3>2, <3>5
  <2> QED
    BY <2>1, <2>2, <2>3
<1>3. TypeOK'
  BY <1>1, <1>2 DEF IndInv, TypeOK
<1>4. NumInv' /\ MsgInv' /\ NodeInherits'
  BY <1>1, CallsKept
<1>5. \A u, n : Usable(u, n)' <=> Usable(u, n)
  BY <1>1 DEF Usable
<1>6. EditInv'
  <2>1. \A f \in Edit : edit'[f].at \in {"lock", "copy", "link", "done"} =>
          /\ Usable(edit'[f].uid, edit'[f].node)
          /\ edit'[f].at = "lock" => edit'[f].new = None
          /\ edit'[f].at \in {"copy", "link"} =>
               edit'[f].new # None /\ parent'[edit'[f].new] = None
          /\ edit'[f].new # None => /\ edit'[f].new \in nodes'[edit'[f].uid]
                                    /\ edit'[f].new # First(edit'[f].uid)
    BY <1>1, <1>2 DEF IndInv, EditInv
  <2>2. OwnQueue'
    <3>1. edit'[e].new = None \/ (edit'[e].new = edit[e].new /\ edit[e].at = "copy"
                                  /\ edit'[e].uid = edit[e].uid)
      BY <1>2
    <3> QED
      BY <3>1, <1>2 DEF IndInv, EditInv, OwnQueue, First, qid
  <2>3. \A n \in Node : parent'[n] # None =>
          \E u \in User : n \in nodes'[u] /\ Usable(u, parent'[n])
    BY <1>1 DEF IndInv, EditInv
  <2>4. \A u : First(u)' = First(u)
    BY DEF First, qid
  <2> QED
    BY <1>1, <1>5, <2>1, <2>2, <2>3, <2>4 DEF EditInv, Usable
<1>7. CopyInv'
  <2> SUFFICES ASSUME NEW f \in Edit, NEW x \in Msg, edit'[f].at = "link",
                      call[x].at = "done", x \in dir[edit'[f].node] \ acked[edit'[f].node]
               PROVE  x \in edit'[f].list \/ Got(x, edit[f].new)' \/ call[x].node = edit'[f].new
    BY <1>1 DEF CopyInv
  <2>1. CASE f = e
    BY <2>1, <1>2
  <2>2. CASE f # e
    BY <2>2, <1>1, <1>2 DEF IndInv, CopyInv, Got
  <2> QED
    BY <2>1, <2>2
<1> QED
  BY <1>3, <1>4, <1>6, <1>7 DEF IndInv

\* AddNode under the lock: no _queueMsg that has listed the user's nodes is under way.
LEMMA AddNodeStep ==
  ASSUME IndInv, NEW e \in Edit, AddNode(e)
  PROVE  IndInv'
<1> DEFINE u == edit[e].uid
           new == NewNode(u)
<1>0. edit[e].at = "lock" /\ edit[e] \in Request /\ u \in User /\ edit[e].new = None
      /\ Usable(u, edit[e].node) /\ edit[e].node \in Node
  <2>1. edit[e].at = "lock" /\ edit[e] \in Request
    BY EditType DEF AddNode, IndInv
  <2> QED
    BY <2>1 DEF Request, IndInv, EditInv
<1>1. /\ UNCHANGED <<dir, acked, parent, call, crashes>>
      /\ nodes' = [nodes EXCEPT ![u] = @ \cup {new}]
      /\ edit' = [edit EXCEPT ![e].at = "copy", ![e].new = new]
      /\ ~Reading(u) /\ Cardinality(nodes[u]) # UserNodeMax
  BY DEF AddNode
<1>2. /\ new = <<u, Cardinality(nodes[u]) + 1>> /\ new \in Node
      /\ new \notin nodes[u] /\ new # First(u) /\ new # None
  BY <1>0, <1>1, Free, NoNode DEF IndInv
<1> HIDE DEF new
<1>3. /\ \A f \in Edit \ {e} : edit'[f] = edit[f]
      /\ edit'[e] \in Request /\ edit'[e].at = "copy" /\ edit'[e].new = new
      /\ edit'[e].uid = u /\ edit'[e].node = edit[e].node
      /\ edit' \in [Edit -> Request \cup {Idle, Dead}]
  <2>0. edit \in [Edit -> Request \cup {Idle, Dead}]
    BY DEF IndInv, TypeOK
  <2>1. edit'[e] = [edit[e] EXCEPT !.at = "copy", !.new = new]
    BY <2>0, <1>0, <1>1 DEF Request
  <2>2. /\ edit'[e] \in Request /\ edit'[e].at = "copy" /\ edit'[e].new = new
        /\ edit'[e].uid = u /\ edit'[e].node = edit[e].node
    BY <2>1, <1>0, <1>2 DEF Request
  <2> QED
    BY <2>0, <2>2, <1>1
<1>4. /\ nodes'[u] = nodes[u] \cup {new} /\ \A v \in User \ {u} : nodes'[v] = nodes[v]
      /\ nodes' \in [User -> SUBSET Node]
  BY <1>0, <1>1, <1>2 DEF IndInv, TypeOK
<1>5. TypeOK'
  BY <1>1, <1>3, <1>4 DEF IndInv, TypeOK
<1>6. NumInv'
  <2> SUFFICES ASSUME NEW v \in User
               PROVE  /\ IsFiniteSet(nodes'[v]) /\ Cardinality(nodes'[v]) \in 1..UserNodeMax
                      /\ nodes'[v] = {<<v, k>> : k \in 1..Cardinality(nodes'[v])}
    BY DEF NumInv
  <2>1. /\ IsFiniteSet(nodes[v]) /\ Cardinality(nodes[v]) \in 1..UserNodeMax
        /\ nodes[v] = {<<v, k>> : k \in 1..Cardinality(nodes[v])}
    BY DEF IndInv, NumInv
  <2>2. CASE v = u
    <3> DEFINE c == Cardinality(nodes[u])
    <3>1. IsFiniteSet(nodes'[u]) /\ Cardinality(nodes'[u]) = c + 1
      <4>1. IsFiniteSet(nodes[u]) /\ new \notin nodes[u]
        BY <2>1, <2>2, <1>2
      <4>2. /\ IsFiniteSet(nodes[u] \cup {new})
            /\ Cardinality(nodes[u] \cup {new}) = c + 1
        BY <4>1, FS_AddElement
      <4>3. nodes'[u] = nodes[u] \cup {new}
        BY <1>4
      <4> QED
        BY <4>2, <4>3
    <3>2. c \in 1..UserNodeMax /\ c # UserNodeMax /\ nodes[u] = {<<u, k>> : k \in 1..c}
      BY <2>1, <2>2, <1>1
    <3>3. nodes'[u] = {<<u, k>> : k \in 1..c} \cup {<<u, c + 1>>}
      BY <3>2, <1>2, <1>4
    <3> HIDE DEF c
    <3>4. c + 1 \in 1..UserNodeMax /\ 1..(c + 1) = 1..c \cup {c + 1}
      BY <3>2, NumAssumption
    <3>5. nodes'[u] = {<<u, k>> : k \in 1..(c + 1)}
      BY <3>3, <3>4
    <3> QED
      BY <2>2, <3>1, <3>4, <3>5
  <2>3. CASE v # u
    BY <2>1, <2>3, <1>4
  <2> QED
    BY <2>2, <2>3
<1>7. \A v \in User : nodes[v] \subseteq nodes'[v]
  BY <1>4
<1>8. \A v \in User, n \in Node : Usable(v, n) => Usable(v, n)'
  BY <1>1, <1>7 DEF Usable
<1>9. /\ \A v \in User : new \notin nodes[v]
      /\ parent[new] = None
  <2>1. \A v \in User : new \notin nodes[v]
    <3> SUFFICES ASSUME NEW v \in User, new \in nodes[v] PROVE FALSE
      OBVIOUS
    <3>1. new[1] = v /\ new[1] = u
      BY <1>2, Owned DEF IndInv
    <3> QED
      BY <3>1, <1>2
  <2> QED
    BY <2>1, <1>2 DEF IndInv, EditInv
<1>10. EditInv'
  <2>1. ASSUME NEW f \in Edit, edit'[f].at \in {"lock", "copy", "link", "done"}
        PROVE  /\ Usable(edit[f].uid, edit[f].node)'
               /\ edit'[f].at = "lock" => edit'[f].new = None
               /\ edit'[f].at \in {"copy", "link"} =>
                    edit'[f].new # None /\ parent'[edit'[f].new] = None
               /\ edit'[f].new # None => /\ edit'[f].new \in nodes'[edit'[f].uid]
                                         /\ edit'[f].new # First(edit[f].uid)'
    <3>1. CASE f = e
      <4>1. Usable(u, edit[e].node)'
        BY <1>0, <1>8, <1>1, <1>3 DEF Usable
      <4> QED
        BY <3>1, <1>0, <1>1, <1>2, <1>3, <1>4, <1>9, <4>1 DEF Usable, First, qid
    <3>2. CASE f # e
      <4>1. edit'[f] = edit[f] /\ edit[f] \in Request
        BY <3>2, <2>1, <1>3, EditType DEF IndInv
      <4>2. edit[f].uid \in User /\ edit[f].node \in Node
        BY <4>1 DEF Request
      <4>3. Usable(edit[f].uid, edit[f].node)
        BY <4>1, <2>1 DEF IndInv, EditInv
      <4>4. Usable(edit[f].uid, edit[f].node)'
        BY <4>1, <4>2, <4>3, <1>1, <1>7 DEF Usable, First, qid
      <4>5. /\ edit[f].at = "lock" => edit[f].new = None
            /\ edit[f].at \in {"copy", "link"} =>
                 edit[f].new # None /\ parent[edit[f].new] = None
            /\ edit[f].new # None => /\ edit[f].new \in nodes[edit[f].uid]
                                     /\ edit[f].new # First(edit[f].uid)
        BY <4>1, <2>1 DEF IndInv, EditInv
      <4> QED
        BY <4>1, <4>2, <4>4, <4>5, <1>1, <1>7 DEF First, qid
    <3> QED
      BY <3>1, <3>2
  <2>2. OwnQueue'
    <3> SUFFICES ASSUME NEW f \in Edit, edit'[f].at \in {"copy", "link", "done"},
                        edit'[f].new # None
                 PROVE  /\ edit'[f].new # First(edit'[f].uid)
                        /\ \A g \in Edit \ {f} : edit'[g].at \in {"copy", "link", "done"} =>
                                                   edit'[g].new # edit'[f].new
      BY DEF OwnQueue, First, qid
    <3>1. \A g \in Edit \ {e} : edit[g].at \in {"copy", "link", "done"} => edit[g].new # new
      <4> SUFFICES ASSUME NEW g \in Edit, edit[g].at \in {"copy", "link", "done"},
                          edit[g].new = new
                   PROVE  FALSE
        OBVIOUS
      <4>1. edit[g].uid \in User /\ edit[g].new \in nodes[edit[g].uid]
        BY <1>2, EditType DEF IndInv, EditInv, Request
      <4> QED
        BY <4>1, <1>9
    <3>2. CASE f = e
      BY <3>2, <3>1, <1>2, <1>3
    <3>3. CASE f # e
      BY <3>3, <3>1, <1>3 DEF IndInv, EditInv, OwnQueue
    <3> QED
      BY <3>2, <3>3
  <2>3. ASSUME NEW n \in Node, parent[n] # None
        PROVE  \E v \in User : n \in nodes'[v] /\ Usable(v, parent[n])'
    <3>1. PICK v \in User : n \in nodes[v] /\ Usable(v, parent[n])
      BY <2>3 DEF IndInv, EditInv
    <3>2. Usable(v, parent[n])'
      BY <3>1, <1>1, <1>7 DEF Usable, First, qid
    <3> QED
      BY <3>1, <3>2, <1>7
  <2> QED
    BY <1>1, <2>1, <2>2, <2>3 DEF EditInv
<1>11. \A x \in Msg, k \in Node : Got(x, k)' <=> Got(x, k)
  BY <1>1 DEF Got
<1>12. MsgInv'
  <2> SUFFICES ASSUME NEW x \in Msg PROVE MsgOK(x)'
    BY DEF MsgInv
  <2>1. Running(x)' = Running(x) /\ Opened(x)' = Opened(x) /\ call'[x] = call[x]
    BY <1>1 DEF Running, Opened
  <2>2. PostFor(x)'
    BY <2>1, <1>1, <1>11 DEF IndInv, MsgInv, MsgOK, PostFor
  <2>3. KnownFor(x)'
    <3>1. \A n \in Node : n[1] \in User
      BY DEF Node
    <3>2. ASSUME NEW n \in Node, n \in nodes[n[1]] PROVE n \in nodes'[n[1]]
      BY <3>1, <3>2, <1>7
    <3>3. ASSUME Running(x) PROVE call[x].forNodes \subseteq Node
      BY <3>3, CallType DEF Running, IndInv, Call
    <3> QED
      BY <2>1, <1>11, <3>2, <3>3 DEF IndInv, MsgInv, MsgOK, KnownFor
  <2>4. HeldFor(x)'
    <3> SUFFICES ASSUME Running(x), NEW v \in User, NEW n \in nodes'[v]
                 PROVE  /\ call[x].held[v] > 0 =>
                           \/ n \in call[x].forNodes
                           \/ Opened(x) /\ (Got(x, n)' \/ (n = call[x].node /\ ~call[x].forMyUid))
                        /\ call[x].held[v] = 0 => n \notin call[x].forNodes /\ ~Got(x, n)'
      BY <2>1 DEF HeldFor
    <3>1. CASE n \in nodes[v]
      <4>1. n \in Node
        BY <3>1, Owned DEF IndInv
      <4> QED
        BY <3>1, <4>1, <1>11 DEF IndInv, MsgInv, MsgOK, HeldFor
    <3>2. CASE n \notin nodes[v]
      <4>1. v = u /\ n = new
        BY <3>2, <1>4
      <4>2. ~(call[x].held[u] > 0)
        BY <1>1 DEF Reading
      <4>3. new[1] = u
        BY <1>2
      <4>4. new \notin call[x].forNodes /\ ~Got(x, new)
        BY <1>9, <1>2, <4>3, <1>0 DEF IndInv, MsgInv, MsgOK, KnownFor
      <4>5. ~Got(x, n)'
        BY <4>1, <4>4, <1>1 DEF Got
      <4> QED
        BY <4>1, <4>2, <4>4, <4>5
    <3> QED
      BY <3>1, <3>2
  <2>5. ListFor(x)'
    <3>1. ListFor(x) /\ Past(x)' = Past(x)
      BY <2>1 DEF IndInv, MsgInv, MsgOK, Past
    <3>2. \A s, v : Reached(s, v)' = Reached(s, v)
      BY DEF Reached, GroupGetUsers
    <3> QED
      BY <2>1, <3>1, <3>2 DEF ListFor
  <2>6. DoneFor(x)'
    <3>1. Recipients(x)' = Recipients(x) /\ ToMyself(x)' = ToMyself(x)
      BY <2>1 DEF Recipients, ToMyself, Reached, GroupGetUsers
    <3>2. \A v : Got(x, First(v))' <=> Got(x, First(v))
      BY <1>1 DEF Got, First, qid
    <3> QED
      BY <2>1, <3>1, <3>2 DEF IndInv, MsgInv, MsgOK, DoneFor, First, qid
  <2> QED
    BY <2>2, <2>3, <2>4, <2>5, <2>6 DEF MsgOK
<1>13. CopyInv'
  <2> SUFFICES ASSUME NEW f \in Edit, NEW x \in Msg, edit'[f].at = "link",
                      call[x].at = "done", x \in dir[edit'[f].node] \ acked[edit'[f].node]
               PROVE  x \in edit'[f].list \/ Got(x, edit[f].new)' \/ call[x].node = edit'[f].new
    BY <1>1 DEF CopyInv
  <2>1. edit'[f] = edit[f]
    BY <1>3
  <2>2. x \in edit[f].list \/ Got(x, edit[f].new) \/ call[x].node = edit[f].new
    BY <2>1 DEF IndInv, CopyInv
  <2> QED
    BY <1>1, <2>1, <2>2 DEF Got
<1>14. NodeInherits'
  BY <1>1 DEF IndInv, NodeInherits
<1> QED
  BY <1>5, <1>6, <1>10, <1>12, <1>13, <1>14 DEF IndInv

\* What a request's new node is not: the node of a request, or a parent.
LEMMA NewIsNew ==
  ASSUME IndInv, NEW e \in Edit, edit[e].at \in {"copy", "link"}
  PROVE  /\ edit[e] \in Request /\ edit[e].uid \in User
         /\ edit[e].node \in Node /\ edit[e].new \in Node
         /\ edit[e].node \in nodes[edit[e].uid] /\ edit[e].new \in nodes[edit[e].uid]
         /\ \A u \in User : ~Usable(u, edit[e].new)
<1>1. /\ edit[e] \in Request /\ edit[e].new # None /\ parent[edit[e].new] = None
      /\ edit[e].new \in nodes[edit[e].uid] /\ edit[e].new # First(edit[e].uid)
      /\ Usable(edit[e].uid, edit[e].node)
  BY EditType DEF IndInv, EditInv
<1>2. edit[e].uid \in User /\ edit[e].node \in Node /\ edit[e].new \in Node
  BY <1>1 DEF Request
<1>3. ASSUME NEW u \in User, Usable(u, edit[e].new) PROVE FALSE
  <2>1. u = edit[e].uid
    BY <1>1, <1>2, <1>3, OneOwner DEF IndInv, Usable
  <2> QED
    BY <2>1, <1>1, <1>3 DEF Usable
<1> QED
  BY <1>1, <1>2, <1>3 DEF Usable

LEMMA CopyLinkStep ==
  ASSUME IndInv, NEW e \in Edit, NEW m \in Msg, CopyLink(e, m)
  PROVE  IndInv'
<1> DEFINE u == edit[e].uid
           p == edit[e].node
           new == edit[e].new
<1>0. /\ edit[e].at = "link" /\ edit[e] \in Request /\ u \in User
      /\ p \in Node /\ new \in Node /\ p \in nodes[u] /\ new \in nodes[u]
      /\ \A v \in User : ~Usable(v, new)
  BY NewIsNew DEF CopyLink
<1>1. /\ UNCHANGED <<nodes, acked, parent, call, crashes>>
      /\ edit' = [edit EXCEPT ![e].list = @ \ {m}]
      /\ dir' = [dir EXCEPT ![new] = @ \cup (dir[p] \cap {m})]
  BY DEF CopyLink
<1>2. /\ \A f \in Edit \ {e} : edit'[f] = edit[f]
      /\ edit'[e] \in Request /\ edit'[e].at = "link" /\ edit'[e].new = new
      /\ edit'[e].uid = u /\ edit'[e].node = p /\ edit'[e].list = edit[e].list \ {m}
      /\ edit' \in [Edit -> Request \cup {Idle, Dead}]
  <2>0. edit \in [Edit -> Request \cup {Idle, Dead}]
    BY DEF IndInv, TypeOK
  <2>1. edit'[e] = [edit[e] EXCEPT !.list = @ \ {m}]
    BY <2>0, <1>0, <1>1 DEF Request
  <2>2. /\ edit'[e] \in Request /\ edit'[e].at = "link" /\ edit'[e].new = new
        /\ edit'[e].uid = u /\ edit'[e].node = p /\ edit'[e].list = edit[e].list \ {m}
    BY <2>1, <1>0 DEF Request
  <2> QED
    BY <2>0, <2>2, <1>1
<1>3. TypeOK'
  <2>1. dir' \in [Node -> SUBSET Msg]
    BY <1>0, <1>1 DEF IndInv, TypeOK
  <2> QED
    BY <1>1, <1>2, <2>1 DEF IndInv, TypeOK
<1>4. NumInv'
  BY <1>1, NumKept DEF IndInv
<1>5. EditInv'
  <2>1. \A f \in Edit : /\ edit'[f].at = edit[f].at
                        /\ edit[f].at \in {"lock", "copy", "link", "done"} =>
                             /\ edit'[f].uid = edit[f].uid /\ edit'[f].node = edit[f].node
                             /\ edit'[f].new = edit[f].new
    BY <1>0, <1>2
  <2>2. OwnQueue'
    BY <2>1 DEF IndInv, EditInv, OwnQueue, First, qid
  <2> QED
    BY <1>1, <2>1, <2>2 DEF IndInv, EditInv, Usable, First, qid
<1>6. /\ \A x \in Msg, k \in Node : k # new \/ x # m => (Got(x, k)' <=> Got(x, k))
      /\ \A x \in Msg, k \in Node : Got(x, k) => Got(x, k)'
      /\ \A k \in Node : k # new => dir'[k] = dir[k]
      /\ m \notin dir[p] => dir' = dir
      /\ m \in dir[p] => Got(m, new)'
  BY <1>0, <1>1, <1>2 DEF Got, IndInv, TypeOK
<1>7. MsgInv'
  <2> SUFFICES ASSUME NEW x \in Msg PROVE MsgOK(x)'
    BY DEF MsgInv
  <2>1. call'[x] = call[x] /\ nodes' = nodes
    BY <1>1
  <2>2. CASE x # m
    BY <2>1, <2>2, <1>6, MsgKept DEF IndInv, MsgInv
  <2>3. CASE m \notin dir[p]
    <3>1. \A k \in Node : Got(x, k)' <=> Got(x, k)
      BY <2>3, <1>1, <1>6 DEF Got
    <3> QED
      BY <2>1, <3>1, MsgKept DEF IndInv, MsgInv
  <2>4. CASE x = m /\ m \in dir[p]
    <3>1. Running(m)' = Running(m) /\ Opened(m)' = Opened(m) /\ call'[m] = call[m]
          /\ MsgOK(m) /\ Got(m, p)
      BY <2>4, <1>1 DEF Running, Opened, Got, IndInv, MsgInv
    <3>2. PostFor(m)'
      BY <3>1, <1>0 DEF MsgOK, PostFor
    <3>3. KnownFor(m)'
      <4>1. new \in nodes[new[1]]
        BY <1>0, Owned DEF IndInv
      <4> QED
        BY <3>1, <2>1, <1>6, <4>1 DEF MsgOK, KnownFor
    <3>4. HeldFor(m)'
      <4> SUFFICES ASSUME Running(m), NEW v \in User, NEW n \in nodes[v]
                   PROVE  /\ call[m].held[v] > 0 =>
                             \/ n \in call[m].forNodes
                             \/ Opened(m) /\ (Got(m, n)' \/ (n = call[m].node /\ ~call[m].forMyUid))
                          /\ call[m].held[v] = 0 => n \notin call[m].forNodes /\ ~Got(m, n)'
        BY <2>1, <3>1 DEF HeldFor
      <4>1. n \in Node
        BY Owned DEF IndInv
      <4>2. /\ call[m].held[v] > 0 =>
               \/ n \in call[m].forNodes
               \/ Opened(m) /\ (Got(m, n) \/ (n = call[m].node /\ ~call[m].forMyUid))
            /\ call[m].held[v] = 0 => n \notin call[m].forNodes /\ ~Got(m, n)
        BY <3>1 DEF MsgOK, HeldFor
      <4>3. call[m].held[u] # 0
        BY <1>0, <3>1 DEF MsgOK, HeldFor
      <4>4. n = new => v = u
        BY <1>0, OneOwner DEF IndInv
      <4> QED
        BY <4>1, <4>2, <4>3, <4>4, <1>6
    <3>5. ListFor(m)'
      <4>1. Past(m)' = Past(m)
        BY <3>1 DEF Past
      <4>2. \A s, v : Reached(s, v)' = Reached(s, v)
        BY DEF Reached, GroupGetUsers
      <4> QED
        BY <3>1, <4>1, <4>2, SMTT(30) DEF MsgOK, ListFor
    <3>6. DoneFor(m)'
      <4>1. Recipients(m)' = Recipients(m) /\ ToMyself(m)' = ToMyself(m)
        BY <3>1 DEF Recipients, ToMyself, Reached, GroupGetUsers
      <4>2. \A v \in User : Got(m, First(v)) => Got(m, First(v))'
        BY <1>6, FirstNode
      <4> QED
        BY <3>1, <4>1, <4>2 DEF MsgOK, DoneFor
    <3> QED
      BY <2>4, <3>2, <3>3, <3>4, <3>5, <3>6 DEF MsgOK
  <2> QED
    BY <2>2, <2>3, <2>4
<1>8. CopyInv'
  <2> SUFFICES ASSUME NEW f \in Edit, NEW x \in Msg, edit'[f].at = "link",
                      call[x].at = "done", x \in dir'[edit'[f].node] \ acked[edit'[f].node]
               PROVE  x \in edit'[f].list \/ Got(x, edit[f].new)' \/ call[x].node = edit'[f].new
    BY <1>1 DEF CopyInv
  <2>1. /\ edit[f].at = "link" /\ edit'[f].node = edit[f].node /\ edit'[f].new = edit[f].new
        /\ f # e => edit'[f].list = edit[f].list
    BY <1>0, <1>2
  <2>2. /\ edit[f].new \in Node /\ edit[f].node \in Node
        /\ edit[f].node # new
    BY <2>1, <1>0, NewIsNew DEF IndInv, EditInv
  <2>3. x \in edit[f].list \/ Got(x, edit[f].new) \/ call[x].node = edit[f].new
    BY <2>1, <2>2, <1>6 DEF IndInv, CopyInv
  <2>4. Got(x, edit[f].new) => Got(x, edit[f].new)'
    <3>1. x \in acked[edit[f].new] \/ x \in dir[edit[f].new] =>
            x \in acked'[edit[f].new] \/ x \in dir'[edit[f].new]
      BY <2>2, <1>6 DEF Got
    <3> QED
      BY <3>1, <2>1 DEF Got
  <2>5. CASE f = e /\ x = m
    <3>1. m \in dir[p]
      BY <2>1, <2>2, <2>5, <1>6
    <3>2. Got(x, edit[f].new)'
      BY <2>5, <3>1, <1>6
    <3> QED
      BY <3>2
  <2>6. CASE f = e /\ x # m
    BY <2>1, <2>3, <2>4, <2>6, <1>2
  <2>7. CASE f # e
    BY <2>1, <2>3, <2>4, <2>7
  <2> QED
    BY <2>5, <2>6, <2>7
<1>9. NodeInherits'
  <2> SUFFICES ASSUME NEW k \in Node, NEW x \in Msg, parent[k] # None,
                      call[x].at = "done", x \in dir'[parent[k]] \ acked[parent[k]]
               PROVE  Got(x, k)' \/ call[x].node = k
    BY <1>1 DEF NodeInherits, Got
  <2>1. parent[k] \in Node /\ parent[k] # new
    BY <1>0 DEF IndInv, TypeOK, EditInv
  <2>2. Got(x, k) \/ call[x].node = k
    BY <2>1, <1>6 DEF IndInv, NodeInherits, Got
  <2> QED
    BY <2>2, <1>6
<1> QED
  BY <1>3, <1>4, <1>5, <1>7, <1>8, <1>9 DEF IndInv

\* The copy is complete: the new node misses nothing of its parent's.
LEMMA CopyDoneStep ==
  ASSUME IndInv, NEW e \in Edit, CopyDone(e)
  PROVE  IndInv'
<1> DEFINE u == edit[e].uid
           p == edit[e].node
           new == edit[e].new
<1>0. /\ edit[e].at = "link" /\ edit[e] \in Request /\ u \in User
      /\ p \in Node /\ new \in Node /\ p \in nodes[u] /\ new \in nodes[u]
      /\ \A v \in User : ~Usable(v, new)
  BY NewIsNew DEF CopyDone
<1>1. /\ UNCHANGED <<nodes, dir, acked, call, crashes>>
      /\ edit' = [edit EXCEPT ![e].at = "done"]
      /\ parent' = [parent EXCEPT ![new] = p]
      /\ edit[e].list = {}
  BY DEF CopyDone
<1>2. /\ \A f \in Edit \ {e} : edit'[f] = edit[f]
      /\ edit'[e] \in Request /\ edit'[e].at = "done" /\ edit'[e].new = new
      /\ edit'[e].uid = u /\ edit'[e].node = p
      /\ edit' \in [Edit -> Request \cup {Idle, Dead}]
  <2>0. edit \in [Edit -> Request \cup {Idle, Dead}]
    BY DEF IndInv, TypeOK
  <2>1. edit'[e] = [edit[e] EXCEPT !.at = "done"]
    BY <2>0, <1>0, <1>1 DEF Request
  <2>2. /\ edit'[e] \in Request /\ edit'[e].at = "done" /\ edit'[e].new = new
        /\ edit'[e].uid = u /\ edit'[e].node = p
    BY <2>1, <1>0 DEF Request
  <2> QED
    BY <2>0, <2>2, <1>1
<1>3. /\ parent'[new] = p /\ \A k \in Node \ {new} : parent'[k] = parent[k]
      /\ parent' \in [Node -> Node \cup {None}] /\ p # None
  BY <1>0, <1>1, NoNode DEF IndInv, TypeOK
<1>4. TypeOK'
  BY <1>1, <1>2, <1>3 DEF IndInv, TypeOK
<1>5. NumInv'
  BY <1>1, NumKept DEF IndInv
<1>6. \A v \in User, n \in Node : Usable(v, n) =>
        n \in nodes'[v] /\ (n = First(v) \/ parent'[n] # None)
  BY <1>1, <1>3 DEF Usable
<1>7. EditInv'
  <2>1. ASSUME NEW f \in Edit, edit'[f].at \in {"lock", "copy", "link", "done"}
        PROVE  /\ Usable(edit[f].uid, edit[f].node)'
               /\ edit'[f].at = "lock" => edit'[f].new = None
               /\ edit'[f].at \in {"copy", "link"} =>
                    edit'[f].new # None /\ parent'[edit'[f].new] = None
               /\ edit'[f].new # None => /\ edit'[f].new \in nodes'[edit'[f].uid]
                                         /\ edit'[f].new # First(edit[f].uid)'
    <3>1. /\ edit[f].at \in {"lock", "copy", "link", "done"}
          /\ edit'[f].uid = edit[f].uid /\ edit'[f].node = edit[f].node
          /\ edit'[f].new = edit[f].new
          /\ edit'[f].at = edit[f].at \/ edit'[f].at = "done"
      BY <2>1, <1>0, <1>2
    <3>2. edit[f] \in Request
      BY <3>1, EditType DEF IndInv
    <3>3. edit[f].uid \in User /\ edit[f].node \in Node /\ edit[f].new \in Node \cup {None}
      BY <3>2 DEF Request
    <3>4. /\ Usable(edit[f].uid, edit[f].node)
          /\ edit[f].at = "lock" => edit[f].new = None
          /\ edit[f].at \in {"copy", "link"} =>
               edit[f].new # None /\ parent[edit[f].new] = None
          /\ edit[f].new # None => /\ edit[f].new \in nodes[edit[f].uid]
                                   /\ edit[f].new # First(edit[f].uid)
      BY <3>1 DEF IndInv, EditInv
    <3>5. Usable(edit[f].uid, edit[f].node)'
      BY <3>1, <3>3, <3>4, <1>6 DEF Usable, First, qid
    <3>6. ASSUME edit'[f].at \in {"copy", "link"}
          PROVE  edit[f].new # None /\ parent'[edit[f].new] = None
      <4>1. f # e /\ edit[f].at \in {"copy", "link"}
        BY <3>6, <3>1, <1>2
      <4>2. new # None
        BY <1>0, NoNode
      <4>3. edit[f].new # new
        BY <4>1, <4>2, <1>0 DEF IndInv, EditInv, OwnQueue
      <4> QED
        BY <4>1, <4>3, <3>3, <3>4, <1>3
    <3> QED
      BY <3>1, <3>4, <3>5, <3>6, <1>1 DEF First, qid
  <2>2. OwnQueue'
    <3>1. \A f \in Edit : edit'[f].at \in {"copy", "link", "done"} =>
            /\ edit[f].at \in {"copy", "link", "done"}
            /\ edit'[f].uid = edit[f].uid /\ edit'[f].new = edit[f].new
      BY <1>0, <1>2
    <3> QED
      BY <3>1 DEF IndInv, EditInv, OwnQueue, First, qid
  <2>3. ASSUME NEW n \in Node, parent'[n] # None
        PROVE  \E v \in User : n \in nodes'[v] /\ Usable(v, parent[n])'
    <3>1. CASE n = new
      <4>1. Usable(u, p)
        BY <1>0 DEF IndInv, EditInv
      <4> QED
        BY <3>1, <4>1, <1>0, <1>1, <1>3, <1>6 DEF Usable, First, qid
    <3>2. CASE n # new
      <4>1. PICK v \in User : n \in nodes[v] /\ Usable(v, parent[n])
        BY <3>2, <2>3, <1>3 DEF IndInv, EditInv
      <4>2. parent'[n] = parent[n] /\ parent[n] \in Node
        BY <3>2, <2>3, <1>3
      <4>3. Usable(v, parent[n])'
        BY <4>1, <4>2, <1>6 DEF Usable, First, qid
      <4> QED
        BY <4>1, <4>3, <1>1
    <3> QED
      BY <3>1, <3>2
  <2> QED
    BY <2>1, <2>2, <2>3 DEF EditInv
<1>8. MsgInv'
  <2> SUFFICES ASSUME NEW x \in Msg PROVE MsgOK(x)'
    BY DEF MsgInv
  <2>1. \A k \in Node : Got(x, k)' <=> Got(x, k)
    BY <1>1 DEF Got
  <2> QED
    BY <1>1, <2>1, MsgKept DEF IndInv, MsgInv
<1>9. CopyInv'
  <2> SUFFICES ASSUME NEW f \in Edit, NEW x \in Msg, edit'[f].at = "link",
                      call[x].at = "done", x \in dir[edit'[f].node] \ acked[edit'[f].node]
               PROVE  x \in edit'[f].list \/ Got(x, edit[f].new)' \/ call[x].node = edit'[f].new
    BY <1>1 DEF CopyInv
  <2>1. edit'[f] = edit[f]
    BY <1>2
  <2>2. x \in edit[f].list \/ Got(x, edit[f].new) \/ call[x].node = edit[f].new
    BY <2>1 DEF IndInv, CopyInv
  <2> QED
    BY <1>1, <2>1, <2>2 DEF Got
<1>10. NodeInherits'
  <2> SUFFICES ASSUME NEW k \in Node, NEW x \in Msg, parent'[k] # None,
                      call[x].at = "done", x \in dir[parent'[k]] \ acked[parent'[k]]
               PROVE  Got(x, k) \/ call[x].node = k
    BY <1>1 DEF NodeInherits, Got
  <2>1. CASE k = new
    BY <2>1, <1>0, <1>1, <1>3 DEF IndInv, CopyInv
  <2>2. CASE k # new
    BY <2>2, <1>3 DEF IndInv, NodeInherits, Got
  <2> QED
    BY <2>1, <2>2
<1> QED
  BY <1>4, <1>5, <1>7, <1>8, <1>9, <1>10 DEF IndInv

-----------------------------------------------------------------------------
(* The server dies; the theorems.                                           *)

LEMMA CrashStep ==
  ASSUME IndInv, Crash
  PROVE  IndInv'
<1>1. /\ UNCHANGED <<nodes, dir, acked, parent>>
      /\ crashes < MaxCrash /\ crashes' = crashes + 1
      /\ \A x \in Msg : call'[x] = IF Running(x) THEN Dead ELSE call[x]
      /\ \A f \in Edit : edit'[f] = IF edit[f].at \in {"lock", "copy", "link"} THEN Dead
                                                                             ELSE edit[f]
      /\ call' = [x \in Msg |-> IF Running(x) THEN Dead ELSE call[x]]
      /\ edit' = [f \in Edit |-> IF edit[f].at \in {"lock", "copy", "link"} THEN Dead
                                                                          ELSE edit[f]]
  BY DEF Crash
<1>2. TypeOK'
  <2>1. crashes' \in 0..MaxCrash
    BY <1>1, BoundAssumption DEF IndInv, TypeOK
  <2>2. call' \in [Msg -> Call \cup {Idle, Dead}]
    BY <1>1 DEF IndInv, TypeOK
  <2>3. edit' \in [Edit -> Request \cup {Idle, Dead}]
    BY <1>1 DEF IndInv, TypeOK
  <2> QED
    BY <1>1, <2>1, <2>2, <2>3 DEF IndInv, TypeOK
<1>3. NumInv'
  BY <1>1, NumKept DEF IndInv
<1>4. \A f \in Edit : edit'[f].at \in {"lock", "copy", "link", "done"} =>
        edit'[f] = edit[f] /\ edit'[f].at = "done"
  <2>1. Dead.at = "dead"
    BY DEF Dead
  <2> QED
    BY <1>1, <2>1
<1>5. EditInv'
  <2>1. OwnQueue'
    BY <1>4 DEF IndInv, EditInv, OwnQueue, First, qid
  <2> QED
    BY <1>1, <1>4, <2>1 DEF IndInv, EditInv, Usable, First, qid
<1>6. \A x \in Msg, k \in Node : Got(x, k)' <=> Got(x, k)
  BY <1>1 DEF Got
<1>7. MsgInv'
  <2> SUFFICES ASSUME NEW x \in Msg PROVE MsgOK(x)'
    BY DEF MsgInv
  <2>1. CASE Running(x)
    <3>1. call'[x].at = "dead"
      BY <2>1, <1>1 DEF Dead
    <3> QED
      BY <3>1, <1>1, <1>6
         DEF IndInv, MsgInv, MsgOK, PostFor, HeldFor, KnownFor, ListFor, DoneFor, Running
  <2>2. CASE ~Running(x)
    BY <2>2, <1>1, <1>6, MsgKept DEF IndInv, MsgInv
  <2> QED
    BY <2>1, <2>2
<1>8. \A x \in Msg : call'[x].at = "done" => call'[x] = call[x]
  BY <1>1 DEF Dead
<1>9. CopyInv'
  BY <1>4 DEF CopyInv
<1>10. NodeInherits'
  BY <1>1, <1>8 DEF IndInv, NodeInherits
<1> QED
  BY <1>2, <1>3, <1>5, <1>7, <1>9, <1>10 DEF IndInv

LEMMA NextInv == IndInv /\ [Next]_vars => IndInv'
<1> SUFFICES ASSUME IndInv, [Next]_vars PROVE IndInv'
  OBVIOUS
<1>1. ASSUME NEW m \in Msg, PosterStep(m) PROVE IndInv'
  BY <1>1, NextForStep, FailForStep, ReturnStep, OpenNodesStep, PutLinkStep DEF PosterStep
<1>2. ASSUME NEW e \in Edit, EditStep(e) PROVE IndInv'
  BY <1>2, EditOnlyStep, AddNodeStep, CopyDoneStep, CopyLinkStep DEF EditStep
<1>3. ASSUME NEW u \in User, NEW n \in Node,
             \/ \E m \in Msg, for \in ForList, iSelf \in BOOLEAN : Post(m, u, n, for, iSelf)
             \/ \E m \in Msg : RmLink(u, n, m)
             \/ \E e \in Edit, newnode \in BOOLEAN : UserEdit(e, u, n, newnode)
      PROVE  IndInv'
  BY <1>3, PostStep, RmLinkStep, EditOnlyStep
<1>4. CASE Crash
  BY <1>4, CrashStep
<1>5. CASE UNCHANGED vars
  <2>1. UNCHANGED <<nodes, dir, acked, parent, call, edit, crashes>>
    BY <1>5 DEF vars
  <2>2. TypeOK'
    BY <2>1 DEF IndInv, TypeOK
  <2>3. CopyInv'
    BY <2>1, CopyKept
  <2> QED
    BY <2>1, <2>2, <2>3, CallsKept, EditKept DEF IndInv
<1> QED
  BY <1>1, <1>2, <1>3, <1>4, <1>5 DEF Next

\* The inductive invariant holds with any number of posts, edits and crashes.
THEOREM Invariance == Spec => []IndInv
<1> QED
  BY InitInv, NextInv, PTL DEF Spec

\* The state keeps its shape.
THEOREM TypeCorrect == Spec => []TypeOK
<1>1. IndInv => TypeOK
  BY DEF IndInv
<1> QED
  BY <1>1, Invariance, PTL

\* A post that _queueMsg reports as done reached every recipient, whatever the list
\* repeats and whichever nodes are added meanwhile.
THEOREM PostsFanned == Spec => []Fanned
<1>1. IndInv => Fanned
  BY DEF IndInv, MsgInv, MsgOK, DoneFor, Fanned, Got
<1> QED
  BY <1>1, Invariance, PTL

\* UserEdit's new node misses no message that its parent has yet to deliver: the
\* lock on the user keeps a post from falling between AddNode and copyDir.
THEOREM NewNodesInherit == Spec => []NodeInherits
<1>1. IndInv => NodeInherits
  BY DEF IndInv
<1> QED
  BY <1>1, Invariance, PTL

\* _queueMsg links nothing before the whole list is resolved, so that an error means
\* that nobody got the message.
THEOREM ErrorsReachNobody == Spec => []NoneOnError
<1>1. IndInv => NoneOnError
  BY DEF IndInv, MsgInv, MsgOK, PostFor, NoneOnError, Got
<1> QED
  BY <1>1, Invariance, PTL

\* AddNode's numbers never collide below kUserNodeMax.
THEOREM QueuesAreOwn == Spec => []OwnQueue
<1>1. IndInv => OwnQueue
  BY DEF IndInv, EditInv
<1> QED
  BY <1>1, Invariance, PTL
-----------------------------------------------------------------------------
(* Only recipients get a message (OnlyRecipients).                          *)

\* The sending node is one that a client can log in to.
SentFrom(m) ==
  call[m].at \in {"run", "done"} => Usable(call[m].uid, call[m].node)

\* What _queueMsg has yet to open or to link is for recipients, and it takes the
\* sender's user for one only if the list names it.
OnlyFor(m) ==
  Running(m) =>
    /\ call[m].uids \subseteq Recipients(m)
    /\ \A n \in call[m].forNodes : n[1] \in Recipients(m)
    /\ call[m].uid \in call[m].uids /\ call[m].type # "self" => ToMyself(m)
    /\ call[m].forMyUid => ToMyself(m)

\* OnlyRecipients for one message.
Only(m) ==
  call[m].at \in {"run", "done"} =>
    \A n \in Node : Got(m, n) =>
      n[1] \in Recipients(m) /\ (n = call[m].node => ToMyself(m))

OnlyOK(m) == SentFrom(m) /\ OnlyFor(m) /\ Only(m)
OnlyInv   == \A m \in Msg : OnlyOK(m)

\* A step that keeps the list and its sender keeps the recipients.
LEMMA SameList ==
  ASSUME NEW m \in Msg, call'[m].to = call[m].to, call'[m].uid = call[m].uid
  PROVE  Recipients(m)' = Recipients(m) /\ ToMyself(m)' = ToMyself(m)
BY DEF Recipients, ToMyself, Reached, GroupGetUsers

\* A node that can be logged in to stays one.
LEMMA UsableKept ==
  ASSUME IndInv, [Next]_vars, NEW u \in User, NEW n \in Node, Usable(u, n)
  PROVE  Usable(u, n)'
<1> SUFFICES /\ n \in nodes'[u]
             /\ parent[n] # None => parent'[n] # None
  BY DEF Usable, First, qid
<1>1. nodes \in [User -> SUBSET Node] /\ parent \in [Node -> Node \cup {None}]
      /\ n \in nodes[u]
  BY DEF IndInv, TypeOK, Usable
<1>2. ASSUME NEW e \in Edit, AddNode(e) PROVE n \in nodes'[u] /\ parent' = parent
  BY <1>1, <1>2 DEF AddNode
<1>3. ASSUME NEW e \in Edit, CopyDone(e)
      PROVE  nodes' = nodes /\ (parent[n] # None => parent'[n] # None)
  <2>1. edit[e].node \in Node /\ edit[e].node # None
    BY <1>3, NewIsNew, NoNode DEF CopyDone
  <2>2. nodes' = nodes /\ parent' = [parent EXCEPT ![edit[e].new] = edit[e].node]
    BY <1>3 DEF CopyDone
  <2> QED
    BY <1>1, <2>1, <2>2
<1> DEFINE Kept == n \in nodes'[u] /\ (parent[n] # None => parent'[n] # None)
<1>4. ASSUME NEW m \in Msg, PosterStep(m) PROVE Kept
  <2>1. NextFor(m) \/ FailFor(m) \/ Return(m) => UNCHANGED <<nodes, parent>>
    BY DEF NextFor, FailFor, Return
  <2>2. ASSUME NEW v \in User, OpenNodes(m, v) PROVE UNCHANGED <<nodes, parent>>
    BY <2>2 DEF OpenNodes
  <2>3. ASSUME NEW k \in Node, PutLink(m, k) PROVE UNCHANGED <<nodes, parent>>
    BY <2>3 DEF PutLink
  <2> QED
    BY <1>1, <1>4, <2>1, <2>2, <2>3 DEF PosterStep
<1>5. ASSUME NEW e \in Edit, EditStep(e) PROVE Kept
  <2>1. AddAlias(e) \/ AddNodeMax(e) \/ GetDir(e) \/ (\E m \in Msg : CopyLink(e, m))
          => UNCHANGED <<nodes, parent>>
    BY DEF AddAlias, AddNodeMax, GetDir, CopyLink
  <2> QED
    BY <1>1, <1>2, <1>3, <1>5, <2>1 DEF EditStep
<1>6. ASSUME NEW v \in User, NEW k \in Node,
             \/ \E m \in Msg, for \in ForList, iSelf \in BOOLEAN : Post(m, v, k, for, iSelf)
             \/ \E m \in Msg : RmLink(v, k, m)
             \/ \E e \in Edit, newnode \in BOOLEAN : UserEdit(e, v, k, newnode)
      PROVE  Kept
  <2>1. \A m \in Msg, for \in ForList, iSelf \in BOOLEAN :
          Post(m, v, k, for, iSelf) => UNCHANGED <<nodes, parent>>
    BY DEF Post
  <2>2. \A m \in Msg : RmLink(v, k, m) => UNCHANGED <<nodes, parent>>
    BY DEF RmLink
  <2>3. \A e \in Edit, newnode \in BOOLEAN :
          UserEdit(e, v, k, newnode) => UNCHANGED <<nodes, parent>>
    BY DEF UserEdit
  <2> QED
    BY <1>1, <1>6, <2>1, <2>2, <2>3
<1>7. ASSUME Crash \/ UNCHANGED vars PROVE Kept
  BY <1>1, <1>7 DEF Crash, vars
<1> HIDE DEF Kept
<1>8. Kept
  BY <1>4, <1>5, <1>6, <1>7 DEF Next
<1> QED
  BY <1>8 DEF Kept

\* A call that a step does not touch, while no further node gets its message.
LEMMA OnlyKept ==
  ASSUME IndInv, [Next]_vars, NEW m \in Msg, OnlyOK(m), call'[m] = call[m],
         \A n \in Node : Got(m, n)' => Got(m, n)
  PROVE  OnlyOK(m)'
<1>1. Recipients(m)' = Recipients(m) /\ ToMyself(m)' = ToMyself(m)
  BY SameList
<1>2. SentFrom(m)'
  <2> SUFFICES ASSUME call[m].at \in {"run", "done"}
               PROVE  Usable(call[m].uid, call[m].node)'
    BY DEF SentFrom
  <2>1. call[m].uid \in User /\ call[m].node \in Node
    BY CallType DEF IndInv, Call
  <2> QED
    BY <2>1, UsableKept DEF OnlyOK, SentFrom
<1>3. OnlyFor(m)' /\ Only(m)'
  BY <1>1 DEF OnlyOK, OnlyFor, Only, Running
<1> QED
  BY <1>2, <1>3 DEF OnlyOK

\* A step of the call of m that gives no node anything.
LEMMA OnlyCall ==
  ASSUME IndInv, [Next]_vars, OnlyInv, NEW m \in Msg, UNCHANGED <<dir, acked>>,
         \A x \in Msg \ {m} : call'[x] = call[x], OnlyOK(m)'
  PROVE  OnlyInv'
<1>1. \A x \in Msg, n \in Node : Got(x, n)' <=> Got(x, n)
  BY DEF Got
<1> QED
  BY <1>1, OnlyKept DEF OnlyInv

LEMMA PostOnly ==
  ASSUME IndInv, [Next]_vars, OnlyInv,
         NEW m \in Msg, NEW u \in User, NEW n \in Node, NEW for \in ForList,
         NEW iSelf \in BOOLEAN, Post(m, u, n, for, iSelf)
  PROVE  OnlyInv'
<1>1. /\ UNCHANGED <<nodes, dir, acked, parent>>
      /\ call[m].at = "idle" /\ Usable(u, n)
  BY DEF Post, Idle
<1>2. /\ call'[m].at = "run" /\ call'[m].uid = u /\ call'[m].node = n
      /\ call'[m].uids = {} /\ call'[m].forNodes = {} /\ call'[m].forMyUid = FALSE
      /\ \A x \in Msg \ {m} : call'[x] = call[x]
  BY DEF Post, IndInv, TypeOK
<1>3. \A k \in Node : ~Got(m, k)'
  BY <1>1 DEF IndInv, MsgInv, MsgOK, PostFor, Got
<1>4. SentFrom(m)'
  BY <1>1, <1>2 DEF SentFrom, Usable, First, qid
<1>5. OnlyFor(m)' /\ Only(m)'
  BY <1>2, <1>3 DEF OnlyFor, Only
<1>6. OnlyOK(m)'
  BY <1>4, <1>5 DEF OnlyOK
<1> QED
  BY <1>1, <1>2, <1>6, OnlyCall

LEMMA NextForOnly ==
  ASSUME IndInv, [Next]_vars, OnlyInv, NEW m \in Msg, NextFor(m)
  PROVE  OnlyInv'
<1> DEFINE c == call[m]
           t == Head(c.todo)
<1>0. Running(m) /\ c \in Call /\ c.uids = {} /\ c.todo # <<>>
  BY CallType DEF NextFor, Running, IndInv
<1>1. /\ UNCHANGED <<nodes, dir, acked, parent, edit, crashes>>
      /\ call' = [call EXCEPT ![m].todo = Tail(@), ![m].type = t.type,
                              ![m].uids = Reached(t, c.uid)]
  BY DEF NextFor
<1>2. /\ call'[m] = [c EXCEPT !.todo = Tail(@), !.type = t.type, !.uids = Reached(t, c.uid)]
      /\ \A x \in Msg \ {m} : call'[x] = call[x]
  BY <1>0, <1>1 DEF IndInv, TypeOK, Call
<1>3. c.todo \in Seq(Target) /\ c.to \in Seq(Target) /\ c.at = "run"
      /\ c.uid \in User /\ c.node \in Node
  BY <1>0 DEF Call, Running
<1>4. /\ call'[m].at = "run" /\ call'[m].uid = c.uid /\ call'[m].node = c.node
      /\ call'[m].to = c.to /\ call'[m].type = t.type /\ call'[m].uids = Reached(t, c.uid)
      /\ call'[m].forNodes = c.forNodes /\ call'[m].forMyUid = c.forMyUid
  <2> HIDE DEF c, t
  <2> QED
    BY <1>0, <1>2, <1>3 DEF Call
<1>5. Recipients(m)' = Recipients(m) /\ ToMyself(m)' = ToMyself(m)
  BY <1>4, SameList
\* The entry taken is one of the list.
<1>6. PICK i \in DOMAIN c.to : c.to[i] = t
  <2>1. /\ Len(c.todo) \in Nat /\ Len(c.todo) > 0 /\ Len(c.to) \in Nat
        /\ t = c.todo[1] /\ DOMAIN c.to = 1..Len(c.to)
    BY <1>0, <1>3
  <2>2. /\ Past(m) \in 0..Len(c.to) /\ Past(m) = Len(c.to) - Len(c.todo)
        /\ \A j \in 1..Len(c.todo) : c.todo[j] = c.to[Past(m) + j]
    BY <1>0 DEF IndInv, MsgInv, MsgOK, ListFor, Past
  <2>3. c.todo[1] = c.to[Past(m) + 1]
    <3>1. 1 \in 1..Len(c.todo)
      BY <2>1
    <3> QED
      BY <2>2, <3>1
  <2>4. Past(m) + 1 \in 1..Len(c.to)
    <3> DEFINE a == Len(c.to)
               b == Len(c.todo)
               q == Past(m)
    <3>1. a \in Nat /\ b \in Nat /\ b > 0 /\ q \in 0..a /\ q = a - b
      BY <2>1, <2>2
    <3> HIDE DEF a, b, q
    <3>2. q + 1 \in 1..a
      BY <3>1
    <3> QED
      BY <3>2 DEF a, q
  <2> QED
    BY <2>1, <2>3, <2>4
<1>7. Reached(t, c.uid) \subseteq Recipients(m)
  BY <1>6 DEF Recipients
<1>8. c.uid \in Reached(t, c.uid) /\ t.type # "self" => ToMyself(m)
  BY <1>6 DEF ToMyself
<1>9. OnlyOK(m)
  BY DEF OnlyInv
<1>10. SentFrom(m)'
  <2>1. Usable(c.uid, c.node)
    BY <1>3, <1>9 DEF OnlyOK, SentFrom
  <2> QED
    BY <1>3, <1>4, <2>1, UsableKept DEF SentFrom
<1>11. OnlyFor(m)'
  <2>1. /\ \A n \in c.forNodes : n[1] \in Recipients(m)
        /\ c.forMyUid => ToMyself(m)
    BY <1>0, <1>9 DEF OnlyOK, OnlyFor
  <2> HIDE DEF c, t
  <2> QED
    BY <1>4, <1>5, <1>7, <1>8, <2>1 DEF OnlyFor
<1>12. Only(m)'
  <2>1. \A k \in Node : Got(m, k)' <=> Got(m, k)
    BY <1>1 DEF Got
  <2>2. Only(m) /\ c.at = "run"
    BY <1>3, <1>9 DEF OnlyOK
  <2> QED
    BY <1>4, <1>5, <2>1, <2>2 DEF Only
<1>13. OnlyOK(m)'
  BY <1>10, <1>11, <1>12 DEF OnlyOK
<1>14. UNCHANGED <<dir, acked>> /\ \A x \in Msg \ {m} : call'[x] = call[x]
  BY <1>1, <1>2, Zenon
<1> QED
  BY <1>13, <1>14, OnlyCall

LEMMA FailForOnly ==
  ASSUME IndInv, [Next]_vars, OnlyInv, NEW m \in Msg, FailFor(m)
  PROVE  OnlyInv'
<1>1. call[m] \in Call
  BY CallType DEF FailFor, Running, IndInv
<1>2. /\ UNCHANGED <<dir, acked>>
      /\ call' = [call EXCEPT ![m].at = "fail", ![m].held = NoLocks]
  BY DEF FailFor
<1>3. call'[m].at = "fail" /\ \A x \in Msg \ {m} : call'[x] = call[x]
  BY <1>1, <1>2 DEF IndInv, TypeOK, Call
<1>4. OnlyOK(m)'
  BY <1>3 DEF OnlyOK, SentFrom, OnlyFor, Only, Running
<1> QED
  BY <1>2, <1>3, <1>4, OnlyCall

LEMMA OpenNodesOnly ==
  ASSUME IndInv, [Next]_vars, OnlyInv, NEW m \in Msg, NEW u \in User, OpenNodes(m, u)
  PROVE  OnlyInv'
<1> DEFINE c == call[m]
           mine == c.forMyUid \/ (u = c.uid /\ c.type # "self")
<1>0. Running(m) /\ c \in Call /\ u \in c.uids
  BY CallType DEF OpenNodes, Running, IndInv
<1>1. /\ UNCHANGED <<nodes, dir, acked, parent, edit, crashes>>
      /\ call' = [call EXCEPT ![m].uids = @ \ {u},
                              ![m].held[u] = @ + 1,
                              ![m].forNodes = @ \cup nodes[u],
                              ![m].forMyUid = mine]
  BY DEF OpenNodes
<1>2. /\ call'[m] = [c EXCEPT !.uids = @ \ {u}, !.held = [c.held EXCEPT ![u] = @ + 1],
                              !.forNodes = @ \cup nodes[u], !.forMyUid = mine]
      /\ \A x \in Msg \ {m} : call'[x] = call[x]
  BY <1>0, <1>1 DEF IndInv, TypeOK, Call
<1>3. c.at = "run" /\ c.uid \in User /\ c.node \in Node
  BY <1>0 DEF Call, Running
<1>4. /\ call'[m].at = "run" /\ call'[m].uid = c.uid /\ call'[m].node = c.node
      /\ call'[m].to = c.to /\ call'[m].type = c.type /\ call'[m].uids = c.uids \ {u}
      /\ call'[m].forNodes = c.forNodes \cup nodes[u] /\ call'[m].forMyUid = mine
  <2> HIDE DEF c, mine
  <2> DEFINE h == [c.held EXCEPT ![u] = @ + 1]
             x == c.uids \ {u}
             y == c.forNodes \cup nodes[u]
  <2>1. call'[m] = [c EXCEPT !.uids = x, !.held = h, !.forNodes = y, !.forMyUid = mine]
    BY <1>0, <1>2 DEF Call
  <2> HIDE DEF h, x, y
  <2>2. /\ call'[m].at = c.at /\ call'[m].uid = c.uid /\ call'[m].node = c.node
        /\ call'[m].to = c.to /\ call'[m].type = c.type /\ call'[m].uids = x
        /\ call'[m].forNodes = y /\ call'[m].forMyUid = mine
    BY <2>1, <1>0 DEF Call
  <2> QED
    BY <2>2, <1>3 DEF x, y
<1>5. Recipients(m)' = Recipients(m) /\ ToMyself(m)' = ToMyself(m)
  BY <1>4, SameList
<1>6. OnlyOK(m)
  BY DEF OnlyInv
<1>7. SentFrom(m)'
  <2>1. Usable(c.uid, c.node)
    BY <1>3, <1>6 DEF OnlyOK, SentFrom
  <2> QED
    BY <1>3, <1>4, <2>1, UsableKept DEF SentFrom
<1>8. OnlyFor(m)'
  <2>1. /\ c.uids \subseteq Recipients(m)
        /\ \A n \in c.forNodes : n[1] \in Recipients(m)
        /\ c.uid \in c.uids /\ c.type # "self" => ToMyself(m)
        /\ c.forMyUid => ToMyself(m)
    BY <1>0, <1>6 DEF OnlyOK, OnlyFor
  <2>2. \A n \in nodes[u] : n[1] \in Recipients(m)
    BY <1>0, <2>1, Owned DEF IndInv
  <2>3. mine => ToMyself(m)
    BY <1>0, <2>1
  <2> HIDE DEF c, mine
  <2> QED
    BY <1>4, <1>5, <2>1, <2>2, <2>3 DEF OnlyFor
<1>9. Only(m)'
  <2>1. \A k \in Node : Got(m, k)' <=> Got(m, k)
    BY <1>1 DEF Got
  <2>2. Only(m) /\ c.at = "run"
    BY <1>3, <1>6 DEF OnlyOK
  <2> QED
    BY <1>4, <1>5, <2>1, <2>2 DEF Only
<1>10. OnlyOK(m)'
  BY <1>7, <1>8, <1>9 DEF OnlyOK
<1>11. UNCHANGED <<dir, acked>> /\ \A x \in Msg \ {m} : call'[x] = call[x]
  BY <1>1, <1>2, Zenon
<1> QED
  BY <1>10, <1>11, OnlyCall

LEMMA PutLinkOnly ==
  ASSUME IndInv, [Next]_vars, OnlyInv, NEW m \in Msg, NEW n \in Node, PutLink(m, n)
  PROVE  OnlyInv'
<1> DEFINE c == call[m]
           out == n = c.node /\ ~c.forMyUid
<1>0. Running(m) /\ c \in Call /\ n \in c.forNodes
  BY CallType DEF PutLink, Opened, Running, IndInv
<1>1. /\ call' = [call EXCEPT ![m].forNodes = @ \ {n}] /\ acked' = acked
      /\ dir' = IF out THEN dir ELSE [dir EXCEPT ![n] = @ \cup {m}]
  BY DEF PutLink
<1>2. /\ call'[m] = [c EXCEPT !.forNodes = @ \ {n}]
      /\ \A x \in Msg \ {m} : call'[x] = call[x]
  BY <1>0, <1>1 DEF IndInv, TypeOK, Call
<1>3. c.at = "run" /\ c.uid \in User /\ c.node \in Node
  BY <1>0 DEF Call, Running
<1>4. /\ call'[m].at = "run" /\ call'[m].uid = c.uid /\ call'[m].node = c.node
      /\ call'[m].to = c.to /\ call'[m].type = c.type /\ call'[m].uids = c.uids
      /\ call'[m].forNodes = c.forNodes \ {n} /\ call'[m].forMyUid = c.forMyUid
  <2> HIDE DEF c
  <2> QED
    BY <1>0, <1>2, <1>3 DEF Call
<1>5. Recipients(m)' = Recipients(m) /\ ToMyself(m)' = ToMyself(m)
  BY <1>4, SameList
<1>6. OnlyOK(m)
  BY DEF OnlyInv
<1>7. SentFrom(m)'
  <2>1. Usable(c.uid, c.node)
    BY <1>3, <1>6 DEF OnlyOK, SentFrom
  <2> QED
    BY <1>3, <1>4, <2>1, UsableKept DEF SentFrom
<1>8. /\ c.uids \subseteq Recipients(m)
      /\ \A k \in c.forNodes : k[1] \in Recipients(m)
      /\ c.uid \in c.uids /\ c.type # "self" => ToMyself(m)
      /\ c.forMyUid => ToMyself(m)
  BY <1>0, <1>6 DEF OnlyOK, OnlyFor
<1>9. OnlyFor(m)'
  <2> HIDE DEF c
  <2> QED
    BY <1>4, <1>5, <1>8 DEF OnlyFor
<1>10. /\ \A x \in Msg \ {m}, k \in Node : Got(x, k)' => Got(x, k)
       /\ \A k \in Node : Got(m, k)' => Got(m, k) \/ (k = n /\ ~out)
  BY <1>1 DEF Got, IndInv, TypeOK
<1>11. Only(m)'
  <2>1. \A k \in Node : Got(m, k) => k[1] \in Recipients(m) /\ (k = c.node => ToMyself(m))
    BY <1>3, <1>6 DEF OnlyOK, Only
  <2>2. n[1] \in Recipients(m) /\ (n = c.node /\ ~out => ToMyself(m))
    BY <1>0, <1>8
  <2> QED
    BY <1>4, <1>5, <1>10, <2>1, <2>2 DEF Only
<1> QED
  BY <1>2, <1>7, <1>9, <1>10, <1>11, OnlyKept DEF OnlyInv, OnlyOK

LEMMA ReturnOnly ==
  ASSUME IndInv, [Next]_vars, OnlyInv, NEW m \in Msg, Return(m)
  PROVE  OnlyInv'
<1> DEFINE c == call[m]
<1>0. Running(m) /\ c \in Call
  BY CallType DEF Return, Opened, Running, IndInv
<1>1. /\ UNCHANGED <<dir, acked>>
      /\ call' = [call EXCEPT ![m].at = "done", ![m].held = NoLocks]
  BY DEF Return
<1>2. /\ call'[m] = [c EXCEPT !.at = "done", !.held = NoLocks]
      /\ \A x \in Msg \ {m} : call'[x] = call[x]
  BY <1>0, <1>1 DEF IndInv, TypeOK, Call
<1>3. c.at = "run" /\ c.uid \in User /\ c.node \in Node
  BY <1>0 DEF Call, Running
<1>4. /\ call'[m].at = "done" /\ call'[m].uid = c.uid /\ call'[m].node = c.node
      /\ call'[m].to = c.to
  <2> HIDE DEF c
  <2> QED
    BY <1>0, <1>2, <1>3 DEF Call
<1>5. Recipients(m)' = Recipients(m) /\ ToMyself(m)' = ToMyself(m)
  BY <1>4, SameList
<1>6. OnlyOK(m)
  BY DEF OnlyInv
<1>7. SentFrom(m)'
  <2>1. Usable(c.uid, c.node)
    BY <1>3, <1>6 DEF OnlyOK, SentFrom
  <2> QED
    BY <1>3, <1>4, <2>1, UsableKept DEF SentFrom
<1>8. OnlyFor(m)'
  BY <1>4 DEF OnlyFor, Running
<1>9. Only(m)'
  <2>1. \A k \in Node : Got(m, k)' <=> Got(m, k)
    BY <1>1 DEF Got
  <2>2. Only(m) /\ c.at = "run"
    BY <1>3, <1>6 DEF OnlyOK
  <2> QED
    BY <1>4, <1>5, <2>1, <2>2 DEF Only
<1>10. OnlyOK(m)'
  BY <1>7, <1>8, <1>9 DEF OnlyOK
<1>11. UNCHANGED <<dir, acked>> /\ \A x \in Msg \ {m} : call'[x] = call[x]
  BY <1>1, <1>2, Zenon
<1> QED
  BY <1>10, <1>11, OnlyCall

\* copyDir gives the new node what another node of its user has got; that one is
\* not where anything was sent from, for no client knows it yet.
LEMMA CopyLinkOnly ==
  ASSUME IndInv, [Next]_vars, OnlyInv, NEW e \in Edit, NEW m \in Msg, CopyLink(e, m)
  PROVE  OnlyInv'
<1> DEFINE u == edit[e].uid
           p == edit[e].node
           new == edit[e].new
<1>0. /\ edit[e].at = "link" /\ u \in User /\ p \in Node /\ new \in Node
      /\ p \in nodes[u] /\ new \in nodes[u] /\ \A v \in User : ~Usable(v, new)
  BY NewIsNew DEF CopyLink
<1>1. /\ UNCHANGED <<nodes, acked, parent, call>>
      /\ dir' = [dir EXCEPT ![new] = @ \cup (dir[p] \cap {m})]
  BY DEF CopyLink
<1> HIDE DEF u, p, new
<1>2. /\ \A x \in Msg \ {m}, k \in Node : Got(x, k)' => Got(x, k)
      /\ \A k \in Node : Got(m, k)' => Got(m, k) \/ (k = new /\ Got(m, p))
  BY <1>0, <1>1 DEF Got, IndInv, TypeOK
<1>3. p[1] = u /\ new[1] = u
  BY <1>0, Owned DEF IndInv
<1>4. Recipients(m)' = Recipients(m) /\ ToMyself(m)' = ToMyself(m)
  BY <1>1, SameList
<1>5. OnlyOK(m)
  BY DEF OnlyInv
<1>6. SentFrom(m)' /\ OnlyFor(m)'
  BY <1>1, <1>4, <1>5 DEF OnlyOK, SentFrom, OnlyFor, Usable, First, qid, Running
<1>7. Only(m)'
  <2> SUFFICES ASSUME call[m].at \in {"run", "done"}, NEW k \in Node, Got(m, k)'
               PROVE  k[1] \in Recipients(m) /\ (k = call[m].node => ToMyself(m))
    BY <1>1, <1>4 DEF Only
  <2>1. \A n \in Node : Got(m, n) =>
          n[1] \in Recipients(m) /\ (n = call[m].node => ToMyself(m))
    BY <1>5 DEF OnlyOK, Only
  <2>2. call[m].node # new
    <3>1. call[m].uid \in User
      BY CallType DEF IndInv, Call
    <3> QED
      BY <3>1, <1>0, <1>5 DEF OnlyOK, SentFrom
  <2> QED
    BY <2>1, <2>2, <1>0, <1>2, <1>3
<1> QED
  BY <1>1, <1>2, <1>6, <1>7, OnlyKept DEF OnlyInv, OnlyOK

\* Steps that leave the calls alone and give no node a message.
LEMMA NothingGiven ==
  ASSUME IndInv, [Next]_vars, OnlyInv, call' = call,
         \A x \in Msg, k \in Node : Got(x, k)' => Got(x, k)
  PROVE  OnlyInv'
BY OnlyKept DEF OnlyInv

LEMMA CrashOnly ==
  ASSUME IndInv, [Next]_vars, OnlyInv, Crash
  PROVE  OnlyInv'
<1> SUFFICES ASSUME NEW m \in Msg PROVE OnlyOK(m)'
  BY DEF OnlyInv
<1>1. /\ call'[m] = IF Running(m) THEN Dead ELSE call[m]
      /\ UNCHANGED <<dir, acked>>
  BY DEF Crash
<1>2. CASE Running(m)
  <2>1. call'[m].at = "dead"
    BY <1>1, <1>2 DEF Dead
  <2> QED
    BY <2>1 DEF OnlyOK, SentFrom, OnlyFor, Only, Running
<1>3. CASE ~Running(m)
  <2>1. \A k \in Node : Got(m, k)' => Got(m, k)
    BY <1>1 DEF Got
  <2> QED
    BY <2>1, <1>1, <1>3, OnlyKept DEF OnlyInv
<1> QED
  BY <1>2, <1>3

LEMMA NextOnly == IndInv /\ OnlyInv /\ [Next]_vars => OnlyInv'
<1> SUFFICES ASSUME IndInv, OnlyInv, [Next]_vars PROVE OnlyInv'
  OBVIOUS
<1>1. ASSUME NEW m \in Msg, PosterStep(m) PROVE OnlyInv'
  BY <1>1, NextForOnly, FailForOnly, ReturnOnly, OpenNodesOnly, PutLinkOnly DEF PosterStep
<1>2. ASSUME NEW e \in Edit, EditStep(e) PROVE OnlyInv'
  <2>1. ASSUME AddAlias(e) \/ AddNode(e) \/ AddNodeMax(e) \/ GetDir(e) \/ CopyDone(e)
        PROVE  OnlyInv'
    <3>1. UNCHANGED <<call, dir, acked>>
      BY <2>1 DEF AddAlias, AddNode, AddNodeMax, GetDir, CopyDone
    <3> QED
      BY <3>1, NothingGiven DEF Got
  <2> QED
    BY <1>2, <2>1, CopyLinkOnly DEF EditStep
<1>3. ASSUME NEW u \in User, NEW n \in Node,
             \/ \E m \in Msg, for \in ForList, iSelf \in BOOLEAN : Post(m, u, n, for, iSelf)
             \/ \E m \in Msg : RmLink(u, n, m)
             \/ \E e \in Edit, newnode \in BOOLEAN : UserEdit(e, u, n, newnode)
      PROVE  OnlyInv'
  <2>1. ASSUME NEW m \in Msg, RmLink(u, n, m) PROVE OnlyInv'
    <3>1. call' = call /\ m \in dir[n]
          /\ dir' = [dir EXCEPT ![n] = @ \ {m}] /\ acked' = [acked EXCEPT ![n] = @ \cup {m}]
      BY <2>1 DEF RmLink
    <3>2. \A x \in Msg, k \in Node : Got(x, k)' => Got(x, k)
      BY <3>1 DEF Got, IndInv, TypeOK
    <3> QED
      BY <3>1, <3>2, NothingGiven
  <2>2. ASSUME NEW e \in Edit, NEW newnode \in BOOLEAN, UserEdit(e, u, n, newnode)
        PROVE  OnlyInv'
    <3>1. UNCHANGED <<call, dir, acked>>
      BY <2>2 DEF UserEdit
    <3> QED
      BY <3>1, NothingGiven DEF Got
  <2> QED
    BY <1>3, <2>1, <2>2, PostOnly
<1>4. CASE Crash
  BY <1>4, CrashOnly
<1>5. CASE UNCHANGED vars
  <2>1. UNCHANGED <<call, dir, acked>>
    BY <1>5 DEF vars
  <2> QED
    BY <2>1, NothingGiven DEF Got
<1> QED
  BY <1>1, <1>2, <1>3, <1>4, <1>5 DEF Next

\* A message never gets into the queue of a node whose user the list does not reach,
\* nor back to the node that sent it unless the list names its user, though copyDir
\* fills new nodes from the queues of others at any time.
THEOREM RecipientsOnly == Spec => []OnlyRecipients
<1>1. Init => OnlyInv
  BY DEF Init, OnlyInv, OnlyOK, SentFrom, OnlyFor, Only, Running, Idle
<1>2. OnlyInv => OnlyRecipients
  BY DEF OnlyInv, OnlyOK, Only, OnlyRecipients, Got
<1> QED
  BY <1>1, <1>2, NextOnly, Invariance, PTL DEF Spec
==============================================================================
