------------------------------- MODULE Fanout -------------------------------
(***************************************************************************)
(* Posting a message to the nodes of its recipients (_postMsg, _queueMsg)  *)
(* while users get new nodes (the newnode form of UserEdit: AddNode, then  *)
(* copyDir).  Both meet at the RWMutex of each tUser: OpenNodes takes it   *)
(* for reading and keeps it until the message is linked everywhere, AddNode *)
(* and AddAlias take it for writing.                                       *)
(*                                                                         *)
(* A node's queue is here the set of messages in its directory; NodeQueue  *)
(* has the rest of it.  Each message has its poster, and a user starts     *)
(* with the node that AddUser gave it.  Group membership stays as it is.   *)
(***************************************************************************)
EXTENDS Naturals, Sequences, FiniteSets, SequencesExt

CONSTANTS
  User, Msg, Group,
  Edit,       \* UserEdit requests
  Member(_),  \* the joined members of a group
  Invited(_), \* those invited to a group
  None,       \* no node, no user
  UserNodeMax, \* kUserNodeMax  (100)
  NumMod,     \* node numbers are modulo this  (uint8: 256)
  MaxTo,      \* bound on the length of a for list
  MaxCrash    \* bound on the number of crashes

ASSUME MemberAssumption == \A g \in Group : Member(g) \cup Invited(g) \subseteq User
ASSUME NoneAssumption   == None \notin User /\ None \notin User \X (0..(NumMod - 1))
ASSUME NumAssumption    == /\ UserNodeMax \in Nat /\ NumMod \in Nat
                           /\ 2 <= UserNodeMax /\ UserNodeMax < NumMod
ASSUME BoundAssumption  == MaxTo \in Nat /\ MaxCrash \in Nat

VARIABLES
  nodes,   \* tUser.Nodes: the nodes of each user
  dir,     \* messages in the directory of each node
  acked,   \* history: messages acked by each node's client
  parent,  \* history: the node whose queue a new node was given
  call,    \* the _queueMsg call for each message
  edit,    \* the UserEdit request of each link
  crashes  \* number of crashes so far

vars == <<nodes, dir, acked, parent, call, edit, crashes>>

\* A node is its queue's name, qid: the user and the node's number.
Node     == User \X (0..(NumMod - 1))
qid(u, k) == <<u, k % NumMod>>

\* The node that AddUser gives a user.
First(u) == qid(u, 1)

\* Entries of a for list: a user (eForUser), the sender's own nodes (eForSelf),
\* a group with or without the sender (eForGroupAll, eForGroupExcl).  None stands
\* for a uid that does not exist.
Target == [type : {"user"}, id : User \cup {None}] \cup
          [type : {"self"}, id : User] \cup
          [type : {"all", "excl"}, id : Group]

Call == [at : {"run", "done", "fail"}, uid : User, node : Node,
         to : Seq(Target), todo : Seq(Target), uids : SUBSET User,
         type : {"user", "self", "all", "excl"}, held : [User -> Nat],
         forNodes : SUBSET Node, forMyUid : BOOLEAN]
Request == [at : {"lock", "copy", "link", "done"}, uid : User, node : Node,
            newnode : BOOLEAN, new : Node \cup {None}, list : SUBSET Msg]
Idle == [at |-> "idle"]
Dead == [at |-> "dead"]

TypeOK ==
  /\ nodes \in [User -> SUBSET Node]
  /\ dir \in [Node -> SUBSET Msg]
  /\ acked \in [Node -> SUBSET Msg]
  /\ parent \in [Node -> Node \cup {None}]
  /\ call \in [Msg -> Call \cup {Idle, Dead}]
  /\ edit \in [Edit -> Request \cup {Idle, Dead}]
  /\ crashes \in 0..MaxCrash

Init ==
  /\ nodes = [u \in User |-> {First(u)}]
  /\ dir = [n \in Node |-> {}]
  /\ acked = [n \in Node |-> {}]
  /\ parent = [n \in Node |-> None]
  /\ call = [m \in Msg |-> Idle]
  /\ edit = [e \in Edit |-> Idle]
  /\ crashes = 0

\* A node a client can log in to: its id is known once UserEdit is through.
Usable(u, n) == n \in nodes[u] /\ (n = First(u) \/ parent[n] # None)

Running(m) == call[m].at = "run"

\* A link handles one request at a time, and a node has one link.
Busy(n) == \/ \E m \in Msg : Running(m) /\ call[m].node = n
           \/ \E e \in Edit : /\ edit[e].at \in {"lock", "copy", "link"}
                               /\ edit[e].node = n

\* The RWMutex of a tUser: its readers, and the writers that wait for them to
\* leave, behind which no new reader gets in.  (A second writer is only announced
\* to readers after the first; that it could have called Lock later is the same.)
Reading(u) == \E m \in Msg : Running(m) /\ call[m].held[u] > 0
Waiting(u) == \E e \in Edit : edit[e].at = "lock" /\ edit[e].uid = u

-----------------------------------------------------------------------------
(* _queueMsg.                                                               *)

\* A link of user u, node n, has received a message into temp/ and calls
\* _queueMsg; iSelf adds the sender's own nodes to the list.
Post(m, u, n, for, iSelf) ==
  /\ call[m] = Idle
  /\ Usable(u, n) /\ ~Busy(n)
  /\ LET to == IF iSelf THEN Append(for, [type |-> "self", id |-> u]) ELSE for
     IN  call' = [call EXCEPT ![m] =
           [at |-> "run", uid |-> u, node |-> n, to |-> to, todo |-> to,
            uids |-> {}, type |-> "self", held |-> [v \in User |-> 0],
            forNodes |-> {}, forMyUid |-> FALSE]]
  /\ UNCHANGED <<nodes, dir, acked, parent, edit, crashes>>

\* Mutant: a group's name is taken for a uid.
GroupGetUsers_AsUid(t) == IF t.type = "self" THEN {} ELSE {t.id}

\* GroupGetUsers, or the one user of the entry.
GroupGetUsers(t) == IF t.type \in {"all", "excl"} THEN Member(t.id) ELSE {t.id}

\* The users a sender reaches by an entry.
Reached(t, by) ==
  IF t.type = "excl" THEN GroupGetUsers(t) \ {by} ELSE GroupGetUsers(t)

\* GroupGetUsers refuses a sender that is neither member nor invited, OpenNodes
\* a uid it does not find.
Refused(t, by) ==
  \/ t.type \in {"all", "excl"} /\ by \notin Member(t.id) \cup Invited(t.id)
  \/ t.id = None

\* The next entry of the list.
NextFor(m) ==
  /\ Running(m)
  /\ call[m].uids = {} /\ call[m].todo # <<>>
  /\ LET t == Head(call[m].todo)
     IN  /\ ~Refused(t, call[m].uid)
         /\ call' = [call EXCEPT ![m].todo = Tail(@), ![m].type = t.type,
                                 ![m].uids = Reached(t, call[m].uid)]
  /\ UNCHANGED <<nodes, dir, acked, parent, edit, crashes>>

\* The deferred CloseNodes of every user opened: RUnlock.
NoLocks == [v \in User |-> 0]

\* An error returns at once, before any node is given the message.
FailFor(m) ==
  /\ Running(m)
  /\ call[m].uids = {} /\ call[m].todo # <<>>
  /\ Refused(Head(call[m].todo), call[m].uid)
  /\ call' = [call EXCEPT ![m].at = "fail", ![m].held = NoLocks]
  /\ UNCHANGED <<nodes, dir, acked, parent, edit, crashes>>

\* Mutant: the read lock is given up when the nodes are listed.
OpenNodes_Close(m, u) ==
  /\ Running(m)
  /\ u \in call[m].uids
  /\ ~Waiting(u)
  /\ call' = [call EXCEPT ![m].uids = @ \ {u},
                          ![m].forNodes = @ \cup nodes[u],
                          ![m].forMyUid = @ \/ (u = call[m].uid /\ call[m].type # "self")]
  /\ UNCHANGED <<nodes, dir, acked, parent, edit, crashes>>

\* Mutant: an entry for the sender's own nodes counts as naming its user.
OpenNodes_AnyType(m, u) ==
  /\ Running(m)
  /\ u \in call[m].uids
  /\ ~Waiting(u)
  /\ call' = [call EXCEPT ![m].uids = @ \ {u},
                          ![m].held[u] = @ + 1,
                          ![m].forNodes = @ \cup nodes[u],
                          ![m].forMyUid = @ \/ u = call[m].uid]
  /\ UNCHANGED <<nodes, dir, acked, parent, edit, crashes>>

\* OpenNodes of one user, and the loop over its nodes.
OpenNodes(m, u) ==
  /\ Running(m)
  /\ u \in call[m].uids
  /\ ~Waiting(u)
  /\ call' = [call EXCEPT ![m].uids = @ \ {u},
                          ![m].held[u] = @ + 1,
                          ![m].forNodes = @ \cup nodes[u],
                          ![m].forMyUid = @ \/ (u = call[m].uid /\ call[m].type # "self")]
  /\ UNCHANGED <<nodes, dir, acked, parent, edit, crashes>>

\* Every recipient is open.
Opened(m) == Running(m) /\ call[m].uids = {} /\ call[m].todo = <<>>

\* Mutant: the sender's node is always left out.
PutLink_NotMine(m, n) ==
  /\ Opened(m)
  /\ n \in call[m].forNodes
  /\ call' = [call EXCEPT ![m].forNodes = @ \ {n}]
  /\ dir' = IF n = call[m].node THEN dir ELSE [dir EXCEPT ![n] = @ \cup {m}]
  /\ UNCHANGED <<nodes, acked, parent, edit, crashes>>

\* Mutant: messages are linked while the list is still being resolved.
PutLink_Early(m, n) ==
  /\ Running(m)
  /\ n \in call[m].forNodes
  /\ call' = [call EXCEPT ![m].forNodes = @ \ {n}]
  /\ dir' = [dir EXCEPT ![n] = @ \cup {m}]
  /\ UNCHANGED <<nodes, acked, parent, edit, crashes>>

\* One round of the loop over aForNodes; the sender's own node is left out
\* unless the list names its user.
PutLink(m, n) ==
  /\ Opened(m)
  /\ n \in call[m].forNodes
  /\ call' = [call EXCEPT ![m].forNodes = @ \ {n}]
  /\ dir' = IF n = call[m].node /\ ~call[m].forMyUid
            THEN dir ELSE [dir EXCEPT ![n] = @ \cup {m}]
  /\ UNCHANGED <<nodes, acked, parent, edit, crashes>>

\* _queueMsg returns, rmFile, and the sender is told that it is posted.
Return(m) ==
  /\ Opened(m)
  /\ call[m].forNodes = {}
  /\ call' = [call EXCEPT ![m].at = "done", ![m].held = NoLocks]
  /\ UNCHANGED <<nodes, dir, acked, parent, edit, crashes>>

\* _runQueue of a node got an ack: rmLink.
RmLink(u, n, m) ==
  /\ Usable(u, n)
  /\ m \in dir[n]
  /\ dir' = [dir EXCEPT ![n] = @ \ {m}]
  /\ acked' = [acked EXCEPT ![n] = @ \cup {m}]
  /\ UNCHANGED <<nodes, parent, call, edit, crashes>>

-----------------------------------------------------------------------------
(* UserEdit.                                                                *)

\* A link of user u, node n, asks for a node or an alias and calls aUser.Lock().
UserEdit(e, u, n, newnode) ==
  /\ edit[e] = Idle
  /\ Usable(u, n) /\ ~Busy(n)
  /\ edit' = [edit EXCEPT ![e] = [at |-> "lock", uid |-> u, node |-> n,
                newnode |-> newnode, new |-> None, list |-> {}]]
  /\ UNCHANGED <<nodes, dir, acked, parent, call, crashes>>

\* AddAlias under the lock leaves the nodes alone.
AddAlias(e) ==
  /\ edit[e].at = "lock" /\ ~edit[e].newnode
  /\ ~Reading(edit[e].uid)
  /\ edit' = [edit EXCEPT ![e].at = "done"]
  /\ UNCHANGED <<nodes, dir, acked, parent, call, crashes>>

\* Mutant: the first number is given out again.
NewNode_Again(u) == qid(u, Cardinality(nodes[u]))

\* The number of the next node.
NewNode(u) == qid(u, (Cardinality(nodes[u]) % NumMod) + 1)

\* AddNode under the lock, and its record is stored.
AddNode(e) ==
  /\ edit[e].at = "lock" /\ edit[e].newnode
  /\ ~Reading(edit[e].uid)
  /\ Cardinality(nodes[edit[e].uid]) # UserNodeMax
  /\ LET u == edit[e].uid
     IN  /\ nodes' = [nodes EXCEPT ![u] = @ \cup {NewNode(u)}]
         /\ edit' = [edit EXCEPT ![e].at = "copy", ![e].new = NewNode(u)]
  /\ UNCHANGED <<dir, acked, parent, call, crashes>>

\* AddNode of a user that has all the nodes it may have is an error.
AddNodeMax(e) ==
  /\ edit[e].at = "lock" /\ edit[e].newnode
  /\ ~Reading(edit[e].uid)
  /\ Cardinality(nodes[edit[e].uid]) = UserNodeMax
  /\ edit' = [edit EXCEPT ![e].at = "done"]
  /\ UNCHANGED <<nodes, dir, acked, parent, call, crashes>>

\* copyDir lists the directory of the link's own node ...
GetDir(e) ==
  /\ edit[e].at = "copy"
  /\ edit' = [edit EXCEPT ![e].at = "link", ![e].list = dir[edit[e].node]]
  /\ UNCHANGED <<nodes, dir, acked, parent, call, crashes>>

\* ... and links each file, unless it is gone by now, or already there.
CopyLink(e, m) ==
  /\ edit[e].at = "link"
  /\ m \in edit[e].list
  /\ edit' = [edit EXCEPT ![e].list = @ \ {m}]
  /\ dir' = [dir EXCEPT ![edit[e].new] = @ \cup (dir[edit[e].node] \cap {m})]
  /\ UNCHANGED <<nodes, acked, parent, call, crashes>>

\* copyDir returns; the message to the user's nodes that has the id of the new
\* one is posted next, by a Post.
CopyDone(e) ==
  /\ edit[e].at = "link"
  /\ edit[e].list = {}
  /\ parent' = [parent EXCEPT ![edit[e].new] = edit[e].node]
  /\ edit' = [edit EXCEPT ![e].at = "done"]
  /\ UNCHANGED <<nodes, dir, acked, call, crashes>>

\* The server dies and starts again.  User records and directory entries stay;
\* requests under way are gone.  (What an entry not yet synced may do is in
\* NodeQueue; here only a node of a request that died could miss one.)
Crash ==
  /\ crashes < MaxCrash
  /\ crashes' = crashes + 1
  /\ call' = [m \in Msg |-> IF Running(m) THEN Dead ELSE call[m]]
  /\ edit' = [e \in Edit |-> IF edit[e].at \in {"lock", "copy", "link"} THEN Dead
                                                                    ELSE edit[e]]
  /\ UNCHANGED <<nodes, dir, acked, parent>>

-----------------------------------------------------------------------------
PosterStep(m) ==
  \/ NextFor(m) \/ FailFor(m) \/ Return(m)
  \/ \E u \in User : OpenNodes(m, u)
  \/ \E n \in Node : PutLink(m, n)

EditStep(e) ==
  \/ AddAlias(e) \/ AddNode(e) \/ AddNodeMax(e) \/ GetDir(e) \/ CopyDone(e)
  \/ \E m \in Msg : CopyLink(e, m)

\* What tHeader.check lets a client put into a for list.
ForList == SeqOf({t \in Target : t.type # "self"}, MaxTo)

Next ==
  \/ \E m \in Msg : PosterStep(m)
  \/ \E e \in Edit : EditStep(e)
  \/ \E u \in User, n \in Node :
       \/ \E m \in Msg, for \in ForList, iSelf \in BOOLEAN : Post(m, u, n, for, iSelf)
       \/ \E m \in Msg : RmLink(u, n, m)
       \/ \E e \in Edit, newnode \in BOOLEAN : UserEdit(e, u, n, newnode)
  \/ Crash

Spec == Init /\ [][Next]_vars

\* Go runs every goroutine that can go on, and hands a free RWMutex to those
\* that wait for it in turn.
FairSpec == /\ Spec
            /\ \A m \in Msg : SF_vars(PosterStep(m))
            /\ \A e \in Edit : SF_vars(EditStep(e))

-----------------------------------------------------------------------------
Recipients(m) == UNION {Reached(call[m].to[i], call[m].uid) : i \in DOMAIN call[m].to}

\* The for list names the sender's user, so that its own node gets a copy too.
ToMyself(m) == \E i \in DOMAIN call[m].to :
                 /\ call[m].to[i].type # "self"
                 /\ call[m].uid \in Reached(call[m].to[i], call[m].uid)

\* A message that was reported as posted has been put into the queue of every
\* recipient's first node: whatever repetitions, groups and self entries the
\* list holds, only the sending node may be left out, and only if the list does
\* not name its user.
Fanned ==
  \A m \in Msg : call[m].at = "done" =>
    \A u \in Recipients(m) :
      \/ m \in dir[First(u)] \cup acked[First(u)]
      \/ First(u) = call[m].node /\ ~ToMyself(m)

\* A new node misses nothing: what its parent still has to deliver is in the
\* new queue too, or was acked there, though posts and acks go on between
\* AddNode, the directory listing and the links of copyDir.
NodeInherits ==
  \A n \in Node, m \in Msg :
    /\ parent[n] # None
    /\ call[m].at = "done"
    /\ m \in dir[parent[n]] \ acked[parent[n]]
    => m \in dir[n] \cup acked[n] \/ call[m].node = n

\* A message is only ever in queues of its recipients' nodes, new ones that got it
\* by copyDir included, and the sending node has it only if the list names its user.
OnlyRecipients ==
  \A m \in Msg, n \in Node :
    call[m].at \in {"run", "done"} /\ m \in dir[n] \cup acked[n] =>
      n[1] \in Recipients(m) /\ (n = call[m].node => ToMyself(m))

\* A post that is answered with an error has reached nobody.
NoneOnError ==
  \A m \in Msg : call[m].at = "fail" => \A n \in Node : m \notin dir[n] \cup acked[n]

\* A new node has a queue of its own, though requests of a user's links for nodes
\* come at once and numbers are given out by counting.
OwnQueue ==
  \A e \in Edit : edit[e].at \in {"copy", "link", "done"} /\ edit[e].new # None =>
    /\ edit[e].new # First(edit[e].uid)
    /\ \A f \in Edit \ {e} : edit[f].at \in {"copy", "link", "done"} =>
                               edit[f].new # edit[e].new

\* Every post is answered: _queueMsg returns, with or without an error.
PostAnswered == \A m \in Msg : Running(m) ~> ~Running(m)
=============================================================================
