-------------------------------- MODULE Ohi --------------------------------
(***************************************************************************)
(* Presence: the reference counted entry of ONE user in sOhi.from, which   *)
(* the links of the user's nodes share, and the notices that ONE contact   *)
(* of the user gets.  Each lock section of tOhi and tOhiSet is one step.   *)
(*                                                                         *)
(* A tOhiSet object is named after the link whose ref made it.  A link     *)
(* logs in and out once; a node that reconnects is another link.           *)
(***************************************************************************)
EXTENDS Integers, FiniteSets

CONSTANTS
  Link,  \* links of the user's nodes
  None   \* no set

ASSUME NoneAssumption == None \notin Link

VARIABLES
  from,      \* sOhi.from[uid]
  refcount,  \* tOhiSet.refcount of each set
  notify,    \* tOhiSet.uid[contact] of each set
  link,      \* where each link stands
  mine,      \* tLink.ohi, the set a link works with
  told       \* the last presence the contact was told of

vars == <<from, refcount, notify, link, mine, told>>

LinkState == {"new", "idle", "make", "edit", "sendOn", "sendOff", "unref",
              "delete", "lastOff", "gone", "panic"}

\* The links that count in a refcount.
Holding == {"edit", "sendOn", "sendOff", "idle", "unref"}
Holders(s) == {l \in Link : mine[l] = s /\ link[l] \in Holding}

TypeOK ==
  /\ from \in Link \cup {None}
  /\ refcount \in [Link -> Nat]
  /\ notify \in [Link -> BOOLEAN]
  /\ link \in [Link -> LinkState]
  /\ mine \in [Link -> Link \cup {None}]
  /\ told \in BOOLEAN

Init ==
  /\ from = None
  /\ refcount = [l \in Link |-> 0]
  /\ notify = [l \in Link |-> FALSE]
  /\ link = [l \in Link |-> "new"]
  /\ mine = [l \in Link |-> None]
  /\ told = FALSE

LinkGoes(l, from_, to) ==
  /\ link[l] = from_
  /\ link' = [link EXCEPT ![l] = to]

\* queueLink has succeeded; tLink.ohi is nil.
Login(l) ==
  /\ LinkGoes(l, "new", "idle")
  /\ UNCHANGED <<from, refcount, notify, mine, told>>

\* Mutant: a link that finds the set does not count itself.
RefRead_NoCount(l) ==
  /\ mine[l] = None
  /\ LinkGoes(l, "idle", IF from = None THEN "make" ELSE "edit")
  /\ mine' = [mine EXCEPT ![l] = from]
  /\ UNCHANGED <<from, refcount, notify, told>>

\* The first OhiEdit of a link: the read-locked half of tOhi.ref.
RefRead(l) ==
  /\ mine[l] = None
  /\ LinkGoes(l, "idle", IF from = None THEN "make" ELSE "edit")
  /\ mine' = [mine EXCEPT ![l] = from]
  /\ refcount' = IF from = None THEN refcount
                                ELSE [refcount EXCEPT ![from] = @ + 1]
  /\ UNCHANGED <<from, notify, told>>

\* Mutant: a set that another link made in between is not counted up.
RefMake_NoCount(l) ==
  /\ LinkGoes(l, "make", "edit")
  /\ LET s == IF from = None THEN l ELSE from
     IN  /\ from' = s
         /\ mine' = [mine EXCEPT ![l] = s]
         /\ refcount' = [refcount EXCEPT ![s] = IF from = None THEN 1 ELSE @]
  /\ UNCHANGED <<notify, told>>

\* tOhi.ref did not find a set: look again under the write lock, or make it.
RefMake(l) ==
  /\ LinkGoes(l, "make", "edit")
  /\ LET s == IF from = None THEN l ELSE from
     IN  /\ from' = s
         /\ mine' = [mine EXCEPT ![l] = s]
         /\ refcount' = [refcount EXCEPT ![s] = IF from = None THEN 1 ELSE @ + 1]
  /\ UNCHANGED <<notify, told>>

\* A later OhiEdit finds tLink.ohi set.
EditAgain(l) ==
  /\ mine[l] # None
  /\ LinkGoes(l, "idle", "edit")
  /\ UNCHANGED <<from, refcount, notify, mine, told>>

\* tOhiSet.edit under the set's lock; the notice is sent after the unlock, and
\* only for a change.
Edit(l, on) ==
  /\ LinkGoes(l, "edit", IF notify[mine[l]] = on THEN "idle"
                         ELSE IF on THEN "sendOn" ELSE "sendOff")
  /\ notify' = [notify EXCEPT ![mine[l]] = on]
  /\ UNCHANGED <<from, refcount, mine, told>>

\* _sendOhi puts the notice on the ohi channel of the contact's nodes.
SendOhi(l) ==
  /\ link[l] \in {"sendOn", "sendOff"}
  /\ told' = (link[l] = "sendOn")
  /\ link' = [link EXCEPT ![l] = "idle"]
  /\ UNCHANGED <<from, refcount, notify, mine>>

\* _runLink ends; a link that made no OhiEdit has nothing to release.
Logout(l) ==
  /\ LinkGoes(l, "idle", IF mine[l] = None THEN "gone" ELSE "unref")
  /\ UNCHANGED <<from, refcount, notify, mine, told>>

\* The read-locked half of tOhi.unref: it decrements the set it finds listed,
\* and a nil pointer there panics the server.
UnrefDec(l) ==
  /\ LinkGoes(l, "unref", CASE from = None         -> "panic"
                            [] from # None /\ refcount[from] = 1 -> "delete"
                            [] OTHER               -> "gone")
  /\ refcount' = IF from = None THEN refcount
                                ELSE [refcount EXCEPT ![from] = @ - 1]
  /\ mine' = [mine EXCEPT ![l] = from]
  /\ UNCHANGED <<from, notify, told>>

\* Mutant: the count is not looked at again under the write lock.
UnrefDelete_NoRecheck(l) ==
  /\ LinkGoes(l, "delete", IF notify[mine[l]] THEN "lastOff" ELSE "gone")
  /\ from' = None
  /\ UNCHANGED <<refcount, notify, mine, told>>

\* The write-locked half, if the count went to 0: unless the set was taken up
\* again, delete the entry of the user and notify those the set lists.
UnrefDelete(l) ==
  /\ LinkGoes(l, "delete", IF refcount[mine[l]] = 0 /\ notify[mine[l]]
                           THEN "lastOff" ELSE "gone")
  /\ from' = IF refcount[mine[l]] = 0 THEN None ELSE from
  /\ UNCHANGED <<refcount, notify, mine, told>>

\* _sendOhi of eOhiOff at the end of _runLink.
SendLastOff(l) ==
  /\ LinkGoes(l, "lastOff", "gone")
  /\ told' = FALSE
  /\ UNCHANGED <<from, refcount, notify, mine>>

\* The contact logs in and is told who is online (tOhi.getOhiTo).
GetOhiTo ==
  /\ told' = (from # None /\ notify[from])
  /\ UNCHANGED <<from, refcount, notify, link, mine>>

Next ==
  \/ \E l \in Link : \/ Login(l) \/ RefRead(l) \/ RefMake(l) \/ EditAgain(l)
                     \/ \E on \in BOOLEAN : Edit(l, on)
                     \/ SendOhi(l) \/ Logout(l)
                     \/ UnrefDec(l) \/ UnrefDelete(l) \/ SendLastOff(l)
  \/ GetOhiTo

Spec == Init /\ [][Next]_vars

-----------------------------------------------------------------------------
\* A link that holds a set finds it listed when it releases it, and its user's
\* contacts find it when they log in: unref deletes an entry only when no link
\* holds its set, whatever refs and unrefs of other links come in between.
HolderListed ==
  \A l \in Link : mine[l] # None /\ link[l] \in Holding => from = mine[l]

\* The refcount of the listed set is the number of links that hold it: none is
\* counted twice or forgotten between the two halves of ref and unref.
RefcountExact ==
  from # None => refcount[from] = Cardinality(Holders(from))

\* No link is between a change of presence and the notice of it.
Quiet == \A l \in Link : link[l] \in {"new", "idle", "gone"}

\* When every notice has been sent, the contact has been told last what holds:
\* the user is online for it exactly if a listed set says so.
PresenceTold == Quiet => (told <=> from # None /\ notify[from])
=============================================================================
