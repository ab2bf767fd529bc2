------------------------------ MODULE GroupDb ------------------------------
(***************************************************************************)
(* Aliases and groups of the user database: the cache, with one table of   *)
(* names for both, guarded by algrDoor, and tGroup objects, each with a     *)
(* lock of its own; and the files, from which a restarted server fills the *)
(* cache name by name as they are asked for.  putRecord is one step (see   *)
(* UserRecord).  An operation is split wherever it has let go of a lock,   *)
(* or looks at a table that the lock it holds does not guard: a group's    *)
(* lock does not guard o.alias, and DropAlias changes o.alias before it    *)
(* stores the user.  What an operation fetches into the cache is fetched   *)
(* by a step of its own, Lookup or FetchGroup, before it.                  *)
(*                                                                         *)
(* A call that returns an error or finds its work done changes nothing     *)
(* else and is no action here, except for what GroupInvite leaves behind.  *)
(***************************************************************************)
EXTENDS Naturals, FiniteSets

CONSTANTS
  Uid,      \* users
  Name,     \* aliases and group names
  BadName,  \* names that invalidInput rejects
  Obj,      \* tGroup objects
  Thread,   \* goroutines inside a group operation
  None,     \* no user, no object, no alias
  Defunct,  \* kAliasDefunctUid
  MaxRestart \* bound on the number of restarts

ASSUME NameAssumption == BadName \subseteq Name /\ None \notin Name
ASSUME UidAssumption  == {None, Defunct} \cap Uid = {} /\ None # Defunct
ASSUME ObjAssumption  == None \notin Obj
ASSUME BoundAssumption == MaxRestart \in Nat

VARIABLES
  alias,      \* o.alias
  group,      \* o.group
  member,     \* tGroup.Uid of each object
  call,       \* the group operation of each thread
  dropping,   \* the alias each user is dropping, between the cache and the disk
  adding,     \* names that an AddAlias call has fetched and may be about to take
  aliasFile,  \* the symlinks in alias/
  groupFile,  \* the files in group/
  restarts    \* number of restarts so far

cache == <<alias, group, member>>
files == <<aliasFile, groupFile>>
vars  == <<cache, call, dropping, adding, files, restarts>>

Holder  == Uid \cup {Defunct}
Status  == {"none", "invited", "joined", "barred"}
Member  == [alias : Name \cup {None}, status : Status]
NotIn   == [alias |-> None, status |-> "none"]
Invited(a) == [alias |-> a, status |-> "invited"]
Joined(a)  == [alias |-> a, status |-> "joined"]
Barred(a)  == [alias |-> a, status |-> "barred"]

\* A call of GroupInvite, whose arguments are chosen by the step that first uses them,
\* and one of the others with the entry that it will put.
Idle == [at |-> "idle"]
Call == {c \in [at : {"lookup", "fetch", "lock", "fill"}, byAlias : Name, by : Uid,
                 alias : Name \cup {None}, uid : Holder \cup {None},
                 gid : Name \cup {None}, obj : Obj \cup {None}] :
           /\ c.at # "lookup" => c.alias # None /\ c.uid # None
           /\ c.at \in {"lock", "fill"} => c.gid # None /\ c.obj # None}
Put  == [at : {"store"}, gid : Name, obj : Obj, uid : Holder, entry : Member]

\* A tGroup without members, and a group that has no file.
NoMembers == [u \in Holder |-> NotIn]

\* len(aGroup.Uid) == 0
Empty(o) == \A u \in Holder : member[o][u].status = "none"

TypeOK ==
  /\ alias \in [Name -> Holder \cup {None}]
  /\ group \in [Name -> Obj \cup {None}]
  /\ member \in [Obj -> [Holder -> Member]]
  /\ call \in [Thread -> Call \cup Put \cup {Idle}]
  /\ dropping \in [Uid -> Name \cup {None}]
  /\ adding \subseteq Name
  /\ aliasFile \in [Name -> Holder \cup {None}]
  /\ groupFile \in [Name -> [Holder -> Member]]
  /\ restarts \in 0..MaxRestart

Init ==
  /\ alias = [n \in Name |-> None]
  /\ group = [n \in Name |-> None]
  /\ member = [o \in Obj |-> NoMembers]
  /\ call = [t \in Thread |-> Idle]
  /\ dropping = [u \in Uid |-> None]
  /\ adding = {}
  /\ aliasFile = [n \in Name |-> None]
  /\ groupFile = [n \in Name |-> NoMembers]
  /\ restarts = 0

\* aGroup.Lock() is free: no call is about to store the object.
Unlocked(o) == \A t \in Thread : ~(call[t].at \in {"fill", "store"} /\ call[t].obj = o)

\* An object that is neither listed nor in the hands of a call.
Unused(o) == /\ \A n \in Name : group[n] # o
             /\ \A t \in Thread : call[t] # Idle => call[t].obj # o

\* Names that are *defunct in the cache, and not yet on the disk.
Dropping == {dropping[u] : u \in Uid} \ {None}

-----------------------------------------------------------------------------
(* The cache.                                                               *)

\* Lookup of a name that is not in the cache, by any call; Ping does nothing else.
Lookup(n) ==
  /\ alias[n] = None /\ aliasFile[n] # None
  /\ alias' = [alias EXCEPT ![n] = aliasFile[n]]
  /\ UNCHANGED <<group, member, call, dropping, adding, files, restarts>>

\* The group's object becomes o: the one in the cache, or a new one with what the
\* file holds.
Fetched(g, o) ==
  IF group[g] # None
  THEN o = group[g] /\ UNCHANGED <<group, member>>
  ELSE /\ Unused(o)
       /\ group' = [group EXCEPT ![g] = o]
       /\ member' = [member EXCEPT ![o] = groupFile[g]]

\* fetchGroup with eFetchCheck, by any call; GroupGetUsers does little else.
FetchGroup(g) ==
  /\ group[g] = None /\ groupFile[g] # NoMembers
  /\ \E o \in Obj : Fetched(g, o)
  /\ UNCHANGED <<alias, call, dropping, adding, files, restarts>>

-----------------------------------------------------------------------------
(* Aliases.                                                                 *)

\* Mutant: AddAlias does not retrieve a group from the disk.
AddFetch_NoGroup(n) ==
  /\ n \notin adding \cup BadName
  /\ alias[n] = None /\ aliasFile[n] = None
  /\ adding' = adding \cup {n}
  /\ UNCHANGED <<cache, call, dropping, files, restarts>>

\* AddAlias has fetched the group of this name, if there is one, and found no alias:
\* with one it fails, or has nothing to do.  Any number of calls may be there, and
\* any time may pass before they get their locks.
AddFetch(n) ==
  /\ n \notin adding \cup BadName
  /\ groupFile[n] # NoMembers => group[n] # None
  /\ alias[n] = None /\ aliasFile[n] = None
  /\ adding' = adding \cup {n}
  /\ UNCHANGED <<cache, call, dropping, files, restarts>>

\* The locked part of AddAlias for one or two names.  Both are checked before
\* either is taken.
AddAlias(u, names) ==
  /\ names # {} /\ Cardinality(names) <= 2
  /\ names \subseteq adding
  /\ dropping[u] = None
  /\ \A n \in names : alias[n] \in {None, u} /\ group[n] = None
  /\ alias' = [n \in Name |-> IF n \in names THEN u ELSE alias[n]]
  /\ aliasFile' = [n \in Name |-> IF n \in names THEN u ELSE aliasFile[n]]
  /\ adding' = adding \ names
  /\ UNCHANGED <<group, member, call, dropping, groupFile, restarts>>

\* DropAlias takes the user's lock and marks the name in the cache, under algrDoor,
\* which it releases.
DropAlias(u, n) ==
  /\ dropping[u] = None
  /\ alias[n] = u
  /\ alias' = [alias EXCEPT ![n] = Defunct]
  /\ dropping' = [dropping EXCEPT ![u] = n]
  /\ UNCHANGED <<group, member, call, adding, files, restarts>>

\* It stores the user, and with it the symlink, which keeps the name from being used
\* again.
DropStore(u) ==
  /\ dropping[u] # None
  /\ aliasFile' = [aliasFile EXCEPT ![dropping[u]] = Defunct]
  /\ dropping' = [dropping EXCEPT ![u] = None]
  /\ UNCHANGED <<cache, call, adding, groupFile, restarts>>

-----------------------------------------------------------------------------
(* GroupInvite.                                                             *)

\* Lookup of the inviter's alias.
Invite(t, byAlias, by) ==
  /\ call[t] = Idle
  /\ alias[byAlias] = by
  /\ call' = [call EXCEPT ![t] = [at |-> "lookup", byAlias |-> byAlias, by |-> by,
                alias |-> None, uid |-> None, gid |-> None, obj |-> None]]
  /\ UNCHANGED <<cache, dropping, adding, files, restarts>>

\* Mutant: an unknown invitee is not refused.
InviteLookup_AnyAlias(t, a) ==
  /\ call[t].at = "lookup"
  /\ call' = [call EXCEPT ![t].at = "fetch", ![t].alias = a, ![t].uid = alias[a]]
  /\ UNCHANGED <<cache, dropping, adding, files, restarts>>

\* Lookup of the invitee's.
InviteLookup(t, a) ==
  /\ call[t].at = "lookup"
  /\ alias[a] # None
  /\ call' = [call EXCEPT ![t].at = "fetch", ![t].alias = a, ![t].uid = alias[a]]
  /\ UNCHANGED <<cache, dropping, adding, files, restarts>>

\* fetchGroup with eFetchMake: the group, or an empty one put into the cache.
InviteFetch(t, g) ==
  /\ call[t].at = "fetch"
  /\ \E o \in Obj :
       /\ Fetched(g, o)
       /\ call' = [call EXCEPT ![t].at = "lock", ![t].gid = g, ![t].obj = o]
  /\ UNCHANGED <<alias, dropping, adding, files, restarts>>

\* aGroup.Lock() on an empty group, and Lookup: is the name free and printable?
\* If not, the entry is deleted again.
InviteCheck(t) ==
  /\ call[t].at = "lock"
  /\ Unlocked(call[t].obj)
  /\ Empty(call[t].obj)
  /\ LET g == call[t].gid
     IN  /\ aliasFile[g] # None => alias[g] # None
         /\ IF alias[g] # None \/ g \in BadName
            THEN /\ group' = [group EXCEPT ![g] = None]
                 /\ call' = [call EXCEPT ![t] = Idle]
            ELSE /\ call' = [call EXCEPT ![t].at = "fill"]
                 /\ UNCHANGED group
  /\ UNCHANGED <<alias, member, dropping, adding, files, restarts>>

\* The members of group g, whose object is o, are changed and stored: putRecord.
PutGroup(g, o, m) ==
  /\ member' = [member EXCEPT ![o] = m]
  /\ groupFile' = [groupFile EXCEPT ![g] = m]
  /\ UNCHANGED <<alias, group, dropping, adding, aliasFile, restarts>>

\* Mutant: the inviter is invited and the invitee joined.
InviteFill_Swap(t) ==
  /\ call[t].at = "fill"
  /\ LET c == call[t]
     IN  PutGroup(c.gid, c.obj, [[member[c.obj] EXCEPT ![c.by] = Invited(c.byAlias)]
                                                EXCEPT ![c.uid] = Joined(c.alias)])
  /\ call' = [call EXCEPT ![t] = Idle]

\* algrDoor is free again: the first members, the inviter and the invitee, who
\* may be the same.
InviteFill(t) ==
  /\ call[t].at = "fill"
  /\ LET c == call[t]
     IN  PutGroup(c.gid, c.obj, [[member[c.obj] EXCEPT ![c.by] = Joined(c.byAlias)]
                                                EXCEPT ![c.uid] = Invited(c.alias)])
  /\ call' = [call EXCEPT ![t] = Idle]

\* Mutant: an inviter who is not joined makes the entry be deleted.
InviteMember_Delete(t) ==
  /\ call[t].at = "lock"
  /\ Unlocked(call[t].obj)
  /\ ~Empty(call[t].obj)
  /\ group' = [group EXCEPT ![call[t].gid] =
                 IF member[call[t].obj][call[t].by].status = "joined" THEN @ ELSE None]
  /\ call' = [call EXCEPT ![t] = Idle]
  /\ UNCHANGED <<alias, member, dropping, adding, files, restarts>>

\* aGroup.Lock() on a group with members: a joined member may invite anyone who
\* is neither invited nor joined; the others get an error, or a no-op.
InviteMember(t) ==
  /\ call[t].at = "lock"
  /\ Unlocked(call[t].obj)
  /\ ~Empty(call[t].obj)
  /\ LET c == call[t]
         m == member[c.obj]
     IN  IF /\ m[c.by].status = "joined"
            /\ m[c.uid].status \in {"none", "barred"}
         THEN PutGroup(c.gid, c.obj, [m EXCEPT ![c.uid] = Invited(c.alias)])
         ELSE UNCHANGED <<cache, dropping, adding, files, restarts>>
  /\ call' = [call EXCEPT ![t] = Idle]

-----------------------------------------------------------------------------
(* The other group operations.  Each checks under the lock of its group, and  *)
(* looks an alias up there, which that lock does not guard; it stores the group *)
(* under the same lock.                                                      *)

\* aGroup.Lock(): the thread is to put entry m for user u.
Prepare(t, g, u, m) ==
  /\ call[t] = Idle
  /\ Unlocked(group[g])
  /\ call' = [call EXCEPT ![t] = [at |-> "store", gid |-> g, obj |-> group[g],
                                  uid |-> u, entry |-> m]]
  /\ UNCHANGED <<cache, dropping, adding, files, restarts>>

\* Mutant: the new alias may be anybody's.
GroupJoin_AnyAlias(t, g, u, newAlias) ==
  /\ group[g] # None
  /\ LET m == member[group[g]][u]
     IN  /\ ~(m.status = "joined" /\ newAlias \in {None, m.alias})
         /\ m.status \in {"invited", "joined"}
         /\ Prepare(t, g, u, Joined(IF newAlias = None THEN m.alias ELSE newAlias))

\* Mutant: a barred member may join.
GroupJoin_Barred(t, g, u, newAlias) ==
  /\ group[g] # None
  /\ LET m == member[group[g]][u]
     IN  /\ ~(m.status = "joined" /\ newAlias \in {None, m.alias})
         /\ m.status # "none"
         /\ newAlias # None => alias[newAlias] = u
         /\ Prepare(t, g, u, Joined(IF newAlias = None THEN m.alias ELSE newAlias))

\* GroupJoin, with the alias of the invitation or a new one.
GroupJoin(t, g, u, newAlias) ==
  /\ group[g] # None
  /\ LET m == member[group[g]][u]
     IN  /\ ~(m.status = "joined" /\ newAlias \in {None, m.alias})
         /\ m.status \in {"invited", "joined"}
         /\ newAlias # None => alias[newAlias] = u
         /\ Prepare(t, g, u, Joined(IF newAlias = None THEN m.alias ELSE newAlias))

\* GroupAlias.
GroupAlias(t, g, u, newAlias) ==
  /\ group[g] # None
  /\ LET m == member[group[g]][u]
     IN  /\ m.status = "joined"
         /\ newAlias # m.alias
         /\ alias[newAlias] = u
         /\ Prepare(t, g, u, Joined(newAlias))

\* Mutant: a member that quits by itself is barred too.
GroupQuit_BarSelf(t, g, a, by) ==
  /\ group[g] # None
  /\ alias[a] # None
  /\ LET u == alias[a]
         m == member[group[g]]
     IN  /\ m[u].alias = a
         /\ m[u].status # "barred"
         /\ by = u \/ m[by].status = "joined"
         /\ Prepare(t, g, u, Barred(a))

\* GroupQuit: by itself a member becomes invited, by a joined member it becomes
\* barred.
GroupQuit(t, g, a, by) ==
  /\ group[g] # None
  /\ alias[a] # None
  /\ LET u == alias[a]
         m == member[group[g]]
     IN  /\ m[u].alias = a
         /\ \/ /\ by = u
               /\ m[u].status # "invited"
               /\ Prepare(t, g, u, Invited(a))
            \/ /\ by # u
               /\ m[by].status = "joined"
               /\ m[u].status # "barred"
               /\ Prepare(t, g, u, Barred(a))

\* The three of them: the entry is put, and the group stored.
Store(t) ==
  /\ call[t].at = "store"
  /\ LET c == call[t]
     IN  PutGroup(c.gid, c.obj, [member[c.obj] EXCEPT ![c.uid] = c.entry])
  /\ call' = [call EXCEPT ![t] = Idle]

-----------------------------------------------------------------------------
\* The server stops at any point and starts again with an empty cache.
Restart ==
  /\ restarts < MaxRestart
  /\ restarts' = restarts + 1
  /\ alias' = [n \in Name |-> None]
  /\ group' = [n \in Name |-> None]
  /\ member' = [o \in Obj |-> NoMembers]
  /\ call' = [t \in Thread |-> Idle]
  /\ dropping' = [u \in Uid |-> None]
  /\ adding' = {}
  /\ UNCHANGED files

Next ==
  \/ \E n \in Name : Lookup(n) \/ FetchGroup(n) \/ AddFetch(n)
  \/ \E u \in Uid : \/ \E names \in SUBSET Name : AddAlias(u, names)
                    \/ \E n \in Name : DropAlias(u, n)
                    \/ DropStore(u)
  \/ \E t \in Thread :
       \/ \E b \in Name, u \in Uid : Invite(t, b, u)
       \/ \E n \in Name : InviteLookup(t, n) \/ InviteFetch(t, n)
       \/ InviteCheck(t) \/ InviteFill(t) \/ InviteMember(t)
       \/ \E g \in Name, u \in Uid :
            \/ \E a \in Name \cup {None} : GroupJoin(t, g, u, a)
            \/ \E a \in Name : GroupAlias(t, g, u, a) \/ GroupQuit(t, g, a, u)
       \/ Store(t)
  \/ Restart

Spec == Init /\ [][Next]_vars

-----------------------------------------------------------------------------
\* A name is never both an alias and a group, on the disk or in the cache, though
\* AddAlias and GroupInvite check for the other in different lock sections,
\* GroupInvite lists the group before it knows that it may, and after a restart
\* the cache knows only the names that were asked for.
NameExclusive ==
  \A n \in Name : aliasFile[n] # None => /\ groupFile[n] = NoMembers
                                         /\ group[n] # None => Empty(group[n])

\* A group with members is the listed one and the stored one: no call writes
\* members to an object that another call has deleted from the table, where
\* nobody would find them, and none works on a copy that is not what the disk has.
GroupListed ==
  \A o \in Obj : ~Empty(o) => \E n \in Name : group[n] = o /\ groupFile[n] = member[o]

\* A group that has members has a user who is joined or may join, so that it
\* cannot be locked out of by its members dropping each other.
GroupAlive ==
  \A g \in Name : groupFile[g] # NoMembers =>
    \E u \in Uid : groupFile[g][u].status \in {"invited", "joined"}

\* The alias a member is listed by is or was its own, though it was looked up before
\* the group was locked, or in a table that the group's lock does not guard.  The uid
\* of dropped aliases is not listed by an alias that somebody has, unless he is
\* dropping it, or the server stopped before he had.
MemberAlias ==
  \A g \in Name, u \in Holder : groupFile[g][u].status # "none" =>
    LET a == groupFile[g][u].alias
    IN  /\ a \in Name
        /\ \/ aliasFile[a] \in {u, Defunct}
           \/ /\ u = Defunct /\ aliasFile[a] # None
              /\ a \in Dropping \/ restarts > 0

\* A dropped alias that is invited never gets to be joined.  GroupGetUsers would
\* return its uid, which OpenNodes does not find, and refuse every message to the
\* group.
JoinedReal == \A g \in Name : groupFile[g][Defunct].status # "joined"

\* The files implement the abstract registry: in spite of checks and updates in
\* different lock sections, of aliases looked up early and of a cache that forgets and
\* that knows of a drop before the files do, every change takes effect at once and is
\* allowed by what is stored at that moment.
Registry == INSTANCE NameRegistry
              WITH owner <- aliasFile, members <- groupFile, leaving <- Dropping
ImplementsRegistry == Registry!Spec
=============================================================================
