--------------------------- MODULE GroupDbProofs ---------------------------
(***************************************************************************)
(* The safety properties of GroupDb hold for any users, names, calls and   *)
(* restarts.                                                               *)
(*                                                                         *)
(* The argument: the cache contradicts the files only in that an alias     *)
(* that is being dropped is *defunct there already; an object is listed    *)
(* under one name at most, and one that is not listed is empty.  A         *)
(* GroupInvite whose object was deleted from the table in the meantime     *)
(* finds that its name is taken or bad for good, so that it cannot fill    *)
(* the object; one that fills an object holds its name, which AddAlias     *)
(* then does not take.  A call that has checked a group keeps it locked,   *)
(* and what it saw of an alias can only have changed to "dropped".         *)
(***************************************************************************)
EXTENDS GroupDb, TLAPS

\* An alias is, or was, that of user u, or is seen as nobody's (u is Defunct).
Own(u, a) ==
  aliasFile[a] \in {u, Defunct} \/ (u = Defunct /\ a \in Dropping)

\* An entry of a group's member table.  A drop that a restart undid may have been seen.
Fits(u, m) ==
  \/ m = NotIn
  \/ /\ m.status # "none" /\ m.alias \in Name
     /\ \/ Own(u, m.alias)
        \/ u = Defunct /\ restarts > 0 /\ aliasFile[m.alias] # None

\* A member table that nobody is locked out of and that lists no dropped alias as
\* joined.
Sound(M) ==
  /\ \A u \in Holder : Fits(u, M[u])
  /\ M[Defunct].status # "joined"
  /\ M # NoMembers => \E u \in Uid : M[u].status \in {"invited", "joined"}

\* An alias that is being dropped is its user's on the disk, and nobody's in the cache.
DropInv == \A u \in Uid : dropping[u] # None =>
             aliasFile[dropping[u]] = u /\ alias[dropping[u]] = Defunct

\* The cache agrees with the files, but for the aliases that are being dropped.
CacheInv ==
  /\ \A n \in Name : alias[n] # None => \/ alias[n] = aliasFile[n]
                                        \/ alias[n] = Defunct /\ n \in Dropping
  /\ \A n \in Name : group[n] # None => member[group[n]] = groupFile[n]
  /\ \A n, k \in Name : group[n] # None /\ group[n] = group[k] => n = k
  /\ \A o \in Obj : (\A n \in Name : group[n] # o) => member[o] = NoMembers

\* A name is a group or an alias; AddAlias has seen a group that is on the disk.
NameInv ==
  /\ \A n \in Name : groupFile[n] # NoMembers => aliasFile[n] = None /\ n \notin BadName
  /\ \A n \in adding : /\ aliasFile[n] = None
                       /\ groupFile[n] # NoMembers => group[n] # None

SoundInv == \A g \in Name : Sound(groupFile[g])

\* The aliases that a GroupInvite looked up are or were those of its users.
AliasOf(c) == /\ c.at # "store" => aliasFile[c.byAlias] \in {c.by, Defunct}
              /\ c.at \notin {"store", "lookup"} => Own(c.uid, c.alias)

\* The object a GroupInvite fetched is listed under its name or not at all.
Listed(c) ==
  c.at \in {"lock", "fill"} =>
    /\ \A n \in Name : group[n] = c.obj => n = c.gid
    /\ group[c.gid] = c.obj \/ aliasFile[c.gid] # None \/ c.gid \in BadName

\* The object that a GroupInvite fills in is listed and empty, and the name is free.
Filling(c) ==
  c.at = "fill" => /\ group[c.gid] = c.obj /\ member[c.obj] = NoMembers
                   /\ aliasFile[c.gid] = None /\ c.gid \notin BadName

\* The change of member u's entry in table M to e: it joins, it quits, or a joined
\* member bars it.
Allowed(M, u, e) ==
  \/ /\ u \in Uid /\ M[u].status \in {"invited", "joined"} /\ e.status = "joined"
     /\ e.alias = M[u].alias \/ aliasFile[e.alias] \in {u, Defunct}
  \/ /\ u \in Uid /\ M[u].status \in {"joined", "barred"} /\ e.status = "invited"
     /\ e.alias = M[u].alias
  \/ /\ M[u].status \in {"invited", "joined"} /\ e.status = "barred"
     /\ e.alias = M[u].alias
     /\ \E v \in Uid \ {u} : M[v].status = "joined"

\* What a call has checked still holds when it stores the group.
Storing(c) ==
  c.at = "store" => /\ group[c.gid] = c.obj /\ c.entry.alias \in Name
                    /\ Allowed(member[c.obj], c.uid, c.entry)

GoodCall(c) == AliasOf(c) /\ Listed(c) /\ Filling(c) /\ Storing(c)

CallInv ==
  /\ \A t \in Thread : call[t] # Idle => GoodCall(call[t])
  /\ \A t, s \in Thread : /\ call[t].at \in {"fill", "store"}
                          /\ call[s].at \in {"fill", "store"}
                          /\ call[t].obj = call[s].obj
                          => t = s

IndInv == TypeOK /\ DropInv /\ CacheInv /\ NameInv /\ SoundInv /\ CallInv

-----------------------------------------------------------------------------
\* A call is idle, or a GroupInvite, or about to put an entry, and has what it needs.
LEMMA CallFacts ==
  ASSUME TypeOK, NEW t \in Thread
  PROVE  /\ Idle.at = "idle"
         /\ call[t].at \in {"lookup", "fetch", "lock", "fill", "store"} <=> call[t] # Idle
         /\ call[t] # Idle /\ call[t].at # "store" =>
              /\ call[t] \in Call
              /\ call[t].byAlias \in Name /\ call[t].by \in Uid /\ call[t].by \in Holder
         /\ call[t].at \in {"fetch", "lock", "fill"} =>
              call[t].alias \in Name /\ call[t].uid \in Holder
         /\ call[t].at \in {"lock", "fill", "store"} =>
              call[t].gid \in Name /\ call[t].obj \in Obj
         /\ call[t].at = "store" =>
              /\ call[t] \in Put
              /\ call[t].uid \in Holder /\ call[t].entry \in Member
<1>1. Idle.at = "idle"
  BY DEF Idle
<1>2. call[t] \in Call \/ call[t] \in Put \/ call[t] = Idle
  BY DEF TypeOK
<1>3. ASSUME call[t] \in Call
      PROVE  /\ call[t].at \in {"lookup", "fetch", "lock", "fill"}
             /\ call[t].byAlias \in Name /\ call[t].by \in Uid /\ call[t].by \in Holder
             /\ call[t].at \in {"fetch", "lock", "fill"} =>
                  call[t].alias \in Name /\ call[t].uid \in Holder
             /\ call[t].at \in {"lock", "fill"} =>
                  call[t].gid \in Name /\ call[t].obj \in Obj
  BY <1>3 DEF Call, Holder
<1>4. ASSUME call[t] \in Put
      PROVE  /\ call[t].at = "store" /\ call[t].gid \in Name /\ call[t].obj \in Obj
             /\ call[t].uid \in Holder /\ call[t].entry \in Member
  BY <1>4 DEF Put
<1> QED
  BY <1>1, <1>2, <1>3, <1>4

\* The members of an object.
LEMMA MemberFacts ==
  /\ NotIn \in Member /\ NotIn.status = "none" /\ NotIn.alias = None
  /\ \A a \in Name : /\ Invited(a) \in Member /\ Joined(a) \in Member
                     /\ Barred(a) \in Member
                     /\ Invited(a).alias = a /\ Invited(a).status = "invited"
                     /\ Joined(a).alias = a /\ Joined(a).status = "joined"
                     /\ Barred(a).alias = a /\ Barred(a).status = "barred"
  /\ NoMembers \in [Holder -> Member]
  /\ \A u \in Holder : NoMembers[u] = NotIn
  /\ Defunct \in Holder /\ Uid \subseteq Holder
  BY DEF NotIn, Member, Status, Invited, Joined, Barred, NoMembers, Holder

\* Only aliases that somebody has are being dropped.
LEMMA DroppingFacts ==
  ASSUME TypeOK, DropInv, NEW n \in Dropping
  PROVE  n \in Name /\ aliasFile[n] \in Uid
  BY DEF TypeOK, DropInv, Dropping

\* What Lookup finds.
LEMMA Seen ==
  ASSUME IndInv, NEW n \in Name, alias[n] # None
  PROVE  /\ alias[n] \in Holder /\ aliasFile[n] # None /\ Own(alias[n], n)
         /\ alias[n] \in Uid => aliasFile[n] = alias[n]
<1>1. alias[n] \in Holder
  BY DEF IndInv, TypeOK
<1>2. n \in Dropping => aliasFile[n] # None
  BY DroppingFacts, UidAssumption DEF IndInv
<1> QED
  BY <1>1, <1>2, UidAssumption DEF IndInv, CacheInv, Own

\* An entry with an alias of its user.
LEMMA OwnFits ==
  ASSUME NEW u \in Holder, NEW a \in Name, Own(u, a)
  PROVE  Fits(u, Joined(a)) /\ Fits(u, Invited(a)) /\ Fits(u, Barred(a))
  BY MemberFacts DEF Fits

\* An object of a sound member table is empty if it has no entry at all.
LEMMA EmptyIs ==
  ASSUME TypeOK, NEW o \in Obj
  PROVE  /\ member[o] = NoMembers => Empty(o)
         /\ Empty(o) /\ (\A u \in Holder : Fits(u, member[o][u])) => member[o] = NoMembers
<1>1. member[o] = NoMembers => Empty(o)
  BY MemberFacts DEF Empty
<1>2. ASSUME Empty(o), \A u \in Holder : Fits(u, member[o][u])
      PROVE  member[o] = NoMembers
  <2>1. \A u \in Holder : member[o][u] = NotIn
    BY <1>2 DEF Empty, Fits
  <2> QED
    BY <2>1 DEF TypeOK, NoMembers
<1> QED
  BY <1>1, <1>2

\* Every object's table is a sound one, with entries only if it is listed, under a
\* name that is a group's.
LEMMA ObjFacts ==
  ASSUME IndInv, NEW o \in Obj
  PROVE  /\ Empty(o) <=> member[o] = NoMembers
         /\ Sound(member[o])
         /\ ~Empty(o) => \E n \in Name : /\ group[n] = o /\ groupFile[n] = member[o]
                                         /\ groupFile[n] # NoMembers
<1> USE DEF IndInv
<1>1. Sound(NoMembers)
  BY MemberFacts DEF Sound, Fits
<1>2. (\E n \in Name : group[n] = o /\ member[o] = groupFile[n]) \/ member[o] = NoMembers
  BY ObjAssumption DEF CacheInv
<1>3. Sound(member[o])
  BY <1>1, <1>2 DEF SoundInv
<1>4. Empty(o) <=> member[o] = NoMembers
  BY <1>3, EmptyIs DEF Sound
<1> QED
  BY <1>2, <1>3, <1>4

\* An entry changes only in a table that has entries.
LEMMA AllowedIn ==
  ASSUME NEW u \in Holder, NEW e, Allowed(NoMembers, u, e)
  PROVE  FALSE
  BY MemberFacts DEF Allowed

\* A call that stores has a group in its hands that is on the disk, under a name that
\* is no alias.
LEMMA StoringFacts ==
  ASSUME IndInv, NEW t \in Thread, call[t].at = "store"
  PROVE  /\ groupFile[call[t].gid] = member[call[t].obj]
         /\ groupFile[call[t].gid] # NoMembers
         /\ aliasFile[call[t].gid] = None /\ call[t].gid \notin BadName
<1>1. /\ call[t] # Idle /\ call[t].gid \in Name /\ call[t].obj \in Obj
      /\ call[t].uid \in Holder
  BY CallFacts DEF IndInv
<1>2. group[call[t].gid] = call[t].obj /\ Allowed(member[call[t].obj], call[t].uid, call[t].entry)
  BY <1>1 DEF IndInv, CallInv, GoodCall, Storing
<1>3. member[call[t].obj] # NoMembers
  BY <1>1, <1>2, AllowedIn
<1>4. groupFile[call[t].gid] = member[call[t].obj]
  BY <1>1, <1>2, ObjAssumption DEF IndInv, CacheInv
<1> QED
  BY <1>1, <1>3, <1>4 DEF IndInv, NameInv

-----------------------------------------------------------------------------
\* The members of a listed object are changed and stored, under a name that no
\* alias has and that no other call is about to store.
LEMMA PutStep ==
  ASSUME IndInv, NEW g \in Name, NEW o \in Obj, NEW m \in [Holder -> Member],
         group[g] = o, Sound(m), aliasFile[g] = None, g \notin BadName,
         PutGroup(g, o, m),
         call' \in [Thread -> Call \cup Put \cup {Idle}],
         \A t \in Thread : call'[t] = call[t] \/ call'[t] = Idle,
         \A t \in Thread : ~(call'[t].at \in {"fill", "store"} /\ call'[t].obj = o)
  PROVE  IndInv'
<1> USE DEF IndInv, PutGroup
<1>1. TypeOK' /\ DropInv' /\ Dropping' = Dropping
  BY DEF TypeOK, DropInv, Dropping
<1>2. CacheInv'
  <2>1. \A n \in Name : group[n] = o => n = g
    BY ObjAssumption DEF CacheInv
  <2>2. /\ \A n \in Name : groupFile'[n] = IF n = g THEN m ELSE groupFile[n]
        /\ \A x \in Obj : member'[x] = IF x = o THEN m ELSE member[x]
    BY DEF TypeOK
  <2> QED
    BY <1>1, <2>1, <2>2 DEF CacheInv, TypeOK
<1>3. NameInv'
  BY ObjAssumption DEF NameInv, TypeOK
<1>4. SoundInv'
  <2>1. \A n \in Name : groupFile'[n] = IF n = g THEN m ELSE groupFile[n]
    BY DEF TypeOK
  <2>2. \A n \in Name : Sound(groupFile'[n])
    BY <2>1 DEF SoundInv
  <2> QED
    BY <1>1, <2>2 DEF SoundInv, Sound, Fits, Own
<1>5. CallInv'
  <2>1. ASSUME NEW t \in Thread, call'[t] # Idle
        PROVE  GoodCall(call[t])'
    <3>1. call'[t] = call[t] /\ call[t] # Idle /\ GoodCall(call[t])
      BY <2>1 DEF CallInv
    <3>2. AliasOf(call[t])' /\ Listed(call[t])'
      BY <1>1, <3>1 DEF GoodCall, AliasOf, Own, Listed
    <3>3. call[t].at \in {"fill", "store"} => member'[call[t].obj] = member[call[t].obj]
      BY <3>1, CallFacts DEF TypeOK
    <3>4. Filling(call[t])' /\ Storing(call[t])'
      BY <3>1, <3>3 DEF GoodCall, Filling, Storing, Allowed
    <3> QED
      BY <3>2, <3>4 DEF GoodCall
  <2>2. ASSUME NEW t \in Thread, NEW s \in Thread,
               call'[t].at \in {"fill", "store"}, call'[s].at \in {"fill", "store"},
               call'[t].obj = call'[s].obj
        PROVE  t = s
    <3>1. call'[t] = call[t] /\ call'[s] = call[s]
      BY <2>2, CallFacts
    <3> QED
      BY <2>2, <3>1 DEF CallInv
  <2> QED
    BY <2>1, <2>2 DEF CallInv
<1> QED
  BY <1>1, <1>2, <1>3, <1>4, <1>5

\* Calls are as good as before if nothing they rest on changes.
LEMMA CallsKept ==
  ASSUME IndInv, UNCHANGED <<group, member, call>>,
         \A n \in Name : aliasFile[n] # None => aliasFile'[n] \in {aliasFile[n], Defunct},
         \A n \in Name : \/ aliasFile'[n] = aliasFile[n] \/ aliasFile[n] # None
                         \/ groupFile[n] = NoMembers /\ group[n] = None,
         \A n \in Dropping : n \in Dropping' \/ aliasFile'[n] = Defunct
  PROVE  /\ CallInv'
         /\ \A n \in Name, u \in Holder : Own(u, n) => Own(u, n)'
<1> USE DEF IndInv
<1>1. \A n \in Name, u \in Holder : Own(u, n) => Own(u, n)'
  <2> SUFFICES ASSUME NEW n \in Name, NEW u \in Holder, Own(u, n) PROVE Own(u, n)'
    OBVIOUS
  <2>1. u # None /\ Defunct # None
    BY UidAssumption DEF Holder
  <2> QED
    BY <2>1 DEF Own
<1>2. ASSUME NEW t \in Thread, call[t] # Idle
      PROVE  GoodCall(call[t])'
  <2> DEFINE c == call[t]
  <2>1. AliasOf(c) /\ Listed(c) /\ Filling(c) /\ Storing(c)
    BY <1>2 DEF CallInv, GoodCall
  <2>2. \A n \in Name, u \in Holder :
          aliasFile[n] \in {u, Defunct} => aliasFile'[n] \in {u, Defunct}
    BY UidAssumption DEF Holder
  <2>3. AliasOf(c)'
    BY <1>1, <1>2, <2>1, <2>2, CallFacts DEF AliasOf
  <2>4. Listed(c)'
    BY <1>2, <2>1, CallFacts, UidAssumption DEF Listed
  <2>5. Filling(c)'
    BY <1>2, <2>1, CallFacts, ObjAssumption DEF Filling
  <2>6. Storing(c)'
    <3> SUFFICES ASSUME c.at = "store" PROVE Storing(c)'
      BY DEF Storing
    <3>1. c.uid \in Holder /\ c.entry.alias \in Name
      BY <2>1, CallFacts DEF Storing
    <3> QED
      BY <2>1, <2>2, <3>1 DEF Storing, Allowed
  <2> QED
    BY <2>3, <2>4, <2>5, <2>6 DEF GoodCall
<1> QED
  BY <1>1, <1>2 DEF CallInv

-----------------------------------------------------------------------------
(* Aliases.                                                                 *)

\* A name is read into the cache, or checked and about to be taken.
LEMMA LookupStep ==
  ASSUME IndInv, NEW n \in Name, Lookup(n) \/ AddFetch(n)
  PROVE  IndInv'
<1> USE DEF IndInv, cache, files
<1>1. UNCHANGED <<group, member, call, dropping, files, restarts>> /\ Dropping' = Dropping
  BY DEF Lookup, AddFetch, Dropping
<1>2. TypeOK' /\ CacheInv'
  <2>1. CASE Lookup(n)
    BY <1>1, <2>1 DEF Lookup, TypeOK, CacheInv
  <2>2. CASE AddFetch(n)
    BY <1>1, <2>2 DEF AddFetch, TypeOK, CacheInv
  <2> QED
    BY <2>1, <2>2
<1>3. NameInv'
  BY <1>1 DEF Lookup, AddFetch, NameInv
<1>4. DropInv' /\ SoundInv'
  <2>1. \A k \in Name : alias[k] = Defunct => alias'[k] = Defunct
    BY UidAssumption DEF Lookup, AddFetch, TypeOK
  <2> QED
    BY <1>1, <2>1 DEF TypeOK, DropInv, SoundInv, Sound, Fits, Own
<1>5. CallInv'
  BY <1>1, CallsKept
<1> QED
  BY <1>2, <1>3, <1>4, <1>5

\* An alias that somebody has or had stays with him or goes to nobody, and no name
\* that is or becomes a group's is taken: then every table and call is as sound as
\* before.
LEMMA AliasFileStep ==
  ASSUME IndInv, UNCHANGED <<member, group, call, groupFile, restarts>>,
         \A n \in Name : aliasFile[n] # None => aliasFile'[n] \in {aliasFile[n], Defunct},
         \A n \in Name : \/ aliasFile'[n] = aliasFile[n] \/ aliasFile[n] # None
                         \/ groupFile[n] = NoMembers /\ group[n] = None,
         \A n \in Dropping : n \in Dropping' \/ aliasFile'[n] = Defunct
  PROVE  /\ \A n \in Name : groupFile[n] # NoMembers => aliasFile'[n] = None
         /\ SoundInv' /\ CallInv'
<1> USE DEF IndInv
<1>1. ASSUME NEW n \in Name, groupFile[n] # NoMembers
      PROVE  aliasFile'[n] = None
  BY <1>1 DEF NameInv
<1>2. CallInv' /\ \A n \in Name, u \in Holder : Own(u, n) => Own(u, n)'
  BY CallsKept
<1>3. SoundInv'
  <2>1. ASSUME NEW u \in Holder, NEW m, Fits(u, m) PROVE Fits(u, m)'
    BY <1>2, <2>1, UidAssumption DEF Fits
  <2> QED
    BY <2>1 DEF SoundInv, Sound
<1> QED
  BY <1>1, <1>2, <1>3

\* Both names are free on the disk, though only the cache is looked at.
LEMMA AddAliasStep ==
  ASSUME IndInv, NEW u \in Uid, NEW names \in SUBSET Name, AddAlias(u, names)
  PROVE  IndInv'
<1> USE DEF IndInv, AddAlias
<1>1. \A n \in names : aliasFile[n] = None /\ groupFile[n] = NoMembers /\ group[n] = None
  BY DEF NameInv
<1>2. /\ \A n \in Name : aliasFile'[n] = IF n \in names THEN u ELSE aliasFile[n]
      /\ \A n \in Name : alias'[n] = IF n \in names THEN u ELSE alias[n]
      /\ Dropping' = Dropping
  BY DEF Dropping
<1>3. TypeOK'
  BY DEF TypeOK, Holder
<1>4. CacheInv'
  BY <1>2 DEF CacheInv
<1>5. DropInv'
  BY <1>1, <1>2, UidAssumption DEF DropInv, TypeOK
<1>6. /\ \A n \in Name : groupFile[n] # NoMembers => aliasFile'[n] = None
      /\ SoundInv' /\ CallInv'
  BY <1>1, <1>2, AliasFileStep
<1>7. NameInv'
  BY <1>2, <1>6 DEF NameInv, TypeOK
<1> QED
  BY <1>3, <1>4, <1>5, <1>6, <1>7

\* The name is *defunct in the cache only.
LEMMA DropAliasStep ==
  ASSUME IndInv, NEW u \in Uid, NEW n \in Name, DropAlias(u, n)
  PROVE  IndInv'
<1> USE DEF IndInv, DropAlias, files
<1>1. aliasFile[n] = u
  BY Seen, UidAssumption
<1>2. Dropping' = Dropping \cup {n}
  <2>1. \A v \in Uid : dropping'[v] = IF v = u THEN n ELSE dropping[v]
    BY DEF TypeOK
  <2> QED
    BY <2>1, NameAssumption DEF Dropping
<1>3. \A k \in Name : alias'[k] = IF k = n THEN Defunct ELSE alias[k]
  BY DEF TypeOK
<1>4. TypeOK' /\ DropInv'
  BY <1>1, <1>3 DEF TypeOK, DropInv, Holder
<1>5. CacheInv'
  BY <1>2, <1>3 DEF CacheInv, TypeOK
<1>6. SoundInv' /\ CallInv'
  BY <1>2, AliasFileStep
<1>7. NameInv'
  BY DEF NameInv
<1> QED
  BY <1>4, <1>5, <1>6, <1>7

\* The name stays taken.
LEMMA DropStoreStep ==
  ASSUME IndInv, NEW u \in Uid, DropStore(u)
  PROVE  IndInv'
<1> USE DEF IndInv, DropStore, cache
<1> DEFINE n == dropping[u]
<1>1. n \in Name /\ aliasFile[n] = u /\ u # None /\ alias[n] = Defunct
  BY UidAssumption DEF DropInv, TypeOK
<1>2. \A k \in Name : aliasFile'[k] = IF k = n THEN Defunct ELSE aliasFile[k]
  BY DEF TypeOK
<1>3. \A v \in Uid : dropping'[v] = IF v = u THEN None ELSE dropping[v]
  BY DEF TypeOK
<1>4. \A v \in Uid : v # u => dropping[v] # n
  BY <1>1, NameAssumption DEF DropInv
<1>5. Dropping' = Dropping \ {n}
  BY <1>1, <1>3, <1>4, NameAssumption DEF Dropping
<1>6. TypeOK'
  BY DEF TypeOK, Holder
<1>7. DropInv'
  BY <1>2, <1>3, <1>4 DEF DropInv, TypeOK
<1>8. CacheInv'
  BY <1>1, <1>2, <1>5 DEF CacheInv, TypeOK
<1>9. /\ \A k \in Name : groupFile[k] # NoMembers => aliasFile'[k] = None
      /\ SoundInv' /\ CallInv'
  <2>1. \A k \in Dropping : k \in Dropping' \/ aliasFile'[k] = Defunct
    BY <1>1, <1>2, <1>5
  <2> HIDE DEF n
  <2> QED
    BY <1>1, <1>2, <2>1, AliasFileStep
<1>10. NameInv'
  BY <1>1, <1>2, <1>9 DEF NameInv, TypeOK
<1> QED
  BY <1>6, <1>7, <1>8, <1>9, <1>10

-----------------------------------------------------------------------------
(* fetchGroup, and GroupInvite.                                             *)

\* A group is listed with what its file holds, as an object that nobody has.
LEMMA FetchedStep ==
  ASSUME IndInv, NEW g \in Name, NEW o \in Obj, Fetched(g, o),
         UNCHANGED <<alias, dropping, adding, files, restarts>>
  PROVE  /\ group' \in [Name -> Obj \cup {None}]
         /\ member' \in [Obj -> [Holder -> Member]]
         /\ DropInv' /\ CacheInv' /\ NameInv' /\ SoundInv'
         /\ group'[g] = o
         /\ \A n \in Name : group'[n] = o => n = g
         /\ \A t \in Thread : call'[t] = call[t] /\ call[t] # Idle => GoodCall(call[t])'
<1> USE DEF IndInv, files
<1>1. Dropping' = Dropping /\ DropInv'
  BY DEF Dropping, DropInv
<1>2. \A t \in Thread : call[t] # Idle => GoodCall(call[t])
  BY DEF CallInv
<1>3. CASE group[g] # None
  <2>1. UNCHANGED <<group, member>> /\ group[g] = o
    BY <1>3 DEF Fetched
  <2>2. \A n \in Name : group[n] = o => n = g
    BY <2>1, ObjAssumption DEF CacheInv
  <2>3. CacheInv' /\ NameInv' /\ SoundInv'
    BY <1>1, <2>1 DEF CacheInv, NameInv, SoundInv, Sound, Fits, Own
  <2>4. ASSUME NEW t \in Thread, call'[t] = call[t], call[t] # Idle
        PROVE  GoodCall(call[t])'
    BY <1>1, <1>2, <2>1, <2>4
       DEF GoodCall, AliasOf, Own, Listed, Filling, Storing, Allowed
  <2> QED
    BY <1>1, <2>1, <2>2, <2>3, <2>4 DEF TypeOK
<1>4. CASE group[g] = None
  <2>1. /\ \A n \in Name : group[n] # o
        /\ \A t \in Thread : call[t] # Idle => call[t].obj # o
        /\ group' \in [Name -> Obj \cup {None}]
        /\ member' \in [Obj -> [Holder -> Member]]
        /\ \A n \in Name : group'[n] = IF n = g THEN o ELSE group[n]
        /\ \A x \in Obj : member'[x] = IF x = o THEN groupFile[g] ELSE member[x]
    BY <1>4 DEF Fetched, Unused, TypeOK
  <2>2. CacheInv'
    <3>1. \A n \in Name : group'[n] # None => member'[group'[n]] = groupFile[n]
      BY <2>1, ObjAssumption DEF CacheInv, TypeOK
    <3>2. \A n, k \in Name : group'[n] # None /\ group'[n] = group'[k] => n = k
      BY <2>1 DEF CacheInv
    <3>3. \A x \in Obj : (\A n \in Name : group'[n] # x) => member'[x] = NoMembers
      <4> SUFFICES ASSUME NEW x \in Obj, \A n \in Name : group'[n] # x
                   PROVE  member'[x] = NoMembers
        OBVIOUS
      <4>1. x # o /\ \A n \in Name : group[n] # x
        BY <2>1, <1>4, ObjAssumption
      <4> QED
        BY <2>1, <4>1 DEF CacheInv
    <3> QED
      BY <1>1, <3>1, <3>2, <3>3 DEF CacheInv
  <2>3. NameInv' /\ SoundInv'
    BY <1>1, <2>1, ObjAssumption DEF NameInv, SoundInv, Sound, Fits, Own, TypeOK
  <2>4. ASSUME NEW t \in Thread, call'[t] = call[t], call[t] # Idle
        PROVE  GoodCall(call[t])'
    <3> DEFINE c == call[t]
    <3>1. /\ AliasOf(c) /\ Listed(c) /\ Filling(c) /\ Storing(c)
          /\ c.at \in {"lock", "fill", "store"} => c.gid \in Name /\ c.obj \in Obj /\ c.obj # o
      BY <1>2, <2>1, <2>4, CallFacts DEF GoodCall
    <3>2. AliasOf(c)'
      BY <1>1, <2>4, <3>1 DEF AliasOf, Own
    <3>3. Listed(c)'
      BY <1>4, <2>1, <2>4, <3>1, ObjAssumption DEF Listed
    <3>4. Filling(c)'
      BY <1>4, <2>1, <2>4, <3>1, ObjAssumption DEF Filling
    <3>5. Storing(c)'
      <4> SUFFICES ASSUME c.at = "store" PROVE Storing(c)'
        BY <2>4 DEF Storing
      <4>1. c.gid # g /\ member'[c.obj] = member[c.obj]
        BY <1>4, <2>1, <3>1, ObjAssumption DEF Storing
      <4> QED
        BY <2>1, <2>4, <3>1, <4>1 DEF Storing, Allowed
    <3> QED
      BY <3>2, <3>3, <3>4, <3>5 DEF GoodCall
  <2> QED
    BY <1>1, <2>1, <2>2, <2>3, <2>4, ObjAssumption
<1> QED
  BY <1>3, <1>4

\* fetchGroup by a call that does not make a group.
LEMMA FetchGroupStep ==
  ASSUME IndInv, NEW g \in Name, FetchGroup(g)
  PROVE  IndInv'
<1> USE DEF IndInv
<1> PICK o \in Obj : Fetched(g, o)
  BY DEF FetchGroup
<1>1. UNCHANGED <<alias, call, dropping, adding, files, restarts>>
  BY DEF FetchGroup
<1>2. /\ group' \in [Name -> Obj \cup {None}] /\ member' \in [Obj -> [Holder -> Member]]
      /\ DropInv' /\ CacheInv' /\ NameInv' /\ SoundInv'
      /\ \A t \in Thread : call[t] # Idle => GoodCall(call[t])'
  BY <1>1, FetchedStep
<1>3. TypeOK'
  BY <1>1, <1>2 DEF TypeOK, files
<1>4. CallInv'
  BY <1>1, <1>2 DEF CallInv
<1> QED
  BY <1>2, <1>3, <1>4

\* What a call only looks at stays as good as it is, when the call goes on.
LEMMA CallStep ==
  ASSUME IndInv, UNCHANGED <<cache, dropping, adding, files, restarts>>,
         NEW t \in Thread, NEW c \in Call \cup Put \cup {Idle},
         call' = [call EXCEPT ![t] = c], c # Idle => GoodCall(c),
         c.at \in {"fill", "store"} => Unlocked(c.obj)
  PROVE  IndInv'
<1> USE DEF IndInv, cache, files
<1>1. Dropping' = Dropping
  BY DEF Dropping
<1>2. \A s \in Thread : call'[s] = IF s = t THEN c ELSE call[s]
  BY DEF TypeOK
<1>3. TypeOK' /\ DropInv' /\ CacheInv' /\ NameInv' /\ SoundInv'
  BY <1>1 DEF TypeOK, DropInv, CacheInv, NameInv, SoundInv, Sound, Fits, Own
<1>4. ASSUME NEW s \in Thread, call'[s] # Idle
      PROVE  GoodCall(call[s])'
  <2>1. GoodCall(call'[s])
    BY <1>2, <1>4 DEF CallInv
  <2> QED
    BY <1>1, <2>1 DEF GoodCall, AliasOf, Own, Listed, Filling, Storing, Allowed
<1>5. ASSUME NEW r \in Thread, NEW s \in Thread,
             call'[r].at \in {"fill", "store"}, call'[s].at \in {"fill", "store"},
             call'[r].obj = call'[s].obj
      PROVE  r = s
  BY <1>2, <1>5 DEF CallInv, Unlocked
<1>6. CallInv'
  BY <1>4, <1>5 DEF CallInv
<1> QED
  BY <1>3, <1>6

\* A call has looked up the inviter's alias.
LEMMA InviteStep ==
  ASSUME IndInv, NEW t \in Thread, NEW b \in Name, NEW u \in Uid, Invite(t, b, u)
  PROVE  IndInv'
<1> DEFINE c == [at |-> "lookup", byAlias |-> b, by |-> u,
                 alias |-> None, uid |-> None, gid |-> None, obj |-> None]
<1>1. c \in Call
  BY DEF Call
<1>2. aliasFile[b] = u
  BY Seen, UidAssumption DEF Invite
<1>3. GoodCall(c)
  BY <1>2 DEF GoodCall, AliasOf, Listed, Filling, Storing
<1>4. call' = [call EXCEPT ![t] = c] /\ UNCHANGED <<cache, dropping, adding, files, restarts>>
  BY DEF Invite
<1> QED
  BY <1>1, <1>3, <1>4, CallStep

\* And the invitee's.
LEMMA InviteLookupStep ==
  ASSUME IndInv, NEW t \in Thread, NEW a \in Name, InviteLookup(t, a)
  PROVE  IndInv'
<1> DEFINE c == [call[t] EXCEPT !.at = "fetch", !.alias = a, !.uid = alias[a]]
<1>1. /\ call[t].at = "lookup" /\ alias[a] # None
      /\ UNCHANGED <<cache, dropping, adding, files, restarts>>
  BY DEF InviteLookup
<1>2. call[t] \in Call /\ call[t] # Idle
  BY <1>1, CallFacts DEF IndInv
<1>3. alias[a] \in Holder /\ Own(alias[a], a)
  BY <1>1, Seen
<1>4. c \in Call /\ c.at = "fetch" /\ c.alias = a /\ c.uid = alias[a]
      /\ c.byAlias = call[t].byAlias /\ c.by = call[t].by
  BY <1>1, <1>2, <1>3, NameAssumption DEF Call
<1>5. call' = [call EXCEPT ![t] = c]
  BY DEF InviteLookup
<1> HIDE DEF c
<1>6. AliasOf(call[t])
  BY <1>2 DEF IndInv, CallInv, GoodCall
<1>7. GoodCall(c)
  BY <1>1, <1>3, <1>4, <1>6 DEF GoodCall, AliasOf, Listed, Filling, Storing
<1> QED
  BY <1>1, <1>4, <1>5, <1>7, CallStep

\* fetchGroup by GroupInvite, which lists a group that may not exist.
LEMMA InviteFetchStep ==
  ASSUME IndInv, NEW t \in Thread, NEW g \in Name, InviteFetch(t, g)
  PROVE  IndInv'
<1> USE DEF IndInv
<1>1. call[t].at = "fetch" /\ UNCHANGED <<alias, dropping, adding, files, restarts>>
  BY DEF InviteFetch
<1>2. call[t] \in Call /\ call[t] # Idle
  BY <1>1, CallFacts
<1>3. PICK o \in Obj :
        /\ Fetched(g, o)
        /\ call' = [call EXCEPT ![t].at = "lock", ![t].gid = g, ![t].obj = o]
  BY DEF InviteFetch
<1> DEFINE d == [call[t] EXCEPT !.at = "lock", !.gid = g, !.obj = o]
<1>4. /\ d \in Call /\ d.at = "lock" /\ d.obj = o /\ d.gid = g
      /\ d.alias = call[t].alias /\ d.byAlias = call[t].byAlias
      /\ d.uid = call[t].uid /\ d.by = call[t].by
  BY <1>1, <1>2, NameAssumption, ObjAssumption DEF Call
<1>5. call' = [call EXCEPT ![t] = d]
  BY <1>3
<1>6. \A s \in Thread : call'[s] = IF s = t THEN d ELSE call[s]
  BY <1>5 DEF TypeOK
<1> HIDE DEF d
<1>7. /\ group' \in [Name -> Obj \cup {None}] /\ member' \in [Obj -> [Holder -> Member]]
      /\ DropInv' /\ CacheInv' /\ NameInv' /\ SoundInv'
      /\ group'[g] = o
      /\ \A n \in Name : group'[n] = o => n = g
      /\ \A s \in Thread : call'[s] = call[s] /\ call[s] # Idle => GoodCall(call[s])'
  BY <1>1, <1>3, FetchedStep
<1>8. TypeOK'
  BY <1>1, <1>4, <1>5, <1>7 DEF TypeOK, files
<1>9. ASSUME NEW s \in Thread, call'[s] # Idle
      PROVE  GoodCall(call[s])'
  <2>1. CASE s = t
    <3>1. AliasOf(call[t]) /\ call'[s] = d
      BY <1>2, <1>6, <2>1 DEF CallInv, GoodCall
    <3>2. AliasOf(call[s])'
      BY <3>1, <1>1, <1>4 DEF AliasOf, Own, Dropping, files
    <3> QED
      BY <3>1, <3>2, <1>4, <1>7 DEF GoodCall, Listed, Filling, Storing
  <2>2. CASE s # t
    <3>1. call'[s] = call[s] /\ call[s] # Idle
      BY <1>6, <1>9, <2>2
    <3> QED
      BY <3>1, <1>7
  <2> QED
    BY <2>1, <2>2
<1>10. ASSUME NEW r \in Thread, NEW s \in Thread,
              call'[r].at \in {"fill", "store"}, call'[s].at \in {"fill", "store"},
              call'[r].obj = call'[s].obj
       PROVE  r = s
  BY <1>4, <1>6, <1>10 DEF CallInv
<1>11. CallInv'
  BY <1>9, <1>10 DEF CallInv
<1> QED
  BY <1>7, <1>8, <1>11

\* A call that finds its name taken or bad deletes an empty entry; one that finds
\* it free still has its object listed.
LEMMA InviteCheckStep ==
  ASSUME IndInv, NEW t \in Thread, InviteCheck(t)
  PROVE  IndInv'
<1> USE DEF IndInv
<1> DEFINE c == call[t]
           g == call[t].gid
<1>1. /\ c.at = "lock" /\ Unlocked(c.obj) /\ Empty(c.obj)
      /\ aliasFile[g] # None => alias[g] # None
      /\ UNCHANGED <<alias, member, dropping, adding, files, restarts>>
  BY DEF InviteCheck
<1>2. /\ c \in Call /\ c # Idle /\ g \in Name /\ c.obj \in Obj
      /\ AliasOf(c) /\ Listed(c)
  BY <1>1, CallFacts DEF CallInv, GoodCall
<1>3. CASE alias[g] # None \/ g \in BadName
  <2>1. group' = [group EXCEPT ![g] = None] /\ call' = [call EXCEPT ![t] = Idle]
    BY <1>3 DEF InviteCheck
  <2>2. groupFile[g] = NoMembers /\ (aliasFile[g] # None \/ g \in BadName)
    BY <1>2, <1>3, Seen DEF NameInv
  <2>3. /\ \A n \in Name : group'[n] = IF n = g THEN None ELSE group[n]
        /\ \A s \in Thread : call'[s] = IF s = t THEN Idle ELSE call[s]
        /\ Dropping' = Dropping
    BY <1>1, <1>2, <2>1 DEF TypeOK, Dropping
  <2>4. TypeOK' /\ DropInv'
    BY <1>1, <2>1 DEF TypeOK, DropInv, files
  <2>5. CacheInv'
    <3>1. \A o \in Obj : (\A n \in Name : group'[n] # o) => member[o] = NoMembers
      BY <1>2, <2>2, <2>3, ObjAssumption DEF CacheInv
    <3> QED
      BY <1>1, <2>3, <3>1 DEF CacheInv, files
  <2>6. NameInv' /\ SoundInv'
    BY <1>1, <2>2, <2>3 DEF NameInv, SoundInv, Sound, Fits, Own, files, TypeOK
  <2>7. ASSUME NEW s \in Thread, call'[s] # Idle
        PROVE  GoodCall(call[s])'
    <3>1. call'[s] = call[s] /\ call[s] # Idle
      BY <2>3, <2>7
    <3>2. AliasOf(call[s]) /\ Listed(call[s]) /\ Filling(call[s]) /\ Storing(call[s])
      BY <3>1 DEF CallInv, GoodCall
    <3>3. AliasOf(call[s])'
      BY <1>1, <2>3, <3>1, <3>2 DEF AliasOf, Own, files
    <3>4. Listed(call[s])'
      BY <1>1, <2>2, <2>3, <3>1, <3>2, CallFacts, ObjAssumption DEF Listed, files
    <3>5. Filling(call[s])'
      BY <1>1, <2>2, <2>3, <3>1, <3>2, CallFacts DEF Filling, files
    <3>6. Storing(call[s])'
      <4> SUFFICES ASSUME call[s].at = "store" PROVE Storing(call[s])'
        BY <3>1 DEF Storing
      <4>1. call[s].gid # g
        BY <2>2, StoringFacts
      <4> QED
        BY <1>1, <2>3, <3>1, <3>2, <4>1, CallFacts DEF Storing, Allowed, files
    <3> QED
      BY <3>3, <3>4, <3>5, <3>6 DEF GoodCall
  <2>8. CallInv'
    BY <2>3, <2>7, CallFacts DEF CallInv
  <2> QED
    BY <2>4, <2>5, <2>6, <2>8
<1>4. CASE alias[g] = None /\ g \notin BadName
  <2>1. call' = [call EXCEPT ![t].at = "fill"] /\ group' = group
    BY <1>4 DEF InviteCheck
  <2>2. aliasFile[g] = None /\ group[g] = c.obj /\ member[c.obj] = NoMembers
    BY <1>1, <1>2, <1>4, ObjFacts DEF Listed
  <2> DEFINE d == [c EXCEPT !.at = "fill"]
  <2>3. /\ d \in Call /\ d.at = "fill" /\ d.obj = c.obj /\ d.gid = g
        /\ d.alias = c.alias /\ d.byAlias = c.byAlias /\ d.uid = c.uid /\ d.by = c.by
    BY <1>1, <1>2 DEF Call
  <2>4. call' = [call EXCEPT ![t] = d]
    BY <2>1
  <2> HIDE DEF d
  <2>5. GoodCall(d)
    BY <1>1, <1>2, <1>4, <2>2, <2>3 DEF GoodCall, AliasOf, Listed, Filling, Storing
  <2>6. UNCHANGED <<cache, dropping, adding, files, restarts>>
    BY <1>1, <2>1 DEF cache
  <2> QED
    BY <1>1, <2>3, <2>4, <2>5, <2>6, CallStep
<1> QED
  BY <1>3, <1>4

\* The first members of a group: the inviter can always come back.
LEMMA InviteFillStep ==
  ASSUME IndInv, NEW t \in Thread, InviteFill(t)
  PROVE  IndInv'
<1> USE DEF IndInv
<1> DEFINE c == call[t]
           m == [[NoMembers EXCEPT ![c.by] = Joined(c.byAlias)]
                            EXCEPT ![c.uid] = Invited(c.alias)]
<1>1. c.at = "fill" /\ c # Idle
  BY CallFacts DEF InviteFill
<1>2. /\ c.gid \in Name /\ c.alias \in Name /\ c.byAlias \in Name /\ c.obj \in Obj
      /\ c.by \in Uid /\ c.uid \in Holder /\ c.by \in Holder
  BY <1>1, CallFacts
<1>3. AliasOf(c) /\ Listed(c) /\ Filling(c)
  BY <1>1 DEF CallInv, GoodCall
<1>4. PutGroup(c.gid, c.obj, m) /\ call' = [call EXCEPT ![t] = Idle]
  BY <1>1, <1>3 DEF InviteFill, Filling
<1>5. m \in [Holder -> Member]
  BY <1>2, MemberFacts
<1>6. \A u \in Holder : m[u] = IF u = c.uid THEN Invited(c.alias)
                               ELSE IF u = c.by THEN Joined(c.byAlias) ELSE NotIn
  BY <1>2, MemberFacts
<1> HIDE DEF m
<1>7. Sound(m)
  <2>1. Own(c.by, c.byAlias) /\ Own(c.uid, c.alias)
    BY <1>1, <1>3 DEF AliasOf, Own
  <2>2. \A u \in Holder : Fits(u, m[u])
    BY <1>2, <1>6, <2>1, OwnFits DEF Fits
  <2>3. m[Defunct].status # "joined"
    BY <1>2, <1>6, MemberFacts, UidAssumption
  <2>4. m[c.by].status \in {"invited", "joined"}
    BY <1>2, <1>6, MemberFacts
  <2> QED
    BY <1>2, <2>2, <2>3, <2>4 DEF Sound
<1>8. /\ call' \in [Thread -> Call \cup Put \cup {Idle}]
      /\ \A s \in Thread : call'[s] = IF s = t THEN Idle ELSE call[s]
  BY <1>4 DEF TypeOK
<1>9. \A s \in Thread : ~(call'[s].at \in {"fill", "store"} /\ call'[s].obj = c.obj)
  BY <1>1, <1>8, CallFacts DEF CallInv
<1>10. group[c.gid] = c.obj /\ aliasFile[c.gid] = None /\ c.gid \notin BadName
  BY <1>1, <1>3 DEF Filling
<1> QED
  BY <1>2, <1>4, <1>5, <1>7, <1>8, <1>9, <1>10, PutStep

\* One entry of a table that is in use is changed, with an alias of that user, and
\* somebody is left who is joined or may join.
LEMMA SoundChange ==
  ASSUME NEW M \in [Holder -> Member], Sound(M), NEW u \in Holder, NEW e \in Member,
         Fits(u, e), u = Defunct => e.status # "joined",
         \/ u \in Uid /\ e.status \in {"invited", "joined"}
         \/ \E v \in Uid \ {u} : M[v].status \in {"invited", "joined"}
  PROVE  [M EXCEPT ![u] = e] \in [Holder -> Member] /\ Sound([M EXCEPT ![u] = e])
<1> DEFINE E == [M EXCEPT ![u] = e]
<1>1. E \in [Holder -> Member] /\ \A v \in Holder : E[v] = IF v = u THEN e ELSE M[v]
  OBVIOUS
<1>2. \A v \in Holder : Fits(v, E[v])
  BY <1>1 DEF Sound
<1>3. E[Defunct].status # "joined"
  BY <1>1, MemberFacts DEF Sound
<1>4. \E v \in Uid : E[v].status \in {"invited", "joined"}
  BY <1>1, MemberFacts
<1> QED
  BY <1>1, <1>2, <1>3, <1>4 DEF Sound

\* A joined member invites another user, or the call ends.
LEMMA InviteMemberStep ==
  ASSUME IndInv, NEW t \in Thread, InviteMember(t)
  PROVE  IndInv'
<1> USE DEF IndInv
<1> DEFINE c == call[t]
           m == member[c.obj]
<1>1. /\ c.at = "lock" /\ Unlocked(c.obj) /\ ~Empty(c.obj)
      /\ call' = [call EXCEPT ![t] = Idle]
  BY DEF InviteMember
<1>2. /\ c # Idle /\ c.obj \in Obj /\ c.gid \in Name
      /\ c.alias \in Name /\ c.uid \in Holder /\ c.by \in Uid
      /\ AliasOf(c) /\ Listed(c)
  BY <1>1, CallFacts DEF CallInv, GoodCall
<1>3. group[c.gid] = c.obj /\ groupFile[c.gid] = m /\ m # NoMembers
  BY <1>1, <1>2, ObjFacts DEF Listed
<1>4. /\ call' \in [Thread -> Call \cup Put \cup {Idle}]
      /\ \A s \in Thread : call'[s] = IF s = t THEN Idle ELSE call[s]
  BY <1>1 DEF TypeOK
<1>5. \A s \in Thread : ~(call'[s].at \in {"fill", "store"} /\ call'[s].obj = c.obj)
  BY <1>1, <1>4, CallFacts DEF Unlocked
<1>6. CASE m[c.by].status = "joined" /\ m[c.uid].status \in {"none", "barred"}
  <2>1. PutGroup(c.gid, c.obj, [m EXCEPT ![c.uid] = Invited(c.alias)])
    BY <1>6 DEF InviteMember
  <2>2. m \in [Holder -> Member] /\ Sound(m) /\ aliasFile[c.gid] = None
        /\ c.gid \notin BadName
    BY <1>2, <1>3, ObjFacts DEF TypeOK, NameInv
  <2>3. Fits(c.uid, Invited(c.alias)) /\ Invited(c.alias) \in Member
    BY <1>1, <1>2, MemberFacts, OwnFits DEF AliasOf
  <2>4. /\ [m EXCEPT ![c.uid] = Invited(c.alias)] \in [Holder -> Member]
        /\ Sound([m EXCEPT ![c.uid] = Invited(c.alias)])
    BY <1>2, <1>6, <2>2, <2>3, SoundChange, MemberFacts
  <2> QED
    BY <1>2, <1>3, <1>4, <1>5, <2>1, <2>2, <2>4, PutStep
<1>7. CASE ~(m[c.by].status = "joined" /\ m[c.uid].status \in {"none", "barred"})
  <2>1. UNCHANGED <<cache, dropping, adding, files, restarts>>
    BY <1>7 DEF InviteMember
  <2>2. Idle \in Call \cup Put \cup {Idle} /\ Idle.at \notin {"fill", "store"}
    BY DEF Idle
  <2> QED
    BY <1>1, <2>1, <2>2, CallStep
<1> QED
  BY <1>6, <1>7

-----------------------------------------------------------------------------
(* The other group operations.                                              *)

\* A name whose group has an entry is no alias.
LEMMA InUse ==
  ASSUME IndInv, NEW g \in Name, group[g] # None, NEW u \in Holder,
         member[group[g]][u] # NotIn
  PROVE  /\ group[g] \in Obj /\ member[group[g]] \in [Holder -> Member]
         /\ Fits(u, member[group[g]][u])
<1>1. group[g] \in Obj /\ member[group[g]] = groupFile[g]
  BY DEF IndInv, TypeOK, CacheInv
<1> QED
  BY <1>1 DEF IndInv, TypeOK, SoundInv, Sound

\* A call has locked the group and checked an entry that may be put.
LEMMA PrepareStep ==
  ASSUME IndInv, NEW t \in Thread, NEW g \in Name, NEW u \in Holder, NEW e \in Member,
         group[g] # None, e.alias \in Name, Allowed(member[group[g]], u, e),
         Prepare(t, g, u, e)
  PROVE  IndInv'
<1> DEFINE c == [at |-> "store", gid |-> g, obj |-> group[g], uid |-> u, entry |-> e]
<1>1. c \in Put
  BY DEF IndInv, TypeOK, Put
<1>2. GoodCall(c)
  BY DEF GoodCall, AliasOf, Listed, Filling, Storing
<1>3. /\ call' = [call EXCEPT ![t] = c] /\ Unlocked(c.obj)
      /\ UNCHANGED <<cache, dropping, adding, files, restarts>>
  BY DEF Prepare
<1> QED
  BY <1>1, <1>2, <1>3, CallStep

\* GroupJoin, with a new alias or with that of the invitation.
LEMMA GroupJoinStep ==
  ASSUME IndInv, NEW t \in Thread, NEW g \in Name, NEW u \in Uid,
         NEW a \in Name \cup {None}, GroupJoin(t, g, u, a)
  PROVE  IndInv'
<1> DEFINE m == member[group[g]][u]
           b == IF a = None THEN m.alias ELSE a
<1>1. /\ group[g] # None /\ m.status \in {"invited", "joined"}
      /\ a # None => alias[a] = u
      /\ Prepare(t, g, u, Joined(b))
  BY DEF GroupJoin
<1>2. m # NotIn /\ u \in Holder /\ u # None
  BY <1>1, MemberFacts, UidAssumption
<1>3. Fits(u, m)
  BY <1>1, <1>2, InUse
<1>4. b \in Name /\ (b = m.alias \/ aliasFile[b] \in {u, Defunct})
  <2>1. CASE a = None
    BY <1>2, <1>3, <2>1 DEF Fits
  <2>2. CASE a # None
    BY <1>1, <1>2, <2>2, Seen
  <2> QED
    BY <2>1, <2>2
<1> HIDE DEF b
<1>5. Allowed(member[group[g]], u, Joined(b))
  BY <1>1, <1>4, MemberFacts DEF Allowed
<1> QED
  BY <1>1, <1>2, <1>4, <1>5, MemberFacts, PrepareStep

\* GroupAlias, with an alias that is the user's.
LEMMA GroupAliasStep ==
  ASSUME IndInv, NEW t \in Thread, NEW g \in Name, NEW u \in Uid, NEW a \in Name,
         GroupAlias(t, g, u, a)
  PROVE  IndInv'
<1>1. /\ group[g] # None /\ member[group[g]][u].status = "joined"
      /\ alias[a] = u /\ Prepare(t, g, u, Joined(a))
  BY DEF GroupAlias
<1>2. u \in Holder /\ aliasFile[a] = u
  BY <1>1, Seen, MemberFacts, UidAssumption
<1>3. Allowed(member[group[g]], u, Joined(a))
  BY <1>1, <1>2, MemberFacts DEF Allowed
<1> QED
  BY <1>1, <1>2, <1>3, MemberFacts, PrepareStep

\* GroupQuit: who quits may join again, and who bars another is joined.
LEMMA GroupQuitStep ==
  ASSUME IndInv, NEW t \in Thread, NEW g \in Name, NEW by \in Uid, NEW a \in Name,
         GroupQuit(t, g, a, by)
  PROVE  IndInv'
<1> DEFINE u == alias[a]
           m == member[group[g]]
<1>1. /\ group[g] # None /\ u # None /\ m[u].alias = a
      /\ \/ by = u /\ m[u].status # "invited" /\ Prepare(t, g, u, Invited(a))
         \/ /\ by # u /\ m[by].status = "joined" /\ m[u].status # "barred"
            /\ Prepare(t, g, u, Barred(a))
  BY DEF GroupQuit
<1>2. u \in Holder /\ m[u] # NotIn
  BY <1>1, MemberFacts, NameAssumption DEF IndInv, TypeOK
<1>3. m[u].status \in {"invited", "joined", "barred"}
  <2>1. m[u] \in Member /\ m[u].status # "none"
    BY <1>1, <1>2, InUse DEF Fits
  <2> HIDE DEF m, u
  <2> QED
    BY <2>1 DEF Member, Status
<1>4. CASE by = u /\ m[u].status # "invited" /\ Prepare(t, g, u, Invited(a))
  <2>1. Allowed(m, u, Invited(a))
    BY <1>1, <1>3, <1>4, MemberFacts DEF Allowed
  <2> QED
    BY <1>1, <1>2, <1>4, <2>1, MemberFacts, PrepareStep
<1>5. CASE /\ by # u /\ m[by].status = "joined" /\ m[u].status # "barred"
           /\ Prepare(t, g, u, Barred(a))
  <2>1. Allowed(m, u, Barred(a))
    BY <1>1, <1>3, <1>5, MemberFacts DEF Allowed
  <2> QED
    BY <1>1, <1>2, <1>5, <2>1, MemberFacts, PrepareStep
<1> QED
  BY <1>1, <1>4, <1>5

\* The entry is put that was allowed when the group was locked.
LEMMA StoreStep ==
  ASSUME IndInv, NEW t \in Thread, Store(t)
  PROVE  IndInv'
<1> DEFINE c == call[t]
           M == member[c.obj]
           m == [M EXCEPT ![c.uid] = c.entry]
<1>1. /\ c.at = "store" /\ PutGroup(c.gid, c.obj, m)
      /\ call' = [call EXCEPT ![t] = Idle]
  BY DEF Store
<1>2. /\ c # Idle /\ c.gid \in Name /\ c.obj \in Obj /\ c.uid \in Holder
      /\ c.entry \in Member
  BY <1>1, CallFacts DEF IndInv
<1>3. group[c.gid] = c.obj /\ c.entry.alias \in Name /\ Allowed(M, c.uid, c.entry)
  BY <1>1, <1>2 DEF IndInv, CallInv, GoodCall, Storing
<1>4. aliasFile[c.gid] = None /\ c.gid \notin BadName
  BY <1>1, StoringFacts
<1>5. M \in [Holder -> Member] /\ Sound(M)
  BY <1>2, ObjFacts DEF IndInv, TypeOK
<1>6. Fits(c.uid, c.entry)
  <2>1. Fits(c.uid, M[c.uid]) /\ M[c.uid] # NotIn
    BY <1>2, <1>3, <1>5, MemberFacts DEF Allowed, Sound
  <2>2. c.entry.status # "none"
    BY <1>3 DEF Allowed
  <2>3. \/ c.entry.alias = M[c.uid].alias
        \/ aliasFile[c.entry.alias] \in {c.uid, Defunct}
    BY <1>3 DEF Allowed
  <2> QED
    BY <1>3, <2>1, <2>2, <2>3 DEF Fits, Own
<1>7. c.uid = Defunct => c.entry.status # "joined"
  BY <1>3, UidAssumption DEF Allowed
<1>8. \/ c.uid \in Uid /\ c.entry.status \in {"invited", "joined"}
      \/ \E v \in Uid \ {c.uid} : M[v].status \in {"invited", "joined"}
  BY <1>3 DEF Allowed
<1>9. m \in [Holder -> Member] /\ Sound(m)
  <2> HIDE DEF M, c
  <2> QED
    BY <1>2, <1>5, <1>6, <1>7, <1>8, SoundChange
<1>10. /\ call' \in [Thread -> Call \cup Put \cup {Idle}]
       /\ \A s \in Thread : call'[s] = IF s = t THEN Idle ELSE call[s]
  BY <1>1 DEF IndInv, TypeOK
<1>11. \A s \in Thread : ~(call'[s].at \in {"fill", "store"} /\ call'[s].obj = c.obj)
  BY <1>1, <1>10, CallFacts DEF IndInv, CallInv
<1> HIDE DEF m
<1> QED
  BY <1>1, <1>2, <1>3, <1>4, <1>9, <1>10, <1>11, PutStep

\* A restart: the cache is empty, no call is under way, and what was being dropped is
\* not any more.
LEMMA RestartStep ==
  ASSUME IndInv, Restart
  PROVE  IndInv'
<1> USE DEF IndInv, Restart, files
<1>1. TypeOK' /\ restarts' > 0
  BY MemberFacts, BoundAssumption DEF TypeOK
<1>2. DropInv' /\ CacheInv' /\ NameInv'
  BY ObjAssumption DEF DropInv, CacheInv, NameInv
<1>3. SoundInv'
  <2>1. ASSUME NEW u \in Holder, NEW m, Fits(u, m) PROVE Fits(u, m)'
    <3>1. \A n \in Dropping : aliasFile[n] # None
      BY DroppingFacts, UidAssumption
    <3>2. u = Defunct /\ Own(u, m.alias) => aliasFile[m.alias] # None
      BY <3>1, UidAssumption DEF Own
    <3>3. u # Defunct => (Own(u, m.alias) => Own(u, m.alias)')
      BY DEF Own
    <3> QED
      BY <1>1, <2>1, <3>2, <3>3 DEF Fits
  <2> QED
    BY <2>1 DEF SoundInv, Sound
<1>4. CallInv'
  BY DEF CallInv, Idle
<1> QED
  BY <1>1, <1>2, <1>3, <1>4

-----------------------------------------------------------------------------
\* An empty database satisfies IndInv.
LEMMA IndInit == Init => IndInv
<1> SUFFICES ASSUME Init PROVE IndInv
  OBVIOUS
<1> USE DEF Init
<1>1. TypeOK
  BY MemberFacts, BoundAssumption DEF TypeOK
<1>2. DropInv /\ CacheInv /\ NameInv
  BY ObjAssumption DEF DropInv, CacheInv, NameInv
<1>3. SoundInv
  BY MemberFacts DEF SoundInv, Sound, Fits
<1>4. CallInv
  BY DEF CallInv, Idle
<1> QED
  BY <1>1, <1>2, <1>3, <1>4 DEF IndInv

\* Every step preserves IndInv.
LEMMA IndStep == IndInv /\ [Next]_vars => IndInv'
<1>1. IndInv /\ UNCHANGED vars => IndInv'
  BY DEF vars, cache, files, IndInv, TypeOK, DropInv, Dropping, CacheInv, NameInv, SoundInv,
       Sound, Fits, Own, CallInv, GoodCall, AliasOf, Listed, Filling, Storing, Allowed
<1> QED
  BY <1>1, LookupStep, FetchGroupStep, AddAliasStep, DropAliasStep, DropStoreStep,
     InviteStep, InviteLookupStep, InviteFetchStep, InviteCheckStep, InviteFillStep,
     InviteMemberStep, GroupJoinStep, GroupAliasStep, GroupQuitStep, StoreStep, RestartStep
     DEF Next

\* The inductive invariant holds in every reachable state.
THEOREM Invariance == Spec => []IndInv
  BY IndInit, IndStep, PTL DEF Spec

\* Tables hold users, names and objects, and calls what they were given.
THEOREM TypeCorrect == Spec => []TypeOK
<1>1. IndInv => TypeOK
  BY DEF IndInv
<1> QED
  BY Invariance, <1>1, PTL

\* AddAlias and GroupInvite never both get a name, in whatever order their lock
\* sections run and whatever the cache has forgotten.
THEOREM NamesExclusive == Spec => []NameExclusive
<1>1. IndInv => NameExclusive
  <2> SUFFICES ASSUME IndInv, NEW n \in Name, aliasFile[n] # None
               PROVE  groupFile[n] = NoMembers /\ (group[n] # None => Empty(group[n]))
    BY DEF NameExclusive
  <2>1. groupFile[n] = NoMembers
    BY DEF IndInv, NameInv
  <2>2. group[n] # None => group[n] \in Obj /\ member[group[n]] = NoMembers
    BY <2>1 DEF IndInv, CacheInv, TypeOK
  <2> QED
    BY <2>1, <2>2, ObjFacts
<1> QED
  BY Invariance, <1>1, PTL

\* No call writes members to an object that is not the listed and stored one.
THEOREM GroupsListed == Spec => []GroupListed
<1>1. IndInv => GroupListed
  BY ObjFacts DEF GroupListed
<1> QED
  BY Invariance, <1>1, PTL

\* The members of a group cannot lock everybody out of it.
THEOREM GroupsAlive == Spec => []GroupAlive
<1>1. IndInv => GroupAlive
  BY DEF IndInv, SoundInv, Sound, GroupAlive
<1> QED
  BY Invariance, <1>1, PTL

\* The alias that a member is listed by is or was its own, and one that *defunct is
\* listed by was dropped, is being dropped, or was when the server stopped.
THEOREM MembersNamed == Spec => []MemberAlias
<1>1. IndInv => MemberAlias
  <2> SUFFICES ASSUME IndInv, NEW g \in Name, NEW u \in Holder,
                      groupFile[g][u].status # "none"
               PROVE  LET a == groupFile[g][u].alias
                      IN  /\ a \in Name
                          /\ \/ aliasFile[a] \in {u, Defunct}
                             \/ /\ u = Defunct /\ aliasFile[a] # None
                                /\ a \in Dropping \/ restarts > 0
    BY DEF MemberAlias
  <2>1. Fits(u, groupFile[g][u]) /\ groupFile[g][u] # NotIn
    BY MemberFacts DEF IndInv, SoundInv, Sound
  <2>2. \A a \in Dropping : aliasFile[a] # None
    BY DroppingFacts, UidAssumption DEF IndInv
  <2> QED
    BY <2>1, <2>2 DEF Fits, Own
<1> QED
  BY Invariance, <1>1, PTL

\* The uid of dropped aliases never becomes a joined member.
THEOREM JoinedAreReal == Spec => []JoinedReal
<1>1. IndInv => JoinedReal
  BY DEF IndInv, SoundInv, Sound, JoinedReal
<1> QED
  BY Invariance, <1>1, PTL

-----------------------------------------------------------------------------
(* The files implement the abstract registry (NameRegistry): the step that  *)
(* stores a change finds in the cache what the files hold, or an alias that *)
(* is being dropped, so that what was checked there is allowed by them.     *)

\* AddAlias has refused unprintable names before it takes its lock.
Printable == adding \cap BadName = {}

LEMMA PrintableStep == Printable /\ [Next]_vars => Printable'
<1> SUFFICES ASSUME Printable, [Next]_vars PROVE Printable'
  OBVIOUS
<1>1. ASSUME NEW n \in Name, Lookup(n) \/ FetchGroup(n) \/ AddFetch(n) PROVE Printable'
  BY <1>1 DEF Printable, Lookup, FetchGroup, AddFetch
<1>2. ASSUME NEW u \in Uid, NEW names \in SUBSET Name, AddAlias(u, names) PROVE Printable'
  BY <1>2 DEF Printable, AddAlias
<1>3. ASSUME NEW u \in Uid, (\E n \in Name : DropAlias(u, n)) \/ DropStore(u)
      PROVE  Printable'
  BY <1>3 DEF Printable, DropAlias, DropStore
<1>4. ASSUME NEW t \in Thread,
             \/ \E b \in Name, u \in Uid : Invite(t, b, u)
             \/ \E n \in Name : InviteLookup(t, n) \/ InviteFetch(t, n)
             \/ InviteCheck(t) \/ InviteFill(t) \/ InviteMember(t) \/ Store(t)
      PROVE  Printable'
  <2>1. (\E b \in Name, u \in Uid : Invite(t, b, u)) => adding' = adding
    BY DEF Invite
  <2>2. (\E n \in Name : InviteLookup(t, n) \/ InviteFetch(t, n)) => adding' = adding
    BY DEF InviteLookup, InviteFetch
  <2>3. InviteCheck(t) => adding' = adding
    BY DEF InviteCheck
  <2>4. \A g, o, m : PutGroup(g, o, m) => adding' = adding
    BY DEF PutGroup
  <2>5. InviteFill(t) \/ InviteMember(t) \/ Store(t) => adding' = adding
    BY <2>4, Zenon DEF InviteFill, InviteMember, Store
  <2> QED
    BY <1>4, <2>1, <2>2, <2>3, <2>5 DEF Printable
<1>5. ASSUME NEW t \in Thread, NEW g \in Name, NEW u \in Uid,
             \/ \E a \in Name \cup {None} : GroupJoin(t, g, u, a)
             \/ \E a \in Name : GroupAlias(t, g, u, a) \/ GroupQuit(t, g, a, u)
      PROVE  Printable'
  <2>1. \A v, m : Prepare(t, g, v, m) => adding' = adding
    BY DEF Prepare
  <2>2. \A a : GroupJoin(t, g, u, a) \/ GroupAlias(t, g, u, a) => adding' = adding
    BY <2>1 DEF GroupJoin, GroupAlias
  <2>3. \A a : GroupQuit(t, g, a, u) => adding' = adding
    BY <2>1 DEF GroupQuit
  <2> QED
    BY <1>5, <2>2, <2>3 DEF Printable
<1>6. ASSUME Restart \/ UNCHANGED vars PROVE Printable'
  BY <1>6 DEF Printable, Restart, vars
<1> QED
  BY <1>1, <1>2, <1>3, <1>4, <1>5, <1>6 DEF Next

\* An entry of this module is one of the registry.
LEMMA SameEntries ==
  /\ Registry!Holder = Holder /\ Registry!NoMembers = NoMembers
  /\ \A a : /\ Invited(a) = Registry!Entry(a, "invited")
            /\ Joined(a) = Registry!Entry(a, "joined")
            /\ Barred(a) = Registry!Entry(a, "barred")
BY DEF Registry!Holder, Holder, Registry!NoMembers, NoMembers, NotIn, Registry!Entry,
       Invited, Joined, Barred

\* And an alias of a user's is one there.
LEMMA SameAliases ==
  ASSUME NEW u, NEW a \in Name
  PROVE  Own(u, a) <=> a \in Registry!Aliases(u)
  BY DEF Own, Registry!Aliases

\* A listed object holds what the group's file does, so that storing the object with
\* another entry changes that entry.
LEMMA PutChanges ==
  ASSUME NEW g, NEW o, NEW u \in Holder, NEW m, groupFile[g] = member[o],
         PutGroup(g, o, [member[o] EXCEPT ![u] = m]),
         NEW from, groupFile[g][u].status \in from
  PROVE  Registry!Change(g, u, from, m)
<1>1. groupFile' = [groupFile EXCEPT ![g][u] = m] /\ aliasFile' = aliasFile
  BY DEF PutGroup
<1>2. Dropping' = Dropping
  BY DEF PutGroup, Dropping
<1> QED
  BY <1>1, <1>2 DEF Registry!Change

LEMMA TakeStep ==
  ASSUME IndInv, Printable, NEW u \in Uid, NEW names \in SUBSET Name, AddAlias(u, names)
  PROVE  Registry!Next
<1>1. \A n \in names : /\ n \in adding /\ group[n] = None
  BY DEF AddAlias
<1>2. \A n \in names : Registry!Free(n)
  BY <1>1, SameEntries DEF Registry!Free, Printable, IndInv, NameInv
<1>3. Dropping' = Dropping
  BY DEF AddAlias, Dropping
<1>4. Registry!Take(u, names)
  BY <1>3 DEF AddAlias, Registry!Take, Registry!Cardinality, Cardinality
<1>5. names \in SUBSET {n \in Name : Registry!Free(n)}
  BY <1>2
<1> QED
  BY <1>4, <1>5 DEF Registry!Next, Registry!Step

\* The change of the cache is the beginning of the drop.
LEMMA LeaveStep ==
  ASSUME IndInv, NEW u \in Uid, NEW n \in Name, DropAlias(u, n)
  PROVE  Registry!Next
<1>1. aliasFile[n] = u
  BY Seen, UidAssumption DEF DropAlias
<1>2. Dropping' = Dropping \cup {n}
  <2>1. \A v \in Uid : dropping'[v] = IF v = u THEN n ELSE dropping[v]
    BY DEF DropAlias, IndInv, TypeOK
  <2> QED
    BY <2>1, NameAssumption DEF DropAlias, Dropping
<1>3. Registry!Leave(u, n)
  BY <1>1, <1>2 DEF DropAlias, files, Registry!Leave
<1> QED
  BY <1>3 DEF Registry!Next, Registry!Step

\* putRecord is the end of it.
LEMMA DropStep ==
  ASSUME IndInv, NEW u \in Uid, DropStore(u)
  PROVE  Registry!Next
<1> USE DEF IndInv
<1> DEFINE n == dropping[u]
<1>1. n \in Name /\ n # None /\ aliasFile[n] = u
  BY DEF DropStore, DropInv, TypeOK
<1>2. n \in Dropping
  BY <1>1 DEF Dropping
<1>3. Dropping' = Dropping \ {n}
  <2>1. \A v \in Uid : dropping'[v] = IF v = u THEN None ELSE dropping[v]
    BY DEF DropStore, TypeOK
  <2>2. \A v \in Uid : v # u => dropping[v] # n
    BY <1>1 DEF DropInv
  <2> QED
    BY <1>1, <2>1, <2>2 DEF Dropping
<1>4. Registry!Drop(u, n)
  BY <1>1, <1>2, <1>3 DEF DropStore, Registry!Drop
<1> HIDE DEF n
<1> QED
  BY <1>1, <1>4 DEF Registry!Next, Registry!Step

LEMMA FoundStep ==
  ASSUME IndInv, NEW t \in Thread, InviteFill(t)
  PROVE  Registry!Next
<1> DEFINE c == call[t]
<1>1. /\ c # Idle /\ c.at = "fill"
      /\ c.gid \in Name /\ c.alias \in Name /\ c.byAlias \in Name /\ c.by \in Uid
      /\ c.uid \in Holder /\ c.obj \in Obj
  BY CallFacts DEF InviteFill, IndInv
<1>2. /\ AliasOf(c)
      /\ group[c.gid] = c.obj /\ member[c.obj] = NoMembers
      /\ aliasFile[c.gid] = None /\ c.gid \notin BadName
  BY <1>1 DEF IndInv, CallInv, GoodCall, Filling
<1>3. groupFile[c.gid] = NoMembers
  BY <1>1, <1>2, ObjAssumption DEF IndInv, CacheInv
<1>4. Registry!Free(c.gid)
  BY <1>2, <1>3, SameEntries DEF Registry!Free
<1>5. c.byAlias \in Registry!Aliases(c.by) /\ c.alias \in Registry!Aliases(c.uid)
  BY <1>1, <1>2 DEF AliasOf, Own, Registry!Aliases
<1>6. PutGroup(c.gid, c.obj, [[NoMembers EXCEPT ![c.by] = Joined(c.byAlias)]
                                         EXCEPT ![c.uid] = Invited(c.alias)])
  BY <1>2 DEF InviteFill
<1>7. Dropping' = Dropping
  BY <1>6 DEF PutGroup, Dropping
<1>8. Registry!Found(c.gid, c.by, c.byAlias, c.uid, c.alias)
  BY <1>6, <1>7, SameEntries DEF PutGroup, Registry!Found
<1> HIDE DEF c
<1>9. Registry!Step(c.by)
  BY <1>1, <1>4, <1>5, <1>8, SameEntries DEF Registry!Step
<1> QED
  BY <1>1, <1>9 DEF Registry!Next

LEMMA InviteMemberRegistry ==
  ASSUME IndInv, NEW t \in Thread, InviteMember(t)
  PROVE  Registry!Next \/ UNCHANGED <<files, Dropping>>
<1> DEFINE c == call[t]
<1>1. /\ c # Idle /\ c.at = "lock" /\ ~Empty(c.obj)
      /\ c.gid \in Name /\ c.alias \in Name /\ c.by \in Uid
      /\ c.uid \in Holder /\ c.obj \in Obj
  BY CallFacts DEF InviteMember, IndInv
<1>2. AliasOf(c) /\ Listed(c)
  BY <1>1 DEF IndInv, CallInv, GoodCall
\* An object that is not empty is listed, under the name the call is about.
<1>3. group[c.gid] = c.obj /\ groupFile[c.gid] = member[c.obj]
  <2>1. PICK n \in Name : group[n] = c.obj /\ groupFile[n] = member[c.obj]
    BY <1>1, ObjFacts
  <2>2. n = c.gid
    BY <1>1, <1>2, <2>1 DEF Listed
  <2> QED
    BY <2>1, <2>2
<1> DEFINE m == member[c.obj]
           may == m[c.by].status = "joined" /\ m[c.uid].status \in {"none", "barred"}
           put == PutGroup(c.gid, c.obj, [m EXCEPT ![c.uid] = Invited(c.alias)])
<1>4. IF may THEN put ELSE UNCHANGED <<files, dropping>>
  BY Zenon DEF InviteMember
<1>5. ASSUME may PROVE Registry!Next
  <2>1. put
    <3> HIDE DEF may, put
    <3> QED
      BY <1>4, <1>5
  <2>2. groupFile[c.gid][c.uid].status \in {"none", "barred"}
    BY <1>3, <1>5
  <2> HIDE DEF c
  <2>3. Registry!Change(c.gid, c.uid, {"none", "barred"}, Invited(c.alias))
    BY <1>1, <1>3, <2>1, <2>2, PutChanges
  <2>4. c.alias \in Registry!Aliases(c.uid)
    BY <1>1, <1>2, SameAliases DEF AliasOf
  <2>5. groupFile[c.gid][c.by].status = "joined"
    BY <1>3, <1>5
  <2>6. Registry!Invite(c.gid, c.uid, c.alias)
    BY <2>3, SameEntries DEF Registry!Invite
  <2>7. Registry!Step(c.by)
    BY <1>1, <2>4, <2>5, <2>6, SameEntries DEF Registry!Step
  <2> QED
    BY <1>1, <2>7 DEF Registry!Next
<1>6. ASSUME ~may PROVE UNCHANGED <<files, Dropping>>
  <2>1. UNCHANGED <<files, dropping>>
    <3> HIDE DEF may, put
    <3> QED
      BY <1>4, <1>6
  <2> QED
    BY <2>1 DEF Dropping
<1> HIDE DEF may, put
<1> QED
  BY <1>5, <1>6

\* GroupJoin, GroupAlias and GroupQuit take effect when they store the group.
LEMMA StoreRegistry ==
  ASSUME IndInv, NEW t \in Thread, Store(t)
  PROVE  Registry!Next
<1> DEFINE c == call[t]
           M == member[c.obj]
           g == c.gid
           u == c.uid
           e == c.entry
<1>1. c.at = "store" /\ PutGroup(g, c.obj, [M EXCEPT ![u] = e])
  BY DEF Store
<1>2. c # Idle /\ g \in Name /\ u \in Holder /\ e \in Member
  BY <1>1, CallFacts DEF IndInv
<1>3. e.alias \in Name /\ Allowed(M, u, e)
  BY <1>1, <1>2 DEF IndInv, CallInv, GoodCall, Storing
<1>4. groupFile[g] = M
  BY <1>1, StoringFacts
<1>5. /\ e.status = "joined" => e = Joined(e.alias)
      /\ e.status = "invited" => e = Invited(e.alias)
      /\ e.status = "barred" => e = Barred(e.alias)
  <2> HIDE DEF e
  <2> QED
    BY <1>2 DEF Member, Joined, Invited, Barred
<1> HIDE DEF M, g, u, e
<1>6. \A from : M[u].status \in from => Registry!Change(g, u, from, e)
  BY <1>1, <1>2, <1>4, PutChanges DEF M
<1>7. CASE /\ u \in Uid /\ M[u].status \in {"invited", "joined"} /\ e.status = "joined"
           /\ e.alias = M[u].alias \/ aliasFile[e.alias] \in {u, Defunct}
  <2>1. Registry!Change(g, u, {"invited", "joined"}, Registry!Entry(e.alias, "joined"))
    BY <1>5, <1>6, <1>7, SameEntries
  <2>2. e.alias = groupFile[g][u].alias \/ e.alias \in Registry!Aliases(u)
    BY <1>3, <1>4, <1>7, SameAliases DEF Own
  <2>3. Registry!Join(g, u, e.alias)
    BY <2>1, <2>2 DEF Registry!Join
  <2> QED
    BY <1>2, <1>3, <1>7, <2>3 DEF Registry!Next, Registry!Step
<1>8. CASE /\ u \in Uid /\ M[u].status \in {"joined", "barred"} /\ e.status = "invited"
           /\ e.alias = M[u].alias
  <2>1. Registry!Change(g, u, {"joined", "barred"},
                        Registry!Entry(groupFile[g][u].alias, "invited"))
    BY <1>4, <1>5, <1>6, <1>8, SameEntries
  <2>2. Registry!Quit(g, u)
    BY <2>1 DEF Registry!Quit
  <2> QED
    BY <1>2, <1>8, <2>2 DEF Registry!Next, Registry!Step
<1>9. CASE /\ M[u].status \in {"invited", "joined"} /\ e.status = "barred"
           /\ e.alias = M[u].alias
           /\ \E v \in Uid \ {u} : M[v].status = "joined"
  <2>1. PICK v \in Uid \ {u} : groupFile[g][v].status = "joined"
    BY <1>4, <1>9
  <2>2. Registry!Change(g, u, {"invited", "joined"},
                        Registry!Entry(groupFile[g][u].alias, "barred"))
    BY <1>4, <1>5, <1>6, <1>9, SameEntries
  <2>3. Registry!Bar(g, u)
    BY <2>2 DEF Registry!Bar
  <2>4. Registry!Step(v)
    BY <1>2, <2>1, <2>3, SameEntries DEF Registry!Step
  <2> QED
    BY <2>1, <2>4 DEF Registry!Next
<1> QED
  BY <1>3, <1>7, <1>8, <1>9 DEF Allowed

LEMMA RegistryStep ==
  IndInv /\ Printable /\ [Next]_vars
    => [Registry!Next]_<<aliasFile, groupFile, Dropping>>
<1> SUFFICES ASSUME IndInv, Printable, [Next]_vars
             PROVE  Registry!Next \/ UNCHANGED <<files, Dropping>>
  BY DEF files
<1> DEFINE Goal == Registry!Next \/ UNCHANGED <<files, Dropping>>
<1>1. ASSUME NEW n \in Name, Lookup(n) \/ FetchGroup(n) \/ AddFetch(n) PROVE Goal
  BY <1>1 DEF Lookup, FetchGroup, AddFetch, Dropping
<1>2. ASSUME NEW u \in Uid, NEW names \in SUBSET Name, AddAlias(u, names) PROVE Goal
  BY <1>2, TakeStep
<1>3. ASSUME NEW u \in Uid, (\E n \in Name : DropAlias(u, n)) \/ DropStore(u) PROVE Goal
  BY <1>3, LeaveStep, DropStep
<1>4. ASSUME NEW t \in Thread,
             \/ \E b \in Name, u \in Uid : Invite(t, b, u)
             \/ \E n \in Name : InviteLookup(t, n) \/ InviteFetch(t, n)
             \/ InviteCheck(t)
      PROVE  Goal
  <2>1. UNCHANGED <<files, dropping>>
    <3>1. (\E b \in Name, u \in Uid : Invite(t, b, u)) => UNCHANGED <<files, dropping>>
      BY DEF Invite
    <3>2. (\E n \in Name : InviteLookup(t, n)) => UNCHANGED <<files, dropping>>
      BY DEF InviteLookup
    <3>3. (\E n \in Name : InviteFetch(t, n)) => UNCHANGED <<files, dropping>>
      BY DEF InviteFetch
    <3>4. InviteCheck(t) => UNCHANGED <<files, dropping>>
      BY DEF InviteCheck
    <3> QED
      BY <1>4, <3>1, <3>2, <3>3, <3>4
  <2> QED
    BY <2>1 DEF Dropping
<1>5. ASSUME NEW t \in Thread, InviteFill(t) \/ InviteMember(t) \/ Store(t) PROVE Goal
  BY <1>5, FoundStep, InviteMemberRegistry, StoreRegistry
<1>6. ASSUME NEW t \in Thread, NEW g \in Name, NEW u \in Uid,
             \/ \E a \in Name \cup {None} : GroupJoin(t, g, u, a)
             \/ \E a \in Name : GroupAlias(t, g, u, a) \/ GroupQuit(t, g, a, u)
      PROVE  Goal
  <2>1. \A v, m : Prepare(t, g, v, m) => UNCHANGED <<files, dropping>>
    BY DEF Prepare
  <2>2. \A a : GroupJoin(t, g, u, a) \/ GroupAlias(t, g, u, a) => UNCHANGED <<files, dropping>>
    BY <2>1 DEF GroupJoin, GroupAlias
  <2>3. \A a : GroupQuit(t, g, a, u) => UNCHANGED <<files, dropping>>
    BY <2>1 DEF GroupQuit
  <2> QED
    BY <1>6, <2>2, <2>3 DEF Dropping
<1>7. ASSUME Restart PROVE Goal
  <2>1. Dropping' = {}
    BY <1>7 DEF Restart, Dropping
  <2>2. Registry!Crash
    BY <1>7, <2>1 DEF Restart, files, Registry!Crash
  <2> QED
    BY <2>2 DEF Registry!Next
<1>8. ASSUME UNCHANGED vars PROVE Goal
  BY <1>8 DEF vars, Dropping
<1> HIDE DEF Goal
<1>9. Goal
  BY <1>1, <1>2, <1>3, <1>4, <1>5, <1>6, <1>7, <1>8 DEF Next
<1> QED
  BY <1>9 DEF Goal

\* Every change of names and groups takes effect at once and is allowed by what the
\* files hold at that moment: split lock sections, aliases looked up before, and the
\* cache, which a restart empties and which is ahead of the files in a drop, are not
\* visible there.
THEOREM Refinement == Spec => ImplementsRegistry
<1>1. Init => Registry!Init /\ Printable
  BY SameEntries DEF Init, Registry!Init, Printable, Dropping
<1> QED
  BY <1>1, PrintableStep, RegistryStep, Invariance, PTL
     DEF Spec, ImplementsRegistry, Registry!Spec
=============================================================================
