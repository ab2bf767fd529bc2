---------------------------- MODULE NameRegistry ----------------------------
(***************************************************************************)
(* What the user database promises about names: a name is free, an alias   *)
(* of one user or a group, and for good; a group changes by one member at  *)
(* a time, each change allowed by what the group's members are at that     *)
(* moment.  Locks, the cache and calls under way are not visible here at   *)
(* all.  An alias that a call has looked up may be dropped before the call *)
(* takes effect.  A user who begins to drop an alias keeps it if the       *)
(* server stops before the drop is stored, though others may have seen it  *)
(* dropped.                                                                *)
(***************************************************************************)
EXTENDS Naturals, FiniteSets

CONSTANTS Uid, Name, BadName, None, Defunct

VARIABLES
  owner,    \* the user of each alias, Defunct if it was dropped
  members,  \* the entries of each group
  leaving   \* aliases that are seen as dropped, and are not yet

Holder  == Uid \cup {Defunct}
Entry(a, s) == [alias |-> a, status |-> s]
NoMembers == [u \in Holder |-> Entry(None, "none")]

Free(n) == owner[n] = None /\ members[n] = NoMembers /\ n \notin BadName

\* Names that are u's aliases, or were when they were looked up; nobody's, for u
\* Defunct.
Aliases(u) == {a \in Name : owner[a] \in {u, Defunct} \/ (u = Defunct /\ a \in leaving)}

Init ==
  /\ owner = [n \in Name |-> None]
  /\ members = [n \in Name |-> NoMembers]
  /\ leaving = {}

\* A user takes one or two names as aliases, both or none.
Take(u, names) ==
  /\ names # {} /\ Cardinality(names) <= 2
  /\ owner' = [n \in Name |-> IF n \in names THEN u ELSE owner[n]]
  /\ UNCHANGED <<members, leaving>>

\* A user begins to drop an alias.
Leave(u, n) ==
  /\ owner[n] = u
  /\ leaving' = leaving \cup {n}
  /\ UNCHANGED <<owner, members>>

\* A dropped alias is never free again.
Drop(u, n) ==
  /\ owner[n] = u /\ n \in leaving
  /\ owner' = [owner EXCEPT ![n] = Defunct]
  /\ leaving' = leaving \ {n}
  /\ UNCHANGED members

\* Group g begins with the user that invites, joined, and the one it invites, by
\* aliases b and a of theirs.
Found(g, by, b, u, a) ==
  /\ members' = [members EXCEPT ![g] =
       [[NoMembers EXCEPT ![by] = Entry(b, "joined")] EXCEPT ![u] = Entry(a, "invited")]]
  /\ UNCHANGED <<owner, leaving>>

\* Member u of group g gets an entry in the place of one whose status is in from.
Change(g, u, from, entry) ==
  /\ members[g][u].status \in from
  /\ members' = [members EXCEPT ![g][u] = entry]
  /\ UNCHANGED <<owner, leaving>>

\* A user who is not in the group, or was barred from it, is invited by alias a.
Invite(g, u, a) == Change(g, u, {"none", "barred"}, Entry(a, "invited"))

\* Only who was invited joins; a new alias is or was its own.
Join(g, u, a) ==
  /\ a = members[g][u].alias \/ a \in Aliases(u)
  /\ Change(g, u, {"invited", "joined"}, Entry(a, "joined"))

\* Who quits by itself may join again.
Quit(g, u) ==
  Change(g, u, {"joined", "barred"}, Entry(members[g][u].alias, "invited"))

\* Who is dropped may not.
Bar(g, u) ==
  Change(g, u, {"invited", "joined"}, Entry(members[g][u].alias, "barred"))

\* What user by may do: take free names and drop its own, found a group of a free
\* name, join or quit a group, and invite and drop others while it is joined.
Step(by) ==
  \/ \E names \in SUBSET {n \in Name : Free(n)} : Take(by, names)
  \/ \E n \in Name : Leave(by, n) \/ Drop(by, n)
  \/ \E g \in {n \in Name : Free(n)}, b \in Aliases(by), u \in Holder :
       \E a \in Aliases(u) : Found(g, by, b, u, a)
  \/ \E g \in Name : Quit(g, by) \/ \E a \in Name : Join(g, by, a)
  \/ \E g \in {n \in Name : members[n][by].status = "joined"}, u \in Holder :
       \/ u # by /\ Bar(g, u)
       \/ \E a \in Aliases(u) : Invite(g, u, a)

\* The server stops: what has not been dropped is not.
Crash == leaving' = {} /\ UNCHANGED <<owner, members>>

Next == Crash \/ \E u \in Uid : Step(u)

Spec == Init /\ [][Next]_<<owner, members, leaving>>
=============================================================================
