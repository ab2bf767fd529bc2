------------------------------ MODULE OhiProofs ------------------------------
(***************************************************************************)
(* Proofs about Ohi.  With three links an unref that comes late may delete *)
(* the entry of a set it never counted in (the run of OhiThree.cfg), so    *)
(* that HolderListed and RefcountExact do not hold of every instance.  It  *)
(* is the only thing that breaks them: they hold for any number of links   *)
(* as long as no unref is late (NoLateUnref).                              *)
(***************************************************************************)
EXTENDS Ohi, FiniteSetTheorems, TLAPS

\* No link is about to delete the entry of a set that is not the one it counted
\* down: the listed set is its own, or there is none.
NoLateUnref ==
  \A l \in Link : link[l] = "delete" /\ from # None => from = mine[l]

\* unref never meets the nil pointer of an entry that is gone.
NeverNil == \A l \in Link : link[l] # "panic"

\* A link has a set exactly from its first ref on.
MineInv ==
  \A l \in Link :
    /\ link[l] \in {"new", "make"} => mine[l] = None
    /\ link[l] \in {"edit", "sendOn", "sendOff", "unref", "delete"} => mine[l] # None

\* The count of the listed set.
CountInv ==
  from # None => /\ IsFiniteSet(Holders(from))
                 /\ refcount[from] = Cardinality(Holders(from))

IndInv == TypeOK /\ NeverNil /\ MineInv /\ HolderListed /\ CountInv

-----------------------------------------------------------------------------
LEMMA InitInv == Init => IndInv
<1> SUFFICES ASSUME Init PROVE IndInv
  OBVIOUS
<1>1. TypeOK
  BY DEF Init, TypeOK, LinkState
<1>2. NeverNil /\ MineInv /\ HolderListed /\ CountInv
  BY DEF Init, NeverNil, MineInv, HolderListed, CountInv
<1> QED
  BY <1>1, <1>2 DEF IndInv

\* A step that leaves the sets alone, and every link among their holders or not.
LEMMA SetsKept ==
  ASSUME IndInv, UNCHANGED <<from, refcount, mine>>,
         \A l \in Link : link'[l] \in Holding /\ mine[l] # None <=>
                         link[l] \in Holding /\ mine[l] # None
  PROVE  HolderListed' /\ CountInv'
<1>1. HolderListed'
  BY DEF IndInv, HolderListed
<1>2. from # None => Holders(from)' = Holders(from)
  BY DEF Holders
<1> QED
  BY <1>1, <1>2 DEF IndInv, CountInv

\* A link becomes a holder of the listed set and is counted.
LEMMA RefStep ==
  ASSUME IndInv, NEW l \in Link, from # None, mine[l] = None,
         from' = from, mine' = [mine EXCEPT ![l] = from],
         link' = [link EXCEPT ![l] = "edit"],
         refcount' = [refcount EXCEPT ![from] = @ + 1],
         UNCHANGED <<notify, told>>
  PROVE  IndInv'
<1>1. /\ link'[l] = "edit" /\ mine'[l] = from
      /\ \A k \in Link \ {l} : link'[k] = link[k] /\ mine'[k] = mine[k]
      /\ from \in Link /\ refcount'[from] = refcount[from] + 1
  BY DEF IndInv, TypeOK
<1>2. TypeOK'
  BY <1>1 DEF IndInv, TypeOK, LinkState
<1>3. NeverNil' /\ MineInv'
  BY <1>1 DEF IndInv, NeverNil, MineInv
<1>4. HolderListed'
  BY <1>1 DEF IndInv, HolderListed
<1>5. CountInv'
  <2>1. Holders(from)' = Holders(from) \cup {l}
    BY <1>1 DEF Holders, Holding
  <2>2. l \notin Holders(from)
    BY DEF Holders
  <2>3. IsFiniteSet(Holders(from)) /\ refcount[from] = Cardinality(Holders(from))
    BY DEF IndInv, CountInv
  <2>4. /\ IsFiniteSet(Holders(from) \cup {l})
        /\ Cardinality(Holders(from) \cup {l}) = Cardinality(Holders(from)) + 1
    BY <2>2, <2>3, FS_AddElement
  <2> QED
    BY <1>1, <2>1, <2>3, <2>4 DEF CountInv
<1> QED
  BY <1>2, <1>3, <1>4, <1>5 DEF IndInv

LEMMA RefReadStep ==
  ASSUME IndInv, NEW l \in Link, RefRead(l)
  PROVE  IndInv'
<1>1. CASE from # None
  BY <1>1, RefStep DEF RefRead, LinkGoes
<1>2. CASE from = None
  <2>1. /\ UNCHANGED <<from, refcount, notify, told>>
        /\ mine[l] = None /\ mine' = [mine EXCEPT ![l] = None]
        /\ link[l] = "idle" /\ link' = [link EXCEPT ![l] = "make"]
    BY <1>2 DEF RefRead, LinkGoes
  <2>2. mine' = mine
    BY <2>1 DEF IndInv, TypeOK
  <2>3. link'[l] = "make" /\ \A k \in Link \ {l} : link'[k] = link[k]
    BY <2>1 DEF IndInv, TypeOK
  <2>4. TypeOK'
    BY <2>1, <2>2 DEF IndInv, TypeOK, LinkState
  <2>5. NeverNil' /\ MineInv'
    BY <2>1, <2>2, <2>3 DEF IndInv, NeverNil, MineInv
  <2>6. HolderListed' /\ CountInv'
    BY <2>1, <2>2, <2>3, SetsKept DEF Holding
  <2> QED
    BY <2>4, <2>5, <2>6 DEF IndInv
<1> QED
  BY <1>1, <1>2

\* A set that is made has no holder yet: holders have a listed one.
LEMMA RefMakeStep ==
  ASSUME IndInv, NEW l \in Link, RefMake(l)
  PROVE  IndInv'
<1>0. link[l] = "make" /\ mine[l] = None /\ l # None
  BY NoneAssumption DEF RefMake, LinkGoes, IndInv, MineInv
<1>1. CASE from # None
  BY <1>0, <1>1, RefStep DEF RefMake, LinkGoes
<1>2. CASE from = None
  <2>1. /\ from' = l /\ mine' = [mine EXCEPT ![l] = l]
        /\ refcount' = [refcount EXCEPT ![l] = 1]
        /\ link' = [link EXCEPT ![l] = "edit"]
        /\ UNCHANGED <<notify, told>>
    BY <1>2 DEF RefMake, LinkGoes
  <2>2. /\ link'[l] = "edit" /\ mine'[l] = l /\ refcount'[l] = 1
        /\ \A k \in Link \ {l} : link'[k] = link[k] /\ mine'[k] = mine[k]
    BY <2>1 DEF IndInv, TypeOK
  <2>3. TypeOK'
    BY <2>1 DEF IndInv, TypeOK, LinkState
  <2>4. NeverNil' /\ MineInv'
    BY <1>0, <2>2 DEF IndInv, NeverNil, MineInv
  <2>5. \A k \in Link : ~(mine[k] # None /\ link[k] \in Holding)
    BY <1>2 DEF IndInv, HolderListed
  <2>6. HolderListed'
    BY <2>1, <2>2, <2>5 DEF HolderListed
  <2>7. CountInv'
    <3>1. Holders(l)' = {l}
      BY <1>0, <2>2, <2>5 DEF Holders, Holding
    <3>2. IsFiniteSet({l}) /\ Cardinality({l}) = 1
      BY FS_Singleton
    <3> QED
      BY <2>1, <2>2, <3>1, <3>2 DEF CountInv
  <2> QED
    BY <2>3, <2>4, <2>6, <2>7 DEF IndInv
<1> QED
  BY <1>1, <1>2

\* unref finds its own set listed and counts itself down.
LEMMA UnrefDecStep ==
  ASSUME IndInv, NEW l \in Link, UnrefDec(l)
  PROVE  IndInv' /\ from # None /\ from = mine[l] /\ UNCHANGED <<from, mine>>
<1>1. link[l] = "unref" /\ mine[l] # None /\ from = mine[l] /\ from \in Link
  <2>1. link[l] = "unref"
    BY DEF UnrefDec, LinkGoes
  <2>2. mine[l] # None /\ from = mine[l]
    BY <2>1 DEF IndInv, MineInv, HolderListed, Holding
  <2> QED
    BY <2>1, <2>2 DEF IndInv, TypeOK
<1> DEFINE to == IF refcount[from] = 1 THEN "delete" ELSE "gone"
<1>2. /\ UNCHANGED <<from, notify, told>>
      /\ link' = [link EXCEPT ![l] = to]
      /\ refcount' = [refcount EXCEPT ![from] = @ - 1]
      /\ mine' = [mine EXCEPT ![l] = from]
  BY <1>1 DEF UnrefDec, LinkGoes
<1>3. mine' = mine /\ to \in {"delete", "gone"}
  BY <1>1, <1>2 DEF IndInv, TypeOK
<1> HIDE DEF to
<1>4. /\ link'[l] = to /\ \A k \in Link \ {l} : link'[k] = link[k]
      /\ refcount'[from] = refcount[from] - 1
  BY <1>1, <1>2 DEF IndInv, TypeOK
<1>5. /\ IsFiniteSet(Holders(from)) /\ refcount[from] = Cardinality(Holders(from))
      /\ l \in Holders(from)
  BY <1>1 DEF IndInv, CountInv, Holders, Holding
<1>6. /\ IsFiniteSet(Holders(from) \ {l})
      /\ Cardinality(Holders(from) \ {l}) = Cardinality(Holders(from)) - 1
  BY <1>5, FS_RemoveElement
<1>7. refcount[from] - 1 \in Nat
  BY <1>5, <1>6, FS_CardinalityType
<1>8. TypeOK'
  BY <1>1, <1>2, <1>3, <1>7 DEF IndInv, TypeOK, LinkState
<1>9. NeverNil' /\ MineInv'
  BY <1>1, <1>3, <1>4 DEF IndInv, NeverNil, MineInv
<1>10. HolderListed'
  BY <1>2, <1>3, <1>4 DEF IndInv, HolderListed, Holding
<1>11. CountInv'
  <2>1. Holders(from)' = Holders(from) \ {l}
    BY <1>2, <1>3, <1>4 DEF Holders, Holding
  <2> QED
    BY <1>2, <1>4, <1>5, <1>6, <2>1 DEF CountInv
<1> QED
  BY <1>1, <1>2, <1>3, <1>8, <1>9, <1>10, <1>11 DEF IndInv

\* An entry that is deleted is that of a set which nobody holds.
LEMMA UnrefDeleteStep ==
  ASSUME IndInv, NoLateUnref, NEW l \in Link, UnrefDelete(l)
  PROVE  IndInv'
<1> DEFINE to == IF refcount[mine[l]] = 0 /\ notify[mine[l]] THEN "lastOff" ELSE "gone"
<1>1. /\ link[l] = "delete" /\ link' = [link EXCEPT ![l] = to]
      /\ from' = (IF refcount[mine[l]] = 0 THEN None ELSE from)
      /\ UNCHANGED <<refcount, notify, mine, told>>
  BY DEF UnrefDelete, LinkGoes
<1>2. to \in {"lastOff", "gone"}
  OBVIOUS
<1> HIDE DEF to
<1>3. link'[l] = to /\ \A k \in Link \ {l} : link'[k] = link[k]
  BY <1>1 DEF IndInv, TypeOK
<1>4. TypeOK'
  BY <1>1, <1>2 DEF IndInv, TypeOK, LinkState
<1>5. NeverNil' /\ MineInv'
  BY <1>1, <1>2, <1>3 DEF IndInv, NeverNil, MineInv
<1>6. CASE from' = from
  BY <1>1, <1>2, <1>3, <1>4, <1>5, <1>6, SetsKept DEF IndInv, Holding
<1>7. CASE from' # from
  <2>1. from # None /\ from' = None /\ from = mine[l] /\ refcount[from] = 0
    BY <1>1, <1>7 DEF NoLateUnref
  <2>2. Holders(from) = {}
    BY <2>1, FS_EmptySet DEF IndInv, CountInv
  <2>3. \A k \in Link : ~(mine[k] # None /\ link[k] \in Holding)
    BY <2>2 DEF IndInv, HolderListed, Holders
  <2>4. HolderListed' /\ CountInv'
    BY <1>1, <1>2, <1>3, <2>1, <2>3 DEF HolderListed, CountInv, Holding
  <2> QED
    BY <1>4, <1>5, <2>4 DEF IndInv
<1> QED
  BY <1>6, <1>7

\* The steps that ref and unref nothing.
LEMMA OtherStep ==
  ASSUME IndInv, NEW l \in Link,
         \/ Login(l) \/ EditAgain(l) \/ (\E on \in BOOLEAN : Edit(l, on))
         \/ SendOhi(l) \/ Logout(l) \/ SendLastOff(l)
  PROVE  /\ IndInv' /\ UNCHANGED <<from, mine>>
         /\ \A k \in Link \ {l} : link'[k] = link[k]
         /\ link'[l] # "delete" /\ link[l] \notin {"delete", "gone"}
         /\ link[l] = "lastOff" => link'[l] = "gone"
<1>1. /\ UNCHANGED <<from, refcount, mine>>
      /\ told' \in BOOLEAN
      /\ notify' = notify \/ \E on \in BOOLEAN : notify' = [notify EXCEPT ![mine[l]] = on]
  <2>1. CASE \E on \in BOOLEAN : Edit(l, on)
    BY <2>1 DEF Edit, IndInv, TypeOK
  <2>2. CASE Login(l) \/ EditAgain(l) \/ SendOhi(l) \/ Logout(l) \/ SendLastOff(l)
    BY <2>2 DEF Login, EditAgain, SendOhi, Logout, SendLastOff, IndInv, TypeOK
  <2> QED
    BY <2>1, <2>2
<1>2. PICK to \in LinkState :
        /\ link' = [link EXCEPT ![l] = to] /\ to \notin {"delete", "panic", "new", "make"}
        /\ link[l] \notin {"delete", "gone"}
        /\ link[l] = "lastOff" => to = "gone"
        /\ to \in {"edit", "sendOn", "sendOff", "unref"} => mine[l] # None
        /\ to \in Holding /\ mine[l] # None <=> link[l] \in Holding /\ mine[l] # None
  <2>1. MineInv
    BY DEF IndInv
  <2>2. CASE Login(l)
    BY <2>1, <2>2 DEF Login, LinkGoes, LinkState, Holding, MineInv
  <2>3. CASE EditAgain(l)
    BY <2>1, <2>3 DEF EditAgain, LinkGoes, LinkState, Holding, MineInv
  <2>4. ASSUME NEW on \in BOOLEAN, Edit(l, on)
        PROVE  \E to \in {"idle", "sendOn", "sendOff"} :
                 link' = [link EXCEPT ![l] = to] /\ link[l] = "edit"
    BY <2>4 DEF Edit, LinkGoes
  <2>5. CASE \E on \in BOOLEAN : Edit(l, on)
    BY <2>1, <2>4, <2>5 DEF LinkState, Holding, MineInv
  <2>6. CASE SendOhi(l)
    BY <2>1, <2>6 DEF SendOhi, LinkState, Holding, MineInv
  <2>7. CASE Logout(l)
    BY <2>1, <2>7 DEF Logout, LinkGoes, LinkState, Holding, MineInv
  <2>8. CASE SendLastOff(l)
    BY <2>1, <2>8 DEF SendLastOff, LinkGoes, LinkState, Holding, MineInv
  <2> QED
    BY <2>2, <2>3, <2>5, <2>6, <2>7, <2>8
<1>3. link'[l] = to /\ \A k \in Link \ {l} : link'[k] = link[k]
  BY <1>2 DEF IndInv, TypeOK
<1>4. TypeOK'
  BY <1>1, <1>2 DEF IndInv, TypeOK
<1>5. NeverNil' /\ MineInv'
  BY <1>1, <1>2, <1>3 DEF IndInv, NeverNil, MineInv
<1>6. HolderListed' /\ CountInv'
  BY <1>1, <1>2, <1>3, SetsKept
<1> QED
  BY <1>1, <1>2, <1>3, <1>4, <1>5, <1>6 DEF IndInv

LEMMA SameStep ==
  ASSUME IndInv, GetOhiTo \/ UNCHANGED vars
  PROVE  IndInv' /\ UNCHANGED <<from, link, mine>>
<1>1. UNCHANGED <<from, refcount, notify, link, mine>> /\ told' \in BOOLEAN
  BY DEF GetOhiTo, vars, IndInv, TypeOK
<1> QED
  BY <1>1 DEF IndInv, TypeOK, NeverNil, MineInv, HolderListed, CountInv, Holders

LEMMA NextInv == IndInv /\ NoLateUnref /\ [Next]_vars => IndInv'
<1> SUFFICES ASSUME IndInv, NoLateUnref, [Next]_vars PROVE IndInv'
  OBVIOUS
<1>1. ASSUME NEW l \in Link, RefRead(l) \/ RefMake(l) PROVE IndInv'
  BY <1>1, RefReadStep, RefMakeStep
<1>2. ASSUME NEW l \in Link, UnrefDec(l) \/ UnrefDelete(l) PROVE IndInv'
  BY <1>2, UnrefDecStep, UnrefDeleteStep
<1>3. ASSUME NEW l \in Link,
             \/ Login(l) \/ EditAgain(l) \/ (\E on \in BOOLEAN : Edit(l, on))
             \/ SendOhi(l) \/ Logout(l) \/ SendLastOff(l)
      PROVE  IndInv'
  BY <1>3, OtherStep
<1>4. ASSUME GetOhiTo \/ UNCHANGED vars PROVE IndInv'
  BY <1>4, SameStep
<1> QED
  BY <1>1, <1>2, <1>3, <1>4 DEF Next

\* For any number of links: unless an unref comes late, every set that a link holds
\* stays listed with the right count, and no unref finds a nil pointer.
THEOREM SetsSound ==
  Spec /\ []NoLateUnref => [](TypeOK /\ HolderListed /\ RefcountExact /\ NeverNil)
<1>1. IndInv => TypeOK /\ HolderListed /\ RefcountExact /\ NeverNil
  BY DEF IndInv, CountInv, RefcountExact
<1> QED
  BY <1>1, InitInv, NextInv, PTL DEF Spec
=============================================================================
