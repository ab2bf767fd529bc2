-------------------------- MODULE UserRecordProofs --------------------------
(***************************************************************************)
(* The safety properties of UserRecord, and its refinement of              *)
(* DurableRecord, hold for any threads, aliases, versions and crashes.     *)
(*                                                                         *)
(* The argument: at any time the record is either settled, when the file   *)
(* user/<uid> alone says what the version is and a transaction file that   *)
(* a crash could bring back holds that version or its successor, or it is  *)
(* decided, when the transaction file is durable and alone says it.        *)
(* SyncTemp and some crashes lead from the first to the second, RemoveTemp *)
(* back.                                                                   *)
(***************************************************************************)
EXTENDS UserRecord, TLAPS

\* putRecord is at work on a version that is not durable yet.
Writing == put \in {"create", "write", "link", "sync"}

\* The transaction file does not count.
Settled ==
  \/ put = "none" /\ fs["temp"] = None
  \/ Writing
  \/ put = "rmTmp"

\* Files show what is durable, or what was done to them since.
FileInv ==
  /\ \A f \in File : fs[f] \in may[f]
  /\ RecordWhole

\* Where putRecord and complete may stand, and what they count on.
PutInv ==
  /\ mode = "down" => /\ ~cached /\ obj = 0 /\ ~Writing
                      /\ \A t \in Thread : pc[t] = "idle"
  /\ mode = "up" /\ put # "none" => cached /\ ~Unlocked
  /\ mode = "up" /\ put = "none" => fs["temp"] = None /\ fs["tmp"] = None
  /\ put = "create" => fs["tmp"] = None
  /\ put = "link" => fs["tmp"] = obj /\ Torn \notin may["tmp"]

SettledInv ==
  Settled =>
    /\ may["path"] = {fs["path"]}
    /\ fs["temp"] = IF put = "sync" THEN obj ELSE None
    /\ None \in may["temp"]
    /\ \A c \in may["temp"] : c \in {None, fs["path"]} \/ (put = "sync" /\ c = obj)
    /\ cached => obj = IF Writing THEN Stored + 1 ELSE Stored
    /\ done <= Stored

DecidedInv ==
  ~Settled =>
    /\ fs["temp"] \in Version
    /\ may["temp"] = {fs["temp"]}
    /\ mode = "up" => obj = fs["temp"] /\ done < obj
    /\ done <= fs["temp"]
    /\ put = "linkPath" => fs["path"] = None
    /\ put \in {"syncPath", "alias", "rmTemp"} => fs["path"] = fs["temp"]
    /\ put \in {"alias", "rmTemp"} => may["path"] = {fs["path"]}

\* The symlink of an alias is durable and is that of version v.
Linked(a, v) == may[a] = {fs[a]} /\ fs[a] = LastTouch(a, v)

AliasInv ==
  /\ Settled => \A a \in Alias : Linked(a, Stored)
  /\ ~Settled => \A a \in Alias \ Touched(fs["temp"]) : Linked(a, fs["temp"])
  /\ put = "alias" => /\ todo \subseteq Touched(fs["temp"])
                      /\ \A a \in Touched(fs["temp"]) \ todo : fs[a] = fs["temp"]
  /\ put = "rmTemp" => \A a \in Alias : Linked(a, fs["temp"])

\* What a thread read is what the file holds until the user is in the cache.
FetchInv ==
  \A t \in Thread : /\ begun[t] <= done
                    /\ pc[t] = "lock" => cached
                    /\ pc[t] = "store" /\ ~cached => got[t] = fs["path"]

IndInv == /\ TypeOK /\ FileInv /\ PutInv /\ SettledInv /\ DecidedInv
          /\ AliasInv /\ FetchInv

\* The files of the record are not symlinks, and not each other.
LEMMA FileFacts ==
  /\ {"tmp", "temp", "path"} \subseteq File /\ Alias \subseteq File
  /\ \A a \in Alias : a # "tmp" /\ a # "temp" /\ a # "path"
  /\ None \notin Nat /\ Torn \notin Nat /\ None # Torn
  BY AliasAssumption, NoneAssumption DEF File

\* A version that touches an alias is the last one that did.
LEMMA TouchNew ==
  ASSUME NEW a \in Alias, NEW v \in Version, a \in Touched(v)
  PROVE  LastTouch(a, v) = v
<1> DEFINE T == {u \in Version : u <= v /\ a \in Touched(u)}
<1>1. v \in T /\ \A w \in T : w <= v
  BY BoundAssumption DEF Version
<1>2. \A u \in T : (\A w \in T : w <= u) => u = v
  BY <1>1, BoundAssumption DEF Version
<1> QED
  BY <1>1, <1>2 DEF LastTouch

\* A version that does not touch an alias leaves its symlink to the one before.
LEMMA TouchOld ==
  ASSUME NEW a \in Alias, NEW v \in 0..MaxVer, v + 1 \in Version,
         a \notin Touched(v + 1)
  PROVE  LastTouch(a, v + 1) = LastTouch(a, v)
<1> DEFINE T(w) == {u \in Version : u <= w /\ a \in Touched(u)}
<1>1. T(v + 1) = T(v)
  BY BoundAssumption DEF Version
<1>2. \A w : LastTouch(a, w) = IF T(w) = {} THEN None
                               ELSE CHOOSE u \in T(w) : \A x \in T(w) : x <= u
  BY DEF LastTouch
<1> HIDE DEF T
<1> QED
  BY <1>1, <1>2

\* No version, no symlink.
LEMMA TouchNone == \A a \in Alias : LastTouch(a, 0) = None
  BY BoundAssumption DEF LastTouch, Version

\* What the record holds at any time.
LEMMA Holds ==
  ASSUME IndInv
  PROVE  /\ fs["path"] \in Version \cup {None}
         /\ fs["temp"] \in Version \cup {None}
         /\ Stored \in 0..MaxVer
         /\ Writing => mode = "up" /\ cached /\ obj = Stored + 1 /\ obj \in Version
         /\ ~cached /\ mode = "up" => put = "none"
         /\ put \in {"syncPath", "alias", "rmTemp"} => Completed = fs["temp"]
<1> USE FileFacts, BoundAssumption DEF IndInv
<1>1. fs["path"] \in Version \cup {None} /\ fs["temp"] \in Version \cup {None}
  BY DEF TypeOK, Content, FileInv, RecordWhole
<1>2. Stored \in 0..MaxVer
  BY <1>1 DEF Stored, Version
<1>3. Writing => mode = "up" /\ cached
  BY DEF TypeOK, PutInv, Writing
<1>4. Writing => obj = Stored + 1
  BY <1>3 DEF SettledInv, Settled
<1>5. Writing => obj \in Version
  BY <1>2, <1>4 DEF TypeOK, Version
<1>6. ~cached /\ mode = "up" => put = "none"
  BY DEF PutInv
<1>7. put \in {"syncPath", "alias", "rmTemp"} => Completed = fs["temp"]
  BY DEF DecidedInv, Settled, Writing, Completed, TypeOK
<1> QED
  BY <1>1, <1>2, <1>3, <1>4, <1>5, <1>6, <1>7

-----------------------------------------------------------------------------
(* Steps that leave the transaction where it is.                            *)

\* A thread that looks at the user, or is told that there is none, changes nothing
\* but what it knows itself.
LEMMA ThreadStep ==
  ASSUME NEW t \in Thread, IndInv,
         Fetch(t) \/ NotFound(t) \/ ReadUser(t) \/ \E make \in BOOLEAN : Load(t, make)
  PROVE  IndInv'
<1> USE DEF IndInv, ThreadGoes, files
<1>1. UNCHANGED <<fs, may, mode, cached, obj, put, todo, done, crashes>>
  BY DEF Fetch, NotFound, ReadUser, Load
<1>2. FileInv' /\ SettledInv' /\ DecidedInv' /\ AliasInv'
  BY <1>1 DEF FileInv, RecordWhole, SettledInv, DecidedInv, AliasInv, Settled,
       Writing, Stored, Linked
<1>3. CASE Fetch(t)
  BY <1>1, <1>2, <1>3
     DEF Fetch, TypeOK, PcState, PutInv, Writing, Unlocked, FetchInv
<1>4. CASE NotFound(t)
  BY <1>1, <1>2, <1>4
     DEF NotFound, TypeOK, PcState, PutInv, Writing, Unlocked, FetchInv
<1>5. CASE ReadUser(t)
  BY <1>1, <1>2, <1>5
     DEF ReadUser, TypeOK, PcState, PutInv, Writing, Unlocked, FetchInv
<1>6. ASSUME NEW make \in BOOLEAN, Load(t, make) PROVE IndInv'
  BY <1>1, <1>2, <1>6, FileFacts
     DEF Load, TypeOK, PcState, PutInv, Writing, Unlocked, FetchInv
<1> QED
  BY <1>3, <1>4, <1>5, <1>6

\* The recheck: an object that is put into the cache is what the file holds.
LEMMA StoreStep ==
  ASSUME NEW t \in Thread, IndInv, Store(t)
  PROVE  IndInv'
<1> USE BoundAssumption DEF IndInv, Store, ThreadGoes, files
<1>1. obj' = IF cached THEN obj ELSE Stored
  <2>1. CASE cached
    BY <2>1
  <2>2. CASE ~cached
    BY <2>2 DEF FetchInv, Stored
  <2> QED
    BY <2>1, <2>2
<1>2. ~cached => put = "none" /\ fs["temp"] = None
  BY Holds DEF PutInv
<1>3. TypeOK'
  BY <1>1, Holds DEF TypeOK, PcState
<1>4. FileInv' /\ AliasInv'
  BY DEF FileInv, RecordWhole, AliasInv, Settled, Writing, Stored, Linked
<1>5. PutInv'
  BY <1>1, <1>2 DEF TypeOK, PutInv, Writing, Unlocked
<1>6. SettledInv' /\ DecidedInv'
  BY <1>1, <1>2 DEF TypeOK, SettledInv, DecidedInv, Settled, Writing, Stored
<1>7. FetchInv'
  BY DEF TypeOK, FetchInv
<1> QED
  BY <1>3, <1>4, <1>5, <1>6, <1>7

\* The lock is free, so no transaction is under way, and the new version follows
\* the stored one.
LEMMA UpdateStep ==
  ASSUME NEW t \in Thread, IndInv, Update(t)
  PROVE  IndInv'
<1> USE BoundAssumption DEF IndInv, Update, ThreadGoes, files
<1>1. put = "none" /\ fs["temp"] = None /\ fs["tmp"] = None /\ cached
  BY DEF PutInv, FetchInv
<1>2. obj = Stored
  BY <1>1 DEF SettledInv, Settled, Writing
<1>3. TypeOK'
  BY DEF TypeOK, PcState, PutState
<1>4. PutInv'
  BY <1>1 DEF TypeOK, PutInv, Writing, Unlocked
<1>5. FileInv' /\ SettledInv' /\ DecidedInv' /\ AliasInv'
  BY <1>1, <1>2 DEF FileInv, RecordWhole, SettledInv, DecidedInv, AliasInv, Settled,
       Writing, Stored, Linked
<1>6. FetchInv'
  BY DEF TypeOK, FetchInv
<1> QED
  BY <1>3, <1>4, <1>5, <1>6

\* At startup, with no transaction under way: the .tmp file does not count, and a
\* transaction file that is found is durable.
LEMMA BootStep ==
  ASSUME IndInv, BootTmp \/ BootComplete \/ BootDone
  PROVE  IndInv'
<1> USE FileFacts, NoneAssumption, BoundAssumption DEF IndInv, files, threads
<1>1. CASE BootTmp
  BY <1>1 DEF BootTmp, SetFile, TypeOK, Content, Version, PcState, PutState, FileInv, RecordWhole, PutInv, Writing,
    Unlocked, SettledInv, Settled, Stored, DecidedInv, AliasInv, Linked, FetchInv
<1>2. CASE BootComplete
  BY <1>2 DEF BootComplete, TypeOK, Content, Version, PcState, PutState, FileInv, RecordWhole, PutInv, Writing,
    Unlocked, SettledInv, Settled, Stored, DecidedInv, AliasInv, Linked, FetchInv
<1>3. CASE BootDone
  BY <1>3 DEF BootDone, TypeOK, Content, Version, PcState, PutState, FileInv, RecordWhole, PutInv, Writing,
    Unlocked, SettledInv, Settled, Stored, DecidedInv, AliasInv, Linked, FetchInv
<1> QED
  BY <1>1, <1>2, <1>3

-----------------------------------------------------------------------------
(* putRecord.                                                               *)

\* The .tmp file is torn at first, but nothing links it.
LEMMA TmpStep ==
  ASSUME IndInv, CreateTmp \/ WriteTmp
  PROVE  IndInv'
<1> USE FileFacts, NoneAssumption, BoundAssumption DEF IndInv, PutGoes, threads
<1>1. CASE CreateTmp
  BY <1>1 DEF CreateTmp, SetFile, TypeOK, Content, Version, PcState, PutState, FileInv, RecordWhole, PutInv, Writing,
    Unlocked, SettledInv, Settled, Stored, DecidedInv, AliasInv, Linked, FetchInv
<1>2. CASE WriteTmp
  <2>1. TypeOK'
    BY <1>2, Holds DEF WriteTmp, TypeOK, Content, PutState, Writing
  <2>2. FileInv' /\ PutInv'
    BY <1>2 DEF WriteTmp, TypeOK, FileInv, RecordWhole, PutInv, Writing, Unlocked
  <2>3. SettledInv' /\ DecidedInv' /\ AliasInv' /\ FetchInv'
    BY <1>2 DEF WriteTmp, TypeOK, SettledInv, DecidedInv, AliasInv, FetchInv,
         Settled, Writing, Stored, Linked
  <2> QED
    BY <2>1, <2>2, <2>3
<1> QED
  BY <1>1, <1>2

\* The transaction file is whole, and may vanish in a crash.
LEMMA LinkTempStep ==
  ASSUME IndInv, LinkTemp
  PROVE  IndInv'
<1> USE FileFacts, NoneAssumption, BoundAssumption
    DEF IndInv, LinkTemp, PutGoes, LinkFile, threads
<1>1. /\ fs["tmp"] = obj /\ obj \in Version /\ mode = "up"
      /\ may' = [may EXCEPT !["temp"] = @ \cup {obj}]
  <2>1. put = "link" /\ fs["tmp"] = obj /\ fs' = [fs EXCEPT !["temp"] = fs["tmp"]]
    BY DEF PutInv
  <2>2. obj \in Version /\ mode = "up"
    BY <2>1, Holds DEF Writing
  <2>3. may' = [may EXCEPT !["temp"] = @ \cup {fs["tmp"]}]
    <3>1. Torn \notin may["tmp"]
      BY <2>1 DEF PutInv
    <3>2. may["tmp"] \cap {Torn} = {}
      BY <3>1
    <3> QED
      BY <3>2
  <2> QED
    BY <2>1, <2>2, <2>3
<1>2. TypeOK' /\ PutInv' /\ FetchInv'
  BY DEF TypeOK, Content, PutState, PutInv, Writing, Unlocked, FetchInv
<1>3. FileInv'
  BY <1>1 DEF TypeOK, FileInv, RecordWhole, Version
<1>4. SettledInv'
  BY <1>1 DEF TypeOK, SettledInv, Settled, Writing, Stored
<1>5. DecidedInv' /\ AliasInv'
  BY DEF TypeOK, DecidedInv, AliasInv, Settled, Writing, Stored, Linked
<1> QED
  BY <1>2, <1>3, <1>4, <1>5

\* The record is decided: it has the version after the stored one.
LEMMA SyncTempStep ==
  ASSUME IndInv, SyncTemp
  PROVE  IndInv'
<1> USE FileFacts, NoneAssumption, BoundAssumption
    DEF IndInv, SyncTemp, PutGoes, SyncFiles, TempDir, threads
<1>1. fs["temp"] = obj /\ obj = Stored + 1 /\ Stored \in 0..MaxVer /\ obj \in Version
  BY Holds DEF SettledInv, Settled, Writing
<1>2. TypeOK' /\ FileInv' /\ PutInv' /\ FetchInv'
  BY DEF TypeOK, Content, PutState, FileInv, RecordWhole, PutInv, Writing, Unlocked,
       FetchInv
<1>3. SettledInv' /\ DecidedInv'
  BY <1>1 DEF TypeOK, SettledInv, DecidedInv, Settled, Writing
<1>4. AliasInv'
  <2>1. \A a \in Alias \ Touched(obj) : LastTouch(a, obj) = LastTouch(a, Stored)
    BY <1>1, TouchOld
  <2> QED
    BY <1>1, <2>1 DEF TypeOK, AliasInv, Settled, Writing, Linked
<1> QED
  BY <1>2, <1>3, <1>4

-----------------------------------------------------------------------------
(* complete.                                                                *)

\* While the record is decided its file may be replaced: a user that is not in the
\* cache is not being written.
LEMMA PathStep ==
  ASSUME IndInv, RemovePath \/ LinkPath
  PROVE  IndInv'
<1> USE FileFacts, NoneAssumption, BoundAssumption DEF IndInv, PutGoes, threads
<1>1. CASE RemovePath
  <2>1. TypeOK' /\ FileInv' /\ PutInv'
    BY <1>1 DEF RemovePath, SetFile, TypeOK, Content, PutState, FileInv, RecordWhole,
         PutInv, Writing, Unlocked
  <2>2. SettledInv' /\ DecidedInv' /\ AliasInv'
    BY <1>1 DEF RemovePath, SetFile, TypeOK, SettledInv, DecidedInv, AliasInv, Settled,
         Writing, Linked
  <2>3. FetchInv'
    BY <1>1, Holds DEF RemovePath, SetFile, TypeOK, FetchInv, PutInv
  <2> QED
    BY <2>1, <2>2, <2>3
<1>2. CASE LinkPath
  <2>1. /\ fs' = [fs EXCEPT !["path"] = fs["temp"]]
        /\ may' = [may EXCEPT !["path"] = @ \cup {fs["temp"]}]
        /\ fs["temp"] \in Version
    BY <1>2 DEF LinkPath, LinkFile, TypeOK, FileInv, RecordWhole, DecidedInv, Settled,
         Writing
  <2>2. TypeOK' /\ FileInv' /\ PutInv'
    BY <1>2, <2>1 DEF LinkPath, TypeOK, Content, PutState, FileInv, RecordWhole,
         PutInv, Writing, Unlocked, Version
  <2>3. SettledInv' /\ DecidedInv' /\ AliasInv'
    BY <1>2, <2>1 DEF LinkPath, TypeOK, SettledInv, DecidedInv, AliasInv, Settled,
         Writing, Linked
  <2>4. FetchInv'
    BY <1>2, <2>1, Holds DEF LinkPath, TypeOK, FetchInv, PutInv
  <2> QED
    BY <2>2, <2>3, <2>4
<1> QED
  BY <1>1, <1>2

\* The aliases to link are those of the version that was decided.
LEMMA SyncPathStep ==
  ASSUME IndInv, SyncPath
  PROVE  IndInv'
<1> USE FileFacts, NoneAssumption, BoundAssumption
    DEF IndInv, SyncPath, PutGoes, SyncFiles, threads
<1>1. Completed = fs["temp"] /\ fs["temp"] \in Version
  BY Holds DEF DecidedInv, Settled, Writing
<1>2. TypeOK'
  BY <1>1, TouchedAssumption DEF TypeOK, Content, PutState
<1>3. FileInv' /\ PutInv' /\ FetchInv'
  BY DEF TypeOK, FileInv, RecordWhole, PutInv, Writing, Unlocked, FetchInv
<1>4. SettledInv' /\ DecidedInv' /\ AliasInv'
  BY <1>1 DEF TypeOK, SettledInv, DecidedInv, AliasInv, Settled, Writing, Linked
<1> QED
  BY <1>2, <1>3, <1>4

\* A symlink that is replaced is one that the version touches.
LEMMA LinkAliasStep ==
  ASSUME NEW a \in Alias, IndInv, LinkAlias(a)
  PROVE  IndInv'
<1> USE FileFacts, NoneAssumption, BoundAssumption
    DEF IndInv, LinkAlias, PutGoes, threads
<1>1. Completed = fs["temp"] /\ fs["temp"] \in Version /\ a \in Touched(fs["temp"])
  BY Holds DEF DecidedInv, Settled, Writing, AliasInv
<1>2. TypeOK'
  BY <1>1 DEF TypeOK, Content, PutState
<1>3. FileInv' /\ PutInv' /\ FetchInv'
  BY DEF TypeOK, FileInv, RecordWhole, PutInv, Writing, Unlocked, FetchInv
<1>4. SettledInv' /\ DecidedInv' /\ AliasInv'
  BY <1>1 DEF TypeOK, SettledInv, DecidedInv, AliasInv, Settled, Writing, Linked
<1> QED
  BY <1>2, <1>3, <1>4

\* All symlinks are those of the version that is completed, and durable.
LEMMA SyncAliasStep ==
  ASSUME IndInv, SyncAlias
  PROVE  IndInv'
<1> USE FileFacts, NoneAssumption, BoundAssumption
    DEF IndInv, SyncAlias, PutGoes, SyncFiles, threads
<1>1. Completed = fs["temp"] /\ fs["temp"] \in Version
  BY Holds DEF DecidedInv, Settled, Writing
<1>2. \A a \in Alias : fs[a] = LastTouch(a, fs["temp"])
  BY <1>1, TouchNew DEF AliasInv, Settled, Writing, Linked
<1>3. TypeOK'
  BY DEF TypeOK, Content, PutState
<1>4. FileInv' /\ PutInv' /\ FetchInv'
  BY DEF TypeOK, FileInv, RecordWhole, PutInv, Writing, Unlocked, FetchInv
<1>5. SettledInv' /\ DecidedInv'
  BY DEF TypeOK, SettledInv, DecidedInv, Settled, Writing
<1>6. AliasInv'
  BY <1>1, <1>2 DEF TypeOK, AliasInv, Settled, Writing, Linked
<1> QED
  BY <1>3, <1>4, <1>5, <1>6

\* The record is settled again, at the version that was decided.
LEMMA RemoveTempStep ==
  ASSUME IndInv, RemoveTemp
  PROVE  IndInv'
<1> USE FileFacts, NoneAssumption, BoundAssumption
    DEF IndInv, RemoveTemp, PutGoes, SetFile, threads
<1>1. /\ fs["path"] = fs["temp"] /\ fs["temp"] \in Version
      /\ Settled' /\ ~Writing' /\ Stored' = fs["temp"]
  BY DEF TypeOK, DecidedInv, Settled, Writing, Stored, Version
<1>2. TypeOK' /\ FileInv' /\ PutInv' /\ FetchInv'
  BY DEF TypeOK, Content, PutState, FileInv, RecordWhole, PutInv, Writing, Unlocked,
       FetchInv
<1>3. SettledInv' /\ DecidedInv'
  BY <1>1 DEF TypeOK, SettledInv, DecidedInv, PutInv, Settled, Writing
<1>4. AliasInv'
  BY <1>1 DEF TypeOK, AliasInv, Linked
<1> QED
  BY <1>2, <1>3, <1>4

\* The update is confirmed with the version that is stored.
LEMMA ReturnStep ==
  ASSUME IndInv, Return
  PROVE  IndInv'
<1> USE FileFacts, NoneAssumption, BoundAssumption DEF IndInv, Return, SetFile
<1>1. mode = "up" => obj = Stored /\ done <= Stored /\ Stored \in Nat
  BY Holds DEF TypeOK, PutInv, SettledInv, Settled, Writing
<1>2. TypeOK' /\ FileInv'
  BY DEF TypeOK, Content, PcState, PutState, FileInv, RecordWhole
<1>3. PutInv'
  BY DEF TypeOK, PutInv, SettledInv, Settled, Writing, Unlocked
<1>4. SettledInv' /\ DecidedInv' /\ AliasInv'
  BY <1>1 DEF TypeOK, SettledInv, DecidedInv, AliasInv, Settled, Writing, Stored, Linked
<1>5. FetchInv'
  BY <1>1 DEF TypeOK, FetchInv
<1> QED
  BY <1>2, <1>3, <1>4, <1>5

-----------------------------------------------------------------------------
\* After a crash the record is settled as before, or decided on the version it had
\* or on the one that was being written.
LEMMA CrashFiles ==
  ASSUME IndInv, Crash
  PROVE  /\ ~Writing' /\ (Settled' <=> fs'["temp"] = None)
         /\ \A f \in File : fs'[f] \in may[f] /\ may'[f] = {fs'[f]}
         /\ Settled => /\ fs'["path"] = fs["path"] /\ Stored' = Stored
                       /\ \A a \in Alias : fs'[a] = fs[a]
                       /\ \/ fs'["temp"] \in {None, fs["path"]}
                          \/ Writing /\ fs'["temp"] = obj
         /\ ~Settled => /\ fs'["temp"] = fs["temp"] /\ fs["temp"] # None
                        /\ \A a \in Alias \ Touched(fs["temp"]) : fs'[a] = fs[a]
<1> USE FileFacts DEF IndInv
<1>1. /\ ~Writing' /\ (Settled' <=> fs'["temp"] = None)
      /\ \A f \in File : fs'[f] \in may[f] /\ may'[f] = {fs'[f]}
  BY DEF Crash, Settled, Writing
<1>2. ASSUME Settled
      PROVE  /\ fs'["path"] = fs["path"] /\ Stored' = Stored
             /\ \A a \in Alias : fs'[a] = fs[a]
             /\ \/ fs'["temp"] \in {None, fs["path"]}
                \/ Writing /\ fs'["temp"] = obj
  BY <1>1, <1>2 DEF SettledInv, AliasInv, Linked, Stored, Writing
<1>3. ASSUME ~Settled
      PROVE  /\ fs'["temp"] = fs["temp"] /\ fs["temp"] # None
             /\ \A a \in Alias \ Touched(fs["temp"]) : fs'[a] = fs[a]
  BY <1>1, <1>3 DEF DecidedInv, AliasInv, Linked, Version
<1> QED
  BY <1>1, <1>2, <1>3

\* The process dies; what it knew is gone, and the files are as CrashFiles says.
LEMMA CrashStep ==
  ASSUME IndInv, Crash
  PROVE  IndInv'
<1> USE FileFacts, NoneAssumption, BoundAssumption DEF IndInv
<1>1. /\ mode' = "down" /\ put' = "none" /\ cached' = FALSE /\ obj' = 0 /\ todo' = {}
      /\ fs' \in [File -> Content] /\ may' \in [File -> SUBSET Content]
      /\ done' = done /\ \A t \in Thread : pc'[t] = "idle" /\ begun'[t] = 0
  BY DEF Crash
<1>2. TypeOK'
  <2>1. /\ pc' \in [Thread -> PcState] /\ got' \in [Thread -> Content]
        /\ begun' \in [Thread -> 0..MaxVer]
    BY DEF Crash, PcState, Content
  <2>2. crashes' \in 0..MaxCrash /\ done' \in 0..MaxVer /\ obj' \in 0..MaxVer
    BY <1>1 DEF Crash, TypeOK
  <2>3. /\ mode' \in {"up", "down"} /\ cached' \in BOOLEAN /\ put' \in PutState
        /\ todo' \in SUBSET Alias
    BY <1>1 DEF PutState
  <2> QED
    BY <1>1, <2>1, <2>2, <2>3 DEF TypeOK
<1>3. FileInv' /\ PutInv' /\ FetchInv'
  BY <1>1, CrashFiles DEF TypeOK, FileInv, RecordWhole, PutInv, FetchInv
<1>4. SettledInv'
  BY <1>1, CrashFiles DEF SettledInv
<1>5. DecidedInv'
  BY <1>1, CrashFiles, Holds DEF TypeOK, SettledInv, DecidedInv, Version, Stored
<1>6. AliasInv'
  <2>1. CASE fs'["temp"] = None
    <3>1. Settled /\ Settled' /\ Stored' = Stored
      BY <2>1, CrashFiles
    <3>2. \A a \in Alias : fs'[a] = fs[a] /\ Linked(a, Stored)
      BY <3>1, CrashFiles DEF AliasInv
    <3>3. \A a \in Alias : Linked(a, Stored)'
      BY <3>1, <3>2, CrashFiles DEF Linked, LastTouch
    <3> QED
      BY <1>1, <3>1, <3>3 DEF AliasInv
  <2>2. CASE fs'["temp"] # None /\ ~Settled
    BY <2>2, <1>1, CrashFiles DEF AliasInv, Linked
  <2>3. CASE fs'["temp"] # None /\ Settled /\ fs'["temp"] = fs["path"]
    BY <2>3, <1>1, CrashFiles DEF AliasInv, Linked, Stored
  <2>4. CASE Settled /\ Writing /\ fs'["temp"] = obj
    <3>1. obj = Stored + 1 /\ Stored \in 0..MaxVer /\ obj \in Version
      BY <2>4, Holds
    <3>2. \A a \in Alias \ Touched(obj) : LastTouch(a, obj) = LastTouch(a, Stored)
      BY <3>1, TouchOld
    <3> QED
      BY <2>4, <3>1, <3>2, <1>1, CrashFiles DEF AliasInv, Linked, Version
  <2> QED
    BY <2>1, <2>2, <2>3, <2>4, CrashFiles
<1> QED
  BY <1>2, <1>3, <1>4, <1>5, <1>6

-----------------------------------------------------------------------------
\* An empty database satisfies IndInv.
LEMMA IndInit == Init => IndInv
<1> SUFFICES ASSUME Init PROVE IndInv
  OBVIOUS
<1> USE FileFacts, NoneAssumption, BoundAssumption DEF Init
<1>1. TypeOK
  <2>1. /\ fs \in [File -> Content] /\ may \in [File -> SUBSET Content]
        /\ pc \in [Thread -> PcState] /\ got \in [Thread -> Content]
        /\ begun \in [Thread -> 0..MaxVer]
    BY DEF Content, PcState
  <2>2. obj \in 0..MaxVer /\ done \in 0..MaxVer /\ crashes \in 0..MaxCrash
    OBVIOUS
  <2>3. /\ mode \in {"up", "down"} /\ cached \in BOOLEAN /\ put \in PutState
        /\ todo \in SUBSET Alias
    BY DEF PutState
  <2> QED
    BY <2>1, <2>2, <2>3 DEF TypeOK
<1>2. FileInv /\ PutInv /\ SettledInv /\ DecidedInv /\ FetchInv
  BY DEF FileInv, RecordWhole, PutInv, Writing, SettledInv, DecidedInv, Settled, Stored,
       FetchInv
<1>3. AliasInv
  BY TouchNone DEF AliasInv, Linked, Settled, Stored, Writing
<1> QED
  BY <1>1, <1>2, <1>3 DEF IndInv

\* Every step preserves IndInv.
LEMMA IndStep == IndInv /\ [Next]_vars => IndInv'
<1>1. IndInv /\ UNCHANGED vars => IndInv'
  BY DEF vars, files, threads, IndInv, TypeOK, Content, Version, PcState, PutState, FileInv, RecordWhole, PutInv, Writing,
    Unlocked, SettledInv, Settled, Stored, DecidedInv, AliasInv, Linked, FetchInv, LastTouch
<1> QED
  BY <1>1, ThreadStep, StoreStep, UpdateStep, TmpStep, LinkTempStep, SyncTempStep,
     PathStep, SyncPathStep, LinkAliasStep, SyncAliasStep, RemoveTempStep, ReturnStep,
     CrashStep, BootStep DEF Next

\* The inductive invariant holds in every reachable state.
THEOREM Invariance == Spec => []IndInv
  BY IndInit, IndStep, PTL DEF Spec

\* A file is never given anything but a version of the record, and an update that
\* is under way never exceeds them.
THEOREM TypeCorrect == Spec => []TypeOK
<1>1. IndInv => TypeOK
  BY DEF IndInv
<1> QED
  BY Invariance, <1>1, PTL

\* No crash, at any file operation of putRecord, complete or the recovery, leaves
\* a torn record or transaction file.
THEOREM NeverTorn == Spec => []RecordWhole
<1>1. IndInv => RecordWhole
  BY DEF IndInv, FileInv
<1> QED
  BY Invariance, <1>1, PTL

\* putRecord and complete find every file they expect and none they do not, in a
\* request and in a recovery that itself was cut short any number of times.
THEOREM NeverPanics == Spec => []NoPanic
<1>1. IndInv => NoPanic
  BY Holds, FileFacts
     DEF IndInv, PutInv, SettledInv, DecidedInv, Settled, Writing, NoPanic, Version
<1> QED
  BY Invariance, <1>1, PTL

\* What counts is the stored version while the record is settled, and else the
\* version in the transaction file.
LEMMA CommittedIs ==
  IndInv => Committed = IF Settled THEN Stored ELSE fs["temp"]
<1> SUFFICES ASSUME IndInv PROVE Committed = IF Settled THEN Stored ELSE fs["temp"]
  OBVIOUS
<1> USE FileFacts DEF IndInv
<1>1. CASE Settled
  BY <1>1, Holds DEF SettledInv, Committed, Writing, Version
<1>2. CASE ~Settled
  BY <1>2 DEF DecidedInv, Committed, Version
<1> QED
  BY <1>1, <1>2

\* Between updates the alias symlinks are those of the record, whatever crashes
\* came between the record and its symlinks and however often a transaction was
\* replayed.
THEOREM AliasesIndexed == Spec => []AliasIndex
<1>1. IndInv => AliasIndex
  BY CommittedIs DEF IndInv, PutInv, AliasInv, Settled, Linked, AliasIndex
<1> QED
  BY Invariance, <1>1, PTL

\* No thread works on a cached user that is older than what was confirmed when it
\* began to fetch it, though it may have read the file before another thread's
\* updates.
THEOREM FetchedCurrent == Spec => []FetchCurrent
<1>1. IndInv => FetchCurrent
  <2> SUFFICES ASSUME IndInv, NEW t \in Thread, pc[t] = "lock"
               PROVE  cached /\ obj >= begun[t]
    BY DEF FetchCurrent
  <2>1. cached /\ begun[t] <= done /\ mode = "up"
    BY DEF IndInv, FetchInv, PutInv, TypeOK
  <2>2. done <= obj
    BY <2>1, Holds, BoundAssumption
       DEF IndInv, TypeOK, SettledInv, DecidedInv, Version
  <2> QED
    BY <2>1, <2>2 DEF IndInv, TypeOK
<1> QED
  BY Invariance, <1>1, PTL

-----------------------------------------------------------------------------
\* A step of the files is a step of the abstract record or changes nothing that
\* the record has: SyncTemp and a crash may commit the next version, Return
\* confirms the one that is committed.
LEMMA RecordStep ==
  IndInv /\ [Next]_vars => [Abstract!Next]_<<Committed, done>>
<1> DEFINE Val == IF Settled THEN Stored ELSE fs["temp"]
<1>0. (IndInv => Committed = Val)'
  BY CommittedIs, PTL
<1> SUFFICES ASSUME IndInv, IndInv', [Next]_vars
             PROVE  Abstract!Next \/ UNCHANGED <<Committed, done>>
  BY IndStep
<1>1. Committed = Val /\ Committed' = Val'
  BY <1>0, CommittedIs
<1>2. CASE SyncTemp
  <2>1. Val = Stored /\ Val' = fs["temp"] /\ done' = done
    BY <1>2 DEF SyncTemp, PutGoes, SyncFiles, Settled, Writing
  <2>2. fs["temp"] = Stored + 1
    BY <1>2, Holds DEF SyncTemp, PutGoes, IndInv, SettledInv, Settled, Writing
  <2> QED
    BY <1>1, <2>1, <2>2 DEF Abstract!Next, Abstract!Commit
<1>3. CASE Crash
  <2>1. done' = done
    BY <1>3 DEF Crash
  <2>2. Val' = Val \/ Val' = Val + 1
    BY <1>3, CrashFiles, Holds DEF Stored
  <2> QED
    BY <1>1, <2>1, <2>2 DEF Abstract!Next, Abstract!Commit
<1>4. CASE Return
  <2>1. Val' = Val /\ Val = Stored
    BY <1>4, FileFacts
       DEF Return, SetFile, Settled, Writing, Stored, IndInv, SettledInv, TypeOK
  <2>2. done' = done \/ done' = Val
    BY <1>4, <2>1 DEF Return, IndInv, PutInv, SettledInv, Settled, Writing, TypeOK
  <2> QED
    BY <1>1, <2>1, <2>2 DEF Abstract!Next, Abstract!Confirm
<1>5. CASE RemoveTemp
  <2>1. Val' = fs["path"] /\ Val = fs["temp"] /\ fs["path"] = fs["temp"] /\ done' = done
    BY <1>5, FileFacts
       DEF RemoveTemp, PutGoes, SetFile, Settled, Writing, Stored, IndInv, DecidedInv,
           Version, TypeOK
  <2> QED
    BY <1>1, <2>1
<1>6. CASE RemovePath \/ LinkPath \/ SyncPath \/ SyncAlias \/ BootComplete
           \/ \E a \in Alias : LinkAlias(a)
  <2>1. ~Settled /\ ~Settled' /\ fs'["temp"] = fs["temp"] /\ done' = done
    BY <1>6, FileFacts
       DEF RemovePath, LinkPath, SyncPath, SyncAlias, BootComplete, LinkAlias, PutGoes,
           SetFile, LinkFile, SyncFiles, Settled, Writing, IndInv, TypeOK, files
  <2> QED
    BY <1>1, <2>1
<1>7. CASE CreateTmp \/ WriteTmp \/ LinkTemp \/ \E t \in Thread : Update(t)
  <2>1. Settled /\ Settled' /\ fs'["path"] = fs["path"] /\ done' = done
    BY <1>7, FileFacts
       DEF CreateTmp, WriteTmp, LinkTemp, Update, PutGoes, SetFile, LinkFile, Settled,
           Writing, IndInv, TypeOK, PutInv, FetchInv, ThreadGoes, files
  <2> QED
    BY <1>1, <2>1 DEF Stored
<1>8. CASE UNCHANGED vars \/ BootTmp \/ BootDone
           \/ \E t \in Thread : \/ Fetch(t) \/ Store(t) \/ NotFound(t) \/ ReadUser(t)
                                \/ \E make \in BOOLEAN : Load(t, make)
  <2>1. /\ put' = put /\ done' = done
        /\ fs'["temp"] = fs["temp"] /\ fs'["path"] = fs["path"]
    BY <1>8, FileFacts
       DEF vars, files, BootTmp, BootDone, SetFile, Fetch, Store, NotFound, ReadUser,
           Load, IndInv, TypeOK
  <2> QED
    BY <1>1, <2>1 DEF Settled, Writing, Stored
<1> QED
  BY <1>2, <1>3, <1>4, <1>5, <1>6, <1>7, <1>8 DEF Next

\* The files implement the abstract record: its versions follow each other one by
\* one, none is taken back, and a confirmed one is committed.
THEOREM Refinement == Spec => ImplementsRecord
<1>1. Init => Abstract!Init
  BY FileFacts DEF Init, Abstract!Init, Committed, Stored
<1> QED
  BY <1>1, RecordStep, Invariance, PTL
     DEF Spec, ImplementsRecord, Abstract!Spec
-----------------------------------------------------------------------------
\* While the file of a confirmed record is away, a newer version is committed.
LEMMA AwayMeansUpdate ==
  IndInv /\ mode = "up" /\ fs["path"] = None /\ done > 0 => Committed > done
<1> SUFFICES ASSUME IndInv, mode = "up", fs["path"] = None, done > 0
             PROVE  Committed > done
  OBVIOUS
<1>1. ~Settled /\ done \in Nat
  BY BoundAssumption DEF IndInv, TypeOK, SettledInv, Stored
<1>2. done < fs["temp"]
  BY <1>1, Holds DEF IndInv, DecidedInv
<1> QED
  BY <1>1, <1>2, CommittedIs

\* A fetch that is told that there is no such user, though a record of it was
\* confirmed before it began, has met an update committed since.
THEOREM MissesAreUpdates == Spec => []MissMeansUpdate
<1>1. Init => MissMeansUpdate
  BY DEF Init, MissMeansUpdate
<1>2. IndInv /\ IndInv' /\ MissMeansUpdate /\ [Next]_vars => MissMeansUpdate'
  <2> SUFFICES ASSUME IndInv, IndInv', MissMeansUpdate, [Next]_vars, NEW t \in Thread,
                      pc'[t] = "notfound", begun'[t] > 0
               PROVE  Committed' > begun'[t]
    BY DEF MissMeansUpdate
  <2>1. Committed \in Nat
    BY CommittedIs, Holds, BoundAssumption DEF IndInv, DecidedInv, Version
  <2>2. Committed' \in Nat /\ Committed' >= Committed
    BY <2>1, RecordStep DEF Abstract!Next, Abstract!Commit, Abstract!Confirm
  <2>3. begun[t] \in Nat
    BY BoundAssumption DEF IndInv, TypeOK
  <2>4. CASE pc[t] = "notfound" /\ begun'[t] = begun[t]
    BY <2>1, <2>2, <2>3, <2>4 DEF MissMeansUpdate
  <2>5. CASE ~(pc[t] = "notfound" /\ begun'[t] = begun[t])
    <3>1. /\ mode = "up" /\ pc[t] = "load" /\ fs["path"] = None
          /\ done' = done /\ Committed' = Committed /\ begun'[t] = begun[t]
      BY <2>5, FileFacts
         DEF Next, vars, files, threads, Fetch, Store, NotFound, ReadUser, Update, Load,
             ThreadGoes, CreateTmp, WriteTmp, LinkTemp, SyncTemp, RemovePath, LinkPath,
             SyncPath, LinkAlias, SyncAlias, RemoveTemp, Return, PutGoes, Crash, BootTmp,
             BootComplete, BootDone, IndInv, TypeOK, Committed, Stored
    <3>2. begun[t] <= done /\ done > 0
      BY <3>1, <2>3, BoundAssumption DEF IndInv, TypeOK, FetchInv
    <3> QED
      BY <3>1, <3>2, <2>1, <2>3, AwayMeansUpdate, BoundAssumption DEF IndInv, TypeOK
  <2> QED
    BY <2>4, <2>5
<1> QED
  BY <1>1, <1>2, Invariance, PTL DEF Spec
=============================================================================
