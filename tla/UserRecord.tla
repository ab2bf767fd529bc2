----------------------------- MODULE UserRecord -----------------------------
(***************************************************************************)
(* ONE record of the user database and its path to disk: the cache entry   *)
(* and the file user/<uid>, the transaction files temp/user_<uid> and      *)
(* temp/user_<uid>.tmp, and the alias symlinks that the record updates.    *)
(* Threads fetch the record and update it (putRecord, complete); the       *)
(* process may die at any time and NewUserDb then recovers.                *)
(*                                                                         *)
(* A version of the record stands for its content: AddUser makes version   *)
(* 1, every later update the next one.  The Touched flags of a version are *)
(* the aliases it adds or drops; an alias symlink holds the version that   *)
(* wrote it.  Group records take the same path without symlinks.           *)
(*                                                                         *)
(* A change of a directory is visible at once and durable when the         *)
(* directory is synced; until then a crash may find any of the contents    *)
(* that the entry has had since.                                           *)
(***************************************************************************)
EXTENDS Naturals, FiniteSets

CONSTANTS
  Thread,      \* goroutines that use the database
  Alias,       \* alias names
  Touched(_),  \* the aliases that a version adds or drops
  None,        \* no file
  Torn,        \* a file that is created but not written in full
  MaxVer,      \* bound on the number of updates
  MaxCrash     \* bound on the number of crashes

Version == 1..MaxVer

ASSUME TouchedAssumption == \A v \in Version : Touched(v) \subseteq Alias
ASSUME NoneAssumption    == {None, Torn} \cap Nat = {} /\ None # Torn
ASSUME AliasAssumption   == Alias \cap {"tmp", "temp", "path"} = {}
ASSUME BoundAssumption   == MaxVer \in Nat \ {0} /\ MaxCrash \in Nat

VARIABLES
  fs,       \* what each file holds
  may,      \* what each file may hold after a crash
  mode,     \* "up", or "down" until NewUserDb has returned
  cached,   \* o.user[uid] # nil
  obj,      \* the version of the cached tUser, 0 if it has no nodes
  pc,       \* where each thread stands
  got,      \* what getRecord gave a thread
  put,      \* where putRecord and complete stand
  todo,     \* touched aliases whose symlinks complete has still to make
  done,     \* history: the last version whose update returned
  begun,    \* history: done when the thread began to fetch
  crashes   \* number of crashes so far

files   == <<fs, may>>
threads == <<pc, got, begun>>
vars    == <<files, mode, cached, obj, threads, put, todo, done, crashes>>

File     == {"tmp", "temp", "path"} \cup Alias
TempDir  == {"tmp", "temp"}
Content  == Version \cup {None, Torn}
PcState  == {"idle", "load", "store", "lock", "busy", "notfound"}
PutState == {"none", "create", "write", "link", "sync", "rmPath", "linkPath",
             "syncPath", "alias", "syncAlias", "rmTemp", "rmTmp"}

TypeOK ==
  /\ fs \in [File -> Content]
  /\ may \in [File -> SUBSET Content]
  /\ mode \in {"up", "down"}
  /\ cached \in BOOLEAN
  /\ obj \in 0..MaxVer
  /\ pc \in [Thread -> PcState]
  /\ got \in [Thread -> Content]
  /\ begun \in [Thread -> 0..MaxVer]
  /\ put \in PutState
  /\ todo \in SUBSET Alias
  /\ done \in 0..MaxVer
  /\ crashes \in 0..MaxCrash

\* An empty database and a process that has just started.
Init ==
  /\ fs = [f \in File |-> None]
  /\ may = [f \in File |-> {None}]
  /\ mode = "down"
  /\ cached = FALSE /\ obj = 0
  /\ pc = [t \in Thread |-> "idle"]
  /\ got = [t \in Thread |-> None]
  /\ begun = [t \in Thread |-> 0]
  /\ put = "none" /\ todo = {}
  /\ done = 0 /\ crashes = 0

-----------------------------------------------------------------------------
(* Directory operations.                                                    *)

SetFile(f, c) ==
  /\ fs' = [fs EXCEPT ![f] = c]
  /\ may' = [may EXCEPT ![f] = @ \cup {c}]

\* A hard link shares the content, so it may be torn if the source may.
LinkFile(src, dst) ==
  /\ fs[dst] = None
  /\ fs' = [fs EXCEPT ![dst] = fs[src]]
  /\ may' = [may EXCEPT ![dst] = @ \cup {fs[src]} \cup (may[src] \cap {Torn})]

\* syncDir of the directory that holds the files in F.
SyncFiles(F) ==
  /\ may' = [f \in File |-> IF f \in F THEN {fs[f]} ELSE may[f]]
  /\ UNCHANGED fs

-----------------------------------------------------------------------------
(* fetchUser.                                                               *)

ThreadGoes(t, from, to) ==
  /\ mode = "up"
  /\ pc[t] = from
  /\ pc' = [pc EXCEPT ![t] = to]

\* The look into the cache, under userDoor.
Fetch(t) ==
  /\ ThreadGoes(t, "idle", IF cached THEN "lock" ELSE "load")
  /\ begun' = [begun EXCEPT ![t] = done]
  /\ UNCHANGED <<files, mode, cached, obj, got, put, todo, done, crashes>>

\* getRecord reads the file without a lock; eFetchCheck gives up if there is
\* none, eFetchMake goes on with an empty user.
Load(t, make) ==
  /\ ThreadGoes(t, "load", IF fs["path"] = None /\ ~make THEN "notfound"
                                                         ELSE "store")
  /\ got' = [got EXCEPT ![t] = fs["path"]]
  /\ UNCHANGED <<files, mode, cached, obj, begun, put, todo, done, crashes>>

\* Mutant: an empty user is put into the cache without its node map.
Store_NoInit(t) ==
  /\ ThreadGoes(t, "store", "lock")
  /\ cached' = TRUE
  /\ obj' = IF cached THEN obj ELSE got[t]
  /\ UNCHANGED <<files, mode, got, begun, put, todo, done, crashes>>

\* Mutant: the map is not rechecked, the object in it is replaced.
Store_NoRecheck(t) ==
  /\ ThreadGoes(t, "store", "lock")
  /\ cached' = TRUE
  /\ obj' = IF got[t] = None THEN 0 ELSE got[t]
  /\ UNCHANGED <<files, mode, got, begun, put, todo, done, crashes>>

\* Recheck the map, under userDoor, and add what was read.
Store(t) ==
  /\ ThreadGoes(t, "store", "lock")
  /\ cached' = TRUE
  /\ obj' = CASE cached                    -> obj
              [] ~cached /\ got[t] = None  -> 0
              [] ~cached /\ got[t] # None  -> got[t]
  /\ UNCHANGED <<files, mode, got, begun, put, todo, done, crashes>>

\* A caller that was told that there is no such user goes on.
NotFound(t) ==
  /\ ThreadGoes(t, "notfound", "idle")
  /\ UNCHANGED <<files, mode, cached, obj, got, begun, put, todo, done, crashes>>

-----------------------------------------------------------------------------
(* Operations on the fetched user, under its RWMutex.                       *)

Unlocked == \A t \in Thread : pc[t] # "busy"

\* Verify and the like: read under RLock; or an update that is a retry.
ReadUser(t) ==
  /\ Unlocked
  /\ ThreadGoes(t, "lock", "idle")
  /\ UNCHANGED <<files, mode, cached, obj, got, begun, put, todo, done, crashes>>

\* AddUser, AddNode, DropNode, AddAlias, DropAlias: change the cached object
\* and call putRecord.
Update(t) ==
  /\ Unlocked
  /\ obj < MaxVer
  /\ ThreadGoes(t, "lock", "busy")
  /\ obj' = obj + 1
  /\ put' = "create"
  /\ UNCHANGED <<files, mode, cached, got, begun, todo, done, crashes>>

\* Mutant: the .tmp file is left behind.
Return_KeepTmp ==
  /\ put = "rmTmp"
  /\ put' = "none"
  /\ done' = IF mode = "up" THEN obj ELSE done
  /\ pc' = [t \in Thread |-> IF pc[t] = "busy" THEN "idle" ELSE pc[t]]
  /\ UNCHANGED <<files, mode, cached, obj, got, begun, todo, crashes>>

\* complete, called by putRecord or at startup, has returned.
Return ==
  /\ put = "rmTmp"
  /\ SetFile("tmp", None)
  /\ put' = "none"
  /\ done' = IF mode = "up" THEN obj ELSE done
  /\ pc' = [t \in Thread |-> IF pc[t] = "busy" THEN "idle" ELSE pc[t]]
  /\ UNCHANGED <<mode, cached, obj, got, begun, todo, crashes>>

-----------------------------------------------------------------------------
(* putRecord.                                                               *)

PutGoes(from, to) ==
  /\ put = from
  /\ put' = to
  /\ UNCHANGED <<mode, cached, obj, threads, done, crashes>>

\* os.OpenFile creates the .tmp file with O_EXCL.
CreateTmp ==
  /\ PutGoes("create", "write")
  /\ fs["tmp"] = None
  /\ SetFile("tmp", Torn)
  /\ UNCHANGED todo

\* Mutant: the .tmp file is not synced.
WriteTmp_NoSync ==
  /\ PutGoes("write", "link")
  /\ SetFile("tmp", obj)
  /\ UNCHANGED todo

\* Encode and aFd.Sync().
WriteTmp ==
  /\ PutGoes("write", "link")
  /\ fs' = [fs EXCEPT !["tmp"] = obj]
  /\ may' = [may EXCEPT !["tmp"] = (@ \ {Torn}) \cup {obj}]
  /\ UNCHANGED todo

\* os.Link(aTemp +".tmp", aTemp).
LinkTemp ==
  /\ PutGoes("link", "sync")
  /\ LinkFile("tmp", "temp")
  /\ UNCHANGED todo

\* Mutant: temp/ is not synced before the record file is replaced.
SyncTemp_NoSync ==
  /\ PutGoes("sync", "rmPath")
  /\ UNCHANGED <<files, todo>>

\* syncDir(o.temp): the transaction completes at startup from here on.
SyncTemp ==
  /\ PutGoes("sync", "rmPath")
  /\ SyncFiles(TempDir)
  /\ UNCHANGED todo

-----------------------------------------------------------------------------
(* complete.                                                                *)

RemovePath ==
  /\ PutGoes("rmPath", "linkPath")
  /\ SetFile("path", None)
  /\ UNCHANGED todo

LinkPath ==
  /\ PutGoes("linkPath", "syncPath")
  /\ LinkFile("temp", "path")
  /\ UNCHANGED todo

\* The object that complete takes the aliases from: its argument, or at
\* startup the record read back from its file.
Completed == IF mode = "up" THEN obj ELSE fs["path"]

\* Mutant: at startup the record is not read back for its aliases.
SyncPath_NoReload ==
  /\ PutGoes("syncPath", "alias")
  /\ SyncFiles({"path"})
  /\ todo' = IF mode = "up" THEN Touched(obj) ELSE {}

\* syncDir of user/.
SyncPath ==
  /\ PutGoes("syncPath", "alias")
  /\ SyncFiles({"path"})
  /\ todo' = Touched(Completed)

\* fLink for one touched alias: os.Remove and os.Symlink.
LinkAlias(a) ==
  /\ PutGoes("alias", "alias")
  /\ a \in todo
  /\ todo' = todo \ {a}
  /\ fs' = [fs EXCEPT ![a] = Completed]
  /\ may' = [may EXCEPT ![a] = @ \cup {None, Completed}]

\* syncDir of alias/, if there was a touched alias.
SyncAlias ==
  /\ PutGoes("alias", "rmTemp")
  /\ todo = {}
  /\ SyncFiles(IF Touched(Completed) = {} THEN {} ELSE Alias)
  /\ UNCHANGED todo

RemoveTemp ==
  /\ PutGoes("rmTemp", "rmTmp")
  /\ SetFile("temp", None)
  /\ UNCHANGED todo

-----------------------------------------------------------------------------
(* Crash, and NewUserDb.                                                    *)

Crash ==
  /\ crashes < MaxCrash
  /\ crashes' = crashes + 1
  /\ fs' \in {g \in [File -> Content] : \A f \in File : g[f] \in may[f]}
  /\ may' = [f \in File |-> {fs'[f]}]
  /\ mode' = "down"
  /\ cached' = FALSE /\ obj' = 0
  /\ pc' = [t \in Thread |-> "idle"]
  /\ got' = [t \in Thread |-> None]
  /\ begun' = [t \in Thread |-> 0]
  /\ put' = "none" /\ todo' = {}
  /\ UNCHANGED done

\* The listing of temp/ shows a .tmp file.
BootTmp ==
  /\ mode = "down" /\ put = "none"
  /\ fs["tmp"] # None
  /\ SetFile("tmp", None)
  /\ UNCHANGED <<mode, cached, obj, threads, put, todo, done, crashes>>

\* It shows a transaction.
BootComplete ==
  /\ mode = "down" /\ put = "none"
  /\ fs["temp"] # None
  /\ put' = "rmPath"
  /\ UNCHANGED <<files, mode, cached, obj, threads, todo, done, crashes>>

\* NewUserDb returns.
BootDone ==
  /\ mode = "down" /\ put = "none"
  /\ fs["tmp"] = None /\ fs["temp"] = None
  /\ mode' = "up"
  /\ UNCHANGED <<files, cached, obj, threads, put, todo, done, crashes>>

Next ==
  \/ \E t \in Thread : \/ Fetch(t) \/ Store(t) \/ NotFound(t)
                       \/ ReadUser(t) \/ Update(t)
                       \/ \E make \in BOOLEAN : Load(t, make)
  \/ CreateTmp \/ WriteTmp \/ LinkTemp \/ SyncTemp
  \/ RemovePath \/ LinkPath \/ SyncPath
  \/ \E a \in Alias : LinkAlias(a)
  \/ SyncAlias \/ RemoveTemp \/ Return
  \/ Crash \/ BootTmp \/ BootComplete \/ BootDone

Spec == Init /\ [][Next]_vars

-----------------------------------------------------------------------------
\* The version that counts: the transaction file once syncDir(o.temp) has made
\* it durable, else the record file.
Stored    == IF fs["path"] = None THEN 0 ELSE fs["path"]
Committed == IF fs["temp"] # None /\ may["temp"] = {fs["temp"]} THEN fs["temp"]
                                                               ELSE Stored

Abstract == INSTANCE DurableRecord WITH val <- Committed

\* The files implement a record that never loses a confirmed update and never
\* goes back, through any crash in putRecord, in complete or in the recovery.
ImplementsRecord == Abstract!Spec

\* No crash leaves a torn record or transaction file, which would panic the
\* startup or make the record unreadable.
RecordWhole == Torn \notin may["temp"] \cup may["path"]

\* No file operation of putRecord and complete meets a file it does not expect
\* (or misses one), which would panic the server.
NoPanic ==
  /\ put = "create" => fs["tmp"] = None
  /\ put = "link" => fs["temp"] = None /\ fs["tmp"] # None
  /\ put = "linkPath" => fs["path"] = None
  /\ put \in {"rmPath", "linkPath", "syncPath", "alias", "rmTemp"} =>
       fs["temp"] # None

\* The last version up to v that touched alias a.
LastTouch(a, v) ==
  LET T == {u \in Version : u <= v /\ a \in Touched(u)}
  IN  IF T = {} THEN None ELSE CHOOSE u \in T : \A w \in T : w <= u

\* When the database is up and no update is under way, the alias symlinks say
\* what the record says: a crash between the record and its symlinks is made
\* good, and replaying a finished transaction does no harm.
AliasIndex ==
  mode = "up" /\ put = "none" =>
    \A a \in Alias : fs[a] = LastTouch(a, Committed)

\* A thread that has fetched the user works on an object no older than what
\* was confirmed when it began, however long ago it read the file.
FetchCurrent == \A t \in Thread : pc[t] = "lock" => cached /\ obj >= begun[t]

\* fetchUser misses a user that was stored when it began only if a newer version
\* has been committed since, whose complete had the file away just then: the
\* file is not lost by crashes, nor away while a recovery lets requests in.
MissMeansUpdate ==
  \A t \in Thread : pc[t] = "notfound" /\ begun[t] > 0 => Committed > begun[t]
=============================================================================
