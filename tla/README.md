# A TLA+ model of mnm

mnm is a message relay: client programs connect over TLS, log in as a *node* (a
device) of a user, and post messages to users and groups; the server stores
each message in the queue directory of every recipient node and forwards it
when the node is connected, until the node acks it. The server is one Go
process; all its concurrency is goroutines, mutexes and channels, and all its
persistence is files made with hard links, symlinks and `fsync`.

These modules model that server's own logic from its source, TLC checks them
on small instances, and TLAPS proves every safety invariant that the passing runs
check, and the three refinements, for instances of any size. The exception is `Ohi`,
whose invariants fail for three links: there TLC checks two links, and what is
proved for any number is conditional.

## Inventory

| Part | Source | State | Operations | What makes it correct |
|---|---|---|---|---|
| Node queue | `qlib/qlib.go` 921-1132 | `tNode` (RWMutex, `queue`), `tQueue` (`connChan`, `hasConn`, `ack`, `buf`, `ohi`, `off`) | `queueLink`, `unlink`, `ackAsap`, `_runQueue`, `_runElasticChan`, `_tryOhi` | a stored message is scheduled exactly once and sent until acked; one owner per connection; logins and logouts end |
| Message store | `qlib.go` 1174-1316 | `qstore/temp/*`, `qstore/<node>/*` | `recvFile`, `putLink`, `rmLink`, `getDir`, `sendFile`, `copyDir` | a message reported as posted survives crashes until acked |
| Fan-out | `qlib.go` 712-833 | the read locks of the recipients' users | `_postMsg`, `_postNotify`, `_queueMsg` | every recipient node gets the message once; no deadlock |
| Presence | `qlib.go` 530-556, 695-710, 836-918 | `sOhi.from`, `tOhiSet` with `refcount` and `uid` | `OhiEdit`, `ref`, `unref`, `edit`, `getOhiTo`, `_sendOhi` | a set is listed while a link holds it; contacts are told last what is true |
| Link protocol | `qlib.go` 101-137, 298-693 | read buffer, `tmtprev`, `uid`, `node`, `queue` | `_runLink`, `tHeader.check`, `_handleMsg`, `_checkPing` | requests are cut where they end; queued messages are whole; answers are true |
| Records | `userdb.go` 125-163, 706-738, 769-893 | cache, `user/`, `group/`, `alias/`, `temp/` | `fetchUser`, `getRecord`, `putRecord`, `complete`, `NewUserDb` | an update is all or nothing through any crash; symlinks follow the record |
| Users, nodes | `userdb.go` 169-254, 368-419 | `tUser.Nodes` | `AddUser`, `AddNode`, `DropNode`, `Verify`, `OpenNodes`, `CloseNodes` | node numbers name one node each; limits hold |
| Aliases, groups | `userdb.go` 256-364, 421-634 | `o.alias`, `o.group`, `tGroup.Uid` | `AddAlias`, `DropAlias`, `Lookup`, `Group*` | one owner per name, for ever, through restarts; groups are not lost or locked |
| OpenID | `qlib/openid.go` | keys fetched at startup | token validation | (not modelled) |
| Startup, shutdown | `main.go`, `Suspend` | `sRecvDoor` | `startServer`, signals | the process exits between requests, and does exit |

How the parts meet: each connection has a goroutine `_runLink` that parses
requests and runs `_handleMsg` (under `sRecvDoor.RLock`). A login calls
`UDb.Verify` and `queueLink`; a post calls `recvFile` and `_queueMsg`, which
asks the user database for groups and nodes, links the file into each node's
directory and feeds the node's `queue.in`. `_runElasticChan` sorts what comes
in and feeds `_runQueue`, which borrows the link's connection through
`connChan`. Acks come back through the link to `queue.ack`. Presence changes go
to `queue.ohi` of the contact's nodes.

The hard parts are all in these meetings: the first login lists a directory
that posters write to; four goroutines share a connection that one of them
closes; acks arrive late, twice, or not at all; checks and updates sit in
different lock sections (`queueLink`, `tOhi`, `GroupInvite`, `fetchUser`); and
the machine may die between any two file operations. `PROJECT.json` lists each
under "hazards", with its line and the properties that watch it.

## Modules

| Module | Models | Role |
|---|---|---|
| `Mailbox` | what a node queue promises | abstract specification |
| `NodeQueue` | queue and store directory of one node | implements `Mailbox` |
| `NodeQueueProofs` | | TLAPS proofs about `NodeQueue` |
| `Ohi` | presence of one user towards one contact | |
| `OhiProofs` | | TLAPS proofs about `Ohi` |
| `DurableRecord` | what the database promises for one record | abstract specification |
| `UserRecord` | cache, files and recovery of one record | implements `DurableRecord` |
| `UserRecordProofs` | | TLAPS proofs about `UserRecord` |
| `NameRegistry` | what the database promises about names and groups | abstract specification |
| `GroupDb` | names and groups, in the cache and on the disk | implements `NameRegistry` |
| `GroupDbProofs` | | TLAPS proofs about `GroupDb` |
| `Fanout` | recipients of a message, users' locks, new nodes | |
| `FanoutProofs` | | TLAPS proofs about `Fanout` |
| `LinkProto` | one connection: framing, requests and their data, shutdown | |
| `LinkProtoProofs` | | TLAPS proofs about `LinkProto` |
| `MCNodeQueue`, `MCOhi`, `MCUserRecord`, `MCGroupDb`, `MCFanout`, `MCLinkProto` | | symmetry and definitions for TLC |

Operators named `X_Y` that follow the comment "Mutant" are wrong versions of
`X`, used to see that a property notices that mistake; no specification uses
them.

### NodeQueue

One action per lock section or channel operation. `post[m]` is the program
counter of the poster of message `m` in the node loop of `_queueMsg`, `link[l]`
that of a connection in `queueLink`, `_handleMsg`, `ackAsap` and `unlink`, `rq`
that of `_runQueue`. The node's RWMutex is not a variable: its readers and
writers are the goroutines whose counters lie between lock and unlock.
`_runElasticChan` has no counter; a rendezvous on `in` is `ElasticRecv`, one on
`out` is `NextMsg`, which takes the lowest key because the buffer is sorted.
`connChan` has capacity 1 and is `None` or the connection in it.

* A message is its key (priority byte and id); `makeId` and the file system
  make keys unique, and a number stands for one.
* `volat` holds the directory entries changed since the last `fsync`; `Crash`
  keeps or drops any of them and empties memory. A crash never tears a message
  file, because `recvFile` syncs it before `putLink`.
* `queueLink` allocates `tNode.queue` (`q = "new"`) before its channels and
  reads the pointer without the lock (`Login`), as the code does. A send on the
  nil channel is the state `"stuck"`.
* A connection accepts `WireMax` messages before the client must read; a broken
  one swallows what is written or fails. The client acks in the order it
  received, and may repeat old acks.
* An ack that finds the channel full is dropped (the code waits two seconds).
  A notice that finds `ohi` full, or no connection free, is dropped.
* Timers fire at any time.

### Ohi

Each lock section of `tOhi.ref`, `tOhi.unref`, `tOhiSet.edit` and `getOhiTo` is
a step, and sending a notice is another. A set is named after the link that
made it. `told` is the last presence sent to the contact, by `_sendOhi` or in
the answer to its login.

### UserRecord

`fs[f]` is what file `f` holds now, `may[f]` what it may hold after a crash:
every content the entry has had since its directory was last synced. Each
system call of `putRecord` and `complete` is an action; `NewUserDb` replays
`complete` for a transaction file found in `temp/` and removes `.tmp` files, in
any order. `fetchUser` is split where it releases `userDoor`: look into the
map, read the file, look again and store. A record's content is its version
number; `Touched(v)` are the aliases whose symlinks version `v` rewrites, and a
symlink's content is the version that wrote it. Removing and making a symlink
is one step: `AddAlias` and `DropAlias` put the name into the cache first, so no
`Lookup` reads the symlink meanwhile; a crash may still find the entry absent.

### GroupDb

Names of aliases and groups share one table under `algrDoor`; each group has a lock
of its own. An operation is split wherever it has let go of a lock, or looks at a
table that the lock it holds does not guard:

* `DropAlias` marks the alias as `*defunct` in the cache and releases `algrDoor`
  (`userdb.go:344`) before it stores the user (`userdb.go:361`). In between, which is
  `DropStore`, everybody sees the drop and the disk does not have it; a restart there
  undoes it. No request calls `DropAlias` yet, nor `DropNode`; it is modelled since
  it is what makes aliases change at all.
* `GroupJoin`, `GroupAlias` and `GroupQuit` look an alias up under the group's lock,
  which does not guard `o.alias`, and store the group later (`Store`): the alias may
  be dropped in between.
* `GroupInvite` is six: lookup of the inviter's alias, of the invitee's, `fetchGroup`,
  and under the group's lock the check of a new name, the first members, or the next
  member.
* `AddAlias` is two, because it fetches its names from the disk before it takes its
  locks: `adding` are the names some call has fetched, and any such call may go on at
  any later time. From there it holds both locks to the end and is one step.

Objects are explicit, because `GroupInvite` puts an empty group into the table before
it knows that it may and deletes the entry again.

`aliasFile` and `groupFile` are the disk; `Restart` empties the cache, and
`Lookup` and `FetchGroup` bring single names back. They are steps of their own:
an operation that needs a name waits until it is there, which is what its own
call of `Lookup` or `fetchGroup` does. Both look into the map again before they
store what they read, and every change of a file is in the cache first, so one
step is enough for each. Calls that return an error change nothing else and are
not steps. `GroupQuit` follows the code, which bars an invitee that a member
drops (`userdb.go:602`; the comment in `userdb.go:575` says it is deleted, the test in
`userdb-test.go:418` expects it barred) and makes a barred member that quits by itself an
invited one (`userdb.go:594`).

`NameRegistry` knows owners of names, entries of groups, and which aliases are
`leaving`, that is, seen as dropped and not yet dropped: no locks, cache, objects or
calls. Its actions take aliases, begin and end a drop, found a group, and change one
entry, each guarded by what is stored at that moment; an alias that a user names may
have been dropped since it was looked up, and one that is leaving may be invited as
nobody's. A crash ends every `leaving`. `ImplementsRegistry` says that `aliasFile` and
`groupFile` change in no other way.

So what `MemberAlias` can promise is this: a user is listed by an alias that is or
was its own; the uid of dropped aliases is listed by one that was dropped, is being
dropped, or was being dropped when a restart undid it. The last leaves an entry of
nobody by an alias that somebody has, for good.

### Fanout

`call[m]` is the `_queueMsg` call that posts message `m`: its list of entries, the
users of the current entry still to open, the read locks it holds (counted, since a
user may be opened more than once) and the nodes found. Opening one user, linking
into one node, and each return are steps; the deferred `CloseNodes` are part of the
return. `edit[e]` is a `UserEdit` request: `AddNode` or `AddAlias` under the user's
write lock, then `copyDir`, whose listing and links are separate steps. The RWMutex
is Go's: a writer that waits keeps new readers out. A node has one link and a link
does one request at a time (`Busy`). A queue is the set of messages in its directory;
`RmLink` is an ack. A node is its queue's name, `qid`: the user and a number, which
`AddNode` gets by counting the user's nodes, in `uint8` arithmetic (`NumMod`). Who is
in a group stays fixed, and errors are the two a post can meet: a uid that does not
exist and a group that the sender is neither in nor invited to.

`Post` is the whole way to `_queueMsg`, for any list that `tHeader.check` lets
through, with or without the sender's own nodes. The messages that login and
`UserEdit` send to the user itself are posts of that kind.

### LinkProto

One connection, from `Accept` to `Close`. The client's `stream` is a sequence of
requests laid one after the other; a byte is its position, so that what a buffer
or a file holds is a set of positions and nothing is said of the bytes
themselves. `off` is the position of `aBuf[0]`; `aPos` and `aHeadEnd` are the
code's. `Read(n)` and `Receive(n)` take any number of bytes that fit, since a
read returns what happens to be there.

A request is its kind, the size of its header, and the `DataLen` and `NoteLen` it
states. `Check` is what `tHeader.check` says about data; "bad" is a header that does
not decode or lacks a field. Kinds that the link treats alike are one: `register` is
a login that also makes a user, `ack` a pulse, and `UserEdit`, `OhiEdit` and
`GroupEdit` are requests without data that end in an answer or the end of the link. A
login verifies the node, then calls `queueLink`, then posts to the user's other
nodes, all under `sRecvDoor`. `PostNotify` receives the notification, then the
message, and queues the message, then the notification. A `GroupInvite` that succeeds
queues the invitation, then the news for the members. What `_queueMsg` does is in
`Fanout`; here it works or fails. `ackAsap` and `unlink` are in `NodeQueue`.

`proc` is the process: `Suspend` waits for handlers (`sRecvDoor`) and keeps new
ones out, then `main` returns.

`IntMax` is the largest `int64`. `_runLink` adds the stated `DataLen`, which nothing
limits from above, to `aHeadEnd` (`qlib.go:373`). If the sum wraps (`EndWraps`) and a
byte of data is in the buffer, the slice at its end panics the process before the
request is looked at, and after the handler has returned likewise (`SlicePanic`). A
slice of `_checkPing` is out of range for a Ping or GroupInvite whose header leaves
less than 420 bytes of the buffer, as the comment in `qlib.go:666` says (`PingPanic`).
And `recvFile` panics if a read fails with other than EOF or an error of the network,
as for a TLS record that is cut short (`ReceivePanic`). `NoPanic` says that these are
all: no other slice is out of range, however little of a request has been read.

Seen while writing it, and stated by no run: `_runLink` writes the reason of a "quit"
only if `tmtprev` is set (`qlib.go:396`), so a client that skipped TmtpRev is never
told so.

## Runs

| Run | Instance | Shows |
|---|---|---|
| `queue_safety` | 2 messages, 2 links, `AckCap` 2, `OhiCap` 1, `WireMax` 2, 1 crash | `NoLoss`, `FilePresent`, `ScheduledOnce`, `ConnExclusive`, and that the queue implements `Mailbox` |
| `queue_live` | 2 messages, 1 link, peers that move | `Delivered`, `LogoutEnds` |
| `queue_login_race` | 2 links | `LoginEnds` fails for two first logins |
| `ohi_two` | 2 links | `HolderListed`, `RefcountExact` |
| `ohi_three` | 3 links | `HolderListed` fails |
| `ohi_order` | 2 links | `PresenceTold` fails |
| `record_safety` | 2 threads, 3 versions, 2 aliases, 2 crashes | `RecordWhole`, `NoPanic`, `AliasIndex`, `FetchCurrent`, `MissMeansUpdate`, and that the files implement `DurableRecord` |
| `group_safety` | 2 users, 3 names, 2 objects, 2 threads in group operations, 1 restart | `NameExclusive`, `GroupListed`, `GroupAlive`, `MemberAlias`, `JoinedReal`, and that the files implement `NameRegistry` |
| `fanout_safety` | 1 message with up to 2 entries, 2 users, 2 groups, 2 edits, 1 crash | `Fanned`, `NodeInherits`, `OnlyRecipients`, `NoneOnError`, `OwnQueue` |
| `link_safety` | any request first, after TmtpRev, or any two after a login; headers up to 3 bytes in a buffer of 6, integers up to 8 | `Aligned`, `ReadRoom`, `Intact`, `AckMeansAll`, `AnsweredOnce`, `NoPanic`, `ExitClean`, `SuspendEnds` |
| `link_ack` | the same | `ErrorMeansNotSent` fails |
| `fanout_lock` | 1 message with 1 entry, 2 users, 2 edits | `PostAnswered` fails |

Every run that passes also checks its module's `TypeOK`, except the one for
liveness. Deadlock is checked in the queue, presence and record runs (in
`NodeQueue` a login or a notice is always possible; in `Ohi` the contact can
always log in; in `UserRecord` a thread can always fetch and read). `GroupDb`
runs do without: when every name is taken nothing may be left to do, and that
is the program's right. Nor do those of `Fanout`: requests are used up, and
posters and writers may block each other (finding 5). Nor those of `LinkProto`: a
connection ends, and so does the process.

### Why the bounds are enough

For the safety invariants outside `Ohi` and the refinements the proofs below know no
bound. The bounds
still matter to the runs: an invariant is only broken by a mutant, and a liveness
property or a refuted claim only decided, where the interesting case happens.

* `NodeQueue`: two messages give an ack for another message, a sort order and a
  poster that runs while another message is current; two links give the races
  of `queueLink` and a logout that overlaps the next login. Small capacities
  make the channels full. `queue_live` has one link, since two first logins at once meet
  the defect of `queue_login_race`, after which nothing is delivered.
* `Ohi`: a link is used once, so three links are the smallest instance in which
  a set is made anew while an old `unref` is on its way.
* `UserRecord`: with three versions one adds two aliases, one drops one of them
  and one touches none; the second crash hits the recovery from the first.
* `GroupDb`: three names are what a group with two members needs. Two objects let
  one call hold an object that another deleted while the second object is listed in
  its place or under another name; an entry is only deleted if its name is an alias or
  unprintable for good, so a third generation of a name differs from the second in
  nothing. Two threads give a call whose alias is dropped, and one whose object is
  deleted, by a drop and another call in between. One restart is enough for a cache
  that knows any part of what the disk has, and for a drop that is undone. All names
  are printable here; `BadName` is general in the proofs.
* `Fanout`: the properties speak of one message at a time, and messages meet
  only in the read locks, which they share; so one message is enough. Two
  entries give every pair of user, group, repetition and error. Two edits give
  a new node and a writer from the other link, and `UserNodeMax` 2 (100 in the
  code) a user that is full. `NumMod` 3 (256) keeps the code's relation, more
  numbers than nodes a user may have.
* `LinkProto`: a length field of 2, headers of 1 to 3 bytes and a buffer of 6
  keep what matters of the code's sizes (the largest header fits with a byte to
  spare, and a read may bring parts of two requests), and `PingMax` 2 lies between pings
  that fit, do not fit and are refused. Two requests after a login give what is
  left in the buffer for the next one; nothing but the buffer and the login state
  is carried further. `IntMax` 8 is above the sizes of the other requests, and the
  three of `Huge` exceed it by the least amounts at each kind of data.

### Fairness

Only goroutines that have begun something get fairness. Go's scheduler runs
every runnable goroutine; channels and RWMutexes serve waiters in turn; a select
chooses among its ready cases at random. Hence weak fairness where nobody else
can disable the step, and strong fairness where another goroutine may take the
connection or another case of the select may be chosen first. `AckTimeout` is
strongly fair because the timer is set for each sending. A connection that has
failed is noticed by `kPulseTimeout`, so `Hangup` of a broken one is weakly
fair. Clients ack what arrives (`ClientAck`); that is assumed of them. Nothing
obliges anyone to log in, post, log out, crash or break a connection. In
`Fanout` the steps of a poster and of an editor are strongly fair, since a free
RWMutex goes to those who wait for it in turn.

`Delivered` assumes a client that stays connected from some time on and does not
repeat old acks for ever: repeated acks can keep `queue.ack` full just when the
right one arrives. `LogoutEnds` needs one more assumption, `PeerMoves`: a client
that no longer reads goes away some day and TCP reports it. The code has no
write deadline, so without it the property fails: `unlink` waits for the
connection that `_runQueue` holds in `sendFile`, and a client that stays up but
stops reading keeps its node.

In `LinkProto` a handler's steps are weakly fair where it waits for nobody
(`HandlerStep`), and so is `ReceiveFail`:
once a link is logged in each read has a deadline (`kPulseTimeout`), so a handler
that waits for data gets some or fails. `Receive` has no fairness. Where a handler
waits for the rest of the server (`SharedStep`: `queueLink`, the posts, `ackAsap`) the
code guarantees nothing, and `SuspendEnds` is conditional: `Served`, part of the
property, says that nobody keeps it waiting for ever. It excludes three things that
would: a login that hangs in `queueLink` (finding 1), posts that wait for each other
(finding 5), and a client that stays up but stops reading, so that `ackAsap` waits for
the connection that `_runQueue` holds in `sendFile`, or blocks in its own write. What
`SuspendEnds` then shows is that waiting for a client's data does not keep the process
up; it bounds nothing, since a client that sends a byte at a time does until its
message is complete.

## Findings

1. **Two first logins at once** (`queue_login_race`, `qlib.go:967`, `1003`). The
   second link sees the queue before its channels exist, is told "login ok" and
   blocks for ever with `hasConn` set.
2. **A late `unref` deletes a newer set** (`ohi_three`, `qlib.go:893-896`); its
   holder's own `unref` then dereferences nil.
3. **Presence notices out of order** (`ohi_order`, `qlib.go:545-547`).
4. **An error for a message that was sent** (`link_ack`, `qlib.go:742`). `PostNotify`
   and `GroupInvite` queue two messages and answer once. If the second fails, the
   answer is an error without a `msgid`, though the first is on its way.
   `Protocol.md:58` calls that error the "reason the message was not delivered".
5. **A post that waits for itself** (`fanout_lock`, `userdb.go:398`,
   `qlib.go:809`). A message that lists its sender's uid (login and `UserEdit`
   post such ones) takes that user's read lock a second time while it holds it.
   If `AddNode` or `AddAlias` of another link of the user waits in between, both
   block for ever, and so does every later message to the user.

An existing user may also be reported as not found for a moment: `fetchUser` may read
the file between `os.Remove` and `os.Link` of an update and does not look at the map
again (`userdb.go:722`). That is the action `NotFound` of `UserRecord`;
`MissMeansUpdate` shows that it passes with the update, and `FetchCurrent` that
nothing of it is kept.

## Proofs

Each `...Proofs` module finds an inductive invariant `IndInv` of its component,
proves `Spec => []IndInv` (theorem `Invariance`) with one lemma or case per action,
and draws the properties from it. TLC checked each `IndInv` on the instance of the
component's safety run before it was proved.

| Module | Theorems (the property each proves) |
|---|---|
| `NodeQueueProofs` | `TypeCorrect` (`TypeOK`), `MessageNotLost` (`NoLoss`), `MessageScheduled` (`ScheduledOnce`), `SendFindsFile` (`FilePresent`), `ConnectionOwned` (`ConnExclusive`), `Refinement` (`ImplementsMailbox`) |
| `UserRecordProofs` | `TypeCorrect` (`TypeOK`), `NeverTorn` (`RecordWhole`), `NeverPanics` (`NoPanic`), `AliasesIndexed` (`AliasIndex`), `FetchedCurrent` (`FetchCurrent`), `MissesAreUpdates` (`MissMeansUpdate`), `Refinement` (`ImplementsRecord`) |
| `GroupDbProofs` | `TypeCorrect` (`TypeOK`), `NamesExclusive` (`NameExclusive`), `GroupsListed` (`GroupListed`), `GroupsAlive` (`GroupAlive`), `MembersNamed` (`MemberAlias`), `JoinedAreReal` (`JoinedReal`), `Refinement` (`ImplementsRegistry`) |
| `FanoutProofs` | `TypeCorrect` (`TypeOK`), `PostsFanned` (`Fanned`), `NewNodesInherit` (`NodeInherits`), `RecipientsOnly` (`OnlyRecipients`), `ErrorsReachNobody` (`NoneOnError`), `QueuesAreOwn` (`OwnQueue`) |
| `OhiProofs` | `SetsSound` (conditional; see below) |
| `LinkProtoProofs` | `TypeCorrect` (`TypeOK`), `StreamAligned` (`Aligned`), `RoomToRead` (`ReadRoom`), `DataIntact` (`Intact`), `AcksMeanAll` (`AckMeansAll`), `EachAnswered` (`AnsweredOnce`), `SlicesInBuffer` (`NoPanic`), `ExitsClean` (`ExitClean`) |

### The queue of a node

For every set of messages `Msg`, every set `Link`, every positive capacity and any
number of crashes. Assumptions: messages are natural numbers (`MsgAssumption`),
`None` is neither a message nor a link (`NoneAssumption`), capacities are positive
(`BoundAssumption`).

`IndInv` is the conjunction of `TypeOK` and four parts, each needed by the next:

* `LockInv`: readers and the writer of the node's lock exclude each other, the
  queue is half made exactly while the writer holds the lock, and only then or
  later does anybody get past `queueLink`. Without it a poster could stand
  between `putLink` and its test of `aNd.queue` while the directory is listed.
* `ConnInv`: `ConnExclusive`, and what ties it to the program counters:
  `_runQueue` holds a connection exactly where its code does, and `hasConn` is
  set exactly while a link is attached. `ConnExclusive` alone is not inductive:
  it does not say that a second link cannot pass the compare-and-swap.
* `StoreInv`: acks in the channel are from the client, messages on the wire are
  stored or acked, and a message past `_syncDirs` is acked or durable. `NoLoss`
  needs the durability, because `Crash` may drop anything in `volat`.
* `SchedInv`: `ScheduledOnce` for the queue once it is made, and `_runQueue` has
  a current message exactly where its code does. `FilePresent` follows: the
  current message is scheduled once, so it is in the directory.

`MailboxStep` shows under `IndInv` that every step is a step of `Mailbox` or leaves
`dir`, `Posted` and `acked` alone: `PutLink` is `Put`, `PostUnlock` is `Confirm`,
`ClientAck` is `Ack` or nothing, `RecvAck` is `Remove` or nothing, `Crash` is
`Crash`.

### The record of a user

For any threads, aliases, versions, crashes, and any choice of the aliases a version
touches. Assumptions: an alias is none of the record's own files
(`AliasAssumption`), `None` and `Torn` are no versions (`NoneAssumption`).

The record is at any time in one of two conditions. It is *settled* when the file
`user/<uid>` is durable and says what the version is; a transaction file that a crash
could bring back holds that version again or, while `putRecord` has linked it and not
synced, the next one (`SettledInv`). Otherwise it is *decided*: the transaction file
is durable and says what the version is, whatever the other files hold
(`DecidedInv`). `SyncTemp` decides, `RemoveTemp` settles, and a crash may decide by
keeping an unsynced entry; recovery starts from either. The other parts say what
files show and may show (`FileInv`), where `putRecord` and `complete` may stand
(`PutInv`), which symlinks are already those of the version (`AliasInv`), and that
what a thread read is still what the file holds until the user is cached
(`FetchInv`). `MissMeansUpdate` adds that a decided version of a running server is
newer than any confirmed one, and that versions only grow, which is the refinement.
`NoPanic` alone is not inductive: that `os.Link` finds no file depends on what a
crash may have kept. `RecordStep` maps every step to `DurableRecord`: an update
commits with `SyncTemp`, or with the crash that keeps its transaction file.

### Names and groups

For any users, names, objects, concurrent calls and restarts. Assumptions: `None` is
no name, user or object, the defunct uid is no user (`NameAssumption`,
`UidAssumption`, `ObjAssumption`).

`DropInv` says that an alias that is being dropped is its user's on the disk and
nobody's in the cache. `CacheInv` says that the cache contradicts the files in nothing
else, that an object is listed under one name at most, and that one that is not listed
is empty. `NameInv` is exclusion of names on the disk, and that an `AddAlias` between
its fetch and its lock sees every group the disk has; this is what a check against a
cache that a restart emptied needs. `CallInv` follows the calls. The object of a
`GroupInvite` is listed under its name or its name is taken or bad for good, so that a
call whose object another one deleted cannot fill it; and while it fills an object the
name is held. For a call that is about to store, what it checked under the group's lock
still holds (`Allowed`), but for its alias, which may have been dropped. `SoundInv` is
about member tables: entries have an alias that fits their user, and somebody is joined
or may join. `GroupListed` alone is not inductive: nothing in it keeps two calls from
holding the same deleted object.

`RegistryStep` maps every step to `NameRegistry`. The guards of the code look at the
cache, those of the registry at the files: `CacheInv` carries the answer over for a
name that is cached, and the fetch of `AddAlias` and of `GroupInvite` for one that is
not. `AddAlias` is `Take`, `DropAlias` is `Leave`, `DropStore` is `Drop`, `InviteFill`
is `Found`, `InviteMember` is `Invite` or nothing, `Store` is `Join`, `Quit` or `Bar`,
`Restart` is `Crash`, and all others change nothing that the registry has.
`Printable`, that `AddAlias` does not go on with a name it refused, is an invariant
of its own here.

### Fan-out

For any users, groups with any members, messages, requests, crashes, and lists of any
length. Assumptions: members are users (`MemberAssumption`), `None` is no user and no
node (`NoneAssumption`), and a user may have fewer nodes than there are numbers
(`NumAssumption`; 100 and 256 in the code).

`NumInv` says that a user's nodes are numbered from 1 without gaps, so the count that
`AddNode` takes as next number is free. `MsgInv` follows one `_queueMsg`: nothing is
linked before the whole list is resolved (`PostFor`, from which `NoneOnError`
follows, of one call: a `PostNotify` makes two, see finding 4); all nodes of a user
whose lock is held have the message or are to be given it, and nobody else's
(`HeldFor`, which is why `AddNode` must wait for that lock); every entry taken from
the list is open (`ListFor`); a finished call has reached all its recipients
(`DoneFor`). `CopyInv` says that what `copyDir` has listed and not yet linked is all
that the new node misses; with `HeldFor` it gives `NodeInherits`: a message posted
during the copy already counts the new node among its recipients.

`RecipientsOnly` has an invariant on top of `IndInv`, message by message: who sends a
message is a usable node (`SentFrom`), the nodes and users that `_queueMsg` has found
so far belong to recipients and include the sending node only if the list names its
user (`OnlyFor`), and queues have it only where they may (`Only`). The step that
needs `IndInv` is `copyDir`'s: a new node is of the same user as its parent, so what
was for the parent is for it too.

### Presence

The counting of `tOhiSet` fails for three links (finding 2), so no theorem can state
its properties for every instance. `SetsSound` says exactly what is wrong: for any
number of links, as long as no link is about to delete the entry of another set than
its own (`NoLateUnref`, a condition on the behaviour that `unref` could ensure by
comparing the entry with its own set), the listed set is that of its holders, its
count is their number, and `unref` finds no nil pointer. `CountInv` is stronger than
`RefcountExact` in that the set of holders is finite, which its cardinality needs.
That two links are never late is checked by TLC only: a user may have many nodes
online, and a theorem for two would say little of the code.

### Link protocol

For every set of streams, every size of length field, header, buffer and ping limit,
and however the reads cut a stream. Assumptions: the sizes are positive where the
code's are and the shortest header is shorter than the longest (`SizeAssumption`); a
stream is requests one after the other, with headers as long as four hex digits can
say and data lengths that an `int64` can hold (`StreamAssumption`); the largest header
is one of those too.

`CutInv` is the heart of it: `aBuf[0]` is the first byte of the next request, and
`aHeadEnd`, once set, is the end of that request's header. `DataInv` says that the
connection was read beyond the buffer only for the data of the request in hand, and
that each file holds what was read of its part; `Aligned` alone does not say where
the buffer stands while a handler reads from the connection itself. `OpInv` ties the
places in `_handleMsg` to requests, `HistInv` what was queued and answered to those
places, and `ProcInv` the end of the process. `AnsweredOnce` also says that no
request is left without its answer, which `AnswerInv` adds to `IndInv`: a handler is
done with a request only after `ackAsap`, or if the request has no answer.

That no request of a stream begins before an earlier one has ended (`InTurn`) is an
induction over the stream. The library's induction theorems cannot be instantiated
here, so it is argued by the least counterexample (`Least`, from the library's
`WFMin`).

### What proving changed

`CASE`s with overlapping guards (`Store` and `Committed` of `UserRecord`, `Edit` of
`Ohi`), of which TLC takes the first case and the logic any, were made exclusive.
`SizeAssumption` asks for a length field of at least one byte and `NoneAssumption` of
`Fanout` that `None` is no node; the first is needed for requests to begin at
different places, the second for a parent or a new node to be told from its absence.

### Only model-checked

* The liveness properties `Delivered`, `LogoutEnds` and `SuspendEnds`: fairness is
  outside this prover.
* `HolderListed`, `RefcountExact` and `TypeOK` of `Ohi`, with two links.
* What the five runs that expect a violation refute.

## Not modelled

* OpenID (`qlib/openid.go`): decoding, HTTP and RSA by libraries; its own state is a
  list of keys read once at startup.
* Configuration, NTP and TLS; the pauses of `startServer` after temporary errors.
* Message content, JSON, checksums and logging; the test clients and unit tests.
* `makeId`: ids count on from the NTP time at startup. All modules take ids as
  unique, which holds if that time never goes back behind the ids given out.
* `DropNode`, but for the update of the record: no request calls it. With it a user
  could have more than 255 nodes in its record and numbers would wrap
  (`userdb.go:215`).
* Within the modelled parts: errors of the file system other than a missing file (the
  code panics), a full disk, `zeroFile` and `rmDir` (no callers), and the closing of
  `queue.in` (nobody closes it).

## Plan

The modules of the plan, the proofs of safety and the three refinements are done.
What would come next:

1. An abstract specification of `Fanout`, a post that reaches all its recipients or
   nobody, and `LinkProto`'s answers tied to it.
2. In `OhiProofs`, `NoLateUnref` as an invariant, once `unref` deletes only its own
   set: `SetsSound` then holds without a condition.
3. Who is in a group joined to `Fanout`'s posts: an entry of nobody keeps no
   message from the group (`JoinedReal`), but members come and go between
   `GroupGetUsers` and `OpenNodes`.
