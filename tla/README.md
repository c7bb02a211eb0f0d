# ThisCrow, specified

TLA+ models of the ThisCrow chat server, the TLC runs that check them, and
proofs of the most general results. The server is a Rust program: actix-web
HTTP handlers on worker threads, one thread of its own for all websocket tasks
(`src/main.rs`, `src/route/ws.rs`), PostgreSQL, a RocksDB message store, and a
cache of users and groups in concurrent maps (`src/state/app.rs`).

Paths below are relative to the crate: `src/lockmap.rs` is the file the project
map lists as `src/src/lockmap.rs`.

## 1. Inventory

| Component | State | Operations | What must hold |
|---|---|---|---|
| Keyed locks, `lockmap.rs` | map from key to `Arc<RwLock>`, behind a mutex | `read`, `write`, guard drop with `cleanup`; a waiting future can be dropped | one lock per key whatever entries come and go; no entry left behind; whoever waits is served |
| Id generator, `message/snowflake.rs` | one atomic counter, time and sequence packed | `generate` by any thread; clock; restart | ids unique and increasing; never from a time the clock has not shown |
| Group membership, `event.rs`, `route/invitation.rs`, `route/group.rs`, `db/group.rs` | rows; cached `Group`; each session's list of groups; subscribers | CreateGroup, Subscribe (loads a cold group), Unsubscribe (evicts), KickUser, BanUser, LeaveGroup, DeleteGroup, join, unban, login | the three agree; only members are subscribed; bans hold; a group has its owner |
| Sessions and connections, `route/ws.rs`, `state/user.rs` | `AppState.users`; connections with writer queues; event channel and its task | initialize, add connection, read/write loop with its timeout, disconnect | a session exists while it has a connection; a client sees everything, once and in order; no queue waits for ever |
| Process life cycle, `main.rs` | a shutdown token, a tracker of tasks, one thread for all websocket tasks | shutdown, drain with a timeout | the drain ends, and what was accepted has been handled |
| Voice channels, `event.rs`, `state/group.rs` | users of each channel; voice of each session | JoinVoice, ExitVoice, MoveToVoice, Mute, Deafen, DeleteChannel, removals, disconnects | channel and session agree; one channel at a time |
| Watch parties, `event.rs`, `state/group.rs` | host, users, position, per voice channel | JoinParty, LeaveParty, Watch, JumpTo, removals | members of a party are in its channel; its host is in it |
| Direct calls, `event.rs`, `route/ws.rs` | voice of both sessions; `voice_direct`; a Call message | JoinVoice, ExitVoice, disconnects | a call has an end exactly when nobody is in it |
| Message store, `db/message.rs`, `db/reaction.rs`, `route/message.rs` | four RocksDB column families; rows of reactions | write, overwrite, delete, clear a channel, hide a conversation, page, react | index and messages agree; nothing is lost, revived, skipped or repeated |
| Dispatch, `message/dispatch.rs` | none of its own | decode, acknowledge, store, fan out | the acknowledged message is stored; nobody blocks the websocket thread |
| Roles, permissions, overrides, `state/group.rs`, `event.rs`, `db/group.rs` | rows; cached `Group`; what clients were told | events on roles, holders, overrides; load, evict, kick, join | the cache permits what the rows permit; positions distinct; clients know |
| Channel and group positions | rows; cached channels | create, move, delete | dense, distinct, the same in both |
| Friends, blocks, profile, `db/user.rs`, `event.rs` | rows; what each session caches of them | request, accept, remove, update; block | both sessions say what the rows say; nobody becomes a friend unasked |
| Presence, authentication, mail, info routes, uploads, rate limits, encoding | little or none | single assignments, queries, library calls | nothing that relates two pieces of state |

How they interact. A websocket frame is either a message, dispatched at once
(`dispatch::handle_bytes`), or an event, queued on its session's channel and
handled by the session's event task (`handle_event`). An event that changes a
group checks the sender's permissions in the cache, takes the group's keyed
lock (`state.group_locks.write`), changes the database, and then, if the group
is cached, the cache; then it notifies the group's subscribers. HTTP handlers
do parts of the same without the websocket thread, and `join_invitation`
without the lock. A subscription loads the group when it is cold, under the
lock; the last unsubscription evicts it.

What is hard here: the cache can be evicted and loaded between any two steps;
HTTP handlers run on other threads and can be dropped at any await; checks are
made before the lock is asked for; tasks outlive sessions; several puts make
one change of the store, with no transaction; transactions read before they write;
state is told two or three times; a client may stall at any point of a send; a
map's guard held over an await stops the thread that would release it.
`hazards` in `PROJECT.json` lists where each bites, by line.

## 2. Modules

| Module | Models | Extends / refines |
|---|---|---|
| `KeyedLock` | what callers of the locks rely on: one reader/writer lock per key | |
| `LockMap` | `lockmap.rs` | refines `KeyedLock` through `claimBar` |
| `IdSource` | what callers of the generator rely on: an ever larger id | |
| `Snowflake` | `snowflake.rs` | refines `IdSource` |
| `PrimitivesProofs` | proofs about the locks and the ids | extends `LockMap` and `Snowflake`, whose names are apart for it (`GenInit`, `GenNext`, `GenSpec`) |
| `Membership` | members, bans, subscriptions: database, cache, sessions | the keyed lock is one variable, as `KeyedLock` permits |
| `Voice` | voice channels, their watch parties, sessions | " |
| `DirectCall` | calls between two users | ids as `IdSource` gives them |
| `MessageStore` | the store, its indices and reactions | " |
| `Session` | connections, queues, event tasks, shutdown | |
| `Accounts` | friends, requests, profile: rows and sessions | |
| `Permissions` | roles, holders, overrides | the keyed lock as one variable |
| `GroupSettings` | `Permissions` together with the order of channels, under the one lock | extends and refines `Permissions` |
| `MembershipProofs`, `VoiceProofs`, `DirectCallProofs`, `MessageStoreProofs`, `SessionProofs`, `AccountsProofs` | proofs | each extends the module it is named for |
| `GroupSettingsProofs` | proofs about `Permissions`, and then about `GroupSettings` | extends `GroupSettings` |
| `MC*` | instances for TLC, with their symmetry | |

**LockMap.** `pc` follows a task through `read`/`write`: `waiting` once it has
cloned the `Arc` under the mutex (`Request`), `claimed` for a writer that has set
the async lock's writer bit, `holding` while it owns the `KeyGuard`, and
`unlocked`, `cleaning` inside `Drop`, which releases the lock, drops the `Arc`
and calls `cleanup()` in three separate steps. `arc[t]` is the clone a task
owns, so the strong count is a set cardinality. Dropping a waiting future is
`Cancel`: it drops the clone but never runs `cleanup`, because there is no
guard yet. The RwLock itself is external and modelled from its documented
behaviour: readers enter unless a writer has claimed.

**Snowflake.** The counter is unpacked into time and sequence, ids are the packed
numbers. Load, decision, compare-and-swap and its (spurious) failure are
separate steps; `ClockMoves` moves the clock either way, though never behind the
last restart; `Restart` forgets the counter. *Assumption*: a process comes back
in a later millisecond than that of its last id, which nothing in the code
checks, and the clock is not set back behind that restart.

**Membership.** `db`, `cache`, `session` are the three accounts of who belongs.
Each handler is a slot with a `pc`; a step ends where the code awaits, and an
HTTP slot may stop there for good (dropped future, failed statement).
`init_group` reads the group, its members and its bans in separate queries. CreateGroup is four statements without
a transaction, each of which may fail; the group of the model is created by it,
or exists from the start. DeleteGroup takes no lock, so that a load may bring
back a group without rows.
`disturbed` remembers users for whom unlocked work overlapped locked work: the
properties say exactly what holds for all others, and the two violation runs
show what goes wrong for them.

**Voice.** Voice events have no await between check and effect, so an event is one
action. Removals and DeleteChannel await the database under the lock and are
two. The load of the group is one step here: its races are `Membership`'s. Voice in
another group or a direct call is `Elsewhere`; `SpeakElsewhere` begins and ends it
without asking where the voice is, as a direct JoinVoice does when it comes back
from its write, and an ExitVoice of another group. A party is modelled with its host and
users; every way out of a channel calls `remove_user` of the party, but ExitVoice.
`strays` remembers the users a listed hazard has left in disagreement, and
forgets them when they agree again.

**DirectCall.** Handlers interleave where they await the store: a caller between
generating the call's id and having written it (`writing`), and a handler that
is writing the end (`ending`). A failing write may have put the message and not
its index entries: the call is then open and nobody is told of it (`orphans`).
A user may call themselves. Deleting or editing the Call message like any
other is not modelled here.

**MessageStore.** A handler is the sequence of reads and puts the code makes, and
`Stop` may end it between any two: a store error, a dropped future, a crash. One
channel and one pair of users stand for all; conversations do not share keys.
`torn` remembers the messages that two racing handlers, or half of one, have
touched. A page may be asked for with any length from 0 on, and its length is
looked at after a message has been added, as in the code. Listings iterate over the index as it was at the start, as a RocksDB
iterator does, and get each message when they come to it.

**Session.** One user's session with the tasks of its connections. `pc` follows
`handle_connection`: `top` of the loop, `select`, `feed` (a message being sent,
with five seconds to do it), `drain` and `drainFeed` (the inner `try_recv` loop),
`flush`, `pong`, `close`, which have no timeout, `store` (the write of a message)
and `disconnect`. A socket and its buffer are a count of messages, `pipe`, that
takes `Room + Buffer` of them from a client that does not read. The event channel
is a count, `backlog`. The tasks share one thread: when one of them, in `store`,
holds the guard of a group, and another calls `get_mut` on it, the thread blocks,
and with it the task that would let go (`Jam`). That covers the drain, which
`main` runs on the same thread. Sessions of other users are alike, and nothing
passes from one to another here but notifications.

**Accounts.** `rows` are committed rows; a handler carries what its transaction
will delete and insert (`dels`, `ins`) until it commits, and waits for another
that has written the same row, as READ COMMITTED does. Then it changes the
sessions of both users, one after the other. `user_locks` are taken as the code
does: by each friend event for the user it is sent to. A login reads
the rows query by query (`login`), in any order, and ends without a session if
one of them fails; an event task that outlives its session (`late`) may act on
the next one. `torn` remembers the users for whom events crossed, or a request
was declined, or whose commit took effect without an answer; who agrees again when
nothing is being handled leaves it.

**Permissions.** `db` and `group` have one shape, `SettingsAt`, so that the operators
of permission computation (`GroupPermissions`, `ChannelPermissions`) and the
effect of an event (`After`) are written once; `DbAfter` and `CacheAfter` state
where SQL (cascades) and cache (`remove_member`, `assign_role`) differ. Positions
are an i16 in the one and a usize in the other: `Cast` is `as i16`, by which
`Stored` cuts what an event asks for, and `Widened` is `as usize`, by which a load
(`Loaded`) reads it. An event is two steps under the lock: `Event`, the database,
and `Apply`, the cache and what clients are told. An UpdateRole changes
permissions or position: one that changes both does the two at once. One channel
stands for all, since an override concerns only its channel.

Roles are found by their id alone, so other groups reach into this one.
`ForeignMove` is an UpdateRole of this group with a role of another: this group's
rows make way and its cache does not. `OthersMove` and `OthersEvent` are events of
another group with a role of this one: only its row changes, under another lock.

What a client knows is kept by connection. `notify_permissions` tells one
subscription of each user (`Found`), whichever the set yields first, be it one whose
connection has ended (`Disconnect`): `Missed` are the others.

**GroupSettings.** Adds the positions of channels: `order` in the database and
`cachedOrder` in the cache. `Edit` and `ApplyEdit` are a channel event's two
halves, as `Event` and `Apply` are of one on roles; a step of `Permissions` that
takes the lock waits for them, and loads and evicts the channels with the rest.
`Shifted`, `Added` and `Closed` are the three SQL statements; the cache has the
first two and leaves the gap of a deleted channel. `ForeignChannel` and
`OthersChannel` are the two ways an UpdateChannel reaches across groups.
DeleteChannel looks for the channel in the cached group first, so it does not.

## 3. Runs

| Run | Instance | Distinct states | Shows |
|---|---|---|---|
| `lockmap` | 3 tasks, one cancellable; 2 keys; 2 lock objects | 19 thousand | no orphan entries, refinement of `KeyedLock` (which is exclusion by key), every request served (under fairness) |
| `snowflake` | 3 threads, 2 ids to a millisecond, 2 nodes, 3 milliseconds | 0.9 million | increasing ids (refinement of `IdSource`), none from the future |
| `membership` | owner and a mover; four scopes: all removals with a join and an unban; two connections to a session; two HTTP handlers at once; the creation of the group | 1.3 million | cache and rows agree on the group, its members and bans; subscribers are members; an invitation admits no more than its concurrent readers; the owner belongs |
| `membership_banned` | subscribe, ban, join | violation | a ban between the ban check and the insertion of a join is undone |
| `membership_login` | subscribe, kick | violation | a user kicked during `initialize_session` can subscribe |
| `voice` | owner and a member; 2 channels, the owner staying connected; or 1 with its watch party | 0.54 million | channels and sessions agree except through the listed hazards; parties have hosts; only ExitVoice leaves a ghost in a party |
| `voice_move` | the same, 2 channels | violation | JoinVoice, then MoveToVoice: in two channels |
| `direct_call` | 2 users, 3 handlers, 2 calls | 0.34 million | a call's message says whether somebody is in it |
| `messages` | 3 handlers on 1 message, 2 texts, both kinds of conversation; or 2 on 3 messages with pages of 0, 1 and 2 | 1.3 million | index, lists, reactions and messages agree; no page skips or repeats |
| `permissions` | a member with 2 connections, 2 roles, ADMINISTRATOR and one more bit, 1 override, 3 channels, positions to 4 where 3 is the highest an i16 holds; five scopes: roles with joins and kicks; what another group does to them; two connections; positions of roles; channels | 0.31 million | the cache permits what the rows do; roles, channels and their positions agree; no two share one; clients know |
| `session` | 1 to 3 connections, up to 2 notifications, an event, messages to a group, clients that stall or not | 0.19 million | connections are served; order; no queue waits for ever; the drain ends, complete |
| `accounts` | 2 users, 2 handlers; friendship, or profiles | 1.4 million | sessions say what the rows do; friendship needs a request |

Deadlock is checked for `lockmap`, where a task can always ask again. The other
instances stop when a bound is used up (ids, calls, invitation uses, the clock),
so it is off there.

**Bounds.** Every bound is a constant. `MaxConn` (connection ids), `MaxUses`
(invitation uses), `MaxCalls`, `MaxId` (messages sent), `MaxClock`, `MaxSeq`,
`MaxLen` (page length), `MaxSmall` and `Usize`
(the width of an i16 and a usize: 3 and 8 stand for 32767 and 2^64), `MaxPos` and `MaxPosition` (positions a client asks for),
`MaxOver` (overrides at a time), `Grants` (what roles are given), `Tasks`,
`WsSlots`, `HttpSlots` (handlers in progress), `QueueMax` (500 in the code),
`Room`, `Buffer`, `Movers`. A module with a constant `Scopes` chooses one at the
start, in its variable `scope`, and a behaviour keeps to the operations, users
and numbers it gives: one run covers several instances, none of them with
everything at once. They are enough for what they are used for: every hazard listed
needs at most two handlers and a third to observe; a sequence of two ids runs out
after one step; two roles cover both directions of a move, one that crosses no
other, and (by proof) any more; position 4 is the first an i16 cuts, to -4,
which a load reads back as a usize; a page of length two over three messages ends
before, at and after the last entry, and one of length 0 has one; two calls let an
old one and a current one coexist, or two that begin at once; three channels have a
gap at the start, in the middle or at the end; a queue that may hold one message is exceeded by two. Each property of a passing run is
also violated by a mutated definition, named in `PROJECT.json`, under the same
configuration, so none holds for want of states.

**Fairness.** `LockMap`'s `FairSpec` assumes weak
fairness of the three steps of `Drop`, since a task that holds a key finishes its
section and drops its guard, and strong fairness of entering, because the async
RwLock is eventually fair: a waiter that is able to enter infinitely often
enters. Asking for a key and cancelling are not fair. `RequestServed` also
excuses a cancelled task. No holder waits for a second key in the code the
locks guard, which is what makes the first assumption reasonable.

`Session`'s `FairSpec` assumes weak fairness of what a task can do by itself
(`SelfStep`), as the executor polls every task that has been woken; of a client
that is reading and has something to read; of the end of a login, of handling
events, of the exit and of the drain's timer. `Outgoing` is strongly fair,
because `tokio::select!` polls its branches in random order: frames of the
client do not for ever keep the loop from its queue. Nobody need log in, send,
stall, resume or go away, and a task at a flush, a pong or a close whose client
stalls may stay there. `ShutdownDrains` is checked for clients that do not stall
(`calm`), with `DrainTimeout` excluded there: it says that the timeout is not
what ends the drain.

**What the history variables mean.** `disturbed`, `strays`, `ghosts`, `orphans`,
`torn`, `misled`, `leftover`, `astray`, `skewed`, `doubled`, `abandoned`, `missed`,
`late`, `gapped`, `drifted` and `far` record that a named hazard has happened to a
user, client, call, message, role, key, connection, session or order. In the
modules they guard nothing. (`MCGroupSettings` chooses a scope in `about` and
lets what crosses groups happen once in a behaviour, which bounds the run.) They are kept narrow: `misled` holds a
client only until it is told the truth again, `leftover` a user only until the rows
agree, `astray`, `skewed` and `drifted` last until the next load, which begins anew
unless it finds negative positions; `doubled` and `far`, about the rows, stay. The properties
exempt those only, and so say that the agreement is broken by these hazards and
by no other order of steps. A group that a load brings back after its deletion
disturbs every user: nothing is said of it after that.

## 4. Findings

1. `membership_banned`: `join_invitation` asks for the ban and inserts the member
   in two statements without the group lock (`src/route/invitation.rs:91-106`). A
   ban that commits between them leaves a banned member, against the handler's
   "You are banned from this group".
2. `membership_login`: `initialize_session` reads the user's groups and inserts
   the session later (`src/route/ws.rs:158-222`). A kick in between finds no
   session to correct; Subscribe trusts the session and admits the user, against
   its "User is not a member of this group".
3. `voice_move`: MoveToVoice (`src/message/event.rs:1334`) takes the user from no
   channel, against JoinVoice's "User is already in a voice channel".

Met while modelling and kept as exemptions or notes: DeleteRole looks for the
holders of a role after it has removed them, so they are not told
(`event.rs:1736`); a reaction writes back the message it read before it awaited
the database, undoing an edit in between (`db/reaction.rs:73`); ExitVoice and a
closing connection clear the session's voice whatever it names
(`event.rs:1316`, `ws.rs:436`); overrides of a removed member stay in the
database and return with the next load (`state/group.rs:589`). Further:

* `dispatch_message` holds a shared guard of the group's shard across the await
  of the store (`message/dispatch.rs:102-134`). An event or a disconnect that
  then calls `get_mut` blocks the one websocket thread, which is also `main`'s:
  the server stands still, and neither the drain nor its ten-second timeout ends
  it. `ShutdownDrains` and `QueuesEmpty` exempt exactly this (`stage = "jammed"`).
* The five-second timeout covers `feed` only. A client that stalls while its task
  flushes, answers a ping or closes holds the task, and the session, for as long
  as it likes (`route/ws.rs`); the drain then ends by its timeout.
* CreateGroup can leave a group without its owner (`event.rs:503`).
* Concurrent joins can exceed `max_uses`, by one less than their number
  (`invitation.rs:86`); `UsesWithinReason` says by no more.
* DeleteGroup takes no lock, and a load can cache the deleted group
  (`event.rs:959`).
* ExitVoice leaves its user in the watch party (`event.rs:1306`).
* FriendRemove, by which a request is declined too, deletes the requests of both
  directions from the database, and the remover's own from the sessions
  (`event.rs:466`); friend events lock the user they are sent to and not the
  sender (`event.rs:411`), so two users can act on each other at once.
* `friend_accept` reads the request before it writes, and a withdrawal in between
  goes unseen (`db/user.rs:156`).
* ExitVoice of another group, and a direct JoinVoice that comes back from its write,
  set the session's voice whatever it names (`event.rs:1316`, `event.rs:591`): this
  group's channel goes on listing the user.
* Deleting a channel leaves a gap in the cached positions (`state/group.rs`); an
  out-of-range position in UpdateChannel leaves one in the database.
* UpdateRole, DeleteRole and UpdateChannel do not ask whether the role or channel is
  one of the group's (`db/group.rs:556`, `db/group.rs:349`): moving another group's
  makes this group's rows give way and leaves its cache, and gives two rows one
  position; deleting or changing another group's leaves that group's cache.
* A position is cut to an i16 for the database only (`db/group.rs:554`): 40000 is
  -25536 there, 40000 in the cache, and nearly 2^64 after the next load, which the
  position of a new role goes on from.
* `notify_permissions` tells one subscription of each user (`state/group.rs:357`), be
  it one whose connection is gone; the user's other clients are not told.
* A page of length 0 has one message (`db/message.rs:273`); one of negative length
  panics where its vector is allocated (`db/message.rs:251`).
* A Call message that is put and whose index entry fails stays open, with nobody
  told of the call (`event.rs:576`, `db/message.rs:112`).

## 5. Proofs

Checked by TLAPS, for all values of the constants that meet the named
assumptions.

* **`PrimitivesProofs`, keyed locks** (`LockMapAssumption`). `TypeCorrect`, `MutualExclusion`,
  `NoLeak`, `Implements`. `WriterExclusion` is not inductive: it speaks of keys,
  and locks exclude by object. The invariant adds that a task's lock is the one
  the map has for its key while it owns the `Arc` (`SameLock`), that no object
  serves two keys (`KeysApart`), and exclusion on each object (`LockExclusion`).
  `cleanup` keeps `SameLock` because it removes an entry only when no task owns a
  clone. Each step of `LockMap` is then an `Ask`, `Grant` or `Free` of
  `KeyedLock`, or leaves `claimBar` alone.
* **`PrimitivesProofs`, ids** (`SnowflakeAssumption`). `NeverAheadOfTheClock`,
  `CountersAreTyped` and `ImplementsSource`. The invariant: a candidate succeeds the value it is to
  replace and lies between the last restart and the latest time shown
  (`CandidatesSucceed`, `Times`), and every id issued is at most that of the
  counter or older than the last restart (`IssuedBefore`). The latter is needed
  because a restart forgets the counter. The arithmetic lemmas show that
  sequence and node never carry into the time (`IdWithin`) and that packing
  keeps the order (`IdGrows`).
* **`MembershipProofs`** (`MembershipAssumption`, `ValuesApart`).
  `MembershipIsTyped`, `TheCacheAgrees`, `OnlyMembersAreSubscribed`,
  `TheOwnerBelongs`, `UsesAreWithinReason`, for any number of users and handlers.
  None of the five is inductive: between two statements of a handler the three
  accounts differ, and what makes them agree in the end is where each handler is.
  `Labels` says which `pc` a kind of handler can be at; `LoadFollows` that what
  `init_group` has read so far is still true when the cache gets it;
  `RemovalsFollow` and `JoinsFollow` that what a handler did to the database
  stays done until the cache knows; `LockedJoins` that a join overlapping the
  lock's holder has been noted in `disturbed`; `SessionsFollow` that a session
  lists the group for a member, or for a user whose removal is on its way;
  `Uncreated` and `CreationFollows` the same for a group that is being created.
  `Counted` bounds the uses by those counted plus the handlers admitted and not
  yet counted (`Admitted`), which is why the slots of HTTP handlers must be
  finitely many.
* **`VoiceProofs`** (`VoiceAssumption`, `ValuesApart`). `VoiceIsTyped`,
  `TheVoicesAgree`, `PartiesKeepHosts`, `ExitAloneHaunts`. DeleteGroup
  clears the voices of the members that the cache knows, so `VoiceAgrees` needs that nobody else has one: the invariant adds
  `VoicesBelong`, that only members of the group speak in its channels, as the
  cache tells or, when there is none, as the next load will, but for the one
  being removed (`Removing`). `ExitAloneHaunts` is an
  action property: whatever else empties a channel takes the party with it.
* **`DirectCallProofs`** (`DirectCallAssumption`, `ValuesApart`).
  `CallsAreTyped`, `TheCallsAgree`, `TheCallersAgree`, for any number of users,
  handlers and calls. The invariant: whoever is in a call is in one that is open
  (`CallsAreOpen`); nobody is in a call but the two it was
  made for (`CallsArePairs`); a handler writes a call of its own (`WritesAreOwn`);
  and a call that a handler goes to end is empty already (`EndingsAreEmpty`),
  which is what the wait for the store puts at risk.
* **`MessageStoreProofs`** (`MessageStoreAssumption`, `ValuesApart`).
  `StoreIsTyped`, `TheIndexAgrees`, `TheDeletedAreGone`, `NoTextIsLost`,
  `PagesStayExact`, for any number of messages and of handlers, none of which
  excludes another. The invariant states for each handler how far it has got
  (`Writing`, `Indexing`, `Deletion`, `Reacting`), that nobody knows of a message
  not yet written (`Unwritten`), that a stored message is listed but between the
  steps of one write or delete (`Listed`), and how a page grows from the newest
  entry down (`Paged`). Every step of a handler that meets another's work puts
  the message into `torn`; the proof shows that no other step needs to.
* **`SessionProofs`** (`SessionAssumption`, `ValuesApart`). `SessionIsTyped`,
  `TheConnectionsAreServed`, `TheDrainIsComplete`, and the action property
  `EverythingIsSeenInOrder`. Ids are `max + 1` over the present connections, and
  generations over those ever used: `Counted` bounds both by the number of tasks
  in use. `Alone` says that a login finds nobody logged in, `Handled` and
  `Emptied` which event tasks are still at work when the tracker is empty. For
  the order, `InLine`: what a client has seen, what is being fed to it and what
  is queued are one unbroken line of messages up to the latest.
* **`GroupSettingsProofs`, first part** (`PermissionsAssumption`, `ValuesApart`).
  `TypeCorrect`, which includes that only members hold roles that exist;
  `RolesStayApart`; `CacheHasTheRoles`. `Pending` is the cached group once the
  holder of the lock has done to it what it did to the database. The invariant
  `IInv`: what roles exist and grant in it is what the database says, but for those
  another group has changed (`GrantsFollow`), and where they stand too, until the two
  compute from different numbers (`PositionsFollow`). Positions are bounded by their
  width, so that the maximum in `NextPosition` exists even for infinitely many roles
  (`MaxOfBounded`). `WayIsMadeApart` is the heart of it: the range that makes room has
  no off-by-one at either end, whatever the cast makes of the position asked for.
  `TheCachePermits` and `TheClientsKnow` rest on `PInv` as well: the rows and
  overrides in `Pending` are the database's (`RowsFollow`, `SharedFollow`), although a
  join and the events of other groups, which do not take this lock, may come between
  (`LockShown`); a role not yet created has left no traces (`Untraced`); holders in the
  cache hold what exists there (`HeldExist`); what a client was told changes exactly
  for those whom an event concerns (`UntoldIsUnchanged`).
* **`GroupSettingsProofs`, second part** (`GroupSettingsAssumption`,
  `ChannelValuesApart`). `SettingsRefinePermissions`: channels change without
  disturbing the roles, by which all that is proved of `Permissions` holds here
  (`RolesStayApartInSettings`, `SettingsPermit`). `SettingsTyped`,
  `ChannelsStayDense`, `CacheHasTheOrder`. The invariant `SInv`: the positions
  are exactly `1..n` for the n channels, unless `far` (`Dense`), and applying the edit
  in progress to the cached order gives the database's, unless `drifted`
  (`OrderFollows`). That no two channels share a position is carried
  along (`Numbers`): without it a channel behind the deleted one need not move.
  With it `Added`, `Closed` and `Shifted` each renumber without gap or double.

* **`AccountsProofs`** (`AccountsAssumption`, `ValuesApart`). `AccountsAreTyped`,
  `SessionsAgreeWithRows`, and the action property `FriendshipsBeginAsked`, for the
  two users the module is about and any number of handlers, transactions and
  profiles. Agreement between events is not inductive, as it says nothing of a
  moment when an event is being handled. The invariant says it of three moments:
  until an event has reached the rows the sessions still agree with them
  (`Untouched`); once it has, what it will write into a session is what the rows
  say, but for a request it declines (`Awaited`); and what a login has read so far
  is what the rows say (`LoginsAgree`), which the lock on the user keeps true.
  The last two are claimed only of events and logins that no event has crossed.
  Such an event is alone (`AloneOrCrossed`); a crossed one puts both users into
  `torn` when it has written. `Statements` says what a transaction may hold back
  at each label, and that no two hold the same row; `Reads` that the request which an acceptance has read,
  and the friendship that it or a removal has found or not, are still so when it
  commits: from these, that only a commit of an acceptance inserts a friendship.

The assumptions called `ValuesApart` (`ChannelValuesApart`) say that a constant
which stands for "none" (`NoSession`, `NoOp`, `Free`, ...) is not one of the
records it is told apart from: an `Option` in the code. Each inductive invariant
was checked by TLC on the instance of the module's run, or a smaller one, before
it was proved.

Only model-checked: `RequestServed`, `QueuesEmpty` and `ShutdownDrains`: liveness
under fairness is outside the prover. Every other property that a passing run
checks is proved.
`WriterExclusion` is proved only: the refinement that `lockmap` checks contains
it. Nothing here needs induction over data; where a maximum or minimum of a set
is taken, that it exists follows from the well-foundedness of `<` on the naturals
(`MaxOfBounded`, `MaxIsElement`, `MinIsThere`).

## 6. Not modelled

* Who is sent what: `Session` has one user's notifications, and `ClientsKnow` the
  ones on permissions; that every other change is told to the right users is not
  stated.
* MoveGroup, the order of a user's own groups: `group_users.position`, which two
  concurrent joins of a user can give the same value (MAX + 1) and which the
  session's list does not follow. No cache but the session's list holds it.
* UpdateGroup, Mute and Deafen, names, colours, titles, presence, games and music
  and other data no property tells apart. (Pausing music that is paused reverses its
  offset, `event.rs:295`, a matter of one field.)
* Blocks: rows that two queries read.
* The SQL engine beyond its keys, cascades, row locks and the atomicity of a
  statement or transaction. Isolation between concurrent transactions is examined
  in `Accounts` only.
* A second group as a whole. What its events do to this group's rows, and what this
  group's do to its own rows with the other's roles and channels, is in `Permissions`
  and `GroupSettings`; the other's own rows and cache are not. An event that names
  something of another group and changes nothing of this one is left out, too.
* The session half of hiding a conversation: `route/message.rs:296` looks up the session
  of the other user, not the caller's, and takes that user's own id from its list
  (the name `user` is shadowed), so that the caller's list keeps the conversation.
  `MessageStore` has what is done to the store.
* Page lengths below 0, which panic and give no page; lengths too large for a vector
  fail, too.
* How often a session's vectors of friend requests hold a user. A request sent twice
  inserts one row and is pushed twice; an acceptance or a removal takes every copy
  (`retain`), so that `Accounts` tells only whether the vector holds the user.
* More handlers of one user's friend events at a time than `Tasks` (two in the run):
  one in the session's event task and one in that of a former session, of which there
  may be more when sessions end faster than their tasks. The proofs are for any number.
* Authentication, mail, uploads, rate limits, read-only queries, encodings, the
  stress client: library calls, pure functions, or no part of the server.

## 7. Plan

Done: locks, ids, membership, voice, calls, messages, permissions, in this order:
the locks and ids everything relies on first, then the state that is told more
than once, by how much depends on it. After those the order of channels, watch
parties, sessions with their shutdown, friends and profiles, the creation of
groups and concurrent joins.

The proofs followed the same order, and cover every safety property of every
passing run.

Left: MoveGroup, over `Membership`'s joins (section 6).
