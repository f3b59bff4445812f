# Wession, modelled and proved

Wession is a session server for single sign-on. Web applications (agents) send
the sessions of their users to a session server; two session servers replicate
them to each other, keep them in memory, index them by user, and write a journal
from which they recover. This directory holds a TLA+ model of that system, the
configurations with which TLC checks it, and proofs checked by TLAPS.

Contents: [the system](#1-the-system), [the modules](#2-the-modules),
[what the runs check](#3-what-the-runs-check), [what is proved](#4-what-is-proved),
[what is not modelled](#5-what-is-not-modelled), [the plan](#6-the-plan).

## 1. The system

Paths are relative to `src/`; `W` stands for
`ws_server/src/main/java/com/wow/wession`, `AG` for
`ws_agent/src/main/java/com/wow/wession/agent`.

| component | state | operations | talks to |
|---|---|---|---|
| `WessionSessionManager` (`W/session`) | an executor; references to the three below | create, expire, clear, add, remove, set, delete, getBy, start, stop | each task calls the repository, then the journal, then the cluster |
| `WessionRepository`, `IndexRepository`, `WessionMutilMap` (`W/repository`, `W/index`) | sessions by id; sessions by user in plain `HashMap`s; a lock object for each user | create, expire, clear, get, getBy | called by executor threads and by request threads |
| `JournalManager`, `JournalFile` (`W/journal`) | the append file A, the backup file B, the dump file D, the open stream, the time of the last rollover | append of each command, dump, close, replay | called by executor threads; at a start it creates what it reads |
| `ClusterManager`, `ClusterNode`, `ClusterService` (`W/cluster`, `W/service`) | the registered peers, a pool of connections to each | register, node check, getAll, create, expire, add, remove, set, delete, clear; the worker that serves them | sockets to the peer; the worker calls the session manager |
| `BasicConnectionPool` (`W/pool`), `SocketAcceptor`, `SocketConnection` (`wow_server`) | free connections; sockets and their worker threads | get, release, destroy; accept | used by `ClusterNode` and `ClusterService` |
| `WessionDaemon` (`W`) | the three servers | initialize, start, stop | binds the port, registers at the peer, recovers, accepts |
| `WessionAgent`, `WessionFutureSession`, `WessionTranser` (`AG`, `ws_core`) | a future for each session, a queue and threads for requests, an enable flag | create, add, remove, expire, clear, get with a timeout | HTTP to the service page |
| `c_service.jsp` (`ws_admin/meritz_c`) | none of its own | login, lookup, logout, timeout of an agent's session | the session manager; HTTP to agents |
| `initWessionServer.jsp`, `CustomScheduler` | a thread | takes out the sessions past the limit, on its own server | the session manager |
| `wession_fdw.jsp` (`ws_admin/meritz_c/admin/json`) | none | kills a session, or all | the session manager; HTTP to agents |

### What is hard here

* **Interleaving.** A session manager has several executor threads, and each task
  changes the repository, the index, the journal and the peer in separate steps.
  Nothing orders two tasks about one session. The index protects a user's
  `HashMap` with a lock object that it throws away when the `HashMap` is empty.
* **Messages.** A send waits for its answer without a timeout, is not repeated, and
  its result is ignored. Connections stay in the pool after the peer has gone.
  The receiver queues CREATE and EXPIRE and runs the others at once.
* **Start, crash and restart.** A server binds its port, registers at its peer,
  asks for all sessions, falls back to its journal, and only then accepts. The
  sessions it was given are created later, by tasks. The journal is truncated
  by the first append after a start.
* **Timeouts.** An application waits for a verdict of the server and goes on without
  one; the answer, or a second request, may arrive at the same moment.

### What makes each part correct

* Repository and index: get(id) and getBy(user) agree about a session that nobody is
  changing, whatever happens to other sessions of its user; a user's index never holds a
  session of somebody else; a lookup never throws.
* Journal: until the next start, what is on disk is a suffix of what was appended, in that order; a replay
  gives the sessions as they are; a session younger than the roll period survives
  a crash.
* Cluster: after any starts, crashes and cuts, servers that are up and idle have the
  same sessions; a start completes; servers find each other again.
* Agent: whoever waits for a verdict gets one in time; a verdict is never overwritten
  by a timeout; of the requests about a session, the one that the server gets last is the one that was asked last.
* Service page and sweeper: a user has one session; when nothing is under way the two servers
  agree on the sessions and on the agents in them; a login that was answered is held; a session without
  agents is deleted; a session past its time goes from both servers.

## 2. The modules

| module | what it is |
|---|---|
| `SessionStore` | abstract specification: a view by id, and a view by user that only ever moves towards it |
| `SessionRepository` | `WessionRepository`, `IndexRepository` and `WessionMutilMap`, one step per access to a shared map |
| `SessionRepositoryProps` | its properties, and the mapping to `SessionStore` |
| `SessionRepositoryProofs` | theorems about it, with proofs |
| `SessionStoreProofs` | the proof that it implements `SessionStore` |
| `Journal` | `JournalManager`, `JournalFile` and the tasks that write to it |
| `JournalProofs` | theorems about it, with proofs |
| `Cluster` | two servers: `WessionDaemon`'s start, `ClusterManager`, `ClusterNode` with its pool, `ClusterService`'s worker, the tasks for create and expire |
| `ClusterProofs` | theorems about it, with proofs: types, membership |
| `ClusterSyncProofs` | a theorem about it, with its proof: the sessions of the two servers |
| `AgentFuture` | `WessionAgent`, `WessionFutureSession`, `WessionTranser`, up to the moment at which a request reaches the service page |
| `AgentFutureProofs` | theorems about it, with proofs |
| `SsoService` | the request handlers of `c_service.jsp`, the kill page and the sweeper, over the executor tasks and `ClusterService` of two servers |
| `SsoServiceProofs` | theorems about it, with proofs: types, the sessions of the two servers |
| `SsoLoginProofs` | theorems about it, with proofs: one session, its agents, answered logins |
| `MC...` | values of constants and symmetry for TLC |

Definitions are named for the method they model; where a method has several steps
each step has a name that says what it does. The operators that carry the word
*mutant* in their comment are wrong on purpose: they are what the definition below
them would be after a plausible mistake, kept to see that a property notices.

### SessionRepository

`memory` is `memoryRepository`; `cache` and `locks` are the two maps of
`WessionMutilMap`, and `content` the `HashMap` objects they refer to. A thread's
program counter goes through `lock` (getLock), `enter` (the monitor), `mutate`
(`HashMap.put` or `remove`), `publish` (`cache.put`), `drop` and `uncache` (an
empty `HashMap` and its lock object are removed), `collect` (getBy iterates).
Java objects are model values: `New` takes an object that nothing refers to.
A `HashMap` changed by two threads at once is undefined; the model lets either
change be lost. Any worker may be asked about any session at any time.

Three history variables say what has happened that the code does not survive. `dropped`: the users
whose lock object has been thrown away. `torn`: those for which that happened while another worker
was updating the user's index or about to, and those whose index was updated while a clear was under way. `crossed`:
the sessions about which a worker called the index while another update about the same session had not returned.

### Journal

`A`, `B`, `D` are the files as sequences of entries; `stream` and `modified` are the
fields of `JournalFile`. Session objects have identities: `object` says what each one holds, `live` which
one the repository has under an id. Any number of requests, up to the size of `Requests`, are under way at once.

A create makes its object on the caller's thread (`Create`) and queues a task; the task (`Store`) does the `putIfAbsent` and
goes on to journal its own object, even if another one is stored and the new one is dropped. A change of agents
or attributes is made on the thread that asks for it (`Changed`), to the object that this thread holds, which need not be the stored one;
then the repository is asked for the id (`Check`), and the entry is made by a task later. Every entry is stamped with the time
(`Stamp`) and appended (`AppendEntry`) in steps of their own, so requests may reach the file out of the order of their times
and out of the order in which they took effect. The entry of a CREATE writes its own object, as it is when it is
appended. Of attributes only the keys are modelled, not the values.

`Recoverable` is the set of results a
replay may have: entries are sorted by time, and entries of one file with equal
times come in the order in which a `HashSet` happens to give them. The dump file
is written and never read, because `readDumpFile` looks for another name. `Stop` closes the journal.
`End` is the end of the process, after a stop or by a crash at any moment; no code is translated there, only what a process
loses when it ends.

`crossed` is a history variable: the sessions about which requests were under way together that the journal may not
order as the repository did, namely a create and a request that does not change the object it made, two opposite changes of one agent or
attribute, a create of an id that was stored, and a change of an object that was not the stored one.

### Cluster

Each thread that sends (the one that starts a server, the node check, each executor
task) is a job that goes through `poll` (take a connection), `new` (wait until the
peer accepts), `live`, and then `done`, `stale` (the connection breaks or was broken)
or `lost` (no connection). A server that is up may be asked for any command about any session (`Ask`), again and again: a session can be
created, expired and created anew while messages about its earlier lives are still queued. `Requests` bounds only how many
commands are under way at once. `pool` is the queue of a `ClusterNode`. `orphans` are
the threads that still use a node whose pool was destroyed. `End` and `Cut` make every
connection in a pool stale; only the next use of it shows that, and then the send fails. A thread that was waiting when its peer ended is
told so by the system. One that was waiting when the network was cut is told nothing, and its socket has no timeout: it is
`unopened` or `mute`, and `GiveUp` lets the system end the wait some time, or never. A send that starts on a connection that a cut
broke is taken to fail, since a system gives up data that nobody acknowledges.
`journal` is the set
of ids that a replay would give: `Journal` says how exact that is, `Cluster`
takes it as exact. The repository step and the journal step of a task are one step
here, since a crash between them leaves what a crash before them leaves.

`missed` and `raced` are history variables for the property `InSync` below: the sessions a command about which did not reach a
peer that had recovered, and those of which a create and an expire were under way at once, anywhere.

### AgentFuture

`get` and `set` of a future are `synchronized`, so each is one step; a wait is a state
of the getter. A wake-up may be a notification, the timeout, or spurious: the code
does the same. `Serve` is the moment at which a request reaches the service page: `told` is the type of the request about a
key that got there last. What the page then does, with executor tasks that nothing orders, belongs to `SsoService`.
`asked` is a history variable: what was last asked for a key, or `unsure` once a
request of the key has failed or two threads have sent a CREATED and an EXPIRED of it at once.

### SsoService

This module composes the service page with the session manager and the commands between
servers. `stored` is `memoryRepository` and `view` what `getBy` finds for the one user; the index is one step behind
the repository, as in the code (how the index itself races is what `SessionRepository` is about). A
session object exists once on each server: `agents[n][x]` is the `ConcurrentHashMap` in the
object of session `x` on server `n`, whether or not the object is stored, because a handler may
still hold one that has been expired.

`tasks` are the executor's: a task for create or expire goes through `run` (the repository), `index`, and
`send`; one for add or remove only sends. What is sent becomes a task of the peer
(CREATE, EXPIRE, CLEAR) or is carried out at once (ADD, REMOVE). Nothing orders tasks, as nothing
orders the executor's threads.

A request is a sequence of steps: `getBy` (`Login`, `Timeout`, `Logout`), then a loop over the sessions
found (`Visit`), in it a loop over the live key set of the agents (`MeetLogin`, `MeetLogout`,
`MeetRemoved`, `EndIteration`) or a removal and a count (`RemoveAgent`, `Count`, whose last one also
expires). An exception ends a request, so a handler may stop at a session that is gone, at an agent that has just been
removed, or, for a logout, at an agent that does not answer.

A server session has the id of the agent session that created it. An assumption, which nothing in `c_service.jsp` enforces: each agent
session logs in once (the guard on `loggedIn` in `Login`), so an id is created once. The lookups (AGENT_GET_WESSION, AGENT_GET_LOGIN) change nothing on the servers and
are left out. `blind`, `raced`, `uneven` and `loggedIn` are history variables that say which of the
races that the code leaves open has happened.

## 3. What the runs check

| run | instance | states | shows |
|---|---|---|---|
| `RepositoryIndex` | 2 sessions of 1 user, 2 workers that create, expire and clear | 370,445 | `TypeOK`, `IndexExact`, and the refinement `StoreImplemented` |
| `RepositoryShared` | 1 session, 2 workers that also clear, 1 reader | 844,238 | `MutexUntilDropped`, `LookupFailsOnlyAfterDrop` |
| `RepositoryStale` | 2 sessions of 1 user, 2 workers that create and expire | violation | `FoundLoginExists`: an index entry for a session that is gone, for ever |
| `JournalReplay` | 1 session, 1 agent, 1 attribute, 2 objects, 2 requests under way, all commands and the dump, 3 entries, 3 moments | 923,453 | `TypeOK`, `LogIsSuffix`, `ReplayExact` |
| `JournalRestart` | 2 sessions, 2 objects, 2 requests under way, create and expire, 3 entries, a restart | 1,228,010 | `RecentRecovered` |
| `JournalDelete` | 1 session, 1 attribute | violation | `DeletedStaysDeleted`: a deleted attribute is back after a replay |
| `JournalDump` | 2 sessions, 4 entries, a dump | violation | `DumpRecovered`: a dumped session is not found by a replay |
| `ClusterSync` | 2 servers, 1 session created and expired any number of times, 2 commands under way, 3 starts | 677,731 | `TypeOK`, `InSync` |
| `ClusterHeals` | 2 servers, creates only, 1 command under way, 3 events (starts and cuts), of them at most 1 cut, with fairness | 281,105 | `InSync`, `SplitOnlyByCut`, `StartCompletes`, `Rejoined` |
| `AgentVerdict` | 1 key, 2 futures, 2 getters of which 1 may be interrupted, 2 request threads | 1,093,430 | `TypeOK`, `ReturnsVerdict`, `LastAskedLastTold`, `AnswerStands`, `GetReturns` |
| `SsoRace` | 2 servers, 3 agents of 2 applications, 3 of any requests and agings | 890,911 | `TypeOK`, `OneSession`, `ServersAgree`, `AgentsAgree`, `LoginsHeld`, `SweptInTheEnd` |
| `SsoEmpty` | 2 agents that have logged in, 2 more requests | violation | `NoAgentsNoSession`: two agents time out on two servers, and nobody deletes the session |

**Bounds, and why they are enough.**
*Repository.* The races are between two threads on one user, and a third that reads;
two sessions of a user make a `HashMap` that is not empty after a removal. Users share nothing but the maps of the index, so one is enough
for the races, and the theorems are about any number. There are as many objects of each kind as can be
referred to at once, so `New` never runs out: the check for deadlock would show it. `Clear` is left out of
`RepositoryStale`, whose counterexample is a create and an expire of one session.
*Journal.* In `JournalReplay` the roll period is 0, so each entry that is stamped later than the file was begun
rolls it over, and the clock runs over two rollovers; a session is created, changed and expired, or created and
changed twice, or created twice, with two of these at any stage at once. `SessionTime` ends in time for the oldest entries to
be left out. In `JournalRestart` the roll period is 1 and a session younger than that has to survive up to one rollover
and a crash, while requests about two sessions are under way. The number of entries bounds both; no step treats two sessions
together but the sort of a replay and a clear.
*Cluster.* `MaxEvents` bounds the starts and cuts together. In `ClusterSync` both servers start and one is
restarted, at any moment of what the others do, with commands that are asked for without a limit. Two that are under way at once are a create and
an expire, a create and another one on the other server, or a command and the message of an
earlier one. The state constraint `MCUndecided` cuts off successors of states in which the only session is in
`missed` or `raced`: it stays there, and `InSync` says nothing about it any more. `ClusterHeals` has the cuts: both servers start and the
network is cut once between, or one of them is restarted. It leaves out the expire, since its other properties are about membership.
Cuts together with creates and expires are left to the theorem. One session is enough, since no step treats two sessions
together but the snapshot, which is empty or not.
*Agent.* Two futures are a future and the one that replaces it, while the old one is still
queued or waited for; the bound on the queue is two, so an expire waits behind its create; two request
threads are enough for two requests to overtake each other.
*Service page.* Three requests or agings at any moment and on any server: every pair of them overlaps, and the third comes
before, between or after. Two agents of one application and one of another make a login that
finds itself, one that finds a fellow, and one that finds a stranger.
`SsoEmpty` starts after two logins (`MCLoggedIn`, a state that two requests lead to) and needs two more.

Runs whose bounded counters stop the system say `CHECK_DEADLOCK FALSE`; the others check
for deadlock.

**Symmetry** is used in `ClusterSync` (servers, sessions, requests) and the runs of `Journal` (sessions, requests, objects), none of which has a liveness property.

**Fairness.** `Cluster!FairSpec`: a thread that starts a server goes on (`StartStep`), and
the scheduler of the node check runs it again and again (`CheckStep`; `scheduleAtFixedRate`
in `ClusterManager.java:162`, and the run method catches what a check throws). Nothing
is assumed of the executor tasks, of the starts, crashes, or of the network: a start that waits for
a peer that does not accept is allowed to wait. Nor of `GiveUp`: a wait that a cut has left may last for ever. `AgentFuture!FairSpec`: a timed wait
ends (`WakeUp`). Nothing is assumed of the request threads or of the server.
`SsoService!FairSpec`: the sweeper of each server runs again and again (`CustomScheduler`, started at
`initWessionServer.jsp:146` with a period of a minute). Nothing is assumed of the executor or of the requests.

**What `IndexExact` excepts.** The users in `torn` and the sessions in `crossed`, that is, what the lack of an order between tasks
does to the index: an empty `HashMap` is thrown away under another update, a clear meets an update, a create and an expire of one session are
indexed in the other order. Two workers that update one user's index about different sessions do no harm, as long as the user keeps a
session: that is what it shows.

**What `ReplayExact` excepts.** Sessions in `crossed`; sessions with two entries of one millisecond, which a `HashSet` mixes up; attributes that
have been deleted, since DEL entries are replayed as something else. It speaks of the first run of the server,
since the first append of the next one throws file A away.

**What `InSync` says and what it excepts.** When both servers are up and idle, or have only tasks that wait for what a cut has taken from
them, they have the same sessions, but for those such a task is about, and unless one of these happened, each of which is what the code does:

1. a create or expire could not be sent, because the peer was not registered although it was up, or
   the connection was broken (`ClusterNode.send` does not retry);
2. a server took its snapshot from a peer that still had create or expire tasks queued
   (`jounralByNetwork` only queues its creates, `JournalManager.java:91`);
3. the peer had no sessions, so the server replayed its journal, with what the peer may have expired
   meanwhile; or the peer could not be asked;
4. a create and an expire of the session were under way at once, on any server, whether asked for or handed on. That includes a
   session that is created anew while its old EXPIRE is still queued at the peer.

What it shows is that nothing else goes wrong: a start registers before it takes
its snapshot, and a create stores before it reads the list of peers, so no session falls
between a snapshot and the replication, however starts, crashes, node checks and
connections that break unnoticed interleave.

**What `SplitOnlyByCut`, `Rejoined` and `StartCompletes` say.** Restarts alone never leave two
servers that are up without at least one that knows the other, and then the node check of that
one brings the other back. After a cut both may remove each other, and then neither
checks: they stay apart until one is restarted (`ClusterManager.java:166` iterates over
registered nodes). A start completes unless both servers are starting and each waits for
the other to accept; then both wait for ever (`Entangled`). A cut may leave a thread with a wait that nothing ends: a start then does not
complete, and a node check that waits runs no more checks (its thread is the scheduler's only one). `StartCompletes` and `Rejoined` except exactly
the server whose own start, or own check, is in such a wait.

**What the properties of `SsoService` say and what they except.** They speak of states in which no task, request or
sweep is under way.

* `OneSession`: the user has one session, not counting those that were made while another one was being made
  (`blind`: the login looked for a session before the index had the other one), those expired or cleared while
  they were being created (`raced`), and those past their time.
* `ServersAgree`: both have the same sessions, and the user finds exactly them, but for `raced` ones, and those
  past their time, which each server takes out on its own.
* `AgentsAgree`: a session has the same agents on both, but for an agent that a logout removed (it is not
  replicated, `c_service.jsp:339`), whose ADD or REMOVE came while the session's CREATE was queued on the
  receiver, or two of whose changes crossed (`uneven`).
* `LoginsHeld`: after logins only, each of them is answered for on both servers by some agent of its application.
* `SweptInTheEnd`: whatever raced, a session past its time goes from both servers and stays away. This is the
  system's remedy for all the above.

**Violations.** Each is a disagreement between the code and a comment of the repository, quoted in
`PROJECT.json`: an index entry that outlives its session and the service page's reading of it;
a replay that takes DEL for the removal of an agent; a dump that is read under a name that is
never written; two timeouts that leave a session without agents on both servers.

## 4. What is proved

### The repository

In `SessionRepositoryProofs` and, for the last one, `SessionStoreProofs`, for every set of sessions, users, workers,
readers and objects that satisfies `RepositoryAssumption`.

| theorem | says |
|---|---|
| `TypeCorrect` | every reachable state is well typed |
| `SessionsFiledRight` | a user's index holds that user's sessions only |
| `SafeIndex` | monitors exclude each other for every user whose lock object was never thrown away |
| `LookupsSucceed` | a lookup throws only for a user whose lock object was thrown away |
| `IndexIsExact` | `getBy(user)` and `get(id)` agree about every session that nobody is changing, but for `torn` users and `crossed` sessions |
| `ImplementsStore` | the repository and its index implement `SessionStore` |

None of them assumes anything of the workers: any of them may be asked about any session, and may clear, at any time.

**The argument.** `TypeOK` is not inductive, since a step uses `lock[t]` and `map[t]` that are only
set at certain places; `LocalsInv` says what a thread's locals hold at each place. `MapsInv`
says that a `HashMap` object, whether in the index or only in a thread's hands,
belongs to one user; that is what makes `OwnUser` survive a removal that races a new `put`. `LocksInv`
says that a lock object admits one thread, and that every thread at a user's index holds *the*
lock object of the user until one was dropped. Together they are `SafeInv`, which is
inductive (`SafeInit`, `SafeStep`) and implies the first three theorems. For a lookup,
`LookupInv` adds that the `HashMap` under its iterator is what it was when the iteration
began; it is preserved because a thread that changes it would hold the same lock object.

`IndexIsExact` needs more. `ExactInv` adds, for users that are not torn: every worker at the user's index has the
lock object that `locks` names, or has thrown it away and is alone there; and during a clear nobody is there (`LocksKept`). So the
workers do exclude each other (`OneInside`), and readers, who may hold lock objects that have been dropped, change nothing. Then a worker that is inside
has the user's `HashMap` in its hands, or a new one with nothing in it but its session (`HandsInv`), and what it does to it is
what the repository asks for, since no other worker is at work on the same session unless that one is in `crossed` (`ToldInv`). The exactness of the
index is preserved along with these (`ViewStep`): each step that changes what `getBy` finds changes it by the
session of the worker that makes the step, and of no other.

`torn` and `crossed` are needed: `RepositoryStale` is a counterexample in which a session is crossed.

For `ImplementsStore` every step is mapped to one of `SessionStore` or to a stutter (`StoreStep`). The two views of the store
are `memory` and what `getBy` would find. A `put` into the repository moves the first and begins an update (`Begins`); the second moves
when a `HashMap` that the index already has is changed, when a new one is published, or when the maps are cleared (`Settles`). `HandsInv` says
what makes these single moves: a `HashMap` that a worker has made and not published has nothing in it but the session
that it puts there, and one that is being taken out of the index is empty, so to take it out shows nothing. A user becomes torn in the
store under the store's own condition, that two operations overlap while the user has no session to be found, or one overlaps a clear;
so the refinement also says when the index can go wrong at all.

### The agent

In `AgentFutureProofs`, for every set of keys, futures, getters and request threads, and for a
queue of any length, under `AgentAssumption`.

| theorem | says |
|---|---|
| `TypeCorrect` | every reachable state is well typed |
| `VerdictsReturned` | what `get(timeout)` returns is validated, or marked as a session that cannot be validated |
| `VerdictsStand` | the verdict of a session that can still be looked up is overwritten by an interrupted waiter only |
| `LastAskedArrives` | when nothing is queued or running, the request about a session that reached the service page last is the one that was asked last; except where `asked` is `unsure` |

**The argument.** `IInv` is inductive and has six parts. `TypeOfParts` needs `KeyInv`
(a future is in the repository under its own key, and a request is of a future that has one), or
the server could be told of no session. `ReadyInv` says that a future is ready exactly if it has a verdict; with it a waiter
that looks at `ready` after its wait returns a verdict, and does not overwrite one
(`ReturnsVerdict` is then inductive). An answer could overwrite a verdict too: `RequestInv`
says that the request of a future that can still be looked up is the only one of that future and that the
future has no answer yet. It is preserved because `create` makes a new future for each request, and
`expire` takes the future out of the repository before it queues a second request for it; by
`KeyInv` it is in there under no other key.

For `LastAskedArrives`, `StepInv` follows each key through the queue and the threads: in the queue, the last request of
a key is what was asked last (`LastLast`); all requests of a key that are being sent are of one type, or the key is
unsure (`OneType`); one that was served has told the page its type (`ServedTold`); and what was asked last is either
still queued, or being sent, or told (`LastToCome`). A thread that takes a request
keeps this because what it takes is the first of the queue (`InStepRun`): the queue order alone is enough for
one thread, and `Opposed` is exactly what more threads can break.

The theorem ends at the page. The page queues a create and carries out an expire that finds its session, so an EXPIRED that comes
soon after a CREATED was answered can find nothing and leave the session (`c_service.jsp:273`): that the server *has* what it
was told last does not hold, and is not claimed.

TLC checked the parts of `IInv` as invariants of the instance of `AgentVerdict` before they were proved.

### The journal

In `JournalProofs`, for every set of sessions, agents, attributes, objects and requests and for any number of entries and restarts, under
`JournalAssumption` (which `LogUnbroken` does not use).

| theorem | says |
|---|---|
| `LogUnbroken` | until the server starts again, the files B and A in a row are a suffix of what was appended, in that order |
| `TypeCorrect` | every reachable state is well typed, and so is whatever a start recovers |
| `RecentSessionsRecovered` | if `RollTime < SessionTime`, a session not older than `RollTime` that is journaled is found by a replay at any moment |

**The order.** The history numbers the entries as they are appended. `Suffix` says of each file by itself
that its numbers have no gap and where they end: A at the last one written, B where A begins. An append keeps it,
and a rollover, which makes A the new B and empties A, keeps it too. The first append after a start empties
A; `Counted` says that in the first run of the server there is nothing to lose then. After a restart the
theorem is silent, and rightly: the first append throws away what was recovered.

**A replay.** `Recoverable` is made with `FoldLeft`, a recursive function. `ReplayHistory` unfolds it:
every result of a replay is the last of a row of session tables, each of which is the one before with one more entry
replayed. The library's induction theorems cannot be used here, but the order `<` of the naturals is well founded
(`NatLessThanWellFounded`), so a set of naturals has a least element (`Least`), and from that follows an induction
over a set that is closed under successor (`Induct`). With it, what every entry
preserves holds of the result: that it is well typed (`RecoverableStores`, without which `Start` would not keep the
types), and that a session is there from its CREATE on if nothing removes it (`ReplayFinds`).

**What a crash loses.** `RecentInv` says of each session that is not older than `RollTime` where its CREATE is: with a request that
has not appended it yet, or on disk, and if it is in B then the session is older than A. A rollover loses B, and then A is more than
`RollTime` old, so a session in B is older still. The time of the entry is at least the time at which the object was made,
which is why a replay does not leave it out; this is where `RollTime < SessionTime` is used (with the sizes the other way round a
session could time out of the replay while it is young enough for the claim). The stored object is always one whose own
create found the id free, so its own entry is the one that counts; a second create of the id adds an entry for an object that is not stored, which
harms nothing here. It does not matter that entries of
several requests are out of order, nor that a restart empties A: what was read is created again, and until that is done the
session is not in the repository.

What a replay gives *exactly* (`ReplayExact`) is only model-checked: with requests that overlap it depends on which of them commute.

### The cluster

In `ClusterProofs` and, for the last one, `ClusterSyncProofs`, for two servers, every set of sessions and any number of
starts, crashes and cuts, under `ClusterAssumption`.

| theorem | says |
|---|---|
| `TypeCorrect` | every reachable state is well typed |
| `SightKept` | two servers that are up have lost sight of each other only if the network was cut |
| `ServersInSync` | when both are up and idle they have the same sessions, except those of section 3 (`missed`, `raced`) |

**The argument.** `Inv` is inductive. A server that is off is quiet: it has no jobs and no connections (`Quiet`); and its peer
has no live connection to it and waits for none (`Alone`). So when a server starts while the other one runs, every connection
that it opens is to the life in which that other one is: it is `Fresh`. A fresh server's sends do not fail and are not silenced
(`Failing`), so it
never takes its peer off, and it has registered the peer before it recovers. It stays fresh until one of the two ends;
if the peer ends and starts again, the peer is the fresh one. So of two servers that run there is a fresh one as
long as there was no cut, which is more than `SplitOnlyByCut` says. The steps of a job are split by what they change
(`JobMoves`, `JobGoes`, `ReleaseMoves`), those of a server in `OneServerMoves`.

For `ServersInSync`, `SyncInv` says where each session stands that is in neither `missed` nor `raced` (`Fine`). What a server tells its
peer it has done itself and not undone (`Done`): the opposite command, asked for while the telling goes on, puts the session in
`raced`. Once both have recovered, what comes in is what the peer has, or has not, and what only one server has is on its way to the other,
or is about to be told of, or is about to go (`Alike`). This holds for any number of commands about a session, in any of its lives: while messages of a
create are under way anywhere nothing but creates can run without a race, and likewise for expires, so a difference can be only of the one kind
that these messages settle (`RunFine`). Nothing is said of a
server that has not recovered: it may be told of anything. The step that matters is `GetAll`, from which on a server counts as recovered: the answer has all that the
peer has; of what the peer's tasks are still to do, those that its own requests have queued will be sent on, and the sessions of the others
are put into `missed` by that step (`GetAllFine`). From then on a command that is not sent, or whose connection breaks, puts its session
into `missed` too; one that a cut silences is still under way (`BreakFine`). `Links` says that nobody has a connection to a server that is not up, so an answer is one of a server that is.

### The service page

In `SsoServiceProofs` (the first two) and `SsoLoginProofs`, for two servers, every set of agents and applications and any number
of requests and agings, under `SsoAssumption`.

| theorem | says |
|---|---|
| `TypeCorrect` | every reachable state is well typed |
| `ServersAlike` | when all is done both servers have the same sessions and `getBy` finds them, except those that were removed while they were created (`raced`), or are past their time |
| `OneSessionOnly` | when all is done the user has one session, but for `blind` and `raced` ones and those past their time |
| `AgentsAlike` | when all is done a session that both have has the same agents on both, but for `uneven` ones |
| `AnsweredHeld` | after logins only, when all is done both servers have an agent of the application of each answered login |

**The argument.** A session has its name from one login (`NewInv`: until the login's CREATE task exists, no server, task or request
has the name). So there is one creation of each session, and a creation that no removal overlaps is not in `raced`:
`Separate` says that while such a session is being created no removal of it is half done. With that, what a
task has done to a repository stands until the task has ended (`Stands`): nothing undoes it while its index or its
message is outstanding. Then a difference between the servers always has a task that will settle it (`Told`), and a
difference between a repository and its index a task or a sweep that will (`Shown`). When nothing is left to run there
are no differences.

All actions of requests but `Login` and `CreateSession` store nothing and only ask for tasks about sessions that are known
already. They are one case for the invariant: `Quiet` says what they have in common, and a lemma for each kind of
action shows that it is such a step.

*One session.* `Alone`: of the sessions outside `blind`, `raced` and `aged` one at most is alive, that is, being created, or stored with
no removal of it begun. Only a login brings a session to life, and then either the index of its server showed
none and none was being created, so that by `Told` and `Shown` none was alive, or it is in `blind`.

*Its agents.* `AgentsInv` says of a session and an agent that are not in `uneven` that at most one task tells of a change of the
agent, that it tells what its server has, and that where the servers differ there is such a task (`Carried`). A CREATE carries the agents that its
sender had; `Unreached` says that until it runs nobody works with the session on the receiver, so what it
brings does not overwrite a change that was made there.

*Answered logins.* Whether there were logins only is a matter of counting (`Counted`: there are no more logins than
requests, and with fewer the claim is void). `Calm` is then inductive: nothing is removed, no session is without agents,
a login goes through sessions that are stored, and of each login that was answered there is an agent of its
application in a session that is on its way to both servers. The agents may differ on the way; `AgentsAlike` and `ServersAlike` carry
the claim to the other server.

For `Cluster` and `SsoService` TLC checked the parts of the invariants on the instances of section 3 before they were proved.

### Only model-checked

Every invariant and action property that a passing run checks is also a theorem, but for one: only TLC checks `ReplayExact`, with two requests
under way. Only TLC checks liveness under fairness
(`StartCompletes`, `Rejoined`, `GetReturns`, `SweptInTheEnd`), which with `ENABLED` is outside what the prover does. `OwnUser` is only proved.
The theorems have the hypotheses that the tables name, and the runs satisfy them.

## 5. What is not modelled

* SET, DEL and SET_PROPERTY between servers: they go the way of ADD, and of a task that only sends. `clear` is in
  `SsoService` and `SessionRepository`, not in `Cluster`.
* The lookups of the service page, which only read; what agents do when they are told that a session has gone.
* The number behind the sweeper's limit, which overflows from 35,792 minutes on (`initWessionServer.jsp:122`).
* More than two servers. All configurations in the repository have two.
* The bounds of 100 connections and of 100 worker threads, and the journal's own failures
  (a disk that is full): the code logs and goes on.
* An orderly `stop` of a server in `Cluster` is taken for a crash. `Journal` has it.
* `SwitchLock`, `ConcurrentMultiMap`, `ReverseLineReader`, the nio server, the dispatchers and the client
  samples: nothing uses them. Cryptography, licence, configuration: no behaviour over
  time. `ManagerService` and `SessionService`: stubs. Administration pages, vendored scripts,
  libraries, logs: not the program's logic.

## 6. The plan

Order of work, most important behaviour first; the first seven are done.

1. `SessionRepository` with `SessionStore`, its proofs.
2. `Journal`.
3. `AgentFuture`.
4. `Cluster`: membership, start, recovery, create and expire.
5. Runs and mutants for the above.
6. `SsoService`: the service page, the kill page and the sweeper, with ADD, REMOVE and CLEAR between servers.
7. Proofs: the agent's verdicts and the order of its requests, the journal, membership and `InSync` of the cluster, the
   invariants of the service page, and that `SessionRepository` implements `SessionStore`.
8. `ReplayExact` as a theorem, with an invariant that says which requests under way commute.
9. SET and DEL on the receiver's worker against the queued CREATE.
10. An abstract specification of a replicated set of sessions: each server's set moves
   by the commands asked for; `Cluster` without cuts refines it.
