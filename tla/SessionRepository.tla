------------------------- MODULE SessionRepository -------------------------
(***************************************************************************)
(* WessionRepository, its IndexRepository and the WessionMutilMap of the   *)
(* index.  Sessions live in a concurrent map by id (memory) and in a       *)
(* multimap by user: cache maps a user to a HashMap object, and each user  *)
(* has a lock object in locks, made on demand and thrown away with the     *)
(* user's last session.  Lock and HashMap objects have an identity here,   *)
(* because a thread may still hold one that the shared maps no longer name.*)
(*                                                                         *)
(* Every operation on a ConcurrentHashMap is one step; entering a monitor  *)
(* is merged with the read that follows it, and leaving one with the write *)
(* before it.                                                              *)
(***************************************************************************)
CONSTANTS Sessions,   \* session ids
          Users,      \* user ids, the keys of the index
          UserOf,     \* the user of a session, Null when it has none
          Workers,    \* the threads that create, expire and clear
          Readers,    \* the threads that look sessions up by user
          Commands,   \* what the workers are asked for: "create", "expire", "clear"
          Locks,      \* lock objects that can be live at the same time
          Maps,       \* HashMap objects that can be live at the same time
          Null

Threads == Workers \cup Readers

ASSUME RepositoryAssumption ==
  /\ UserOf \in [Sessions -> Users \cup {Null}]
  /\ Commands \subseteq {"create", "expire", "clear"}
  /\ Workers \cap Readers = {}
  /\ Null \notin Users \cup Sessions \cup Locks \cup Maps

VARIABLES
  memory,   \* memoryRepository: ids of the stored sessions
  cache,    \* WessionMutilMap.cache: the HashMap object of a user, or Null
  content,  \* the sessions in a HashMap object
  locks,    \* WessionMutilMap.locks: the lock object of a user, or Null
  pc,       \* where a thread is
  task,     \* the index operation a thread performs
  user,     \* the index key of that operation
  arg,      \* its session
  lock,     \* the lock object a thread waits for or holds
  map,      \* the HashMap object a thread works on
  answer,   \* what a lookup has read
  dropped,  \* history: users whose lock object has been thrown away
  torn,     \* history: those for which that, or a clear, met another update of the index
  crossed   \* history: sessions about which two updates of the index were under way

vars == <<memory, cache, content, locks, pc, task, user, arg, lock, map, answer, dropped, torn,
          crossed>>
locals == <<task, user, arg, lock, map, answer>>
history == <<dropped, torn, crossed>>

Inside == {"mutate", "publish", "drop", "uncache", "collect"}

\* A lookup that met a ConcurrentModificationException.
Failed == {Null}

TypeOK ==
  /\ memory \subseteq Sessions
  /\ cache \in [Users -> Maps \cup {Null}]
  /\ content \in [Maps -> SUBSET Sessions]
  /\ locks \in [Users -> Locks \cup {Null}]
  /\ pc \in [Threads -> {"idle", "lock", "enter", "done", "clearLocks", "clearCache"} \cup Inside]
  /\ task \in [Threads -> {"put", "remove", "get"}]
  /\ user \in [Threads -> Users \cup {Null}]
  /\ arg \in [Threads -> Sessions \cup {Null}]
  /\ lock \in [Threads -> Locks \cup {Null}]
  /\ map \in [Threads -> Maps \cup {Null}]
  /\ answer \in [Threads -> (SUBSET Sessions) \cup {Failed}]
  /\ dropped \subseteq Users /\ torn \subseteq Users
  /\ crossed \subseteq Sessions

Init ==
  /\ memory = {}
  /\ cache = [u \in Users |-> Null]
  /\ content = [m \in Maps |-> {}]
  /\ locks = [u \in Users |-> Null]
  /\ pc = [t \in Threads |-> "idle"]
  /\ task = [t \in Threads |-> "get"]
  /\ user = [t \in Threads |-> Null]
  /\ arg = [t \in Threads |-> Null]
  /\ lock = [t \in Threads |-> Null]
  /\ map = [t \in Threads |-> Null]
  /\ answer = [t \in Threads |-> {}]
  /\ dropped = {} /\ torn = {} /\ crossed = {}

-----------------------------------------------------------------------------
(* Objects and monitors *)

FreshLocks == Locks \ ({locks[u] : u \in Users} \cup {lock[t] : t \in Threads})

FreshMaps == Maps \ ({cache[u] : u \in Users} \cup {map[t] : t \in Threads})

\* new Object(), new HashMap(): which unused object it is does not matter.
New(objects) == CHOOSE o \in objects : TRUE

\* mutant: the synchronized block is missing
MonitorIgnored(t) == TRUE

MonitorFree(t) == \A r \in Threads \ {t} : lock[r] = lock[t] => pc[r] \notin Inside

\* Another thread changes the HashMap that t works on, at the same time.
Raced(t) == \E r \in Threads \ {t} : map[r] = map[t] /\ pc[r] = "mutate"

\* mutant: off by one
EmptiedTooSoon(m) == \A s, r \in content[m] : s = r

\* map.size() <= 0
Emptied(m) == content[m] = {}

\* mutant: the key and the session swapped
CallSwapped(t, op, u, s) ==
  /\ pc' = [pc EXCEPT ![t] = "lock"]
  /\ task' = [task EXCEPT ![t] = op]
  /\ user' = [user EXCEPT ![t] = s]
  /\ arg' = [arg EXCEPT ![t] = u]
  /\ UNCHANGED <<lock, map, answer>>

\* Thread t starts an index operation.
Call(t, op, u, s) ==
  /\ pc' = [pc EXCEPT ![t] = "lock"]
  /\ task' = [task EXCEPT ![t] = op]
  /\ user' = [user EXCEPT ![t] = u]
  /\ arg' = [arg EXCEPT ![t] = s]
  /\ UNCHANGED <<lock, map, answer>>

\* Thread t leaves the monitor and its locals are gone.
Leave(t, where) ==
  /\ pc' = [pc EXCEPT ![t] = where]
  /\ task' = [task EXCEPT ![t] = "get"]
  /\ user' = [user EXCEPT ![t] = Null]
  /\ arg' = [arg EXCEPT ![t] = Null]
  /\ lock' = [lock EXCEPT ![t] = Null]
  /\ map' = [map EXCEPT ![t] = Null]

Goto(t, where) == pc' = [pc EXCEPT ![t] = where]

-----------------------------------------------------------------------------
(* History: what may go wrong with the index *)

\* The workers that update the index of user u, or wait to.
AtIndex(u) == {t \in Workers : user[t] = u}

Clearing == \E t \in Workers : pc[t] \in {"clearLocks", "clearCache"}

\* Worker t calls the index about session s of user u: it may meet another update
\* about s, a clear, or a remove that has thrown the lock object of u away.
Meets(t, u, s) ==
  /\ crossed' = IF \E r \in Workers : arg[r] = s THEN crossed \cup {s} ELSE crossed
  /\ torn' = IF Clearing \/ (\E r \in AtIndex(u) : pc[r] = "uncache")
               THEN torn \cup {u} ELSE torn

-----------------------------------------------------------------------------
(* WessionRepository *)

\* create: putIfAbsent; the index is told only of a session that was absent
\* and that has a user.
Create(t, s) ==
  /\ "create" \in Commands
  /\ pc[t] = "idle"
  /\ memory' = memory \cup {s}
  /\ IF s \in memory \/ UserOf[s] = Null
       THEN UNCHANGED <<pc, locals, torn, crossed>>
       ELSE Call(t, "put", UserOf[s], s) /\ Meets(t, UserOf[s], s)
  /\ UNCHANGED <<cache, content, locks, dropped>>

\* mutant: the index is not told
ExpireUntold(t, s) ==
  /\ pc[t] = "idle"
  /\ memory' = memory \ {s}
  /\ UNCHANGED <<pc, locals, cache, content, locks, history>>

\* expire: remove; the index is told only of a session that was present.  (For
\* a session without a user the index throws on the null key: nothing changes.)
Expire(t, s) ==
  /\ "expire" \in Commands
  /\ pc[t] = "idle"
  /\ memory' = memory \ {s}
  /\ IF s \notin memory \/ UserOf[s] = Null
       THEN UNCHANGED <<pc, locals, torn, crossed>>
       ELSE Call(t, "remove", UserOf[s], s) /\ Meets(t, UserOf[s], s)
  /\ UNCHANGED <<cache, content, locks, dropped>>

\* clear: the repository, then the lock objects, then the HashMaps; no monitor.
Clear(t) ==
  /\ "clear" \in Commands
  /\ pc[t] = "idle"
  /\ memory' = {}
  /\ torn' = torn \cup {u \in Users : AtIndex(u) # {}}
  /\ Goto(t, "clearLocks")
  /\ UNCHANGED <<cache, content, locks, locals, dropped, crossed>>

ClearLocks(t) ==
  /\ pc[t] = "clearLocks"
  /\ locks' = [u \in Users |-> Null]
  /\ dropped' = Users
  /\ Goto(t, "clearCache")
  /\ UNCHANGED <<memory, cache, content, locals, torn, crossed>>

ClearCache(t) ==
  /\ pc[t] = "clearCache"
  /\ cache' = [u \in Users |-> Null]
  /\ Goto(t, "idle")
  /\ UNCHANGED <<memory, content, locks, locals, history>>

\* getBy
Lookup(t, u) ==
  /\ pc[t] = "idle"
  /\ Call(t, "get", u, Null)
  /\ UNCHANGED <<memory, cache, content, locks, history>>

-----------------------------------------------------------------------------
(* WessionMutilMap *)

\* getLock: the lock object of the key, a new one if there is none.
GetLock(t) ==
  /\ pc[t] = "lock"
  /\ IF locks[user[t]] = Null
       THEN /\ FreshLocks # {}
            /\ locks' = [locks EXCEPT ![user[t]] = New(FreshLocks)]
            /\ lock' = [lock EXCEPT ![t] = New(FreshLocks)]
       ELSE /\ lock' = [lock EXCEPT ![t] = locks[user[t]]]
            /\ UNCHANGED locks
  /\ Goto(t, "enter")
  /\ UNCHANGED <<memory, cache, content, task, user, arg, map, answer, history>>

\* put enters the monitor and reads the user's HashMap, or makes one.
EnterPut(t) ==
  /\ pc[t] = "enter" /\ task[t] = "put"
  /\ MonitorFree(t)
  /\ IF cache[user[t]] = Null
       THEN /\ FreshMaps # {}
            /\ map' = [map EXCEPT ![t] = New(FreshMaps)]
            /\ content' = [content EXCEPT ![New(FreshMaps)] = {}]
       ELSE /\ map' = [map EXCEPT ![t] = cache[user[t]]]
            /\ UNCHANGED content
  /\ Goto(t, "mutate")
  /\ UNCHANGED <<memory, cache, locks, task, user, arg, lock, answer, history>>

\* remove enters the monitor and reads the user's HashMap.
EnterRemove(t) ==
  /\ pc[t] = "enter" /\ task[t] = "remove"
  /\ MonitorFree(t)
  /\ IF cache[user[t]] = Null
       THEN Leave(t, "idle")
       ELSE /\ map' = [map EXCEPT ![t] = cache[user[t]]]
            /\ Goto(t, "mutate")
            /\ UNCHANGED <<task, user, arg, lock>>
  /\ UNCHANGED <<memory, cache, content, locks, answer, history>>

\* get enters the monitor, reads the user's HashMap and starts to iterate.
EnterGet(t) ==
  /\ pc[t] = "enter" /\ task[t] = "get"
  /\ MonitorFree(t)
  /\ IF cache[user[t]] = Null
       THEN /\ Leave(t, "done")
            /\ UNCHANGED answer
       ELSE /\ map' = [map EXCEPT ![t] = cache[user[t]]]
            /\ answer' = [answer EXCEPT ![t] = content[cache[user[t]]]]
            /\ Goto(t, "collect")
            /\ UNCHANGED <<task, user, arg, lock>>
  /\ UNCHANGED <<memory, cache, content, locks, history>>

\* map.put and map.remove on a HashMap.  Of two changes at the same time, which
\* the class does not allow, either may be lost.
MutatePut(t) ==
  /\ pc[t] = "mutate" /\ task[t] = "put"
  /\ \/ content' = [content EXCEPT ![map[t]] = @ \cup {arg[t]}]
     \/ Raced(t) /\ UNCHANGED content
  /\ Goto(t, "publish")
  /\ UNCHANGED <<memory, cache, locks, locals, history>>

MutateRemove(t) ==
  /\ pc[t] = "mutate" /\ task[t] = "remove"
  /\ \/ content' = [content EXCEPT ![map[t]] = @ \ {arg[t]}]
     \/ Raced(t) /\ UNCHANGED content
  /\ Goto(t, "drop")
  /\ UNCHANGED <<memory, cache, locks, locals, history>>

\* put: cache.put, and the monitor is left.
Publish(t) ==
  /\ pc[t] = "publish"
  /\ cache' = [cache EXCEPT ![user[t]] = map[t]]
  /\ Leave(t, "idle")
  /\ UNCHANGED <<memory, content, locks, answer, history>>

\* remove: an empty HashMap takes the lock object with it, then goes itself.
Drop(t) ==
  /\ pc[t] = "drop"
  /\ IF Emptied(map[t])
       THEN /\ locks' = [locks EXCEPT ![user[t]] = Null]
            /\ dropped' = dropped \cup {user[t]}
            /\ torn' = IF AtIndex(user[t]) # {t} THEN torn \cup {user[t]} ELSE torn
            /\ Goto(t, "uncache")
            /\ UNCHANGED <<task, user, arg, lock, map>>
       ELSE /\ Leave(t, "idle")
            /\ UNCHANGED <<locks, dropped, torn>>
  /\ UNCHANGED <<memory, cache, content, answer, crossed>>

Uncache(t) ==
  /\ pc[t] = "uncache"
  /\ cache' = [cache EXCEPT ![user[t]] = Null]
  /\ Leave(t, "idle")
  /\ UNCHANGED <<memory, content, locks, answer, history>>

\* get: the iteration ends; it throws when the HashMap has changed since.
Collect(t) ==
  /\ pc[t] = "collect"
  /\ answer' = [answer EXCEPT ![t] = IF @ = content[map[t]] THEN @ ELSE Failed]
  /\ Leave(t, "done")
  /\ UNCHANGED <<memory, cache, content, locks, history>>

\* The caller of getBy has used the answer.
Return(t) ==
  /\ pc[t] = "done"
  /\ answer' = [answer EXCEPT ![t] = {}]
  /\ Goto(t, "idle")
  /\ UNCHANGED <<memory, cache, content, locks, task, user, arg, lock, map, history>>

-----------------------------------------------------------------------------
Index(t) ==
  \/ GetLock(t)
  \/ EnterPut(t) \/ MutatePut(t) \/ Publish(t)
  \/ EnterRemove(t) \/ MutateRemove(t) \/ Drop(t) \/ Uncache(t)
  \/ EnterGet(t) \/ Collect(t) \/ Return(t)

Work(t) ==
  \/ \E s \in Sessions : Create(t, s) \/ Expire(t, s)
  \/ Clear(t) \/ ClearLocks(t) \/ ClearCache(t)

Next == \/ \E t \in Workers : Work(t)
        \/ \E t \in Readers, u \in Users : Lookup(t, u)
        \/ \E t \in Threads : Index(t)

Spec == Init /\ [][Next]_vars

=============================================================================
