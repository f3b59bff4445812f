---------------------- MODULE SessionRepositoryProofs ----------------------
(***************************************************************************)
(* Proofs, for every set of sessions, users and threads: what holds        *)
(* whatever the threads do at the same time.                               *)
(***************************************************************************)
EXTENDS SessionRepositoryProps, TLAPS

-----------------------------------------------------------------------------
(* The inductive invariants *)

Busy == {"lock", "enter"} \cup Inside

\* What a thread's locals hold at each place.
LocalsOK(t) ==
  /\ pc[t] \in Busy => user[t] \in Users
  /\ pc[t] \in Busy \ {"lock"} => lock[t] \in Locks
  /\ pc[t] \in Inside => map[t] \in Maps
  /\ pc[t] \notin Busy => user[t] = Null /\ arg[t] = Null
  /\ pc[t] \notin Busy \ {"lock"} => lock[t] = Null
  /\ pc[t] \notin Inside => map[t] = Null
  /\ pc[t] \in {"publish"} => task[t] = "put"
  /\ pc[t] \in {"drop", "uncache"} => task[t] = "remove"
  /\ pc[t] = "collect" => task[t] = "get"
  /\ pc[t] = "mutate" => task[t] # "get"
  /\ pc[t] \in Busy /\ task[t] # "get" => t \in Workers /\ arg[t] \in Owned(user[t])
  /\ pc[t] \in {"clearLocks", "clearCache"} => t \in Workers
  /\ pc[t] \in Busy /\ t \in Workers => task[t] # "get"

LocalsInv == \A t \in Threads : LocalsOK(t)

\* A HashMap object belongs to one user, and holds sessions of that user.
MapsInv ==
  /\ \A u, v \in Users : cache[u] # Null /\ cache[u] = cache[v] => u = v
  /\ \A t \in Threads, u \in Users : map[t] # Null /\ map[t] = cache[u] => user[t] = u
  /\ \A t, r \in Threads : map[t] # Null /\ map[t] = map[r] => user[t] = user[r]
  /\ \A u \in Users : cache[u] # Null => content[cache[u]] \subseteq Owned(u)
  /\ \A t \in Threads : map[t] # Null => content[map[t]] \subseteq Owned(user[t])

\* One thread at a time holds a lock object, and until a user's lock object has
\* been thrown away every thread at the user's index has that object.
LocksInv ==
  /\ \A t, r \in Threads :
       t # r /\ pc[t] \in Inside /\ pc[r] \in Inside => lock[t] # lock[r]
  /\ \A t \in Threads :
       lock[t] # Null /\ user[t] \notin dropped => lock[t] = locks[user[t]]

SafeInv == TypeOK /\ LocalsInv /\ MapsInv /\ LocksInv

\* Until then the HashMap a lookup iterates over does not change.
LookupInv ==
  \A t \in Threads :
    pc[t] = "collect" /\ user[t] \notin dropped => answer[t] = content[map[t]]

(* For a user that was never torn.  A worker at the user's index has the lock object
   that locks names, unless it has thrown that away and is alone; during a clear
   nobody is there, and nothing of the user is stored. *)
LockKept(t) ==
  user[t] \in Users \ torn =>
    /\ pc[t] = "uncache" => \A r \in Workers \ {t} : user[r] # user[t]
    /\ lock[t] # Null /\ pc[t] # "uncache" => lock[t] = locks[user[t]]

ClearedAlone(t) ==
  pc[t] \in {"clearLocks", "clearCache"} =>
    \A u \in Users \ torn : /\ memory \cap Owned(u) = {}
                            /\ \A r \in Workers : user[r] # u

\* The HashMap that a worker inside the monitor has in its hands: the user's, or a
\* new one with nothing in it but the worker's session.
HandOK(t) ==
  user[t] \in Users \ torn =>
    /\ pc[t] = "mutate" /\ task[t] = "put" =>
         /\ cache[user[t]] \in {Null, map[t]}
         /\ cache[user[t]] = Null => content[map[t]] = {}
    /\ pc[t] = "publish" =>
         /\ cache[user[t]] \in {Null, map[t]}
         /\ arg[t] \in content[map[t]]
         /\ cache[user[t]] = Null => content[map[t]] = {arg[t]}
    /\ pc[t] = "mutate" /\ task[t] = "remove" => cache[user[t]] = map[t]
    /\ pc[t] = "drop" => cache[user[t]] = map[t] /\ arg[t] \notin content[map[t]]
    /\ pc[t] = "uncache" => cache[user[t]] = map[t] /\ content[map[t]] = {}

\* One worker at a time updates the index about a session that was never crossed, and
\* the update is what the repository asks for.
ToldRight(t) ==
  user[t] \in Users \ torn /\ arg[t] \in Sessions \ crossed =>
    /\ \A r \in Workers \ {t} : arg[r] # arg[t]
    /\ task[t] = "put" => arg[t] \in memory
    /\ task[t] = "remove" => arg[t] \notin memory

LocksKept == \A t \in Workers : LockKept(t) /\ ClearedAlone(t)
HandsInv == \A t \in Workers : HandOK(t)
ToldInv == \A t \in Workers : ToldRight(t)

ExactInv == SafeInv /\ LocksKept /\ HandsInv /\ ToldInv /\ IndexExact

-----------------------------------------------------------------------------
(* What holds whatever the threads do *)

\* new returns one of the unused objects.
LEMMA NewIsNew ==
  ASSUME NEW objects, objects # {}
  PROVE  New(objects) \in objects
BY DEF New

\* The threads start with the two maps of the index empty.
LEMMA SafeInit == Init => SafeInv
<1> SUFFICES ASSUME Init PROVE SafeInv
  OBVIOUS
<1>1. TypeOK
  BY DEF Init, TypeOK, Inside
<1>2. LocalsInv
  BY DEF Init, LocalsInv, LocalsOK, Busy, Inside
<1>3. MapsInv
  BY DEF Init, MapsInv
<1>4. LocksInv
  BY DEF Init, LocksInv, Inside
<1>5. QED BY <1>1, <1>2, <1>3, <1>4 DEF SafeInv

\* Every step keeps the invariant.
LEMMA SafeStep == SafeInv /\ [Next]_vars => SafeInv'
<1> SUFFICES ASSUME SafeInv, [Next]_vars PROVE SafeInv'
  OBVIOUS
<1>1. ASSUME NEW t \in Workers, NEW s \in Sessions, Create(t, s) PROVE SafeInv'
  <2>1. TypeOK'
    BY <1>1, RepositoryAssumption DEF SafeInv, TypeOK, Inside, Create, Call, Meets, locals, history, Threads
  <2>2. LocalsInv'
    BY <1>1, RepositoryAssumption
    DEF SafeInv, TypeOK, LocalsInv, LocalsOK, Owned, Busy, Inside, Create, Call, Meets, locals, history, Threads
  <2>3. MapsInv'
    BY <1>1, RepositoryAssumption
    DEF SafeInv, TypeOK, LocalsInv, LocalsOK, MapsInv, Owned, Busy, Inside, Create, Call, Meets,
        locals, history, Threads
  <2>4. LocksInv'
    BY <1>1, RepositoryAssumption
    DEF SafeInv, TypeOK, LocalsInv, LocalsOK, LocksInv, Busy, Inside, Create, Call, Meets, locals, history,
        Threads
  <2>5. QED BY <2>1, <2>2, <2>3, <2>4 DEF SafeInv
<1>2. ASSUME NEW t \in Workers, NEW s \in Sessions, Expire(t, s) PROVE SafeInv'
  <2>1. TypeOK'
    BY <1>2, RepositoryAssumption DEF SafeInv, TypeOK, Inside, Expire, Call, Meets, locals, history, Threads
  <2>2. LocalsInv'
    BY <1>2, RepositoryAssumption
    DEF SafeInv, TypeOK, LocalsInv, LocalsOK, Owned, Busy, Inside, Expire, Call, Meets, locals, history, Threads
  <2>3. MapsInv'
    BY <1>2, RepositoryAssumption
    DEF SafeInv, TypeOK, LocalsInv, LocalsOK, MapsInv, Owned, Busy, Inside, Expire, Call, Meets,
        locals, history, Threads
  <2>4. LocksInv'
    BY <1>2, RepositoryAssumption
    DEF SafeInv, TypeOK, LocalsInv, LocalsOK, LocksInv, Busy, Inside, Expire, Call, Meets, locals, history,
        Threads
  <2>5. QED BY <2>1, <2>2, <2>3, <2>4 DEF SafeInv
<1>3. ASSUME NEW t \in Workers, Clear(t) PROVE SafeInv'
  <2>1. TypeOK'
    BY <1>3, RepositoryAssumption DEF SafeInv, TypeOK, Inside, Clear, Goto, locals, history, Threads
  <2>2. LocalsInv'
    BY <1>3, RepositoryAssumption
    DEF SafeInv, TypeOK, LocalsInv, LocalsOK, Owned, Busy, Inside, Clear, Goto, locals, history, Threads
  <2>3. MapsInv'
    BY <1>3, RepositoryAssumption
    DEF SafeInv, TypeOK, LocalsInv, LocalsOK, MapsInv, Owned, Busy, Inside, Clear, Goto,
        locals, history, Threads
  <2>4. LocksInv'
    BY <1>3, RepositoryAssumption
    DEF SafeInv, TypeOK, LocalsInv, LocalsOK, LocksInv, Busy, Inside, Clear, Goto, locals, history,
        Threads
  <2>5. QED BY <2>1, <2>2, <2>3, <2>4 DEF SafeInv
<1>4. ASSUME NEW t \in Workers, ClearLocks(t) PROVE SafeInv'
  <2>1. TypeOK'
    BY <1>4, RepositoryAssumption DEF SafeInv, TypeOK, Inside, ClearLocks, Goto, locals, history, Threads
  <2>2. LocalsInv'
    BY <1>4, RepositoryAssumption
    DEF SafeInv, TypeOK, LocalsInv, LocalsOK, Owned, Busy, Inside, ClearLocks, Goto, locals, history,
        Threads
  <2>3. MapsInv'
    BY <1>4, RepositoryAssumption
    DEF SafeInv, TypeOK, LocalsInv, LocalsOK, MapsInv, Owned, Busy, Inside, ClearLocks, Goto,
        locals, history, Threads
  <2>4. LocksInv'
    BY <1>4, RepositoryAssumption
    DEF SafeInv, TypeOK, LocalsInv, LocalsOK, LocksInv, Busy, Inside, ClearLocks, Goto, locals, history,
        Threads
  <2>5. QED BY <2>1, <2>2, <2>3, <2>4 DEF SafeInv
<1>5. ASSUME NEW t \in Workers, ClearCache(t) PROVE SafeInv'
  <2>1. TypeOK'
    BY <1>5, RepositoryAssumption DEF SafeInv, TypeOK, Inside, ClearCache, Goto, locals, history, Threads
  <2>2. LocalsInv'
    BY <1>5, RepositoryAssumption
    DEF SafeInv, TypeOK, LocalsInv, LocalsOK, Owned, Busy, Inside, ClearCache, Goto, locals, history,
        Threads
  <2>3. MapsInv'
    BY <1>5, RepositoryAssumption
    DEF SafeInv, TypeOK, LocalsInv, LocalsOK, MapsInv, Owned, Busy, Inside, ClearCache, Goto,
        locals, history, Threads
  <2>4. LocksInv'
    BY <1>5, RepositoryAssumption
    DEF SafeInv, TypeOK, LocalsInv, LocalsOK, LocksInv, Busy, Inside, ClearCache, Goto, locals, history,
        Threads
  <2>5. QED BY <2>1, <2>2, <2>3, <2>4 DEF SafeInv
<1>6. ASSUME NEW t \in Readers, NEW u \in Users, Lookup(t, u) PROVE SafeInv'
  <2>1. TypeOK'
    BY <1>6, RepositoryAssumption DEF SafeInv, TypeOK, Inside, Lookup, Call, locals, history, Threads
  <2>2. LocalsInv'
    BY <1>6, RepositoryAssumption
    DEF SafeInv, TypeOK, LocalsInv, LocalsOK, Owned, Busy, Inside, Lookup, Call, locals, history, Threads
  <2>3. MapsInv'
    BY <1>6, RepositoryAssumption
    DEF SafeInv, TypeOK, LocalsInv, LocalsOK, MapsInv, Owned, Busy, Inside, Lookup, Call,
        locals, history, Threads
  <2>4. LocksInv'
    BY <1>6, RepositoryAssumption
    DEF SafeInv, TypeOK, LocalsInv, LocalsOK, LocksInv, Busy, Inside, Lookup, Call, locals, history,
        Threads
  <2>5. QED BY <2>1, <2>2, <2>3, <2>4 DEF SafeInv
<1>7. ASSUME NEW t \in Threads, GetLock(t) PROVE SafeInv'
  <2>a. locks[user[t]] = Null => New(FreshLocks) \in FreshLocks
    BY <1>7, NewIsNew DEF GetLock
  <2>b. pc[t] \notin Inside /\ user[t] \in Users
    BY <1>7 DEF SafeInv, LocalsInv, LocalsOK, GetLock, Busy, Inside, Threads
  <2>1. TypeOK'
    BY <1>7, <2>a, <2>b, RepositoryAssumption
    DEF SafeInv, TypeOK, Inside, GetLock, Goto, FreshLocks, locals, history, Threads
  <2>2. LocalsInv'
    BY <1>7, <2>a, <2>b, RepositoryAssumption
    DEF SafeInv, TypeOK, LocalsInv, LocalsOK, Owned, Busy, Inside, GetLock, Goto, FreshLocks,
        locals, history, Threads
  <2>3. MapsInv'
    BY <1>7, <2>a, <2>b, RepositoryAssumption
    DEF SafeInv, TypeOK, LocalsInv, LocalsOK, MapsInv, Owned, Busy, Inside, GetLock, Goto,
        FreshLocks, locals, history, Threads
  <2>4. LocksInv'
    BY <1>7, <2>a, <2>b, RepositoryAssumption
    DEF SafeInv, TypeOK, LocalsInv, LocalsOK, LocksInv, Busy, Inside, GetLock, Goto,
        FreshLocks, locals, history, Threads
  <2>5. QED BY <2>1, <2>2, <2>3, <2>4 DEF SafeInv
<1>8. ASSUME NEW t \in Threads, EnterPut(t) PROVE SafeInv'
  <2>a. cache[user[t]] = Null => New(FreshMaps) \in FreshMaps
    BY <1>8, NewIsNew DEF EnterPut
  <2>b. pc[t] = "enter" /\ user[t] \in Users
    BY <1>8 DEF SafeInv, LocalsInv, LocalsOK, EnterPut, Busy, Inside, Threads
  <2>1. TypeOK'
    <3>1. CASE cache[user[t]] = Null
      <4>1. map' \in [Threads -> Maps \cup {Null}] /\ content' \in [Maps -> SUBSET Sessions]
        BY <1>8, <2>a, <3>1 DEF SafeInv, TypeOK, EnterPut, FreshMaps
      <4>2. QED
        BY <1>8, <4>1 DEF SafeInv, TypeOK, EnterPut, Goto, Inside, history
    <3>2. CASE cache[user[t]] # Null
      BY <1>8, <2>b, <3>2, RepositoryAssumption
      DEF SafeInv, TypeOK, Inside, EnterPut, Goto, history, Threads
    <3>3. QED BY <3>1, <3>2
  <2>2. LocalsInv'
    BY <1>8, <2>a, <2>b, RepositoryAssumption
    DEF SafeInv, TypeOK, LocalsInv, LocalsOK, Owned, Busy, Inside, EnterPut, Goto, FreshMaps,
        MonitorFree, locals, history, Threads
  <2>3. MapsInv'
    <3>1. CASE cache[user[t]] = Null
      <4> DEFINE m == New(FreshMaps)
      <4>1. m \in Maps /\ (\A u \in Users : cache[u] # m) /\ (\A r \in Threads : map[r] # m)
        BY <3>1, <2>a DEF FreshMaps
      <4>2. /\ map' = [map EXCEPT ![t] = m]
            /\ content' = [content EXCEPT ![m] = {}]
            /\ UNCHANGED <<cache, user>>
        BY <1>8, <3>1 DEF EnterPut
      <4> HIDE DEF m
      <4>3. QED
        BY <4>1, <4>2, <2>b, RepositoryAssumption DEF SafeInv, TypeOK, MapsInv, Owned, Threads
    <3>2. CASE cache[user[t]] # Null
      BY <1>8, <2>b, <3>2, RepositoryAssumption DEF SafeInv, TypeOK, MapsInv, EnterPut, history, Threads
    <3>3. QED BY <3>1, <3>2
  <2>4. LocksInv'
    BY <1>8, <2>a, <2>b, RepositoryAssumption
    DEF SafeInv, TypeOK, LocalsInv, LocalsOK, LocksInv, Busy, Inside, EnterPut, Goto,
        FreshMaps, MonitorFree, locals, history, Threads
  <2>5. QED BY <2>1, <2>2, <2>3, <2>4 DEF SafeInv
<1>9. ASSUME NEW t \in Threads, EnterRemove(t) PROVE SafeInv'
  <2>a. user[t] \in Users
    BY <1>9 DEF SafeInv, LocalsInv, LocalsOK, EnterRemove, Busy, Inside, Threads
  <2>1. TypeOK'
    <3>1. CASE cache[user[t]] = Null
      BY <1>9, <2>a, <3>1, RepositoryAssumption
      DEF SafeInv, TypeOK, LocalsInv, LocalsOK, Busy, Inside, EnterRemove, Goto, Leave,
          MonitorFree, locals, history, Threads
    <3>2. CASE ~(cache[user[t]] = Null)
      BY <1>9, <2>a, <3>2, RepositoryAssumption
      DEF SafeInv, TypeOK, LocalsInv, LocalsOK, Busy, Inside, EnterRemove, Goto, Leave,
          MonitorFree, locals, history, Threads
    <3>3. QED BY <3>1, <3>2
  <2>2. LocalsInv'
    BY <1>9, RepositoryAssumption
    DEF SafeInv, TypeOK, LocalsInv, LocalsOK, Owned, Busy, Inside, EnterRemove, Goto, Leave,
        MonitorFree, locals, history, Threads
  <2>3. MapsInv'
    <3>1. CASE cache[user[t]] = Null
      BY <1>9, <2>a, <3>1, RepositoryAssumption
      DEF SafeInv, TypeOK, LocalsInv, LocalsOK, MapsInv, Owned, Busy, Inside, EnterRemove,
          Goto, Leave, MonitorFree, locals, history, Threads
    <3>2. CASE ~(cache[user[t]] = Null)
      BY <1>9, <2>a, <3>2, RepositoryAssumption
      DEF SafeInv, TypeOK, LocalsInv, LocalsOK, MapsInv, Owned, Busy, Inside, EnterRemove,
          Goto, Leave, MonitorFree, locals, history, Threads
    <3>3. QED BY <3>1, <3>2
  <2>4. LocksInv'
    BY <1>9, RepositoryAssumption
    DEF SafeInv, TypeOK, LocalsInv, LocalsOK, LocksInv, Busy, Inside, EnterRemove, Goto, Leave,
        MonitorFree, locals, history, Threads
  <2>5. QED BY <2>1, <2>2, <2>3, <2>4 DEF SafeInv
<1>10. ASSUME NEW t \in Threads, EnterGet(t) PROVE SafeInv'
  <2>1. TypeOK'
    BY <1>10, RepositoryAssumption
    DEF SafeInv, TypeOK, LocalsInv, LocalsOK, Busy, Inside, EnterGet, Goto, Leave, MonitorFree,
        locals, history, Threads
  <2>2. LocalsInv'
    BY <1>10, RepositoryAssumption
    DEF SafeInv, TypeOK, LocalsInv, LocalsOK, Owned, Busy, Inside, EnterGet, Goto, Leave,
        MonitorFree, locals, history, Threads
  <2>3. MapsInv'
    BY <1>10, RepositoryAssumption
    DEF SafeInv, TypeOK, LocalsInv, LocalsOK, MapsInv, Owned, Busy, Inside, EnterGet, Goto,
        Leave, MonitorFree, locals, history, Threads
  <2>4. LocksInv'
    BY <1>10, RepositoryAssumption
    DEF SafeInv, TypeOK, LocalsInv, LocalsOK, LocksInv, Busy, Inside, EnterGet, Goto, Leave,
        MonitorFree, locals, history, Threads
  <2>5. QED BY <2>1, <2>2, <2>3, <2>4 DEF SafeInv
<1>11. ASSUME NEW t \in Threads, MutatePut(t) PROVE SafeInv'
  <2>1. TypeOK'
    BY <1>11, RepositoryAssumption
    DEF SafeInv, TypeOK, LocalsInv, LocalsOK, Owned, Busy, Inside, MutatePut, Goto, locals, history,
        Threads
  <2>2. LocalsInv'
    BY <1>11, RepositoryAssumption
    DEF SafeInv, TypeOK, LocalsInv, LocalsOK, Owned, Busy, Inside, MutatePut, Goto, locals, history,
        Threads
  <2>3. MapsInv'
    BY <1>11, RepositoryAssumption
    DEF SafeInv, TypeOK, LocalsInv, LocalsOK, MapsInv, Owned, Busy, Inside, MutatePut, Goto,
        locals, history, Threads
  <2>4. LocksInv'
    BY <1>11, RepositoryAssumption
    DEF SafeInv, TypeOK, LocalsInv, LocalsOK, LocksInv, Busy, Inside, MutatePut, Goto, locals, history,
        Threads
  <2>5. QED BY <2>1, <2>2, <2>3, <2>4 DEF SafeInv
<1>12. ASSUME NEW t \in Threads, MutateRemove(t) PROVE SafeInv'
  <2>1. TypeOK'
    BY <1>12, RepositoryAssumption
    DEF SafeInv, TypeOK, Inside, MutateRemove, Goto, locals, history, Threads
  <2>2. LocalsInv'
    BY <1>12, RepositoryAssumption
    DEF SafeInv, TypeOK, LocalsInv, LocalsOK, Owned, Busy, Inside, MutateRemove, Goto, locals, history,
        Threads
  <2>3. MapsInv'
    BY <1>12, RepositoryAssumption
    DEF SafeInv, TypeOK, LocalsInv, LocalsOK, MapsInv, Owned, Busy, Inside, MutateRemove, Goto,
        locals, history, Threads
  <2>4. LocksInv'
    BY <1>12, RepositoryAssumption
    DEF SafeInv, TypeOK, LocalsInv, LocalsOK, LocksInv, Busy, Inside, MutateRemove, Goto,
        locals, history, Threads
  <2>5. QED BY <2>1, <2>2, <2>3, <2>4 DEF SafeInv
<1>13. ASSUME NEW t \in Threads, Publish(t) PROVE SafeInv'
  <2>1. TypeOK'
    BY <1>13, RepositoryAssumption DEF SafeInv, TypeOK, Inside, Publish, Leave, locals, history, Threads
  <2>2. LocalsInv'
    BY <1>13, RepositoryAssumption
    DEF SafeInv, TypeOK, LocalsInv, LocalsOK, Owned, Busy, Inside, Publish, Leave, locals, history,
        Threads
  <2>3. MapsInv'
    BY <1>13, RepositoryAssumption
    DEF SafeInv, TypeOK, LocalsInv, LocalsOK, MapsInv, Owned, Busy, Inside, Publish, Leave,
        locals, history, Threads
  <2>4. LocksInv'
    BY <1>13, RepositoryAssumption
    DEF SafeInv, TypeOK, LocalsInv, LocalsOK, LocksInv, Busy, Inside, Publish, Leave, locals, history,
        Threads
  <2>5. QED BY <2>1, <2>2, <2>3, <2>4 DEF SafeInv
<1>14. ASSUME NEW t \in Threads, Drop(t) PROVE SafeInv'
  <2>a. user[t] \in Users
    BY <1>14 DEF SafeInv, LocalsInv, LocalsOK, Drop, Busy, Inside, Threads
  <2>1. TypeOK'
    BY <1>14, RepositoryAssumption
    DEF SafeInv, TypeOK, LocalsInv, LocalsOK, Busy, Inside, Drop, Emptied, Goto, Leave, locals, history, Threads
  <2>2. LocalsInv'
    BY <1>14, RepositoryAssumption
    DEF SafeInv, TypeOK, LocalsInv, LocalsOK, Owned, Busy, Inside, Drop, Emptied, Goto, Leave, locals, history,
        Threads
  <2>3. MapsInv'
    <3>1. CASE content[map[t]] = {}
      BY <1>14, <2>a, <3>1, RepositoryAssumption
      DEF SafeInv, TypeOK, LocalsInv, LocalsOK, MapsInv, Owned, Busy, Inside, Drop, Emptied, Goto,
          Leave, locals, history, Threads
    <3>2. CASE ~(content[map[t]] = {})
      BY <1>14, <2>a, <3>2, RepositoryAssumption
      DEF SafeInv, TypeOK, LocalsInv, LocalsOK, MapsInv, Owned, Busy, Inside, Drop, Emptied, Goto,
          Leave, locals, history, Threads
    <3>3. QED BY <3>1, <3>2
  <2>4. LocksInv'
    BY <1>14, RepositoryAssumption
    DEF SafeInv, TypeOK, LocalsInv, LocalsOK, LocksInv, Busy, Inside, Drop, Emptied, Goto, Leave,
        locals, history, Threads
  <2>5. QED BY <2>1, <2>2, <2>3, <2>4 DEF SafeInv
<1>15. ASSUME NEW t \in Threads, Uncache(t) PROVE SafeInv'
  <2>1. TypeOK'
    BY <1>15, RepositoryAssumption DEF SafeInv, TypeOK, Inside, Uncache, Leave, locals, history, Threads
  <2>2. LocalsInv'
    BY <1>15, RepositoryAssumption
    DEF SafeInv, TypeOK, LocalsInv, LocalsOK, Owned, Busy, Inside, Uncache, Leave, locals, history,
        Threads
  <2>3. MapsInv'
    BY <1>15, RepositoryAssumption
    DEF SafeInv, TypeOK, LocalsInv, LocalsOK, MapsInv, Owned, Busy, Inside, Uncache, Leave,
        locals, history, Threads
  <2>4. LocksInv'
    BY <1>15, RepositoryAssumption
    DEF SafeInv, TypeOK, LocalsInv, LocalsOK, LocksInv, Busy, Inside, Uncache, Leave, locals, history,
        Threads
  <2>5. QED BY <2>1, <2>2, <2>3, <2>4 DEF SafeInv
<1>16. ASSUME NEW t \in Threads, Collect(t) PROVE SafeInv'
  <2>a. user[t] \in Users
    BY <1>16 DEF SafeInv, LocalsInv, LocalsOK, Collect, Busy, Inside, Threads
  <2>1. TypeOK'
    <3>1. CASE answer[t] = content[map[t]]
      BY <1>16, <2>a, <3>1, RepositoryAssumption
      DEF SafeInv, TypeOK, LocalsInv, LocalsOK, Busy, Inside, Collect, Leave, locals, history, Threads
    <3>2. CASE ~(answer[t] = content[map[t]])
      BY <1>16, <2>a, <3>2, RepositoryAssumption
      DEF SafeInv, TypeOK, LocalsInv, LocalsOK, Busy, Inside, Collect, Leave, locals, history, Threads
    <3>3. QED BY <3>1, <3>2
  <2>2. LocalsInv'
    BY <1>16, RepositoryAssumption
    DEF SafeInv, TypeOK, LocalsInv, LocalsOK, Owned, Busy, Inside, Collect, Leave, locals, history,
        Threads
  <2>3. MapsInv'
    BY <1>16, RepositoryAssumption
    DEF SafeInv, TypeOK, LocalsInv, LocalsOK, MapsInv, Owned, Busy, Inside, Collect, Leave,
        locals, history, Threads
  <2>4. LocksInv'
    BY <1>16, RepositoryAssumption
    DEF SafeInv, TypeOK, LocalsInv, LocalsOK, LocksInv, Busy, Inside, Collect, Leave, locals, history,
        Threads
  <2>5. QED BY <2>1, <2>2, <2>3, <2>4 DEF SafeInv
<1>17. ASSUME NEW t \in Threads, Return(t) PROVE SafeInv'
  <2>1. TypeOK'
    BY <1>17, RepositoryAssumption DEF SafeInv, TypeOK, Inside, Return, Goto, locals, history, Threads
  <2>2. LocalsInv'
    BY <1>17, RepositoryAssumption
    DEF SafeInv, TypeOK, LocalsInv, LocalsOK, Owned, Busy, Inside, Return, Goto, locals, history, Threads
  <2>3. MapsInv'
    BY <1>17, RepositoryAssumption
    DEF SafeInv, TypeOK, LocalsInv, LocalsOK, MapsInv, Owned, Busy, Inside, Return, Goto,
        locals, history, Threads
  <2>4. LocksInv'
    BY <1>17, RepositoryAssumption
    DEF SafeInv, TypeOK, LocalsInv, LocalsOK, LocksInv, Busy, Inside, Return, Goto, locals, history,
        Threads
  <2>5. QED BY <2>1, <2>2, <2>3, <2>4 DEF SafeInv
<1>18. CASE UNCHANGED vars
  BY <1>18 DEF SafeInv, TypeOK, LocalsInv, LocalsOK, MapsInv, LocksInv, vars
<1>19. QED
  BY <1>1, <1>2, <1>3, <1>4, <1>5, <1>6, <1>7, <1>8, <1>9, <1>10, <1>11, <1>12, <1>13,
     <1>14, <1>15, <1>16, <1>17, <1>18 DEF Next, Work, Index, Threads

-----------------------------------------------------------------------------
(* The index of a user that was never torn *)

LEMMA ExactInit == Init => ExactInv
<1> SUFFICES ASSUME Init PROVE ExactInv
  OBVIOUS
<1>1. LocksKept /\ HandsInv /\ ToldInv
  BY RepositoryAssumption
  DEF Init, LocksKept, LockKept, ClearedAlone, HandsInv, HandOK, ToldInv, ToldRight, Threads
<1>2. IndexExact
  BY DEF Init, IndexExact, Indexed, Owned
<1>3. QED BY <1>1, <1>2, SafeInit DEF ExactInv

\* At such an index one worker at a time is inside the monitor.
LEMMA OneInside ==
  ASSUME SafeInv, LocksKept, NEW t \in Workers, NEW r \in Workers, t # r,
         user[t] \in Users \ torn, user[r] = user[t], pc[t] \in Inside
  PROVE  pc[r] \notin Inside
<1> SUFFICES ASSUME pc[r] \in Inside PROVE FALSE
  OBVIOUS
<1>1. pc[t] # "uncache" /\ pc[r] # "uncache"
  BY DEF LocksKept, LockKept
<1>2. lock[t] # Null /\ lock[r] # Null /\ lock[t] # lock[r]
  BY RepositoryAssumption DEF SafeInv, LocalsInv, LocalsOK, LocksInv, Busy, Inside, Threads
<1>3. QED BY <1>1, <1>2 DEF LocksKept, LockKept

\* Every step keeps the lock object of such a user where it is wanted.
LEMMA LocksStep ==
  ASSUME SafeInv, LocksKept, HandsInv, [Next]_vars
  PROVE  LocksKept'
<1>s. Workers \subseteq Threads
  BY DEF Threads
<1>1. ASSUME NEW t \in Workers, NEW s \in Sessions, Create(t, s) PROVE LocksKept'
  BY <1>1, <1>s, RepositoryAssumption
  DEF Create, Call, Meets, Clearing, AtIndex, locals, LocksKept, LockKept, ClearedAlone,
      SafeInv, TypeOK, LocalsInv, LocalsOK, Owned, Busy, Inside
<1>2. ASSUME NEW t \in Workers, NEW s \in Sessions, Expire(t, s) PROVE LocksKept'
  BY <1>2, <1>s, RepositoryAssumption
  DEF Expire, Call, Meets, Clearing, AtIndex, locals, LocksKept, LockKept, ClearedAlone,
      SafeInv, TypeOK, LocalsInv, LocalsOK, Owned, Busy, Inside
<1>3. ASSUME NEW t \in Workers, Clear(t) PROVE LocksKept'
  BY <1>3, <1>s, RepositoryAssumption
  DEF Clear, Goto, AtIndex, locals, LocksKept, LockKept, ClearedAlone,
      SafeInv, TypeOK, LocalsInv, LocalsOK, Owned, Busy, Inside
<1>4. ASSUME NEW t \in Workers, ClearLocks(t) PROVE LocksKept'
  BY <1>4, <1>s, RepositoryAssumption
  DEF ClearLocks, Goto, locals, LocksKept, LockKept, ClearedAlone,
      SafeInv, TypeOK, LocalsInv, LocalsOK, Owned, Busy, Inside
<1>5. ASSUME NEW t \in Workers, ClearCache(t) PROVE LocksKept'
  BY <1>5, <1>s, RepositoryAssumption
  DEF ClearCache, Goto, locals, history, LocksKept, LockKept, ClearedAlone,
      SafeInv, TypeOK, LocalsInv, LocalsOK, Owned, Busy, Inside
<1>6. ASSUME NEW t \in Readers, NEW u \in Users, Lookup(t, u) PROVE LocksKept'
  BY <1>6, <1>s, RepositoryAssumption
  DEF Lookup, Call, history, LocksKept, LockKept, ClearedAlone, SafeInv, TypeOK, Owned, Threads
<1>7. ASSUME NEW t \in Threads, GetLock(t) PROVE LocksKept'
  <2>1. user[t] \in Users /\ pc[t] = "lock"
    BY <1>7 DEF SafeInv, LocalsInv, LocalsOK, GetLock, Busy, Inside
  <2>2. locks[user[t]] = Null => New(FreshLocks) \in Locks
    BY <1>7, NewIsNew DEF GetLock, FreshLocks
  <2>3. ASSUME NEW w \in Workers, lock[w] # Null, user[w] \in Users \ torn, pc[w] # "uncache"
        PROVE  w # t /\ locks[user[w]] # Null
    BY <1>s, <2>1, <2>3 DEF LocksKept, LockKept, SafeInv, LocalsInv, LocalsOK, Busy, Inside
  <2>4. ASSUME NEW w \in Workers PROVE LockKept(w)'
    BY <1>7, <1>s, <2>1, <2>2, <2>3
    DEF GetLock, Goto, history, LocksKept, LockKept, SafeInv, TypeOK
  <2>5. ASSUME NEW w \in Workers PROVE ClearedAlone(w)'
    BY <1>7, <1>s, <2>1 DEF GetLock, Goto, history, LocksKept, ClearedAlone, SafeInv, TypeOK, Owned
  <2>6. QED BY <2>4, <2>5 DEF LocksKept
<1>8. ASSUME NEW t \in Threads,
             \/ EnterPut(t) \/ MutatePut(t) \/ MutateRemove(t) \/ Return(t)
      PROVE  LocksKept'
  BY <1>8, <1>s
  DEF EnterPut, MutatePut, MutateRemove, Return, Goto, locals, history, LocksKept, LockKept,
      ClearedAlone, SafeInv, TypeOK, Owned
<1>9. ASSUME NEW t \in Threads,
             \/ EnterRemove(t) \/ EnterGet(t) \/ Publish(t) \/ Uncache(t) \/ Collect(t)
      PROVE  LocksKept'
  BY <1>9, <1>s, RepositoryAssumption
  DEF EnterRemove, EnterGet, Publish, Uncache, Collect, Goto, Leave, history, LocksKept, LockKept,
      ClearedAlone, SafeInv, TypeOK, Owned
<1>10. ASSUME NEW t \in Threads, Drop(t) PROVE LocksKept'
  <2>1. t \in Workers /\ user[t] \in Users /\ pc[t] = "drop"
    BY <1>10 DEF SafeInv, LocalsInv, LocalsOK, Drop, Busy, Inside
  <2>2. CASE Emptied(map[t])
    <3>1. \A r \in Workers \ {t} : user[r] = user[t] => user[t] \in torn'
      BY <1>10, <2>1, <2>2 DEF Drop, AtIndex
    <3>2. QED
      BY <1>10, <1>s, <2>1, <2>2, <3>1
      DEF Drop, Goto, LocksKept, LockKept, ClearedAlone, SafeInv, TypeOK, Owned
  <2>3. CASE ~Emptied(map[t])
    BY <1>10, <1>s, <2>1, <2>3, RepositoryAssumption
    DEF Drop, Leave, LocksKept, LockKept, ClearedAlone, SafeInv, TypeOK, Owned
  <2>4. QED BY <2>2, <2>3
<1>11. CASE UNCHANGED vars
  BY <1>11 DEF vars, LocksKept, LockKept, ClearedAlone, Owned
<1>12. QED
  BY <1>1, <1>2, <1>3, <1>4, <1>5, <1>6, <1>7, <1>8, <1>9, <1>10, <1>11
  DEF Next, Work, Index, Threads

LEMMA HistoryGrows ==
  ASSUME [Next]_vars
  PROVE  torn \subseteq torn' /\ crossed \subseteq crossed'
  BY DEF Next, Work, Index, Create, Expire, Clear, ClearLocks, ClearCache, Lookup, GetLock, EnterPut,
         EnterRemove, EnterGet, MutatePut, MutateRemove, Publish, Drop, Uncache, Collect, Return,
         Meets, history, vars

\* What a worker has in its hands is out of the reach of another thread's step.
LEMMA HandFrame ==
  ASSUME NEW w \in Workers, HandOK(w), torn \subseteq torn',
         pc'[w] = pc[w], task'[w] = task[w], user'[w] = user[w], arg'[w] = arg[w],
         map'[w] = map[w], cache'[user[w]] = cache[user[w]], content'[map[w]] = content[map[w]]
  PROVE  HandOK(w)'
  BY DEF HandOK

\* Every step keeps what the workers have in their hands.
LEMMA HandsStep ==
  ASSUME SafeInv, LocksKept, HandsInv, [Next]_vars
  PROVE  HandsInv'
<1> SUFFICES ASSUME NEW w \in Workers, user'[w] \in Users \ torn', pc'[w] \in Inside
             PROVE  HandOK(w)'
  BY DEF HandsInv, HandOK, Inside
<1>s. HandOK(w) /\ w \in Threads /\ torn \subseteq torn' /\ Workers \subseteq Threads
  BY HistoryGrows DEF HandsInv, Threads
<1>a. pc[w] \in Inside => user[w] \in Users /\ map[w] \in Maps /\ user'[w] = user[w]
  BY <1>s, RepositoryAssumption
  DEF SafeInv, TypeOK, LocalsInv, LocalsOK, Busy, Inside, Next, Work, Index, Create, Expire, Clear,
      ClearLocks, ClearCache, Lookup, GetLock, EnterPut, EnterRemove, EnterGet, MutatePut,
      MutateRemove, Publish, Drop, Uncache, Collect, Return, Call, Goto, Leave, locals, vars
\* another worker inside a monitor is at another user, and so at another HashMap
<1>o. ASSUME NEW t \in Workers, t # w, pc[w] \in Inside, pc[t] \in Inside
      PROVE  user[t] # user[w] /\ map[t] # map[w] /\ user[t] \in Users /\ map[t] \in Maps
  <2>1. user[w] \in Users \ torn
    BY <1>s, <1>a, <1>o
  <2>2. user[t] # user[w]
    BY <1>o, <2>1, OneInside
  <2> QED
    BY <1>o, <1>s, <1>a, <2>2, RepositoryAssumption
    DEF SafeInv, MapsInv, LocalsInv, LocalsOK, Busy, Inside
<1>1. ASSUME NEW t \in Workers, NEW s \in Sessions, Create(t, s) \/ Expire(t, s)
      PROVE  HandOK(w)'
  <2>1. pc'[w] = pc[w] /\ task'[w] = task[w] /\ user'[w] = user[w] /\ arg'[w] = arg[w]
        /\ map'[w] = map[w] /\ cache' = cache /\ content' = content
    BY <1>1, <1>s DEF Create, Expire, Call, locals, SafeInv, TypeOK, Inside
  <2> QED
    BY <1>s, <2>1, HandFrame
<1>2. ASSUME NEW t \in Workers, Clear(t) \/ ClearLocks(t) PROVE HandOK(w)'
  <2>1. t # w /\ pc'[w] = pc[w] /\ cache' = cache /\ content' = content /\ UNCHANGED locals
    BY <1>2, <1>s DEF Clear, ClearLocks, Goto, SafeInv, TypeOK, Inside
  <2> QED
    BY <1>s, <2>1, HandFrame DEF locals
<1>3. ASSUME NEW t \in Workers, ClearCache(t) PROVE HandOK(w)'
  <2>1. \A u \in Users \ torn : user[w] # u
    BY <1>3 DEF ClearCache, LocksKept, ClearedAlone
  <2> QED
    BY <1>3, <1>s, <2>1 DEF ClearCache, locals
<1>4. ASSUME NEW t \in Threads,
             \/ \E u \in Users : Lookup(t, u)
             \/ GetLock(t) \/ EnterGet(t) \/ Collect(t) \/ Return(t)
      PROVE  HandOK(w)'
  <2>1. cache' = cache /\ content' = content
    BY <1>4 DEF Lookup, GetLock, EnterGet, Collect, Return
  <2>2. /\ pc'[w] = pc[w] /\ task'[w] = task[w] /\ user'[w] = user[w] /\ arg'[w] = arg[w]
        /\ map'[w] = map[w]
    BY <1>4, <1>s
    DEF Lookup, GetLock, EnterGet, Collect, Return, Call, Goto, Leave, SafeInv, TypeOK, LocalsInv,
        LocalsOK, Busy, Inside
  <2> QED
    BY <1>s, <2>1, <2>2, HandFrame
<1>5. ASSUME NEW t \in Threads, EnterPut(t) PROVE HandOK(w)'
  <2>1. /\ pc[t] = "enter" /\ task[t] = "put" /\ user[t] \in Users
        /\ pc' = [pc EXCEPT ![t] = "mutate"]
        /\ UNCHANGED <<cache, task, user, arg>>
    BY <1>5 DEF EnterPut, Goto, SafeInv, LocalsInv, LocalsOK, Busy
  <2>2. PICK o \in Maps : /\ map' = [map EXCEPT ![t] = o]
                          /\ cache[user[t]] = Null => content'[o] = {}
                          /\ cache[user[t]] # Null => o = cache[user[t]]
                          /\ \A r \in Threads : map[r] \in Maps => content'[map[r]] = content[map[r]]
    <3>1. CASE cache[user[t]] = Null
      <4> DEFINE m == New(FreshMaps)
      <4>1. m \in Maps /\ \A r \in Threads : map[r] # m
        BY <1>5, <3>1, NewIsNew DEF EnterPut, FreshMaps
      <4>2. map' = [map EXCEPT ![t] = m] /\ content' = [content EXCEPT ![m] = {}]
        BY <1>5, <3>1 DEF EnterPut
      <4> HIDE DEF m
      <4> QED
        BY <3>1, <4>1, <4>2 DEF SafeInv, TypeOK
    <3>2. CASE cache[user[t]] # Null
      <4>1. cache[user[t]] \in Maps
        BY <2>1, <3>2 DEF SafeInv, TypeOK
      <4> QED
        BY <1>5, <3>2, <4>1 DEF EnterPut
    <3> QED
      BY <3>1, <3>2
  <2>3. CASE w = t
    BY <1>s, <2>1, <2>2, <2>3 DEF HandOK, SafeInv, TypeOK
  <2>4. CASE w # t
    <3>1. pc'[w] = pc[w] /\ task'[w] = task[w] /\ user'[w] = user[w] /\ arg'[w] = arg[w]
          /\ map'[w] = map[w] /\ cache' = cache
      BY <1>s, <2>1, <2>2, <2>4 DEF SafeInv, TypeOK
    <3>2. content'[map[w]] = content[map[w]]
      BY <1>s, <1>a, <2>2, <3>1
    <3> QED
      BY <1>s, <3>1, <3>2, HandFrame
  <2> QED
    BY <2>3, <2>4
<1>6. ASSUME NEW t \in Threads, EnterRemove(t) PROVE HandOK(w)'
  <2>1. /\ cache' = cache /\ content' = content
        /\ pc[t] = "enter" /\ task[t] = "remove"
    BY <1>6 DEF EnterRemove
  <2>2. CASE w = t
    <3>1. /\ pc'[w] = "mutate" /\ task'[w] = "remove" /\ user'[w] = user[w]
          /\ map'[w] = cache[user[w]]
      BY <1>6, <1>s, <2>2 DEF EnterRemove, Goto, Leave, SafeInv, TypeOK, Inside
    <3> QED
      BY <2>1, <3>1 DEF HandOK
  <2>3. CASE w # t
    <3>1. pc'[w] = pc[w] /\ task'[w] = task[w] /\ user'[w] = user[w] /\ arg'[w] = arg[w]
          /\ map'[w] = map[w]
      BY <1>6, <1>s, <2>3 DEF EnterRemove, Goto, Leave, SafeInv, TypeOK
    <3> QED
      BY <1>s, <2>1, <3>1, HandFrame
  <2> QED
    BY <2>2, <2>3
\* a reader puts nothing and removes nothing
<1>7. ASSUME NEW t \in Threads,
             MutatePut(t) \/ MutateRemove(t) \/ Publish(t) \/ Drop(t) \/ Uncache(t)
      PROVE  t \in Workers /\ pc[t] \in Inside
  BY <1>7
  DEF MutatePut, MutateRemove, Publish, Drop, Uncache, SafeInv, LocalsInv, LocalsOK, Busy, Inside
<1>8. ASSUME NEW t \in Workers, t # w,
             MutatePut(t) \/ MutateRemove(t) \/ Publish(t) \/ Drop(t) \/ Uncache(t)
      PROVE  HandOK(w)'
  <2>1. pc[t] \in Inside
    BY <1>7, <1>8, <1>s
  <2>2. pc'[w] = pc[w] /\ task'[w] = task[w] /\ user'[w] = user[w] /\ arg'[w] = arg[w]
        /\ map'[w] = map[w]
    BY <1>8, <1>s
    DEF MutatePut, MutateRemove, Publish, Drop, Uncache, Goto, Leave, locals, SafeInv, TypeOK
  <2>3. /\ \/ content' = content
           \/ \E c : content' = [content EXCEPT ![map[t]] = c]
        /\ \/ cache' = cache
           \/ \E m : cache' = [cache EXCEPT ![user[t]] = m]
    BY <1>8 DEF MutatePut, MutateRemove, Publish, Drop, Uncache
  <2>4. user[t] # user[w] /\ map[t] # map[w] /\ user[t] \in Users /\ map[t] \in Maps
    BY <1>8, <1>o, <2>1, <2>2
  <2>5. cache'[user[w]] = cache[user[w]] /\ content'[map[w]] = content[map[w]]
    BY <1>s, <1>a, <2>2, <2>3, <2>4 DEF SafeInv, TypeOK
  <2> QED
    BY <1>s, <2>2, <2>5, HandFrame
<1>9. ASSUME MutatePut(w) PROVE HandOK(w)'
  <2>0. pc[w] = "mutate" /\ pc[w] \in Inside
    BY <1>9 DEF MutatePut, Inside
  <2>1. ~Raced(w)
    <3> SUFFICES ASSUME NEW r \in Threads \ {w}, map[r] = map[w], pc[r] = "mutate" PROVE FALSE
      BY DEF Raced
    <3>1. r \in Workers /\ pc[r] \in Inside
      BY DEF SafeInv, LocalsInv, LocalsOK, Busy, Inside
    <3> QED
      BY <1>o, <2>0, <3>1
  <2>2. /\ pc[w] = "mutate" /\ task[w] = "put" /\ pc'[w] = "publish"
        /\ content' = [content EXCEPT ![map[w]] = @ \cup {arg[w]}]
        /\ UNCHANGED <<cache, user, map, arg>>
    BY <1>9, <1>s, <2>1 DEF MutatePut, Goto, locals, SafeInv, TypeOK
  <2> QED
    BY <1>s, <1>a, <2>0, <2>2 DEF HandOK, SafeInv, TypeOK
<1>10. ASSUME MutateRemove(w) PROVE HandOK(w)'
  <2>0. pc[w] = "mutate" /\ pc[w] \in Inside
    BY <1>10 DEF MutateRemove, Inside
  <2>1. ~Raced(w)
    <3> SUFFICES ASSUME NEW r \in Threads \ {w}, map[r] = map[w], pc[r] = "mutate" PROVE FALSE
      BY DEF Raced
    <3>1. r \in Workers /\ pc[r] \in Inside
      BY DEF SafeInv, LocalsInv, LocalsOK, Busy, Inside
    <3> QED
      BY <1>o, <2>0, <3>1
  <2>2. /\ pc[w] = "mutate" /\ task[w] = "remove" /\ pc'[w] = "drop"
        /\ content' = [content EXCEPT ![map[w]] = @ \ {arg[w]}]
        /\ UNCHANGED <<cache, user, map, arg>>
    BY <1>10, <1>s, <2>1 DEF MutateRemove, Goto, locals, SafeInv, TypeOK
  <2> QED
    BY <1>s, <1>a, <2>0, <2>2 DEF HandOK, SafeInv, TypeOK
<1>11. ASSUME Drop(w) PROVE HandOK(w)'
  <2>1. pc[w] = "drop" /\ pc'[w] = "uncache" /\ content[map[w]] = {}
        /\ UNCHANGED <<cache, content, user, map>>
    BY <1>11, <1>s DEF Drop, Goto, Leave, Emptied, SafeInv, TypeOK, Inside
  <2> QED
    BY <1>s, <2>1 DEF HandOK
<1>12. ~Publish(w) /\ ~Uncache(w)
  BY <1>s DEF Publish, Uncache, Leave, SafeInv, TypeOK, Inside
<1>13. CASE UNCHANGED vars
  BY <1>13, <1>s, HandFrame DEF vars
<1> QED
  BY <1>1, <1>2, <1>3, <1>4, <1>5, <1>6, <1>7, <1>8, <1>9, <1>10, <1>11, <1>12, <1>13
  DEF Next, Work, Index, Threads

\* Every step keeps the updates of a session apart that was never crossed.
LEMMA ToldStep ==
  ASSUME SafeInv, ToldInv, [Next]_vars
  PROVE  ToldInv'
<1> SUFFICES ASSUME NEW w \in Workers, user'[w] \in Users \ torn', arg'[w] \in Sessions \ crossed'
             PROVE  ToldRight(w)'
  BY DEF ToldInv, ToldRight
<1>s. /\ ToldRight(w) /\ w \in Threads /\ Workers \subseteq Threads
      /\ torn \subseteq torn' /\ crossed \subseteq crossed'
  BY HistoryGrows DEF ToldInv, Threads
<1>a. \A r \in Workers : user[r] \in Users => pc[r] \in Busy /\ arg[r] \in Owned(user[r])
  BY <1>s, RepositoryAssumption DEF SafeInv, LocalsInv, LocalsOK
<1>1. ASSUME NEW t \in Workers, NEW s \in Sessions, Create(t, s) PROVE ToldRight(w)'
  <2>1. CASE s \in memory \/ UserOf[s] = Null
    BY <1>1, <1>s, <1>a, <2>1, RepositoryAssumption DEF Create, locals, ToldRight, Owned
  <2>2. CASE ~(s \in memory \/ UserOf[s] = Null)
    <3>1. /\ task' = [task EXCEPT ![t] = "put"] /\ arg' = [arg EXCEPT ![t] = s]
          /\ user' = [user EXCEPT ![t] = UserOf[s]] /\ memory' = memory \cup {s}
          /\ (\E r \in Workers : arg[r] = s) => s \in crossed'
      BY <1>1, <2>2 DEF Create, Call, Meets
    <3> QED
      BY <1>s, <1>a, <3>1 DEF ToldRight, SafeInv, TypeOK
  <2> QED
    BY <2>1, <2>2
<1>2. ASSUME NEW t \in Workers, NEW s \in Sessions, Expire(t, s) PROVE ToldRight(w)'
  <2>1. CASE s \notin memory \/ UserOf[s] = Null
    BY <1>2, <1>s, <1>a, <2>1, RepositoryAssumption DEF Expire, locals, ToldRight, Owned
  <2>2. CASE ~(s \notin memory \/ UserOf[s] = Null)
    <3>1. /\ task' = [task EXCEPT ![t] = "remove"] /\ arg' = [arg EXCEPT ![t] = s]
          /\ user' = [user EXCEPT ![t] = UserOf[s]] /\ memory' = memory \ {s}
          /\ (\E r \in Workers : arg[r] = s) => s \in crossed'
      BY <1>2, <2>2 DEF Expire, Call, Meets
    <3> QED
      BY <1>s, <1>a, <3>1 DEF ToldRight, SafeInv, TypeOK
  <2> QED
    BY <2>1, <2>2
<1>3. ASSUME NEW t \in Workers, Clear(t) PROVE ToldRight(w)'
  BY <1>3, <1>s DEF Clear, AtIndex, locals, ToldRight
<1>4. ASSUME NEW t \in Threads,
             \/ ClearLocks(t) \/ ClearCache(t) \/ GetLock(t) \/ EnterPut(t) \/ MutatePut(t)
             \/ MutateRemove(t) \/ Return(t)
      PROVE  ToldRight(w)'
  BY <1>4, <1>s
  DEF ClearLocks, ClearCache, GetLock, EnterPut, MutatePut, MutateRemove, Return, locals, history,
      ToldRight
<1>5. ASSUME NEW t \in Threads,
             \/ EnterRemove(t) \/ EnterGet(t) \/ Publish(t) \/ Uncache(t) \/ Collect(t) \/ Drop(t)
      PROVE  ToldRight(w)'
  <2>1. /\ memory' = memory
        /\ \A r \in Threads \ {t} : user'[r] = user[r] /\ arg'[r] = arg[r] /\ task'[r] = task[r]
        /\ \/ user'[t] = Null /\ arg'[t] = Null
           \/ user'[t] = user[t] /\ arg'[t] = arg[t] /\ task'[t] = task[t]
    BY <1>5
    DEF EnterRemove, EnterGet, Publish, Uncache, Collect, Drop, Leave, SafeInv, TypeOK
  <2> QED
    BY <1>s, <2>1, RepositoryAssumption DEF ToldRight
<1>6. ASSUME NEW t \in Readers, NEW u \in Users, Lookup(t, u) PROVE ToldRight(w)'
  <2>1. /\ memory' = memory
        /\ \A r \in Workers : user'[r] = user[r] /\ arg'[r] = arg[r] /\ task'[r] = task[r]
    BY <1>6, <1>s, RepositoryAssumption DEF Lookup, Call, SafeInv, TypeOK, Threads
  <2> QED
    BY <1>s, <2>1 DEF ToldRight
<1>7. CASE UNCHANGED vars
  BY <1>7, <1>s DEF vars, ToldRight
<1> QED
  BY <1>1, <1>2, <1>3, <1>4, <1>5, <1>6, <1>7, <1>s DEF Next, Work, Index, Threads

\* Every step keeps the view by user exact.
LEMMA ViewStep ==
  ASSUME SafeInv, LocksKept, HandsInv, ToldInv, IndexExact, [Next]_vars
  PROVE  IndexExact'
<1> SUFFICES ASSUME NEW u \in Users \ torn', NEW s \in Sessions \ crossed', UserOf[s] = u, Settled(s)'
             PROVE  (s \in Indexed(u) <=> s \in memory)'
  BY DEF IndexExact, Owned
<1>s. /\ u \in Users \ torn /\ s \in Sessions \ crossed /\ Workers \subseteq Threads /\ u # Null
      /\ Settled(s) => (s \in Indexed(u) <=> s \in memory)
  BY HistoryGrows, RepositoryAssumption DEF IndexExact, Owned, Threads
<1>n. Null \notin Maps /\ Null \notin Sessions /\ Workers \cap Readers = {}
  BY RepositoryAssumption
\* a step that changes nothing about the session
<1>k. ASSUME Settled(s), s \in Indexed(u)' <=> s \in Indexed(u), s \in memory' <=> s \in memory
      PROVE  (s \in Indexed(u) <=> s \in memory)'
  BY <1>s, <1>k
<1>1. ASSUME NEW t \in Workers, NEW r \in Sessions, Create(t, r) \/ Expire(t, r)
      PROVE  (s \in Indexed(u) <=> s \in memory)'
  <2>1. Indexed(u)' = Indexed(u) /\ pc[t] = "idle"
    BY <1>1 DEF Create, Expire, Indexed
  <2>2. CASE UNCHANGED <<pc, arg>>
    <3>1. Settled(s)
      BY <2>2 DEF Settled, Clearing
    <3>2. s \in memory' <=> s \in memory
      BY <1>1, <1>s, <2>2 DEF Create, Expire, Call, SafeInv, TypeOK
    <3> QED
      BY <1>k, <2>1, <3>1, <3>2
  <2>3. CASE ~UNCHANGED <<pc, arg>>
    <3>1. pc' = [pc EXCEPT ![t] = "lock"] /\ arg' = [arg EXCEPT ![t] = r]
      BY <1>1, <2>3 DEF Create, Expire, Call, locals
    <3>2. r # s /\ Settled(s)
      <4>1. arg'[t] = r
        BY <1>s, <3>1 DEF SafeInv, TypeOK
      <4>2. r # s
        BY <4>1 DEF Settled
      <4>3. \A w \in Workers : arg[w] # s
        <5> SUFFICES ASSUME NEW w \in Workers, arg[w] = s PROVE FALSE
          OBVIOUS
        <5>1. pc[w] \in Busy
          BY <1>n, <1>s DEF SafeInv, LocalsInv, LocalsOK
        <5> QED
          BY <1>s, <2>1, <3>1, <5>1 DEF Settled, SafeInv, TypeOK, Busy, Inside
      <4>4. ~Clearing
        BY <1>s, <2>1, <3>1 DEF Settled, Clearing, SafeInv, TypeOK
      <4> QED
        BY <4>2, <4>3, <4>4 DEF Settled
    <3>3. s \in memory' <=> s \in memory
      BY <1>1, <3>2 DEF Create, Expire
    <3> QED
      BY <1>k, <2>1, <3>2, <3>3
  <2> QED
    BY <2>2, <2>3
<1>2. ASSUME NEW t \in Workers, Clear(t) \/ ClearLocks(t) PROVE FALSE
  BY <1>2, <1>s DEF Clear, ClearLocks, Goto, Settled, Clearing, SafeInv, TypeOK
<1>3. ASSUME NEW t \in Workers, ClearCache(t) PROVE (s \in Indexed(u) <=> s \in memory)'
  <2>1. s \notin memory
    BY <1>3, <1>s DEF ClearCache, LocksKept, ClearedAlone, Owned
  <2> QED
    BY <1>3, <1>s, <2>1 DEF ClearCache, Indexed
<1>4. ASSUME NEW t \in Threads,
             \/ \E v \in Users : t \in Readers /\ Lookup(t, v)
             \/ GetLock(t) \/ EnterGet(t) \/ Collect(t) \/ Return(t)
      PROVE  (s \in Indexed(u) <=> s \in memory)'
  <2>1. Indexed(u)' = Indexed(u) /\ memory' = memory
    BY <1>4 DEF Lookup, GetLock, EnterGet, Collect, Return, Indexed
  <2>2. \A w \in Workers : arg'[w] = arg[w] /\ (pc[w] = pc'[w] \/ pc[w] \notin {"clearLocks", "clearCache"})
    BY <1>4, <1>s, <1>n
    DEF Lookup, GetLock, EnterGet, Collect, Return, Call, Goto, Leave, SafeInv, TypeOK, LocalsInv,
        LocalsOK, Busy, Inside
  <2>3. Settled(s)
    BY <2>2 DEF Settled, Clearing
  <2> QED
    BY <1>k, <2>1, <2>3
\* the other steps are those of a worker inside the monitor of its user
<1>5. ASSUME NEW t \in Threads,
             \/ EnterPut(t) \/ EnterRemove(t) \/ MutatePut(t) \/ MutateRemove(t) \/ Publish(t)
             \/ Drop(t) \/ Uncache(t)
      PROVE  /\ t \in Workers /\ pc[t] \in Busy /\ user[t] \in Users /\ arg[t] \in Sessions
             /\ UserOf[arg[t]] = user[t] /\ memory' = memory
             /\ pc[t] \in Inside => map[t] \in Maps
  BY <1>5
  DEF EnterPut, EnterRemove, MutatePut, MutateRemove, Publish, Drop, Uncache, SafeInv, LocalsInv,
      LocalsOK, Owned, Busy, Inside
<1>6. ASSUME NEW t \in Threads,
             \/ EnterPut(t) \/ EnterRemove(t) \/ MutatePut(t) \/ MutateRemove(t) \/ Publish(t)
             \/ Drop(t) \/ Uncache(t)
      PROVE  arg[t] # s => Settled(s)
  <2>1. \A w \in Workers : (w # t => arg'[w] = arg[w]) /\ (pc[w] = pc'[w] \/ pc[w] \in Busy)
    BY <1>6, <1>5, <1>s
    DEF EnterPut, EnterRemove, MutatePut, MutateRemove, Publish, Drop, Uncache, Goto, Leave, locals,
        SafeInv, TypeOK
  <2> QED
    BY <2>1 DEF Settled, Clearing, Busy, Inside
\* one that stays inside still holds its session
<1>7. ASSUME NEW t \in Workers, UNCHANGED arg, arg[t] = s PROVE FALSE
  BY <1>7 DEF Settled
\* one that leaves has done what it was told
<1>8. ASSUME NEW t \in Workers, arg[t] = s
      PROVE  (task[t] = "put" => s \in memory) /\ (task[t] = "remove" => s \notin memory)
  <2>1. user[t] = u
    BY <1>8, <1>s, <1>n, RepositoryAssumption DEF SafeInv, LocalsInv, LocalsOK, Owned
  <2> QED
    BY <1>8, <1>s, <2>1 DEF ToldInv, ToldRight
<1>9. ASSUME NEW t \in Threads, EnterPut(t) PROVE (s \in Indexed(u) <=> s \in memory)'
  <2>1. arg[t] # s /\ Settled(s)
    BY <1>5, <1>6, <1>7, <1>9 DEF EnterPut
  <2>2. Indexed(u)' = Indexed(u)
    <3>1. CASE cache[user[t]] = Null
      <4> DEFINE m == New(FreshMaps)
      <4>1. m \in Maps /\ \A v \in Users : cache[v] # m
        BY <1>9, <3>1, NewIsNew DEF EnterPut, FreshMaps
      <4>2. cache' = cache /\ content' = [content EXCEPT ![m] = {}]
        BY <1>9, <3>1 DEF EnterPut
      <4> HIDE DEF m
      <4> QED
        BY <1>s, <4>1, <4>2 DEF Indexed, SafeInv, TypeOK
    <3>2. CASE cache[user[t]] # Null
      BY <1>9, <3>2 DEF EnterPut, Indexed
    <3> QED
      BY <3>1, <3>2
  <2> QED
    BY <1>k, <1>5, <1>9, <2>1, <2>2
<1>10. ASSUME NEW t \in Threads, EnterRemove(t) PROVE (s \in Indexed(u) <=> s \in memory)'
  <2>1. Indexed(u)' = Indexed(u)
    BY <1>10 DEF EnterRemove, Indexed
  <2>2. CASE arg[t] # s
    BY <1>k, <1>5, <1>6, <1>10, <2>1, <2>2
  <2>3. CASE arg[t] = s
    <3>1. cache[u] = Null
      BY <1>5, <1>7, <1>10, <1>s, <2>3 DEF EnterRemove
    <3> QED
      BY <1>5, <1>8, <1>10, <2>1, <2>3, <3>1 DEF EnterRemove, Indexed
  <2> QED
    BY <2>2, <2>3
<1>11. ASSUME NEW t \in Threads, MutatePut(t) \/ MutateRemove(t)
       PROVE  (s \in Indexed(u) <=> s \in memory)'
  <2>1. arg[t] # s /\ Settled(s)
    BY <1>5, <1>6, <1>7, <1>11 DEF MutatePut, MutateRemove, locals
  <2>2. s \in Indexed(u)' <=> s \in Indexed(u)
    BY <1>11, <1>5, <1>s, <2>1 DEF MutatePut, MutateRemove, Indexed, SafeInv, TypeOK, Inside
  <2> QED
    BY <1>k, <1>5, <1>11, <2>1, <2>2
<1>12. ASSUME NEW t \in Threads, Publish(t) PROVE (s \in Indexed(u) <=> s \in memory)'
  <2>1. /\ pc[t] = "publish" /\ task[t] = "put" /\ map[t] \in Maps /\ content' = content
        /\ cache' = [cache EXCEPT ![user[t]] = map[t]]
    BY <1>5, <1>12 DEF Publish, SafeInv, LocalsInv, LocalsOK, Inside
  <2>2. CASE user[t] # u
    <3>1. arg[t] # s /\ Indexed(u)' = Indexed(u)
      BY <1>5, <1>12, <1>s, <2>1, <2>2 DEF Indexed, SafeInv, TypeOK
    <3> QED
      BY <1>k, <1>5, <1>6, <1>12, <3>1
  <2>3. CASE user[t] = u
    <3>1. /\ cache[u] \in {Null, map[t]} /\ arg[t] \in content[map[t]]
          /\ cache[u] = Null => content[map[t]] = {arg[t]}
      BY <1>5, <1>12, <1>s, <2>1, <2>3 DEF HandsInv, HandOK
    <3>2. Indexed(u)' = content[map[t]]
      BY <1>n, <1>s, <2>1, <2>3 DEF Indexed, SafeInv, TypeOK
    <3>3. CASE arg[t] = s
      BY <1>5, <1>8, <1>12, <2>1, <3>1, <3>2, <3>3
    <3>4. CASE arg[t] # s
      <4>1. s \in Indexed(u)' <=> s \in Indexed(u)
        BY <1>n, <2>1, <3>1, <3>2, <3>4 DEF Indexed
      <4> QED
        BY <1>k, <1>5, <1>6, <1>12, <3>4, <4>1
    <3> QED
      BY <3>3, <3>4
  <2> QED
    BY <2>2, <2>3
<1>13. ASSUME NEW t \in Threads, Drop(t) PROVE (s \in Indexed(u) <=> s \in memory)'
  <2>1. Indexed(u)' = Indexed(u) /\ pc[t] = "drop"
    BY <1>13 DEF Drop, Indexed
  <2>2. CASE arg[t] # s
    BY <1>k, <1>5, <1>6, <1>13, <2>1, <2>2
  <2>3. CASE arg[t] = s
    <3>1. user[t] = u /\ task[t] = "remove"
      BY <1>5, <1>13, <2>1, <2>3 DEF SafeInv, LocalsInv, LocalsOK
    <3>2. s \notin Indexed(u)
      BY <1>5, <1>13, <1>n, <1>s, <2>1, <2>3, <3>1 DEF HandsInv, HandOK, Indexed, Inside
    <3> QED
      BY <1>5, <1>8, <1>13, <2>1, <2>3, <3>1, <3>2
  <2> QED
    BY <2>2, <2>3
<1>14. ASSUME NEW t \in Threads, Uncache(t) PROVE (s \in Indexed(u) <=> s \in memory)'
  <2>1. pc[t] = "uncache" /\ task[t] = "remove" /\ cache' = [cache EXCEPT ![user[t]] = Null]
        /\ content' = content /\ pc[t] \in Inside
    BY <1>5, <1>14 DEF Uncache, SafeInv, LocalsInv, LocalsOK, Inside
  <2>2. CASE user[t] # u
    <3>1. arg[t] # s /\ Indexed(u)' = Indexed(u)
      BY <1>5, <1>14, <1>s, <2>1, <2>2 DEF Indexed, SafeInv, TypeOK
    <3> QED
      BY <1>k, <1>5, <1>6, <1>14, <3>1
  <2>3. CASE user[t] = u
    <3>1. Indexed(u) = {} /\ Indexed(u)' = {}
      BY <1>5, <1>14, <1>n, <1>s, <2>1, <2>3 DEF HandsInv, HandOK, Indexed, SafeInv, TypeOK
    <3>2. CASE arg[t] = s
      BY <1>5, <1>8, <1>14, <2>1, <3>1, <3>2
    <3>3. CASE arg[t] # s
      BY <1>k, <1>5, <1>6, <1>14, <3>1, <3>3
    <3> QED
      BY <3>2, <3>3
  <2> QED
    BY <2>2, <2>3
<1>15. CASE UNCHANGED vars
  BY <1>k, <1>15 DEF vars, Settled, Clearing, Indexed
<1> QED
  BY <1>1, <1>2, <1>3, <1>4, <1>9, <1>10, <1>11, <1>12, <1>13, <1>14, <1>15, <1>s
  DEF Next, Work, Index, Threads

LEMMA ExactStep == ExactInv /\ [Next]_vars => ExactInv'
  BY SafeStep, LocksStep, HandsStep, ToldStep, ViewStep DEF ExactInv

-----------------------------------------------------------------------------
(* The theorems *)

\* SafeInv says what the properties say.
LEMMA SafeInvImplies == SafeInv => OwnUser /\ MutexUntilDropped
<1> SUFFICES ASSUME SafeInv PROVE OwnUser /\ MutexUntilDropped
  OBVIOUS
<1>1. OwnUser
  BY DEF SafeInv, MapsInv, OwnUser, Indexed
<1>2. MutexUntilDropped
  <2> SUFFICES ASSUME NEW t \in Threads, NEW r \in Threads, t # r,
                      pc[t] \in Inside, pc[r] \in Inside, user[t] = user[r]
               PROVE  user[t] \in dropped
    BY DEF MutexUntilDropped
  <2>1. lock[t] # Null /\ lock[r] # Null /\ lock[t] # lock[r]
    BY RepositoryAssumption DEF SafeInv, LocalsInv, LocalsOK, LocksInv, Busy, Inside
  <2>2. QED BY <2>1 DEF SafeInv, LocksInv
<1>3. QED BY <1>1, <1>2

\* Every step keeps LookupInv: a thread that changes a HashMap under a lookup of
\* the same user holds another lock object, so one of the two was thrown away.
LEMMA LookupStep ==
  ASSUME SafeInv, LookupInv, [Next]_vars
  PROVE  LookupInv'
<1> SUFFICES ASSUME NEW r \in Threads, pc'[r] = "collect", user'[r] \notin dropped'
             PROVE  answer'[r] = content'[map'[r]]
  BY DEF LookupInv
<1>1. ASSUME NEW t \in Threads, EnterGet(t) PROVE answer'[r] = content'[map'[r]]
  BY <1>1 DEF EnterGet, Goto, Leave, history, SafeInv, TypeOK, LookupInv
<1>2. ASSUME NEW t \in Threads, MutatePut(t) \/ MutateRemove(t)
      PROVE  answer'[r] = content'[map'[r]]
  <2>1. r # t /\ pc[r] = "collect" /\ user[r] \notin dropped /\ pc[t] = "mutate"
    BY <1>2 DEF MutatePut, MutateRemove, Goto, locals, history, SafeInv, TypeOK
  <2>2. user[r] # user[t]
    BY <2>1, SafeInvImplies DEF MutexUntilDropped, Inside
  <2>3. map[r] # map[t] /\ map[r] \in Maps
    BY <2>1, <2>2, RepositoryAssumption DEF SafeInv, MapsInv, LocalsInv, LocalsOK, Inside
  <2>4. QED
    BY <1>2, <2>1, <2>3 DEF MutatePut, MutateRemove, locals, SafeInv, TypeOK, LookupInv
<1>3. ASSUME NEW t \in Threads, EnterPut(t) PROVE answer'[r] = content'[map'[r]]
  <2>1. r # t /\ pc[r] = "collect" /\ user[r] \notin dropped /\ map[r] \in Maps
    BY <1>3 DEF EnterPut, Goto, history, SafeInv, TypeOK, LocalsInv, LocalsOK, Inside
  <2>2. content'[map[r]] = content[map[r]]
    <3>1. CASE cache[user[t]] = Null
      <4>1. New(FreshMaps) \in FreshMaps
        BY <1>3, <3>1, NewIsNew DEF EnterPut
      <4>2. New(FreshMaps) # map[r]
        BY <4>1 DEF FreshMaps
      <4>3. content' = [content EXCEPT ![New(FreshMaps)] = {}]
        BY <1>3, <3>1 DEF EnterPut
      <4>4. QED BY <2>1, <4>2, <4>3 DEF SafeInv, TypeOK
    <3>2. CASE cache[user[t]] # Null
      BY <1>3, <3>2 DEF EnterPut
    <3>3. QED BY <3>1, <3>2
  <2>3. QED
    BY <1>3, <2>1, <2>2 DEF EnterPut, SafeInv, TypeOK, LookupInv
<1>4. ASSUME NEW t \in Threads,
             \/ \E s \in Sessions : Create(t, s) \/ Expire(t, s)
             \/ Clear(t) \/ ClearLocks(t) \/ ClearCache(t)
             \/ \E u \in Users : Lookup(t, u)
             \/ GetLock(t) \/ EnterRemove(t) \/ Publish(t) \/ Drop(t) \/ Uncache(t)
             \/ Collect(t) \/ Return(t)
      PROVE  answer'[r] = content'[map'[r]]
  <2>1. /\ pc[r] = "collect" /\ user[r] = user'[r] /\ user[r] \notin dropped
        /\ answer'[r] = answer[r] /\ map'[r] = map[r] /\ content' = content
    BY <1>4, RepositoryAssumption
    DEF Create, Expire, Clear, ClearLocks, ClearCache, Lookup, GetLock, EnterRemove, Publish,
        Drop,
        Uncache, Collect, Return, Goto, Call, Leave, locals, history, SafeInv, TypeOK, Threads
  <2>2. QED BY <2>1 DEF LookupInv
<1>5. CASE UNCHANGED vars
  BY <1>5 DEF vars, LookupInv
<1>6. QED
  BY <1>1, <1>2, <1>3, <1>4, <1>5 DEF Next, Work, Index, Threads

\* The repository and its index keep their types, whatever the threads do.
THEOREM TypeCorrect == Spec => []TypeOK
<1>1. SafeInv => TypeOK
  BY DEF SafeInv
<1>2. QED BY <1>1, SafeInit, SafeStep, PTL DEF Spec

\* The index files every session under its own user, whoever works on it at the same
\* time: a HashMap object belongs to one user from the time it is made.
THEOREM SessionsFiledRight == Spec => []OwnUser
<1>1. QED BY SafeInvImplies, SafeInit, SafeStep, PTL DEF Spec

\* Until a lock object of WessionMutilMap has been thrown away its monitors exclude
\* each other.
THEOREM SafeIndex == Spec => []MutexUntilDropped
<1>1. QED BY SafeInvImplies, SafeInit, SafeStep, PTL DEF Spec

\* Until then a lookup never throws, whatever the workers do meanwhile.
THEOREM LookupsSucceed == Spec => LookupFailsOnlyAfterDrop
<1>1. Init => LookupInv
  BY DEF Init, LookupInv
<1>2. SafeInv /\ LookupInv /\ [Next]_vars
        => [\A t \in Threads : answer[t] # Failed /\ answer'[t] = Failed => user[t] \in dropped]_vars
  <2> SUFFICES ASSUME SafeInv, LookupInv, Next, NEW r \in Threads,
                      answer[r] # Failed, answer'[r] = Failed
               PROVE  user[r] \in dropped
    OBVIOUS
  <2>1. Null \notin Sessions
    BY RepositoryAssumption
  <2>2. ASSUME NEW t \in Threads, EnterGet(t) PROVE FALSE
    <3>1. user[t] \in Users
      BY <2>2 DEF EnterGet, SafeInv, LocalsInv, LocalsOK, Busy, Inside
    <3>2. cache[user[t]] # Null => content[cache[user[t]]] \subseteq Sessions
      BY <3>1 DEF SafeInv, TypeOK
    <3>3. QED
      BY <2>1, <2>2, <3>2 DEF EnterGet, SafeInv, TypeOK, Failed
  <2>3. ASSUME NEW t \in Threads, Collect(t) PROVE user[r] \in dropped
    BY <2>3 DEF Collect, SafeInv, TypeOK, LookupInv
  <2>4. ASSUME NEW t \in Threads, Return(t) PROVE FALSE
    BY <2>4 DEF Return, SafeInv, TypeOK, Failed
  <2>5. ASSUME NEW t \in Threads,
               \/ Work(t) \/ (\E u \in Users : Lookup(t, u))
               \/ GetLock(t) \/ EnterPut(t) \/ MutatePut(t) \/ Publish(t)
               \/ EnterRemove(t) \/ MutateRemove(t) \/ Drop(t) \/ Uncache(t)
        PROVE FALSE
    <3>1. answer' = answer
      BY <2>5
      DEF Work, Create, Expire, Clear, ClearLocks, ClearCache, Lookup, GetLock, EnterPut,
          MutatePut,
          Publish, EnterRemove, MutateRemove, Drop, Uncache, Call, locals
    <3>2. QED BY <3>1
  <2>6. QED
    BY <2>2, <2>3, <2>4, <2>5 DEF Next, Index, Threads
<1>3. SafeInv /\ LookupInv /\ [Next]_vars => LookupInv'
  BY LookupStep
<1>4. QED
  BY <1>1, <1>2, <1>3, SafeInit, SafeStep, PTL DEF Spec, LookupFailsOnlyAfterDrop

\* get(id) and getBy(user) agree about every session that no worker is busy with, on
\* any number of executor threads, asked about any sessions and to clear: unless two
\* updates of the index about the session have overlapped, or the index of its user was
\* emptied or cleared under an update.
THEOREM IndexIsExact == Spec => []IndexExact
<1>1. ExactInv /\ [Next]_vars => ExactInv'
  BY ExactStep
<1>2. ExactInv => IndexExact
  BY DEF ExactInv
<1>3. QED BY <1>1, <1>2, ExactInit, PTL DEF Spec
=============================================================================
