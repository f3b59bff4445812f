------------------------- MODULE SessionStoreProofs -------------------------
(***************************************************************************)
(* The session repository implements SessionStore, for every set of        *)
(* sessions, users and threads: each of its steps is a step of the store   *)
(* or leaves the store as it is.                                           *)
(***************************************************************************)
EXTENDS SessionRepositoryProofs

-----------------------------------------------------------------------------
(* Steps of the store *)

View == [u \in Users |-> Indexed(u)]
Jobs == [t \in Workers |-> Doing(t)]

\* A step that the store does not see.
LEMMA Stutter ==
  ASSUME memory' = memory, torn' = torn, \A u \in Users : Indexed(u)' = Indexed(u),
         \A t \in Workers : Doing(t)' = Doing(t)
  PROVE  UNCHANGED Store!vars
  BY DEF Store!vars

\* An update of the index takes effect, and returns or does not.
LEMMA Settles ==
  ASSUME NEW t \in Workers, NEW u \in Users, NEW s \in Sessions, UserOf[s] = u,
         Doing(t) = [op |-> task[t], session |-> s], task[t] \in {"put", "remove"},
         memory' = memory, torn' = torn,
         \A v \in Users \ {u} : Indexed(v)' = Indexed(v),
         Indexed(u)' \subseteq Owned(u),
         u \notin torn =>
           Indexed(u)' = IF task[t] = "put" THEN Indexed(u) \cup {s} ELSE Indexed(u) \ {s},
         \A r \in Workers \ {t} : Doing(r)' = Doing(r),
         Doing(t)' = Doing(t) \/ Doing(t)' = [op |-> "none"]
  PROVE  Store!Next
<1>1. Jobs[t].op = task[t] /\ Jobs[t].session = s
  BY DEF Jobs
<1>2. View' \in Store!Shown(t)
  <2>1. CASE u \in torn
    <3>1. View' = [View EXCEPT ![u] = Indexed(u)'] /\ Indexed(u)' \in SUBSET Store!Owned(u)
      BY DEF View, Owned, Store!Owned
    <3>2. QED BY <1>1, <2>1, <3>1 DEF Store!Shown, View, Jobs
  <2>2. CASE u \notin torn
    <3>1. View' = [View EXCEPT ![u] = IF task[t] = "put" THEN @ \cup {s} ELSE @ \ {s}]
      BY <2>2 DEF View
    <3>2. QED BY <1>1, <2>2, <3>1 DEF Store!Shown, View, Jobs
  <2>3. QED BY <2>1, <2>2
<1>3. Jobs' \in {Jobs, [Jobs EXCEPT ![t] = Store!Idle]}
  BY DEF Jobs, Store!Idle
<1>4. Store!Settle(t)
  BY <1>1, <1>2, <1>3 DEF Store!Settle, View, Jobs
<1>5. QED BY <1>4 DEF Store!Next

LEMMA StoreInit == Init => Store!Init
<1> SUFFICES ASSUME Init PROVE Store!Init
  OBVIOUS
<1>1. \A u \in Users : Indexed(u) = {}
  BY DEF Init, Indexed
<1>2. \A t \in Workers : Doing(t) = [op |-> "none"]
  BY DEF Init, Doing, Threads
<1> QED
  BY <1>1, <1>2 DEF Init, Store!Init, Store!Idle

\* A step that does not touch the index.
LEMMA IndexKept ==
  ASSUME cache' = cache, content' = content
  PROVE  \A u \in Users : Indexed(u)' = Indexed(u)
  BY DEF Indexed

\* What a worker is doing, by its place.
LEMMA DoingIs ==
  ASSUME SafeInv, NEW t \in Workers
  PROVE  /\ pc[t] = "idle" => Doing(t) = Store!Idle
         /\ pc[t] \in {"clearLocks", "clearCache"} => Doing(t) = Store!Clearing
         /\ pc[t] \in Busy => /\ user[t] \in Users /\ arg[t] \in Sessions
                              /\ UserOf[arg[t]] = user[t] /\ task[t] \in {"put", "remove"}
                              /\ Doing(t) = [op |-> task[t], session |-> arg[t]]
         /\ user[t] \in Users => pc[t] \in Busy
         /\ Doing(t).op = "clear" <=> pc[t] \in {"clearLocks", "clearCache"}
         /\ Doing(t).op \in {"put", "remove"} <=> pc[t] \in Busy
<1>1. /\ t \in Threads /\ Null \notin Users
      /\ pc[t] \in Busy => user[t] \in Users
      /\ pc[t] \notin Busy => user[t] = Null
      /\ pc[t] \in Busy => task[t] # "get" /\ arg[t] \in Owned(user[t])
      /\ task[t] \in {"put", "remove", "get"}
  BY RepositoryAssumption DEF SafeInv, TypeOK, LocalsInv, LocalsOK, Threads
<1>2. pc[t] \in Busy => pc[t] \notin {"clearLocks", "clearCache", "idle"}
  BY DEF Busy, Inside
<1>3. QED
  BY <1>1, <1>2 DEF Doing, Owned, Store!Idle, Store!Clearing

\* The workers of the store that are at a user's view are those at the user's index.
LEMMA AtIs ==
  ASSUME SafeInv, NEW u \in Users
  PROVE  Store!At(u) = AtIndex(u)
<1>1. ASSUME NEW t \in Workers PROVE t \in Store!At(u) <=> t \in AtIndex(u)
  <2>1. t \in Store!At(u) <=> Doing(t).op \in {"put", "remove"} /\ UserOf[Doing(t).session] = u
    BY DEF Store!At
  <2>2. t \in AtIndex(u) <=> user[t] = u
    BY DEF AtIndex
  <2>3. CASE pc[t] \in Busy
    <3>1. Doing(t).op = task[t] /\ Doing(t).session = arg[t]
      BY <2>3, DoingIs
    <3>2. QED BY <2>1, <2>2, <2>3, <3>1, DoingIs
  <2>4. CASE pc[t] \notin Busy
    BY <2>1, <2>2, <2>4, DoingIs
  <2>5. QED BY <2>3, <2>4
<1>2. QED BY <1>1 DEF Store!At, AtIndex

\* A session comes or goes, and the index is told if it has a user.
LEMMA Begins ==
  ASSUME ExactInv, NEW t \in Workers, NEW s \in Sessions, NEW op \in {"put", "remove"},
         pc[t] = "idle", cache' = cache, content' = content,
         IF UserOf[s] = Null THEN UNCHANGED <<pc, locals, torn, crossed>>
           ELSE Call(t, op, UserOf[s], s) /\ Meets(t, UserOf[s], s)
  PROVE  Store!Begin(t, op, s)
<1>s. SafeInv /\ Workers \subseteq Threads
  BY DEF ExactInv, Threads
<1>1. View' = View
  BY IndexKept DEF View
<1>2. Jobs[t] = Store!Idle
  BY <1>s, DoingIs DEF Jobs
<1>3. CASE UserOf[s] = Null
  <2>1. Jobs' = Jobs /\ torn' = torn
    BY <1>3 DEF Jobs, Doing, locals
  <2>2. QED BY <1>1, <1>2, <1>3, <2>1 DEF Store!Begin, View, Jobs
<1>4. CASE UserOf[s] # Null
  <2> DEFINE u == UserOf[s]
  <2>1. u \in Users /\ Call(t, op, u, s) /\ Meets(t, u, s)
    BY <1>4, RepositoryAssumption
  <2> HIDE DEF u
  <2>2. Jobs' = [Jobs EXCEPT ![t] = Store!Update(op, s)]
    <3>1. \A r \in Workers \ {t} : Doing(r)' = Doing(r)
      BY <1>s, <2>1 DEF Call, Doing, SafeInv, TypeOK
    <3>2. Doing(t)' = [op |-> op, session |-> s]
      BY <1>s, <2>1, RepositoryAssumption DEF Call, Doing, SafeInv, TypeOK
    <3>3. QED BY <3>1, <3>2 DEF Jobs, Store!Update
  <2>3. torn' \in {torn, torn \cup Store!Tears(u)}
    <3>1. CASE Clearing
      <4>1. \E w \in Workers : Jobs[w] = Store!Clearing
        BY <1>s, <3>1, DoingIs DEF Clearing, Jobs
      <4>2. Store!Tears(u) = {u}
        BY <4>1 DEF Store!Tears, Jobs
      <4>3. QED BY <2>1, <3>1, <4>2 DEF Meets
    <3>2. CASE ~Clearing /\ \E r \in AtIndex(u) : pc[r] = "uncache"
      <4>1. PICK r \in Workers : user[r] = u /\ pc[r] = "uncache"
        BY <3>2 DEF AtIndex
      <4>2. CASE u \in torn
        BY <2>1, <4>2 DEF Meets
      <4>3. CASE u \notin torn
        <5>1. Indexed(u) = {}
          BY <2>1, <4>1, <4>3 DEF ExactInv, HandsInv, HandOK, Indexed
        <5>2. Store!At(u) # {}
          BY <1>s, <2>1, <4>1, AtIs DEF AtIndex
        <5>3. Store!Tears(u) = {u}
          BY <2>1, <5>1, <5>2 DEF Store!Tears
        <5>4. QED BY <2>1, <3>2, <5>3 DEF Meets
      <4>4. QED BY <4>2, <4>3
    <3>3. CASE ~Clearing /\ ~\E r \in AtIndex(u) : pc[r] = "uncache"
      BY <2>1, <3>3 DEF Meets
    <3>4. QED BY <3>1, <3>2, <3>3
  <2>4. QED BY <1>1, <1>2, <1>4, <2>2, <2>3 DEF Store!Begin, View, Jobs, u
<1>5. QED BY <1>3, <1>4

-----------------------------------------------------------------------------
(* Every step *)

LEMMA StoreStep ==
  ASSUME ExactInv, ExactInv', [Next]_vars
  PROVE  [Store!Next]_(Store!vars)
<1>s. SafeInv /\ SafeInv' /\ Workers \subseteq Threads /\ Null \notin Maps
  BY RepositoryAssumption DEF ExactInv, Threads
<1>v. \A u \in Users : Indexed(u) \subseteq Owned(u) /\ Indexed(u)' \subseteq Owned(u)
  BY <1>s DEF SafeInv, MapsInv, Indexed
<1>1. ASSUME NEW t \in Workers, NEW s \in Sessions, Create(t, s)
      PROVE  Store!Next \/ UNCHANGED Store!vars
  <2>1. CASE s \in memory
    <3>1. memory' = memory /\ torn' = torn /\ cache' = cache /\ content' = content
          /\ UNCHANGED <<pc, locals>>
      BY <1>1, <2>1 DEF Create
    <3>2. QED BY <3>1, IndexKept, Stutter DEF Doing, locals
  <2>2. CASE s \notin memory
    <3>1. Store!Begin(t, "put", s)
      BY <1>1, <2>2, Begins DEF Create
    <3>2. QED BY <1>1, <2>2, <3>1 DEF Create, Store!Create, Store!Next
  <2>3. QED BY <2>1, <2>2
<1>2. ASSUME NEW t \in Workers, NEW s \in Sessions, Expire(t, s)
      PROVE  Store!Next \/ UNCHANGED Store!vars
  <2>1. CASE s \notin memory
    <3>1. memory' = memory /\ torn' = torn /\ cache' = cache /\ content' = content
          /\ UNCHANGED <<pc, locals>>
      BY <1>2, <2>1 DEF Expire
    <3>2. QED BY <3>1, IndexKept, Stutter DEF Doing, locals
  <2>2. CASE s \in memory
    <3>1. Store!Begin(t, "remove", s)
      BY <1>2, <2>2, Begins DEF Expire
    <3>2. QED BY <1>2, <2>2, <3>1 DEF Expire, Store!Expire, Store!Next
  <2>3. QED BY <2>1, <2>2
<1>3. ASSUME NEW t \in Workers, Clear(t) PROVE Store!Next
  <2>1. Jobs[t] = Store!Idle
    BY <1>3, <1>s, DoingIs DEF Clear, Jobs
  <2>2. Jobs' = [Jobs EXCEPT ![t] = Store!Clearing]
    BY <1>3, <1>s DEF Clear, Goto, locals, Jobs, Doing, Store!Clearing, SafeInv, TypeOK
  <2>3. View' = View
    BY <1>3, IndexKept DEF Clear, View
  <2>4. torn' = torn \cup {u \in Users : Store!At(u) # {}}
    BY <1>3, <1>s, AtIs DEF Clear
  <2>5. Store!Clear(t)
    BY <1>3, <2>1, <2>2, <2>3, <2>4 DEF Clear, Store!Clear, View, Jobs
  <2>6. QED BY <2>5 DEF Store!Next
<1>4. ASSUME NEW t \in Workers, ClearCache(t) PROVE Store!Next
  <2>1. Jobs[t] = Store!Clearing
    BY <1>4, <1>s, DoingIs DEF ClearCache, Jobs
  <2>2. Jobs' = [Jobs EXCEPT ![t] = Store!Idle]
    <3>1. \A r \in Workers \ {t} : Doing(r)' = Doing(r)
      BY <1>4, <1>s DEF ClearCache, Goto, locals, Doing, SafeInv, TypeOK
    <3>2. Doing(t)' = Store!Idle
      <4>1. pc'[t] = "idle"
        BY <1>4, <1>s DEF ClearCache, Goto, SafeInv, TypeOK
      <4>2. user'[t] = Null
        BY <1>s, <4>1 DEF SafeInv, LocalsInv, LocalsOK, Busy, Inside
      <4>3. QED BY <4>1, <4>2 DEF Doing, Store!Idle
    <3>3. QED BY <3>1, <3>2 DEF Jobs
  <2>3. View' = [u \in Users |-> {}]
    BY <1>4 DEF ClearCache, Indexed, View
  <2>4. Store!SettleClear(t)
    BY <1>4, <2>1, <2>2, <2>3 DEF ClearCache, history, Store!SettleClear, View, Jobs
  <2>5. QED BY <2>4 DEF Store!Next
\* what the threads do on their way to a HashMap, and what readers do
<1>5. ASSUME \/ \E t \in Workers : ClearLocks(t)
             \/ \E t \in Readers, u \in Users : Lookup(t, u)
             \/ \E t \in Threads : GetLock(t) \/ EnterPut(t) \/ EnterGet(t) \/ Collect(t) \/ Return(t)
      PROVE  UNCHANGED Store!vars
  <2>1. memory' = memory /\ torn' = torn
    BY <1>5 DEF ClearLocks, Lookup, GetLock, EnterPut, EnterGet, Collect, Return, history
  <2>2. ASSUME NEW w \in Workers PROVE Doing(w)' = Doing(w)
    <3>1. /\ user'[w] = user[w] /\ task'[w] = task[w] /\ arg'[w] = arg[w]
          /\ pc'[w] \in {"clearLocks", "clearCache"} <=> pc[w] \in {"clearLocks", "clearCache"}
      BY <1>5, <1>s, RepositoryAssumption
      DEF ClearLocks, Lookup, GetLock, EnterPut, EnterGet, Collect, Return, Call, Goto, Leave, locals,
          SafeInv, TypeOK, LocalsInv, LocalsOK, Busy, Inside
    <3>2. QED BY <3>1 DEF Doing
  <2>3. \A u \in Users : Indexed(u)' = Indexed(u)
    <3>1. CASE cache' = cache /\ content' = content
      BY <3>1, IndexKept
    <3>2. CASE ~(cache' = cache /\ content' = content)
      <4>1. PICK t \in Threads : EnterPut(t) /\ cache[user[t]] = Null
        BY <1>5, <3>2 DEF ClearLocks, Lookup, GetLock, EnterPut, EnterGet, Collect, Return
      <4> DEFINE m == New(FreshMaps)
      <4>2. m \in Maps /\ \A u \in Users : cache[u] # m
        BY <4>1, NewIsNew DEF EnterPut, FreshMaps
      <4>3. cache' = cache /\ content' = [content EXCEPT ![m] = {}]
        BY <4>1 DEF EnterPut
      <4> HIDE DEF m
      <4>4. QED BY <1>s, <4>2, <4>3 DEF Indexed, SafeInv, TypeOK
    <3>3. QED BY <3>1, <3>2
  <2>4. QED BY <2>1, <2>2, <2>3, Stutter
\* the other steps are those of a worker at its user's index
<1>6. ASSUME NEW t \in Threads,
             \/ EnterRemove(t) \/ MutatePut(t) \/ MutateRemove(t) \/ Publish(t) \/ Drop(t) \/ Uncache(t)
      PROVE  /\ t \in Workers /\ pc[t] \in Busy /\ user[t] \in Users /\ arg[t] \in Sessions
             /\ UserOf[arg[t]] = user[t] /\ task[t] \in {"put", "remove"}
             /\ Doing(t) = [op |-> task[t], session |-> arg[t]]
             /\ memory' = memory
             /\ pc[t] \in Inside => map[t] \in Maps
             /\ \A v \in Users : cache[v] = map[t] /\ pc[t] \in Inside => v = user[t]
  <2>1. t \in Workers /\ pc[t] \in Busy /\ memory' = memory
    BY <1>6
    DEF EnterRemove, MutatePut, MutateRemove, Publish, Drop, Uncache, SafeInv, LocalsInv, LocalsOK,
        Busy, Inside, ExactInv
  <2>2. /\ pc[t] \in Inside => map[t] \in Maps
        /\ \A v \in Users : cache[v] = map[t] /\ pc[t] \in Inside => v = user[t]
    BY <1>s DEF SafeInv, MapsInv, LocalsInv, LocalsOK
  <2>3. QED BY <1>s, <2>1, <2>2, DoingIs
\* ... and what it does is its own: it goes on, or returns
<1>7. ASSUME NEW t \in Threads,
             \/ EnterRemove(t) \/ MutatePut(t) \/ MutateRemove(t) \/ Publish(t) \/ Drop(t) \/ Uncache(t)
      PROVE  /\ \A r \in Workers \ {t} : Doing(r)' = Doing(r)
             /\ Doing(t)' = Doing(t) \/ Doing(t)' = [op |-> "none"]
             /\ Goto(t, "mutate") /\ UNCHANGED <<task, user, arg>> => Doing(t)' = Doing(t)
             /\ Goto(t, "publish") /\ UNCHANGED locals => Doing(t)' = Doing(t)
             /\ Goto(t, "drop") /\ UNCHANGED locals => Doing(t)' = Doing(t)
             /\ Goto(t, "uncache") /\ UNCHANGED <<task, user, arg>> => Doing(t)' = Doing(t)
  <2>1. \A r \in Workers \ {t} : /\ user'[r] = user[r] /\ task'[r] = task[r] /\ arg'[r] = arg[r]
                                 /\ pc'[r] = pc[r]
    BY <1>7, <1>s
    DEF EnterRemove, MutatePut, MutateRemove, Publish, Drop, Uncache, Goto, Leave, locals, SafeInv,
        TypeOK
  <2>2. pc[t] \notin {"clearLocks", "clearCache"}
    BY <1>7 DEF EnterRemove, MutatePut, MutateRemove, Publish, Drop, Uncache
  <2>3. \/ pc'[t] = "idle" /\ user'[t] = Null
        \/ /\ user'[t] = user[t] /\ task'[t] = task[t] /\ arg'[t] = arg[t]
           /\ pc'[t] \notin {"clearLocks", "clearCache"}
    BY <1>7, <1>s
    DEF EnterRemove, MutatePut, MutateRemove, Publish, Drop, Uncache, Goto, Leave, locals, SafeInv,
        TypeOK
  <2>4. \A r \in Workers \ {t} : Doing(r)' = Doing(r)
    BY <2>1 DEF Doing
  <2>5. Doing(t)' = Doing(t) \/ Doing(t)' = [op |-> "none"]
    BY <2>2, <2>3 DEF Doing
  <2>6. ASSUME NEW where \in {"mutate", "publish", "drop", "uncache"}, Goto(t, where),
               UNCHANGED <<task, user, arg>>
        PROVE  Doing(t)' = Doing(t)
    BY <1>s, <2>2, <2>6 DEF Goto, Doing, SafeInv, TypeOK
  <2>7. QED BY <2>4, <2>5, <2>6 DEF locals
<1>8. ASSUME NEW t \in Threads, EnterRemove(t) PROVE Store!Next \/ UNCHANGED Store!vars
  <2>0. PICK u \in Users, s \in Sessions :
             u = user[t] /\ s = arg[t] /\ UserOf[s] = u /\ Doing(t) = [op |-> task[t], session |-> s]
    BY <1>6, <1>8
  <2>1. torn' = torn /\ task[t] = "remove" /\ \A v \in Users : Indexed(v)' = Indexed(v)
    BY <2>0, <1>8, IndexKept DEF EnterRemove, history
  <2>2. CASE cache[user[t]] = Null
    <3>1. Indexed(u)' = Indexed(u) \ {arg[t]}
      BY <2>0, <1>6, <1>8, <2>1, <2>2 DEF Indexed
    <3>2. QED BY <2>0, <1>6, <1>7, <1>8, <1>v, <2>1, <3>1, Settles
  <2>3. CASE cache[user[t]] # Null
    BY <2>0, <1>6, <1>7, <1>8, <2>1, <2>3, Stutter DEF EnterRemove
  <2>4. QED BY <2>0, <2>2, <2>3
<1>9. ASSUME NEW t \in Threads, MutatePut(t) \/ MutateRemove(t)
      PROVE  Store!Next \/ UNCHANGED Store!vars
  <2>0. PICK u \in Users, s \in Sessions :
             u = user[t] /\ s = arg[t] /\ UserOf[s] = u /\ Doing(t) = [op |-> task[t], session |-> s]
    BY <1>6, <1>9
  <2>1. torn' = torn /\ cache' = cache /\ pc[t] = "mutate" /\ pc[t] \in Inside
        /\ Doing(t)' = Doing(t)
    BY <2>0, <1>7, <1>9 DEF MutatePut, MutateRemove, history, Inside
  <2>2. \A v \in Users \ {u} : Indexed(v)' = Indexed(v)
    BY <2>0, <1>6, <1>9, <1>s, <2>1 DEF MutatePut, MutateRemove, Indexed, SafeInv, TypeOK
  <2>3. CASE u \in torn
    BY <2>0, <1>6, <1>7, <1>9, <1>v, <2>1, <2>2, <2>3, Settles
  <2>4. CASE u \notin torn
    <3>1. ~Raced(t)
      <4> SUFFICES ASSUME NEW r \in Threads \ {t}, map[r] = map[t], pc[r] = "mutate" PROVE FALSE
        BY DEF Raced
      <4>1. r \in Workers /\ pc[r] \in Inside
        BY <2>0, <1>s DEF SafeInv, LocalsInv, LocalsOK, Busy, Inside
      <4>2. user[r] = user[t]
        BY <2>0, <1>6, <1>9, <1>s, <2>1, <4>1 DEF SafeInv, MapsInv
      <4>3. QED BY <2>0, <1>6, <1>9, <2>1, <2>4, <4>1, <4>2, OneInside DEF ExactInv
    <3>2. content' = [content EXCEPT ![map[t]] =
                        IF task[t] = "put" THEN @ \cup {arg[t]} ELSE @ \ {arg[t]}]
      BY <2>0, <1>9, <3>1 DEF MutatePut, MutateRemove
    <3>3. CASE cache[user[t]] = map[t]
      <4>1. Indexed(u)' = IF task[t] = "put" THEN Indexed(u) \cup {arg[t]}
                                                   ELSE Indexed(u) \ {arg[t]}
        <5>1. map[t] \in Maps /\ map[t] # Null
          BY <1>6, <1>9, <1>s, <2>1
        <5>2. content'[map[t]] = IF task[t] = "put" THEN content[map[t]] \cup {arg[t]}
                                                    ELSE content[map[t]] \ {arg[t]}
          BY <1>s, <3>2, <5>1 DEF SafeInv, TypeOK
        <5>3. cache[u] = map[t] /\ cache'[u] = map[t]
          BY <2>0, <2>1, <3>3
        <5>4. QED BY <5>1, <5>2, <5>3 DEF Indexed
      <4>2. QED BY <2>0, <1>6, <1>7, <1>9, <1>v, <2>1, <2>2, <4>1, Settles
    <3>4. CASE cache[user[t]] # map[t]
      <4>1. Indexed(u)' = Indexed(u)
        BY <2>0, <1>6, <1>9, <1>s, <2>1, <3>2, <3>4 DEF Indexed, SafeInv, TypeOK
      <4>2. QED BY <2>0, <1>6, <1>7, <1>9, <2>1, <2>2, <4>1, Stutter
    <3>5. QED BY <3>3, <3>4
  <2>5. QED BY <2>0, <2>3, <2>4
\* a new HashMap comes into the index with the session it was made for
<1>10. ASSUME NEW t \in Threads, Publish(t) PROVE Store!Next
  <2>0. PICK u \in Users, s \in Sessions :
             u = user[t] /\ s = arg[t] /\ UserOf[s] = u /\ Doing(t) = [op |-> task[t], session |-> s]
    BY <1>6, <1>10
  <2>1. /\ pc[t] = "publish" /\ task[t] = "put" /\ pc[t] \in Inside /\ content' = content
        /\ cache' = [cache EXCEPT ![user[t]] = map[t]] /\ torn' = torn
    BY <2>0, <1>10, <1>s DEF Publish, history, SafeInv, LocalsInv, LocalsOK, Inside
  <2>2. \A v \in Users \ {u} : Indexed(v)' = Indexed(v)
    BY <2>0, <1>6, <1>10, <1>s, <2>1 DEF Indexed, SafeInv, TypeOK
  <2>3. u \notin torn => Indexed(u)' = Indexed(u) \cup {arg[t]}
    BY <2>0, <1>6, <1>10, <1>s, <2>1 DEF ExactInv, HandsInv, HandOK, Indexed, SafeInv, TypeOK
  <2>4. QED BY <2>0, <1>6, <1>7, <1>10, <1>v, <2>1, <2>2, <2>3, Settles
\* the HashMap is empty and the lock object goes, or the remove is over
<1>11. ASSUME NEW t \in Threads, Drop(t) PROVE Store!Next \/ UNCHANGED Store!vars
  <2>0. PICK u \in Users, s \in Sessions :
             u = user[t] /\ s = arg[t] /\ UserOf[s] = u /\ Doing(t) = [op |-> task[t], session |-> s]
    BY <1>6, <1>11
  <2>1. /\ pc[t] = "drop" /\ task[t] = "remove" /\ pc[t] \in Inside
        /\ \A v \in Users : Indexed(v)' = Indexed(v)
    BY <2>0, <1>11, <1>s, IndexKept DEF Drop, SafeInv, LocalsInv, LocalsOK, Inside
  <2>2. u \notin torn => Indexed(u) = content[map[t]] /\ arg[t] \notin content[map[t]]
    BY <2>0, <1>6, <1>11, <1>s, <2>1 DEF ExactInv, HandsInv, HandOK, Indexed
  <2>3. CASE ~Emptied(map[t])
    <3>1. torn' = torn
      BY <2>0, <1>11, <2>3 DEF Drop
    <3>2. u \notin torn => Indexed(u)' = Indexed(u) \ {arg[t]}
      BY <2>0, <1>6, <1>11, <2>1, <2>2
    <3>3. QED BY <2>0, <1>6, <1>7, <1>11, <1>v, <2>1, <3>1, <3>2, Settles
  <2>4. CASE Emptied(map[t])
    <3>1. Doing(t)' = Doing(t)
      BY <2>0, <1>7, <1>11, <2>4 DEF Drop
    <3>2. CASE torn' = torn
      BY <2>0, <1>6, <1>7, <1>11, <2>1, <3>1, <3>2, Stutter
    <3>3. CASE torn' # torn
      <4>1. torn' = torn \cup {user[t]} /\ AtIndex(user[t]) # {t}
        BY <2>0, <1>11, <2>4, <3>3 DEF Drop
      <4>2. u \notin torn
        BY <2>0, <3>3, <4>1
      <4>3. View[u] = {} /\ Store!At(u) # {t}
        <5>1. Indexed(u) = {}
          BY <2>2, <2>4, <4>2 DEF Emptied
        <5>2. Store!At(u) # {t}
          BY <1>s, <2>0, <4>1, AtIs
        <5>3. QED BY <5>1, <5>2 DEF View
      <4>4. View' = View /\ Jobs' = Jobs /\ Jobs[t].op = "remove" /\ Jobs[t].session = arg[t]
        BY <2>0, <1>6, <1>7, <1>11, <2>1, <3>1 DEF View, Jobs
      <4>5. Store!Tear(t)
        <5>1. UserOf[Jobs[t].session] = u /\ torn' = torn \cup {u}
          BY <2>0, <4>1, <4>4
        <5>2. UNCHANGED <<memory, View, Jobs>>
          BY <1>6, <1>11, <4>4
        <5>3. QED BY <4>3, <4>4, <5>1, <5>2 DEF Store!Tear, View, Jobs
      <4>6. QED BY <2>0, <1>6, <1>11, <4>5 DEF Store!Next
    <3>4. QED BY <3>2, <3>3
  <2>5. QED BY <2>0, <2>3, <2>4
\* the HashMap that goes is empty
<1>12. ASSUME NEW t \in Threads, Uncache(t) PROVE Store!Next
  <2>0. PICK u \in Users, s \in Sessions :
             u = user[t] /\ s = arg[t] /\ UserOf[s] = u /\ Doing(t) = [op |-> task[t], session |-> s]
    BY <1>6, <1>12
  <2>1. /\ pc[t] = "uncache" /\ task[t] = "remove" /\ pc[t] \in Inside /\ content' = content
        /\ cache' = [cache EXCEPT ![user[t]] = Null] /\ torn' = torn
    BY <2>0, <1>12, <1>s DEF Uncache, history, SafeInv, LocalsInv, LocalsOK, Inside
  <2>2. \A v \in Users \ {u} : Indexed(v)' = Indexed(v)
    BY <2>0, <1>6, <1>12, <1>s, <2>1 DEF Indexed, SafeInv, TypeOK
  <2>3. u \notin torn => Indexed(u)' = Indexed(u) \ {arg[t]}
    BY <2>0, <1>6, <1>12, <1>s, <2>1 DEF ExactInv, HandsInv, HandOK, Indexed, SafeInv, TypeOK
  <2>4. QED BY <2>0, <1>6, <1>7, <1>12, <1>v, <2>1, <2>2, <2>3, Settles
<1>13. CASE UNCHANGED vars
  BY <1>13, IndexKept, Stutter DEF vars, Doing
<1> QED
  BY <1>1, <1>2, <1>3, <1>4, <1>5, <1>8, <1>9, <1>10, <1>11, <1>12, <1>13 DEF Next, Work, Index

-----------------------------------------------------------------------------
(* Theorem *)

\* Whatever the executor's threads are asked, the repository is a SessionStore: get(id)
\* sees a create or an expire at once, getBy(user) at one moment before it returns, and
\* nothing else is seen to change -- as long as the user's index is not emptied, or
\* cleared, under another update.
THEOREM ImplementsStore == Spec => StoreImplemented
<1>1. Init => ExactInv /\ Store!Init
  BY ExactInit, StoreInit
<1>2. ExactInv /\ [Next]_vars => ExactInv'
  BY ExactStep
<1>3. ExactInv /\ ExactInv' /\ [Next]_vars => [Store!Next]_(Store!vars)
  BY StoreStep
<1> QED
  BY <1>1, <1>2, <1>3, PTL DEF Spec, StoreImplemented, Store!Spec
=============================================================================
