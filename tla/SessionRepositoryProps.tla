----------------------- MODULE SessionRepositoryProps -----------------------
(***************************************************************************)
(* What SessionRepository promises, whatever its constants are.            *)
(***************************************************************************)
EXTENDS SessionRepository

Owned(u) == {s \in Sessions : UserOf[s] = u}

\* What a lookup of the user would read now.
Indexed(u) == IF cache[u] = Null THEN {} ELSE content[cache[u]]

\* No worker is updating the index about the session, or clearing it.
Settled(s) == ~Clearing /\ \A t \in Workers : arg[t] # s

\* A user's HashMap holds sessions of that user only: IndexRepository files a
\* session under its user, and HashMap objects are never shared by two users.
OwnUser == \A u \in Users : Indexed(u) \subseteq Owned(u)

\* Until a lock object has been thrown away, WessionMutilMap's monitors keep
\* two threads from working on the index of one user at the same time.
MutexUntilDropped ==
  \A t, r \in Threads :
    t # r /\ pc[t] \in Inside /\ pc[r] \in Inside /\ user[t] = user[r]
      => user[t] \in dropped

\* Until then getBy never meets a HashMap that changes under its iterator.
LookupFailsOnlyAfterDrop ==
  [][\A t \in Threads : answer[t] # Failed /\ answer'[t] = Failed => user[t] \in dropped]_vars

\* get(id) and getBy(user) agree about a session that nobody is changing, whatever
\* else is done to its user's index and at the same time: unless two updates about the
\* session have overlapped, or the user's index was emptied or cleared under an update.
IndexExact ==
  \A u \in Users \ torn : \A s \in Owned(u) \ crossed :
    Settled(s) => (s \in Indexed(u) <=> s \in memory)

\* c_service.jsp, line 115, takes a session that getBy returns for a login that
\* exists: a session found by user is found by id, once all workers are idle.
FoundLoginExists ==
  (\A s \in Sessions : Settled(s)) => \A u \in Users : Indexed(u) \subseteq memory

\* What worker t is doing: an update of the index from the call on until it leaves
\* the monitor, or a clear.
Doing(t) ==
  IF pc[t] \in {"clearLocks", "clearCache"} THEN [op |-> "clear"]
  ELSE IF user[t] # Null THEN [op |-> task[t], session |-> arg[t]]
  ELSE [op |-> "none"]

\* The repository, its index and the lock objects of the index implement the store
\* that SessionStore specifies.
Store == INSTANCE SessionStore
           WITH byId <- memory, byUser <- [u \in Users |-> Indexed(u)],
                doing <- [t \in Workers |-> Doing(t)]
StoreImplemented == Store!Spec
=============================================================================
