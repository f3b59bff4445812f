--------------------------- MODULE SsoLoginProofs ---------------------------
(***************************************************************************)
(* More proofs about SsoService: a user has one session, the servers agree *)
(* on its agents, and a login that was answered is held.  They rest on the *)
(* invariants of SsoServiceProofs.                                         *)
(***************************************************************************)
EXTENDS SsoServiceProofs

-----------------------------------------------------------------------------
(* One session *)

\* Session x is being created, or it is stored and no task has begun to remove it.
Alive(x) ==
  \/ x \in Creating
  \/ /\ \E n \in Nodes : x \in stored[n]
     /\ \A t \in tasks : Removes(t, x) => ~Began(t)

\* Of the sessions that no race has to do with, one at most is alive.
Alone ==
  \A x, y \in Agents \ (blind \cup raced \cup aged) : Alive(x) /\ Alive(y) => x = y

\* A step that brings no session to life.
LEMMA AloneKept ==
  ASSUME Alone, blind \subseteq blind', raced \subseteq raced', aged \subseteq aged',
         \A x \in Agents \ (raced' \cup aged') : Alive(x)' => Alive(x)
  PROVE  Alone'
  BY DEF Alone

LEMMA AloneInit == Init => Alone
<1> SUFFICES ASSUME Init PROVE \A x : ~Alive(x)
  BY DEF Alone
<1>1. /\ tasks = {} /\ \A n \in Nodes : stored[n] = {}
      /\ \A r \in Requests : request[r].at # "create"
  BY DEF Init, Idle
<1> QED
  BY <1>1 DEF Alive, Creating

LEMMA CreatingParts ==
  \A x : x \in Creating <=> \/ \E t \in tasks : Creates(t, x)
                            \/ \E r \in Requests : request[r].at = "create" /\ request[r].agent = x
  BY DEF Creating, Creates

\* A task moves on.
LEMMA MovedCreates ==
  ASSUME NEW t, NEW u, tasks' = (tasks \ {t}) \cup {u}, t \in tasks,
         \A x : Creates(u, x) <=> Creates(t, x), UNCHANGED request
  PROVE  Creating' = Creating
<1>1. \A x : (\E v \in tasks' : Creates(v, x)) <=> (\E v \in tasks : Creates(v, x))
  OBVIOUS
<1>2. \A x : x \in Creating' <=> \/ \E v \in tasks' : Creates(v, x)
                                 \/ \E r \in Requests : request'[r].at = "create" /\ request'[r].agent = x
  BY DEF Creating, Creates
<1>3. \A x : x \in Creating' <=> x \in Creating
  BY <1>1, <1>2, CreatingParts
<1> QED
  BY <1>3

\* Fewer tasks create less.
LEMMA FewerCreates ==
  ASSUME \A x : (\E v \in tasks' : Creates(v, x)) => x \in Creating,
         \A r \in Requests : request'[r].at = "create" => request'[r] = request[r]
  PROVE  Creating' \subseteq Creating
<1>1. \A x : x \in Creating' <=> \/ \E v \in tasks' : Creates(v, x)
                                 \/ \E r \in Requests : request'[r].at = "create" /\ request'[r].agent = x
  BY DEF Creating, Creates
<1> QED
  BY <1>1, CreatingParts

\* What is stored at one server only, with its time not past, is not alive, if no
\* task creates it.
LEMMA HalfRemoved ==
  ASSUME Inv, NEW x \in Agents \ (raced \cup aged), NEW n \in Nodes,
         x \in stored[n], x \notin stored[Peer(n)], x \notin Creating
  PROVE  \E t \in tasks : Removes(t, x) /\ Half(t, Peer(n)) /\ Began(t)
<1>1. \A t \in tasks : ~Creates(t, x)
  BY CreatingParts
<1>2. PICK t \in tasks : Removes(t, x) /\ Half(t, Peer(n))
  BY <1>1 DEF Inv, Told
<1>3. Began(t)
  BY <1>2 DEF Half, Began
<1> QED
  BY <1>2, <1>3

\* A removal of which nothing is left to do has removed the session.
LEMMA RemovalEnds ==
  ASSUME SsoAssumption, TypeOfParts, Inv, NEW t \in tasks, ~t.cluster,
         t.at = "index" \/ (t.at = "run" /\ t.id \notin stored[t.node]),
         NEW x \in Agents \ (raced \cup aged), Removes(t, x), t.at = "run" => t.id = x,
         x \notin Creating
  PROVE  (\A n \in Nodes : x \notin stored[n]) \/ (\E v \in tasks \ {t} : Removes(v, x) /\ Began(v))
<1> DEFINE m == t.node
<1>1. m \in Nodes
  BY DEF TypeOfParts, TaskType, TaskRecord
<1>2. Peer(m) \in Nodes /\ Peer(m) # m /\ Peer(Peer(m)) = m /\ \A n \in Nodes : n = m \/ n = Peer(m)
  BY <1>1, PeerFacts
<1>3. x \notin stored[m]
  <2>1. CASE t.at = "index"
    BY <1>1, <2>1 DEF Inv, Stands, Indexes
  <2> QED
    BY <2>1
<1>4. CASE x \in stored[Peer(m)]
  <2>1. PICK v \in tasks : Removes(v, x) /\ Half(v, m) /\ Began(v)
    BY <1>2, <1>3, <1>4, HalfRemoved
  <2>2. CASE v = t
    <3>1. FALSE
      BY <1>2, <2>1, <2>2 DEF Half
    <3> QED
      BY <3>1
  <2> QED
    BY <2>1, <2>2
<1> QED
  BY <1>2, <1>3, <1>4

LEMMA TasksAlone ==
  ASSUME SsoAssumption, TypeOfParts, Inv, Alone, NEW t \in tasks, TaskStep(t)
  PROVE  Alone'
<1>0. /\ UNCHANGED <<request, aged, blind>> /\ raced \subseteq raced'
      /\ t \in TaskType /\ t \in TaskRecord
  BY DEF TaskStep, RunCreate, RunExpire, RunClear, RunIndex, Forward, ForwardChange, history,
         TypeOfParts, TaskType
<1> SUFFICES ASSUME NEW x \in Agents \ (raced' \cup aged'), Alive(x)' PROVE Alive(x)
  BY <1>0, AloneKept
<1>1. x \notin raced /\ x \notin aged
  BY <1>0
<1>2. CASE x \in Creating
  BY <1>2 DEF Alive
<1>3. CASE x \notin Creating
  <2>1. ~Creates(t, x)
    BY <1>3, CreatingParts
  <2>2. ASSUME NEW u, tasks' = (tasks \ {t}) \cup {u}, \A y : Creates(u, y) <=> Creates(t, y),
               Removes(t, x) => Removes(u, x), Began(t) => Began(u),
               \A n \in Nodes : x \in stored'[n] => x \in stored[n]
        PROVE  Alive(x)
    <3>1. Creating' = Creating
      BY <1>0, <2>2, MovedCreates
    <3>2. (\E n \in Nodes : x \in stored'[n]) /\ \A v \in tasks' : Removes(v, x) => ~Began(v)
      BY <1>3, <3>1 DEF Alive, Removes, Began
    <3>3. \A v \in tasks : Removes(v, x) => ~Began(v)
      BY <2>2, <3>2
    <3> QED
      BY <2>2, <3>2, <3>3 DEF Alive
  <2>3. ASSUME tasks' = tasks \ {t}, ~Removes(t, x), UNCHANGED stored
        PROVE  Alive(x)
    <3>1. Creating' \subseteq Creating
      BY <1>0, <2>3, CreatingParts, FewerCreates
    <3>2. (\E n \in Nodes : x \in stored'[n]) /\ \A v \in tasks' : Removes(v, x) => ~Began(v)
      BY <1>3, <3>1 DEF Alive, Removes, Began
    <3> QED
      BY <2>3, <3>2 DEF Alive
  <2>4. ASSUME tasks' = tasks \ {t}, Removes(t, x), ~t.cluster, UNCHANGED stored,
               t.at = "index" \/ (t.at = "run" /\ t.id \notin stored[t.node]),
               t.at = "run" => t.id = x
        PROVE  Alive(x)
    <3>1. Creating' \subseteq Creating
      BY <1>0, <2>4, CreatingParts, FewerCreates
    <3>2. (\E n \in Nodes : x \in stored'[n]) /\ \A v \in tasks' : Removes(v, x) => ~Began(v)
      BY <1>3, <3>1 DEF Alive, Removes, Began
    <3>3. FALSE
      BY <1>1, <1>3, <2>4, <3>2, RemovalEnds
    <3> QED
      BY <3>3
  <2>5. CASE RunCreate(t)
    <3> DEFINE u == [t EXCEPT !.at = "index"]
    <3>1. /\ tasks' = (tasks \ {t}) \cup {u} /\ \A y : Creates(u, y) <=> Creates(t, y)
          /\ Removes(t, x) => Removes(u, x) /\ u.at = "index"
      BY <2>5, MovedFacts DEF RunCreate
    <3>2. stored' = [stored EXCEPT ![t.node] = @ \cup {t.id}] /\ t.id # x
      BY <2>1, <2>5 DEF RunCreate, Creates
    <3>3. \A n \in Nodes : x \in stored'[n] => x \in stored[n]
      BY <3>2 DEF TypeOfParts
    <3>4. Removes(t, x) => Removes(u, x)
      BY <3>1
    <3>5. Began(u)
      BY <3>1, MovedFacts, <2>5 DEF RunCreate, Began
    <3> QED
      BY <2>2, <3>1, <3>3, <3>4, <3>5
  <2>6. ASSUME NEW where \in {"index", "send"}, tasks' = Moved(t, where),
               \A n \in Nodes : x \in stored'[n] => x \in stored[n]
        PROVE  Alive(x)
    <3> DEFINE u == [t EXCEPT !.at = where]
    <3>1. /\ tasks' = (tasks \ {t}) \cup {u} /\ \A y : Creates(u, y) <=> Creates(t, y)
          /\ \A y : Removes(u, y) <=> Removes(t, y)
          /\ u.at = where
      BY <2>6, MovedFacts
    <3>2. Began(u)
      BY <3>1 DEF Began
    <3> HIDE DEF u
    <3> QED
      BY <2>2, <2>6, <3>1, <3>2
  <2>7. CASE RunExpire(t)
    <3>1. stored' = [stored EXCEPT ![t.node] = @ \ {t.id}] /\ t.at = "run" /\ t.op = "expire"
      BY <2>7 DEF RunExpire
    <3>2. \A n \in Nodes : x \in stored'[n] => x \in stored[n]
      BY <3>1 DEF TypeOfParts
    <3>3. CASE tasks' = Moved(t, "index") \/ tasks' = Moved(t, "send")
      BY <2>6, <3>2, <3>3
    <3>4. CASE tasks' = tasks \ {t} /\ ~t.cluster /\ t.id \notin stored[t.node]
      <4>1. stored' = stored
        BY <1>0, <3>1, <3>4 DEF TypeOfParts, TaskRecord
      <4>2. Removes(t, x) => t.id = x
        BY <3>1 DEF Removes
      <4> QED
        BY <2>3, <2>4, <3>1, <3>4, <4>1, <4>2
    <3> QED
      BY <2>7, <3>3, <3>4 DEF RunExpire, After
  <2>8. CASE RunClear(t)
    <3>1. \A n \in Nodes : x \in stored'[n] => x \in stored[n]
      BY <2>8 DEF RunClear, TypeOfParts
    <3> QED
      BY <2>6, <2>8, <3>1 DEF RunClear
  <2>9. CASE RunIndex(t)
    <3>1. t.at = "index" /\ UNCHANGED stored /\ tasks' = After(t)
      BY <2>9 DEF RunIndex
    <3>2. CASE t.cluster
      BY <2>6, <3>1, <3>2 DEF After
    <3>3. CASE ~t.cluster
      BY <2>3, <2>4, <3>1, <3>3 DEF After
    <3> QED
      BY <3>2, <3>3
  <2>10. CASE Forward(t)
    <3> DEFINE as == IF t.op = "create" THEN agents[t.node][t.id] ELSE {}
               u == [t EXCEPT !.at = "run", !.node = Peer(t.node), !.cluster = FALSE, !.body = as]
    <3>1. tasks' = (tasks \ {t}) \cup {u} /\ UNCHANGED stored
      BY <2>10 DEF Forward
    <3>2. u.op = t.op /\ u.id = t.id /\ ~u.cluster
      BY <1>0 DEF TaskRecord
    <3> HIDE DEF u
    <3>3. /\ \A y : Creates(u, y) <=> Creates(t, y)
          /\ Removes(t, x) => Removes(u, x)
          /\ Began(u)
      BY <3>2 DEF Creates, Removes, Began
    <3> QED
      BY <2>2, <3>1, <3>3
  <2>11. CASE ForwardChange(t)
    <3>1. tasks' = tasks \ {t} /\ UNCHANGED stored /\ ~Removes(t, x)
      BY <2>11 DEF ForwardChange, Removes
    <3> QED
      BY <2>3, <3>1
  <2> QED
    BY <2>5, <2>7, <2>8, <2>9, <2>10, <2>11 DEF TaskStep
<1> QED
  BY <1>2, <1>3

LEMMA LoginAlone ==
  ASSUME SsoAssumption, TypeOfParts, Inv, Alone,
         NEW r \in Requests, NEW n \in Nodes, NEW a \in Agents, Login(r, n, a)
  PROVE  Alone'
<1>1. PICK q \in RequestType :
        /\ request' = [request EXCEPT ![r] = q]
        /\ q.at = "create" => q.agent = a
  BY BeginTyped DEF Login, Over
<1>2. /\ UNCHANGED <<stored, view, tasks, sweeping, aged, raced>>
      /\ blind' = IF view[n] = {} /\ Creating # {} THEN blind \cup {a} ELSE blind
      /\ Begin(r, "login", n, a)
  BY DEF Login
<1>3. Peer(n) \in Nodes /\ Peer(Peer(n)) = n /\ \A m \in Nodes : m = n \/ m = Peer(n)
  BY PeerFacts
<1>4. request'[r] = q /\ \A p \in Requests : p # r => request'[p] = request[p]
  BY <1>1 DEF TypeOfParts
<1>5. ASSUME NEW x \in Agents, x # a \/ q.at # "create", Alive(x)' PROVE Alive(x)
  <2>1. x \in Creating' => x \in Creating
    BY <1>1, <1>2, <1>4, <1>5 DEF Creating
  <2> QED
    BY <1>2, <1>5, <2>1 DEF Alive, Removes, Began
<1>6. CASE q.at # "create" \/ a \in blind'
  <2>1. \A x \in Agents \ (blind' \cup raced' \cup aged') : Alive(x)' => Alive(x)
    BY <1>5, <1>6
  <2> QED
    BY <1>2, <2>1 DEF Alone
<1>7. CASE q.at = "create" /\ a \notin blind'
  <2>1. view[n] = {}
    BY <1>2, <1>4, <1>7 DEF Begin, Over, TypeOfParts
  <2>2. Creating = {}
    BY <1>2, <1>7, <2>1
  <2>3. ASSUME NEW y \in Agents \ (raced \cup aged), Alive(y)
        PROVE  FALSE
    <3>1. \A t \in tasks : ~Creates(t, y) /\ (Removes(t, y) => ~Began(t))
      BY <2>2, <2>3, CreatingParts DEF Alive
    <3>2. \A t \in tasks, m \in Nodes : Half(t, m) \/ Indexes(t, m) => Began(t)
      BY DEF Half, Indexes, Began
    <3>3. y \notin stored[n]
      <4>1. ~(\E t \in tasks : Indexes(t, n) /\ (Creates(t, y) \/ Removes(t, y)))
        BY <3>1, <3>2
      <4> QED
        BY <2>1, <4>1 DEF Inv, Shown, Stands
    <3>4. y \notin stored[Peer(n)]
      BY <1>3, <2>2, <3>1, <3>3, HalfRemoved
    <3> QED
      BY <1>3, <2>2, <2>3, <3>3, <3>4 DEF Alive
  <2> QED
    BY <1>2, <1>5, <2>3 DEF Alone
<1> QED
  BY <1>6, <1>7

LEMMA AloneStep ==
  ASSUME SsoAssumption, TypeOfParts, Inv, Alone, [Next]_vars
  PROVE  Alone'
<1>1. CASE UNCHANGED vars
  BY <1>1 DEF vars, Alone, Alive, Creating, Removes, Began
<1>2. ASSUME NEW r \in Requests, Quiet(r) PROVE Alone'
  <2>1. PICK q : KnownRequest(q) /\ request' = [request EXCEPT ![r] = q]
    BY <1>2 DEF Quiet
  <2>2. PICK new : (\A t \in new : KnownTask(t)) /\ tasks' = tasks \cup new
    BY <1>2 DEF Quiet
  <2>3. UNCHANGED <<stored, aged, blind, raced>>
    BY <1>2 DEF Quiet
  <2>4. q.at # "create"
    BY <2>1 DEF KnownRequest, Over
  <2>5. \A p \in Requests : request'[p].at = "create" => request'[p] = request[p]
    BY <2>1, <2>4 DEF TypeOfParts
  <2>6. \A x : (\E v \in tasks' : Creates(v, x)) => x \in Creating
    BY <2>2, CreatingParts DEF KnownTask, Creates
  <2>7. Creating' \subseteq Creating
    BY <2>5, <2>6, FewerCreates
  <2>8. \A x \in Agents : Alive(x)' => Alive(x)
    BY <2>2, <2>3, <2>7 DEF Alive, Removes, Began
  <2> QED
    BY <2>3, <2>8, AloneKept
<1>3. ASSUME NEW r \in Requests, CreateSession(r) PROVE Alone'
  <2> DEFINE a == request[r].agent
             t == Task("create", r, request[r].node, a, None)
  <2>1. /\ tasks' = tasks \cup {t} /\ request[r].at = "create"
        /\ request' = [request EXCEPT ![r] = Over]
        /\ UNCHANGED <<stored, aged, blind>> /\ raced \subseteq raced'
    BY <1>3 DEF CreateSession, End
  <2>2. t.op = "create" /\ t.id = a
    BY DEF Task
  <2> HIDE DEF t
  <2>3. a \in Creating
    BY <2>1, CreatingParts
  <2>4. \A x : (\E v \in tasks' : Creates(v, x)) => x \in Creating
    BY <2>1, <2>2, <2>3, CreatingParts DEF Creates
  <2>5. \A p \in Requests : request'[p].at = "create" => request'[p] = request[p]
    BY <2>1 DEF Over, TypeOfParts
  <2>6. Creating' \subseteq Creating
    BY <2>4, <2>5, FewerCreates
  <2>7. \A x \in Agents : Alive(x)' => Alive(x)
    BY <2>1, <2>6 DEF Alive, Removes, Began
  <2> QED
    BY <2>1, <2>7, AloneKept
<1>4. ASSUME NEW x \in Agents, Age(x) PROVE Alone'
  BY <1>4, AloneKept DEF Age, history, Alive, Creating, Removes, Began
<1>5. ASSUME NEW n \in Nodes, Sweep(n) \/ SweepIndex(n) PROVE Alone'
  <2>1. /\ UNCHANGED <<tasks, request, aged, blind>> /\ raced \subseteq raced'
        /\ \A m \in Nodes : stored'[m] \subseteq stored[m]
    BY <1>5 DEF Sweep, SweepIndex, history, TypeOfParts
  <2>2. \A x \in Agents : Alive(x)' => Alive(x)
    BY <2>1 DEF Alive, Creating, Removes, Began
  <2> QED
    BY <2>1, <2>2, AloneKept
<1>6. CASE Next
  <2>1. Step
    BY <1>6, NextIsStep
  <2> QED
    BY <1>2, <1>3, <1>4, <1>5, <2>1, TasksAlone, LoginAlone DEF Step
<1> QED
  BY <1>1, <1>6

\* However many logins, logouts, timeouts, kills, clears and agings there are, and in
\* whatever order their tasks run on the two servers: when all is done the user has one
\* session at most, not counting those that the named races left and those past their time.
THEOREM OneSessionOnly == Spec => []OneSession
<1>1. Init => TypeOfParts /\ Inv /\ Alone
  BY SsoAssumption, TypeInit, InvInit, AloneInit
<1>2. TypeOfParts /\ Inv /\ Alone /\ [Next]_vars => (TypeOfParts /\ Inv /\ Alone)'
  BY SsoAssumption, TypeStep, InvStep, AloneStep
<1>3. TypeOfParts /\ Alone => OneSession
  <2> SUFFICES ASSUME TypeOfParts, Alone, AtRest, NEW n \in Nodes
               PROVE  Cardinality(stored[n] \ (blind \cup raced \cup aged)) <= 1
    BY DEF OneSession
  <2> DEFINE S == stored[n] \ (blind \cup raced \cup aged)
  <2>1. \A x \in S : x \in Agents /\ Alive(x)
    BY DEF AtRest, Alive, TypeOfParts
  <2>2. \A x, y \in S : x = y
    BY <2>1 DEF Alone
  <2> HIDE DEF S
  <2>3. ASSUME S = {} PROVE Cardinality(S) = 0
    BY <2>3, FS_EmptySet
  <2>4. ASSUME S # {} PROVE Cardinality(S) = 1
    <3>1. PICK x : S = {x}
      BY <2>2, <2>4
    <3> QED
      BY <3>1, FS_Singleton
  <2>5. Cardinality(S) <= 1
    BY <2>3, <2>4
  <2> QED
    BY <2>5 DEF S
<1> QED
  BY <1>1, <1>2, <1>3, PTL DEF Spec


-----------------------------------------------------------------------------
(* The agents of a session *)

\* Task t tells the peer of a change of agent a of session x.
Changes(t, x, a) == t.op \in {"add", "remove"} /\ t.id = x /\ t.agent = a

\* Task t has yet to store its session on server n.
Pending(t, n) == (t.node = n /\ t.at = "run") \/ (t.cluster /\ t.node = Peer(n))

\* Request r is on server n, and at session x or on its way to it.
Works(r, n, x) ==
  Active(r) /\ request[r].node = n /\ (x \in request[r].list \/ request[r].id = x)

\* A session is created once.
OneCreate ==
  \A t, u \in tasks : t.op = "create" /\ u.op = "create" /\ t.id = u.id => t = u

\* A server does not work with a session before it has stored it.
Unreached ==
  \A t \in tasks, n \in Nodes : t.op = "create" /\ Pending(t, n) =>
    /\ t.id \notin stored[n] /\ t.id \notin view[n]
    /\ \A r \in Requests : ~Works(r, n, t.id)
    /\ \A u \in tasks, a \in Agents : Changes(u, t.id, a) => u.node # n

\* One task at most tells of a change of an agent, it tells what its server has, and
\* a message that creates the session carries what its sender has.
Telling(x, a) ==
  /\ \A t, u \in tasks : Changes(t, x, a) /\ Changes(u, x, a) => t = u
  /\ \A t \in tasks : Changes(t, x, a) => (a \in agents[t.node][x] <=> t.op = "add")
  /\ \A t \in tasks : Creates(t, x) /\ t.at = "run" /\ ~t.cluster =>
       (a \in t.body <=> a \in agents[Peer(t.node)][x])

\* If the servers have a session with other agents, a task will tell.
Alike(x, a) ==
  \A n \in Nodes : x \in stored[n] /\ x \in stored[Peer(n)] =>
    (a \in agents[n][x] <=> a \in agents[Peer(n)][x]) \/ \E t \in tasks : Changes(t, x, a)

Carried == \A x, a \in Agents : <<x, a>> \notin uneven => Telling(x, a) /\ Alike(x, a)

AgentsInv == OneCreate /\ Unreached /\ Carried

LEMMA AgentsInit == SsoAssumption /\ Init => AgentsInv
<1> SUFFICES ASSUME SsoAssumption, Init PROVE AgentsInv
  OBVIOUS
<1>1. tasks = {} /\ \A n \in Nodes : stored[n] = {}
  BY DEF Init
<1> QED
  BY <1>1 DEF AgentsInv, OneCreate, Unreached, Carried, Telling, Alike

\* No request comes to a session that its server does not show.
Goes ==
  \A r \in Requests, n \in Nodes, x \in Agents : Works(r, n, x)' => Works(r, n, x) \/ x \in view[n]

Dooms(t) == t.op \in {"expire", "clear"}

\* A step leaves the agents of all sessions alone.
Rests ==
  /\ agents' = agents /\ uneven' = uneven
  /\ \E new : (\A t \in new : Dooms(t)) /\ tasks' = tasks \cup new

\* Request r, on server n, changes whether session x has agent a.  It tells the peer if
\* the session is stored, or it does not and this is in uneven.
Touches(r, n, x, a, op) ==
  /\ Works(r, n, x)
  /\ agents' = [agents EXCEPT ![n][x] = Applied(op, @, a)]
  /\ \/ uneven' = uneven \cup {<<x, a>>} /\ tasks' = tasks
     \/ /\ uneven' = Unlearnt(n, x, a)
        /\ tasks' = IF x \in stored[n] THEN tasks \cup {Change(op, r, n, x, a)} ELSE tasks

Asks(r) ==
  /\ UNCHANGED <<stored, view>>
  /\ Goes
  /\ Rests \/ \E n \in Nodes, x \in Agents, a \in Agents, op \in {"add", "remove"} : Touches(r, n, x, a, op)

\* A request that goes on is on its server, and at a session of its list.
LEMMA StaysGoes ==
  ASSUME SsoAssumption, TypeOfParts, NEW r \in Requests, NEW q,
         request' = [request EXCEPT ![r] = q],
         q = Over \/ /\ Active(r) /\ q.node = request[r].node /\ q.list \subseteq request[r].list
                     /\ q.id = None \/ q.id = request[r].id \/ q.id \in request[r].list
  PROVE  Goes
<1> SUFFICES ASSUME NEW p \in Requests, NEW n \in Nodes, NEW x \in Agents, Works(p, n, x)'
             PROVE  Works(p, n, x)
  BY DEF Goes
<1>1. CASE p = r
  BY <1>1 DEF Works, Active, Over, TypeOfParts, SsoAssumption
<1>2. CASE p # r
  BY <1>2 DEF Works, Active, TypeOfParts
<1> QED
  BY <1>1, <1>2

LEMMA AdvanceGoes ==
  ASSUME SsoAssumption, TypeOfParts, NEW r \in Requests, Active(r), NEW x, NEW last,
         request' = Advance(r, x) \/ request' = [Advance(r, x) EXCEPT ![r].last = last]
  PROVE  Goes
<1> DEFINE s == [request[r] EXCEPT !.at = "next", !.list = request[r].list \ {x}, !.id = None,
                                   !.keys = {}, !.met = {}, !.found = FALSE]
           q == IF request[r].list = {x} THEN Over ELSE s
<1>1. request[r] \in ActiveRecord
  BY ActiveTyped DEF Active
<1>2. s.node = request[r].node /\ s.list \subseteq request[r].list /\ s.id = None /\ s \in ActiveRecord
  BY <1>1 DEF ActiveRecord
<1>3. Advance(r, x) = [request EXCEPT ![r] = q]
  BY DEF Advance
<1> HIDE DEF s
<1>4. CASE request' = Advance(r, x)
  BY <1>2, <1>3, <1>4, StaysGoes
<1>5. CASE request' = [Advance(r, x) EXCEPT ![r].last = last]
  <2> DEFINE p == [q EXCEPT !.last = last]
  <2>1. request' = [request EXCEPT ![r] = p]
    BY <1>3, <1>5 DEF TypeOfParts
  <2>2. CASE q = Over
    <3>1. p = Over
      BY <2>2 DEF Over
    <3> QED
      BY <2>1, <3>1, StaysGoes
  <2>3. CASE q = s
    <3>1. p.node = request[r].node /\ p.list \subseteq request[r].list /\ p.id = None
      BY <1>2, <2>3 DEF ActiveRecord
    <3> HIDE DEF p
    <3> QED
      BY <2>1, <3>1, StaysGoes
  <2> QED
    BY <2>2, <2>3
<1> QED
  BY <1>4, <1>5

LEMMA BeginGoes ==
  ASSUME SsoAssumption, TypeOfParts, NEW r \in Requests, NEW n \in Nodes, NEW a \in Agents,
         NEW kind \in {"login", "logout", "timeout"}, Begin(r, kind, n, a)
  PROVE  Goes
<1> DEFINE s == [at |-> IF view[n] = {} THEN "create" ELSE "next", kind |-> kind, node |-> n,
                 agent |-> a, list |-> view[n], id |-> None, keys |-> {}, met |-> {},
                 found |-> FALSE, last |-> None]
           q == IF view[n] = {} /\ kind # "login" THEN Over ELSE s
<1>1. request' = [request EXCEPT ![r] = q]
  BY DEF Begin
<1>2. s.node = n /\ s.list = view[n] /\ s.id = None
  OBVIOUS
<1> HIDE DEF s
<1> SUFFICES ASSUME NEW p \in Requests, NEW m \in Nodes, NEW x \in Agents, Works(p, m, x)'
             PROVE  Works(p, m, x) \/ x \in view[m]
  BY DEF Goes
<1>3. CASE p = r
  BY <1>1, <1>2, <1>3 DEF Works, Active, Over, TypeOfParts, SsoAssumption
<1>4. CASE p # r
  BY <1>1, <1>4 DEF Works, Active, TypeOfParts
<1> QED
  BY <1>3, <1>4

\* Each request other than a login that has no session yet.
LEMMA NoTaskRests ==
  ASSUME UNCHANGED <<agents, uneven>>, tasks' = tasks
  PROVE  Rests
<1>1. tasks' = tasks \cup {} /\ \A t \in {} : Dooms(t)
  OBVIOUS
<1>2. \E new : (\A t \in new : Dooms(t)) /\ tasks' = tasks \cup new
  BY <1>1
<1> QED
  BY <1>2 DEF Rests

LEMMA TaskRests ==
  ASSUME UNCHANGED <<agents, uneven>>, NEW op \in {"expire", "clear"}, NEW r, NEW n, NEW x,
         tasks' = tasks \/ tasks' = tasks \cup {Task(op, r, n, x, None)}
  PROVE  Rests
<1>1. CASE tasks' = tasks \cup {Task(op, r, n, x, None)}
  <2>1. \A t \in {Task(op, r, n, x, None)} : Dooms(t)
    BY DEF Task, Dooms
  <2>2. \E new : (\A t \in new : Dooms(t)) /\ tasks' = tasks \cup new
    BY <1>1, <2>1
  <2> QED
    BY <2>2 DEF Rests
<1> QED
  BY <1>1, NoTaskRests

LEMMA BeginAsks ==
  ASSUME SsoAssumption, TypeOfParts, NEW r \in Requests, NEW n \in Nodes, NEW a \in Agents,
         Login(r, n, a) \/ Timeout(r, n, a) \/ Logout(r, n, a)
  PROVE  Asks(r)
<1>1. Goes
  BY BeginGoes DEF Login, Timeout, Logout
<1>2. Rests /\ UNCHANGED <<stored, view>>
  BY NoTaskRests DEF Login, Timeout, Logout, history
<1> QED
  BY <1>1, <1>2 DEF Asks

LEMMA KillAsks ==
  ASSUME SsoAssumption, TypeOfParts, NEW r \in Requests, NEW n \in Nodes,
         Clear(r, n) \/ \E a \in Agents : Kill(r, n, a)
  PROVE  Asks(r)
<1>1. Goes
  BY StaysGoes DEF Kill, Clear, End
<1>2. Rests /\ UNCHANGED <<stored, view>>
  BY TaskRests DEF Kill, Clear, history
<1> QED
  BY <1>1, <1>2 DEF Asks

LEMMA VisitAsks ==
  ASSUME SsoAssumption, TypeOfParts, NEW r \in Requests, NEW x \in Agents, Visit(r, x)
  PROVE  Asks(r)
<1> DEFINE n == request[r].node
<1>0. Active(r) /\ request[r] \in ActiveRecord /\ x \in request[r].list
  BY ActiveTyped DEF Visit, Active
<1>1. Goes
  <2>1. CASE End(r)
    BY <2>1, StaysGoes DEF End
  <2>2. CASE request' = Advance(r, x)
    BY <1>0, <2>2, AdvanceGoes
  <2>3. CASE request' = [request EXCEPT ![r].at = "iterate", ![r].id = x, ![r].keys = agents[n][x]]
    <3> DEFINE q == [request[r] EXCEPT !.at = "iterate", !.id = x, !.keys = agents[n][x]]
    <3>1. request' = [request EXCEPT ![r] = q]
      BY <1>0, <2>3 DEF TypeOfParts
    <3>2. q.node = request[r].node /\ q.list = request[r].list /\ q.id = x
      BY <1>0 DEF ActiveRecord
    <3> HIDE DEF q
    <3> QED
      BY <1>0, <3>1, <3>2, StaysGoes
  <2> QED
    BY <2>1, <2>2, <2>3 DEF Visit
<1>2. Rests /\ UNCHANGED <<stored, view>>
  BY TaskRests DEF Visit, history
<1> QED
  BY <1>1, <1>2 DEF Asks

\* The iterator has met an agent, or the request is over.
LEMMA MetGoes ==
  ASSUME SsoAssumption, TypeOfParts, NEW r \in Requests, Active(r), NEW b, NEW found,
         \/ request' = [request EXCEPT ![r].met = @ \cup {b}, ![r].found = found]
         \/ request' = [request EXCEPT ![r].met = @ \cup {b}]
         \/ End(r)
  PROVE  Goes
<1>0. request[r] \in ActiveRecord
  BY ActiveTyped DEF Active
<1>1. CASE request' = [request EXCEPT ![r].met = @ \cup {b}, ![r].found = found]
  <2> DEFINE q == [request[r] EXCEPT !.met = @ \cup {b}, !.found = found]
  <2>1. request' = [request EXCEPT ![r] = q]
    BY <1>0, <1>1 DEF TypeOfParts
  <2>2. q.node = request[r].node /\ q.list = request[r].list /\ q.id = request[r].id
    BY <1>0 DEF ActiveRecord
  <2> HIDE DEF q
  <2> QED
    BY <2>1, <2>2, StaysGoes
<1>2. CASE request' = [request EXCEPT ![r].met = @ \cup {b}]
  <2> DEFINE q == [request[r] EXCEPT !.met = @ \cup {b}]
  <2>1. request' = [request EXCEPT ![r] = q]
    BY <1>0, <1>2 DEF TypeOfParts
  <2>2. q.node = request[r].node /\ q.list = request[r].list /\ q.id = request[r].id
    BY <1>0 DEF ActiveRecord
  <2> HIDE DEF q
  <2> QED
    BY <2>1, <2>2, StaysGoes
<1>3. CASE End(r)
  BY <1>3, StaysGoes DEF End
<1> QED
  BY <1>1, <1>2, <1>3

LEMMA MeetRemovedAsks ==
  ASSUME SsoAssumption, TypeOfParts, NEW r \in Requests, NEW b \in Agents, MeetRemoved(r, b)
  PROVE  Asks(r)
<1>1. Goes
  BY MetGoes DEF MeetRemoved, Active
<1>2. Rests /\ UNCHANGED <<stored, view>>
  BY NoTaskRests DEF MeetRemoved, history
<1> QED
  BY <1>1, <1>2 DEF Asks

LEMMA MeetLoginAsks ==
  ASSUME SsoAssumption, TypeOfParts, NEW r \in Requests, NEW b \in Agents, MeetLogin(r, b)
  PROVE  Asks(r)
<1> DEFINE n == request[r].node  x == request[r].id  a == request[r].agent
<1>0. /\ Active(r) /\ n \in Nodes /\ x \in Agents /\ a \in Agents
  BY ActiveTyped DEF MeetLogin, Active, ActiveType, ActiveRecord
<1>1. Goes
  BY <1>0, MetGoes DEF MeetLogin
<1>2. UNCHANGED <<stored, view>>
  BY DEF MeetLogin
<1>3. CASE UNCHANGED <<agents, tasks, uneven>>
  BY <1>1, <1>2, <1>3, NoTaskRests DEF Asks
<1>4. CASE /\ agents' = [agents EXCEPT ![n][x] = @ \cup {a}]
           /\ uneven' = Unlearnt(n, x, a)
           /\ tasks' = IF x \in stored[n] THEN tasks \cup {Change("add", r, n, x, a)} ELSE tasks
  <2>1. agents' = [agents EXCEPT ![n][x] = Applied("add", @, a)]
    BY <1>4 DEF Applied
  <2>2. Works(r, n, x)
    BY <1>0 DEF Works
  <2>3. Touches(r, n, x, a, "add")
    BY <1>4, <2>1, <2>2 DEF Touches
  <2> HIDE DEF n, x, a
  <2> QED
    BY <1>0, <1>1, <1>2, <2>3 DEF Asks
<1> QED
  BY <1>3, <1>4 DEF MeetLogin

LEMMA MeetLogoutAsks ==
  ASSUME SsoAssumption, TypeOfParts, NEW r \in Requests, NEW b \in Agents, MeetLogout(r, b)
  PROVE  Asks(r)
<1> DEFINE n == request[r].node  x == request[r].id
<1>0. Active(r) /\ n \in Nodes /\ x \in Agents
  BY ActiveTyped DEF MeetLogout, Active, ActiveType, ActiveRecord
<1>1. Goes
  BY <1>0, MetGoes DEF MeetLogout
<1>2. UNCHANGED <<stored, view, tasks>>
  BY DEF MeetLogout
<1>3. CASE UNCHANGED <<agents, uneven>>
  BY <1>1, <1>2, <1>3, NoTaskRests DEF Asks
<1>4. CASE agents' = [agents EXCEPT ![n][x] = @ \ {b}] /\ uneven' = uneven \cup {<<x, b>>}
  <2>1. agents' = [agents EXCEPT ![n][x] = Applied("remove", @, b)]
    BY <1>4 DEF Applied
  <2>2. Works(r, n, x)
    BY <1>0 DEF Works
  <2>3. Touches(r, n, x, b, "remove")
    BY <1>2, <1>4, <2>1, <2>2 DEF Touches
  <2> HIDE DEF n, x
  <2> QED
    BY <1>0, <1>1, <1>2, <2>3 DEF Asks
<1> QED
  BY <1>3, <1>4 DEF MeetLogout

LEMMA EndIterationAsks ==
  ASSUME SsoAssumption, TypeOfParts, NEW r \in Requests, EndIteration(r)
  PROVE  Asks(r)
<1>1. Goes
  BY AdvanceGoes DEF EndIteration, Active
<1>2. Rests /\ UNCHANGED <<stored, view>>
  BY TaskRests DEF EndIteration, history
<1> QED
  BY <1>1, <1>2 DEF Asks

LEMMA RemoveAgentAsks ==
  ASSUME SsoAssumption, TypeOfParts, NEW r \in Requests, NEW x \in Agents, RemoveAgent(r, x)
  PROVE  Asks(r)
<1> DEFINE n == request[r].node  a == request[r].agent
           q == [request[r] EXCEPT !.at = "count", !.id = x]
<1>0. /\ Active(r) /\ n \in Nodes /\ a \in Agents /\ request[r] \in ActiveRecord
      /\ x \in request[r].list
  BY ActiveTyped DEF RemoveAgent, Active, ActiveRecord
<1>1. Goes
  <2>1. request' = [request EXCEPT ![r] = q]
    BY <1>0 DEF RemoveAgent, TypeOfParts
  <2>2. q.node = request[r].node /\ q.list = request[r].list /\ q.id = x
    BY <1>0 DEF ActiveRecord
  <2> HIDE DEF q
  <2> QED
    BY <1>0, <2>1, <2>2, StaysGoes
<1>2. /\ UNCHANGED <<stored, view>>
      /\ agents' = [agents EXCEPT ![n][x] = @ \ {a}]
      /\ uneven' = Unlearnt(n, x, a)
      /\ tasks' = IF x \in stored[n] THEN tasks \cup {Change("remove", r, n, x, a)} ELSE tasks
  BY DEF RemoveAgent
<1>3. agents' = [agents EXCEPT ![n][x] = Applied("remove", @, a)]
  BY <1>2 DEF Applied
<1>4. Works(r, n, x)
  BY <1>0 DEF Works
<1>5. Touches(r, n, x, a, "remove")
  BY <1>2, <1>3, <1>4 DEF Touches
<1> HIDE DEF n, a
<1> QED
  BY <1>0, <1>1, <1>2, <1>5 DEF Asks

LEMMA CountAsks ==
  ASSUME SsoAssumption, TypeOfParts, NEW r \in Requests, Count(r)
  PROVE  Asks(r)
<1>1. Goes
  BY AdvanceGoes DEF Count, Active
<1>2. Rests /\ UNCHANGED <<stored, view>>
  BY TaskRests DEF Count, history
<1> QED
  BY <1>1, <1>2 DEF Asks

\* Tasks that neither create a session nor change its agents may come.
LEMMA RestsFine ==
  ASSUME SsoAssumption, TypeOfParts, AgentsInv, UNCHANGED <<stored, view>>, Goes, Rests
  PROVE  AgentsInv'
<1>1. PICK new : (\A t \in new : Dooms(t)) /\ tasks' = tasks \cup new
  BY DEF Rests
<1>2. \A t \in new : t.op # "create" /\ \A x, a : ~Creates(t, x) /\ ~Changes(t, x, a)
  BY <1>1 DEF Dooms, Creates, Changes
<1>3. UNCHANGED <<agents, uneven>>
  BY DEF Rests
<1>4. OneCreate'
  BY <1>1, <1>2 DEF AgentsInv, OneCreate
<1>5. Unreached'
  <2> SUFFICES ASSUME NEW t \in tasks', NEW n \in Nodes, t.op = "create", Pending(t, n)
               PROVE  /\ t.id \notin stored[n] /\ t.id \notin view[n]
                      /\ \A r \in Requests : ~Works(r, n, t.id)'
                      /\ \A u \in tasks', a \in Agents : Changes(u, t.id, a) => u.node # n
    BY DEF Unreached, Pending, Changes
  <2>1. t \in tasks
    BY <1>1, <1>2
  <2>2. t.id \in Agents
    BY <2>1 DEF TypeOfParts, TaskType
  <2>3. /\ t.id \notin stored[n] /\ t.id \notin view[n]
        /\ \A r \in Requests : ~Works(r, n, t.id)
        /\ \A u \in tasks, a \in Agents : Changes(u, t.id, a) => u.node # n
    BY <2>1 DEF AgentsInv, Unreached
  <2> QED
    BY <1>1, <1>2, <2>2, <2>3 DEF Goes
<1>6. Carried'
  BY <1>1, <1>2, <1>3 DEF AgentsInv, Carried, Telling, Alike, Creates, Changes
<1> QED
  BY <1>4, <1>5, <1>6 DEF AgentsInv

LEMMA TouchesFine ==
  ASSUME SsoAssumption, TypeOfParts, AgentsInv, UNCHANGED <<stored, view>>, Goes,
         NEW r \in Requests, NEW n \in Nodes, NEW x \in Agents, NEW a \in Agents,
         NEW op \in {"add", "remove"}, Touches(r, n, x, a, op)
  PROVE  AgentsInv'
<1> DEFINE c == Change(op, r, n, x, a)
<1>1. /\ c.op = op /\ c.id = x /\ c.agent = a /\ c.node = n
  BY DEF Change, Task
<1>2. /\ Works(r, n, x)
      /\ agents' = [agents EXCEPT ![n][x] = Applied(op, @, a)]
      /\ \/ uneven' = uneven \cup {<<x, a>>} /\ tasks' = tasks
         \/ /\ uneven' = Unlearnt(n, x, a)
            /\ tasks' = IF x \in stored[n] THEN tasks \cup {c} ELSE tasks
  BY DEF Touches
<1> HIDE DEF c
<1>3. /\ tasks \subseteq tasks' /\ uneven \subseteq uneven'
      /\ \A t \in tasks' : t \in tasks \/ (t = c /\ x \in stored[n])
  BY <1>2 DEF Unlearnt
<1>4. /\ \A y : ~Creates(c, y) /\ c.op # "create"
      /\ \A y, b : Changes(c, y, b) <=> y = x /\ b = a
  BY <1>1 DEF Creates, Changes
<1>5. \A t \in tasks' : t.op = "create" => t \in tasks
  BY <1>3, <1>4
<1>6. \A m \in Nodes, y \in Agents, b \in Agents :
        m # n \/ y # x \/ b # a => (b \in agents'[m][y] <=> b \in agents[m][y])
  BY <1>2 DEF TypeOfParts, Applied
<1>7. a \in agents'[n][x] <=> op = "add"
  BY <1>2 DEF TypeOfParts, Applied
<1>8. Peer(n) \in Nodes /\ Peer(n) # n /\ Peer(Peer(n)) = n /\ \A m \in Nodes : m = n \/ m = Peer(n)
  BY PeerFacts
<1>9. \A t \in tasks : t.op = "create" /\ t.id = x => ~Pending(t, n)
  BY <1>2 DEF AgentsInv, Unreached
<1>10. OneCreate'
  BY <1>5 DEF AgentsInv, OneCreate
<1>11. Unreached'
  <2> SUFFICES ASSUME NEW t \in tasks', NEW m \in Nodes, t.op = "create", Pending(t, m)
               PROVE  /\ t.id \notin stored[m] /\ t.id \notin view[m]
                      /\ \A p \in Requests : ~Works(p, m, t.id)'
                      /\ \A u \in tasks', b \in Agents : Changes(u, t.id, b) => u.node # m
    BY DEF Unreached, Pending, Changes
  <2>1. t \in tasks
    BY <1>5
  <2>2. t.id \in Agents
    BY <2>1 DEF TypeOfParts, TaskType
  <2>3. /\ t.id \notin stored[m] /\ t.id \notin view[m]
        /\ \A p \in Requests : ~Works(p, m, t.id)
        /\ \A u \in tasks, b \in Agents : Changes(u, t.id, b) => u.node # m
    BY <2>1 DEF AgentsInv, Unreached
  <2>4. \A b : Changes(c, t.id, b) => c.node # m
    BY <1>1, <1>4, <1>9, <2>1
  <2> QED
    BY <1>3, <2>2, <2>3, <2>4 DEF Goes
<1>12. \A t \in tasks : t.node \in Nodes /\ Peer(t.node) \in Nodes
  BY PeerFacts DEF TypeOfParts, TaskType, TaskRecord
<1>13. Carried'
  <2> SUFFICES ASSUME NEW y \in Agents, NEW b \in Agents, <<y, b>> \notin uneven'
               PROVE  Telling(y, b)' /\ Alike(y, b)'
    BY DEF Carried
  <2>0. Telling(y, b) /\ Alike(y, b)
    BY <1>3 DEF AgentsInv, Carried
  <2>1. CASE y # x \/ b # a
    <3>1. \A m \in Nodes : b \in agents'[m][y] <=> b \in agents[m][y]
      BY <1>6, <2>1
    <3>2. \A t \in tasks' : Changes(t, y, b) \/ Creates(t, y) => t \in tasks
      BY <1>3, <1>4, <2>1
    <3>3. Telling(y, b)'
      BY <1>12, <2>0, <3>1, <3>2 DEF Telling, Changes, Creates
    <3>4. Alike(y, b)'
      BY <1>3, <1>8, <2>0, <3>1, PeerFacts DEF Alike, Changes
    <3> QED
      BY <3>3, <3>4
  <2>2. CASE y = x /\ b = a
    <3>1. /\ uneven' = Unlearnt(n, x, a) /\ <<x, a>> \notin Unlearnt(n, x, a)
          /\ x \in stored[n] => c \in tasks'
      BY <1>2, <2>2
    <3>2. /\ \A t \in tasks : ~Changes(t, x, a)
          /\ \A t \in tasks : ~(t.op = "create" /\ t.id = x /\ t.node = Peer(n) /\ t.at = "run")
      BY <3>1 DEF Unlearnt, Changes
    <3>3. \A t \in tasks' : Changes(t, x, a) => t = c
      BY <1>3, <3>2
    <3>4. \A t \in tasks' : ~(Creates(t, x) /\ t.at = "run" /\ ~t.cluster)
      <4> SUFFICES ASSUME NEW t \in tasks, Creates(t, x), t.at = "run" PROVE FALSE
        BY <1>3, <1>4
      <4> QED
        BY <1>8, <1>9, <1>12, <3>2 DEF Creates, Pending
    <3>5. Telling(x, a)'
      BY <1>1, <1>7, <3>3, <3>4 DEF Telling, Changes, Creates
    <3>6. Alike(x, a)'
      <4> SUFFICES ASSUME NEW m \in Nodes, x \in stored[m], x \in stored[Peer(m)]
                   PROVE  \E t \in tasks' : Changes(t, x, a)
        BY DEF Alike, Changes
      <4>1. x \in stored[n]
        BY <1>8
      <4> QED
        BY <1>4, <3>1, <4>1
    <3> QED
      BY <2>2, <3>5, <3>6
  <2> QED
    BY <2>1, <2>2
<1> QED
  BY <1>10, <1>11, <1>13 DEF AgentsInv

LEMMA AsksFine ==
  ASSUME SsoAssumption, TypeOfParts, AgentsInv, NEW r \in Requests, Asks(r)
  PROVE  AgentsInv'
  BY RestsFine, TouchesFine DEF Asks

\* The steps of the tasks.  No request changes, and no name is seen for the first time.
LEMMA CreateSessionFine ==
  ASSUME SsoAssumption, TypeOfParts, Inv, AgentsInv, NEW r \in Requests, CreateSession(r)
  PROVE  AgentsInv'
<1>0. request[r].node \in Nodes /\ request[r].agent \in Agents /\ request[r].at = "create"
  BY ActiveTyped DEF CreateSession, ActiveRecord
<1>1. PICK n \in Nodes, x \in Agents : n = request[r].node /\ x = request[r].agent
  BY <1>0
<1> DEFINE c == Task("create", r, n, x, None)
<1>2. ~Known(x)
  BY <1>0, <1>1 DEF Inv, NewInv, New
<1>3. /\ request' = [request EXCEPT ![r] = Over]
      /\ tasks' = tasks \cup {c}
      /\ agents' = [agents EXCEPT ![n][x] = {x}]
      /\ UNCHANGED <<stored, view, uneven>>
  BY <1>1 DEF CreateSession, End
<1>4. /\ c.op = "create" /\ c.id = x /\ c.node = n /\ c.at = "run" /\ c.cluster
  BY DEF Task
<1> HIDE DEF c
<1>5. Goes
  BY <1>3, StaysGoes
<1>6. /\ \A t \in tasks : t.id # x
      /\ \A m \in Nodes : x \notin stored[m] /\ x \notin view[m]
      /\ \A p \in Requests, m \in Nodes : ~Works(p, m, x)
  BY <1>2 DEF Known, Works
<1>7. \A p \in Requests, m \in Nodes : ~Works(p, m, x)'
  BY <1>1, <1>5, <1>6 DEF Goes
<1>8. /\ \A y, b : ~Changes(c, y, b)
      /\ \A y : Creates(c, y) => y = x
  BY <1>4 DEF Changes, Creates
<1>9. \A m \in Nodes, y \in Agents : y # x => agents'[m][y] = agents[m][y]
  BY <1>3 DEF TypeOfParts
<1>10. OneCreate'
  BY <1>3, <1>4, <1>6 DEF AgentsInv, OneCreate
<1>11. Unreached'
  <2> SUFFICES ASSUME NEW t \in tasks', NEW m \in Nodes, t.op = "create", Pending(t, m)
               PROVE  /\ t.id \notin stored[m] /\ t.id \notin view[m]
                      /\ \A p \in Requests : ~Works(p, m, t.id)'
                      /\ \A u \in tasks', b \in Agents : Changes(u, t.id, b) => u.node # m
    BY <1>3 DEF Unreached, Pending, Changes
  <2>1. CASE t = c
    BY <1>3, <1>4, <1>6, <1>7, <1>8, <2>1 DEF Changes
  <2>2. CASE t \in tasks
    <3>1. t.id \in Agents
      BY <2>2 DEF TypeOfParts, TaskType
    <3>2. /\ t.id \notin stored[m] /\ t.id \notin view[m]
          /\ \A p \in Requests : ~Works(p, m, t.id)
          /\ \A u \in tasks, b \in Agents : Changes(u, t.id, b) => u.node # m
      BY <2>2 DEF AgentsInv, Unreached
    <3> QED
      BY <1>3, <1>5, <1>8, <3>1, <3>2 DEF Goes
  <2> QED
    BY <1>3, <2>1, <2>2
<1>12. \A t \in tasks : t.node \in Nodes /\ Peer(t.node) \in Nodes
  BY PeerFacts DEF TypeOfParts, TaskType, TaskRecord
<1>13. Carried'
  <2> SUFFICES ASSUME NEW y \in Agents, NEW b \in Agents, <<y, b>> \notin uneven
               PROVE  Telling(y, b)' /\ Alike(y, b)'
    BY <1>3 DEF Carried
  <2>0. Telling(y, b) /\ Alike(y, b)
    BY DEF AgentsInv, Carried
  <2>1. CASE y # x
    <3>1. \A t \in tasks' : Changes(t, y, b) \/ Creates(t, y) => t \in tasks
      BY <1>3, <1>8, <2>1
    <3>2. Telling(y, b)'
      BY <1>9, <1>12, <2>0, <2>1, <3>1 DEF Telling, Changes, Creates
    <3>3. Alike(y, b)'
      BY <1>3, <1>9, <2>0, <2>1, PeerFacts DEF Alike, Changes
    <3> QED
      BY <3>2, <3>3
  <2>2. CASE y = x
    <3>1. \A t \in tasks' : ~Changes(t, x, b) /\ (Creates(t, x) => t.cluster)
      BY <1>3, <1>4, <1>6, <1>8 DEF Changes, Creates
    <3>2. Telling(x, b)'
      BY <3>1 DEF Telling, Changes, Creates
    <3>3. Alike(x, b)'
      BY <1>3, <1>6 DEF Alike
    <3> QED
      BY <2>2, <3>2, <3>3
  <2> QED
    BY <2>1, <2>2
<1> QED
  BY <1>10, <1>11, <1>13 DEF AgentsInv

LEMMA WorksKept ==
  ASSUME UNCHANGED request
  PROVE  \A r, n, x : Works(r, n, x)' <=> Works(r, n, x)
  BY DEF Works, Active

LEMMA TaskNodes ==
  ASSUME SsoAssumption, TypeOfParts
  PROVE  \A t \in tasks :
           /\ t.node \in Nodes /\ Peer(t.node) \in Nodes /\ Peer(t.node) # t.node
           /\ Peer(Peer(t.node)) = t.node /\ \A n \in Nodes : n = t.node \/ n = Peer(t.node)
           /\ t.op = "create" => t.id \in Agents
           /\ t.at = "send" => t.cluster
           /\ t.op \in {"add", "remove"} => t.id \in Agents /\ t.agent \in Agents
  BY PeerFacts DEF TypeOfParts, TaskType, TaskRecord

\* A task ends, or goes on without changing a repository.
LEMMA GoesOnFine ==
  ASSUME SsoAssumption, TypeOfParts, AgentsInv, NEW t \in tasks,
         t.op \in {"create", "expire", "clear"}, t.op = "create" => t.at = "index",
         tasks' = Moved(t, "index") \/ tasks' = Moved(t, "send") \/ tasks' = tasks \ {t},
         UNCHANGED <<request, agents, uneven>>,
         \A n \in Nodes : stored'[n] \subseteq stored[n],
         \A n \in Nodes, x \in Agents :
           x \in view'[n] => x \in view[n] \/ (t.op = "create" /\ x = t.id /\ n = t.node)
  PROVE  AgentsInv'
<1>1. \A v \in tasks' :
        \/ v \in tasks \ {t}
        \/ /\ v.op = t.op /\ v.id = t.id /\ v.node = t.node /\ v.cluster = t.cluster
           /\ v.at \in {"index", "send"}
  <2>1. ASSUME NEW where \in {"index", "send"}, tasks' = Moved(t, where), NEW v \in tasks'
        PROVE  \/ v \in tasks \ {t}
               \/ /\ v.op = t.op /\ v.id = t.id /\ v.node = t.node /\ v.cluster = t.cluster
                  /\ v.at = where
    <3> DEFINE u == [t EXCEPT !.at = where]
    <3>1. /\ tasks' = (tasks \ {t}) \cup {u} /\ u.at = where
          /\ u.op = t.op /\ u.id = t.id /\ u.node = t.node /\ u.cluster = t.cluster
      BY <2>1, MovedFacts
    <3> HIDE DEF u
    <3> QED
      BY <2>1, <3>1
  <2> QED
    BY <2>1
<1>2. \A v \in tasks' : v \notin tasks \ {t} => \A x, a : ~Changes(v, x, a)
  BY <1>1 DEF Changes
<1>3. tasks \ {t} \subseteq tasks'
  BY DEF Moved
<1>4. \A x, a : ~Changes(t, x, a)
  BY DEF Changes
<1>5. OneCreate'
  <2> SUFFICES ASSUME NEW v \in tasks', NEW w \in tasks', v.op = "create", w.op = "create", v.id = w.id
               PROVE  v = w
    BY DEF OneCreate
  <2>1. CASE v \in tasks \ {t} /\ w \in tasks \ {t}
    BY <2>1 DEF AgentsInv, OneCreate
  <2>2. CASE v \notin tasks \ {t} /\ w \notin tasks \ {t}
    <3>1. \/ tasks' = (tasks \ {t}) \cup {[t EXCEPT !.at = "index"]}
          \/ tasks' = (tasks \ {t}) \cup {[t EXCEPT !.at = "send"]}
          \/ tasks' = tasks \ {t}
      BY DEF Moved
    <3> QED
      BY <2>2, <3>1
  <2>3. CASE v \in tasks \ {t} /\ w \notin tasks \ {t}
    BY <1>1, <2>3 DEF AgentsInv, OneCreate
  <2>4. CASE v \notin tasks \ {t} /\ w \in tasks \ {t}
    BY <1>1, <2>4 DEF AgentsInv, OneCreate
  <2> QED
    BY <2>1, <2>2, <2>3, <2>4
<1>6. Unreached'
  <2> SUFFICES ASSUME NEW v \in tasks', NEW n \in Nodes, v.op = "create", Pending(v, n)
               PROVE  /\ v.id \notin stored'[n] /\ v.id \notin view'[n]
                      /\ \A r \in Requests : ~Works(r, n, v.id)
                      /\ \A u \in tasks', a \in Agents : Changes(u, v.id, a) => u.node # n
    BY WorksKept DEF Unreached, Pending, Changes
  <2>1. PICK w \in tasks : w.op = "create" /\ w.id = v.id /\ Pending(w, n) /\ (w = t => n # t.node)
    <3>1. CASE v \in tasks \ {t}
      BY <3>1
    <3>2. CASE v \notin tasks \ {t}
      <4>1. Pending(t, n) /\ n # t.node /\ t.op = "create" /\ t.id = v.id
        BY <1>1, <3>2, TaskNodes DEF Pending
      <4> QED
        BY <4>1
    <3> QED
      BY <3>1, <3>2
  <2>2. /\ v.id \in Agents /\ v.id \notin stored[n] /\ v.id \notin view[n]
        /\ \A r \in Requests : ~Works(r, n, v.id)
        /\ \A u \in tasks, a \in Agents : Changes(u, v.id, a) => u.node # n
    BY <2>1, TaskNodes DEF AgentsInv, Unreached
  <2>3. ~(t.op = "create" /\ v.id = t.id /\ n = t.node)
    BY <2>1 DEF AgentsInv, OneCreate
  <2>4. v.id \notin stored'[n] /\ v.id \notin view'[n]
    BY <2>2, <2>3
  <2>5. \A u \in tasks', a \in Agents : Changes(u, v.id, a) => u.node # n
    BY <1>2, <2>2
  <2> QED
    BY <2>2, <2>4, <2>5
<1>7. Carried'
  <2> SUFFICES ASSUME NEW y \in Agents, NEW b \in Agents, <<y, b>> \notin uneven
               PROVE  Telling(y, b)' /\ Alike(y, b)'
    BY DEF Carried
  <2>0. Telling(y, b) /\ Alike(y, b)
    BY DEF AgentsInv, Carried
  <2>1. \A v \in tasks' : Changes(v, y, b) \/ (Creates(v, y) /\ v.at = "run") => v \in tasks
    BY <1>1, <1>2
  <2>2. Telling(y, b)'
    BY <2>0, <2>1 DEF Telling, Changes, Creates
  <2>3. Alike(y, b)'
    BY <1>3, <1>4, <2>0, PeerFacts DEF Alike, Changes
  <2> QED
    BY <2>2, <2>3
<1> QED
  BY <1>5, <1>6, <1>7 DEF AgentsInv

LEMMA RunRemovalFine ==
  ASSUME SsoAssumption, TypeOfParts, AgentsInv, NEW t \in tasks, RunExpire(t) \/ RunClear(t)
  PROVE  AgentsInv'
<1>1. /\ t.op \in {"expire", "clear"} /\ UNCHANGED <<request, agents, uneven, view>>
      /\ tasks' = Moved(t, "index") \/ tasks' = Moved(t, "send") \/ tasks' = tasks \ {t}
  BY DEF RunExpire, RunClear, After
<1>2. \A n \in Nodes : stored'[n] \subseteq stored[n]
  BY DEF RunExpire, RunClear, TypeOfParts
<1> QED
  BY <1>1, <1>2, GoesOnFine

LEMMA RunIndexFine ==
  ASSUME SsoAssumption, TypeOfParts, AgentsInv, NEW t \in tasks, RunIndex(t)
  PROVE  AgentsInv'
<1>1. /\ t.at = "index" /\ UNCHANGED <<request, agents, uneven, stored>>
      /\ tasks' = Moved(t, "send") \/ tasks' = tasks \ {t}
  BY DEF RunIndex, After, history
<1>2. t.op \in {"create", "expire", "clear"}
  BY <1>1 DEF TypeOfParts, TaskType, TaskRecord
<1>3. \A n \in Nodes, x \in Agents :
        x \in view'[n] => x \in view[n] \/ (t.op = "create" /\ x = t.id /\ n = t.node)
  BY <1>2, TaskNodes DEF RunIndex, Indexed, TypeOfParts
<1> QED
  BY <1>1, <1>2, <1>3, GoesOnFine

LEMMA RunCreateFine ==
  ASSUME SsoAssumption, TypeOfParts, AgentsInv, NEW t \in tasks, RunCreate(t)
  PROVE  AgentsInv'
<1> DEFINE x == t.id  m == t.node  u == [t EXCEPT !.at = "index"]
<1>1. /\ m \in Nodes /\ Peer(m) \in Nodes /\ Peer(m) # m /\ Peer(Peer(m)) = m
      /\ \A n \in Nodes : n = m \/ n = Peer(m)
      /\ x \in Agents
  BY TaskNodes DEF RunCreate
<1>2. /\ t.at = "run" /\ t.op = "create"
      /\ stored' = [stored EXCEPT ![m] = @ \cup {x}]
      /\ agents' = IF t.cluster THEN agents ELSE [agents EXCEPT ![m][x] = t.body]
      /\ UNCHANGED <<view, request, uneven>>
  BY DEF RunCreate, history
<1>3. /\ tasks' = (tasks \ {t}) \cup {u} /\ u.at = "index"
      /\ u.op = "create" /\ u.id = x /\ u.node = m /\ u.cluster = t.cluster
  BY MovedFacts DEF RunCreate
<1> HIDE DEF x, m, u
<1>4. x = t.id /\ m = t.node
  BY DEF x, m
<1>5. /\ stored'[m] = stored[m] \cup {x}
      /\ \A n \in Nodes : n # m => stored'[n] = stored[n]
  BY <1>1, <1>2 DEF TypeOfParts
<1>6. \A n \in Nodes, y \in Agents : n # m \/ y # x \/ t.cluster => agents'[n][y] = agents[n][y]
  BY <1>2 DEF TypeOfParts
<1>7. ~t.cluster => agents'[m][x] = t.body
  BY <1>1, <1>2 DEF TypeOfParts
<1>8. \A y, b : ~Changes(u, y, b) /\ ~Changes(t, y, b)
  BY <1>2, <1>3 DEF Changes
<1>9. \A v \in tasks \ {t} : v.op = "create" => v.id # x
  BY <1>2, <1>4 DEF AgentsInv, OneCreate
<1>10. \A n \in Nodes : Pending(t, n) =>
         /\ x \notin stored[n] /\ x \notin view[n]
         /\ \A r \in Requests : ~Works(r, n, x)
         /\ \A v \in tasks, b \in Agents : Changes(v, x, b) => v.node # n
  BY <1>2, <1>4 DEF AgentsInv, Unreached
<1>11. Pending(t, m) /\ (t.cluster => Pending(t, Peer(m)))
  BY <1>1, <1>2, <1>4 DEF Pending
<1>12. OneCreate'
  BY <1>3, <1>9 DEF AgentsInv, OneCreate
<1>13. Unreached'
  <2> SUFFICES ASSUME NEW v \in tasks', NEW n \in Nodes, v.op = "create", Pending(v, n)
               PROVE  /\ v.id \notin stored'[n] /\ v.id \notin view[n]
                      /\ \A r \in Requests : ~Works(r, n, v.id)
                      /\ \A w \in tasks', b \in Agents : Changes(w, v.id, b) => w.node # n
    BY <1>2, WorksKept DEF Unreached, Pending, Changes
  <2>1. CASE v = u
    <3>1. t.cluster /\ n = Peer(m) /\ Pending(t, n)
      BY <1>1, <1>3, <1>11, <2>1 DEF Pending
    <3> QED
      BY <1>1, <1>3, <1>5, <1>8, <1>10, <2>1, <3>1
  <2>2. CASE v \in tasks \ {t}
    <3>1. /\ v.id \notin stored[n] /\ v.id \notin view[n]
          /\ \A r \in Requests : ~Works(r, n, v.id)
          /\ \A w \in tasks, b \in Agents : Changes(w, v.id, b) => w.node # n
      BY <2>2 DEF AgentsInv, Unreached
    <3> QED
      BY <1>3, <1>5, <1>8, <1>9, <2>2, <3>1
  <2> QED
    BY <1>3, <2>1, <2>2
<1>14. Carried'
  <2> SUFFICES ASSUME NEW y \in Agents, NEW b \in Agents, <<y, b>> \notin uneven
               PROVE  Telling(y, b)' /\ Alike(y, b)'
    BY <1>2 DEF Carried
  <2>0. Telling(y, b) /\ Alike(y, b)
    BY DEF AgentsInv, Carried
  <2>1. \A v \in tasks' : Changes(v, y, b) \/ (Creates(v, y) /\ v.at = "run") => v \in tasks
    BY <1>3, <1>8
  <2>2. \A v \in tasks' : Creates(v, y) /\ v.at = "run" => y # x
    BY <1>3, <1>9 DEF Creates
  <2>3. \A v \in tasks : Changes(v, y, b) /\ y = x => v.node # m
    BY <1>1, <1>10, <1>11
  <2>4. Telling(y, b)'
    <3>1. \A v \in tasks' : Changes(v, y, b) => (b \in agents'[v.node][y] <=> v.op = "add")
      BY <1>6, <2>0, <2>1, <2>3, TaskNodes DEF Telling
    <3>2. \A v \in tasks' : Creates(v, y) /\ v.at = "run" /\ ~v.cluster =>
            (b \in v.body <=> b \in agents'[Peer(v.node)][y])
      BY <1>6, <2>0, <2>1, <2>2, TaskNodes DEF Telling
    <3> QED
      BY <2>0, <2>1, <3>1, <3>2 DEF Telling, Changes, Creates
  <2>5. Alike(y, b)'
    <3> SUFFICES ASSUME NEW n \in Nodes, y \in stored'[n], y \in stored'[Peer(n)],
                        ~\E v \in tasks' : Changes(v, y, b)
                 PROVE  b \in agents'[n][y] <=> b \in agents'[Peer(n)][y]
      BY DEF Alike, Changes
    <3>1. ~\E v \in tasks : Changes(v, y, b)
      BY <1>3, <1>8
    <3>2. Peer(n) \in Nodes
      BY PeerFacts
    <3>3. CASE y # x
      <4>1. y \in stored[n] /\ y \in stored[Peer(n)]
        BY <1>5, <3>2, <3>3
      <4> QED
        BY <1>6, <2>0, <3>1, <3>2, <3>3, <4>1 DEF Alike
    <3>4. CASE y = x
      <4>1. x \in stored[Peer(m)]
        BY <1>1, <1>5, <3>4
      <4>2. ~t.cluster
        BY <1>1, <1>10, <1>11, <4>1
      <4>3. b \in t.body <=> b \in agents[Peer(m)][x]
        BY <1>2, <1>4, <2>0, <3>4, <4>2 DEF Telling, Creates
      <4>4. b \in agents'[m][x] <=> b \in agents'[Peer(m)][x]
        BY <1>1, <1>6, <1>7, <4>2, <4>3
      <4> QED
        BY <1>1, <3>4, <4>4
    <3> QED
      BY <3>3, <3>4
  <2> QED
    BY <2>4, <2>5
<1> QED
  BY <1>12, <1>13, <1>14 DEF AgentsInv

LEMMA ForwardFine ==
  ASSUME SsoAssumption, TypeOfParts, AgentsInv, NEW t \in tasks, Forward(t)
  PROVE  AgentsInv'
<1> DEFINE x == t.id  m == t.node
           as == IF t.op = "create" THEN agents[t.node][t.id] ELSE {}
           u == [t EXCEPT !.at = "run", !.node = Peer(t.node), !.cluster = FALSE, !.body = as]
<1>0. t \in TaskRecord
  BY DEF TypeOfParts, TaskType
<1>1. /\ m \in Nodes /\ Peer(m) \in Nodes /\ Peer(m) # m /\ Peer(Peer(m)) = m
      /\ \A n \in Nodes : n = m \/ n = Peer(m)
      /\ t.op = "create" => x \in Agents
      /\ t.cluster
  BY TaskNodes DEF Forward
<1>2. /\ t.at = "send" /\ t.op \in {"create", "expire", "clear"}
      /\ tasks' = (tasks \ {t}) \cup {u}
      /\ UNCHANGED <<stored, view, agents, request, uneven>>
  BY DEF Forward, history
<1>3. /\ u.op = t.op /\ u.id = t.id /\ u.at = "run" /\ u.node = Peer(t.node) /\ ~u.cluster
      /\ u.body = as
  BY <1>0 DEF TaskRecord
<1>4. x = t.id /\ m = t.node /\ (t.op = "create" => as = agents[m][x])
  OBVIOUS
<1> HIDE DEF x, m, as, u
<1>5. \A y, b : ~Changes(u, y, b) /\ ~Changes(t, y, b)
  BY <1>2, <1>3 DEF Changes
<1>6. \A n \in Nodes : Pending(u, n) => Pending(t, n)
  BY <1>1, <1>3, <1>4 DEF Pending
<1>7. OneCreate'
  BY <1>2, <1>3 DEF AgentsInv, OneCreate
<1>8. Unreached'
  <2> SUFFICES ASSUME NEW v \in tasks', NEW n \in Nodes, v.op = "create", Pending(v, n)
               PROVE  /\ v.id \notin stored[n] /\ v.id \notin view[n]
                      /\ \A r \in Requests : ~Works(r, n, v.id)
                      /\ \A w \in tasks', b \in Agents : Changes(w, v.id, b) => w.node # n
    BY <1>2, WorksKept DEF Unreached, Pending, Changes
  <2>1. PICK w \in tasks : w.op = "create" /\ w.id = v.id /\ Pending(w, n)
    BY <1>2, <1>3, <1>6
  <2> QED
    BY <1>2, <1>5, <2>1 DEF AgentsInv, Unreached
<1>9. Carried'
  <2> SUFFICES ASSUME NEW y \in Agents, NEW b \in Agents, <<y, b>> \notin uneven
               PROVE  Telling(y, b)' /\ Alike(y, b)'
    BY <1>2 DEF Carried
  <2>0. Telling(y, b) /\ Alike(y, b)
    BY DEF AgentsInv, Carried
  <2>1. Telling(y, b)'
    <3>1. \A v \in tasks' : Changes(v, y, b) => v \in tasks
      BY <1>2, <1>5
    <3>2. ASSUME NEW v \in tasks', Creates(v, y), v.at = "run", ~v.cluster
          PROVE  b \in v.body <=> b \in agents[Peer(v.node)][y]
      <4>1. CASE v = u
        BY <1>1, <1>3, <1>4, <3>2, <4>1 DEF Creates
      <4>2. CASE v \in tasks
        BY <2>0, <3>2, <4>2 DEF Telling
      <4> QED
        BY <1>2, <4>1, <4>2
    <3> QED
      BY <1>2, <2>0, <3>1, <3>2 DEF Telling, Changes, Creates
  <2>2. Alike(y, b)'
    BY <1>2, <1>5, <2>0 DEF Alike, Changes
  <2> QED
    BY <2>1, <2>2
<1> QED
  BY <1>7, <1>8, <1>9 DEF AgentsInv

LEMMA ForwardChangeFine ==
  ASSUME SsoAssumption, TypeOfParts, AgentsInv, NEW t \in tasks, ForwardChange(t)
  PROVE  AgentsInv'
<1> DEFINE x == t.id  m == t.node  p == Peer(t.node)  a == t.agent
<1>1. /\ m \in Nodes /\ p \in Nodes /\ p # m /\ p = Peer(m) /\ Peer(p) = m
      /\ \A n \in Nodes : n = m \/ n = p
      /\ x \in Agents /\ a \in Agents
  BY TaskNodes DEF ForwardChange
<1>2. /\ t.op \in {"add", "remove"} /\ tasks' = tasks \ {t}
      /\ agents' = IF x \notin stored[p] THEN agents
                   ELSE [agents EXCEPT ![p][x] = Applied(t.op, @, a)]
      /\ UNCHANGED <<stored, view, request, uneven>>
  BY DEF ForwardChange, history
<1>3. Changes(t, x, a) /\ m = t.node /\ \A y, b : Changes(t, y, b) => y = x /\ b = a
  BY <1>2 DEF Changes
<1> HIDE DEF x, m, p, a
<1>4. \A n \in Nodes, y \in Agents, b \in Agents :
        n = m \/ y # x \/ b # a => (b \in agents'[n][y] <=> b \in agents[n][y])
  BY <1>1, <1>2 DEF TypeOfParts, Applied
<1>5. x \in stored[p] => (a \in agents'[p][x] <=> t.op = "add")
  BY <1>1, <1>2 DEF TypeOfParts, Applied
<1>6. OneCreate'
  BY <1>2 DEF AgentsInv, OneCreate
<1>7. Unreached'
  <2> SUFFICES ASSUME NEW v \in tasks', NEW n \in Nodes, v.op = "create", Pending(v, n)
               PROVE  /\ v.id \notin stored[n] /\ v.id \notin view[n]
                      /\ \A r \in Requests : ~Works(r, n, v.id)
                      /\ \A w \in tasks', b \in Agents : Changes(w, v.id, b) => w.node # n
    BY <1>2, WorksKept DEF Unreached, Pending, Changes
  <2> QED
    BY <1>2 DEF AgentsInv, Unreached
<1>8. Carried'
  <2> SUFFICES ASSUME NEW y \in Agents, NEW b \in Agents, <<y, b>> \notin uneven
               PROVE  Telling(y, b)' /\ Alike(y, b)'
    BY <1>2 DEF Carried
  <2>0. Telling(y, b) /\ Alike(y, b)
    BY DEF AgentsInv, Carried
  <2>1. CASE y # x \/ b # a
    <3>1. \A n \in Nodes : b \in agents'[n][y] <=> b \in agents[n][y]
      BY <1>4, <2>1
    <3>2. Telling(y, b)'
      BY <1>2, <2>0, <3>1, TaskNodes DEF Telling, Changes, Creates
    <3>3. ~Changes(t, y, b)
      BY <1>3, <2>1
    <3>4. Alike(y, b)'
      BY <1>2, <2>0, <3>1, <3>3, PeerFacts DEF Alike, Changes
    <3> QED
      BY <3>2, <3>4
  <2>2. CASE y = x /\ b = a
    <3>1. \A v \in tasks' : ~Changes(v, x, a)
      BY <1>2, <1>3, <2>0, <2>2 DEF Telling
    <3>2. ASSUME NEW v \in tasks', Creates(v, x), v.at = "run", ~v.cluster
          PROVE  a \in v.body <=> a \in agents'[Peer(v.node)][x]
      <4>1. ~Pending(v, m)
        BY <1>1, <1>2, <1>3, <3>2 DEF AgentsInv, Unreached, Creates
      <4>2. Peer(v.node) = m
        BY <1>1, <1>2, <3>2, <4>1, TaskNodes DEF Pending
      <4> QED
        BY <1>1, <1>2, <1>4, <2>0, <2>2, <3>2, <4>2 DEF Telling
    <3>3. Telling(x, a)'
      BY <3>1, <3>2 DEF Telling, Changes, Creates
    <3>4. a \in agents'[m][x] <=> t.op = "add"
      BY <1>1, <1>3, <1>4, <2>0, <2>2 DEF Telling
    <3>5. Alike(x, a)'
      <4> SUFFICES ASSUME NEW n \in Nodes, x \in stored[n], x \in stored[Peer(n)]
                   PROVE  a \in agents'[n][x] <=> a \in agents'[Peer(n)][x]
        BY <1>2 DEF Alike
      <4> QED
        BY <1>1, <1>5, <3>4
    <3> QED
      BY <2>2, <3>3, <3>5
  <2> QED
    BY <2>1, <2>2
<1> QED
  BY <1>6, <1>7, <1>8 DEF AgentsInv

LEMMA AgentsStep ==
  ASSUME SsoAssumption, TypeOfParts, Inv, AgentsInv, [Next]_vars
  PROVE  AgentsInv'
<1>1. CASE UNCHANGED vars
  BY <1>1 DEF vars, AgentsInv, OneCreate, Unreached, Pending, Works, Active, Changes, Creates,
              Carried, Telling, Alike
<1>2. ASSUME NEW r \in Requests, Ask(r) PROVE AgentsInv'
  <2>1. PICK n \in Nodes :
          \/ Clear(r, n)
          \/ \E a \in Agents : Login(r, n, a) \/ Timeout(r, n, a) \/ Logout(r, n, a) \/ Kill(r, n, a)
    BY <1>2 DEF Ask
  <2>2. Asks(r)
    BY <2>1, BeginAsks, KillAsks
  <2> QED
    BY <2>2, AsksFine
<1>3. ASSUME NEW r \in Requests, RequestStep(r) PROVE AgentsInv'
  <2>1. CreateSession(r) \/ Asks(r)
    BY <1>3, EndIterationAsks, CountAsks, VisitAsks, RemoveAgentAsks, MeetRemovedAsks,
       MeetLoginAsks, MeetLogoutAsks DEF RequestStep
  <2> QED
    BY <2>1, AsksFine, CreateSessionFine
<1>4. ASSUME NEW t \in tasks, TaskStep(t) PROVE AgentsInv'
  BY <1>4, RunCreateFine, RunRemovalFine, RunIndexFine, ForwardFine, ForwardChangeFine DEF TaskStep
<1>5. ASSUME NEW x \in Agents, Age(x) PROVE AgentsInv'
  BY <1>5, NoTaskRests, WorksKept, RestsFine DEF Age, history, Goes
<1>6. ASSUME NEW n \in Nodes, Sweep(n) \/ SweepIndex(n) PROVE AgentsInv'
  <2>1. /\ UNCHANGED <<tasks, request, agents, uneven>>
        /\ \A m \in Nodes : stored'[m] \subseteq stored[m] /\ view'[m] \subseteq view[m]
    <3>1. CASE Sweep(n)
      BY <3>1 DEF Sweep, TypeOfParts
    <3>2. CASE SweepIndex(n)
      BY <3>2 DEF SweepIndex, history, TypeOfParts
    <3> QED
      BY <1>6, <3>1, <3>2
  <2>2. OneCreate'
    BY <2>1 DEF AgentsInv, OneCreate
  <2>3. Unreached'
    BY <2>1, WorksKept DEF AgentsInv, Unreached, Pending, Changes
  <2>4. Carried'
    <3> SUFFICES ASSUME NEW y \in Agents, NEW b \in Agents, <<y, b>> \notin uneven
                 PROVE  Telling(y, b)' /\ Alike(y, b)'
      BY <2>1 DEF Carried
    <3>1. Telling(y, b) /\ Alike(y, b)
      BY DEF AgentsInv, Carried
    <3>2. Telling(y, b)'
      BY <2>1, <3>1 DEF Telling, Changes, Creates
    <3>3. Alike(y, b)'
      BY <2>1, <3>1, PeerFacts DEF Alike, Changes
    <3> QED
      BY <3>2, <3>3
  <2> QED
    BY <2>2, <2>3, <2>4 DEF AgentsInv
<1> QED
  BY <1>1, <1>2, <1>3, <1>4, <1>5, <1>6 DEF Next

LEMMA AgentsInvAgree ==
  ASSUME SsoAssumption, TypeOfParts, AgentsInv
  PROVE  AgentsAgree
<1> SUFFICES ASSUME AtRest, NEW x \in Agents, NEW n \in Nodes, NEW p \in Nodes,
                    x \in stored[n], x \in stored[p], NEW a \in Agents, <<x, a>> \notin uneven
             PROVE  a \in agents[n][x] <=> a \in agents[p][x]
  BY DEF AgentsAgree
<1>1. Alike(x, a)
  BY DEF AgentsInv, Carried
<1>2. p = n \/ p = Peer(n)
  BY PeerFacts
<1> QED
  BY <1>1, <1>2 DEF Alike, AtRest

\* When all is done, a session that both servers have has the same agents on both, however
\* many logins, logouts and timeouts changed them on either server: but for the agents that
\* a logout removed, and those for which two messages overtook or crossed each other.
THEOREM AgentsAlike == Spec => []AgentsAgree
<1>1. Init => TypeOfParts /\ Inv /\ AgentsInv
  BY SsoAssumption, TypeInit, InvInit, AgentsInit
<1>2. TypeOfParts /\ Inv /\ AgentsInv /\ [Next]_vars => (TypeOfParts /\ Inv /\ AgentsInv)'
  BY SsoAssumption, TypeStep, InvStep, AgentsStep
<1>3. TypeOfParts /\ AgentsInv => AgentsAgree
  BY SsoAssumption, AgentsInvAgree
<1> QED
  BY <1>1, <1>2, <1>3, PTL DEF Spec

-----------------------------------------------------------------------------
(* Logins that were answered *)

\* There were no more logins than requests.
Counted == IsFiniteSet(loggedIn) /\ Cardinality(loggedIn) <= Cardinality(Begun)

\* There were logins only, and no session is past its time.
Plain == aged = {} /\ Cardinality(Begun) = Cardinality(loggedIn)

\* Server n has session x, or a task will put there what it made for it.
Home(x, n) ==
  \/ x \in stored[n]
  \/ \E t \in tasks : Creates(t, x) /\ t.node = n /\ t.at = "run" /\ t.cluster

\* Some session has an agent of the application of a.
Held(a) ==
  \E n \in Nodes, x \in Agents : Home(x, n) /\ \E b \in agents[n][x] : SameApp(a, b)

\* Nothing is removed.
NoRemoval ==
  /\ \A t \in tasks : t.op \in {"create", "add"}
  /\ \A n \in Nodes : sweeping[n] = None
  /\ raced = {}

\* No session is, or will be, without an agent.
Peopled ==
  /\ \A n \in Nodes : \A x \in stored[n] : agents[n][x] # {}
  /\ \A t \in tasks : t.op = "create" /\ t.at = "run" =>
       IF t.cluster THEN agents[t.node][t.id] # {} ELSE t.body # {}

\* A login q goes through sessions that are stored, and once it has met an agent the
\* session has one of its application.
GoodLogin(q) ==
  /\ q.kind = "login" /\ q.at # "count"
  /\ q.list \subseteq stored[q.node]
  /\ q.at = "next" => q.met = {} /\ ~q.found
  /\ q.at = "iterate" =>
       /\ q.id \in stored[q.node]
       /\ q.keys # {} /\ q.keys \subseteq agents[q.node][q.id]
       /\ q.met # {} \/ q.found => \E b \in agents[q.node][q.id] : SameApp(q.agent, b)

Calm ==
  /\ NoRemoval
  /\ Peopled
  /\ \A n \in Nodes : view[n] \subseteq stored[n]
  /\ \A r \in Requests : Active(r) => GoodLogin(request[r])
  /\ \A a \in loggedIn : (\E r \in Requests : Active(r) /\ request[r].agent = a) \/ Held(a)

LoginsInv == Counted /\ (Plain => Calm)

LEMMA LoginsInit == Init => LoginsInv
<1> SUFFICES ASSUME Init PROVE LoginsInv
  OBVIOUS
<1>1. /\ tasks = {} /\ \A n \in Nodes : stored[n] = {} /\ view[n] = {} /\ sweeping[n] = None
      /\ \A r \in Requests : ~Active(r)
      /\ loggedIn = {} /\ raced = {}
  BY DEF Init, Idle, Active
<1>2. Begun = {}
  BY DEF Init, Idle, Begun
<1>3. Counted
  BY <1>1, <1>2, FS_EmptySet DEF Counted
<1>4. Calm
  BY <1>1 DEF Calm, NoRemoval, Peopled
<1> QED
  BY <1>3, <1>4 DEF LoginsInv

LEMMA BegunFinite == IsFiniteSet(Begun) /\ Cardinality(Begun) \in Nat
<1>1. IsFiniteSet(Requests)
  BY FS_Interval, SsoAssumption DEF SsoAssumption, Requests
<1>2. Begun \subseteq Requests
  BY DEF Begun
<1>3. IsFiniteSet(Begun)
  BY <1>1, <1>2, FS_Subset
<1> QED
  BY <1>3, FS_CardinalityType

\* A step of a request that has begun, or of none.
LEMMA SameCount ==
  ASSUME LoginsInv, UNCHANGED loggedIn, aged \subseteq aged',
         \A r \in Requests : request'[r].at # "idle" <=> request[r].at # "idle"
  PROVE  Counted' /\ (Plain' => Plain /\ Calm)
<1>1. Begun' = Begun
  BY DEF Begun
<1> QED
  BY <1>1 DEF LoginsInv, Counted, Plain

\* A request begins.
LEMMA OneMore ==
  ASSUME TypeOfParts, NEW r \in Requests, Begins(r), NEW q, q.at # "idle",
         request' = [request EXCEPT ![r] = q]
  PROVE  /\ Cardinality(Begun') = Cardinality(Begun) + 1
         /\ ~Active(r)
<1>1. r \notin Begun
  <2>1. Begun = 1 .. r - 1 /\ r \in Int
    BY DEF Begins, Requests
  <2> QED
    BY <2>1
<1>2. request'[r] = q /\ \A p \in Requests : p # r => request'[p] = request[p]
  BY DEF TypeOfParts
<1>3. Begun' = Begun \cup {r}
  BY <1>2 DEF Begun
<1>4. Cardinality(Begun \cup {r}) = Cardinality(Begun) + 1
  BY <1>1, BegunFinite, FS_AddElement
<1> QED
  BY <1>1, <1>3, <1>4 DEF Begun, Active

\* A request that is no login.
LEMMA OthersBegin ==
  ASSUME TypeOfParts, LoginsInv, NEW r \in Requests, Begins(r), NEW q, q.at # "idle",
         request' = [request EXCEPT ![r] = q], UNCHANGED loggedIn
  PROVE  LoginsInv'
<1>1. Cardinality(Begun') = Cardinality(Begun) + 1
  BY OneMore
<1>2. IsFiniteSet(loggedIn) /\ Cardinality(loggedIn) <= Cardinality(Begun)
  BY DEF LoginsInv, Counted
<1>3. Cardinality(loggedIn) \in Nat /\ Cardinality(Begun) \in Nat
  BY <1>2, BegunFinite, FS_CardinalityType
<1>4. Counted' /\ ~Plain'
  BY <1>1, <1>2, <1>3 DEF Counted, Plain
<1> QED
  BY <1>4 DEF LoginsInv

\* Sessions come and get agents, and neither goes.
Grows ==
  \A n \in Nodes : /\ stored[n] \subseteq stored'[n]
                   /\ \A x \in Agents : Home(x, n) => Home(x, n)' /\ agents[n][x] \subseteq agents'[n][x]

LEMMA HeldKept ==
  ASSUME Grows, NEW a, Held(a)
  PROVE  Held(a)'
<1>1. PICK n \in Nodes, x \in Agents : Home(x, n) /\ \E b \in agents[n][x] : SameApp(a, b)
  BY DEF Held
<1>2. Home(x, n)' /\ agents[n][x] \subseteq agents'[n][x]
  BY <1>1 DEF Grows
<1>3. \E b \in agents'[n][x] : SameApp(a, b)
  BY <1>1, <1>2
<1> QED
  BY <1>2, <1>3 DEF Held

LEMMA GoodKept ==
  ASSUME TypeOfParts, Grows, NEW q \in ActiveType, GoodLogin(q)
  PROVE  GoodLogin(q)'
<1>1. /\ q.node \in Nodes
      /\ q.at = "iterate" => q.id \in Agents
  BY DEF ActiveType, ActiveRecord
<1>2. stored[q.node] \subseteq stored'[q.node]
  BY <1>1 DEF Grows
<1>3. CASE q.at = "iterate"
  <2>1. agents[q.node][q.id] \subseteq agents'[q.node][q.id]
    BY <1>1, <1>3 DEF GoodLogin, Grows, Home
  <2> QED
    BY <1>2, <1>3, <2>1 DEF GoodLogin
<1>4. CASE q.at # "iterate"
  BY <1>2, <1>4 DEF GoodLogin
<1> QED
  BY <1>3, <1>4

\* What a step of a task leaves of the logins.
LEMMA LoginsKept ==
  ASSUME TypeOfParts, Calm, Grows, UNCHANGED <<request, loggedIn>>
  PROVE  /\ \A r \in Requests : Active(r)' => GoodLogin(request[r])'
         /\ \A a \in loggedIn' : (\E r \in Requests : Active(r)' /\ request'[r].agent = a) \/ Held(a)'
<1>1. ASSUME NEW r \in Requests, Active(r)' PROVE GoodLogin(request[r])'
  <2>1. Active(r)
    BY <1>1 DEF Active
  <2>2. PICK q \in ActiveType : q = request[r] /\ GoodLogin(q)
    BY <2>1, ActiveTyped DEF Calm, Active
  <2>3. GoodLogin(q)'
    BY <2>2, GoodKept
  <2> QED
    BY <2>2, <2>3
<1>2. ASSUME NEW a \in loggedIn PROVE (\E r \in Requests : Active(r)' /\ request'[r].agent = a) \/ Held(a)'
  BY HeldKept DEF Calm, Active
<1> QED
  BY <1>1, <1>2

\* What a step of request r leaves of the logins, if it is over only when its agent is held.
LEMMA LoginGoesOn ==
  ASSUME TypeOfParts, Calm, Grows, UNCHANGED loggedIn, NEW r \in Requests, NEW q,
         request' = [request EXCEPT ![r] = q], NEW c, c = request[r].agent,
         \/ q = Over /\ Held(c)'
         \/ q.at \notin {"idle", "done"} /\ q.agent = c /\ GoodLogin(q)'
  PROVE  /\ \A p \in Requests : Active(p)' => GoodLogin(request[p])'
         /\ \A a \in loggedIn' : (\E p \in Requests : Active(p)' /\ request'[p].agent = a) \/ Held(a)'
<1>1. request'[r] = q /\ \A p \in Requests : p # r => request'[p] = request[p]
  BY DEF TypeOfParts
<1>2. ASSUME NEW p \in Requests, Active(p)' PROVE GoodLogin(request[p])'
  <2>1. CASE p = r
    <3>1. GoodLogin(q)'
      BY <1>1, <1>2, <2>1 DEF Active, Over
    <3> QED
      BY <1>1, <2>1, <3>1
  <2>2. CASE p # r
    <3>1. Active(p)
      BY <1>1, <1>2, <2>2 DEF Active
    <3>2. PICK s \in ActiveType : s = request[p] /\ GoodLogin(s)
      BY <3>1, ActiveTyped DEF Calm, Active
    <3>3. GoodLogin(s)' /\ s = request'[p]
      BY <1>1, <2>2, <3>2, GoodKept
    <3> QED
      BY <3>3
  <2> QED
    BY <2>1, <2>2
<1>3. ASSUME NEW a \in loggedIn PROVE (\E p \in Requests : Active(p)' /\ request'[p].agent = a) \/ Held(a)'
  <2>1. CASE Held(a)
    BY <2>1, HeldKept
  <2>2. ASSUME NEW p \in Requests, Active(p), request[p].agent = a
        PROVE  (\E s \in Requests : Active(s)' /\ request'[s].agent = a) \/ Held(a)'
    <3>1. CASE p # r
      BY <1>1, <2>2, <3>1 DEF Active
    <3>2. CASE p = r /\ q = Over /\ Held(c)'
      BY <2>2, <3>2
    <3>3. CASE p = r /\ q.at \notin {"idle", "done"} /\ q.agent = c
      BY <1>1, <2>2, <3>3 DEF Active
    <3> QED
      BY <3>1, <3>2, <3>3
  <2> QED
    BY <2>1, <2>2 DEF Calm
<1> QED
  BY <1>2, <1>3

LEMMA RunCreateCalm ==
  ASSUME SsoAssumption, TypeOfParts, Inv, AgentsInv, LoginsInv, NEW t \in tasks, RunCreate(t)
  PROVE  LoginsInv'
<1> DEFINE x == t.id  m == t.node  u == [t EXCEPT !.at = "index"]
<1>1. m \in Nodes /\ Peer(m) \in Nodes /\ x \in Agents
  BY TaskNodes DEF RunCreate
<1>2. /\ t.at = "run" /\ t.op = "create"
      /\ stored' = [stored EXCEPT ![m] = @ \cup {x}]
      /\ agents' = IF t.cluster THEN agents ELSE [agents EXCEPT ![m][x] = t.body]
      /\ UNCHANGED <<view, request, sweeping, aged, loggedIn, raced>>
  BY DEF RunCreate, history
<1>3. /\ tasks' = (tasks \ {t}) \cup {u} /\ u.at = "index" /\ u.op = "create" /\ u.id = x
  BY MovedFacts DEF RunCreate
<1> HIDE DEF x, m, u
<1>4. x = t.id /\ m = t.node
  BY DEF x, m
<1>5. /\ stored'[m] = stored[m] \cup {x}
      /\ \A n \in Nodes : n # m => stored'[n] = stored[n]
  BY <1>1, <1>2 DEF TypeOfParts
<1>6. \A n \in Nodes, y \in Agents : n # m \/ y # x \/ t.cluster => agents'[n][y] = agents[n][y]
  BY <1>2 DEF TypeOfParts
<1>7. ~t.cluster => agents'[m][x] = t.body
  BY <1>1, <1>2 DEF TypeOfParts
<1>8. x \notin stored[m]
  BY <1>1, <1>2, <1>4 DEF AgentsInv, Unreached, Pending
<1>9. \A v \in tasks \ {t} : v.op = "create" => v.id # x
  BY <1>2, <1>4 DEF AgentsInv, OneCreate
<1>10. ASSUME Plain' PROVE Calm'
  <2>1. Calm
    BY <1>2, <1>10, SameCount
  <2>2. NoRemoval'
    BY <1>2, <1>3, <2>1 DEF Calm, NoRemoval
  <2>3. Grows
    <3> SUFFICES ASSUME NEW n \in Nodes, NEW y \in Agents, Home(y, n)
                 PROVE  Home(y, n)' /\ agents[n][y] \subseteq agents'[n][y]
      BY <1>5 DEF Grows
    <3>1. CASE y = x /\ n = m
      <4>1. t.cluster
        BY <1>4, <1>8, <1>9, <3>1 DEF Home, Creates
      <4> QED
        BY <1>5, <1>6, <3>1, <4>1 DEF Home
    <3>2. CASE ~(y = x /\ n = m)
      <4>1. Home(y, n)'
        <5>1. CASE y \in stored[n]
          BY <1>5, <5>1 DEF Home
        <5>2. ASSUME NEW v \in tasks, Creates(v, y), v.node = n, v.at = "run", v.cluster
              PROVE  Home(y, n)'
          <6>1. v # t
            BY <1>4, <3>2, <5>2 DEF Creates
          <6>2. v \in tasks'
            BY <1>3, <6>1
          <6> QED
            BY <5>2, <6>2 DEF Home, Creates
        <5> QED
          BY <5>1, <5>2 DEF Home
      <4> QED
        BY <1>6, <3>2, <4>1
    <3> QED
      BY <3>1, <3>2
  <2>4. Peopled'
    <3>1. agents'[m][x] # {}
      BY <1>1, <1>2, <1>4, <1>6, <1>7, <2>1 DEF Calm, Peopled
    <3>2. ASSUME NEW n \in Nodes, NEW y \in stored'[n] PROVE agents'[n][y] # {}
      <4>1. CASE y = x /\ n = m
        BY <3>1, <4>1
      <4>2. CASE ~(y = x /\ n = m)
        <5>1. y \in stored[n] /\ y \in Agents
          BY <1>5, <4>2 DEF TypeOfParts
        <5> QED
          BY <1>6, <2>1, <4>2, <5>1 DEF Calm, Peopled
      <4> QED
        BY <4>1, <4>2
    <3>3. ASSUME NEW v \in tasks', v.op = "create", v.at = "run"
          PROVE  IF v.cluster THEN agents'[v.node][v.id] # {} ELSE v.body # {}
      <4>1. v \in tasks \ {t} /\ v.id # x /\ v.id \in Agents /\ v.node \in Nodes
        BY <1>3, <1>9, <3>3, TaskNodes
      <4> QED
        BY <1>6, <2>1, <3>3, <4>1 DEF Calm, Peopled
    <3> QED
      BY <3>2, <3>3 DEF Peopled
  <2>5. \A n \in Nodes : view'[n] \subseteq stored'[n]
    BY <1>2, <1>5, <2>1 DEF Calm
  <2> QED
    BY <1>2, <2>1, <2>2, <2>3, <2>4, <2>5, LoginsKept DEF Calm
<1>11. Counted'
  BY <1>2, SameCount
<1> QED
  BY <1>10, <1>11 DEF LoginsInv

LEMMA RunIndexCalm ==
  ASSUME SsoAssumption, TypeOfParts, Inv, LoginsInv, NEW t \in tasks, RunIndex(t)
  PROVE  LoginsInv'
<1> DEFINE x == t.id  m == t.node
<1>1. /\ t.at = "index" /\ UNCHANGED <<request, agents, stored, sweeping, aged, loggedIn, raced>>
      /\ tasks' = Moved(t, "send") \/ tasks' = tasks \ {t}
      /\ view' = [view EXCEPT ![m] = Indexed(t.op, @, x)]
  BY DEF RunIndex, After, history
<1>2. m \in Nodes
  BY TaskNodes
<1>3. \A v \in tasks' : v \in tasks \/ (v.op = t.op /\ v.at = "send")
  <2> DEFINE u == [t EXCEPT !.at = "send"]
  <2>1. tasks' = (tasks \ {t}) \cup {u} \/ tasks' = tasks \ {t}
    BY <1>1 DEF Moved
  <2>2. u.op = t.op /\ u.at = "send"
    BY MovedFacts
  <2> QED
    BY <2>1, <2>2
<1>4. \A v \in tasks : v # t => v \in tasks'
  BY <1>1 DEF Moved
<1> HIDE DEF x, m
<1>5. ASSUME Plain' PROVE Calm'
  <2>1. Calm
    BY <1>1, <1>5, SameCount
  <2>2. t.op = "create"
    BY <1>1, <2>1 DEF Calm, NoRemoval, TypeOfParts, TaskType
  <2>3. NoRemoval'
    BY <1>1, <1>3, <2>1, <2>2 DEF Calm, NoRemoval
  <2>4. Peopled'
    BY <1>1, <1>3, <2>1 DEF Calm, Peopled
  <2>5. Grows
    BY <1>1, <1>4 DEF Grows, Home, Creates
  <2>6. x \in Agents /\ x \in stored[m]
    <3>1. Creates(t, x) /\ Indexes(t, m) /\ x \in Agents /\ raced = {}
      BY <1>1, <2>1, <2>2, TaskNodes DEF Creates, Indexes, x, m, Calm, NoRemoval
    <3> QED
      BY <1>2, <3>1 DEF Inv, Stands
  <2>7. view'[m] = view[m] \cup {x} /\ \A n \in Nodes : n # m => view'[n] = view[n]
    BY <1>1, <1>2, <2>2 DEF Indexed, TypeOfParts
  <2>8. \A n \in Nodes : view'[n] \subseteq stored'[n]
    BY <1>1, <2>1, <2>6, <2>7 DEF Calm
  <2> QED
    BY <1>1, <2>1, <2>3, <2>4, <2>5, <2>8, LoginsKept DEF Calm
<1>6. Counted'
  BY <1>1, SameCount
<1> QED
  BY <1>5, <1>6 DEF LoginsInv

LEMMA ForwardCalm ==
  ASSUME SsoAssumption, TypeOfParts, Inv, LoginsInv, NEW t \in tasks, Forward(t)
  PROVE  LoginsInv'
<1> DEFINE x == t.id  m == t.node
           as == IF t.op = "create" THEN agents[m][x] ELSE {}
           u == [t EXCEPT !.at = "run", !.node = Peer(t.node), !.cluster = FALSE, !.body = as]
<1>0. t \in TaskRecord
  BY DEF TypeOfParts, TaskType
<1>1. /\ t.at = "send" /\ t.op \in {"create", "expire", "clear"}
      /\ tasks' = (tasks \ {t}) \cup {u}
      /\ UNCHANGED <<stored, view, agents, request, sweeping, aged, loggedIn, raced>>
  BY DEF Forward, history
<1>2. u.op = t.op /\ ~u.cluster /\ u.body = as
  BY <1>0 DEF TaskRecord
<1>3. m \in Nodes /\ (t.op = "create" => x \in Agents /\ as = agents[m][x]) /\ t.cluster
  BY <1>1, TaskNodes
<1> HIDE DEF as, u
<1>4. ASSUME Plain' PROVE Calm'
  <2>1. Calm
    BY <1>1, <1>4, SameCount
  <2>2. t.op = "create"
    BY <1>1, <2>1 DEF Calm, NoRemoval
  <2>3. NoRemoval'
    BY <1>1, <1>2, <2>1, <2>2 DEF Calm, NoRemoval
  <2>4. x \in stored[m]
    <3>1. Creates(t, x) /\ Half(t, m) /\ x \in Agents /\ raced = {}
      BY <1>1, <1>3, <2>1, <2>2 DEF Creates, Half, Calm, NoRemoval
    <3> QED
      BY <1>3, <3>1 DEF Inv, Stands
  <2>5. u.body # {}
    BY <1>2, <1>3, <2>1, <2>2, <2>4 DEF Calm, Peopled
  <2>6. Peopled'
    BY <1>1, <1>2, <2>1, <2>5 DEF Calm, Peopled
  <2>7. Grows
    BY <1>1 DEF Grows, Home, Creates
  <2> QED
    BY <1>1, <2>1, <2>3, <2>6, <2>7, LoginsKept DEF Calm
<1>5. Counted'
  BY <1>1, SameCount
<1> QED
  BY <1>4, <1>5 DEF LoginsInv

LEMMA ForwardChangeCalm ==
  ASSUME SsoAssumption, TypeOfParts, Inv, LoginsInv, NEW t \in tasks, ForwardChange(t)
  PROVE  LoginsInv'
<1> DEFINE x == t.id  p == Peer(t.node)  a == t.agent
<1>1. p \in Nodes /\ x \in Agents
  BY TaskNodes DEF ForwardChange
<1>2. /\ t.op \in {"add", "remove"} /\ tasks' = tasks \ {t}
      /\ agents' = IF x \notin stored[p] THEN agents
                   ELSE [agents EXCEPT ![p][x] = Applied(t.op, @, a)]
      /\ UNCHANGED <<stored, view, request, sweeping, aged, loggedIn, raced>>
  BY DEF ForwardChange, history
<1> HIDE DEF x, p, a
<1>3. ASSUME Plain' PROVE Calm'
  <2>1. Calm
    BY <1>2, <1>3, SameCount
  <2>2. t.op = "add"
    BY <1>2, <2>1 DEF Calm, NoRemoval
  <2>3. \A n \in Nodes, y \in Agents : agents[n][y] \subseteq agents'[n][y]
    BY <1>1, <1>2, <2>2 DEF TypeOfParts, Applied
  <2>4. NoRemoval'
    BY <1>2, <2>1 DEF Calm, NoRemoval
  <2>5. Peopled'
    <3>1. ASSUME NEW n \in Nodes, NEW y \in stored[n] PROVE agents'[n][y] # {}
      BY <2>1, <2>3, <3>1 DEF Calm, Peopled, TypeOfParts
    <3>2. ASSUME NEW v \in tasks', v.op = "create", v.at = "run"
          PROVE  IF v.cluster THEN agents'[v.node][v.id] # {} ELSE v.body # {}
      <4>1. v \in tasks /\ v.node \in Nodes /\ v.id \in Agents
        BY <1>2, <3>2, TaskNodes
      <4> QED
        BY <2>1, <2>3, <3>2, <4>1 DEF Calm, Peopled
    <3> QED
      BY <1>2, <3>1, <3>2 DEF Peopled
  <2>6. Grows
    <3>1. \A v \in tasks, y \in Agents : Creates(v, y) => v \in tasks'
      BY <1>2 DEF Creates
    <3> QED
      BY <1>2, <2>3, <3>1 DEF Grows, Home, Creates
  <2> QED
    BY <1>2, <2>1, <2>4, <2>5, <2>6, LoginsKept DEF Calm
<1>4. Counted'
  BY <1>2, SameCount
<1> QED
  BY <1>3, <1>4 DEF LoginsInv

LEMMA TasksCalm ==
  ASSUME SsoAssumption, TypeOfParts, Inv, AgentsInv, LoginsInv, NEW t \in tasks, TaskStep(t)
  PROVE  LoginsInv'
<1>1. CASE RunExpire(t) \/ RunClear(t)
  <2>1. UNCHANGED <<request, aged, loggedIn>> /\ t.op \in {"expire", "clear"}
    BY <1>1 DEF RunExpire, RunClear
  <2>2. Counted' /\ (Plain' => Calm)
    BY <2>1, SameCount
  <2>3. ~Calm
    BY <2>1 DEF Calm, NoRemoval
  <2> QED
    BY <2>2, <2>3 DEF LoginsInv
<1> QED
  BY <1>1, RunCreateCalm, RunIndexCalm, ForwardCalm, ForwardChangeCalm DEF TaskStep

\* A request that has begun goes on.
LEMMA OngoingCount ==
  ASSUME TypeOfParts, LoginsInv, NEW r \in Requests, Active(r), NEW q, q.at # "idle",
         request' = [request EXCEPT ![r] = q], UNCHANGED <<loggedIn, aged>>
  PROVE  Counted' /\ (Plain' => Plain /\ Calm)
<1>1. \A p \in Requests : request'[p].at # "idle" <=> request[p].at # "idle"
  BY DEF TypeOfParts, Active
<1> QED
  BY <1>1, SameCount

\* Only sessions that are stored get agents.
LEMMA MoreAgents ==
  ASSUME TypeOfParts, Calm, UNCHANGED <<stored, view, sweeping, raced>>,
         tasks \subseteq tasks', \A t \in tasks' \ tasks : t.op = "add",
         \A n \in Nodes, x \in Agents : agents[n][x] \subseteq agents'[n][x]
  PROVE  NoRemoval' /\ Peopled' /\ (\A n \in Nodes : view'[n] \subseteq stored'[n]) /\ Grows
<1>1. NoRemoval' /\ (\A n \in Nodes : view'[n] \subseteq stored'[n])
  BY DEF Calm, NoRemoval
<1>2. Grows
  BY DEF Grows, Home, Creates
<1>3. ASSUME NEW n \in Nodes, NEW y \in stored[n] PROVE agents'[n][y] # {}
  BY DEF Calm, Peopled, TypeOfParts
<1>4. ASSUME NEW v \in tasks', v.op = "create", v.at = "run"
      PROVE  IF v.cluster THEN agents'[v.node][v.id] # {} ELSE v.body # {}
  <2>1. v \in tasks
    BY <1>4
  <2>2. v.node \in Nodes /\ v.id \in Agents
    BY <1>4, <2>1 DEF TypeOfParts, TaskType, TaskRecord
  <2> QED
    BY <1>4, <2>1, <2>2 DEF Calm, Peopled
<1> QED
  BY <1>1, <1>2, <1>3, <1>4 DEF Peopled

LEMMA LoginCalm ==
  ASSUME SsoAssumption, TypeOfParts, LoginsInv, NEW r \in Requests, NEW n \in Nodes, NEW a \in Agents,
         Begins(r), Login(r, n, a)
  PROVE  LoginsInv'
<1>q. PICK q : q = [at |-> IF view[n] = {} THEN "create" ELSE "next", kind |-> "login", node |-> n,
                    agent |-> a, list |-> view[n], id |-> None, keys |-> {}, met |-> {},
                    found |-> FALSE, last |-> None]
  OBVIOUS
<1>1. /\ request' = [request EXCEPT ![r] = q]
      /\ a \notin loggedIn /\ loggedIn' = loggedIn \cup {a}
      /\ UNCHANGED <<stored, view, agents, tasks, sweeping, aged, raced>>
  BY <1>q DEF Login, Begin
<1>2. q.at \in {"create", "next"} /\ q.agent = a /\ q.kind = "login" /\ q.node = n
      /\ q.list = view[n] /\ q.met = {} /\ ~q.found
  BY <1>q
<1>3. Cardinality(Begun') = Cardinality(Begun) + 1 /\ ~Active(r)
  BY <1>1, <1>2, OneMore
<1>4. IsFiniteSet(loggedIn') /\ Cardinality(loggedIn') = Cardinality(loggedIn) + 1
  BY <1>1, FS_AddElement DEF LoginsInv, Counted
<1>5. Cardinality(loggedIn) \in Nat /\ Cardinality(Begun) \in Nat
  BY BegunFinite, FS_CardinalityType DEF LoginsInv, Counted
<1>6. Counted' /\ (Plain' => Plain)
  BY <1>1, <1>3, <1>4, <1>5 DEF LoginsInv, Counted, Plain
<1>7. ASSUME Plain' PROVE Calm'
  <2>1. Calm
    BY <1>6, <1>7 DEF LoginsInv
  <2>2. NoRemoval' /\ Peopled' /\ (\A m \in Nodes : view'[m] \subseteq stored'[m]) /\ Grows
    BY <1>1, <2>1, MoreAgents
  <2>3. request'[r] = q /\ \A p \in Requests : p # r => request'[p] = request[p]
    BY <1>1 DEF TypeOfParts
  <2>4. GoodLogin(q)'
    BY <1>1, <1>2, <2>1 DEF GoodLogin, Calm
  <2>5. ASSUME NEW p \in Requests, Active(p)' PROVE GoodLogin(request[p])'
    <3>1. CASE p = r
      BY <2>3, <2>4, <3>1
    <3>2. CASE p # r
      <4>1. Active(p)
        BY <2>3, <2>5, <3>2 DEF Active
      <4>2. PICK s \in ActiveType : s = request[p] /\ GoodLogin(s)
        BY <2>1, <4>1, ActiveTyped DEF Calm, Active
      <4>3. GoodLogin(s)' /\ s = request'[p]
        BY <2>2, <2>3, <3>2, <4>2, GoodKept
      <4> QED
        BY <4>3
    <3> QED
      BY <3>1, <3>2
  <2>6. ASSUME NEW c \in loggedIn'
        PROVE  (\E p \in Requests : Active(p)' /\ request'[p].agent = c) \/ Held(c)'
    <3>1. CASE c = a
      BY <1>2, <2>3, <3>1 DEF Active
    <3>2. CASE c \in loggedIn
      <4>1. CASE Held(c)
        BY <2>2, <4>1, HeldKept
      <4>2. ASSUME NEW p \in Requests, Active(p), request[p].agent = c
            PROVE  \E s \in Requests : Active(s)' /\ request'[s].agent = c
        BY <1>3, <2>3, <4>2 DEF Active
      <4> QED
        BY <2>1, <3>2, <4>1, <4>2 DEF Calm
    <3> QED
      BY <1>1, <3>1, <3>2
  <2> QED
    BY <2>2, <2>5, <2>6 DEF Calm
<1> QED
  BY <1>6, <1>7 DEF LoginsInv

LEMMA CreateSessionCalm ==
  ASSUME SsoAssumption, TypeOfParts, Inv, LoginsInv, NEW r \in Requests, CreateSession(r)
  PROVE  LoginsInv'
<1>0. request[r].node \in Nodes /\ request[r].agent \in Agents /\ request[r].at = "create"
  BY ActiveTyped DEF CreateSession, ActiveRecord
<1>1. PICK n \in Nodes, x \in Agents : n = request[r].node /\ x = request[r].agent
  BY <1>0
<1> DEFINE c == Task("create", r, n, x, None)
<1>2. ~Known(x)
  BY <1>0, <1>1 DEF Inv, NewInv, New
<1>3. /\ request' = [request EXCEPT ![r] = Over]
      /\ tasks' = tasks \cup {c}
      /\ agents' = [agents EXCEPT ![n][x] = {x}]
      /\ raced' = IF \E t \in tasks : t.op = "clear" THEN raced \cup {x} ELSE raced
      /\ UNCHANGED <<stored, view, sweeping, aged, loggedIn>>
  BY <1>1 DEF CreateSession, End
<1>4. /\ c.op = "create" /\ c.id = x /\ c.node = n /\ c.at = "run" /\ c.cluster
  BY DEF Task
<1> HIDE DEF c
<1>5. /\ \A t \in tasks : t.id # x
      /\ \A m \in Nodes : x \notin stored[m]
  BY <1>2 DEF Known
<1>6. \A m \in Nodes, y \in Agents : y # x => agents'[m][y] = agents[m][y]
  BY <1>3 DEF TypeOfParts
<1>7. agents'[n][x] = {x}
  BY <1>3 DEF TypeOfParts
<1>8. Active(r) /\ Over.at # "idle"
  BY <1>0 DEF Active, Over
<1>9. Counted' /\ (Plain' => Plain /\ Calm)
  BY <1>3, <1>8, OngoingCount
<1>10. ASSUME Plain' PROVE Calm'
  <2>1. Calm
    BY <1>9, <1>10
  <2>2. NoRemoval'
    BY <1>3, <1>4, <2>1 DEF Calm, NoRemoval
  <2>3. Peopled'
    <3>1. ASSUME NEW m \in Nodes, NEW y \in stored[m] PROVE agents'[m][y] # {}
      BY <1>5, <1>6, <2>1, <3>1 DEF Calm, Peopled, TypeOfParts
    <3>2. ASSUME NEW v \in tasks', v.op = "create", v.at = "run"
          PROVE  IF v.cluster THEN agents'[v.node][v.id] # {} ELSE v.body # {}
      <4>1. CASE v = c
        BY <1>4, <1>7, <4>1
      <4>2. CASE v \in tasks
        BY <1>5, <1>6, <2>1, <3>2, <4>2, TaskNodes DEF Calm, Peopled
      <4> QED
        BY <1>3, <4>1, <4>2
    <3> QED
      BY <1>3, <3>1, <3>2 DEF Peopled
  <2>4. Grows
    <3> SUFFICES ASSUME NEW m \in Nodes, NEW y \in Agents, Home(y, m)
                 PROVE  Home(y, m)' /\ agents[m][y] \subseteq agents'[m][y]
      BY <1>3 DEF Grows
    <3>1. y # x
      BY <1>5 DEF Home, Creates
    <3> QED
      BY <1>3, <1>6, <3>1 DEF Home, Creates
  <2>5. Held(x)'
    <3>1. Home(x, n)'
      BY <1>3, <1>4 DEF Home, Creates
    <3>2. SameApp(x, x)
      BY DEF SameApp
    <3> QED
      BY <1>7, <3>1, <3>2 DEF Held
  <2> QED
    BY <1>1, <1>3, <2>1, <2>2, <2>3, <2>4, <2>5, LoginGoesOn DEF Calm
<1> QED
  BY <1>9, <1>10 DEF LoginsInv

\* What is left of request s once one of its sessions is done.
Rest(q, s) ==
  \/ q = Over
  \/ /\ q \in ActiveRecord /\ q.at = "next" /\ q.kind = s.kind /\ q.node = s.node /\ q.agent = s.agent
     /\ q.list \subseteq s.list /\ q.met = {} /\ ~q.found

AdvancesTo(r, x, q) == Rest(q, request[r]) /\ Advance(r, x) = [request EXCEPT ![r] = q]
Advances(r, x) == \E q : AdvancesTo(r, x, q)

\* The request is over, or goes on with the rest of its sessions.
LEMMA AdvanceRest ==
  ASSUME TypeOfParts, NEW r \in Requests, Active(r), NEW x
  PROVE  Advances(r, x)
<1> DEFINE s == [request[r] EXCEPT !.at = "next", !.list = request[r].list \ {x}, !.id = None,
                                   !.keys = {}, !.met = {}, !.found = FALSE]
<1>1. request[r] \in ActiveRecord
  BY ActiveTyped DEF Active
<1>2. Rest(s, request[r])
  BY <1>1 DEF ActiveRecord, Rest
<1>3. Rest(Over, request[r])
  BY DEF Rest
<1>4. Advance(r, x) = IF request[r].list = {x} THEN [request EXCEPT ![r] = Over]
                      ELSE [request EXCEPT ![r] = s]
  BY DEF Advance
<1> HIDE DEF s
<1>5. AdvancesTo(r, x, Over) \/ AdvancesTo(r, x, s)
  BY <1>2, <1>3, <1>4 DEF AdvancesTo
<1> QED
  BY <1>5 DEF Advances

\* Request r is at q then.
Becomes(r, q) == q.at # "idle" /\ request' = [request EXCEPT ![r] = q]

Moves(r) == \E q : Becomes(r, q)

\* A request that has begun does not become idle.
LEMMA NotIdle ==
  ASSUME TypeOfParts, NEW r \in Requests, RequestStep(r)
  PROVE  /\ Moves(r)
         /\ UNCHANGED <<aged, loggedIn>> /\ Active(r)
<1>1. Active(r) /\ UNCHANGED <<aged, loggedIn>>
  BY DEF RequestStep, CreateSession, EndIteration, Count, Visit, RemoveAgent, MeetRemoved, MeetLogin,
         MeetLogout, Active, history
<1> SUFFICES Moves(r)
  BY <1>1
<1>2. request[r] \in ActiveRecord
  BY <1>1, ActiveTyped DEF Active
<1>3. ASSUME End(r) PROVE Moves(r)
  <2>1. Becomes(r, Over)
    BY <1>3 DEF Becomes, Over, End
  <2> QED
    BY <2>1 DEF Moves
<1>4. ASSUME NEW x, NEW last,
             request' = Advance(r, x) \/ request' = [Advance(r, x) EXCEPT ![r].last = last]
      PROVE  Moves(r)
  <2>1. PICK q : AdvancesTo(r, x, q)
    BY <1>1, AdvanceRest DEF Advances
  <2>2. q.at # "idle"
    BY <2>1 DEF AdvancesTo, Rest, Over
  <2>3. CASE request' = Advance(r, x)
    <3>1. Becomes(r, q)
      BY <2>1, <2>2, <2>3 DEF Becomes, AdvancesTo
    <3> QED
      BY <3>1 DEF Moves
  <2>4. CASE request' = [Advance(r, x) EXCEPT ![r].last = last]
    <3>1. PICK s : s = [q EXCEPT !.last = last]
      OBVIOUS
    <3>2. s.at # "idle"
      BY <2>1, <3>1 DEF AdvancesTo, Rest, Over, ActiveRecord
    <3>3. request' = [request EXCEPT ![r] = s]
      BY <2>1, <2>4, <3>1 DEF TypeOfParts, AdvancesTo
    <3>4. Becomes(r, s)
      BY <3>2, <3>3 DEF Becomes
    <3> QED
      BY <3>4 DEF Moves
  <2> QED
    BY <1>4, <2>3, <2>4
<1>5. ASSUME NEW s, s.at # "idle", request' = [request EXCEPT ![r] = s]
      PROVE  Moves(r)
  BY <1>5 DEF Becomes, Moves
<1>6. CASE \E x \in Agents : Visit(r, x)
  <2>1. PICK x \in Agents, n \in Nodes : Visit(r, x) /\ n = request[r].node
    BY <1>2, <1>6 DEF ActiveRecord
  <2>2. CASE request' = [request EXCEPT ![r].at = "iterate", ![r].id = x, ![r].keys = agents[n][x]]
    <3>1. PICK s : s = [request[r] EXCEPT !.at = "iterate", !.id = x, !.keys = agents[n][x]]
      OBVIOUS
    <3>2. s.at # "idle" /\ request' = [request EXCEPT ![r] = s]
      BY <1>2, <2>2, <3>1 DEF ActiveRecord, TypeOfParts
    <3> QED
      BY <1>5, <3>2
  <2> QED
    BY <1>3, <1>4, <2>1, <2>2 DEF Visit
<1>7. CASE \E x \in Agents : RemoveAgent(r, x)
  <2>1. PICK x \in Agents : request' = [request EXCEPT ![r].at = "count", ![r].id = x]
    BY <1>7 DEF RemoveAgent
  <2>2. PICK s : s = [request[r] EXCEPT !.at = "count", !.id = x]
    OBVIOUS
  <2>3. s.at # "idle" /\ request' = [request EXCEPT ![r] = s]
    BY <1>2, <2>1, <2>2 DEF ActiveRecord, TypeOfParts
  <2> QED
    BY <1>5, <2>3
<1>8. CASE \E b \in Agents : MeetRemoved(r, b) \/ MeetLogin(r, b) \/ MeetLogout(r, b)
  <2>1. PICK b \in Agents : MeetRemoved(r, b) \/ MeetLogin(r, b) \/ MeetLogout(r, b)
    BY <1>8
  <2>2. CASE request' = [request EXCEPT ![r].met = @ \cup {b}]
    <3>1. PICK s : s = [request[r] EXCEPT !.met = @ \cup {b}]
      OBVIOUS
    <3>2. s.at # "idle" /\ request' = [request EXCEPT ![r] = s]
      BY <1>2, <2>2, <3>1 DEF ActiveRecord, TypeOfParts
    <3> QED
      BY <1>5, <3>2
  <2>3. ASSUME NEW found, request' = [request EXCEPT ![r].met = @ \cup {b}, ![r].found = found]
        PROVE  Moves(r)
    <3>1. PICK s : s = [request[r] EXCEPT !.met = @ \cup {b}, !.found = found]
      OBVIOUS
    <3>2. s.at # "idle" /\ request' = [request EXCEPT ![r] = s]
      BY <1>2, <2>3, <3>1 DEF ActiveRecord, TypeOfParts
    <3> QED
      BY <1>5, <3>2
  <2> QED
    BY <1>3, <2>1, <2>2, <2>3 DEF MeetRemoved, MeetLogin, MeetLogout
<1>9. CASE EndIteration(r) \/ Count(r) \/ CreateSession(r)
  BY <1>3, <1>4, <1>9 DEF EndIteration, Count, CreateSession
<1> QED
  BY <1>1, <1>6, <1>7, <1>8, <1>9 DEF RequestStep

\* What a step of request r does to the counts.
LEMMA StepCount ==
  ASSUME TypeOfParts, LoginsInv, NEW r \in Requests, RequestStep(r)
  PROVE  Counted' /\ (Plain' => Plain /\ Calm) /\ Active(r) /\ UNCHANGED <<aged, loggedIn>>
<1>1. Active(r) /\ UNCHANGED <<aged, loggedIn>> /\ Moves(r)
  BY NotIdle
<1>2. PICK q : q.at # "idle" /\ request' = [request EXCEPT ![r] = q]
  BY <1>1 DEF Moves, Becomes
<1> QED
  BY <1>1, <1>2, OngoingCount

\* The session that a login looks up is there, and has an agent.
LEMMA VisitCalm ==
  ASSUME SsoAssumption, TypeOfParts, Calm, NEW r \in Requests, NEW x \in Agents, Visit(r, x),
         UNCHANGED loggedIn
  PROVE  Calm'
<1>1. /\ request[r].at = "next" /\ x \in request[r].list
      /\ UNCHANGED <<stored, view, agents, sweeping, raced>>
  BY DEF Visit, history
<1>2. PICK q \in ActiveType : q = request[r]
  BY <1>1, ActiveTyped
<1>3. q \in ActiveRecord /\ q.node \in Nodes /\ GoodLogin(q)
  BY <1>1, <1>2 DEF ActiveType, ActiveRecord, Active, Calm
<1>4. PICK n \in Nodes : n = q.node
  BY <1>3
<1>5. x \in stored[n] /\ agents[n][x] # {} /\ agents[n][x] \subseteq Agents
  BY <1>1, <1>2, <1>3, <1>4 DEF GoodLogin, Calm, Peopled, TypeOfParts
<1>6. PICK s : s = [q EXCEPT !.at = "iterate", !.id = x, !.keys = agents[n][x]]
  OBVIOUS
<1>7. /\ tasks' = tasks
      /\ request' = [request EXCEPT ![r].at = "iterate", ![r].id = x, ![r].keys = agents[n][x]]
  BY <1>2, <1>4, <1>5 DEF Visit
<1>8. request' = [request EXCEPT ![r] = s]
  BY <1>2, <1>3, <1>6, <1>7 DEF ActiveRecord, TypeOfParts
<1>9. /\ s.at = "iterate" /\ s.id = x /\ s.keys = agents[n][x] /\ s.node = n /\ s.agent = q.agent
      /\ s.kind = q.kind /\ s.list = q.list /\ s.met = q.met /\ s.found = q.found
  BY <1>3, <1>4, <1>6 DEF ActiveRecord
<1>10. GoodLogin(s)'
  BY <1>1, <1>2, <1>3, <1>4, <1>5, <1>9 DEF GoodLogin
<1>11. NoRemoval' /\ Peopled' /\ (\A m \in Nodes : view'[m] \subseteq stored'[m]) /\ Grows
  BY <1>1, <1>7, MoreAgents
<1>12. PICK c : c = request[r].agent
  OBVIOUS
<1>13. /\ \A p \in Requests : Active(p)' => GoodLogin(request[p])'
       /\ \A a \in loggedIn' : (\E p \in Requests : Active(p)' /\ request'[p].agent = a) \/ Held(a)'
  BY <1>2, <1>8, <1>9, <1>10, <1>11, <1>12, LoginGoesOn
<1> QED
  BY <1>11, <1>13 DEF Calm

\* A login that has met an agent has one of its application in the session.
LEMMA MeetLoginCalm ==
  ASSUME SsoAssumption, TypeOfParts, Calm, NEW r \in Requests, NEW b \in Agents, MeetLogin(r, b),
         UNCHANGED loggedIn
  PROVE  Calm'
<1>1. /\ request[r].at = "iterate"
      /\ UNCHANGED <<stored, view, sweeping, raced>>
  BY DEF MeetLogin
<1>2. PICK q \in ActiveType : q = request[r]
  BY <1>1, ActiveTyped
<1>3. q \in ActiveRecord /\ q.node \in Nodes /\ q.id \in Agents /\ q.agent \in Agents /\ GoodLogin(q)
  BY <1>1, <1>2 DEF ActiveType, ActiveRecord, Active, Calm
<1>4. PICK n \in Nodes, x \in Agents, a \in Agents : n = q.node /\ x = q.id /\ a = q.agent
  BY <1>3
<1>5. PICK found \in BOOLEAN : found = (q.found \/ SameApp(a, b))
  OBVIOUS
<1>6. /\ b \in agents[n][x]
      /\ request' = [request EXCEPT ![r].met = @ \cup {b}, ![r].found = found]
      /\ IF found THEN UNCHANGED <<agents, tasks>>
         ELSE /\ agents' = [agents EXCEPT ![n][x] = @ \cup {a}]
              /\ tasks' = IF x \in stored[n] THEN tasks \cup {Change("add", r, n, x, a)} ELSE tasks
  BY <1>2, <1>4, <1>5 DEF MeetLogin
<1>7. PICK s : s = [q EXCEPT !.met = @ \cup {b}, !.found = found]
  OBVIOUS
<1>8. request' = [request EXCEPT ![r] = s]
  BY <1>2, <1>3, <1>6, <1>7 DEF ActiveRecord, TypeOfParts
<1>9. /\ s.at = "iterate" /\ s.id = x /\ s.keys = q.keys /\ s.node = n /\ s.agent = a
      /\ s.kind = q.kind /\ s.list = q.list
  BY <1>1, <1>2, <1>3, <1>4, <1>7 DEF ActiveRecord
<1>10. \A m \in Nodes, y \in Agents : agents[m][y] \subseteq agents'[m][y]
  BY <1>6 DEF TypeOfParts
<1>11. tasks \subseteq tasks' /\ \A t \in tasks' \ tasks : t.op = "add"
  <2>1. Change("add", r, n, x, a).op = "add"
    BY DEF Change, Task
  <2> QED
    BY <1>6, <2>1
<1>12. \E c \in agents'[n][x] : SameApp(a, c)
  <2>1. CASE ~found
    <3>1. a \in agents'[n][x] /\ SameApp(a, a)
      BY <1>6, <2>1 DEF TypeOfParts, SameApp
    <3> QED
      BY <3>1
  <2>2. CASE q.found
    BY <1>1, <1>2, <1>3, <1>4, <1>10, <2>2 DEF GoodLogin
  <2>3. CASE SameApp(a, b)
    BY <1>6, <1>10, <2>3
  <2> QED
    BY <1>5, <2>1, <2>2, <2>3
<1>13. GoodLogin(s)'
  BY <1>1, <1>2, <1>3, <1>4, <1>9, <1>10, <1>12 DEF GoodLogin
<1>14. NoRemoval' /\ Peopled' /\ (\A m \in Nodes : view'[m] \subseteq stored'[m]) /\ Grows
  BY <1>1, <1>10, <1>11, MoreAgents
<1>15. /\ \A p \in Requests : Active(p)' => GoodLogin(request[p])'
       /\ \A c \in loggedIn' : (\E p \in Requests : Active(p)' /\ request'[p].agent = c) \/ Held(c)'
  BY <1>2, <1>4, <1>8, <1>9, <1>13, <1>14, LoginGoesOn
<1> QED
  BY <1>14, <1>15 DEF Calm

\* The iterator has met an agent at least: the login is held.
LEMMA EndIterationCalm ==
  ASSUME SsoAssumption, TypeOfParts, Calm, NEW r \in Requests, EndIteration(r), UNCHANGED loggedIn
  PROVE  Calm'
<1>1. /\ request[r].at = "iterate" /\ request[r].keys \subseteq request[r].met
      /\ UNCHANGED <<stored, view, agents, sweeping, raced>>
  BY DEF EndIteration, history
<1>2. PICK q \in ActiveType : q = request[r]
  BY <1>1, ActiveTyped
<1>3. Active(r) /\ q.node \in Nodes /\ q.id \in Agents /\ q.agent \in Agents /\ GoodLogin(q)
  BY <1>1, <1>2 DEF ActiveType, ActiveRecord, Active, Calm
<1>4. PICK n \in Nodes, x \in Agents, a \in Agents : n = q.node /\ x = q.id /\ a = q.agent
  BY <1>3
<1>5. tasks' = tasks /\ request' = Advance(r, x)
  BY <1>2, <1>3, <1>4 DEF EndIteration, GoodLogin
<1>6. PICK s : Rest(s, request[r]) /\ request' = [request EXCEPT ![r] = s]
  BY <1>3, <1>5, AdvanceRest DEF Advances, AdvancesTo
<1>7. NoRemoval' /\ Peopled' /\ (\A m \in Nodes : view'[m] \subseteq stored'[m]) /\ Grows
  BY <1>1, <1>5, MoreAgents
<1>8. Held(a)'
  <2>1. x \in stored[n] /\ \E b \in agents[n][x] : SameApp(a, b)
    BY <1>1, <1>2, <1>3, <1>4 DEF GoodLogin
  <2>2. Held(a)
    BY <2>1 DEF Held, Home
  <2> QED
    BY <1>7, <2>2, HeldKept
<1>9. \/ s = Over
      \/ s.at \notin {"idle", "done"} /\ s.agent = a /\ GoodLogin(s)'
  <2>1. CASE s # Over
    <3>1. /\ s.at = "next" /\ s.kind = q.kind /\ s.node = n /\ s.agent = a /\ s.list \subseteq q.list
          /\ s.met = {} /\ ~s.found
      BY <1>2, <1>4, <1>6, <2>1 DEF Rest
    <3>2. GoodLogin(s)'
      BY <1>1, <1>3, <1>4, <3>1 DEF GoodLogin
    <3> QED
      BY <3>1, <3>2
  <2> QED
    BY <2>1
<1>10. /\ \A p \in Requests : Active(p)' => GoodLogin(request[p])'
       /\ \A c \in loggedIn' : (\E p \in Requests : Active(p)' /\ request'[p].agent = c) \/ Held(c)'
  BY <1>2, <1>4, <1>6, <1>7, <1>8, <1>9, LoginGoesOn
<1> QED
  BY <1>7, <1>10 DEF Calm

LEMMA RequestCalm ==
  ASSUME SsoAssumption, TypeOfParts, Inv, LoginsInv, NEW r \in Requests, RequestStep(r)
  PROVE  LoginsInv'
<1>1. Counted' /\ (Plain' => Plain /\ Calm) /\ Active(r) /\ UNCHANGED <<aged, loggedIn>>
  BY StepCount
<1>2. CASE CreateSession(r)
  BY <1>2, CreateSessionCalm
<1>3. CASE ~CreateSession(r)
  <2> SUFFICES ASSUME Calm PROVE Calm'
    BY <1>1 DEF LoginsInv
  <2>1. GoodLogin(request[r])
    BY <1>1 DEF Calm
  <2>2. request[r].at = "iterate" =>
          request[r].keys \cup agents[request[r].node][request[r].id] = agents[request[r].node][request[r].id]
    BY <2>1 DEF GoodLogin
  <2>3. \A b \in Agents : ~MeetRemoved(r, b)
    BY <2>2 DEF MeetRemoved, Ahead
  <2>4. ~Count(r) /\ \A b \in Agents : ~MeetLogout(r, b) /\ ~RemoveAgent(r, b)
    BY <2>1 DEF GoodLogin, Count, MeetLogout, RemoveAgent
  <2> QED
    BY <1>1, <1>3, <2>3, <2>4, VisitCalm, MeetLoginCalm, EndIterationCalm DEF RequestStep
<1> QED
  BY <1>2, <1>3

LEMMA LoginsStep ==
  SsoAssumption /\ TypeOfParts /\ Inv /\ AgentsInv /\ LoginsInv /\ [Next]_vars => LoginsInv'
<1> SUFFICES ASSUME SsoAssumption, TypeOfParts, Inv, AgentsInv, LoginsInv, [Next]_vars
             PROVE  LoginsInv'
  OBVIOUS
<1>1. CASE \E r \in Requests : Ask(r)
  <2>1. PICK r \in Requests, n \in Nodes :
          /\ Begins(r)
          /\ Clear(r, n) \/ \E a \in Agents : Login(r, n, a) \/ Timeout(r, n, a) \/ Logout(r, n, a) \/ Kill(r, n, a)
    BY <1>1 DEF Ask
  <2>2. CASE \E a \in Agents : Login(r, n, a)
    BY <2>1, <2>2, LoginCalm
  <2>3. CASE Clear(r, n) \/ \E a \in Agents : Kill(r, n, a)
    <3>1. UNCHANGED loggedIn /\ request' = [request EXCEPT ![r] = Over] /\ Over.at # "idle"
      BY <2>3 DEF Clear, Kill, End, history, Over
    <3> QED
      BY <2>1, <3>1, OthersBegin
  <2>4. CASE \E a \in Agents : Timeout(r, n, a) \/ Logout(r, n, a)
    <3>1. PICK a \in Agents, kind \in {"timeout", "logout"} : Begin(r, kind, n, a) /\ UNCHANGED loggedIn
      BY <2>4 DEF Timeout, Logout, history
    <3>2. PICK q : /\ q = IF view[n] = {} /\ kind # "login" THEN Over
                         ELSE [at |-> IF view[n] = {} THEN "create" ELSE "next", kind |-> kind, node |-> n,
                               agent |-> a, list |-> view[n], id |-> None, keys |-> {}, met |-> {},
                               found |-> FALSE, last |-> None]
      OBVIOUS
    <3>3. request' = [request EXCEPT ![r] = q] /\ q.at # "idle"
      BY <3>1, <3>2 DEF Begin, Over
    <3> QED
      BY <2>1, <3>1, <3>3, OthersBegin
  <2> QED
    BY <2>1, <2>2, <2>3, <2>4
<1>2. CASE \E r \in Requests : RequestStep(r)
  BY <1>2, RequestCalm
<1>3. CASE \E t \in tasks : TaskStep(t)
  BY <1>3, TasksCalm
<1>4. CASE \E x \in Agents : Age(x)
  <2>1. aged' # {} /\ aged \subseteq aged' /\ UNCHANGED <<loggedIn, request>>
    BY <1>4 DEF Age, history
  <2>2. Counted' /\ ~Plain'
    BY <2>1, SameCount DEF Plain
  <2> QED
    BY <2>2 DEF LoginsInv
<1>5. CASE \E n \in Nodes : Sweep(n) \/ SweepIndex(n)
  <2>1. UNCHANGED <<loggedIn, request, aged>>
    BY <1>5 DEF Sweep, SweepIndex, history
  <2>2. Counted' /\ (Plain' => Plain /\ Calm)
    BY <2>1, SameCount
  <2>3. ~(Plain /\ Calm)
    BY <1>5 DEF Sweep, SweepIndex, Sweepable, Plain, Calm, NoRemoval
  <2> QED
    BY <2>2, <2>3 DEF LoginsInv
<1>6. CASE UNCHANGED vars
  <2>1. UNCHANGED <<stored, view, agents, tasks, request, sweeping, aged, loggedIn, raced>>
    BY <1>6 DEF vars
  <2>2. Counted' /\ (Plain' => Plain /\ Calm)
    BY <2>1, SameCount
  <2>3. Calm => Calm'
    BY <2>1 DEF Calm, NoRemoval, Peopled, Active, GoodLogin, Held, Home, Creates
  <2> QED
    BY <2>2, <2>3 DEF LoginsInv
<1> QED
  BY <1>1, <1>2, <1>3, <1>4, <1>5, <1>6 DEF Next

LEMMA LoginsInvHeld ==
  ASSUME SsoAssumption, TypeOfParts, LoginsInv, ServersAgree, AgentsAgree
  PROVE  LoginsHeld
<1> SUFFICES ASSUME AtRest, aged = {}, uneven = {}, Cardinality(Begun) = Cardinality(loggedIn),
                    NEW a \in loggedIn, NEW n \in Nodes
             PROVE  \E x \in stored[n] : \E b \in agents[n][x] : AppOf[b] = AppOf[a]
  BY DEF LoginsHeld
<1>1. Calm /\ raced = {} /\ tasks = {} /\ \A r \in Requests : ~Active(r)
  BY DEF LoginsInv, Plain, Calm, NoRemoval, AtRest, Active
<1>2. PICK m \in Nodes, x \in Agents : Home(x, m) /\ \E b \in agents[m][x] : SameApp(a, b)
  BY <1>1 DEF Calm, Held
<1>3. PICK b \in agents[m][x] : AppOf[b] = AppOf[a]
  BY <1>2 DEF SameApp
<1>4. x \in stored[m] /\ b \in Agents
  BY <1>1, <1>2 DEF Home, TypeOfParts
<1>5. x \in stored[n]
  BY <1>1, <1>4 DEF ServersAgree
<1>6. b \in agents[n][x]
  BY <1>4, <1>5 DEF AgentsAgree
<1> QED
  BY <1>3, <1>5, <1>6

\* c_service.jsp, lines 103 to 166: as long as there are only logins, and no ADD overtakes the
\* CREATE of its session, a login that was answered is not lost: when all is done both servers
\* have an agent of its application in a session of the user, however the logins, the tasks of
\* the executors and the messages between the servers were mixed.
THEOREM AnsweredHeld == Spec => []LoginsHeld
<1>1. Init => TypeOfParts /\ Inv /\ AgentsInv /\ LoginsInv
  BY SsoAssumption, TypeInit, InvInit, AgentsInit, LoginsInit
<1>2. TypeOfParts /\ Inv /\ AgentsInv /\ LoginsInv /\ [Next]_vars
        => (TypeOfParts /\ Inv /\ AgentsInv /\ LoginsInv)'
  BY SsoAssumption, TypeStep, InvStep, AgentsStep, LoginsStep
<1>3. TypeOfParts /\ Inv /\ AgentsInv /\ LoginsInv => LoginsHeld
  BY SsoAssumption, InvAgree, AgentsInvAgree, LoginsInvHeld
<1> QED
  BY <1>1, <1>2, <1>3, PTL DEF Spec

=============================================================================
