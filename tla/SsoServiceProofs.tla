-------------------------- MODULE SsoServiceProofs --------------------------
(***************************************************************************)
(* Proofs about SsoService, for every set of agents, any number of         *)
(* requests and any number of tasks at once.                               *)
(***************************************************************************)
EXTENDS SsoService, FiniteSetTheorems, TLAPS

LEMMA PeerFacts ==
  ASSUME SsoAssumption, NEW n \in Nodes
  PROVE  /\ Peer(n) \in Nodes /\ Peer(n) # n /\ Peer(Peer(n)) = n
         /\ \A m \in Nodes : m = n \/ m = Peer(n)
<1>1. Cardinality(Nodes \ {n}) = 1 /\ IsFiniteSet(Nodes \ {n})
  BY FS_RemoveElement DEF SsoAssumption
<1>2. PICK p : Nodes \ {n} = {p}
  BY <1>1, FS_Singleton
<1>3. p \in Nodes /\ p # n /\ \A m \in Nodes : m = n \/ m = p
  BY <1>2
<1>4. Peer(n) = p
  BY <1>3 DEF Peer
<1>5. Peer(p) = n
  BY <1>3 DEF Peer
<1> QED
  BY <1>3, <1>4, <1>5

-----------------------------------------------------------------------------
(* Types *)

TaskRecord ==
  [op : {"create", "expire", "clear", "add", "remove"}, by : Requests, node : Nodes,
   id : Agents \cup {None}, agent : Agents \cup {None}, at : {"run", "index", "send"},
   cluster : BOOLEAN, body : SUBSET Agents]

\* A task is about a session, unless it clears; a change of agents is only sent, and
\* only what a server was asked is.
TaskType ==
  {t \in TaskRecord : /\ t.op # "clear" => t.id \in Agents
                      /\ t.op \in {"add", "remove"} => t.at = "send" /\ t.agent \in Agents
                      /\ t.at = "send" => t.cluster}

ActiveRecord ==
  [at : {"create", "next", "iterate", "count"}, kind : {"login", "logout", "timeout"},
   node : Nodes, agent : Agents, list : SUBSET Agents, id : Agents \cup {None},
   keys : SUBSET Agents, met : SUBSET Agents, found : BOOLEAN, last : Agents \cup {None}]

\* A request that is at a session has its id.
ActiveType == {q \in ActiveRecord : q.at \in {"iterate", "count"} => q.id \in Agents}

RequestType == {Idle, Over} \cup ActiveType

TypeOfParts ==
  /\ stored \in [Nodes -> SUBSET Agents] /\ view \in [Nodes -> SUBSET Agents]
  /\ agents \in [Nodes -> [Agents -> SUBSET Agents]]
  /\ tasks \subseteq TaskType
  /\ request \in [Requests -> RequestType]
  /\ sweeping \in [Nodes -> Agents \cup {None}]
  /\ aged \subseteq Agents /\ loggedIn \subseteq Agents /\ blind \subseteq Agents
  /\ raced \subseteq Agents /\ uneven \subseteq Agents \X Agents

LEMMA Parts == TypeOfParts => TypeOK
<1> SUFFICES ASSUME TypeOfParts PROVE TypeOK
  OBVIOUS
<1>1. \A t \in tasks : t \in TaskRecord
  BY DEF TypeOfParts, TaskType
<1>2. ASSUME NEW r \in Requests
      PROVE  request[r].at \in {"idle", "create", "next", "iterate", "count", "done"}
  BY DEF TypeOfParts, RequestType, ActiveType, ActiveRecord, Idle, Over
<1> QED
  BY <1>1, <1>2 DEF TypeOfParts, TypeOK, TaskRecord

LEMMA TypeInit == SsoAssumption /\ Init => TypeOfParts
  BY DEF SsoAssumption, Init, TypeOfParts, RequestType

\* A request that has begun and is not over.
LEMMA ActiveTyped ==
  ASSUME TypeOfParts, NEW r \in Requests, request[r].at \notin {"idle", "done"}
  PROVE  request[r] \in ActiveType /\ request[r] \in ActiveRecord
  BY DEF TypeOfParts, RequestType, ActiveType, Idle, Over

LEMMA AtFacts ==
  ASSUME NEW t \in TaskType, NEW where \in {"run", "index", "send"},
         t.op \in {"add", "remove"} => where = "send",
         where = "send" => t.cluster
  PROVE  LET u == [t EXCEPT !.at = where]
         IN  /\ u \in TaskType /\ u.at = where
             /\ u.op = t.op /\ u.id = t.id /\ u.node = t.node /\ u.cluster = t.cluster
  BY DEF TaskType, TaskRecord

LEMMA MovedTyped ==
  ASSUME TypeOfParts, NEW t \in tasks, NEW where \in {"run", "index", "send"},
         t.op \in {"add", "remove"} => where = "send",
         where = "send" => t.cluster
  PROVE  Moved(t, where) \subseteq TaskType /\ tasks \ {t} \subseteq TaskType
<1>1. t \in TaskType
  BY DEF TypeOfParts
<1>2. [t EXCEPT !.at = where] \in TaskType
  BY <1>1, AtFacts
<1> QED
  BY <1>2 DEF Moved, TypeOfParts

LEMMA MessageFacts ==
  ASSUME SsoAssumption, NEW t \in TaskType, NEW as \in SUBSET Agents,
         t.op \in {"create", "expire", "clear"}
  PROVE  LET u == [t EXCEPT !.at = "run", !.node = Peer(t.node), !.cluster = FALSE,
                            !.body = as]
         IN  /\ u \in TaskType /\ u.at = "run" /\ u.op = t.op /\ u.id = t.id
             /\ u.node = Peer(t.node) /\ u.cluster = FALSE
<1>1. t \in TaskRecord /\ Peer(t.node) \in Nodes
  BY PeerFacts DEF TaskType, TaskRecord
<1> QED
  BY <1>1 DEF TaskType, TaskRecord

LEMMA AdvanceFacts ==
  ASSUME TypeOfParts, NEW r \in Requests, request[r].at \notin {"idle", "done"}, NEW x
  PROVE  /\ Advance(r, x) \in [Requests -> RequestType]
         /\ \E q \in RequestType :
              /\ Advance(r, x) = [request EXCEPT ![r] = q]
              /\ \/ q = Over
                 \/ /\ q \in ActiveType /\ q.at = "next" /\ q.id = None
                    /\ q.list \subseteq request[r].list /\ q.last = request[r].last
<1>1. request[r] \in ActiveRecord
  BY ActiveTyped
<1> DEFINE q == IF request[r].list = {x} THEN Over
                ELSE [request[r] EXCEPT !.at = "next", !.list = request[r].list \ {x}, !.id = None,
                                        !.keys = {}, !.met = {}, !.found = FALSE]
<1>2. Advance(r, x) = [request EXCEPT ![r] = q]
  BY DEF Advance
<1>3. \/ q = Over
      \/ /\ q \in ActiveType /\ q.at = "next" /\ q.id = None
         /\ q.list \subseteq request[r].list /\ q.last = request[r].last
  BY <1>1 DEF ActiveType, ActiveRecord
<1>4. q \in RequestType
  BY <1>3 DEF RequestType
<1> HIDE DEF q
<1> QED
  BY <1>2, <1>3, <1>4 DEF TypeOfParts

\* The new value of a request.
LEMMA RequestTyped ==
  ASSUME TypeOfParts, NEW r \in Requests, NEW q \in RequestType,
         request' = [request EXCEPT ![r] = q]
  PROVE  request' \in [Requests -> RequestType]
  BY DEF TypeOfParts

\* What a request is after it has begun, or has gone on to an agent.
LEMMA BeginTyped ==
  ASSUME TypeOfParts, NEW r \in Requests, NEW n \in Nodes, NEW a \in Agents,
         NEW kind \in {"login", "logout", "timeout"}, Begin(r, kind, n, a)
  PROVE  \E q \in RequestType :
           /\ request' = [request EXCEPT ![r] = q]
           /\ \/ q = Over
              \/ /\ q \in ActiveType /\ q.list = view[n] /\ q.id = None /\ q.last = None
                 /\ q.agent = a /\ (q.at = "create" => kind = "login")
                 /\ q.at \in {"create", "next"}
<1> DEFINE q == IF view[n] = {} /\ kind # "login" THEN Over
                ELSE [at |-> IF view[n] = {} THEN "create" ELSE "next", kind |-> kind, node |-> n,
                      agent |-> a, list |-> view[n], id |-> None, keys |-> {}, met |-> {},
                      found |-> FALSE, last |-> None]
<1>1. request' = [request EXCEPT ![r] = q]
  BY DEF Begin
<1>2. \/ q = Over
      \/ /\ q \in ActiveType /\ q.list = view[n] /\ q.id = None /\ q.last = None
         /\ q.agent = a /\ (q.at = "create" => kind = "login")
         /\ q.at \in {"create", "next"}
  BY DEF TypeOfParts, ActiveType, ActiveRecord
<1>3. q \in RequestType
  BY <1>2 DEF RequestType
<1> HIDE DEF q
<1> QED
  BY <1>1, <1>2, <1>3

-----------------------------------------------------------------------------
(* Steps of a request that stores nothing *)

Active(r) == request[r].at \notin {"idle", "done"}

\* A server, a task or a request has the name x of a session.
Known(x) ==
  \/ \E n \in Nodes : x \in stored[n] \/ x \in view[n] \/ sweeping[n] = x
  \/ \E t \in tasks : t.id = x
  \/ \E r \in Requests :
       Active(r) /\ (x \in request[r].list \/ request[r].id = x \/ request[r].last = x)

\* A request goes on without making a session, to sessions that are known.
KnownRequest(q) ==
  q = Over \/ /\ q \in ActiveType /\ q.at # "create"
              /\ \A x \in Agents : x \in q.list \/ q.id = x \/ q.last = x => Known(x)

\* A change of agents, or the expiry of a known session, is asked for.
KnownTask(t) ==
  /\ t \in TaskType /\ (t.id \in Agents => Known(t.id))
  /\ \/ t.op \in {"add", "remove"}
     \/ t.op \in {"expire", "clear"} /\ t.at = "run" /\ t.cluster

Quiet(r) ==
  /\ \E q : KnownRequest(q) /\ request' = [request EXCEPT ![r] = q]
  /\ \E new : (\A t \in new : KnownTask(t)) /\ tasks' = tasks \cup new
  /\ agents' \in [Nodes -> [Agents -> SUBSET Agents]]
  /\ uneven' \subseteq Agents \X Agents
  /\ UNCHANGED <<stored, view, sweeping, aged, loggedIn, blind, raced>>

LEMMA ExpireKnown ==
  ASSUME NEW r \in Requests, NEW n \in Nodes, NEW x \in Agents, Known(x)
  PROVE  KnownTask(Task("expire", r, n, x, None))
<1>1. /\ Task("expire", r, n, x, None) \in TaskType
      /\ Task("expire", r, n, x, None).op = "expire"
      /\ Task("expire", r, n, x, None).id = x
      /\ Task("expire", r, n, x, None).at = "run"
      /\ Task("expire", r, n, x, None).cluster = TRUE
  BY DEF Task, TaskType, TaskRecord
<1> QED
  BY <1>1 DEF KnownTask

LEMMA ChangeKnown ==
  ASSUME NEW op \in {"add", "remove"}, NEW r \in Requests, NEW n \in Nodes,
         NEW x \in Agents, NEW a \in Agents, Known(x)
  PROVE  KnownTask(Change(op, r, n, x, a))
<1>1. /\ Change(op, r, n, x, a) \in TaskType
      /\ Change(op, r, n, x, a).op = op
      /\ Change(op, r, n, x, a).id = x
  BY DEF Change, Task, TaskType, TaskRecord
<1> QED
  BY <1>1 DEF KnownTask

LEMMA AdvanceKnown ==
  ASSUME SsoAssumption, TypeOfParts, NEW r \in Requests, Active(r), NEW x
  PROVE  \E q : /\ KnownRequest(q) /\ Advance(r, x) = [request EXCEPT ![r] = q]
                /\ q # Over => q \in ActiveType /\ q.at = "next"
<1>1. PICK q \in RequestType :
        /\ Advance(r, x) = [request EXCEPT ![r] = q]
        /\ \/ q = Over
           \/ /\ q \in ActiveType /\ q.at = "next" /\ q.id = None
              /\ q.list \subseteq request[r].list /\ q.last = request[r].last
  BY AdvanceFacts DEF Active
<1>2. ASSUME NEW y \in Agents, y \in request[r].list \/ y = request[r].last PROVE Known(y)
  BY <1>2 DEF Known
<1>3. KnownRequest(q)
  <2>1. CASE q = Over
    BY <2>1 DEF KnownRequest
  <2>2. CASE q # Over
    BY <1>1, <1>2, <2>2 DEF KnownRequest, SsoAssumption
  <2> QED
    BY <2>1, <2>2
<1> QED
  BY <1>1, <1>3

\* A request that begins at a session that getBy finds.
LEMMA BeginKnown ==
  ASSUME SsoAssumption, TypeOfParts, NEW r \in Requests, NEW n \in Nodes, NEW a \in Agents,
         NEW kind \in {"logout", "timeout"}, Begin(r, kind, n, a),
         UNCHANGED <<stored, view, agents, tasks, sweeping, aged, history>>
  PROVE  Quiet(r)
<1>1. PICK q \in RequestType :
        /\ request' = [request EXCEPT ![r] = q]
        /\ \/ q = Over
           \/ /\ q \in ActiveType /\ q.list = view[n] /\ q.id = None /\ q.last = None
              /\ q.agent = a /\ (q.at = "create" => kind = "login")
              /\ q.at \in {"create", "next"}
  BY BeginTyped
<1>2. ASSUME NEW y \in Agents, y \in view[n] PROVE Known(y)
  BY <1>2 DEF Known
<1>3. KnownRequest(q)
  BY <1>1, <1>2 DEF KnownRequest, SsoAssumption
<1>4. \E new : (\A t \in new : KnownTask(t)) /\ tasks' = tasks \cup new
  <2>1. tasks' = tasks \cup {} /\ \A t \in {} : KnownTask(t)
    OBVIOUS
  <2> QED
    BY <2>1
<1> QED
  BY <1>1, <1>3, <1>4 DEF Quiet, TypeOfParts, history

LEMMA KillQuiet ==
  ASSUME TypeOfParts, NEW r \in Requests, NEW n \in Nodes, NEW x \in Agents, Kill(r, n, x)
  PROVE  Quiet(r)
<1>1. KnownRequest(Over) /\ request' = [request EXCEPT ![r] = Over]
  BY DEF KnownRequest, Kill, End
<1>2. KnownTask(Task("expire", r, n, x, None))
  BY ExpireKnown DEF Kill, Known
<1>3. tasks' = tasks \cup {Task("expire", r, n, x, None)}
  BY DEF Kill
<1>4. \E new : (\A t \in new : KnownTask(t)) /\ tasks' = tasks \cup new
  BY <1>2, <1>3
<1> QED
  BY <1>1, <1>4 DEF Kill, Quiet, TypeOfParts, history

LEMMA ClearQuiet ==
  ASSUME SsoAssumption, TypeOfParts, NEW r \in Requests, NEW n \in Nodes, Clear(r, n)
  PROVE  Quiet(r)
<1>1. KnownRequest(Over) /\ request' = [request EXCEPT ![r] = Over]
  BY DEF KnownRequest, Clear, End
<1>2. /\ Task("clear", r, n, None, None) \in TaskType
      /\ Task("clear", r, n, None, None).op = "clear"
      /\ Task("clear", r, n, None, None).id = None
      /\ Task("clear", r, n, None, None).at = "run"
      /\ Task("clear", r, n, None, None).cluster = TRUE
  BY DEF Task, TaskType, TaskRecord
<1>3. KnownTask(Task("clear", r, n, None, None))
  BY <1>2 DEF KnownTask, SsoAssumption
<1>4. tasks' = tasks \cup {Task("clear", r, n, None, None)}
  BY DEF Clear
<1>5. \E new : (\A t \in new : KnownTask(t)) /\ tasks' = tasks \cup new
  BY <1>3, <1>4
<1> QED
  BY <1>1, <1>5 DEF Clear, Quiet, TypeOfParts, history

LEMMA AddTask ==
  ASSUME NEW t, tasks' = tasks \/ (KnownTask(t) /\ tasks' = tasks \cup {t})
  PROVE  \E new : (\A u \in new : KnownTask(u)) /\ tasks' = tasks \cup new
<1>1. CASE tasks' = tasks
  <2>1. tasks' = tasks \cup {} /\ \A u \in {} : KnownTask(u)
    BY <1>1
  <2> QED
    BY <2>1
<1>2. CASE KnownTask(t) /\ tasks' = tasks \cup {t}
  <2>1. \A u \in {t} : KnownTask(u)
    BY <1>2
  <2> QED
    BY <1>2, <2>1
<1> QED
  BY <1>1, <1>2

\* A request that is under way is at known sessions.
LEMMA RequestKnown ==
  ASSUME TypeOfParts, NEW r \in Requests, Active(r)
  PROVE  /\ request[r] \in ActiveType /\ request[r] \in ActiveRecord
         /\ \A x \in Agents :
              x \in request[r].list \/ request[r].id = x \/ request[r].last = x => Known(x)
         /\ request[r].at # "create" => KnownRequest(request[r])
<1>1. request[r] \in ActiveType /\ request[r] \in ActiveRecord
  BY ActiveTyped DEF Active
<1>2. \A x \in Agents :
        x \in request[r].list \/ request[r].id = x \/ request[r].last = x => Known(x)
  BY DEF Known
<1> QED
  BY <1>1, <1>2 DEF KnownRequest

LEMMA VisitQuiet ==
  ASSUME SsoAssumption, TypeOfParts, NEW r \in Requests, NEW x \in Agents, Visit(r, x)
  PROVE  Quiet(r)
<1>0. Active(r)
  BY DEF Visit, Active
<1>1. /\ request[r] \in ActiveType /\ request[r] \in ActiveRecord
      /\ Known(x) /\ KnownRequest(request[r]) /\ request[r].node \in Nodes
  <2>1. request[r].node \in Nodes
    BY <1>0, RequestKnown DEF ActiveRecord
  <2> QED
    BY <1>0, <2>1, RequestKnown DEF Visit
<1>2. \E new : (\A u \in new : KnownTask(u)) /\ tasks' = tasks \cup new
  <2>1. \/ tasks' = tasks
        \/ tasks' = tasks \cup {Task("expire", r, request[r].node, x, None)}
    BY DEF Visit
  <2> QED
    BY <1>1, <2>1, ExpireKnown, AddTask
<1>3. \E q : KnownRequest(q) /\ request' = [request EXCEPT ![r] = q]
  <2>1. CASE End(r)
    BY <2>1 DEF End, KnownRequest
  <2>2. CASE request' = Advance(r, x)
    BY <1>0, <2>2, AdvanceKnown
  <2>3. CASE request' = [request EXCEPT ![r].at = "iterate", ![r].id = x,
                                        ![r].keys = agents[request[r].node][x]]
    <3> DEFINE q == [request[r] EXCEPT !.at = "iterate", !.id = x,
                                       !.keys = agents[request[r].node][x]]
    <3>1. agents[request[r].node][x] \in SUBSET Agents
      BY <1>1 DEF TypeOfParts
    <3>2. /\ q \in ActiveType /\ q.at = "iterate" /\ q.list = request[r].list
          /\ q.id = x /\ q.last = request[r].last
      BY <1>1, <3>1 DEF ActiveType, ActiveRecord
    <3>3. request' = [request EXCEPT ![r] = q]
      BY <1>1, <2>3 DEF TypeOfParts, ActiveRecord
    <3> HIDE DEF q
    <3>4. KnownRequest(q)
      BY <1>0, <1>1, <3>2, RequestKnown DEF KnownRequest
    <3> QED
      BY <3>3, <3>4
  <2> QED
    BY <2>1, <2>2, <2>3 DEF Visit
<1> QED
  BY <1>2, <1>3 DEF Visit, Quiet, TypeOfParts, history

\* The iterator has met the agent b.
LEMMA MetKnown ==
  ASSUME TypeOfParts, NEW r \in Requests, request[r].at = "iterate", NEW b \in Agents,
         NEW found \in BOOLEAN,
         request' = [request EXCEPT ![r].met = @ \cup {b}, ![r].found = found]
  PROVE  \E q : KnownRequest(q) /\ request' = [request EXCEPT ![r] = q]
<1> DEFINE q == [request[r] EXCEPT !.met = @ \cup {b}, !.found = found]
<1>0. Active(r)
  BY DEF Active
<1>1. request[r] \in ActiveType /\ request[r] \in ActiveRecord
  BY <1>0, RequestKnown
<1>2. /\ q \in ActiveType /\ q.at = "iterate" /\ q.list = request[r].list
      /\ q.id = request[r].id /\ q.last = request[r].last
  BY <1>1 DEF ActiveType, ActiveRecord
<1>3. request' = [request EXCEPT ![r] = q]
  BY <1>1 DEF TypeOfParts
<1> HIDE DEF q
<1>4. KnownRequest(q)
  BY <1>0, <1>2, RequestKnown DEF KnownRequest
<1> QED
  BY <1>3, <1>4
LEMMA MetOnlyKnown ==
  ASSUME TypeOfParts, NEW r \in Requests, request[r].at = "iterate", NEW b \in Agents,
         request' = [request EXCEPT ![r].met = @ \cup {b}]
  PROVE  \E q : KnownRequest(q) /\ request' = [request EXCEPT ![r] = q]
<1> DEFINE q == [request[r] EXCEPT !.met = @ \cup {b}]
<1>0. Active(r)
  BY DEF Active
<1>1. request[r] \in ActiveType /\ request[r] \in ActiveRecord
  BY <1>0, RequestKnown
<1>2. /\ q \in ActiveType /\ q.at = "iterate" /\ q.list = request[r].list
      /\ q.id = request[r].id /\ q.last = request[r].last
  BY <1>1 DEF ActiveType, ActiveRecord
<1>3. request' = [request EXCEPT ![r] = q]
  BY <1>1 DEF TypeOfParts
<1> HIDE DEF q
<1>4. KnownRequest(q)
  BY <1>0, <1>2, RequestKnown DEF KnownRequest
<1> QED
  BY <1>3, <1>4

LEMMA EndKnown ==
  ASSUME NEW r \in Requests, End(r)
  PROVE  \E q : KnownRequest(q) /\ request' = [request EXCEPT ![r] = q]
  BY DEF End, KnownRequest

LEMMA NoTask ==
  ASSUME tasks' = tasks
  PROVE  \E new : (\A u \in new : KnownTask(u)) /\ tasks' = tasks \cup new
<1>1. tasks' = tasks \cup {} /\ \A u \in {} : KnownTask(u)
  OBVIOUS
<1> QED
  BY <1>1

LEMMA MeetRemovedQuiet ==
  ASSUME TypeOfParts, NEW r \in Requests, NEW b \in Agents, MeetRemoved(r, b)
  PROVE  Quiet(r)
<1>1. \E q : KnownRequest(q) /\ request' = [request EXCEPT ![r] = q]
  BY MetOnlyKnown, EndKnown DEF MeetRemoved
<1>2. \E new : (\A u \in new : KnownTask(u)) /\ tasks' = tasks \cup new
  BY NoTask DEF MeetRemoved
<1> QED
  BY <1>1, <1>2 DEF MeetRemoved, Quiet, TypeOfParts, history

LEMMA UnlearntTyped ==
  ASSUME TypeOfParts, NEW n, NEW x \in Agents, NEW a \in Agents
  PROVE  Unlearnt(n, x, a) \subseteq Agents \X Agents
  BY DEF Unlearnt, TypeOfParts

LEMMA MeetLoginQuiet ==
  ASSUME TypeOfParts, NEW r \in Requests, NEW b \in Agents, MeetLogin(r, b)
  PROVE  Quiet(r)
<1> DEFINE n == request[r].node  x == request[r].id  a == request[r].agent
           found == request[r].found \/ SameApp(a, b)
<1>0. Active(r) /\ request[r].at = "iterate"
  BY DEF MeetLogin, Active
<1>1. /\ request[r] \in ActiveType /\ request[r] \in ActiveRecord
      /\ n \in Nodes /\ x \in Agents /\ a \in Agents /\ found \in BOOLEAN
  BY <1>0, RequestKnown DEF ActiveType, ActiveRecord, SameApp
<1>2. Known(x)
  BY <1>0, <1>1, RequestKnown
<1>3. request' = [request EXCEPT ![r].met = @ \cup {b}, ![r].found = found]
  BY DEF MeetLogin
<1>4. \/ agents' = agents /\ tasks' = tasks /\ uneven' = uneven
      \/ /\ agents' = [agents EXCEPT ![n][x] = @ \cup {a}]
         /\ uneven' = Unlearnt(n, x, a)
         /\ tasks' = tasks \/ tasks' = tasks \cup {Change("add", r, n, x, a)}
  BY DEF MeetLogin
<1>5. UNCHANGED <<stored, view, sweeping, aged, loggedIn, blind, raced>>
  BY DEF MeetLogin
<1> HIDE DEF n, x, a, found
<1>6. \E q : KnownRequest(q) /\ request' = [request EXCEPT ![r] = q]
  BY <1>0, <1>1, <1>3, MetKnown
<1>7. \E new : (\A u \in new : KnownTask(u)) /\ tasks' = tasks \cup new
  BY <1>1, <1>2, <1>4, ChangeKnown, AddTask
<1>8. agents' \in [Nodes -> [Agents -> SUBSET Agents]]
  <2>1. CASE agents' = agents
    BY <2>1 DEF TypeOfParts
  <2>2. CASE agents' = [agents EXCEPT ![n][x] = @ \cup {a}]
    BY <1>1, <2>2 DEF TypeOfParts
  <2> QED
    BY <1>4, <2>1, <2>2
<1>9. uneven' \subseteq Agents \X Agents
  BY <1>1, <1>4, UnlearntTyped DEF TypeOfParts
<1> QED
  BY <1>5, <1>6, <1>7, <1>8, <1>9 DEF Quiet

LEMMA MeetLogoutQuiet ==
  ASSUME TypeOfParts, NEW r \in Requests, NEW b \in Agents, MeetLogout(r, b)
  PROVE  Quiet(r)
<1> DEFINE n == request[r].node  x == request[r].id
<1>0. Active(r) /\ request[r].at = "iterate"
  BY DEF MeetLogout, Active
<1>1. n \in Nodes /\ x \in Agents
  BY <1>0, RequestKnown DEF ActiveType, ActiveRecord
<1>2. \E q : KnownRequest(q) /\ request' = [request EXCEPT ![r] = q]
  BY <1>0, MetOnlyKnown, EndKnown DEF MeetLogout
<1>3. \/ agents' = agents /\ uneven' = uneven
      \/ agents' = [agents EXCEPT ![n][x] = @ \ {b}] /\ uneven' = uneven \cup {<<x, b>>}
  BY DEF MeetLogout
<1>4. UNCHANGED <<stored, view, tasks, sweeping, aged, loggedIn, blind, raced>>
  BY DEF MeetLogout
<1> HIDE DEF n, x
<1>5. agents' \in [Nodes -> [Agents -> SUBSET Agents]] /\ uneven' \subseteq Agents \X Agents
  <2>1. CASE agents' = agents /\ uneven' = uneven
    BY <2>1 DEF TypeOfParts
  <2>2. CASE agents' = [agents EXCEPT ![n][x] = @ \ {b}] /\ uneven' = uneven \cup {<<x, b>>}
    BY <1>1, <2>2 DEF TypeOfParts
  <2> QED
    BY <1>3, <2>1, <2>2
<1>6. \E new : (\A u \in new : KnownTask(u)) /\ tasks' = tasks \cup new
  BY <1>4, NoTask
<1> QED
  BY <1>2, <1>4, <1>5, <1>6 DEF Quiet

LEMMA EndIterationQuiet ==
  ASSUME SsoAssumption, TypeOfParts, NEW r \in Requests, EndIteration(r)
  PROVE  Quiet(r)
<1> DEFINE n == request[r].node  x == request[r].id
<1>0. Active(r) /\ request[r].at = "iterate"
  BY DEF EndIteration, Active
<1>1. n \in Nodes /\ x \in Agents
  BY <1>0, RequestKnown DEF ActiveType, ActiveRecord
<1>2. Known(x)
  BY <1>0, <1>1, RequestKnown
<1>3. /\ request' = Advance(r, x)
      /\ tasks' = tasks \/ tasks' = tasks \cup {Task("expire", r, n, x, None)}
      /\ UNCHANGED <<stored, view, agents, sweeping, aged, history>>
  BY DEF EndIteration
<1> HIDE DEF n, x
<1>4. \E q : KnownRequest(q) /\ request' = [request EXCEPT ![r] = q]
  BY <1>0, <1>3, AdvanceKnown
<1>5. \E new : (\A u \in new : KnownTask(u)) /\ tasks' = tasks \cup new
  BY <1>1, <1>2, <1>3, ExpireKnown, AddTask
<1> QED
  BY <1>3, <1>4, <1>5 DEF Quiet, TypeOfParts, history

LEMMA RemoveAgentQuiet ==
  ASSUME TypeOfParts, NEW r \in Requests, NEW x \in Agents, RemoveAgent(r, x)
  PROVE  Quiet(r)
<1> DEFINE n == request[r].node  a == request[r].agent
           q == [request[r] EXCEPT !.at = "count", !.id = x]
<1>0. Active(r) /\ request[r].at = "next" /\ x \in request[r].list
  BY DEF RemoveAgent, Active
<1>1. /\ request[r] \in ActiveType /\ request[r] \in ActiveRecord
      /\ n \in Nodes /\ a \in Agents
  BY <1>0, RequestKnown DEF ActiveRecord
<1>2. Known(x)
  BY <1>0, RequestKnown
<1>3. /\ request' = [request EXCEPT ![r].at = "count", ![r].id = x]
      /\ tasks' = tasks \/ tasks' = tasks \cup {Change("remove", r, n, x, a)}
      /\ agents' = [agents EXCEPT ![n][x] = @ \ {a}]
      /\ uneven' = Unlearnt(n, x, a)
      /\ UNCHANGED <<stored, view, sweeping, aged, loggedIn, blind, raced>>
  BY DEF RemoveAgent
<1>4. request' = [request EXCEPT ![r] = q]
  BY <1>1, <1>3 DEF TypeOfParts
<1>5. /\ q \in ActiveType /\ q.at = "count" /\ q.list = request[r].list
      /\ q.id = x /\ q.last = request[r].last
  BY <1>1 DEF ActiveType, ActiveRecord
<1> HIDE DEF n, a, q
<1>6. KnownRequest(q)
  BY <1>0, <1>2, <1>5, RequestKnown DEF KnownRequest
<1>7. \E new : (\A u \in new : KnownTask(u)) /\ tasks' = tasks \cup new
  BY <1>1, <1>2, <1>3, ChangeKnown, AddTask
<1>8. agents' \in [Nodes -> [Agents -> SUBSET Agents]]
  BY <1>1, <1>3 DEF TypeOfParts
<1>9. uneven' \subseteq Agents \X Agents
  BY <1>1, <1>3, UnlearntTyped
<1> QED
  BY <1>3, <1>4, <1>6, <1>7, <1>8, <1>9 DEF Quiet

LEMMA CountQuiet ==
  ASSUME SsoAssumption, TypeOfParts, NEW r \in Requests, Count(r)
  PROVE  Quiet(r)
<1> DEFINE n == request[r].node  x == request[r].id
           last == IF agents[n][x] = {} THEN x ELSE request[r].last
           next == Advance(r, x)
<1>0. Active(r) /\ request[r].at = "count"
  BY DEF Count, Active
<1>1. n \in Nodes /\ x \in Agents /\ request[r].last \in Agents \cup {None}
  BY <1>0, RequestKnown DEF ActiveType, ActiveRecord
<1>2. last \in Agents \cup {None} /\ (last \in Agents => Known(last))
  BY <1>0, <1>1, RequestKnown
<1>3. PICK q : /\ KnownRequest(q) /\ next = [request EXCEPT ![r] = q]
               /\ q # Over => q \in ActiveType /\ q.at = "next"
  BY <1>0, AdvanceKnown
<1>4. \/ /\ next[r] = Over /\ request' = next
         /\ tasks' = tasks \/ (last # None /\ tasks' = tasks \cup {Task("expire", r, n, last, None)})
      \/ next[r] # Over /\ request' = [next EXCEPT ![r].last = last] /\ tasks' = tasks
  BY DEF Count
<1>5. UNCHANGED <<stored, view, agents, sweeping, aged, history>>
  BY DEF Count
<1> HIDE DEF n, x, last, next
<1>6. \E new : (\A u \in new : KnownTask(u)) /\ tasks' = tasks \cup new
  <2>1. CASE tasks' = tasks
    BY <2>1, NoTask
  <2>2. CASE last # None /\ tasks' = tasks \cup {Task("expire", r, n, last, None)}
    BY <1>1, <1>2, <2>2, ExpireKnown, AddTask
  <2> QED
    BY <1>4, <2>1, <2>2
<1>7. \E p : KnownRequest(p) /\ request' = [request EXCEPT ![r] = p]
  <2>1. CASE request' = next
    BY <1>3, <2>1
  <2>2. CASE next[r] # Over /\ request' = [next EXCEPT ![r].last = last]
    <3> DEFINE p == [q EXCEPT !.last = last]
    <3>1. next[r] = q
      BY <1>3 DEF TypeOfParts
    <3>2. request' = [request EXCEPT ![r] = p]
      BY <1>3, <2>2, <3>1 DEF TypeOfParts
    <3>3. q \in ActiveType /\ q.at = "next"
      BY <1>3, <2>2, <3>1
    <3>4. /\ p \in ActiveType /\ p.at = "next" /\ p.list = q.list /\ p.id = q.id
          /\ p.last = last
      BY <1>2, <3>3 DEF ActiveType, ActiveRecord
    <3>5. \A y \in Agents : y \in q.list \/ q.id = y => Known(y)
      BY <1>3, <2>2, <3>1 DEF KnownRequest
    <3> HIDE DEF p
    <3>6. KnownRequest(p)
      BY <1>2, <3>4, <3>5 DEF KnownRequest
    <3> QED
      BY <3>2, <3>6
  <2> QED
    BY <1>4, <2>1, <2>2
<1> QED
  BY <1>5, <1>6, <1>7 DEF Quiet, TypeOfParts, history

-----------------------------------------------------------------------------
(* The type invariant *)

\* What a step is, for the invariants.
Step ==
  \/ \E t \in tasks : TaskStep(t)
  \/ \E r \in Requests : Quiet(r) \/ CreateSession(r)
  \/ \E r \in Requests, n \in Nodes, a \in Agents : Login(r, n, a)
  \/ \E x \in Agents : Age(x)
  \/ \E n \in Nodes : Sweep(n) \/ SweepIndex(n)

LEMMA NextIsStep == SsoAssumption /\ TypeOfParts /\ Next => Step
<1> SUFFICES ASSUME SsoAssumption, TypeOfParts, Next PROVE Step
  OBVIOUS
<1>1. ASSUME NEW r \in Requests, Ask(r) PROVE Step
  <2>1. PICK n \in Nodes :
          \/ Clear(r, n)
          \/ \E a \in Agents : Login(r, n, a) \/ Timeout(r, n, a) \/ Logout(r, n, a) \/ Kill(r, n, a)
    BY <1>1 DEF Ask
  <2>2. CASE Clear(r, n)
    BY <2>2, ClearQuiet DEF Step
  <2>3. ASSUME NEW a \in Agents, Login(r, n, a) PROVE Step
    BY <2>3 DEF Step
  <2>4. ASSUME NEW a \in Agents, Timeout(r, n, a) \/ Logout(r, n, a) PROVE Step
    <3>1. Quiet(r)
      BY <2>4, BeginKnown DEF Timeout, Logout
    <3> QED
      BY <3>1 DEF Step
  <2>5. ASSUME NEW a \in Agents, Kill(r, n, a) PROVE Step
    BY <2>5, KillQuiet DEF Step
  <2> QED
    BY <2>1, <2>2, <2>3, <2>4, <2>5
<1>2. ASSUME NEW r \in Requests, RequestStep(r) PROVE Step
  <2>1. CreateSession(r) \/ Quiet(r)
    BY <1>2, EndIterationQuiet, CountQuiet, VisitQuiet, RemoveAgentQuiet, MeetRemovedQuiet,
       MeetLoginQuiet, MeetLogoutQuiet DEF RequestStep
  <2> QED
    BY <2>1 DEF Step
<1> QED
  BY <1>1, <1>2 DEF Next, Step

LEMMA CreatingTyped ==
  ASSUME TypeOfParts
  PROVE  Creating \subseteq Agents
<1>1. ASSUME NEW x \in Creating PROVE x \in Agents
  <2>1. CASE \E u \in tasks : u.op = "create" /\ x = u.id
    BY <2>1 DEF TaskType, TypeOfParts
  <2>2. CASE \E r \in Requests : request[r].at = "create" /\ x = request[r].agent
    BY <2>2, ActiveTyped DEF ActiveRecord
  <2> QED
    BY <1>1, <2>1, <2>2 DEF Creating
<1> QED
  BY <1>1

LEMMA QuietType ==
  ASSUME TypeOfParts, NEW r \in Requests, Quiet(r)
  PROVE  TypeOfParts'
<1>1. PICK q : KnownRequest(q) /\ request' = [request EXCEPT ![r] = q]
  BY DEF Quiet
<1>2. q \in RequestType
  BY <1>1 DEF KnownRequest, RequestType
<1>3. request' \in [Requests -> RequestType]
  BY <1>1, <1>2, RequestTyped
<1>4. tasks' \subseteq TaskType
  BY DEF Quiet, KnownTask, TypeOfParts
<1> QED
  BY <1>3, <1>4 DEF Quiet, TypeOfParts

LEMMA TypeStep == SsoAssumption /\ TypeOfParts /\ [Next]_vars => TypeOfParts'
<1> SUFFICES ASSUME SsoAssumption, TypeOfParts, [Next]_vars PROVE TypeOfParts'
  OBVIOUS
<1> USE DEF SsoAssumption, history
<1>0. /\ \A t \in tasks : t \in TaskType /\ t \in TaskRecord
      /\ Over \in RequestType
  BY DEF TypeOfParts, TaskType, RequestType
<1>1. ASSUME NEW t \in tasks, RunCreate(t) PROVE TypeOfParts'
  <2>1. tasks' \subseteq TaskType
    BY <1>1, MovedTyped DEF RunCreate
  <2>2. t.node \in Nodes /\ t.id \in Agents /\ t.body \subseteq Agents
    BY <1>0, <1>1 DEF RunCreate, TaskType, TaskRecord
  <2>3. stored' \in [Nodes -> SUBSET Agents]
    BY <1>1, <2>2 DEF RunCreate, TypeOfParts
  <2>4. agents' \in [Nodes -> [Agents -> SUBSET Agents]]
    BY <1>1, <2>2 DEF RunCreate, TypeOfParts
  <2> QED
    BY <1>1, <2>1, <2>3, <2>4 DEF RunCreate, TypeOfParts
<1>2. ASSUME NEW t \in tasks, RunExpire(t) \/ RunClear(t) PROVE TypeOfParts'
  <2>1. tasks' \subseteq TaskType
    <3>1. \/ tasks' = Moved(t, "index")
          \/ t.cluster /\ tasks' = Moved(t, "send")
          \/ tasks' = tasks \ {t}
      BY <1>2 DEF RunExpire, RunClear, After
    <3>2. t.op \notin {"add", "remove"}
      BY <1>2 DEF RunExpire, RunClear
    <3>3. Moved(t, "index") \subseteq TaskType /\ tasks \ {t} \subseteq TaskType
      BY <3>2, MovedTyped
    <3>4. t.cluster => Moved(t, "send") \subseteq TaskType
      BY <3>2, MovedTyped
    <3> QED
      BY <3>1, <3>3, <3>4
  <2>2. stored' \in [Nodes -> SUBSET Agents]
    BY <1>2 DEF RunExpire, RunClear, TypeOfParts
  <2>4. raced' \subseteq Agents
    BY <1>2, CreatingTyped DEF RunExpire, RunClear, TypeOfParts
  <2> QED
    BY <1>2, <2>1, <2>2, <2>4 DEF RunExpire, RunClear, TypeOfParts
<1>3. ASSUME NEW t \in tasks, RunIndex(t) PROVE TypeOfParts'
  <2>1. tasks' \subseteq TaskType
    <3>1. t.op \notin {"add", "remove"} /\ t.at = "index"
      BY <1>0, <1>3 DEF RunIndex, TaskType
    <3>2. tasks \ {t} \subseteq TaskType
      BY DEF TypeOfParts
    <3>3. t.cluster => Moved(t, "send") \subseteq TaskType
      BY <3>1, MovedTyped
    <3> QED
      BY <1>3, <3>2, <3>3 DEF RunIndex, After
  <2>2. t.node \in Nodes /\ t.op \in {"create", "expire", "clear"} /\ (t.op = "create" => t.id \in Agents)
    BY <1>0, <1>3 DEF RunIndex, TaskType, TaskRecord
  <2>3. Indexed(t.op, view[t.node], t.id) \in SUBSET Agents
    BY <2>2 DEF Indexed, TypeOfParts
  <2>4. view' \in [Nodes -> SUBSET Agents]
    BY <1>3, <2>2, <2>3 DEF RunIndex, TypeOfParts
  <2> QED
    BY <1>3, <2>1, <2>4 DEF RunIndex, TypeOfParts
<1>4. ASSUME NEW t \in tasks, Forward(t) PROVE TypeOfParts'
  <2> DEFINE as == IF t.op = "create" THEN agents[t.node][t.id] ELSE {}
             u == [t EXCEPT !.at = "run", !.node = Peer(t.node), !.cluster = FALSE, !.body = as]
  <2>1. as \in SUBSET Agents
    BY <1>0 DEF TaskType, TaskRecord, TypeOfParts
  <2>2. tasks' = (tasks \ {t}) \cup {u}
    BY <1>4 DEF Forward
  <2> HIDE DEF as
  <2>3. u \in TaskType
    BY <1>0, <1>4, <2>1, MessageFacts DEF Forward
  <2> HIDE DEF u
  <2> QED
    BY <1>0, <1>4, <2>2, <2>3 DEF Forward, TypeOfParts
<1>5. ASSUME NEW t \in tasks, ForwardChange(t) PROVE TypeOfParts'
  <2>1. Peer(t.node) \in Nodes /\ t.id \in Agents
    BY <1>0, <1>5, PeerFacts DEF ForwardChange, TaskType, TaskRecord
  <2>2. t.agent \in Agents /\ t.node \in Nodes
    BY <1>0, <1>5 DEF ForwardChange, TaskType, TaskRecord
  <2>3. ASSUME NEW as \in SUBSET Agents PROVE Applied(t.op, as, t.agent) \in SUBSET Agents
    BY <2>2 DEF Applied
  <2>4. agents' \in [Nodes -> [Agents -> SUBSET Agents]]
    <3>1. CASE agents' = agents
      BY <3>1 DEF TypeOfParts
    <3>2. CASE agents' = [agents EXCEPT ![Peer(t.node)][t.id] = Applied(t.op, @, t.agent)]
      <4>1. agents[Peer(t.node)][t.id] \in SUBSET Agents
        BY <2>1 DEF TypeOfParts
      <4> QED
        BY <2>1, <2>3, <3>2, <4>1 DEF TypeOfParts
    <3> QED
      BY <1>5, <3>1, <3>2 DEF ForwardChange
  <2> QED
    BY <1>5, <2>4 DEF ForwardChange, TypeOfParts
<1>6. ASSUME NEW r \in Requests, NEW n \in Nodes, NEW a \in Agents, Login(r, n, a)
      PROVE  TypeOfParts'
  <2>1. request' \in [Requests -> RequestType]
    BY <1>6, BeginTyped, RequestTyped DEF Login
  <2> QED
    BY <1>6, <2>1 DEF Login, TypeOfParts
<1>7. ASSUME NEW r \in Requests, CreateSession(r) PROVE TypeOfParts'
  <2> DEFINE n == request[r].node  a == request[r].agent
  <2>1. n \in Nodes /\ a \in Agents
    BY <1>7, ActiveTyped DEF CreateSession, ActiveRecord
  <2>2. Task("create", r, n, a, None) \in TaskType
    BY <2>1 DEF Task, TaskType, TaskRecord
  <2>3. /\ agents' = [agents EXCEPT ![n][a] = {a}]
        /\ tasks' = tasks \cup {Task("create", r, n, a, None)}
        /\ raced' = raced \/ raced' = raced \cup {a}
        /\ request' = [request EXCEPT ![r] = Over]
        /\ UNCHANGED <<stored, view, sweeping, aged, loggedIn, blind, uneven>>
    BY <1>7 DEF CreateSession, End
  <2> HIDE DEF n, a
  <2>4. agents' \in [Nodes -> [Agents -> SUBSET Agents]]
    BY <2>1, <2>3 DEF TypeOfParts
  <2>5. tasks' \subseteq TaskType /\ raced' \subseteq Agents
    BY <2>1, <2>2, <2>3 DEF TypeOfParts
  <2>6. request' \in [Requests -> RequestType]
    BY <1>0, <2>3, RequestTyped
  <2> QED
    BY <2>3, <2>4, <2>5, <2>6 DEF TypeOfParts
<1>8. ASSUME NEW x \in Agents, Age(x) PROVE TypeOfParts'
  BY <1>8 DEF Age, TypeOfParts
<1>9. ASSUME NEW n \in Nodes, Sweep(n) PROVE TypeOfParts'
  <2>1. PICK x \in Sweepable(n) :
          /\ stored' = [stored EXCEPT ![n] = @ \ {x}]
          /\ sweeping' = [sweeping EXCEPT ![n] = x]
          /\ raced' = raced \cup (Creating \cap {x})
    BY <1>9 DEF Sweep
  <2>2. x \in Agents
    BY <2>1 DEF Sweepable, TypeOfParts
  <2>3. UNCHANGED <<view, agents, tasks, request, aged, loggedIn, blind, uneven>>
    BY <1>9 DEF Sweep
  <2>4. stored' \in [Nodes -> SUBSET Agents] /\ sweeping' \in [Nodes -> Agents \cup {None}]
    BY <2>1, <2>2 DEF TypeOfParts
  <2>5. raced' \subseteq Agents
    BY <2>1, CreatingTyped DEF TypeOfParts
  <2> QED
    BY <2>3, <2>4, <2>5 DEF TypeOfParts
<1>10. ASSUME NEW n \in Nodes, SweepIndex(n) PROVE TypeOfParts'
  BY <1>10 DEF SweepIndex, TypeOfParts
<1>11. CASE UNCHANGED vars
  BY <1>11 DEF vars, TypeOfParts
<1>12. CASE Next
  <2>1. Step
    BY <1>12, NextIsStep
  <2>2. ASSUME NEW t \in tasks, TaskStep(t) PROVE TypeOfParts'
    BY <1>1, <1>2, <1>3, <1>4, <1>5, <2>2 DEF TaskStep
  <2>3. ASSUME NEW r \in Requests, Quiet(r) PROVE TypeOfParts'
    BY <2>3, QuietType
  <2> QED
    BY <1>6, <1>7, <1>8, <1>9, <1>10, <2>1, <2>2, <2>3 DEF Step
<1> QED
  BY <1>11, <1>12

\* The types of the state, in every state of the service page and of its servers.
THEOREM TypeCorrect == Spec => []TypeOK
<1>1. Spec => []TypeOfParts
  BY SsoAssumption, TypeInit, TypeStep, PTL DEF Spec
<1> QED
  BY <1>1, Parts, PTL

-----------------------------------------------------------------------------
(* The invariants *)

\* An agent session x has not logged in, or its login has yet to make a session.
New(x) ==
  x \notin loggedIn \/ \E r \in Requests : request[r].at = "create" /\ request[r].agent = x

\* A session has its name from one login, and nobody knows the name before.
NewInv ==
  /\ \A x \in Agents : New(x) => ~Known(x)
  /\ \A x \in Agents, r, q \in Requests :
       /\ request[r].at = "create" /\ request[r].agent = x
       /\ request[q].at = "create" /\ request[q].agent = x
       => r = q
  /\ \A r \in Requests : request[r].at = "create" => request[r].agent \in loggedIn

Creates(t, x) == t.op = "create" /\ t.id = x
Removes(t, x) == t.op = "clear" \/ (t.op = "expire" /\ t.id = x)

\* Task t is done with the repository of server n, and not with that of its peer.
Half(t, n) ==
  \/ t.cluster /\ t.node = n /\ t.at \in {"index", "send"}
  \/ ~t.cluster /\ t.node = Peer(n) /\ t.at = "run"

\* Task t is to change the index of server n.
Indexes(t, n) == t.node = n /\ t.at = "index"

\* Task t has changed the repository of some server.
Began(t) == t.at # "run" \/ ~t.cluster

\* What is being created is not being removed, or it is in raced.
Separate ==
  \A x \in Agents \ raced : \A t \in tasks : Creates(t, x) =>
    /\ \A u \in tasks : Removes(u, x) => ~Began(u)
    /\ \A n \in Nodes : sweeping[n] # x

\* What a task has done to a repository stands.
Stands ==
  \A x \in Agents \ raced, n \in Nodes :
    /\ \A t \in tasks : Creates(t, x) /\ (Half(t, n) \/ Indexes(t, n)) => x \in stored[n]
    /\ \A t \in tasks : Removes(t, x) /\ (Half(t, n) \/ Indexes(t, n)) => x \notin stored[n]
    /\ sweeping[n] = x => x \notin stored[n]

\* If only one server has a session a task will tell the other.
Told ==
  \A x \in Agents \ (raced \cup aged), n \in Nodes :
    x \in stored[n] /\ x \notin stored[Peer(n)] =>
      \E t \in tasks : \/ Creates(t, x) /\ Half(t, n)
                       \/ Removes(t, x) /\ Half(t, Peer(n))

\* If the index is not what the repository is, it will be.
Shown ==
  \A x \in Agents \ raced, n \in Nodes :
    (x \in view[n] <=> x \in stored[n])
      \/ sweeping[n] = x
      \/ \E t \in tasks : Indexes(t, n) /\ (Creates(t, x) \/ Removes(t, x))

Inv == NewInv /\ Separate /\ Stands /\ Told /\ Shown

LEMMA InvInit == SsoAssumption /\ Init => Inv
<1> SUFFICES ASSUME SsoAssumption, Init PROVE Inv
  OBVIOUS
<1>1. /\ tasks = {} /\ \A n \in Nodes : stored[n] = {} /\ view[n] = {} /\ sweeping[n] = None
      /\ \A r \in Requests : request[r].at = "idle"
  BY DEF Init, Idle
<1>2. NewInv
  BY <1>1 DEF NewInv, New, Known, Active, SsoAssumption
<1>3. Separate
  BY <1>1 DEF Separate
<1>4. Stands
  BY <1>1 DEF Stands, SsoAssumption
<1>5. Told
  BY <1>1, PeerFacts DEF Told
<1>6. Shown
  BY <1>1 DEF Shown
<1> QED
  BY <1>2, <1>3, <1>4, <1>5, <1>6 DEF Inv

\* A step after which no more names are known, and no more agents are new.
LEMMA NewKept ==
  ASSUME TypeOfParts, NewInv,
         \A x \in Agents : Known(x)' => Known(x),
         loggedIn' = loggedIn,
         \A r \in Requests : request'[r].at = "create" => request'[r] = request[r]
  PROVE  NewInv'
<1>1. ASSUME NEW x \in Agents, New(x)' PROVE New(x)
  BY <1>1 DEF New
<1> QED
  BY <1>1 DEF NewInv

\* An index or a repository that is behind, with more tasks than before.
LEMMA MoreTasks ==
  ASSUME tasks \subseteq tasks', aged \subseteq aged', raced \subseteq raced',
         UNCHANGED <<stored, view, sweeping>>
  PROVE  (Told => Told') /\ (Shown => Shown')
  BY DEF Told, Shown

LEMMA QuietInv ==
  ASSUME SsoAssumption, TypeOfParts, TypeOfParts', Inv, NEW r \in Requests, Quiet(r)
  PROVE  Inv'
<1>1. PICK q : KnownRequest(q) /\ request' = [request EXCEPT ![r] = q]
  BY DEF Quiet
<1>2. PICK new : (\A t \in new : KnownTask(t)) /\ tasks' = tasks \cup new
  BY DEF Quiet
<1>3. UNCHANGED <<stored, view, sweeping, aged, loggedIn, raced>>
  BY DEF Quiet
<1>4. request'[r] = q /\ \A p \in Requests : p # r => request'[p] = request[p]
  BY <1>1 DEF TypeOfParts
<1>5. NewInv'
  <2>1. ASSUME NEW x \in Agents, Known(x)' PROVE Known(x)
    <3>1. CASE \E n \in Nodes : x \in stored'[n] \/ x \in view'[n] \/ sweeping'[n] = x
      BY <1>3, <3>1 DEF Known
    <3>2. CASE \E t \in tasks' : t.id = x
      BY <1>2, <3>2 DEF Known, KnownTask
    <3>3. CASE \E p \in Requests : Active(p)' /\ (x \in request'[p].list \/ request'[p].id = x
                                                  \/ request'[p].last = x)
      <4>1. PICK p \in Requests : Active(p)' /\ (x \in request'[p].list \/ request'[p].id = x
                                                  \/ request'[p].last = x)
        BY <3>3
      <4>2. CASE p # r
        BY <1>4, <4>1, <4>2 DEF Active, Known
      <4>3. CASE p = r
        <5>1. q # Over
          BY <1>4, <4>1, <4>3 DEF Active, Over
        <5> QED
          BY <1>1, <1>4, <4>1, <4>3, <5>1 DEF KnownRequest
      <4> QED
        BY <4>2, <4>3
    <3> QED
      BY <2>1, <3>1, <3>2, <3>3 DEF Known
  <2>2. q.at # "create"
    BY <1>1 DEF KnownRequest, Over
  <2>3. NewInv
    BY DEF Inv
  <2> QED
    BY <1>3, <1>4, <2>1, <2>2, <2>3, NewKept
<1>6. \A t \in new : /\ ~Indexes(t, t.node)
                     /\ \A x \in Agents : /\ ~Creates(t, x)
                                          /\ Removes(t, x) => t.at = "run" /\ t.cluster
  BY <1>2 DEF KnownTask, Indexes, Creates, Removes, TaskType
<1>7. ASSUME NEW t \in new, NEW x \in Agents, Removes(t, x)
      PROVE  ~Began(t) /\ \A n \in Nodes : ~Half(t, n) /\ ~Indexes(t, n)
  BY <1>6, <1>7 DEF Began, Half, Indexes
<1>8. Separate'
  BY <1>2, <1>3, <1>6, <1>7 DEF Inv, Separate
<1>9. Stands'
  BY <1>2, <1>3, <1>6, <1>7 DEF Inv, Stands
<1>10. Told' /\ Shown'
  BY <1>2, <1>3, MoreTasks DEF Inv
<1> QED
  BY <1>5, <1>8, <1>9, <1>10 DEF Inv

LEMMA LoginInv ==
  ASSUME SsoAssumption, TypeOfParts, TypeOfParts', Inv,
         NEW r \in Requests, NEW n \in Nodes, NEW a \in Agents, Login(r, n, a)
  PROVE  Inv'
<1>1. PICK q \in RequestType :
        /\ request' = [request EXCEPT ![r] = q]
        /\ \/ q = Over
           \/ /\ q \in ActiveType /\ q.list = view[n] /\ q.id = None /\ q.last = None
              /\ q.agent = a /\ q.at \in {"create", "next"}
  BY BeginTyped DEF Login
<1>2. /\ UNCHANGED <<stored, view, tasks, sweeping, aged, raced>>
      /\ a \notin loggedIn /\ loggedIn' = loggedIn \cup {a}
  BY DEF Login
<1>3. request'[r] = q /\ \A p \in Requests : p # r => request'[p] = request[p]
  BY <1>1 DEF TypeOfParts
<1>4. ASSUME NEW x \in Agents, Known(x)' PROVE Known(x)
  <2>1. CASE \E m \in Nodes : x \in stored'[m] \/ x \in view'[m] \/ sweeping'[m] = x
    BY <1>2, <2>1 DEF Known
  <2>2. CASE \E t \in tasks' : t.id = x
    BY <1>2, <2>2 DEF Known
  <2>3. ASSUME NEW p \in Requests, p # r, Active(p)',
               x \in request'[p].list \/ request'[p].id = x \/ request'[p].last = x
        PROVE  Known(x)
    BY <1>3, <2>3 DEF Active, Known
  <2>4. ASSUME Active(r)', x \in request'[r].list \/ request'[r].id = x \/ request'[r].last = x
        PROVE  Known(x)
    <3>1. x \in view[n]
      BY <1>1, <1>3, <2>4 DEF Active, Over, SsoAssumption
    <3> QED
      BY <3>1 DEF Known
  <2> QED
    BY <1>4, <2>1, <2>2, <2>3, <2>4 DEF Known
<1>5. \A p \in Requests : request[p].at = "create" => request[p].agent \in loggedIn
  BY DEF Inv, NewInv
<1>6. ASSUME NEW x \in Agents, New(x)' PROVE New(x)
  <2>1. CASE x \notin loggedIn
    BY <2>1 DEF New
  <2>2. CASE x \in loggedIn
    <3>1. PICK p \in Requests : request'[p].at = "create" /\ request'[p].agent = x
      BY <1>2, <1>6, <2>2 DEF New
    <3>2. p # r
      BY <1>1, <1>2, <1>3, <2>2, <3>1 DEF Over
    <3> QED
      BY <1>3, <3>1, <3>2 DEF New
  <2> QED
    BY <2>1, <2>2
<1>7. q.at = "create" => q.agent = a
  BY <1>1 DEF Over
<1>8. NewInv'
  <2>1. \A x \in Agents : New(x)' => ~Known(x)'
    BY <1>4, <1>6 DEF Inv, NewInv
  <2>2. ASSUME NEW x \in Agents, NEW p \in Requests, NEW s \in Requests,
               request'[p].at = "create", request'[p].agent = x,
               request'[s].at = "create", request'[s].agent = x
        PROVE  p = s
    <3>1. CASE p # r /\ s # r
      BY <1>3, <2>2, <3>1 DEF Inv, NewInv
    <3>2. CASE p = r /\ s # r
      BY <1>2, <1>3, <1>5, <1>7, <2>2, <3>2
    <3>3. CASE p # r /\ s = r
      BY <1>2, <1>3, <1>5, <1>7, <2>2, <3>3
    <3> QED
      BY <3>1, <3>2, <3>3
  <2>3. \A p \in Requests : request'[p].at = "create" => request'[p].agent \in loggedIn'
    BY <1>2, <1>3, <1>5, <1>7
  <2> QED
    BY <2>1, <2>2, <2>3 DEF NewInv
<1>9. (Separate /\ Stands)'
  BY <1>2 DEF Inv, Separate, Stands
<1>10. Told' /\ Shown'
  BY <1>2, MoreTasks DEF Inv
<1> QED
  BY <1>8, <1>9, <1>10 DEF Inv

LEMMA CreateSessionInv ==
  ASSUME SsoAssumption, TypeOfParts, TypeOfParts', Inv, NEW r \in Requests, CreateSession(r)
  PROVE  Inv'
<1> DEFINE n == request[r].node  a == request[r].agent
           t == Task("create", r, n, a, None)
<1>1. n \in Nodes /\ a \in Agents
  BY ActiveTyped DEF CreateSession, ActiveRecord
<1>2. /\ request[r].at = "create" /\ request' = [request EXCEPT ![r] = Over]
      /\ tasks' = tasks \cup {t}
      /\ raced' = raced \/ raced' = raced \cup {a}
      /\ (\E u \in tasks : u.op = "clear") => a \in raced'
      /\ UNCHANGED <<stored, view, sweeping, aged, loggedIn>>
  BY DEF CreateSession, End
<1>3. t.op = "create" /\ t.id = a /\ t.at = "run" /\ t.cluster
  BY DEF Task
<1>4. ~Known(a)
  BY <1>1, <1>2 DEF Inv, NewInv, New
<1>5. /\ \A u \in tasks : u.id # a
      /\ \A m \in Nodes : a \notin stored[m] /\ a \notin view[m] /\ sweeping[m] # a
  BY <1>4 DEF Known
<1> HIDE DEF n, a, t
<1>6. request'[r] = Over /\ \A p \in Requests : p # r => request'[p] = request[p]
  BY <1>2 DEF TypeOfParts
<1>7. NewInv'
  <2>1. ASSUME NEW x \in Agents, New(x)' PROVE New(x) /\ x # a
    <3>1. a \in loggedIn
      BY <1>1, <1>2 DEF Inv, NewInv, a
    <3>2. CASE x \notin loggedIn
      BY <3>1, <3>2 DEF New
    <3>3. CASE x \in loggedIn
      <4>1. PICK p \in Requests : request'[p].at = "create" /\ request'[p].agent = x
        BY <1>2, <2>1, <3>3 DEF New
      <4>2. p # r
        BY <1>6, <4>1 DEF Over
      <4>3. request[p].at = "create" /\ request[p].agent = x
        BY <1>6, <4>1, <4>2
      <4>4. x # a
        BY <1>1, <1>2, <4>2, <4>3 DEF Inv, NewInv, a
      <4> QED
        BY <4>3, <4>4 DEF New
    <3> QED
      BY <3>2, <3>3
  <2>2. ASSUME NEW x \in Agents, Known(x)', x # a PROVE Known(x)
    <3>1. CASE \E m \in Nodes : x \in stored'[m] \/ x \in view'[m] \/ sweeping'[m] = x
      BY <1>2, <3>1 DEF Known
    <3>2. CASE \E u \in tasks' : u.id = x
      BY <1>2, <1>3, <2>2, <3>2 DEF Known
    <3>3. ASSUME NEW p \in Requests, Active(p)',
                 x \in request'[p].list \/ request'[p].id = x \/ request'[p].last = x
          PROVE  Known(x)
      BY <1>6, <3>3 DEF Active, Over, Known
    <3> QED
      BY <2>2, <3>1, <3>2, <3>3 DEF Known
  <2>3. \A x \in Agents : New(x)' => ~Known(x)'
    BY <2>1, <2>2 DEF Inv, NewInv
  <2>4. \A p \in Requests : request'[p].at = "create" => request'[p] = request[p]
    BY <1>6 DEF Over
  <2> QED
    BY <1>2, <2>3, <2>4 DEF Inv, NewInv
<1>8. Separate'
  <2> SUFFICES ASSUME NEW x \in Agents \ raced', NEW u \in tasks', Creates(u, x)
               PROVE  /\ \A v \in tasks' : Removes(v, x) => ~Began(v)
                      /\ \A m \in Nodes : sweeping'[m] # x
    BY DEF Separate, Creates, Removes, Began
  <2>1. ~Removes(t, x)
    BY <1>3 DEF Removes
  <2>2. CASE u = t
    <3>1. x = a
      BY <1>3, <2>2 DEF Creates
    <3>2. \A v \in tasks : ~Removes(v, x)
      BY <1>2, <1>5, <3>1 DEF Removes
    <3> QED
      BY <1>2, <1>5, <2>1, <3>1, <3>2
  <2>3. CASE u \in tasks
    BY <1>2, <2>1, <2>3 DEF Inv, Separate
  <2> QED
    BY <1>2, <2>2, <2>3
<1>9. Stands'
  <2>1. \A m : ~Half(t, m) /\ ~Indexes(t, m)
    BY <1>3 DEF Half, Indexes
  <2> QED
    BY <1>2, <2>1 DEF Inv, Stands
<1>10. Told' /\ Shown'
  BY <1>2, MoreTasks DEF Inv
<1> QED
  BY <1>7, <1>8, <1>9, <1>10 DEF Inv

\* After a step of an executor task or of the sweeper, which makes no request.
LEMMA NamesKept ==
  ASSUME Inv, TypeOfParts, UNCHANGED <<request, loggedIn>>,
         \A u \in tasks' : u.id \in Agents => Known(u.id),
         \A n \in Nodes, x \in Agents :
           x \in stored'[n] \/ x \in view'[n] \/ sweeping'[n] = x => Known(x)
  PROVE  NewInv'
<1>1. ASSUME NEW x \in Agents, Known(x)' PROVE Known(x)
  <2>1. CASE \E n \in Nodes : x \in stored'[n] \/ x \in view'[n] \/ sweeping'[n] = x
    BY <2>1
  <2>2. CASE \E u \in tasks' : u.id = x
    BY <2>2
  <2>3. ASSUME NEW r \in Requests, Active(r)',
               x \in request'[r].list \/ request'[r].id = x \/ request'[r].last = x
        PROVE  Known(x)
    BY <2>3 DEF Active, Known
  <2> QED
    BY <1>1, <2>1, <2>2, <2>3 DEF Known
<1> QED
  BY <1>1, NewKept DEF Inv

LEMMA MovedFacts ==
  ASSUME TypeOfParts, NEW t \in tasks, NEW where \in {"index", "send"}
  PROVE  LET u == [t EXCEPT !.at = where]
         IN  /\ Moved(t, where) = (tasks \ {t}) \cup {u} /\ u.at = where
             /\ u.op = t.op /\ u.id = t.id /\ u.node = t.node /\ u.cluster = t.cluster
             /\ \A x : Creates(u, x) <=> Creates(t, x)
             /\ \A x : Removes(u, x) <=> Removes(t, x)
<1>1. t \in TaskRecord
  BY DEF TypeOfParts, TaskType
<1> QED
  BY <1>1 DEF Moved, TaskRecord, Creates, Removes

LEMMA RunCreateInv ==
  ASSUME SsoAssumption, TypeOfParts, TypeOfParts', Inv, NEW t \in tasks, RunCreate(t)
  PROVE  Inv'
<1> DEFINE x == t.id  m == t.node  u == [t EXCEPT !.at = "index"]
<1>1. m \in Nodes /\ x \in Agents /\ t.cluster \in BOOLEAN
  BY DEF RunCreate, TypeOfParts, TaskType, TaskRecord
<1>2. Peer(m) \in Nodes /\ Peer(m) # m /\ Peer(Peer(m)) = m /\ \A n \in Nodes : n = m \/ n = Peer(m)
  BY <1>1, PeerFacts
<1>3. /\ t.at = "run" /\ t.op = "create"
      /\ stored' = [stored EXCEPT ![m] = @ \cup {x}]
      /\ UNCHANGED <<view, request, sweeping, aged, loggedIn, raced>>
  BY DEF RunCreate, history
<1>4. /\ tasks' = (tasks \ {t}) \cup {u} /\ u.at = "index"
      /\ u.op = "create" /\ u.id = x /\ u.node = m /\ u.cluster = t.cluster
  BY MovedFacts DEF RunCreate
<1>5. /\ stored'[m] = stored[m] \cup {x}
      /\ \A n \in Nodes : n # m => stored'[n] = stored[n]
  BY <1>1, <1>3 DEF TypeOfParts
<1> HIDE DEF x, m, u
<1>6. \A y : ~Removes(u, y) /\ ~Removes(t, y) /\ (Creates(u, y) => y = x) /\ (Creates(t, y) => y = x)
  BY <1>3, <1>4 DEF Removes, Creates, x
<1>7. Creates(t, x) /\ Creates(u, x)
  BY <1>3, <1>4 DEF Creates, x
<1>8. Known(x)
  BY DEF Known, x
<1>9. NewInv'
  <2>1. \A v \in tasks' : v.id \in Agents => Known(v.id)
    BY <1>4, <1>8 DEF Known
  <2>2. ASSUME NEW n \in Nodes, NEW y \in Agents,
               y \in stored'[n] \/ y \in view'[n] \/ sweeping'[n] = y
        PROVE  Known(y)
    BY <1>3, <1>5, <1>8, <2>2 DEF Known
  <2> QED
    BY <1>3, <2>1, <2>2, NamesKept
<1>10. Separate'
  BY <1>3, <1>4, <1>6, <1>7 DEF Inv, Separate
<1>11. \A v \in tasks : \A n \in Nodes : Half(v, n) \/ Indexes(v, n) => Began(v)
  BY DEF Half, Indexes, Began
<1>12. Stands'
  <2> SUFFICES ASSUME NEW y \in Agents \ raced', NEW n \in Nodes
               PROVE  /\ \A v \in tasks' : Creates(v, y) /\ (Half(v, n) \/ Indexes(v, n))
                           => y \in stored'[n]
                      /\ \A v \in tasks' : Removes(v, y) /\ (Half(v, n) \/ Indexes(v, n))
                           => y \notin stored'[n]
                      /\ sweeping'[n] = y => y \notin stored'[n]
    BY DEF Stands, Creates, Removes, Half, Indexes
  <2>1. ASSUME NEW v \in tasks', Creates(v, y), Half(v, n) \/ Indexes(v, n)
        PROVE  y \in stored'[n]
    <3>1. CASE v = u
      <4>1. n = m
        BY <1>4, <2>1, <3>1 DEF Half, Indexes
      <4> QED
        BY <1>5, <1>6, <2>1, <3>1, <4>1
    <3>2. CASE v \in tasks
      <4>1. y \in stored[n]
        BY <1>3, <2>1, <3>2 DEF Inv, Stands
      <4> QED
        BY <1>5, <4>1
    <3> QED
      BY <1>4, <3>1, <3>2
  <2>2. ASSUME NEW v \in tasks', Removes(v, y), Half(v, n) \/ Indexes(v, n)
        PROVE  y \notin stored'[n]
    <3>1. v \in tasks
      BY <1>4, <1>6, <2>2
    <3>2. y \notin stored[n]
      BY <1>3, <2>2, <3>1 DEF Inv, Stands
    <3>3. y # x
      BY <1>3, <1>7, <1>11, <2>2, <3>1 DEF Inv, Separate
    <3> QED
      BY <1>5, <3>2, <3>3
  <2>3. ASSUME sweeping'[n] = y PROVE y \notin stored'[n]
    <3>1. y \notin stored[n] /\ y # x
      BY <1>3, <1>7, <2>3 DEF Inv, Stands, Separate
    <3> QED
      BY <1>5, <3>1
  <2> QED
    BY <2>1, <2>2, <2>3
<1>13. Told'
  <2> SUFFICES ASSUME NEW y \in Agents \ (raced' \cup aged'), NEW n \in Nodes,
                      y \in stored'[n], y \notin stored'[Peer(n)]
               PROVE  \E v \in tasks' : \/ Creates(v, y) /\ Half(v, n)
                                        \/ Removes(v, y) /\ Half(v, Peer(n))
    BY DEF Told, Creates, Removes, Half
  <2>0. Peer(n) \in Nodes
    BY PeerFacts
  <2>1. CASE y # x
    <3>1. PICK v \in tasks : \/ Creates(v, y) /\ Half(v, n)
                             \/ Removes(v, y) /\ Half(v, Peer(n))
      BY <1>3, <1>5, <2>0, <2>1 DEF Inv, Told
    <3> QED
      BY <1>4, <1>6, <2>1, <3>1
  <2>2. CASE y = x
    <3>1. n = m
      BY <1>2, <1>5, <2>2
    <3>2. CASE t.cluster
      BY <1>4, <1>7, <2>2, <3>1, <3>2 DEF Half
    <3>3. CASE ~t.cluster
      <4>1. Half(t, Peer(m))
        BY <1>2, <1>3, <3>3 DEF Half, m
      <4>2. x \in stored[Peer(m)]
        BY <1>2, <1>3, <1>7, <2>2, <4>1 DEF Inv, Stands
      <4> QED
        BY <1>2, <1>5, <2>2, <3>1, <4>2
    <3> QED
      BY <3>2, <3>3
  <2> QED
    BY <2>1, <2>2
<1>14. Shown'
  <2> SUFFICES ASSUME NEW y \in Agents \ raced', NEW n \in Nodes
               PROVE  \/ (y \in view'[n] <=> y \in stored'[n])
                      \/ sweeping'[n] = y
                      \/ \E v \in tasks' : Indexes(v, n) /\ (Creates(v, y) \/ Removes(v, y))
    BY DEF Shown, Creates, Removes, Indexes
  <2>1. CASE y = x /\ n = m
    BY <1>4, <1>7, <2>1 DEF Indexes
  <2>2. CASE ~(y = x /\ n = m)
    <3>1. y \in stored'[n] <=> y \in stored[n]
      BY <1>5, <2>2
    <3>2. ~Indexes(t, n)
      BY <1>3 DEF Indexes
    <3> QED
      BY <1>3, <1>4, <3>1, <3>2 DEF Inv, Shown
  <2> QED
    BY <2>1, <2>2
<1> QED
  BY <1>9, <1>10, <1>12, <1>13, <1>14 DEF Inv

\* The session of a create task is being created.
LEMMA CreatesCreating ==
  ASSUME NEW v \in tasks, NEW y, Creates(v, y)
  PROVE  y \in Creating
  BY DEF Creates, Creating

LEMMA RemovalInv ==
  ASSUME SsoAssumption, TypeOfParts, TypeOfParts', Inv, NEW t \in tasks,
         RunExpire(t) \/ RunClear(t)
  PROVE  Inv'
<1> DEFINE m == t.node  u == [t EXCEPT !.at = "index"]  w == [t EXCEPT !.at = "send"]
<1>1. m \in Nodes /\ t.cluster \in BOOLEAN
  BY DEF TypeOfParts, TaskType, TaskRecord
<1>2. Peer(m) \in Nodes /\ Peer(m) # m /\ Peer(Peer(m)) = m /\ \A n \in Nodes : n = m \/ n = Peer(m)
  BY <1>1, PeerFacts
<1>3. /\ t.at = "run" /\ t.op \in {"expire", "clear"}
      /\ UNCHANGED <<view, request, sweeping, aged, loggedIn>>
  BY DEF RunExpire, RunClear, history
<1>4. /\ \A n \in Nodes : n # m => stored'[n] = stored[n]
      /\ \A y \in Agents : y \in stored'[m] <=> y \in stored[m] /\ ~Removes(t, y)
      /\ \A y \in Agents : y \in raced' <=> y \in raced \/ (y \in Creating /\ Removes(t, y))
  <2>1. CASE RunExpire(t)
    BY <1>1, <2>1 DEF RunExpire, Removes, TypeOfParts
  <2>2. CASE RunClear(t)
    BY <1>1, <2>2 DEF RunClear, Removes, TypeOfParts
  <2> QED
    BY <2>1, <2>2
<1>5. /\ u.at = "index" /\ u.op = t.op /\ u.id = t.id /\ u.node = m /\ u.cluster = t.cluster
      /\ w.at = "send" /\ w.op = t.op /\ w.id = t.id /\ w.node = m /\ w.cluster = t.cluster
      /\ \A y : (Removes(u, y) <=> Removes(t, y)) /\ (Removes(w, y) <=> Removes(t, y))
  BY MovedFacts
<1>6. \/ tasks' = (tasks \ {t}) \cup {u}
      \/ /\ t.op = "expire" /\ t.id \notin stored[m]
         /\ \/ t.cluster /\ tasks' = (tasks \ {t}) \cup {w}
            \/ ~t.cluster /\ tasks' = tasks \ {t}
  BY DEF RunExpire, RunClear, After, Moved
<1> HIDE DEF m, u, w
<1>7. /\ tasks' \subseteq (tasks \ {t}) \cup {u, w}
      /\ tasks \ {t} \subseteq tasks'
      /\ t.cluster => u \in tasks' \/ w \in tasks'
      /\ u \in tasks' \/ (t.op = "expire" /\ t.id \notin stored[m])
  BY <1>6
<1>8. \A y : ~Creates(u, y) /\ ~Creates(w, y) /\ ~Creates(t, y)
  BY <1>3, <1>5 DEF Creates
<1>9. raced \subseteq raced'
  BY <1>4 DEF TypeOfParts
<1>10. NewInv'
  <2>1. \A v \in tasks' : v.id \in Agents => Known(v.id)
    BY <1>5, <1>7 DEF Known
  <2>2. ASSUME NEW n \in Nodes, NEW y \in Agents,
               y \in stored'[n] \/ y \in view'[n] \/ sweeping'[n] = y
        PROVE  Known(y)
    BY <1>3, <1>4, <2>2 DEF Known
  <2> QED
    BY <1>3, <2>1, <2>2, NamesKept
\* Sessions that are being created are not removed by t, unless they are in raced'.
<1>11. ASSUME NEW v \in tasks', NEW y \in Agents \ raced', Creates(v, y)
       PROVE  v \in tasks \ {t} /\ ~Removes(t, y)
  <2>1. v \in tasks \ {t}
    BY <1>7, <1>8, <1>11
  <2>2. y \in Creating
    BY <1>11, <2>1, CreatesCreating
  <2> QED
    BY <1>4, <2>1, <2>2
<1>12. Separate'
  <2> SUFFICES ASSUME NEW y \in Agents \ raced', NEW v \in tasks', Creates(v, y)
               PROVE  /\ \A s \in tasks' : Removes(s, y) => ~Began(s)
                      /\ \A n \in Nodes : sweeping'[n] # y
    BY DEF Separate, Creates, Removes, Began
  <2>1. v \in tasks /\ ~Removes(u, y) /\ ~Removes(w, y)
    BY <1>5, <1>11
  <2> QED
    BY <1>3, <1>7, <1>9, <2>1 DEF Inv, Separate
<1>13. Stands'
  <2> SUFFICES ASSUME NEW y \in Agents \ raced', NEW n \in Nodes
               PROVE  /\ \A v \in tasks' : Creates(v, y) /\ (Half(v, n) \/ Indexes(v, n))
                           => y \in stored'[n]
                      /\ \A v \in tasks' : Removes(v, y) /\ (Half(v, n) \/ Indexes(v, n))
                           => y \notin stored'[n]
                      /\ sweeping'[n] = y => y \notin stored'[n]
    BY DEF Stands, Creates, Removes, Half, Indexes
  <2>1. ASSUME NEW v \in tasks', Creates(v, y), Half(v, n) \/ Indexes(v, n)
        PROVE  y \in stored'[n]
    <3>1. v \in tasks /\ ~Removes(t, y)
      BY <1>11, <2>1
    <3>2. y \in stored[n]
      BY <1>9, <2>1, <3>1 DEF Inv, Stands
    <3> QED
      BY <1>4, <3>1, <3>2
  <2>2. ASSUME NEW v \in tasks', Removes(v, y), Half(v, n) \/ Indexes(v, n)
        PROVE  y \notin stored'[n]
    <3>1. CASE v \in tasks
      <4>1. y \notin stored[n]
        BY <1>9, <2>2, <3>1 DEF Inv, Stands
      <4> QED
        BY <1>4, <4>1
    <3>2. CASE v = u \/ v = w
      <4>1. n = m
        BY <1>5, <2>2, <3>2 DEF Half, Indexes
      <4> QED
        BY <1>4, <1>5, <2>2, <3>2, <4>1
    <3> QED
      BY <1>7, <3>1, <3>2
  <2>3. ASSUME sweeping'[n] = y PROVE y \notin stored'[n]
    <3>1. y \notin stored[n]
      BY <1>3, <1>9, <2>3 DEF Inv, Stands
    <3> QED
      BY <1>4, <3>1
  <2> QED
    BY <2>1, <2>2, <2>3
<1>14. Told'
  <2> SUFFICES ASSUME NEW y \in Agents \ (raced' \cup aged'), NEW n \in Nodes,
                      y \in stored'[n], y \notin stored'[Peer(n)]
               PROVE  \E v \in tasks' : \/ Creates(v, y) /\ Half(v, n)
                                        \/ Removes(v, y) /\ Half(v, Peer(n))
    BY DEF Told, Creates, Removes, Half
  <2>0. Peer(n) \in Nodes /\ y \in stored[n] /\ y \notin raced
    BY <1>4, <1>9, PeerFacts
  <2>1. CASE ~Removes(t, y)
    <3>1. y \notin stored[Peer(n)]
      BY <1>4, <2>0, <2>1
    <3>2. PICK v \in tasks : \/ Creates(v, y) /\ Half(v, n)
                             \/ Removes(v, y) /\ Half(v, Peer(n))
      BY <1>3, <2>0, <3>1 DEF Inv, Told
    <3>3. v # t
      BY <1>8, <2>1, <3>2
    <3> QED
      BY <1>7, <3>2, <3>3
  <2>2. CASE Removes(t, y)
    <3>1. n = Peer(m) /\ Peer(n) = m
      BY <1>2, <1>4, <2>2
    <3>2. CASE t.cluster
      <4>1. Half(u, m) /\ Half(w, m) /\ Removes(u, y) /\ Removes(w, y)
        BY <1>5, <2>2, <3>2 DEF Half
      <4> QED
        BY <1>7, <3>1, <3>2, <4>1
    <3>3. CASE ~t.cluster
      <4>1. Half(t, n)
        BY <1>3, <3>1, <3>3 DEF Half, m
      <4> QED
        BY <2>0, <2>2, <4>1 DEF Inv, Stands
    <3> QED
      BY <3>2, <3>3
  <2> QED
    BY <2>1, <2>2
<1>15. Shown'
  <2> SUFFICES ASSUME NEW y \in Agents \ raced', NEW n \in Nodes
               PROVE  \/ (y \in view'[n] <=> y \in stored'[n])
                      \/ sweeping'[n] = y
                      \/ \E v \in tasks' : Indexes(v, n) /\ (Creates(v, y) \/ Removes(v, y))
    BY DEF Shown, Creates, Removes, Indexes
  <2>1. CASE n = m /\ Removes(t, y) /\ u \in tasks'
    BY <1>5, <2>1 DEF Indexes
  <2>2. CASE ~(n = m /\ Removes(t, y) /\ u \in tasks')
    <3>1. y \in stored'[n] <=> y \in stored[n]
      <4>1. CASE n = m /\ Removes(t, y)
        <5>1. t.op = "expire" /\ t.id = y /\ y \notin stored[m]
          BY <1>7, <2>2, <4>1 DEF Removes
        <5> QED
          BY <1>4, <4>1, <5>1
      <4>2. CASE ~(n = m /\ Removes(t, y))
        BY <1>4, <4>2
      <4> QED
        BY <4>1, <4>2
    <3>2. ~Indexes(t, n)
      BY <1>3 DEF Indexes
    <3> QED
      BY <1>3, <1>7, <1>9, <3>1, <3>2 DEF Inv, Shown
  <2> QED
    BY <2>1, <2>2
<1> QED
  BY <1>10, <1>12, <1>13, <1>14, <1>15 DEF Inv

LEMMA RunIndexInv ==
  ASSUME SsoAssumption, TypeOfParts, TypeOfParts', Inv, NEW t \in tasks, RunIndex(t)
  PROVE  Inv'
<1> DEFINE m == t.node  w == [t EXCEPT !.at = "send"]
<1>1. m \in Nodes /\ t.cluster \in BOOLEAN /\ t.op \in {"create", "expire", "clear"}
  BY DEF RunIndex, TypeOfParts, TaskType, TaskRecord
<1>2. /\ t.at = "index"
      /\ view' = [view EXCEPT ![m] = Indexed(t.op, @, t.id)]
      /\ UNCHANGED <<stored, request, sweeping, aged, loggedIn, raced>>
  BY DEF RunIndex, history
<1>3. /\ w.at = "send" /\ w.op = t.op /\ w.id = t.id /\ w.node = m /\ w.cluster = t.cluster
      /\ \A y : (Removes(w, y) <=> Removes(t, y)) /\ (Creates(w, y) <=> Creates(t, y))
  BY MovedFacts
<1>4. \/ t.cluster /\ tasks' = (tasks \ {t}) \cup {w}
      \/ ~t.cluster /\ tasks' = tasks \ {t}
  BY DEF RunIndex, After, Moved
<1>5. /\ \A n \in Nodes : n # m => view'[n] = view[n]
      /\ \A y \in Agents : Creates(t, y) => y \in view'[m]
      /\ \A y \in Agents : Removes(t, y) => y \notin view'[m]
      /\ \A y \in Agents : ~Creates(t, y) /\ ~Removes(t, y) => (y \in view'[m] <=> y \in view[m])
  BY <1>1, <1>2 DEF Indexed, Creates, Removes, TypeOfParts
<1> HIDE DEF m, w
<1>6. Began(t) /\ \A n : ~Indexes(w, n)
  BY <1>2, <1>3 DEF Began, Indexes
<1>7. \A n : (Half(w, n) <=> Half(t, n)) /\ (Half(t, n) => t.cluster)
  BY <1>2, <1>3 DEF Half, m
<1>8. NewInv'
  <2>1. \A v \in tasks' : v.id \in Agents => Known(v.id)
    BY <1>3, <1>4 DEF Known
  <2>2. ASSUME NEW n \in Nodes, NEW y \in Agents,
               y \in stored'[n] \/ y \in view'[n] \/ sweeping'[n] = y
        PROVE  Known(y)
    <3>1. CASE y \in view'[n] /\ y \notin view[n]
      <4>1. Creates(t, y)
        BY <1>5, <3>1
      <4> QED
        BY <4>1 DEF Creates, Known
    <3> QED
      BY <1>2, <2>2, <3>1 DEF Known
  <2> QED
    BY <1>2, <2>1, <2>2, NamesKept
<1>9. Separate'
  BY <1>2, <1>3, <1>4, <1>6 DEF Inv, Separate
<1>10. Stands'
  BY <1>2, <1>3, <1>4, <1>6, <1>7 DEF Inv, Stands
<1>11. Told'
  BY <1>2, <1>3, <1>4, <1>7 DEF Inv, Told
<1>12. Shown'
  <2> SUFFICES ASSUME NEW y \in Agents \ raced', NEW n \in Nodes
               PROVE  \/ (y \in view'[n] <=> y \in stored'[n])
                      \/ sweeping'[n] = y
                      \/ \E v \in tasks' : Indexes(v, n) /\ (Creates(v, y) \/ Removes(v, y))
    BY DEF Shown, Creates, Removes, Indexes
  <2>1. CASE n = m /\ (Creates(t, y) \/ Removes(t, y))
    <3>1. Indexes(t, n)
      BY <1>2, <2>1 DEF Indexes, m
    <3>2. /\ Creates(t, y) => y \in stored[n]
          /\ Removes(t, y) => y \notin stored[n]
      BY <1>2, <3>1 DEF Inv, Stands
    <3> QED
      BY <1>2, <1>5, <2>1, <3>2
  <2>2. CASE ~(n = m /\ (Creates(t, y) \/ Removes(t, y)))
    <3>1. y \in view'[n] <=> y \in view[n]
      BY <1>5, <2>2
    <3>2. ~(Indexes(t, n) /\ (Creates(t, y) \/ Removes(t, y)))
      BY <2>2 DEF Indexes, m
    <3> QED
      BY <1>2, <1>4, <3>1, <3>2 DEF Inv, Shown
  <2> QED
    BY <2>1, <2>2
<1> QED
  BY <1>8, <1>9, <1>10, <1>11, <1>12 DEF Inv

LEMMA ForwardInv ==
  ASSUME SsoAssumption, TypeOfParts, TypeOfParts', Inv, NEW t \in tasks, Forward(t)
  PROVE  Inv'
<1> DEFINE m == t.node
           as == IF t.op = "create" THEN agents[t.node][t.id] ELSE {}
           u == [t EXCEPT !.at = "run", !.node = Peer(t.node), !.cluster = FALSE, !.body = as]
<1>1. m \in Nodes /\ t.cluster /\ t.at = "send"
  BY DEF Forward, TypeOfParts, TaskType, TaskRecord
<1>2. Peer(m) \in Nodes /\ Peer(Peer(m)) = m
  BY <1>1, PeerFacts
<1>3. /\ tasks' = (tasks \ {t}) \cup {u}
      /\ UNCHANGED <<stored, view, request, sweeping, aged, loggedIn, raced>>
  BY DEF Forward, history
<1>4. u.at = "run" /\ u.op = t.op /\ u.id = t.id /\ u.node = Peer(m) /\ u.cluster = FALSE
  <2> HIDE DEF as
  <2>1. t \in TaskRecord
    BY DEF TypeOfParts, TaskType
  <2> QED
    BY <2>1 DEF TaskRecord
<1> HIDE DEF u
<1>5. /\ \A y : (Removes(u, y) <=> Removes(t, y)) /\ (Creates(u, y) <=> Creates(t, y))
      /\ Began(u) /\ Began(t)
      /\ \A n : ~Indexes(u, n) /\ ~Indexes(t, n)
  BY <1>1, <1>4 DEF Removes, Creates, Began, Indexes
<1>6. \A n \in Nodes : Half(u, n) <=> Half(t, n)
  <2> TAKE n \in Nodes
  <2>1. Half(u, n) <=> Peer(m) = Peer(n)
    BY <1>4 DEF Half
  <2>2. Half(t, n) <=> m = n
    BY <1>1 DEF Half
  <2>3. Peer(Peer(n)) = n
    BY PeerFacts
  <2> QED
    BY <1>2, <2>1, <2>2, <2>3
<1> HIDE DEF m
<1>7. NewInv'
  <2>1. \A v \in tasks' : v.id \in Agents => Known(v.id)
    BY <1>3, <1>4 DEF Known
  <2>2. \A n \in Nodes, y \in Agents :
          y \in stored'[n] \/ y \in view'[n] \/ sweeping'[n] = y => Known(y)
    BY <1>3 DEF Known
  <2> QED
    BY <1>3, <2>1, <2>2, NamesKept
<1>8. Separate'
  BY <1>3, <1>5 DEF Inv, Separate
<1>9. Stands'
  BY <1>3, <1>5, <1>6 DEF Inv, Stands
<1>10. Told'
  <2>1. \A n \in Nodes : Peer(n) \in Nodes
    BY PeerFacts
  <2> QED
    BY <1>3, <1>5, <1>6, <2>1 DEF Inv, Told
<1>11. Shown'
  BY <1>3, <1>5 DEF Inv, Shown
<1> QED
  BY <1>7, <1>8, <1>9, <1>10, <1>11 DEF Inv

LEMMA ForwardChangeInv ==
  ASSUME SsoAssumption, TypeOfParts, TypeOfParts', Inv, NEW t \in tasks, ForwardChange(t)
  PROVE  Inv'
<1>1. /\ t.op \in {"add", "remove"} /\ tasks' = tasks \ {t}
      /\ UNCHANGED <<stored, view, request, sweeping, aged, loggedIn, raced>>
  BY DEF ForwardChange, history
<1>2. \A y : ~Creates(t, y) /\ ~Removes(t, y)
  BY <1>1 DEF Creates, Removes
<1>3. NewInv'
  <2>1. \A v \in tasks' : v.id \in Agents => Known(v.id)
    BY <1>1 DEF Known
  <2>2. \A n \in Nodes, y \in Agents :
          y \in stored'[n] \/ y \in view'[n] \/ sweeping'[n] = y => Known(y)
    BY <1>1 DEF Known
  <2> QED
    BY <1>1, <2>1, <2>2, NamesKept
<1>4. (Separate /\ Stands)'
  BY <1>1 DEF Inv, Separate, Stands
<1>5. Told'
  BY <1>1, <1>2 DEF Inv, Told
<1>6. Shown'
  BY <1>1, <1>2 DEF Inv, Shown
<1> QED
  BY <1>3, <1>4, <1>5, <1>6 DEF Inv

LEMMA SweepInv ==
  ASSUME SsoAssumption, TypeOfParts, TypeOfParts', Inv, NEW m \in Nodes, Sweep(m)
  PROVE  Inv'
<1>1. PICK x \in Sweepable(m) :
        /\ stored' = [stored EXCEPT ![m] = @ \ {x}]
        /\ sweeping' = [sweeping EXCEPT ![m] = x]
        /\ raced' = raced \cup (Creating \cap {x})
  BY DEF Sweep
<1>2. x \in Agents /\ x \in stored[m] /\ x \in aged
  BY <1>1 DEF Sweepable, TypeOfParts
<1>3. sweeping[m] = None /\ UNCHANGED <<view, tasks, request, aged, loggedIn>>
  BY DEF Sweep
<1>4. /\ \A n \in Nodes : n # m => stored'[n] = stored[n] /\ sweeping'[n] = sweeping[n]
      /\ stored'[m] = stored[m] \ {x} /\ sweeping'[m] = x
  BY <1>1 DEF TypeOfParts
<1>5. raced \subseteq raced' /\ \A v \in tasks : Creates(v, x) => x \in raced'
  BY <1>1, CreatesCreating
<1>6. NewInv'
  <2>1. \A v \in tasks' : v.id \in Agents => Known(v.id)
    BY <1>3 DEF Known
  <2>2. ASSUME NEW n \in Nodes, NEW y \in Agents,
               y \in stored'[n] \/ y \in view'[n] \/ sweeping'[n] = y
        PROVE  Known(y)
    BY <1>2, <1>3, <1>4, <2>2 DEF Known
  <2> QED
    BY <1>3, <2>1, <2>2, NamesKept
<1>7. Separate'
  BY <1>3, <1>4, <1>5 DEF Inv, Separate
<1>8. Stands'
  <2> SUFFICES ASSUME NEW y \in Agents \ raced', NEW n \in Nodes
               PROVE  /\ \A v \in tasks : Creates(v, y) /\ (Half(v, n) \/ Indexes(v, n))
                           => y \in stored'[n]
                      /\ \A v \in tasks : Removes(v, y) /\ (Half(v, n) \/ Indexes(v, n))
                           => y \notin stored'[n]
                      /\ sweeping'[n] = y => y \notin stored'[n]
    BY <1>3 DEF Stands, Creates, Removes, Half, Indexes
  <2>1. y \notin raced
    BY <1>5
  <2> QED
    BY <1>2, <1>4, <1>5, <2>1 DEF Inv, Stands
<1>9. Told'
  <2> SUFFICES ASSUME NEW y \in Agents \ (raced' \cup aged'), NEW n \in Nodes,
                      y \in stored'[n], y \notin stored'[Peer(n)]
               PROVE  \E v \in tasks : \/ Creates(v, y) /\ Half(v, n)
                                       \/ Removes(v, y) /\ Half(v, Peer(n))
    BY <1>3 DEF Told, Creates, Removes, Half
  <2>1. y # x /\ y \notin raced /\ y \notin aged /\ Peer(n) \in Nodes
    BY <1>2, <1>3, <1>5, PeerFacts
  <2>2. y \in stored[n] /\ y \notin stored[Peer(n)]
    BY <1>4, <2>1
  <2> QED
    BY <2>1, <2>2 DEF Inv, Told
<1>10. Shown'
  <2> SUFFICES ASSUME NEW y \in Agents \ raced', NEW n \in Nodes
               PROVE  \/ (y \in view'[n] <=> y \in stored'[n])
                      \/ sweeping'[n] = y
                      \/ \E v \in tasks : Indexes(v, n) /\ (Creates(v, y) \/ Removes(v, y))
    BY <1>3 DEF Shown, Creates, Removes, Indexes
  <2>1. CASE y = x /\ n = m
    BY <1>4, <2>1
  <2>2. CASE ~(y = x /\ n = m)
    <3>1. y \in stored'[n] <=> y \in stored[n]
      BY <1>4, <2>2
    <3>2. sweeping[n] = y => sweeping'[n] = y
      BY <1>3, <1>4 DEF SsoAssumption
    <3> QED
      BY <1>3, <1>5, <3>1, <3>2 DEF Inv, Shown
  <2> QED
    BY <2>1, <2>2
<1> QED
  BY <1>6, <1>7, <1>8, <1>9, <1>10 DEF Inv

LEMMA SweepIndexInv ==
  ASSUME SsoAssumption, TypeOfParts, TypeOfParts', Inv, NEW m \in Nodes, SweepIndex(m)
  PROVE  Inv'
<1> DEFINE x == sweeping[m]
<1>1. /\ view' = [view EXCEPT ![m] = @ \ {x}]
      /\ sweeping' = [sweeping EXCEPT ![m] = None]
      /\ UNCHANGED <<stored, tasks, request, aged, loggedIn, raced>>
  BY DEF SweepIndex, history
<1>2. /\ \A n \in Nodes : n # m => view'[n] = view[n] /\ sweeping'[n] = sweeping[n]
      /\ view'[m] = view[m] \ {x} /\ sweeping'[m] = None
  BY <1>1 DEF TypeOfParts
<1>3. \A n \in Nodes, y \in Agents : sweeping'[n] = y => sweeping[n] = y
  BY <1>2 DEF SsoAssumption
<1>4. NewInv'
  <2>1. \A v \in tasks' : v.id \in Agents => Known(v.id)
    BY <1>1 DEF Known
  <2>2. ASSUME NEW n \in Nodes, NEW y \in Agents,
               y \in stored'[n] \/ y \in view'[n] \/ sweeping'[n] = y
        PROVE  Known(y)
    BY <1>1, <1>2, <1>3, <2>2 DEF Known
  <2> QED
    BY <1>1, <2>1, <2>2, NamesKept
<1>5. Separate'
  BY <1>1, <1>3 DEF Inv, Separate
<1>6. Stands'
  BY <1>1, <1>3 DEF Inv, Stands
<1>7. Told'
  BY <1>1 DEF Inv, Told
<1>8. Shown'
  <2> SUFFICES ASSUME NEW y \in Agents \ raced', NEW n \in Nodes
               PROVE  \/ (y \in view'[n] <=> y \in stored'[n])
                      \/ sweeping'[n] = y
                      \/ \E v \in tasks : Indexes(v, n) /\ (Creates(v, y) \/ Removes(v, y))
    BY <1>1 DEF Shown, Creates, Removes, Indexes
  <2>1. CASE y = x /\ n = m
    <3>1. y \notin stored[n]
      BY <1>1, <2>1 DEF Inv, Stands
    <3> QED
      BY <1>1, <1>2, <2>1, <3>1
  <2>2. CASE ~(y = x /\ n = m)
    <3>1. /\ y \in view'[n] <=> y \in view[n]
          /\ sweeping[n] = y => sweeping'[n] = y
      BY <1>2, <2>2
    <3> QED
      BY <1>1, <3>1 DEF Inv, Shown
  <2> QED
    BY <2>1, <2>2
<1> QED
  BY <1>4, <1>5, <1>6, <1>7, <1>8 DEF Inv

LEMMA AgeInv ==
  ASSUME TypeOfParts, Inv, NEW x \in Agents, Age(x)
  PROVE  Inv'
<1>1. UNCHANGED <<stored, view, tasks, request, sweeping, loggedIn, raced>> /\ aged \subseteq aged'
  BY DEF Age, history
<1>2. (NewInv /\ Separate /\ Stands)'
  BY <1>1 DEF Inv, NewInv, New, Known, Active, Separate, Stands
<1>3. Told' /\ Shown'
  BY <1>1, MoreTasks DEF Inv
<1> QED
  BY <1>2, <1>3 DEF Inv

LEMMA InvStep == SsoAssumption /\ TypeOfParts /\ TypeOfParts' /\ Inv /\ [Next]_vars => Inv'
<1> SUFFICES ASSUME SsoAssumption, TypeOfParts, TypeOfParts', Inv, [Next]_vars PROVE Inv'
  OBVIOUS
<1>1. CASE UNCHANGED vars
  BY <1>1 DEF vars, Inv, NewInv, New, Known, Active, Separate, Stands, Told, Shown
<1>2. CASE Next
  <2>1. Step
    BY <1>2, NextIsStep
  <2>2. ASSUME NEW t \in tasks, TaskStep(t) PROVE Inv'
    BY <2>2, RunCreateInv, RemovalInv, RunIndexInv, ForwardInv, ForwardChangeInv DEF TaskStep
  <2>3. ASSUME NEW r \in Requests, Quiet(r) PROVE Inv'
    BY <2>3, QuietInv
  <2>4. ASSUME NEW r \in Requests, CreateSession(r) PROVE Inv'
    BY <2>4, CreateSessionInv
  <2>5. ASSUME NEW r \in Requests, NEW n \in Nodes, NEW a \in Agents, Login(r, n, a) PROVE Inv'
    BY <2>5, LoginInv
  <2>6. ASSUME NEW x \in Agents, Age(x) PROVE Inv'
    BY <2>6, AgeInv
  <2>7. ASSUME NEW n \in Nodes, Sweep(n) \/ SweepIndex(n) PROVE Inv'
    BY <2>7, SweepInv, SweepIndexInv
  <2> QED
    BY <2>1, <2>2, <2>3, <2>4, <2>5, <2>6, <2>7 DEF Step
<1> QED
  BY <1>1, <1>2

LEMMA InvAgree == SsoAssumption /\ TypeOfParts /\ Inv => ServersAgree
<1> SUFFICES ASSUME SsoAssumption, TypeOfParts, Inv, AtRest PROVE
      \A n, p \in Nodes :
        /\ stored[n] \ (raced \cup aged) = stored[p] \ (raced \cup aged)
        /\ view[n] \ raced = stored[n] \ raced
  BY DEF ServersAgree
<1>1. tasks = {} /\ \A n \in Nodes : sweeping[n] = None
  BY DEF AtRest
<1>2. ASSUME NEW n \in Nodes, NEW x \in stored[n] \ (raced \cup aged) PROVE x \in stored[Peer(n)]
  <2>1. x \in Agents
    BY DEF TypeOfParts
  <2> QED
    BY <1>1, <2>1 DEF Inv, Told
<1>3. ASSUME NEW n \in Nodes, NEW p \in Nodes
      PROVE  stored[n] \ (raced \cup aged) \subseteq stored[p] \ (raced \cup aged)
  <2>1. p = n \/ p = Peer(n)
    BY PeerFacts
  <2> QED
    BY <1>2, <2>1
<1>4. ASSUME NEW n \in Nodes PROVE view[n] \ raced = stored[n] \ raced
  <2>1. view[n] \subseteq Agents /\ stored[n] \subseteq Agents
    BY DEF TypeOfParts
  <2>2. \A x \in Agents \ raced : x \in view[n] <=> x \in stored[n]
    BY <1>1 DEF Inv, Shown, SsoAssumption
  <2> QED
    BY <2>1, <2>2
<1> QED
  BY <1>3, <1>4

\* When all requests, tasks and sweeps have ended, the two servers hold the same
\* sessions and their indexes show them, however many logins, logouts, timeouts, kills,
\* clears and agings there were in whatever order: but for the sessions that were
\* expired or cleared while they were created, and those that are swept.
THEOREM ServersAlike == Spec => []ServersAgree
<1>1. Init => TypeOfParts /\ Inv
  BY SsoAssumption, TypeInit, InvInit
<1>2. TypeOfParts /\ Inv /\ [Next]_vars => (TypeOfParts /\ Inv)'
  BY SsoAssumption, TypeStep, InvStep
<1>3. TypeOfParts /\ Inv => ServersAgree
  BY SsoAssumption, InvAgree
<1> QED
  BY <1>1, <1>2, <1>3, PTL DEF Spec

=============================================================================
