----------------------------- MODULE SsoService -----------------------------
(***************************************************************************)
(* The service page c_service.jsp on two session servers: logins, logouts  *)
(* and timeouts of the agents of one user, the administrator's page that   *)
(* kills sessions, and the sweeper; over WessionSessionManager, whose      *)
(* executor tasks store, index and replicate, and over ClusterService,     *)
(* whose worker queues CREATE, EXPIRE and CLEAR and carries out ADD and    *)
(* REMOVE at once.                                                         *)
(*                                                                         *)
(* A server session has the id of the agent session that created it, and   *)
(* an agent session logs in once: a session object is named by its server  *)
(* and its id.  The servers are registered at each other and no send fails;*)
(* Cluster is about starts and failures, SessionRepository about what is   *)
(* inside a step of the repository.                                        *)
(***************************************************************************)
EXTENDS Integers, FiniteSets

CONSTANTS Nodes,        \* the two servers
          Agents,       \* agent sessions of the user
          AppOf,        \* the application code of an agent session
          Commands,     \* what happens: login, logout, timeout, kill, clear, age
          MaxRequests,  \* bound on requests and agings
          None

ASSUME SsoAssumption ==
  /\ IsFiniteSet(Nodes) /\ Cardinality(Nodes) = 2
  /\ DOMAIN AppOf = Agents
  /\ Commands \subseteq {"login", "logout", "timeout", "kill", "clear", "age"}
  /\ MaxRequests \in Nat
  /\ None \notin Agents

Peer(n) == CHOOSE p \in Nodes : p # n

\* Requests are numbered in the order in which they begin.
Requests == 1 .. MaxRequests

VARIABLES
  stored,    \* memoryRepository of a server: the ids of its sessions
  view,      \* what getBy finds there for the user
  agents,    \* the agents in the session object of a server and an id
  tasks,     \* the executor tasks that have not ended
  request,   \* how far each request is
  sweeping,  \* the session that the sweeper has taken out of memoryRepository
  aged,      \* the sessions older than the limit
  loggedIn,  \* history: the agents that have logged in
  blind,     \* history: sessions made while another was being made
  raced,     \* history: sessions whose expiry overlapped their creation
  uneven     \* history: changes of agents that the peer may not learn

vars == <<stored, view, agents, tasks, request, sweeping, aged, loggedIn, blind, raced, uneven>>
history == <<loggedIn, blind, raced, uneven>>

Idle == [at |-> "idle"]
Over == [at |-> "done"]

Init ==
  /\ stored = [n \in Nodes |-> {}]
  /\ view = [n \in Nodes |-> {}]
  /\ agents = [n \in Nodes |-> [x \in Agents |-> {}]]
  /\ tasks = {}
  /\ request = [r \in Requests |-> Idle]
  /\ sweeping = [n \in Nodes |-> None]
  /\ aged = {}
  /\ loggedIn = {}
  /\ blind = {}
  /\ raced = {}
  /\ uneven = {}

-----------------------------------------------------------------------------
(* WessionSessionManager: the executor tasks *)

\* mutant: a task is put on the server of its session's name
TaskSwapped(op, r, n, x, a) ==
  [op |-> op, by |-> r, node |-> x, id |-> n, agent |-> a, at |-> "run", cluster |-> TRUE, body |-> {}]

\* A task that request r leads to on server n; one that the peer does not learn of
\* carries what came with the message: the agents of the session at that time.
Task(op, r, n, x, a) ==
  [op |-> op, by |-> r, node |-> n, id |-> x, agent |-> a, at |-> "run", cluster |-> TRUE, body |-> {}]

\* add and remove change no state but the peer's
Change(op, r, n, x, a) == [Task(op, r, n, x, a) EXCEPT !.at = "send"]

\* The sessions that are being created.
Creating == {t.id : t \in {t \in tasks : t.op = "create"}}
              \cup {request[r].agent : r \in {r \in Requests : request[r].at = "create"}}

Moved(t, where) == (tasks \ {t}) \cup {[t EXCEPT !.at = where]}

\* mutant: the cluster flag is forgotten
AfterSilent(t) == tasks \ {t}

\* A task of the server that was asked is sent to the peer when it is done.
After(t) == IF t.cluster THEN Moved(t, "send") ELSE tasks \ {t}

\* putIfAbsent; the index comes next.
RunCreate(t) ==
  /\ t.at = "run" /\ t.op = "create"
  /\ stored' = [stored EXCEPT ![t.node] = @ \cup {t.id}]
  /\ agents' = IF t.cluster THEN agents ELSE [agents EXCEPT ![t.node][t.id] = t.body]
  /\ tasks' = Moved(t, "index")
  /\ UNCHANGED <<view, request, sweeping, aged, history>>

\* remove; the index comes next if there was a session.
RunExpire(t) ==
  /\ t.at = "run" /\ t.op = "expire"
  /\ stored' = [stored EXCEPT ![t.node] = @ \ {t.id}]
  /\ tasks' = IF t.id \in stored[t.node] THEN Moved(t, "index") ELSE After(t)
  /\ raced' = raced \cup (Creating \cap {t.id})
  /\ UNCHANGED <<view, agents, request, sweeping, aged, loggedIn, blind, uneven>>

RunClear(t) ==
  /\ t.at = "run" /\ t.op = "clear"
  /\ stored' = [stored EXCEPT ![t.node] = {}]
  /\ tasks' = Moved(t, "index")
  /\ raced' = raced \cup Creating
  /\ UNCHANGED <<view, agents, request, sweeping, aged, loggedIn, blind, uneven>>

\* mutant: a session that is created is not added
IndexedOld(op, ids, x) ==
  CASE op = "create" -> ids
    [] op = "expire" -> ids \ {x}
    [] op = "clear"  -> {}

\* The index follows the repository.
Indexed(op, ids, x) ==
  CASE op = "create" -> ids \cup {x}
    [] op = "expire" -> ids \ {x}
    [] op = "clear"  -> {}

RunIndex(t) ==
  /\ t.at = "index"
  /\ view' = [view EXCEPT ![t.node] = Indexed(t.op, @, t.id)]
  /\ tasks' = After(t)
  /\ UNCHANGED <<stored, agents, request, sweeping, aged, history>>

\* The peer's worker queues CREATE, with the session as it is now, EXPIRE and CLEAR.
Forward(t) ==
  /\ t.at = "send" /\ t.op \in {"create", "expire", "clear"}
  /\ tasks' = (tasks \ {t}) \cup
       {[t EXCEPT !.at = "run", !.node = Peer(t.node), !.cluster = FALSE,
                  !.body = IF t.op = "create" THEN agents[t.node][t.id] ELSE {}]}
  /\ UNCHANGED <<stored, view, agents, request, sweeping, aged, history>>

\* mutant: REMOVE adds
AppliedAlways(op, as, a) == as \cup {a}

Applied(op, as, a) == IF op = "add" THEN as \cup {a} ELSE as \ {a}

\* It carries out ADD and REMOVE itself, if it has the session.
ForwardChange(t) ==
  LET p == Peer(t.node)
  IN  /\ t.at = "send" /\ t.op \in {"add", "remove"}
      /\ agents' = IF t.id \notin stored[p] THEN agents
                   ELSE [agents EXCEPT ![p][t.id] = Applied(t.op, @, t.agent)]
      /\ tasks' = tasks \ {t}
      /\ UNCHANGED <<stored, view, request, sweeping, aged, history>>

-----------------------------------------------------------------------------
(* c_service.jsp: a request begins with getBy *)

\* Requests begin in the order of their numbers.  The bound counts requests and agings.
Begun == {r \in Requests : request[r].at # "idle"}
Begins(r) == Begun = 1 .. r - 1 /\ r + Cardinality(aged) <= MaxRequests

\* Without a session a login makes one, and the others have nothing to do.
Begin(r, kind, n, a) ==
  request' = [request EXCEPT ![r] =
    IF view[n] = {} /\ kind # "login" THEN Over
    ELSE [at |-> IF view[n] = {} THEN "create" ELSE "next", kind |-> kind, node |-> n, agent |-> a,
          list |-> view[n], id |-> None, keys |-> {}, met |-> {}, found |-> FALSE, last |-> None]]

\* A request that is over, or that threw.
End(r) == request' = [request EXCEPT ![r] = Over]

\* AGENT_SET_WESSION: a session is made if the user has none.
Login(r, n, a) ==
  /\ "login" \in Commands
  /\ a \notin loggedIn
  /\ Begin(r, "login", n, a)
  /\ loggedIn' = loggedIn \cup {a}
  /\ blind' = IF view[n] = {} /\ Creating # {} THEN blind \cup {a} ELSE blind
  /\ UNCHANGED <<stored, view, agents, tasks, sweeping, aged, raced, uneven>>

\* REMOVE_AWESSION: the agent session a has timed out.
Timeout(r, n, a) ==
  /\ "timeout" \in Commands
  /\ a \in loggedIn
  /\ Begin(r, "timeout", n, a)
  /\ UNCHANGED <<stored, view, agents, tasks, sweeping, aged, history>>

\* AGENT_REMOVE_WESSION: the application of a logs the user out.
Logout(r, n, a) ==
  /\ "logout" \in Commands
  /\ a \in loggedIn
  /\ Begin(r, "logout", n, a)
  /\ UNCHANGED <<stored, view, agents, tasks, sweeping, aged, history>>

\* wession_fdw.jsp: the administrator kills a session, or clears all.
Kill(r, n, x) ==
  /\ "kill" \in Commands
  /\ x \in stored[n]
  /\ End(r)
  /\ tasks' = tasks \cup {Task("expire", r, n, x, None)}
  /\ UNCHANGED <<stored, view, agents, sweeping, aged, history>>

Clear(r, n) ==
  /\ "clear" \in Commands
  /\ End(r)
  /\ tasks' = tasks \cup {Task("clear", r, n, None, None)}
  /\ UNCHANGED <<stored, view, agents, sweeping, aged, history>>

\* The new session object has its agent before it is stored.
CreateSession(r) ==
  LET n == request[r].node  a == request[r].agent
  IN  /\ request[r].at = "create"
      /\ agents' = [agents EXCEPT ![n][a] = {a}]
      /\ tasks' = tasks \cup {Task("create", r, n, a, None)}
      /\ raced' = IF \E t \in tasks : t.op = "clear" THEN raced \cup {a} ELSE raced
      /\ End(r)
      /\ UNCHANGED <<stored, view, sweeping, aged, loggedIn, blind, uneven>>

-----------------------------------------------------------------------------
(* The loop over the user's sessions *)

\* A change of agent a of session x on server n that the peer may not learn: its
\* CREATE is on the way without it, or another change of it is on the way.
Unlearnt(n, x, a) ==
  IF \E t \in tasks : t.id = x /\ \/ t.op = "create" /\ t.node = Peer(n) /\ t.at = "run"
                                  \/ t.op \in {"add", "remove"} /\ t.agent = a
    THEN uneven \cup {<<x, a>>}
    ELSE uneven

\* Session x is done; after the last one the request is over.
Advance(r, x) ==
  LET q == request[r]
  IN  [request EXCEPT ![r] =
         IF q.list = {x} THEN Over
         ELSE [q EXCEPT !.at = "next", !.list = q.list \ {x}, !.id = None, !.keys = {}, !.met = {},
                        !.found = FALSE]]

\* Login and logout look the next session up by id, and throw if it is gone.
Visit(r, x) ==
  LET n == request[r].node
  IN  /\ request[r].at = "next" /\ request[r].kind \in {"login", "logout"}
      /\ x \in request[r].list
      /\ IF x \notin stored[n] THEN End(r) /\ UNCHANGED tasks
         ELSE IF agents[n][x] = {}
           THEN /\ request' = Advance(r, x)
                /\ tasks' = IF request[r].kind = "login" THEN tasks
                            ELSE tasks \cup {Task("expire", r, n, x, None)}
           ELSE /\ request' = [request EXCEPT ![r].at = "iterate", ![r].id = x,
                                              ![r].keys = agents[n][x]]
                /\ UNCHANGED tasks
      /\ UNCHANGED <<stored, view, agents, sweeping, aged, history>>

\* The iterator over the agents may, or may not, meet one that is added meanwhile.
Ahead(r) == LET q == request[r] IN (q.keys \cup agents[q.node][q.id]) \ q.met

\* One that is removed meanwhile is not met, or it is met and getAgentSession gives
\* null, and the request throws.
MeetRemoved(r, b) ==
  LET q == request[r]
  IN  /\ q.at = "iterate"
      /\ b \in Ahead(r) \ agents[q.node][q.id]
      /\ \/ request' = [request EXCEPT ![r].met = @ \cup {b}]
         \/ End(r)
      /\ UNCHANGED <<stored, view, agents, tasks, sweeping, aged, history>>

\* mutant: any agent will do
SameAppAny(a, b) == TRUE

SameApp(a, b) == AppOf[b] = AppOf[a]

\* A login adds its agent at every agent that it meets before one of its own
\* application.
MeetLogin(r, b) ==
  LET q == request[r]  n == q.node  x == q.id  a == q.agent
      found == q.found \/ SameApp(a, b)
  IN  /\ q.at = "iterate" /\ q.kind = "login"
      /\ b \in Ahead(r) \cap agents[n][x]
      /\ request' = [request EXCEPT ![r].met = @ \cup {b}, ![r].found = found]
      /\ IF found THEN UNCHANGED <<agents, tasks, uneven>>
         ELSE /\ agents' = [agents EXCEPT ![n][x] = @ \cup {a}]
              /\ uneven' = Unlearnt(n, x, a)
              /\ tasks' = IF x \in stored[n] THEN tasks \cup {Change("add", r, n, x, a)} ELSE tasks
      /\ UNCHANGED <<stored, view, sweeping, aged, loggedIn, blind, raced>>

\* A logout tells the agents of its application, which may fail, and removes them
\* here; the peer is not told.
MeetLogout(r, b) ==
  LET q == request[r]  n == q.node  x == q.id
  IN  /\ q.at = "iterate" /\ q.kind = "logout"
      /\ b \in Ahead(r) \cap agents[n][x]
      /\ \/ /\ request' = [request EXCEPT ![r].met = @ \cup {b}]
            /\ IF SameApp(q.agent, b)
                 THEN /\ agents' = [agents EXCEPT ![n][x] = @ \ {b}]
                      /\ uneven' = uneven \cup {<<x, b>>}
                 ELSE UNCHANGED <<agents, uneven>>
         \/ /\ SameApp(q.agent, b)
            /\ End(r)
            /\ UNCHANGED <<agents, uneven>>
      /\ UNCHANGED <<stored, view, tasks, sweeping, aged, loggedIn, blind, raced>>

\* The iteration ends; a logout then counts the agents that are left.
EndIteration(r) ==
  LET q == request[r]
  IN  /\ q.at = "iterate" /\ q.keys \subseteq q.met
      /\ request' = Advance(r, q.id)
      /\ tasks' = IF q.kind = "logout" /\ agents[q.node][q.id] = {}
                    THEN tasks \cup {Task("expire", r, q.node, q.id, None)}
                    ELSE tasks
      /\ UNCHANGED <<stored, view, agents, sweeping, aged, history>>

\* A timeout removes its agent from the session that getBy gave, and then counts
\* the agents that are left.
RemoveAgent(r, x) ==
  LET n == request[r].node  a == request[r].agent
  IN  /\ request[r].at = "next" /\ request[r].kind = "timeout"
      /\ x \in request[r].list
      /\ agents' = [agents EXCEPT ![n][x] = @ \ {a}]
      /\ uneven' = Unlearnt(n, x, a)
      /\ tasks' = IF x \in stored[n] THEN tasks \cup {Change("remove", r, n, x, a)} ELSE tasks
      /\ request' = [request EXCEPT ![r].at = "count", ![r].id = x]
      /\ UNCHANGED <<stored, view, sweeping, aged, loggedIn, blind, raced>>

\* It remembers the last session that it left empty, and expires that one in the end.
Count(r) ==
  LET q == request[r]
      last == IF agents[q.node][q.id] = {} THEN q.id ELSE q.last
      next == Advance(r, q.id)
  IN  /\ q.at = "count"
      /\ IF next[r] = Over
           THEN /\ request' = next
                /\ tasks' = IF last = None THEN tasks
                            ELSE tasks \cup {Task("expire", r, q.node, last, None)}
           ELSE /\ request' = [next EXCEPT ![r].last = last]
                /\ UNCHANGED tasks
      /\ UNCHANGED <<stored, view, agents, sweeping, aged, history>>

-----------------------------------------------------------------------------
(* initWessionServer.jsp: each server sweeps for itself *)

Age(x) ==
  /\ "age" \in Commands
  /\ Cardinality(Begun) + Cardinality(aged) < MaxRequests
  /\ x \notin aged
  /\ \E n \in Nodes : x \in stored[n]
  /\ aged' = aged \cup {x}
  /\ UNCHANGED <<stored, view, agents, tasks, request, sweeping, history>>

\* mutant: only sessions that no agent uses
SweepableEmpty(n) == {x \in stored[n] \cap aged : agents[n][x] = {}}

\* The sessions past their time, whoever uses them.
Sweepable(n) == stored[n] \cap aged

\* remove(key, true): from the repository, then from the index.
Sweep(n) ==
  /\ sweeping[n] = None
  /\ \E x \in Sweepable(n) :
       /\ stored' = [stored EXCEPT ![n] = @ \ {x}]
       /\ sweeping' = [sweeping EXCEPT ![n] = x]
       /\ raced' = raced \cup (Creating \cap {x})
  /\ UNCHANGED <<view, agents, tasks, request, aged, loggedIn, blind, uneven>>

SweepIndex(n) ==
  /\ sweeping[n] # None
  /\ view' = [view EXCEPT ![n] = @ \ {sweeping[n]}]
  /\ sweeping' = [sweeping EXCEPT ![n] = None]
  /\ UNCHANGED <<stored, agents, tasks, request, aged, history>>

-----------------------------------------------------------------------------
TaskStep(t) == RunCreate(t) \/ RunExpire(t) \/ RunClear(t) \/ RunIndex(t) \/ Forward(t) \/ ForwardChange(t)

RequestStep(r) ==
  \/ CreateSession(r) \/ EndIteration(r) \/ Count(r)
  \/ \E x \in Agents : Visit(r, x) \/ RemoveAgent(r, x)
  \/ \E b \in Agents : MeetRemoved(r, b) \/ MeetLogin(r, b) \/ MeetLogout(r, b)

Ask(r) ==
  /\ Begins(r)
  /\ \E n \in Nodes :
       \/ Clear(r, n)
       \/ \E a \in Agents : Login(r, n, a) \/ Timeout(r, n, a) \/ Logout(r, n, a) \/ Kill(r, n, a)

Next ==
  \/ \E r \in Requests : Ask(r)
  \/ \E r \in Requests : RequestStep(r)
  \/ \E t \in tasks : TaskStep(t)
  \/ \E x \in Agents : Age(x)
  \/ \E n \in Nodes : Sweep(n) \/ SweepIndex(n)

Spec == Init /\ [][Next]_vars

\* CustomScheduler runs the sweeper every minute; nothing is assumed of the
\* executor or of the requests.
Fairness == \A n \in Nodes : WF_vars(Sweep(n) \/ SweepIndex(n))
FairSpec == Spec /\ Fairness

-----------------------------------------------------------------------------
(* Properties *)

TypeOK ==
  /\ stored \in [Nodes -> SUBSET Agents] /\ view \in [Nodes -> SUBSET Agents]
  /\ agents \in [Nodes -> [Agents -> SUBSET Agents]]
  /\ \A t \in tasks : /\ t.op \in {"create", "expire", "clear", "add", "remove"}
                      /\ t.at \in {"run", "index", "send"}
                      /\ t.node \in Nodes /\ t.id \in Agents \cup {None} /\ t.body \subseteq Agents
  /\ \A r \in Requests :
       request[r].at \in {"idle", "create", "next", "iterate", "count", "done"}
  /\ sweeping \in [Nodes -> Agents \cup {None}]
  /\ aged \subseteq Agents /\ loggedIn \subseteq Agents /\ blind \subseteq Agents /\ raced \subseteq Agents
  /\ uneven \subseteq Agents \X Agents

AtRest ==
  /\ tasks = {}
  /\ \A r \in Requests : request[r].at \in {"idle", "done"}
  /\ \A n \in Nodes : sweeping[n] = None

\* c_service.jsp, lines 111 and 272: a user who logs in again is given the session
\* that is there.  So the user has two sessions only if a login overlapped the making
\* of another session, if the expiry of one overlapped its creation, or if one of them
\* is past its time and only one server has swept it yet.
OneSession ==
  AtRest => \A n \in Nodes : Cardinality(stored[n] \ (blind \cup raced \cup aged)) <= 1

\* When all is done the servers have the same sessions, and getBy finds them, but for
\* those that were expired or cleared while they were being created, or swept.
ServersAgree ==
  AtRest => \A n, p \in Nodes :
              /\ stored[n] \ (raced \cup aged) = stored[p] \ (raced \cup aged)
              /\ view[n] \ raced = stored[n] \ raced

\* And a session that both have has the same agents on both, whatever raced with its
\* creation, but for those that a logout removed, and those whose ADD or REMOVE overtook
\* the CREATE of the session or crossed another change of the same agent.
AgentsAgree ==
  AtRest => \A x \in Agents, n, p \in Nodes :
              x \in stored[n] \cap stored[p] =>
                \A a \in Agents : <<x, a>> \notin uneven => (a \in agents[n][x] <=> a \in agents[p][x])

\* As long as there are only logins, each that was answered is held: both servers have,
\* in some session of the user, an agent of its application; unless an ADD overtook the
\* CREATE of its session.
LoginsHeld ==
  /\ AtRest /\ aged = {} /\ uneven = {}
  /\ Cardinality(Begun) = Cardinality(loggedIn)
  => \A a \in loggedIn, n \in Nodes :
       \E x \in stored[n] : \E b \in agents[n][x] : AppOf[b] = AppOf[a]

\* c_service.jsp, line 287: if no agent is connected any more, the server session has
\* to be deleted as well; also when no race of its creation is
\* to blame, and its changes were told to the peer one by one.
NoAgentsNoSession ==
  AtRest => \A n \in Nodes : \A x \in stored[n] \ (raced \cup {c[1] : c \in uneven}) :
              agents[n][x] # {}

\* Whatever the races left behind, sessions past their time leave both servers, and
\* stay away.
SweptInTheEnd == <>[](\A n \in Nodes : stored[n] \cap aged = {})
=============================================================================
