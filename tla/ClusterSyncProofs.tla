------------------------- MODULE ClusterSyncProofs -------------------------
(***************************************************************************)
(* InSync of Cluster, for every set of sessions and any number of starts,  *)
(* crashes and cuts: where two servers differ in a session, a command      *)
(* about it is still under way, or was lost, or ran while its opposite was *)
(* under way.                                                              *)
(***************************************************************************)
EXTENDS ClusterProofs

-----------------------------------------------------------------------------
(* The inductive invariant *)

\* Only a server that is up has sessions and tasks, and only one that recovers has an
\* answer of its peer.  The peer's commands and the recovery's are not sent on.
Shape ==
  /\ \A n \in Nodes : phase[n] # "up" =>
       store[n] = {} /\ \A j \in Tasks : j[1] = n => job[j] = "idle"
  /\ \A n \in Nodes : phase[n] # "recover" => found[n] = {}
  /\ \A j \in Tasks : j[4] # "request" => job[j] \in {"idle", "queued"}

\* A server has no connection to its peer.
Unlinked(n) ==
  /\ \A i \in DOMAIN pool[n] : pool[n][i] # "live"
  /\ \A j \in Jobs : j[1] = n => job[j] \notin {"live", "done"}

\* Nobody has a connection to a server that is not up.
Links == \A n \in Nodes : phase[Peer(n)] # "up" => Unlinked(n)

\* A task that has run here and is on its way to the peer.
Sent == {"stored", "poll", "new", "live", "stale", "done", "lost", "unopened", "mute"}

\* A server has done what it was asked, and its peer is told, or was.
Sending(n, cmd, x) == \E t \in Tasks : t[1] = n /\ t[2] = cmd /\ t[3] = x /\ job[t] \in Sent

\* A server has been handed a command by its peer, or by its recovery.
Handed(n, cmd, x) == \E t \in Tasks :
  t[1] = n /\ t[2] = cmd /\ t[3] = x /\ t[4] # "request" /\ job[t] = "queued"

\* What a server tells its peer it has done itself.
Done(n, x) ==
  /\ Sending(n, "create", x) => x \in store[n]
  /\ Sending(n, "expire", x) => x \notin store[n]

\* A session is on its way to a server that does not create it of itself.
Incoming(n, x) == Handed(n, "create", x) \/ x \in found[n]

\* A server is still to be told of a command, or to be found out not to have been.
Telling(n, cmd, x) ==
  \/ Handed(n, cmd, x)
  \/ \E t \in Tasks : t[1] = Peer(n) /\ t[2] = cmd /\ t[3] = x /\ job[t] \in Sent \ {"done"}

\* Between servers that have taken each other's sessions: what comes in is what the
\* peer did, and what the peer has and the server lacks comes in, or is about to go.
Alike(n, x) ==
  /\ Incoming(n, x) => x \in store[Peer(n)]
  /\ Handed(n, "expire", x) => x \notin store[Peer(n)]
  /\ x \in store[Peer(n)] /\ x \notin store[n] =>
       Incoming(n, x) \/ Telling(n, "create", x) \/ Telling(Peer(n), "expire", x)

SessionOK(x) == /\ \A n \in Nodes : Done(n, x)
                /\ (\A n \in Nodes : Recovered(n)) => \A n \in Nodes : Alike(n, x)

\* Of the sessions that no command missed and whose commands did not race.
Fine(x) == x \notin missed \cup raced => SessionOK(x)

SyncInv == Shape /\ Links /\ \A x \in Sessions : Fine(x)

-----------------------------------------------------------------------------
(* Tasks *)

LEMMA TaskParts ==
  ASSUME NEW j \in Tasks
  PROVE  /\ j[1] \in Nodes /\ j[2] \in {"create", "expire"} /\ j[3] \in Sessions
         /\ j[4] \in {"request", "message", "recovery"}
         /\ j \in Jobs
  BY DEF Tasks, Jobs

\* What a start queues for a session that it recovers.
Recovery(n, x) == <<n, "create", x, "recovery">>

LEMMA RecoveryFacts ==
  ASSUME NEW n \in Nodes, NEW x \in Sessions
  PROVE  /\ Recovery(n, x) \in Tasks
         /\ Recovery(n, x)[1] = n /\ Recovery(n, x)[2] = "create" /\ Recovery(n, x)[3] = x
         /\ Recovery(n, x)[4] = "recovery"
  BY DEF Tasks, Recovery

LEMMA RequestFacts ==
  ASSUME NEW n \in Nodes, NEW cmd \in {"create", "expire"}, NEW x \in Sessions, NEW r \in Requests
  PROVE  /\ <<n, cmd, x, "request", r>> \in Tasks
         /\ <<n, cmd, x, "request", r>>[1] = n /\ <<n, cmd, x, "request", r>>[3] = x
         /\ <<n, cmd, x, "request", r>>[4] = "request"
  BY DEF Tasks

LEMMA ThreadFacts ==
  ASSUME NEW n \in Nodes
  PROVE  Main(n) \notin Tasks /\ Check(n) \notin Tasks
  BY DEF Main, Check, Tasks

-----------------------------------------------------------------------------
(* Who has sessions, tasks and connections *)

\* A step of one job, of a server that is up if it is a task.
LEMMA ShapeMoves ==
  ASSUME TypeOfParts, Shape, NEW j \in Jobs, NEW where, Goto(j, where),
         UNCHANGED <<phase, found>>,
         \A n \in Nodes : phase[n] # "up" => store'[n] = store[n],
         j \in Tasks => /\ phase[j[1]] = "up"
                        /\ j[4] # "request" => where \in {"idle", "queued"}
  PROVE  Shape'
<1>1. \A i \in Tasks : job'[i] = IF i = j THEN where ELSE job[i]
  BY TaskParts DEF TypeOfParts, Goto
<1> QED
  BY <1>1 DEF Shape

\* A task that does something is of a server that is up, and one that does not just
\* wait to run was requested here.
LEMMA TaskRuns ==
  ASSUME Shape, NEW j \in Tasks, job[j] # "idle"
  PROVE  /\ phase[j[1]] = "up"
         /\ job[j] # "queued" => j[4] = "request"
  BY TaskParts DEF Shape

\* Nothing of the sessions and tasks changes but where the threads are.
LEMMA ShapeKept ==
  ASSUME Shape, UNCHANGED <<store, found>>, \A i \in Tasks : job'[i] = job[i],
         \A n \in Nodes : /\ phase'[n] = "up" <=> phase[n] = "up"
                          /\ phase[n] = "recover" => phase'[n] = "recover"
  PROVE  Shape'
  BY DEF Shape

LEMMA ShapeStep ==
  ASSUME ClusterAssumption, TypeOfParts, Shape, Links, [Next]_vars
  PROVE  Shape'
<1> USE DEF servers, sessions, history
<1>1. ASSUME NEW j \in Jobs, Poll(j) \/ Open(j) PROVE Shape'
  <2>1. PICK where : Goto(j, where)
    BY <1>1 DEF Poll, Open
  <2>2. job[j] # "idle" /\ job[j] # "queued" /\ UNCHANGED <<phase, found, store>>
    BY <1>1 DEF Poll, Open
  <2> QED
    BY <2>1, <2>2, TaskRuns, ShapeMoves
<1>2. ASSUME NEW n \in Nodes,
             \/ OnNodeRegister(Main(n)) \/ OnNodeRegister(Check(n)) \/ GetAll(n) \/ EndRegister(n)
             \/ StartCheck(n) \/ CheckSucceeds(n) \/ CheckFails(n) \/ Start(n)
      PROVE  Shape'
  <2>1. \A i \in Tasks : job'[i] = job[i]
    BY <1>2, ThreadFacts, TaskParts
    DEF OnNodeRegister, GetAll, EndRegister, StartCheck, CheckSucceeds, CheckFails, Start, Goto,
        TypeOfParts
  <2>2. CASE GetAll(n)
    BY <2>1, <2>2 DEF GetAll, Shape, TypeOfParts
  <2>3. CASE ~GetAll(n)
    <3>1. UNCHANGED <<store, found>>
      BY <1>2, <2>3
      DEF OnNodeRegister, EndRegister, StartCheck, CheckSucceeds, CheckFails, Start
    <3>2. \A m \in Nodes : /\ phase'[m] = "up" <=> phase[m] = "up"
                           /\ phase[m] = "recover" => phase'[m] = "recover"
      BY <1>2, <2>3
      DEF OnNodeRegister, EndRegister, StartCheck, CheckSucceeds, CheckFails, Start, TypeOfParts
    <3> QED
      BY <2>1, <3>1, <3>2, ShapeKept
  <2> QED
    BY <2>2, <2>3
<1>3. ASSUME NEW n \in Nodes, EndRecover(n) PROVE Shape'
  <2>1. /\ phase[n] = "recover" /\ phase' = [phase EXCEPT ![n] = "up"]
        /\ found' = [found EXCEPT ![n] = {}] /\ store' = store
    BY <1>3 DEF EndRecover
  <2>2. \A i \in Tasks : \/ job'[i] = job[i]
                         \/ job'[i] = "queued" /\ i[1] = n
    BY <1>3, ThreadFacts, TaskParts DEF EndRecover
  <2>3. \A m \in Nodes : phase'[m] # "up" =>
          store'[m] = {} /\ \A j \in Tasks : j[1] = m => job'[j] = "idle"
    <3>1. \A m \in Nodes : phase'[m] # "up" => m # n /\ phase[m] # "up"
      BY <2>1 DEF TypeOfParts
    <3> QED
      BY <2>1, <2>2, <3>1 DEF Shape
  <2>4. \A m \in Nodes : phase'[m] # "recover" => found'[m] = {}
    BY <2>1 DEF Shape, TypeOfParts
  <2>5. \A j \in Tasks : j[4] # "request" => job'[j] \in {"idle", "queued"}
    BY <2>2 DEF Shape
  <2> QED
    BY <2>3, <2>4, <2>5 DEF Shape
<1>4. ASSUME NEW n \in Nodes, End(n) PROVE Shape'
  <2>1. /\ phase' = [phase EXCEPT ![n] = "off"] /\ store' = [store EXCEPT ![n] = {}]
        /\ found' = [found EXCEPT ![n] = {}]
    BY <1>4 DEF End
  <2>2. \A i \in Tasks : job'[i] = IF i[1] = n THEN "idle" ELSE Broken(job[i])
    BY <1>4, TaskParts DEF End
  <2>3. \A i \in Tasks : job[i] \in {"idle", "queued"} => Broken(job[i]) = job[i]
    BY DEF Broken
  <2>4. \A m \in Nodes : phase'[m] # "up" =>
          store'[m] = {} /\ \A j \in Tasks : j[1] = m => job'[j] = "idle"
    <3> SUFFICES ASSUME NEW m \in Nodes, phase'[m] # "up"
                 PROVE  store'[m] = {} /\ \A j \in Tasks : j[1] = m => job'[j] = "idle"
      OBVIOUS
    <3>1. CASE m = n
      BY <2>1, <2>2, <3>1 DEF TypeOfParts
    <3>2. CASE m # n
      <4>1. phase[m] # "up" /\ store'[m] = store[m]
        BY <2>1, <3>2 DEF TypeOfParts
      <4> QED
        BY <2>2, <2>3, <3>2, <4>1 DEF Shape
    <3> QED
      BY <3>1, <3>2
  <2>5. \A m \in Nodes : phase'[m] # "recover" => found'[m] = {}
    BY <2>1 DEF Shape, TypeOfParts
  <2>6. \A j \in Tasks : j[4] # "request" => job'[j] \in {"idle", "queued"}
    BY <2>2, <2>3 DEF Shape
  <2> QED
    BY <2>4, <2>5, <2>6 DEF Shape
<1>5. CASE Cut
  <2>1. \A i \in Tasks : job'[i] = Muted(job[i])
    BY <1>5, TaskParts DEF Cut
  <2>2. \A i \in Tasks : job[i] \in {"idle", "queued"} => Muted(job[i]) = job[i]
    BY DEF Muted
  <2> QED
    BY <1>5, <2>1, <2>2 DEF Cut, Shape
<1>6. CASE Mend \/ UNCHANGED vars
  BY <1>6 DEF Mend, vars, Shape
\* the peer is up, or there would be no connection to it
<1>7. ASSUME NEW j \in Tasks, Forward(j) PROVE Shape'
  <2>1. phase[Peer(j[1])] = "up" /\ Peer(j[1]) \in Nodes
    BY <1>7, TaskParts, PeerFacts DEF Forward, Links, Unlinked
  <2>2. \A i \in Tasks : \/ job'[i] = job[i]
                         \/ i = j /\ job'[i] = "done"
                         \/ job'[i] = "queued" /\ i[1] = Peer(j[1])
    <3>1. job' = [job EXCEPT ![j] = "done", ![Message(j)] = "queued"]
      BY <1>7 DEF Forward, Message
    <3>2. Message(j)[1] = Peer(j[1])
      BY DEF Message
    <3> QED
      BY <3>1, <3>2, TaskParts DEF TypeOfParts
  <2>3. phase[j[1]] = "up" /\ j[4] = "request"
    BY <1>7, TaskRuns DEF Forward
  <2>4. UNCHANGED <<phase, store, found>>
    BY <1>7 DEF Forward
  <2>5. \A m \in Nodes : phase'[m] # "up" => \A i \in Tasks : i[1] = m => job'[i] = "idle"
    BY <2>1, <2>2, <2>3, <2>4 DEF Shape
  <2>6. \A i \in Tasks : i[4] # "request" => job'[i] \in {"idle", "queued"}
    BY <2>2, <2>3 DEF Shape
  <2> QED
    BY <2>4, <2>5, <2>6 DEF Shape
<1>8. ASSUME NEW n \in Nodes, NEW cmd \in Commands, NEW x \in Sessions, NEW r \in Requests,
             Ask(n, cmd, x, r)
      PROVE  Shape'
  <2> DEFINE j == <<n, cmd, x, "request", r>>
  <2>1. j \in Tasks /\ j[1] = n /\ j[4] = "request"
    BY RequestFacts DEF ClusterAssumption
  <2>2. Goto(j, "queued")
    BY <1>8 DEF Ask
  <2> HIDE DEF j
  <2> QED
    BY <1>8, <2>1, <2>2, TaskParts, ShapeMoves DEF Ask
<1>9. ASSUME NEW j \in Tasks, Run(j) \/ List(j) \/ EndTask(j) PROVE Shape'
  <2>1. job[j] # "idle" /\ (List(j) \/ EndTask(j) => job[j] # "queued")
    BY <1>9 DEF Run, List, EndTask, Answered
  <2>2. PICK where : Goto(j, where) /\ (Run(j) /\ j[4] # "request" => where = "idle")
    BY <1>9, <2>1 DEF Run, List, EndTask, Answered
  <2>3. UNCHANGED <<phase, found>> /\ \A n \in Nodes : phase[n] # "up" => store'[n] = store[n]
    BY <1>9, <2>1, TaskRuns DEF Run, List, EndTask, TypeOfParts
  <2>4. /\ phase[j[1]] = "up"
        /\ j[4] # "request" => where = "idle"
    BY <1>9, <2>1, <2>2, TaskRuns
  <2>5. j \in Jobs
    BY TaskParts
  <2> QED
    BY <2>2, <2>3, <2>4, <2>5, ShapeMoves
<1>10. ASSUME NEW j \in Jobs, GiveUp(j) PROVE Shape'
  <2>1. /\ job[j] # "idle" /\ job[j] # "queued" /\ UNCHANGED <<phase, found, store>>
        /\ \E where : Goto(j, where)
    BY <1>10 DEF GiveUp
  <2> QED
    BY <2>1, TaskRuns, ShapeMoves
<1> QED
  BY <1>1, <1>2, <1>3, <1>4, <1>5, <1>6, <1>7, <1>8, <1>9, <1>10, JobFacts
  DEF Next, StartStep, CheckStep, TaskStep, Send

\* The release of a connection that is broken, or of none.
LEMMA UnlinkedRelease ==
  ASSUME TypeOfParts, NEW j \in Jobs, Released(j)
  PROVE  /\ \A m \in Nodes : m # j[1] => pool'[m] = pool[m]
         /\ Unlinked(j[1]) => \A i \in DOMAIN pool'[j[1]] : pool'[j[1]][i] # "live"
<1>1. j[1] \in Nodes /\ pool[j[1]] \in Seq(Connection)
  BY JobFacts DEF TypeOfParts
<1>2. CASE j \in orphans \/ job[j] = "lost"
  BY <1>2 DEF Released, Unlinked
<1>3. CASE ~(j \in orphans \/ job[j] = "lost")
  <2> DEFINE c == IF job[j] = "done" THEN "live" ELSE "stale"
  <2>1. pool'[j[1]] = Append(pool[j[1]], c) /\ \A m \in Nodes : m # j[1] => pool'[m] = pool[m]
    BY <1>1, <1>3 DEF Released, TypeOfParts
  <2>2. Unlinked(j[1]) => c # "live"
    BY DEF Unlinked
  <2>3. c \in Connection
    BY DEF Connection
  <2> HIDE DEF c
  <2> QED
    BY <1>1, <2>1, <2>2, <2>3, PoolFacts DEF Unlinked
<1> QED
  BY <1>2, <1>3

\* A step of a server while its peer stays what it is.
LEMMA LinksMove ==
  ASSUME ClusterAssumption, Links, NEW n \in Nodes,
         \A m \in Nodes : phase[m] = "up" => phase'[m] = "up",
         \A m \in Nodes : m # n => pool'[m] = pool[m],
         \A i \in Jobs : i[1] # n => job'[i] = job[i] \/ job'[i] \notin {"live", "done"},
         phase[Peer(n)] # "up" => Unlinked(n)'
  PROVE  Links'
<1>1. \A m \in Nodes : m = n \/ m = Peer(n)
  BY PeerFacts
<1>2. Peer(n) \in Nodes /\ Peer(n) # n /\ Peer(Peer(n)) = n
  BY PeerFacts
<1>3. Unlinked(Peer(n)) => Unlinked(Peer(n))'
  BY <1>2 DEF Unlinked
<1> QED
  BY <1>1, <1>2, <1>3 DEF Links

\* A job goes where it needs no connection, or its peer is up.
LEMMA LinksJob ==
  ASSUME ClusterAssumption, TypeOfParts, Links, NEW j \in Jobs, NEW where, Goto(j, where),
         \A m \in Nodes : phase[m] = "up" => phase'[m] = "up",
         \A m \in Nodes : m # j[1] => pool'[m] = pool[m],
         Unlinked(j[1]) => \A i \in DOMAIN pool'[j[1]] : pool'[j[1]][i] # "live",
         phase[Peer(j[1])] # "up" => where \notin {"live", "done"}
  PROVE  Links'
<1>1. j[1] \in Nodes
  BY JobFacts
<1>2. \A i \in Jobs : job'[i] = IF i = j THEN where ELSE job[i]
  BY DEF Goto, TypeOfParts
<1>3. phase[Peer(j[1])] # "up" => Unlinked(j[1])'
  BY <1>1, <1>2 DEF Links, Unlinked
<1> QED
  BY <1>1, <1>2, <1>3, LinksMove

LEMMA LinksStep ==
  ASSUME ClusterAssumption, TypeOfParts, Links, [Next]_vars
  PROVE  Links'
<1> USE DEF servers, sessions, history
<1>0. \A j \in Jobs : /\ j[1] \in Nodes
                      /\ job[j] \in {"live", "done"} => phase[Peer(j[1])] = "up"
  BY JobFacts DEF Links, Unlinked
<1>1. ASSUME NEW j \in Jobs, Poll(j) PROVE Links'
  <2>1. pool[j[1]] \in Seq(Connection)
    BY <1>0 DEF TypeOfParts
  <2>2. PICK where : /\ Goto(j, where)
                     /\ where \notin {"new", "lost"} => pool[j[1]] # <<>> /\ where = Head(pool[j[1]])
    BY <1>1 DEF Poll
  <2>3. Unlinked(j[1]) => where \notin {"live", "done"}
    BY <2>1, <2>2, PoolFacts DEF Unlinked, Connection
  <2>4. /\ \A m \in Nodes : m # j[1] => pool'[m] = pool[m]
        /\ phase' = phase
        /\ \/ pool'[j[1]] = pool[j[1]]
           \/ pool[j[1]] # <<>> /\ pool'[j[1]] = Tail(pool[j[1]])
    <3>1. phase' = phase
      BY <1>1 DEF Poll
    <3>2. CASE pool' = pool
      BY <3>1, <3>2
    <3>3. CASE pool' # pool
      <4>1. pool[j[1]] # <<>> /\ pool' = [pool EXCEPT ![j[1]] = Tail(pool[j[1]])]
        BY <1>1, <3>3 DEF Poll
      <4> QED
        BY <1>0, <3>1, <4>1 DEF TypeOfParts
    <3> QED
      BY <3>2, <3>3
  <2>5. Unlinked(j[1]) => \A i \in DOMAIN pool'[j[1]] : pool'[j[1]][i] # "live"
    <3>1. CASE pool'[j[1]] = pool[j[1]]
      BY <3>1 DEF Unlinked
    <3>2. CASE pool[j[1]] # <<>> /\ pool'[j[1]] = Tail(pool[j[1]])
      <4>1. \A i \in DOMAIN Tail(pool[j[1]]) : \E k \in DOMAIN pool[j[1]] :
              Tail(pool[j[1]])[i] = pool[j[1]][k]
        BY <2>1, <3>2, PoolFacts
      <4> QED
        BY <3>2, <4>1 DEF Unlinked
    <3> QED
      BY <2>4, <3>1, <3>2
  <2>6. phase[Peer(j[1])] # "up" => where \notin {"live", "done"}
    BY <1>0, <2>3 DEF Links
  <2> QED
    BY <2>2, <2>4, <2>5, <2>6, LinksJob
<1>2. ASSUME NEW j \in Jobs, Open(j) PROVE Links'
  BY <1>2, LinksJob DEF Open, Unlinked
<1>3. ASSUME NEW j \in Threads, OnNodeRegister(j) PROVE Links'
  <2> DEFINE n == j[1]
             p == Peer(n)
  <2>1. /\ n \in Nodes /\ p \in Nodes /\ p # n /\ Peer(p) = n /\ Peer(n) = p /\ j \in Jobs
        /\ \A m \in Nodes : m = n \/ m = p
    BY PeerFacts, JobFacts DEF Jobs
  <2>2. /\ phase' = phase /\ pool'[n] = pool[n] /\ (pool'[p] = pool[p] \/ pool'[p] = <<>>)
        /\ job[j] = "live" /\ job'[j] = "done" /\ \A i \in Jobs : i # j => job'[i] = job[i]
    BY <1>3, <2>1 DEF OnNodeRegister, Goto, TypeOfParts
  <2>3. Unlinked(p) => Unlinked(p)'
    BY <2>1, <2>2 DEF Unlinked
  <2>4. phase[p] = "up"
    BY <1>0, <2>1, <2>2
  <2> HIDE DEF n, p
  <2> QED
    BY <2>1, <2>2, <2>3, <2>4 DEF Links
<1>4. ASSUME NEW n \in Nodes, GetAll(n) PROVE Links'
  <2>1. /\ Main(n) \in Jobs /\ job[Main(n)] = "live" /\ Goto(Main(n), "done")
        /\ UNCHANGED <<phase, pool>>
    BY <1>4, JobFacts DEF GetAll
  <2> QED
    BY <1>0, <2>1, LinksJob DEF Unlinked
<1>5. ASSUME NEW j \in Tasks, Forward(j) PROVE Links'
  <2>1. j \in Jobs /\ j[1] \in Nodes /\ job[j] = "live" /\ UNCHANGED <<phase, pool>>
    BY <1>5, TaskParts DEF Forward
  <2>2. \A i \in Jobs : i # j => job'[i] = job[i] \/ job'[i] = "queued"
    BY <1>5, <2>1 DEF Forward, TypeOfParts
  <2>3. \A i \in Jobs : i[1] # j[1] => job'[i] = job[i] \/ job'[i] \notin {"live", "done"}
    BY <2>2
  <2> QED
    BY <1>0, <2>1, <2>3, LinksMove
<1>6. ASSUME NEW n \in Nodes, NEW cmd \in Commands, NEW x \in Sessions, NEW r \in Requests,
             Ask(n, cmd, x, r)
      PROVE  Links'
  <2>1. <<n, cmd, x, "request", r>> \in Jobs /\ Goto(<<n, cmd, x, "request", r>>, "queued")
    BY <1>6, RequestFacts, TaskParts DEF Ask, ClusterAssumption
  <2> QED
    BY <1>6, <2>1, LinksJob DEF Ask, Unlinked
<1>7. ASSUME NEW j \in Tasks, Run(j) \/ List(j) PROVE Links'
  <2>1. PICK where : Goto(j, where) /\ where \in {"stored", "idle", "poll"}
    BY <1>7 DEF Run, List
  <2> QED
    BY <1>7, <2>1, TaskParts, LinksJob DEF Run, List, Unlinked
<1>8. ASSUME NEW j \in Jobs, Goto(j, "idle"), Released(j), UNCHANGED phase PROVE Links'
  BY <1>8, UnlinkedRelease, LinksJob
<1>9. ASSUME NEW n \in Nodes, StartCheck(n) PROVE Links'
  BY <1>9, JobFacts, LinksJob DEF StartCheck, Unlinked
<1>10. ASSUME NEW n \in Nodes, CheckFails(n) PROVE Links'
  <2>1. /\ Check(n) \in Jobs /\ Check(n)[1] = n /\ Goto(Check(n), "idle") /\ phase' = phase
        /\ pool'[n] = <<>> /\ \A m \in Nodes : m # n => pool'[m] = pool[m]
    BY <1>10, JobFacts DEF CheckFails, TypeOfParts
  <2> QED
    BY <2>1, LinksJob
<1>11. ASSUME NEW n \in Nodes, Start(n) PROVE Links'
  <2>1. /\ Main(n) \in Jobs /\ Main(n)[1] = n /\ Goto(Main(n), "poll") /\ pool' = pool
        /\ \A m \in Nodes : phase[m] = "up" => phase'[m] = "up"
    BY <1>11, JobFacts DEF Start, TypeOfParts
  <2> QED
    BY <2>1, LinksJob DEF Unlinked
<1>12. ASSUME NEW n \in Nodes, EndRegister(n) PROVE Links'
  <2>1. /\ Main(n) \in Jobs /\ Main(n)[1] = n
        /\ \A m \in Nodes : phase[m] = "up" => phase'[m] = "up"
        /\ \E where \in {"poll", "lost"} : Goto(Main(n), where)
        /\ Released(Main(n)) \/ pool' = pool
    BY <1>12, JobFacts DEF EndRegister, TypeOfParts
  <2>2. /\ \A m \in Nodes : m # n => pool'[m] = pool[m]
        /\ Unlinked(n) => \A i \in DOMAIN pool'[n] : pool'[n][i] # "live"
    BY <2>1, UnlinkedRelease DEF Unlinked
  <2> QED
    BY <2>1, <2>2, LinksJob
<1>13. ASSUME NEW n \in Nodes, EndRecover(n) PROVE Links'
  <2>1. /\ Main(n) \in Jobs /\ Main(n)[1] = n /\ Released(Main(n))
        /\ \A m \in Nodes : phase[m] = "up" => phase'[m] = "up"
        /\ \A i \in Jobs : job'[i] = job[i] \/ job'[i] \in {"idle", "queued"}
    BY <1>13, JobFacts DEF EndRecover, TypeOfParts
  <2>2. /\ \A m \in Nodes : m # n => pool'[m] = pool[m]
        /\ Unlinked(n) => \A i \in DOMAIN pool'[n] : pool'[n][i] # "live"
    BY <2>1, UnlinkedRelease
  <2>3. Unlinked(n) => Unlinked(n)'
    BY <2>1, <2>2 DEF Unlinked
  <2> QED
    BY <2>1, <2>2, <2>3, LinksMove DEF Links
<1>14. ASSUME NEW n \in Nodes, End(n) PROVE Links'
  <2> DEFINE p == Peer(n)
  <2>1. p \in Nodes /\ p # n /\ Peer(p) = n /\ \A m \in Nodes : m = n \/ m = p
    BY PeerFacts
  <2>2. /\ pool'[n] = <<>> /\ pool'[p] = Stale(pool[p]) /\ pool[p] \in Seq(Connection)
        /\ \A i \in Jobs : job'[i] = (IF i[1] = n THEN "idle" ELSE Broken(job[i])) /\ job[i] \in States
    BY <1>14, <2>1 DEF End, TypeOfParts
  <2>3. Unlinked(n)' /\ Unlinked(p)'
    BY <2>1, <2>2, StaleFacts, BrokenFacts DEF Unlinked
  <2> HIDE DEF p
  <2> QED
    BY <2>1, <2>3 DEF Links
<1>15. CASE Cut
  <2>1. /\ \A n \in Nodes : pool'[n] = Stale(pool[n]) /\ pool[n] \in Seq(Connection)
        /\ \A j \in Jobs : job'[j] = Muted(job[j]) /\ job[j] \in States
    BY <1>15 DEF Cut, TypeOfParts
  <2>2. \A n \in Nodes : Unlinked(n)'
    BY <2>1, StaleFacts, MutedFacts DEF Unlinked
  <2> QED
    BY <2>2 DEF Links
<1>16. CASE Mend \/ UNCHANGED vars
  BY <1>16 DEF Mend, vars, Links, Unlinked
<1>17. ASSUME NEW n \in Nodes, CheckSucceeds(n) PROVE Links'
  BY <1>8, <1>17, JobFacts DEF CheckSucceeds
<1>18. ASSUME NEW j \in Tasks, EndTask(j) PROVE Links'
  BY <1>8, <1>18, TaskParts DEF EndTask
<1>19. ASSUME NEW j \in Jobs, GiveUp(j) PROVE Links'
  <2>1. /\ phase' = phase /\ pool' = pool
        /\ \E where \in {"stale", "lost"} : Goto(j, where)
    BY <1>19 DEF GiveUp
  <2> QED
    BY <2>1, LinksJob DEF Unlinked
<1> QED
  BY <1>1, <1>2, <1>3, <1>4, <1>5, <1>6, <1>7, <1>9, <1>10, <1>11, <1>12, <1>13, <1>14, <1>15,
     <1>16, <1>17, <1>18, <1>19, JobFacts
  DEF Next, StartStep, CheckStep, TaskStep, Send, OnNodeRegister

-----------------------------------------------------------------------------
(* Steps that bring a session nowhere *)

\* No server gets the session, is handed a command about it, or has done one.
Fewer(x) ==
  /\ \A n \in Nodes : (x \in store'[n] => x \in store[n]) /\ (x \in found'[n] => x \in found[n])
  /\ \A j \in Tasks : j[3] = x =>
       /\ job'[j] = "queued" => job[j] = "queued" \/ j[4] = "request"
       /\ job'[j] \in Sent => job[j] \in Sent

\* No server loses it, and no command about it is lost.
Kept(x) ==
  /\ \A n \in Nodes : Recovered(n)
  /\ \A n \in Nodes : (x \in store[n] => x \in store'[n]) /\ (x \in found[n] => x \in found'[n])
  /\ \A j \in Tasks : j[3] = x =>
       /\ job[j] = "queued" => job'[j] = "queued"
       /\ job[j] \in Sent \ {"done"} => job'[j] \in Sent \ {"done"}

LEMMA FewerDone ==
  ASSUME NEW x \in Sessions, NEW n \in Nodes, Fewer(x), Done(n, x),
         x \in store[n] /\ x \notin store'[n] => ~Sending(n, "create", x)'
  PROVE  Done(n, x)'
<1>1. \A cmd : Sending(n, cmd, x)' => Sending(n, cmd, x)
  BY DEF Sending, Fewer
<1> QED
  BY <1>1 DEF Done, Fewer

LEMMA FewerAlike ==
  ASSUME ClusterAssumption, NEW x \in Sessions, NEW n \in Nodes, Fewer(x), Kept(x), Alike(n, x)
  PROVE  Alike(n, x)'
<1>1. Peer(n) \in Nodes
  BY PeerFacts
<1>2. \A m \in Nodes : /\ x \in store'[m] <=> x \in store[m]
                       /\ x \in found'[m] <=> x \in found[m]
  BY DEF Fewer, Kept
<1>3. \A m \in Nodes : \A cmd : Handed(m, cmd, x)' <=> Handed(m, cmd, x)
  BY DEF Handed, Fewer, Kept
<1>4. \A m \in Nodes : \A cmd : Telling(m, cmd, x) => Telling(m, cmd, x)'
  BY <1>3 DEF Telling, Kept
<1>5. Incoming(n, x)' <=> Incoming(n, x)
  BY <1>2, <1>3 DEF Incoming
<1> QED
  BY <1>1, <1>2, <1>3, <1>4, <1>5 DEF Alike

LEMMA FewerFine ==
  ASSUME ClusterAssumption, NEW x \in Sessions, Fine(x), Fewer(x),
         missed \subseteq missed', raced \subseteq raced',
         \A n \in Nodes : x \in store[n] /\ x \notin store'[n] => ~Sending(n, "create", x)',
         x \notin missed' /\ (\A n \in Nodes : Recovered(n)') => Kept(x)
  PROVE  Fine(x)'
<1> SUFFICES ASSUME x \notin missed' \cup raced' PROVE SessionOK(x)'
  BY DEF Fine
<1>1. SessionOK(x)
  BY DEF Fine
<1>2. \A n \in Nodes : Done(n, x)'
  BY <1>1, FewerDone DEF SessionOK
<1>3. (\A n \in Nodes : Recovered(n)') => \A n \in Nodes : Alike(n, x)'
  BY <1>1, FewerAlike DEF SessionOK, Kept
<1> QED
  BY <1>2, <1>3 DEF SessionOK

\* Nothing about the session changes but how far a command about it is on its way.
LEMMA OnTheWay ==
  ASSUME ClusterAssumption, NEW x \in Sessions, Fine(x),
         \A n \in Nodes : /\ x \in store'[n] <=> x \in store[n]
                          /\ x \in found'[n] <=> x \in found[n]
                          /\ Recovered(n)' => Recovered(n),
         missed \subseteq missed', raced \subseteq raced',
         \A j \in Tasks : j[3] = x =>
           \/ job'[j] = job[j]
           \/ job[j] \in Sent \ {"done"} /\ job'[j] \in Sent \ {"done"}
           \/ job[j] = "done" /\ job'[j] \in Sent \ {"done"}
           \/ job[j] = "idle" /\ j[4] = "request" /\ job'[j] = "queued"
  PROVE  Fine(x)'
<1>1. Fewer(x)
  BY DEF Fewer, Sent
<1>2. (\A n \in Nodes : Recovered(n)') => Kept(x)
  BY DEF Kept, Sent
<1> QED
  BY <1>1, <1>2, FewerFine

\* A step of a thread, or of a connection.
LEMMA ThreadFine ==
  ASSUME ClusterAssumption, TypeOfParts, NEW x \in Sessions, Fine(x), NEW n \in Nodes,
         \/ Poll(Main(n)) \/ Open(Main(n)) \/ Poll(Check(n)) \/ Open(Check(n))
         \/ OnNodeRegister(Main(n)) \/ OnNodeRegister(Check(n)) \/ EndRegister(n)
         \/ StartCheck(n) \/ CheckSucceeds(n) \/ CheckFails(n) \/ Start(n)
  PROVE  Fine(x)'
<1> USE DEF servers, sessions, history
<1>1. UNCHANGED <<store, found, missed, raced>>
  BY DEF Poll, Open, OnNodeRegister, EndRegister, StartCheck, CheckSucceeds, CheckFails, Start
<1>2. \A j \in Tasks : job'[j] = job[j]
  BY ThreadFacts, TaskParts
  DEF Poll, Open, OnNodeRegister, EndRegister, StartCheck, CheckSucceeds, CheckFails, Start, Goto,
      TypeOfParts
<1>3. \A m \in Nodes : Recovered(m)' => Recovered(m)
  <2> SUFFICES ASSUME NEW m \in Nodes, Recovered(m)' PROVE Recovered(m)
    OBVIOUS
  <2>0. /\ Main(n) \in Jobs /\ Check(n) \in Jobs /\ Main(m) \in Jobs /\ Check(n) # Main(m)
        /\ (Main(n) = Main(m) => n = m)
    BY JobFacts DEF Main, Check
  <2>1. CASE Poll(Main(n)) \/ Poll(Check(n))
    <3>1. phase' = phase /\ \E j \in {Main(n), Check(n)} : \E where :
                               where # "done" /\ Goto(j, where)
      <4>1. \A s \in Seq(Connection) : s # <<>> => Head(s) # "done"
        BY PoolFacts DEF Connection
      <4>2. pool[n] \in Seq(Connection) /\ Main(n)[1] = n /\ Check(n)[1] = n
        BY JobFacts DEF TypeOfParts
      <4> QED
        BY <2>1, <4>1, <4>2 DEF Poll
    <3> QED
      BY <2>0, <3>1 DEF Recovered, Goto, TypeOfParts
  <2>2. CASE Open(Main(n)) \/ Open(Check(n)) \/ OnNodeRegister(Main(n)) \/ OnNodeRegister(Check(n))
    BY <2>0, <2>2, JobFacts DEF Open, OnNodeRegister, Recovered, Goto, TypeOfParts
  <2>3. CASE EndRegister(n) \/ Start(n)
    BY <2>0, <2>3 DEF EndRegister, Start, Recovered, Goto, TypeOfParts
  <2>4. CASE StartCheck(n) \/ CheckSucceeds(n) \/ CheckFails(n)
    BY <2>0, <2>4 DEF StartCheck, CheckSucceeds, CheckFails, Recovered, Goto, TypeOfParts
  <2> QED
    BY <2>1, <2>2, <2>3, <2>4
<1> QED
  BY <1>1, <1>2, <1>3, OnTheWay

\* The step of a task leaves who has recovered as it is.
LEMMA TaskRecovered ==
  ASSUME TypeOfParts, NEW j \in Tasks, NEW n \in Nodes, phase' = phase,
         \A i \in Jobs \ Tasks : job'[i] = job[i]
  PROVE  Recovered(n)' <=> Recovered(n)
  BY ThreadFacts, JobFacts DEF Recovered

\* The network fails, or a server ends.
LEMMA BreakFine ==
  ASSUME ClusterAssumption, TypeOfParts, NEW x \in Sessions, Fine(x),
         Cut \/ \E n \in Nodes : End(n)
  PROVE  Fine(x)'
<1> USE DEF servers, sessions, history
<1>0. \A where \in States : /\ where \notin Sent => Muted(where) = where
                            /\ where \in Sent => Muted(where) \in Sent \ {"done"}
  BY DEF Muted, States, Sent
<1>1. \A where \in States : /\ where \in {"idle", "queued"} => Broken(where) = where
                            /\ Broken(where) \in Sent => where \in Sent
                            /\ Broken(where) = "queued" => where = "queued"
  BY DEF Broken, States, Sent
<1>2. CASE Cut
  <2>1. /\ \A j \in Jobs : job[j] \in States /\ job'[j] = Muted(job[j])
        /\ phase' = phase
    BY <1>2 DEF Cut, TypeOfParts
  <2>2. \A n \in Nodes : Recovered(n)' => Recovered(n)
    BY <2>1, JobFacts, MutedFacts DEF Recovered
  <2>3. \A j \in Tasks : \/ job'[j] = job[j]
                         \/ job[j] \in Sent \ {"done"} /\ job'[j] \in Sent \ {"done"}
                         \/ job[j] = "done" /\ job'[j] \in Sent \ {"done"}
    BY <1>0, <2>1, TaskParts DEF Sent
  <2> QED
    BY <1>2, <2>2, <2>3, OnTheWay DEF Cut
<1>3. ASSUME NEW n \in Nodes, End(n) PROVE Fine(x)'
  <2>1. /\ \A j \in Tasks : /\ job[j] \in States
                            /\ job'[j] = IF j[1] = n THEN "idle" ELSE Broken(job[j])
        /\ phase'[n] = "off" /\ store' = [store EXCEPT ![n] = {}] /\ found' = [found EXCEPT ![n] = {}]
        /\ UNCHANGED <<missed, raced>>
    BY <1>3, TaskParts DEF End, TypeOfParts
  <2>a. \A m \in Nodes : /\ store'[m] = IF m = n THEN {} ELSE store[m]
                         /\ found'[m] = IF m = n THEN {} ELSE found[m]
    BY <2>1 DEF TypeOfParts
  <2>b. \A j \in Tasks : /\ job[j] = "idle" => job'[j] = "idle"
                         /\ job'[j] = "queued" => job[j] = "queued"
                         /\ job'[j] \in Sent => job[j] \in Sent
    <3> SUFFICES ASSUME NEW j \in Tasks
                 PROVE  /\ job[j] = "idle" => job'[j] = "idle"
                        /\ job'[j] = "queued" => job[j] = "queued"
                        /\ job'[j] \in Sent => job[j] \in Sent
      OBVIOUS
    <3>1. CASE j[1] = n
      BY <2>1, <3>1 DEF Sent
    <3>2. CASE j[1] # n
      BY <1>1, <2>1, <3>2
    <3> QED
      BY <3>1, <3>2
  <2>2. Fewer(x)
    BY <2>1, <2>a, <2>b DEF Fewer
  <2>3. \A m \in Nodes : x \in store[m] /\ x \notin store'[m] => ~Sending(m, "create", x)'
    BY <2>1, <2>a DEF Sending, Sent
  <2>4. ~Recovered(n)'
    BY <2>1 DEF Recovered
  <2> QED
    BY <2>1, <2>2, <2>3, <2>4, FewerFine
<1> QED
  BY <1>2, <1>3

-----------------------------------------------------------------------------
(* Steps of the tasks *)

\* A send goes on, a task ends: what was not delivered to a peer that has recovered
\* is missed.
LEMMA SendFine ==
  ASSUME ClusterAssumption, TypeOfParts, Shape, NEW x \in Sessions, Fine(x), NEW j \in Tasks,
         Poll(j) \/ Open(j) \/ List(j) \/ EndTask(j)
  PROVE  Fine(x)'
<1> USE DEF servers, sessions, history
<1>1. /\ j \in Jobs /\ j[1] \in Nodes /\ Peer(j[1]) \in Nodes
      /\ UNCHANGED <<phase, store, found, raced>> /\ missed \subseteq missed'
  BY TaskParts, PeerFacts DEF Poll, Open, List, EndTask
<1>2. PICK where : Goto(j, where)
  BY DEF Poll, Open, List, EndTask
<1>3. \A i \in Jobs : job'[i] = IF i = j THEN where ELSE job[i]
  BY <1>2 DEF Goto, TypeOfParts
<1>4. \A n \in Nodes : Recovered(n)' <=> Recovered(n)
  BY <1>1, <1>3, TaskRecovered
<1>5. CASE where # "idle"
  <2>1. job[j] \in Sent \ {"done"} /\ job'[j] \in Sent \ {"done"}
    <3>1. \A c \in Seq(Connection) : c # <<>> => Head(c) \in Sent \ {"done"}
      BY PoolFacts DEF Connection, Sent
    <3>2. pool[j[1]] \in Seq(Connection) /\ job'[j] = where
      BY <1>1, <1>3 DEF TypeOfParts
    <3>3. CASE Poll(j)
      BY <1>1, <3>1, <3>2, <3>3 DEF Poll, Goto, TypeOfParts, Sent
    <3>4. CASE Open(j) \/ List(j) \/ EndTask(j)
      BY <1>1, <1>5, <3>2, <3>4 DEF Open, List, EndTask, Goto, TypeOfParts, Sent
    <3> QED
      BY <3>3, <3>4
  <2>2. \A i \in Tasks : \/ job'[i] = job[i]
                         \/ job[i] \in Sent \ {"done"} /\ job'[i] \in Sent \ {"done"}
    BY <1>3, <2>1, TaskParts
  <2> QED
    BY <1>1, <1>4, <2>2, OnTheWay
<1>6. CASE where = "idle"
  <2>1. /\ (List(j) \/ EndTask(j)) /\ job[j] \in Sent /\ job[j] # "queued"
        /\ job[j] = "done" \/ (Recovered(Peer(j[1])) => j[3] \in missed')
    <3>1. job'[j] = "idle"
      BY <1>1, <1>3, <1>6
    <3>2. ~Open(j)
      BY <1>1, <3>1 DEF Open, Goto, TypeOfParts
    <3>3. ~Poll(j)
      <4>1. \A c \in Seq(Connection) : c # <<>> => Head(c) # "idle"
        BY PoolFacts DEF Connection
      <4>2. pool[j[1]] \in Seq(Connection)
        BY <1>1 DEF TypeOfParts
      <4> QED
        BY <1>1, <3>1, <4>1, <4>2 DEF Poll, Goto, TypeOfParts
    <3>4. CASE List(j)
      BY <1>1, <3>1, <3>4 DEF List, Goto, TypeOfParts, Sent
    <3>5. CASE EndTask(j)
      BY <3>5 DEF EndTask, Answered, Sent
    <3> QED
      BY <3>2, <3>3, <3>4, <3>5
  <2>2. \A i \in Tasks : job'[i] = IF i = j THEN "idle" ELSE job[i]
    BY <1>3, <1>6, TaskParts
  <2>3. Fewer(x)
    BY <1>1, <2>2 DEF Fewer, Sent
  <2>4. x \notin missed' /\ (\A n \in Nodes : Recovered(n)') => Kept(x)
    <3> SUFFICES ASSUME x \notin missed', \A n \in Nodes : Recovered(n)
                 PROVE  Kept(x)
      BY <1>4
    <3>1. j[3] = x => job[j] = "done"
      BY <1>1, <2>1
    <3> QED
      BY <1>1, <2>2, <3>1 DEF Kept, Sent
  <2> QED
    BY <1>1, <2>3, <2>4, FewerFine
<1> QED
  BY <1>5, <1>6

\* A wait for an answer is given up.
LEMMA GiveUpFine ==
  ASSUME ClusterAssumption, TypeOfParts, NEW x \in Sessions, Fine(x), NEW j \in Jobs, GiveUp(j)
  PROVE  Fine(x)'
<1> USE DEF servers, sessions, history
<1>1. /\ UNCHANGED <<phase, store, found, missed, raced>>
      /\ job[j] \in {"mute", "unopened"}
      /\ \A i \in Jobs : job'[i] = job[i] \/ (i = j /\ job'[i] \in {"stale", "lost"})
  BY DEF GiveUp, Goto, TypeOfParts
<1>2. \A n \in Nodes : Recovered(n)' => Recovered(n)
  BY <1>1, JobFacts DEF Recovered
<1>3. \A i \in Tasks : \/ job'[i] = job[i]
                       \/ job[i] \in Sent \ {"done"} /\ job'[i] \in Sent \ {"done"}
  BY <1>1, TaskParts DEF Sent
<1> QED
  BY <1>1, <1>2, <1>3, OnTheWay

\* A command is asked for.
LEMMA AskFine ==
  ASSUME ClusterAssumption, TypeOfParts, NEW x \in Sessions, Fine(x),
         NEW n \in Nodes, NEW cmd \in Commands, NEW y \in Sessions, NEW r \in Requests,
         Ask(n, cmd, y, r)
  PROVE  Fine(x)'
<1> USE DEF servers, sessions, history
<1> DEFINE j == <<n, cmd, y, "request", r>>
<1>1. j \in Tasks /\ j[4] = "request" /\ j \in TasksOf(r)
  BY RequestFacts DEF ClusterAssumption, TasksOf
<1>2. job[j] = "idle" /\ Goto(j, "queued") /\ UNCHANGED <<phase, store, found, missed, raced>>
  BY <1>1 DEF Ask
<1> HIDE DEF j
<1>3. \A i \in Jobs : job'[i] = job[i] \/ (i = j /\ job'[i] = "queued")
  BY <1>2 DEF Goto, TypeOfParts
<1>4. \A m \in Nodes : Recovered(m)' => Recovered(m)
  BY <1>1, <1>2, <1>3, TaskRecovered
<1> QED
  BY <1>1, <1>2, <1>3, <1>4, TaskParts, OnTheWay

\* The step of a task of another session.
LEMMA OtherFine ==
  ASSUME ClusterAssumption, TypeOfParts, Shape, NEW x \in Sessions, Fine(x), NEW j \in Tasks,
         Run(j) \/ Forward(j), j[3] # x
  PROVE  Fine(x)'
<1> USE DEF servers, sessions, history
<1>1. Forward(j) => /\ Message(j) \in Tasks /\ Message(j)[3] = j[3]
                    /\ job' = [job EXCEPT ![j] = "done", ![Message(j)] = "queued"]
  <2>1. Forward(j) => j[4] # "recovery"
    BY TaskRuns DEF Forward
  <2> QED
    BY <2>1, MessageFacts DEF Forward, Message
<1>2. \A i \in Jobs : i \notin Tasks \/ i[3] = x => job'[i] = job[i]
  BY <1>1 DEF Run, Goto, TypeOfParts
<1>3. /\ phase' = phase /\ UNCHANGED <<found, missed>> /\ raced \subseteq raced'
      /\ \A n \in Nodes : x \in store'[n] <=> x \in store[n]
  <2>1. CASE Forward(j)
    BY <2>1 DEF Forward
  <2>2. CASE Run(j)
    BY <2>2, TaskParts DEF Run, TypeOfParts
  <2> QED
    BY <2>1, <2>2
<1>4. \A n \in Nodes : Recovered(n)' <=> Recovered(n)
  BY <1>2, <1>3, TaskRecovered
<1> QED
  BY <1>2, <1>3, <1>4, TaskParts, OnTheWay

\* The peer is handed a command that was done here.
LEMMA ForwardFine ==
  ASSUME ClusterAssumption, TypeOfParts, Shape, NEW x \in Sessions, Fine(x), NEW j \in Tasks,
         Forward(j), j[3] = x
  PROVE  Fine(x)'
<1> USE DEF servers, sessions, history
<1> DEFINE n == j[1]
           p == Peer(n)
           cmd == j[2]
<1>1. /\ n \in Nodes /\ p \in Nodes /\ p # n /\ Peer(p) = n /\ Peer(n) = p
      /\ \A m \in Nodes : m = n \/ m = p
      /\ cmd \in {"create", "expire"}
  BY TaskParts, PeerFacts
<1>2. /\ job[j] = "live" /\ j[4] = "request" /\ Message(j) \in Tasks
      /\ job' = [job EXCEPT ![j] = "done", ![Message(j)] = "queued"]
      /\ UNCHANGED <<phase, store, found, missed, raced>>
  BY TaskRuns, MessageFacts DEF Forward, Message
<1>3. /\ Message(j)[1] = p /\ Message(j)[2] = cmd /\ Message(j)[3] = x
      /\ Message(j)[4] = "message"
  BY DEF Message
<1>4. \A i \in Jobs : job'[i] = IF i = Message(j) THEN "queued" ELSE IF i = j THEN "done" ELSE job[i]
  BY <1>2, TaskParts DEF TypeOfParts
<1>5. \A m \in Nodes : Recovered(m)' <=> Recovered(m)
  BY <1>2, <1>4, TaskRecovered
<1>6. job[Message(j)] \in {"idle", "queued"}
  BY <1>2, <1>3 DEF Shape
<1> HIDE DEF n, p, cmd
<1>7. \A i \in Tasks : /\ job'[i] \in Sent <=> job[i] \in Sent
                       /\ job[i] \in Sent \ {"done"} => i = j \/ job'[i] \in Sent \ {"done"}
                       /\ job[i] = "queued" => job'[i] = "queued"
                       /\ job'[i] = "queued" => job[i] = "queued" \/ i = Message(j)
  <2>1. Message(j) # j
    BY <1>2, <1>3
  <2>2. \A i \in Tasks : \/ i = Message(j) /\ job'[i] = "queued"
                         \/ i = j /\ job'[i] = "done"
                         \/ i # j /\ i # Message(j) /\ job'[i] = job[i]
    BY <1>4, <2>1, TaskParts
  <2> QED
    BY <1>2, <1>6, <2>1, <2>2 DEF Sent
<1>8. \A m \in Nodes : \A c : Sending(m, c, x)' <=> Sending(m, c, x)
  BY <1>7 DEF Sending
<1>9. \A m \in Nodes : \A c : Handed(m, c, x)' <=> Handed(m, c, x) \/ (m = p /\ c = cmd)
  <2> SUFFICES ASSUME NEW m \in Nodes, NEW c
               PROVE  Handed(m, c, x)' <=> Handed(m, c, x) \/ (m = p /\ c = cmd)
    OBVIOUS
  <2>1. Handed(m, c, x) => Handed(m, c, x)'
    BY <1>7 DEF Handed
  <2>2. job'[Message(j)] = "queued"
    BY <1>2, <1>4, TaskParts
  <2>3. m = p /\ c = cmd => Handed(m, c, x)'
    BY <1>2, <1>3, <2>2 DEF Handed
  <2>4. Handed(m, c, x)' => Handed(m, c, x) \/ (m = p /\ c = cmd)
    BY <1>3, <1>7 DEF Handed
  <2> QED
    BY <2>1, <2>3, <2>4
<1>10. Sending(n, cmd, x)
  BY <1>2 DEF Sending, Sent, n, cmd
<1>11. \A m \in Nodes : \A c : Telling(m, c, x) => Telling(m, c, x)'
  <2> SUFFICES ASSUME NEW m \in Nodes, NEW c, Telling(m, c, x) PROVE Telling(m, c, x)'
    OBVIOUS
  <2>1. CASE Handed(m, c, x)
    BY <1>9, <2>1 DEF Telling
  <2>2. CASE ~Handed(m, c, x)
    <3>1. PICK i \in Tasks : i[1] = Peer(m) /\ i[2] = c /\ i[3] = x /\ job[i] \in Sent \ {"done"}
      BY <2>2 DEF Telling
    <3>2. CASE i = j
      <4>1. m = p /\ c = cmd
        BY <1>1, <3>1, <3>2 DEF n, cmd
      <4> QED
        BY <1>9, <4>1 DEF Telling
    <3>3. CASE i # j
      BY <1>7, <3>1, <3>3 DEF Telling
    <3> QED
      BY <3>2, <3>3
  <2> QED
    BY <2>1, <2>2
<1> SUFFICES ASSUME x \notin missed \cup raced PROVE SessionOK(x)'
  BY <1>2 DEF Fine
<1>12. SessionOK(x)
  BY DEF Fine
<1>13. \A m \in Nodes : Done(m, x)'
  BY <1>2, <1>8, <1>12 DEF SessionOK, Done
<1>14. ASSUME \A m \in Nodes : Recovered(m), NEW m \in Nodes PROVE Alike(m, x)'
  <2>1. Alike(m, x)
    BY <1>12, <1>14 DEF SessionOK
  <2>2. Peer(p) = n /\ (cmd = "create" => x \in store[n]) /\ (cmd = "expire" => x \notin store[n])
    BY <1>1, <1>10, <1>12 DEF SessionOK, Done
  <2>3. Incoming(m, x)' <=> Incoming(m, x) \/ (m = p /\ cmd = "create")
    BY <1>2, <1>9 DEF Incoming
  <2>4. Peer(m) \in Nodes
    BY PeerFacts
  <2> QED
    BY <1>1, <1>2, <1>9, <1>11, <2>1, <2>2, <2>3, <2>4 DEF Alike
<1> QED
  BY <1>5, <1>13, <1>14 DEF SessionOK

\* A server creates or expires the session.
LEMMA RunFine ==
  ASSUME ClusterAssumption, TypeOfParts, Shape, NEW x \in Sessions, Fine(x), NEW j \in Tasks,
         Run(j), j[3] = x
  PROVE  Fine(x)'
<1> USE DEF servers, sessions, history
<1> DEFINE n == j[1]
           p == Peer(n)
           cmd == j[2]
           request == j[4] = "request"
<1>1. /\ n \in Nodes /\ p \in Nodes /\ p # n /\ Peer(p) = n /\ Peer(n) = p
      /\ \A m \in Nodes : m = n \/ m = p
      /\ cmd \in {"create", "expire"}
  BY TaskParts, PeerFacts
<1>2. /\ UNCHANGED <<phase, found, missed>> /\ raced \subseteq raced'
      /\ job[j] = "queued"
      /\ \A i \in Jobs : job'[i] = IF i = j THEN (IF request THEN "stored" ELSE "idle") ELSE job[i]
  BY DEF Run, Goto, TypeOfParts
<1>3. \A m \in Nodes : Recovered(m)' <=> Recovered(m)
  BY <1>2, TaskRecovered
<1>4. /\ cmd = "create" => x \in store'[n]
      /\ cmd = "expire" => x \notin store'[n]
      /\ store'[p] = store[p]
  BY <1>1 DEF Run, TypeOfParts
<1>5. x \notin raced' => x \notin Underway(Opposite(cmd))
  BY DEF Run
<1> HIDE DEF n, p, cmd, request
<1>6. \A i \in Tasks : /\ job'[i] \in Sent <=> job[i] \in Sent \/ (i = j /\ request)
                       /\ job[i] \in Sent \ {"done"} => job'[i] \in Sent \ {"done"}
                       /\ i = j /\ request => job'[i] \in Sent \ {"done"}
                       /\ job'[i] = "queued" <=> job[i] = "queued" /\ i # j
  BY <1>2, TaskParts DEF Sent
<1>7. \A m \in Nodes : \A c : Sending(m, c, x)' => Sending(m, c, x) \/ (m = n /\ c = cmd /\ request)
  BY <1>6 DEF Sending, n, cmd
<1>8. \A m \in Nodes : \A c : /\ Handed(m, c, x)' => Handed(m, c, x)
                              /\ ~(m = n /\ c = cmd) => (Handed(m, c, x) => Handed(m, c, x)')
  BY <1>6 DEF Handed, n, cmd
<1>9. ~request => Handed(n, cmd, x)
  BY <1>2 DEF Handed, n, cmd, request
<1>10. request => Telling(p, cmd, x)'
  BY <1>1, <1>6 DEF Telling, n, cmd
<1> SUFFICES ASSUME x \notin missed \cup raced' PROVE SessionOK(x)'
  BY <1>2 DEF Fine
<1>11. SessionOK(x)
  BY <1>2 DEF Fine
\* nothing of the opposite command is under way
<1>12. \A c : c # cmd /\ c \in {"create", "expire"} =>
                \A m \in Nodes : ~Sending(m, c, x) /\ ~Handed(m, c, x) /\ ~Telling(m, c, x)
  <2> SUFFICES ASSUME NEW c \in {"create", "expire"}, c # cmd, NEW m \in Nodes
               PROVE  ~Sending(m, c, x) /\ ~Handed(m, c, x) /\ ~Telling(m, c, x)
    OBVIOUS
  <2>1. c = Opposite(cmd)
    BY <1>1 DEF Opposite
  <2>2. \A t \in Tasks : t[2] = c /\ t[3] = x => job[t] = "idle"
    BY <1>5, <2>1 DEF Underway
  <2> QED
    BY <2>2 DEF Sending, Handed, Telling, Sent
<1>13. CASE cmd = "create"
  <2>1. \A m \in Nodes : /\ ~Sending(m, "expire", x)' /\ ~Handed(m, "expire", x)'
                         /\ ~Telling(m, "expire", x)
    BY <1>7, <1>8, <1>12, <1>13
  <2>2. \A m \in Nodes : x \in store[m] => x \in store'[m]
    BY <1>1, <1>4, <1>13
  <2>3. \A m \in Nodes : Done(m, x)'
    BY <1>4, <1>7, <1>11, <1>13, <2>1, <2>2 DEF SessionOK, Done
  <2>4. ASSUME \A m \in Nodes : Recovered(m) PROVE Alike(n, x)' /\ Alike(p, x)'
    <3>1. Alike(n, x) /\ Alike(p, x)
      BY <1>1, <1>11, <2>4 DEF SessionOK
    <3>2. \A m \in Nodes : Incoming(m, x)' => Incoming(m, x)
      BY <1>2, <1>8 DEF Incoming
    <3>3. Alike(n, x)'
      BY <1>1, <1>4, <1>13, <2>1, <2>2, <3>1, <3>2 DEF Alike
    <3>4. x \in store[p] \/ Telling(p, "create", x)'
      BY <1>1, <1>9, <1>10, <1>13, <3>1 DEF Alike, Incoming
    <3>5. Alike(p, x)'
      BY <1>1, <1>4, <2>1, <2>2, <3>1, <3>2, <3>4 DEF Alike
    <3> QED
      BY <3>3, <3>5
  <2> QED
    BY <1>1, <1>3, <2>3, <2>4 DEF SessionOK
<1>14. CASE cmd = "expire"
  <2>1. \A m \in Nodes : ~Sending(m, "create", x)' /\ ~Handed(m, "create", x)'
    BY <1>7, <1>8, <1>12, <1>14
  <2>2. \A m \in Nodes : x \notin found[m]
    BY <1>5, <1>14 DEF Underway, Opposite
  <2>3. \A m \in Nodes : x \in store'[m] => x \in store[m]
    BY <1>1, <1>4, <1>14
  <2>4. \A m \in Nodes : Done(m, x)'
    BY <1>4, <1>7, <1>11, <1>14, <2>1, <2>3 DEF SessionOK, Done
  <2>5. ASSUME \A m \in Nodes : Recovered(m) PROVE Alike(n, x)' /\ Alike(p, x)'
    <3>1. Alike(n, x) /\ Alike(p, x)
      BY <1>1, <1>11, <2>5 DEF SessionOK
    <3>2. \A m \in Nodes : ~Incoming(m, x)'
      BY <1>2, <2>1, <2>2 DEF Incoming
    <3>3. x \notin store[p] \/ Telling(p, "expire", x)'
      BY <1>1, <1>9, <1>10, <1>14, <3>1 DEF Alike
    <3>4. Alike(n, x)'
      BY <1>1, <1>4, <1>8, <2>3, <3>1, <3>2, <3>3 DEF Alike
    <3>5. Alike(p, x)'
      BY <1>1, <1>4, <1>14, <3>2 DEF Alike
    <3> QED
      BY <3>4, <3>5
  <2> QED
    BY <1>1, <1>3, <2>4, <2>5 DEF SessionOK
<1> QED
  BY <1>1, <1>13, <1>14

-----------------------------------------------------------------------------
(* Recovery *)

\* A server that starts is given what its peer has.
LEMMA GetAllFine ==
  ASSUME ClusterAssumption, TypeOfParts, Shape, Links, NEW x \in Sessions, Fine(x),
         NEW n \in Nodes, GetAll(n)
  PROVE  Fine(x)'
<1> USE DEF servers, sessions, history
<1> DEFINE p == Peer(n)
<1>1. /\ p \in Nodes /\ p # n /\ Peer(p) = n /\ Peer(n) = p /\ \A m \in Nodes : m = n \/ m = p
  BY PeerFacts
<1>2. phase[p] = "up" /\ phase[n] = "recover"
  BY JobFacts DEF GetAll, Links, Unlinked
<1>3. /\ UNCHANGED <<store, raced>>
      /\ found'[n] = store[p] /\ found'[p] = {} /\ store[n] = {}
      /\ missed \subseteq missed'
  BY <1>1, <1>2 DEF GetAll, Shape, TypeOfParts
<1>4. \A i \in Tasks : job'[i] = job[i] /\ (i[1] = n => job[i] = "idle")
  BY <1>2, ThreadFacts, TaskParts DEF GetAll, Goto, Shape, TypeOfParts
<1>5. x \notin missed' => \A c : ~Handed(p, c, x)
  BY DEF GetAll, Handed
<1> HIDE DEF p
<1>6. \A m \in Nodes : \A c : /\ Sending(m, c, x)' <=> Sending(m, c, x)
                              /\ Handed(m, c, x)' <=> Handed(m, c, x)
  BY <1>4 DEF Sending, Handed
<1>7. \A c : ~Handed(n, c, x)
  BY <1>4 DEF Handed
<1> SUFFICES ASSUME x \notin missed' \cup raced PROVE SessionOK(x)'
  BY <1>3 DEF Fine
<1>8. SessionOK(x)
  BY <1>3 DEF Fine
<1>9. \A m \in Nodes : Done(m, x)'
  BY <1>3, <1>6, <1>8 DEF SessionOK, Done
<1>10. Alike(n, x)'
  BY <1>1, <1>3, <1>6, <1>7 DEF Alike, Incoming
<1>11. Alike(p, x)'
  BY <1>1, <1>3, <1>5, <1>6 DEF Alike, Incoming
<1> QED
  BY <1>1, <1>9, <1>10, <1>11 DEF SessionOK

\* A server has recovered and accepts.
LEMMA EndRecoverFine ==
  ASSUME ClusterAssumption, TypeOfParts, Shape, Links, NEW x \in Sessions, Fine(x),
         NEW n \in Nodes, EndRecover(n)
  PROVE  Fine(x)'
<1> USE DEF servers, sessions, history
<1> DEFINE p == Peer(n)
<1>1. /\ p \in Nodes /\ p # n /\ Peer(p) = n /\ Peer(n) = p /\ \A m \in Nodes : m = n \/ m = p
  BY PeerFacts
<1>2. /\ UNCHANGED <<store, raced>> /\ missed \subseteq missed'
      /\ found'[n] = {} /\ found'[p] = found[p]
      /\ phase[n] = "recover" /\ phase'[n] = "up" /\ phase'[p] = phase[p]
  BY <1>1 DEF EndRecover, TypeOfParts
<1>3. \A i \in Tasks :
        job'[i] = IF \E y \in Recoverable(n) : i = Recovery(n, y) THEN "queued" ELSE job[i]
  BY ThreadFacts, TaskParts DEF EndRecover, Recovery
<1>4. job'[Main(p)] = job[Main(p)]
  BY <1>1, JobFacts DEF EndRecover, Main
<1>5. x \notin missed' /\ phase[p] = "up" =>
        job[Main(n)] = "done" /\ (x \in Recoverable(n) => x \in found[n])
  BY <1>1 DEF EndRecover
<1>6. Recoverable(n) \subseteq Sessions /\ (x \in found[n] => x \in Recoverable(n))
  BY DEF Recoverable, TypeOfParts
<1> HIDE DEF p
\* a server that recovers has no tasks
<1>7. \A i \in Tasks : i[1] = n => job[i] = "idle"
  BY <1>2 DEF Shape
<1>8. \A y \in Recoverable(n) : /\ Recovery(n, y) \in Tasks
                                /\ Recovery(n, y)[1] = n /\ Recovery(n, y)[2] = "create"
                                /\ Recovery(n, y)[3] = y /\ Recovery(n, y)[4] = "recovery"
  BY <1>6, RecoveryFacts
<1>9. \A i \in Tasks : /\ job[i] \in Sent => job'[i] = job[i]
                       /\ job'[i] \in Sent => job[i] \in Sent
                       /\ job[i] = "queued" => job'[i] = "queued"
  BY <1>3, <1>7, <1>8 DEF Sent
<1>10. \A m \in Nodes : \A c : Sending(m, c, x)' <=> Sending(m, c, x)
  BY <1>9 DEF Sending
<1>11. \A m \in Nodes : \A c : Handed(m, c, x)' <=>
         Handed(m, c, x) \/ (m = n /\ c = "create" /\ x \in Recoverable(n))
  <2> SUFFICES ASSUME NEW m \in Nodes, NEW c
               PROVE  Handed(m, c, x)' <=>
                        Handed(m, c, x) \/ (m = n /\ c = "create" /\ x \in Recoverable(n))
    OBVIOUS
  <2>1. Handed(m, c, x) => Handed(m, c, x)'
    BY <1>9 DEF Handed
  <2>2. x \in Recoverable(n) => Handed(n, "create", x)'
    BY <1>3, <1>8 DEF Handed
  <2>3. Handed(m, c, x)' => Handed(m, c, x) \/ (m = n /\ c = "create" /\ x \in Recoverable(n))
    BY <1>3, <1>8 DEF Handed
  <2> QED
    BY <2>1, <2>2, <2>3
<1> SUFFICES ASSUME x \notin missed' \cup raced PROVE SessionOK(x)'
  BY <1>2 DEF Fine
<1>12. SessionOK(x)
  BY <1>2 DEF Fine
<1>13. \A m \in Nodes : Done(m, x)'
  BY <1>2, <1>10, <1>12 DEF SessionOK, Done
<1>14. CASE phase[p] = "up"
  <2>1. \A m \in Nodes : Recovered(m)
    BY <1>1, <1>2, <1>5, <1>14 DEF Recovered
  <2>2. Alike(n, x) /\ Alike(p, x)
    BY <1>1, <1>12, <2>1 DEF SessionOK
  <2>3. \A m \in Nodes : Incoming(m, x)' <=> Incoming(m, x)
    <3>1. x \in Recoverable(n) <=> x \in found[n]
      BY <1>5, <1>6, <1>14
    <3> QED
      BY <1>1, <1>2, <1>11, <3>1 DEF Incoming
  <2>4. \A m \in Nodes : Handed(m, "expire", x)' <=> Handed(m, "expire", x)
    BY <1>11
  <2>5. \A m \in Nodes : \A c : Telling(m, c, x) => Telling(m, c, x)'
    BY <1>9, <1>11 DEF Telling
  <2>6. Alike(n, x)' /\ Alike(p, x)'
    BY <1>1, <1>2, <2>2, <2>3, <2>4, <2>5 DEF Alike
  <2> QED
    BY <1>1, <1>13, <2>6 DEF SessionOK
<1>15. CASE phase[p] # "up"
  <2>1. ~Recovered(p)'
    BY <1>1, <1>2, <1>4, <1>15, JobFacts DEF Recovered, Links, Unlinked
  <2> QED
    BY <1>1, <1>13, <2>1 DEF SessionOK
<1> QED
  BY <1>14, <1>15

-----------------------------------------------------------------------------
(* Theorem *)

LEMMA SyncInit == ClusterAssumption /\ Init => SyncInv
<1> SUFFICES ASSUME ClusterAssumption, Init PROVE SyncInv
  OBVIOUS
<1>1. Shape
  BY TaskParts DEF Init, Shape
<1>2. Links
  BY PeerFacts DEF Init, Links, Unlinked
<1>3. ASSUME NEW x \in Sessions PROVE Fine(x)
  <2>1. \A n \in Nodes : \A c : ~Sending(n, c, x) /\ ~Handed(n, c, x)
    BY TaskParts DEF Init, Sending, Handed, Sent
  <2>2. \A n \in Nodes : Done(n, x) /\ Alike(n, x)
    BY <2>1, PeerFacts DEF Init, Done, Alike, Incoming
  <2> QED
    BY <2>2 DEF Fine, SessionOK
<1> QED
  BY <1>1, <1>2, <1>3 DEF SyncInv

LEMMA SyncStep ==
  ASSUME ClusterAssumption, TypeOfParts, SyncInv, [Next]_vars
  PROVE  SyncInv'
<1>1. Shape' /\ Links'
  BY ShapeStep, LinksStep DEF SyncInv
<1>2. ASSUME NEW x \in Sessions PROVE Fine(x)'
  <2>1. Shape /\ Links /\ Fine(x)
    BY DEF SyncInv
  <2>2. ASSUME NEW n \in Nodes, StartStep(n) \/ CheckStep(n) \/ Start(n) PROVE Fine(x)'
    BY <2>1, <2>2, ThreadFine, GetAllFine, EndRecoverFine DEF StartStep, CheckStep, Send
  <2>3. ASSUME NEW j \in Tasks, TaskStep(j) PROVE Fine(x)'
    BY <2>1, <2>3, SendFine, OtherFine, ForwardFine, RunFine DEF TaskStep, Send
  <2>4. CASE Mend \/ UNCHANGED vars
    BY <2>1, <2>4, OnTheWay DEF Mend, vars, sessions, history, Recovered
  <2> QED
    BY <2>1, <2>2, <2>3, <2>4, BreakFine, GiveUpFine, AskFine DEF Next
<1> QED
  BY <1>1, <1>2 DEF SyncInv

\* When both servers are up and their tasks are done, or wait for what will never come,
\* they have the same sessions, but for those about which a command did not reach a
\* peer that had recovered, or waits, or of which a create and an expire were under way
\* at once: for any number of sessions, of commands about each of them, starts, crashes
\* and cuts.  Registering comes before recovering, and recovering before accepting,
\* without a gap in which a command gets lost.
THEOREM ServersInSync == Spec => []InSync
<1>1. Init => TypeOfParts /\ SyncInv
  BY ClusterAssumption, TypeInit, SyncInit
<1>2. TypeOfParts /\ SyncInv /\ [Next]_vars => (TypeOfParts /\ SyncInv)'
  BY ClusterAssumption, TypeStep, SyncStep
<1>3. SyncInv => InSync
  <2> SUFFICES ASSUME SyncInv, \A n \in Nodes : phase[n] = "up",
                      \A j \in Tasks : job[j] = "idle" \/ Silent(j),
                      NEW x \in Sessions \ (missed \cup raced), NEW n \in Nodes, NEW p \in Nodes,
                      \A j \in Tasks : j[3] = x => ~Silent(j), x \in store[n]
               PROVE  x \in store[p]
    BY DEF InSync
  <2>1. CASE p = n
    BY <2>1
  <2>2. CASE p # n
    <3>1. Peer(p) = n
      BY <2>2, PeerFacts, ClusterAssumption
    <3>2. Alike(p, x)
      BY DEF SyncInv, Fine, SessionOK, Recovered
    <3>3. \A j \in Tasks : j[3] = x => job[j] = "idle"
      OBVIOUS
    <3>4. ~Incoming(p, x)
      BY <3>3 DEF Incoming, Handed, SyncInv, Shape
    <3>5. ~Telling(p, "create", x) /\ ~Telling(Peer(p), "expire", x)
      BY <3>3 DEF Telling, Handed, Sent
    <3> QED
      BY <3>1, <3>2, <3>4, <3>5 DEF Alike
  <2> QED
    BY <2>1, <2>2
<1> QED
  BY <1>1, <1>2, <1>3, PTL DEF Spec
=============================================================================
