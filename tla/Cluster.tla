------------------------------ MODULE Cluster ------------------------------
(***************************************************************************)
(* Two session servers that replicate to each other: WessionDaemon's start,*)
(* ClusterManager with its node check, ClusterNode and its connection pool,*)
(* the worker of ClusterService, and the executor tasks of                 *)
(* WessionSessionManager that create and expire a session, here and there. *)
(*                                                                         *)
(* A send takes a connection from the pool of the peer's ClusterNode, or   *)
(* opens one, and waits for the answer; it has no timeout.  A server that  *)
(* has bound its port but does not accept yet lets its callers wait.  When *)
(* a process ends or the network is cut the connections to it break, which *)
(* only the next use of a connection reveals; and a cut leaves those that  *)
(* wait on a connection without an answer, perhaps for ever.               *)
(***************************************************************************)
EXTENDS Integers, Sequences, FiniteSets

CONSTANTS Nodes,      \* the two servers
          Sessions,   \* session ids
          Commands,   \* what is asked for: "create", "expire"
          Requests,   \* bounds the commands that are under way at the same time
          MaxEvents,  \* bound on the starts of servers and cuts of the network
          MaxCuts     \* bound on the cuts among them

ASSUME ClusterAssumption ==
  /\ IsFiniteSet(Nodes) /\ Cardinality(Nodes) = 2
  /\ Commands \subseteq {"create", "expire"}
  /\ MaxEvents \in Nat /\ MaxCuts \in Nat

Peer(n) == CHOOSE p \in Nodes : p # n

\* The threads that send: the one that starts a server, its node check thread,
\* and one executor thread for each task.  A task is due to a request here, to the
\* message by which the peer passes one on, or to the recovery of a start.
Threads == Nodes \X {"main", "check"}
Tasks == (Nodes \X {"create", "expire"} \X Sessions \X {"request", "message"} \X Requests)
           \cup (Nodes \X {"create"} \X Sessions \X {"recovery"})
TasksOf(r) == Nodes \X {"create", "expire"} \X Sessions \X {"request", "message"} \X {r}
Jobs  == Threads \cup Tasks

VARIABLES
  phase,    \* of a server: off, register, recover or up
  starts,   \* how often a server has started
  linked,   \* is the network whole?
  cuts,     \* how often it was cut
  peers,    \* clusterNodes: the registered servers
  pool,     \* the connections in the pool of the ClusterNode of the peer
  job,      \* how far a thread or task is
  orphans,  \* the jobs that use a ClusterNode whose pool was destroyed
  found,    \* the sessions in the answer to a recovering server
  store,    \* the ids of the sessions in the repository
  journal,  \* the ids that recoverAll finds in the journal files
  missed,   \* history: sessions a command about which did not reach the peer
  raced     \* history: sessions with a create and an expire under way at once

vars == <<phase, starts, linked, cuts, peers, pool, job, orphans, found, store,
          journal, missed, raced>>
servers == <<phase, starts, linked, cuts>>
sessions == <<found, store, journal>>
history == <<missed, raced>>

Init ==
  /\ phase = [n \in Nodes |-> "off"]
  /\ starts = 0
  /\ linked = TRUE
  /\ cuts = 0
  /\ peers = [n \in Nodes |-> {}]
  /\ pool = [n \in Nodes |-> <<>>]
  /\ job = [j \in Jobs |-> "idle"]
  /\ orphans = {}
  /\ found = [n \in Nodes |-> {}]
  /\ store = [n \in Nodes |-> {}]
  /\ journal = [n \in Nodes |-> {}]
  /\ missed = {}
  /\ raced = {}

Main(n) == <<n, "main">>
Check(n) == <<n, "check">>
Goto(j, where) == job' = [job EXCEPT ![j] = where]

\* The peer has taken what it will ever be given of the sessions stored so far.
Recovered(n) == phase[n] = "up" \/ (phase[n] = "recover" /\ job[Main(n)] = "done")

\* The sessions that a command is under way for, or that a start is about to create.
Underway(cmd) == {x \in Sessions :
  \/ cmd = "create" /\ \E n \in Nodes : x \in found[n]
  \/ \E t \in Tasks : t[2] = cmd /\ t[3] = x /\ job[t] # "idle"}

-----------------------------------------------------------------------------
(* ClusterNode.send and BasicConnectionPool *)

\* get: the oldest connection of the pool or a new one, none of a destroyed pool.
Poll(j) ==
  LET n == j[1]
  IN  /\ job[j] = "poll"
      /\ IF j \in orphans
           THEN Goto(j, "lost") /\ UNCHANGED pool
           ELSE IF pool[n] # <<>>
             THEN /\ Goto(j, Head(pool[n]))
                  /\ pool' = [pool EXCEPT ![n] = Tail(@)]
             ELSE /\ Goto(j, IF phase[Peer(n)] # "off" /\ linked THEN "new" ELSE "lost")
                  /\ UNCHANGED pool
      /\ UNCHANGED <<servers, peers, orphans, sessions, history>>

\* A new connection is ready when the peer accepts and its worker writes the head
\* of its stream.
Open(j) ==
  /\ job[j] = "new"
  /\ phase[Peer(j[1])] = "up"
  /\ Goto(j, "live")
  /\ UNCHANGED <<servers, peers, pool, orphans, sessions, history>>

\* mutant: the release of a connection that was not made
ReleasedAnyway(j) ==
  pool' = [pool EXCEPT ![j[1]] = Append(@, IF job[j] = "done" THEN "live" ELSE job[j])]

\* release: a connection, broken or not, goes back to the pool it came from.
Released(j) ==
  IF j \in orphans \/ job[j] = "lost"
    THEN UNCHANGED pool
    ELSE pool' = [pool EXCEPT ![j[1]] = Append(@, IF job[j] = "done" THEN "live" ELSE "stale")]

Answered(j) == job[j] \in {"done", "stale", "lost"}

-----------------------------------------------------------------------------
(* The worker of ClusterService *)

\* mutant: a check is answered, and does not register the one that checks
OnlyRegister(j) ==
  LET n == j[1]  p == Peer(n)
  IN  /\ job[j] = "live"
      /\ j \in Threads
      /\ j = Main(n) => phase[n] = "register"
      /\ peers' = IF j = Main(n) THEN [peers EXCEPT ![p] = @ \cup {n}] ELSE peers
      /\ pool' = IF j # Main(n) \/ n \in peers[p] THEN pool ELSE [pool EXCEPT ![p] = <<>>]
      /\ Goto(j, "done")
      /\ UNCHANGED <<servers, orphans, sessions, history>>

\* OnNodeRegister: the sender gets a new ClusterNode, unless it has one.
OnNodeRegister(j) ==
  LET n == j[1]  p == Peer(n)
  IN  /\ job[j] = "live"
      /\ j \in Threads
      /\ j = Main(n) => phase[n] = "register"
      /\ peers' = [peers EXCEPT ![p] = @ \cup {n}]
      /\ pool' = IF n \in peers[p] THEN pool ELSE [pool EXCEPT ![p] = <<>>]
      /\ Goto(j, "done")
      /\ UNCHANGED <<servers, orphans, sessions, history>>

\* getAll: the answer lacks what the tasks will do that are still queued there, of the
\* peer's own recovery or sent by this server before it crashed; nobody sends it again.
GetAll(n) ==
  LET p == Peer(n)
      late == {t[3] : t \in {t \in Tasks : t[1] = p /\ t[4] # "request" /\ job[t] = "queued"}}
  IN  /\ job[Main(n)] = "live" /\ phase[n] = "recover"
      /\ found' = [found EXCEPT ![n] = store[p]]
      /\ missed' = missed \cup late
      /\ Goto(Main(n), "done")
      /\ UNCHANGED <<servers, peers, pool, orphans, store, journal, raced>>

\* CREATE and EXPIRE are handed to the executor of the peer.
Forward(j) ==
  /\ job[j] = "live" /\ j \in Tasks
  /\ job' = [job EXCEPT ![j] = "done", ![<<Peer(j[1]), j[2], j[3], "message", j[5]>>] = "queued"]
  /\ UNCHANGED <<servers, peers, pool, orphans, sessions, history>>

-----------------------------------------------------------------------------
(* WessionSessionManager: create and expire *)

\* A server that is up is asked, as often as one likes, for any session.
Ask(n, cmd, x, r) ==
  /\ phase[n] = "up"
  /\ \A t \in TasksOf(r) : job[t] = "idle"
  /\ Goto(<<n, cmd, x, "request", r>>, "queued")
  /\ UNCHANGED <<servers, peers, pool, orphans, sessions, history>>

Opposite(cmd) == IF cmd = "create" THEN "expire" ELSE "create"

\* The task changes the repository and the journal; one that the peer has sent, or
\* that recovers a session, ends with that.
Run(j) ==
  LET n == j[1]  x == j[3]
      Changed(ids) == IF j[2] = "create" THEN ids \cup {x} ELSE ids \ {x}
  IN  /\ job[j] = "queued"
      /\ store' = [store EXCEPT ![n] = Changed(@)]
      /\ journal' = [journal EXCEPT ![n] = Changed(@)]
      /\ raced' = raced \cup (Underway(Opposite(j[2])) \cap {x})
      /\ Goto(j, IF j[4] = "request" THEN "stored" ELSE "idle")
      /\ UNCHANGED <<servers, peers, pool, orphans, found, missed>>

\* getNodeList: the peer is told if it is registered.
List(j) ==
  LET n == j[1]  p == Peer(n)
  IN  /\ job[j] = "stored"
      /\ Goto(j, IF p \in peers[n] THEN "poll" ELSE "idle")
      /\ missed' = IF p \notin peers[n] /\ Recovered(p) THEN missed \cup {j[3]} ELSE missed
      /\ UNCHANGED <<servers, peers, pool, orphans, sessions, raced>>

\* The answer, or the failure, of a send is ignored.
EndTask(j) ==
  /\ j \in Tasks /\ Answered(j)
  /\ Released(j)
  /\ orphans' = orphans \ {j}
  /\ missed' = IF job[j] # "done" /\ Recovered(Peer(j[1])) THEN missed \cup {j[3]} ELSE missed
  /\ Goto(j, "idle")
  /\ UNCHANGED <<servers, peers, sessions, raced>>

-----------------------------------------------------------------------------
(* ClusterManager: the node check *)

StartCheck(n) ==
  /\ phase[n] \in {"recover", "up"}
  /\ job[Check(n)] = "idle"
  /\ Peer(n) \in peers[n]
  /\ Goto(Check(n), "poll")
  /\ UNCHANGED <<servers, peers, pool, orphans, sessions, history>>

CheckSucceeds(n) ==
  /\ job[Check(n)] = "done"
  /\ Released(Check(n))
  /\ Goto(Check(n), "idle")
  /\ UNCHANGED <<servers, peers, orphans, sessions, history>>

\* A peer that does not answer is removed and its pool destroyed; the threads that
\* are sending keep the node.
CheckFails(n) ==
  /\ job[Check(n)] \in {"stale", "lost"}
  /\ peers' = [peers EXCEPT ![n] = {}]
  /\ pool' = [pool EXCEPT ![n] = <<>>]
  /\ orphans' = orphans \cup 
                  {j \in Jobs \ {Check(n)} : j[1] = n /\ job[j] \notin {"idle", "queued", "stored"}}
  /\ Goto(Check(n), "idle")
  /\ UNCHANGED <<servers, sessions, history>>

-----------------------------------------------------------------------------
(* WessionDaemon: a server starts *)

\* initialize binds the port and registers at the peer.
Start(n) ==
  /\ phase[n] = "off"
  /\ starts + cuts < MaxEvents
  /\ phase' = [phase EXCEPT ![n] = "register"]
  /\ starts' = starts + 1
  /\ Goto(Main(n), "poll")
  /\ UNCHANGED <<linked, cuts, peers, pool, orphans, sessions, history>>

\* mutant: the peer that answered is not registered here
EndRegisterForgets(n) ==
  /\ phase[n] = "register" /\ Answered(Main(n))
  /\ phase' = [phase EXCEPT ![n] = "recover"]
  /\ IF job[Main(n)] = "done"
       THEN /\ UNCHANGED peers
            /\ Released(Main(n))
            /\ Goto(Main(n), "poll")
       ELSE /\ Goto(Main(n), "lost")
            /\ UNCHANGED <<peers, pool>>
  /\ UNCHANGED <<starts, linked, cuts, orphans, sessions, history>>

\* mutant: the start ends where the peer does not answer
EndRegisterGivesUp(n) ==
  /\ phase[n] = "register" /\ job[Main(n)] = "done"
  /\ phase' = [phase EXCEPT ![n] = "recover"]
  /\ peers' = [peers EXCEPT ![n] = {Peer(n)}]
  /\ Released(Main(n))
  /\ Goto(Main(n), "poll")
  /\ UNCHANGED <<starts, linked, cuts, orphans, sessions, history>>

\* If the peer answers it is registered here, and start asks it for its sessions.
EndRegister(n) ==
  /\ phase[n] = "register" /\ Answered(Main(n))
  /\ phase' = [phase EXCEPT ![n] = "recover"]
  /\ IF job[Main(n)] = "done"
       THEN /\ peers' = [peers EXCEPT ![n] = {Peer(n)}]
            /\ Released(Main(n))
            /\ Goto(Main(n), "poll")
       ELSE /\ Goto(Main(n), "lost")
            /\ UNCHANGED <<peers, pool>>
  /\ UNCHANGED <<starts, linked, cuts, orphans, sessions, history>>

\* mutant: the journal is all a start recovers from
FromJournal(n) == journal[n]

\* jounralByNetwork, and jounralByFile if the peer gave nothing
Recoverable(n) == IF found[n] # {} THEN found[n] ELSE journal[n]

\* A create task is queued for each session the peer gave, or else for each in the
\* journal, and the server accepts.  A server that the peer was up for but gave
\* nothing may come up with other sessions than the peer has.
EndRecover(n) ==
  LET recovered == Recoverable(n)
  IN  /\ phase[n] = "recover" /\ Answered(Main(n))
      /\ Released(Main(n))
      /\ orphans' = orphans \ {Main(n)}
      /\ phase' = [phase EXCEPT ![n] = "up"]
      /\ job' = [j \in Jobs |->
           IF j = Main(n) THEN "idle"
           ELSE IF \E x \in recovered : j = <<n, "create", x, "recovery">> THEN "queued"
           ELSE job[j]]
      /\ found' = [found EXCEPT ![n] = {}]
      /\ missed' = IF phase[Peer(n)] # "up" THEN missed
                   ELSE missed \cup (IF job[Main(n)] = "done" THEN recovered \ found[n] ELSE Sessions)
      /\ UNCHANGED <<starts, linked, cuts, peers, store, journal, raced>>

-----------------------------------------------------------------------------
(* The process ends, the network fails: the connections break *)

\* To a process that has ended every send fails.
Broken(where) == CASE where = "new" -> "lost"
                   [] where \in {"live", "done"} -> "stale"
                   [] OTHER -> where

\* Over a network that is cut a thread that waits to connect, or for an answer, waits on:
\* the socket is read without a timeout.
Muted(where) == CASE where = "new" -> "unopened"
                  [] where \in {"live", "done"} -> "mute"
                  [] OTHER -> where

Stale(connections) == [i \in DOMAIN connections |-> "stale"]

End(n) ==
  /\ phase[n] # "off"
  /\ phase' = [phase EXCEPT ![n] = "off"]
  /\ store' = [store EXCEPT ![n] = {}]
  /\ peers' = [peers EXCEPT ![n] = {}]
  /\ found' = [found EXCEPT ![n] = {}]
  /\ pool' = [m \in Nodes |-> IF m = n THEN <<>> ELSE Stale(pool[m])]
  /\ job' = [j \in Jobs |-> IF j[1] = n THEN "idle" ELSE Broken(job[j])]
  /\ orphans' = {j \in orphans : j[1] # n}
  /\ UNCHANGED <<starts, linked, cuts, journal, history>>

Cut ==
  /\ linked /\ cuts < MaxCuts /\ starts + cuts < MaxEvents
  /\ linked' = FALSE
  /\ cuts' = cuts + 1
  /\ pool' = [n \in Nodes |-> Stale(pool[n])]
  /\ job' = [j \in Jobs |-> Muted(job[j])]
  /\ UNCHANGED <<phase, starts, peers, orphans, sessions, history>>

\* The system gives such a wait up, sooner or later, or never.
GiveUp(j) ==
  /\ job[j] \in {"mute", "unopened"}
  /\ Goto(j, IF job[j] = "mute" THEN "stale" ELSE "lost")
  /\ UNCHANGED <<servers, peers, pool, orphans, sessions, history>>

Mend ==
  /\ ~linked
  /\ linked' = TRUE
  /\ UNCHANGED <<phase, starts, cuts, peers, pool, job, orphans, sessions, history>>

-----------------------------------------------------------------------------
Send(j) == Poll(j) \/ Open(j)

StartStep(n) == \/ Send(Main(n)) \/ OnNodeRegister(Main(n)) \/ GetAll(n)
                \/ EndRegister(n) \/ EndRecover(n)

CheckStep(n) == \/ Send(Check(n)) \/ OnNodeRegister(Check(n))
                \/ StartCheck(n) \/ CheckSucceeds(n) \/ CheckFails(n)

TaskStep(j) == Send(j) \/ Forward(j) \/ Run(j) \/ List(j) \/ EndTask(j)

Next == \/ \E n \in Nodes : Start(n) \/ StartStep(n) \/ CheckStep(n) \/ End(n)
        \/ \E j \in Tasks : TaskStep(j)
        \/ \E n \in Nodes, cmd \in Commands, x \in Sessions, r \in Requests : Ask(n, cmd, x, r)
        \/ Cut \/ Mend \/ \E j \in Jobs : GiveUp(j)

Spec == Init /\ [][Next]_vars

\* A start goes on, and the scheduler repeats the node check.
Fairness == \A n \in Nodes : WF_vars(StartStep(n)) /\ WF_vars(CheckStep(n))
FairSpec == Spec /\ Fairness

-----------------------------------------------------------------------------
(* Properties *)

TypeOK ==
  /\ phase \in [Nodes -> {"off", "register", "recover", "up"}]
  /\ starts \in 0 .. MaxEvents
  /\ linked \in BOOLEAN /\ cuts \in 0 .. MaxCuts
  /\ peers \in [Nodes -> SUBSET Nodes]
  /\ pool \in [Nodes -> Seq({"live", "stale"})]
  /\ job \in [Jobs -> {"idle", "queued", "stored", "poll", "new", "live", "stale", "done", "lost",
                   "unopened", "mute"}]
  /\ orphans \subseteq Jobs
  /\ found \in [Nodes -> SUBSET Sessions] /\ store \in [Nodes -> SUBSET Sessions]
  /\ journal \in [Nodes -> SUBSET Sessions]
  /\ missed \subseteq Sessions /\ raced \subseteq Sessions

\* The thread waits for an answer that a cut has taken away.
Silent(j) == job[j] \in {"unopened", "mute"}

\* When both servers are up and their tasks are done, or wait for what will never come,
\* they have the same sessions, whatever starts, crashes and cuts there were and
\* however often sessions were made and expired: a session differs only if a command
\* about it failed to reach a peer that had recovered, or if a create and an expire of
\* it were under way at once.  So registering comes before recovering, and recovering
\* before accepting, without a gap.
InSync ==
  (\A n \in Nodes : phase[n] = "up") /\ (\A j \in Tasks : job[j] = "idle" \/ Silent(j)) =>
    \A x \in Sessions \ (missed \cup raced), n, p \in Nodes :
      (\A j \in Tasks : j[3] = x => ~Silent(j)) /\ x \in store[n] => x \in store[p]

\* Two servers that are up have lost sight of each other only if the network was cut:
\* restarts and broken pools alone leave one of them registered at the other.
SplitOnlyByCut ==
  (\A n \in Nodes : phase[n] = "up") /\ cuts = 0 => \E n \in Nodes : Peer(n) \in peers[n]

\* A server that starts comes up or ends, unless both are starting and each waits for
\* the other to accept, or a cut has taken the answer it waits for: sends have no timeout.
Waits(n) == phase[n] \in {"register", "recover"} /\ (job[Main(n)] = "new" \/ Silent(Main(n)))
Entangled == \A n \in Nodes : Waits(n)
StartCompletes ==
  \A n \in Nodes : phase[n] \in {"register", "recover"}
                     ~> (phase[n] \in {"up", "off"} \/ Entangled \/ Silent(Main(n)))

\* If in the end both servers stay up and the network stays whole, each is registered
\* at the other for good, since the node check of one registers it at the other; or
\* neither is, but only after a cut: the check asks nobody who is not registered; or a
\* node check waits for ever for an answer that a cut has taken away.
Joined == \A n \in Nodes : Peer(n) \in peers[n]
Apart  == \A n \in Nodes : Peer(n) \notin peers[n]
Rejoined ==
  <>[](linked /\ \A n \in Nodes : phase[n] = "up")
    => \/ <>[]Joined \/ <>[](cuts > 0 /\ Apart)
       \/ \E n \in Nodes : <>[]Silent(Check(n))
=============================================================================
