--------------------------- MODULE ClusterProofs ---------------------------
(***************************************************************************)
(* Proofs about Cluster, for every set of sessions and any number of       *)
(* starts, crashes and cuts.                                               *)
(***************************************************************************)
EXTENDS Cluster, FiniteSetTheorems, TLAPS

States == {"idle", "queued", "stored", "poll", "new", "live", "stale", "done", "lost",
           "unopened", "mute"}
Connection == {"live", "stale"}

-----------------------------------------------------------------------------
(* The two servers and their jobs *)

LEMMA PeerFacts ==
  ASSUME ClusterAssumption, NEW n \in Nodes
  PROVE  /\ Peer(n) \in Nodes /\ Peer(n) # n /\ Peer(Peer(n)) = n
         /\ \A m \in Nodes : m = n \/ m = Peer(n)
<1>1. Cardinality(Nodes \ {n}) = 1 /\ IsFiniteSet(Nodes \ {n})
  BY FS_RemoveElement DEF ClusterAssumption
<1>2. PICK p : Nodes \ {n} = {p}
  BY <1>1, FS_Singleton
<1>3. p \in Nodes /\ p # n /\ \A m \in Nodes : m = n \/ m = p
  BY <1>2
<1>4. Peer(n) = p
  BY <1>3 DEF Peer
<1>5. Peer(p) = n
  BY <1>3 DEF Peer
<1> QED
  BY <1>3, <1>4, <1>5

LEMMA JobFacts ==
  /\ \A j \in Jobs : j[1] \in Nodes
  /\ \A n \in Nodes : /\ Main(n) \in Jobs /\ Main(n)[1] = n
                      /\ Check(n) \in Jobs /\ Check(n)[1] = n
                      /\ Main(n) # Check(n)
  /\ Tasks \subseteq Jobs
  /\ \A j \in Tasks : j[3] \in Sessions
  /\ \A n \in Nodes, cmd \in {"create", "expire"}, x \in Sessions, r \in Requests :
       <<n, cmd, x, "request", r>> \in Tasks /\ <<n, cmd, x, "request", r>>[1] = n
  BY DEF Jobs, Threads, Tasks, Main, Check

\* Where the peer puts what it is handed; a recovery hands nothing on.
Message(j) == <<Peer(j[1]), j[2], j[3], "message", j[5]>>

LEMMA MessageFacts ==
  ASSUME ClusterAssumption, NEW j \in Tasks, j[4] # "recovery"
  PROVE  Message(j) \in Jobs /\ Message(j) \in Tasks /\ Message(j)[1] = Peer(j[1])
  BY PeerFacts DEF Jobs, Tasks, Message

\* What a pool has after the oldest connection was taken, or one was released.
LEMMA PoolFacts ==
  ASSUME NEW s \in Seq(Connection)
  PROVE  /\ s # <<>> => /\ Head(s) \in Connection /\ Tail(s) \in Seq(Connection)
                        /\ 1 \in DOMAIN s /\ Head(s) = s[1]
                        /\ \A i \in DOMAIN Tail(s) : \E k \in DOMAIN s : Tail(s)[i] = s[k]
         /\ \A c \in Connection :
              /\ Append(s, c) \in Seq(Connection)
              /\ \A i \in DOMAIN Append(s, c) :
                   Append(s, c)[i] = c \/ \E k \in DOMAIN s : Append(s, c)[i] = s[k]
  OBVIOUS

LEMMA StaleFacts ==
  ASSUME NEW s \in Seq(Connection)
  PROVE  /\ Stale(s) \in Seq(Connection)
         /\ \A i \in DOMAIN Stale(s) : Stale(s)[i] = "stale"
         /\ s = <<>> => Stale(s) = <<>>
  BY DEF Stale, Connection

LEMMA BrokenFacts ==
  ASSUME NEW where \in States
  PROVE  /\ Broken(where) \in States
         /\ Broken(where) \notin {"new", "live", "done"}
         /\ where = "idle" => Broken(where) = "idle"
  BY DEF Broken, States

LEMMA MutedFacts ==
  ASSUME NEW where \in States
  PROVE  /\ Muted(where) \in States
         /\ Muted(where) \notin {"new", "live", "done"}
         /\ where = "idle" => Muted(where) = "idle"
  BY DEF Muted, States

-----------------------------------------------------------------------------
(* Types *)

TypeOfParts ==
  /\ phase \in [Nodes -> {"off", "register", "recover", "up"}]
  /\ starts \in 0 .. MaxEvents
  /\ linked \in BOOLEAN /\ cuts \in 0 .. MaxCuts
  /\ peers \in [Nodes -> SUBSET Nodes]
  /\ pool \in [Nodes -> Seq(Connection)]
  /\ job \in [Jobs -> States]
  /\ orphans \subseteq Jobs
  /\ found \in [Nodes -> SUBSET Sessions] /\ store \in [Nodes -> SUBSET Sessions]
  /\ journal \in [Nodes -> SUBSET Sessions]
  /\ missed \subseteq Sessions /\ raced \subseteq Sessions

LEMMA Parts == TypeOK <=> TypeOfParts
  BY DEF TypeOK, TypeOfParts, Connection, States

LEMMA ReleasedTyped ==
  ASSUME pool \in [Nodes -> Seq(Connection)], NEW j \in Jobs, Released(j)
  PROVE  pool' \in [Nodes -> Seq(Connection)]
<1>1. j[1] \in Nodes
  BY JobFacts
<1>2. Append(pool[j[1]], IF job[j] = "done" THEN "live" ELSE "stale") \in Seq(Connection)
  BY <1>1, PoolFacts DEF Connection
<1> QED
  BY <1>1, <1>2 DEF Released

LEMMA TypeInit == ClusterAssumption /\ Init => TypeOfParts
  BY DEF ClusterAssumption, Init, TypeOfParts, States

LEMMA TypeStep == ClusterAssumption /\ TypeOfParts /\ [Next]_vars => TypeOfParts'
<1> SUFFICES ASSUME ClusterAssumption, TypeOfParts, [Next]_vars PROVE TypeOfParts'
  OBVIOUS
<1> USE DEF ClusterAssumption, servers, sessions, history
<1>0. \A n \in Nodes : Peer(n) \in Nodes
  BY PeerFacts
<1>1. ASSUME NEW j \in Jobs, Poll(j) PROVE TypeOfParts'
  <2>1. j[1] \in Nodes
    BY JobFacts
  <2>2. pool[j[1]] \in Seq(Connection)
    BY <2>1 DEF TypeOfParts
  <2>3. pool' \in [Nodes -> Seq(Connection)]
    BY <1>1, <2>1, <2>2, PoolFacts DEF Poll, TypeOfParts
  <2>4. PICK where : Goto(j, where) /\ where \in Connection \cup {"new", "lost"}
    BY <1>1, <2>2, PoolFacts DEF Poll
  <2>5. job' \in [Jobs -> States]
    BY <2>4 DEF Goto, TypeOfParts, States, Connection
  <2> QED
    BY <1>1, <2>3, <2>5 DEF Poll, TypeOfParts
<1>2. ASSUME NEW j \in Jobs, Open(j) PROVE TypeOfParts'
  BY <1>2 DEF Open, Goto, TypeOfParts, States
<1>3. ASSUME NEW j \in Threads, OnNodeRegister(j) PROVE TypeOfParts'
  <2>1. j \in Jobs /\ j[1] \in Nodes
    BY JobFacts DEF Jobs
  <2>2. <<>> \in Seq(Connection)
    OBVIOUS
  <2>3. pool' \in [Nodes -> Seq(Connection)]
    BY <1>3, <2>2 DEF OnNodeRegister, TypeOfParts
  <2> QED
    BY <1>0, <1>3, <2>1, <2>3 DEF OnNodeRegister, Goto, TypeOfParts, States
<1>4. ASSUME NEW n \in Nodes, GetAll(n) PROVE TypeOfParts'
  <2>1. missed' \subseteq Sessions
    BY <1>4, JobFacts DEF GetAll, TypeOfParts
  <2> QED
    BY <1>0, <1>4, <2>1, JobFacts DEF GetAll, Goto, TypeOfParts, States
<1>5. ASSUME NEW j \in Tasks, Forward(j) PROVE TypeOfParts'
  BY <1>5 DEF Forward, TypeOfParts, States
<1>6. ASSUME NEW n \in Nodes, NEW cmd, NEW x, NEW r, Ask(n, cmd, x, r) PROVE TypeOfParts'
  BY <1>6 DEF Ask, Goto, TypeOfParts, States
<1>7. ASSUME NEW j \in Tasks, Run(j) PROVE TypeOfParts'
  <2>1. j[1] \in Nodes /\ j[3] \in Sessions
    BY JobFacts
  <2> QED
    BY <1>7, <2>1 DEF Run, Goto, TypeOfParts, States
<1>8. ASSUME NEW j \in Tasks, List(j) PROVE TypeOfParts'
  <2>1. j[3] \in Sessions
    BY JobFacts
  <2> QED
    BY <1>8, <2>1 DEF List, Goto, TypeOfParts, States
<1>9. ASSUME NEW j \in Tasks, EndTask(j) PROVE TypeOfParts'
  <2>1. j[3] \in Sessions /\ j \in Jobs
    BY JobFacts
  <2>2. pool' \in [Nodes -> Seq(Connection)]
    BY <1>9, <2>1, ReleasedTyped DEF EndTask, TypeOfParts
  <2> QED
    BY <1>9, <2>1, <2>2 DEF EndTask, Goto, TypeOfParts, States
<1>10. ASSUME NEW n \in Nodes, StartCheck(n) PROVE TypeOfParts'
  BY <1>10 DEF StartCheck, Goto, TypeOfParts, States
<1>11. ASSUME NEW n \in Nodes, CheckSucceeds(n) PROVE TypeOfParts'
  <2>1. pool' \in [Nodes -> Seq(Connection)]
    BY <1>11, JobFacts, ReleasedTyped DEF CheckSucceeds, TypeOfParts
  <2> QED
    BY <1>11, <2>1 DEF CheckSucceeds, Goto, TypeOfParts, States
<1>12. ASSUME NEW n \in Nodes, CheckFails(n) PROVE TypeOfParts'
  <2>1. <<>> \in Seq(Connection) /\ {} \in SUBSET Nodes
    OBVIOUS
  <2>2. pool' \in [Nodes -> Seq(Connection)] /\ peers' \in [Nodes -> SUBSET Nodes]
    BY <1>12, <2>1 DEF CheckFails, TypeOfParts
  <2>3. orphans' \subseteq Jobs
    BY <1>12 DEF CheckFails, TypeOfParts
  <2>4. job' \in [Jobs -> States]
    BY <1>12 DEF CheckFails, Goto, TypeOfParts, States
  <2> QED
    BY <1>12, <2>2, <2>3, <2>4 DEF CheckFails, TypeOfParts
<1>13. ASSUME NEW n \in Nodes, Start(n) PROVE TypeOfParts'
  <2>1. starts' \in 0 .. MaxEvents
    BY <1>13 DEF Start, TypeOfParts
  <2>2. phase' \in [Nodes -> {"off", "register", "recover", "up"}]
    BY <1>13 DEF Start, TypeOfParts
  <2>3. job' \in [Jobs -> States]
    BY <1>13 DEF Start, Goto, TypeOfParts, States
  <2> QED
    BY <1>13, <2>1, <2>2, <2>3 DEF Start, TypeOfParts
<1>14. ASSUME NEW n \in Nodes, EndRegister(n) PROVE TypeOfParts'
  <2>1. pool' \in [Nodes -> Seq(Connection)]
    BY <1>14, JobFacts, ReleasedTyped DEF EndRegister, TypeOfParts
  <2>2. peers' \in [Nodes -> SUBSET Nodes]
    <3>1. {Peer(n)} \in SUBSET Nodes
      BY <1>0
    <3>2. \/ peers' = peers
          \/ peers' = [peers EXCEPT ![n] = {Peer(n)}]
      BY <1>14 DEF EndRegister
    <3> QED
      BY <3>1, <3>2 DEF TypeOfParts
  <2>3. job' \in [Jobs -> States]
    BY <1>14 DEF EndRegister, Goto, TypeOfParts, States
  <2>4. phase' \in [Nodes -> {"off", "register", "recover", "up"}]
    BY <1>14 DEF EndRegister, TypeOfParts
  <2> QED
    BY <1>14, <2>1, <2>2, <2>3, <2>4 DEF EndRegister, TypeOfParts
<1>15. ASSUME NEW n \in Nodes, EndRecover(n) PROVE TypeOfParts'
  <2>1. pool' \in [Nodes -> Seq(Connection)]
    BY <1>15, JobFacts, ReleasedTyped DEF EndRecover, TypeOfParts
  <2>2. job' \in [Jobs -> States]
    BY <1>15 DEF EndRecover, TypeOfParts, States
  <2>3. missed' \subseteq Sessions
    BY <1>15 DEF EndRecover, Recoverable, TypeOfParts
  <2> QED
    BY <1>15, <2>1, <2>2, <2>3 DEF EndRecover, TypeOfParts
<1>16. ASSUME NEW n \in Nodes, End(n) PROVE TypeOfParts'
  <2>1. pool' \in [Nodes -> Seq(Connection)]
    BY <1>16, StaleFacts DEF End, TypeOfParts
  <2>2. job' \in [Jobs -> States]
    BY <1>16, BrokenFacts DEF End, TypeOfParts, States
  <2> QED
    BY <1>16, <2>1, <2>2 DEF End, TypeOfParts
<1>17. CASE Cut
  <2>1. pool' \in [Nodes -> Seq(Connection)]
    BY <1>17, StaleFacts DEF Cut, TypeOfParts
  <2>2. job' \in [Jobs -> States]
    BY <1>17, MutedFacts DEF Cut, TypeOfParts
  <2>3. cuts' \in 0 .. MaxCuts
    BY <1>17 DEF Cut, TypeOfParts
  <2>4. linked' \in BOOLEAN
    BY <1>17 DEF Cut
  <2> QED
    BY <1>17, <2>1, <2>2, <2>3, <2>4 DEF Cut, TypeOfParts
<1>18. CASE Mend \/ \E j \in Jobs : GiveUp(j)
  BY <1>18 DEF Mend, GiveUp, Goto, TypeOfParts, States
<1>19. CASE UNCHANGED vars
  BY <1>19 DEF vars, TypeOfParts
<1>20. ASSUME NEW n \in Nodes, StartStep(n) PROVE TypeOfParts'
  BY <1>1, <1>2, <1>3, <1>4, <1>14, <1>15, <1>20, JobFacts DEF StartStep, Send, OnNodeRegister
<1>21. ASSUME NEW n \in Nodes, CheckStep(n) PROVE TypeOfParts'
  BY <1>1, <1>2, <1>3, <1>10, <1>11, <1>12, <1>21, JobFacts DEF CheckStep, Send, OnNodeRegister
<1>22. ASSUME NEW j \in Tasks, TaskStep(j) PROVE TypeOfParts'
  BY <1>1, <1>2, <1>5, <1>7, <1>8, <1>9, <1>22, JobFacts DEF TaskStep, Send
<1> QED
  BY <1>6, <1>13, <1>16, <1>17, <1>18, <1>19, <1>20, <1>21, <1>22 DEF Next

-----------------------------------------------------------------------------
(* Connections and registration *)

\* A server that is off does nothing.
Quiet(n) ==
  /\ pool[n] = <<>>
  /\ \A j \in Jobs : j[1] = n => job[j] = "idle" /\ j \notin orphans

\* A server has no connection to its peer, and does not wait for one.
Alone(n) ==
  /\ \A i \in DOMAIN pool[n] : pool[n][i] # "live"
  /\ \A j \in Jobs : j[1] = n => job[j] \notin {"new", "live", "done"}

\* The send has failed, or waits for an answer that a cut has taken away.
Failing == {"stale", "lost", "unopened", "mute"}

\* All connections of a server are to the life that its peer is in, and it has the
\* peer registered from the time at which it recovers.
Fresh(n) ==
  /\ \A i \in DOMAIN pool[n] : pool[n][i] = "live"
  /\ \A j \in Jobs : j[1] = n => job[j] \notin Failing /\ j \notin orphans
  /\ phase[n] \in {"recover", "up"} => Peer(n) \in peers[n]

\* A server that is off is quiet, nobody has a connection to it, the network is whole until
\* it is cut; and of two servers that run, the one that started last is fresh.
Inv ==
  /\ \A n \in Nodes : phase[n] = "off" => Quiet(n)
  /\ \A n \in Nodes : phase[Peer(n)] = "off" => Alone(n)
  /\ cuts = 0 => linked
  /\ (\A n \in Nodes : phase[n] # "off") /\ cuts = 0 => \E n \in Nodes : Fresh(n)

\* A server that is fresh when it matters.
Newer(n) == phase[Peer(n)] # "off" /\ cuts = 0 /\ Fresh(n)

LEMMA InvInit == ClusterAssumption /\ Init => Inv
<1> SUFFICES ASSUME ClusterAssumption, Init PROVE Inv
  OBVIOUS
<1>1. \E n \in Nodes : TRUE
  BY FS_EmptySet DEF ClusterAssumption
<1>2. \A n \in Nodes : phase[n] = "off" /\ Quiet(n)
  BY DEF Init, Quiet
<1>3. \A n \in Nodes : Alone(n)
  BY <1>2 DEF Quiet, Alone
<1> QED
  BY <1>1, <1>2, <1>3 DEF Inv, Init

\* A step of a server that runs, which changes nothing of the other one but may
\* register it there.
LEMMA OneServerMoves ==
  ASSUME ClusterAssumption, Inv, NEW n \in Nodes,
         phase[n] # "off", phase'[n] # "off", UNCHANGED <<linked, cuts>>,
         phase'[Peer(n)] = phase[Peer(n)], pool'[Peer(n)] = pool[Peer(n)],
         peers[Peer(n)] \subseteq peers'[Peer(n)],
         \A j \in Jobs : j[1] = Peer(n) =>
           job'[j] = job[j] /\ (j \in orphans' => j \in orphans),
         phase[Peer(n)] = "off" => Alone(n)',
         Newer(n) => Fresh(n)'
  PROVE  Inv'
<1> DEFINE p == Peer(n)
<1>1. p \in Nodes /\ p # n /\ Peer(p) = n /\ \A m \in Nodes : m = n \/ m = p
  BY PeerFacts
<1>2. Quiet(p) => Quiet(p)'
  BY DEF Quiet
<1>3. Fresh(p) => Fresh(p)'
  BY <1>1 DEF Fresh
<1>4. phase'[p] = "off" => Quiet(p)'
  BY <1>1, <1>2 DEF Inv
<1>5. \A m \in Nodes : phase'[Peer(m)] = "off" => Alone(m)'
  BY <1>1 DEF Inv
<1>6. (\A m \in Nodes : phase'[m] # "off") /\ cuts' = 0 => Fresh(n)' \/ Fresh(p)'
  BY <1>1, <1>3 DEF Inv, Newer
<1> HIDE DEF p
<1> QED
  BY <1>1, <1>4, <1>5, <1>6 DEF Inv

\* A step of one job of a server.
LEMMA JobMoves ==
  ASSUME ClusterAssumption, TypeOfParts, Inv, NEW j \in Jobs, NEW where, NEW s,
         phase[j[1]] # "off", UNCHANGED <<phase, linked, cuts, peers>>,
         Goto(j, where), pool' = [pool EXCEPT ![j[1]] = s], orphans' \subseteq orphans,
         phase[Peer(j[1])] = "off" =>
           where \notin {"new", "live", "done"} /\ \A i \in DOMAIN s : s[i] # "live",
         Newer(j[1]) =>
           where \notin Failing /\ \A i \in DOMAIN s : s[i] = "live"
  PROVE  Inv'
<1>1. j[1] \in Nodes /\ Peer(j[1]) \in Nodes /\ Peer(j[1]) # j[1]
  BY JobFacts, PeerFacts
<1>2. /\ pool'[j[1]] = s /\ pool'[Peer(j[1])] = pool[Peer(j[1])]
      /\ job'[j] = where /\ \A i \in Jobs : i # j => job'[i] = job[i]
  BY <1>1 DEF TypeOfParts, Goto
<1>3. phase[Peer(j[1])] = "off" => Alone(j[1])'
  BY <1>1, <1>2, PeerFacts DEF Inv, Alone
<1>4. Newer(j[1]) => Fresh(j[1])'
  BY <1>1, <1>2 DEF Newer, Fresh
<1> QED
  BY <1>1, <1>2, <1>3, <1>4, OneServerMoves

\* The end of a send.
LEMMA ReleaseMoves ==
  ASSUME ClusterAssumption, TypeOfParts, Inv, NEW j \in Jobs, Answered(j), Released(j)
  PROVE  \E s : /\ pool' = [pool EXCEPT ![j[1]] = s]
                /\ phase[Peer(j[1])] = "off" => \A i \in DOMAIN s : s[i] # "live"
                /\ Fresh(j[1]) => job[j] = "done" /\ \A i \in DOMAIN s : s[i] = "live"
<1>1. j[1] \in Nodes /\ pool[j[1]] \in Seq(Connection)
  BY JobFacts DEF TypeOfParts
<1>2. phase[Peer(j[1])] = "off" => job[j] # "done" /\ \A i \in DOMAIN pool[j[1]] : pool[j[1]][i] # "live"
  BY <1>1 DEF Inv, Alone
<1>3. Fresh(j[1]) => job[j] = "done" /\ \A i \in DOMAIN pool[j[1]] : pool[j[1]][i] = "live"
  BY DEF Fresh, Failing, Answered
<1>4. CASE j \in orphans \/ job[j] = "lost"
  <2>1. pool' = [pool EXCEPT ![j[1]] = pool[j[1]]]
    BY <1>4 DEF Released, TypeOfParts
  <2> QED
    BY <1>2, <1>3, <2>1
<1>5. CASE ~(j \in orphans \/ job[j] = "lost")
  <2> DEFINE c == IF job[j] = "done" THEN "live" ELSE "stale"
             s == Append(pool[j[1]], c)
  <2>1. pool' = [pool EXCEPT ![j[1]] = s]
    BY <1>5 DEF Released
  <2>2. \A i \in DOMAIN s : s[i] = c \/ \E k \in DOMAIN pool[j[1]] : s[i] = pool[j[1]][k]
    BY <1>1, PoolFacts DEF Connection
  <2>3. phase[Peer(j[1])] = "off" => \A i \in DOMAIN s : s[i] # "live"
    BY <1>2, <2>2
  <2>4. Fresh(j[1]) => \A i \in DOMAIN s : s[i] = "live"
    BY <1>3, <2>2
  <2> HIDE DEF s
  <2> QED
    BY <1>3, <2>1, <2>3, <2>4
<1> QED
  BY <1>4, <1>5

\* A step of one job that leaves the pool alone.
LEMMA JobGoes ==
  ASSUME ClusterAssumption, TypeOfParts, Inv, NEW j \in Jobs, NEW where,
         phase[j[1]] # "off", UNCHANGED <<phase, linked, cuts, peers, pool, orphans>>,
         Goto(j, where),
         phase[Peer(j[1])] = "off" => where \notin {"new", "live", "done"},
         where \notin Failing
  PROVE  Inv'
<1>1. j[1] \in Nodes
  BY JobFacts
<1>2. pool' = [pool EXCEPT ![j[1]] = pool[j[1]]]
  BY <1>1 DEF TypeOfParts
<1>3. phase[Peer(j[1])] = "off" => \A i \in DOMAIN pool[j[1]] : pool[j[1]][i] # "live"
  BY <1>1 DEF Inv, Alone
<1>4. Fresh(j[1]) => \A i \in DOMAIN pool[j[1]] : pool[j[1]][i] = "live"
  BY DEF Fresh
<1> QED
  BY <1>2, <1>3, <1>4, JobMoves DEF Newer

LEMMA InvStep == ClusterAssumption /\ TypeOfParts /\ Inv /\ [Next]_vars => Inv'
<1> SUFFICES ASSUME ClusterAssumption, TypeOfParts, Inv, [Next]_vars PROVE Inv'
  OBVIOUS
<1> USE DEF servers, sessions, history, Failing
\* whoever has something to do runs
<1>0. \A j \in Jobs : job[j] # "idle" => phase[j[1]] # "off"
  BY JobFacts DEF Inv, Quiet
<1>1. ASSUME NEW j \in Jobs, Poll(j) PROVE Inv'
  <2> DEFINE n == j[1]
  <2>0. UNCHANGED <<phase, linked, cuts, peers, orphans>>
    BY <1>1 DEF Poll
  <2>1. n \in Nodes /\ phase[n] # "off" /\ pool[n] \in Seq(Connection)
    BY <1>0, <1>1, JobFacts DEF Poll, TypeOfParts
  <2>2. pool = [pool EXCEPT ![n] = pool[n]]
    BY <2>1 DEF TypeOfParts
  <2>3. phase[Peer(n)] = "off" => \A i \in DOMAIN pool[n] : pool[n][i] # "live"
    BY <2>1 DEF Inv, Alone
  <2>4. Fresh(n) => j \notin orphans /\ \A i \in DOMAIN pool[n] : pool[n][i] = "live"
    BY DEF Fresh
  <2>5. CASE j \in orphans
    <3>1. Goto(j, "lost") /\ pool' = [pool EXCEPT ![n] = pool[n]]
      BY <1>1, <2>2, <2>5 DEF Poll
    <3> QED
      BY <2>0, <2>1, <2>3, <2>4, <2>5, <3>1, JobMoves DEF Newer
  <2>6. CASE j \notin orphans /\ pool[n] # <<>>
    <3> DEFINE where == Head(pool[n])
               s == Tail(pool[n])
    <3>1. Goto(j, where) /\ pool' = [pool EXCEPT ![n] = s]
      BY <1>1, <2>6 DEF Poll
    <3>2. /\ where \in Connection /\ \E i \in DOMAIN pool[n] : where = pool[n][i]
          /\ \A i \in DOMAIN s : \E k \in DOMAIN pool[n] : s[i] = pool[n][k]
      BY <2>1, <2>6, PoolFacts
    <3> HIDE DEF where, s
    <3>3. phase[Peer(n)] = "off" =>
            where \notin {"new", "live", "done"} /\ \A i \in DOMAIN s : s[i] # "live"
      BY <2>3, <3>2 DEF Connection
    <3>4. Fresh(n) => where \notin Failing /\ \A i \in DOMAIN s : s[i] = "live"
      BY <2>4, <3>2
    <3> QED
      BY <2>0, <2>1, <3>1, <3>3, <3>4, JobMoves DEF Newer
  <2>7. CASE j \notin orphans /\ pool[n] = <<>>
    <3> DEFINE where == IF phase[Peer(n)] # "off" /\ linked THEN "new" ELSE "lost"
    <3>1. Goto(j, where) /\ pool' = [pool EXCEPT ![n] = pool[n]]
      BY <1>1, <2>2, <2>7 DEF Poll
    <3>2. phase[Peer(n)] = "off" => where \notin {"new", "live", "done"}
      OBVIOUS
    <3>3. Newer(n) => where = "new" /\ \A i \in DOMAIN pool[n] : pool[n][i] = "live"
      BY <2>4 DEF Newer, Inv
    <3> HIDE DEF where
    <3> QED
      BY <1>1, <2>1, <2>3, <3>1, <3>2, <3>3, JobMoves DEF Poll
  <2> QED
    BY <2>5, <2>6, <2>7
<1>2. ASSUME NEW j \in Jobs, Open(j) PROVE Inv'
  BY <1>0, <1>2, JobGoes DEF Open
<1>3. ASSUME NEW j \in Threads, OnNodeRegister(j) PROVE Inv'
  <2> DEFINE n == j[1]
             p == Peer(n)
  <2>1. /\ n \in Nodes /\ p \in Nodes /\ p # n /\ Peer(p) = n /\ Peer(n) = p /\ j \in Jobs
        /\ \A m \in Nodes : m = n \/ m = p
    BY JobFacts, PeerFacts DEF Jobs
  <2>2. phase[n] # "off" /\ phase[p] # "off"
    BY <1>0, <1>3, <2>1 DEF OnNodeRegister, Inv, Alone
  <2>3. /\ UNCHANGED <<phase, linked, cuts, orphans>>
        /\ pool'[n] = pool[n] /\ (pool'[p] = pool[p] \/ pool'[p] = <<>>)
        /\ \A m \in Nodes : peers[m] \subseteq peers'[m]
        /\ job'[j] = "done" /\ \A i \in Jobs : i # j => job'[i] = job[i]
    BY <1>3, <2>1 DEF OnNodeRegister, Goto, TypeOfParts
  <2>4. \A m \in Nodes : Fresh(m) => Fresh(m)'
    BY <2>1, <2>3 DEF Fresh
  <2> HIDE DEF n, p
  <2> QED
    BY <2>1, <2>2, <2>3, <2>4 DEF Inv
<1>4. ASSUME NEW n \in Nodes, GetAll(n) PROVE Inv'
  <2>1. /\ Main(n) \in Jobs /\ Main(n)[1] = n /\ job[Main(n)] = "live" /\ Goto(Main(n), "done")
        /\ UNCHANGED <<phase, linked, cuts, peers, pool, orphans>>
    BY <1>4, JobFacts DEF GetAll
  <2>2. phase[n] # "off" /\ phase[Peer(n)] # "off"
    BY <1>0, <2>1 DEF Inv, Alone
  <2> QED
    BY <2>1, <2>2, JobGoes
\* the peer runs, or nobody would have a connection to it
<1>5. ASSUME NEW j \in Tasks, Forward(j) PROVE Inv'
  <2> DEFINE n == j[1]
             p == Peer(n)
  <2>1. /\ n \in Nodes /\ p \in Nodes /\ p # n /\ Peer(p) = n /\ Peer(n) = p /\ j \in Jobs
        /\ \A m \in Nodes : m = n \/ m = p
    BY JobFacts, PeerFacts
  <2>3. phase[n] # "off" /\ phase[p] # "off"
    BY <1>0, <1>5, <2>1 DEF Forward, Inv, Alone
  <2>4. /\ UNCHANGED <<phase, linked, cuts, orphans, pool, peers>>
        /\ \A i \in Jobs : job'[i] \in {job[i], "done", "queued"}
    BY <1>5, <2>1 DEF Forward, TypeOfParts
  <2>5. \A m \in Nodes : Fresh(m) => Fresh(m)'
    BY <2>1, <2>4 DEF Fresh
  <2> HIDE DEF n, p
  <2> QED
    BY <2>1, <2>3, <2>4, <2>5 DEF Inv
<1>6. ASSUME NEW n \in Nodes, NEW cmd \in Commands, NEW x \in Sessions, NEW r \in Requests,
             Ask(n, cmd, x, r)
      PROVE  Inv'
  <2>1. <<n, cmd, x, "request", r>> \in Jobs /\ <<n, cmd, x, "request", r>>[1] = n
    BY JobFacts DEF ClusterAssumption
  <2> QED
    BY <1>6, <2>1, JobGoes DEF Ask
<1>7. ASSUME NEW j \in Tasks, Run(j) PROVE Inv'
  BY <1>0, <1>7, JobFacts, JobGoes DEF Run
<1>8. ASSUME NEW j \in Tasks, List(j) PROVE Inv'
  BY <1>0, <1>8, JobFacts, JobGoes DEF List
<1>9. ASSUME NEW j \in Tasks, EndTask(j) PROVE Inv'
  <2>1. j \in Jobs /\ phase[j[1]] # "off"
    BY <1>0, <1>9, JobFacts DEF EndTask, Answered
  <2>2. PICK s : /\ pool' = [pool EXCEPT ![j[1]] = s]
                 /\ phase[Peer(j[1])] = "off" => \A i \in DOMAIN s : s[i] # "live"
                 /\ Fresh(j[1]) => \A i \in DOMAIN s : s[i] = "live"
    <3>1. Answered(j) /\ Released(j)
      BY <1>9 DEF EndTask
    <3> QED
      BY <2>1, <3>1, ReleaseMoves
  <2> QED
    BY <1>9, <2>1, <2>2, JobMoves DEF EndTask, Newer
<1>10. ASSUME NEW n \in Nodes, StartCheck(n) PROVE Inv'
  BY <1>10, JobFacts, JobGoes DEF StartCheck
<1>11. ASSUME NEW n \in Nodes, CheckSucceeds(n) PROVE Inv'
  <2> DEFINE j == Check(n)
  <2>1. j \in Jobs /\ j[1] = n /\ phase[n] # "off"
    BY <1>0, <1>11, JobFacts DEF CheckSucceeds
  <2>2. PICK s : /\ pool' = [pool EXCEPT ![j[1]] = s]
                 /\ phase[Peer(j[1])] = "off" => \A i \in DOMAIN s : s[i] # "live"
                 /\ Fresh(j[1]) => \A i \in DOMAIN s : s[i] = "live"
    BY <1>11, <2>1, ReleaseMoves DEF CheckSucceeds, Answered
  <2> QED
    BY <1>11, <2>1, <2>2, JobMoves DEF CheckSucceeds, Newer
\* the check of a fresh server does not fail
<1>12. ASSUME NEW n \in Nodes, CheckFails(n) PROVE Inv'
  <2>1. /\ Check(n) \in Jobs /\ Check(n)[1] = n /\ job[Check(n)] \in {"stale", "lost"}
        /\ Peer(n) \in Nodes /\ Peer(n) # n
    BY <1>12, JobFacts, PeerFacts DEF CheckFails
  <2>2. phase[n] # "off" /\ ~Fresh(n)
    BY <1>0, <2>1 DEF Fresh
  <2>3. /\ UNCHANGED <<phase, linked, cuts>>
        /\ pool'[n] = <<>> /\ pool'[Peer(n)] = pool[Peer(n)] /\ peers'[Peer(n)] = peers[Peer(n)]
        /\ job'[Check(n)] = "idle" /\ \A i \in Jobs : i # Check(n) => job'[i] = job[i]
        /\ \A i \in Jobs : i[1] = Peer(n) => (i \in orphans' => i \in orphans)
    BY <1>12, <2>1 DEF CheckFails, Goto, TypeOfParts
  <2>4. phase[Peer(n)] = "off" => Alone(n)'
    BY <2>1, <2>3 DEF Inv, Alone
  <2> QED
    BY <2>1, <2>2, <2>3, <2>4, OneServerMoves DEF Newer
\* a server that starts while the other one runs is fresh
<1>13. ASSUME NEW n \in Nodes, Start(n) PROVE Inv'
  <2> DEFINE p == Peer(n)
  <2>1. /\ p \in Nodes /\ p # n /\ Peer(p) = n /\ (\A m \in Nodes : m = n \/ m = p)
        /\ Main(n) \in Jobs /\ Main(n)[1] = n
    BY JobFacts, PeerFacts
  <2>2. /\ UNCHANGED <<linked, cuts, pool, orphans, peers>>
        /\ phase[n] = "off" /\ phase'[n] = "register" /\ phase'[p] = phase[p]
        /\ job'[Main(n)] = "poll" /\ \A i \in Jobs : i # Main(n) => job'[i] = job[i]
    BY <1>13, <2>1 DEF Start, Goto, TypeOfParts
  <2>3. Quiet(n) /\ (phase[p] = "off" => Quiet(p))
    BY <2>1, <2>2 DEF Inv
  <2>4. Fresh(n)' /\ Alone(n)'
    BY <2>1, <2>2, <2>3 DEF Fresh, Alone, Quiet
  <2>5. phase[p] = "off" => Quiet(p)'
    BY <2>1, <2>2, <2>3 DEF Quiet
  <2> HIDE DEF p
  <2> QED
    BY <2>1, <2>2, <2>4, <2>5 DEF Inv
<1>14. ASSUME NEW n \in Nodes, EndRegister(n) PROVE Inv'
  <2> DEFINE j == Main(n)
  <2>1. /\ j \in Jobs /\ j[1] = n /\ phase[n] # "off" /\ Answered(j)
        /\ Peer(n) \in Nodes /\ Peer(n) # n
    BY <1>14, JobFacts, PeerFacts DEF EndRegister
  <2> HIDE DEF j
  <2>2. /\ phase'[n] = "recover" /\ phase'[Peer(n)] = phase[Peer(n)]
        /\ UNCHANGED <<linked, cuts, orphans>> /\ peers'[Peer(n)] = peers[Peer(n)]
        /\ \A i \in Jobs : i # j => job'[i] = job[i]
        /\ job'[j] = IF job[j] = "done" THEN "poll" ELSE "lost"
    BY <1>14, <2>1 DEF EndRegister, Goto, TypeOfParts, j
  <2>3. CASE job[j] = "done"
    <3>1. Released(j) /\ Peer(n) \in peers'[n]
      BY <1>14, <2>3 DEF EndRegister, j, TypeOfParts
    <3>2. PICK s : /\ pool' = [pool EXCEPT ![n] = s]
                   /\ phase[Peer(n)] = "off" => \A i \in DOMAIN s : s[i] # "live"
                   /\ Fresh(n) => \A i \in DOMAIN s : s[i] = "live"
      BY <2>1, <3>1, ReleaseMoves
    <3>3. pool'[n] = s /\ pool'[Peer(n)] = pool[Peer(n)]
      BY <2>1, <3>2 DEF TypeOfParts
    <3>4. phase[Peer(n)] = "off" => Alone(n)'
      BY <2>1, <2>2, <2>3, <3>2, <3>3 DEF Inv, Alone
    <3>5. Fresh(n) => Fresh(n)'
      BY <2>1, <2>2, <2>3, <3>1, <3>2, <3>3 DEF Fresh
    <3> QED
      BY <2>1, <2>2, <3>3, <3>4, <3>5, OneServerMoves DEF Newer
  <2>4. CASE job[j] # "done"
    <3>1. UNCHANGED pool /\ ~Fresh(n)
      BY <1>14, <2>1, <2>4 DEF EndRegister, j, Fresh, Answered
    <3>2. phase[Peer(n)] = "off" => Alone(n)'
      BY <2>1, <2>2, <2>4, <3>1 DEF Inv, Alone
    <3> QED
      BY <2>1, <2>2, <3>1, <3>2, OneServerMoves DEF Newer
  <2> QED
    BY <2>3, <2>4
<1>15. ASSUME NEW n \in Nodes, EndRecover(n) PROVE Inv'
  <2> DEFINE j == Main(n)
  <2>1. /\ j \in Jobs /\ j[1] = n /\ phase[n] = "recover" /\ Answered(j) /\ Released(j)
        /\ Peer(n) \in Nodes /\ Peer(n) # n
    BY <1>15, JobFacts, PeerFacts DEF EndRecover
  <2>2. PICK s : /\ pool' = [pool EXCEPT ![n] = s]
                 /\ phase[Peer(n)] = "off" => \A i \in DOMAIN s : s[i] # "live"
                 /\ Fresh(n) => \A i \in DOMAIN s : s[i] = "live"
    BY <2>1, ReleaseMoves
  <2>3. /\ pool'[n] = s /\ pool'[Peer(n)] = pool[Peer(n)] /\ UNCHANGED <<linked, cuts, peers>>
        /\ phase'[n] = "up" /\ phase'[Peer(n)] = phase[Peer(n)] /\ orphans' \subseteq orphans
    BY <1>15, <2>1, <2>2 DEF EndRecover, TypeOfParts
  <2>4. /\ \A i \in Jobs : job'[i] \in {job[i], "idle", "queued"}
        /\ \A i \in Jobs : i[1] = Peer(n) => job'[i] = job[i]
    BY <1>15, <2>1 DEF EndRecover
  <2>5. phase[Peer(n)] = "off" => Alone(n)'
    BY <2>1, <2>2, <2>3, <2>4 DEF Inv, Alone
  <2>6. Fresh(n) => Fresh(n)'
    BY <2>1, <2>2, <2>3, <2>4 DEF Fresh
  <2> HIDE DEF j
  <2> QED
    BY <2>1, <2>3, <2>4, <2>5, <2>6, OneServerMoves DEF Newer
<1>16. ASSUME NEW n \in Nodes, End(n) PROVE Inv'
  <2> DEFINE p == Peer(n)
  <2>1. p \in Nodes /\ p # n /\ Peer(p) = n /\ (\A m \in Nodes : m = n \/ m = p)
    BY PeerFacts
  <2>2. /\ UNCHANGED <<linked, cuts>> /\ phase'[n] = "off" /\ phase'[p] = phase[p]
        /\ pool'[n] = <<>> /\ pool'[p] = Stale(pool[p])
        /\ \A i \in Jobs : job'[i] = IF i[1] = n THEN "idle" ELSE Broken(job[i])
        /\ orphans' \subseteq {i \in orphans : i[1] # n}
    BY <1>16, <2>1 DEF End, TypeOfParts
  <2>3. pool[p] \in Seq(Connection) /\ \A i \in Jobs : job[i] \in States
    BY <2>1 DEF TypeOfParts
  <2>4. Quiet(n)' /\ Alone(n)'
    BY <2>1, <2>2 DEF Quiet, Alone
  <2>5. Alone(p)'
    BY <2>1, <2>2, <2>3, StaleFacts, BrokenFacts DEF Alone
  <2>6. Quiet(p) => Quiet(p)'
    <3>1. pool[p] = <<>> => pool'[p] = <<>>
      BY <2>2, <2>3, StaleFacts
    <3>2. \A i \in Jobs : job[i] = "idle" => job'[i] = "idle"
      BY <2>2, <2>3, BrokenFacts
    <3> QED
      BY <2>2, <3>1, <3>2 DEF Quiet
  <2> HIDE DEF p
  <2> QED
    BY <2>1, <2>2, <2>4, <2>5, <2>6 DEF Inv
<1>17. CASE Cut
  <2>1. /\ UNCHANGED <<phase, orphans>> /\ cuts' # 0
        /\ \A n \in Nodes : pool'[n] = Stale(pool[n]) /\ pool[n] \in Seq(Connection)
        /\ \A j \in Jobs : job'[j] = Muted(job[j]) /\ job[j] \in States
    BY <1>17 DEF Cut, TypeOfParts
  <2>2. \A n \in Nodes : Alone(n)'
    BY <2>1, StaleFacts, MutedFacts DEF Alone
  <2>3. \A n \in Nodes : Quiet(n) => Quiet(n)'
    BY <2>1, StaleFacts, MutedFacts DEF Quiet
  <2> QED
    BY <2>1, <2>2, <2>3 DEF Inv
<1>18. ASSUME UNCHANGED <<phase, cuts, pool, job, orphans, peers>>, linked' \/ linked' = linked
       PROVE  Inv'
  BY <1>18 DEF Inv, Quiet, Alone, Fresh
<1>19. ASSUME NEW n \in Nodes, StartStep(n) PROVE Inv'
  BY <1>1, <1>2, <1>3, <1>4, <1>14, <1>15, <1>19, JobFacts DEF StartStep, Send, OnNodeRegister
<1>20. ASSUME NEW n \in Nodes, CheckStep(n) PROVE Inv'
  BY <1>1, <1>2, <1>3, <1>10, <1>11, <1>12, <1>20, JobFacts DEF CheckStep, Send, OnNodeRegister
<1>21. ASSUME NEW j \in Tasks, TaskStep(j) PROVE Inv'
  BY <1>1, <1>2, <1>5, <1>7, <1>8, <1>9, <1>21, JobFacts DEF TaskStep, Send
\* no send of a fresh server waits for ever
<1>22. ASSUME NEW j \in Jobs, GiveUp(j) PROVE Inv'
  <2>1. /\ j[1] \in Nodes /\ phase[j[1]] # "off" /\ ~Newer(j[1])
        /\ pool' = [pool EXCEPT ![j[1]] = pool[j[1]]]
    BY <1>0, <1>22, JobFacts DEF GiveUp, Newer, Fresh, Failing, TypeOfParts
  <2>2. PICK where \in {"stale", "lost"} : Goto(j, where)
    BY <1>22 DEF GiveUp
  <2>3. phase[Peer(j[1])] = "off" => \A i \in DOMAIN pool[j[1]] : pool[j[1]][i] # "live"
    BY <2>1 DEF Inv, Alone
  <2> QED
    BY <1>22, <2>1, <2>2, <2>3, JobMoves DEF GiveUp
<1> QED
  BY <1>6, <1>13, <1>16, <1>17, <1>18, <1>19, <1>20, <1>21, <1>22 DEF Next, Mend, vars

-----------------------------------------------------------------------------
(* Theorems *)

\* Every reachable state is well typed.
THEOREM TypeCorrect == Spec => []TypeOK
<1>1. Spec => []TypeOfParts
  BY ClusterAssumption, TypeInit, TypeStep, PTL DEF Spec
<1> QED
  BY <1>1, Parts, PTL

\* Two servers that are up have lost sight of each other only if the network was cut,
\* however often each of them has crashed and started, and whatever is sent meanwhile.
THEOREM SightKept == Spec => []SplitOnlyByCut
<1>1. Init => TypeOfParts /\ Inv
  BY ClusterAssumption, TypeInit, InvInit
<1>2. TypeOfParts /\ Inv /\ [Next]_vars => (TypeOfParts /\ Inv)'
  BY ClusterAssumption, TypeStep, InvStep
<1>3. Inv => SplitOnlyByCut
  BY DEF Inv, Fresh, SplitOnlyByCut
<1> QED
  BY <1>1, <1>2, <1>3, PTL DEF Spec
=============================================================================
