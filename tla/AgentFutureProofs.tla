------------------------- MODULE AgentFutureProofs -------------------------
(***************************************************************************)
(* Proofs about AgentFuture, for every set of keys, futures, getters and   *)
(* request threads.                                                        *)
(***************************************************************************)
EXTENDS AgentFuture, TLAPS

Request == [future : Futures, type : {"CREATED", "EXPIRED"}]

Sent ==
  [at : {"sent", "served"}, future : Futures, type : {"CREATED", "EXPIRED"},
   state : {"CREATED", "DUMMY_FAIL"}, enabled : BOOLEAN]

FutureSession ==
  [key : Keys \cup {None}, ready : BOOLEAN, state : {"CREATED", "DUMMY_FAIL"},
   validated : BOOLEAN]

Call ==
  [at : {"waiting"}, future : Futures] \cup
  [at : {"returned"}, future : Futures, state : {"CREATED", "DUMMY_FAIL"},
   validated : BOOLEAN]

\* The parts of TypeOK that take a proof, with their types by name.
TypeOfParts ==
  /\ repository \in [Keys -> Futures \cup {None}]
  /\ future \in [Futures -> FutureSession]
  /\ queue \in Seq(Request)
  /\ running \in [Pool -> {NoRequest} \cup Sent]
  /\ enabled \in BOOLEAN
  /\ getter \in [Getters -> {NoCall} \cup Call]
  /\ told \in [Keys -> {"CREATED", "EXPIRED"}]
  /\ asked \in [Keys -> {"CREATED", "EXPIRED", "unsure"}]

LEMMA Parts == TypeOK <=> TypeOfParts
  BY DEF TypeOK, TypeOfParts, Request, Sent, FutureSession, Call

\* A queue that is not empty has its first request in it.
LEMMA HeadTyped ==
  ASSUME NEW q \in Seq(Request), q # <<>>
  PROVE  Head(q) \in Request /\ Tail(q) \in Seq(Request)
  OBVIOUS

\* A pool thread that is not free has sent the request of a future.
LEMMA RunningTyped ==
  ASSUME TypeOfParts, NEW t \in Pool, running[t].at # "none"
  PROVE  running[t] \in Sent
  BY DEF TypeOfParts, NoRequest

\* A getter in a call has the future it asked for.
LEMMA GetterTyped ==
  ASSUME TypeOfParts, NEW g \in Getters, getter[g].at # "idle"
  PROVE  getter[g] \in Call /\ getter[g].future \in Futures
  BY DEF TypeOfParts, NoCall, Call

\* What set and setState leave in a future.
LEMMA SetTyped ==
  ASSUME future \in [Futures -> FutureSession], NEW f \in Futures,
         NEW state \in {"CREATED", "DUMMY_FAIL"}
  PROVE  /\ Set(f, state) => future' \in [Futures -> FutureSession]
         /\ SetFailed(f) => future' \in [Futures -> FutureSession]
<1>1. ASSUME NEW g \in Futures, Set(f, state) PROVE future'[g] \in FutureSession
  BY <1>1 DEF Set, FutureSession
<1>2. ASSUME NEW g \in Futures, SetFailed(f) PROVE future'[g] \in FutureSession
  BY <1>2 DEF SetFailed, FutureSession
<1>3. Set(f, state) \/ SetFailed(f) => future' = [g \in Futures |-> future'[g]]
  BY DEF Set, SetFailed
<1> QED
  BY <1>1, <1>2, <1>3

\* What create and add leave in a future.
LEMMA NewTyped ==
  ASSUME future \in [Futures -> FutureSession], NEW f \in Futures, NEW k \in Keys
  PROVE  [future EXCEPT ![f] = [New EXCEPT !.key = k]] \in [Futures -> FutureSession]
<1>1. [New EXCEPT !.key = k] \in FutureSession
  BY DEF New, FutureSession
<1> QED
  BY <1>1

-----------------------------------------------------------------------------
(* The invariants *)

\* A future is ready when it has a verdict, and only then.
ReadyInv ==
  \A f \in Futures :
    future[f].ready <=> future[f].validated \/ future[f].state = "DUMMY_FAIL"

Running(t) == running[t].at # "none"

\* A future is in the repository under its own key, and a request is of a future that
\* has a key.
KeyInv ==
  /\ \A k \in Keys : repository[k] # None => future[repository[k]].key = k
  /\ \A i \in DOMAIN queue : future[queue[i].future].key \in Keys
  /\ \A t \in Pool : Running(t) => future[running[t].future].key \in Keys

\* The request of a future that can be looked up is still without an answer, and no
\* other request is of the same future.
RequestInv ==
  \A k \in Keys :
    /\ \A i \in DOMAIN queue :
         repository[k] = queue[i].future => ~future[repository[k]].validated
    /\ \A t \in Pool :
         Running(t) /\ repository[k] = running[t].future =>
           ~future[repository[k]].validated
    /\ \A i, j \in DOMAIN queue :
         repository[k] = queue[i].future /\ repository[k] = queue[j].future => i = j
    /\ \A t, u \in Pool :
         /\ Running(t) /\ repository[k] = running[t].future
         /\ Running(u) /\ repository[k] = running[u].future
         => t = u
    /\ \A i \in DOMAIN queue, t \in Pool :
         repository[k] = queue[i].future =>
           ~(Running(t) /\ repository[k] = running[t].future)

\* Request i of the queue, and the request of pool thread t, are about key k.
Queued(i, k) == i \in DOMAIN queue /\ future[queue[i].future].key = k
Sending(t, k) == Running(t) /\ future[running[t].future].key = k

\* What was asked last for k is still to be sent.
Pending(k) == \E i \in DOMAIN queue : Queued(i, k) /\ queue[i].type = asked[k]

\* The server has been told the given thing of k, and nothing else since.
Told(k, type) == told[k] = type

\* What is in the queue and in the pool tells the server last what was asked last for k.
LastLast(k) ==
  \A i \in DOMAIN queue :
    Queued(i, k) /\ queue[i].type # asked[k] =>
      \E j \in DOMAIN queue : j > i /\ Queued(j, k) /\ queue[j].type = asked[k]
OneType(k) ==
  \A t, u \in Pool : Sending(t, k) /\ Sending(u, k) => running[t].type = running[u].type
ServedTold(k) ==
  \A t \in Pool : Sending(t, k) /\ running[t].at = "served" => Told(k, running[t].type)
LastToCome(k) ==
  /\ \A t \in Pool : Sending(t, k) /\ running[t].type # asked[k] => Pending(k)
  /\ (\A t \in Pool : ~Sending(t, k)) => Told(k, asked[k]) \/ Pending(k)

KeyInStep(k) == LastLast(k) /\ OneType(k) /\ ServedTold(k) /\ LastToCome(k)
StepInv == \A k \in Keys : asked[k] # "unsure" => KeyInStep(k)

-----------------------------------------------------------------------------
(* Types *)

LEMMA TypeInit == AgentAssumption /\ Init => TypeOfParts
  BY DEF AgentAssumption, Init, TypeOfParts, FutureSession, New

LEMMA TypeStep == AgentAssumption /\ TypeOfParts /\ KeyInv /\ [Next]_vars => TypeOfParts'
<1> SUFFICES ASSUME AgentAssumption, TypeOfParts, KeyInv, [Next]_vars PROVE TypeOfParts'
  OBVIOUS
<1> USE DEF AgentAssumption, TypeOfParts
<1>1. ASSUME NEW k \in Keys, Create(k) PROVE TypeOfParts'
  <2> PICK f \in Futures :
        /\ repository' = [repository EXCEPT ![k] = f]
        /\ future' = [future EXCEPT ![f] = [New EXCEPT !.key = k]]
        /\ queue' = Append(queue, [future |-> f, type |-> "CREATED"])
    BY <1>1 DEF Create, Execute
  <2>1. future' \in [Futures -> FutureSession]
    BY NewTyped
  <2>2. queue' \in Seq(Request)
    BY DEF Request
  <2> QED
    BY <1>1, <2>1, <2>2 DEF Create, Asked
<1>2. ASSUME NEW k \in Keys, Add(k) PROVE TypeOfParts'
  <2>1. future' \in [Futures -> FutureSession]
    BY <1>2, NewTyped DEF Add
  <2> QED
    BY <1>2, <2>1 DEF Add
<1>3. ASSUME NEW k \in Keys, Remove(k) PROVE TypeOfParts'
  BY <1>3 DEF Remove
<1>4. ASSUME NEW k \in Keys, Expire(k) PROVE TypeOfParts'
  <2>1. queue' \in Seq(Request)
    BY <1>4 DEF Expire, Execute, Request
  <2> QED
    BY <1>4, <2>1 DEF Expire, Asked
<1>5. CASE Clear
  BY <1>5 DEF Clear
<1>6. ASSUME NEW on \in BOOLEAN, SetEnable(on) PROVE TypeOfParts'
  BY <1>6 DEF SetEnable
<1>7. ASSUME NEW t \in Pool, Run(t) PROVE TypeOfParts'
  <2>1. Head(queue) \in Request /\ Tail(queue) \in Seq(Request)
    BY <1>7, HeadTyped DEF Run
  <2>2. running' \in [Pool -> {NoRequest} \cup Sent]
    BY <1>7, <2>1 DEF Run, Sent, Request, FutureSession
  <2>3. asked' \in [Keys -> {"CREATED", "EXPIRED", "unsure"}]
    BY <1>7 DEF Run, Asked
  <2> QED
    BY <1>7, <2>1, <2>2, <2>3 DEF Run
<1>8. ASSUME NEW t \in Pool, Serve(t) PROVE TypeOfParts'
  <2>1. running[t] \in Sent
    BY <1>8, RunningTyped DEF Serve
  <2>2. running' \in [Pool -> {NoRequest} \cup Sent]
    BY <1>8, <2>1 DEF Serve, Sent
  <2>3. future[running[t].future].key \in Keys
    BY <1>8 DEF Serve, KeyInv, Running
  <2>4. told' \in [Keys -> {"CREATED", "EXPIRED"}]
    BY <1>8, <2>1, <2>3 DEF Serve, Sent
  <2> QED
    BY <1>8, <2>2, <2>4 DEF Serve
<1>9. ASSUME NEW t \in Pool, Answer(t) PROVE TypeOfParts'
  <2>1. running[t].future \in Futures /\ running[t].state \in {"CREATED", "DUMMY_FAIL"}
    BY <1>9, RunningTyped DEF Answer, Sent
  <2>2. future' \in [Futures -> FutureSession]
    BY <1>9, <2>1, SetTyped DEF Answer
  <2> QED
    BY <1>9, <2>2 DEF Answer
<1>10. ASSUME NEW t \in Pool, Fail(t) PROVE TypeOfParts'
  <2>1. running[t].future \in Futures
    BY <1>10, RunningTyped DEF Fail, Sent
  <2>2. future' \in [Futures -> FutureSession]
    BY <1>10, <2>1, SetTyped DEF Fail
  <2>3. asked' \in [Keys -> {"CREATED", "EXPIRED", "unsure"}]
    BY <1>10 DEF Fail, Asked
  <2> QED
    BY <1>10, <2>2, <2>3 DEF Fail
<1>11. ASSUME NEW g \in Getters, NEW k \in Keys, Get(g, k) PROVE TypeOfParts'
  BY <1>11 DEF Get, Returned, Call, FutureSession
<1>12. ASSUME NEW g \in Getters, WakeUp(g) PROVE TypeOfParts'
  <2>1. getter[g].future \in Futures
    BY <1>12, GetterTyped DEF WakeUp
  <2>2. future' \in [Futures -> FutureSession]
    BY <1>12, <2>1, SetTyped DEF WakeUp, Verdict
  <2> QED
    BY <1>12, <2>1, <2>2 DEF WakeUp, Returned, Call, FutureSession
<1>13. ASSUME NEW g \in Getters, Interrupt(g) PROVE TypeOfParts'
  <2>1. getter[g].future \in Futures
    BY <1>13, GetterTyped DEF Interrupt
  <2>2. future' \in [Futures -> FutureSession]
    BY <1>13, <2>1, SetTyped DEF Interrupt
  <2> QED
    BY <1>13, <2>1, <2>2 DEF Interrupt, Returned, Call, FutureSession
<1>14. ASSUME NEW g \in Getters, Done(g) PROVE TypeOfParts'
  BY <1>14 DEF Done
<1>15. CASE UNCHANGED vars
  BY <1>15 DEF vars
<1> QED
  BY <1>1, <1>2, <1>3, <1>4, <1>5, <1>6, <1>7, <1>8, <1>9, <1>10, <1>11, <1>12, <1>13,
     <1>14, <1>15 DEF Next

-----------------------------------------------------------------------------
(* How the queue changes *)

LEMMA QueueAppended ==
  ASSUME NEW q \in Seq(Request), NEW r \in Request
  PROVE  /\ DOMAIN q \subseteq DOMAIN Append(q, r)
         /\ \A i \in DOMAIN q : Append(q, r)[i] = q[i]
         /\ Len(q) + 1 \in DOMAIN Append(q, r) /\ Append(q, r)[Len(q) + 1] = r
         /\ \A i \in DOMAIN Append(q, r) : i \in DOMAIN q \/ i = Len(q) + 1
         /\ \A i \in DOMAIN q : i < Len(q) + 1
  OBVIOUS

LEMMA QueueTaken ==
  ASSUME NEW q \in Seq(Request), q # <<>>
  PROVE  /\ 1 \in DOMAIN q /\ Head(q) = q[1]
         /\ \A i \in DOMAIN q : i > 1 => i - 1 \in DOMAIN Tail(q)
         /\ \A i \in DOMAIN q : i = 1 \/ i > 1
         /\ \A i \in DOMAIN Tail(q) : i + 1 \in DOMAIN q /\ Tail(q)[i] = q[i + 1]
         /\ DOMAIN q \subseteq Int /\ DOMAIN Tail(q) \subseteq Int
         /\ \A i \in DOMAIN Tail(q) : i >= 1
  OBVIOUS

-----------------------------------------------------------------------------
(* Keys *)

\* The steps between a waiter and its verdict change nothing of a future but its verdict.
LEMMA KeysKept ==
  ASSUME TypeOfParts,
         \/ \E t \in Pool : Answer(t) \/ Fail(t)
         \/ \E g \in Getters : WakeUp(g) \/ Interrupt(g)
  PROVE  \A f \in Futures : future'[f].key = future[f].key
<1>0. future \in [Futures -> FutureSession]
  BY DEF TypeOfParts
<1>1. ASSUME NEW f, NEW state, Set(f, state), NEW h \in Futures
      PROVE  future'[h].key = future[h].key
  BY <1>0, <1>1 DEF Set, FutureSession
<1>2. ASSUME NEW f, SetFailed(f), NEW h \in Futures
      PROVE  future'[h].key = future[h].key
  BY <1>0, <1>2 DEF SetFailed, FutureSession
<1> QED
  BY <1>1, <1>2 DEF Answer, Fail, WakeUp, Interrupt, Verdict

LEMMA KeyInit == Init => KeyInv
  BY DEF Init, KeyInv, Running, NoRequest

\* What the proofs below need to know of the types.
LEMMA Typed ==
  ASSUME TypeOfParts
  PROVE  /\ repository \in [Keys -> Futures \cup {None}]
         /\ future \in [Futures -> FutureSession]
         /\ queue \in Seq(Request)
         /\ \A i \in DOMAIN queue : queue[i] \in Request /\ queue[i].future \in Futures
         /\ \A t \in Pool : Running(t) => running[t] \in Sent /\ running[t].future \in Futures
<1>1. \A i \in DOMAIN queue : queue[i] \in Request
  BY DEF TypeOfParts
<1>2. \A i \in DOMAIN queue : queue[i].future \in Futures
  BY <1>1 DEF Request
<1>3. \A t \in Pool : Running(t) => running[t] \in Sent
  BY RunningTyped DEF Running
<1>4. \A t \in Pool : Running(t) => running[t].future \in Futures
  BY <1>3 DEF Sent
<1> QED
  BY <1>1, <1>2, <1>3, <1>4 DEF TypeOfParts

LEMMA KeyStep == AgentAssumption /\ TypeOfParts /\ KeyInv /\ [Next]_vars => KeyInv'
<1> SUFFICES ASSUME AgentAssumption, TypeOfParts, KeyInv, [Next]_vars PROVE KeyInv'
  OBVIOUS
<1> USE DEF AgentAssumption, KeyInv, Running
<1>0. /\ repository \in [Keys -> Futures \cup {None}]
      /\ future \in [Futures -> FutureSession]
      /\ queue \in Seq(Request)
      /\ \A i \in DOMAIN queue : queue[i].future \in Futures
      /\ \A t \in Pool : Running(t) => running[t].future \in Futures
  BY Typed
<1>1. ASSUME NEW k \in Keys, Create(k) PROVE KeyInv'
  <2> PICK f \in Futures :
        /\ Unused(f)
        /\ repository' = [repository EXCEPT ![k] = f]
        /\ future' = [future EXCEPT ![f] = [New EXCEPT !.key = k]]
        /\ queue' = Append(queue, [future |-> f, type |-> "CREATED"])
    BY <1>1 DEF Create, Execute
  <2>1. future'[f].key = k /\ \A h \in Futures : h # f => future'[h] = future[h]
    BY <1>0 DEF New
  <2>2. [future |-> f, type |-> "CREATED"] \in Request
    BY DEF Request
  <2>3. \A i \in DOMAIN queue' : future'[queue'[i].future].key \in Keys
    BY <1>0, <2>1, <2>2, QueueAppended DEF Unused
  <2> QED
    BY <1>0, <1>1, <2>1, <2>3 DEF Create, Unused
<1>2. ASSUME NEW k \in Keys, Add(k) PROVE KeyInv'
  <2> PICK f \in Futures :
        /\ Unused(f)
        /\ repository' = [repository EXCEPT ![k] = f]
        /\ future' = [future EXCEPT ![f] = [New EXCEPT !.key = k]]
    BY <1>2 DEF Add
  <2>1. future'[f].key = k /\ \A h \in Futures : h # f => future'[h] = future[h]
    BY <1>0 DEF New
  <2> QED
    BY <1>0, <1>2, <2>1 DEF Add, Unused
<1>3. ASSUME NEW k \in Keys, Remove(k) PROVE KeyInv'
  BY <1>0, <1>3 DEF Remove
<1>4. ASSUME NEW k \in Keys, Expire(k) PROVE KeyInv'
  <2>1. [future |-> repository[k], type |-> "EXPIRED"] \in Request
    BY <1>0, <1>4 DEF Expire, Request
  <2>2. \A i \in DOMAIN queue' : future'[queue'[i].future].key \in Keys
    BY <1>0, <1>4, <2>1, QueueAppended DEF Expire, Execute
  <2> QED
    BY <1>0, <1>4, <2>2 DEF Expire
<1>5. CASE Clear
  BY <1>5 DEF Clear
<1>6. ASSUME NEW on \in BOOLEAN, SetEnable(on) PROVE KeyInv'
  BY <1>6 DEF SetEnable
<1>7. ASSUME NEW t \in Pool, Run(t) PROVE KeyInv'
  <2>1. \A i \in DOMAIN queue' : future'[queue'[i].future].key \in Keys
    BY <1>0, <1>7, QueueTaken DEF Run
  <2>2. \A u \in Pool : Running(u)' => future'[running'[u].future].key \in Keys
    BY <1>0, <1>7, QueueTaken DEF Run, TypeOfParts
  <2> QED
    BY <1>7, <2>1, <2>2 DEF Run
<1>8. ASSUME NEW t \in Pool, Serve(t) PROVE KeyInv'
  BY <1>8 DEF Serve, TypeOfParts, Sent, NoRequest
<1>9. ASSUME NEW t \in Pool, Answer(t) \/ Fail(t) PROVE KeyInv'
  BY <1>0, <1>9, KeysKept DEF Answer, Fail, TypeOfParts, NoRequest
<1>10. ASSUME NEW g \in Getters, WakeUp(g) \/ Interrupt(g) PROVE KeyInv'
  BY <1>0, <1>10, KeysKept DEF WakeUp, Interrupt
<1>11. ASSUME NEW g \in Getters, NEW k \in Keys, Get(g, k) PROVE KeyInv'
  BY <1>11 DEF Get
<1>12. ASSUME NEW g \in Getters, Done(g) PROVE KeyInv'
  BY <1>12 DEF Done
<1>13. CASE UNCHANGED vars
  BY <1>13 DEF vars
<1> QED
  BY <1>1, <1>2, <1>3, <1>4, <1>5, <1>6, <1>7, <1>8, <1>9, <1>10, <1>11, <1>12, <1>13
     DEF Next

-----------------------------------------------------------------------------
(* Verdicts *)

LEMMA ReadyInit == Init => ReadyInv
  BY DEF Init, ReadyInv, New

LEMMA ReadyStep == TypeOfParts /\ ReadyInv /\ [Next]_vars => ReadyInv'
<1> SUFFICES ASSUME TypeOfParts, ReadyInv, [Next]_vars PROVE ReadyInv'
  OBVIOUS
<1> USE DEF ReadyInv
<1>0. future \in [Futures -> FutureSession]
  BY DEF TypeOfParts
<1>1. ASSUME NEW f \in Futures, NEW k \in Keys,
             future' = [future EXCEPT ![f] = [New EXCEPT !.key = k]]
      PROVE  ReadyInv'
  BY <1>0, <1>1 DEF New
<1>2. ASSUME NEW f \in Futures, NEW state, Set(f, state) PROVE ReadyInv'
  BY <1>0, <1>2 DEF Set, FutureSession
<1>3. ASSUME NEW f, SetFailed(f) PROVE ReadyInv'
  BY <1>0, <1>3 DEF SetFailed, FutureSession
<1>4. ASSUME UNCHANGED future PROVE ReadyInv'
  BY <1>4
<1>5. ASSUME NEW k \in Keys, Create(k) \/ Add(k) PROVE ReadyInv'
  BY <1>1, <1>5 DEF Create, Add
<1>6. ASSUME NEW t \in Pool, Answer(t) PROVE ReadyInv'
  BY <1>2, <1>6, RunningTyped DEF Answer, Sent
<1> QED
  BY <1>3, <1>4, <1>5, <1>6
     DEF Next, vars, Remove, Expire, Clear, SetEnable, Run, Serve, Fail, Get, WakeUp, Verdict,
         Interrupt, Done

LEMMA ReturnsStep ==
  TypeOfParts /\ ReadyInv /\ ReturnsVerdict /\ [Next]_vars => ReturnsVerdict'
<1> SUFFICES ASSUME TypeOfParts, ReadyInv, ReturnsVerdict, [Next]_vars
             PROVE  ReturnsVerdict'
  OBVIOUS
<1> USE DEF ReturnsVerdict
<1>0. getter \in [Getters -> {NoCall} \cup Call] /\ ReadyInv'
  BY ReadyStep DEF TypeOfParts
<1>1. ASSUME NEW g \in Getters, NEW k \in Keys, Get(g, k) PROVE ReturnsVerdict'
  <2>1. repository[k] \in Futures
    BY <1>1 DEF Get, TypeOfParts
  <2> QED
    BY <1>0, <1>1, <2>1 DEF Get, Returned, ReadyInv
<1>2. ASSUME NEW g \in Getters, WakeUp(g) PROVE ReturnsVerdict'
  <2>1. getter[g].future \in Futures
    BY <1>2, GetterTyped DEF WakeUp
  <2>2. future'[getter[g].future].ready
    BY <1>2, <2>1 DEF WakeUp, Verdict, SetFailed, TypeOfParts, FutureSession
  <2> QED
    BY <1>0, <1>2, <2>1, <2>2 DEF WakeUp, Returned, ReadyInv
<1>3. ASSUME NEW g \in Getters, Interrupt(g) PROVE ReturnsVerdict'
  <2>1. getter[g].future \in Futures
    BY <1>3, GetterTyped DEF Interrupt
  <2>2. future'[getter[g].future].state = "DUMMY_FAIL"
    BY <1>3, <2>1 DEF Interrupt, SetFailed, TypeOfParts, FutureSession
  <2> QED
    BY <1>0, <1>3, <2>2 DEF Interrupt, Returned
<1>4. ASSUME NEW g \in Getters, Done(g) PROVE ReturnsVerdict'
  BY <1>0, <1>4 DEF Done, NoCall
<1>5. ASSUME UNCHANGED getter PROVE ReturnsVerdict'
  BY <1>5
<1> QED
  BY <1>1, <1>2, <1>3, <1>4, <1>5
     DEF Next, vars, Create, Add, Remove, Expire, Clear, SetEnable, Run, Serve, Answer, Fail

-----------------------------------------------------------------------------
(* Requests *)

LEMMA RequestInit == Init => RequestInv
<1> SUFFICES ASSUME Init PROVE RequestInv
  OBVIOUS
<1>1. DOMAIN queue = {} /\ \A t \in Pool : ~Running(t)
  BY DEF Init, Running, NoRequest
<1> QED
  BY <1>1 DEF RequestInv

\* Nothing can go wrong with a request while no future comes into the repository, no
\* request is new and no future that is in the repository is validated.
LEMMA RequestKept ==
  ASSUME TypeOfParts, RequestInv,
         UNCHANGED queue,
         \A k \in Keys : repository'[k] \in {repository[k], None},
         None \notin Futures,
         \A t \in Pool :
           Running(t)' => Running(t) /\ running'[t].future = running[t].future,
         \A k \in Keys :
           repository[k] # None =>
             future'[repository[k]].validated = future[repository[k]].validated
  PROVE  RequestInv'
<1>1. /\ \A i \in DOMAIN queue : queue[i].future # None
      /\ \A t \in Pool : Running(t) => running[t].future # None
  BY Typed
<1> QED
  BY <1>1 DEF RequestInv

LEMMA RequestStep ==
  AgentAssumption /\ TypeOfParts /\ KeyInv /\ RequestInv /\ [Next]_vars => RequestInv'
<1> SUFFICES ASSUME AgentAssumption, TypeOfParts, KeyInv, RequestInv, [Next]_vars
             PROVE  RequestInv'
  OBVIOUS
<1> USE DEF Running
<1>0. /\ None \notin Futures
      /\ repository \in [Keys -> Futures \cup {None}]
      /\ future \in [Futures -> FutureSession]
      /\ queue \in Seq(Request)
      /\ \A i \in DOMAIN queue : queue[i].future \in Futures
      /\ \A t \in Pool : Running(t) => running[t].future \in Futures
  BY Typed DEF AgentAssumption
<1>1. ASSUME NEW k \in Keys, Create(k) PROVE RequestInv'
  <2> PICK f \in Futures :
        /\ Unused(f)
        /\ repository' = [repository EXCEPT ![k] = f]
        /\ future' = [future EXCEPT ![f] = [New EXCEPT !.key = k]]
        /\ queue' = Append(queue, [future |-> f, type |-> "CREATED"])
    BY <1>1 DEF Create, Execute
  <2> DEFINE r == [future |-> f, type |-> "CREATED"]
  <2>1. /\ ~future'[f].validated
        /\ \A h \in Futures : h # f => future'[h] = future[h]
    BY <1>0 DEF New
  <2>2. r \in Request
    BY DEF Request
  <2>3. /\ \A i \in DOMAIN queue' :
             \/ i \in DOMAIN queue /\ queue'[i] = queue[i] /\ queue[i].future # f
             \/ i = Len(queue) + 1 /\ queue'[i].future = f
        /\ UNCHANGED running
        /\ \A t \in Pool : Running(t) => running[t].future # f
    BY <1>0, <1>1, <2>2, QueueAppended DEF Create, Unused
  <2>4. repository'[k] = f /\ \A j \in Keys : j # k => repository'[j] = repository[j] /\ repository[j] # f
    BY <1>0 DEF Unused
  <2>5. ASSUME NEW j \in Keys
        PROVE  /\ \A i \in DOMAIN queue' :
                    repository'[j] = queue'[i].future => ~future'[repository'[j]].validated
               /\ \A t \in Pool :
                    Running(t)' /\ repository'[j] = running'[t].future =>
                      ~future'[repository'[j]].validated
    BY <1>0, <2>1, <2>3, <2>4 DEF RequestInv
  <2>6. ASSUME NEW j \in Keys, NEW i \in DOMAIN queue', NEW n \in DOMAIN queue',
               repository'[j] = queue'[i].future, repository'[j] = queue'[n].future
        PROVE  i = n
    BY <1>0, <2>3, <2>4, <2>6 DEF RequestInv
  <2>7. ASSUME NEW j \in Keys
        PROVE  /\ \A t, u \in Pool :
                    /\ Running(t)' /\ repository'[j] = running'[t].future
                    /\ Running(u)' /\ repository'[j] = running'[u].future
                    => t = u
               /\ \A i \in DOMAIN queue', t \in Pool :
                    repository'[j] = queue'[i].future =>
                      ~(Running(t)' /\ repository'[j] = running'[t].future)
    BY <1>0, <2>3, <2>4 DEF RequestInv
  <2> QED
    BY <2>5, <2>6, <2>7 DEF RequestInv
<1>2. ASSUME NEW k \in Keys, Add(k) PROVE RequestInv'
  <2> PICK f \in Futures :
        /\ Unused(f)
        /\ repository' = [repository EXCEPT ![k] = f]
        /\ future' = [future EXCEPT ![f] = [New EXCEPT !.key = k]]
    BY <1>2 DEF Add
  <2>1. \A h \in Futures : h # f => future'[h] = future[h]
    BY <1>0
  <2>2. repository'[k] = f /\ \A j \in Keys : j # k => repository'[j] = repository[j] /\ repository[j] # f
    BY <1>0 DEF Unused
  <2>3. /\ \A i \in DOMAIN queue : queue[i].future # f
        /\ \A t \in Pool : Running(t) => running[t].future # f
    BY DEF Unused
  <2>4. UNCHANGED <<queue, running>>
    BY <1>2 DEF Add
  <2> QED
    BY <1>0, <2>1, <2>2, <2>3, <2>4 DEF RequestInv
<1>3. ASSUME NEW k \in Keys, Remove(k) PROVE RequestInv'
  BY <1>0, <1>3, RequestKept DEF Remove
<1>4. ASSUME NEW k \in Keys, Expire(k) PROVE RequestInv'
  <2> DEFINE r == [future |-> repository[k], type |-> "EXPIRED"]
  <2>1. r \in Request /\ queue' = Append(queue, r) /\ repository[k] \in Futures
    BY <1>0, <1>4 DEF Expire, Execute, Request
  <2>2. \A i \in DOMAIN queue' :
          \/ i \in DOMAIN queue /\ queue'[i] = queue[i]
          \/ queue'[i].future = repository[k]
    BY <1>0, <2>1, QueueAppended
  \* no other key has the future that leaves the repository
  <2>3. /\ repository'[k] = None
        /\ \A j \in Keys : j # k => repository'[j] = repository[j] /\ repository[j] # repository[k]
    BY <1>0, <1>4, <2>1 DEF Expire, KeyInv
  <2>4. \A j \in Keys, i \in DOMAIN queue' :
          repository'[j] = queue'[i].future =>
            i \in DOMAIN queue /\ queue'[i] = queue[i] /\ repository'[j] = repository[j]
    BY <1>0, <2>1, <2>2, <2>3
  <2>5. \A j \in Keys, t \in Pool :
          Running(t) /\ repository'[j] = running[t].future => repository'[j] = repository[j]
    BY <1>0, <2>3
  <2>6. UNCHANGED <<future, running>>
    BY <1>4 DEF Expire
  <2> QED
    BY <2>4, <2>5, <2>6 DEF RequestInv
<1>5. CASE Clear
  BY <1>0, <1>5, RequestKept DEF Clear
<1>6. ASSUME NEW on \in BOOLEAN, SetEnable(on) PROVE RequestInv'
  BY <1>0, <1>6, RequestKept DEF SetEnable
<1>7. ASSUME NEW t \in Pool, Run(t) PROVE RequestInv'
  <2>1. /\ 1 \in DOMAIN queue
        /\ \A i \in DOMAIN queue' :
             i + 1 \in DOMAIN queue /\ queue'[i] = queue[i + 1] /\ i + 1 # 1 /\ i \in Int
    BY <1>0, <1>7, QueueTaken DEF Run
  <2>2. \A u \in Pool :
          /\ u # t => running'[u] = running[u]
          /\ u = t => Running(u)' /\ ~Running(u) /\ running'[u].future = queue[1].future
    BY <1>0, <1>7, QueueTaken DEF Run, TypeOfParts
  <2>3. UNCHANGED <<repository, future>>
    BY <1>7 DEF Run
  <2>4. ASSUME NEW j \in Keys, NEW i \in DOMAIN queue', NEW n \in DOMAIN queue',
               repository'[j] = queue'[i].future, repository'[j] = queue'[n].future
        PROVE  i = n
    <3>1. i + 1 = n + 1
      BY <2>1, <2>3, <2>4 DEF RequestInv
    <3> QED
      BY <2>1, <3>1
  <2>5. ASSUME NEW j \in Keys
        PROVE  /\ \A i \in DOMAIN queue' :
                    repository'[j] = queue'[i].future => ~future'[repository'[j]].validated
               /\ \A u \in Pool :
                    Running(u)' /\ repository'[j] = running'[u].future =>
                      ~future'[repository'[j]].validated
    BY <2>1, <2>2, <2>3 DEF RequestInv
  <2>6. ASSUME NEW j \in Keys, NEW u \in Pool, NEW w \in Pool,
               Running(u)', repository'[j] = running'[u].future,
               Running(w)', repository'[j] = running'[w].future
        PROVE  u = w
    <3> DEFINE Of(v) == Running(v) /\ repository[j] = running[v].future
    <3>1. \A v \in Pool : repository[j] = queue[1].future => ~Of(v)
      BY <2>1 DEF RequestInv
    <3>2. \A v \in {u, w} : v # t => Of(v)
      BY <2>2, <2>3, <2>6
    <3>3. \A v \in {u, w} : v = t => repository[j] = queue[1].future
      BY <2>2, <2>3, <2>6
    <3>4. Of(u) /\ Of(w) => u = w
      BY DEF RequestInv
    <3> HIDE DEF Of
    <3> QED
      BY <3>1, <3>2, <3>3, <3>4
  <2>7. ASSUME NEW j \in Keys, NEW i \in DOMAIN queue', NEW u \in Pool,
               repository'[j] = queue'[i].future
        PROVE  ~(Running(u)' /\ repository'[j] = running'[u].future)
    BY <2>1, <2>2, <2>3, <2>7 DEF RequestInv
  <2> QED
    BY <2>4, <2>5, <2>6, <2>7 DEF RequestInv
<1>8. ASSUME NEW t \in Pool, Serve(t) PROVE RequestInv'
  <2>1. \A u \in Pool : Running(u)' => Running(u) /\ running'[u].future = running[u].future
    BY <1>8 DEF Serve, TypeOfParts, Sent, NoRequest
  <2> QED
    BY <1>0, <1>8, <2>1, RequestKept DEF Serve
\* the request that is answered was the only one of its future
<1>9. ASSUME NEW t \in Pool, Answer(t) PROVE RequestInv'
  <2>1. Running(t) /\ running[t].future \in Futures
    BY <1>0, <1>9 DEF Answer
  <2>2. \A h \in Futures : h # running[t].future => future'[h] = future[h]
    BY <1>0, <1>9 DEF Answer, Set
  <2>3. \A u \in Pool : Running(u)' => u # t /\ Running(u) /\ running'[u] = running[u]
    BY <1>9 DEF Answer, NoRequest, TypeOfParts
  <2>4. UNCHANGED <<repository, queue>>
    BY <1>9 DEF Answer
  <2>5. ASSUME NEW j \in Keys
        PROVE  /\ \A i \in DOMAIN queue :
                    repository[j] = queue[i].future => repository[j] # running[t].future
               /\ \A u \in Pool :
                    Running(u)' /\ repository[j] = running[u].future =>
                      repository[j] # running[t].future
    BY <2>1, <2>3 DEF RequestInv
  <2> QED
    BY <1>0, <2>2, <2>3, <2>4, <2>5 DEF RequestInv
<1>10. ASSUME NEW t \in Pool, Fail(t) PROVE RequestInv'
  <2>1. \A h \in Futures : future'[h].validated = future[h].validated
    BY <1>0, <1>10 DEF Fail, SetFailed, FutureSession
  <2>2. \A u \in Pool : Running(u)' => Running(u) /\ running'[u].future = running[u].future
    BY <1>10 DEF Fail, NoRequest, TypeOfParts
  <2> QED
    BY <1>0, <1>10, <2>1, <2>2, RequestKept DEF Fail
<1>11. ASSUME NEW g \in Getters, WakeUp(g) \/ Interrupt(g) PROVE RequestInv'
  <2>1. \A h \in Futures : future'[h].validated = future[h].validated
    BY <1>0, <1>11 DEF WakeUp, Interrupt, Verdict, SetFailed, FutureSession
  <2> QED
    BY <1>0, <1>11, <2>1, RequestKept DEF WakeUp, Interrupt
<1>12. ASSUME NEW g \in Getters, Done(g) \/ \E k \in Keys : Get(g, k) PROVE RequestInv'
  BY <1>0, <1>12, RequestKept DEF Done, Get
<1>13. CASE UNCHANGED vars
  BY <1>0, <1>13, RequestKept DEF vars
<1> QED
  BY <1>1, <1>2, <1>3, <1>4, <1>5, <1>6, <1>7, <1>8, <1>9, <1>10, <1>11, <1>12, <1>13
     DEF Next

\* What AnswerStands says of one step.
LEMMA AnswerStep ==
  ASSUME AgentAssumption, TypeOfParts, ReadyInv, RequestInv, [Next]_vars,
         NEW k \in Keys, repository[k] # None, repository'[k] = repository[k],
         future[repository[k]].validated
  PROVE  \/ future'[repository[k]] = future[repository[k]]
         \/ \E g \in Interruptible : /\ getter[g].at = "waiting"
                                     /\ getter[g].future = repository[k]
                                     /\ getter'[g].at = "returned"
<1> DEFINE f == repository[k]
<1> DEFINE Interrupted == \E g \in Interruptible : /\ getter[g].at = "waiting"
                                                   /\ getter[g].future = repository[k]
                                                   /\ getter'[g].at = "returned"
<1>0. future \in [Futures -> FutureSession] /\ f \in Futures
  BY Typed
<1>1. ASSUME NEW j \in Keys, Create(j) \/ Add(j) PROVE future'[f] = future[f]
  <2>1. PICK h \in Futures : Unused(h) /\ future' = [future EXCEPT ![h] = [New EXCEPT !.key = j]]
    BY <1>1 DEF Create, Add
  <2> QED
    BY <1>0, <2>1 DEF Unused
\* a request of f would find it without an answer
<1>2. ASSUME NEW t \in Pool, Answer(t) \/ Fail(t) PROVE future'[f] = future[f]
  <2>1. f # running[t].future
    BY <1>2 DEF Answer, Fail, RequestInv, Running
  <2> QED
    BY <1>0, <1>2, <2>1 DEF Answer, Fail, Set, SetFailed
\* a waiter sees that f is ready
<1>3. ASSUME NEW g \in Getters, WakeUp(g) PROVE future'[f] = future[f]
  <2>1. future[f].ready
    BY <1>0 DEF ReadyInv
  <2> QED
    BY <1>0, <1>3, <2>1 DEF WakeUp, Verdict, SetFailed
<1>4. ASSUME NEW g \in Getters, Interrupt(g)
      PROVE  future'[f] = future[f] \/ Interrupted
  <2>1. CASE getter[g].future = f
    <3>1. getter'[g].at = "returned"
      BY <1>4 DEF Interrupt, Returned, TypeOfParts
    <3> QED
      BY <1>4, <2>1, <3>1 DEF Interrupt
  <2>2. CASE getter[g].future # f
    BY <1>0, <1>4, <2>2 DEF Interrupt, SetFailed
  <2> QED
    BY <2>1, <2>2
<1>5. ASSUME UNCHANGED future PROVE future'[f] = future[f]
  BY <1>5
<1> QED
  BY <1>1, <1>2, <1>3, <1>4, <1>5
     DEF Next, vars, Remove, Expire, Clear, SetEnable, Run, Serve, Get, Done

-----------------------------------------------------------------------------
(* What the server is told last *)

LEMMA StepInit == Init => StepInv
<1> SUFFICES ASSUME Init PROVE StepInv
  OBVIOUS
<1>1. /\ DOMAIN queue = {} /\ \A t \in Pool : ~Running(t)
      /\ \A k \in Keys : asked[k] = "EXPIRED" /\ told[k] = "EXPIRED"
  BY DEF Init, Running, NoRequest
<1> QED
  BY <1>1 DEF StepInv, KeyInStep, LastLast, OneType, ServedTold, LastToCome, Queued, Sending,
              Pending, Told

\* A step that leaves the requests, the server and what was asked alone.
LEMMA InStepKept ==
  ASSUME StepInv, UNCHANGED <<queue, running, told, asked>>,
         \A i \in DOMAIN queue :
           future'[queue[i].future].key = future[queue[i].future].key,
         \A t \in Pool : Running(t) =>
           future'[running[t].future].key = future[running[t].future].key
  PROVE  StepInv'
<1>1. \A k \in Keys, i \in DOMAIN queue : Queued(i, k)' <=> Queued(i, k)
  BY DEF Queued
<1>2. \A k \in Keys, t \in Pool : Sending(t, k)' <=> Sending(t, k)
  BY DEF Sending, Running
<1> SUFFICES ASSUME NEW k \in Keys, asked[k] # "unsure" PROVE KeyInStep(k)'
  BY DEF StepInv
<1>3. KeyInStep(k)
  BY DEF StepInv
<1>4. Pending(k)' <=> Pending(k)
  BY <1>1 DEF Pending
<1>5. LastLast(k)'
  BY <1>1, <1>3 DEF KeyInStep, LastLast
<1>6. OneType(k)'
  BY <1>2, <1>3 DEF KeyInStep, OneType
<1>7. ServedTold(k)'
  BY <1>2, <1>3 DEF KeyInStep, ServedTold, Told
<1>8. LastToCome(k)'
  BY <1>2, <1>3, <1>4 DEF KeyInStep, LastToCome, Told
<1> QED
  BY <1>5, <1>6, <1>7, <1>8 DEF KeyInStep

\* A step that asks something of k, and queues the request for it.
LEMMA InStepAsked ==
  ASSUME TypeOfParts, StepInv, NEW k \in Keys, NEW r \in Request,
         queue' = Append(queue, r), UNCHANGED <<running, told>>,
         asked' = Asked(k, r.type), future'[r.future].key = k,
         \A i \in DOMAIN queue :
           future'[queue[i].future].key = future[queue[i].future].key,
         \A t \in Pool : Running(t) =>
           future'[running[t].future].key = future[running[t].future].key
  PROVE  StepInv'
<1>1. PICK n \in DOMAIN queue' :
      /\ queue'[n] = r
      /\ \A i \in DOMAIN queue' : (i \in DOMAIN queue /\ queue'[i] = queue[i]) \/ i = n
      /\ \A i \in DOMAIN queue : i \in DOMAIN queue' /\ queue'[i] = queue[i] /\ i < n
  BY QueueAppended DEF TypeOfParts
<1>2. \A j \in Keys, t \in Pool : Sending(t, j)' <=> Sending(t, j)
  BY DEF Sending, Running
<1>3. asked \in [Keys -> {"CREATED", "EXPIRED", "unsure"}]
  BY DEF TypeOfParts
<1>4. ASSUME NEW j \in Keys, j # k, asked'[j] # "unsure" PROVE KeyInStep(j)'
  <2>1. asked'[j] = asked[j] /\ KeyInStep(j)
    BY <1>3, <1>4 DEF Asked, StepInv
  <2>2. /\ \A i \in DOMAIN queue' : Queued(i, j)' => i \in DOMAIN queue /\ Queued(i, j)
        /\ \A i \in DOMAIN queue : Queued(i, j) => Queued(i, j)'
    BY <1>1, <1>4 DEF Queued
  <2>3. Pending(j) => Pending(j)'
    BY <1>1, <2>1, <2>2 DEF Pending
  <2>4. LastLast(j)'
    BY <1>1, <2>1, <2>2 DEF KeyInStep, LastLast
  <2>5. OneType(j)'
    BY <1>2, <2>1 DEF KeyInStep, OneType
  <2>6. ServedTold(j)'
    BY <1>2, <2>1 DEF KeyInStep, ServedTold, Told
  <2>7. LastToCome(j)'
    BY <1>2, <2>1, <2>3 DEF KeyInStep, LastToCome, Told
  <2> QED
    BY <2>4, <2>5, <2>6, <2>7 DEF KeyInStep
<1>5. ASSUME asked'[k] # "unsure" PROVE KeyInStep(k)'
  <2>1. asked'[k] = r.type /\ KeyInStep(k)
    BY <1>3, <1>5 DEF Asked, StepInv
  <2>2. Queued(n, k)' /\ queue'[n].type = asked'[k]
    BY <1>1, <2>1 DEF Queued
  <2>3. Pending(k)'
    BY <1>1, <2>2 DEF Pending
  <2>4. LastLast(k)'
    BY <1>1, <2>1, <2>2 DEF LastLast
  <2>5. OneType(k)'
    BY <1>2, <2>1 DEF KeyInStep, OneType
  <2>6. ServedTold(k)'
    BY <1>2, <2>1 DEF KeyInStep, ServedTold, Told
  <2>7. LastToCome(k)'
    BY <2>3 DEF LastToCome
  <2> QED
    BY <2>4, <2>5, <2>6, <2>7 DEF KeyInStep
<1> QED
  BY <1>4, <1>5 DEF StepInv

\* A thread takes the first request: what remains still ends in what was asked last,
\* and if it was not the last itself it is of no other type than what is being sent.
LEMMA InStepRun ==
  ASSUME TypeOfParts, KeyInv, StepInv, NEW t \in Pool, Run(t)
  PROVE  StepInv'
<1> DEFINE r == queue[1]
<1>1. /\ 1 \in DOMAIN queue
      /\ \A i \in DOMAIN queue' :
           i + 1 \in DOMAIN queue /\ queue'[i] = queue[i + 1] /\ i \in Int /\ i >= 1
      /\ \A i \in DOMAIN queue :
           /\ i \in Int
           /\ i # 1 => i > 1 /\ i - 1 \in DOMAIN queue' /\ queue'[i - 1] = queue[i]
  <2>1. queue \in Seq(Request) /\ queue # <<>> /\ queue' = Tail(queue)
    BY DEF Run, TypeOfParts
  <2>2. /\ 1 \in DOMAIN queue /\ DOMAIN queue \subseteq Int
        /\ \A i \in DOMAIN queue' :
             i + 1 \in DOMAIN queue /\ queue'[i] = queue[i + 1] /\ i \in Int /\ i >= 1
    BY <2>1, QueueTaken
  <2>3. ASSUME NEW i \in DOMAIN queue, i # 1
        PROVE  i > 1 /\ i - 1 \in DOMAIN queue' /\ queue'[i - 1] = queue[i]
    <3>1. i > 1 /\ i - 1 \in DOMAIN queue'
      BY <2>1, <2>3, QueueTaken
    <3> QED
      BY <2>2, <3>1
  <2> QED
    BY <2>2, <2>3
<1>2. /\ UNCHANGED <<future, told>>
      /\ Running(t)' /\ ~Running(t)
      /\ running'[t].future = r.future /\ running'[t].type = r.type
      /\ running'[t].at = "sent"
      /\ \A u \in Pool : u # t => running'[u] = running[u]
  BY QueueTaken DEF Run, TypeOfParts, Running
<1>3. \/ asked' = asked /\ ~\E u \in Pool : Opposed(running[u], r)
      \/ asked' = Asked(future[r.future].key, "unsure")
  BY QueueTaken DEF Run, TypeOfParts
<1> HIDE DEF r
<1> SUFFICES ASSUME NEW k \in Keys, asked'[k] # "unsure" PROVE KeyInStep(k)'
  BY DEF StepInv
<1>4. asked'[k] = asked[k] /\ KeyInStep(k)
  BY <1>3 DEF Asked, TypeOfParts, StepInv
<1>5. \A i \in DOMAIN queue' : Queued(i, k)' <=> Queued(i + 1, k)
  BY <1>1, <1>2 DEF Queued
<1>6. \A u \in Pool : u # t => (Sending(u, k)' <=> Sending(u, k))
  BY <1>2 DEF Sending, Running
<1>7. LastLast(k)'
  <2> SUFFICES ASSUME NEW i \in DOMAIN queue', Queued(i, k)', queue'[i].type # asked'[k]
               PROVE  \E j \in DOMAIN queue' :
                        j > i /\ Queued(j, k)' /\ queue'[j].type = asked'[k]
    BY DEF LastLast
  <2>1. PICK j \in DOMAIN queue : j > i + 1 /\ Queued(j, k) /\ queue[j].type = asked[k]
    BY <1>1, <1>4, <1>5 DEF KeyInStep, LastLast
  <2>2. j - 1 \in DOMAIN queue' /\ j - 1 > i /\ queue'[j - 1] = queue[j] /\ (j - 1) + 1 = j
    BY <1>1, <2>1
  <2>3. Queued(j - 1, k)'
    BY <1>5, <2>1, <2>2
  <2> QED
    BY <1>4, <2>1, <2>2, <2>3
\* what is pending is not the request that is taken
<1>8. ASSUME NEW i \in DOMAIN queue, i # 1, Queued(i, k), queue[i].type = asked[k]
      PROVE  Pending(k)'
  <2>1. i - 1 \in DOMAIN queue' /\ queue'[i - 1] = queue[i] /\ (i - 1) + 1 = i
    BY <1>1, <1>8
  <2>2. Queued(i - 1, k)'
    BY <1>5, <1>8, <2>1
  <2> QED
    BY <1>4, <1>8, <2>1, <2>2 DEF Pending
<1>9. CASE future[r.future].key # k
  <2>1. ~Sending(t, k)' /\ ~Sending(t, k)
    BY <1>2, <1>9 DEF Sending
  <2>2. \A u \in Pool : /\ Sending(u, k)' <=> Sending(u, k)
                        /\ Sending(u, k)' => running'[u] = running[u]
    BY <1>2, <1>6, <2>1
  <2>3. Pending(k) => Pending(k)'
    BY <1>8, <1>9 DEF Pending, Queued, r
  <2>4. OneType(k)'
    BY <1>4, <2>2 DEF KeyInStep, OneType
  <2>5. ServedTold(k)'
    BY <1>2, <1>4, <2>2 DEF KeyInStep, ServedTold, Told
  <2>6. LastToCome(k)'
    BY <1>2, <1>4, <2>2, <2>3 DEF KeyInStep, LastToCome, Told
  <2> QED
    BY <1>7, <2>4, <2>5, <2>6 DEF KeyInStep
<1>10. CASE future[r.future].key = k
  <2>1. Sending(t, k)' /\ ~Sending(t, k)
    BY <1>2, <1>10 DEF Sending
  <2>2. \A u \in Pool : Sending(u, k) => running[u].type = r.type
    <3>1. ~\E u \in Pool : Opposed(running[u], r)
      BY <1>3, <1>10 DEF Asked, TypeOfParts
    <3> QED
      BY <1>10, <3>1 DEF Opposed, Sending, Running
  <2>3. \A u \in Pool : Sending(u, k)' => running'[u].type = r.type
    BY <1>2, <1>6, <2>2
  <2>4. OneType(k)'
    BY <2>3 DEF OneType
  <2>5. ServedTold(k)'
    BY <1>2, <1>4, <1>6 DEF KeyInStep, ServedTold, Told
  <2>6. r.type # asked[k] => Pending(k)'
    <3>1. Queued(1, k)
      BY <1>1, <1>10 DEF Queued, r
    <3> QED
      BY <1>1, <1>4, <1>8, <3>1 DEF KeyInStep, LastLast, r
  <2>7. LastToCome(k)'
    BY <1>4, <2>1, <2>3, <2>6 DEF LastToCome
  <2> QED
    BY <1>7, <2>4, <2>5, <2>7 DEF KeyInStep
<1> QED
  BY <1>9, <1>10

LEMMA InStepServe ==
  ASSUME TypeOfParts, StepInv, NEW t \in Pool, Serve(t)
  PROVE  StepInv'
<1> DEFINE key == future[running[t].future].key
<1>1. /\ UNCHANGED <<queue, future, asked>>
      /\ running[t].at = "sent" /\ running'[t] = [running[t] EXCEPT !.at = "served"]
      /\ \A u \in Pool : u # t => running'[u] = running[u]
      /\ told' = [told EXCEPT ![key] = running[t].type] /\ told \in [Keys -> {"CREATED", "EXPIRED"}]
  BY DEF Serve, TypeOfParts
<1>2. running[t] \in Sent
  BY <1>1, RunningTyped
<1>3. /\ Running(t) /\ Running(t)'
      /\ running'[t].future = running[t].future /\ running'[t].type = running[t].type
  BY <1>1, <1>2 DEF Running, Sent
<1> SUFFICES ASSUME NEW k \in Keys, asked[k] # "unsure" PROVE KeyInStep(k)'
  BY <1>1 DEF StepInv
<1>4. KeyInStep(k)
  BY DEF StepInv
<1>5. \A u \in Pool : (Sending(u, k)' <=> Sending(u, k)) /\ running'[u].type = running[u].type
  BY <1>1, <1>3 DEF Sending, Running
<1>6. \A i \in DOMAIN queue : Queued(i, k)' <=> Queued(i, k)
  BY <1>1 DEF Queued
<1>7. Pending(k)' <=> Pending(k)
  BY <1>1, <1>6 DEF Pending
<1>8. LastLast(k)'
  BY <1>1, <1>4, <1>6 DEF KeyInStep, LastLast
<1>9. OneType(k)'
  BY <1>4, <1>5 DEF KeyInStep, OneType
<1>10. Sending(t, k) => Told(k, running[t].type)'
  BY <1>1, <1>2, <1>3 DEF Sending, Told, Sent
<1>11. ~Sending(t, k) => told'[k] = told[k]
  BY <1>1, <1>3 DEF Sending
\* a request that is sent at the same time has told the server the same
<1>12. ServedTold(k)'
  <2>1. CASE Sending(t, k)
    <3>1. \A u \in Pool : Sending(u, k)' => running'[u].type = running[t].type
      BY <1>4, <1>5, <2>1 DEF KeyInStep, OneType
    <3> QED
      BY <1>3, <1>10, <2>1, <3>1 DEF ServedTold, Told
  <2>2. CASE ~Sending(t, k)
    BY <1>1, <1>4, <1>5, <1>11, <2>2 DEF KeyInStep, ServedTold, Told
  <2> QED
    BY <2>1, <2>2
<1>13. LastToCome(k)'
  BY <1>1, <1>4, <1>5, <1>7, <1>11 DEF KeyInStep, LastToCome, Told
<1> QED
  BY <1>8, <1>9, <1>12, <1>13 DEF KeyInStep

\* A request ends: it was served, or it failed and there is no telling.
LEMMA InStepEnd ==
  ASSUME TypeOfParts, StepInv, NEW t \in Pool, Answer(t) \/ Fail(t)
  PROVE  StepInv'
<1>1. /\ UNCHANGED <<queue, told>>
      /\ Running(t) /\ ~Running(t)'
      /\ \A u \in Pool : u # t => running'[u] = running[u]
  BY DEF Answer, Fail, TypeOfParts, Running, NoRequest
<1>2. \A f \in Futures : future'[f].key = future[f].key
  BY KeysKept
<1> SUFFICES ASSUME NEW k \in Keys, asked'[k] # "unsure" PROVE KeyInStep(k)'
  BY DEF StepInv
<1>3. /\ asked'[k] = asked[k] /\ asked[k] # "unsure"
      /\ Sending(t, k) => running[t].at = "served"
  BY DEF Answer, Fail, Asked, TypeOfParts, Sending
<1>4. KeyInStep(k)
  BY <1>3 DEF StepInv
<1>5. \A u \in Pool :
        /\ Sending(u, k)' => Sending(u, k) /\ running'[u] = running[u]
        /\ u # t => (Sending(u, k)' <=> Sending(u, k))
  BY <1>1, <1>2, Typed DEF Sending, Running
<1>6. \A i \in DOMAIN queue : Queued(i, k)' <=> Queued(i, k)
  BY <1>1, <1>2, Typed DEF Queued
<1>7. Pending(k)' <=> Pending(k)
  BY <1>1, <1>3, <1>6 DEF Pending
<1>8. LastLast(k)'
  BY <1>1, <1>3, <1>4, <1>6 DEF KeyInStep, LastLast
<1>9. OneType(k)'
  BY <1>4, <1>5 DEF KeyInStep, OneType
<1>10. ServedTold(k)'
  BY <1>1, <1>4, <1>5 DEF KeyInStep, ServedTold, Told
<1>11. LastToCome(k)'
  <2>1. ASSUME NEW u \in Pool, Sending(u, k)', running'[u].type # asked'[k]
        PROVE  Pending(k)'
    BY <1>3, <1>4, <1>5, <1>7, <2>1 DEF KeyInStep, LastToCome
  <2>2. ASSUME \A u \in Pool : ~Sending(u, k)'
        PROVE  Told(k, asked[k]) \/ Pending(k)
    <3>1. CASE Sending(t, k)
      BY <1>3, <1>4, <3>1 DEF KeyInStep, LastToCome, ServedTold
    <3>2. CASE ~Sending(t, k)
      BY <1>4, <1>5, <2>2, <3>2 DEF KeyInStep, LastToCome
    <3> QED
      BY <3>1, <3>2
  <2> QED
    BY <1>1, <1>3, <1>7, <2>1, <2>2 DEF LastToCome, Told
<1> QED
  BY <1>8, <1>9, <1>10, <1>11 DEF KeyInStep

LEMMA StepStep ==
  AgentAssumption /\ TypeOfParts /\ KeyInv /\ StepInv /\ [Next]_vars => StepInv'
<1> SUFFICES ASSUME AgentAssumption, TypeOfParts, KeyInv, StepInv, [Next]_vars
             PROVE  StepInv'
  OBVIOUS
\* the future of a request is in use, and create and add take one that is not
<1>1. ASSUME NEW f \in Futures, NEW k \in Keys, Unused(f),
             future' = [future EXCEPT ![f] = [New EXCEPT !.key = k]]
      PROVE  /\ \A i \in DOMAIN queue :
                  future'[queue[i].future].key = future[queue[i].future].key
             /\ \A t \in Pool : Running(t) =>
                  future'[running[t].future].key = future[running[t].future].key
             /\ future'[f].key = k
  BY <1>1, Typed DEF Unused, Running, New
<1>2. ASSUME NEW k \in Keys, Create(k) PROVE StepInv'
  <2> PICK f \in Futures :
        /\ Unused(f)
        /\ future' = [future EXCEPT ![f] = [New EXCEPT !.key = k]]
        /\ queue' = Append(queue, [future |-> f, type |-> "CREATED"])
    BY <1>2 DEF Create, Execute
  <2> DEFINE r == [future |-> f, type |-> "CREATED"]
  <2>1. r \in Request /\ r.type = "CREATED" /\ r.future = f
    BY DEF Request
  <2>2. asked' = Asked(k, r.type) /\ queue' = Append(queue, r) /\ UNCHANGED <<running, told>>
    BY <1>2, <2>1 DEF Create
  <2> HIDE DEF r
  <2> QED
    BY <1>1, <2>1, <2>2, InStepAsked
<1>3. ASSUME NEW k \in Keys, Expire(k) PROVE StepInv'
  <2> DEFINE r == [future |-> repository[k], type |-> "EXPIRED"]
  <2>1. r \in Request /\ r.type = "EXPIRED" /\ future[r.future].key = k
    BY <1>3, Typed DEF Expire, Request, KeyInv
  <2>2. /\ asked' = Asked(k, r.type) /\ queue' = Append(queue, r)
        /\ UNCHANGED <<future, running, told>>
    BY <1>3, <2>1 DEF Expire, Execute
  <2> HIDE DEF r
  <2> QED
    BY <2>1, <2>2, InStepAsked
<1>4. ASSUME NEW k \in Keys, Add(k) PROVE StepInv'
  BY <1>1, <1>4, InStepKept DEF Add
<1>5. ASSUME NEW g \in Getters, WakeUp(g) \/ Interrupt(g) PROVE StepInv'
  BY <1>5, KeysKept, Typed, InStepKept DEF WakeUp, Interrupt
<1>6. ASSUME UNCHANGED <<queue, running, told, asked, future>> PROVE StepInv'
  BY <1>6, InStepKept
<1> QED
  BY <1>2, <1>3, <1>4, <1>5, <1>6, InStepRun, InStepServe, InStepEnd
     DEF Next, vars, Remove, Clear, SetEnable, Get, Done

-----------------------------------------------------------------------------
(* Theorems *)

\* The inductive invariant.
IInv == TypeOfParts /\ KeyInv /\ ReadyInv /\ RequestInv /\ StepInv /\ ReturnsVerdict

LEMMA Inductive == Spec => []IInv
<1>1. Init => IInv
  <2>1. Init => ReturnsVerdict
    BY DEF Init, ReturnsVerdict, NoCall
  <2> QED
    BY <2>1, AgentAssumption, TypeInit, KeyInit, ReadyInit, RequestInit, StepInit DEF IInv
<1>2. IInv /\ [Next]_vars => IInv'
  BY AgentAssumption, TypeStep, KeyStep, ReadyStep, RequestStep, StepStep, ReturnsStep
     DEF IInv
<1> QED
  BY <1>1, <1>2, PTL DEF Spec

\* Every reachable state is well typed.
THEOREM TypeCorrect == Spec => []TypeOK
<1>1. IInv => TypeOK
  BY Parts DEF IInv
<1> QED
  BY <1>1, Inductive, PTL

\* What get(timeout) returns has been validated by the server or is marked as a session
\* that cannot be validated, whatever threads ask, answer, fail, expire or wait at once.
THEOREM VerdictsReturned == Spec => []ReturnsVerdict
<1>1. IInv => ReturnsVerdict
  BY DEF IInv
<1> QED
  BY <1>1, Inductive, PTL

\* No waiter whose timeout races the answer, and no other request, overwrites the
\* verdict of a session that can still be looked up; only an interrupted waiter does.
THEOREM VerdictsStand == Spec => AnswerStands
<1> DEFINE Stands(k) ==
      LET f == repository[k]
      IN  f # None /\ repository'[k] = f /\ future[f].validated =>
            \/ future'[f] = future[f]
            \/ \E g \in Interruptible : getter[g].at = "waiting" /\ getter[g].future = f
                                       /\ getter'[g].at = "returned"
<1>1. IInv /\ [Next]_vars => [\A k \in Keys : Stands(k)]_vars
  BY AgentAssumption, AnswerStep DEF IInv
<1> QED
  BY <1>1, Inductive, PTL DEF Spec, AnswerStands

\* Once the queue is empty and the threads are idle, the request about a key that reached
\* the server last is the one that was asked last, for any number of threads; unless a
\* request of the key failed or its creation and its expiry were being sent at once.
THEOREM LastAskedArrives == Spec => []LastAskedLastTold
<1>1. IInv => LastAskedLastTold
  <2> SUFFICES ASSUME StepInv, queue = <<>>, \A t \in Pool : ~Running(t), NEW k \in Keys,
                      asked[k] # "unsure"
               PROVE  Told(k, asked[k])
    BY DEF IInv, LastAskedLastTold, Running, Told
  <2>1. (\A t \in Pool : ~Sending(t, k)) /\ ~Pending(k)
    BY DEF Sending, Pending, Queued
  <2> QED
    BY <2>1 DEF StepInv, KeyInStep, LastToCome
<1> QED
  BY <1>1, Inductive, PTL
=============================================================================
