---------------------------- MODULE AgentFuture ----------------------------
(***************************************************************************)
(* WessionAgent and WessionFutureSession: an application keeps a future for*)
(* each session it has asked the server to validate, a pool of threads     *)
(* sends the requests in the order of a queue, and the application's       *)
(* threads wait for a verdict, but no longer than their timeout.           *)
(*                                                                         *)
(* A future holds a session object; get and set are synchronized, so each  *)
(* is one step.  The state of the object is CREATED until a waiter or a    *)
(* failed request makes it DUMMY_FAIL; the server sends the session back   *)
(* in the state in which it was sent, and it is then `validated' here.     *)
(***************************************************************************)
EXTENDS Integers, Sequences

CONSTANTS Keys,           \* session keys
          Futures,        \* future objects that can be live at the same time
          Getters,        \* application threads that call get(key, timeout)
          Interruptible,  \* those of them that may be interrupted
          Pool,           \* the threads of futureThreadPool
          MaxQueue,       \* bound on the requests that are queued
          None

ASSUME AgentAssumption ==
  /\ Interruptible \subseteq Getters
  /\ MaxQueue \in Nat
  /\ None \notin Futures

VARIABLES
  repository,  \* future_repository
  future,      \* the fields of each future and of the session in it
  queue,       \* the requests that no thread has taken yet
  running,     \* the request of each pool thread
  enabled,     \* the enable flag of WessionTranser
  getter,      \* what each getter is doing
  told,        \* the request about each key that reached the service page last
  asked        \* history: what was last asked for a key, unless there is no telling

vars == <<repository, future, queue, running, enabled, getter, told, asked>>

New == [key |-> None, ready |-> FALSE, state |-> "CREATED", validated |-> FALSE]
NoRequest == [at |-> "none"]
NoCall == [at |-> "idle"]

Init ==
  /\ repository = [k \in Keys |-> None]
  /\ future = [f \in Futures |-> New]
  /\ queue = <<>>
  /\ running = [t \in Pool |-> NoRequest]
  /\ enabled = TRUE
  /\ getter = [g \in Getters |-> NoCall]
  /\ told = [k \in Keys |-> "EXPIRED"]
  /\ asked = [k \in Keys |-> "EXPIRED"]

\* A future that nothing refers to.
Unused(f) ==
  /\ \A k \in Keys : repository[k] # f
  /\ \A i \in DOMAIN queue : queue[i].future # f
  /\ \A t \in Pool : running[t].at # "none" => running[t].future # f
  /\ \A g \in Getters : getter[g].at # "idle" => getter[g].future # f

\* mutants: future and type swapped; the queue is a stack
ExecuteSwapped(f, type) == queue' = Append(queue, [future |-> type, type |-> f])
ExecuteLast(f, type) == queue' = <<[future |-> f, type |-> type]>> \o queue

\* futureThreadPool.execute
Execute(f, type) == queue' = Append(queue, [future |-> f, type |-> type])

\* A key stays unsure once a request of it has failed, or its CREATED and EXPIRED were
\* sent at once.
Asked(k, what) == [asked EXCEPT ![k] = IF @ = "unsure" THEN @ ELSE what]

-----------------------------------------------------------------------------
(* WessionAgent *)

\* create: a new future replaces the one of the key, and a request is queued.
Create(k) ==
  \E f \in Futures :
    /\ Unused(f)
    /\ Len(queue) < MaxQueue
    /\ repository' = [repository EXCEPT ![k] = f]
    /\ future' = [future EXCEPT ![f] = [New EXCEPT !.key = k]]
    /\ Execute(f, "CREATED")
    /\ asked' = Asked(k, "CREATED")
    /\ UNCHANGED <<running, enabled, getter, told>>

\* add: a new future and no request.
Add(k) ==
  \E f \in Futures :
    /\ Unused(f)
    /\ repository' = [repository EXCEPT ![k] = f]
    /\ future' = [future EXCEPT ![f] = [New EXCEPT !.key = k]]
    /\ UNCHANGED <<queue, running, enabled, getter, told, asked>>

\* remove, and expire without trans: the future goes, the server is not told.
Remove(k) ==
  /\ repository[k] # None
  /\ repository' = [repository EXCEPT ![k] = None]
  /\ UNCHANGED <<future, queue, running, enabled, getter, told, asked>>

\* expire with trans: the future goes, and a request is queued if there was one.
Expire(k) ==
  /\ repository[k] # None
  /\ Len(queue) < MaxQueue
  /\ repository' = [repository EXCEPT ![k] = None]
  /\ Execute(repository[k], "EXPIRED")
  /\ asked' = Asked(k, "EXPIRED")
  /\ UNCHANGED <<future, running, enabled, getter, told>>

Clear ==
  /\ repository' = [k \in Keys |-> None]
  /\ repository' # repository
  /\ UNCHANGED <<future, queue, running, enabled, getter, told, asked>>

\* setTranserEnable
SetEnable(on) ==
  /\ enabled # on
  /\ enabled' = on
  /\ UNCHANGED <<repository, future, queue, running, getter, told, asked>>

-----------------------------------------------------------------------------
(* RequestToServer and WessionTranser *)

\* set: the session object that came back replaces the one in the future.
Set(f, state) ==
  future' = [future EXCEPT ![f].ready = TRUE, ![f].state = state, ![f].validated = TRUE]

\* setState
SetFailed(f) ==
  future' = [future EXCEPT ![f].ready = TRUE, ![f].state = "DUMMY_FAIL"]

\* A request r that a thread has taken, and a request q that is about to be taken.
Opposed(r, q) ==
  /\ r.at # "none"
  /\ future[r.future].key = future[q.future].key
  /\ r.type # q.type

\* run: the message takes the session as it is when the request is sent.
Run(t) ==
  /\ running[t].at = "none"
  /\ queue # <<>>
  /\ running' = [running EXCEPT ![t] =
                   [at |-> "sent", future |-> Head(queue).future, type |-> Head(queue).type,
                    state |-> future[Head(queue).future].state, enabled |-> enabled]]
  /\ queue' = Tail(queue)
  /\ asked' = IF \E u \in Pool : Opposed(running[u], Head(queue))
                THEN Asked(future[Head(queue).future].key, "unsure")
                ELSE asked
  /\ UNCHANGED <<repository, future, enabled, getter, told>>

\* The request reaches the service page of the server.
Serve(t) ==
  /\ running[t].at = "sent" /\ running[t].enabled
  /\ told' = [told EXCEPT ![future[running[t].future].key] = running[t].type]
  /\ running' = [running EXCEPT ![t].at = "served"]
  /\ UNCHANGED <<repository, future, queue, enabled, getter, asked>>

\* The answer arrives.
Answer(t) ==
  /\ running[t].at = "served"
  /\ Set(running[t].future, running[t].state)
  /\ running' = [running EXCEPT ![t] = NoRequest]
  /\ UNCHANGED <<repository, queue, enabled, getter, told, asked>>

\* trans throws: it is disabled, the request or the answer is lost, or the answer
\* cannot be read.
Fail(t) ==
  /\ running[t].at \in {"sent", "served"}
  /\ SetFailed(running[t].future)
  /\ asked' = Asked(future[running[t].future].key, "unsure")
  /\ running' = [running EXCEPT ![t] = NoRequest]
  /\ UNCHANGED <<repository, queue, enabled, getter, told>>

-----------------------------------------------------------------------------
(* WessionFutureSession.get(timeout), called by WessionAgent.get(key, timeout) *)

Returned(g, f, session) ==
  getter' = [getter EXCEPT ![g] = [at |-> "returned", future |-> f, state |-> session.state,
                                   validated |-> session.validated]]

Get(g, k) ==
  /\ getter[g].at = "idle"
  /\ repository[k] # None
  /\ IF future[repository[k]].ready
       THEN Returned(g, repository[k], future[repository[k]])
       ELSE getter' = [getter EXCEPT ![g] = [at |-> "waiting", future |-> repository[k]]]
  /\ UNCHANGED <<repository, future, queue, running, enabled, told, asked>>

\* mutants: it is not marked; it is marked without a second look; the timeout is
\* forgotten
VerdictUnmarked(f) == UNCHANGED future
VerdictUnchecked(f) == SetFailed(f)
VerdictNotified(f) == future[f].ready /\ UNCHANGED future

\* After the wait: if there still is no verdict the session cannot be validated.
Verdict(f) == IF future[f].ready THEN UNCHANGED future ELSE SetFailed(f)

\* wait returns: notified, after the timeout, or for no reason.
WakeUp(g) ==
  /\ getter[g].at = "waiting"
  /\ LET f == getter[g].future
     IN  /\ Verdict(f)
         /\ Returned(g, f, future'[f])
  /\ UNCHANGED <<repository, queue, running, enabled, told, asked>>

\* wait throws, even if a verdict has just arrived.
Interrupt(g) ==
  /\ g \in Interruptible
  /\ getter[g].at = "waiting"
  /\ SetFailed(getter[g].future)
  /\ Returned(g, getter[g].future, future'[getter[g].future])
  /\ UNCHANGED <<repository, queue, running, enabled, told, asked>>

\* The caller has used the session that get returned.
Done(g) ==
  /\ getter[g].at = "returned"
  /\ getter' = [getter EXCEPT ![g] = NoCall]
  /\ UNCHANGED <<repository, future, queue, running, enabled, told, asked>>

-----------------------------------------------------------------------------
Next ==
  \/ \E k \in Keys : Create(k) \/ Add(k) \/ Remove(k) \/ Expire(k)
  \/ Clear
  \/ \E on \in BOOLEAN : SetEnable(on)
  \/ \E t \in Pool : Run(t) \/ Serve(t) \/ Answer(t) \/ Fail(t)
  \/ \E g \in Getters : WakeUp(g) \/ Interrupt(g) \/ Done(g) \/ \E k \in Keys : Get(g, k)

Spec == Init /\ [][Next]_vars

\* A timeout does elapse; nothing is assumed of the pool, of the network or of
\* the server.
Fairness == \A g \in Getters : WF_vars(WakeUp(g))
FairSpec == Spec /\ Fairness

-----------------------------------------------------------------------------
(* Properties *)

TypeOK ==
  /\ repository \in [Keys -> Futures \cup {None}]
  /\ future \in [Futures -> [key : Keys \cup {None}, ready : BOOLEAN,
                             state : {"CREATED", "DUMMY_FAIL"}, validated : BOOLEAN]]
  /\ queue \in Seq([future : Futures, type : {"CREATED", "EXPIRED"}])
  /\ running \in [Pool ->
       {NoRequest} \cup
       [at : {"sent", "served"}, future : Futures, type : {"CREATED", "EXPIRED"},
        state : {"CREATED", "DUMMY_FAIL"}, enabled : BOOLEAN]]
  /\ enabled \in BOOLEAN
  /\ getter \in [Getters ->
       {NoCall} \cup [at : {"waiting"}, future : Futures] \cup
       [at : {"returned"}, future : Futures, state : {"CREATED", "DUMMY_FAIL"},
        validated : BOOLEAN]]
  /\ told \in [Keys -> {"CREATED", "EXPIRED"}]
  /\ asked \in [Keys -> {"CREATED", "EXPIRED", "unsure"}]

\* WessionFutureSession.get(timeout), lines 44 to 49: what it returns has been
\* validated by the server, or is marked as a session that cannot be validated;
\* it is never the untouched original.
ReturnsVerdict ==
  \A g \in Getters :
    getter[g].at = "returned" => getter[g].validated \/ getter[g].state = "DUMMY_FAIL"

\* A validated session that can still be looked up keeps its state: a waiter whose
\* timeout races the answer, or a second request, never overwrites the verdict.
\* Only a waiter that is interrupted does.
AnswerStands ==
  [][\A k \in Keys :
       LET f == repository[k]
       IN  f # None /\ repository'[k] = f /\ future[f].validated =>
             \/ future'[f] = future[f]
             \/ \E g \in Interruptible : getter[g].at = "waiting" /\ getter[g].future = f
                                        /\ getter'[g].at = "returned"]_vars

\* WessionAgent, lines 103 and 117: with nothing queued or running, the request about a
\* session that reached the server last is the one that was asked last; unless a request
\* of it failed, or two threads sent its CREATED and its EXPIRED at once.
LastAskedLastTold ==
  queue = <<>> /\ (\A t \in Pool : running[t].at = "none") =>
    \A k \in Keys : asked[k] \in {"unsure", told[k]}

\* get(timeout) returns even if the server never answers.
GetReturns == \A g \in Getters : []<>(getter[g].at # "waiting")
=============================================================================
