------------------------------ MODULE Journal ------------------------------
(***************************************************************************)
(* The journal of one server: what is done to the repository is written   *)
(* into JournalFile, and a restart reads it back.                          *)
(*                                                                         *)
(* A create, an expire and a clear are tasks of the executor that change   *)
(* the repository and journal it.  A change of a session object, by an     *)
(* agent or an attribute, is made on the thread that asks for it, and is   *)
(* journaled by a task of the executor later.  The objects have identities:*)
(* a thread may hold one that is no longer stored, and a create journals   *)
(* its own object even if the repository kept another one.                 *)
(*                                                                         *)
(* JournalFile appends to file A.  When an entry is more than RollTime     *)
(* younger than A, A becomes B, the old B is deleted and a new A begins.   *)
(* A dump thread writes the live sessions to file D from time to time.     *)
(* A server that starts and gets no session from its peer replays B and A, *)
(* and creates, and so journals again, what it finds.                      *)
(*                                                                         *)
(* The clock is `now'.  An entry is stamped when it is made and appended   *)
(* later, under appendLock.  Its number n is not in the code: it is the    *)
(* order of the appends.                                                   *)
(***************************************************************************)
EXTENDS Integers, SequencesExt

CONSTANTS Sessions,    \* session ids
          Agents,      \* agent session ids
          Attrs,       \* attribute keys
          Objects,     \* session objects; bounds those made while the process lives
          Requests,    \* bounds the requests that are under way at the same time
          Offered,     \* the commands asked of the server; "DUMP" if a dump falls due
          RollTime, SessionTime,
          MaxTime,     \* bound on the clock
          MaxEntries,  \* bound on the entries that requests append
          MaxStarts,   \* bound on the times the server starts
          None

\* What a session object holds.
Contents == [id : Sessions, agents : SUBSET Agents, attrs : SUBSET Attrs, born : 0 .. MaxTime]

ASSUME JournalAssumption ==
  /\ RollTime \in Nat /\ SessionTime \in Nat
  /\ MaxTime \in Nat /\ MaxEntries \in Nat /\ MaxStarts \in Nat \ {0}
  /\ Agents \cap Attrs = {}
  /\ None \notin Contents \cup Objects \cup Agents \cup Attrs

VARIABLES
  now,        \* the clock
  phase,      \* of the server: up, stopping (journal closed) or down
  starts,     \* how often it has started
  object,     \* what the session objects hold, None before they are made
  live,       \* the repository: the session object of an id, or None
  work,       \* the requests that are under way
  recover,    \* sessions read at the start whose create task has not run
  A, B,       \* the entries in the append file and in the backup file
  D,          \* the sessions in the dump file
  stream,     \* appendstream: null, open, or closed by stop
  modified,   \* fileModifyTime
  written,    \* the number of appends so far
  crossed     \* history: sessions whose requests have met in a way that may reorder them

vars == <<now, phase, starts, object, live, work, recover, A, B, D, stream, modified, written,
          crossed>>
disk == <<A, B, D, stream, modified, written>>

Changes == {"ADD", "REMOVE", "SET", "DEL"}
Commands == {"CREATE", "EXPIRE", "CLEAR"} \cup Changes

\* A request: its command, its session id, the agent or attribute it carries, and
\* the session object it is about, for a create or a change.
Task(cmd, x, data, o) == [cmd |-> cmd, id |-> x, data |-> data, on |-> o]
Idle == [at |-> "idle"]

Init ==
  /\ now = 0
  /\ phase = "up"
  /\ starts = 1
  /\ object = [o \in Objects |-> None]
  /\ live = [x \in Sessions |-> None]
  /\ work = [w \in Requests |-> Idle]
  /\ recover = {}
  /\ A = <<>> /\ B = <<>> /\ D = {}
  /\ stream = "null"
  /\ modified = 0
  /\ written = 0
  /\ crossed = {}

-----------------------------------------------------------------------------
(* Reading the journal back: JournalFile.getAll *)

\* What one entry does to the sessions read so far.  DEL removes an agent session.
Replayed(sessions, e) ==
  LET Update(contents) ==
        IF sessions[e.id] = None THEN sessions ELSE [sessions EXCEPT ![e.id] = contents]
  IN  CASE e.cmd = "CREATE" -> [sessions EXCEPT ![e.id] = e.data]
        [] e.cmd = "EXPIRE" -> [sessions EXCEPT ![e.id] = None]
        [] e.cmd = "ADD"    -> Update([sessions[e.id] EXCEPT !.agents = @ \cup {e.data}])
        [] e.cmd = "REMOVE" -> Update([sessions[e.id] EXCEPT !.agents = @ \ {e.data}])
        [] e.cmd = "SET"    -> Update([sessions[e.id] EXCEPT !.attrs = @ \cup {e.data}])
        [] e.cmd = "DEL"    -> Update([sessions[e.id] EXCEPT !.agents = @ \ {e.data}])
        [] e.cmd = "CLEAR"  -> [x \in Sessions |-> None]

\* readJournalEntity: the entries of a file that are still within SessionTime.
InTime(file) == {e \in ToSet(file) : e.time > now - SessionTime}

\* The orders in which the sorted set may hold them: by time; for equal times
\* those of B first, and those of one file as the HashSet happens to give them.
ReplayOrders ==
  {order \in SetToSeqs(InTime(B) \cup InTime(A)) :
     \A i, j \in DOMAIN order :
       i < j => \/ order[i].time < order[j].time
                \/ order[i].time = order[j].time
                   /\ (order[i] \in InTime(A) => order[j] \in InTime(A))}

\* readDumpFile looks for a file that is never written.
DumpRead == [x \in Sessions |-> None]

Recoverable == {FoldLeft(Replayed, DumpRead, order) : order \in ReplayOrders}

-----------------------------------------------------------------------------
(* History: requests about one session that may be journaled in another    *)
(* order than the one in which they took effect                            *)

\* A create and a request that does not change the created object; two changes of
\* one agent or one attribute.
Disturbs(t, r) ==
  \/ t.cmd = "CREATE" /\ r.on # t.on
  \/ t.cmd \in Changes /\ r.cmd # t.cmd /\ r.data = t.data

About(t, x) == t.id = x \/ t.cmd = "CLEAR"

\* The sessions for which a request that takes effect now meets such another.
Meets(t) ==
  {x \in Sessions :
     /\ About(t, x)
     /\ \E v \in Requests : /\ work[v].at \in {"check", "stamp", "append"}
                            /\ About(work[v].task, x)
                            /\ Disturbs(t, work[v].task) \/ Disturbs(work[v].task, t)}

-----------------------------------------------------------------------------
(* WessionSessionManager and WessionServerSession: requests that change the*)
(* repository or a session object, and are journaled by a task of the      *)
(* executor afterwards.  After a stop the executor may reject them.        *)

Busy == {v \in Requests : work[v].at # "idle"}

Free(w, cmd) ==
  /\ phase # "down"
  /\ w \notin Busy
  /\ cmd \in Offered
  /\ written + Cardinality(Busy) < MaxEntries

\* Request w has got to the stage `at'.
Goes(w, at, task) ==
  /\ work' = [work EXCEPT ![w] = [at |-> at, task |-> task]]
  /\ UNCHANGED <<now, phase, starts, recover, disk>>

\* create, as the caller sees it: a new object, and its task is queued.
Create(w, x, o) ==
  /\ Free(w, "CREATE")
  /\ object[o] = None
  /\ object' = [object EXCEPT ![o] = [id |-> x, agents |-> {}, attrs |-> {}, born |-> now]]
  /\ Goes(w, "store", Task("CREATE", x, None, o))
  /\ UNCHANGED <<live, crossed>>

\* putIfAbsent
Stored(x, o) == IF live[x] = None THEN [live EXCEPT ![x] = o] ELSE live

\* The task of create runs; it journals its object even if another one is stored.
Store(w) ==
  /\ phase # "down"
  /\ work[w].at = "store"
  /\ LET t == work[w].task
     IN  /\ live' = Stored(t.id, t.on)
         /\ crossed' = crossed \cup Meets(t) \cup (IF live[t.id] = None THEN {} ELSE {t.id})
         /\ Goes(w, "stamp", t)
  /\ UNCHANGED object

\* expire, when its task runs, and remove(key, cluster), which journals the same
\* command; the key may be one that is not stored.
Expire(w, x) ==
  /\ Free(w, "EXPIRE")
  /\ live' = [live EXCEPT ![x] = None]
  /\ crossed' = crossed \cup Meets(Task("EXPIRE", x, None, None))
  /\ Goes(w, "stamp", Task("EXPIRE", x, None, None))
  /\ UNCHANGED object

Clear(w) ==
  /\ Free(w, "CLEAR")
  /\ live' = [x \in Sessions |-> None]
  /\ crossed' = crossed \cup Meets(Task("CLEAR", None, None, None))
  /\ Goes(w, "stamp", Task("CLEAR", None, None, None))
  /\ UNCHANGED object

\* A thread changes a session object that it got from the repository, or has just
\* made; it may no longer, or not yet, be the one that is stored.
Changed(w, cmd, o, data, contents) ==
  /\ Free(w, cmd)
  /\ object[o] # None
  /\ object' = [object EXCEPT ![o] = contents]
  /\ LET t == Task(cmd, object[o].id, data, o)
     IN  /\ Goes(w, "check", t)
         /\ crossed' = crossed \cup Meets(t)
                         \cup (IF live[t.id] \in {None, o} THEN {} ELSE {t.id})
  /\ UNCHANGED live

AddAgent(w, o, g) ==
  Changed(w, "ADD", o, g, [object[o] EXCEPT !.agents = @ \cup {g}])
RemoveAgent(w, o, g) ==
  Changed(w, "REMOVE", o, g, [object[o] EXCEPT !.agents = @ \ {g}])
SetAttribute(w, o, k) ==
  Changed(w, "SET", o, k, [object[o] EXCEPT !.attrs = @ \cup {k}])
RemoveAttribute(w, o, k) ==
  Changed(w, "DEL", o, k, [object[o] EXCEPT !.attrs = @ \ {k}])

\* ... and queues its journal task if the repository has a session of that id.
Check(w) ==
  /\ phase # "down"
  /\ work[w].at = "check"
  /\ \/ /\ live[work[w].task.id] # None
        /\ Goes(w, "stamp", work[w].task)
     \/ /\ live[work[w].task.id] = None \/ phase = "stopping"
        /\ work' = [work EXCEPT ![w] = Idle]
        /\ UNCHANGED <<now, phase, starts, recover, disk>>
  /\ UNCHANGED <<object, live, crossed>>

\* The create task of a session that was read back runs.
Recover(w, r, o) ==
  /\ phase # "down"
  /\ work[w].at = "idle"
  /\ object[o] = None
  /\ object' = [object EXCEPT ![o] = r]
  /\ recover' = recover \ {r}
  /\ live' = Stored(r.id, o)
  /\ work' = [work EXCEPT ![w] = [at |-> "stamp", task |-> Task("CREATE", r.id, None, o)]]
  /\ UNCHANGED <<now, phase, starts, disk, crossed>>

-----------------------------------------------------------------------------
(* JournalManager and JournalFile *)

\* new JournalEntity: the entry takes the time.
Stamp(w) ==
  /\ phase # "down"
  /\ work[w].at = "stamp"
  /\ work' = [work EXCEPT ![w] = [at |-> "append", task |-> @.task, time |-> now]]
  /\ UNCHANGED <<now, phase, starts, object, live, recover, disk, crossed>>

\* isRollOver of an open or closed stream
RollsOver(time) == time - modified > RollTime

\* mutant: A is started anew without being renamed
BackupKept(roll) == B

\* A rollover renames file A, which takes the place of file B.
Backup(roll) == IF roll THEN A ELSE B

\* mutant: what was in file A stays in it
Reopened(roll) == A

\* The file that the stream was opened on is empty when it is opened.
Opened(roll) == IF roll \/ stream = "null" THEN <<>> ELSE A

\* mutant: a session is written as it was when it was made
Unchanged(t) ==
  IF t.cmd = "CREATE" THEN [object[t.on] EXCEPT !.agents = {}, !.attrs = {}] ELSE t.data

\* What an entry carries; a session is written as it is at that moment.
Data(t) == IF t.cmd = "CREATE" THEN object[t.on] ELSE t.data

\* append: a stream that does not exist yet starts file A anew, a rollover moves
\* A to B first; an entry for a closed stream is lost.
AppendEntry(w) ==
  /\ phase # "down"
  /\ work[w].at = "append"
  /\ LET t    == work[w].task
         roll == stream # "null" /\ RollsOver(work[w].time)
         line == [cmd |-> t.cmd, id |-> t.id, data |-> Data(t),
                  time |-> work[w].time, n |-> written + 1]
     IN  IF stream = "closed" /\ ~roll
           THEN UNCHANGED disk
           ELSE /\ B' = Backup(roll)
                /\ A' = Append(Opened(roll), line)
                /\ modified' = IF roll \/ stream = "null" THEN now ELSE modified
                /\ stream' = "open"
                /\ written' = written + 1
                /\ UNCHANGED D
  /\ work' = [work EXCEPT ![w] = Idle]
  /\ UNCHANGED <<now, phase, starts, object, live, recover, crossed>>

\* mutant: sessions that are gone are dumped too
DumpEverything ==
  /\ phase = "up" /\ "DUMP" \in Offered
  /\ D' = {IF live[x] = None THEN None ELSE object[live[x]] : x \in Sessions}
  /\ D' # D
  /\ UNCHANGED <<now, phase, starts, object, live, work, recover, A, B, stream, modified,
                 written, crossed>>

\* dump: the sessions younger than SessionTime replace file D.
Dump ==
  /\ phase = "up" /\ "DUMP" \in Offered
  /\ D' = {c \in {object[live[x]] : x \in {y \in Sessions : live[y] # None}} :
             c.born > now - SessionTime}
  /\ D' # D
  /\ UNCHANGED <<now, phase, starts, object, live, work, recover, A, B, stream, modified,
                 written, crossed>>

-----------------------------------------------------------------------------
(* The life of the server *)

Tick == /\ now < MaxTime
        /\ now' = now + 1
        /\ UNCHANGED <<phase, starts, object, live, work, recover, disk, crossed>>

\* stop closes the journal, if anything was ever appended; the tasks that are
\* queued still run.
Stop ==
  /\ phase = "up" /\ starts < MaxStarts
  /\ phase' = "stopping"
  /\ stream' = IF stream = "null" THEN "null" ELSE "closed"
  /\ UNCHANGED <<now, starts, object, live, work, recover, A, B, D, modified, written, crossed>>

\* The process ends, after stop or by a crash at any moment.
End ==
  /\ phase # "down" /\ starts < MaxStarts
  /\ phase' = "down"
  /\ object' = [o \in Objects |-> None]
  /\ live' = [x \in Sessions |-> None]
  /\ work' = [w \in Requests |-> Idle]
  /\ recover' = {}
  /\ stream' = "null"
  /\ UNCHANGED <<now, starts, A, B, D, modified, written, crossed>>

\* start, with no session from the peer: jounralByFile queues a create task for
\* every session it reads.
Start ==
  /\ phase = "down"
  /\ phase' = "up"
  /\ starts' = starts + 1
  /\ \E found \in Recoverable : recover' = {found[x] : x \in Sessions} \ {None}
  /\ modified' = 0
  /\ UNCHANGED <<now, object, live, work, A, B, D, stream, written, crossed>>

-----------------------------------------------------------------------------
Next ==
  \/ \E w \in Requests, o \in Objects :
       \/ \E x \in Sessions : Create(w, x, o)
       \/ \E r \in recover : Recover(w, r, o)
       \/ \E g \in Agents : AddAgent(w, o, g) \/ RemoveAgent(w, o, g)
       \/ \E k \in Attrs : SetAttribute(w, o, k) \/ RemoveAttribute(w, o, k)
  \/ \E w \in Requests :
       \/ \E x \in Sessions : Expire(w, x)
       \/ Store(w) \/ Clear(w) \/ Check(w) \/ Stamp(w) \/ AppendEntry(w)
  \/ Dump \/ Tick \/ Stop \/ End \/ Start

Spec == Init /\ [][Next]_vars

-----------------------------------------------------------------------------
(* Properties *)

TypeOK ==
  /\ now \in 0 .. MaxTime
  /\ phase \in {"up", "stopping", "down"}
  /\ starts \in 1 .. MaxStarts
  /\ object \in [Objects -> Contents \cup {None}]
  /\ live \in [Sessions -> Objects \cup {None}]
  /\ \A x \in Sessions : live[x] # None => object[live[x]] # None /\ object[live[x]].id = x
  /\ \A w \in Requests : work[w].at \in {"idle", "store", "check", "stamp", "append"}
  /\ recover \subseteq Contents
  /\ \A e \in ToSet(A) \cup ToSet(B) : e.cmd \in Commands /\ e.time <= now /\ e.n <= written
  /\ D \subseteq Contents
  /\ stream \in {"null", "open", "closed"}
  /\ crossed \subseteq Sessions

Quiet == phase = "up" /\ recover = {} /\ Busy = {}

\* The session that is stored under an id.
Current(x) == IF live[x] = None THEN None ELSE object[live[x]]

\* The entries on disk, in the order in which they were appended.
Kept == B \o A

\* Until the server starts again, rollover forgets the oldest entries only: the files
\* hold an unbroken run of the appends, up to the last one.
LogIsSuffix == starts = 1 => \A i \in DOMAIN Kept : Kept[i].n = written - Len(Kept) + i

\* No two of the entries that tell of the session have the same time.
Timed(x) == \A i, j \in DOMAIN Kept :
              About(Kept[i], x) /\ About(Kept[j], x) /\ Kept[i].time = Kept[j].time => i = j

Logged(cmd, x) == \E e \in InTime(A) \cup InTime(B) : e.cmd = cmd /\ e.id = x

\* However many requests are journaled at the same time, and in whatever order they
\* reach the file: when all are done, the journal gives back a session whose creation it
\* still holds exactly as the session is now, but for the attributes that DEL entries
\* do not remove, and no session whose creation it does not hold.  Changes of a
\* session may overlap its creation, its expiry and each other.  Excepted are sessions
\* with two entries of one millisecond, and those in `crossed'.
ReplayExact ==
  Quiet /\ starts = 1 =>
    \A found \in Recoverable, x \in {y \in Sessions \ crossed : Timed(y)} :
      IF ~Logged("CREATE", x)
        THEN found[x] = None
        ELSE \/ found[x] = Current(x)
             \/ /\ Logged("DEL", x) /\ found[x] # None /\ live[x] # None
                /\ found[x].agents = Current(x).agents
                /\ Current(x).attrs \subseteq found[x].attrs

\* WessionSessionManager.java, line 329, says of delete that it deletes the
\* attribute of the session: the journal does not give it back.
DeletedStaysDeleted ==
  Quiet => \A found \in Recoverable, x \in {y \in Sessions \ crossed : Timed(y)} :
             live[x] # None /\ found[x] # None => found[x].attrs \subseteq Current(x).attrs

\* A session that was made at most RollTime ago, that has been journaled (by its
\* creation or by the recovery tasks of a start), and that no entry on disk expires
\* or clears, survives a crash at any moment, however many requests are journaled
\* at once.
RecentRecovered ==
  phase = "up"
    => \A x \in Sessions :
         /\ live[x] # None
         /\ \A e \in ToSet(Kept) : e.cmd # "CLEAR" /\ (e.id = x => e.cmd # "EXPIRE")
         /\ now - Current(x).born <= RollTime
         /\ \A w \in Requests : work[w].at # "idle" => work[w].task.id # x
         => \A found \in Recoverable : found[x] # None

\* JournalFile.java, line 37, calls D the dump file: a session in it that is still
\* stored as it was, and still within its time, is found at a restart.  (Not that it is
\* lost to entries of one millisecond, or to requests that met.)
DumpRecovered ==
  Quiet => \A d \in D :
             d.born > now - SessionTime /\ Current(d.id) = d /\ Timed(d.id) /\ d.id \notin crossed
               => \A found \in Recoverable : found[d.id] # None
=============================================================================
