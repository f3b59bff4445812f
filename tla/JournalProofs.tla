--------------------------- MODULE JournalProofs ---------------------------
(***************************************************************************)
(* Proofs about Journal, for every set of sessions and requests and every  *)
(* length of the journal.  They come in three parts: the order of the      *)
(* entries on disk, the types, and what a crash loses.                     *)
(***************************************************************************)
EXTENDS Journal, FiniteSetTheorems, WellFoundedInduction, TLAPS

\* The files are sequences, of whatever is written to them.
Files == \E S : A \in Seq(S) /\ B \in Seq(S)

LEMMA SeqMonotone ==
  ASSUME NEW S, NEW T, S \subseteq T, NEW s \in Seq(S)
  PROVE  s \in Seq(T)
  OBVIOUS

-----------------------------------------------------------------------------
(* The order of the entries *)

\* Entries of a file are numbered without a gap, up to the given number.
Unbroken(file, last) == \A i \in DOMAIN file : file[i].n = last - Len(file) + i

\* The backup ends where the append file begins.
Suffix == Unbroken(A, written) /\ Unbroken(B, written - Len(A))

\* Until the server starts again, a journal that is not open yet is empty.
Counted ==
  /\ written \in Nat
  /\ starts \in Nat \ {0}
  /\ starts = 1 /\ phase # "down" /\ stream = "null" => A = <<>> /\ B = <<>>

Inv == Files /\ Counted /\ (starts = 1 => Suffix)

-----------------------------------------------------------------------------
\* An unbroken file stays so when the next entry is appended.
LEMMA UnbrokenAppend ==
  ASSUME NEW S, NEW file \in Seq(S), NEW last \in Int, Unbroken(file, last),
         NEW e \in S, e.n = last + 1
  PROVE  Unbroken(Append(file, e), last + 1)
<1> SUFFICES ASSUME NEW i \in DOMAIN Append(file, e)
             PROVE  Append(file, e)[i].n = (last + 1) - Len(Append(file, e)) + i
  BY DEF Unbroken
<1>1. Len(Append(file, e)) = Len(file) + 1 /\ Len(file) \in Nat /\ i \in Int
  OBVIOUS
<1>2. CASE i \in DOMAIN file
  <2>1. Append(file, e)[i] = file[i]
    BY <1>2
  <2>2. file[i].n = last - Len(file) + i
    BY <1>2 DEF Unbroken
  <2> QED
    BY <1>1, <2>1, <2>2
<1>3. CASE i = Len(file) + 1
  <2>1. Append(file, e)[i] = e
    BY <1>3
  <2> QED
    BY <1>1, <1>3, <2>1
<1> QED
  BY <1>2, <1>3

LEMMA UnbrokenEmpty == \A last : Unbroken(<<>>, last)
  BY DEF Unbroken

\* The two files in a row are unbroken.
LEMMA SuffixImplies ==
  ASSUME Files, written \in Nat, Suffix
  PROVE  \A i \in DOMAIN Kept : Kept[i].n = written - Len(Kept) + i
<1> PICK S : A \in Seq(S) /\ B \in Seq(S)
  BY DEF Files
<1> SUFFICES ASSUME NEW i \in DOMAIN Kept
             PROVE  Kept[i].n = written - Len(Kept) + i
  OBVIOUS
<1>1. /\ Len(Kept) = Len(B) + Len(A) /\ Len(A) \in Nat /\ Len(B) \in Nat /\ i \in 1 .. Len(Kept)
  BY DEF Kept
<1>2. CASE i \in DOMAIN B
  <2>1. Kept[i] = B[i] /\ B[i].n = (written - Len(A)) - Len(B) + i
    BY <1>2 DEF Kept, Suffix, Unbroken
  <2> QED
    BY <1>1, <2>1
<1>3. CASE i > Len(B)
  <2>1. Kept[i] = A[i - Len(B)] /\ i - Len(B) \in DOMAIN A
    BY <1>1, <1>3 DEF Kept
  <2>2. A[i - Len(B)].n = written - Len(A) + (i - Len(B))
    BY <2>1 DEF Suffix, Unbroken
  <2> QED
    BY <1>1, <2>1, <2>2
<1> QED
  BY <1>1, <1>2, <1>3

-----------------------------------------------------------------------------
LEMMA InvInit == Init => Inv
<1> SUFFICES ASSUME Init PROVE Inv
  OBVIOUS
<1>1. A \in Seq({}) /\ B \in Seq({})
  BY DEF Init
<1>2. Suffix
  BY UnbrokenEmpty DEF Init, Suffix
<1> QED
  BY <1>1, <1>2 DEF Init, Inv, Files, Counted

\* A rollover puts the whole append file in the place of the backup, and a file is
\* only started anew when there was none.
LEMMA AppendStep ==
  ASSUME Inv, NEW w \in Requests, AppendEntry(w)
  PROVE  Inv'
<1> DEFINE roll == stream # "null" /\ RollsOver(work[w].time)
           t == work[w].task
           line == [cmd |-> t.cmd, id |-> t.id, data |-> Data(t),
                    time |-> work[w].time, n |-> written + 1]
<1> PICK S0 : A \in Seq(S0) /\ B \in Seq(S0)
  BY DEF Inv, Files
<1> DEFINE S == S0 \cup {line}
<1>1. line \in S /\ line.n = written + 1
  OBVIOUS
<1>2. A \in Seq(S) /\ B \in Seq(S) /\ Len(A) \in Nat
  BY SeqMonotone
<1>3. /\ phase # "down" /\ UNCHANGED <<phase, starts>>
      /\ \/ UNCHANGED <<A, B, stream, written>>
         \/ /\ B' = Backup(roll) /\ A' = Append(Opened(roll), line)
            /\ stream' = "open" /\ written' = written + 1
  BY DEF AppendEntry, disk
<1> HIDE DEF line, roll, S
<1>4. CASE UNCHANGED <<A, B, stream, written>>
  BY <1>3, <1>4 DEF Inv, Files, Counted, Suffix, Unbroken
<1>5. CASE /\ B' = Backup(roll) /\ A' = Append(Opened(roll), line)
           /\ stream' = "open" /\ written' = written + 1
  <2>1. Opened(roll) \in Seq(S) /\ Backup(roll) \in Seq(S)
    BY <1>2 DEF Opened, Backup
  <2>2. A' \in Seq(S) /\ B' \in Seq(S)
    BY <1>1, <1>5, <2>1
  <2>3. Files'
    BY <2>2 DEF Files
  <2>4. Counted'
    BY <1>3, <1>5 DEF Inv, Counted
  <2>5. ASSUME starts = 1 PROVE Suffix'
    <3>1. written \in Nat /\ Suffix /\ (stream = "null" => A = <<>> /\ B = <<>>)
      BY <1>3, <2>5 DEF Inv, Counted
    <3>2. Unbroken(Opened(roll), written)
      BY <3>1, UnbrokenEmpty DEF Opened, Suffix
    <3>3. Unbroken(A', written')
      BY <1>1, <1>5, <2>1, <3>1, <3>2, UnbrokenAppend
    <3>4. written' - Len(A') = written - Len(Opened(roll))
      BY <1>1, <1>5, <2>1, <3>1
    <3>5. Unbroken(Backup(roll), written - Len(Opened(roll)))
      <4>1. CASE roll
        BY <1>2, <3>1, <4>1 DEF Backup, Opened, Suffix
      <4>2. CASE ~roll
        BY <1>2, <3>1, <4>2, UnbrokenEmpty DEF Backup, Opened, Suffix
      <4> QED
        BY <4>1, <4>2
    <3> QED
      BY <1>5, <3>3, <3>4, <3>5 DEF Suffix
  <2> QED
    BY <1>3, <2>3, <2>4, <2>5 DEF Inv
<1> QED
  BY <1>3, <1>4, <1>5

LEMMA InvStep == Inv /\ [Next]_vars => Inv'
<1> SUFFICES ASSUME Inv, [Next]_vars PROVE Inv'
  OBVIOUS
<1>1. ASSUME UNCHANGED <<A, B, written, starts>>,
             phase' # "down" /\ stream' = "null" => phase # "down" /\ stream = "null"
      PROVE  Inv'
  BY <1>1 DEF Inv, Files, Counted, Suffix, Unbroken
<1>2. ASSUME NEW w \in Requests, NEW o \in Objects,
             \/ \E x \in Sessions : Create(w, x, o)
             \/ \E r \in recover : Recover(w, r, o)
             \/ \E g \in Agents : AddAgent(w, o, g) \/ RemoveAgent(w, o, g)
             \/ \E k \in Attrs : SetAttribute(w, o, k) \/ RemoveAttribute(w, o, k)
      PROVE  Inv'
  BY <1>1, <1>2 DEF Create, Recover, AddAgent, RemoveAgent, SetAttribute,
                    RemoveAttribute, Changed, Goes, disk
<1>3. ASSUME NEW w \in Requests,
             \/ \E x \in Sessions : Expire(w, x)
             \/ Store(w) \/ Clear(w) \/ Check(w) \/ Stamp(w)
      PROVE  Inv'
  BY <1>1, <1>3 DEF Expire, Store, Clear, Check, Stamp, Goes, disk
<1>4. CASE Dump \/ Tick \/ Stop \/ End
  BY <1>1, <1>4 DEF Dump, Tick, Stop, End, disk
\* the server starts again
<1>5. CASE Start
  <2>1. UNCHANGED <<A, B, written>> /\ starts' = starts + 1
    BY <1>5 DEF Start
  <2>2. starts' \in Nat \ {0} /\ starts' # 1 /\ written \in Nat
    BY <2>1 DEF Inv, Counted
  <2> QED
    BY <2>1, <2>2 DEF Inv, Files, Counted
<1>6. CASE UNCHANGED vars
  BY <1>1, <1>6 DEF vars
<1> QED
  BY <1>2, <1>3, <1>4, <1>5, <1>6, AppendStep DEF Next

-----------------------------------------------------------------------------
\* Until the server starts again, what is on disk is a suffix of what was appended, in
\* that order: a rollover loses the oldest entries only, however many requests append, in
\* whatever order of their times, and however often the file rolls over.
THEOREM LogUnbroken == Spec => []LogIsSuffix
<1>1. Inv => LogIsSuffix
  BY SuffixImplies DEF Inv, Counted, LogIsSuffix
<1> QED
  BY <1>1, InvInit, InvStep, PTL DEF Spec

-----------------------------------------------------------------------------
(* A replay, entry by entry *)

\* Induction over the naturals, in the form that a proof can use.
LEMMA Least ==
  ASSUME NEW T \in SUBSET Nat, T # {}
  PROVE  \E m \in T : \A k \in T : m <= k
<1> DEFINE R == OpToRel(<, Nat)
<1>1. IsWellFoundedOn(R, Nat)
  BY NatLessThanWellFounded
<1>2. \A j, k \in Nat : j < k => <<j, k>> \in R
  BY DEF OpToRel
<1> HIDE DEF R
<1>3. PICK m \in T : \A k \in T : ~(<<k, m>> \in R)
  BY <1>1, WFMin
<1>4. ASSUME NEW k \in T PROVE m <= k
  <2>1. k \in Nat /\ m \in Nat
    OBVIOUS
  <2>2. ~(k < m)
    BY <1>2, <1>3, <2>1
  <2> QED
    BY <2>1, <2>2
<1> QED
  BY <1>4

LEMMA Induct ==
  ASSUME NEW n \in Nat, NEW P \in SUBSET Nat, 0 \in P, \A k \in 1 .. n : k - 1 \in P => k \in P
  PROVE  \A k \in 0 .. n : k \in P
<1> SUFFICES ASSUME NEW j \in 0 .. n, j \notin P PROVE FALSE
  OBVIOUS
<1> DEFINE T == {k \in 0 .. n : k \notin P}
<1>1. PICK m \in T : \A k \in T : m <= k
  <2>1. T \in SUBSET Nat /\ T # {}
    OBVIOUS
  <2> HIDE DEF T
  <2> QED
    BY <2>1, Least
<1>2. m \in 1 .. n /\ m - 1 \in P
  <2>1. m # 0 /\ m \in 0 .. n
    BY <1>1
  <2>2. m - 1 \notin T
    BY <1>1, <2>1
  <2> QED
    BY <2>1, <2>2
<1> QED
  BY <1>1, <1>2

\* h holds what the first entries of order make of the sessions s.
History(h, s, order, n) ==
  h[0] = s /\ \A k \in 1 .. n : h[k] = Replayed(h[k - 1], order[k])

\* One round of FoldLeft over the entries at the indexes s.
Round(f, order, s) ==
  IF s = {} THEN DumpRead ELSE LET i == Max(s) IN Replayed(f[s \ {i}], order[i])

Rounds(order) == CHOOSE f : f = [s \in SUBSET DOMAIN order |-> Round(f, order, s)]

\* FoldLeft, as it is defined, is the last round: the one over all entries.
LEMMA FoldRounds ==
  ASSUME NEW order
  PROVE  FoldLeft(Replayed, DumpRead, order) = Rounds(order)[DOMAIN order]
  BY DEF FoldLeft, MapThenFoldSet, Rounds, Round

\* The largest of some of the first n indexes, the n-th among them.
LEMMA MaxOfInterval ==
  ASSUME NEW n \in Nat \ {0}, NEW s \in SUBSET (1 .. n), n \in s
  PROVE  Max(s) = n
<1>1. \A i \in s : n >= i /\ i \in Int
  OBVIOUS
<1>2. n \in Int /\ \A i \in s : (\A j \in s : i >= j) => i = n
  BY <1>1
<1> QED
  BY <1>1, <1>2 DEF Max

\* The rounds are well defined.
Good(order, k) == \E f : \A s \in SUBSET (1 .. k) : f[s] = Round(f, order, s)

LEMMA RoundsExist ==
  ASSUME NEW n \in Nat, NEW order, DOMAIN order = 1 .. n
  PROVE  Rounds(order) = [s \in SUBSET DOMAIN order |-> Round(Rounds(order), order, s)]
<1>1. Good(order, 0)
  <2>1. \A s \in SUBSET (1 .. 0) : [t \in SUBSET (1 .. 0) |-> DumpRead][s] = Round([t \in SUBSET (1 .. 0) |-> DumpRead], order, s)
    BY DEF Round
  <2> QED
    BY <2>1 DEF Good
<1>2. ASSUME NEW k \in 1 .. n, Good(order, k - 1) PROVE Good(order, k)
  <2>1. PICK f : \A s \in SUBSET (1 .. k - 1) : f[s] = Round(f, order, s)
    BY <1>2 DEF Good
  <2>2. PICK g : g = [s \in SUBSET (1 .. k) |-> IF s \subseteq 1 .. k - 1 THEN f[s] ELSE Round(f, order, s)]
    OBVIOUS
  <2>3. ASSUME NEW s \in SUBSET (1 .. k) PROVE g[s] = Round(g, order, s)
    <3>1. CASE s \subseteq 1 .. k - 1
      <4>1. g[s] = Round(f, order, s)
        BY <2>1, <2>2, <3>1
      <4>2. \A i : g[s \ {i}] = f[s \ {i}]
        BY <2>2, <3>1
      <4> QED
        BY <4>1, <4>2 DEF Round
    <3>2. CASE ~(s \subseteq 1 .. k - 1)
      <4>1. k \in s
        BY <3>2
      <4>2. Max(s) = k
        BY <4>1, MaxOfInterval
      <4>3. s \ {k} \subseteq 1 .. k - 1
        OBVIOUS
      <4>4. g[s \ {k}] = f[s \ {k}] /\ g[s] = Round(f, order, s)
        BY <2>2, <3>2, <4>3
      <4> QED
        BY <4>1, <4>2, <4>4 DEF Round
    <3> QED
      BY <3>1, <3>2
  <2> QED
    BY <2>3 DEF Good
<1>3. Good(order, n)
  <2> DEFINE P == {k \in Nat : Good(order, k)}
  <2>1. \A k \in 0 .. n : k \in P
    <3>1. 0 \in P /\ \A k \in 1 .. n : k - 1 \in P => k \in P
      BY <1>1, <1>2
    <3> HIDE DEF P
    <3>2. P \in SUBSET Nat
      BY DEF P
    <3> QED
      BY <3>1, <3>2, Induct
  <2> QED
    BY <2>1
<1>4. PICK f : \A s \in SUBSET (1 .. n) : f[s] = Round(f, order, s)
  BY <1>3 DEF Good
<1>5. PICK g : g = [s \in SUBSET DOMAIN order |-> f[s]]
  OBVIOUS
<1>6. \A s \in SUBSET DOMAIN order : Round(g, order, s) = Round(f, order, s)
  BY <1>5 DEF Round
<1>7. g = [s \in SUBSET DOMAIN order |-> Round(g, order, s)]
  BY <1>4, <1>5, <1>6
<1> QED
  BY <1>7 DEF Rounds

\* So a fold has a history: one session table for each entry, made from the one before.
LEMMA ReplayHistory ==
  ASSUME NEW n \in Nat, NEW order, DOMAIN order = 1 .. n
  PROVE  \E h : History(h, DumpRead, order, n) /\ h[n] = FoldLeft(Replayed, DumpRead, order)
<1> DEFINE it == Rounds(order)
           h == [k \in 0 .. n |-> it[1 .. k]]
<1>1. \A s \in SUBSET (1 .. n) : it[s] = Round(it, order, s)
  BY RoundsExist
<1> HIDE DEF it
<1>2. h[0] = DumpRead
  <2>1. 1 .. 0 = {} /\ it[{}] = Round(it, order, {})
    BY <1>1
  <2> QED
    BY <2>1 DEF Round
<1>3. ASSUME NEW k \in 1 .. n PROVE h[k] = Replayed(h[k - 1], order[k])
  <2>1. Max(1 .. k) = k
    BY MaxOfInterval
  <2>2. (1 .. k) \ {k} = 1 .. (k - 1) /\ 1 .. k # {}
    OBVIOUS
  <2>3. 1 .. k \in SUBSET (1 .. n) /\ k \in 0 .. n /\ k - 1 \in 0 .. n
    OBVIOUS
  <2>4. h[k] = it[1 .. k] /\ h[k - 1] = it[1 .. (k - 1)]
    BY <2>3
  <2>5. it[1 .. k] = Round(it, order, 1 .. k)
    BY <1>1, <2>3
  <2> HIDE DEF h
  <2>6. Round(it, order, 1 .. k) = Replayed(it[(1 .. k) \ {k}], order[k])
    BY <2>1, <2>2 DEF Round
  <2> QED
    BY <2>2, <2>4, <2>5, <2>6
<1>4. h[n] = FoldLeft(Replayed, DumpRead, order)
  BY FoldRounds DEF it
<1> HIDE DEF h
<1>5. History(h, DumpRead, order, n)
  BY <1>2, <1>3 DEF History
<1> QED
  BY <1>4, <1>5
(* Types *)

\* What a request carries; the session object of a create or a change has its id.
Tasks == [cmd : Commands, id : Sessions \cup {None}, data : Agents \cup Attrs \cup {None},
          on : Objects \cup {None}]

Asked(t) ==
  /\ t \in Tasks
  /\ t.cmd # "CLEAR" => t.id \in Sessions
  /\ t.cmd \in {"CREATE"} \cup Changes
       => t.on \in Objects /\ object[t.on] # None /\ object[t.on].id = t.id
  /\ t.cmd \in {"ADD", "REMOVE"} => t.data \in Agents
  /\ t.cmd \in {"SET", "DEL"} => t.data \in Attrs

\* What an entry may carry.
Carries(e) ==
  /\ e.cmd \in Commands
  /\ e.cmd # "CLEAR" => e.id \in Sessions
  /\ e.cmd = "CREATE" => e.data \in Contents /\ e.data.id = e.id /\ e.data.born <= now
  /\ e.cmd \in {"ADD", "REMOVE"} => e.data \in Agents
  /\ e.cmd \in {"SET", "DEL"} => e.data \in Attrs

\* What a session object may hold, and what may be read from the journal.
Holds == {c \in Contents : c.born <= now}
Stores ==
  {f \in [Sessions -> Contents \cup {None}] :
     \A x \in Sessions : f[x] # None => f[x] \in Holds /\ f[x].id = x}

\* The stages of a request.
Stages == {Idle} \cup [at : {"store", "check", "stamp"}, task : Tasks]
                 \cup [at : {"append"}, task : Tasks, time : 0 .. now]

Doing(i) ==
  /\ i \in Stages
  /\ i.at # "idle" => Asked(i.task)
  /\ i.at = "store" => i.task.cmd = "CREATE"

\* An entry in a file.
Written(e) == Carries(e) /\ e.time \in Nat /\ e.time <= now /\ e.n \in Nat \ {0} /\ e.n <= written

\* The session objects, and which of them are stored.
ObjectInv ==
  /\ object \in [Objects -> Holds \cup {None}]
  /\ live \in [Sessions -> Objects \cup {None}]
  /\ \A x \in Sessions : live[x] # None => object[live[x]] # None /\ object[live[x]].id = x

FileInv == Files /\ \A e \in ToSet(A) \cup ToSet(B) : Written(e)

\* The inductive form of TypeOK.
TypeInv ==
  /\ now \in 0 .. MaxTime /\ modified \in Nat /\ modified <= now /\ written \in Nat
  /\ phase \in {"up", "stopping", "down"} /\ stream \in {"null", "open", "closed"}
  /\ starts \in 1 .. MaxStarts /\ (phase = "down" => starts < MaxStarts)
  /\ ObjectInv
  /\ work \in [Requests -> Stages] /\ \A w \in Requests : Doing(work[w])
  /\ recover \subseteq Holds
  /\ FileInv
  /\ D \subseteq Contents
  /\ crossed \subseteq Sessions

\* TypeInv is TypeOK with what each entry carries and with the dates of the objects.
LEMMA TypeInvImplies == TypeInv => TypeOK
<1> SUFFICES ASSUME TypeInv PROVE TypeOK
  OBVIOUS
<1>1. \A w \in Requests : work[w].at \in {"idle", "store", "check", "stamp", "append"}
  BY DEF TypeInv, Stages, Idle
<1>2. \A e \in ToSet(A) \cup ToSet(B) : e.cmd \in Commands /\ e.time <= now /\ e.n <= written
  BY DEF TypeInv, FileInv, Written, Carries
<1>3. object \in [Objects -> Contents \cup {None}] /\ recover \subseteq Contents
  BY DEF TypeInv, ObjectInv, Holds
<1> QED
  BY <1>1, <1>2, <1>3 DEF TypeInv, TypeOK, ObjectInv

\* An agent or attribute more or less: the id and the date of an object stay.
LEMMA ChangedContents ==
  ASSUME NEW c \in Contents, NEW g \in Agents, NEW k \in Attrs,
         NEW d \in {[c EXCEPT !.agents = @ \cup {g}], [c EXCEPT !.agents = @ \ {g}],
                    [c EXCEPT !.attrs = @ \cup {k}], [c EXCEPT !.attrs = @ \ {k}]}
  PROVE  d \in Contents /\ d.id = c.id /\ d.born = c.born
  BY DEF Contents

\* The replay of an entry leaves sessions that are well typed.
LEMMA ReplayedStores ==
  ASSUME JournalAssumption, now \in 0 .. MaxTime, NEW s \in Stores, NEW e, Carries(e)
  PROVE  Replayed(s, e) \in Stores
<1> DEFINE x == e.id
<1>1. CASE e.cmd = "CLEAR"
  BY <1>1 DEF Replayed, Stores
<1>2. CASE e.cmd = "CREATE"
  <2>1. Replayed(s, e) = [s EXCEPT ![x] = e.data]
    BY <1>2 DEF Replayed
  <2> QED
    BY <1>2, <2>1 DEF Carries, Stores, Holds
<1>3. CASE e.cmd = "EXPIRE"
  <2>1. Replayed(s, e) = [s EXCEPT ![x] = None]
    BY <1>3 DEF Replayed
  <2> QED
    BY <2>1 DEF Stores
<1>4. ASSUME NEW c, Replayed(s, e) = [s EXCEPT ![x] = c], x \in Sessions, s[x] # None,
             c \in Contents /\ c.id = s[x].id /\ c.born = s[x].born
      PROVE  Replayed(s, e) \in Stores
  BY <1>4 DEF Stores, Holds
<1>5. CASE e.cmd \in {"ADD", "REMOVE", "SET", "DEL"}
  <2>1. x \in Sessions
    BY <1>5 DEF Carries
  <2>2. CASE s[x] = None
    <3>1. Replayed(s, e) = s
      BY <1>5, <2>2 DEF Replayed
    <3> QED
      BY <3>1
  <2>3. CASE s[x] # None
    <3>0. s[x] \in Contents
      BY <2>1, <2>3 DEF Stores
    <3>1. CASE e.cmd = "ADD"
      <4>1. Replayed(s, e) = [s EXCEPT ![x] = [s[x] EXCEPT !.agents = @ \cup {e.data}]]
        BY <2>3, <3>1 DEF Replayed
      <4>2. LET c == [s[x] EXCEPT !.agents = @ \cup {e.data}]
            IN  c \in Contents /\ c.id = s[x].id /\ c.born = s[x].born
        BY <3>0, <3>1 DEF Contents, Carries
      <4> QED
        BY <1>4, <2>1, <2>3, <4>1, <4>2
    <3>2. CASE e.cmd \in {"REMOVE", "DEL"}
      <4>1. Replayed(s, e) = [s EXCEPT ![x] = [s[x] EXCEPT !.agents = @ \ {e.data}]]
        BY <2>3, <3>2 DEF Replayed
      <4>2. LET c == [s[x] EXCEPT !.agents = @ \ {e.data}]
            IN  c \in Contents /\ c.id = s[x].id /\ c.born = s[x].born
        BY <3>0 DEF Contents
      <4> QED
        BY <1>4, <2>1, <2>3, <4>1, <4>2
    <3>3. CASE e.cmd = "SET"
      <4>1. Replayed(s, e) = [s EXCEPT ![x] = [s[x] EXCEPT !.attrs = @ \cup {e.data}]]
        BY <2>3, <3>3 DEF Replayed
      <4>2. LET c == [s[x] EXCEPT !.attrs = @ \cup {e.data}]
            IN  c \in Contents /\ c.id = s[x].id /\ c.born = s[x].born
        BY <3>0, <3>3 DEF Contents, Carries
      <4> QED
        BY <1>4, <2>1, <2>3, <4>1, <4>2
    <3> QED
      BY <1>5, <3>1, <3>2, <3>3
  <2> QED
    BY <2>2, <2>3
<1> QED
  BY <1>1, <1>2, <1>3, <1>5 DEF Carries, Commands, Changes

\* A file has finitely many entries.
LEMMA FilesFinite ==
  ASSUME NEW S, NEW file \in Seq(S)
  PROVE  IsFiniteSet(ToSet(file))
<1>1. IsFiniteSet(1 .. Len(file)) /\ DOMAIN file = 1 .. Len(file)
  BY FS_Interval
<1>2. [i \in 1 .. Len(file) |-> file[i]] \in Surjection(1 .. Len(file), ToSet(file))
  BY <1>1 DEF Surjection, ToSet
<1> QED
  BY <1>1, <1>2, FS_Surjection

\* A replay goes through entries that are in time, each of them once, in an order of their
\* times; what it gives is what the last round leaves.
ReplayOf(found, n, order, h) ==
  /\ n \in Nat /\ n = Cardinality(InTime(B) \cup InTime(A))
  /\ order \in ReplayOrders /\ order \in [1 .. n -> InTime(B) \cup InTime(A)]
  /\ order \in Surjection(1 .. n, InTime(B) \cup InTime(A))
  /\ History(h, DumpRead, order, n) /\ found = h[n]

\* Every result of a replay comes from such an order and its history.
LEMMA ReplayFacts ==
  ASSUME Files, NEW found \in Recoverable
  PROVE  \E n, order, h : ReplayOf(found, n, order, h)
<1> DEFINE S == InTime(B) \cup InTime(A)  n == Cardinality(S)
<1>1. IsFiniteSet(S)
  <2>1. IsFiniteSet(ToSet(A)) /\ IsFiniteSet(ToSet(B))
    BY FilesFinite DEF Files
  <2>2. IsFiniteSet(ToSet(A) \cup ToSet(B))
    BY <2>1, FS_Union
  <2>3. S \subseteq ToSet(A) \cup ToSet(B)
    BY DEF InTime
  <2> QED
    BY <2>2, <2>3, FS_Subset
<1>2. n \in Nat
  BY <1>1, FS_CardinalityType
<1>3. PICK order \in ReplayOrders : found = FoldLeft(Replayed, DumpRead, order)
  BY DEF Recoverable
<1>4. order \in [1 .. n -> S]
  BY <1>3 DEF ReplayOrders, SetToSeqs
<1>4a. order \in Surjection(1 .. n, S)
  <2>1. order \in Injection(1 .. n, S)
    BY <1>3, <1>4 DEF ReplayOrders, SetToSeqs, Injection, IsInjective
  <2>2. Cardinality(1 .. n) = Cardinality(S)
    BY <1>2, FS_Interval
  <2> HIDE DEF S, n
  <2> QED
    BY <1>1, <2>1, <2>2, FS_Injection
<1> HIDE DEF n
<1>5. PICK h : History(h, DumpRead, order, n) /\ h[n] = FoldLeft(Replayed, DumpRead, order)
  BY <1>2, <1>4, ReplayHistory
<1>6. ReplayOf(found, n, order, h)
  BY <1>2, <1>3, <1>4, <1>4a, <1>5 DEF ReplayOf, n
<1> QED
  BY <1>6

\* What has been read is well typed after each entry.
LEMMA HistoryStores ==
  ASSUME JournalAssumption, TypeInv, NEW n \in Nat, NEW order \in [1 .. n -> InTime(B) \cup InTime(A)],
         NEW h, History(h, DumpRead, order, n)
  PROVE  \A k \in 0 .. n : h[k] \in Stores
<1> DEFINE P == {k \in Nat : h[k] \in Stores}
<1>1. 0 \in P
  BY DEF History, DumpRead, Stores
<1>2. ASSUME NEW k \in 1 .. n, k - 1 \in P PROVE k \in P
  <2>1. Carries(order[k])
    BY DEF InTime, TypeInv, FileInv, Written
  <2>2. h[k] = Replayed(h[k - 1], order[k])
    BY DEF History
  <2> QED
    BY <1>2, <2>1, <2>2, ReplayedStores DEF TypeInv
<1>3. P \in SUBSET Nat
  OBVIOUS
<1> HIDE DEF P
<1>4. \A k \in 0 .. n : k \in P
  BY <1>1, <1>2, <1>3, Induct
<1> QED
  BY <1>4 DEF P

\* So what a start recovers is well typed.
LEMMA RecoverableStores ==
  ASSUME JournalAssumption, TypeInv, NEW found \in Recoverable
  PROVE  found \in Stores
<1>1. PICK n, order, h : ReplayOf(found, n, order, h)
  BY ReplayFacts DEF TypeInv, FileInv
<1>2. /\ n \in Nat /\ order \in [1 .. n -> InTime(B) \cup InTime(A)]
      /\ History(h, DumpRead, order, n) /\ found = h[n]
  BY <1>1 DEF ReplayOf
<1>3. h[n] \in Stores
  BY <1>2, HistoryStores
<1> QED
  BY <1>2, <1>3

LEMMA TypeInit == JournalAssumption /\ Init => TypeInv
<1> SUFFICES ASSUME JournalAssumption, Init PROVE TypeInv
  OBVIOUS
<1>1. A \in Seq({}) /\ B \in Seq({}) /\ ToSet(A) = {} /\ ToSet(B) = {}
  BY DEF Init, ToSet
<1>2. ObjectInv
  BY DEF Init, ObjectInv
<1>3. \A w \in Requests : Doing(work[w])
  BY DEF Init, Doing, Stages, Idle
<1>4. work \in [Requests -> Stages]
  BY DEF Init, Stages
<1>5. starts \in 1 .. MaxStarts /\ now \in 0 .. MaxTime
  BY DEF Init, JournalAssumption
<1>6. FileInv
  BY <1>1 DEF FileInv, Files
<1> QED
  BY <1>2, <1>3, <1>4, <1>5, <1>6 DEF Init, TypeInv

\* A session object keeps its id and its date once it is made.
Grow == \A o \in Objects : object[o] # None =>
          object'[o] # None /\ object'[o].id = object[o].id /\ object'[o].born = object[o].born

\* What is well typed stays so when time goes on and objects are made and changed.
LEMMA Later ==
  ASSUME TypeInv, Grow, now <= now', now' \in Nat, written <= written', written' \in Nat
  PROVE  /\ Holds \subseteq Holds' /\ Stores \subseteq Stores'
         /\ \A t : Asked(t) => Asked(t)'
         /\ \A i : Doing(i) => Doing(i)'
         /\ \A e : Written(e) => Written(e)'
<1>1. now \in Nat /\ written \in Nat
  BY DEF TypeInv
<1>2. Holds \subseteq Holds'
  BY <1>1 DEF Holds, Contents
<1>3. ASSUME NEW f \in Stores PROVE f \in Stores'
  BY <1>2 DEF Stores
<1>4. ASSUME NEW t, Asked(t) PROVE Asked(t)'
  BY <1>4 DEF Asked, Grow
<1>5. ASSUME NEW i, Doing(i) PROVE Doing(i)'
  <2>1. i \in Stages'
    BY <1>1, <1>5 DEF Doing, Stages, Idle, Tasks
  <2>2. PICK t : t = i.task
    OBVIOUS
  <2>3. (i.at # "idle" => Asked(t)') /\ (i.at = "store" => t.cmd = "CREATE")
    BY <1>4, <1>5, <2>2 DEF Doing
  <2> QED
    BY <2>1, <2>2, <2>3 DEF Doing
<1>6. ASSUME NEW e, Written(e) PROVE Written(e)'
  <2>1. Carries(e)'
    BY <1>1, <1>6 DEF Written, Carries, Contents
  <2> QED
    BY <1>1, <1>6, <2>1 DEF Written
<1> QED
  BY <1>2, <1>3, <1>4, <1>5, <1>6

\* A request gets on: it makes or changes an object, stores or drops one, or is stamped.
LEMMA RequestTyped ==
  ASSUME JournalAssumption, TypeInv, NEW w \in Requests, NEW i, Doing(i)',
         work' = [work EXCEPT ![w] = i], Grow, ObjectInv', crossed' \subseteq Sessions,
         recover' \subseteq recover, UNCHANGED <<now, phase, starts, disk>>
  PROVE  TypeInv'
<1>0. UNCHANGED <<now, phase, starts, A, B, D, stream, modified, written>>
  BY DEF disk
<1>1. /\ Holds \subseteq Holds' /\ (\A v : Doing(v) => Doing(v)') /\ (\A v : Written(v) => Written(v)')
  BY <1>0, Later DEF TypeInv
<1>2. i \in Stages'
  BY DEF Doing
<1>3. ASSUME NEW v \in Requests PROVE Doing(work[v])'
  <2>1. CASE v = w
    <3>1. work'[v] = i
      BY <2>1 DEF TypeInv
    <3> QED
      BY <3>1
  <2>2. CASE v # w
    <3>1. PICK u : u = work[v]
      OBVIOUS
    <3>2. Doing(u)' /\ work'[v] = u
      BY <1>1, <2>2, <3>1 DEF TypeInv
    <3> QED
      BY <3>2
  <2> QED
    BY <2>1, <2>2
<1>4. FileInv'
  BY <1>0, <1>1 DEF TypeInv, FileInv, Files
<1>5. recover' \subseteq Holds'
  BY <1>1 DEF TypeInv
<1>6. work' \in [Requests -> Stages']
  BY <1>0, <1>2 DEF TypeInv, Stages
<1> QED
  BY <1>0, <1>3, <1>4, <1>5, <1>6 DEF TypeInv

\* A request that is not to be stamped yet, or is.
LEMMA Staged ==
  ASSUME NEW t, Asked(t)', NEW at \in {"store", "check", "stamp"}, at = "store" => t.cmd = "CREATE"
  PROVE  Doing([at |-> at, task |-> t])'
<1>1. PICK i : i = [at |-> at, task |-> t]
  OBVIOUS
<1>2. i \in Stages' /\ i.task = t
  BY <1>1 DEF Stages, Asked, Tasks
<1> QED
  BY <1>1, <1>2 DEF Doing

\* No object is made or changed.
LEMMA StillObjects ==
  ASSUME TypeInv, UNCHANGED <<now, object>>
  PROVE  Grow /\ Holds' = Holds /\ (\A t : Asked(t) => Asked(t)')
  BY DEF Grow, Holds, Asked

\* An object is made, or changed, as its kind allows.
LEMMA ObjectWritten ==
  ASSUME TypeInv, UNCHANGED now, NEW o \in Objects, NEW c \in Holds,
         object' = [object EXCEPT ![o] = c],
         object[o] # None => c.id = object[o].id /\ c.born = object[o].born,
         JournalAssumption
  PROVE  /\ Grow /\ object' \in [Objects -> Holds' \cup {None}]
         /\ object'[o] = c /\ c # None
         /\ \A x \in Sessions : live[x] # None => object'[live[x]] # None /\ object'[live[x]].id = x
<1>1. c # None /\ Holds' = Holds
  BY DEF Holds, JournalAssumption
<1>2. object \in [Objects -> Holds \cup {None}]
  BY DEF TypeInv, ObjectInv
<1> QED
  BY <1>1, <1>2 DEF Grow, TypeInv, ObjectInv

LEMMA CreateTyped ==
  ASSUME JournalAssumption, TypeInv, NEW w \in Requests, NEW x \in Sessions, NEW o \in Objects,
         Create(w, x, o)
  PROVE  TypeInv'
<1>0. PICK c, t : /\ c = [id |-> x, agents |-> {}, attrs |-> {}, born |-> now]
                  /\ t = Task("CREATE", x, None, o)
  OBVIOUS
<1>1. /\ object[o] = None /\ object' = [object EXCEPT ![o] = c]
      /\ work' = [work EXCEPT ![w] = [at |-> "store", task |-> t]]
      /\ UNCHANGED <<now, phase, starts, recover, disk, live, crossed>>
  BY <1>0 DEF Create, Goes
<1>2. c \in Holds /\ c.id = x
  BY <1>0 DEF Holds, Contents, TypeInv
<1>3. /\ Grow /\ object' \in [Objects -> Holds' \cup {None}]
      /\ object'[o] = c /\ c # None
      /\ \A y \in Sessions : live[y] # None => object'[live[y]] # None /\ object'[live[y]].id = y
  BY <1>1, <1>2, ObjectWritten
<1>4. Asked(t)'
  BY <1>0, <1>2, <1>3 DEF Asked, Tasks, Task, Commands, Changes
<1>5. ObjectInv'
  BY <1>1, <1>3 DEF ObjectInv, TypeInv
<1>6. Doing([at |-> "store", task |-> t])'
  BY <1>0, <1>4, Staged DEF Task
<1> QED
  BY <1>1, <1>3, <1>5, <1>6, RequestTyped DEF TypeInv

\* The repository gets an object of the right id, or loses sessions.
LEMMA RepositoryTyped ==
  ASSUME JournalAssumption, TypeInv, NEW w \in Requests, NEW t, Asked(t), Goes(w, "stamp", t),
         live' \in [Sessions -> Objects \cup {None}], UNCHANGED object,
         \A x \in Sessions : live'[x] # None => object[live'[x]] # None /\ object[live'[x]].id = x,
         crossed' \subseteq Sessions
  PROVE  TypeInv'
<1>1. /\ work' = [work EXCEPT ![w] = [at |-> "stamp", task |-> t]]
      /\ UNCHANGED <<now, phase, starts, recover, disk>>
  BY DEF Goes
<1>2. Grow /\ Holds' = Holds /\ Asked(t)'
  BY <1>1, StillObjects
<1>3. ObjectInv'
  BY <1>2 DEF ObjectInv, TypeInv
<1>4. Doing([at |-> "stamp", task |-> t])'
  BY <1>2, Staged
<1> QED
  BY <1>1, <1>2, <1>3, <1>4, RequestTyped

LEMMA MeetsSessions ==
  ASSUME NEW t
  PROVE  Meets(t) \subseteq Sessions
  BY DEF Meets

LEMMA StoreTyped ==
  ASSUME JournalAssumption, TypeInv, NEW w \in Requests, Store(w)
  PROVE  TypeInv'
<1>0. PICK t : t = work[w].task
  OBVIOUS
<1>1. /\ live' = Stored(t.id, t.on) /\ Goes(w, "stamp", t) /\ UNCHANGED object
      /\ crossed' = crossed \cup Meets(t) \cup (IF live[t.id] = None THEN {} ELSE {t.id})
      /\ work[w].at = "store"
  BY <1>0 DEF Store
<1>2. Asked(t)
  BY <1>0, <1>1 DEF TypeInv, Doing
<1>3. t.cmd = "CREATE" /\ t.id \in Sessions /\ t.on \in Objects
      /\ object[t.on] # None /\ object[t.on].id = t.id
  BY <1>0, <1>1, <1>2 DEF TypeInv, Doing, Asked, Changes
<1>4. /\ live' \in [Sessions -> Objects \cup {None}]
      /\ \A x \in Sessions : live'[x] # None => object[live'[x]] # None /\ object[live'[x]].id = x
  BY <1>1, <1>3 DEF Stored, TypeInv, ObjectInv
<1>5. crossed' \subseteq Sessions
  BY <1>1, <1>3, MeetsSessions DEF TypeInv
<1> QED
  BY <1>1, <1>2, <1>4, <1>5, RepositoryTyped

LEMMA ExpireTyped ==
  ASSUME JournalAssumption, TypeInv, NEW w \in Requests, NEW x \in Sessions, Expire(w, x)
  PROVE  TypeInv'
<1>0. PICK t : t = Task("EXPIRE", x, None, None)
  OBVIOUS
<1>1. /\ live' = [live EXCEPT ![x] = None] /\ Goes(w, "stamp", t) /\ UNCHANGED object
      /\ crossed' = crossed \cup Meets(t)
  BY <1>0 DEF Expire
<1>2. Asked(t)
  BY <1>0 DEF Asked, Tasks, Task, Commands, Changes
<1>3. /\ live' \in [Sessions -> Objects \cup {None}]
      /\ \A y \in Sessions : live'[y] # None => object[live'[y]] # None /\ object[live'[y]].id = y
  BY <1>1 DEF TypeInv, ObjectInv
<1>4. crossed' \subseteq Sessions
  BY <1>1, MeetsSessions DEF TypeInv
<1> QED
  BY <1>1, <1>2, <1>3, <1>4, RepositoryTyped

LEMMA ClearTyped ==
  ASSUME JournalAssumption, TypeInv, NEW w \in Requests, Clear(w)
  PROVE  TypeInv'
<1>0. PICK t : t = Task("CLEAR", None, None, None)
  OBVIOUS
<1>1. /\ live' = [x \in Sessions |-> None] /\ Goes(w, "stamp", t) /\ UNCHANGED object
      /\ crossed' = crossed \cup Meets(t)
  BY <1>0 DEF Clear
<1>2. Asked(t)
  BY <1>0 DEF Asked, Tasks, Task, Commands, Changes
<1>3. crossed' \subseteq Sessions
  BY <1>1, MeetsSessions DEF TypeInv
<1> QED
  BY <1>1, <1>2, <1>3, RepositoryTyped

\* The object of a change holds what the operation makes of it.
LEMMA ChangedTyped ==
  ASSUME JournalAssumption, TypeInv, NEW w \in Requests, NEW cmd \in Changes, NEW o \in Objects,
         NEW data, NEW c, Changed(w, cmd, o, data, c),
         cmd \in {"ADD", "REMOVE"} => data \in Agents, cmd \in {"SET", "DEL"} => data \in Attrs,
         object[o] # None => c \in Contents /\ c.id = object[o].id /\ c.born = object[o].born
  PROVE  TypeInv'
<1>0. PICK t : t = Task(cmd, object[o].id, data, o)
  OBVIOUS
<1>1. /\ object[o] # None /\ object' = [object EXCEPT ![o] = c]
      /\ work' = [work EXCEPT ![w] = [at |-> "check", task |-> t]]
      /\ UNCHANGED <<now, phase, starts, recover, disk, live>>
      /\ crossed' = crossed \cup Meets(t) \cup (IF live[t.id] \in {None, o} THEN {} ELSE {t.id})
  BY <1>0 DEF Changed, Goes
<1>2. c \in Holds /\ c.id = object[o].id /\ c.born = object[o].born /\ object[o].id \in Sessions
  <2>1. object[o] \in Holds
    BY <1>1 DEF TypeInv, ObjectInv
  <2> QED
    BY <1>1, <2>1 DEF Holds, Contents
<1>3. /\ Grow /\ object' \in [Objects -> Holds' \cup {None}]
      /\ object'[o] = c /\ c # None
      /\ \A y \in Sessions : live[y] # None => object'[live[y]] # None /\ object'[live[y]].id = y
  BY <1>1, <1>2, ObjectWritten
<1>4. /\ t.cmd = cmd /\ t.id = c.id /\ t.data = data /\ t.on = o
      /\ t \in Tasks
  BY <1>0, <1>2 DEF Task, Tasks, Changes, Commands
<1>5. Asked(t)'
  BY <1>2, <1>3, <1>4 DEF Asked, Changes
<1>6. ObjectInv'
  BY <1>1, <1>3 DEF ObjectInv, TypeInv
<1>7. Doing([at |-> "check", task |-> t])'
  BY <1>5, Staged
<1>8. crossed' \subseteq Sessions
  BY <1>1, <1>2, <1>4, MeetsSessions DEF TypeInv
<1> QED
  BY <1>1, <1>3, <1>6, <1>7, <1>8, RequestTyped

LEMMA ChangesTyped ==
  ASSUME JournalAssumption, TypeInv, NEW w \in Requests, NEW o \in Objects,
         \/ \E g \in Agents : AddAgent(w, o, g) \/ RemoveAgent(w, o, g)
         \/ \E k \in Attrs : SetAttribute(w, o, k) \/ RemoveAttribute(w, o, k)
  PROVE  TypeInv'
<1>0. object[o] # None => object[o] \in Contents
  BY DEF TypeInv, ObjectInv, Holds
<1>1. ASSUME NEW g \in Agents, AddAgent(w, o, g) PROVE TypeInv'
  <2>1. PICK c : c = [object[o] EXCEPT !.agents = @ \cup {g}]
    OBVIOUS
  <2>2. object[o] # None => c \in Contents /\ c.id = object[o].id /\ c.born = object[o].born
    BY <1>0, <2>1 DEF Contents
  <2>3. Changed(w, "ADD", o, g, c)
    BY <1>1, <2>1 DEF AddAgent
  <2> QED
    BY <2>2, <2>3, ChangedTyped DEF Changes
<1>2. ASSUME NEW g \in Agents, RemoveAgent(w, o, g) PROVE TypeInv'
  <2>1. PICK c : c = [object[o] EXCEPT !.agents = @ \ {g}]
    OBVIOUS
  <2>2. object[o] # None => c \in Contents /\ c.id = object[o].id /\ c.born = object[o].born
    BY <1>0, <2>1 DEF Contents
  <2>3. Changed(w, "REMOVE", o, g, c)
    BY <1>2, <2>1 DEF RemoveAgent
  <2> QED
    BY <2>2, <2>3, ChangedTyped DEF Changes
<1>3. ASSUME NEW k \in Attrs, SetAttribute(w, o, k) PROVE TypeInv'
  <2>1. PICK c : c = [object[o] EXCEPT !.attrs = @ \cup {k}]
    OBVIOUS
  <2>2. object[o] # None => c \in Contents /\ c.id = object[o].id /\ c.born = object[o].born
    BY <1>0, <2>1 DEF Contents
  <2>3. Changed(w, "SET", o, k, c)
    BY <1>3, <2>1 DEF SetAttribute
  <2> QED
    BY <2>2, <2>3, ChangedTyped DEF Changes
<1>4. ASSUME NEW k \in Attrs, RemoveAttribute(w, o, k) PROVE TypeInv'
  <2>1. PICK c : c = [object[o] EXCEPT !.attrs = @ \ {k}]
    OBVIOUS
  <2>2. object[o] # None => c \in Contents /\ c.id = object[o].id /\ c.born = object[o].born
    BY <1>0, <2>1 DEF Contents
  <2>3. Changed(w, "DEL", o, k, c)
    BY <1>4, <2>1 DEF RemoveAttribute
  <2> QED
    BY <2>2, <2>3, ChangedTyped DEF Changes
<1> QED
  BY <1>1, <1>2, <1>3, <1>4

LEMMA RecoverTyped ==
  ASSUME JournalAssumption, TypeInv, NEW w \in Requests, NEW o \in Objects, NEW r \in recover,
         Recover(w, r, o)
  PROVE  TypeInv'
<1>0. PICK t : t = Task("CREATE", r.id, None, o)
  OBVIOUS
<1>1. /\ object[o] = None /\ object' = [object EXCEPT ![o] = r]
      /\ recover' = recover \ {r} /\ live' = Stored(r.id, o)
      /\ work' = [work EXCEPT ![w] = [at |-> "stamp", task |-> t]]
      /\ UNCHANGED <<now, phase, starts, disk, crossed>>
  BY <1>0 DEF Recover
<1>2. r \in Holds /\ r.id \in Sessions
  BY DEF TypeInv, Holds, Contents
<1>3. /\ Grow /\ object' \in [Objects -> Holds' \cup {None}]
      /\ object'[o] = r /\ r # None
      /\ \A x \in Sessions : live[x] # None => object'[live[x]] # None /\ object'[live[x]].id = x
  BY <1>1, <1>2, ObjectWritten
<1>4. Asked(t)'
  BY <1>0, <1>2, <1>3 DEF Asked, Tasks, Task, Commands, Changes
<1>5. ObjectInv'
  BY <1>1, <1>2, <1>3 DEF ObjectInv, TypeInv, Stored
<1>6. Doing([at |-> "stamp", task |-> t])'
  BY <1>4, Staged
<1> QED
  BY <1>1, <1>3, <1>5, <1>6, RequestTyped DEF TypeInv

\* A change is journaled if its session is stored, or dropped.
LEMMA CheckTyped ==
  ASSUME JournalAssumption, TypeInv, NEW w \in Requests, Check(w)
  PROVE  TypeInv'
<1>0. PICK t : t = work[w].task
  OBVIOUS
<1>1. /\ \/ work' = [work EXCEPT ![w] = [at |-> "stamp", task |-> t]]
         \/ work' = [work EXCEPT ![w] = Idle]
      /\ work[w].at = "check"
      /\ UNCHANGED <<now, phase, starts, recover, disk, object, live, crossed>>
  BY <1>0 DEF Check, Goes
<1>2. Grow /\ Holds' = Holds /\ (\A r : Asked(r) => Asked(r)')
  BY <1>1, StillObjects
<1>3. Asked(t)'
  BY <1>0, <1>1, <1>2 DEF TypeInv, Doing
<1>4. Doing([at |-> "stamp", task |-> t])'
  BY <1>3, Staged
<1>5. Doing(Idle)'
  BY DEF Doing, Stages, Idle
<1>6. ObjectInv'
  BY <1>1, <1>2 DEF ObjectInv, TypeInv
<1> QED
  BY <1>1, <1>2, <1>4, <1>5, <1>6, RequestTyped DEF TypeInv

LEMMA StampTyped ==
  ASSUME JournalAssumption, TypeInv, NEW w \in Requests, Stamp(w)
  PROVE  TypeInv'
<1>0. PICK t, i : t = work[w].task /\ i = [at |-> "append", task |-> t, time |-> now]
  OBVIOUS
<1>1. /\ work' = [work EXCEPT ![w] = i] /\ work[w].at = "stamp"
      /\ UNCHANGED <<now, phase, starts, recover, disk, object, live, crossed>>
  BY <1>0 DEF Stamp
<1>2. Grow /\ Holds' = Holds /\ (\A r : Asked(r) => Asked(r)')
  BY <1>1, StillObjects
<1>3. Asked(t) /\ now \in 0 .. now'
  BY <1>0, <1>1 DEF TypeInv, Doing
<1>4. i \in Stages' /\ i.at = "append" /\ i.task = t
  BY <1>0, <1>1, <1>3 DEF Stages, Asked
<1>5. Doing(i)'
  BY <1>2, <1>3, <1>4 DEF Doing
<1>6. ObjectInv'
  BY <1>1, <1>2 DEF ObjectInv, TypeInv
<1> QED
  BY <1>1, <1>2, <1>5, <1>6, RequestTyped DEF TypeInv

LEMMA AppendedSet ==
  ASSUME NEW S, NEW file \in Seq(S), NEW e
  PROVE  ToSet(Append(file, e)) = ToSet(file) \cup {e}
<1>1. /\ DOMAIN Append(file, e) = 1 .. Len(file) + 1 /\ Len(file) \in Nat
      /\ DOMAIN file = 1 .. Len(file)
      /\ \A i \in DOMAIN file : Append(file, e)[i] = file[i]
      /\ Append(file, e)[Len(file) + 1] = e
  OBVIOUS
<1> QED
  BY <1>1 DEF ToSet

\* The line that an append writes, and whether the file rolls over first.
Line(w) ==
  LET t == work[w].task
  IN  [cmd |-> t.cmd, id |-> t.id, data |-> Data(t), time |-> work[w].time, n |-> written + 1]

Rolls(w) == stream # "null" /\ RollsOver(work[w].time)

Writes(w) ==
  /\ B' = Backup(Rolls(w)) /\ A' = Append(Opened(Rolls(w)), Line(w))
  /\ modified' = IF Rolls(w) \/ stream = "null" THEN now ELSE modified
  /\ stream' = "open" /\ written' = written + 1

\* An append either is lost, on a closed stream, or writes the line.
LEMMA AppendWrites ==
  ASSUME NEW w, AppendEntry(w)
  PROVE  /\ phase # "down" /\ work[w].at = "append" /\ work' = [work EXCEPT ![w] = Idle]
         /\ UNCHANGED <<now, phase, starts, object, live, recover, D, crossed>>
         /\ \/ stream = "closed" /\ ~Rolls(w) /\ UNCHANGED <<A, B, stream, modified, written>>
            \/ (stream # "closed" \/ Rolls(w)) /\ Writes(w)
  BY DEF AppendEntry, disk, Writes, Line, Rolls

\* What the files hold after an append.
LEMMA FilesAppend ==
  ASSUME Files, NEW w, Writes(w)
  PROVE  /\ Files'
         /\ ToSet(A)' = ToSet(Opened(Rolls(w))) \cup {Line(w)}
         /\ ToSet(B)' = ToSet(Backup(Rolls(w)))
         /\ ToSet(Opened(Rolls(w))) \subseteq ToSet(A)
<1>1. PICK S : A \in Seq(S) /\ B \in Seq(S)
  BY DEF Files
<1>2. PICK T : T = S \cup {Line(w)}
  OBVIOUS
<1>3. A \in Seq(T) /\ B \in Seq(T) /\ Line(w) \in T
  BY <1>1, <1>2, SeqMonotone
<1>4. Opened(Rolls(w)) \in Seq(T) /\ Backup(Rolls(w)) \in Seq(T)
  BY <1>3 DEF Opened, Backup
<1>5. A' \in Seq(T) /\ B' \in Seq(T)
  BY <1>3, <1>4 DEF Writes
<1>6. Files'
  BY <1>5 DEF Files
<1>7. ToSet(Opened(Rolls(w))) \subseteq ToSet(A)
  BY DEF Opened, ToSet
<1>8. ToSet(A') = ToSet(Opened(Rolls(w))) \cup {Line(w)}
  BY <1>4, AppendedSet DEF Writes
<1> QED
  BY <1>6, <1>7, <1>8 DEF Writes

\* The line that is written is well typed.
LEMMA LineWritten ==
  ASSUME TypeInv, NEW w \in Requests, work[w].at = "append", NEW l, l = Line(w),
         written' = written + 1, UNCHANGED now
  PROVE  Written(l)'
<1>1. PICK t, time : t = work[w].task /\ time = work[w].time
  OBVIOUS
<1>2. Asked(t) /\ time \in 0 .. now /\ now \in Nat /\ written \in Nat
  BY <1>1 DEF TypeInv, Doing, Stages, Idle
<1>3. l.cmd = t.cmd /\ l.id = t.id /\ l.time = time /\ l.n = written + 1 /\ l.data = Data(t)
  BY <1>1 DEF Line
<1>4. Carries(l)
  <2>1. CASE t.cmd = "CREATE"
    <3>1. t.id \in Sessions /\ t.on \in Objects /\ object[t.on] # None /\ object[t.on].id = t.id
      BY <1>2, <2>1 DEF Asked, Changes
    <3>2. object[t.on] \in Holds
      BY <3>1 DEF TypeInv, ObjectInv
    <3> QED
      BY <1>3, <2>1, <3>1, <3>2 DEF Carries, Commands, Data, Holds
  <2>2. CASE t.cmd # "CREATE"
    BY <1>2, <1>3, <2>2 DEF Carries, Asked, Tasks, Data
  <2> QED
    BY <2>1, <2>2
<1>5. l.time \in Nat /\ l.time <= now' /\ l.n \in Nat \ {0} /\ l.n <= written'
  BY <1>2, <1>3
<1>6. Carries(l)'
  BY <1>4 DEF Carries
<1> QED
  BY <1>5, <1>6 DEF Written

LEMMA AppendTyped ==
  ASSUME JournalAssumption, TypeInv, NEW w \in Requests, AppendEntry(w)
  PROVE  TypeInv'
<1>1. /\ phase # "down" /\ work[w].at = "append" /\ work' = [work EXCEPT ![w] = Idle]
      /\ UNCHANGED <<now, phase, starts, object, live, recover, D, crossed>>
      /\ UNCHANGED <<A, B, stream, modified, written>> \/ Writes(w)
  BY AppendWrites
<1>2. /\ written' \in Nat /\ written <= written'
      /\ modified' \in Nat /\ modified' <= now /\ stream' \in {"null", "open", "closed"}
  BY <1>1 DEF TypeInv, Writes
<1>3. Grow /\ Holds' = Holds /\ Stages' = Stages
  BY <1>1, StillObjects DEF Stages
<1>4. (\A i : Doing(i) => Doing(i)') /\ (\A e : Written(e) => Written(e)')
  BY <1>1, <1>2, <1>3, Later DEF TypeInv
<1>5. work' \in [Requests -> Stages'] /\ \A v \in Requests : work'[v] = Idle \/ work'[v] = work[v]
  BY <1>1, <1>3 DEF TypeInv, Stages
<1>6. ASSUME NEW v \in Requests PROVE Doing(work[v])'
  <2>1. PICK i : i = work'[v]
    OBVIOUS
  <2>2. Doing(Idle)
    BY DEF Doing, Stages, Idle
  <2>3. Doing(i)'
    BY <1>4, <1>5, <2>1, <2>2 DEF TypeInv
  <2> QED
    BY <2>1, <2>3
<1>7. FileInv'
  <2>1. CASE UNCHANGED <<A, B, stream, modified, written>>
    BY <1>4, <2>1 DEF TypeInv, FileInv, Files
  <2>2. CASE Writes(w)
    <3>1. PICK l : l = Line(w)
      OBVIOUS
    <3>2. Written(l)'
      BY <1>1, <2>2, <3>1, LineWritten DEF Writes
    <3>3. /\ Files' /\ ToSet(A)' \subseteq ToSet(A) \cup {l} /\ ToSet(B)' \subseteq ToSet(A) \cup ToSet(B)
      BY <2>2, <3>1, FilesAppend DEF Backup, TypeInv, FileInv
    <3> QED
      BY <1>4, <3>2, <3>3 DEF TypeInv, FileInv
  <2> QED
    BY <1>1, <2>1, <2>2
<1>8. ObjectInv'
  BY <1>1, <1>3 DEF ObjectInv, TypeInv
<1> QED
  BY <1>1, <1>2, <1>3, <1>5, <1>6, <1>7, <1>8 DEF TypeInv

\* The requests and the files stay as they are.
LEMMA RestTyped ==
  ASSUME JournalAssumption, TypeInv,
         \/ Dump \/ Tick \/ Stop \/ UNCHANGED vars
  PROVE  TypeInv'
<1>1. UNCHANGED <<starts, object, live, work, recover, A, B, modified, written, crossed>>
  BY DEF Dump, Tick, Stop, vars, disk
<1>2. now' \in 0 .. MaxTime /\ now <= now' /\ now \in Nat
  BY DEF Dump, Tick, Stop, vars, disk, TypeInv, JournalAssumption
<1>3. Grow
  BY <1>1 DEF Grow
<1>4. /\ Holds \subseteq Holds'
      /\ (\A i : Doing(i) => Doing(i)') /\ (\A e : Written(e) => Written(e)')
  BY <1>1, <1>2, <1>3, Later DEF TypeInv
<1>5. ASSUME NEW v \in Requests PROVE Doing(work[v])'
  <2>1. PICK i : i = work'[v]
    OBVIOUS
  <2>2. Doing(i)'
    BY <1>1, <1>4, <2>1 DEF TypeInv
  <2> QED
    BY <2>1, <2>2
<1>6. work' \in [Requests -> Stages']
  BY <1>1, <1>2 DEF TypeInv, Stages
<1>7. D' \subseteq Contents
  <2>1. \A x \in Sessions : live[x] # None => object[live[x]] \in Contents
    BY DEF TypeInv, ObjectInv, Holds
  <2>2. D \subseteq Contents
    BY DEF TypeInv
  <2> QED
    BY <2>1, <2>2 DEF Dump, Tick, Stop, vars, disk
<1>8. /\ phase' \in {"up", "stopping", "down"} /\ stream' \in {"null", "open", "closed"}
      /\ (phase' = "down" => starts < MaxStarts) /\ modified <= now'
  BY <1>2 DEF Dump, Tick, Stop, vars, disk, TypeInv
<1>9. FileInv'
  BY <1>1, <1>4 DEF TypeInv, FileInv, Files
<1>10. ObjectInv' /\ recover' \subseteq Holds'
  BY <1>1, <1>4 DEF ObjectInv, TypeInv
<1> QED
  BY <1>1, <1>2, <1>5, <1>6, <1>7, <1>8, <1>9, <1>10 DEF TypeInv

LEMMA EndTyped ==
  ASSUME JournalAssumption, TypeInv, End
  PROVE  TypeInv'
<1>1. /\ phase' = "down" /\ starts < MaxStarts /\ stream' = "null" /\ recover' = {}
      /\ live' = [x \in Sessions |-> None] /\ work' = [w \in Requests |-> Idle]
      /\ object' = [o \in Objects |-> None]
      /\ UNCHANGED <<now, starts, A, B, D, modified, written, crossed>>
  BY DEF End
<1>2. ObjectInv' /\ \A e : Written(e) => Written(e)'
  BY <1>1 DEF ObjectInv, Written, Carries
<1>3. work' \in [Requests -> Stages']
  BY <1>1 DEF Stages
<1>4. ASSUME NEW w \in Requests PROVE Doing(work[w])'
  <2>1. work'[w] = Idle
    BY <1>1
  <2>2. Doing(Idle)'
    BY DEF Doing, Stages, Idle
  <2> QED
    BY <2>1, <2>2
<1>5. FileInv'
  BY <1>1, <1>2 DEF TypeInv, FileInv, Files
<1> QED
  BY <1>1, <1>2, <1>3, <1>4, <1>5 DEF TypeInv

LEMMA StartTyped ==
  ASSUME JournalAssumption, TypeInv, Start
  PROVE  TypeInv'
<1>1. /\ phase = "down" /\ phase' = "up" /\ starts' = starts + 1 /\ modified' = 0
      /\ UNCHANGED <<now, object, live, work, A, B, D, stream, written, crossed>>
  BY DEF Start
<1>2. PICK found \in Recoverable : recover' = {found[x] : x \in Sessions} \ {None}
  BY DEF Start
<1>3. found \in Stores
  BY RecoverableStores
<1>4. recover' \subseteq Holds /\ Holds' = Holds
  BY <1>1, <1>2, <1>3 DEF Stores, Holds
<1>5. Grow
  BY <1>1 DEF Grow
<1>6. (\A i : Doing(i) => Doing(i)') /\ (\A e : Written(e) => Written(e)')
  BY <1>1, <1>5, Later DEF TypeInv
<1>7. starts' \in 1 .. MaxStarts /\ modified' <= now
  BY <1>1 DEF TypeInv, JournalAssumption
<1>8. FileInv'
  BY <1>1, <1>6 DEF TypeInv, FileInv, Files
<1>9. ASSUME NEW v \in Requests PROVE Doing(work[v])'
  <2>1. PICK i : i = work'[v]
    OBVIOUS
  <2>2. Doing(i)'
    BY <1>1, <1>6, <2>1 DEF TypeInv
  <2> QED
    BY <2>1, <2>2
<1>10. ObjectInv' /\ work' \in [Requests -> Stages']
  BY <1>1, <1>4 DEF ObjectInv, TypeInv, Stages
<1> QED
  BY <1>1, <1>4, <1>7, <1>8, <1>9, <1>10 DEF TypeInv

\* Every step keeps the types.
LEMMA TypeStep == JournalAssumption /\ TypeInv /\ [Next]_vars => TypeInv'
<1> SUFFICES ASSUME JournalAssumption, TypeInv, [Next]_vars PROVE TypeInv'
  OBVIOUS
<1>1. ASSUME NEW w \in Requests, NEW o \in Objects,
             \/ \E x \in Sessions : Create(w, x, o)
             \/ \E r \in recover : Recover(w, r, o)
             \/ \E g \in Agents : AddAgent(w, o, g) \/ RemoveAgent(w, o, g)
             \/ \E k \in Attrs : SetAttribute(w, o, k) \/ RemoveAttribute(w, o, k)
      PROVE  TypeInv'
  BY <1>1, CreateTyped, RecoverTyped, ChangesTyped
<1>2. ASSUME NEW w \in Requests,
             \/ \E x \in Sessions : Expire(w, x)
             \/ Store(w) \/ Clear(w) \/ Check(w) \/ Stamp(w) \/ AppendEntry(w)
      PROVE  TypeInv'
  BY <1>2, ExpireTyped, StoreTyped, ClearTyped, CheckTyped, StampTyped, AppendTyped
<1>3. CASE Dump \/ Tick \/ Stop \/ UNCHANGED vars
  BY <1>3, RestTyped
<1>4. CASE End
  BY <1>4, EndTyped
<1>5. CASE Start
  BY <1>5, StartTyped
<1> QED
  BY <1>1, <1>2, <1>3, <1>4, <1>5 DEF Next

\* Every reachable state is well typed: in particular a replay of whatever is on disk gives
\* well-formed sessions, each under its own id and none from the future, whatever was lost,
\* rolled over or appended out of the order of its times.
THEOREM TypeCorrect == Spec => []TypeOK
  BY JournalAssumption, TypeInit, TypeStep, TypeInvImplies, PTL DEF Spec

-----------------------------------------------------------------------------
(* What a crash loses *)

\* When the stored session of an id was made.
Born(x) == object[live[x]].born

\* A request is about to journal the creation of session x.
Pending(w, x) ==
  /\ work[w].at \in {"stamp", "append"} /\ work[w].task.cmd = "CREATE" /\ work[w].task.id = x
  /\ work[w].at = "append" => Born(x) <= work[w].time

\* The creation of x is in file A, or still in file B because x is older than A.
OnDisk(x, e) ==
  /\ stream = "open" /\ e \in ToSet(A) \cup ToSet(B)
  /\ e.cmd = "CREATE" /\ e.id = x /\ Born(x) <= e.time
  /\ e \in ToSet(A) \/ Born(x) <= modified

Held(x) == (\E w \in Requests : Pending(w, x)) \/ (\E e : OnDisk(x, e))

\* While a server is up, every session that is not older than RollTime is held.
RecentInv ==
  /\ stream = "closed" => phase = "stopping"
  /\ phase = "down" => \A x \in Sessions : live[x] = None
  /\ phase = "up" => \A x \in Sessions : live[x] # None /\ now - Born(x) <= RollTime => Held(x)

\* A stored session has been made.
LEMMA BornNumber ==
  ASSUME TypeInv, NEW x \in Sessions, live[x] # None
  PROVE  Born(x) \in Nat /\ Born(x) <= now /\ live[x] \in Objects /\ object[live[x]] # None
<1>1. live[x] \in Objects /\ object[live[x]] # None
  BY DEF TypeInv, ObjectInv
<1>2. object[live[x]] \in Holds
  BY <1>1 DEF TypeInv, ObjectInv
<1> QED
  BY <1>1, <1>2 DEF Born, Holds, Contents

\* What is on disk, and the other requests, stay as they are.
LEMMA StillHeld ==
  ASSUME TypeInv, UNCHANGED <<A, B, stream, modified>>, NEW w \in Requests,
         \A v \in Requests : v # w => work'[v] = work[v],
         NEW x \in Sessions, Born(x)' = Born(x), Held(x), Pending(w, x) => Pending(w, x)'
  PROVE  Held(x)'
<1>1. ASSUME NEW v \in Requests, Pending(v, x) PROVE Pending(v, x)'
  <2>1. CASE v = w
    BY <1>1, <2>1
  <2>2. CASE v # w
    <3>1. PICK u : u = work[v]
      OBVIOUS
    <3>2. work'[v] = u
      BY <2>2, <3>1
    <3> QED
      BY <1>1, <3>1, <3>2 DEF Pending
  <2> QED
    BY <2>1, <2>2
<1>2. ASSUME NEW e, OnDisk(x, e) PROVE OnDisk(x, e)'
  BY <1>2 DEF OnDisk
<1> QED
  BY <1>1, <1>2 DEF Held

\* A request gets to a stage from which it does not fall back, and stores no session
\* but the one whose creation it is about to journal.
Proceeds(w, i) ==
  /\ phase # "down" /\ work[w].at \in {"idle", "store", "check"}
  /\ work' = [work EXCEPT ![w] = i]
  /\ UNCHANGED <<now, phase, starts, disk>>
  /\ \A x \in Sessions : \/ live'[x] \in {live[x], None}
                          \/ (i.at = "stamp" /\ i.task.cmd = "CREATE" /\ i.task.id = x)

LEMMA GoesHeld ==
  ASSUME TypeInv, RecentInv, NEW w \in Requests, NEW i, Grow, Proceeds(w, i)
  PROVE  RecentInv'
<1>1. work'[w] = i /\ \A v \in Requests : v # w => work'[v] = work[v]
  BY DEF Proceeds, TypeInv
<1>2. UNCHANGED <<now, phase, A, B, stream, modified>>
  BY DEF Proceeds, disk
<1>3. ASSUME phase = "up", NEW x \in Sessions, live'[x] # None, now' - Born(x)' <= RollTime
      PROVE  Held(x)'
  <2>1. CASE live'[x] = live[x]
    <3>1. Born(x)' = Born(x)
      BY <1>3, <2>1, BornNumber DEF Grow, Born
    <3>2. Held(x) /\ ~Pending(w, x)
      BY <1>2, <1>3, <2>1, <3>1 DEF Proceeds, RecentInv, Pending
    <3> QED
      BY <1>1, <1>2, <3>1, <3>2, StillHeld
  <2>2. CASE i.at = "stamp" /\ i.task.cmd = "CREATE" /\ i.task.id = x
    <3>1. Pending(w, x)'
      BY <1>1, <2>2 DEF Pending
    <3> QED
      BY <3>1 DEF Held
  <2> QED
    BY <1>3, <2>1, <2>2 DEF Proceeds
<1>4. phase # "down"
  BY DEF Proceeds
<1> QED
  BY <1>2, <1>3, <1>4 DEF RecentInv

\* A session object that is made or changed takes no creation away ...
LEMMA ObjectRecent ==
  ASSUME JournalAssumption, TypeInv, RecentInv, NEW w \in Requests, NEW o \in Objects,
         \/ \E x \in Sessions : Create(w, x, o)
         \/ \E r \in recover : Recover(w, r, o)
         \/ \E g \in Agents : AddAgent(w, o, g) \/ RemoveAgent(w, o, g)
         \/ \E k \in Attrs : SetAttribute(w, o, k) \/ RemoveAttribute(w, o, k)
  PROVE  RecentInv'
<1>0. object[o] # None => object[o] \in Contents
  BY DEF TypeInv, ObjectInv, Holds
<1>1. ASSUME NEW x \in Sessions, Create(w, x, o) PROVE RecentInv'
  <2>1. PICK i : i = [at |-> "store", task |-> Task("CREATE", x, None, o)]
    OBVIOUS
  <2>2. Proceeds(w, i)
    BY <1>1, <2>1 DEF Create, Free, Busy, Goes, Proceeds
  <2>3. Grow
    BY <1>1 DEF Create, Grow, TypeInv, ObjectInv
  <2> QED
    BY <2>2, <2>3, GoesHeld
<1>2. ASSUME NEW r \in recover, Recover(w, r, o) PROVE RecentInv'
  <2>1. PICK i : i = [at |-> "stamp", task |-> Task("CREATE", r.id, None, o)]
    OBVIOUS
  <2>2. live' = Stored(r.id, o)
    BY <1>2 DEF Recover
  <2>3. Grow
    BY <1>2 DEF Recover, Grow, TypeInv, ObjectInv
  <2>4. i.at = "stamp" /\ i.task.cmd = "CREATE" /\ i.task.id = r.id
    BY <2>1 DEF Task
  <2>5. \A x \in Sessions : live'[x] = live[x] \/ x = r.id
    BY <2>2 DEF Stored, TypeInv, ObjectInv
  <2>6. Proceeds(w, i)
    BY <1>2, <2>1, <2>4, <2>5 DEF Recover, Proceeds
  <2> QED
    BY <2>3, <2>6, GoesHeld
<1>3. ASSUME NEW cmd, NEW data, NEW c, Changed(w, cmd, o, data, c),
             object[o] # None => c \in Contents /\ c.id = object[o].id /\ c.born = object[o].born
      PROVE  RecentInv'
  <2>1. PICK i : i = [at |-> "check", task |-> Task(cmd, object[o].id, data, o)]
    OBVIOUS
  <2>2. Proceeds(w, i)
    BY <1>3, <2>1 DEF Changed, Free, Busy, Goes, Proceeds
  <2>3. Grow
    BY <1>3 DEF Changed, Grow, TypeInv, ObjectInv, JournalAssumption
  <2> QED
    BY <2>2, <2>3, GoesHeld
<1>4. ASSUME NEW g \in Agents, AddAgent(w, o, g) \/ RemoveAgent(w, o, g) PROVE RecentInv'
  <2>1. ASSUME NEW c, c = [object[o] EXCEPT !.agents = @ \cup {g}] \/ c = [object[o] EXCEPT !.agents = @ \ {g}],
               object[o] # None
        PROVE  c \in Contents /\ c.id = object[o].id /\ c.born = object[o].born
    BY <1>0, <2>1 DEF Contents
  <2> QED
    BY <1>3, <1>4, <2>1 DEF AddAgent, RemoveAgent
<1>5. ASSUME NEW k \in Attrs, SetAttribute(w, o, k) \/ RemoveAttribute(w, o, k) PROVE RecentInv'
  <2>1. ASSUME NEW c, c = [object[o] EXCEPT !.attrs = @ \cup {k}] \/ c = [object[o] EXCEPT !.attrs = @ \ {k}],
               object[o] # None
        PROVE  c \in Contents /\ c.id = object[o].id /\ c.born = object[o].born
    BY <1>0, <2>1 DEF Contents
  <2> QED
    BY <1>3, <1>5, <2>1 DEF SetAttribute, RemoveAttribute
<1> QED
  BY <1>1, <1>2, <1>4, <1>5

\* ... nor does a task that stores or removes one.
LEMMA StageRecent ==
  ASSUME JournalAssumption, TypeInv, RecentInv, NEW w \in Requests,
         \/ \E x \in Sessions : Expire(w, x)
         \/ Store(w) \/ Clear(w) \/ Check(w)
  PROVE  RecentInv'
<1>1. ASSUME NEW i, UNCHANGED object, Proceeds(w, i) PROVE RecentInv'
  <2>1. Grow
    BY <1>1 DEF Grow
  <2> QED
    BY <1>1, <2>1, GoesHeld
<1>2. ASSUME NEW x \in Sessions, Expire(w, x) PROVE RecentInv'
  <2>1. PICK i : i = [at |-> "stamp", task |-> Task("EXPIRE", x, None, None)]
    OBVIOUS
  <2>2. \A y \in Sessions : live'[y] \in {live[y], None}
    BY <1>2 DEF Expire, TypeInv, ObjectInv
  <2>3. UNCHANGED object /\ Proceeds(w, i)
    BY <1>2, <2>1, <2>2 DEF Expire, Goes, Free, Busy, Proceeds
  <2> QED
    BY <1>1, <2>3
<1>3. CASE Clear(w)
  <2>1. PICK i : i = [at |-> "stamp", task |-> Task("CLEAR", None, None, None)]
    OBVIOUS
  <2>2. \A y \in Sessions : live'[y] \in {live[y], None}
    BY <1>3 DEF Clear
  <2>3. UNCHANGED object /\ Proceeds(w, i)
    BY <1>3, <2>1, <2>2 DEF Clear, Goes, Free, Busy, Proceeds
  <2> QED
    BY <1>1, <2>3
<1>4. CASE Check(w)
  <2>1. PICK i : i = [at |-> "stamp", task |-> work[w].task]
    OBVIOUS
  <2>2. UNCHANGED object /\ (Proceeds(w, i) \/ Proceeds(w, Idle))
    BY <1>4, <2>1 DEF Check, Goes, Proceeds
  <2> QED
    BY <1>1, <2>2
<1>5. CASE Store(w)
  <2>1. PICK t : t = work[w].task
    OBVIOUS
  <2>2. PICK i : i = [at |-> "stamp", task |-> t]
    OBVIOUS
  <2>3. /\ work' = [work EXCEPT ![w] = i] /\ live' = Stored(t.id, t.on) /\ work[w].at = "store"
        /\ UNCHANGED <<now, phase, starts, disk, object>> /\ phase # "down"
    BY <1>5, <2>1, <2>2 DEF Store, Goes
  <2>4. i.at = "stamp" /\ i.task.cmd = "CREATE" /\ i.task.id = t.id
    BY <2>1, <2>2, <2>3 DEF TypeInv, Doing
  <2>5. \A x \in Sessions : live'[x] = live[x] \/ x = t.id
    BY <2>3 DEF Stored, TypeInv, ObjectInv
  <2>6. Proceeds(w, i)
    BY <2>3, <2>4, <2>5 DEF Proceeds
  <2> QED
    BY <1>1, <2>3, <2>6
<1> QED
  BY <1>2, <1>3, <1>4, <1>5

LEMMA StampRecent ==
  ASSUME TypeInv, RecentInv, NEW w \in Requests, Stamp(w)
  PROVE  RecentInv'
<1>1. /\ UNCHANGED <<now, phase, object, live, A, B, stream, modified>> /\ phase # "down" /\ work[w].at = "stamp"
      /\ work'[w].at = "append" /\ work'[w].task = work[w].task /\ work'[w].time = now
      /\ \A v \in Requests : v # w => work'[v] = work[v]
  BY DEF Stamp, disk, TypeInv
<1>2. ASSUME NEW x \in Sessions, live[x] # None, Held(x) PROVE Held(x)'
  <2>1. Born(x)' = Born(x) /\ Born(x) <= now
    BY <1>1, <1>2, BornNumber DEF Born
  <2>2. Pending(w, x) => Pending(w, x)'
    BY <1>1, <2>1 DEF Pending
  <2> QED
    BY <1>1, <1>2, <2>1, <2>2, StillHeld
<1>3. \A x \in Sessions : Born(x)' = Born(x)
  BY <1>1 DEF Born
<1> QED
  BY <1>1, <1>2, <1>3 DEF RecentInv

\* A rollover gives file B up: it is older than RollTime then.
LEMMA AppendRecent ==
  ASSUME JournalAssumption, TypeInv, RecentInv, NEW w \in Requests, AppendEntry(w)
  PROVE  RecentInv'
<1>1. /\ phase # "down" /\ work[w].at = "append" /\ work' = [work EXCEPT ![w] = Idle]
      /\ UNCHANGED <<now, phase, object, live>>
      /\ \/ stream = "closed" /\ ~Rolls(w) /\ UNCHANGED <<A, B, stream, modified, written>>
         \/ (stream # "closed" \/ Rolls(w)) /\ Writes(w)
  BY AppendWrites
<1>2. CASE phase # "up"
  BY <1>1, <1>2 DEF RecentInv, TypeInv, Writes
<1>3. CASE phase = "up"
  <2>1. Writes(w) /\ stream \in {"null", "open"} /\ stream' = "open" /\ phase' = "up"
    BY <1>1, <1>3 DEF RecentInv, TypeInv, Writes
  <2>2. /\ ToSet(A)' = ToSet(Opened(Rolls(w))) \cup {Line(w)} /\ ToSet(B)' = ToSet(Backup(Rolls(w)))
        /\ modified' = IF Rolls(w) \/ stream = "null" THEN now ELSE modified
    BY <2>1, FilesAppend DEF TypeInv, FileInv, Writes
  <2>3. ASSUME NEW x \in Sessions, live[x] # None, now - Born(x) <= RollTime PROVE Held(x)'
    <3>0. Born(x) \in Nat /\ Born(x) <= now /\ now \in Nat /\ modified \in Nat /\ Born(x)' = Born(x)
      BY <1>1, <2>3, BornNumber DEF TypeInv, Born
    <3>1. Held(x)
      BY <1>3, <2>3 DEF RecentInv
    <3>2. CASE Pending(w, x)
      <4>1. PICK l : l = Line(w)
        OBVIOUS
      <4>2. l.cmd = "CREATE" /\ l.id = x /\ Born(x) <= l.time /\ l \in ToSet(A)'
        BY <1>1, <2>2, <3>2, <4>1 DEF Pending, Line
      <4>3. OnDisk(x, l)'
        BY <1>1, <2>1, <3>0, <4>2 DEF OnDisk
      <4> QED
        BY <4>3 DEF Held
    <3>3. ASSUME NEW v \in Requests, v # w, Pending(v, x) PROVE Held(x)'
      <4>1. Pending(v, x)'
        BY <1>1, <3>0, <3>3 DEF Pending, TypeInv
      <4> QED
        BY <4>1 DEF Held
    <3>4. ASSUME NEW e, OnDisk(x, e) PROVE Held(x)'
      <4>1. stream = "open" /\ e.cmd = "CREATE" /\ e.id = x /\ Born(x) <= e.time
        BY <3>4 DEF OnDisk
      <4>2. CASE ~Rolls(w)
        <5>1. e \in ToSet(A)' \/ (e \in ToSet(B)' /\ modified' = modified /\ Born(x) <= modified)
          BY <2>2, <3>4, <4>1, <4>2 DEF OnDisk, Opened, Backup
        <5>2. OnDisk(x, e)'
          BY <1>1, <2>1, <3>0, <4>1, <5>1 DEF OnDisk
        <5> QED
          BY <5>2 DEF Held
      <4>3. CASE Rolls(w)
        <5>1. work[w].time - modified > RollTime /\ work[w].time \in Nat /\ work[w].time <= now /\ RollTime \in Nat
          BY <1>1, <4>3 DEF Rolls, RollsOver, TypeInv, Stages, Idle, JournalAssumption
        <5>2. ~(Born(x) <= modified)
          BY <2>3, <3>0, <5>1
        <5>3. e \in ToSet(B)' /\ Born(x) <= modified'
          BY <2>2, <3>0, <3>4, <4>3, <5>2 DEF OnDisk, Backup
        <5>4. OnDisk(x, e)'
          BY <1>1, <2>1, <3>0, <4>1, <5>3 DEF OnDisk
        <5> QED
          BY <5>4 DEF Held
      <4> QED
        BY <4>2, <4>3
    <3> QED
      BY <3>1, <3>2, <3>3, <3>4 DEF Held
  <2>4. \A x \in Sessions : Born(x)' = Born(x)
    BY <1>1 DEF Born
  <2> QED
    BY <1>1, <2>1, <2>3, <2>4 DEF RecentInv
<1> QED
  BY <1>2, <1>3

LEMMA RecentInit == JournalAssumption /\ Init => RecentInv
  BY DEF Init, RecentInv

\* Every step keeps the young sessions held.
LEMMA RecentStep == JournalAssumption /\ TypeInv /\ RecentInv /\ [Next]_vars => RecentInv'
<1> SUFFICES ASSUME JournalAssumption, TypeInv, RecentInv, [Next]_vars PROVE RecentInv'
  OBVIOUS
<1>1. ASSUME NEW w \in Requests, NEW o \in Objects,
             \/ \E x \in Sessions : Create(w, x, o)
             \/ \E r \in recover : Recover(w, r, o)
             \/ \E g \in Agents : AddAgent(w, o, g) \/ RemoveAgent(w, o, g)
             \/ \E k \in Attrs : SetAttribute(w, o, k) \/ RemoveAttribute(w, o, k)
      PROVE  RecentInv'
  BY <1>1, ObjectRecent
<1>2. ASSUME NEW w \in Requests,
             \/ \E x \in Sessions : Expire(w, x)
             \/ Store(w) \/ Clear(w) \/ Check(w)
      PROVE  RecentInv'
  BY <1>2, StageRecent
<1>3. ASSUME NEW w \in Requests, Stamp(w) \/ AppendEntry(w) PROVE RecentInv'
  BY <1>3, StampRecent, AppendRecent
<1>5. CASE Dump \/ Tick \/ UNCHANGED vars
  <2>1. /\ UNCHANGED <<phase, object, live, work, A, B, stream, modified>>
        /\ now <= now' /\ now \in Nat /\ now' \in Nat
    BY <1>5 DEF Dump, Tick, vars, disk, TypeInv
  <2>2. ASSUME NEW x \in Sessions PROVE Born(x)' = Born(x) /\ (Held(x) => Held(x)')
    BY <2>1 DEF Born, Held, Pending, OnDisk
  <2>3. ASSUME NEW x \in Sessions, live[x] # None, now' - Born(x) <= RollTime
        PROVE  now - Born(x) <= RollTime
    <3>1. Born(x) \in Nat
      BY <2>3, BornNumber
    <3> QED
      BY <2>1, <2>3, <3>1 DEF JournalAssumption
  <2> QED
    BY <2>1, <2>2, <2>3 DEF RecentInv
<1>6. CASE Stop \/ End
  BY <1>6 DEF Stop, End, RecentInv
<1>7. CASE Start
  BY <1>7 DEF Start, RecentInv, TypeInv
<1> QED
  BY <1>1, <1>2, <1>3, <1>5, <1>6, <1>7 DEF Next

\* Only EXPIRE and CLEAR take a session away.
LEMMA ReplayKeeps ==
  ASSUME JournalAssumption, NEW s \in Stores, NEW e, Carries(e), NEW x \in Sessions,
         e.cmd # "CLEAR", e.id = x => e.cmd # "EXPIRE",
         s[x] # None \/ (e.cmd = "CREATE" /\ e.id = x)
  PROVE  Replayed(s, e)[x] # None
<1>1. s \in [Sessions -> Contents \cup {None}] /\ None \notin Contents /\ e.id \in Sessions
  BY DEF Stores, Carries, JournalAssumption
<1>2. CASE e.cmd = "CREATE"
  BY <1>1, <1>2 DEF Replayed, Carries
<1>3. CASE e.cmd = "EXPIRE"
  BY <1>1, <1>3 DEF Replayed
<1>4. CASE e.cmd \in {"ADD", "REMOVE", "SET", "DEL"}
  <2>1. CASE s[e.id] = None
    BY <1>4, <2>1 DEF Replayed
  <2>2. CASE s[e.id] # None
    <3>1. s[e.id] \in Contents
      BY <1>1, <2>2
    <3>2. ASSUME NEW o \in Contents, Replayed(s, e) = [s EXCEPT ![e.id] = o]
          PROVE  Replayed(s, e)[x] # None
      BY <1>1, <1>4, <3>2
    <3>3. CASE e.cmd = "ADD"
      <4>1. Replayed(s, e) = [s EXCEPT ![e.id] = [s[e.id] EXCEPT !.agents = @ \cup {e.data}]]
        BY <2>2, <3>3 DEF Replayed
      <4>2. [s[e.id] EXCEPT !.agents = @ \cup {e.data}] \in Contents
        BY <3>1, <3>3 DEF Contents, Carries
      <4> QED
        BY <3>2, <4>1, <4>2
    <3>4. CASE e.cmd \in {"REMOVE", "DEL"}
      <4>1. Replayed(s, e) = [s EXCEPT ![e.id] = [s[e.id] EXCEPT !.agents = @ \ {e.data}]]
        BY <2>2, <3>4 DEF Replayed
      <4>2. [s[e.id] EXCEPT !.agents = @ \ {e.data}] \in Contents
        BY <3>1 DEF Contents
      <4> QED
        BY <3>2, <4>1, <4>2
    <3>5. CASE e.cmd = "SET"
      <4>1. Replayed(s, e) = [s EXCEPT ![e.id] = [s[e.id] EXCEPT !.attrs = @ \cup {e.data}]]
        BY <2>2, <3>5 DEF Replayed
      <4>2. [s[e.id] EXCEPT !.attrs = @ \cup {e.data}] \in Contents
        BY <3>1, <3>5 DEF Contents, Carries
      <4> QED
        BY <3>2, <4>1, <4>2
    <3> QED
      BY <1>4, <3>3, <3>4, <3>5
  <2> QED
    BY <2>1, <2>2
<1> QED
  BY <1>2, <1>3, <1>4 DEF Carries, Commands, Changes

\* A session is there from the replay of its creation on.
LEMMA ReplayFinds ==
  ASSUME JournalAssumption, TypeInv, NEW x \in Sessions, NEW e \in InTime(B) \cup InTime(A),
         e.cmd = "CREATE", e.id = x,
         \A l \in ToSet(A) \cup ToSet(B) : l.cmd # "CLEAR" /\ (l.id = x => l.cmd # "EXPIRE"),
         NEW found \in Recoverable
  PROVE  found[x] # None
<1>1. PICK n, order, h : ReplayOf(found, n, order, h)
  BY ReplayFacts DEF TypeInv, FileInv
<1>2. /\ n \in Nat /\ order \in [1 .. n -> InTime(B) \cup InTime(A)]
      /\ History(h, DumpRead, order, n) /\ found = h[n]
      /\ order \in ReplayOrders
  BY <1>1 DEF ReplayOf
<1>3. PICK i \in 1 .. n : order[i] = e
  <2>1. order \in Surjection(1 .. n, InTime(B) \cup InTime(A))
    BY <1>1 DEF ReplayOf
  <2> QED
    BY <2>1 DEF Surjection
<1> DEFINE P == {k \in Nat : i <= k => h[k][x] # None}
<1>4. 0 \in P
  OBVIOUS
<1>5. ASSUME NEW k \in 1 .. n, k - 1 \in P PROVE k \in P
  <2>1. SUFFICES ASSUME i <= k PROVE h[k][x] # None
    OBVIOUS
  <2>2. h[k] = Replayed(h[k - 1], order[k]) /\ k - 1 \in 0 .. n
    BY <1>2 DEF History
  <2>3. h[k - 1] \in Stores
    BY <1>2, <2>2, HistoryStores
  <2>4. order[k] \in ToSet(A) \cup ToSet(B)
    BY <1>2 DEF InTime
  <2>5. Carries(order[k]) /\ order[k].cmd # "CLEAR" /\ (order[k].id = x => order[k].cmd # "EXPIRE")
    BY <2>4 DEF TypeInv, FileInv, Written
  <2>6. h[k - 1][x] # None \/ (order[k].cmd = "CREATE" /\ order[k].id = x)
    BY <1>3, <1>5, <2>1
  <2> QED
    BY <2>2, <2>3, <2>5, <2>6, ReplayKeeps
<1> HIDE DEF P
<1>6. \A k \in 0 .. n : k \in P
  <2>1. P \in SUBSET Nat
    BY DEF P
  <2> QED
    BY <1>2, <1>4, <1>5, <2>1, Induct
<1> QED
  BY <1>2, <1>3, <1>6 DEF P

\* The two files in a row hold the entries of both.
LEMMA KeptSet ==
  ASSUME Files
  PROVE  ToSet(Kept) = ToSet(A) \cup ToSet(B)
<1>1. PICK S : A \in Seq(S) /\ B \in Seq(S)
  BY DEF Files
<1>2. /\ DOMAIN Kept = 1 .. Len(B) + Len(A) /\ DOMAIN A = 1 .. Len(A) /\ DOMAIN B = 1 .. Len(B)
      /\ Len(A) \in Nat /\ Len(B) \in Nat
      /\ \A i \in 1 .. Len(B) : Kept[i] = B[i]
      /\ \A i \in 1 .. Len(A) : Kept[Len(B) + i] = A[i]
  BY <1>1 DEF Kept
<1>3. ASSUME NEW i \in DOMAIN Kept PROVE Kept[i] \in ToSet(A) \cup ToSet(B)
  <2>1. CASE i <= Len(B)
    BY <1>2, <2>1 DEF ToSet
  <2>2. CASE i > Len(B)
    <3>1. i - Len(B) \in 1 .. Len(A) /\ Len(B) + (i - Len(B)) = i
      BY <1>2, <2>2
    <3> QED
      BY <1>2, <3>1 DEF ToSet
  <2> QED
    BY <1>2, <2>1, <2>2
<1>4. ASSUME NEW i \in DOMAIN A PROVE A[i] \in ToSet(Kept)
  BY <1>2 DEF ToSet
<1>5. ASSUME NEW i \in DOMAIN B PROVE B[i] \in ToSet(Kept)
  BY <1>2 DEF ToSet
<1> QED
  BY <1>3, <1>4, <1>5 DEF ToSet

LEMMA RecentImplies ==
  ASSUME JournalAssumption, RollTime < SessionTime, TypeInv, RecentInv
  PROVE  RecentRecovered
<1> SUFFICES ASSUME phase = "up", NEW x \in Sessions, live[x] # None,
                    \A e \in ToSet(Kept) : e.cmd # "CLEAR" /\ (e.id = x => e.cmd # "EXPIRE"),
                    now - Current(x).born <= RollTime,
                    \A w \in Requests : work[w].at # "idle" => work[w].task.id # x,
                    NEW found \in Recoverable
             PROVE  found[x] # None
  BY DEF RecentRecovered
<1>0. now - Born(x) <= RollTime /\ \A w \in Requests : ~Pending(w, x)
  BY DEF Born, Current, Pending
<1>1. PICK e : OnDisk(x, e)
  BY <1>0 DEF RecentInv, Held, Pending
<1>2. e \in ToSet(A) \cup ToSet(B) /\ e.cmd = "CREATE" /\ e.id = x /\ Born(x) <= e.time
  BY <1>1 DEF OnDisk
<1>3. /\ Born(x) \in Nat /\ now \in Nat /\ RollTime \in Nat /\ SessionTime \in Nat
      /\ e.time \in Nat
  BY <1>2, BornNumber DEF TypeInv, FileInv, JournalAssumption, Written
<1>4. e \in InTime(B) \cup InTime(A)
  BY <1>0, <1>2, <1>3 DEF InTime
<1>5. ToSet(Kept) = ToSet(A) \cup ToSet(B)
  BY KeptSet DEF TypeInv, FileInv
<1> QED
  BY <1>2, <1>4, <1>5, ReplayFinds

\* If files roll over earlier than sessions end: a session that is not older than RollTime and
\* that no request is about to journal is found by a replay at any moment, unless an entry
\* on disk expires or clears it; for any number of requests that are journaled at once, out of
\* the order of their times, through rollovers, stops, crashes and restarts.
THEOREM RecentSessionsRecovered == RollTime < SessionTime => (Spec => []RecentRecovered)
<1> SUFFICES ASSUME RollTime < SessionTime PROVE Spec => []RecentRecovered
  OBVIOUS
<1>1. Init => TypeInv /\ RecentInv
  BY JournalAssumption, TypeInit, RecentInit
<1>2. TypeInv /\ RecentInv /\ [Next]_vars => TypeInv' /\ RecentInv'
  BY JournalAssumption, TypeStep, RecentStep
<1>3. TypeInv /\ RecentInv => RecentRecovered
  BY JournalAssumption, RecentImplies
<1> QED
  BY <1>1, <1>2, <1>3, PTL DEF Spec

=============================================================================
