---------------------------- MODULE SessionStore ----------------------------
(***************************************************************************)
(* What the session repository promises, however many threads change it.   *)
(* Sessions are found by id and by user.  The view by id changes at once;  *)
(* the change of the view by user that goes with it happens at one moment  *)
(* before the operation returns, and changes nothing else.                 *)
(*                                                                         *)
(* There is no such promise for the users in `torn'.  A user gets there    *)
(* only if two operations about the user's sessions overlap while the view *)
(* by user is empty, or if one overlaps a clear.                           *)
(***************************************************************************)
CONSTANTS Sessions, Users, UserOf, Workers, Null

VARIABLES byId,    \* the sessions that get(id) finds
          byUser,  \* the sessions that getBy(user) finds, for each user
          doing,   \* the operation of a worker that has not returned
          torn     \* the users whose view may be wrong

vars == <<byId, byUser, doing, torn>>

Owned(u) == {s \in Sessions : UserOf[s] = u}

Idle == [op |-> "none"]
Clearing == [op |-> "clear"]
Update(op, s) == [op |-> op, session |-> s]

Init == /\ byId = {}
        /\ byUser = [u \in Users |-> {}]
        /\ doing = [w \in Workers |-> Idle]
        /\ torn = {}

\* The workers that are about to change the view of user u.
At(u) == {w \in Workers : doing[w].op \in {"put", "remove"} /\ UserOf[doing[w].session] = u}

\* Which users may be torn by an operation about user u that begins, or goes on.
Tears(u) == {v \in {u} : \/ \E w \in Workers : doing[w] = Clearing
                         \/ byUser[v] = {} /\ At(v) # {}}

Begin(w, op, s) ==
  /\ doing[w] = Idle
  /\ IF UserOf[s] = Null
       THEN UNCHANGED <<doing, torn>>
       ELSE /\ doing' = [doing EXCEPT ![w] = Update(op, s)]
            /\ torn' \in {torn, torn \cup Tears(UserOf[s])}
  /\ UNCHANGED byUser

Create(w, s) == s \notin byId /\ byId' = byId \cup {s} /\ Begin(w, "put", s)
Expire(w, s) == s \in byId /\ byId' = byId \ {s} /\ Begin(w, "remove", s)

Clear(w) ==
  /\ doing[w] = Idle
  /\ byId' = {}
  /\ doing' = [doing EXCEPT ![w] = Clearing]
  /\ torn' = torn \cup {u \in Users : At(u) # {}}
  /\ UNCHANGED byUser

\* The view by user, after worker w has put its session into it or removed it.
Shown(w) ==
  LET s == doing[w].session
      u == UserOf[s]
  IN  IF u \in torn
        THEN {[byUser EXCEPT ![u] = some] : some \in SUBSET Owned(u)}
        ELSE {[byUser EXCEPT ![u] = IF doing[w].op = "put" THEN @ \cup {s} ELSE @ \ {s}]}

\* The update takes effect, and may return at once; ...
Settle(w) ==
  /\ doing[w].op \in {"put", "remove"}
  /\ byUser' \in Shown(w)
  /\ doing' \in {doing, [doing EXCEPT ![w] = Idle]}
  /\ UNCHANGED <<byId, torn>>

\* ... or it leaves the user without sessions, and meets another one.
Tear(w) ==
  /\ doing[w].op = "remove"
  /\ LET u == UserOf[doing[w].session]
     IN  byUser[u] = {} /\ At(u) # {w} /\ torn' = torn \cup {u}
  /\ UNCHANGED <<byId, byUser, doing>>

SettleClear(w) ==
  /\ doing[w] = Clearing
  /\ byUser' = [u \in Users |-> {}]
  /\ doing' = [doing EXCEPT ![w] = Idle]
  /\ UNCHANGED <<byId, torn>>

Next == \E w \in Workers :
          \/ Clear(w) \/ Settle(w) \/ Tear(w) \/ SettleClear(w)
          \/ \E s \in Sessions : Create(w, s) \/ Expire(w, s)

Spec == Init /\ [][Next]_vars
=============================================================================
