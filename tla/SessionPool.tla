---------------------------- MODULE SessionPool ----------------------------
(***************************************************************************)
(* The connection pool under the requests (database.py, repository.py,     *)
(* router.py).  A session takes a connection at its first query and gives  *)
(* it back at a commit, a rollback or its close.  The repository refreshes *)
(* what it has just committed, which takes a connection again, and the     *)
(* request keeps that one while the downstream system is called and while  *)
(* the order is read back.                                                 *)
(***************************************************************************)
EXTENDS Intents, Naturals, FiniteSets

CONSTANTS
  Request,     \* the requests served at one time
  PoolSize     \* connections there can be: pool_size + max_overflow

ASSUME PoolSizeAssumption == PoolSize \in Nat \ {0}

ASSUME RequestAssumption == IsFiniteSet(Request)

VARIABLES
  at,          \* at[r]: what r is to do next
  key,         \* key[r]: the key r is for; meaningless when r is idle
  holds,       \* holds[r]: r has a connection
  committed,   \* the keys with an action in the ledger
  sent         \* sent[r]: r has called the downstream system

poolVars == <<at, key, holds, committed, sent>>

(* Where the next thing is a query.  Only what follows a commit or a       *)
(* rollback, or the first query, finds the session without a connection.   *)
Querying == {"lookup", "insert", "inserted", "refetch", "recorded",
             "execute", "executed", "settle", "settled"}
Calling == {"calling", "reading"}
Closing == {"answering", "refused", "errored"}

PoolTypeOK ==
  /\ at \in [Request -> {"idle"} \cup Querying \cup Calling \cup Closing]
  /\ key \in [Request -> Key]
  /\ holds \in [Request -> BOOLEAN]
  /\ committed \subseteq Key
  /\ sent \in [Request -> BOOLEAN]

PoolInit ==
  /\ at = [r \in Request |-> "idle"]
  /\ key \in [Request -> Key]
  /\ holds = [r \in Request |-> FALSE]
  /\ committed = {}
  /\ sent = [r \in Request |-> FALSE]

-----------------------------------------------------------------------------
Holders == {r \in Request : holds[r]}

MoveTo(r, stage) == at' = [at EXCEPT ![r] = stage]
GiveBack(r) == holds' = [holds EXCEPT ![r] = FALSE]

Arrive(r, k) ==
  /\ at[r] = "idle"
  /\ MoveTo(r, "lookup")
  /\ key' = [key EXCEPT ![r] = k]
  /\ UNCHANGED <<holds, committed, sent>>

Acquire(r) ==
  /\ at[r] \in Querying /\ ~ holds[r]
  /\ Cardinality(Holders) < PoolSize
  /\ holds' = [holds EXCEPT ![r] = TRUE]
  /\ UNCHANGED <<at, key, committed, sent>>

(* Mutant of AnswerTo: the pool's timeout is treated as a DBAPIError is.   *)
AnswerAsUnavailable(stage) == "refused"

(* create_action turns any exception into 503; a transition does not, and  *)
(* the pool's TimeoutError is none of the exceptions app.py handles.       *)
AnswerTo(stage) ==
  IF stage \in {"lookup", "insert", "inserted", "refetch", "recorded"}
  THEN "refused" ELSE "errored"

(* No connection became free within pool_timeout.                          *)
TimedOut(r) ==
  /\ at[r] \in Querying /\ ~ holds[r]
  /\ Cardinality(Holders) >= PoolSize
  /\ MoveTo(r, AnswerTo(at[r]))
  /\ UNCHANGED <<key, holds, committed, sent>>

-----------------------------------------------------------------------------
(* create_action: the lookup by key ...                                    *)
Lookup(r) ==
  /\ at[r] = "lookup" /\ holds[r]
  /\ MoveTo(r, IF key[r] \in committed THEN "answering" ELSE "insert")
  /\ UNCHANGED <<key, holds, committed, sent>>

(* ... the INSERT, which waits while another transaction holds the same    *)
(* key in the unique index, and meets IntegrityError if that one commits   *)
(* ...                                                                     *)
Insert(r) ==
  /\ at[r] = "insert" /\ holds[r]
  /\ \A q \in Request : at[q] = "inserted" => key[q] # key[r]
  /\ \/ /\ key[r] \notin committed
        /\ MoveTo(r, "inserted")
        /\ UNCHANGED holds
     \/ /\ key[r] \in committed
        /\ MoveTo(r, "refetch")
        /\ GiveBack(r)
  /\ UNCHANGED <<key, committed, sent>>

(* Mutant of CommitInsert: what was inserted is not refreshed.             *)
CommitInsertOnly(r) ==
  /\ at[r] = "inserted" /\ holds[r]
  /\ committed' = committed \cup {key[r]}
  /\ MoveTo(r, "calling")
  /\ GiveBack(r)
  /\ sent' = [sent EXCEPT ![r] = TRUE]
  /\ UNCHANGED key

(* ... the commit ...                                                      *)
CommitInsert(r) ==
  /\ at[r] = "inserted" /\ holds[r]
  /\ committed' = committed \cup {key[r]}
  /\ MoveTo(r, "recorded")
  /\ GiveBack(r)
  /\ UNCHANGED <<key, sent>>

(* ... or, after a conflict, the action the other session recorded.        *)
Refetch(r) ==
  /\ at[r] = "refetch" /\ holds[r]
  /\ MoveTo(r, "answering")
  /\ UNCHANGED <<key, holds, committed, sent>>

(* The refresh of the new action; the handler goes on to the call.         *)
RefreshRecorded(r) ==
  /\ at[r] = "recorded" /\ holds[r]
  /\ MoveTo(r, "calling")
  /\ sent' = [sent EXCEPT ![r] = TRUE]
  /\ UNCHANGED <<key, holds, committed>>

(* The call returns or times out: definite success is recorded as EXECUTED *)
(* and read back, anything else settles the action.                        *)
CallReturns(r) ==
  /\ at[r] = "calling"
  /\ \E stage \in {"execute", "settle"} : MoveTo(r, stage)
  /\ UNCHANGED <<key, holds, committed, sent>>

ReadReturns(r) ==
  /\ at[r] = "reading"
  /\ MoveTo(r, "settle")
  /\ UNCHANGED <<key, holds, committed, sent>>

(* transition_action up to its commit.  Only the request that recorded an  *)
(* action transitions it, so no one else locks the row.                    *)
CommitTransition(r) ==
  /\ at[r] \in {"execute", "settle"} /\ holds[r]
  /\ MoveTo(r, IF at[r] = "execute" THEN "executed" ELSE "settled")
  /\ GiveBack(r)
  /\ UNCHANGED <<key, committed, sent>>

(* ... and its refresh.                                                    *)
RefreshTransition(r) ==
  /\ at[r] \in {"executed", "settled"} /\ holds[r]
  /\ MoveTo(r, IF at[r] = "executed" THEN "reading" ELSE "answering")
  /\ UNCHANGED <<key, holds, committed, sent>>

(* Mutant of CloseSession: the session is left open.                       *)
CloseNothing(r) ==
  /\ at[r] \in Closing
  /\ MoveTo(r, "idle")
  /\ sent' = [sent EXCEPT ![r] = FALSE]
  /\ UNCHANGED <<key, holds, committed>>

(* get_db closes the session when the request ends.                        *)
CloseSession(r) ==
  /\ at[r] \in Closing
  /\ MoveTo(r, "idle")
  /\ GiveBack(r)
  /\ sent' = [sent EXCEPT ![r] = FALSE]
  /\ UNCHANGED <<key, committed>>

Progress(r) ==
  \/ Lookup(r) \/ Insert(r) \/ CommitInsert(r) \/ Refetch(r)
  \/ RefreshRecorded(r) \/ CallReturns(r) \/ ReadReturns(r)
  \/ CommitTransition(r) \/ RefreshTransition(r) \/ CloseSession(r)

PoolNext ==
  \E r \in Request :
    \/ \E k \in Key : Arrive(r, k)
    \/ Acquire(r) \/ TimedOut(r) \/ Progress(r)

(* The pool hands its connections out in the order they were asked for; a  *)
(* coroutine that can go on does, the calls having timeouts; PostgreSQL    *)
(* lets a blocked INSERT go on.  Nothing is assumed of pool timeouts.      *)
PoolFairness ==
  \A r \in Request : SF_poolVars(Acquire(r)) /\ WF_poolVars(Progress(r))

PoolSpec == PoolInit /\ [][PoolNext]_poolVars /\ PoolFairness

-----------------------------------------------------------------------------
(* RefusedMeansNotSent: a request that is told 503 "execution blocked"     *)
(* because the pool had no connection for it has called nothing, at        *)
(* whichever query it gave up waiting.                                     *)
RefusedMeansNotSent == \A r \in Request : at[r] = "refused" => ~ sent[r]

(* CallsHoldConnections: a request in a downstream call or in the read     *)
(* back keeps a connection, so no more of them are ever under way than the *)
(* pool has; the pool, not the downstream system, is the limit.            *)
InFlight == {r \in Request : at[r] \in Calling}

CallsHoldConnections ==
  Cardinality(InFlight) <= Cardinality(Holders) /\ Cardinality(Holders) <= PoolSize

(* EveryRequestCloses: no request waits for ever, for a connection others  *)
(* hold or for an INSERT another began, although each gives its connection *)
(* up and asks for one again up to three times and no timeout is relied on. *)
EveryRequestCloses == \A r \in Request : at[r] # "idle" ~> at[r] = "idle"

=============================================================================
