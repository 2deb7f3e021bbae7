--------------------------- MODULE LedgerSessions ---------------------------
(***************************************************************************)
(* ActionRepository seen from its database sessions.  A session keeps the  *)
(* state of every action it has loaded (the ORM's identity map): because   *)
(* the sessions are made with expire_on_commit=False and no query asks for *)
(* populate_existing, reading a row again, SELECT ... FOR UPDATE included, *)
(* does not refresh what is already loaded.  transition_action decides and *)
(* writes from that loaded state, under the row lock it has just taken.    *)
(***************************************************************************)
EXTENDS Ledger

CONSTANTS
  Session,      \* database sessions, one per request (get_db)
  Calls,        \* the [from, to, kind] arguments given to transition_action
  Discipline,   \* Discipline[k]: which sessions transition the action k
  MaxEvents     \* bound: no transition is asked of a trail of this length

ASSUME CallsAssumption ==
  Calls \subseteq [from : ActionState \cup {NoState}, to : ActionState,
                   kind : OutboxKind \cup {NoKind}]

(* "owner": only the session that recorded the action, as router.py does   *)
(* "fresh": only a session that has not loaded the action yet              *)
(* "any"  : any session                                                    *)
ASSUME DisciplineAssumption == Discipline \in [Key -> {"owner", "fresh", "any"}]

ASSUME MaxEventsAssumption == MaxEvents \in Nat

ASSUME NobodyAssumption == "nobody" \notin Session /\ "no key" \notin Key

VARIABLES
  loaded,   \* loaded[s][k]: the state of k in the identity map of s
  recorded, \* recorded[s]: the keys s was given by create_action as new
  lock,     \* lock[k]: the session whose transaction holds the row's lock
  call      \* call[s]: the repository call s is in, with its arguments

sessionVars == <<loaded, recorded, lock, call>>
vars == <<rows, events, outbox, loaded, recorded, lock, call>>

Unloaded == "not loaded"
Nobody == "nobody"
Op == {"idle", "insert", "refetch", "select", "write", "failed"}
NoArgs == [from |-> NoState, to |-> "RECEIVED", kind |-> NoKind]
NoKey == "no key"
AtRest(op) == [op |-> op, key |-> NoKey, args |-> NoArgs]

SessionsTypeOK ==
  /\ LedgerTypeOK
  /\ loaded \in [Session -> [Key -> ActionState \cup {Unloaded}]]
  /\ recorded \in [Session -> SUBSET Key]
  /\ lock \in [Key -> Session \cup {Nobody}]
  /\ call \in [Session -> [op : Op, key : Key \cup {NoKey},
                          args : Calls \cup {NoArgs}]]

Init ==
  /\ LedgerInit
  /\ loaded = [s \in Session |-> [k \in Key |-> Unloaded]]
  /\ recorded = [s \in Session |-> {}]
  /\ lock = [k \in Key |-> Nobody]
  /\ call = [s \in Session |-> AtRest("idle")]

-----------------------------------------------------------------------------
In(s, op) == call[s].op = op

Goto(s, op) == call' = [call EXCEPT ![s].op = op]

Return(s, op) == call' = [call EXCEPT ![s] = AtRest(op)]

(* A query that returns k's row leaves an action already loaded as it is.  *)
Load(s, k) ==
  loaded' = [loaded EXCEPT ![s][k] = IF @ = Unloaded THEN rows[k] ELSE @]

MayTransition(s, k) ==
  \/ Discipline[k] = "any"
  \/ Discipline[k] = "owner" /\ k \in recorded[s]
  \/ Discipline[k] = "fresh" /\ loaded[s][k] = Unloaded

-----------------------------------------------------------------------------
(* create_action: an action that is there is returned as deduplicated.     *)
CreateLookup(s, k) ==
  /\ In(s, "idle")
  /\ \/ /\ rows[k] # NoRow
        /\ Load(s, k)
        /\ UNCHANGED call
     \/ /\ rows[k] = NoRow
        /\ call' = [call EXCEPT ![s] = [op |-> "insert", key |-> k, args |-> NoArgs]]
        /\ UNCHANGED loaded
  /\ UNCHANGED <<rows, events, outbox, recorded, lock>>

(* The insert commits, or meets the unique index; the rollback that        *)
(* follows expires everything the session had loaded.                      *)
CreateInsert(s) ==
  LET k == call[s].key IN
  /\ In(s, "insert")
  /\ \/ /\ InsertAction(k)
        /\ loaded' = [loaded EXCEPT ![s][k] = "RECEIVED"]
        /\ recorded' = [recorded EXCEPT ![s] = @ \cup {k}]
        /\ Return(s, "idle")
     \/ /\ rows[k] # NoRow
        /\ loaded' = [loaded EXCEPT ![s] = [j \in Key |-> Unloaded]]
        /\ Goto(s, "refetch")
        /\ UNCHANGED <<rows, events, outbox, recorded>>
  /\ UNCHANGED lock

(* After the conflict the other session's row is fetched; the              *)
(* IntegrityError is raised again if it is not there.                      *)
CreateRefetch(s) ==
  LET k == call[s].key IN
  /\ In(s, "refetch")
  /\ IF rows[k] = NoRow
     THEN Return(s, "failed") /\ UNCHANGED loaded
     ELSE Return(s, "idle") /\ Load(s, k)
  /\ UNCHANGED <<rows, events, outbox, recorded, lock>>

(* get_action and get_action_by_key.                                       *)
GetAction(s, k) ==
  /\ In(s, "idle")
  /\ rows[k] # NoRow
  /\ Load(s, k)
  /\ UNCHANGED <<rows, events, outbox, recorded, lock, call>>

(* A caller asks for a transition of k.                                    *)
TransitionCall(s, k, args) ==
  /\ In(s, "idle")
  /\ MayTransition(s, k)
  /\ Len(events[k]) < MaxEvents
  /\ call' = [call EXCEPT ![s] = [op |-> "select", key |-> k, args |-> args]]
  /\ UNCHANGED <<rows, events, outbox, loaded, recorded, lock>>

(* Mutant of TransitionSelect: without FOR UPDATE.                         *)
SelectWithoutLock(s) ==
  LET k == call[s].key IN
  /\ In(s, "select")
  /\ IF rows[k] = NoRow
     THEN Return(s, "failed") /\ UNCHANGED loaded
     ELSE Load(s, k) /\ Goto(s, "write")
  /\ UNCHANGED <<rows, events, outbox, recorded, lock>>

(* Mutant of TransitionSelect: an action that is not there is not noticed. *)
SelectUnchecked(s) ==
  LET k == call[s].key IN
  /\ In(s, "select")
  /\ lock[k] = Nobody
  /\ lock' = [lock EXCEPT ![k] = s]
  /\ Load(s, k)
  /\ Goto(s, "write")
  /\ UNCHANGED <<rows, events, outbox, recorded>>

(* SELECT ... FOR UPDATE waits for the row lock; an id without a row is    *)
(* ActionNotFoundError.                                                    *)
TransitionSelect(s) ==
  LET k == call[s].key IN
  /\ In(s, "select")
  /\ lock[k] = Nobody
  /\ IF rows[k] = NoRow
     THEN Return(s, "failed") /\ UNCHANGED <<loaded, lock>>
     ELSE /\ lock' = [lock EXCEPT ![k] = s]
          /\ Load(s, k)
          /\ Goto(s, "write")
  /\ UNCHANGED <<rows, events, outbox, recorded>>

(* The checks on the loaded state, then the state, the event and the       *)
(* outbox entry in one commit, which also gives the row lock back.         *)
Commit(s) ==
  LET k == call[s].key  a == call[s].args IN
  /\ In(s, "write")
  /\ TransitionAllowed(loaded[s][k], a.from, a.to)
  /\ WriteTransition(k, loaded[s][k], a.to, a.kind)
  /\ loaded' = [loaded EXCEPT ![s][k] = a.to]
  /\ lock' = [lock EXCEPT ![k] = Nobody]

TransitionWrite(s) ==
  /\ Commit(s)
  /\ Return(s, "idle")
  /\ UNCHANGED recorded

(* StateMismatchError or IllegalTransitionError: the transaction, and with *)
(* it the row lock, stays open until the session is closed.                *)
TransitionRefused(s) ==
  LET a == call[s].args IN
  /\ In(s, "write")
  /\ ~ TransitionAllowed(loaded[s][call[s].key], a.from, a.to)
  /\ Return(s, "failed")
  /\ UNCHANGED <<rows, events, outbox, loaded, recorded, lock>>

(* The connection is lost during a commit or a query: the transaction is   *)
(* not there ...                                                           *)
DatabaseFails(s) ==
  /\ call[s].op \in {"insert", "refetch", "select", "write"}
  /\ Return(s, "failed")
  /\ UNCHANGED <<rows, events, outbox, loaded, recorded, lock>>

(* ... or it is, and the session does not learn of it; a refresh that      *)
(* fails after the commit ends the same way.                               *)
CommitUnacknowledged(s) ==
  /\ \/ /\ In(s, "insert")
        /\ InsertAction(call[s].key)
        /\ UNCHANGED <<loaded, lock>>
     \/ Commit(s)
  /\ Return(s, "failed")
  /\ UNCHANGED recorded

(* Mutant of Close: the session is not rolled back.                        *)
CloseWithoutRollback(s) ==
  /\ call[s].op \in {"idle", "failed"}
  /\ loaded' = [loaded EXCEPT ![s] = [k \in Key |-> Unloaded]]
  /\ recorded' = [recorded EXCEPT ![s] = {}]
  /\ Return(s, "idle")
  /\ UNCHANGED <<rows, events, outbox, lock>>

(* get_db: roll back, which releases the lock, and forget what was loaded. *)
Close(s) ==
  /\ call[s].op \in {"idle", "failed"}
  /\ lock' = [k \in Key |-> IF lock[k] = s THEN Nobody ELSE lock[k]]
  /\ loaded' = [loaded EXCEPT ![s] = [k \in Key |-> Unloaded]]
  /\ recorded' = [recorded EXCEPT ![s] = {}]
  /\ Return(s, "idle")
  /\ UNCHANGED <<rows, events, outbox>>

SessionStep(s) ==
  \/ \E k \in Key : CreateLookup(s, k) \/ GetAction(s, k)
  \/ \E k \in Key, args \in Calls : TransitionCall(s, k, args)
  \/ CreateInsert(s) \/ CreateRefetch(s)
  \/ TransitionSelect(s) \/ TransitionWrite(s) \/ TransitionRefused(s)
  \/ DatabaseFails(s) \/ CommitUnacknowledged(s)
  \/ Close(s)

Next == \E s \in Session : SessionStep(s)

(* A coroutine that can run does run; a session waiting for a row lock     *)
(* gets it eventually, since PostgreSQL queues the waiters; the exception  *)
(* of a failed call reaches get_db, which closes the session.              *)
Fairness ==
  \A s \in Session :
    /\ WF_vars(CreateInsert(s)) /\ WF_vars(CreateRefetch(s))
    /\ SF_vars(TransitionSelect(s))
    /\ WF_vars(TransitionWrite(s)) /\ WF_vars(TransitionRefused(s))
    /\ WF_vars(In(s, "failed") /\ Close(s))

Spec == Init /\ [][Next]_vars /\ Fairness

-----------------------------------------------------------------------------
(* LockedStateIsCurrent: what a session is about to decide a transition on *)
(* is the state in the database, although nothing refreshes it; this is    *)
(* what the FOR UPDATE lock of transition_action is for.                   *)
LockedStateIsCurrent ==
  \A s \in Session : In(s, "write") => loaded[s][call[s].key] = rows[call[s].key]

(* EveryCallReturns: no repository call waits for ever, neither for a row  *)
(* lock another session left behind when it failed nor for one that others *)
(* keep taking.                                                            *)
EveryCallReturns ==
  \A s \in Session : ~ In(s, "idle") ~> In(s, "idle")

(* TerminalStatesFinal: an action in a terminal state stays in it, and     *)
(* nothing is ever queued for it again (state_machine.py: "Terminal states *)
(* cannot transition to any other state"), whichever sessions still hold   *)
(* an older state of it.                                                   *)
TerminalStatesFinal ==
  [][\A k \in Key : rows[k] \in TERMINAL_STATES =>
       UNCHANGED <<rows[k], events[k], outbox[k]>>]_vars

(* SessionsAreAtomic: however the sessions' queries interleave, whichever  *)
(* of them lose their connection, and although each decides on a state it  *)
(* loaded earlier, every commit is one legal step of the ledger from the   *)
(* state that ledger is in: the promise the router is written against.     *)
Atomic == INSTANCE AtomicLedger

SessionsAreAtomic == Atomic!LedgerSpec

=============================================================================
