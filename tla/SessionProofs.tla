---------------------------- MODULE SessionProofs ----------------------------
(***************************************************************************)
(* Theorems about the repository's sessions, for every number of sessions  *)
(* and actions, every set of calls, and callers that keep to one of the    *)
(* two disciplines under which the identity map cannot be stale; and about *)
(* the pool their connections come from, for any number of requests and    *)
(* connections.                                                            *)
(***************************************************************************)
EXTENDS LedgerSessions, LedgerProofs, SessionPool, FiniteSetTheorems, TLAPS

Cautious == \A k \in Key : Discipline[k] \in {"owner", "fresh"}

(***************************************************************************)
(* LockedStateIsCurrent is made inductive by what leads up to it: a call   *)
(* under way has a key, and the call about to write has the lock of a row  *)
(* that is there (CallFits); the session that recorded an action has no    *)
(* stale copy of it (OwnerKnows), being the only one that did (OneOwner);  *)
(* and the session that calls for a lock has a current copy or none        *)
(* (CallerKnows).                                                          *)
(***************************************************************************)
CallFits(s) ==
  /\ call[s].op \in {"insert", "refetch", "select", "write"} => call[s].key \in Key
  /\ call[s].op \in {"select", "write"} => call[s].args \in Calls
  /\ In(s, "write") => lock[call[s].key] = s /\ rows[call[s].key] # NoRow

OwnerKnows(s) ==
  \A k \in recorded[s] :
    /\ rows[k] # NoRow
    /\ Discipline[k] = "owner" => loaded[s][k] \in {Unloaded, rows[k]}

CallerKnows(s) ==
  /\ call[s].op \in {"select", "write"} /\ Discipline[call[s].key] = "owner" =>
       call[s].key \in recorded[s]
  /\ In(s, "select") /\ Discipline[call[s].key] = "fresh" =>
       loaded[s][call[s].key] = Unloaded

WriterKnows(s) ==
  In(s, "write") => loaded[s][call[s].key] = rows[call[s].key]

OneOwner ==
  \A s, t \in Session : \A k \in Key : k \in recorded[s] /\ k \in recorded[t] => s = t

Knows(s) == CallFits(s) /\ OwnerKnows(s) /\ CallerKnows(s) /\ WriterKnows(s)

SessionsInv ==
  /\ SessionsTypeOK
  /\ OneOwner
  /\ \A s \in Session : Knows(s)

LEMMA SessionsInit == Init => SessionsInv /\ AuditChain
<1> SUFFICES ASSUME Init PROVE SessionsInv /\ AuditChain
  OBVIOUS
<1>1. SessionsTypeOK
  <2>1. LedgerTypeOK
    BY DEF Init, LedgerInit, LedgerTypeOK
  <2>2. AtRest("idle") \in [op : Op, key : Key \cup {NoKey}, args : Calls \cup {NoArgs}]
    BY DEF AtRest, Op
  <2> QED BY <2>1, <2>2 DEF Init, SessionsTypeOK
<1>2. OneOwner /\ \A s \in Session : Knows(s)
  BY DEF Init, OneOwner, Knows, CallFits, OwnerKnows, CallerKnows, WriterKnows, AtRest, In
<1>3. AuditChain
  BY DEF Init, LedgerInit, AuditChain
<1> QED BY <1>1, <1>2, <1>3 DEF SessionsInv

-----------------------------------------------------------------------------
(* What a step does to the ledger: nothing, an insertion, or a transition  *)
(* that is legal in the state the row is in.                               *)
Transitioned(k, target, kind) ==
  /\ rows[k] # NoRow
  /\ TransitionAllowed(rows[k], rows[k], target)
  /\ WriteTransition(k, rows[k], target, kind)

LEMMA CommitLemma ==
  ASSUME SessionsInv, NEW s \in Session, Commit(s)
  PROVE  /\ call[s].key \in Key /\ call[s].args \in Calls /\ In(s, "write")
         /\ Transitioned(call[s].key, call[s].args.to, call[s].args.kind)
         /\ loaded' = [loaded EXCEPT ![s][call[s].key] = call[s].args.to]
         /\ lock[call[s].key] = s
         /\ lock' = [lock EXCEPT ![call[s].key] = Nobody]
<1>1. In(s, "write") /\ call[s].key \in Key /\ call[s].args \in Calls
      /\ lock[call[s].key] = s /\ rows[call[s].key] # NoRow
  BY DEF Commit, SessionsInv, Knows, CallFits, In
<1>2. loaded[s][call[s].key] = rows[call[s].key]
  BY <1>1 DEF SessionsInv, Knows, WriterKnows
<1> QED BY <1>1, <1>2 DEF Commit, Transitioned, TransitionAllowed

LEMMA SessionLedgerSteps ==
  ASSUME SessionsInv, [Next]_vars
  PROVE  \/ UNCHANGED ledgerVars
         \/ \E k \in Key : InsertAction(k)
         \/ \E k \in Key, a \in Calls : Transitioned(k, a.to, a.kind)
<1>1. ASSUME NEW s \in Session, In(s, "insert"), InsertAction(call[s].key)
      PROVE  \E k \in Key : InsertAction(k)
  BY <1>1 DEF SessionsInv, Knows, CallFits, In
<1>2. ASSUME NEW s \in Session, Commit(s)
      PROVE  \E k \in Key, a \in Calls : Transitioned(k, a.to, a.kind)
  BY <1>2, CommitLemma
<1>3. ASSUME NEW s \in Session, CreateInsert(s)
      PROVE  UNCHANGED ledgerVars \/ \E k \in Key : InsertAction(k)
  BY <1>1, <1>3 DEF CreateInsert, ledgerVars
<1>4. ASSUME NEW s \in Session,
             \/ \E k \in Key : CreateLookup(s, k) \/ GetAction(s, k)
             \/ \E k \in Key, args \in Calls : TransitionCall(s, k, args)
             \/ CreateRefetch(s) \/ TransitionSelect(s) \/ TransitionRefused(s)
             \/ DatabaseFails(s) \/ Close(s)
      PROVE  UNCHANGED ledgerVars
  BY <1>4 DEF CreateLookup, GetAction, TransitionCall, CreateRefetch, TransitionSelect,
              TransitionRefused, DatabaseFails, Close, ledgerVars
<1>5. ASSUME NEW s \in Session, TransitionWrite(s) \/ CommitUnacknowledged(s)
      PROVE  \/ \E k \in Key : InsertAction(k)
             \/ \E k \in Key, a \in Calls : Transitioned(k, a.to, a.kind)
  BY <1>1, <1>2, <1>5 DEF TransitionWrite, CommitUnacknowledged
<1>6. CASE UNCHANGED vars
  BY <1>6 DEF vars, ledgerVars
<1> QED BY <1>3, <1>4, <1>5, <1>6 DEF Next, SessionStep

-----------------------------------------------------------------------------
(* Types.                                                                  *)
LEMMA LoadType ==
  ASSUME SessionsTypeOK, NEW s \in Session, NEW k \in Key, rows[k] # NoRow, Load(s, k)
  PROVE  loaded' \in [Session -> [Key -> ActionState \cup {Unloaded}]]
<1>1. rows[k] \in ActionState
  BY DEF SessionsTypeOK, LedgerTypeOK
<1> QED BY <1>1 DEF SessionsTypeOK, Load

LEMMA TransitionedType ==
  ASSUME LedgerTypeOK, NEW k \in Key, NEW a \in Calls, Transitioned(k, a.to, a.kind)
  PROVE  LedgerTypeOK'
<1>1. rows[k] \in ActionState
  BY DEF LedgerTypeOK, Transitioned
<1>2. a.to \in ActionState /\ a.kind \in OutboxKind \cup {NoKind}
  BY CallsAssumption
<1> QED BY <1>1, <1>2, WriteType DEF Transitioned

CallType == [op : Op, key : Key \cup {NoKey}, args : Calls \cup {NoArgs}]

LoadedType == [Session -> [Key -> ActionState \cup {Unloaded}]]

SessionTypes ==
  /\ loaded \in LoadedType
  /\ recorded \in [Session -> SUBSET Key]
  /\ lock \in [Key -> Session \cup {Nobody}]
  /\ call \in [Session -> CallType]

LEMMA GotoType ==
  ASSUME SessionTypes, NEW s \in Session, NEW op \in Op, Goto(s, op)
  PROVE  call' \in [Session -> CallType]
<1>1. call[s] \in CallType
  BY DEF SessionTypes
<1>2. [call[s] EXCEPT !.op = op] \in CallType
  BY <1>1 DEF CallType
<1>3. call' = [call EXCEPT ![s] = [call[s] EXCEPT !.op = op]]
  BY DEF Goto
<1> QED BY <1>2, <1>3 DEF SessionTypes

LEMMA ReturnType ==
  ASSUME SessionTypes, NEW s \in Session, NEW op \in Op, Return(s, op)
  PROVE  call' \in [Session -> CallType]
<1>1. AtRest(op) \in CallType
  BY DEF AtRest, CallType
<1> QED BY <1>1 DEF SessionTypes, Return

LEMMA SessionsTypeStep ==
  ASSUME SessionsInv, [Next]_vars
  PROVE  SessionsTypeOK'
<1>1. SessionTypes /\ LedgerTypeOK
  BY DEF SessionsInv, SessionsTypeOK, SessionTypes, CallType, LoadedType
<1>2. LedgerTypeOK'
  <2>1. CASE UNCHANGED ledgerVars
    BY <1>1, <2>1 DEF ledgerVars, LedgerTypeOK
  <2> QED BY <1>1, <2>1, SessionLedgerSteps, InsertType, TransitionedType
<1>3. /\ \A s \in Session, op \in Op :
            Goto(s, op) \/ Return(s, op) => call' \in [Session -> CallType]
      /\ {"idle", "insert", "refetch", "select", "write", "failed"} = Op
  BY <1>1, GotoType, ReturnType DEF Op
<1>4. \A s \in Session, k \in Key : Load(s, k) /\ rows[k] # NoRow => loaded' \in LoadedType
  BY LoadType DEF SessionsInv, LoadedType
<1>5. \A s \in Session :
        call[s].op \in {"insert", "refetch", "select", "write"} => call[s].key \in Key
  BY DEF SessionsInv, Knows, CallFits
<1>6. /\ loaded \in LoadedType /\ lock \in [Key -> Session \cup {Nobody}]
      /\ recorded \in [Session -> SUBSET Key] /\ call \in [Session -> CallType]
  BY <1>1 DEF SessionTypes
<1>7. ASSUME NEW s \in Session, NEW k \in Key, NEW op \in Op, NEW args \in Calls \cup {NoArgs},
             call' = [call EXCEPT ![s] = [op |-> op, key |-> k, args |-> args]]
      PROVE  call' \in [Session -> CallType]
  <2>1. [op |-> op, key |-> k, args |-> args] \in CallType
    BY DEF CallType
  <2> QED BY <1>6, <1>7, <2>1
<1>8. ASSUME NEW s \in Session, NEW k \in Key, CreateLookup(s, k) PROVE SessionTypes'
  BY <1>3, <1>4, <1>6, <1>7, <1>8 DEF CreateLookup, SessionTypes
<1>9. ASSUME NEW s \in Session, CreateInsert(s) PROVE SessionTypes'
  <2>1. call[s].key \in Key
    BY <1>5, <1>9 DEF CreateInsert, In
  <2>2. lock' = lock /\ call' \in [Session -> CallType]
    BY <1>3, <1>9 DEF CreateInsert
  <2>3. loaded' \in LoadedType
    <3>1. "RECEIVED" \in ActionState
      BY DEF ActionState
    <3> QED BY <1>6, <1>9, <2>1, <3>1 DEF CreateInsert, LoadedType
  <2>4. recorded' \in [Session -> SUBSET Key]
    BY <1>6, <1>9, <2>1 DEF CreateInsert
  <2> QED BY <1>6, <2>2, <2>3, <2>4 DEF SessionTypes
<1>10. ASSUME NEW s \in Session, CreateRefetch(s) PROVE SessionTypes'
  <2>1. call[s].key \in Key
    BY <1>5, <1>10 DEF CreateRefetch, In
  <2> QED BY <1>3, <1>4, <1>6, <1>10, <2>1 DEF CreateRefetch, SessionTypes
<1>11. ASSUME NEW s \in Session, NEW k \in Key, GetAction(s, k) PROVE SessionTypes'
  BY <1>4, <1>6, <1>11 DEF GetAction, SessionTypes
<1>12. ASSUME NEW s \in Session, NEW k \in Key, NEW args \in Calls, TransitionCall(s, k, args)
       PROVE  SessionTypes'
  BY <1>3, <1>6, <1>7, <1>12 DEF TransitionCall, SessionTypes
<1>13. ASSUME NEW s \in Session, TransitionSelect(s) PROVE SessionTypes'
  <2>1. call[s].key \in Key
    BY <1>5, <1>13 DEF TransitionSelect, In
  <2>2. lock' \in [Key -> Session \cup {Nobody}]
    BY <1>6, <1>13 DEF TransitionSelect
  <2>3. loaded' \in LoadedType
    BY <1>4, <1>6, <1>13, <2>1 DEF TransitionSelect
  <2>4. recorded' = recorded /\ call' \in [Session -> CallType]
    BY <1>3, <1>13 DEF TransitionSelect
  <2> QED BY <1>6, <2>2, <2>3, <2>4 DEF SessionTypes
<1>14. ASSUME NEW s \in Session, Commit(s), Return(s, "idle") \/ Return(s, "failed"),
              UNCHANGED recorded
       PROVE  SessionTypes'
  <2>1. call[s].key \in Key /\ call[s].args.to \in ActionState
    BY <1>14, CommitLemma, CallsAssumption
  <2>2. loaded' \in LoadedType
    BY <1>6, <1>14, <2>1 DEF Commit, LoadedType
  <2>3. lock' \in [Key -> Session \cup {Nobody}]
    BY <1>6, <1>14 DEF Commit
  <2> QED BY <1>3, <1>6, <1>14, <2>2, <2>3 DEF SessionTypes
<1>15. ASSUME NEW s \in Session, TransitionRefused(s) \/ DatabaseFails(s) PROVE SessionTypes'
  BY <1>3, <1>6, <1>15 DEF TransitionRefused, DatabaseFails, SessionTypes
<1>16. ASSUME NEW s \in Session, TransitionWrite(s) \/ CommitUnacknowledged(s)
       PROVE  SessionTypes'
  <2>1. CASE Commit(s)
    BY <1>14, <1>16, <2>1 DEF TransitionWrite, CommitUnacknowledged
  <2>2. CASE /\ In(s, "insert") /\ UNCHANGED <<loaded, lock, recorded>>
             /\ Return(s, "failed")
    BY <1>3, <1>6, <2>2 DEF SessionTypes
  <2> QED BY <1>16, <2>1, <2>2 DEF TransitionWrite, CommitUnacknowledged
<1>17. ASSUME NEW s \in Session, Close(s) PROVE SessionTypes'
  <2>1. loaded' \in LoadedType
    BY <1>6, <1>17 DEF Close, LoadedType
  <2> QED BY <1>3, <1>6, <1>17, <2>1 DEF Close, SessionTypes
<1>18. ASSUME UNCHANGED vars PROVE SessionTypes'
  <2>1. loaded' = loaded /\ recorded' = recorded /\ lock' = lock /\ call' = call
    BY <1>18 DEF vars
  <2> QED BY <1>6, <2>1 DEF SessionTypes
<1>19. ASSUME NEW s \in Session, SessionStep(s) PROVE SessionTypes'
  BY <1>8, <1>9, <1>10, <1>11, <1>12, <1>13, <1>15, <1>16, <1>17, <1>19, Zenon
     DEF SessionStep
<1>20. SessionTypes'
  BY <1>18, <1>19, Zenon DEF Next
<1> QED BY <1>2, <1>20 DEF SessionsTypeOK, SessionTypes, CallType, LoadedType

-----------------------------------------------------------------------------
(* What a step of s leaves of the others' state, and what it may do to a   *)
(* row: record it, or change it under the lock.                            *)
Untouched(s) ==
  /\ \A t \in Session : t # s => call'[t] = call[t]
  /\ \A t \in Session : t # s => loaded'[t] = loaded[t]
  /\ \A t \in Session : t # s => recorded'[t] = recorded[t]
  /\ \A k \in Key : lock[k] # s /\ lock[k] # Nobody => lock'[k] = lock[k]

LEMMA OthersUntouched ==
  ASSUME SessionsInv, NEW s \in Session, SessionStep(s)
  PROVE  Untouched(s)
<1>1. /\ loaded \in LoadedType /\ lock \in [Key -> Session \cup {Nobody}]
      /\ recorded \in [Session -> SUBSET Key] /\ call \in [Session -> CallType]
  BY DEF SessionsInv, SessionsTypeOK, CallType, LoadedType
<1>2. DOMAIN loaded = Session /\ DOMAIN recorded = Session /\ DOMAIN call = Session
      /\ DOMAIN lock = Key
  BY <1>1 DEF LoadedType
<1>4. CASE \E k \in Key : CreateLookup(s, k) \/ GetAction(s, k)
  BY <1>2, <1>4 DEF CreateLookup, GetAction, Load, Untouched
<1>5. CASE \E k \in Key, args \in Calls : TransitionCall(s, k, args)
  BY <1>2, <1>5 DEF TransitionCall, Untouched
<1>6. CASE CreateInsert(s)
  BY <1>2, <1>6 DEF CreateInsert, Goto, Return, Untouched
<1>7. CASE CreateRefetch(s) \/ TransitionSelect(s)
  BY <1>2, <1>7 DEF CreateRefetch, TransitionSelect, Goto, Return, Load, Untouched
<1>8. CASE Commit(s) /\ UNCHANGED recorded /\ (Return(s, "idle") \/ Return(s, "failed"))
  <2>1. /\ loaded' = [loaded EXCEPT ![s][call[s].key] = call[s].args.to]
        /\ lock[call[s].key] = s /\ call[s].key \in Key
        /\ lock' = [lock EXCEPT ![call[s].key] = Nobody]
    BY <1>8, CommitLemma
  <2> QED BY <1>2, <1>8, <2>1 DEF Return, Untouched
<1>9. CASE In(s, "insert") /\ UNCHANGED <<loaded, lock, recorded>> /\ Return(s, "failed")
  BY <1>2, <1>9 DEF Return, Untouched
<1>10. CASE TransitionRefused(s) \/ DatabaseFails(s)
  BY <1>2, <1>10 DEF TransitionRefused, DatabaseFails, Return, Untouched
<1>11. CASE Close(s)
  BY <1>2, <1>11 DEF Close, Return, Untouched
<1>12. CASE TransitionWrite(s) \/ CommitUnacknowledged(s)
  BY <1>8, <1>9, <1>12 DEF TransitionWrite, CommitUnacknowledged
<1> QED BY <1>4, <1>5, <1>6, <1>7, <1>10, <1>11, <1>12 DEF SessionStep

LEMMA RowSteps ==
  ASSUME SessionsInv, NEW s \in Session, SessionStep(s), NEW k \in Key
  PROVE  \/ rows'[k] = rows[k]
         \/ rows[k] = NoRow /\ rows'[k] # NoRow
         \/ /\ In(s, "write") /\ call[s].key = k /\ lock[k] = s
            /\ rows[k] # NoRow /\ rows'[k] # NoRow
<1>1. rows \in [Key -> ActionState \cup {NoRow}] /\ NoRow \notin ActionState
  BY DEF SessionsInv, SessionsTypeOK, LedgerTypeOK, NoRow, ActionState
<1>2. CASE In(s, "insert") /\ InsertAction(call[s].key)
  <2>1. call[s].key \in Key /\ "RECEIVED" # NoRow
    BY <1>2 DEF SessionsInv, Knows, CallFits, In, NoRow
  <2> QED BY <1>1, <1>2, <2>1 DEF InsertAction
<1>3. CASE Commit(s)
  <2>1. /\ In(s, "write") /\ call[s].key \in Key /\ lock[call[s].key] = s
        /\ Transitioned(call[s].key, call[s].args.to, call[s].args.kind)
        /\ call[s].args.to \in ActionState
    BY <1>3, CommitLemma, CallsAssumption
  <2> QED BY <1>1, <2>1 DEF Transitioned, WriteTransition
<1>4. CASE UNCHANGED rows
  BY <1>4
<1> QED BY <1>2, <1>3, <1>4
        DEF SessionStep, CreateLookup, GetAction, TransitionCall, CreateInsert, CreateRefetch,
            TransitionSelect, TransitionWrite, TransitionRefused, DatabaseFails,
            CommitUnacknowledged, Close

(* Only a row that was not there is recorded as one's own.                 *)
LEMMA RecordedIsNew ==
  ASSUME SessionsInv, NEW s \in Session, SessionStep(s), NEW k \in Key, k \in recorded'[s]
  PROVE  k \in recorded[s] \/ (rows[k] = NoRow /\ rows'[k] # NoRow)
<1>1. recorded \in [Session -> SUBSET Key] /\ DOMAIN recorded = Session
  BY DEF SessionsInv, SessionsTypeOK
<1>2. CASE CreateInsert(s)
  <2>1. call[s].key \in Key /\ "RECEIVED" # NoRow /\ DOMAIN rows = Key
    BY <1>2 DEF CreateInsert, SessionsInv, SessionsTypeOK, LedgerTypeOK, Knows, CallFits,
                In, NoRow
  <2>2. CASE recorded' = [recorded EXCEPT ![s] = @ \cup {call[s].key}] /\ InsertAction(call[s].key)
    BY <1>1, <2>1, <2>2 DEF InsertAction
  <2> QED BY <1>2, <2>2 DEF CreateInsert
<1>3. CASE Close(s)
  BY <1>1, <1>3 DEF Close
<1>4. CASE UNCHANGED recorded
  BY <1>4
<1> QED BY <1>2, <1>3, <1>4
        DEF SessionStep, CreateLookup, GetAction, TransitionCall, CreateRefetch,
            TransitionSelect, TransitionWrite, TransitionRefused, DatabaseFails,
            CommitUnacknowledged

LEMMA OneOwnerStep ==
  ASSUME SessionsInv, NEW s \in Session, SessionStep(s)
  PROVE  OneOwner'
<1> SUFFICES ASSUME NEW t \in Session, NEW u \in Session, NEW k \in Key,
                    k \in recorded'[t], k \in recorded'[u], t # u
             PROVE  FALSE
  BY DEF OneOwner
<1>1. \A v \in Session : k \in recorded'[v] => k \in recorded[v] \/ (v = s /\ rows[k] = NoRow)
  BY OthersUntouched, RecordedIsNew DEF Untouched
<1>2. \A v \in Session : k \in recorded[v] => rows[k] # NoRow
  BY DEF SessionsInv, Knows, OwnerKnows
<1> QED BY <1>1, <1>2 DEF SessionsInv, OneOwner

(* A step of s leaves what another session knows true: a row it is about   *)
(* to write is under its lock, and one it owns is written by nobody else.  *)
LEMMA OthersStillKnow ==
  ASSUME Cautious, SessionsInv, NEW s \in Session, SessionStep(s),
         NEW t \in Session, t # s
  PROVE  Knows(t)'
<1>1. /\ call'[t] = call[t] /\ loaded'[t] = loaded[t] /\ recorded'[t] = recorded[t]
      /\ \A k \in Key : lock[k] = t => lock'[k] = t
      /\ Knows(t) /\ Knows(s) /\ recorded[t] \subseteq Key
  BY OthersUntouched, NobodyAssumption
     DEF Untouched, SessionsInv, SessionsTypeOK, Nobody
<1>2. \A k \in Key : rows[k] # NoRow => rows'[k] # NoRow
  BY RowSteps
<1>3. \A k \in Key : lock[k] = t /\ rows[k] # NoRow => rows'[k] = rows[k]
  BY RowSteps
<1>4. \A k \in recorded[t] : Discipline[k] = "owner" => rows'[k] = rows[k]
  <2> SUFFICES ASSUME NEW k \in recorded[t], Discipline[k] = "owner", rows'[k] # rows[k]
               PROVE  FALSE
    OBVIOUS
  <2>1. k \in Key /\ rows[k] # NoRow
    BY <1>1 DEF Knows, OwnerKnows
  <2>2. In(s, "write") /\ call[s].key = k
    BY <2>1, RowSteps
  <2>3. k \in recorded[s]
    BY <1>1, <2>2 DEF Knows, CallerKnows, In
  <2> QED BY <2>1, <2>3 DEF SessionsInv, OneOwner
<1>5. CallFits(t)'
  BY <1>1, <1>2 DEF Knows, CallFits, In
<1>6. OwnerKnows(t)'
  BY <1>1, <1>2, <1>4 DEF Knows, OwnerKnows
<1>7. CallerKnows(t)'
  BY <1>1 DEF Knows, CallerKnows, In
<1>8. WriterKnows(t)'
  BY <1>1, <1>3 DEF Knows, WriterKnows, CallFits, In
<1> QED BY <1>5, <1>6, <1>7, <1>8 DEF Knows

(* What the acting session knows after its step, one action at a time.     *)
LEMMA ActorKnows ==
  ASSUME Cautious, SessionsInv, NEW s \in Session, SessionStep(s)
  PROVE  Knows(s)'
<1>1. /\ loaded \in LoadedType /\ lock \in [Key -> Session \cup {Nobody}]
      /\ recorded \in [Session -> SUBSET Key] /\ call \in [Session -> CallType]
      /\ rows \in [Key -> ActionState \cup {NoRow}]
  BY DEF SessionsInv, SessionsTypeOK, LedgerTypeOK, CallType, LoadedType
<1>2. /\ DOMAIN loaded = Session /\ DOMAIN recorded = Session /\ DOMAIN call = Session
      /\ DOMAIN lock = Key /\ DOMAIN loaded[s] = Key /\ DOMAIN rows = Key
      /\ recorded[s] \subseteq Key
      /\ DOMAIN call[s] = {"op", "key", "args"}
  BY <1>1 DEF LoadedType, CallType
<1>3. CallFits(s) /\ OwnerKnows(s) /\ CallerKnows(s) /\ WriterKnows(s)
  BY DEF SessionsInv, Knows
<1>4. \A k \in Key : rows[k] # NoRow => rows'[k] # NoRow
  BY RowSteps
<1>5. ASSUME NEW op \in {"idle", "failed"}, Return(s, op), OwnerKnows(s)'
      PROVE  Knows(s)'
  <2>1. call'[s].op \in {"idle", "failed"}
    BY <1>2, <1>5 DEF Return, AtRest
  <2> QED BY <1>5, <2>1 DEF Knows, CallFits, CallerKnows, WriterKnows, In
<1>6. ASSUME NEW k \in Key, Load(s, k), UNCHANGED <<rows, recorded>>
      PROVE  OwnerKnows(s)' /\ loaded'[s][k] \in {loaded[s][k], rows[k]}
             /\ (loaded[s][k] = Unloaded => loaded'[s][k] = rows[k])
  <2>1. loaded'[s] = [loaded[s] EXCEPT ![k] = IF @ = Unloaded THEN rows[k] ELSE @]
    BY <1>2, <1>6 DEF Load
  <2> QED BY <1>2, <1>3, <1>6, <2>1 DEF OwnerKnows
<1>7. ASSUME UNCHANGED <<rows, loaded, recorded>> PROVE OwnerKnows(s)'
  BY <1>3, <1>7 DEF OwnerKnows
<1>8. ASSUME NEW k \in Key, CreateLookup(s, k) PROVE Knows(s)'
  <2>1. CASE Load(s, k) /\ UNCHANGED call /\ UNCHANGED <<rows, recorded>>
    BY <1>6, <1>8, <2>1 DEF CreateLookup, In, Knows, CallFits, CallerKnows, WriterKnows
  <2>2. CASE /\ call' = [call EXCEPT ![s] = [op |-> "insert", key |-> k, args |-> NoArgs]]
             /\ UNCHANGED <<rows, loaded, recorded>>
    <3>1. call'[s] = [op |-> "insert", key |-> k, args |-> NoArgs]
      BY <1>2, <2>2
    <3> QED BY <1>7, <2>2, <3>1 DEF Knows, CallFits, CallerKnows, WriterKnows, In
  <2> QED BY <1>8, <2>1, <2>2 DEF CreateLookup
<1>9. ASSUME NEW k \in Key, GetAction(s, k) PROVE Knows(s)'
  BY <1>6, <1>9 DEF GetAction, In, Knows, CallFits, CallerKnows, WriterKnows
<1>10. ASSUME NEW k \in Key, NEW args \in Calls, TransitionCall(s, k, args) PROVE Knows(s)'
  <2>1. call'[s] = [op |-> "select", key |-> k, args |-> args]
    BY <1>2, <1>10 DEF TransitionCall
  <2>2. /\ Discipline[k] = "owner" => k \in recorded'[s]
        /\ Discipline[k] = "fresh" => loaded'[s][k] = Unloaded
    BY <1>10 DEF TransitionCall, MayTransition
  <2>3. OwnerKnows(s)'
    BY <1>7, <1>10 DEF TransitionCall
  <2> QED BY <2>1, <2>2, <2>3 DEF Knows, CallFits, CallerKnows, WriterKnows, In
<1>11. ASSUME CreateInsert(s) PROVE Knows(s)'
  <2>1. call[s].key \in Key
    BY <1>3, <1>11 DEF CreateInsert, CallFits, In
  <2>2. CASE /\ InsertAction(call[s].key) /\ Return(s, "idle")
             /\ loaded' = [loaded EXCEPT ![s][call[s].key] = "RECEIVED"]
             /\ recorded' = [recorded EXCEPT ![s] = @ \cup {call[s].key}]
    <3>1. /\ rows'[call[s].key] = "RECEIVED" /\ "RECEIVED" # NoRow
          /\ \A k \in Key : k # call[s].key => rows'[k] = rows[k]
      BY <1>2, <2>1, <2>2 DEF InsertAction, NoRow
    <3>2. /\ loaded'[s][call[s].key] = "RECEIVED"
          /\ \A k \in Key : k # call[s].key => loaded'[s][k] = loaded[s][k]
          /\ recorded'[s] = recorded[s] \cup {call[s].key}
      BY <1>2, <2>1, <2>2
    <3>3. OwnerKnows(s)'
      BY <1>2, <1>3, <2>1, <3>1, <3>2 DEF OwnerKnows
    <3> QED BY <1>5, <2>2, <3>3
  <2>3. CASE /\ loaded' = [loaded EXCEPT ![s] = [j \in Key |-> Unloaded]]
             /\ Goto(s, "refetch") /\ UNCHANGED <<rows, recorded>>
    <3>1. call'[s].op = "refetch" /\ call'[s].key = call[s].key
      BY <1>2, <2>3 DEF Goto
    <3>2. OwnerKnows(s)'
      BY <1>2, <1>3, <2>3 DEF OwnerKnows
    <3> QED BY <2>1, <3>1, <3>2 DEF Knows, CallFits, CallerKnows, WriterKnows, In
  <2> QED BY <1>11, <2>2, <2>3 DEF CreateInsert
<1>12. ASSUME CreateRefetch(s) PROVE Knows(s)'
  <2>1. call[s].key \in Key
    BY <1>3, <1>12 DEF CreateRefetch, CallFits, In
  <2>2. OwnerKnows(s)'
    BY <1>6, <1>7, <1>12, <2>1 DEF CreateRefetch
  <2> QED BY <1>5, <1>12, <2>2 DEF CreateRefetch
<1>13. ASSUME TransitionSelect(s) PROVE Knows(s)'
  <2>1. call[s].key \in Key /\ call[s].args \in Calls
    BY <1>3, <1>13 DEF TransitionSelect, CallFits, In
  <2>2. CASE Return(s, "failed") /\ UNCHANGED <<loaded, rows, recorded>>
    BY <1>5, <1>7, <2>2
  <2>3. CASE /\ rows[call[s].key] # NoRow /\ UNCHANGED <<rows, recorded>>
             /\ lock' = [lock EXCEPT ![call[s].key] = s]
             /\ Load(s, call[s].key) /\ Goto(s, "write")
    <3>1. call'[s].op = "write" /\ call'[s].key = call[s].key /\ call'[s].args = call[s].args
      BY <1>2, <2>3 DEF Goto
    <3>2. lock'[call[s].key] = s
      BY <1>2, <2>1, <2>3
    <3>3. loaded[s][call[s].key] \in {Unloaded, rows[call[s].key]}
      BY <1>3, <1>13, <2>1 DEF Cautious, CallerKnows, OwnerKnows, TransitionSelect, In
    <3>4. OwnerKnows(s)' /\ loaded'[s][call[s].key] = rows[call[s].key]
      BY <1>6, <2>1, <2>3, <3>3
    <3>5. CallerKnows(s)'
      BY <1>3, <1>13, <2>3, <3>1 DEF CallerKnows, TransitionSelect, In
    <3> QED BY <2>1, <2>3, <3>1, <3>2, <3>4, <3>5 DEF Knows, CallFits, WriterKnows, In
  <2> QED BY <1>13, <2>2, <2>3 DEF TransitionSelect
<1>14. ASSUME Commit(s), UNCHANGED recorded PROVE OwnerKnows(s)'
  <2>1. /\ call[s].key \in Key /\ rows' = [rows EXCEPT ![call[s].key] = call[s].args.to]
        /\ loaded' = [loaded EXCEPT ![s][call[s].key] = call[s].args.to]
    BY <1>14, CommitLemma DEF Transitioned, WriteTransition
  <2>2. loaded'[s][call[s].key] = rows'[call[s].key]
    BY <1>2, <2>1
  <2>3. \A k \in Key \ {call[s].key} : rows'[k] = rows[k] /\ loaded'[s][k] = loaded[s][k]
    BY <1>2, <2>1
  <2>4. \A k \in recorded[s] : k \in Key /\ rows'[k] # NoRow
    BY <1>2, <1>3, <1>4 DEF OwnerKnows
  <2>5. \A k \in recorded[s] : Discipline[k] = "owner" => loaded'[s][k] \in {Unloaded, rows'[k]}
    BY <1>3, <2>2, <2>3, <2>4 DEF OwnerKnows
  <2> QED BY <1>14, <2>4, <2>5 DEF OwnerKnows
<1>15. ASSUME TransitionWrite(s) PROVE Knows(s)'
  BY <1>5, <1>14, <1>15 DEF TransitionWrite
<1>16. ASSUME TransitionRefused(s) \/ DatabaseFails(s) PROVE Knows(s)'
  BY <1>5, <1>7, <1>16 DEF TransitionRefused, DatabaseFails
<1>17. ASSUME CommitUnacknowledged(s) PROVE Knows(s)'
  <2>1. CASE In(s, "insert") /\ InsertAction(call[s].key) /\ UNCHANGED <<loaded, recorded>>
    <3>1. \A k \in Key : rows[k] # NoRow => rows'[k] = rows[k]
      BY <1>2, <2>1 DEF InsertAction
    <3> QED BY <1>2, <1>3, <1>5, <1>17, <2>1, <3>1 DEF OwnerKnows, CommitUnacknowledged
  <2>2. CASE Commit(s) /\ UNCHANGED recorded
    BY <1>5, <1>14, <1>17, <2>2 DEF CommitUnacknowledged
  <2> QED BY <1>17, <2>1, <2>2 DEF CommitUnacknowledged
<1>18. ASSUME Close(s) PROVE Knows(s)'
  <2>1. recorded'[s] = {}
    BY <1>2, <1>18 DEF Close
  <2> QED BY <1>5, <1>18, <2>1 DEF Close, OwnerKnows
<1> QED BY <1>8, <1>9, <1>10, <1>11, <1>12, <1>13, <1>15, <1>16, <1>17, <1>18, Zenon
        DEF SessionStep

LEMMA SessionsStep ==
  ASSUME Cautious
  PROVE  SessionsInv /\ [Next]_vars => SessionsInv'
<1> SUFFICES ASSUME SessionsInv, [Next]_vars PROVE SessionsInv'
  OBVIOUS
<1>1. ASSUME NEW s \in Session, SessionStep(s)
      PROVE  OneOwner' /\ \A t \in Session : Knows(t)'
  BY <1>1, OneOwnerStep, OthersStillKnow, ActorKnows
<1>2. ASSUME UNCHANGED vars PROVE OneOwner' /\ \A t \in Session : Knows(t)'
  <2>1. /\ rows' = rows /\ loaded' = loaded /\ recorded' = recorded
        /\ lock' = lock /\ call' = call
    BY <1>2 DEF vars
  <2> QED BY <2>1 DEF SessionsInv, OneOwner, Knows, CallFits, OwnerKnows, CallerKnows,
                      WriterKnows, In
<1> QED BY <1>1, <1>2, SessionsTypeStep DEF SessionsInv, Next

LEMMA SessionsAuditStep ==
  SessionsInv /\ AuditChain /\ [Next]_vars => AuditChain'
<1> SUFFICES ASSUME SessionsInv, AuditChain, [Next]_vars PROVE AuditChain'
  OBVIOUS
<1>1. LedgerTypeOK
  BY DEF SessionsInv, SessionsTypeOK
<1>2. CASE UNCHANGED ledgerVars
  BY <1>2 DEF ledgerVars, AuditChain
<1>3. ASSUME NEW k \in Key, InsertAction(k) PROVE AuditChain'
  BY <1>1, <1>3, InsertAudit
<1>4. ASSUME NEW k \in Key, NEW a \in Calls, Transitioned(k, a.to, a.kind)
      PROVE  AuditChain'
  <2>1. a.to \in ActionState
    BY CallsAssumption
  <2> QED BY <1>1, <1>4, <2>1, WriteAudit DEF Transitioned, TransitionAllowed
<1> QED BY <1>2, <1>3, <1>4, SessionLedgerSteps

-----------------------------------------------------------------------------
LEMMA SessionsInvariant ==
  ASSUME Cautious
  PROVE  Spec => [](SessionsInv /\ AuditChain)
BY SessionsInit, SessionsStep, SessionsAuditStep, PTL DEF Spec

(* SessionsTyped: the sessions' and the ledger's state is well typed.      *)
THEOREM SessionsTyped ==
  ASSUME Cautious
  PROVE  Spec => []SessionsTypeOK
<1>1. SessionsInv => SessionsTypeOK
  BY DEF SessionsInv
<1> QED BY <1>1, SessionsInvariant, PTL

(* LockedCopyIsCurrent: whatever the interleaving, the copy of an action   *)
(* that transition_action decides on, under the row lock, is the row.      *)
THEOREM LockedCopyIsCurrent ==
  ASSUME Cautious
  PROVE  Spec => []LockedStateIsCurrent
<1>1. SessionsInv => LockedStateIsCurrent
  BY DEF SessionsInv, Knows, WriterKnows, LockedStateIsCurrent
<1> QED BY <1>1, SessionsInvariant, PTL

(* SessionsKeepAudit: each action's trail, to which any number of sessions *)
(* append, is one unbroken chain of legal transitions up to its state.     *)
THEOREM SessionsKeepAudit ==
  ASSUME Cautious
  PROVE  Spec => []AuditChain
BY SessionsInvariant, PTL

(* TerminalForEver: an action in a terminal state is never written again,  *)
(* whichever sessions still hold an older state of it.                     *)
THEOREM TerminalForEver ==
  ASSUME Cautious
  PROVE  Spec => TerminalStatesFinal
<1>1. ASSUME SessionsInv, [Next]_vars, NEW k \in Key, rows[k] \in TERMINAL_STATES
      PROVE  UNCHANGED <<rows[k], events[k], outbox[k]>>
  <2>1. /\ DOMAIN rows = Key /\ DOMAIN events = Key /\ DOMAIN outbox = Key
    BY <1>1 DEF SessionsInv, SessionsTypeOK, LedgerTypeOK
  <2>2. rows[k] # NoRow /\ \A target : ~ IsLegalTransition(rows[k], target)
    BY <1>1 DEF TERMINAL_STATES, NoRow, IsLegalTransition, LEGAL_TRANSITIONS
  <2>3. ASSUME NEW j \in Key, InsertAction(j) PROVE UNCHANGED <<rows[k], events[k], outbox[k]>>
    BY <2>1, <2>2, <2>3 DEF InsertAction
  <2>4. ASSUME NEW j \in Key, NEW a \in Calls, Transitioned(j, a.to, a.kind)
        PROVE  UNCHANGED <<rows[k], events[k], outbox[k]>>
    BY <2>1, <2>2, <2>4 DEF Transitioned, TransitionAllowed, WriteTransition
  <2>5. CASE UNCHANGED ledgerVars
    BY <2>5 DEF ledgerVars
  <2> QED BY <1>1, <2>3, <2>4, <2>5, SessionLedgerSteps
<1>2. SessionsInv /\ [Next]_vars =>
        [\A k \in Key : rows[k] \in TERMINAL_STATES =>
           UNCHANGED <<rows[k], events[k], outbox[k]>>]_vars
  BY <1>1
<1> QED BY <1>2, SessionsInvariant, PTL DEF Spec, TerminalStatesFinal

-----------------------------------------------------------------------------
LEMMA SessionAtomicSteps ==
  SessionsInv /\ [Next]_vars => [Atomic!LedgerStep]_(Atomic!ledgerVars)
<1> SUFFICES ASSUME SessionsInv, [Next]_vars
             PROVE  [Atomic!LedgerStep]_(Atomic!ledgerVars)
  OBVIOUS
<1>1. ASSUME NEW k \in Key, InsertAction(k)
      PROVE  Atomic!InsertAction(k)
  BY <1>1 DEF InsertAction, Atomic!InsertAction, Atomic!NoRow, NoRow, Atomic!NoState, NoState
<1>2. ASSUME NEW k \in Key, NEW a \in Calls, Transitioned(k, a.to, a.kind)
      PROVE  \E to \in Atomic!ActionState, kind \in Atomic!OutboxKind \cup {Atomic!NoKind} :
               Atomic!TransitionNow(k, to, kind)
  <2>1. a.to \in Atomic!ActionState /\ a.kind \in Atomic!OutboxKind \cup {Atomic!NoKind}
    BY CallsAssumption DEF Atomic!ActionState, ActionState, Atomic!OutboxKind, OutboxKind,
                           Atomic!NoKind, NoKind
  <2>2. Atomic!TransitionAllowed(rows[k], rows[k], a.to)
    BY <1>2 DEF Transitioned, TransitionAllowed, Atomic!TransitionAllowed,
                Atomic!IsLegalTransition, IsLegalTransition,
                Atomic!LEGAL_TRANSITIONS, LEGAL_TRANSITIONS
  <2>3. Atomic!WriteTransition(k, rows[k], a.to, a.kind)
    BY <1>2 DEF Transitioned, WriteTransition, Atomic!WriteTransition, Atomic!NoKind, NoKind
  <2> QED BY <2>1, <2>2, <2>3 DEF Atomic!TransitionNow
<1>3. CASE UNCHANGED ledgerVars
  BY <1>3 DEF ledgerVars, Atomic!ledgerVars
<1> QED BY <1>1, <1>2, <1>3, SessionLedgerSteps DEF Atomic!LedgerStep

(* SessionsImplementLedger: the queries, locks and commits of any number   *)
(* of sessions amount to one legal ledger step at a time, each from the    *)
(* state the action is in at that step.                                    *)
THEOREM SessionsImplementLedger ==
  ASSUME Cautious
  PROVE  Spec => SessionsAreAtomic
<1>1. Init => Atomic!LedgerInit
  BY DEF Init, LedgerInit, Atomic!LedgerInit, Atomic!NoRow, NoRow
<1> QED BY <1>1, SessionAtomicSteps, SessionsInvariant, PTL
        DEF Spec, SessionsAreAtomic, Atomic!LedgerSpec

-----------------------------------------------------------------------------
(***************************************************************************)
(* The pool.  The invariant says what a request owns at each stage: in a   *)
(* call it has a connection, and until create_action has returned it has   *)
(* sent nothing.                                                           *)
(***************************************************************************)
Recording == {"idle", "lookup", "insert", "inserted", "refetch", "recorded", "refused"}

UnsentWhileRecording == \A r \in Request : at[r] \in Recording => ~ sent[r]

HeldInCalls == \A r \in Request : at[r] \in Calling => holds[r]

WithinPool == Cardinality(Holders) <= PoolSize

PoolInv == PoolTypeOK /\ UnsentWhileRecording /\ HeldInCalls /\ WithinPool

-----------------------------------------------------------------------------
(* A request that gives its connection back leaves no more than before.    *)
LEMMA GivenBack ==
  ASSUME WithinPool, NEW r \in Request, holds \in [Request -> BOOLEAN], GiveBack(r)
  PROVE  WithinPool'
<1>1. Holders' \subseteq Holders BY DEF Holders, GiveBack
<1>2. IsFiniteSet(Holders) BY FS_Subset, RequestAssumption DEF Holders
<1>3. /\ IsFiniteSet(Holders')
      /\ Cardinality(Holders') <= Cardinality(Holders)
  BY <1>1, <1>2, FS_Subset
<1>4. Cardinality(Holders) \in Nat /\ Cardinality(Holders') \in Nat
  BY <1>2, <1>3, FS_CardinalityType
<1> QED BY <1>3, <1>4, PoolSizeAssumption DEF WithinPool

(* One that takes a connection when there was one left takes only that.    *)
LEMMA Acquired ==
  ASSUME NEW r \in Request, holds \in [Request -> BOOLEAN], Acquire(r)
  PROVE  WithinPool'
<1>1. Holders' = Holders \cup {r} BY DEF Holders, Acquire
<1>2. IsFiniteSet(Holders) BY FS_Subset, RequestAssumption DEF Holders
<1>3. Cardinality(Holders') \in {Cardinality(Holders), Cardinality(Holders) + 1}
  BY <1>1, <1>2, FS_AddElement
<1>4. Cardinality(Holders) \in Nat BY <1>2, FS_CardinalityType
<1> QED BY <1>3, <1>4, PoolSizeAssumption DEF WithinPool, Acquire

(* What moves no connection keeps the pool as it is.                       *)
LEMMA PoolUntouched ==
  ASSUME WithinPool, UNCHANGED holds
  PROVE  WithinPool'
BY DEF WithinPool, Holders

LEMMA PoolInvInit == PoolInit => PoolInv
<1> SUFFICES ASSUME PoolInit PROVE PoolInv OBVIOUS
<1>1. Holders = {} BY DEF PoolInit, Holders
<1>2. WithinPool BY <1>1, FS_EmptySet, PoolSizeAssumption DEF WithinPool
<1> QED BY <1>2 DEF PoolInit, PoolInv, PoolTypeOK, UnsentWhileRecording, HeldInCalls, Calling

LEMMA PoolStep == PoolInv /\ [PoolNext]_poolVars => PoolInv'
<1> SUFFICES ASSUME PoolInv, [PoolNext]_poolVars PROVE PoolInv' OBVIOUS
<1> USE DEF PoolInv, PoolTypeOK, UnsentWhileRecording, HeldInCalls, Recording,
            Querying, Calling, Closing, MoveTo
<1>1. ASSUME NEW r \in Request, NEW k \in Key, Arrive(r, k) PROVE PoolInv'
  BY <1>1, PoolUntouched DEF Arrive
<1>2. ASSUME NEW r \in Request, Acquire(r) PROVE PoolInv'
  BY <1>2, Acquired DEF Acquire
<1>3. ASSUME NEW r \in Request, TimedOut(r) PROVE PoolInv'
  <2>1. WithinPool' BY <1>3, PoolUntouched DEF TimedOut
  <2>2. PoolTypeOK' BY <1>3 DEF TimedOut, AnswerTo
  <2>3. AnswerTo(at[r]) = "refused" => at[r] \in Recording BY DEF AnswerTo
  <2>4. UnsentWhileRecording' /\ HeldInCalls' BY <1>3, <2>3 DEF TimedOut, AnswerTo
  <2> QED BY <2>1, <2>2, <2>4
<1>4. ASSUME NEW r \in Request, Lookup(r) PROVE PoolInv'
  BY <1>4, PoolUntouched DEF Lookup
<1>5. ASSUME NEW r \in Request, Insert(r) PROVE PoolInv'
  <2>1. WithinPool' BY <1>5, PoolUntouched, GivenBack DEF Insert
  <2> QED BY <1>5, <2>1 DEF Insert, GiveBack
<1>6. ASSUME NEW r \in Request, CommitInsert(r) PROVE PoolInv'
  BY <1>6, GivenBack DEF CommitInsert, GiveBack
<1>7. ASSUME NEW r \in Request, Refetch(r) PROVE PoolInv'
  BY <1>7, PoolUntouched DEF Refetch
<1>8. ASSUME NEW r \in Request, RefreshRecorded(r) PROVE PoolInv'
  BY <1>8, PoolUntouched DEF RefreshRecorded
<1>9. ASSUME NEW r \in Request, CallReturns(r) PROVE PoolInv'
  BY <1>9, PoolUntouched DEF CallReturns
<1>10. ASSUME NEW r \in Request, ReadReturns(r) PROVE PoolInv'
  BY <1>10, PoolUntouched DEF ReadReturns
<1>11. ASSUME NEW r \in Request, CommitTransition(r) PROVE PoolInv'
  BY <1>11, GivenBack DEF CommitTransition, GiveBack
<1>12. ASSUME NEW r \in Request, RefreshTransition(r) PROVE PoolInv'
  BY <1>12, PoolUntouched DEF RefreshTransition
<1>13. ASSUME NEW r \in Request, CloseSession(r) PROVE PoolInv'
  BY <1>13, GivenBack DEF CloseSession, GiveBack
<1>14. CASE UNCHANGED poolVars
  BY <1>14, PoolUntouched DEF poolVars
<1> QED BY <1>1, <1>2, <1>3, <1>4, <1>5, <1>6, <1>7, <1>8, <1>9, <1>10, <1>11,
           <1>12, <1>13, <1>14 DEF PoolNext, Progress

LEMMA PoolInvariance == PoolSpec => []PoolInv
BY PoolInvInit, PoolStep, PTL DEF PoolSpec

-----------------------------------------------------------------------------
(* RefusedUnsent: whatever the size of the pool and however many requests  *)
(* compete for it, a 503 is only ever told of a call that was not made.    *)
THEOREM RefusedUnsent == PoolSpec => []RefusedMeansNotSent
<1>1. PoolInv => RefusedMeansNotSent
  BY DEF PoolInv, UnsentWhileRecording, Recording, RefusedMeansNotSent
<1> QED BY <1>1, PoolInvariance, PTL

(* CallsWithinPool: the calls under way never outnumber the connections.   *)
THEOREM CallsWithinPool == PoolSpec => []CallsHoldConnections
<1>1. PoolInv => CallsHoldConnections
  <2> SUFFICES ASSUME PoolInv PROVE CallsHoldConnections OBVIOUS
  <2>1. InFlight \subseteq Holders BY DEF PoolInv, HeldInCalls, InFlight, Holders
  <2>2. IsFiniteSet(Holders) BY FS_Subset, RequestAssumption DEF Holders
  <2>3. Cardinality(InFlight) <= Cardinality(Holders) BY <2>1, <2>2, FS_Subset
  <2> QED BY <2>3 DEF CallsHoldConnections, PoolInv, WithinPool
<1> QED BY <1>1, PoolInvariance, PTL

=============================================================================
