-------------------------- MODULE ActionsApiProofs --------------------------
(***************************************************************************)
(* Theorems about the two endpoints, for every set of agents and requests, *)
(* every derivation of keys, and every bound on the events.                *)
(***************************************************************************)
EXTENDS ActionsApi, KeyText, LedgerProofs, SequenceTheorems, TLAPS

ApiTypeOK ==
  /\ LedgerTypeOK
  /\ submission \in [Key -> Submitted \cup {NoRequest}]
  /\ reply \in [Agent -> [request : Submitted \cup {NoRequest}, key : Key \cup {NoKey}]]
  /\ reading \in [Agent -> [key : Key \cup {NoKey}, state : ActionState \cup {NoRow}]]
  /\ answers \in [Agent -> [Key -> [state : ActionState \cup {NoRow}, trail : Seq(Event)]]]

(* The trail has passed through the state, by a legal chain.               *)
Passed(trail, state) ==
  \E n \in 1 .. Len(trail) : Chained(SubSeq(trail, 1, n), state)

(***************************************************************************)
(* The invariant.  A key is told to an agent only once its row is there,   *)
(* and the row holds a request of that key; the state a GET has read is    *)
(* one the trail has passed since, and what was answered is a beginning of *)
(* the trail as it is now.                                                 *)
(***************************************************************************)
Accepted == {r \in Submitted : Handled(r)}

RowsHoldRequests ==
  \A k \in Key : rows[k] # NoRow => submission[k] \in Accepted /\ KeyOf[submission[k]] = k

ToldIsRecorded ==
  \A g \in Agent : reply[g] # NoReply =>
    /\ reply[g].request \in Accepted /\ reply[g].key = KeyOf[reply[g].request]
    /\ rows[reply[g].key] # NoRow

StateReadWasPassed ==
  \A g \in Agent : reading[g] # NotReading =>
    /\ reading[g].key \in Key /\ rows[reading[g].key] # NoRow
    /\ Passed(events[reading[g].key], reading[g].state)

AnswersArePrefixes ==
  \A g \in Agent, k \in Key : IsPrefix(answers[g][k].trail, events[k])

ApiInv ==
  /\ ApiTypeOK
  /\ AuditChain
  /\ RowsHoldRequests
  /\ ToldIsRecorded
  /\ StateReadWasPassed
  /\ AnswersArePrefixes

-----------------------------------------------------------------------------
(* Appending an event changes no beginning of a trail.                     *)
LEMMA BeginningKept ==
  ASSUME NEW trail \in Seq(Event), NEW e \in Event, NEW n \in 0 .. Len(trail)
  PROVE  SubSeq(Append(trail, e), 1, n) = SubSeq(trail, 1, n)
<1> DEFINE longer == Append(trail, e)
<1>1. /\ longer \in Seq(Event) /\ Len(longer) = Len(trail) + 1
      /\ \A i \in 1 .. Len(trail) : longer[i] = trail[i]
  BY AppendProperties
<1>2. Len(trail) \in Nat /\ n \in Int /\ n <= Len(trail)
  OBVIOUS
<1>3. /\ \A i \in 1 .. n : trail[i] \in Event
      /\ \A i \in 1 .. n : longer[i] \in Event /\ longer[i] = trail[i]
  BY <1>1, <1>2, ElementOfSeq
<1>4. /\ SubSeq(trail, 1, n) \in Seq(Event)
      /\ Len(SubSeq(trail, 1, n)) = n
      /\ \A i \in 1 .. n : SubSeq(trail, 1, n)[i] = trail[i]
  BY <1>2, <1>3, SubSeqProperties
<1> HIDE DEF longer
<1>5. /\ SubSeq(longer, 1, n) \in Seq(Event)
      /\ Len(SubSeq(longer, 1, n)) = n
      /\ \A i \in 1 .. n : SubSeq(longer, 1, n)[i] = longer[i]
  BY <1>2, <1>3, SubSeqProperties
<1>6. SubSeq(longer, 1, n) = SubSeq(trail, 1, n)
  BY <1>3, <1>4, <1>5, SeqEqual
<1> QED BY <1>6 DEF longer

LEMMA PassedKept ==
  ASSUME NEW trail \in Seq(Event), NEW e \in Event, NEW state, Passed(trail, state)
  PROVE  Passed(Append(trail, e), state)
<1>1. PICK n \in 1 .. Len(trail) : Chained(SubSeq(trail, 1, n), state)
  BY DEF Passed
<1>2. SubSeq(Append(trail, e), 1, n) = SubSeq(trail, 1, n)
  BY BeginningKept
<1>3. n \in 1 .. Len(Append(trail, e))
  BY AppendProperties
<1> QED BY <1>1, <1>2, <1>3 DEF Passed

LEMMA PrefixKept ==
  ASSUME NEW trail \in Seq(Event), NEW e \in Event, NEW seen \in Seq(Event),
         IsPrefix(seen, trail)
  PROVE  IsPrefix(seen, Append(trail, e))
<1>1. Len(seen) \in 0 .. Len(trail)
  BY LenProperties DEF IsPrefix
<1>2. SubSeq(Append(trail, e), 1, Len(seen)) = SubSeq(trail, 1, Len(seen))
  BY <1>1, BeginningKept
<1>3. Len(seen) <= Len(Append(trail, e))
  BY <1>1, AppendProperties
<1> QED BY <1>2, <1>3 DEF IsPrefix

(* A chained trail passes through the state it ends in.                    *)
LEMMA PassedNow ==
  ASSUME NEW trail \in Seq(Event), NEW state, Chained(trail, state)
  PROVE  /\ Passed(trail, state)
         /\ Last(trail).to = state
<1>1. Len(trail) \in Nat /\ Len(trail) > 0
  BY DEF Chained
<1>2. SubSeq(trail, 1, Len(trail)) = trail
  BY SubSeqFull
<1>3. Len(trail) \in 1 .. Len(trail)
  BY <1>1
<1>4. Passed(trail, state)
  BY <1>2, <1>3 DEF Passed
<1>5. Last(trail).to = state
  BY DEF Chained, Last
<1> QED BY <1>4, <1>5

-----------------------------------------------------------------------------
(* What every step does to the ledger: rows stay, trails only grow.        *)
Grows ==
  \A k \in Key :
    /\ rows[k] # NoRow => rows'[k] # NoRow
    /\ events'[k] = events[k] \/ \E e \in Event : events'[k] = Append(events[k], e)

LEMMA LedgerGrows ==
  ASSUME ApiTypeOK, AuditChain,
         \/ UNCHANGED ledgerVars
         \/ \E k \in Key : InsertAction(k)
         \/ \E k \in Key, to \in ActionState : TransitionNow(k, to, NoKind)
  PROVE  LedgerTypeOK' /\ AuditChain' /\ Grows
<1>1. /\ LedgerTypeOK /\ rows \in [Key -> ActionState \cup {NoRow}]
      /\ events \in [Key -> Seq(Event)]
  BY DEF ApiTypeOK, LedgerTypeOK
<1>2. CASE UNCHANGED ledgerVars
  BY <1>1, <1>2 DEF ledgerVars, LedgerTypeOK, AuditChain, Grows
<1>3. ASSUME NEW k \in Key, InsertAction(k)
      PROVE  LedgerTypeOK' /\ AuditChain' /\ Grows
  <2>1. LedgerTypeOK' /\ AuditChain'
    BY <1>1, <1>3, InsertType, InsertAudit
  <2>2. [from |-> NoState, to |-> "RECEIVED"] \in Event
    BY DEF Event, ActionState
  <2>3. Grows
    BY <1>1, <1>3, <2>2 DEF InsertAction, Grows, NoRow
  <2> QED BY <2>1, <2>3
<1>4. ASSUME NEW k \in Key, NEW to \in ActionState, TransitionNow(k, to, NoKind)
      PROVE  LedgerTypeOK' /\ AuditChain' /\ Grows
  <2>1. IsLegalTransition(rows[k], to) /\ WriteTransition(k, rows[k], to, NoKind)
    BY <1>4 DEF TransitionNow, TransitionAllowed
  <2>2. rows[k] \in ActionState /\ rows[k] # NoRow
    BY <2>1 DEF IsLegalTransition, LEGAL_TRANSITIONS, ActionState, NoRow
  <2>3. LedgerTypeOK' /\ AuditChain'
    BY <1>1, <2>1, <2>2, WriteType, WriteAudit DEF NoKind
  <2>4. [from |-> rows[k], to |-> to] \in Event
    BY <2>2 DEF Event
  <2>5. Grows
    BY <1>1, <2>1, <2>4 DEF WriteTransition, Grows, NoRow, ActionState
  <2> QED BY <2>3, <2>5
<1> QED BY <1>2, <1>3, <1>4

(* A step that changes neither what agents are told nor what they read.    *)
LEMMA AgentsStay ==
  ASSUME ApiInv, LedgerTypeOK', AuditChain', Grows,
         submission' \in [Key -> Submitted \cup {NoRequest}], RowsHoldRequests',
         reply' \in [Agent -> [request : Submitted \cup {NoRequest}, key : Key \cup {NoKey}]],
         ToldIsRecorded', UNCHANGED <<reading, answers>>
  PROVE  ApiInv'
<1>1. ApiTypeOK'
  BY DEF ApiInv, ApiTypeOK
<1>2. /\ events \in [Key -> Seq(Event)]
      /\ answers \in [Agent -> [Key -> [state : ActionState \cup {NoRow}, trail : Seq(Event)]]]
  BY DEF ApiInv, ApiTypeOK, LedgerTypeOK
<1>3. StateReadWasPassed'
  <2>1. SUFFICES ASSUME NEW g \in Agent, reading[g] # NotReading
                 PROVE  /\ reading[g].key \in Key /\ rows'[reading[g].key] # NoRow
                        /\ Passed(events'[reading[g].key], reading[g].state)
    BY DEF StateReadWasPassed, Passed, Chained, IsLegalTransition
  <2>2. PICK k \in Key : k = reading[g].key
    BY <2>1 DEF ApiInv, StateReadWasPassed
  <2>3. rows[k] # NoRow /\ Passed(events[k], reading[g].state)
    BY <2>1, <2>2 DEF ApiInv, StateReadWasPassed
  <2>4. CASE events'[k] = events[k]
    BY <2>2, <2>3, <2>4 DEF Grows
  <2>5. ASSUME NEW e \in Event, events'[k] = Append(events[k], e)
        PROVE  Passed(events'[k], reading[g].state)
    BY <1>2, <2>3, <2>5, PassedKept
  <2> QED BY <2>2, <2>3, <2>4, <2>5 DEF Grows
<1>4. AnswersArePrefixes'
  <2>1. SUFFICES ASSUME NEW g \in Agent, NEW k \in Key
                 PROVE  IsPrefix(answers[g][k].trail, events'[k])
    BY DEF AnswersArePrefixes
  <2>2. IsPrefix(answers[g][k].trail, events[k]) /\ answers[g][k].trail \in Seq(Event)
    BY <1>2 DEF ApiInv, AnswersArePrefixes
  <2>3. ASSUME NEW e \in Event, events'[k] = Append(events[k], e)
        PROVE  IsPrefix(answers[g][k].trail, events'[k])
    <3>1. IsPrefix(answers[g][k].trail, Append(events[k], e))
      BY <1>2, <2>2, PrefixKept
    <3> QED BY <2>3, <3>1
  <2> QED BY <2>2, <2>3 DEF Grows
<1> QED BY <1>1, <1>3, <1>4 DEF ApiInv

LEMMA ApiInit == Init => ApiInv
<1> SUFFICES ASSUME Init PROVE ApiInv
  OBVIOUS
<1>1. LedgerTypeOK
  BY EmptySeq DEF Init, LedgerInit, LedgerTypeOK
<1>2. ApiTypeOK
  <2>1. NoAnswer \in [state : ActionState \cup {NoRow}, trail : Seq(Event)]
    BY EmptySeq DEF NoAnswer
  <2> QED BY <1>1, <2>1 DEF Init, ApiTypeOK, NoReply, NotReading
<1>3. AuditChain /\ RowsHoldRequests /\ ToldIsRecorded /\ StateReadWasPassed
  BY DEF Init, LedgerInit, AuditChain, RowsHoldRequests, ToldIsRecorded, StateReadWasPassed
<1>4. AnswersArePrefixes
  <2>1. \A g \in Agent, k \in Key : answers[g][k].trail = <<>> /\ events[k] = <<>>
    BY DEF Init, LedgerInit, NoAnswer
  <2>2. IsPrefix(<<>>, <<>>)
    BY DEF IsPrefix
  <2> QED BY <2>1, <2>2 DEF AnswersArePrefixes
<1> QED BY <1>2, <1>3, <1>4 DEF ApiInv

(* AcceptedHasKey: what is recorded has a key.                             *)
LEMMA AcceptedHasKey == \A r \in Accepted : r \in Submitted /\ KeyOf[r] \in Key
BY KeyOfAssumption DEF Accepted

LEMMA ApiStep == ApiInv /\ [Next]_vars => ApiInv'
<1> SUFFICES ASSUME ApiInv, [Next]_vars PROVE ApiInv'
  OBVIOUS
<1>0. /\ ApiTypeOK /\ AuditChain /\ rows \in [Key -> ActionState \cup {NoRow}]
      /\ events \in [Key -> Seq(Event)]
      /\ submission \in [Key -> Submitted \cup {NoRequest}]
      /\ reply \in [Agent -> [request : Submitted \cup {NoRequest}, key : Key \cup {NoKey}]]
      /\ reading \in [Agent -> [key : Key \cup {NoKey}, state : ActionState \cup {NoRow}]]
      /\ answers \in [Agent -> [Key -> [state : ActionState \cup {NoRow}, trail : Seq(Event)]]]
  BY DEF ApiInv, ApiTypeOK, LedgerTypeOK
<1>1. ASSUME NEW g \in Agent, NEW r \in Submitted, Record(g, r) PROVE ApiInv'
  <2>1. PICK k \in Key : k = KeyOf[r]
    BY KeyOfAssumption
  <2>0. r \in Accepted
    BY <1>1 DEF Record, Deduplicate, Accepted
  <2>2. /\ InsertAction(k) /\ submission' = [submission EXCEPT ![k] = r]
        /\ reply' = [reply EXCEPT ![g] = [request |-> r, key |-> k]]
        /\ UNCHANGED <<reading, answers>>
    BY <1>1, <2>1 DEF Record, Reply
  <2>3. LedgerTypeOK' /\ AuditChain' /\ Grows
    BY <1>0, <2>2, LedgerGrows
  <2>4. /\ rows'[k] = "RECEIVED" /\ \A j \in Key \ {k} : rows'[j] = rows[j]
        /\ submission'[k] = r /\ \A j \in Key \ {k} : submission'[j] = submission[j]
    BY <1>0, <2>2 DEF InsertAction
  <2>5. RowsHoldRequests'
    BY <2>1, <2>0, <2>4 DEF ApiInv, RowsHoldRequests
  <2>6. ToldIsRecorded'
    <3>1. reply'[g] = [request |-> r, key |-> k] /\ \A h \in Agent \ {g} : reply'[h] = reply[h]
      BY <1>0, <2>2
    <3>2. rows'[k] # NoRow
      BY <2>4 DEF NoRow
    <3>3. \A h \in Agent \ {g} : reply[h] # NoReply => rows'[reply[h].key] # NoRow
      BY <2>3, AcceptedHasKey DEF ApiInv, ToldIsRecorded, Grows
    <3> QED BY <2>1, <2>0, <3>1, <3>2, <3>3 DEF ApiInv, ToldIsRecorded
  <2> QED BY <1>0, <2>2, <2>3, <2>5, <2>6, AgentsStay
<1>2. ASSUME NEW g \in Agent, NEW r \in Submitted, Deduplicate(g, r) PROVE ApiInv'
  <2>1. PICK k \in Key : k = KeyOf[r]
    BY KeyOfAssumption
  <2>0. r \in Accepted
    BY <1>2 DEF Record, Deduplicate, Accepted
  <2>2. /\ rows[k] # NoRow /\ UNCHANGED <<ledgerVars, submission>>
        /\ reply' = [reply EXCEPT ![g] = [request |-> r, key |-> k]]
        /\ UNCHANGED <<reading, answers>>
    BY <1>2, <2>1 DEF Deduplicate, Reply
  <2>3. LedgerTypeOK' /\ AuditChain' /\ Grows
    BY <1>0, <2>2, LedgerGrows
  <2>4. rows' = rows /\ submission' = submission
    BY <2>2 DEF ledgerVars
  <2>5. RowsHoldRequests'
    BY <2>4 DEF ApiInv, RowsHoldRequests
  <2>6. ToldIsRecorded'
    <3>1. reply'[g] = [request |-> r, key |-> k] /\ \A h \in Agent \ {g} : reply'[h] = reply[h]
      BY <1>0, <2>2
    <3> QED BY <2>1, <2>0, <2>2, <2>4, <3>1 DEF ApiInv, ToldIsRecorded
  <2> QED BY <1>0, <2>2, <2>3, <2>4, <2>5, <2>6, AgentsStay
<1>3. CASE Resolve \/ UNCHANGED vars
  <2>1. /\ UNCHANGED ledgerVars \/ \E k \in Key, to \in ActionState : TransitionNow(k, to, NoKind)
        /\ UNCHANGED <<submission, reply, reading, answers>>
    BY <1>3 DEF Resolve, vars, ledgerVars
  <2>2. LedgerTypeOK' /\ AuditChain' /\ Grows
    BY <1>0, <2>1, LedgerGrows
  <2>3. \A k \in Key : rows'[k] # NoRow <=> rows[k] # NoRow
    <3>1. CASE UNCHANGED ledgerVars
      BY <3>1 DEF ledgerVars
    <3>2. ASSUME NEW k \in Key, NEW to \in ActionState, TransitionNow(k, to, NoKind)
          PROVE  \A j \in Key : rows'[j] # NoRow <=> rows[j] # NoRow
      <4>1. rows[k] # NoRow /\ rows' = [rows EXCEPT ![k] = to]
        BY <3>2 DEF TransitionNow, TransitionAllowed, WriteTransition, IsLegalTransition,
                    LEGAL_TRANSITIONS, NoRow
      <4> QED BY <1>0, <4>1 DEF ActionState, NoRow
    <3> QED BY <2>1, <3>1, <3>2
  <2>4. RowsHoldRequests'
    BY <2>1, <2>3 DEF ApiInv, RowsHoldRequests
  <2>5. ToldIsRecorded'
    BY <2>1, <2>3, AcceptedHasKey DEF ApiInv, ToldIsRecorded
  <2> QED BY <1>0, <2>1, <2>2, <2>4, <2>5, AgentsStay
<1>4. ASSUME NEW g \in Agent, SelectAction(g) PROVE ApiInv'
  <2>1. PICK k : k = reply[g].key
    OBVIOUS
  <2>2. /\ k # NoKey /\ reading' = [reading EXCEPT ![g] = [key |-> k, state |-> rows[k]]]
        /\ UNCHANGED ledgerVars /\ UNCHANGED <<submission, reply, answers>>
    BY <1>4, <2>1 DEF SelectAction
  <2>3. k \in Key /\ rows[k] # NoRow
    BY <2>1, <2>2, AcceptedHasKey DEF ApiInv, ToldIsRecorded, NoReply
  <2>4. LedgerTypeOK' /\ AuditChain' /\ rows' = rows /\ events' = events
    BY <1>0, <2>2, LedgerGrows DEF ledgerVars
  <2>5. reading' \in [Agent -> [key : Key \cup {NoKey}, state : ActionState \cup {NoRow}]]
    BY <1>0, <2>2, <2>3
  <2>6. StateReadWasPassed'
    <3>1. reading'[g] = [key |-> k, state |-> rows[k]]
          /\ \A h \in Agent \ {g} : reading'[h] = reading[h]
      BY <1>0, <2>2
    <3>2. Passed(events[k], rows[k])
      BY <1>0, <2>3, PassedNow DEF AuditChain
    <3>3. \A h \in Agent \ {g} : reading[h] # NotReading =>
            /\ reading[h].key \in Key /\ rows[reading[h].key] # NoRow
            /\ Passed(events[reading[h].key], reading[h].state)
      BY DEF ApiInv, StateReadWasPassed
    <3>4. \A h \in Agent : reading'[h] # NotReading =>
            /\ reading'[h].key \in Key /\ rows[reading'[h].key] # NoRow
            /\ Passed(events[reading'[h].key], reading'[h].state)
      BY <2>3, <3>1, <3>2, <3>3
    <3> QED BY <2>4, <3>4 DEF StateReadWasPassed
  <2>7. RowsHoldRequests' /\ ToldIsRecorded' /\ AnswersArePrefixes'
    BY <2>2, <2>4 DEF ApiInv, RowsHoldRequests, ToldIsRecorded, AnswersArePrefixes
  <2>8. ApiTypeOK'
    BY <1>0, <2>2, <2>4, <2>5 DEF ApiTypeOK
  <2> QED BY <2>4, <2>6, <2>7, <2>8 DEF ApiInv
<1>5. ASSUME NEW g \in Agent, SelectEvents(g) PROVE ApiInv'
  <2>1. PICK k : k = reading[g].key
    OBVIOUS
  <2>2. /\ reading[g] # NotReading /\ reading' = [reading EXCEPT ![g] = NotReading]
        /\ answers' = [answers EXCEPT ![g][k] =
                         [state |-> reading[g].state, trail |-> events[k]]]
        /\ UNCHANGED ledgerVars /\ UNCHANGED <<submission, reply>>
    BY <1>5, <2>1 DEF SelectEvents, Respond
  <2>3. k \in Key
    BY <2>1, <2>2 DEF ApiInv, StateReadWasPassed
  <2>4. LedgerTypeOK' /\ AuditChain' /\ rows' = rows /\ events' = events
    BY <1>0, <2>2, LedgerGrows DEF ledgerVars
  <2>5. reading' \in [Agent -> [key : Key \cup {NoKey}, state : ActionState \cup {NoRow}]]
    BY <1>0, <2>2 DEF NotReading
  <2>6. [state |-> reading[g].state, trail |-> events[k]]
          \in [state : ActionState \cup {NoRow}, trail : Seq(Event)]
    BY <1>0, <2>3
  <2>7. answers' \in [Agent -> [Key -> [state : ActionState \cup {NoRow}, trail : Seq(Event)]]]
    BY <1>0, <2>2, <2>6
  <2>8. ApiTypeOK'
    BY <1>0, <2>2, <2>4, <2>5, <2>7 DEF ApiTypeOK
  <2>9. StateReadWasPassed'
    <3>1. reading'[g] = NotReading /\ \A h \in Agent \ {g} : reading'[h] = reading[h]
      BY <1>0, <2>2
    <3>2. \A h \in Agent : reading'[h] # NotReading =>
            /\ reading'[h].key \in Key /\ rows[reading'[h].key] # NoRow
            /\ Passed(events[reading'[h].key], reading'[h].state)
      BY <3>1 DEF ApiInv, StateReadWasPassed
    <3> QED BY <2>4, <3>2 DEF StateReadWasPassed
  <2>10. AnswersArePrefixes'
    <3>1. \A h \in Agent, j \in Key :
            answers'[h][j].trail = IF h = g /\ j = k THEN events[k] ELSE answers[h][j].trail
      BY <1>0, <2>2, <2>3
    <3>2. IsPrefix(events[k], events[k])
      BY <1>0, <2>3, LenProperties DEF IsPrefix
    <3> QED BY <2>4, <3>1, <3>2 DEF ApiInv, AnswersArePrefixes
  <2>11. RowsHoldRequests' /\ ToldIsRecorded'
    BY <2>2, <2>4 DEF ApiInv, RowsHoldRequests, ToldIsRecorded
  <2> QED BY <2>4, <2>8, <2>9, <2>10, <2>11 DEF ApiInv
<1> QED BY <1>1, <1>2, <1>3, <1>4, <1>5 DEF Next

LEMMA ApiInvariant == Spec => []ApiInv
BY ApiInit, ApiStep, PTL DEF Spec

-----------------------------------------------------------------------------

(* A key is told for one intent only, and the other way round: what        *)
(* derive_key (idempotency.py) has to be for the two theorems below, and   *)
(* what the runs find it to be.                                            *)
KeysTellIntentsApart ==
  \A r, q \in Accepted : KeyOf[r] = KeyOf[q] => IntentOf[r] = IntentOf[q]

KeysFollowIntents ==
  \A r, q \in Accepted : IntentOf[r] = IntentOf[q] => KeyOf[r] = KeyOf[q]

(* DeduplicatedSame: whoever records first, and whatever happens to the    *)
(* action since, an agent that is told of an action asked for the intent   *)
(* it was recorded for, if keys tell intents apart.                        *)
THEOREM DeduplicatedSame ==
  ASSUME KeysTellIntentsApart
  PROVE  Spec => []DeduplicatedIsSame
<1>1. ApiInv => DeduplicatedIsSame
  <2>1. SUFFICES ASSUME ApiInv, NEW g \in Agent, reply[g] # NoReply
                 PROVE  IntentOf[reply[g].request] = IntentOf[submission[reply[g].key]]
    BY DEF DeduplicatedIsSame
  <2>2. /\ reply[g].request \in Accepted /\ reply[g].key = KeyOf[reply[g].request]
        /\ rows[reply[g].key] # NoRow
    BY <2>1 DEF ApiInv, ToldIsRecorded
  <2>3. reply[g].key \in Key
    BY <2>2, AcceptedHasKey
  <2>4. submission[reply[g].key] \in Accepted /\ KeyOf[submission[reply[g].key]] = reply[g].key
    BY <2>1, <2>2, <2>3 DEF ApiInv, RowsHoldRequests
  <2> QED BY <2>2, <2>4 DEF KeysTellIntentsApart
<1> QED BY <1>1, ApiInvariant, PTL

(* OneRowForIntent: one intent is never recorded twice, however many       *)
(* agents send it in however many spellings, if its keys follow from it.   *)
THEOREM OneRowForIntent ==
  ASSUME KeysFollowIntents
  PROVE  Spec => []OneRowPerIntent
<1>1. ApiInv => OneRowPerIntent
  BY DEF ApiInv, RowsHoldRequests, OneRowPerIntent, KeysFollowIntents
<1> QED BY <1>1, ApiInvariant, PTL

(* AnswersOnlyGrow: an agent that asks again sees its last answer's trail  *)
(* and perhaps more, whatever was committed in between (repository.py      *)
(* only ever adds events).                                                 *)
THEOREM AnswersOnlyGrow == Spec => AnswersGrow
<1>1. ASSUME ApiInv, [Next]_vars
      PROVE  [\A g \in Agent, k \in Key :
                IsPrefix(answers[g][k].trail, answers'[g][k].trail)]_vars
  <2>1. /\ \A g \in Agent, k \in Key : IsPrefix(answers[g][k].trail, events[k])
        /\ answers \in [Agent -> [Key -> [state : ActionState \cup {NoRow}, trail : Seq(Event)]]]
        /\ events \in [Key -> Seq(Event)]
    BY <1>1 DEF ApiInv, AnswersArePrefixes, ApiTypeOK, LedgerTypeOK
  <2>2. ASSUME NEW s \in Seq(Event) PROVE IsPrefix(s, s)
    BY LenProperties DEF IsPrefix
  <2>3. CASE answers' = answers
    BY <2>1, <2>2, <2>3
  <2>4. ASSUME NEW g \in Agent, SelectEvents(g)
        PROVE  \A h \in Agent, j \in Key : IsPrefix(answers[h][j].trail, answers'[h][j].trail)
    <3>1. PICK k \in Key : k = reading[g].key
      BY <1>1, <2>4 DEF ApiInv, StateReadWasPassed, SelectEvents
    <3>2. answers' = [answers EXCEPT ![g][k] =
                        [state |-> reading[g].state, trail |-> events[k]]]
      BY <2>4, <3>1 DEF SelectEvents, Respond
    <3>3. \A h \in Agent, j \in Key :
            answers'[h][j].trail = IF h = g /\ j = k THEN events[k] ELSE answers[h][j].trail
      BY <2>1, <3>2
    <3> QED BY <2>1, <2>2, <3>3
  <2>5. \/ answers' = answers \/ \E g \in Agent : SelectEvents(g)
    BY <1>1 DEF Next, Resolve, Record, Deduplicate, SelectAction, vars
  <2> QED BY <2>3, <2>4, <2>5
<1> QED BY <1>1, ApiInvariant, PTL DEF Spec, AnswersGrow

(* TrailsExplained: every answer of a GET comes with a trail that passes   *)
(* through the state it tells, whatever the ledger did between the two     *)
(* SELECTs.                                                                *)
THEOREM TrailsExplained == Spec => []TrailReachesState
<1> DEFINE Explained(a) ==
      /\ \E n \in 1 .. Len(a.trail) : Chained(SubSeq(a.trail, 1, n), a.state)
      /\ Chained(a.trail, Last(a.trail).to)
    Inv == \A g \in Agent, k \in Key : answers[g][k] # NoAnswer => Explained(answers[g][k])
<1>1. Init => Inv
  BY DEF Init
<1>2. ApiInv /\ Inv /\ [Next]_vars => Inv'
  <2> SUFFICES ASSUME ApiInv, Inv, [Next]_vars PROVE Inv'
    OBVIOUS
  <2>1. CASE answers' = answers
    BY <2>1
  <2>2. ASSUME NEW g \in Agent, SelectEvents(g) PROVE Inv'
    <3>1. PICK k \in Key : k = reading[g].key
      BY <2>2 DEF ApiInv, StateReadWasPassed, SelectEvents
    <3>2. /\ answers' = [answers EXCEPT ![g][k] =
                           [state |-> reading[g].state, trail |-> events[k]]]
          /\ reading[g] # NotReading
      BY <2>2, <3>1 DEF SelectEvents, Respond
    <3>3. /\ answers \in [Agent -> [Key -> [state : ActionState \cup {NoRow}, trail : Seq(Event)]]]
          /\ events \in [Key -> Seq(Event)]
      BY DEF ApiInv, ApiTypeOK, LedgerTypeOK
    <3>4. /\ answers'[g][k] = [state |-> reading[g].state, trail |-> events[k]]
          /\ \A h \in Agent, j \in Key : ~ (h = g /\ j = k) => answers'[h][j] = answers[h][j]
      BY <3>2, <3>3
    <3>5. Passed(events[k], reading[g].state) /\ rows[k] # NoRow
      BY <3>1, <3>2 DEF ApiInv, StateReadWasPassed
    <3>6. Chained(events[k], Last(events[k]).to)
      <4>1. Chained(events[k], rows[k])
        BY <3>5 DEF ApiInv, AuditChain
      <4> QED BY <3>3, <4>1, PassedNow
    <3>7. Explained(answers'[g][k])
      BY <3>4, <3>5, <3>6 DEF Passed
    <3> HIDE DEF Explained
    <3> QED BY <3>4, <3>7
  <2>3. \/ answers' = answers \/ \E g \in Agent : SelectEvents(g)
    BY DEF Next, Resolve, Record, Deduplicate, SelectAction, vars
  <2> QED BY <2>1, <2>2, <2>3
<1>3. Inv => TrailReachesState
  <2>1. SUFFICES ASSUME Inv, NEW a \in Told PROVE Explained(a)
    BY DEF TrailReachesState
  <2>2. PICK g \in Agent, k \in Key : a = answers[g][k] /\ a # NoAnswer
    BY DEF Told
  <2> HIDE DEF Explained
  <2> QED BY <2>1, <2>2
<1> QED BY <1>1, <1>2, <1>3, ApiInvariant, PTL DEF Spec

-----------------------------------------------------------------------------
(***************************************************************************)
(* The text of a key.  A tool's name without a '|' is one word, and JSON   *)
(* does not begin with a word, so the last word before the JSON is the     *)
(* tool and the one before it the step, whatever the task is.              *)
(***************************************************************************)
BeginsAsJson(json) == json # <<>> /\ \A w : json[1] # Word(w)

WordsOf(W) == {Word(w) : w \in W}

Head3(task, step, tool) == Words(task) \o Words(<<step>>) \o Words(tool)

IsHead(h, task, step, tool) ==
  /\ Len(h) = Len(task) + 2
  /\ \A i \in 1 .. Len(task) : h[i] = Word(task[i])
  /\ h[Len(task) + 1] = Word(step)
  /\ h[Len(task) + 2] = Word(tool[1])

(* The words W and the tokens J that a key's parts are made of.            *)
IsParts(W, J, task, step, tool, json) ==
  /\ task \in Seq(W) /\ step \in W
  /\ tool \in Seq(W) /\ Len(tool) = 1
  /\ json \in Seq(J) /\ BeginsAsJson(json)

(* HeadIsWords: what comes before the JSON is words: the task's, the step  *)
(* and the tool.                                                           *)
LEMMA HeadIsWords ==
  ASSUME NEW W, NEW task \in Seq(W), NEW step \in W, NEW tool \in Seq(W), Len(tool) = 1
  PROVE  /\ Head3(task, step, tool) \in Seq(WordsOf(W))
         /\ IsHead(Head3(task, step, tool), task, step, tool)
<1> DEFINE T == WordsOf(W)
           a == Words(task)
           b == Words(<<step>>)
           c == Words(tool)
<1>1. ASSUME NEW text \in Seq(W)
      PROVE  /\ Words(text) \in Seq(T) /\ Len(Words(text)) = Len(text)
             /\ \A i \in 1 .. Len(text) : Words(text)[i] = Word(text[i])
  <2>1. Words(text) = [i \in 1 .. Len(text) |-> Word(text[i])] BY <1>1 DEF Words
  <2>2. \A i \in 1 .. Len(text) : Word(text[i]) \in T BY <1>1 DEF WordsOf
  <2> HIDE DEF T
  <2> QED BY <2>1, <2>2, <1>1
<1>2. /\ a \in Seq(T) /\ Len(a) = Len(task)
      /\ \A i \in 1 .. Len(task) : a[i] = Word(task[i])
  BY <1>1
<1>3. b \in Seq(T) /\ Len(b) = 1 /\ b[1] = Word(step)
  <2>1. <<step>> \in Seq(W) /\ Len(<<step>>) = 1 /\ <<step>>[1] = step OBVIOUS
  <2> HIDE DEF T
  <2>2. b \in Seq(T) /\ Len(b) = Len(<<step>>) /\ b[1] = Word(<<step>>[1]) BY <1>1, <2>1
  <2> QED BY <2>1, <2>2
<1>4. c \in Seq(T) /\ Len(c) = 1 /\ c[1] = Word(tool[1])
  <2> HIDE DEF T
  <2>1. 1 \in 1 .. Len(tool) OBVIOUS
  <2>2. c \in Seq(T) /\ Len(c) = Len(tool) /\ c[1] = Word(tool[1]) BY <1>1, <2>1
  <2> QED BY <2>2
<1> HIDE DEF a, b, c, T
<1>5. /\ a \o b \in Seq(T) /\ Len(a \o b) = Len(task) + 1
      /\ \A i \in 1 .. Len(task) : (a \o b)[i] = Word(task[i])
      /\ (a \o b)[Len(task) + 1] = Word(step)
  <2>1. Len(task) \in Nat OBVIOUS
  <2>2. PICK n : n = Len(task) + 1 OBVIOUS
  <2>3. n \in 1 .. Len(a) + Len(b) /\ ~ (n <= Len(a)) /\ n - Len(a) = 1
    BY <1>2, <1>3, <2>1, <2>2
  <2>4. (a \o b)[n] = b[1] BY <1>2, <1>3, <2>3, ConcatProperties
  <2>5. a \o b \in Seq(T) /\ Len(a \o b) = Len(task) + 1
    <3>1. a \o b \in Seq(T) BY <1>2, <1>3, ConcatProperties
    <3>2. Len(a \o b) = Len(a) + Len(b) BY <1>2, <1>3, ConcatProperties
    <3> QED BY <1>2, <1>3, <3>1, <3>2
  <2>6. ASSUME NEW i \in 1 .. Len(task) PROVE (a \o b)[i] = Word(task[i])
    <3>1. i \in 1 .. Len(a) + Len(b) /\ i <= Len(a) BY <1>2, <1>3, <2>1
    <3>2. (a \o b)[i] = a[i] BY <1>2, <1>3, <3>1, ConcatProperties
    <3> QED BY <1>2, <3>2
  <2> QED BY <1>3, <2>2, <2>4, <2>5, <2>6
<1>6. /\ (a \o b) \o c \in Seq(T) /\ Len((a \o b) \o c) = Len(task) + 2
      /\ \A i \in 1 .. Len(task) + 1 : ((a \o b) \o c)[i] = (a \o b)[i]
      /\ ((a \o b) \o c)[Len(task) + 2] = Word(tool[1])
  <2> DEFINE d == a \o b
  <2>1. Len(task) \in Nat OBVIOUS
  <2>2. PICK n : n = Len(task) + 2 OBVIOUS
  <2>3. d \in Seq(T) /\ Len(d) = Len(task) + 1 BY <1>5
  <2> HIDE DEF d
  <2>4. n \in 1 .. Len(d) + Len(c) /\ ~ (n <= Len(d)) /\ n - Len(d) = 1
    BY <1>4, <2>1, <2>2, <2>3
  <2>5. (d \o c)[n] = c[1] BY <1>4, <2>3, <2>4, ConcatProperties
  <2>6. d \o c \in Seq(T) /\ Len(d \o c) = Len(d) + 1
    <3>1. d \o c \in Seq(T) BY <1>4, <2>3, ConcatProperties
    <3>2. Len(d \o c) = Len(d) + Len(c) BY <1>4, <2>3, ConcatProperties
    <3> QED BY <1>4, <3>1, <3>2
  <2>7. ASSUME NEW i \in 1 .. Len(task) + 1 PROVE (d \o c)[i] = d[i]
    <3>1. i \in 1 .. Len(d) + Len(c) /\ i <= Len(d) BY <1>4, <2>1, <2>3
    <3> QED BY <1>4, <2>3, <3>1, ConcatProperties
  <2>8. Len(d) + 1 = Len(task) + 2 BY <2>1, <2>3
  <2> QED BY <1>4, <2>2, <2>5, <2>6, <2>7, <2>8 DEF d
<1>7. Head3(task, step, tool) = (a \o b) \o c
  BY DEF Head3, a, b, c
<1>8. IsHead((a \o b) \o c, task, step, tool)
  BY <1>5, <1>6 DEF IsHead
<1> QED BY <1>6, <1>7, <1>8 DEF T

(* NoShorterHead: of two texts that are the same, neither head ends first. *)
LEMMA NoShorterHead ==
  ASSUME NEW S, NEW g \in Seq(S), NEW h \in Seq(S), NEW i \in Seq(S), NEW j \in Seq(S),
         \A n \in 1 .. Len(h) : \E w : h[n] = Word(w),
         BeginsAsJson(i), g \o i = h \o j
  PROVE  Len(h) <= Len(g)
<1> SUFFICES ASSUME Len(g) < Len(h) PROVE FALSE OBVIOUS
<1>1. Len(i) \in Nat \ {0} /\ Len(g) \in Nat /\ Len(h) \in Nat /\ Len(j) \in Nat
  BY DEF BeginsAsJson
<1>2. PICK n : n = Len(g) + 1 OBVIOUS
<1>3. n \in 1 .. Len(g) + Len(i) /\ n \in 1 .. Len(h) /\ n - Len(g) = 1 /\ ~ (n <= Len(g))
      /\ n \in 1 .. Len(h) + Len(j)
  BY <1>1, <1>2
<1>4. (g \o i)[n] = i[1] BY <1>3, ConcatProperties
<1>5. (h \o j)[n] = h[n] BY <1>3, ConcatProperties
<1> QED BY <1>3, <1>4, <1>5 DEF BeginsAsJson

(* SplitAlike: texts that are the same and split at the same length have   *)
(* the same parts.                                                         *)
LEMMA SplitAlike ==
  ASSUME NEW S, NEW g \in Seq(S), NEW h \in Seq(S), NEW i \in Seq(S), NEW j \in Seq(S),
         Len(g) = Len(h), g \o i = h \o j
  PROVE  g = h /\ i = j
<1>1. Len(g) \in Nat /\ Len(i) \in Nat /\ Len(j) \in Nat
  OBVIOUS
<1>2. Len(g \o i) = Len(g) + Len(i) /\ Len(h \o j) = Len(h) + Len(j)
  BY ConcatProperties
<1>3. Len(i) = Len(j)
  BY <1>1, <1>2
<1>4. ASSUME NEW n \in 1 .. Len(g) PROVE g[n] = h[n]
  <2>1. n \in 1 .. Len(g) + Len(i) /\ n \in 1 .. Len(h) + Len(j) /\ n <= Len(g)
    BY <1>1, <1>3
  <2>2. (g \o i)[n] = g[n] BY <2>1, ConcatProperties
  <2>3. (h \o j)[n] = h[n] BY <2>1, ConcatProperties
  <2> QED BY <2>2, <2>3
<1>5. ASSUME NEW n \in 1 .. Len(i) PROVE i[n] = j[n]
  <2>1. PICK m : m = Len(g) + n
    OBVIOUS
  <2>2. /\ m \in 1 .. Len(g) + Len(i) /\ m \in 1 .. Len(h) + Len(j)
        /\ ~ (m <= Len(g)) /\ ~ (m <= Len(h)) /\ m - Len(g) = n /\ m - Len(h) = n
    BY <1>1, <1>3, <2>1
  <2>3. (g \o i)[m] = i[n] BY <2>2, ConcatProperties
  <2>4. (h \o j)[m] = j[n] BY <2>2, ConcatProperties
  <2> QED BY <2>3, <2>4
<1>6. g = h BY <1>4, SeqEqual
<1>7. i = j BY <1>3, <1>5, SeqEqual
<1> QED BY <1>6, <1>7

(* KeyTextTellsApart: from the text of a key one reads back the task, the  *)
(* step, the tool and the JSON, though the separator is allowed in a task. *)
LEMMA KeyTextTellsApart ==
  ASSUME NEW W, NEW J,
         NEW task1, NEW step1, NEW tool1, NEW json1, IsParts(W, J, task1, step1, tool1, json1),
         NEW task2, NEW step2, NEW tool2, NEW json2, IsParts(W, J, task2, step2, tool2, json2),
         KeyText(task1, step1, tool1, json1) = KeyText(task2, step2, tool2, json2)
  PROVE  task1 = task2 /\ step1 = step2 /\ tool1 = tool2 /\ json1 = json2
<1>1. PICK g, h, S : /\ g = Head3(task1, step1, tool1)
                     /\ h = Head3(task2, step2, tool2)
                     /\ S = WordsOf(W) \cup J
  OBVIOUS
<1>2. /\ task1 \in Seq(W) /\ step1 \in W /\ tool1 \in Seq(W) /\ Len(tool1) = 1
      /\ task2 \in Seq(W) /\ step2 \in W /\ tool2 \in Seq(W) /\ Len(tool2) = 1
      /\ json1 \in Seq(J) /\ BeginsAsJson(json1) /\ json2 \in Seq(J) /\ BeginsAsJson(json2)
  BY DEF IsParts
<1>3. /\ g \in Seq(WordsOf(W)) /\ IsHead(g, task1, step1, tool1)
      /\ h \in Seq(WordsOf(W)) /\ IsHead(h, task2, step2, tool2)
  BY <1>1, <1>2, HeadIsWords
<1>4. /\ \A i \in 1 .. Len(g) : \E w : g[i] = Word(w)
      /\ \A i \in 1 .. Len(h) : \E w : h[i] = Word(w)
  <2>1. ASSUME NEW t \in Seq(WordsOf(W)), NEW i \in 1 .. Len(t) PROVE \E w : t[i] = Word(w)
    <3>1. t[i] \in WordsOf(W) BY ElementOfSeq
    <3> QED BY <3>1 DEF WordsOf
  <2> QED BY <1>3, <2>1
<1>5. g \o json1 = h \o json2
  BY <1>1 DEF KeyText, Head3
<1>6. g \in Seq(S) /\ h \in Seq(S) /\ json1 \in Seq(S) /\ json2 \in Seq(S)
  <2>1. WordsOf(W) \subseteq S /\ J \subseteq S BY <1>1
  <2> QED BY <1>2, <1>3, <2>1, SeqMonotonic
<1>7. Len(g) = Len(h)
  <2>1. Len(h) <= Len(g) BY <1>2, <1>4, <1>5, <1>6, NoShorterHead
  <2>2. Len(g) <= Len(h) BY <1>2, <1>4, <1>5, <1>6, NoShorterHead
  <2>3. Len(g) \in Nat /\ Len(h) \in Nat BY <1>6
  <2> QED BY <2>1, <2>2, <2>3
<1>8. g = h /\ json1 = json2
  BY <1>5, <1>6, <1>7, SplitAlike
<1>9. Len(task1) = Len(task2)
  <2>1. Len(g) = Len(task1) + 2 /\ Len(h) = Len(task2) + 2 BY <1>3 DEF IsHead
  <2>2. Len(task1) \in Nat /\ Len(task2) \in Nat BY <1>2
  <2>3. \A m, n \in Nat : m + 2 = n + 2 => m = n OBVIOUS
  <2>4. Len(task1) + 2 = Len(task2) + 2 BY <1>7, <2>1
  <2> QED BY <2>2, <2>3, <2>4
<1>10. task1 = task2
  <2>1. \A i \in 1 .. Len(task1) : task1[i] = task2[i]
    BY <1>3, <1>8, <1>9 DEF IsHead, Word
  <2> QED BY <1>2, <1>9, <2>1, SeqEqual
<1>11. step1 = step2 /\ tool1[1] = tool2[1]
  BY <1>3, <1>8, <1>9 DEF IsHead, Word
<1>12. tool1 = tool2
  <2>1. \A i \in 1 .. Len(tool1) : tool1[i] = tool2[i] BY <1>2, <1>11
  <2> QED BY <1>2, <2>1, SeqEqual
<1> QED BY <1>8, <1>10, <1>11, <1>12

(* DeduplicatedByText: whichever words a task is made of, '|' between them *)
(* or not, an agent that is told of an action asked for its intent, if     *)
(* keys are the hashed texts of derive_key, no tool has a '|' in its name, *)
(* a step is written one way, and canonical JSON determines the value that *)
(* Python reads.                                                           *)
THEOREM DeduplicatedByText ==
  ASSUME NEW W, NEW J, NEW StepText, NEW JsonOf, NEW ValueOf,
         \A r \in Accepted :
           /\ IsParts(W, J, r.task, StepText[r.step], r.tool, JsonOf[r.args])
           /\ KeyOf[r] = KeyText(r.task, StepText[r.step], r.tool, JsonOf[r.args])
           /\ IntentOf[r] = <<r.task, r.step, r.tool, ValueOf[r.args]>>,
         \A r, q \in Accepted :
           /\ StepText[r.step] = StepText[q.step] => r.step = q.step
           /\ JsonOf[r.args] = JsonOf[q.args] => ValueOf[r.args] = ValueOf[q.args]
  PROVE  Spec => []DeduplicatedIsSame
<1>1. ASSUME NEW r \in Accepted, NEW q \in Accepted, KeyOf[r] = KeyOf[q]
      PROVE  IntentOf[r] = IntentOf[q]
  <2>1. KeyText(r.task, StepText[r.step], r.tool, JsonOf[r.args])
          = KeyText(q.task, StepText[q.step], q.tool, JsonOf[q.args])
    BY <1>1
  <2>2. /\ r.task = q.task /\ r.tool = q.tool
        /\ StepText[r.step] = StepText[q.step] /\ JsonOf[r.args] = JsonOf[q.args]
    <3>1. /\ IsParts(W, J, r.task, StepText[r.step], r.tool, JsonOf[r.args])
          /\ IsParts(W, J, q.task, StepText[q.step], q.tool, JsonOf[q.args])
      OBVIOUS
    <3> QED BY <2>1, <3>1, KeyTextTellsApart
  <2>3. r.step = q.step /\ ValueOf[r.args] = ValueOf[q.args]
    BY <2>2
  <2>4. /\ IntentOf[r] = <<r.task, r.step, r.tool, ValueOf[r.args]>>
        /\ IntentOf[q] = <<q.task, q.step, q.tool, ValueOf[q.args]>>
    OBVIOUS
  <2> QED BY <2>2, <2>3, <2>4
<1>2. KeysTellIntentsApart
  BY <1>1 DEF KeysTellIntentsApart
<1> QED BY <1>2, DeduplicatedSame

=============================================================================
