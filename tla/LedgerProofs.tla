---------------------------- MODULE LedgerProofs ----------------------------
(***************************************************************************)
(* What the two transactions of the ledger preserve, whoever runs them.    *)
(***************************************************************************)
EXTENDS Ledger, TLAPS

LEMMA InsertType ==
  ASSUME NEW k \in Key, LedgerTypeOK, InsertAction(k)
  PROVE  LedgerTypeOK'
<1>1. [from |-> NoState, to |-> "RECEIVED"] \in Event
  BY DEF Event, ActionState
<1>2. events[k] \in Seq(Event)
  BY DEF LedgerTypeOK
<1>3. Append(events[k], [from |-> NoState, to |-> "RECEIVED"]) \in Seq(Event)
  BY <1>1, <1>2
<1>4. rows' \in [Key -> ActionState \cup {NoRow}]
  BY DEF LedgerTypeOK, InsertAction, ActionState
<1> QED BY <1>3, <1>4 DEF LedgerTypeOK, InsertAction

LEMMA WriteType ==
  ASSUME NEW k \in Key, LedgerTypeOK, NEW from \in ActionState,
         NEW target \in ActionState, NEW kind \in OutboxKind \cup {NoKind},
         WriteTransition(k, from, target, kind)
  PROVE  LedgerTypeOK'
<1>1. [from |-> from, to |-> target] \in Event
  BY DEF Event
<1>2. events[k] \in Seq(Event) /\ outbox[k] \in Seq(OutboxKind)
  BY DEF LedgerTypeOK
<1>3. Append(events[k], [from |-> from, to |-> target]) \in Seq(Event)
  BY <1>1, <1>2
<1>4. events' \in [Key -> Seq(Event)]
  BY <1>3 DEF LedgerTypeOK, WriteTransition
<1>5. rows' \in [Key -> ActionState \cup {NoRow}]
  BY DEF LedgerTypeOK, WriteTransition
<1>6. kind # NoKind => Append(outbox[k], kind) \in Seq(OutboxKind)
  BY <1>2
<1>7. outbox' \in [Key -> Seq(OutboxKind)]
  BY <1>6 DEF LedgerTypeOK, WriteTransition
<1> QED BY <1>4, <1>5, <1>7 DEF LedgerTypeOK

-----------------------------------------------------------------------------
(* A trail that tells one story still does when a legal event is appended. *)
LEMMA ChainedAppend ==
  ASSUME NEW trail \in Seq(Event), NEW from \in ActionState, NEW to \in ActionState,
         Chained(trail, from), IsLegalTransition(from, to)
  PROVE  Chained(Append(trail, [from |-> from, to |-> to]), to)
<1> DEFINE longer == Append(trail, [from |-> from, to |-> to])
<1>1. /\ Len(longer) = Len(trail) + 1 /\ Len(trail) \in Nat /\ Len(trail) > 0
      /\ \A i \in 1 .. Len(trail) : longer[i] = trail[i]
      /\ longer[Len(trail) + 1] = [from |-> from, to |-> to]
  BY DEF Chained
<1>2. longer[1] = [from |-> NoState, to |-> "RECEIVED"] /\ Len(longer) > 0
  BY <1>1 DEF Chained
<1>3. longer[Len(longer)].to = to
  BY <1>1
<1>4. ASSUME NEW i \in 2 .. Len(longer)
      PROVE  /\ longer[i].from = longer[i - 1].to
             /\ IsLegalTransition(longer[i].from, longer[i].to)
  <2>1. CASE i \in 2 .. Len(trail)
    <3>1. longer[i] = trail[i] /\ longer[i - 1] = trail[i - 1]
      BY <1>1, <2>1
    <3> QED BY <2>1, <3>1 DEF Chained
  <2>2. CASE i = Len(trail) + 1
    <3>1. longer[i] = [from |-> from, to |-> to] /\ longer[i - 1] = trail[Len(trail)]
      BY <1>1, <2>2
    <3> QED BY <3>1 DEF Chained
  <2> QED BY <1>1, <2>1, <2>2
<1> HIDE DEF longer
<1> QED BY <1>2, <1>3, <1>4 DEF Chained

(* Recording an action starts its trail.                                   *)
LEMMA InsertAudit ==
  ASSUME NEW k \in Key, LedgerTypeOK, AuditChain, InsertAction(k)
  PROVE  AuditChain'
<1> DEFINE first == [from |-> NoState, to |-> "RECEIVED"]
<1>1. /\ rows[k] = NoRow /\ rows' = [rows EXCEPT ![k] = "RECEIVED"]
      /\ events' = [events EXCEPT ![k] = Append(events[k], first)]
  BY DEF InsertAction
<1>2. /\ rows \in [Key -> ActionState \cup {NoRow}] /\ events \in [Key -> Seq(Event)]
  BY DEF LedgerTypeOK
<1>3. events[k] = <<>>
  BY <1>1 DEF AuditChain
<1>4. events'[k] = <<first>> /\ rows'[k] = "RECEIVED"
  BY <1>1, <1>2, <1>3
<1>5. Chained(<<first>>, "RECEIVED")
  BY DEF Chained
<1>6. \A j \in Key \ {k} : rows'[j] = rows[j] /\ events'[j] = events[j]
  BY <1>1, <1>2
<1> HIDE DEF first
<1> QED BY <1>4, <1>5, <1>6 DEF AuditChain, NoRow

(* A legal transition from the state the row is in continues its trail.    *)
LEMMA WriteAudit ==
  ASSUME NEW k \in Key, NEW target \in ActionState, NEW kind,
         LedgerTypeOK, AuditChain, rows[k] # NoRow,
         IsLegalTransition(rows[k], target), WriteTransition(k, rows[k], target, kind)
  PROVE  AuditChain'
<1>1. /\ rows \in [Key -> ActionState \cup {NoRow}] /\ events \in [Key -> Seq(Event)]
  BY DEF LedgerTypeOK
<1>2. /\ rows' = [rows EXCEPT ![k] = target]
      /\ events' = [events EXCEPT ![k] =
                      Append(events[k], [from |-> rows[k], to |-> target])]
  BY DEF WriteTransition
<1>3. Chained(events[k], rows[k]) /\ rows[k] \in ActionState
  BY <1>1 DEF AuditChain
<1>4. /\ rows'[k] = target
      /\ events'[k] = Append(events[k], [from |-> rows[k], to |-> target])
  BY <1>1, <1>2
<1>5. Chained(events'[k], rows'[k])
  BY <1>1, <1>3, <1>4, ChainedAppend
<1>6. \A j \in Key \ {k} : rows'[j] = rows[j] /\ events'[j] = events[j]
  BY <1>1, <1>2
<1>7. rows'[k] # NoRow
  BY <1>4 DEF ActionState, NoRow
<1> QED BY <1>5, <1>6, <1>7 DEF AuditChain

=============================================================================
