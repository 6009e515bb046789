---------------------------- MODULE TokensProofs ----------------------------
(***************************************************************************)
(* Proofs about Tokens, for any goroutines, roles and number of calls.     *)
(***************************************************************************)
EXTENDS Tokens, FiniteSetTheorems, TLAPS

\* A call in progress is one of its runner's calls, about a role.
CallsBegun ==
    \A r \in Runners : pc[r] \in {"waiting", "in", "producing"} =>
        call[r].role \in Roles /\ calls[r] >= 1

\* A sink was made by a call its runner has begun, and never by the one it is in.
MadeBefore ==
    \A k \in DOMAIN slots :
        /\ slots[k][2] <= calls[slots[k][1]]
        /\ \A r \in Runners : pc[r] \in {"waiting", "in"} => slots[k] # <<r, calls[r]>>

NoSinkShared == \A k, l \in DOMAIN slots : k # l => slots[k] # slots[l]

\* What was handed out for a role is what is filed under it.
HandedIsFiled ==
    \A k \in Roles : \A s \in handed[k] : Filed(k) /\ s = slots[k]

\* A producing verb is about to store into the sink of its role.
ProducesIntoSlot ==
    \A r \in Runners : pc[r] = "producing" =>
        Filed(call[r].role) /\ sink[r] = slots[call[r].role]

SlotInv == MadeBefore /\ NoSinkShared /\ HandedIsFiled

IInv == TypeOK /\ CallsBegun /\ SlotInv /\ ProducesIntoSlot /\ ProducedIsReadable

-----------------------------------------------------------------------------
LEMMA InitIInv == Init => IInv
  BY BoundsAssumption DEF Init, IInv, TypeOK, CallsBegun, SlotInv, MadeBefore, NoSinkShared,
     HandedIsFiled, ProducesIntoSlot, ProducedIsReadable, Filed, Calls

LEMMA CallForKeeps ==
    ASSUME IInv, NEW r \in Runners, NEW name \in Calls, NEW k \in Roles, CallFor(r, name, k)
    PROVE  IInv'
  <1> USE DEF IInv, TypeOK, CallFor, Goto, historyVars
  <1>1. TypeOK'
    BY BoundsAssumption
  <1>2. CallsBegun' /\ ProducesIntoSlot'
    BY DEF CallsBegun, ProducesIntoSlot, Filed
  <1>3. MadeBefore'
    <2> SUFFICES ASSUME NEW l \in DOMAIN slots
                 PROVE  /\ slots[l][2] <= calls'[slots[l][1]]
                        /\ \A q \in Runners :
                              pc'[q] \in {"waiting", "in"} => slots[l] # <<q, calls'[q]>>
      BY DEF MadeBefore
    <2>1. slots[l] \in Sinks /\ slots[l][2] <= calls[slots[l][1]]
      BY DEF SlotInv, MadeBefore
    <2>2. slots[l][1] \in Runners /\ slots[l][2] \in Nat
      BY <2>1 DEF Sinks
    <2>3. \A q \in Runners : calls[q] \in Nat /\ calls'[q] = IF q = r THEN calls[q] + 1 ELSE calls[q]
      BY BoundsAssumption
    <2>4. slots[l][2] <= calls'[slots[l][1]]
      BY <2>1, <2>2, <2>3
    <2>5. slots[l] # <<r, calls'[r]>>
      BY <2>1, <2>2, <2>3
    <2>6. \A q \in Runners \ {r} : pc'[q] = pc[q] /\ calls'[q] = calls[q]
      OBVIOUS
    <2> QED BY <2>4, <2>5, <2>6 DEF SlotInv, MadeBefore
  <1>4. NoSinkShared' /\ HandedIsFiled' /\ ProducedIsReadable'
    BY DEF SlotInv, NoSinkShared, HandedIsFiled, ProducedIsReadable, Filed
  <1> QED BY <1>1, <1>2, <1>3, <1>4 DEF SlotInv

\* The steps that move one runner and touch no slot.
LEMMA MoveKeeps ==
    ASSUME IInv, NEW r \in Runners, NEW place \in {"idle", "in", "gone"}, Goto(r, place),
           place = "in" => pc[r] = "waiting",
           UNCHANGED <<slots, filled, call, calls, handed, stored>>,
           mu' \in Runners \cup {None},
           \/ UNCHANGED sink
           \/ sink' = [sink EXCEPT ![r] = None]
    PROVE  IInv'
  <1> USE DEF IInv, TypeOK, Goto
  <1>1. TypeOK'
    OBVIOUS
  <1>2. CallsBegun' /\ ProducesIntoSlot'
    BY DEF CallsBegun, ProducesIntoSlot, Filed
  <1>3. SlotInv' /\ ProducedIsReadable'
    BY DEF SlotInv, MadeBefore, NoSinkShared, HandedIsFiled, ProducedIsReadable, Filed
  <1> QED BY <1>1, <1>2, <1>3

LEMMA NewKeeps ==
    ASSUME IInv, NEW r \in Runners, New(r)
    PROVE  IInv'
  <1> DEFINE k == call[r].role
             n == <<r, calls[r]>>
             s == IF Filed(k) THEN slots[k] ELSE n
  <1>1. pc[r] = "in" /\ k \in Roles /\ n \in Sinks
    BY BoundsAssumption DEF New, Holds, IInv, TypeOK, CallsBegun, Sinks
  <1>2. /\ slots' = [j \in DOMAIN slots \cup {k} |-> IF j = k THEN s ELSE slots[j]]
        /\ sink' = [sink EXCEPT ![r] = s]
        /\ handed' = [handed EXCEPT ![k] = @ \cup {s}]
        /\ mu' = None
        /\ pc' = [pc EXCEPT ![r] = "producing"]
        /\ UNCHANGED <<filled, call, calls, stored>>
    BY DEF New, File, Hand, Goto
  <1>3. /\ s \in Sinks
        /\ k \in DOMAIN slots => s = slots[k]
        /\ k \notin DOMAIN slots => s = n
    BY <1>1 DEF Filed, IInv, TypeOK
  <1>4. /\ DOMAIN slots' = DOMAIN slots \cup {k}
        /\ slots'[k] = s
        /\ \A l \in DOMAIN slots : slots'[l] = slots[l]
    BY <1>2, <1>3
  <1> HIDE DEF s
  <1>5. TypeOK'
    BY <1>1, <1>2, <1>3, <1>4 DEF IInv, TypeOK
  <1>6. CallsBegun'
    BY <1>1, <1>2 DEF IInv, TypeOK, CallsBegun
  <1>7. \A l \in DOMAIN slots : slots[l] # n
    BY <1>1 DEF IInv, SlotInv, MadeBefore
  <1>8. MadeBefore'
    <2>1. n[1] = r /\ n[2] = calls[r] /\ calls[r] <= calls[r]
      BY BoundsAssumption DEF IInv, TypeOK
    <2>2. \A q \in Runners : q # r => n # <<q, calls[q]>>
      OBVIOUS
    <2>3. \A q \in Runners : pc'[q] \in {"waiting", "in"} => q # r /\ pc[q] = pc'[q]
      BY <1>2 DEF IInv, TypeOK
    <2> SUFFICES ASSUME NEW l \in DOMAIN slots'
                 PROVE  /\ slots'[l][2] <= calls'[slots'[l][1]]
                        /\ \A q \in Runners :
                              pc'[q] \in {"waiting", "in"} => slots'[l] # <<q, calls'[q]>>
      BY DEF MadeBefore
    <2>4. calls' = calls
      BY <1>2
    <2>5. CASE l \in DOMAIN slots
      <3>1. slots'[l] = slots[l]
        BY <1>4, <2>5
      <3> QED BY <2>3, <2>4, <2>5, <3>1 DEF IInv, SlotInv, MadeBefore
    <2>6. CASE l \notin DOMAIN slots
      <3>1. slots'[l] = n
        BY <1>3, <1>4, <2>6
      <3> HIDE DEF n
      <3> QED BY <2>1, <2>2, <2>3, <2>4, <3>1
    <2> QED BY <2>5, <2>6
  <1>9. NoSinkShared'
    <2> HIDE DEF n
    <2> QED BY <1>3, <1>4, <1>7 DEF IInv, SlotInv, NoSinkShared
  <1>10. HandedIsFiled'
    BY <1>1, <1>2, <1>3, <1>4 DEF IInv, TypeOK, SlotInv, HandedIsFiled, Filed
  <1>11. ProducesIntoSlot' /\ ProducedIsReadable'
    BY <1>1, <1>2, <1>4 DEF IInv, TypeOK, ProducesIntoSlot, ProducedIsReadable, Filed
  <1> QED BY <1>5, <1>6, <1>8, <1>9, <1>10, <1>11 DEF IInv, SlotInv

LEMMA ReadKeeps ==
    ASSUME IInv, NEW r \in Runners, Read(r)
    PROVE  IInv'
  <1> DEFINE k == call[r].role
  <1>1. pc[r] = "in" /\ k \in Roles /\ k \in DOMAIN slots
    BY DEF Read, Holds, Filed, IInv, CallsBegun
  <1>2. /\ handed' = [handed EXCEPT ![k] = @ \cup {slots[k]}]
        /\ mu' = None
        /\ pc' = [pc EXCEPT ![r] = "idle"]
        /\ UNCHANGED <<slots, filled, call, calls, sink, stored>>
    BY DEF Read, Hand, Goto
  <1>3. TypeOK'
    BY <1>1, <1>2 DEF IInv, TypeOK
  <1>4. CallsBegun' /\ ProducesIntoSlot' /\ ProducedIsReadable'
    BY <1>2 DEF IInv, TypeOK, CallsBegun, ProducesIntoSlot, ProducedIsReadable, Filed
  <1>5. MadeBefore' /\ NoSinkShared'
    BY <1>2 DEF IInv, TypeOK, SlotInv, MadeBefore, NoSinkShared
  <1>6. HandedIsFiled'
    BY <1>1, <1>2 DEF IInv, TypeOK, SlotInv, HandedIsFiled, Filed
  <1> QED BY <1>3, <1>4, <1>5, <1>6 DEF IInv, SlotInv

LEMMA StoreKeeps ==
    ASSUME IInv, NEW r \in Runners, Store(r)
    PROVE  IInv'
  <1> DEFINE k == call[r].role
  <1>1. k \in Roles /\ k \in DOMAIN slots /\ sink[r] = slots[k] /\ slots[k] \in Sinks
    BY DEF Store, IInv, TypeOK, CallsBegun, ProducesIntoSlot, Filed
  <1>2. /\ filled' = filled \cup {slots[k]}
        /\ stored' = stored \cup {k}
        /\ sink' = [sink EXCEPT ![r] = None]
        /\ pc' = [pc EXCEPT ![r] = "idle"]
        /\ UNCHANGED <<mu, slots, call, calls, handed>>
    BY <1>1 DEF Store, Goto
  <1>3. TypeOK'
    BY <1>1, <1>2 DEF IInv, TypeOK
  <1>4. CallsBegun' /\ ProducesIntoSlot'
    BY <1>2 DEF IInv, TypeOK, CallsBegun, ProducesIntoSlot, Filed
  <1>5. SlotInv'
    BY <1>2 DEF IInv, TypeOK, SlotInv, MadeBefore, NoSinkShared, HandedIsFiled, Filed
  <1>6. ProducedIsReadable'
    BY <1>1, <1>2 DEF IInv, ProducedIsReadable, Filed
  <1> QED BY <1>3, <1>4, <1>5, <1>6 DEF IInv

LEMMA NextKeeps == IInv /\ [Next]_vars => IInv'
  <1> SUFFICES ASSUME IInv, [Next]_vars PROVE IInv'
    OBVIOUS
  <1>1. ASSUME NEW r \in Runners, NEW name \in Calls, NEW k \in Roles, CallFor(r, name, k)
        PROVE  IInv'
    BY <1>1, CallForKeeps
  <1>2. ASSUME NEW r \in Runners, Lock(r)
        PROVE  IInv'
    BY <1>2, MoveKeeps DEF Lock, historyVars
  <1>3. ASSUME NEW r \in Runners, New(r)
        PROVE  IInv'
    BY <1>3, NewKeeps
  <1>4. ASSUME NEW r \in Runners, Read(r)
        PROVE  IInv'
    BY <1>4, ReadKeeps
  <1>5. ASSUME NEW r \in Runners, NothingArranged(r)
        PROVE  IInv'
    BY <1>5, MoveKeeps DEF NothingArranged, historyVars
  <1>6. ASSUME NEW r \in Runners, Declared(r)
        PROVE  IInv'
    BY <1>6, MoveKeeps DEF Declared, historyVars
  <1>7. ASSUME NEW r \in Runners, Store(r)
        PROVE  IInv'
    BY <1>7, StoreKeeps
  <1>8. ASSUME NEW r \in Runners, ProducerFails(r)
        PROVE  IInv'
    <2>1. mu' \in Runners \cup {None}
      BY <1>8 DEF ProducerFails, IInv, TypeOK
    <2> QED BY <1>8, <2>1, MoveKeeps DEF ProducerFails, historyVars
  <1>9. CASE UNCHANGED vars
    BY <1>9 DEF vars, IInv, TypeOK, CallsBegun, SlotInv, MadeBefore, NoSinkShared, HandedIsFiled,
       ProducesIntoSlot, ProducedIsReadable, Filed
  <1> QED BY <1>1, <1>2, <1>3, <1>4, <1>5, <1>6, <1>7, <1>8, <1>9 DEF Next, Runs, Over

-----------------------------------------------------------------------------
\* The registry's invariant, from which the theorems below follow: every sink
\* handed out is the one filed under its role (token.go:50-60, 85-91, 107-112).
THEOREM Invariance == Spec => []IInv
  BY InitIInv, NextKeeps, PTL DEF Spec

\* The registry's variables stay in their types.
THEOREM Typing == Spec => []TypeOK
  <1>1. IInv => TypeOK
    BY DEF IInv
  <1> QED BY <1>1, Invariance, PTL

LEMMA OneOrNone ==
    ASSUME NEW S, \A s, t \in S : s = t
    PROVE  Cardinality(S) <= 1
  <1>1. CASE S = {}
    BY <1>1, FS_EmptySet
  <1>2. ASSUME NEW s \in S
        PROVE  Cardinality(S) <= 1
    <2>1. S = {s}
      BY <1>2
    <2>2. Cardinality({s}) = 1
      BY FS_Singleton
    <2> QED BY <2>1, <2>2
  <1> QED BY <1>1, <1>2

\* Whoever produces and whoever reads a role, on any number of goroutines, is
\* given one sink, which no other role has (token.go:50-60, 85-91, 107-112).
THEOREM OneSinkPerRoleHolds == Spec => []OneSinkPerRole
  <1>1. ASSUME IInv PROVE OneSinkPerRole
    <2>1. \A k \in Roles : Cardinality(handed[k]) <= 1
      BY <1>1, OneOrNone DEF IInv, SlotInv, HandedIsFiled
    <2>2. ASSUME NEW k \in Roles, NEW l \in Roles, k # l
          PROVE  handed[k] \cap handed[l] = {}
      BY <1>1, <2>2 DEF IInv, SlotInv, HandedIsFiled, NoSinkShared, Filed
    <2> QED BY <2>1, <2>2 DEF OneSinkPerRole
  <1> QED BY <1>1, Invariance, PTL

\* A role some verb has produced has a filled sink ever after, whatever producers
\* start, fail or overlap later (token.go:50-60, 68-71).
THEOREM ProducedIsReadableHolds == Spec => []ProducedIsReadable
  <1>1. IInv => ProducedIsReadable
    BY DEF IInv
  <1> QED BY <1>1, Invariance, PTL
=============================================================================
