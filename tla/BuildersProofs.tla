--------------------------- MODULE BuildersProofs ---------------------------
(***************************************************************************)
(* Proofs about Builders and Expectations, in the specification of the     *)
(* latter: whatever is attempted on any number of builders, of any kinds,  *)
(* in any order, and whatever a test does with the mocks it then has.      *)
(***************************************************************************)
EXTENDS Expectations, SequenceTheorems, FiniteSetTheorems, WellFoundedInduction, TLAPS

\* The shapes, as far as the argument needs them.
ShapesOK ==
    /\ kind \in [Builders -> Kinds]
    /\ regs \in [Builders -> Seq(Seq(Types))]
    /\ seen \in [Builders -> SUBSET Types]
    /\ built \in [Builders -> BOOLEAN]
    /\ todo \in Seq(Builders)
    /\ parts \in Seq(Container)
    /\ setups \in Seq(Seq(Container))

\* A builder that holds the registrations rs has marked each of their types, and
\* has none under two of them.
Held(rs, marked) ==
    \A m \in 1..Len(rs) : \A i \in 1..Len(rs[m]) :
        /\ rs[m][i] \in marked
        /\ \A n \in 1..Len(rs) : \A j \in 1..Len(rs[n]) : rs[m][i] = rs[n][j] => m = n

HeldOK == \A b \in Builders : Held(regs[b], seen[b])

\* A container is a copy of what its builder holds, which has closed for good.
Copy(rs, closed, c) == c \in Container /\ closed[c.of] /\ c.regs = rs[c.of]

Copies(rs, closed, cs) == \A i \in 1..Len(cs) : Copy(rs, closed, cs[i])

CopiesOK ==
    /\ Copies(regs, built, parts)
    /\ \A s \in 1..Len(setups) : Copies(regs, built, setups[s])

\* What a container's BeginScope makes: Builders' BeginScope, by the kinds k.
Begun(k, c, stage, place) ==
    LET made(n) == Item(IF k[c.of] = "mock" THEN stage ELSE 0, place, n)
    IN  [items |-> [key \in KeysOf(c.regs) |-> made(LastOf(c.regs, key))],
         mocks |-> IF k[c.of] = "mock" THEN [n \in DOMAIN c.regs |-> made(n)] ELSE <<>>]

\* A stage's scopes are what its setup's containers begin for it.
Entered(k, ss, stage, a) ==
    /\ stage.setup \in 1..Len(ss)
    /\ stage.scopes = [p \in 1..Len(ss[stage.setup]) |-> Begun(k, ss[stage.setup][p], a, p)]

StagesOK ==
    /\ \E S : stages \in Seq(S)
    /\ \A a \in 1..Len(stages) : Entered(kind, setups, stages[a], a)

IInv == ShapesOK /\ HeldOK /\ CopiesOK /\ StagesOK

-----------------------------------------------------------------------------
(* What Takes says of a registration with no more types than a mock's two. *)

LEMMA Least ==
    ASSUME NEW len \in 0..2, NEW B
    PROVE  \E n \in 0..len : (\A i \in 1..n : i \notin B) /\ (n < len => n + 1 \in B)
  <1>1. CASE len >= 1 /\ 1 \in B
    <2>1. 0 \in 0..len /\ (\A i \in 1..0 : i \notin B) /\ (0 < len => 0 + 1 \in B)
      BY <1>1
    <2> QED BY <2>1
  <1>2. CASE len = 2 /\ 1 \notin B /\ 2 \in B
    <2>1. \A i \in 1..1 : i = 1
      OBVIOUS
    <2>2. 1 \in 0..len /\ (\A i \in 1..1 : i \notin B) /\ (1 < len => 1 + 1 \in B)
      BY <1>2, <2>1
    <2> QED BY <2>2
  <1>3. CASE \A i \in 1..len : i \notin B
    <2>1. len \in 0..len /\ (\A i \in 1..len : i \notin B) /\ (len < len => len + 1 \in B)
      BY <1>3
    <2> QED BY <2>1
  <1>4. \A i \in 1..len : i = 1 \/ (i = 2 /\ len = 2)
    OBVIOUS
  <1> QED BY <1>1, <1>2, <1>3, <1>4

LEMMA TakesFacts ==
    ASSUME NEW b \in Builders, NEW keys \in Seq(Types), Len(keys) \in 0..2
    PROVE  /\ Takes(b, keys) \in 0..Len(keys)
           /\ Takes(b, keys) = Len(keys) => \A i \in 1..Len(keys) : keys[i] \notin seen[b]
  <1> DEFINE P(n) == /\ \A i \in 1..n : keys[i] \notin seen[b] \cup ToSet(SubSeq(keys, 1, i - 1))
                     /\ n < Len(keys) => keys[n + 1] \in seen[b] \cup ToSet(SubSeq(keys, 1, n))
             B == {i \in 1..Len(keys) : keys[i] \in seen[b] \cup ToSet(SubSeq(keys, 1, i - 1))}
  <1>1. PICK n \in 0..Len(keys) : (\A i \in 1..n : i \notin B) /\ (n < Len(keys) => n + 1 \in B)
    <2> HIDE DEF B
    <2> QED BY Least
  <1>2. \A i \in 1..n : i \in 1..Len(keys)
    OBVIOUS
  <1>3. \A i \in 1..n : keys[i] \notin seen[b] \cup ToSet(SubSeq(keys, 1, i - 1))
    BY <1>1, <1>2
  <1>4. n < Len(keys) => keys[n + 1] \in seen[b] \cup ToSet(SubSeq(keys, 1, n))
    <2>1. n + 1 - 1 = n
      OBVIOUS
    <2> QED BY <1>1, <2>1
  <1>5. P(n)
    BY <1>3, <1>4
  <1>6. Takes(b, keys) = CHOOSE k \in 0..Len(keys) : P(k)
    BY DEF Takes
  <1> HIDE DEF P
  <1>7. Takes(b, keys) \in 0..Len(keys) /\ P(Takes(b, keys))
    BY <1>5, <1>6
  <1> QED BY <1>7 DEF P

LEMMA RegistrableFacts ==
    ASSUME NEW k \in Kinds, NEW keys \in Registrable(k)
    PROVE  keys \in Seq(Types) /\ Len(keys) \in 0..2
  <1>1. CASE k = "mock"
    <2>1. PICK p \in Implements : keys = <<p[2], p[1]>>
      BY <1>1 DEF Registrable
    <2>2. p[1] \in Types /\ p[2] \in Types
      BY TypesAssumption
    <2> QED BY <2>1, <2>2
  <1>2. CASE k = "bag" \/ k = "di"
    <2>1. keys = <<>> \/ \E t \in Types : keys = <<t>>
      BY <1>2 DEF Registrable
    <2>2. CASE keys = <<>>
      BY <2>2
    <2>3. CASE \E t \in Types : keys = <<t>>
      <3>1. PICK t \in Types : keys = <<t>>
        BY <2>3
      <3> QED BY <3>1
    <2> QED BY <2>1, <2>2, <2>3
  <1> QED BY <1>1, <1>2 DEF Kinds

-----------------------------------------------------------------------------
(* One lemma per action.                                                   *)

\* Steps that leave all this alone, but for the containers in the making.
LEMMA FrameKeeps ==
    ASSUME IInv, UNCHANGED <<kind, regs, seen, built, setups, stages>>,
           todo' \in Seq(Builders), parts' \in {<<>>, parts}
    PROVE  IInv'
  <1>1. ShapesOK'
    <2>1. parts' \in Seq(Container)
      <3>1. parts \in Seq(Container) /\ <<>> \in Seq(Container)
        BY DEF IInv, ShapesOK
      <3> QED BY <3>1
    <2>2. UNCHANGED <<kind, regs, seen, built, setups>> /\ todo' \in Seq(Builders)
      OBVIOUS
    <2> QED BY <2>1, <2>2 DEF IInv, ShapesOK
  <1>2. HeldOK'
    BY DEF IInv, HeldOK
  <1>3. CopiesOK'
    <2>1. Copies(regs, built, <<>>) /\ Copies(regs, built, parts)
      BY DEF IInv, CopiesOK, Copies
    <2> QED BY <2>1 DEF IInv, CopiesOK
  <1>4. StagesOK'
    BY DEF IInv, StagesOK
  <1> QED BY <1>1, <1>2, <1>3, <1>4 DEF IInv

LEMMA Appended ==
    ASSUME NEW S, NEW q \in Seq(S), NEW x \in S
    PROVE  /\ Len(q) \in Nat /\ Len(Append(q, x)) = Len(q) + 1
           /\ Append(q, x)[Len(q) + 1] = x /\ Append(q, x) \in Seq(S)
           /\ \A i \in 1..Len(q) : Append(q, x)[i] = q[i]
  OBVIOUS

LEMMA RegisterKeeps ==
    ASSUME IInv, NEW b \in Builders, NEW keys \in Registrable(kind[b]), Register(b, keys)
    PROVE  IInv'
  <1>t. /\ regs \in [Builders -> Seq(Seq(Types))] /\ regs[b] \in Seq(Seq(Types))
        /\ seen \in [Builders -> SUBSET Types] /\ kind[b] \in Kinds
    BY DEF IInv, ShapesOK
  <1>1. keys \in Seq(Types) /\ Len(keys) \in 0..2
    BY <1>t, RegistrableFacts
  <1>2. /\ ~ built[b] /\ UNCHANGED <<built, kind, todo, parts, setups, stages>>
        /\ seen' = [seen EXCEPT ![b] = seen[b] \cup ToSet(keys)]
        /\ regs' = [regs EXCEPT ![b] = Append(regs[b], keys)]
        /\ Takes(b, keys) = Len(keys)
    BY DEF Register, setupVars
  <1>3. /\ \A i \in 1..Len(keys) : keys[i] \notin seen[b] /\ keys[i] \in ToSet(keys)
        /\ ToSet(keys) \subseteq Types
    <2>1. \A i \in 1..Len(keys) : keys[i] \notin seen[b]
      BY <1>1, <1>2, TakesFacts
    <2>2. ToSet(keys) \subseteq Types /\ \A i \in 1..Len(keys) : keys[i] \in ToSet(keys)
      BY <1>1 DEF ToSet
    <2> QED BY <2>1, <2>2
  <1>4. PICK rs, marked :
            /\ rs = Append(regs[b], keys) /\ marked = seen[b] \cup ToSet(keys)
    OBVIOUS
  <1>5. PICK n \in Nat :
            /\ n = Len(regs[b]) /\ Len(rs) = n + 1 /\ rs[n + 1] = keys
            /\ \A m \in 1..n : rs[m] = regs[b][m]
            /\ rs \in Seq(Seq(Types))
    <2>1. rs = Append(regs[b], keys)
      BY <1>4
    <2>2. /\ Len(regs[b]) \in Nat /\ Len(rs) = Len(regs[b]) + 1
          /\ rs[Len(regs[b]) + 1] = keys /\ rs \in Seq(Seq(Types))
          /\ \A i \in 1..Len(regs[b]) : rs[i] = regs[b][i]
      BY ONLY <1>t, <1>1, <2>1, Appended
    <2> QED BY ONLY <2>2
  <1>6. /\ regs' = [regs EXCEPT ![b] = rs] /\ seen' = [seen EXCEPT ![b] = marked]
        /\ marked \in SUBSET Types
    BY <1>t, <1>2, <1>3, <1>4
  <1>7. /\ regs' \in [Builders -> Seq(Seq(Types))] /\ regs'[b] = rs
        /\ seen' \in [Builders -> SUBSET Types] /\ seen'[b] = marked
        /\ \A c \in Builders \ {b} : regs'[c] = regs[c] /\ seen'[c] = seen[c]
    BY <1>t, <1>5, <1>6
  <1>8. ShapesOK'
    <2>1. UNCHANGED <<built, kind, todo, parts, setups>>
      BY <1>2
    <2> QED BY <1>7, <2>1 DEF IInv, ShapesOK
  <1>9. HeldOK'
    <2>1. Held(regs[b], seen[b])
      BY DEF IInv, HeldOK
    <2>2. Held(rs, marked)
      <3>1. \A l \in 1..Len(rs) :
                \/ l = n + 1 /\ rs[l] = keys
                \/ l \in 1..Len(regs[b]) /\ rs[l] = regs[b][l]
        BY <1>5
      <3>2. \A l \in 1..Len(regs[b]) : \A j \in 1..Len(regs[b][l]) : regs[b][l][j] \in seen[b]
        BY <2>1 DEF Held
      <3> SUFFICES ASSUME NEW m \in 1..Len(rs), NEW i \in 1..Len(rs[m])
                   PROVE  /\ rs[m][i] \in marked
                          /\ \A l \in 1..Len(rs) : \A j \in 1..Len(rs[l]) :
                                rs[m][i] = rs[l][j] => m = l
        BY DEF Held
      <3>3. CASE m = n + 1 /\ rs[m] = keys
        <4>1. rs[m][i] \in marked /\ rs[m][i] \notin seen[b]
          BY <1>3, <1>4, <3>3
        <4> QED BY <3>1, <3>2, <3>3, <4>1
      <3>4. CASE m \in 1..Len(regs[b]) /\ rs[m] = regs[b][m]
        <4>1. rs[m][i] \in seen[b] /\ rs[m][i] \in marked
          BY <1>4, <3>2, <3>4
        <4>2. ASSUME NEW l \in 1..Len(rs), NEW j \in 1..Len(rs[l]), rs[m][i] = rs[l][j]
              PROVE  m = l
          <5>1. CASE l = n + 1 /\ rs[l] = keys
            BY <1>3, <4>1, <4>2, <5>1
          <5>2. CASE l \in 1..Len(regs[b]) /\ rs[l] = regs[b][l]
            BY <2>1, <3>4, <4>2, <5>2 DEF Held
          <5> QED BY <3>1, <5>1, <5>2
        <4> QED BY <4>1, <4>2
      <3> QED BY <3>1, <3>3, <3>4
    <2>3. \A c \in Builders : Held(regs'[c], seen'[c])
      BY <1>7, <2>2 DEF IInv, HeldOK
    <2> QED BY <2>3 DEF HeldOK
  <1>10. CopiesOK'
    <2>1. \A c : Copy(regs, built, c) => Copy(regs', built', c)
      BY <1>2, <1>7 DEF Copy, Container
    <2>2. \A cs : Copies(regs, built, cs) => Copies(regs', built', cs)
      BY <2>1 DEF Copies
    <2>3. parts' = parts /\ setups' = setups
      BY <1>2
    <2> QED BY <2>2, <2>3 DEF IInv, CopiesOK
  <1>11. StagesOK'
    <2>1. UNCHANGED <<kind, setups, stages>>
      BY <1>2
    <2> QED BY <2>1 DEF IInv, StagesOK
  <1> QED BY <1>8, <1>9, <1>10, <1>11 DEF IInv

LEMMA RegisterPanicsKeeps ==
    ASSUME IInv, NEW b \in Builders, NEW keys \in Registrable(kind[b]), RegisterPanics(b, keys)
    PROVE  IInv'
  <1>1. keys \in Seq(Types) /\ Len(keys) \in 0..2
    <2>1. kind[b] \in Kinds
      BY DEF IInv, ShapesOK
    <2> QED BY <2>1, RegistrableFacts
  <1>2. PICK n \in 0..Len(keys) :
            seen' = [seen EXCEPT ![b] = seen[b] \cup ToSet(SubSeq(keys, 1, n))]
    BY <1>1, TakesFacts DEF RegisterPanics
  <1>3. UNCHANGED <<kind, regs, built, todo, parts, setups, stages>>
    BY DEF RegisterPanics, setupVars
  <1>4. ToSet(SubSeq(keys, 1, n)) \subseteq Types
    <2>1. SubSeq(keys, 1, n) \in Seq(Types)
      BY <1>1
    <2> QED BY <2>1 DEF ToSet
  <1>5. /\ seen' \in [Builders -> SUBSET Types]
        /\ \A c \in Builders : seen[c] \subseteq seen'[c]
    <2> DEFINE X == ToSet(SubSeq(keys, 1, n))
    <2> HIDE DEF X
    <2>1. X \subseteq Types /\ seen' = [seen EXCEPT ![b] = seen[b] \cup X]
      BY <1>2, <1>4 DEF X
    <2> QED BY <2>1 DEF IInv, ShapesOK
  <1>6. ShapesOK'
    BY <1>3, <1>5 DEF IInv, ShapesOK
  <1>7. HeldOK'
    <2>1. \A rs, old, new : Held(rs, old) /\ old \subseteq new => Held(rs, new)
      BY DEF Held
    <2> QED BY <1>3, <1>5, <2>1 DEF IInv, HeldOK
  <1>8. CopiesOK' /\ StagesOK'
    BY <1>3 DEF IInv, CopiesOK, StagesOK
  <1> QED BY <1>6, <1>7, <1>8 DEF IInv

LEMMA NewSetupKeeps ==
    ASSUME IInv, NEW n \in 1..Cardinality(Builders), NEW order \in [1..n -> Builders], NewSetup(order)
    PROVE  IInv'
  <1>1. n \in Nat
    BY BuildersAssumption, FS_CardinalityType
  <1>2. order \in Seq(Builders)
    BY <1>1
  <1>3. todo' = order /\ UNCHANGED <<kind, regs, seen, built, parts, setups, stages>>
    BY DEF NewSetup, builderVars
  <1> QED BY <1>2, <1>3, FrameKeeps

LEMMA BuildFailsKeeps ==
    ASSUME IInv, BuildFails
    PROVE  IInv'
  <1>1. todo' = <<>> /\ parts' = <<>> /\ UNCHANGED <<kind, regs, seen, built, setups, stages>>
    BY DEF BuildFails, builderVars
  <1>2. todo' \in Seq(Builders)
    BY <1>1
  <1> QED BY <1>1, <1>2, FrameKeeps

LEMMA BuildKeeps ==
    ASSUME IInv, Build
    PROVE  IInv'
  <1>t. /\ parts \in Seq(Container) /\ setups \in Seq(Seq(Container))
        /\ regs \in [Builders -> Seq(Seq(Types))] /\ todo \in Seq(Builders)
        /\ built \in [Builders -> BOOLEAN]
    BY DEF IInv, ShapesOK
  <1>1. PICK b, c :
            /\ b \in Builders /\ c = Append(parts, [of |-> b, regs |-> regs[b]])
            /\ built' = [built EXCEPT ![b] = TRUE]
            /\ \/ setups' = Append(setups, c) /\ parts' = <<>>
               \/ setups' = setups /\ parts' = c
    <2>1. Head(todo) \in Builders
      BY <1>t DEF Build
    <2> QED BY <2>1 DEF Build
  <1>2. todo' \in Seq(Builders) /\ UNCHANGED <<kind, regs, seen, stages>>
    BY <1>t DEF Build
  <1>3. built' \in [Builders -> BOOLEAN] /\ built'[b] /\ \A x \in Builders : built[x] => built'[x]
    BY <1>t, <1>1
  <1>4. PICK e \in Container : e = [of |-> b, regs |-> regs[b]]
    <2>1. b \in Builders /\ regs[b] \in Seq(Seq(Types))
      BY <1>t, <1>1
    <2>2. [of |-> b, regs |-> regs[b]] \in Container
      BY ONLY <2>1 DEF Container, Registration
    <2> QED BY <2>2
  <1>5. /\ c \in Seq(Container)
        /\ \A i \in 1..Len(c) : c[i] = e \/ (i \in 1..Len(parts) /\ c[i] = parts[i])
    <2>1. c = Append(parts, e)
      BY <1>1, <1>4
    <2> QED BY <1>t, <2>1
  <1>7. /\ parts' \in Seq(Container) /\ parts' \in {<<>>, c}
        /\ setups' \in Seq(Seq(Container))
        /\ \A s \in 1..Len(setups) : s \in 1..Len(setups') /\ setups'[s] = setups[s]
        /\ \A s \in 1..Len(setups') : setups'[s] = c \/ (s \in 1..Len(setups) /\ setups'[s] = setups[s])
    <2>1. CASE setups' = setups /\ parts' = c
      BY <1>t, <1>5, <2>1
    <2>2. CASE setups' = Append(setups, c) /\ parts' = <<>>
      <3>1. /\ setups' \in Seq(Seq(Container))
            /\ \A s \in 1..Len(setups) : s \in 1..Len(setups') /\ setups'[s] = setups[s]
            /\ \A s \in 1..Len(setups') :
                  setups'[s] = c \/ (s \in 1..Len(setups) /\ setups'[s] = setups[s])
        <4> DEFINE X == Seq(Container)
        <4>1. setups \in Seq(X) /\ c \in X /\ setups' = Append(setups, c)
          BY <1>t, <1>5, <2>2
        <4> HIDE DEF X
        <4>2. /\ setups' \in Seq(X) /\ Len(setups) \in Nat
              /\ Len(setups') = Len(setups) + 1 /\ setups'[Len(setups) + 1] = c
              /\ \A s \in 1..Len(setups) : setups'[s] = setups[s]
          BY <4>1
        <4> QED BY <4>2 DEF X
      <3> QED BY <2>2, <3>1
    <2> QED BY <1>1, <2>1, <2>2
  <1>8. ShapesOK'
    BY <1>2, <1>3, <1>7 DEF IInv, ShapesOK
  <1>9. HeldOK'
    BY <1>2 DEF IInv, HeldOK
  <1>10. CopiesOK'
    <2>1. \A x : Copy(regs, built, x) => Copy(regs', built', x)
      BY <1>2, <1>3 DEF Copy, Container
    <2>2. \A cs : Copies(regs, built, cs) => Copies(regs', built', cs)
      BY <2>1 DEF Copies
    <2>3. Copy(regs', built', e)
      BY <1>2, <1>3, <1>4 DEF Copy
    <2>4. Copies(regs', built', c)
      BY <1>5, <2>1, <2>3 DEF IInv, CopiesOK, Copies
    <2>5. Copies(regs', built', <<>>)
      BY DEF Copies
    <2> QED BY <1>7, <2>2, <2>4, <2>5 DEF IInv, CopiesOK
  <1>11. StagesOK'
    <2>1. \A stage, a : Entered(kind, setups, stage, a) => Entered(kind', setups', stage, a)
      BY <1>2, <1>7 DEF Entered
    <2> QED BY <1>2, <2>1 DEF IInv, StagesOK
  <1> QED BY <1>8, <1>9, <1>10, <1>11 DEF IInv

LEMMA WiderSeq ==
    ASSUME NEW S, NEW q \in Seq(S), NEW x
    PROVE  \E T : q \in Seq(T) /\ x \in T
  <1>1. q \in Seq(S \cup {x})
    OBVIOUS
  <1> QED BY <1>1

LEMMA EnterStageKeeps ==
    ASSUME IInv, NEW s \in DOMAIN setups, EnterStage(s)
    PROVE  IInv'
  <1>1. UNCHANGED <<kind, regs, seen, built, todo, parts, setups>>
    BY DEF EnterStage, builderVars, setupVars
  <1>2. ShapesOK' /\ HeldOK' /\ CopiesOK'
    BY <1>1 DEF IInv, ShapesOK, HeldOK, CopiesOK
  <1>3. setups \in Seq(Seq(Container)) /\ s \in 1..Len(setups)
    BY DEF IInv, ShapesOK
  <1>4. setups[s] \in Seq(Container) /\ DOMAIN setups[s] = 1..Len(setups[s])
    BY <1>3
  <1>5. PICK k, x : /\ k = Len(stages)
                    /\ x = [setup  |-> s,
                            scopes |-> [p \in 1..Len(setups[s]) |-> Begun(kind, setups[s][p], k + 1, p)]]
    OBVIOUS
  <1>6. stages' = Append(stages, x)
    BY <1>4, <1>5 DEF EnterStage, BeginScope, Begun
  <1>7. PICK S : stages \in Seq(S) /\ x \in S
    BY WiderSeq DEF IInv, StagesOK
  <1>8. /\ stages' \in Seq(S) /\ k \in Nat /\ Len(stages') = k + 1 /\ stages'[k + 1] = x
        /\ \A a \in 1..k : stages'[a] = stages[a]
    BY <1>5, <1>6, <1>7
  <1>9. Entered(kind, setups, x, k + 1)
    BY <1>3, <1>5 DEF Entered
  <1>10. \A a \in 1..Len(stages') : Entered(kind, setups, stages'[a], a)
    BY <1>5, <1>8, <1>9 DEF IInv, StagesOK
  <1>11. StagesOK'
    BY <1>1, <1>8, <1>10 DEF StagesOK
  <1> QED BY <1>2, <1>11 DEF IInv

-----------------------------------------------------------------------------
(* The invariant, and what follows from it.                                *)

LEMMA InitInv == Init => IInv
  <1> SUFFICES ASSUME Init PROVE IInv
    OBVIOUS
  <1>1. /\ kind \in [Builders -> Kinds] /\ regs = [b \in Builders |-> <<>>]
        /\ seen = [b \in Builders |-> {}] /\ built = [b \in Builders |-> FALSE]
        /\ todo = <<>> /\ parts = <<>> /\ setups = <<>> /\ stages = <<>>
    BY DEF Init, ComposeInit
  <1>2. ShapesOK
    BY <1>1 DEF ShapesOK
  <1>3. HeldOK
    <2>1. Held(<<>>, {})
      BY DEF Held
    <2> QED BY <1>1, <2>1 DEF HeldOK
  <1>4. CopiesOK
    BY <1>1 DEF CopiesOK, Copies
  <1>5. StagesOK
    BY <1>1 DEF StagesOK
  <1> QED BY <1>2, <1>3, <1>4, <1>5 DEF IInv

LEMMA NextKeeps == IInv /\ [Next]_vars => IInv'
  <1> SUFFICES ASSUME IInv, [Next]_vars PROVE IInv'
    OBVIOUS
  <1>1. CASE Compose
    BY <1>1, RegisterKeeps, RegisterPanicsKeeps, NewSetupKeeps, BuildKeeps, BuildFailsKeeps,
       EnterStageKeeps
    DEF Compose
  <1>2. CASE UNCHANGED composeVars
    <2>1. UNCHANGED <<kind, regs, seen, built, todo, parts, setups, stages>>
      BY <1>2 DEF composeVars
    <2>2. todo' \in Seq(Builders)
      BY <2>1 DEF IInv, ShapesOK
    <2> QED BY <2>1, <2>2, FrameKeeps
  <1>3. Compose \/ UNCHANGED composeVars
    <2>1. CASE \E g \in Goroutines : Calls(g)
      <3>1. PICK g \in Goroutines : Calls(g)
        BY <2>1
      <3>2. ASSUME Take(g) PROVE UNCHANGED composeVars
        BY <3>2, Zenon DEF Take
      <3>3. ASSUME Tell(g) PROVE UNCHANGED composeVars
        BY <3>3, Zenon DEF Tell
      <3>4. ASSUME NEW e \in declared \ met, Call(g, e) PROVE UNCHANGED composeVars
        BY <3>4, Zenon DEF Call
      <3>5. ASSUME NEW m \in ToSet(Mocks), CallUnexpected(g, m) PROVE UNCHANGED composeVars
        BY <3>5, Zenon DEF CallUnexpected
      <3> QED BY <3>1, <3>2, <3>3, <3>4, <3>5, Zenon DEF Calls
    <2>2. ASSUME NEW m \in ToSet(Mocks), Declare(m) PROVE UNCHANGED composeVars
      BY <2>2, Zenon DEF Declare
    <2>3. CASE Enter
      BY <2>3, Zenon DEF Enter
    <2>4. CASE Satisfied
      BY <2>4, Zenon DEF Satisfied, SatisfiedBegins, SatisfiedAsks, SatisfiedEnds
    <2>5. CASE Cleanup
      BY <2>5, Zenon DEF Cleanup, CheckBegins, Logf, TestOver
    <2>6. CASE BodyEnds \/ Finished \/ UNCHANGED vars
      BY <2>6, Zenon DEF BodyEnds, Finished, vars
    <2> QED BY <2>1, <2>2, <2>3, <2>4, <2>5, <2>6, Zenon DEF Next
  <1> QED BY <1>1, <1>2, <1>3

\* The inductive invariant of composing, whatever is registered and set up.
THEOREM Invariance == Spec => []IInv
  BY InitInv, NextKeeps, PTL DEF Spec

LEMMA InvOneComposition == IInv => OneComposition
  <1> SUFFICES ASSUME IInv, NEW b \in Builders, NEW s \in DOMAIN setups,
                      NEW p \in DOMAIN setups[s], setups[s][p].of = b
               PROVE  setups[s][p].regs = regs[b]
    BY DEF OneComposition
  <1>1. setups \in Seq(Seq(Container)) /\ s \in 1..Len(setups)
    BY DEF IInv, ShapesOK
  <1>2. setups[s] \in Seq(Container) /\ p \in 1..Len(setups[s])
    BY <1>1
  <1> QED BY <1>1, <1>2 DEF IInv, CopiesOK, Copies, Copy

\* A setup composes what its builders held when it was built, and they hold the
\* same ever after: any builders, any attempts, any number of setups.
THEOREM OneCompositionHolds == Spec => []OneComposition
  BY Invariance, InvOneComposition, PTL

\* The registration a type leads to is the only one it can lead to.
LEMMA LastIsOnly ==
    ASSUME NEW rs \in Seq(Seq(Types)), NEW marked, Held(rs, marked),
           NEW m \in DOMAIN rs, NEW j \in ToSet(rs[m])
    PROVE  LastOf(rs, j) = m /\ j \in KeysOf(rs)
  <1>1. /\ DOMAIN rs = 1..Len(rs)
        /\ \A n \in 1..Len(rs) : rs[n] \in Seq(Types) /\ DOMAIN rs[n] = 1..Len(rs[n])
    BY ElementOfSeq
  <1>2. \A n \in DOMAIN rs : j \in ToSet(rs[n]) => n = m
    <2>1. PICK i \in 1..Len(rs[m]) : j = rs[m][i]
      BY <1>1 DEF ToSet
    <2>2. ASSUME NEW n \in DOMAIN rs, j \in ToSet(rs[n]) PROVE n = m
      <3>1. PICK k \in 1..Len(rs[n]) : j = rs[n][k]
        BY <1>1, <2>2 DEF ToSet
      <3>2. rs[m][i] = rs[n][k] /\ n \in 1..Len(rs) /\ m \in 1..Len(rs)
        BY <1>1, <2>1, <3>1
      <3> QED BY <3>2 DEF Held
    <2> QED BY <2>2
  <1>3. m \in DOMAIN rs /\ j \in ToSet(rs[m]) /\ \A n \in DOMAIN rs : j \in ToSet(rs[n]) => n <= m
    BY <1>1, <1>2
  <1>4. LastOf(rs, j) = m
    BY <1>2, <1>3 DEF LastOf
  <1> QED BY <1>4 DEF KeysOf

\* What a stage's scope is, seen from one of its types.
LEMMA ScopeFacts ==
    ASSUME IInv, NEW a \in DOMAIN stages, NEW p \in DOMAIN stages[a].scopes,
           NEW m \in DOMAIN setups[stages[a].setup][p].regs,
           NEW j \in ToSet(setups[stages[a].setup][p].regs[m])
    PROVE  /\ stages[a].scopes[p].items[j].reg = m
           /\ stages[a].scopes[p].mocks # <<>> => stages[a].scopes[p].items[j] = Item(a, p, m)
  <1>1. a \in 1..Len(stages) /\ Entered(kind, setups, stages[a], a)
    BY DEF IInv, StagesOK
  <1>2. PICK s, c : s = stages[a].setup /\ c = setups[s][p]
    OBVIOUS
  <1>3. s \in 1..Len(setups) /\ p \in 1..Len(setups[s]) /\ stages[a].scopes[p] = Begun(kind, c, a, p)
    BY <1>1, <1>2 DEF Entered
  <1>4. Copy(regs, built, c)
    BY <1>2, <1>3 DEF IInv, CopiesOK, Copies
  <1>5. c.of \in Builders /\ c.regs = regs[c.of] /\ c.regs \in Seq(Seq(Types)) /\ Held(c.regs, seen[c.of])
    BY <1>4 DEF Copy, Container, IInv, ShapesOK, HeldOK
  <1>6. LastOf(c.regs, j) = m /\ j \in KeysOf(c.regs)
    BY <1>2, <1>5, LastIsOnly
  <1>7. /\ Begun(kind, c, a, p).items[j] = Item(IF kind[c.of] = "mock" THEN a ELSE 0, p, m)
        /\ Begun(kind, c, a, p).mocks # <<>> => kind[c.of] = "mock"
    BY <1>6 DEF Begun
  <1> QED BY <1>3, <1>7 DEF Item

LEMMA InvOneInstance == IInv => OneInstancePerRegistration
  <1> SUFFICES ASSUME IInv,
                      NEW a \in DOMAIN stages, NEW b \in DOMAIN stages,
                      NEW p \in DOMAIN stages[a].scopes, NEW q \in DOMAIN stages[b].scopes,
                      NEW m \in DOMAIN setups[stages[a].setup][p].regs,
                      NEW j \in ToSet(setups[stages[a].setup][p].regs[m])
               PROVE  /\ stages[a].scopes[p].items[j].reg = m
                      /\ stages[a].scopes[p].mocks # <<>> /\ stages[b].scopes[q].mocks # <<>> =>
                            \A n \in DOMAIN setups[stages[b].setup][q].regs :
                                \A k \in ToSet(setups[stages[b].setup][q].regs[n]) :
                                    stages[a].scopes[p].items[j] = stages[b].scopes[q].items[k]
                                        <=> (a = b /\ p = q /\ m = n)
    BY DEF OneInstancePerRegistration
  <1>1. /\ stages[a].scopes[p].items[j].reg = m
        /\ stages[a].scopes[p].mocks # <<>> => stages[a].scopes[p].items[j] = Item(a, p, m)
    BY ScopeFacts
  <1>2. ASSUME stages[a].scopes[p].mocks # <<>>, stages[b].scopes[q].mocks # <<>>,
               NEW n \in DOMAIN setups[stages[b].setup][q].regs,
               NEW k \in ToSet(setups[stages[b].setup][q].regs[n])
        PROVE  stages[a].scopes[p].items[j] = stages[b].scopes[q].items[k]
                  <=> (a = b /\ p = q /\ m = n)
    <2>1. stages[b].scopes[q].items[k] = Item(b, q, n)
      BY <1>2, ScopeFacts
    <2>2. stages[a].scopes[p].items[j] = Item(a, p, m)
      BY <1>1, <1>2
    <2>3. Item(a, p, m) = Item(b, q, n) <=> (a = b /\ p = q /\ m = n)
      BY DEF Item
    <2> QED BY <2>1, <2>2, <2>3
  <1> QED BY <1>1, <1>2

\* A mock's two types lead to one mock, and no other type, scope or stage leads to
\* it; any type leads to the registration that took it: any builders, any stages.
THEOREM OneInstancePerRegistrationHolds == Spec => []OneInstancePerRegistration
  BY Invariance, InvOneInstance, PTL

-----------------------------------------------------------------------------
(* Sequences: what FlattenSeq makes of a sequence of them.                 *)

LEMMA Smallest ==
    ASSUME NEW T \in SUBSET Nat, T # {}
    PROVE  \E n \in T : \A m \in T : n <= m
  <1>1. PICK n \in T : \A m \in T : ~ (<<m, n>> \in OpToRel(<, Nat))
    BY NatLessThanWellFounded, WFMin
  <1>2. \A m \in T : ~ (m < n)
    BY <1>1 DEF OpToRel
  <1> QED BY <1>2

\* f[i] is the first i of the sequences qs joined, as far as n.
Flat(f, qs, n) ==
    f = [i \in 1..n |-> IF i = 1 THEN qs[i] ELSE f[i - 1] \o qs[i]]

LEMMA FlatExists ==
    ASSUME NEW qs, NEW n \in Nat
    PROVE  \E f : Flat(f, qs, n)
  <1> DEFINE Bad == {m \in Nat : ~ \E f : Flat(f, qs, m)}
  <1>1. CASE n \notin Bad
    BY <1>1
  <1>2. CASE n \in Bad
    <2>1. PICK m \in Bad : \A k \in Bad : m <= k
      BY <1>2, Smallest
    <2>2. m # 0
      <3>1. Flat([i \in 1..0 |-> qs[i]], qs, 0)
        BY DEF Flat
      <3> QED BY <2>1, <3>1
    <2>3. m - 1 \in Nat /\ m - 1 \notin Bad
      BY <2>1, <2>2
    <2>4. PICK f : Flat(f, qs, m - 1)
      BY <2>3
    <2> DEFINE g == [i \in 1..m |-> IF i < m THEN f[i] ELSE IF i = 1 THEN qs[i] ELSE f[i - 1] \o qs[i]]
    <2>5. \A i \in 1..m : g[i] = IF i = 1 THEN qs[i] ELSE g[i - 1] \o qs[i]
      <3> SUFFICES ASSUME NEW i \in 1..m PROVE g[i] = IF i = 1 THEN qs[i] ELSE g[i - 1] \o qs[i]
        OBVIOUS
      <3>1. CASE i < m
        <4>1. i \in 1..(m - 1) /\ (i # 1 => i - 1 \in 1..m /\ i - 1 < m)
          BY <2>1, <3>1
        <4>2. f[i] = IF i = 1 THEN qs[i] ELSE f[i - 1] \o qs[i]
          BY <2>4, <4>1 DEF Flat
        <4> QED BY <3>1, <4>1, <4>2
      <3>2. CASE i = m
        <4>1. m # 1 => m - 1 \in 1..m /\ m - 1 < m
          BY <2>1, <2>2
        <4> QED BY <3>2, <4>1
      <3> QED BY <2>1, <3>1, <3>2
    <2>6. Flat(g, qs, m)
      BY <2>5 DEF Flat
    <2> QED BY <2>1, <2>6
  <1> QED BY <1>1, <1>2

LEMMA FlattenIs ==
    ASSUME NEW qs, Len(qs) \in Nat \ {0}
    PROVE  \E f : Flat(f, qs, Len(qs)) /\ FlattenSeq(qs) = f[Len(qs)]
  <1> DEFINE flatten == CHOOSE f : Flat(f, qs, Len(qs))
  <1>1. Flat(flatten, qs, Len(qs))
    BY FlatExists
  <1>2. FlattenSeq(qs) = flatten[Len(qs)]
    BY DEF FlattenSeq, Flat
  <1> HIDE DEF flatten
  <1> QED BY <1>1, <1>2

\* The elements of the first n of the sequences qs, each there once.
Elements(qs, n) == UNION {{qs[p][i] : i \in 1..Len(qs[p])} : p \in 1..n}

LEMMA JoinFacts ==
    ASSUME NEW S, NEW q \in Seq(S), NEW r \in Seq(S)
    PROVE  /\ q \o r \in Seq(S) /\ Len(q \o r) = Len(q) + Len(r)
           /\ Len(q) \in Nat /\ Len(r) \in Nat
           /\ \A i \in 1..Len(q) : (q \o r)[i] = q[i]
           /\ \A i \in 1..Len(r) : (q \o r)[Len(q) + i] = r[i]
           /\ \A i \in 1..Len(q \o r) : i \in 1..Len(q) \/ \E j \in 1..Len(r) : i = Len(q) + j
  <1>1. /\ q \o r \in Seq(S) /\ Len(q \o r) = Len(q) + Len(r)
        /\ \A i \in 1..(Len(q) + Len(r)) : (q \o r)[i] = IF i <= Len(q) THEN q[i] ELSE r[i - Len(q)]
    BY ConcatProperties
  <1>2. Len(q) \in Nat /\ Len(r) \in Nat
    BY LenProperties
  <1>3. ASSUME NEW i \in 1..Len(q \o r), i \notin 1..Len(q)
        PROVE  \E j \in 1..Len(r) : i = Len(q) + j
    <2>1. i - Len(q) \in 1..Len(r) /\ i = Len(q) + (i - Len(q))
      BY <1>1, <1>2, <1>3
    <2> QED BY <2>1
  <1>4. ASSUME NEW i \in 1..Len(r) PROVE (q \o r)[Len(q) + i] = r[i]
    <2>1. /\ Len(q) + i \in 1..(Len(q) + Len(r)) /\ ~ (Len(q) + i <= Len(q))
          /\ (Len(q) + i) - Len(q) = i
      BY <1>2
    <2> QED BY <1>1, <2>1
  <1>5. \A i \in 1..Len(q) : (q \o r)[i] = q[i]
    BY <1>1, <1>2
  <1> QED BY <1>1, <1>2, <1>3, <1>4, <1>5

\* The elements of q are those of A; none of them twice.
Lists(q, A) == (\A i \in 1..Len(q) : q[i] \in A) /\ (\A x \in A : \E i \in 1..Len(q) : x = q[i])

Distinct(q) == \A i, j \in 1..Len(q) : q[i] = q[j] => i = j

LEMMA JoinLists ==
    ASSUME NEW S, NEW q \in Seq(S), NEW r \in Seq(S), NEW A, NEW B, Lists(q, A), Lists(r, B)
    PROVE  Lists(q \o r, A \cup B)
  <1>1. ASSUME NEW i \in 1..Len(q \o r) PROVE (q \o r)[i] \in A \cup B
    <2>1. CASE i \in 1..Len(q)
      <3>1. (q \o r)[i] = q[i]
        BY <2>1, JoinFacts
      <3>2. q[i] \in A
        BY <2>1 DEF Lists
      <3> QED BY <3>1, <3>2
    <2>2. CASE \E j \in 1..Len(r) : i = Len(q) + j
      <3>1. PICK j \in 1..Len(r) : i = Len(q) + j
        BY <2>2
      <3>2. (q \o r)[i] = r[j]
        BY <3>1, JoinFacts
      <3> QED BY <3>2 DEF Lists
    <2> QED BY <2>1, <2>2, JoinFacts
  <1>2. ASSUME NEW x \in A PROVE \E i \in 1..Len(q \o r) : x = (q \o r)[i]
    <2>1. PICK i \in 1..Len(q) : x = q[i]
      BY DEF Lists
    <2>2. i \in 1..Len(q \o r) /\ (q \o r)[i] = x
      BY <2>1, JoinFacts
    <2> QED BY <2>2
  <1>3. ASSUME NEW x \in B PROVE \E i \in 1..Len(q \o r) : x = (q \o r)[i]
    <2>1. PICK i \in 1..Len(r) : x = r[i]
      BY DEF Lists
    <2>2. Len(q) + i \in 1..Len(q \o r) /\ (q \o r)[Len(q) + i] = x
      BY <2>1, JoinFacts
    <2> QED BY <2>2
  <1> QED BY <1>1, <1>2, <1>3 DEF Lists

LEMMA JoinDistinct ==
    ASSUME NEW S, NEW q \in Seq(S), NEW r \in Seq(S), Distinct(q), Distinct(r),
           \A i \in 1..Len(q), j \in 1..Len(r) : q[i] # r[j]
    PROVE  Distinct(q \o r)
  <1> SUFFICES ASSUME NEW i \in 1..Len(q \o r), NEW j \in 1..Len(q \o r), (q \o r)[i] = (q \o r)[j]
               PROVE  i = j
    BY DEF Distinct
  <1>1. \A k \in 1..Len(q \o r) :
            \/ k \in 1..Len(q) /\ (q \o r)[k] = q[k]
            \/ \E m \in 1..Len(r) : k = Len(q) + m /\ (q \o r)[k] = r[m]
    BY JoinFacts
  <1>2. CASE i \in 1..Len(q) /\ (q \o r)[i] = q[i]
    <2>1. CASE j \in 1..Len(q) /\ (q \o r)[j] = q[j]
      BY <1>2, <2>1 DEF Distinct
    <2>2. CASE \E m \in 1..Len(r) : j = Len(q) + m /\ (q \o r)[j] = r[m]
      BY <1>2, <2>2
    <2> QED BY <1>1, <2>1, <2>2
  <1>3. CASE \E m \in 1..Len(r) : i = Len(q) + m /\ (q \o r)[i] = r[m]
    <2>1. CASE j \in 1..Len(q) /\ (q \o r)[j] = q[j]
      BY <1>3, <2>1
    <2>2. CASE \E m \in 1..Len(r) : j = Len(q) + m /\ (q \o r)[j] = r[m]
      <3>1. PICK m \in 1..Len(r), k \in 1..Len(r) : i = Len(q) + m /\ j = Len(q) + k /\ r[m] = r[k]
        BY <1>3, <2>2
      <3> QED BY <3>1 DEF Distinct
    <2> QED BY <1>1, <2>1, <2>2
  <1> QED BY <1>1, <1>2, <1>3

\* The sequences qs have nothing in common and nothing twice.
Apart(qs) ==
    \A p, q \in 1..Len(qs) : \A i \in 1..Len(qs[p]), j \in 1..Len(qs[q]) :
        qs[p][i] = qs[q][j] => p = q /\ i = j

\* q is the first n of the sequences qs of elements of S, joined.
Joined(q, S, qs, n) ==
    q \in Seq(S) /\ Lists(q, Elements(qs, n)) /\ (Apart(qs) => Distinct(q))

LEMMA ElementsFirst ==
    ASSUME NEW qs
    PROVE  Lists(qs[1], Elements(qs, 1))
  <1>1. 1..1 = {1}
    OBVIOUS
  <1>2. Elements(qs, 1) = {qs[1][i] : i \in 1..Len(qs[1])}
    BY <1>1 DEF Elements
  <1> QED BY <1>2 DEF Lists

LEMMA ElementsNext ==
    ASSUME NEW qs, NEW n \in Nat, n > 1
    PROVE  \E B : /\ Elements(qs, n) = Elements(qs, n - 1) \cup B
                  /\ Lists(qs[n], B)
  <1> DEFINE B == {qs[n][i] : i \in 1..Len(qs[n])}
  <1>1. Lists(qs[n], B)
    BY DEF Lists
  <1>2. 1..n = (1..(n - 1)) \cup {n}
    OBVIOUS
  <1>3. Elements(qs, n) = Elements(qs, n - 1) \cup B
    BY <1>2 DEF Elements
  <1> QED BY <1>1, <1>3

LEMMA FlatFacts ==
    ASSUME NEW S, NEW qs \in Seq(Seq(S)), NEW f, Flat(f, qs, Len(qs)), NEW n \in 1..Len(qs)
    PROVE  Joined(f[n], S, qs, n)
  <1>0. Len(qs) \in Nat /\ \A p \in 1..Len(qs) : qs[p] \in Seq(S)
    BY LenProperties, ElementOfSeq
  <1>1. Apart(qs) => \A p \in 1..Len(qs) : Distinct(qs[p])
    BY DEF Apart, Distinct
  <1>2. ASSUME 1 \in 1..Len(qs) PROVE Joined(f[1], S, qs, 1)
    <2>1. f[1] = qs[1]
      BY <1>2 DEF Flat
    <2> QED BY <1>0, <1>1, <1>2, <2>1, ElementsFirst DEF Joined
  <1>3. ASSUME NEW k \in 1..Len(qs), k # 1, Joined(f[k - 1], S, qs, k - 1) PROVE Joined(f[k], S, qs, k)
    <2>1. f[k] = f[k - 1] \o qs[k]
      BY <1>3 DEF Flat
    <2>2. /\ f[k - 1] \in Seq(S) /\ qs[k] \in Seq(S) /\ k \in Nat /\ k > 1
          /\ Lists(f[k - 1], Elements(qs, k - 1))
      BY <1>0, <1>3 DEF Joined
    <2>3. PICK B : Elements(qs, k) = Elements(qs, k - 1) \cup B /\ Lists(qs[k], B)
      BY <2>2, ElementsNext
    <2>4. Lists(f[k], Elements(qs, k - 1) \cup B)
      BY <2>1, <2>2, <2>3, JoinLists
    <2>5. Lists(f[k], Elements(qs, k))
      BY <2>3, <2>4 DEF Lists
    <2>6. f[k] \in Seq(S)
      BY <2>1, <2>2, JoinFacts
    <2>7. ASSUME Apart(qs) PROVE Distinct(f[k])
      <3>1. \A i \in 1..Len(f[k - 1]), j \in 1..Len(qs[k]) : f[k - 1][i] # qs[k][j]
        <4> SUFFICES ASSUME NEW i \in 1..Len(f[k - 1]), NEW j \in 1..Len(qs[k]), f[k - 1][i] = qs[k][j]
                     PROVE  FALSE
          OBVIOUS
        <4>1. f[k - 1][i] \in Elements(qs, k - 1)
          BY <2>2 DEF Lists
        <4>2. PICK p \in 1..(k - 1) : \E m \in 1..Len(qs[p]) : f[k - 1][i] = qs[p][m]
          BY <4>1 DEF Elements
        <4>3. p \in 1..Len(qs) /\ p # k
          BY <1>0
        <4> QED BY <2>7, <4>2, <4>3 DEF Apart
      <3> QED BY <1>1, <1>3, <2>1, <2>2, <2>7, <3>1, JoinDistinct DEF Joined
    <2> QED BY <2>5, <2>6, <2>7 DEF Joined
  <1> DEFINE Bad == {k \in 1..Len(qs) : ~ Joined(f[k], S, qs, k)}
  <1>4. CASE Bad # {}
    <2>1. Bad \in SUBSET Nat
      BY <1>0
    <2>2. PICK k \in Bad : \A m \in Bad : k <= m
      BY <1>4, <2>1, Smallest
    <2>3. k # 1
      BY <1>2, <2>2
    <2>4. k - 1 \in 1..Len(qs) /\ ~ (k <= k - 1)
      BY <1>0, <2>3
    <2>5. Joined(f[k - 1], S, qs, k - 1)
      BY <2>2, <2>4
    <2> QED BY <1>3, <2>2, <2>3, <2>5
  <1> QED BY <1>4

\* FlattenSeq goes through the sequences one after the other: it has their elements
\* and no other, each once where each is in one of them once.
LEMMA FlattenFacts ==
    ASSUME NEW S, NEW qs \in Seq(Seq(S))
    PROVE  Joined(FlattenSeq(qs), S, qs, Len(qs))
  <1>0. Len(qs) \in Nat
    BY LenProperties
  <1>1. CASE Len(qs) = 0
    <2>1. FlattenSeq(qs) = <<>>
      BY <1>1, EmptySeq DEF FlattenSeq
    <2>2. Elements(qs, 0) = {} /\ Len(<<>>) = 0 /\ <<>> \in Seq(S)
      BY DEF Elements
    <2> QED BY <1>1, <2>1, <2>2 DEF Joined, Lists, Distinct
  <1>2. CASE Len(qs) # 0
    <2>1. PICK f : Flat(f, qs, Len(qs)) /\ FlattenSeq(qs) = f[Len(qs)]
      BY <1>0, <1>2, FlattenIs
    <2>2. Len(qs) \in 1..Len(qs)
      BY <1>0, <1>2
    <2> QED BY <2>1, <2>2, FlatFacts
  <1> QED BY <1>1, <1>2

-----------------------------------------------------------------------------
(* The mocks of the stage the test is on.                                  *)

LEMMA SeqOver ==
    ASSUME NEW S, NEW q \in Seq(S), NEW T, \A i \in 1..Len(q) : q[i] \in T
    PROVE  q \in Seq(T)
  <1>1. Len(q) \in Nat /\ q = [i \in 1..Len(q) |-> q[i]]
    BY LenProperties
  <1>2. q \in [1..Len(q) -> T]
    BY <1>1
  <1> QED BY <1>1, <1>2

LEMMA ElementsOf ==
    ASSUME NEW qs, NEW n, NEW p \in 1..n, NEW i \in 1..Len(qs[p])
    PROVE  qs[p][i] \in Elements(qs, n)
  BY DEF Elements

LEMMA SetFacts ==
    ASSUME NEW S, NEW q \in Seq(S)
    PROVE  /\ DOMAIN q = 1..Len(q) /\ Len(q) \in Nat
           /\ \A i \in 1..Len(q) : q[i] \in ToSet(q) /\ q[i] \in S
           /\ \A x \in ToSet(q) : x \in S /\ \E i \in 1..Len(q) : x = q[i]
           /\ q \in Seq(ToSet(q))
  <1>1. DOMAIN q = 1..Len(q) /\ Len(q) \in Nat
    BY LenProperties
  <1>2. \A i \in 1..Len(q) : q[i] \in S
    BY ElementOfSeq
  <1>3. /\ \A i \in 1..Len(q) : q[i] \in ToSet(q)
        /\ \A x \in ToSet(q) : \E i \in 1..Len(q) : x = q[i]
    BY <1>1 DEF ToSet
  <1>4. q \in Seq(ToSet(q))
    BY <1>3, SeqOver
  <1> QED BY <1>1, <1>2, <1>3, <1>4

\* What a stage's scope at place p has for mocks: made by its registrations.
LEMMA BegunMocks ==
    ASSUME IInv, NEW a \in 1..Len(stages), NEW p \in 1..Len(stages[a].scopes)
    PROVE  /\ stages[a].scopes[p].mocks \in Seq([stage : Nat, place : Nat, reg : Nat])
           /\ \A i \in 1..Len(stages[a].scopes[p].mocks) :
                 stages[a].scopes[p].mocks[i].place = p /\ stages[a].scopes[p].mocks[i].reg = i
  <1>1. Len(stages) \in Nat
    BY LenProperties DEF IInv, StagesOK
  <1>2. Entered(kind, setups, stages[a], a)
    BY DEF IInv, StagesOK
  <1>3. PICK s, c : s = stages[a].setup /\ c = setups[s][p]
    OBVIOUS
  <1>4. s \in 1..Len(setups) /\ setups[s] \in Seq(Container) /\ Len(setups[s]) \in Nat
    BY <1>2, <1>3, ElementOfSeq, LenProperties DEF Entered, IInv, ShapesOK
  <1>5. p \in 1..Len(setups[s]) /\ stages[a].scopes[p] = Begun(kind, c, a, p)
    BY <1>2, <1>3, <1>4 DEF Entered
  <1>6. c \in Container
    BY <1>3, <1>4, <1>5, ElementOfSeq
  <1>7. c.regs \in Seq(Registration) /\ DOMAIN c.regs = 1..Len(c.regs) /\ Len(c.regs) \in Nat
    BY <1>6, LenProperties DEF Container
  <1>8. CASE kind[c.of] # "mock"
    <2>1. stages[a].scopes[p].mocks = <<>>
      BY <1>5, <1>8 DEF Begun
    <2> QED BY <2>1
  <1>9. CASE kind[c.of] = "mock"
    <2>1. stages[a].scopes[p].mocks = [n \in 1..Len(c.regs) |-> Item(a, p, n)]
      BY <1>5, <1>7, <1>9 DEF Begun
    <2>2. /\ Len(stages[a].scopes[p].mocks) = Len(c.regs)
          /\ stages[a].scopes[p].mocks \in Seq([stage : Nat, place : Nat, reg : Nat])
      BY <1>1, <1>4, <1>5, <1>7, <2>1 DEF Item
    <2> QED BY <2>1, <2>2 DEF Item
  <1> QED BY <1>8, <1>9

LEMMA MockFacts ==
    ASSUME IInv
    PROVE  /\ Len(Scopes) \in Nat /\ DOMAIN Scopes = 1..Len(Scopes)
           /\ Mocks \in Seq(ToSet(Mocks)) /\ Distinct(Mocks)
           /\ \A p \in 1..Len(Scopes) : Scopes[p].mocks \in Seq(ToSet(Mocks))
           /\ \A m \in ToSet(Mocks) :
                 /\ m.place \in 1..Len(Scopes)
                 /\ m \in ToSet(Scopes[m.place].mocks)
  <1> DEFINE T == [stage : Nat, place : Nat, reg : Nat]
             qs == [p \in DOMAIN Scopes |-> Scopes[p].mocks]
  <1>1. /\ Len(Scopes) \in Nat /\ DOMAIN Scopes = 1..Len(Scopes)
        /\ \A p \in 1..Len(Scopes) :
              /\ Scopes[p].mocks \in Seq(T)
              /\ \A i \in 1..Len(Scopes[p].mocks) :
                    Scopes[p].mocks[i].place = p /\ Scopes[p].mocks[i].reg = i
    <2>1. CASE stages = <<>>
      <3>1. Scopes = <<>>
        BY <2>1 DEF Scopes
      <3> QED BY <3>1
    <2>2. CASE stages # <<>>
      <3>1. Len(stages) \in 1..Len(stages)
        BY <2>2, EmptySeq, LenProperties DEF IInv, StagesOK
      <3>2. PICK a \in 1..Len(stages) : Scopes = stages[a].scopes
        BY <2>2, <3>1 DEF Scopes, Last
      <3>3. Entered(kind, setups, stages[a], a)
        BY DEF IInv, StagesOK
      <3>4. Len(setups[stages[a].setup]) \in Nat
        BY <3>3, ElementOfSeq, LenProperties DEF Entered, IInv, ShapesOK
      <3>5. Len(Scopes) \in Nat /\ DOMAIN Scopes = 1..Len(Scopes)
        BY <3>2, <3>3, <3>4 DEF Entered
      <3> QED BY <3>2, <3>5, BegunMocks
    <2> QED BY <2>1, <2>2
  <1>2. /\ qs \in Seq(Seq(T)) /\ Len(qs) = Len(Scopes)
        /\ \A p \in 1..Len(Scopes) : qs[p] = Scopes[p].mocks
    BY <1>1
  <1>3. Mocks = FlattenSeq(qs)
    BY DEF Mocks
  <1> HIDE DEF qs, T
  <1>4. Apart(qs)
    <2> SUFFICES ASSUME NEW p \in 1..Len(qs), NEW q \in 1..Len(qs),
                        NEW i \in 1..Len(qs[p]), NEW j \in 1..Len(qs[q]), qs[p][i] = qs[q][j]
                 PROVE  p = q /\ i = j
      BY DEF Apart
    <2>1. /\ p \in 1..Len(Scopes) /\ i \in 1..Len(Scopes[p].mocks) /\ qs[p][i] = Scopes[p].mocks[i]
          /\ q \in 1..Len(Scopes) /\ j \in 1..Len(Scopes[q].mocks) /\ qs[q][j] = Scopes[q].mocks[j]
      BY <1>2
    <2>2. Scopes[p].mocks[i].place = p /\ Scopes[p].mocks[i].reg = i
      BY <1>1, <2>1
    <2>3. Scopes[q].mocks[j].place = q /\ Scopes[q].mocks[j].reg = j
      BY <1>1, <2>1
    <2>4. Scopes[p].mocks[i] = Scopes[q].mocks[j]
      BY <2>1
    <2> QED BY <2>2, <2>3, <2>4
  <1>5. /\ Mocks \in Seq(T) /\ Distinct(Mocks)
        /\ Lists(Mocks, Elements(qs, Len(Scopes)))
    BY <1>2, <1>3, <1>4, FlattenFacts DEF Joined
  <1>6. /\ \A x : x \in ToSet(Mocks) <=> x \in Elements(qs, Len(Scopes))
        /\ Mocks \in Seq(ToSet(Mocks))
    <2>1. /\ \A i \in 1..Len(Mocks) : Mocks[i] \in ToSet(Mocks)
          /\ \A x \in ToSet(Mocks) : \E i \in 1..Len(Mocks) : x = Mocks[i]
          /\ Mocks \in Seq(ToSet(Mocks))
      BY <1>5, SetFacts
    <2>2. /\ \A i \in 1..Len(Mocks) : Mocks[i] \in Elements(qs, Len(Scopes))
          /\ \A x \in Elements(qs, Len(Scopes)) : \E i \in 1..Len(Mocks) : x = Mocks[i]
      BY <1>5 DEF Lists
    <2> QED BY <2>1, <2>2
  <1>9. ASSUME NEW p \in 1..Len(Scopes) PROVE Scopes[p].mocks \in Seq(ToSet(Mocks))
    <2>1. PICK q : q = Scopes[p].mocks /\ q = qs[p] /\ q \in Seq(T)
      BY <1>1, <1>2
    <2>2. \A i \in 1..Len(q) : q[i] \in Elements(qs, Len(Scopes))
      BY <1>9, <2>1, ElementsOf
    <2>3. \A i \in 1..Len(q) : q[i] \in ToSet(Mocks)
      BY <1>6, <2>2
    <2> QED BY <2>1, <2>3, SeqOver
  <1>10. ASSUME NEW m \in ToSet(Mocks)
         PROVE  m.place \in 1..Len(Scopes) /\ m \in ToSet(Scopes[m.place].mocks)
    <2>1. PICK p \in 1..Len(Scopes) : \E i \in 1..Len(qs[p]) : m = qs[p][i]
      BY <1>6, <1>10 DEF Elements
    <2>2. PICK i \in 1..Len(Scopes[p].mocks) : m = Scopes[p].mocks[i]
      BY <1>2, <2>1
    <2>3. m.place = p /\ DOMAIN Scopes[p].mocks = 1..Len(Scopes[p].mocks)
      BY <1>1, <2>2, LenProperties
    <2> QED BY <2>2, <2>3 DEF ToSet
  <1> QED BY <1>1, <1>5, <1>6, <1>9, <1>10

-----------------------------------------------------------------------------
(* The use of the mocks: types, and where the test's goroutine can be.     *)

UsesOK ==
    /\ pc \in {"compose", "body", "asking", "cleanup", "logging", "over"}
    /\ gone \in BOOLEAN /\ failures \in BOOLEAN
    /\ declared \subseteq Expectation /\ IsFiniteSet(declared)
    /\ met \subseteq declared /\ vouched \subseteq declared /\ due \subseteq declared
    /\ toAsk \in Seq(ToSet(Mocks))
    /\ toCheck \in Seq(ToSet(Mocks))
    /\ toLog \in Seq(Expectation)
    /\ fails \in Seq(Seq(Expectation))
    /\ report \in [Goroutines -> Report \cup {NoReport}]
    /\ told \in Seq(Expectation)

ControlOK ==
    /\ pc # "compose" => Len(fails) = Len(Scopes)
    /\ toLog # <<>> => pc = "logging"
    /\ pc = "logging" => toCheck # <<>>
    /\ pc = "logging" /\ toLog = <<>> => report["test"] # NoReport
    /\ report["test"] # NoReport =>
          \/ pc = "body"
          \/ pc = "logging" /\ toLog = <<>> /\ report["test"].mock = toCheck[Len(toCheck)]

\* Nothing is used before the test has a stage to be on.
FreshOK ==
    pc = "compose" =>
        /\ declared = {} /\ met = {} /\ vouched = {} /\ due = {}
        /\ toAsk = <<>> /\ toCheck = <<>> /\ toLog = <<>> /\ fails = <<>> /\ told = <<>>
        /\ \A g \in Goroutines : report[g] = NoReport

UseInv == UsesOK /\ ControlOK /\ FreshOK

\* What is left of a sequence without its last element, or its first.
LEMMA Rest ==
    ASSUME NEW S, NEW q \in Seq(S), q # <<>>
    PROVE  /\ Len(q) \in Nat \ {0}
           /\ q[Len(q)] \in S /\ Head(q) \in S /\ Head(q) = q[1]
           /\ SubSeq(q, 1, Len(q) - 1) \in Seq(S)
           /\ Len(SubSeq(q, 1, Len(q) - 1)) = Len(q) - 1
           /\ \A i \in 1..(Len(q) - 1) : SubSeq(q, 1, Len(q) - 1)[i] = q[i]
           /\ Tail(q) \in Seq(S) /\ Len(Tail(q)) = Len(q) - 1
           /\ \A i \in 1..(Len(q) - 1) : Tail(q)[i] = q[i + 1]
  <1>1. Len(q) \in Nat \ {0} /\ q[Len(q)] \in S /\ Head(q) \in S /\ Head(q) = q[1]
    BY EmptySeq, LenProperties, ElementOfSeq, HeadTailProperties
  <1>2. /\ SubSeq(q, 1, Len(q) - 1) \in Seq(S)
        /\ Len(SubSeq(q, 1, Len(q) - 1)) = Len(q) - 1
        /\ \A i \in 1..(Len(q) - 1) : SubSeq(q, 1, Len(q) - 1)[i] = q[i]
    <2>1. \A i \in 1..(Len(q) - 1) : q[i] \in S
      BY <1>1, ElementOfSeq
    <2>2. 1 \in Int /\ Len(q) - 1 \in Int
      BY <1>1
    <2>3. /\ SubSeq(q, 1, Len(q) - 1) \in Seq(S)
          /\ Len(SubSeq(q, 1, Len(q) - 1)) = IF 1 <= Len(q) - 1 THEN (Len(q) - 1) - 1 + 1 ELSE 0
          /\ \A i \in 1..((Len(q) - 1) - 1 + 1) : SubSeq(q, 1, Len(q) - 1)[i] = q[1 + i - 1]
      BY <2>1, <2>2, SubSeqProperties
    <2>4. (Len(q) - 1) - 1 + 1 = Len(q) - 1 /\ \A i \in 1..(Len(q) - 1) : 1 + i - 1 = i
      BY <1>1
    <2> QED BY <1>1, <2>3, <2>4
  <1>3. Tail(q) \in Seq(S) /\ Len(Tail(q)) = Len(q) - 1
        /\ \A i \in 1..(Len(q) - 1) : Tail(q)[i] = q[i + 1]
    BY <1>1, HeadTailProperties
  <1> QED BY <1>1, <1>2, <1>3

\* A stage's mocks are the same for as long as nothing is composed.
LEMMA SameMocks ==
    ASSUME UNCHANGED composeVars
    PROVE  UNCHANGED <<Scopes, Mocks, Expectation, Report>>
  <1>1. Scopes' = Scopes
    BY DEF composeVars, Scopes, Last
  <1>2. Mocks' = Mocks
    BY <1>1 DEF Mocks
  <1>3. Expectation' = Expectation
    BY <1>2 DEF Expectation
  <1> QED BY <1>1, <1>2, <1>3 DEF Report

LEMMA ReportFacts ==
    ASSUME UsesOK, NEW g \in Goroutines, report[g] # NoReport
    PROVE  /\ report[g] \in Report
           /\ report[g].at \in {"take", "tell"}
           /\ report[g].mock \in ToSet(Mocks)
           /\ report[g].lines \in Seq(Expectation)
  BY DEF UsesOK, Report

LEMMA NoReportFacts ==
    /\ NoReport.at = "none"
    /\ \A m : Errorf(m) # NoReport /\ Errorf(m).at = "take" /\ Errorf(m).mock = m /\ Errorf(m).lines = <<>>
    /\ \A m \in ToSet(Mocks) : Errorf(m) \in Report
  <1>1. \A m : Errorf(m).at = "take" /\ Errorf(m).mock = m /\ Errorf(m).lines = <<>>
    BY DEF Errorf
  <1>2. NoReport.at = "none"
    BY DEF NoReport
  <1>3. \A m \in ToSet(Mocks) : Errorf(m) \in Report
    BY DEF Errorf, Report
  <1> QED BY <1>1, <1>2, <1>3

LEMMA InitUse == Init => UseInv
  <1> SUFFICES ASSUME Init PROVE UseInv
    OBVIOUS
  <1>0. /\ pc = "compose" /\ ~ gone /\ ~ failures
        /\ declared = {} /\ met = {} /\ vouched = {} /\ due = {}
        /\ toAsk = <<>> /\ toCheck = <<>> /\ toLog = <<>> /\ fails = <<>> /\ told = <<>>
        /\ report = [g \in Goroutines |-> NoReport]
    BY DEF Init
  <1>e. gone = FALSE /\ failures = FALSE
    BY DEF Init
  <1>1. UsesOK
    <2>1. IsFiniteSet(declared)
      BY <1>0, FS_EmptySet
    <2>2. /\ toAsk \in Seq(ToSet(Mocks)) /\ toCheck \in Seq(ToSet(Mocks))
          /\ toLog \in Seq(Expectation) /\ fails \in Seq(Seq(Expectation)) /\ told \in Seq(Expectation)
      BY <1>0
    <2>3. report \in [Goroutines -> Report \cup {NoReport}]
      BY <1>0
    <2>4. gone \in BOOLEAN /\ failures \in BOOLEAN
      BY <1>e
    <2>5. /\ declared \subseteq Expectation
          /\ met \subseteq declared /\ vouched \subseteq declared /\ due \subseteq declared
      BY <1>0
    <2> QED BY <1>0, <2>1, <2>2, <2>3, <2>4, <2>5 DEF UsesOK
  <1>2. ControlOK
    BY DEF Init, ControlOK, Goroutines
  <1> QED BY <1>1, <1>2 DEF UseInv, FreshOK, Init

LEMMA ComposeUse ==
    ASSUME IInv, UseInv, pc = "compose", UNCHANGED useVars
    PROVE  UseInv'
  <1>1. UNCHANGED <<pc, gone, declared, met, toAsk, failures, toCheck, toLog, fails, report, vouched, due, told>>
    BY DEF useVars
  <1>2. UsesOK'
    BY <1>1 DEF UseInv, UsesOK, FreshOK
  <1>3. ControlOK'
    BY <1>1 DEF UseInv, ControlOK, FreshOK, Goroutines
  <1> QED BY <1>1, <1>2, <1>3 DEF UseInv, FreshOK

LEMMA EnterUse ==
    ASSUME IInv, UseInv, Enter
    PROVE  UseInv'
  <1>1. /\ UNCHANGED composeVars
        /\ pc = "compose" /\ pc' = "body" /\ fails' = [p \in DOMAIN Scopes |-> <<>>] /\ toCheck' = Mocks
        /\ UNCHANGED <<gone, declared, met, toAsk, failures, toLog, report, vouched, due, told>>
    BY DEF Enter, mockVars, askVars
  <1>2. UNCHANGED <<Scopes, Mocks, Expectation, Report>>
    BY <1>1, SameMocks
  <1>3. fails' \in Seq(Seq(Expectation)) /\ Len(fails') = Len(Scopes)
    BY <1>1, MockFacts
  <1>4. UsesOK'
    BY <1>1, <1>2, <1>3, MockFacts DEF UseInv, UsesOK
  <1>5. ControlOK'
    BY <1>1, <1>2, <1>3 DEF UseInv, ControlOK, FreshOK, Goroutines
  <1> QED BY <1>1, <1>4, <1>5 DEF UseInv, FreshOK

LEMMA DeclareUse ==
    ASSUME IInv, UseInv, NEW m \in ToSet(Mocks), Declare(m)
    PROVE  UseInv'
  <1>1. /\ UNCHANGED composeVars /\ pc = "body"
        /\ UNCHANGED <<pc, gone, met, toAsk, failures, toCheck, toLog, fails, report, vouched, due, told>>
    BY DEF Declare, askVars, checkVars, reportVars, Runs
  <1>2. UNCHANGED <<Scopes, Mocks, Expectation, Report>>
    BY <1>1, SameMocks
  <1>3. PICK n : /\ n = Cardinality({e \in declared : e.mock = m}) /\ n < MaxExpected
                /\ declared' = declared \cup {[mock |-> m, number |-> n + 1]}
    BY DEF Declare
  <1>4. n \in Nat
    <2>1. {e \in declared : e.mock = m} \in SUBSET declared
      OBVIOUS
    <2> QED BY <1>3, <2>1, FS_Subset, FS_CardinalityType DEF UseInv, UsesOK
  <1>5. [mock |-> m, number |-> n + 1] \in Expectation
    BY <1>3, <1>4, ExpectedAssumption DEF Expectation
  <1>6. IsFiniteSet(declared')
    BY <1>3, FS_AddElement DEF UseInv, UsesOK
  <1>7. declared \subseteq declared' /\ declared' \subseteq Expectation
    BY <1>3, <1>5 DEF UseInv, UsesOK
  <1>8. UsesOK'
    BY <1>1, <1>2, <1>6, <1>7 DEF UseInv, UsesOK
  <1>9. ControlOK'
    BY <1>1, <1>2 DEF UseInv, ControlOK
  <1> QED BY <1>1, <1>8, <1>9 DEF UseInv, FreshOK

LEMMA CallUse ==
    ASSUME IInv, UseInv, NEW g \in Goroutines, NEW e \in declared \ met, Call(g, e)
    PROVE  UseInv'
  <1>1. /\ UNCHANGED composeVars /\ pc # "compose" /\ met' = met \cup {e}
        /\ UNCHANGED <<pc, gone, declared, toAsk, failures, toCheck, toLog, fails, report, vouched, due, told>>
    BY DEF Call, askVars, checkVars, reportVars, Runs
  <1>2. UNCHANGED <<Scopes, Mocks, Expectation, Report>>
    BY <1>1, SameMocks
  <1>3. UsesOK'
    BY <1>1, <1>2 DEF UseInv, UsesOK
  <1>4. ControlOK'
    BY <1>1, <1>2 DEF UseInv, ControlOK
  <1> QED BY <1>1, <1>3, <1>4 DEF UseInv, FreshOK

LEMMA CallUnexpectedUse ==
    ASSUME IInv, UseInv, NEW g \in Goroutines, NEW m \in ToSet(Mocks), CallUnexpected(g, m)
    PROVE  UseInv'
  <1>1. /\ UNCHANGED composeVars /\ pc # "compose" /\ (g = "test" => pc = "body")
        /\ report' = [report EXCEPT ![g] = Errorf(m)]
        /\ UNCHANGED <<pc, gone, declared, met, toAsk, failures, toCheck, toLog, fails, vouched, due, told>>
    BY DEF CallUnexpected, mockVars, askVars, checkVars, Runs
  <1>2. UNCHANGED <<Scopes, Mocks, Expectation, Report>>
    BY <1>1, SameMocks
  <1>3. Errorf(m) \in Report /\ Errorf(m) # NoReport
    BY NoReportFacts
  <1>4. UsesOK'
    BY <1>1, <1>2, <1>3 DEF UseInv, UsesOK
  <1>5. /\ g # "test" => report'["test"] = report["test"]
        /\ g = "test" => report'["test"] # NoReport
    BY <1>1, <1>3 DEF UseInv, UsesOK, Goroutines
  <1>6. ControlOK'
    BY <1>1, <1>2, <1>5 DEF UseInv, ControlOK
  <1> QED BY <1>1, <1>4, <1>6 DEF UseInv, FreshOK

LEMMA TakeUse ==
    ASSUME IInv, UseInv, NEW g \in Goroutines, Take(g)
    PROVE  UseInv'
  <1> DEFINE p == report[g].mock.place
  <1>1. /\ UNCHANGED composeVars /\ report[g].at = "take"
        /\ report' = [report EXCEPT ![g].at = "tell", ![g].lines = fails[p]]
        /\ fails' = [fails EXCEPT ![p] = <<>>]
        /\ UNCHANGED <<pc, gone, declared, met, toAsk, failures, toCheck, toLog, vouched, due, told>>
    BY DEF Take, mockVars, askVars, checkVars
  <1>2. UNCHANGED <<Scopes, Mocks, Expectation, Report>>
    BY <1>1, SameMocks
  <1>3. /\ report[g] # NoReport /\ report[g] \in Report /\ report[g].mock \in ToSet(Mocks)
        /\ pc # "compose"
    BY <1>1, NoReportFacts, ReportFacts DEF UseInv, FreshOK
  <1>4. p \in 1..Len(fails) /\ fails[p] \in Seq(Expectation)
    <2>1. p \in 1..Len(Scopes)
      BY <1>3, MockFacts
    <2>2. p \in 1..Len(fails)
      BY <1>3, <2>1 DEF UseInv, ControlOK
    <2> QED BY <2>2, ElementOfSeq DEF UseInv, UsesOK
  <1> HIDE DEF p
  <1>5. PICK r : r = [report[g] EXCEPT !.at = "tell", !.lines = fails[p]]
    OBVIOUS
  <1>6. r \in Report /\ r.mock = report[g].mock /\ r.at = "tell" /\ report' = [report EXCEPT ![g] = r]
    BY <1>1, <1>3, <1>4, <1>5 DEF Report
  <1>7. r # NoReport
    BY <1>6, NoReportFacts
  <1>8. fails' \in Seq(Seq(Expectation)) /\ Len(fails') = Len(fails)
    BY <1>1, <1>4 DEF UseInv, UsesOK
  <1>9. UsesOK'
    BY <1>1, <1>2, <1>6, <1>8 DEF UseInv, UsesOK
  <1>10. /\ g # "test" => report'["test"] = report["test"]
         /\ g = "test" => /\ report'["test"] # NoReport /\ report["test"] # NoReport
                          /\ report'["test"].mock = report["test"].mock
    BY <1>3, <1>6, <1>7 DEF UseInv, UsesOK, Goroutines
  <1>11. ControlOK'
    BY <1>1, <1>2, <1>8, <1>10 DEF UseInv, ControlOK
  <1> QED BY <1>1, <1>3, <1>9, <1>11 DEF UseInv, FreshOK

LEMMA TellUse ==
    ASSUME IInv, UseInv, NEW g \in Goroutines, Tell(g)
    PROVE  UseInv'
  <1>1. /\ UNCHANGED composeVars /\ report[g].at = "tell"
        /\ report' = [report EXCEPT ![g] = NoReport]
        /\ told' = told \o report[g].lines
        /\ UNCHANGED <<declared, met, toAsk, failures, toLog, vouched, due, fails>>
    BY DEF Tell, mockVars, askVars
  <1>2. UNCHANGED <<Scopes, Mocks, Expectation, Report>>
    BY <1>1, SameMocks
  <1>3. report[g] # NoReport /\ report[g].lines \in Seq(Expectation)
    BY <1>1, NoReportFacts, ReportFacts DEF UseInv
  <1>4. told' \in Seq(Expectation)
    BY <1>1, <1>3, ConcatProperties DEF UseInv, UsesOK
  <1>5. report' \in [Goroutines -> Report \cup {NoReport}]
    BY <1>1 DEF UseInv, UsesOK
  <1>6. CASE g = "stray"
    <2>1. gone' = TRUE /\ pc' = pc /\ toCheck' = toCheck
      BY <1>6 DEF Tell
    <2>2. report'["test"] = report["test"]
      BY <1>1, <1>6 DEF UseInv, UsesOK, Goroutines
    <2>3. UsesOK'
      BY <1>1, <1>2, <1>4, <1>5, <2>1 DEF UseInv, UsesOK
    <2>4. ControlOK'
      BY <1>1, <1>2, <2>1, <2>2 DEF UseInv, ControlOK
    <2>5. pc # "compose"
      BY <1>3 DEF UseInv, FreshOK
    <2> QED BY <2>1, <2>3, <2>4, <2>5 DEF UseInv, FreshOK
  <1>7. CASE g # "stray"
    <2>1. /\ g = "test" /\ pc' = "cleanup" /\ gone' = gone
          /\ toCheck' = IF pc = "logging" THEN SubSeq(toCheck, 1, Len(toCheck) - 1) ELSE toCheck
      BY <1>7 DEF Tell, Goroutines, Front
    <2>2. toCheck' \in Seq(ToSet(Mocks))
      <3>1. CASE pc = "logging"
        BY <2>1, <3>1, Rest DEF UseInv, UsesOK, ControlOK
      <3>2. CASE pc # "logging"
        BY <2>1, <3>2 DEF UseInv, UsesOK
      <3> QED BY <3>1, <3>2
    <2>3. report'["test"] = NoReport
      BY <1>1, <2>1 DEF UseInv, UsesOK
    <2>4. toLog = <<>>
      BY <1>3, <2>1 DEF UseInv, ControlOK
    <2>5. UsesOK'
      BY <1>1, <1>2, <1>4, <1>5, <2>1, <2>2 DEF UseInv, UsesOK
    <2>6. pc # "compose"
      BY <1>3 DEF UseInv, FreshOK
    <2>7. ControlOK'
      BY <1>1, <1>2, <2>1, <2>3, <2>4, <2>6 DEF UseInv, ControlOK
    <2> QED BY <2>1, <2>5, <2>7 DEF UseInv, FreshOK
  <1> QED BY <1>6, <1>7

LEMMA SatisfiedUse ==
    ASSUME IInv, UseInv, Satisfied
    PROVE  UseInv'
  <1>1. /\ UNCHANGED composeVars /\ pc # "compose"
        /\ UNCHANGED <<gone, declared, met, toCheck, toLog, fails, report, due, told>>
    BY DEF Satisfied, SatisfiedBegins, SatisfiedAsks, SatisfiedEnds, mockVars, checkVars, reportVars, Runs
  <1>2. UNCHANGED <<Scopes, Mocks, Expectation, Report>>
    BY <1>1, SameMocks
  <1>3. /\ pc \in {"body", "asking"} /\ pc' \in {"body", "asking", "cleanup"}
        /\ failures' \in BOOLEAN
        /\ toAsk' \in Seq(ToSet(Mocks))
        /\ vouched' \in {vouched, declared}
        /\ pc = "body" => report["test"] = NoReport
    <2>1. CASE SatisfiedBegins
      <3>1. PICK p \in DOMAIN Scopes : toAsk' = Scopes[p].mocks
        BY <2>1 DEF SatisfiedBegins
      <3> QED BY <2>1, <3>1, MockFacts DEF SatisfiedBegins, Runs
    <2>2. CASE SatisfiedAsks
      BY <2>2, Rest DEF SatisfiedAsks, UseInv, UsesOK
    <2>3. CASE SatisfiedEnds
      BY <2>3 DEF SatisfiedEnds, UseInv, UsesOK
    <2> QED BY <2>1, <2>2, <2>3 DEF Satisfied
  <1>4. UsesOK'
    BY <1>1, <1>2, <1>3 DEF UseInv, UsesOK
  <1>5. ControlOK'
    BY <1>1, <1>2, <1>3 DEF UseInv, ControlOK
  <1> QED BY <1>3, <1>4, <1>5 DEF UseInv, FreshOK

LEMMA BodyEndsUse ==
    ASSUME IInv, UseInv, BodyEnds \/ TestOver
    PROVE  UseInv'
  <1>1. /\ UNCHANGED composeVars /\ pc \in {"body", "cleanup"} /\ pc' \in {"cleanup", "over"}
        /\ pc = "body" => report["test"] = NoReport
        /\ UNCHANGED <<gone, declared, met, toAsk, failures, toCheck, toLog, fails, report, vouched, due, told>>
    BY DEF BodyEnds, TestOver, mockVars, askVars, checkVars, reportVars, Runs
  <1>2. UNCHANGED <<Scopes, Mocks, Expectation, Report>>
    BY <1>1, SameMocks
  <1>3. UsesOK'
    BY <1>1, <1>2 DEF UseInv, UsesOK
  <1>4. ControlOK'
    BY <1>1, <1>2 DEF UseInv, ControlOK
  <1> QED BY <1>1, <1>3, <1>4 DEF UseInv, FreshOK

\* What is logged of a mock: each of its unmet expectations, once.
LEMMA InOrderFacts ==
    ASSUME NEW es, IsFiniteSet(es), \A e \in es : e.number \in Nat, NEW q \in InOrder(es)
    PROVE  q \in Seq(es) /\ Distinct(q) /\ ToSet(q) = es
  <1>1. /\ q \in [1..Cardinality(es) -> es] /\ Cardinality(es) \in Nat
        /\ \A i, j \in DOMAIN q : i < j => q[i].number < q[j].number
    BY FS_CardinalityType DEF InOrder
  <1>2. q \in Seq(es) /\ Len(q) = Cardinality(es) /\ DOMAIN q = 1..Cardinality(es)
    BY <1>1
  <1>3. \A i \in 1..Cardinality(es) : q[i] \in es /\ q[i].number \in Nat
    BY <1>1
  <1>4. ASSUME NEW i \in 1..Cardinality(es), NEW j \in 1..Cardinality(es), q[i] = q[j]
        PROVE  i = j
    <2>1. ~ (q[i].number < q[j].number) /\ ~ (q[j].number < q[i].number)
      BY <1>3, <1>4
    <2>2. ~ (i < j) /\ ~ (j < i)
      BY <1>1, <1>2, <2>1
    <2> QED BY <1>1, <2>2
  <1>5. q \in Injection(1..Cardinality(es), es)
    BY <1>1, <1>4 DEF Injection, IsInjective
  <1>6. Cardinality(1..Cardinality(es)) = Cardinality(es)
    <2>1. 1 \in Int /\ Cardinality(es) \in Int
      BY <1>1
    <2> QED BY <1>1, <2>1, FS_Interval
  <1>7. q \in Surjection(1..Cardinality(es), es)
    BY <1>5, <1>6, FS_Injection
  <1>8. \A e \in es : \E i \in 1..Cardinality(es) : q[i] = e
    BY <1>7 DEF Surjection
  <1>9. ToSet(q) = es
    BY <1>2, <1>3, <1>8 DEF ToSet
  <1> QED BY <1>2, <1>4, <1>9 DEF Distinct

\* A check begins: what the mock asserting has unmet, and what it will log.
LEMMA CheckFacts ==
    ASSUME IInv, UseInv, CheckBegins
    PROVE  /\ UNCHANGED <<composeVars, Scopes, Mocks, Expectation, Report>>
           /\ UNCHANGED <<gone, declared, met, toAsk, failures, fails, report, vouched, told>>
           /\ pc = "cleanup" /\ toCheck # <<>> /\ report["test"] = NoReport /\ toLog = <<>>
           /\ \E es \in SUBSET declared :
                 /\ \A e \in es : e.mock = toCheck[Len(toCheck)]
                 /\ due' = due \cup es
                 /\ toLog' \in Seq(es) /\ Distinct(toLog') /\ ToSet(toLog') = es
                 /\ IF es = {} THEN toCheck' = SubSeq(toCheck, 1, Len(toCheck) - 1) /\ pc' = pc
                    ELSE toCheck' = toCheck /\ pc' = "logging"
  <1>1. /\ UNCHANGED composeVars /\ pc = "cleanup" /\ toCheck # <<>>
        /\ UNCHANGED <<gone, declared, met, toAsk, failures, fails, report, vouched, told>>
    BY DEF CheckBegins, mockVars, askVars, reportVars
  <1>2. UNCHANGED <<Scopes, Mocks, Expectation, Report>>
    BY <1>1, SameMocks
  <1>3. report["test"] = NoReport /\ toLog = <<>>
    BY <1>1 DEF UseInv, ControlOK
  <1>4. PICK es : /\ es = {e \in declared \ met : e.mock = toCheck[Len(toCheck)]}
                 /\ due' = due \cup es /\ toLog' \in InOrder(es)
                 /\ IF es = {} THEN toCheck' = SubSeq(toCheck, 1, Len(toCheck) - 1) /\ pc' = pc
                    ELSE toCheck' = toCheck /\ pc' = "logging"
    BY DEF CheckBegins, Unmet, Last, Front
  <1>5. es \in SUBSET declared /\ \A e \in es : e.mock = toCheck[Len(toCheck)]
    BY <1>4
  <1>6. IsFiniteSet(es) /\ \A e \in es : e.number \in Nat
    BY <1>5, FS_Subset, ExpectedAssumption DEF UseInv, UsesOK, Expectation
  <1>7. toLog' \in Seq(es) /\ Distinct(toLog') /\ ToSet(toLog') = es
    BY <1>4, <1>6, InOrderFacts
  <1> QED BY <1>1, <1>2, <1>3, <1>4, <1>5, <1>7

LEMMA CheckBeginsUse ==
    ASSUME IInv, UseInv, CheckBegins
    PROVE  UseInv'
  <1>1. PICK es \in SUBSET declared :
            /\ due' = due \cup es
            /\ toLog' \in Seq(es) /\ ToSet(toLog') = es
            /\ IF es = {} THEN toCheck' = SubSeq(toCheck, 1, Len(toCheck) - 1) /\ pc' = pc
               ELSE toCheck' = toCheck /\ pc' = "logging"
    BY CheckFacts
  <1>2. /\ UNCHANGED <<Scopes, Mocks, Expectation, Report>>
        /\ UNCHANGED <<gone, declared, met, toAsk, failures, fails, report, vouched, told>>
        /\ pc = "cleanup" /\ toCheck # <<>> /\ report["test"] = NoReport
    BY CheckFacts
  <1>3. toLog' \in Seq(Expectation)
    <2>1. \A i \in 1..Len(toLog') : toLog'[i] \in Expectation
      BY <1>1, ElementOfSeq DEF UseInv, UsesOK
    <2> QED BY <1>1, <2>1, SeqOver
  <1>4. toCheck' \in Seq(ToSet(Mocks))
    <2>1. SubSeq(toCheck, 1, Len(toCheck) - 1) \in Seq(ToSet(Mocks)) /\ toCheck \in Seq(ToSet(Mocks))
      BY <1>2, Rest DEF UseInv, UsesOK
    <2> QED BY <1>1, <2>1
  <1>5. toLog' = <<>> <=> es = {}
    <2>1. toLog' = <<>> => es = {}
      BY <1>1 DEF ToSet
    <2>2. es = {} => toLog' = <<>>
      BY <1>1, EmptySeq, LenProperties, ElementOfSeq
    <2> QED BY <2>1, <2>2
  <1>6. UsesOK'
    BY <1>1, <1>2, <1>3, <1>4 DEF UseInv, UsesOK
  <1>7. ControlOK'
    BY <1>1, <1>2, <1>5 DEF UseInv, ControlOK
  <1> QED BY <1>1, <1>2, <1>6, <1>7 DEF UseInv, FreshOK

LEMMA LogfFacts ==
    ASSUME IInv, UseInv, Logf
    PROVE  /\ UNCHANGED <<composeVars, Scopes, Mocks, Expectation, Report>>
           /\ UNCHANGED <<pc, gone, declared, met, toAsk, failures, toCheck, vouched, due, told>>
           /\ pc = "logging" /\ toLog # <<>> /\ toCheck # <<>> /\ report["test"] = NoReport
           /\ toLog' = Tail(toLog)
           /\ \E m \in ToSet(Mocks) :
                 /\ m = toCheck[Len(toCheck)] /\ m.place \in 1..Len(fails)
                 /\ fails' = [fails EXCEPT ![m.place] = Append(@, Head(toLog))]
                 /\ report' = IF toLog' = <<>> THEN [report EXCEPT !["test"] = Errorf(m)] ELSE report
  <1>1. /\ UNCHANGED composeVars /\ pc = "logging" /\ toLog # <<>> /\ toLog' = Tail(toLog)
        /\ UNCHANGED <<pc, gone, declared, met, toAsk, failures, toCheck, vouched, due, told>>
    BY DEF Logf, mockVars, askVars
  <1>2. UNCHANGED <<Scopes, Mocks, Expectation, Report>>
    BY <1>1, SameMocks
  <1>3. toCheck # <<>> /\ report["test"] = NoReport
    BY <1>1 DEF UseInv, ControlOK
  <1>4. PICK m \in ToSet(Mocks) : m = toCheck[Len(toCheck)]
    BY <1>3, Rest DEF UseInv, UsesOK
  <1>5. m.place \in 1..Len(fails)
    BY <1>1, MockFacts DEF UseInv, ControlOK
  <1>6. fails' = [fails EXCEPT ![m.place] = Append(@, Head(toLog))]
    BY <1>4 DEF Logf, Last
  <1>7. Len(toLog) \in Nat \ {0} /\ Tail(toLog) \in Seq(Expectation) /\ Len(Tail(toLog)) = Len(toLog) - 1
    BY <1>1, Rest DEF UseInv, UsesOK
  <1>8. toLog' = <<>> <=> ~ (Len(toLog) > 1)
    <2>1. toLog' = <<>> <=> Len(toLog') = 0
      BY <1>1, <1>7, EmptySeq
    <2>2. Len(toLog') = Len(toLog) - 1
      BY <1>1, <1>7
    <2> QED BY <1>7, <2>1, <2>2
  <1>9. report' = IF toLog' = <<>> THEN [report EXCEPT !["test"] = Errorf(m)] ELSE report
    BY <1>4, <1>8 DEF Logf, Last
  <1> QED BY <1>1, <1>2, <1>3, <1>4, <1>5, <1>6, <1>9

LEMMA LogfUse ==
    ASSUME IInv, UseInv, Logf
    PROVE  UseInv'
  <1>1. PICK m \in ToSet(Mocks) :
            /\ m = toCheck[Len(toCheck)] /\ m.place \in 1..Len(fails)
            /\ fails' = [fails EXCEPT ![m.place] = Append(@, Head(toLog))]
            /\ report' = IF toLog' = <<>> THEN [report EXCEPT !["test"] = Errorf(m)] ELSE report
    BY LogfFacts
  <1>2. /\ UNCHANGED <<Scopes, Mocks, Expectation, Report>>
        /\ UNCHANGED <<pc, gone, declared, met, toAsk, failures, toCheck, vouched, due, told>>
        /\ pc = "logging" /\ toLog # <<>> /\ toCheck # <<>> /\ report["test"] = NoReport
        /\ toLog' = Tail(toLog)
    BY LogfFacts
  <1>3. toLog' \in Seq(Expectation) /\ Head(toLog) \in Expectation
    BY <1>2, Rest DEF UseInv, UsesOK
  <1>4. fails' \in Seq(Seq(Expectation)) /\ Len(fails') = Len(fails)
    <2>1. fails[m.place] \in Seq(Expectation)
      BY <1>1, ElementOfSeq DEF UseInv, UsesOK
    <2>2. Append(fails[m.place], Head(toLog)) \in Seq(Expectation)
      BY <1>3, <2>1
    <2> QED BY <1>1, <2>2 DEF UseInv, UsesOK
  <1>5. Errorf(m) \in Report /\ Errorf(m) # NoReport /\ Errorf(m).mock = m
    BY NoReportFacts
  <1>6. report' \in [Goroutines -> Report \cup {NoReport}]
    BY <1>1, <1>5 DEF UseInv, UsesOK
  <1>7. /\ toLog' # <<>> => report'["test"] = NoReport
        /\ toLog' = <<>> => report'["test"] = Errorf(m)
    BY <1>1, <1>2 DEF UseInv, UsesOK, Goroutines
  <1>8. UsesOK'
    BY <1>2, <1>3, <1>4, <1>6 DEF UseInv, UsesOK
  <1>9. ControlOK'
    BY <1>1, <1>2, <1>4, <1>5, <1>7 DEF UseInv, ControlOK
  <1> QED BY <1>2, <1>8, <1>9 DEF UseInv, FreshOK

LEMMA NextUse == IInv /\ UseInv /\ [Next]_vars => UseInv'
  <1> SUFFICES ASSUME IInv, UseInv, [Next]_vars PROVE UseInv'
    OBVIOUS
  <1>1. CASE pc = "compose" /\ Compose /\ UNCHANGED useVars
    BY <1>1, ComposeUse
  <1>2. CASE Enter
    BY <1>2, EnterUse
  <1>3. ASSUME NEW m \in ToSet(Mocks), Declare(m) PROVE UseInv'
    BY <1>3, DeclareUse
  <1>4. ASSUME NEW g \in Goroutines, Calls(g) PROVE UseInv'
    BY <1>4, CallUse, CallUnexpectedUse, TakeUse, TellUse DEF Calls
  <1>5. CASE Satisfied
    BY <1>5, SatisfiedUse
  <1>6. CASE BodyEnds \/ TestOver
    BY <1>6, BodyEndsUse
  <1>7. CASE CheckBegins
    BY <1>7, CheckBeginsUse
  <1>8. CASE Logf
    BY <1>8, LogfUse
  <1>9. CASE Finished \/ UNCHANGED vars
    <2>1. UNCHANGED composeVars /\ UNCHANGED useVars
      BY <1>9 DEF Finished, vars
    <2>2. UNCHANGED <<Scopes, Mocks, Expectation, Report>>
      BY <2>1, SameMocks
    <2> QED BY <2>1, <2>2 DEF useVars, UseInv, UsesOK, ControlOK, FreshOK
  <1> QED BY <1>1, <1>2, <1>3, <1>4, <1>5, <1>6, <1>7, <1>8, <1>9 DEF Next, Cleanup

\* The bounded counters.
BoundsOK == adds \in 0..MaxAdds /\ calls \in 0..MaxSetups

LEMMA InitBounds == Init => BoundsOK
  BY BoundsAssumption DEF Init, ComposeInit, BoundsOK

LEMMA NextBounds == BoundsOK /\ [Next]_vars => BoundsOK'
  <1> SUFFICES ASSUME BoundsOK, [Next]_vars PROVE BoundsOK'
    OBVIOUS
  <1>1. CASE Compose
    <2>1. CASE \E b \in Builders : \E keys \in Registrable(kind[b]) : Register(b, keys) \/ RegisterPanics(b, keys)
      <3>1. adds < MaxAdds /\ adds' = adds + 1 /\ calls' = calls
        BY <2>1 DEF Register, RegisterPanics, setupVars
      <3> QED BY <3>1, BoundsAssumption DEF BoundsOK
    <2>2. CASE \E order : NewSetup(order)
      <3>1. calls < MaxSetups /\ calls' = calls + 1 /\ adds' = adds
        BY <2>2 DEF NewSetup, builderVars
      <3> QED BY <3>1, BoundsAssumption DEF BoundsOK
    <2>3. CASE Build \/ BuildFails \/ \E s \in DOMAIN setups : EnterStage(s)
      <3>1. calls' = calls /\ adds' = adds
        BY <2>3 DEF Build, BuildFails, EnterStage, builderVars, setupVars
      <3> QED BY <3>1 DEF BoundsOK
    <2> QED BY <1>1, <2>1, <2>2, <2>3 DEF Compose
  <1>2. CASE UNCHANGED composeVars
    BY <1>2 DEF composeVars, BoundsOK
  <1>3. Next => Compose \/ UNCHANGED composeVars
    BY DEF Next, Enter, Declare, Calls, Call, CallUnexpected, Take, Tell, Satisfied, SatisfiedBegins,
           SatisfiedAsks, SatisfiedEnds, BodyEnds, Cleanup, CheckBegins, Logf, TestOver, Finished, vars
  <1> QED BY <1>1, <1>2, <1>3 DEF vars

LEMMA InvTypes == IInv /\ UseInv /\ BoundsOK => TypeOK
  <1> SUFFICES ASSUME IInv, UseInv, BoundsOK PROVE TypeOK
    OBVIOUS
  <1>1. \A b \in Builders : KeysOf(regs[b]) \subseteq seen[b]
    <2> SUFFICES ASSUME NEW b \in Builders, NEW t \in KeysOf(regs[b]) PROVE t \in seen[b]
      OBVIOUS
    <2>1. regs[b] \in Seq(Seq(Types)) /\ DOMAIN regs[b] = 1..Len(regs[b])
      BY LenProperties DEF IInv, ShapesOK
    <2>2. PICK n \in 1..Len(regs[b]) : t \in ToSet(regs[b][n])
      BY <2>1 DEF KeysOf
    <2>3. regs[b][n] \in Seq(Types)
      BY <2>1, <2>2, ElementOfSeq
    <2>4. PICK i \in 1..Len(regs[b][n]) : t = regs[b][n][i]
      BY <2>2, <2>3, SetFacts
    <2> QED BY <2>2, <2>4 DEF IInv, HeldOK, Held
  <1>2. ASSUME NEW n \in DOMAIN stages
        PROVE  /\ stages[n].setup \in DOMAIN setups
               /\ Len(stages[n].scopes) = Len(setups[stages[n].setup])
    <2>1. n \in 1..Len(stages) /\ Entered(kind, setups, stages[n], n)
      BY LenProperties DEF IInv, StagesOK
    <2>2. /\ DOMAIN setups = 1..Len(setups)
          /\ Len(setups[stages[n].setup]) \in Nat
      BY <2>1, LenProperties, ElementOfSeq DEF Entered, IInv, ShapesOK
    <2> QED BY <2>1, <2>2 DEF Entered
  <1>3. ComposeTypeOK
    BY <1>1, <1>2 DEF ComposeTypeOK, IInv, ShapesOK, BoundsOK, Registration
  <1>4. \A g \in Goroutines : report[g] = NoReport \/ report[g] \in Report
    BY DEF UseInv, UsesOK
  <1> QED BY <1>3, <1>4 DEF TypeOK, UseInv, UsesOK

\* Types and control, of the builders and of what the test does with the mocks.
THEOREM UseInvariance == Spec => [](IInv /\ UseInv /\ BoundsOK)
  <1>1. Init => IInv /\ UseInv /\ BoundsOK
    BY InitInv, InitUse, InitBounds
  <1>2. (IInv /\ UseInv /\ BoundsOK) /\ [Next]_vars => (IInv /\ UseInv /\ BoundsOK)'
    BY NextKeeps, NextUse, NextBounds
  <1> QED BY <1>1, <1>2, PTL DEF Spec

\* All variables keep their types, however many builders and mocks, whatever is
\* expected of them.
THEOREM TypeOKHolds == Spec => []TypeOK
  BY UseInvariance, InvTypes, PTL

-----------------------------------------------------------------------------
(* What Satisfied has passed over has been met.                            *)

\* While Satisfied asks: the mocks of one container, of which those asked already
\* have nothing unmet, or there is a failure.
AskOK ==
    pc = "asking" =>
        \E p \in 1..Len(Scopes) :
            /\ Scopes[p].mocks # <<>>
            /\ ~failures => \A e \in declared :
                   e.mock \in ToSet(Scopes[p].mocks) /\ e.mock \notin ToSet(toAsk) => e \in met

LEMMA AskStays ==
    ASSUME AskOK, SatisfiedMeansMet,
           Scopes' = Scopes, vouched' = vouched, met \subseteq met',
           pc' = "asking" => pc = "asking" /\ UNCHANGED <<declared, toAsk, failures>>
    PROVE  AskOK' /\ SatisfiedMeansMet'
  <1>1. SatisfiedMeansMet'
    BY DEF SatisfiedMeansMet
  <1>2. AskOK'
    BY DEF AskOK
  <1> QED BY <1>1, <1>2

LEMMA AskBegins ==
    ASSUME IInv, AskOK, SatisfiedMeansMet, SatisfiedBegins
    PROVE  AskOK' /\ SatisfiedMeansMet'
  <1>1. UNCHANGED composeVars /\ UNCHANGED <<vouched, met, declared>>
    BY DEF SatisfiedBegins, mockVars
  <1>2. Scopes' = Scopes
    BY <1>1, SameMocks
  <1>3. PICK p \in DOMAIN Scopes : Scopes[p].mocks # <<>> /\ toAsk' = Scopes[p].mocks
    BY DEF SatisfiedBegins
  <1>4. p \in 1..Len(Scopes)
    BY MockFacts
  <1>5. AskOK'
    BY <1>2, <1>3, <1>4 DEF AskOK
  <1>6. SatisfiedMeansMet'
    BY <1>1, <1>2 DEF SatisfiedMeansMet
  <1> QED BY <1>5, <1>6

LEMMA AskAsks ==
    ASSUME UseInv, AskOK, SatisfiedMeansMet, SatisfiedAsks
    PROVE  AskOK' /\ SatisfiedMeansMet'
  <1>1. /\ UNCHANGED composeVars /\ UNCHANGED <<vouched, met, declared>>
        /\ toAsk # <<>> /\ toAsk' = Tail(toAsk) /\ pc = "asking"
        /\ failures' = (failures \/ Unmet(Head(toAsk)) # {})
    BY DEF SatisfiedAsks, mockVars
  <1>2. Scopes' = Scopes
    BY <1>1, SameMocks
  <1>3. PICK p \in 1..Len(Scopes) :
            /\ Scopes[p].mocks # <<>>
            /\ ~failures => \A e \in declared :
                   e.mock \in ToSet(Scopes[p].mocks) /\ e.mock \notin ToSet(toAsk) => e \in met
    BY <1>1 DEF AskOK
  <1>4. \A m \in ToSet(toAsk) : m = Head(toAsk) \/ m \in ToSet(Tail(toAsk))
    <2> SUFFICES ASSUME NEW m \in ToSet(toAsk), m # Head(toAsk) PROVE m \in ToSet(Tail(toAsk))
      OBVIOUS
    <2>1. toAsk \in Seq(ToSet(Mocks))
      BY DEF UseInv, UsesOK
    <2>2. PICK i \in 1..Len(toAsk) : m = toAsk[i]
      BY <2>1, SetFacts
    <2>3. /\ Len(toAsk) \in Nat /\ Head(toAsk) = toAsk[1]
          /\ Tail(toAsk) \in Seq(ToSet(Mocks)) /\ Len(Tail(toAsk)) = Len(toAsk) - 1
          /\ \A j \in 1..(Len(toAsk) - 1) : Tail(toAsk)[j] = toAsk[j + 1]
      BY <1>1, <2>1, Rest
    <2>4. i - 1 \in 1..(Len(toAsk) - 1) /\ (i - 1) + 1 = i
      BY <2>2, <2>3
    <2>5. Tail(toAsk)[i - 1] = m
      BY <2>2, <2>3, <2>4
    <2> QED BY <2>3, <2>4, <2>5, SetFacts
  <1>5. ~failures' => \A e \in declared :
            e.mock \in ToSet(Scopes[p].mocks) /\ e.mock \notin ToSet(toAsk') => e \in met
    <2> SUFFICES ASSUME ~failures', NEW e \in declared,
                        e.mock \in ToSet(Scopes[p].mocks), e.mock \notin ToSet(toAsk')
                 PROVE  e \in met
      OBVIOUS
    <2>1. ~failures /\ Unmet(Head(toAsk)) = {}
      BY <1>1
    <2>2. CASE e.mock = Head(toAsk)
      BY <2>1, <2>2 DEF Unmet
    <2>3. CASE e.mock # Head(toAsk)
      BY <1>1, <1>3, <1>4, <2>1, <2>3
    <2> QED BY <2>2, <2>3
  <1>6. AskOK'
    BY <1>1, <1>2, <1>3, <1>5 DEF AskOK
  <1>7. SatisfiedMeansMet'
    BY <1>1, <1>2 DEF SatisfiedMeansMet
  <1> QED BY <1>6, <1>7

LEMMA AskEnds ==
    ASSUME IInv, UseInv, AskOK, SatisfiedMeansMet, SatisfiedEnds
    PROVE  AskOK' /\ SatisfiedMeansMet'
  <1>1. /\ UNCHANGED composeVars /\ UNCHANGED <<met, declared>> /\ pc' # "asking"
        /\ toAsk = <<>> /\ pc = "asking"
        /\ vouched' = IF failures THEN vouched ELSE declared
    BY DEF SatisfiedEnds, mockVars
  <1>2. Scopes' = Scopes
    BY <1>1, SameMocks
  <1>3. AskOK'
    BY <1>1 DEF AskOK
  <1>4. ASSUME Cardinality({p \in DOMAIN Scopes : Scopes[p].mocks # <<>>}) = 1, ~failures,
               NEW e \in declared
        PROVE  e \in met
    <2>1. PICK p \in 1..Len(Scopes) :
              /\ Scopes[p].mocks # <<>>
              /\ \A d \in declared :
                     d.mock \in ToSet(Scopes[p].mocks) /\ d.mock \notin ToSet(toAsk) => d \in met
      BY <1>1, <1>4 DEF AskOK
    <2>2. ToSet(toAsk) = {}
      BY <1>1 DEF ToSet
    <2>3. e.mock \in ToSet(Mocks)
      BY <1>4 DEF UseInv, UsesOK, Expectation
    <2>4. PICK q : q = e.mock.place /\ q \in 1..Len(Scopes) /\ e.mock \in ToSet(Scopes[q].mocks)
      BY <2>3, MockFacts
    <2>5. Scopes[q].mocks # <<>>
      BY <2>4 DEF ToSet
    <2>6. p = q
      <3> DEFINE P == {r \in DOMAIN Scopes : Scopes[r].mocks # <<>>}
      <3>1. DOMAIN Scopes = 1..Len(Scopes) /\ Len(Scopes) \in Nat
        BY MockFacts
      <3>2. p \in P /\ q \in P /\ P \in SUBSET (1..Len(Scopes))
        BY <2>1, <2>4, <2>5, <3>1
      <3>3. IsFiniteSet(1..Len(Scopes))
        <4>1. 1 \in Int /\ Len(Scopes) \in Int
          BY <3>1
        <4> QED BY <4>1, FS_Interval
      <3>4. IsFiniteSet(P)
        BY <3>2, <3>3, FS_Subset
      <3>5. Cardinality(P) = 1
        BY <1>4
      <3> HIDE DEF P
      <3>6. \E x : P = {x}
        BY <3>4, <3>5, FS_Singleton
      <3> QED BY <3>2, <3>6
    <2> QED BY <1>4, <2>1, <2>2, <2>4, <2>6
  <1>5. SatisfiedMeansMet'
    BY <1>1, <1>2, <1>4 DEF SatisfiedMeansMet
  <1> QED BY <1>3, <1>5

LEMMA NextAsk == IInv /\ UseInv /\ AskOK /\ SatisfiedMeansMet /\ [Next]_vars => AskOK' /\ SatisfiedMeansMet'
  <1> SUFFICES ASSUME IInv, UseInv, AskOK, SatisfiedMeansMet, [Next]_vars
               PROVE  AskOK' /\ SatisfiedMeansMet'
    OBVIOUS
  <1>1. CASE pc = "compose" /\ Compose /\ UNCHANGED useVars
    <2>1. pc' # "asking" /\ vouched' = {}
      BY <1>1 DEF useVars, UseInv, FreshOK
    <2> QED BY <2>1 DEF AskOK, SatisfiedMeansMet
  <1>2. CASE SatisfiedBegins
    BY <1>2, AskBegins
  <1>3. CASE SatisfiedAsks
    BY <1>3, AskAsks
  <1>4. CASE SatisfiedEnds
    BY <1>4, AskEnds
  <1>5. CASE Enter \/ (\E m \in ToSet(Mocks) : Declare(m)) \/ BodyEnds \/ Cleanup
    <2>1. UNCHANGED composeVars /\ UNCHANGED <<vouched, met>> /\ pc' # "asking"
      BY <1>5 DEF Enter, Declare, BodyEnds, Cleanup, CheckBegins, Logf, TestOver, mockVars, askVars,
                  checkVars, reportVars, Runs
    <2>2. Scopes' = Scopes
      BY <2>1, SameMocks
    <2> QED BY <2>1, <2>2, AskStays
  <1>6. CASE \E g \in Goroutines : Calls(g)
    <2>1. /\ UNCHANGED composeVars /\ UNCHANGED <<vouched, declared, toAsk, failures>>
          /\ met \subseteq met' /\ pc' \in {pc, "cleanup"}
      BY <1>6 DEF Calls, Call, CallUnexpected, Take, Tell, mockVars, askVars, checkVars, reportVars
    <2>2. Scopes' = Scopes
      BY <2>1, SameMocks
    <2> QED BY <2>1, <2>2, AskStays
  <1>7. CASE Finished \/ UNCHANGED vars
    <2>1. UNCHANGED composeVars /\ UNCHANGED <<pc, vouched, declared, toAsk, failures, met>>
      BY <1>7 DEF Finished, vars, useVars
    <2>2. Scopes' = Scopes
      BY <2>1, SameMocks
    <2> QED BY <2>1, <2>2, AskStays
  <1> QED BY <1>1, <1>2, <1>3, <1>4, <1>5, <1>6, <1>7 DEF Next, Satisfied

\* Where the stage has one container with mocks, what Satisfied passed over has
\* been met: any number of mocks and expectations, a stray goroutine calling.
THEOREM SatisfiedMeansMetHolds == Spec => []SatisfiedMeansMet
  <1>1. Init => AskOK /\ SatisfiedMeansMet
    BY DEF Init, AskOK, SatisfiedMeansMet
  <1> QED BY <1>1, UseInvariance, NextAsk, PTL DEF Spec

-----------------------------------------------------------------------------
(* The lines that name missing calls, wherever they are on their way.      *)

\* The sequences W[k] hold the elements of D, each in one place.
Spread(W, D) ==
    /\ \A k \in DOMAIN W : W[k] \in Seq(D) /\ Distinct(W[k])
    /\ \A k, l \in DOMAIN W : k # l => ToSet(W[k]) \cap ToSet(W[l]) = {}
    /\ \A e \in D : \E k \in DOMAIN W : e \in ToSet(W[k])

\* The elements of sequences joined, appended to, cut: none of them twice.
LEMMA JoinSet ==
    ASSUME NEW S, NEW q \in Seq(S), NEW r \in Seq(S), Distinct(q), Distinct(r),
           ToSet(q) \cap ToSet(r) = {}
    PROVE  q \o r \in Seq(S) /\ Distinct(q \o r) /\ ToSet(q \o r) = ToSet(q) \cup ToSet(r)
  <1>1. Lists(q, ToSet(q)) /\ Lists(r, ToSet(r))
    BY SetFacts DEF Lists
  <1>2. q \o r \in Seq(S)
    BY JoinFacts
  <1>3. Lists(q \o r, ToSet(q) \cup ToSet(r))
    BY <1>1, JoinLists
  <1>4. ToSet(q \o r) = ToSet(q) \cup ToSet(r)
    <2>1. DOMAIN (q \o r) = 1..Len(q \o r)
      BY <1>2, SetFacts
    <2>2. ToSet(q \o r) = {(q \o r)[i] : i \in 1..Len(q \o r)}
      BY <2>1 DEF ToSet
    <2> QED BY <1>3, <2>2 DEF Lists
  <1>5. \A i \in 1..Len(q), j \in 1..Len(r) : q[i] # r[j]
    BY SetFacts
  <1> QED BY <1>2, <1>4, <1>5, JoinDistinct

LEMMA OneSet ==
    ASSUME NEW S, NEW e \in S
    PROVE  <<e>> \in Seq(S) /\ Distinct(<<e>>) /\ ToSet(<<e>>) = {e}
  BY DEF Distinct, ToSet

LEMMA AppendSet ==
    ASSUME NEW S, NEW q \in Seq(S), Distinct(q), NEW e \in S, e \notin ToSet(q)
    PROVE  Append(q, e) \in Seq(S) /\ Distinct(Append(q, e)) /\ ToSet(Append(q, e)) = ToSet(q) \cup {e}
  <1>1. PICK r : r = <<e>>
    OBVIOUS
  <1>2. r \in Seq(S) /\ Distinct(r) /\ ToSet(r) = {e}
    BY <1>1, OneSet
  <1>3. ToSet(q) \cap ToSet(r) = {}
    BY <1>2
  <1>4. q \o r \in Seq(S) /\ Distinct(q \o r) /\ ToSet(q \o r) = ToSet(q) \cup {e}
    BY <1>2, <1>3, JoinSet
  <1>5. Append(q, e) = q \o r
    BY <1>1
  <1> QED BY <1>4, <1>5

LEMMA TailSet ==
    ASSUME NEW S, NEW q \in Seq(S), q # <<>>, Distinct(q)
    PROVE  /\ Head(q) \in ToSet(q) /\ Tail(q) \in Seq(S) /\ Distinct(Tail(q))
           /\ ToSet(Tail(q)) = ToSet(q) \ {Head(q)}
  <1>1. /\ Len(q) \in Nat \ {0} /\ Head(q) = q[1]
        /\ Tail(q) \in Seq(S) /\ Len(Tail(q)) = Len(q) - 1
        /\ \A j \in 1..(Len(q) - 1) : Tail(q)[j] = q[j + 1]
    BY Rest
  <1>2. 1 \in 1..Len(q)
    BY <1>1
  <1>3. Head(q) \in ToSet(q)
    BY <1>1, <1>2, SetFacts
  <1>4. Distinct(Tail(q))
    <2> SUFFICES ASSUME NEW i \in 1..Len(Tail(q)), NEW j \in 1..Len(Tail(q)), Tail(q)[i] = Tail(q)[j]
                 PROVE  i = j
      BY DEF Distinct
    <2>1. i + 1 \in 1..Len(q) /\ j + 1 \in 1..Len(q) /\ q[i + 1] = q[j + 1]
      BY <1>1
    <2>2. i + 1 = j + 1
      BY <2>1 DEF Distinct
    <2> QED BY <2>2
  <1>5. ASSUME NEW e \in ToSet(Tail(q)) PROVE e \in ToSet(q) /\ e # Head(q)
    <2>0. PICK r \in Seq(S) : r = Tail(q)
      BY <1>1
    <2>1. PICK i \in 1..Len(r) : e = r[i]
      <3>1. e \in ToSet(r)
        BY <2>0
      <3>2. \A x \in ToSet(r) : \E i \in 1..Len(r) : x = r[i]
        BY ONLY r \in Seq(S), SetFacts
      <3> QED BY <3>1, <3>2
    <2>2. i + 1 \in 1..Len(q) /\ i + 1 # 1 /\ e = q[i + 1]
      BY <1>1, <2>0, <2>1
    <2> QED BY <1>1, <1>2, <2>2, SetFacts DEF Distinct
  <1>6. ASSUME NEW e \in ToSet(q), e # Head(q) PROVE e \in ToSet(Tail(q))
    <2>1. PICK i \in 1..Len(q) : e = q[i]
      BY SetFacts
    <2>2. i - 1 \in 1..(Len(q) - 1) /\ (i - 1) + 1 = i
      BY <1>1, <1>6, <2>1
    <2>3. Tail(q)[i - 1] = e
      BY <1>1, <2>1, <2>2
    <2> QED BY <1>1, <2>2, <2>3, SetFacts
  <1>7. ToSet(Tail(q)) = ToSet(q) \ {Head(q)}
    BY <1>5, <1>6
  <1> QED BY <1>1, <1>3, <1>4, <1>7

LEMMA FrontDistinct ==
    ASSUME NEW S, NEW q \in Seq(S), q # <<>>, Distinct(q)
    PROVE  /\ Distinct(SubSeq(q, 1, Len(q) - 1))
           /\ \A i \in 1..Len(SubSeq(q, 1, Len(q) - 1)) :
                 i \in 1..Len(q) /\ i # Len(q) /\ SubSeq(q, 1, Len(q) - 1)[i] = q[i]
  BY Rest DEF Distinct

\* Elements X move from W[l] to W[k].
LEMMA Moved ==
    ASSUME NEW W, NEW V, NEW D, NEW k \in DOMAIN W, NEW l \in DOMAIN W, k # l, NEW X,
           Spread(W, D), DOMAIN V = DOMAIN W,
           \A j \in DOMAIN W : j # k /\ j # l => V[j] = W[j],
           X \subseteq ToSet(W[l]),
           ToSet(V[k]) = ToSet(W[k]) \cup X, V[k] \in Seq(D), Distinct(V[k]),
           ToSet(V[l]) = ToSet(W[l]) \ X, V[l] \in Seq(D), Distinct(V[l])
    PROVE  Spread(V, D)
  <1>1. \A j \in DOMAIN V : V[j] \in Seq(D) /\ Distinct(V[j])
    BY DEF Spread
  <1>2. ASSUME NEW i \in DOMAIN V, NEW j \in DOMAIN V, i # j, NEW e \in ToSet(V[i]), e \in ToSet(V[j])
        PROVE  FALSE
    <2>1. \A n \in DOMAIN V : e \in ToSet(V[n]) =>
             \/ e \notin X /\ e \in ToSet(W[n])
             \/ e \in X /\ n = k
             \/ e \in X /\ n # k /\ n # l /\ e \in ToSet(W[n])
      OBVIOUS
    <2>2. \A n \in DOMAIN W : e \in X /\ e \in ToSet(W[n]) => n = l
      BY DEF Spread
    <2> QED BY <1>2, <2>1, <2>2 DEF Spread
  <1>3. ASSUME NEW e \in D PROVE \E j \in DOMAIN V : e \in ToSet(V[j])
    <2>1. PICK j \in DOMAIN W : e \in ToSet(W[j])
      BY DEF Spread
    <2>2. CASE e \in X
      BY <2>2
    <2>3. CASE e \notin X
      <3>1. e \in ToSet(V[j])
        BY <2>1, <2>3
      <3> QED BY <3>1
    <2> QED BY <2>2, <2>3
  <1>4. \A i, j \in DOMAIN V : i # j => ToSet(V[i]) \cap ToSet(V[j]) = {}
    BY <1>2
  <1> QED BY <1>1, <1>3, <1>4 DEF Spread

\* All of W[l] moves behind W[k].
LEMMA MovedAll ==
    ASSUME NEW W, NEW V, NEW D, NEW k \in DOMAIN W, NEW l \in DOMAIN W, k # l,
           Spread(W, D), DOMAIN V = DOMAIN W,
           \A j \in DOMAIN W : j # k /\ j # l => V[j] = W[j],
           V[k] = W[k] \o W[l], V[l] = <<>>
    PROVE  Spread(V, D)
  <1>1. /\ W[k] \in Seq(D) /\ Distinct(W[k]) /\ W[l] \in Seq(D) /\ Distinct(W[l])
        /\ ToSet(W[k]) \cap ToSet(W[l]) = {}
    BY DEF Spread
  <1>2. V[k] \in Seq(D) /\ Distinct(V[k]) /\ ToSet(V[k]) = ToSet(W[k]) \cup ToSet(W[l])
    BY <1>1, JoinSet
  <1>3. V[l] \in Seq(D) /\ Distinct(V[l]) /\ ToSet(V[l]) = {}
    BY DEF Distinct, ToSet
  <1>4. PICK X : X = ToSet(W[l])
    OBVIOUS
  <1>5. X \subseteq ToSet(W[l]) /\ ToSet(V[k]) = ToSet(W[k]) \cup X /\ ToSet(V[l]) = ToSet(W[l]) \ X
    BY <1>2, <1>3, <1>4
  <1> QED BY <1>2, <1>3, <1>5, Moved

\* The head of W[l] moves behind W[k].
LEMMA MovedHead ==
    ASSUME NEW W, NEW V, NEW D, NEW k \in DOMAIN W, NEW l \in DOMAIN W, k # l,
           Spread(W, D), DOMAIN V = DOMAIN W, W[l] # <<>>,
           \A j \in DOMAIN W : j # k /\ j # l => V[j] = W[j],
           V[k] = Append(W[k], Head(W[l])), V[l] = Tail(W[l])
    PROVE  Spread(V, D)
  <1>1. /\ W[k] \in Seq(D) /\ Distinct(W[k]) /\ W[l] \in Seq(D) /\ Distinct(W[l])
        /\ ToSet(W[k]) \cap ToSet(W[l]) = {}
    BY DEF Spread
  <1>2. PICK h : h = Head(W[l])
    OBVIOUS
  <1>3. /\ h \in ToSet(W[l]) /\ h \in D
        /\ V[l] \in Seq(D) /\ Distinct(V[l]) /\ ToSet(V[l]) = ToSet(W[l]) \ {h}
    BY <1>1, <1>2, TailSet, SetFacts
  <1>4. V[k] \in Seq(D) /\ Distinct(V[k]) /\ ToSet(V[k]) = ToSet(W[k]) \cup {h}
    BY <1>1, <1>2, <1>3, AppendSet
  <1>5. {h} \subseteq ToSet(W[l])
    BY <1>3
  <1> QED BY <1>3, <1>4, <1>5, Moved

\* W[l], empty so far, takes elements that were nowhere.
LEMMA Filled ==
    ASSUME NEW W, NEW V, NEW D, NEW N, NEW B, B = D \cup N, D \cap N = {},
           NEW l \in DOMAIN W,
           Spread(W, D), DOMAIN V = DOMAIN W, W[l] = <<>>,
           \A j \in DOMAIN W : j # l => V[j] = W[j],
           V[l] \in Seq(N), Distinct(V[l]), ToSet(V[l]) = N
    PROVE  Spread(V, B)
  <1>1. ASSUME NEW j \in DOMAIN V PROVE V[j] \in Seq(B) /\ Distinct(V[j]) /\ (j # l => ToSet(V[j]) \subseteq D)
    <2>1. CASE j = l
      <3>1. \A i \in 1..Len(V[l]) : V[l][i] \in B
        BY ElementOfSeq
      <3> QED BY <2>1, <3>1, SeqOver
    <2>2. CASE j # l
      <3>1. V[j] \in Seq(D) /\ Distinct(V[j])
        BY <2>2 DEF Spread
      <3>2. \A i \in 1..Len(V[j]) : V[j][i] \in B
        BY <3>1, ElementOfSeq
      <3>3. ToSet(V[j]) \subseteq D
        BY <3>1, SetFacts
      <3> QED BY <3>1, <3>2, <3>3, SeqOver
    <2> QED BY <2>1, <2>2
  <1>2. ASSUME NEW i \in DOMAIN V, NEW j \in DOMAIN V, i # j, NEW e \in ToSet(V[i]), e \in ToSet(V[j])
        PROVE  FALSE
    <2>1. CASE i = l \/ j = l
      BY <1>1, <1>2, <2>1
    <2>2. CASE i # l /\ j # l
      BY <1>2, <2>2 DEF Spread
    <2> QED BY <2>1, <2>2
  <1>3. ASSUME NEW e \in B PROVE \E j \in DOMAIN V : e \in ToSet(V[j])
    <2>1. CASE e \in N
      BY <2>1
    <2>2. CASE e \in D
      <3>1. PICK j \in DOMAIN W : e \in ToSet(W[j])
        BY <2>2 DEF Spread
      <3>2. ToSet(W[l]) = {}
        BY DEF ToSet
      <3> QED BY <3>1, <3>2
    <2> QED BY <2>1, <2>2
  <1>4. \A i, j \in DOMAIN V : i # j => ToSet(V[i]) \cap ToSet(V[j]) = {}
    BY <1>2
  <1>5. \A j \in DOMAIN V : V[j] \in Seq(B) /\ Distinct(V[j])
    BY <1>1
  <1> QED BY <1>3, <1>4, <1>5 DEF Spread

\* Where the lines are: to be logged, kept by a scope's reporter, taken by an Errorf
\* in progress, told.
LogAt == <<"log", "">>
ToldAt == <<"told", "">>
LinesAt(g) == <<"lines", g>>
FailsAt(p) == <<"fails", p>>

SlotsOf(fs) == {LogAt, ToldAt} \cup {LinesAt(g) : g \in Goroutines} \cup {FailsAt(p) : p \in 1..Len(fs)}

Lines(r) == IF r = NoReport THEN <<>> ELSE r.lines

KeptIn(log, fs, rs, ts) ==
    [k \in SlotsOf(fs) |->
        IF k[1] = "log" THEN log
        ELSE IF k[1] = "told" THEN ts
        ELSE IF k[1] = "lines" THEN Lines(rs[k[2]])
        ELSE fs[k[2]]]

\* Each expectation found unmet is in one of these places, once.
KeptOK == Spread(KeptIn(toLog, fails, report, told), due)

\* A mock with expectations found unmet has been checked, or is being logged; the
\* reporters have lines for that one mock only, until its Errorf takes them.
CheckedOK ==
    /\ Distinct(toCheck)
    /\ \A e \in due : \A i \in 1..Len(toCheck) :
          toCheck[i] = e.mock => pc = "logging" /\ i = Len(toCheck)
TakenOK == \A g \in Goroutines : report[g].at = "take" => report[g].lines = <<>>
LinesOK ==
    \A p \in 1..Len(fails) : fails[p] # <<>> =>
        /\ pc = "logging" /\ p = toCheck[Len(toCheck)].place
        /\ toLog = <<>> => report["test"].at = "take"

LinesInv == KeptOK /\ CheckedOK /\ TakenOK /\ LinesOK

LEMMA SlotFacts ==
    /\ LogAt # ToldAt
    /\ \A g : LinesAt(g) # LogAt /\ LinesAt(g) # ToldAt /\ \A h : LinesAt(g) = LinesAt(h) => g = h
    /\ \A p : /\ FailsAt(p) # LogAt /\ FailsAt(p) # ToldAt /\ \A g : FailsAt(p) # LinesAt(g)
             /\ \A q : FailsAt(p) = FailsAt(q) => p = q
  BY DEF LogAt, ToldAt, LinesAt, FailsAt

LEMMA KeptFacts ==
    ASSUME NEW log, NEW fs, NEW rs, NEW ts, NEW W, W = KeptIn(log, fs, rs, ts)
    PROVE  /\ DOMAIN W = SlotsOf(fs)
           /\ LogAt \in DOMAIN W /\ W[LogAt] = log
           /\ ToldAt \in DOMAIN W /\ W[ToldAt] = ts
           /\ \A g \in Goroutines : LinesAt(g) \in DOMAIN W /\ W[LinesAt(g)] = Lines(rs[g])
           /\ \A p \in 1..Len(fs) : FailsAt(p) \in DOMAIN W /\ W[FailsAt(p)] = fs[p]
           /\ \A k \in DOMAIN W :
                 \/ k = LogAt
                 \/ k = ToldAt
                 \/ \E g \in Goroutines : k = LinesAt(g)
                 \/ \E p \in 1..Len(fs) : k = FailsAt(p)
  <1>1. DOMAIN W = SlotsOf(fs)
    BY DEF KeptIn
  <1>2. /\ LogAt \in SlotsOf(fs) /\ ToldAt \in SlotsOf(fs)
        /\ \A g \in Goroutines : LinesAt(g) \in SlotsOf(fs)
        /\ \A p \in 1..Len(fs) : FailsAt(p) \in SlotsOf(fs)
    BY DEF SlotsOf
  <1>3. /\ LogAt[1] = "log" /\ ToldAt[1] = "told"
        /\ \A g : LinesAt(g)[1] = "lines" /\ LinesAt(g)[2] = g
        /\ \A p : FailsAt(p)[1] = "fails" /\ FailsAt(p)[2] = p
    BY DEF LogAt, ToldAt, LinesAt, FailsAt
  <1>5. W[LogAt] = log /\ W[ToldAt] = ts
    BY <1>2, <1>3 DEF KeptIn
  <1>6. \A g \in Goroutines : W[LinesAt(g)] = Lines(rs[g])
    BY <1>2, <1>3 DEF KeptIn
  <1>7. \A p \in 1..Len(fs) : W[FailsAt(p)] = fs[p]
    BY <1>2, <1>3 DEF KeptIn
  <1>8. \A k \in SlotsOf(fs) :
            \/ k = LogAt
            \/ k = ToldAt
            \/ \E g \in Goroutines : k = LinesAt(g)
            \/ \E p \in 1..Len(fs) : k = FailsAt(p)
    BY DEF SlotsOf
  <1> QED BY <1>1, <1>2, <1>5, <1>6, <1>7, <1>8

\* Two of these, with as many reporters, are the same where their parts are.
LEMMA KeptSame ==
    ASSUME NEW log, NEW fs, NEW rs, NEW ts, NEW W, W = KeptIn(log, fs, rs, ts),
           NEW log2, NEW fs2, NEW rs2, NEW ts2, NEW V, V = KeptIn(log2, fs2, rs2, ts2),
           Len(fs) = Len(fs2)
    PROVE  /\ DOMAIN V = DOMAIN W
           /\ \A k \in DOMAIN W :
                 \/ k = LogAt /\ log # log2
                 \/ k = ToldAt /\ ts # ts2
                 \/ \E g \in Goroutines : k = LinesAt(g) /\ Lines(rs[g]) # Lines(rs2[g])
                 \/ \E p \in 1..Len(fs) : k = FailsAt(p) /\ fs[p] # fs2[p]
                 \/ V[k] = W[k]
  <1>1. DOMAIN V = DOMAIN W
    <2>1. SlotsOf(fs) = SlotsOf(fs2)
      BY DEF SlotsOf
    <2> QED BY <2>1, KeptFacts
  <1>2. ASSUME NEW k \in DOMAIN W, V[k] # W[k]
        PROVE  \/ k = LogAt /\ log # log2
               \/ k = ToldAt /\ ts # ts2
               \/ \E g \in Goroutines : k = LinesAt(g) /\ Lines(rs[g]) # Lines(rs2[g])
               \/ \E p \in 1..Len(fs) : k = FailsAt(p) /\ fs[p] # fs2[p]
    <2>1. \/ k = LogAt
          \/ k = ToldAt
          \/ \E g \in Goroutines : k = LinesAt(g)
          \/ \E p \in 1..Len(fs) : k = FailsAt(p)
      BY KeptFacts
    <2>2. CASE k = LogAt
      BY <1>2, <2>2, KeptFacts, SlotFacts
    <2>3. CASE k = ToldAt
      BY <1>2, <2>3, KeptFacts, SlotFacts
    <2>4. CASE \E g \in Goroutines : k = LinesAt(g)
      BY <1>2, <2>4, KeptFacts, SlotFacts
    <2>5. CASE \E p \in 1..Len(fs) : k = FailsAt(p)
      <3>1. PICK p \in 1..Len(fs) : k = FailsAt(p)
        BY <2>5
      <3>2. p \in 1..Len(fs2)
        OBVIOUS
      <3>3. W[k] = fs[p] /\ V[k] = fs2[p]
        BY <3>1, <3>2, KeptFacts, SlotFacts
      <3> QED BY <1>2, <3>1, <3>3
    <2> QED BY <2>1, <2>2, <2>3, <2>4, <2>5
  <1> QED BY <1>1, <1>2

LEMMA SameSpread ==
    ASSUME NEW W, NEW V, NEW D, Spread(W, D), DOMAIN V = DOMAIN W, \A k \in DOMAIN W : V[k] = W[k]
    PROVE  Spread(V, D)
  BY DEF Spread

LEMMA NoneSpread ==
    ASSUME NEW V, \A k \in DOMAIN V : V[k] = <<>>
    PROVE  Spread(V, {})
  <1>1. PICK e : e = <<>>
    OBVIOUS
  <1>2. ToSet(e) = {} /\ e \in Seq({}) /\ Distinct(e)
    BY <1>1 DEF ToSet, Distinct
  <1> QED BY <1>1, <1>2 DEF Spread

\* Steps that move no line.
LEMMA KeptStays ==
    ASSUME UseInv, KeptOK, UNCHANGED <<toLog, told, due>>, fails' = fails,
           \A g \in Goroutines : Lines(report'[g]) = Lines(report[g])
    PROVE  KeptOK'
  <1>1. PICK W, V : W = KeptIn(toLog, fails, report, told) /\ V = KeptIn(toLog', fails', report', told')
    OBVIOUS
  <1>2. PICK rs, rs2 : rs = report /\ rs2 = report'
    OBVIOUS
  <1>3. W = KeptIn(toLog, fails, rs, told) /\ V = KeptIn(toLog, fails, rs2, told)
    BY <1>1, <1>2
  <1>4. DOMAIN V = DOMAIN W /\ \A k \in DOMAIN W : V[k] = W[k]
    BY <1>2, <1>3, KeptSame, SlotFacts
  <1>5. Spread(V, due)
    BY <1>1, <1>4, SameSpread DEF KeptOK
  <1> QED BY <1>1, <1>5 DEF KeptOK

LEMMA KeptEmpty ==
    ASSUME NEW fs, NEW rs, \A p \in 1..Len(fs) : fs[p] = <<>>, \A g \in Goroutines : rs[g] = NoReport
    PROVE  Spread(KeptIn(<<>>, fs, rs, <<>>), {})
  <1>1. PICK W : W = KeptIn(<<>>, fs, rs, <<>>)
    OBVIOUS
  <1>2. \A k \in DOMAIN W : W[k] = <<>>
    BY <1>1, KeptFacts DEF Lines
  <1> QED BY <1>1, <1>2, NoneSpread

LEMMA TakeKept ==
    ASSUME IInv, UseInv, LinesInv, NEW g \in Goroutines, Take(g)
    PROVE  KeptOK'
  <1>1. /\ report[g].at = "take" /\ UNCHANGED <<toLog, told, due>>
        /\ report' = [report EXCEPT ![g].at = "tell", ![g].lines = fails[report[g].mock.place]]
        /\ fails' = [fails EXCEPT ![report[g].mock.place] = <<>>]
    BY DEF Take, checkVars
  <1>2. /\ report[g] # NoReport /\ report[g] \in Report /\ report[g].mock \in ToSet(Mocks)
        /\ pc # "compose"
    BY <1>1, NoReportFacts, ReportFacts DEF UseInv, FreshOK
  <1>3. PICK p : p = report[g].mock.place /\ p \in 1..Len(fails)
    BY <1>2, MockFacts DEF UseInv, ControlOK
  <1>4. DOMAIN fails = 1..Len(fails) /\ DOMAIN report = Goroutines
    BY LenProperties DEF UseInv, UsesOK
  <1>5. /\ Len(fails') = Len(fails) /\ fails'[p] = <<>>
        /\ \A q \in 1..Len(fails) : q # p => fails'[q] = fails[q]
    BY <1>1, <1>3, <1>4 DEF UseInv, UsesOK
  <1>6. /\ Lines(report[g]) = <<>>
        /\ Lines(report'[g]) = fails[p]
        /\ \A h \in Goroutines : h # g => Lines(report'[h]) = Lines(report[h])
    <2>1. Lines(report[g]) = <<>>
      BY <1>1, <1>2 DEF Lines, LinesInv, TakenOK
    <2>2. report'[g].lines = fails[p] /\ report'[g].at = "tell"
      BY <1>1, <1>2, <1>3, <1>4 DEF Report
    <2>3. \A h \in Goroutines : h # g => report'[h] = report[h]
      BY <1>1, <1>4
    <2> QED BY <2>1, <2>2, <2>3, NoReportFacts DEF Lines
  <1>7. PICK W, V, rs, rs2, fs, fs2 :
            /\ rs = report /\ rs2 = report' /\ fs = fails /\ fs2 = fails'
            /\ W = KeptIn(toLog, fs, rs, told) /\ V = KeptIn(toLog, fs2, rs2, told)
    OBVIOUS
  <1>8. PICK k, l : k = LinesAt(g) /\ l = FailsAt(p)
    OBVIOUS
  <1>9. /\ k \in DOMAIN W /\ l \in DOMAIN W /\ k # l
        /\ W[k] = <<>> /\ W[l] = fails[p] /\ V[k] = fails[p] /\ V[l] = <<>>
    BY <1>3, <1>5, <1>6, <1>7, <1>8, KeptFacts, SlotFacts
  <1>10. DOMAIN V = DOMAIN W /\ \A j \in DOMAIN W : j # k /\ j # l => V[j] = W[j]
    BY <1>5, <1>6, <1>7, <1>8, KeptSame, SlotFacts
  <1>11. V[k] = W[k] \o W[l]
    BY <1>3, <1>9, ElementOfSeq DEF UseInv, UsesOK
  <1>12. Spread(W, due)
    BY <1>7 DEF LinesInv, KeptOK
  <1>13. Spread(V, due)
    <2>1. k \in DOMAIN W /\ l \in DOMAIN W /\ k # l /\ V[l] = <<>>
      BY <1>9
    <2>2. PICK D : D = due
      OBVIOUS
    <2>3. Spread(W, D)
      BY <1>12, <2>2
    <2>4. Spread(V, D)
      BY ONLY <1>10, <1>11, <2>1, <2>3, MovedAll
    <2> QED BY <2>2, <2>4
  <1> QED BY <1>1, <1>7, <1>13 DEF KeptOK

LEMMA TellKept ==
    ASSUME IInv, UseInv, LinesInv, NEW g \in Goroutines, Tell(g)
    PROVE  KeptOK'
  <1>1. /\ report[g].at = "tell" /\ UNCHANGED <<toLog, due, fails>>
        /\ report' = [report EXCEPT ![g] = NoReport] /\ told' = told \o report[g].lines
    BY DEF Tell
  <1>2. report[g] # NoReport /\ DOMAIN report = Goroutines
    BY <1>1, NoReportFacts DEF UseInv, UsesOK
  <1>3. /\ Lines(report[g]) = report[g].lines /\ Lines(report'[g]) = <<>>
        /\ \A h \in Goroutines : h # g => Lines(report'[h]) = Lines(report[h])
    BY <1>1, <1>2 DEF Lines
  <1>4. PICK W, V, rs, rs2, ts, ts2 :
            /\ rs = report /\ rs2 = report' /\ ts = told /\ ts2 = told'
            /\ W = KeptIn(toLog, fails, rs, ts) /\ V = KeptIn(toLog, fails, rs2, ts2)
    OBVIOUS
  <1>5. PICK k, l : k = ToldAt /\ l = LinesAt(g)
    OBVIOUS
  <1>6. /\ k \in DOMAIN W /\ l \in DOMAIN W /\ k # l
        /\ W[k] = told /\ W[l] = report[g].lines /\ V[k] = told' /\ V[l] = <<>>
    BY <1>3, <1>4, <1>5, KeptFacts, SlotFacts
  <1>7. DOMAIN V = DOMAIN W /\ \A j \in DOMAIN W : j # k /\ j # l => V[j] = W[j]
    BY <1>3, <1>4, <1>5, KeptSame, SlotFacts
  <1>8. V[k] = W[k] \o W[l]
    BY <1>1, <1>6
  <1>9. Spread(W, due)
    BY <1>4 DEF LinesInv, KeptOK
  <1>10. Spread(V, due)
    <2>1. k \in DOMAIN W /\ l \in DOMAIN W /\ k # l /\ V[l] = <<>>
      BY <1>6
    <2>2. PICK D : D = due
      OBVIOUS
    <2>3. Spread(W, D)
      BY <1>9, <2>2
    <2>4. Spread(V, D)
      BY ONLY <1>7, <1>8, <2>1, <2>3, MovedAll
    <2> QED BY <2>2, <2>4
  <1> QED BY <1>1, <1>4, <1>10 DEF KeptOK

LEMMA CheckBeginsKept ==
    ASSUME IInv, UseInv, LinesInv, CheckBegins
    PROVE  KeptOK'
  <1>1. PICK es \in SUBSET declared :
            /\ \A e \in es : e.mock = toCheck[Len(toCheck)]
            /\ due' = due \cup es
            /\ toLog' \in Seq(es) /\ Distinct(toLog') /\ ToSet(toLog') = es
    BY CheckFacts
  <1>2. UNCHANGED <<fails, report, told>> /\ pc = "cleanup" /\ toCheck # <<>> /\ toLog = <<>>
    BY CheckFacts
  <1>3. Len(toCheck) \in 1..Len(toCheck)
    BY <1>2, Rest DEF UseInv, UsesOK
  <1>4. due \cap es = {}
    BY <1>1, <1>2, <1>3 DEF LinesInv, CheckedOK
  <1>5. PICK W, V, log2, D, B :
            /\ log2 = toLog' /\ D = due /\ B = due'
            /\ W = KeptIn(toLog, fails, report, told) /\ V = KeptIn(log2, fails, report, told)
    OBVIOUS
  <1>6. PICK l : l = LogAt
    OBVIOUS
  <1>7. l \in DOMAIN W /\ W[l] = <<>> /\ V[l] = log2
    BY <1>2, <1>5, <1>6, KeptFacts, SlotFacts
  <1>8. DOMAIN V = DOMAIN W /\ \A j \in DOMAIN W : j # l => V[j] = W[j]
    BY <1>5, <1>6, KeptSame, SlotFacts
  <1>9. Spread(W, D)
    BY <1>5 DEF LinesInv, KeptOK
  <1>10. B = D \cup es /\ D \cap es = {} /\ V[l] \in Seq(es) /\ Distinct(V[l]) /\ ToSet(V[l]) = es
    BY <1>1, <1>4, <1>5, <1>7
  <1>11. Spread(V, B)
    BY <1>7, <1>8, <1>9, <1>10, Filled
  <1> QED BY <1>2, <1>5, <1>11 DEF KeptOK

LEMMA LogfKept ==
    ASSUME IInv, UseInv, LinesInv, Logf
    PROVE  KeptOK'
  <1>1. PICK m \in ToSet(Mocks) :
            /\ m.place \in 1..Len(fails)
            /\ fails' = [fails EXCEPT ![m.place] = Append(@, Head(toLog))]
            /\ report' = IF toLog' = <<>> THEN [report EXCEPT !["test"] = Errorf(m)] ELSE report
    BY LogfFacts
  <1>2. /\ UNCHANGED <<due, told>> /\ toLog # <<>> /\ toLog' = Tail(toLog)
        /\ report["test"] = NoReport
    BY LogfFacts
  <1>3. PICK p : p = m.place
    OBVIOUS
  <1>4. /\ p \in 1..Len(fails) /\ DOMAIN fails = 1..Len(fails)
        /\ Len(fails') = Len(fails) /\ fails'[p] = Append(fails[p], Head(toLog))
        /\ \A q \in 1..Len(fails) : q # p => fails'[q] = fails[q]
    BY <1>1, <1>3, LenProperties DEF UseInv, UsesOK
  <1>5. \A g \in Goroutines : Lines(report'[g]) = Lines(report[g])
    BY <1>1, <1>2, NoReportFacts DEF Lines, UseInv, UsesOK
  <1>6. PICK W, V, log, log2, rs, rs2, fs, fs2 :
            /\ log = toLog /\ log2 = toLog' /\ rs = report /\ rs2 = report' /\ fs = fails /\ fs2 = fails'
            /\ W = KeptIn(log, fs, rs, told) /\ V = KeptIn(log2, fs2, rs2, told)
    OBVIOUS
  <1>7. PICK k, l : k = FailsAt(p) /\ l = LogAt
    OBVIOUS
  <1>8. /\ k \in DOMAIN W /\ l \in DOMAIN W /\ k # l
        /\ W[k] = fails[p] /\ W[l] = toLog /\ V[k] = fails'[p] /\ V[l] = toLog'
    BY <1>4, <1>6, <1>7, KeptFacts, SlotFacts
  <1>9. DOMAIN V = DOMAIN W /\ \A j \in DOMAIN W : j # k /\ j # l => V[j] = W[j]
    BY <1>4, <1>5, <1>6, <1>7, KeptSame, SlotFacts
  <1>10. Spread(W, due)
    BY <1>6 DEF LinesInv, KeptOK
  <1>11. V[k] = Append(W[k], Head(W[l])) /\ V[l] = Tail(W[l]) /\ W[l] # <<>>
    BY <1>2, <1>4, <1>8
  <1>12. Spread(V, due)
    BY <1>8, <1>9, <1>10, <1>11, MovedHead
  <1> QED BY <1>2, <1>6, <1>12 DEF KeptOK

LEMMA InitLines == Init => LinesInv
  <1> SUFFICES ASSUME Init PROVE LinesInv
    OBVIOUS
  <1>1. /\ due = {} /\ toLog = <<>> /\ told = <<>> /\ fails = <<>> /\ toCheck = <<>>
        /\ \A g \in Goroutines : report[g] = NoReport
    BY DEF Init
  <1>2. KeptOK
    <2>1. PICK fs, rs : fs = fails /\ rs = report
      OBVIOUS
    <2>2. \A p \in 1..Len(fs) : fs[p] = <<>>
      BY <1>1, <2>1
    <2>3. Spread(KeptIn(<<>>, fs, rs, <<>>), {})
      BY <1>1, <2>1, <2>2, KeptEmpty
    <2> QED BY <1>1, <2>1, <2>3 DEF KeptOK
  <1>3. CheckedOK
    BY <1>1 DEF CheckedOK, Distinct
  <1>4. TakenOK
    BY <1>1, NoReportFacts DEF TakenOK
  <1>5. LinesOK
    BY <1>1 DEF LinesOK
  <1> QED BY <1>2, <1>3, <1>4, <1>5 DEF LinesInv

LEMMA StayLines ==
    ASSUME UseInv, LinesInv, UNCHANGED <<toCheck, toLog, fails, report, due, told>>,
           pc = "logging" => pc' = "logging"
    PROVE  LinesInv'
  <1>1. KeptOK'
    BY KeptStays DEF LinesInv
  <1>2. CheckedOK'
    BY DEF LinesInv, CheckedOK
  <1>3. TakenOK'
    BY DEF LinesInv, TakenOK
  <1>4. LinesOK'
    BY DEF LinesInv, LinesOK
  <1> QED BY <1>1, <1>2, <1>3, <1>4 DEF LinesInv

LEMMA EnterLines ==
    ASSUME IInv, UseInv, LinesInv, Enter
    PROVE  LinesInv'
  <1>1. /\ pc = "compose" /\ fails' = [p \in DOMAIN Scopes |-> <<>>] /\ toCheck' = Mocks
        /\ UNCHANGED <<toLog, report, due, told>>
    BY DEF Enter
  <1>2. due = {} /\ toLog = <<>> /\ told = <<>> /\ \A g \in Goroutines : report[g] = NoReport
    BY <1>1 DEF UseInv, FreshOK
  <1>3. \A p \in 1..Len(fails') : fails'[p] = <<>>
    BY <1>1, MockFacts
  <1>4. KeptOK'
    <2>1. /\ due' = {} /\ toLog' = <<>> /\ told' = <<>>
          /\ \A g \in Goroutines : report'[g] = NoReport
      BY <1>1, <1>2
    <2>2. PICK fs, rs : fs = fails' /\ rs = report'
      OBVIOUS
    <2>3. Spread(KeptIn(<<>>, fs, rs, <<>>), {})
      BY <1>3, <2>1, <2>2, KeptEmpty
    <2> QED BY <2>1, <2>2, <2>3 DEF KeptOK
  <1>5. CheckedOK'
    BY <1>1, <1>2, MockFacts DEF CheckedOK
  <1>6. TakenOK'
    BY <1>1 DEF LinesInv, TakenOK
  <1>7. LinesOK'
    BY <1>3 DEF LinesOK
  <1> QED BY <1>4, <1>5, <1>6, <1>7 DEF LinesInv

LEMMA CallUnexpectedLines ==
    ASSUME IInv, UseInv, LinesInv, NEW g \in Goroutines, NEW m \in ToSet(Mocks), CallUnexpected(g, m)
    PROVE  LinesInv'
  <1>1. /\ report' = [report EXCEPT ![g] = Errorf(m)] /\ report[g] = NoReport
        /\ g = "test" => pc = "body"
        /\ UNCHANGED <<pc, toCheck, toLog, fails, due, told>>
    BY DEF CallUnexpected, Runs, checkVars
  <1>2. DOMAIN report = Goroutines
    BY DEF UseInv, UsesOK
  <1>3. \A h \in Goroutines : Lines(report'[h]) = Lines(report[h])
    BY <1>1, <1>2, NoReportFacts DEF Lines
  <1>4. KeptOK'
    BY <1>1, <1>3, KeptStays DEF LinesInv
  <1>5. CheckedOK'
    BY <1>1 DEF LinesInv, CheckedOK
  <1>6. TakenOK'
    BY <1>1, <1>2, NoReportFacts DEF LinesInv, TakenOK
  <1>7. g # "test" => report'["test"] = report["test"]
    BY <1>1, <1>2 DEF Goroutines
  <1>8. LinesOK'
    BY <1>1, <1>7 DEF LinesInv, LinesOK
  <1> QED BY <1>4, <1>5, <1>6, <1>8 DEF LinesInv

LEMMA TakeLines ==
    ASSUME IInv, UseInv, LinesInv, NEW g \in Goroutines, Take(g)
    PROVE  LinesInv'
  <1>1. /\ report[g].at = "take" /\ UNCHANGED <<pc, toCheck, toLog, due>>
        /\ report' = [report EXCEPT ![g].at = "tell", ![g].lines = fails[report[g].mock.place]]
        /\ fails' = [fails EXCEPT ![report[g].mock.place] = <<>>]
    BY DEF Take, checkVars
  <1>2. report[g] # NoReport /\ report[g] \in Report /\ report[g].mock \in ToSet(Mocks) /\ pc # "compose"
    BY <1>1, NoReportFacts, ReportFacts DEF UseInv, FreshOK
  <1>3. PICK p : p = report[g].mock.place /\ p \in 1..Len(fails)
    BY <1>2, MockFacts DEF UseInv, ControlOK
  <1>4. DOMAIN fails = 1..Len(fails) /\ DOMAIN report = Goroutines
    BY LenProperties DEF UseInv, UsesOK
  <1>5. /\ Len(fails') = Len(fails) /\ fails'[p] = <<>>
        /\ \A q \in 1..Len(fails) : q # p => fails'[q] = fails[q]
    BY <1>1, <1>3, <1>4 DEF UseInv, UsesOK
  <1>6. KeptOK'
    BY TakeKept
  <1>7. CheckedOK'
    BY <1>1 DEF LinesInv, CheckedOK
  <1>8. report'[g].at = "tell" /\ \A h \in Goroutines : h # g => report'[h] = report[h]
    BY <1>1, <1>2, <1>4 DEF Report
  <1>9. TakenOK'
    BY <1>8 DEF LinesInv, TakenOK
  <1>10. LinesOK'
    <2> SUFFICES ASSUME NEW q \in 1..Len(fails'), fails'[q] # <<>>
                 PROVE  /\ pc' = "logging" /\ q = toCheck'[Len(toCheck')].place
                        /\ toLog' = <<>> => report'["test"].at = "take"
      BY DEF LinesOK
    <2>1. q \in 1..Len(fails) /\ q # p /\ fails[q] # <<>>
      BY <1>5
    <2>2. pc = "logging" /\ q = toCheck[Len(toCheck)].place /\ (toLog = <<>> => report["test"].at = "take")
      BY <2>1 DEF LinesInv, LinesOK
    <2>3. g # "test"
      <3>1. g = "test" => report["test"].mock = toCheck[Len(toCheck)]
        BY <1>2, <2>2 DEF UseInv, ControlOK
      <3> QED BY <1>3, <2>1, <2>2, <3>1
    <2>4. report'["test"] = report["test"]
      BY <1>8, <2>3 DEF Goroutines
    <2> QED BY <1>1, <2>2, <2>4
  <1> QED BY <1>6, <1>7, <1>9, <1>10 DEF LinesInv

LEMMA TellLines ==
    ASSUME IInv, UseInv, LinesInv, NEW g \in Goroutines, Tell(g)
    PROVE  LinesInv'
  <1>1. /\ report[g].at = "tell" /\ UNCHANGED <<toLog, due, fails>>
        /\ report' = [report EXCEPT ![g] = NoReport]
    BY DEF Tell
  <1>2. report[g] # NoReport /\ DOMAIN report = Goroutines
    BY <1>1, NoReportFacts DEF UseInv, UsesOK
  <1>3. report'[g] = NoReport /\ \A h \in Goroutines : h # g => report'[h] = report[h]
    BY <1>1, <1>2
  <1>4. KeptOK'
    BY TellKept
  <1>5. TakenOK'
    BY <1>3, NoReportFacts DEF LinesInv, TakenOK
  <1>6. CASE g = "stray"
    <2>1. pc' = pc /\ toCheck' = toCheck /\ report'["test"] = report["test"]
      BY <1>3, <1>6 DEF Tell, Goroutines
    <2>2. CheckedOK'
      BY <1>1, <2>1 DEF LinesInv, CheckedOK
    <2>3. LinesOK'
      BY <1>1, <2>1 DEF LinesInv, LinesOK
    <2> QED BY <1>4, <1>5, <2>2, <2>3 DEF LinesInv
  <1>7. CASE g # "stray"
    <2>1. /\ g = "test" /\ pc' = "cleanup"
          /\ toCheck' = IF pc = "logging" THEN SubSeq(toCheck, 1, Len(toCheck) - 1) ELSE toCheck
      BY <1>7 DEF Tell, Goroutines, Front
    <2>2. pc = "logging" => toCheck # <<>> /\ toLog = <<>>
      BY <1>2, <2>1 DEF UseInv, ControlOK
    <2>3. \A p \in 1..Len(fails) : fails[p] = <<>>
      BY <1>1, <2>1, <2>2 DEF LinesInv, LinesOK
    <2>4. LinesOK'
      BY <1>1, <2>3 DEF LinesOK
    <2>5. CheckedOK'
      <3>1. CASE pc = "logging"
        <4>1. PICK q : q = SubSeq(toCheck, 1, Len(toCheck) - 1) /\ toCheck' = q
          BY <2>1, <3>1
        <4>2. /\ Distinct(q)
              /\ \A i \in 1..Len(q) : i \in 1..Len(toCheck) /\ i # Len(toCheck) /\ q[i] = toCheck[i]
          BY <2>2, <3>1, <4>1, FrontDistinct DEF UseInv, UsesOK, LinesInv, CheckedOK
        <4> QED BY <1>1, <4>1, <4>2 DEF LinesInv, CheckedOK
      <3>2. CASE pc # "logging"
        BY <1>1, <2>1, <3>2 DEF LinesInv, CheckedOK
      <3> QED BY <3>1, <3>2
    <2> QED BY <1>4, <1>5, <2>4, <2>5 DEF LinesInv
  <1> QED BY <1>6, <1>7

LEMMA CheckBeginsLines ==
    ASSUME IInv, UseInv, LinesInv, CheckBegins
    PROVE  LinesInv'
  <1>1. PICK es \in SUBSET declared :
            /\ \A e \in es : e.mock = toCheck[Len(toCheck)]
            /\ due' = due \cup es
            /\ IF es = {} THEN toCheck' = SubSeq(toCheck, 1, Len(toCheck) - 1) /\ pc' = pc
               ELSE toCheck' = toCheck /\ pc' = "logging"
    BY CheckFacts
  <1>2. UNCHANGED <<fails, report>> /\ pc = "cleanup" /\ toCheck # <<>>
    BY CheckFacts
  <1>3. Len(toCheck) \in 1..Len(toCheck)
    BY <1>2, Rest DEF UseInv, UsesOK
  <1>4. KeptOK'
    BY CheckBeginsKept
  <1>5. TakenOK'
    BY <1>2 DEF LinesInv, TakenOK
  <1>6. LinesOK'
    BY <1>2 DEF LinesInv, LinesOK
  <1>7. CheckedOK'
    <2>1. CASE es = {}
      <3>1. PICK q : q = SubSeq(toCheck, 1, Len(toCheck) - 1) /\ toCheck' = q /\ due' = due
        BY <1>1, <2>1
      <3>2. /\ Distinct(q)
            /\ \A i \in 1..Len(q) : i \in 1..Len(toCheck) /\ i # Len(toCheck) /\ q[i] = toCheck[i]
        BY <1>2, <3>1, FrontDistinct DEF UseInv, UsesOK, LinesInv, CheckedOK
      <3> QED BY <1>2, <3>1, <3>2 DEF LinesInv, CheckedOK
    <2>2. CASE es # {}
      <3>1. toCheck' = toCheck /\ pc' = "logging"
        BY <1>1, <2>2
      <3>2. ASSUME NEW e \in due', NEW i \in 1..Len(toCheck), toCheck[i] = e.mock PROVE i = Len(toCheck)
        <4>1. e \in es
          BY <1>1, <1>2, <3>2 DEF LinesInv, CheckedOK
        <4>2. toCheck[i] = toCheck[Len(toCheck)]
          BY <1>1, <3>2, <4>1
        <4> QED BY <1>3, <4>2 DEF LinesInv, CheckedOK, Distinct
      <3> QED BY <3>1, <3>2 DEF LinesInv, CheckedOK
    <2> QED BY <2>1, <2>2
  <1> QED BY <1>4, <1>5, <1>6, <1>7 DEF LinesInv

LEMMA LogfLines ==
    ASSUME IInv, UseInv, LinesInv, Logf
    PROVE  LinesInv'
  <1>1. PICK m \in ToSet(Mocks) :
            /\ m = toCheck[Len(toCheck)] /\ m.place \in 1..Len(fails)
            /\ fails' = [fails EXCEPT ![m.place] = Append(@, Head(toLog))]
            /\ report' = IF toLog' = <<>> THEN [report EXCEPT !["test"] = Errorf(m)] ELSE report
    BY LogfFacts
  <1>2. UNCHANGED <<pc, toCheck, due>> /\ pc = "logging" /\ DOMAIN report = Goroutines
    BY LogfFacts DEF UseInv, UsesOK
  <1>3. PICK p : p = m.place
    OBVIOUS
  <1>4. /\ p \in 1..Len(fails) /\ Len(fails') = Len(fails)
        /\ \A q \in 1..Len(fails) : q # p => fails'[q] = fails[q]
    <2>1. DOMAIN fails = 1..Len(fails)
      BY LenProperties DEF UseInv, UsesOK
    <2> QED BY <1>1, <1>3, <2>1 DEF UseInv, UsesOK
  <1>5. KeptOK'
    BY LogfKept
  <1>6. CheckedOK'
    BY <1>2 DEF LinesInv, CheckedOK
  <1>7. TakenOK'
    BY <1>1, <1>2, NoReportFacts DEF LinesInv, TakenOK
  <1>8. toLog' = <<>> => report'["test"].at = "take"
    BY <1>1, <1>2, NoReportFacts DEF Goroutines
  <1>9. LinesOK'
    <2> SUFFICES ASSUME NEW q \in 1..Len(fails'), fails'[q] # <<>>
                 PROVE  q = toCheck[Len(toCheck)].place
      BY <1>2, <1>8 DEF LinesOK
    <2>1. CASE q = p
      BY <1>1, <1>3, <2>1
    <2>2. CASE q # p
      BY <1>4, <2>2 DEF LinesInv, LinesOK
    <2> QED BY <2>1, <2>2
  <1> QED BY <1>5, <1>6, <1>7, <1>9 DEF LinesInv

LEMMA NextLines == IInv /\ UseInv /\ LinesInv /\ [Next]_vars => LinesInv'
  <1> SUFFICES ASSUME IInv, UseInv, LinesInv, [Next]_vars PROVE LinesInv'
    OBVIOUS
  <1>1. CASE \/ pc = "compose" /\ Compose /\ UNCHANGED useVars
             \/ \E m \in ToSet(Mocks) : Declare(m)
             \/ \E g \in Goroutines, e \in declared \ met : Call(g, e)
             \/ Satisfied \/ BodyEnds \/ TestOver \/ Finished \/ UNCHANGED vars
    <2>1. UNCHANGED <<toCheck, toLog, fails, report, due, told>> /\ (pc = "logging" => pc' = "logging")
      BY <1>1 DEF Declare, Call, Satisfied, SatisfiedBegins, SatisfiedAsks, SatisfiedEnds, BodyEnds,
                  TestOver, Finished, vars, useVars, checkVars, reportVars, Runs
    <2> QED BY <2>1, StayLines
  <1>2. CASE Enter
    BY <1>2, EnterLines
  <1>3. ASSUME NEW g \in Goroutines, NEW m \in ToSet(Mocks), CallUnexpected(g, m) PROVE LinesInv'
    BY <1>3, CallUnexpectedLines
  <1>4. ASSUME NEW g \in Goroutines, Take(g) PROVE LinesInv'
    BY <1>4, TakeLines
  <1>5. ASSUME NEW g \in Goroutines, Tell(g) PROVE LinesInv'
    BY <1>5, TellLines
  <1>6. CASE CheckBegins
    BY <1>6, CheckBeginsLines
  <1>7. CASE Logf
    BY <1>7, LogfLines
  <1> QED BY <1>1, <1>2, <1>3, <1>4, <1>5, <1>6, <1>7 DEF Next, Calls, Cleanup

LEMMA InvNamed == UseInv /\ LinesInv => EveryMissingCallIsNamed
  <1> SUFFICES ASSUME UseInv, LinesInv PROVE EveryMissingCallIsNamed
    OBVIOUS
  <1>1. PICK W, D, ts : /\ W = KeptIn(toLog, fails, report, ts) /\ D = due /\ ts = told /\ Spread(W, D)
    BY DEF LinesInv, KeptOK
  <1>2. ts \in Seq(D) /\ Distinct(ts)
    BY <1>1, KeptFacts DEF Spread
  <1>3. ToSet(told) \subseteq due
    BY <1>1, <1>2, SetFacts
  <1>4. IsInjective(told)
    <2>1. DOMAIN ts = 1..Len(ts)
      BY <1>2, LenProperties
    <2> QED BY <1>1, <1>2, <2>1 DEF IsInjective, Distinct
  <1>5. ASSUME pc = "over", \A g \in Goroutines : report[g] = NoReport, NEW e \in due
        PROVE  e \in ToSet(told)
    <2>1. PICK k \in DOMAIN W : e \in ToSet(W[k])
      BY <1>1 DEF Spread
    <2>2. W[k] # <<>>
      BY <2>1 DEF ToSet
    <2>3. toLog = <<>> /\ \A p \in 1..Len(fails) : fails[p] = <<>>
      BY <1>5 DEF UseInv, ControlOK, LinesInv, LinesOK
    <2>4. \A g \in Goroutines : Lines(report[g]) = <<>>
      BY <1>5 DEF Lines
    <2>5. k = ToldAt
      BY <1>1, <2>2, <2>3, <2>4, KeptFacts
    <2> QED BY <1>1, <2>1, <2>5, KeptFacts
  <1> QED BY <1>3, <1>4, <1>5 DEF EveryMissingCallIsNamed

\* Each expectation a cleanup finds unmet is named to the test once, and no other:
\* any number of mocks and expectations, whatever stray calls report between.
THEOREM EveryMissingCallIsNamedHolds == Spec => []EveryMissingCallIsNamed
  BY UseInvariance, InitLines, NextLines, InvNamed, PTL DEF Spec
=============================================================================
