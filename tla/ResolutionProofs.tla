-------------------------- MODULE ResolutionProofs --------------------------
(***************************************************************************)
(* Proofs about Resolution, for every composition and any number of        *)
(* goroutines.  The chain of the argument: what a step does to one stack   *)
(* (BecomeStack, PushStack, ReturnStack), what that does to the invariant  *)
(* (BecomeKeeps, PushKeeps, ReturnKeeps), one lemma per action, theorems.  *)
(* The second half is about the instances: what becomes of one once a      *)
(* factory has made it, to whom it is handed and how often it is closed.   *)
(***************************************************************************)
EXTENDS Resolution, SequenceTheorems, FiniteSetTheorems, TLAPS

\* What is known of a call by the place it has reached.
FrameOK(f) ==
    /\ f \in Frame
    /\ f.at \in BagAt \cup {"through"} => f.scope \in ScopeSet
    /\ f.at \in {"entry", "lock", "build"} =>
          /\ f.typ \in DOMAIN Regs[f.scope]
          /\ f.typ \notin f.path

FramesOK == \A g \in Goroutines : \A i \in 1..Len(stack[g]) : FrameOK(stack[g][i])

\* What a call is building is in the path of every call it makes.
PathsOK ==
    \A g \in Goroutines : \A i, j \in 1..Len(stack[g]) :
        i < j /\ stack[g][i].at = "build" => stack[g][i].typ \in stack[g][j].path

\* A call in a factory holds the lock of an entry without a value ...
BuildersHold ==
    \A g \in Goroutines : \A i \in 1..Len(stack[g]) :
        stack[g][i].at = "build" =>
            /\ holder[stack[g][i].scope][stack[g][i].typ] = g
            /\ entry[stack[g][i].scope][stack[g][i].typ] = None

\* ... and a lock that is held is held by such a call.
HoldersBuild ==
    \A g \in Goroutines, s \in ScopeSet, t \in Types :
        holder[s][t] = g => \E i \in 1..Len(stack[g]) : Builds(g, i, s, t)

StackInv == FramesOK /\ PathsOK /\ BuildersHold /\ HoldersBuild

IInv == TypeOK /\ StackInv

-----------------------------------------------------------------------------
(* The three things a step does to the stack of its goroutine.             *)

LEMMA FrontFacts ==
    ASSUME NEW S, NEW q \in Seq(S), q # <<>>
    PROVE  /\ Len(q) \in Nat \ {0}
           /\ SubSeq(q, 1, Len(q) - 1) \in Seq(S)
           /\ Len(SubSeq(q, 1, Len(q) - 1)) = Len(q) - 1
           /\ \A i \in 1..(Len(q) - 1) : SubSeq(q, 1, Len(q) - 1)[i] = q[i]
  <1> DEFINE n == Len(q) - 1
  <1>1. Len(q) \in Nat \ {0}
    BY EmptySeq, LenProperties
  <1>2. 1 \in Int /\ n \in Int /\ \A i \in 1..n : q[i] \in S
    BY <1>1, ElementOfSeq
  <1>3. /\ SubSeq(q, 1, n) \in Seq(S)
        /\ Len(SubSeq(q, 1, n)) = IF 1 <= n THEN n - 1 + 1 ELSE 0
        /\ \A i \in 1..(n - 1 + 1) : SubSeq(q, 1, n)[i] = q[1 + i - 1]
    <2> HIDE DEF n
    <2> QED BY <1>2, SubSeqProperties
  <1>4. \A i \in 1..n : i \in 1..(n - 1 + 1) /\ 1 + i - 1 = i
    BY <1>1
  <1>5. Len(SubSeq(q, 1, n)) = n
    <2>1. n \in Nat
      BY <1>1
    <2>2. (IF 1 <= n THEN n - 1 + 1 ELSE 0) = n
      <3> HIDE DEF n
      <3> QED BY <2>1
    <2> QED BY <1>3, <2>2
  <1>6. \A i \in 1..n : SubSeq(q, 1, n)[i] = q[i]
    BY <1>3, <1>4
  <1> QED BY <1>1, <1>3, <1>5, <1>6

LEMMA AppendFacts ==
    ASSUME NEW S, NEW q \in Seq(S), NEW x \in S
    PROVE  /\ Append(q, x) \in Seq(S)
           /\ Len(Append(q, x)) = Len(q) + 1
           /\ Append(q, x)[Len(q) + 1] = x
           /\ \A i \in 1..Len(q) : Append(q, x)[i] = q[i]
  OBVIOUS

LEMMA BecomeStack ==
    ASSUME NEW g \in Goroutines, stack \in [Goroutines -> Seq(Frame)],
           stack[g] # <<>>, NEW f \in Frame, Become(g, f)
    PROVE  /\ stack' \in [Goroutines -> Seq(Frame)]
           /\ Len(stack[g]) \in Nat \ {0}
           /\ Len(stack'[g]) = Len(stack[g])
           /\ stack'[g][Len(stack[g])] = f
           /\ \A i \in 1..(Len(stack[g]) - 1) : stack'[g][i] = stack[g][i]
           /\ \A h \in Goroutines \ {g} : stack'[h] = stack[h]
  <1> DEFINE q == stack[g]
             b == SubSeq(q, 1, Len(q) - 1)
             a == Append(b, f)
  <1>1. stack' = [stack EXCEPT ![g] = a]
    BY DEF Become, Below
  <1>2. /\ q \in Seq(Frame)
        /\ q # <<>>
    OBVIOUS
  <1>3. /\ Len(q) \in Nat \ {0}
        /\ b \in Seq(Frame)
        /\ Len(b) = Len(q) - 1
        /\ \A i \in 1..(Len(q) - 1) : b[i] = q[i]
    BY <1>2, FrontFacts
  <1>4. /\ a \in Seq(Frame)
        /\ Len(a) = Len(b) + 1
        /\ a[Len(b) + 1] = f
        /\ \A i \in 1..Len(b) : a[i] = b[i]
    BY <1>3, AppendFacts
  <1>5. /\ Len(a) = Len(q)
        /\ a[Len(q)] = f
        /\ \A i \in 1..(Len(q) - 1) : a[i] = q[i]
    <2> HIDE DEF a, b, q
    <2> QED BY <1>3, <1>4
  <1>6. stack' \in [Goroutines -> Seq(Frame)] /\ stack'[g] = a
        /\ \A h \in Goroutines \ {g} : stack'[h] = stack[h]
    <2> HIDE DEF a
    <2> QED BY <1>1, <1>4
  <1> QED BY <1>3, <1>5, <1>6

LEMMA PushStack ==
    ASSUME NEW g \in Goroutines, stack \in [Goroutines -> Seq(Frame)],
           stack[g] # <<>>, NEW f \in Frame, NEW c \in Frame, Push(g, f, c)
    PROVE  /\ stack' \in [Goroutines -> Seq(Frame)]
           /\ Len(stack[g]) \in Nat \ {0}
           /\ Len(stack'[g]) = Len(stack[g]) + 1
           /\ stack'[g][Len(stack[g]) + 1] = c
           /\ stack'[g][Len(stack[g])] = f
           /\ \A i \in 1..(Len(stack[g]) - 1) : stack'[g][i] = stack[g][i]
           /\ \A h \in Goroutines \ {g} : stack'[h] = stack[h]
  <1> DEFINE q == stack[g]
             b == SubSeq(q, 1, Len(q) - 1)
             a == Append(b, f)
             e == Append(a, c)
  <1>1. stack' = [stack EXCEPT ![g] = e]
    BY DEF Push, Below
  <1>2. /\ q \in Seq(Frame)
        /\ q # <<>>
    OBVIOUS
  <1>3. /\ Len(q) \in Nat \ {0}
        /\ b \in Seq(Frame)
        /\ Len(b) = Len(q) - 1
        /\ \A i \in 1..(Len(q) - 1) : b[i] = q[i]
    BY <1>2, FrontFacts
  <1>4. /\ a \in Seq(Frame)
        /\ Len(a) = Len(b) + 1
        /\ a[Len(b) + 1] = f
        /\ \A i \in 1..Len(b) : a[i] = b[i]
    BY <1>3, AppendFacts
  <1>5. /\ e \in Seq(Frame)
        /\ Len(e) = Len(a) + 1
        /\ e[Len(a) + 1] = c
        /\ \A i \in 1..Len(a) : e[i] = a[i]
    BY <1>4, AppendFacts
  <1>6. /\ Len(e) = Len(q) + 1
        /\ e[Len(q) + 1] = c
        /\ e[Len(q)] = f
        /\ \A i \in 1..(Len(q) - 1) : e[i] = q[i]
    <2> HIDE DEF e, a, b, q
    <2> QED BY <1>3, <1>4, <1>5
  <1>7. stack' \in [Goroutines -> Seq(Frame)] /\ stack'[g] = e
        /\ \A h \in Goroutines \ {g} : stack'[h] = stack[h]
    <2> HIDE DEF e
    <2> QED BY <1>1, <1>5
  <1> QED BY <1>3, <1>6, <1>7

LEMMA ReturnStack ==
    ASSUME NEW g \in Goroutines, stack \in [Goroutines -> Seq(Frame)],
           stack[g] # <<>>, NEW r, Return(g, r)
    PROVE  /\ stack' \in [Goroutines -> Seq(Frame)]
           /\ Len(stack[g]) \in Nat \ {0}
           /\ Len(stack'[g]) = Len(stack[g]) - 1
           /\ \A i \in 1..(Len(stack[g]) - 1) : stack'[g][i] = stack[g][i]
           /\ \A h \in Goroutines \ {g} : stack'[h] = stack[h]
  <1> DEFINE q == stack[g]
             b == SubSeq(q, 1, Len(q) - 1)
  <1>1. stack' = [stack EXCEPT ![g] = b]
    BY DEF Return, Below
  <1>2. /\ Len(q) \in Nat \ {0}
        /\ b \in Seq(Frame)
        /\ Len(b) = Len(q) - 1
        /\ \A i \in 1..(Len(q) - 1) : b[i] = q[i]
    BY FrontFacts
  <1> HIDE DEF b
  <1> QED BY <1>1, <1>2

LEMMA TopIsFrame ==
    ASSUME NEW g \in Goroutines, stack \in [Goroutines -> Seq(Frame)], stack[g] # <<>>
    PROVE  /\ Top(g) \in Frame
           /\ Len(stack[g]) \in 1..Len(stack[g])
           /\ Top(g) = stack[g][Len(stack[g])]
  BY DEF Top
-----------------------------------------------------------------------------
(* What they do to the invariant, as long as no factory is entered or left. *)

LEMMA BecomeKeeps ==
    ASSUME IInv, NEW g \in Goroutines, stack[g] # <<>>, Top(g).at # "build",
           NEW f, FrameOK(f), f.at # "build", Top(g).path \subseteq f.path,
           Become(g, f), holder' = holder, entry' = entry
    PROVE  StackInv' /\ stack' \in [Goroutines -> Seq(Frame)]
  <1> DEFINE n == Len(stack[g])
  <1>1. stack \in [Goroutines -> Seq(Frame)] /\ f \in Frame
    BY DEF IInv, TypeOK, FrameOK
  <1>2. /\ stack' \in [Goroutines -> Seq(Frame)]
        /\ n \in Nat \ {0}
        /\ Len(stack'[g]) = n
        /\ stack'[g][n] = f
        /\ \A i \in 1..(n - 1) : stack'[g][i] = stack[g][i]
        /\ \A h \in Goroutines \ {g} : stack'[h] = stack[h]
    BY <1>1, BecomeStack
  <1>3. n \in 1..n /\ stack[g][n] = Top(g)
    BY <1>2 DEF Top
  <1> HIDE DEF n
  <1>n. n = Len(stack[g])
    BY DEF n
  <1>4. FramesOK'
    <2> SUFFICES ASSUME NEW h \in Goroutines, NEW i \in 1..Len(stack'[h])
                 PROVE  FrameOK(stack'[h][i])
      BY DEF FramesOK, FrameOK
    <2>1. CASE h = g /\ i = n
      BY <1>2, <2>1
    <2>2. CASE ~ (h = g /\ i = n)
      BY <1>2, <1>n, <2>2 DEF IInv, StackInv, FramesOK
    <2> QED BY <2>1, <2>2
  <1>5. PathsOK'
    <2> SUFFICES ASSUME NEW h \in Goroutines,
                        NEW i \in 1..Len(stack'[h]), NEW j \in 1..Len(stack'[h]),
                        i < j, stack'[h][i].at = "build"
                 PROVE  stack'[h][i].typ \in stack'[h][j].path
      BY DEF PathsOK
    <2>1. CASE h # g
      BY <1>2, <2>1 DEF IInv, StackInv, PathsOK
    <2>2. CASE h = g /\ j # n
      BY <1>2, <1>n, <2>2 DEF IInv, StackInv, PathsOK
    <2>3. CASE h = g /\ j = n
      <3>1. i \in 1..(n - 1) /\ stack'[g][i] = stack[g][i]
        BY <1>2, <2>3
      <3>2. stack[g][i].typ \in stack[g][n].path
        BY <1>2, <1>3, <1>n, <2>3, <3>1 DEF IInv, StackInv, PathsOK
      <3> QED BY <1>2, <1>3, <2>3, <3>1, <3>2
    <2> QED BY <2>1, <2>2, <2>3
  <1>6. BuildersHold'
    <2> SUFFICES ASSUME NEW h \in Goroutines, NEW i \in 1..Len(stack'[h]),
                        stack'[h][i].at = "build"
                 PROVE  /\ holder[stack'[h][i].scope][stack'[h][i].typ] = h
                        /\ entry[stack'[h][i].scope][stack'[h][i].typ] = None
      BY DEF BuildersHold
    <2>1. i \in 1..Len(stack[h]) /\ stack'[h][i] = stack[h][i]
      BY <1>2, <1>n
    <2> QED BY <2>1 DEF IInv, StackInv, BuildersHold
  <1>7. HoldersBuild'
    <2> SUFFICES ASSUME NEW h \in Goroutines, NEW s \in ScopeSet, NEW t \in Types,
                        holder[s][t] = h
                 PROVE  \E i \in 1..Len(stack'[h]) :
                            /\ stack'[h][i].at = "build"
                            /\ stack'[h][i].scope = s
                            /\ stack'[h][i].typ = t
      BY DEF HoldersBuild, Builds
    <2>1. PICK i \in 1..Len(stack[h]) : Builds(h, i, s, t)
      BY DEF IInv, StackInv, HoldersBuild
    <2>2. i \in 1..Len(stack'[h]) /\ stack'[h][i] = stack[h][i]
      BY <1>2, <1>3, <1>n, <2>1 DEF Builds
    <2> QED BY <2>1, <2>2 DEF Builds
  <1> QED BY <1>2, <1>4, <1>5, <1>6, <1>7 DEF StackInv

LEMMA PushKeeps ==
    ASSUME IInv, NEW g \in Goroutines, stack[g] # <<>>,
           NEW f, FrameOK(f), f.at = Top(g).at, f.scope = Top(g).scope,
           f.typ = Top(g).typ, f.path = Top(g).path,
           NEW c, FrameOK(c), c.at # "build", Top(g).path \subseteq c.path,
           Top(g).at = "build" => Top(g).typ \in c.path,
           Push(g, f, c), holder' = holder, entry' = entry
    PROVE  StackInv' /\ stack' \in [Goroutines -> Seq(Frame)]
  <1> DEFINE n == Len(stack[g])
  <1>1. stack \in [Goroutines -> Seq(Frame)] /\ f \in Frame /\ c \in Frame
    BY DEF IInv, TypeOK, FrameOK
  <1>2. /\ stack' \in [Goroutines -> Seq(Frame)]
        /\ n \in Nat \ {0}
        /\ Len(stack'[g]) = n + 1
        /\ stack'[g][n + 1] = c
        /\ stack'[g][n] = f
        /\ \A i \in 1..(n - 1) : stack'[g][i] = stack[g][i]
        /\ \A h \in Goroutines \ {g} : stack'[h] = stack[h]
    BY <1>1, PushStack
  <1>3. n \in 1..n /\ stack[g][n] = Top(g)
    BY <1>2 DEF Top
  <1> HIDE DEF n
  <1>n. n = Len(stack[g])
    BY DEF n
  \* Every old call is still there, as far as the invariant looks at it.
  <1>o. \A h \in Goroutines : \A i \in 1..Len(stack[h]) :
            /\ i \in 1..Len(stack'[h])
            /\ stack'[h][i].at = stack[h][i].at
            /\ stack'[h][i].scope = stack[h][i].scope
            /\ stack'[h][i].typ = stack[h][i].typ
            /\ stack'[h][i].path = stack[h][i].path
    <2> SUFFICES ASSUME NEW h \in Goroutines, NEW i \in 1..Len(stack[h])
                 PROVE  /\ i \in 1..Len(stack'[h])
                        /\ stack'[h][i].at = stack[h][i].at
                        /\ stack'[h][i].scope = stack[h][i].scope
                        /\ stack'[h][i].typ = stack[h][i].typ
                        /\ stack'[h][i].path = stack[h][i].path
      OBVIOUS
    <2>1. CASE h # g
      BY <1>2, <2>1
    <2>2. CASE h = g /\ i = n
      BY <1>2, <1>3, <1>n, <2>2
    <2>3. CASE h = g /\ i # n
      BY <1>2, <1>n, <2>3
    <2> QED BY <2>1, <2>2, <2>3
  \* Every call is old, or is the new one.
  <1>p. \A h \in Goroutines : \A i \in 1..Len(stack'[h]) :
            i \in 1..Len(stack[h]) \/ (h = g /\ i = n + 1)
    BY <1>2, <1>n
  <1>4. FramesOK'
    <2> SUFFICES ASSUME NEW h \in Goroutines, NEW i \in 1..Len(stack'[h])
                 PROVE  FrameOK(stack'[h][i])
      BY DEF FramesOK, FrameOK
    <2>1. CASE h = g /\ i = n + 1
      BY <1>2, <2>1
    <2>2. CASE h = g /\ i = n
      BY <1>2, <2>2
    <2>3. CASE ~ (h = g /\ i \in {n, n + 1})
      BY <1>2, <1>n, <2>3 DEF IInv, StackInv, FramesOK
    <2> QED BY <2>1, <2>2, <2>3
  <1>5. PathsOK'
    <2> SUFFICES ASSUME NEW h \in Goroutines,
                        NEW i \in 1..Len(stack'[h]), NEW j \in 1..Len(stack'[h]),
                        i < j, stack'[h][i].at = "build"
                 PROVE  stack'[h][i].typ \in stack'[h][j].path
      BY DEF PathsOK
    <2>1. CASE ~ (h = g /\ j = n + 1)
      <3>1. i \in 1..Len(stack[h]) /\ j \in 1..Len(stack[h])
        BY <1>2, <1>n, <1>p, <2>1
      <3>2. stack[h][i].typ \in stack[h][j].path
        BY <1>o, <3>1 DEF IInv, StackInv, PathsOK
      <3> QED BY <1>o, <3>1, <3>2
    <2>2. CASE h = g /\ j = n + 1
      <3>1. i \in 1..n /\ i \in 1..Len(stack[g])
        BY <1>2, <1>n, <2>2
      <3>2. stack[g][i].at = "build" /\ stack'[h][i].typ = stack[g][i].typ
        BY <1>o, <2>2, <3>1
      <3>3. CASE i = n
        BY <1>2, <1>3, <2>2, <3>2, <3>3
      <3>4. CASE i # n
        <4>1. i < n /\ n \in 1..Len(stack[g])
          BY <1>3, <1>n, <3>1, <3>4
        <4>2. stack[g][i].typ \in stack[g][n].path
          BY <3>1, <3>2, <4>1 DEF IInv, StackInv, PathsOK
        <4> QED BY <1>2, <1>3, <2>2, <3>2, <4>2
      <3> QED BY <3>3, <3>4
    <2> QED BY <2>1, <2>2
  <1>6. BuildersHold'
    <2> SUFFICES ASSUME NEW h \in Goroutines, NEW i \in 1..Len(stack'[h]),
                        stack'[h][i].at = "build"
                 PROVE  /\ holder[stack'[h][i].scope][stack'[h][i].typ] = h
                        /\ entry[stack'[h][i].scope][stack'[h][i].typ] = None
      BY DEF BuildersHold
    <2>1. i \in 1..Len(stack[h])
      BY <1>2, <1>p
    <2> QED BY <1>o, <2>1 DEF IInv, StackInv, BuildersHold
  <1>7. HoldersBuild'
    <2> SUFFICES ASSUME NEW h \in Goroutines, NEW s \in ScopeSet, NEW t \in Types,
                        holder[s][t] = h
                 PROVE  \E i \in 1..Len(stack'[h]) :
                            /\ stack'[h][i].at = "build"
                            /\ stack'[h][i].scope = s
                            /\ stack'[h][i].typ = t
      BY DEF HoldersBuild, Builds
    <2>1. PICK i \in 1..Len(stack[h]) : Builds(h, i, s, t)
      BY DEF IInv, StackInv, HoldersBuild
    <2> QED BY <1>o, <2>1 DEF Builds
  <1> QED BY <1>2, <1>4, <1>5, <1>6, <1>7 DEF StackInv

LEMMA ReturnKeeps ==
    ASSUME IInv, NEW g \in Goroutines, stack[g] # <<>>, Top(g).at # "build",
           NEW r, Return(g, r), holder' = holder, entry' = entry
    PROVE  StackInv' /\ stack' \in [Goroutines -> Seq(Frame)]
  <1> DEFINE n == Len(stack[g])
  <1>1. stack \in [Goroutines -> Seq(Frame)]
    BY DEF IInv, TypeOK
  <1>2. /\ stack' \in [Goroutines -> Seq(Frame)]
        /\ n \in Nat \ {0}
        /\ Len(stack'[g]) = n - 1
        /\ \A i \in 1..(n - 1) : stack'[g][i] = stack[g][i]
        /\ \A h \in Goroutines \ {g} : stack'[h] = stack[h]
    BY <1>1, ReturnStack
  <1>3. n \in 1..n /\ stack[g][n] = Top(g)
    BY <1>2 DEF Top
  <1> HIDE DEF n
  <1>n. n = Len(stack[g])
    BY DEF n
  <1>p. \A h \in Goroutines : \A i \in 1..Len(stack'[h]) :
            i \in 1..Len(stack[h]) /\ stack'[h][i] = stack[h][i]
    BY <1>2, <1>n
  <1>4. FramesOK'
    BY <1>p DEF IInv, StackInv, FramesOK, FrameOK
  <1>5. PathsOK'
    BY <1>p DEF IInv, StackInv, PathsOK
  <1>6. BuildersHold'
    BY <1>p DEF IInv, StackInv, BuildersHold
  <1>7. HoldersBuild'
    <2> SUFFICES ASSUME NEW h \in Goroutines, NEW s \in ScopeSet, NEW t \in Types,
                        holder[s][t] = h
                 PROVE  \E i \in 1..Len(stack'[h]) :
                            /\ stack'[h][i].at = "build"
                            /\ stack'[h][i].scope = s
                            /\ stack'[h][i].typ = t
      BY DEF HoldersBuild, Builds
    <2>1. PICK i \in 1..Len(stack[h]) : Builds(h, i, s, t)
      BY DEF IInv, StackInv, HoldersBuild
    <2>2. i \in 1..Len(stack'[h]) /\ stack'[h][i] = stack[h][i]
      BY <1>2, <1>3, <1>n, <2>1 DEF Builds
    <2> QED BY <2>1, <2>2 DEF Builds
  <1> QED BY <1>2, <1>4, <1>5, <1>6, <1>7 DEF StackInv

-----------------------------------------------------------------------------
(* One lemma per action.                                                   *)

LEMMA ResultFacts ==
    /\ Running \in Results /\ Absent \in Results /\ Panic \in Results
    /\ Running.tag = "running" /\ Absent.tag = "absent" /\ Panic.tag = "panic"
    /\ \A v \in Instances : Value(v) \in Results
    /\ \A r \in Results : r.tag = "value" => r.inst \in Instances
  BY DEF Running, Absent, Panic, Value, Results

LEMMA CallFacts ==
    ASSUME NEW s \in ScopeSet, NEW t \in Types, NEW p \in SUBSET Types
    PROVE  /\ FrameOK(StageCall(t, p))
           /\ StageCall(t, p).at = "cached" /\ StageCall(t, p).path = p
           /\ FrameOK(ResolveCall(s, t, p))
           /\ ResolveCall(s, t, p).at = "resolve" /\ ResolveCall(s, t, p).path = p
           /\ FrameOK(ThroughCall(s, t, p))
           /\ ThroughCall(s, t, p).at = "through" /\ ThroughCall(s, t, p).path = p
  BY DEF FrameOK, Frame, StageAt, BagAt, StageCall, ResolveCall, ThroughCall, Call

LEMMA StageCallFacts ==
    ASSUME NEW t \in Types, NEW p \in SUBSET Types
    PROVE  /\ FrameOK(StageCall(t, p))
           /\ StageCall(t, p).at = "cached" /\ StageCall(t, p).path = p
  BY DEF FrameOK, Frame, StageAt, BagAt, StageCall, Call

LEMMA TopOK ==
    ASSUME IInv, NEW g \in Goroutines, stack[g] # <<>>
    PROVE  FrameOK(Top(g)) /\ Top(g) \in Frame
  BY TopIsFrame DEF IInv, TypeOK, StackInv, FramesOK, FrameOK

LEMMA AskKeeps ==
    ASSUME IInv, NEW g \in Goroutines, NEW t \in Types, Ask(g, t)
    PROVE  IInv'
  <1>1. FrameOK(StageCall(t, {})) /\ StageCall(t, {}).at = "cached"
    BY StageCallFacts
  <1>2. /\ stack' = [stack EXCEPT ![g] = <<StageCall(t, {})>>]
        /\ stack[g] = <<>>
        /\ stack \in [Goroutines -> Seq(Frame)]
        /\ StageCall(t, {}) \in Frame
    BY <1>1 DEF Ask, IInv, TypeOK, FrameOK
  <1> DEFINE c == StageCall(t, {})
  <1> HIDE DEF c
  <1>3. /\ stack' \in [Goroutines -> Seq(Frame)]
        /\ Len(stack[g]) = 0
        /\ Len(stack'[g]) = 1 /\ stack'[g][1] = c
        /\ \A h \in Goroutines \ {g} : stack'[h] = stack[h]
    BY <1>2 DEF c
  <1>4. TypeOK'
    BY <1>3, ResultFacts DEF IInv, TypeOK, Ask, stageVars, bagVars, endVars
  <1>5. holder' = holder /\ entry' = entry
    BY DEF Ask, bagVars
  <1>6. FrameOK(c) /\ c.at = "cached"
    BY <1>1 DEF c
  <1>7. FramesOK'
    <2> SUFFICES ASSUME NEW h \in Goroutines, NEW i \in 1..Len(stack'[h])
                 PROVE  FrameOK(stack'[h][i])
      BY DEF FramesOK, FrameOK
    <2> QED BY <1>3, <1>6 DEF IInv, StackInv, FramesOK
  <1>p. \A h \in Goroutines : \A i \in 1..Len(stack'[h]) :
            \/ i = 1 /\ Len(stack'[h]) = 1 /\ stack'[h][i].at = "cached"
            \/ stack'[h] = stack[h]
    <2> SUFFICES ASSUME NEW h \in Goroutines, NEW i \in 1..Len(stack'[h]), h = g
                 PROVE  i = 1 /\ Len(stack'[h]) = 1 /\ stack'[h][i].at = "cached"
      BY <1>3
    <2>1. i = 1
      BY <1>3
    <2> QED BY <1>3, <1>6, <2>1
  <1>8. PathsOK'
    <2> SUFFICES ASSUME NEW h \in Goroutines,
                        NEW i \in 1..Len(stack'[h]), NEW j \in 1..Len(stack'[h]),
                        i < j, stack'[h][i].at = "build"
                 PROVE  stack'[h][i].typ \in stack'[h][j].path
      BY DEF PathsOK
    <2>1. stack'[h] = stack[h]
      BY <1>p
    <2> QED BY <2>1 DEF IInv, StackInv, PathsOK
  <1>10. BuildersHold'
    <2> SUFFICES ASSUME NEW h \in Goroutines, NEW i \in 1..Len(stack'[h]),
                        stack'[h][i].at = "build"
                 PROVE  /\ holder[stack'[h][i].scope][stack'[h][i].typ] = h
                        /\ entry[stack'[h][i].scope][stack'[h][i].typ] = None
      BY <1>5 DEF BuildersHold
    <2>1. stack'[h] = stack[h]
      BY <1>p
    <2> QED BY <2>1 DEF IInv, StackInv, BuildersHold
  <1>9. HoldersBuild'
    BY <1>3, <1>5 DEF IInv, StackInv, HoldersBuild, Builds
  <1> QED BY <1>4, <1>7, <1>8, <1>9, <1>10 DEF IInv, StackInv

LEMMA CachedKeeps ==
    ASSUME IInv, NEW g \in Goroutines, Cached(g)
    PROVE  IInv'
  <1>1. stack[g] # <<>> /\ Top(g).at = "cached" /\ holder' = holder /\ entry' = entry
    BY DEF Cached, In, bagVars
  <1>2. FrameOK(Top(g)) /\ Top(g) \in Frame /\ Top(g).typ \in Types
    BY <1>1, TopOK DEF Frame
  <1>3. CASE cache[Top(g).typ] # None
    <2>1. Return(g, Value(cache[Top(g).typ]))
      BY <1>3 DEF Cached
    <2>2. StackInv' /\ stack' \in [Goroutines -> Seq(Frame)]
      BY <1>1, <2>1, ReturnKeeps
    <2>3. cache[Top(g).typ] \in Instances
      BY <1>2, <1>3 DEF IInv, TypeOK
    <2>4. ret' \in [Goroutines -> Results]
      BY <2>1, <2>3, ResultFacts DEF Return, IInv, TypeOK
    <2>5. answers' \subseteq (ScopeSet \cup {None}) \X Types \X Instances
      BY <1>2, <1>3, <2>3 DEF Cached, Answer, IInv, TypeOK
    <2>6. TypeOK'
      BY <2>2, <2>4, <2>5 DEF Cached, IInv, TypeOK, stageVars, bagVars, endVars
    <2> QED BY <2>2, <2>6 DEF IInv
  <1>4. CASE cache[Top(g).typ] = None
    <2> DEFINE f == [Top(g) EXCEPT !.at = "snapshot"]
    <2>1. Become(g, f) /\ UNCHANGED <<ret, answers>>
      BY <1>4 DEF Cached, Goto
    <2>2. FrameOK(f) /\ f.at = "snapshot" /\ f.path = Top(g).path
      BY <1>1, <1>2 DEF FrameOK, Frame, StageAt, BagAt
    <2> HIDE DEF f
    <2>3. StackInv' /\ stack' \in [Goroutines -> Seq(Frame)]
      BY <1>1, <2>1, <2>2, BecomeKeeps
    <2>4. TypeOK'
      BY <2>1, <2>3 DEF Cached, IInv, TypeOK, stageVars, bagVars, endVars
    <2> QED BY <2>3, <2>4 DEF IInv
  <1> QED BY <1>3, <1>4

LEMMA SnapshotKeeps ==
    ASSUME IInv, NEW g \in Goroutines, Snapshot(g)
    PROVE  IInv'
  <1> DEFINE f == [Top(g) EXCEPT !.at = "scan", !.rest = scopes]
  <1>1. /\ stack[g] # <<>> /\ Top(g).at = "snapshot"
        /\ holder' = holder /\ entry' = entry /\ Become(g, f)
    BY DEF Snapshot, In, bagVars
  <1>2. FrameOK(Top(g)) /\ Top(g) \in Frame
    BY <1>1, TopOK
  <1>3. FrameOK(f) /\ f.at = "scan" /\ f.path = Top(g).path
    BY <1>1, <1>2 DEF FrameOK, Frame, StageAt, BagAt, IInv, TypeOK
  <1> HIDE DEF f
  <1>4. StackInv' /\ stack' \in [Goroutines -> Seq(Frame)]
    BY <1>1, <1>3, BecomeKeeps
  <1>5. TypeOK'
    BY <1>4 DEF Snapshot, IInv, TypeOK, stageVars, bagVars, endVars
  <1> QED BY <1>4, <1>5 DEF IInv

LEMMA ScanKeeps ==
    ASSUME IInv, NEW g \in Goroutines, Scan(g)
    PROVE  IInv'
  <1>1. stack[g] # <<>> /\ Top(g).at = "scan" /\ holder' = holder /\ entry' = entry
    BY DEF Scan, In, bagVars
  <1>2. FrameOK(Top(g)) /\ Top(g) \in Frame
    BY <1>1, TopOK
  <1>3. CASE Top(g).rest = <<>>
    <2>1. Return(g, Absent)
      BY <1>3 DEF Scan
    <2>2. StackInv' /\ stack' \in [Goroutines -> Seq(Frame)]
      BY <1>1, <2>1, ReturnKeeps
    <2>3. TypeOK'
      BY <2>1, <2>2, ResultFacts
      DEF Scan, Return, IInv, TypeOK, stageVars, bagVars, endVars
    <2> QED BY <2>2, <2>3 DEF IInv
  <1>4. CASE Top(g).rest # <<>>
    <2> DEFINE f == [Top(g) EXCEPT !.rest = Tail(Top(g).rest)]
               c == ResolveCall(Head(Top(g).rest), Top(g).typ, Top(g).path)
    <2>1. Push(g, f, c) /\ ret' = [ret EXCEPT ![g] = Running]
      BY <1>4 DEF Scan
    <2>2. /\ Top(g).rest \in Seq(ScopeSet) /\ Top(g).typ \in Types
          /\ Top(g).path \in SUBSET Types
      BY <1>2 DEF Frame
    <2>3. Head(Top(g).rest) \in ScopeSet /\ Tail(Top(g).rest) \in Seq(ScopeSet)
      BY <1>4, <2>2
    <2>4. /\ FrameOK(f) /\ f.at = Top(g).at /\ f.scope = Top(g).scope
          /\ f.typ = Top(g).typ /\ f.path = Top(g).path
      BY <1>1, <1>2, <2>3 DEF FrameOK, Frame, StageAt, BagAt
    <2>5. FrameOK(c) /\ c.at = "resolve" /\ c.path = Top(g).path
      BY <2>2, <2>3, CallFacts
    <2> HIDE DEF f, c
    <2>6. StackInv' /\ stack' \in [Goroutines -> Seq(Frame)]
      BY <1>1, <2>1, <2>4, <2>5, PushKeeps
    <2>7. TypeOK'
      BY <2>1, <2>6, ResultFacts
      DEF Scan, IInv, TypeOK, stageVars, bagVars, endVars
    <2> QED BY <2>6, <2>7 DEF IInv
  <1> QED BY <1>3, <1>4

LEMMA RememberKeeps ==
    ASSUME IInv, NEW g \in Goroutines, Remember(g)
    PROVE  IInv'
  <1> DEFINE t == Top(g).typ
             v == IF cache[t] # None THEN cache[t] ELSE ret[g].inst
  <1>1. /\ stack[g] # <<>> /\ Top(g).at = "scan" /\ holder' = holder /\ entry' = entry
        /\ cache' = [cache EXCEPT ![t] = v] /\ Return(g, Value(v))
        /\ Answer(None, t, v)
    BY DEF Remember, In, bagVars
  <1>2. t \in Types
    BY <1>1, TopOK DEF Frame
  <1>3. v \in Instances
    BY <1>2, ResultFacts DEF Remember, IInv, TypeOK
  <1> HIDE DEF t, v
  <1>4. StackInv' /\ stack' \in [Goroutines -> Seq(Frame)]
    BY <1>1, ReturnKeeps
  <1>5. ret' \in [Goroutines -> Results]
    BY <1>1, <1>3, ResultFacts DEF Return, IInv, TypeOK
  <1>6. answers' \subseteq (ScopeSet \cup {None}) \X Types \X Instances
    BY <1>1, <1>2, <1>3 DEF Answer, IInv, TypeOK
  <1>7. cache' \in [Types -> Instances \cup {None}]
    BY <1>1, <1>2, <1>3 DEF IInv, TypeOK
  <1>8. TypeOK'
    BY <1>4, <1>5, <1>6, <1>7 DEF Remember, IInv, TypeOK, bagVars, endVars
  <1> QED BY <1>4, <1>8 DEF IInv

LEMMA ThroughKeeps ==
    ASSUME IInv, NEW g \in Goroutines, Through(g)
    PROVE  IInv'
  <1> DEFINE f == Top(g)
  <1>1. stack[g] # <<>> /\ Top(g).at = "through" /\ holder' = holder /\ entry' = entry
    BY DEF Through, In, bagVars
  <1>2. /\ FrameOK(f) /\ f \in Frame /\ f.scope \in ScopeSet /\ f.typ \in Types
        /\ f.path \in SUBSET Types
    BY <1>1, TopOK DEF Frame, FrameOK
  <1>3. CASE Push(g, f, ResolveCall(f.scope, f.typ, f.path)) /\ UNCHANGED ret
    <2>1. /\ FrameOK(ResolveCall(f.scope, f.typ, f.path))
          /\ ResolveCall(f.scope, f.typ, f.path).at = "resolve"
          /\ ResolveCall(f.scope, f.typ, f.path).path = f.path
      BY <1>2, CallFacts
    <2>2. StackInv' /\ stack' \in [Goroutines -> Seq(Frame)]
      <3> DEFINE c == ResolveCall(f.scope, f.typ, f.path)
      <3> HIDE DEF c
      <3>1. FrameOK(c) /\ c.at = "resolve" /\ c.path = f.path /\ Push(g, f, c)
        BY <1>3, <2>1 DEF c
      <3> QED BY <1>1, <1>2, <3>1, PushKeeps
    <2>3. TypeOK'
      BY <1>3, <2>2 DEF Through, IInv, TypeOK, stageVars, bagVars, endVars
    <2> QED BY <2>2, <2>3 DEF IInv
  <1>4. CASE Return(g, ret[g])
    <2>1. StackInv' /\ stack' \in [Goroutines -> Seq(Frame)]
      BY <1>1, <1>4, ReturnKeeps
    <2>2. TypeOK'
      BY <1>4, <2>1 DEF Through, Return, IInv, TypeOK, stageVars, bagVars, endVars
    <2> QED BY <2>1, <2>2 DEF IInv
  <1>5. CASE Become(g, StageCall(f.typ, f.path)) /\ ret' = [ret EXCEPT ![g] = Running]
    <2> DEFINE c == StageCall(f.typ, f.path)
    <2>1. FrameOK(c) /\ c.at = "cached" /\ c.path = f.path /\ Become(g, c)
      BY <1>2, <1>5, StageCallFacts
    <2> HIDE DEF c
    <2>2. StackInv' /\ stack' \in [Goroutines -> Seq(Frame)]
      BY <1>1, <2>1, BecomeKeeps
    <2>3. TypeOK'
      BY <1>5, <2>2, ResultFacts DEF Through, IInv, TypeOK, stageVars, bagVars, endVars
    <2> QED BY <2>2, <2>3 DEF IInv
  <1> QED BY <1>3, <1>4, <1>5 DEF Through

LEMMA ResolveKeeps ==
    ASSUME IInv, NEW g \in Goroutines, Resolve(g)
    PROVE  IInv'
  <1> DEFINE f == Top(g)
             s == f.scope
             t == f.typ
  <1>1. stack[g] # <<>> /\ Top(g).at = "resolve" /\ holder' = holder /\ entry' = entry
    BY DEF Resolve, In, bagVars
  <1>2. /\ FrameOK(f) /\ f \in Frame /\ s \in ScopeSet /\ t \in Types
        /\ f.path \in SUBSET Types
    BY <1>1, TopOK DEF Frame, FrameOK, BagAt
  <1>3. ASSUME NEW r \in Results, Return(g, r)
        PROVE  IInv'
    <2>1. StackInv' /\ stack' \in [Goroutines -> Seq(Frame)]
      BY <1>1, <1>3, ReturnKeeps
    <2>2. TypeOK'
      BY <1>3, <2>1 DEF Resolve, Return, IInv, TypeOK, stageVars, bagVars, endVars
    <2> QED BY <2>1, <2>2 DEF IInv
  <1>4. ASSUME NEW c, FrameOK(c), c.at # "build", f.path \subseteq c.path,
               Become(g, c), UNCHANGED ret
        PROVE  IInv'
    <2>1. StackInv' /\ stack' \in [Goroutines -> Seq(Frame)]
      BY <1>1, <1>4, BecomeKeeps
    <2>2. TypeOK'
      BY <1>4, <2>1 DEF Resolve, IInv, TypeOK, stageVars, bagVars, endVars
    <2> QED BY <2>1, <2>2 DEF IInv
  <1>5. CASE t \notin DOMAIN Regs[s] /\ Return(g, Absent)
    BY <1>3, <1>5, ResultFacts
  <1>6. CASE t \in f.path /\ Return(g, Panic)
    BY <1>3, <1>6, ResultFacts
  <1>7. CASE /\ t \in DOMAIN Regs[s] \ f.path
             /\ Reg(s, t).kind = "alias"
             /\ Become(g, ThroughCall(s, Reg(s, t).target, f.path \cup {t}))
             /\ UNCHANGED ret
    <2> DEFINE c == ThroughCall(s, Reg(s, t).target, f.path \cup {t})
    <2>1. Reg(s, t).target \in Types /\ f.path \cup {t} \in SUBSET Types
      BY <1>2, <1>7, RegsAssumption DEF Reg
    <2>2. FrameOK(c) /\ c.at = "through" /\ c.path = f.path \cup {t}
      BY <1>2, <2>1, CallFacts
    <2>3. f.path \subseteq c.path /\ Become(g, c)
      BY <1>7, <2>2
    <2> HIDE DEF c
    <2> QED BY <1>4, <1>7, <2>2, <2>3
  <1>8. CASE Return(g, Value([scope |-> s, typ |-> t, run |-> 0]))
    <2>1. [scope |-> s, typ |-> t, run |-> 0] \in Instances
      BY <1>2 DEF Instances
    <2> QED BY <1>3, <1>8, <2>1, ResultFacts
  <1>9. CASE /\ t \in DOMAIN Regs[s] \ f.path
             /\ Goto(g, "entry")
             /\ UNCHANGED ret
    <2> DEFINE c == [f EXCEPT !.at = "entry"]
    <2>1. FrameOK(c) /\ c.at = "entry" /\ c.path = f.path
      BY <1>1, <1>2, <1>9 DEF FrameOK, Frame, BagAt, StageAt
    <2>2. Become(g, c)
      BY <1>9 DEF Goto
    <2> HIDE DEF c
    <2> QED BY <1>4, <1>9, <2>1, <2>2
  <1> QED BY <1>5, <1>6, <1>7, <1>8, <1>9 DEF Resolve

LEMMA EntryForKeeps ==
    ASSUME IInv, NEW g \in Goroutines, EntryFor(g)
    PROVE  IInv'
  <1>1. stack[g] # <<>> /\ Top(g).at = "entry" /\ holder' = holder /\ entry' = entry
    BY DEF EntryFor, In, bagVars
  <1>2. FrameOK(Top(g)) /\ Top(g) \in Frame
    BY <1>1, TopOK
  <1>3. CASE Return(g, Panic)
    <2>1. StackInv' /\ stack' \in [Goroutines -> Seq(Frame)]
      BY <1>1, <1>3, ReturnKeeps
    <2>2. TypeOK'
      BY <1>3, <2>1, ResultFacts
      DEF EntryFor, Return, IInv, TypeOK, stageVars, bagVars, endVars
    <2> QED BY <2>1, <2>2 DEF IInv
  <1>4. CASE Goto(g, "lock") /\ UNCHANGED ret
    <2> DEFINE c == [Top(g) EXCEPT !.at = "lock"]
    <2>1. FrameOK(c) /\ c.at = "lock" /\ c.path = Top(g).path
      BY <1>1, <1>2 DEF FrameOK, Frame, BagAt, StageAt
    <2>2. Become(g, c)
      BY <1>4 DEF Goto
    <2> HIDE DEF c
    <2>3. StackInv' /\ stack' \in [Goroutines -> Seq(Frame)]
      BY <1>1, <2>1, <2>2, BecomeKeeps
    <2>4. TypeOK'
      BY <1>4, <2>3 DEF EntryFor, IInv, TypeOK, stageVars, bagVars, endVars
    <2> QED BY <2>3, <2>4 DEF IInv
  <1> QED BY <1>3, <1>4 DEF EntryFor

LEMMA LockBuiltKeeps ==
    ASSUME IInv, NEW g \in Goroutines, LockBuilt(g)
    PROVE  IInv'
  <1> DEFINE s == Top(g).scope
             t == Top(g).typ
  <1>1. /\ stack[g] # <<>> /\ Top(g).at = "lock" /\ holder' = holder /\ entry' = entry
        /\ entry[s][t] # None /\ Return(g, Value(entry[s][t]))
        /\ Answer(s, t, entry[s][t])
    BY DEF LockBuilt, In, bagVars
  <1>2. s \in ScopeSet /\ t \in Types
    BY <1>1, TopOK DEF FrameOK, Frame, BagAt
  <1>3. entry[s][t] \in Instances
    BY <1>1, <1>2 DEF IInv, TypeOK
  <1>4. StackInv' /\ stack' \in [Goroutines -> Seq(Frame)]
    BY <1>1, ReturnKeeps
  <1>5. ret' \in [Goroutines -> Results]
    BY <1>1, <1>3, ResultFacts DEF Return, IInv, TypeOK
  <1>6. answers' \subseteq (ScopeSet \cup {None}) \X Types \X Instances
    BY <1>1, <1>2, <1>3 DEF Answer, IInv, TypeOK
  <1>7. TypeOK'
    BY <1>4, <1>5, <1>6 DEF LockBuilt, IInv, TypeOK, stageVars, bagVars, endVars
  <1> QED BY <1>4, <1>7 DEF IInv

LEMMA FactoryAsksKeeps ==
    ASSUME IInv, NEW g \in Goroutines, FactoryAsks(g)
    PROVE  IInv'
  <1>1. stack[g] # <<>> /\ Top(g).at = "build" /\ holder' = holder /\ entry' = entry
    BY DEF FactoryAsks, In, bagVars
  <1>2. /\ FrameOK(Top(g)) /\ Top(g) \in Frame /\ Top(g).scope \in ScopeSet
        /\ Top(g).typ \in Types /\ Top(g).path \in SUBSET Types
        /\ Top(g).todo \in SUBSET Types
    BY <1>1, TopOK DEF FrameOK, Frame, BagAt
  <1>3. PICK d \in Top(g).todo :
            Push(g, [Top(g) EXCEPT !.todo = @ \ {d}],
                 ThroughCall(Top(g).scope, d, Top(g).path \cup {Top(g).typ}))
    BY DEF FactoryAsks
  <1> DEFINE f == [Top(g) EXCEPT !.todo = @ \ {d}]
             c == ThroughCall(Top(g).scope, d, Top(g).path \cup {Top(g).typ})
  <1>4. /\ FrameOK(f) /\ f.at = Top(g).at /\ f.scope = Top(g).scope
        /\ f.typ = Top(g).typ /\ f.path = Top(g).path
    BY <1>1, <1>2 DEF FrameOK, Frame, BagAt, StageAt
  <1>5. FrameOK(c) /\ c.at = "through" /\ c.path = Top(g).path \cup {Top(g).typ}
    BY <1>2, CallFacts
  <1>6. Push(g, f, c)
    BY <1>3
  <1> HIDE DEF f, c
  <1>7. StackInv' /\ stack' \in [Goroutines -> Seq(Frame)]
    BY <1>1, <1>4, <1>5, <1>6, PushKeeps
  <1>8. TypeOK'
    BY <1>7 DEF FactoryAsks, IInv, TypeOK, stageVars, bagVars, endVars
  <1> QED BY <1>7, <1>8 DEF IInv

\* Steps that leave stacks, locks and entries alone.
LEMMA StackInvFrame ==
    ASSUME StackInv, UNCHANGED <<stack, holder, entry>>
    PROVE  StackInv'
  BY DEF StackInv, FramesOK, PathsOK, BuildersHold, HoldersBuild, Builds, FrameOK

LEMMA FactoryGetsKeeps ==
    ASSUME IInv, NEW g \in Goroutines, FactoryGets(g) \/ FactoryPanics(g)
    PROVE  IInv'
  <1>1. StackInv'
    BY StackInvFrame DEF IInv, FactoryGets, FactoryPanics, bagVars
  <1>2. TypeOK'
    BY ResultFacts
    DEF FactoryGets, FactoryPanics, IInv, TypeOK, stageVars, bagVars, endVars
  <1> QED BY <1>1, <1>2 DEF IInv

\* A goroutine builds an entry in one call at most: the check that let the
\* second one pass would have found the type in its path.
LEMMA OneCallPerEntry ==
    ASSUME StackInv, NEW g \in Goroutines,
           NEW i \in 1..Len(stack[g]), NEW j \in 1..Len(stack[g]),
           stack[g][i].at = "build", stack[g][j].at \in {"lock", "build"},
           stack[g][i].typ = stack[g][j].typ
    PROVE  ~ (i < j)
  <1> SUFFICES ASSUME i < j PROVE FALSE
    OBVIOUS
  <1>1. stack[g][i].typ \in stack[g][j].path
    BY DEF StackInv, PathsOK
  <1>2. stack[g][j].typ \notin stack[g][j].path
    BY DEF StackInv, FramesOK, FrameOK
  <1> QED BY <1>1, <1>2

LEMMA LockAndBuildKeeps ==
    ASSUME IInv, NEW g \in Goroutines, LockAndBuild(g)
    PROVE  IInv'
  <1> DEFINE n == Len(stack[g])
             s == Top(g).scope
             t == Top(g).typ
             f == [Top(g) EXCEPT !.at = "build", !.todo = Reg(s, t).needs]
  <1>1. /\ stack[g] # <<>> /\ Top(g).at = "lock"
        /\ holder[s][t] = None /\ entry[s][t] = None
        /\ holder' = [holder EXCEPT ![s][t] = g]
        /\ runs' = [runs EXCEPT ![s][t] = @ + 1]
        /\ Become(g, f) /\ entry' = entry
    BY DEF LockAndBuild, In
  <1>2. /\ FrameOK(Top(g)) /\ Top(g) \in Frame /\ s \in ScopeSet /\ t \in Types
        /\ t \in DOMAIN Regs[s]
    BY <1>1, TopOK DEF FrameOK, Frame, BagAt
  <1>3. Reg(s, t).needs \in SUBSET Types
    BY <1>2, RegsAssumption DEF Reg, Registration
  <1>4. /\ FrameOK(f) /\ f \in Frame /\ f.at = "build" /\ f.scope = s
        /\ f.typ = t /\ f.path = Top(g).path
    BY <1>1, <1>2, <1>3 DEF FrameOK, Frame, BagAt, StageAt
  <1> HIDE DEF f
  <1>5. /\ stack \in [Goroutines -> Seq(Frame)]
        /\ holder \in [ScopeSet -> [Types -> Goroutines \cup {None}]]
        /\ entry \in [ScopeSet -> [Types -> Instances \cup {None}]]
        /\ runs \in [ScopeSet -> [Types -> Nat]]
    BY DEF IInv, TypeOK
  <1>6. /\ stack' \in [Goroutines -> Seq(Frame)]
        /\ n \in Nat \ {0}
        /\ Len(stack'[g]) = n
        /\ stack'[g][n] = f
        /\ \A i \in 1..(n - 1) : stack'[g][i] = stack[g][i]
        /\ \A h \in Goroutines \ {g} : stack'[h] = stack[h]
    BY <1>1, <1>4, <1>5, BecomeStack
  <1>7. n \in 1..n /\ stack[g][n] = Top(g)
    BY <1>6 DEF Top
  <1>8. /\ holder'[s][t] = g
        /\ \A u \in ScopeSet, x \in Types :
              ~ (u = s /\ x = t) => holder'[u][x] = holder[u][x]
        /\ holder' \in [ScopeSet -> [Types -> Goroutines \cup {None}]]
    BY <1>1, <1>2, <1>5
  <1> HIDE DEF n, s, t
  <1>n. n = Len(stack[g])
    BY DEF n
  <1>t. Top(g).scope = s /\ Top(g).typ = t
    BY DEF s, t
  <1>9. FramesOK'
    <2> SUFFICES ASSUME NEW h \in Goroutines, NEW i \in 1..Len(stack'[h])
                 PROVE  FrameOK(stack'[h][i])
      BY DEF FramesOK, FrameOK
    <2>1. CASE h = g /\ i = n
      BY <1>4, <1>6, <2>1
    <2>2. CASE ~ (h = g /\ i = n)
      BY <1>6, <1>n, <2>2 DEF IInv, StackInv, FramesOK
    <2> QED BY <2>1, <2>2
  <1>10. PathsOK'
    <2> SUFFICES ASSUME NEW h \in Goroutines,
                        NEW i \in 1..Len(stack'[h]), NEW j \in 1..Len(stack'[h]),
                        i < j, stack'[h][i].at = "build"
                 PROVE  stack'[h][i].typ \in stack'[h][j].path
      BY DEF PathsOK
    <2>1. CASE h # g
      BY <1>6, <2>1 DEF IInv, StackInv, PathsOK
    <2>2. CASE h = g /\ j # n
      BY <1>6, <1>n, <2>2 DEF IInv, StackInv, PathsOK
    <2>3. CASE h = g /\ j = n
      <3>1. i \in 1..(n - 1) /\ stack'[g][i] = stack[g][i]
        BY <1>6, <2>3
      <3>2. stack[g][i].typ \in stack[g][n].path
        BY <1>6, <1>7, <1>n, <2>3, <3>1 DEF IInv, StackInv, PathsOK
      <3> QED BY <1>4, <1>6, <1>7, <2>3, <3>1, <3>2
    <2> QED BY <2>1, <2>2, <2>3
  <1>11. BuildersHold'
    <2> SUFFICES ASSUME NEW h \in Goroutines, NEW i \in 1..Len(stack'[h]),
                        stack'[h][i].at = "build"
                 PROVE  /\ holder'[stack'[h][i].scope][stack'[h][i].typ] = h
                        /\ entry[stack'[h][i].scope][stack'[h][i].typ] = None
      BY <1>1 DEF BuildersHold
    <2>1. CASE h = g /\ i = n
      BY <1>1, <1>4, <1>6, <1>8, <2>1 DEF s, t
    <2>2. CASE ~ (h = g /\ i = n)
      <3>1. i \in 1..Len(stack[h]) /\ stack'[h][i] = stack[h][i]
        BY <1>6, <1>n, <2>2
      <3>2. /\ holder[stack[h][i].scope][stack[h][i].typ] = h
            /\ entry[stack[h][i].scope][stack[h][i].typ] = None
        BY <3>1 DEF IInv, StackInv, BuildersHold
      <3>3. stack[h][i].scope \in ScopeSet /\ stack[h][i].typ \in Types
        BY <3>1 DEF IInv, StackInv, FramesOK, FrameOK, Frame, BagAt
      <3>4. ~ (stack[h][i].scope = s /\ stack[h][i].typ = t)
        BY <1>1, <3>2, NoneAssumption DEF s, t
      <3> QED BY <1>8, <3>1, <3>2, <3>3, <3>4
    <2> QED BY <2>1, <2>2
  <1>12. HoldersBuild'
    <2> SUFFICES ASSUME NEW h \in Goroutines, NEW u \in ScopeSet, NEW x \in Types,
                        holder'[u][x] = h
                 PROVE  \E i \in 1..Len(stack'[h]) :
                            /\ stack'[h][i].at = "build"
                            /\ stack'[h][i].scope = u
                            /\ stack'[h][i].typ = x
      BY DEF HoldersBuild, Builds
    <2>1. CASE u = s /\ x = t
      <3>1. h = g
        BY <1>8, <2>1
      <3> QED BY <1>4, <1>6, <1>7, <2>1, <3>1
    <2>2. CASE ~ (u = s /\ x = t)
      <3>1. holder[u][x] = h
        BY <1>8, <2>2
      <3>2. PICK i \in 1..Len(stack[h]) : Builds(h, i, u, x)
        BY <3>1 DEF IInv, StackInv, HoldersBuild
      <3>3. i \in 1..Len(stack'[h]) /\ stack'[h][i] = stack[h][i]
        BY <1>1, <1>6, <1>7, <1>n, <3>2 DEF Builds
      <3> QED BY <3>2, <3>3 DEF Builds
    <2> QED BY <2>1, <2>2
  <1>13. runs' \in [ScopeSet -> [Types -> Nat]]
    BY <1>1, <1>2, <1>5, <1>t
  <1>14. TypeOK'
    BY <1>6, <1>8, <1>13 DEF LockAndBuild, IInv, TypeOK, stageVars, endVars
  <1> QED BY <1>9, <1>10, <1>11, <1>12, <1>14 DEF IInv, StackInv

\* What leaving a factory does to the invariant, by return or by panic: the
\* lock goes free with the call that held it.
LEMMA LeaveFactoryKeeps ==
    ASSUME IInv, NEW g \in Goroutines, stack[g] # <<>>, Top(g).at = "build",
           NEW r, Return(g, r),
           holder' = [holder EXCEPT ![Top(g).scope][Top(g).typ] = None],
           \A u \in ScopeSet, x \in Types :
               ~ (u = Top(g).scope /\ x = Top(g).typ) => entry'[u][x] = entry[u][x]
    PROVE  /\ StackInv' /\ stack' \in [Goroutines -> Seq(Frame)]
           /\ holder' \in [ScopeSet -> [Types -> Goroutines \cup {None}]]
  <1> DEFINE n == Len(stack[g])
             s == Top(g).scope
             t == Top(g).typ
  <1>1. /\ stack \in [Goroutines -> Seq(Frame)]
        /\ holder \in [ScopeSet -> [Types -> Goroutines \cup {None}]]
    BY DEF IInv, TypeOK
  <1>2. /\ stack' \in [Goroutines -> Seq(Frame)]
        /\ n \in Nat \ {0}
        /\ Len(stack'[g]) = n - 1
        /\ \A i \in 1..(n - 1) : stack'[g][i] = stack[g][i]
        /\ \A h \in Goroutines \ {g} : stack'[h] = stack[h]
    BY <1>1, ReturnStack
  <1>3. n \in 1..n /\ stack[g][n] = Top(g)
    BY <1>2 DEF Top
  <1>4. s \in ScopeSet /\ t \in Types
    BY TopOK DEF FrameOK, Frame, BagAt
  <1>5. /\ holder'[s][t] = None
        /\ \A u \in ScopeSet, x \in Types :
              ~ (u = s /\ x = t) => holder'[u][x] = holder[u][x]
        /\ holder' \in [ScopeSet -> [Types -> Goroutines \cup {None}]]
    BY <1>1, <1>4
  <1>6. holder[s][t] = g
    BY <1>3 DEF IInv, StackInv, BuildersHold
  <1> HIDE DEF n, s, t
  <1>n. n = Len(stack[g])
    BY DEF n
  <1>t. Top(g).scope = s /\ Top(g).typ = t
    BY DEF s, t
  <1>p. \A h \in Goroutines : \A i \in 1..Len(stack'[h]) :
            i \in 1..Len(stack[h]) /\ stack'[h][i] = stack[h][i] /\ (h = g => i < n)
    BY <1>2, <1>n
  <1>7. FramesOK'
    BY <1>p DEF IInv, StackInv, FramesOK, FrameOK
  <1>8. PathsOK'
    BY <1>p DEF IInv, StackInv, PathsOK
  <1>9. BuildersHold'
    <2> SUFFICES ASSUME NEW h \in Goroutines, NEW i \in 1..Len(stack'[h]),
                        stack'[h][i].at = "build"
                 PROVE  /\ holder'[stack'[h][i].scope][stack'[h][i].typ] = h
                        /\ entry'[stack'[h][i].scope][stack'[h][i].typ] = None
      BY DEF BuildersHold
    <2>1. i \in 1..Len(stack[h]) /\ stack'[h][i] = stack[h][i] /\ (h = g => i < n)
      BY <1>p
    <2>2. /\ holder[stack[h][i].scope][stack[h][i].typ] = h
          /\ entry[stack[h][i].scope][stack[h][i].typ] = None
      BY <2>1 DEF IInv, StackInv, BuildersHold
    <2>3. stack[h][i].scope \in ScopeSet /\ stack[h][i].typ \in Types
      BY <2>1 DEF IInv, StackInv, FramesOK, FrameOK, Frame, BagAt
    <2>4. ~ (stack[h][i].scope = s /\ stack[h][i].typ = t)
      <3> SUFFICES ASSUME stack[h][i].scope = s, stack[h][i].typ = t PROVE FALSE
        OBVIOUS
      <3>1. h = g /\ i < n
        BY <1>6, <2>1, <2>2
      <3>2. stack[g][n].at = "build" /\ stack[g][n].typ = t /\ n \in 1..Len(stack[g])
        BY <1>3, <1>n, <1>t
      <3> QED BY <2>1, <3>1, <3>2, OneCallPerEntry DEF IInv
    <2> QED BY <1>5, <1>t, <2>1, <2>2, <2>3, <2>4
  <1>10. HoldersBuild'
    <2> SUFFICES ASSUME NEW h \in Goroutines, NEW u \in ScopeSet, NEW x \in Types,
                        holder'[u][x] = h
                 PROVE  \E i \in 1..Len(stack'[h]) :
                            /\ stack'[h][i].at = "build"
                            /\ stack'[h][i].scope = u
                            /\ stack'[h][i].typ = x
      BY DEF HoldersBuild, Builds
    <2>1. ~ (u = s /\ x = t) /\ holder[u][x] = h
      BY <1>5, NoneAssumption
    <2>2. PICK i \in 1..Len(stack[h]) : Builds(h, i, u, x)
      BY <2>1 DEF IInv, StackInv, HoldersBuild
    <2>3. ~ (h = g /\ i = n)
      BY <1>3, <1>t, <2>1, <2>2 DEF Builds
    <2>4. i \in 1..Len(stack'[h]) /\ stack'[h][i] = stack[h][i]
      BY <1>2, <1>3, <1>n, <2>3
    <2> QED BY <2>2, <2>4 DEF Builds
  <1> QED BY <1>2, <1>5, <1>7, <1>8, <1>9, <1>10 DEF StackInv

LEMMA FactoryReturnsKeeps ==
    ASSUME IInv, NEW g \in Goroutines, FactoryReturns(g)
    PROVE  IInv'
  <1> DEFINE s == Top(g).scope
             t == Top(g).typ
             v == [scope |-> s, typ |-> t, run |-> runs[s][t]]
  <1>1. /\ stack[g] # <<>> /\ Top(g).at = "build"
        /\ entry' = [entry EXCEPT ![s][t] = v]
        /\ closers' = IF Reg(s, t).closer
                      THEN [closers EXCEPT ![s] = Append(@, v)]
                      ELSE closers
        /\ holder' = [holder EXCEPT ![s][t] = None]
        /\ Return(g, Value(v))
        /\ Answer(s, t, v)
    BY DEF FactoryReturns, In
  <1>2. s \in ScopeSet /\ t \in Types
    BY <1>1, TopOK DEF FrameOK, Frame, BagAt
  <1>3. v \in Instances
    BY <1>2 DEF Instances, IInv, TypeOK
  <1>4. /\ entry' \in [ScopeSet -> [Types -> Instances \cup {None}]]
        /\ \A u \in ScopeSet, x \in Types : ~ (u = s /\ x = t) => entry'[u][x] = entry[u][x]
    <2> HIDE DEF v
    <2> QED BY <1>1, <1>2, <1>3 DEF IInv, TypeOK
  <1>5. closers' \in [ScopeSet -> Seq(Instances)]
    <2> HIDE DEF v
    <2>1. closers[s] \in Seq(Instances) /\ Append(closers[s], v) \in Seq(Instances)
      BY <1>2, <1>3 DEF IInv, TypeOK
    <2> QED BY <1>1, <1>2, <2>1 DEF IInv, TypeOK
  <1> HIDE DEF v
  <1>6. /\ StackInv' /\ stack' \in [Goroutines -> Seq(Frame)]
        /\ holder' \in [ScopeSet -> [Types -> Goroutines \cup {None}]]
    BY <1>1, <1>4, LeaveFactoryKeeps
  <1>7. ret' \in [Goroutines -> Results]
    BY <1>1, <1>3, ResultFacts DEF Return, IInv, TypeOK
  <1>8. answers' \subseteq (ScopeSet \cup {None}) \X Types \X Instances
    BY <1>1, <1>2, <1>3 DEF Answer, IInv, TypeOK
  <1>9. TypeOK'
    BY <1>4, <1>5, <1>6, <1>7, <1>8 DEF FactoryReturns, IInv, TypeOK, stageVars, endVars
  <1> QED BY <1>6, <1>9 DEF IInv

LEMMA UnwindKeeps ==
    ASSUME IInv, NEW g \in Goroutines, Unwind(g)
    PROVE  IInv'
  <1>1. stack[g] # <<>> /\ Return(g, Panic) /\ entry' = entry
    BY DEF Unwind
  <1>2. /\ StackInv' /\ stack' \in [Goroutines -> Seq(Frame)]
        /\ holder' \in [ScopeSet -> [Types -> Goroutines \cup {None}]]
    <2>1. CASE Top(g).at = "build"
      BY <1>1, <2>1, LeaveFactoryKeeps DEF Unwind
    <2>2. CASE Top(g).at # "build"
      <3>1. holder' = holder
        BY <2>2 DEF Unwind
      <3> QED BY <1>1, <2>2, <3>1, ReturnKeeps DEF IInv, TypeOK
    <2> QED BY <2>1, <2>2
  <1>3. TypeOK'
    BY <1>1, <1>2, ResultFacts DEF Unwind, Return, IInv, TypeOK, stageVars, endVars
  <1> QED BY <1>2, <1>3 DEF IInv

LEMMA CloseKeeps ==
    ASSUME IInv, Close
    PROVE  IInv'
  <1>1. StackInv'
    BY StackInvFrame
    DEF IInv, Close, CloseStage, CloseScope, CloseInstance, goVars, bagVars
  <1>2. CASE CloseStage
    BY <1>1, <1>2 DEF CloseStage, IInv, TypeOK, goVars, bagVars
  <1>3. CASE CloseScope
    <2> DEFINE s == toClose[Len(toClose)]
    <2>1. toClose \in Seq(ScopeSet) /\ toClose # <<>>
      BY <1>3 DEF CloseScope, IInv, TypeOK
    <2>2. s \in ScopeSet
      BY <2>1
    <2>3. SubSeq(toClose, 1, Len(toClose) - 1) \in Seq(ScopeSet)
      BY <2>1, FrontFacts
    <2>4. /\ batch' = closers[s] /\ closers' = [closers EXCEPT ![s] = <<>>]
          /\ shut' = [shut EXCEPT ![s] = TRUE]
          /\ toClose' = SubSeq(toClose, 1, Len(toClose) - 1)
      BY <1>3 DEF CloseScope
    <2> HIDE DEF s
    <2>5. /\ batch' \in Seq(Instances) /\ closers' \in [ScopeSet -> Seq(Instances)]
          /\ shut' \in [ScopeSet -> BOOLEAN] /\ toClose' \in Seq(ScopeSet)
      BY <2>2, <2>3, <2>4 DEF IInv, TypeOK
    <2> QED BY <1>1, <1>3, <2>5 DEF CloseScope, IInv, TypeOK, goVars, stageVars
  <1>4. CASE CloseInstance
    <2>1. batch \in Seq(Instances) /\ batch # <<>> /\ released \in Seq(Instances)
      BY <1>4 DEF CloseInstance, IInv, TypeOK
    <2>2. batch[Len(batch)] \in Instances
      BY <2>1
    <2>3. SubSeq(batch, 1, Len(batch) - 1) \in Seq(Instances)
      BY <2>1, FrontFacts
    <2>4. Append(released, batch[Len(batch)]) \in Seq(Instances)
      BY <2>1, <2>2
    <2> QED BY <1>1, <1>4, <2>3, <2>4
            DEF CloseInstance, IInv, TypeOK, goVars, stageVars, bagVars
  <1> QED BY <1>2, <1>3, <1>4 DEF Close

-----------------------------------------------------------------------------
(* The invariant, and what follows from it.                                *)

LEMMA InitInv == Init => IInv
  <1> SUFFICES ASSUME Init PROVE IInv
    OBVIOUS
  <1>1. Scopes \in Seq(ScopeSet)
    BY RegsAssumption
  <1>2. TypeOK
    <2>1. /\ stack \in [Goroutines -> Seq(Frame)]
          /\ ret \in [Goroutines -> Results]
          /\ asks \in [Goroutines -> Nat]
      BY ResultFacts DEF Init
    <2>2. /\ cache \in [Types -> Instances \cup {None}]
          /\ scopes \in Seq(ScopeSet)
          /\ closed \in BOOLEAN
      BY <1>1 DEF Init
    <2>3. /\ holder \in [ScopeSet -> [Types -> Goroutines \cup {None}]]
          /\ entry \in [ScopeSet -> [Types -> Instances \cup {None}]]
          /\ runs \in [ScopeSet -> [Types -> Nat]]
      BY DEF Init
    <2>4. /\ closers \in [ScopeSet -> Seq(Instances)]
          /\ shut \in [ScopeSet -> BOOLEAN]
          /\ toClose \in Seq(ScopeSet)
          /\ batch \in Seq(Instances)
          /\ released \in Seq(Instances)
          /\ answers \subseteq (ScopeSet \cup {None}) \X Types \X Instances
      BY DEF Init
    <2> QED BY <2>1, <2>2, <2>3, <2>4 DEF TypeOK
  <1>3. \A g \in Goroutines : 1..Len(stack[g]) = {}
    BY DEF Init
  <1>4. FramesOK /\ PathsOK /\ BuildersHold
    BY <1>3 DEF FramesOK, PathsOK, BuildersHold
  <1>5. HoldersBuild
    BY NoneAssumption DEF Init, HoldersBuild
  <1> QED BY <1>2, <1>4, <1>5 DEF IInv, StackInv

LEMMA StutterKeeps ==
    ASSUME IInv, UNCHANGED vars
    PROVE  IInv'
  <1>1. StackInv'
    BY StackInvFrame DEF IInv, vars
  <1> QED BY <1>1 DEF IInv, TypeOK, vars

LEMMA NextKeeps == IInv /\ [Next]_vars => IInv'
  <1> SUFFICES ASSUME IInv, [Next]_vars PROVE IInv'
    OBVIOUS
  <1>1. ASSUME NEW g \in Goroutines, Advance(g)
        PROVE  IInv'
    BY <1>1, CachedKeeps, SnapshotKeeps, ScanKeeps, RememberKeeps, ThroughKeeps,
       ResolveKeeps, EntryForKeeps, LockBuiltKeeps, LockAndBuildKeeps,
       FactoryAsksKeeps, FactoryGetsKeeps, FactoryReturnsKeeps, UnwindKeeps
    DEF Advance
  <1>2. ASSUME NEW g \in Goroutines, NEW t \in Types, Ask(g, t)
        PROVE  IInv'
    BY <1>2, AskKeeps
  <1>3. CASE Close
    BY <1>3, CloseKeeps
  <1>4. CASE Finished \/ UNCHANGED vars
    BY <1>4, StutterKeeps DEF Finished
  <1> QED BY <1>1, <1>2, <1>3, <1>4 DEF Next

\* The inductive invariant holds of every behaviour of the stage and its bags.
THEOREM Invariance == Spec => []IInv
  <1> QED BY InitInv, NextKeeps, PTL DEF Spec

\* Type correctness of the model of TryResolveTypePath, resolve and Close.
THEOREM Typing == Spec => []TypeOK
  <1>1. IInv => TypeOK
    BY DEF IInv
  <1> QED BY <1>1, Invariance, PTL

LEMMA InvSingleFlight == IInv => SingleFlight
  <1> SUFFICES ASSUME IInv,
                      NEW s \in ScopeSet, NEW t \in Types,
                      NEW g \in Goroutines, NEW h \in Goroutines,
                      NEW i \in 1..Len(stack[g]), NEW j \in 1..Len(stack[h]),
                      Builds(g, i, s, t)
               PROVE  /\ entry[s][t] = None
                      /\ Builds(h, j, s, t) => g = h /\ i = j
    BY DEF SingleFlight
  <1>1. holder[s][t] = g /\ entry[s][t] = None
    BY DEF IInv, StackInv, BuildersHold, Builds
  <1>2. ASSUME Builds(h, j, s, t) PROVE g = h /\ i = j
    <2>1. holder[s][t] = h
      BY <1>2 DEF IInv, StackInv, BuildersHold, Builds
    <2>2. g = h
      BY <1>1, <2>1
    <2>3. ~ (i < j) /\ ~ (j < i)
      BY <1>2, <2>2, OneCallPerEntry DEF IInv, Builds
    <2>4. i \in Nat /\ j \in Nat
      BY DEF IInv, TypeOK
    <2> QED BY <2>2, <2>3, <2>4
  <1> QED BY <1>1, <1>2

\* However many goroutines resolve, whatever the graph and wherever factories
\* panic: no entry is under construction twice, or while it has a value.
THEOREM SingleFlightHolds == Spec => []SingleFlight
  BY Invariance, InvSingleFlight, PTL

LEMMA InvNeverWaits == IInv => NeverWaitsForItself
  <1> SUFFICES ASSUME IInv, NEW g \in Goroutines, In(g, "lock"),
                      holder[Top(g).scope][Top(g).typ] = g
               PROVE  FALSE
    BY DEF NeverWaitsForItself
  <1> DEFINE n == Len(stack[g])
  <1>1. /\ n \in 1..n /\ Top(g) = stack[g][n] /\ n \in Nat
        /\ Top(g).at = "lock"
    BY TopIsFrame DEF In, IInv, TypeOK
  <1>2. Top(g).scope \in ScopeSet /\ Top(g).typ \in Types
    BY <1>1, TopOK DEF In, FrameOK, Frame, BagAt
  <1>3. PICK i \in 1..n : Builds(g, i, Top(g).scope, Top(g).typ)
    BY <1>2 DEF IInv, StackInv, HoldersBuild
  <1>4. i < n
    <2>1. i # n
      BY <1>1, <1>3 DEF Builds
    <2> QED BY <1>1, <2>1
  <1> QED BY <1>1, <1>3, <1>4, OneCallPerEntry DEF IInv, Builds

\* No goroutine ever waits for a lock that it holds itself, on any composition:
\* what bag.go:168-170 claims of the construction path.
THEOREM NeverWaitsForItselfHolds == Spec => []NeverWaitsForItself
  BY Invariance, InvNeverWaits, PTL

LEMMA InvLocksHeld == IInv => LocksHeldByFactories
  BY DEF IInv, StackInv, BuildersHold, HoldersBuild, LocksHeldByFactories, Builds

\* A lock is held exactly as long as its factory runs: no panic leaves one held.
THEOREM LocksHeldByFactoriesHolds == Spec => []LocksHeldByFactories
  BY Invariance, InvLocksHeld, PTL

LEMMA StepKeepsInstances ==
    ASSUME IInv, [Next]_vars, NEW s \in ScopeSet, NEW t \in Types, entry[s][t] # None
    PROVE  entry'[s][t] = entry[s][t]
  <1>1. ASSUME NEW g \in Goroutines, FactoryReturns(g)
        PROVE  entry'[s][t] = entry[s][t]
    <2>1. stack[g] # <<>> /\ Top(g).at = "build"
      BY <1>1 DEF FactoryReturns, In
    <2> DEFINE n == Len(stack[g])
    <2>n. n \in 1..n /\ Top(g) = stack[g][n]
      BY <2>1, TopIsFrame DEF IInv, TypeOK
    <2>2. entry[Top(g).scope][Top(g).typ] = None
      BY <2>1, <2>n DEF IInv, StackInv, BuildersHold
    <2>3. ~ (s = Top(g).scope /\ t = Top(g).typ)
      BY <2>2
    <2>4. Top(g).scope \in ScopeSet /\ Top(g).typ \in Types
      BY <2>1, TopOK DEF FrameOK, Frame, BagAt
    <2> QED BY <1>1, <2>3, <2>4 DEF FactoryReturns, IInv, TypeOK
  <1>2. (\A g \in Goroutines : ~ FactoryReturns(g)) => entry' = entry
    BY DEF Next, Advance, Ask, Cached, Snapshot, Scan, Remember, Through, Resolve,
           EntryFor, LockBuilt, LockAndBuild, FactoryAsks, FactoryGets,
           FactoryPanics, Unwind, Close, CloseStage, CloseScope, CloseInstance,
           Finished, bagVars, vars
  <1> QED BY <1>1, <1>2

\* No step of anybody replaces or forgets an instance a scope has built.
THEOREM InstanceKeptHolds == Spec => InstanceKept
  <1>1. IInv /\ [Next]_vars
          => [\A s \in ScopeSet, t \in Types :
                  entry[s][t] # None => entry'[s][t] = entry[s][t]]_vars
    BY StepKeepsInstances
  <1> QED BY <1>1, Invariance, PTL DEF Spec, InstanceKept
-----------------------------------------------------------------------------
(***************************************************************************)
(* What becomes of an instance.                                            *)
(***************************************************************************)
\* The instance an instance's own entry holds.
Own(v) == entry[v.scope][v.typ]

\* An entry's instance is named after the entry, and what waits to be closed, is
\* being closed or has been closed is some entry's instance.
NamesOK ==
    /\ \A s \in ScopeSet, t \in Types :
          entry[s][t] # None => entry[s][t].scope = s /\ entry[s][t].typ = t
    /\ \A s \in ScopeSet : \A i \in 1..Len(closers[s]) :
          closers[s][i].scope = s /\ closers[s][i] = Own(closers[s][i])
    /\ \A i \in 1..Len(batch) : batch[i] = Own(batch[i])
    /\ \A i \in 1..Len(released) : released[i] = Own(released[i])

\* It is in one of these places, once.
PlacesOK ==
    /\ \A s \in ScopeSet : \A i, j \in 1..Len(closers[s]) : closers[s][i] = closers[s][j] => i = j
    /\ \A i, j \in 1..Len(batch) : batch[i] = batch[j] => i = j
    /\ \A i, j \in 1..Len(released) : released[i] = released[j] => i = j
    /\ \A i \in 1..Len(batch), j \in 1..Len(released) : batch[i] # released[j]
    /\ \A s \in ScopeSet : \A i \in 1..Len(closers[s]) :
          /\ \A j \in 1..Len(batch) : closers[s][i] # batch[j]
          /\ \A j \in 1..Len(released) : closers[s][i] # released[j]

\* A closer that has been built is in one.
FiledOK ==
    \A s \in ScopeSet, t \in Types :
        entry[s][t] # None /\ IsCloser(s, t) =>
            \/ \E i \in 1..Len(closers[s]) : closers[s][i] = entry[s][t]
            \/ \E i \in 1..Len(batch) : batch[i] = entry[s][t]
            \/ \E i \in 1..Len(released) : released[i] = entry[s][t]

ClosingOK == NamesOK /\ PlacesOK /\ FiledOK

\* What a scope has answered is what its entry holds.
AnswersOK == \A a \in answers : a[1] \in ScopeSet => a[3] = entry[a[1]][a[2]]

-----------------------------------------------------------------------------
LEMMA InstancesAreSomething == \A v \in Instances : v # None
  BY NoneAssumption

LEMMA ClosingTypes ==
    ASSUME IInv
    PROVE  /\ \A s \in ScopeSet : /\ closers[s] \in Seq(Instances) /\ Len(closers[s]) \in Nat
                                  /\ \A i \in 1..Len(closers[s]) : closers[s][i] \in Instances
           /\ batch \in Seq(Instances) /\ Len(batch) \in Nat
           /\ \A i \in 1..Len(batch) : batch[i] \in Instances
           /\ released \in Seq(Instances) /\ Len(released) \in Nat
           /\ \A i \in 1..Len(released) : released[i] \in Instances
           /\ \A s \in ScopeSet, t \in Types : entry[s][t] \in Instances \cup {None}
  <1>1. /\ closers \in [ScopeSet -> Seq(Instances)]
        /\ batch \in Seq(Instances) /\ released \in Seq(Instances)
        /\ entry \in [ScopeSet -> [Types -> Instances \cup {None}]]
    BY DEF IInv, TypeOK
  <1> QED BY <1>1, ElementOfSeq, LenProperties

LEMMA InitClosing == Init => ClosingOK /\ AnswersOK
  <1> SUFFICES ASSUME Init PROVE ClosingOK /\ AnswersOK
    OBVIOUS
  <1>1. /\ closers = [s \in ScopeSet |-> <<>>] /\ batch = <<>> /\ released = <<>> /\ answers = {}
        /\ entry = [s \in ScopeSet |-> [t \in Types |-> None]]
    BY DEF Init
  <1>2. \A s \in ScopeSet : Len(closers[s]) = 0
    BY <1>1
  <1>3. Len(batch) = 0 /\ Len(released) = 0
    BY <1>1
  <1>4. \A s \in ScopeSet, t \in Types : entry[s][t] = None
    BY <1>1
  <1> QED BY <1>1, <1>2, <1>3, <1>4 DEF ClosingOK, NamesOK, PlacesOK, FiledOK, AnswersOK

\* A step that builds nothing and closes nothing.
LEMMA ClosingKept ==
    ASSUME ClosingOK, UNCHANGED <<entry, closers, batch, released>>
    PROVE  ClosingOK'
  BY DEF ClosingOK, NamesOK, PlacesOK, FiledOK, Own, IsCloser, Reg

\* The one step that builds: the factory's value is recorded and, if it is a
\* closer, queued.
LEMMA FactoryReturnsCloses ==
    ASSUME IInv, ClosingOK, NEW g \in Goroutines, FactoryReturns(g)
    PROVE  ClosingOK'
  <1>1. PICK s \in ScopeSet, t \in Types : s = Top(g).scope /\ t = Top(g).typ
    BY TopOK DEF FactoryReturns, In, FrameOK, Frame, BagAt
  <1>2. PICK v \in Instances :
            /\ v.scope = s /\ v.typ = t
            /\ entry' = [entry EXCEPT ![s][t] = v]
            /\ closers' = IF Reg(s, t).closer THEN [closers EXCEPT ![s] = Append(@, v)] ELSE closers
            /\ batch' = batch /\ released' = released
    <2>1. [scope |-> s, typ |-> t, run |-> runs[s][t]] \in Instances
      BY DEF Instances, IInv, TypeOK
    <2> QED BY <1>1, <2>1 DEF FactoryReturns, endVars
  <1>3. entry[s][t] = None
    <2>1. stack[g] # <<>> /\ Top(g).at = "build"
      BY DEF FactoryReturns, In
    <2>2. Len(stack[g]) \in 1..Len(stack[g]) /\ Top(g) = stack[g][Len(stack[g])]
      BY <2>1, TopIsFrame DEF IInv, TypeOK
    <2> QED BY <1>1, <2>1, <2>2 DEF IInv, StackInv, BuildersHold
  <1>4. t \in DOMAIN Regs[s]
    BY <1>1, TopOK DEF FactoryReturns, In, FrameOK
  <1>5. /\ entry'[s][t] = v
        /\ \A u \in ScopeSet, x \in Types : ~ (u = s /\ x = t) => entry'[u][x] = entry[u][x]
    BY <1>2 DEF IInv, TypeOK
  \* Whatever is somewhere already is another entry's, and stays that entry's.
  <1>6. \A w \in Instances : w = Own(w) => w # v /\ w = entry'[w.scope][w.typ]
    <2> SUFFICES ASSUME NEW w \in Instances, w = Own(w)
                 PROVE  w # v /\ w = entry'[w.scope][w.typ]
      OBVIOUS
    <2>1. w # None /\ w.scope \in ScopeSet /\ w.typ \in Types
      BY InstancesAreSomething DEF Instances
    <2>2. ~ (w.scope = s /\ w.typ = t)
      BY <1>3, <2>1 DEF Own
    <2> QED BY <1>2, <1>5, <2>1, <2>2 DEF Own
  <1> DEFINE n == Len(closers[s])
  <1>7. /\ n \in Nat
        /\ \A u \in ScopeSet \ {s} : closers'[u] = closers[u]
        /\ \A i \in 1..n : i \in 1..Len(closers'[s]) /\ closers'[s][i] = closers[s][i]
        /\ \/ ~ IsCloser(s, t) /\ closers'[s] = closers[s]
           \/ /\ IsCloser(s, t)
              /\ Len(closers'[s]) = n + 1
              /\ closers'[s][n + 1] = v
    <2>1. closers[s] \in Seq(Instances) /\ n \in Nat /\ closers \in [ScopeSet -> Seq(Instances)]
      BY ClosingTypes DEF IInv, TypeOK
    <2>2. /\ Len(Append(closers[s], v)) = n + 1
          /\ Append(closers[s], v)[n + 1] = v
          /\ \A i \in 1..n : Append(closers[s], v)[i] = closers[s][i]
      BY <2>1, AppendFacts
    <2>3. CASE Reg(s, t).closer
      <3>1. closers' = [closers EXCEPT ![s] = Append(closers[s], v)]
        BY <1>2, <2>3
      <3>2. closers'[s] = Append(closers[s], v) /\ \A u \in ScopeSet \ {s} : closers'[u] = closers[u]
        BY <2>1, <3>1
      <3>3. Len(closers'[s]) = n + 1 /\ closers'[s][n + 1] = v
            /\ \A i \in 1..n : closers'[s][i] = closers[s][i]
        BY <2>2, <3>2
      <3>4. 1..n \subseteq 1..(n + 1)
        BY <2>1
      <3> QED BY <1>4, <2>1, <2>3, <3>2, <3>3, <3>4 DEF IsCloser
    <2>4. CASE ~ Reg(s, t).closer
      BY <1>2, <2>1, <2>4 DEF IsCloser
    <2> QED BY <2>3, <2>4
  <1> HIDE DEF n
  <1>n. n = Len(closers[s])
    BY DEF n
  <1>c. \A u \in ScopeSet : \A i \in 1..Len(closers'[u]) :
            \/ i \in 1..Len(closers[u]) /\ closers'[u][i] = closers[u][i]
            \/ u = s /\ i = n + 1 /\ closers'[u][i] = v
    BY <1>7, <1>n
  <1>o. /\ \A u \in ScopeSet : \A i \in 1..Len(closers[u]) :
              /\ closers[u][i] \in Instances /\ closers[u][i] = Own(closers[u][i])
              /\ closers[u][i].scope = u /\ closers[u][i] # v
        /\ \A i \in 1..Len(batch) : batch[i] \in Instances /\ batch[i] = Own(batch[i]) /\ batch[i] # v
        /\ \A i \in 1..Len(released) :
              released[i] \in Instances /\ released[i] = Own(released[i]) /\ released[i] # v
    BY <1>6, ClosingTypes DEF ClosingOK, NamesOK
  <1>8. NamesOK'
    <2>1. \A u \in ScopeSet, x \in Types :
              entry'[u][x] # None => entry'[u][x].scope = u /\ entry'[u][x].typ = x
      BY <1>2, <1>5 DEF ClosingOK, NamesOK
    <2>2. \A u \in ScopeSet : \A i \in 1..Len(closers'[u]) :
              /\ closers'[u][i].scope = u
              /\ closers'[u][i] = entry'[closers'[u][i].scope][closers'[u][i].typ]
      BY <1>2, <1>5, <1>6, <1>c, <1>o
    <2>3. /\ \A i \in 1..Len(batch) : batch[i] = entry'[batch[i].scope][batch[i].typ]
          /\ \A i \in 1..Len(released) : released[i] = entry'[released[i].scope][released[i].typ]
      BY <1>6, <1>o
    <2> QED BY <1>2, <2>1, <2>2, <2>3 DEF NamesOK, Own
  <1>9. PlacesOK'
    <2>1. \A u \in ScopeSet : \A i, j \in 1..Len(closers'[u]) : closers'[u][i] = closers'[u][j] => i = j
      BY <1>c, <1>o DEF ClosingOK, PlacesOK
    <2>2. \A u \in ScopeSet : \A i \in 1..Len(closers'[u]) :
              /\ \A j \in 1..Len(batch) : closers'[u][i] # batch[j]
              /\ \A j \in 1..Len(released) : closers'[u][i] # released[j]
      BY <1>c, <1>o DEF ClosingOK, PlacesOK
    <2> QED BY <1>2, <2>1, <2>2 DEF ClosingOK, PlacesOK
  <1>10. FiledOK'
    <2> SUFFICES ASSUME NEW u \in ScopeSet, NEW x \in Types, entry'[u][x] # None, IsCloser(u, x)
                 PROVE  \/ \E i \in 1..Len(closers'[u]) : closers'[u][i] = entry'[u][x]
                        \/ \E i \in 1..Len(batch') : batch'[i] = entry'[u][x]
                        \/ \E i \in 1..Len(released') : released'[i] = entry'[u][x]
      BY DEF FiledOK, IsCloser, Reg
    <2>1. CASE u = s /\ x = t
      <3>1. n + 1 \in 1..Len(closers'[s]) /\ closers'[s][n + 1] = v
        BY <1>7, <2>1
      <3> QED BY <1>5, <2>1, <3>1
    <2>2. CASE ~ (u = s /\ x = t)
      <3>1. entry'[u][x] = entry[u][x]
        BY <1>5, <2>2
      <3>2. \A i \in 1..Len(closers[u]) : i \in 1..Len(closers'[u]) /\ closers'[u][i] = closers[u][i]
        BY <1>7, <1>n
      <3> QED BY <1>2, <3>1, <3>2 DEF ClosingOK, FiledOK
    <2> QED BY <2>1, <2>2
  <1> QED BY <1>8, <1>9, <1>10 DEF ClosingOK

\* A scope's Close takes everything that is queued.
LEMMA CloseScopeCloses ==
    ASSUME IInv, ClosingOK, CloseScope
    PROVE  ClosingOK'
  <1>1. PICK s \in ScopeSet :
            /\ batch' = closers[s]
            /\ closers' = [closers EXCEPT ![s] = <<>>]
    <2>1. toClose \in Seq(ScopeSet) /\ toClose # <<>>
      BY DEF CloseScope, IInv, TypeOK
    <2>2. toClose[Len(toClose)] \in ScopeSet
      BY <2>1
    <2> QED BY <2>2 DEF CloseScope
  <1>2. /\ Len(batch) = 0
        /\ entry' = entry /\ released' = released
        /\ Len(closers'[s]) = 0
        /\ \A u \in ScopeSet \ {s} : closers'[u] = closers[u]
    BY <1>1 DEF CloseScope, IInv, TypeOK
  <1>n. /\ \A u \in ScopeSet : \A i \in 1..Len(closers'[u]) : u # s
        /\ \A i \in 1..Len(batch) : FALSE
    BY <1>2
  <1>3. NamesOK'
    BY <1>1, <1>2, <1>n DEF ClosingOK, NamesOK, Own
  <1>4. PlacesOK'
    <2>1. \A u \in ScopeSet : \A i, j \in 1..Len(closers'[u]) : closers'[u][i] = closers'[u][j] => i = j
      BY <1>2, <1>n DEF ClosingOK, PlacesOK
    <2>2. \A u \in ScopeSet : \A i \in 1..Len(closers'[u]) :
              /\ \A j \in 1..Len(closers[s]) : closers'[u][i] # closers[s][j]
              /\ \A j \in 1..Len(released) : closers'[u][i] # released[j]
      BY <1>2, <1>n DEF ClosingOK, PlacesOK, NamesOK
    <2> QED BY <1>1, <1>2, <2>1, <2>2 DEF ClosingOK, PlacesOK
  <1>5. FiledOK'
    BY <1>1, <1>2, <1>n DEF ClosingOK, FiledOK, IsCloser, Reg
  <1> QED BY <1>3, <1>4, <1>5 DEF ClosingOK

\* One instance is closed: it goes from what was taken to what is closed.
LEMMA CloseInstanceCloses ==
    ASSUME IInv, ClosingOK, CloseInstance
    PROVE  ClosingOK'
  <1> DEFINE n == Len(batch)
             m == Len(released)
             v == batch[n]
  <1>1. /\ batch \in Seq(Instances) /\ batch # <<>> /\ released \in Seq(Instances)
        /\ released' = Append(released, v) /\ batch' = SubSeq(batch, 1, n - 1)
        /\ entry' = entry /\ closers' = closers
    BY DEF CloseInstance, IInv, TypeOK, bagVars
  <1>2. /\ n \in Nat \ {0} /\ m \in Nat
        /\ Len(batch') = n - 1
        /\ \A i \in 1..(n - 1) : batch'[i] = batch[i]
    BY <1>1, FrontFacts, LenProperties
  <1>3. v \in Instances /\ n \in 1..n
    BY <1>1, <1>2, ElementOfSeq
  <1>4. /\ Len(released') = m + 1
        /\ released'[m + 1] = v
        /\ \A i \in 1..m : released'[i] = released[i]
    BY <1>1, <1>3, AppendFacts
  <1>k. entry' = entry /\ closers' = closers
    BY <1>1
  <1>v. v = batch[n] /\ n = Len(batch) /\ m = Len(released)
    OBVIOUS
  <1> HIDE DEF n, m, v
  <1>b. \A i \in 1..Len(batch') : i \in 1..Len(batch) /\ i # n /\ batch'[i] = batch[i]
    BY <1>2, <1>v
  <1>r. \A i \in 1..Len(released') :
            \/ i \in 1..Len(released) /\ released'[i] = released[i]
            \/ i = m + 1 /\ released'[i] = v
    BY <1>2, <1>4, <1>v
  <1>n. n \in 1..Len(batch) /\ v = batch[n]
    BY <1>3, <1>v
  <1>5. NamesOK'
    <2>1. \A i \in 1..Len(batch') : batch'[i] = entry[batch'[i].scope][batch'[i].typ]
      BY <1>b DEF ClosingOK, NamesOK, Own
    <2>2. \A i \in 1..Len(released') :
              released'[i] = entry[released'[i].scope][released'[i].typ]
      BY <1>r, <1>n DEF ClosingOK, NamesOK, Own
    <2>3. /\ \A s \in ScopeSet, t \in Types :
                entry[s][t] # None => entry[s][t].scope = s /\ entry[s][t].typ = t
          /\ \A s \in ScopeSet : \A i \in 1..Len(closers[s]) :
                /\ closers[s][i].scope = s
                /\ closers[s][i] = entry[closers[s][i].scope][closers[s][i].typ]
      BY DEF ClosingOK, NamesOK, Own
    <2> QED BY <1>k, <2>1, <2>2, <2>3 DEF NamesOK, Own
  <1>6. PlacesOK'
    <2>1. \A i, j \in 1..Len(batch') : batch'[i] = batch'[j] => i = j
      BY <1>b DEF ClosingOK, PlacesOK
    <2>2. \A i, j \in 1..Len(released') : released'[i] = released'[j] => i = j
      BY <1>r, <1>n DEF ClosingOK, PlacesOK
    <2>3. \A i \in 1..Len(batch'), j \in 1..Len(released') : batch'[i] # released'[j]
      BY <1>b, <1>r, <1>n DEF ClosingOK, PlacesOK
    <2>4. \A s \in ScopeSet : \A i \in 1..Len(closers[s]) :
              /\ \A j \in 1..Len(batch') : closers[s][i] # batch'[j]
              /\ \A j \in 1..Len(released') : closers[s][i] # released'[j]
      BY <1>b, <1>r, <1>n DEF ClosingOK, PlacesOK
    <2>5. \A s \in ScopeSet : \A i, j \in 1..Len(closers[s]) : closers[s][i] = closers[s][j] => i = j
      BY DEF ClosingOK, PlacesOK
    <2> QED BY <1>k, <2>1, <2>2, <2>3, <2>4, <2>5 DEF PlacesOK
  <1>7. FiledOK'
    <2> SUFFICES ASSUME NEW s \in ScopeSet, NEW t \in Types, entry[s][t] # None, IsCloser(s, t)
                 PROVE  \/ \E i \in 1..Len(closers[s]) : closers[s][i] = entry[s][t]
                        \/ \E i \in 1..Len(batch') : batch'[i] = entry[s][t]
                        \/ \E i \in 1..Len(released') : released'[i] = entry[s][t]
      BY <1>1 DEF FiledOK, IsCloser, Reg
    <2>1. \A i \in 1..Len(released) : i \in 1..Len(released') /\ released'[i] = released[i]
      BY <1>2, <1>4, <1>v
    <2>2. m + 1 \in 1..Len(released') /\ released'[m + 1] = v
      BY <1>2, <1>4
    <2>3. \A i \in 1..Len(batch) : i = n \/ (i \in 1..Len(batch') /\ batch'[i] = batch[i])
      BY <1>2, <1>v
    <2> QED BY <1>n, <2>1, <2>2, <2>3 DEF ClosingOK, FiledOK
  <1> QED BY <1>5, <1>6, <1>7 DEF ClosingOK

LEMMA NextCloses == IInv /\ ClosingOK /\ [Next]_vars => ClosingOK'
  <1> SUFFICES ASSUME IInv, ClosingOK, [Next]_vars PROVE ClosingOK'
    OBVIOUS
  <1>1. ASSUME NEW g \in Goroutines, FactoryReturns(g) PROVE ClosingOK'
    BY <1>1, FactoryReturnsCloses
  <1>2. CASE CloseScope
    BY <1>2, CloseScopeCloses
  <1>3. CASE CloseInstance
    BY <1>3, CloseInstanceCloses
  <1>4. CASE ~ CloseScope /\ ~ CloseInstance /\ \A g \in Goroutines : ~ FactoryReturns(g)
    <2>1. UNCHANGED <<entry, closers, batch, released>>
      BY <1>4
      DEF Next, Advance, Ask, Cached, Snapshot, Scan, Remember, Through, Resolve,
          EntryFor, LockBuilt, LockAndBuild, FactoryAsks, FactoryGets,
          FactoryPanics, Unwind, Close, CloseStage, Finished, bagVars, endVars, vars
    <2> QED BY <2>1, ClosingKept
  <1> QED BY <1>1, <1>2, <1>3, <1>4

\* Where every built closer is, at any moment of any behaviour.
THEOREM Accounted == Spec => []ClosingOK
  <1>1. IInv /\ IInv' /\ ClosingOK /\ [Next]_vars => ClosingOK'
    BY NextCloses
  <1> QED BY <1>1, InitClosing, Invariance, PTL DEF Spec

-----------------------------------------------------------------------------
LEMMA OccursOnce ==
    ASSUME NEW v, NEW S, NEW q \in Seq(S),
           \A i, j \in 1..Len(q) : q[i] = q[j] => i = j
    PROVE  /\ (\E i \in 1..Len(q) : q[i] = v) => Occurrences(v, q) = 1
           /\ (\A i \in 1..Len(q) : q[i] # v) => Occurrences(v, q) = 0
  <1>0. DOMAIN q = 1..Len(q)
    BY LenProperties
  <1>1. ASSUME NEW k \in 1..Len(q), q[k] = v PROVE Occurrences(v, q) = 1
    <2>1. {i \in DOMAIN q : q[i] = v} = {k}
      BY <1>0, <1>1
    <2> QED BY <2>1, FS_Singleton DEF Occurrences
  <1>2. ASSUME \A i \in 1..Len(q) : q[i] # v PROVE Occurrences(v, q) = 0
    <2>1. {i \in DOMAIN q : q[i] = v} = {}
      BY <1>0, <1>2
    <2> QED BY <2>1, FS_EmptySet DEF Occurrences
  <1> QED BY <1>1, <1>2

LEMMA InvClosedOnce == IInv /\ ClosingOK => ClosedAtMostOnce
  <1> SUFFICES ASSUME IInv, ClosingOK, NEW s \in ScopeSet, NEW t \in Types
               PROVE  /\ entry[s][t] # None /\ IsCloser(s, t) =>
                            Occurrences(entry[s][t], released) + Occurrences(entry[s][t], batch)
                                + Occurrences(entry[s][t], closers[s]) = 1
                      /\ \A i \in DOMAIN closers[s] : \E u \in Types : closers[s][i] = entry[s][u]
    BY DEF ClosedAtMostOnce
  <1> DEFINE v == entry[s][t]
  <1>t. closers[s] \in Seq(Instances) /\ batch \in Seq(Instances) /\ released \in Seq(Instances)
    BY ClosingTypes
  <1>1. \A i \in DOMAIN closers[s] : \E u \in Types : closers[s][i] = entry[s][u]
    <2> SUFFICES ASSUME NEW i \in DOMAIN closers[s] PROVE \E u \in Types : closers[s][i] = entry[s][u]
      OBVIOUS
    <2>1. i \in 1..Len(closers[s])
      BY <1>t, LenProperties
    <2>2. closers[s][i] \in Instances /\ closers[s][i].scope = s /\ closers[s][i] = Own(closers[s][i])
      BY <2>1, ClosingTypes DEF ClosingOK, NamesOK
    <2>3. closers[s][i].typ \in Types
      BY <2>2 DEF Instances
    <2> QED BY <2>2, <2>3 DEF Own
  <1>2. ASSUME v # None, IsCloser(s, t)
        PROVE  Occurrences(v, released) + Occurrences(v, batch) + Occurrences(v, closers[s]) = 1
    <2>u. /\ \A i, j \in 1..Len(closers[s]) : closers[s][i] = closers[s][j] => i = j
          /\ \A i, j \in 1..Len(batch) : batch[i] = batch[j] => i = j
          /\ \A i, j \in 1..Len(released) : released[i] = released[j] => i = j
      BY DEF ClosingOK, PlacesOK
    <2>o. /\ (\E i \in 1..Len(closers[s]) : closers[s][i] = v) => Occurrences(v, closers[s]) = 1
          /\ (\A i \in 1..Len(closers[s]) : closers[s][i] # v) => Occurrences(v, closers[s]) = 0
          /\ (\E i \in 1..Len(batch) : batch[i] = v) => Occurrences(v, batch) = 1
          /\ (\A i \in 1..Len(batch) : batch[i] # v) => Occurrences(v, batch) = 0
          /\ (\E i \in 1..Len(released) : released[i] = v) => Occurrences(v, released) = 1
          /\ (\A i \in 1..Len(released) : released[i] # v) => Occurrences(v, released) = 0
      <3> HIDE DEF v
      <3> QED BY <1>t, <2>u, OccursOnce
    <2>d. /\ \A i \in 1..Len(batch), j \in 1..Len(released) : batch[i] # released[j]
          /\ \A i \in 1..Len(closers[s]) :
                /\ \A j \in 1..Len(batch) : closers[s][i] # batch[j]
                /\ \A j \in 1..Len(released) : closers[s][i] # released[j]
      BY DEF ClosingOK, PlacesOK
    <2>f. \/ \E i \in 1..Len(closers[s]) : closers[s][i] = v
          \/ \E i \in 1..Len(batch) : batch[i] = v
          \/ \E i \in 1..Len(released) : released[i] = v
      BY <1>2 DEF ClosingOK, FiledOK
    <2>1. CASE \E i \in 1..Len(closers[s]) : closers[s][i] = v
      <3>1. (\A i \in 1..Len(batch) : batch[i] # v) /\ (\A i \in 1..Len(released) : released[i] # v)
        BY <2>1, <2>d
      <3>2. /\ Occurrences(v, closers[s]) = 1
            /\ Occurrences(v, batch) = 0 /\ Occurrences(v, released) = 0
        BY <2>1, <2>o, <3>1
      <3> QED BY <3>2
    <2>2. CASE \E i \in 1..Len(batch) : batch[i] = v
      <3>1. (\A i \in 1..Len(closers[s]) : closers[s][i] # v) /\ (\A i \in 1..Len(released) : released[i] # v)
        BY <2>2, <2>d
      <3>2. /\ Occurrences(v, closers[s]) = 0
            /\ Occurrences(v, batch) = 1 /\ Occurrences(v, released) = 0
        BY <2>2, <2>o, <3>1
      <3> QED BY <3>2
    <2>3. CASE \E i \in 1..Len(released) : released[i] = v
      <3>1. (\A i \in 1..Len(closers[s]) : closers[s][i] # v) /\ (\A i \in 1..Len(batch) : batch[i] # v)
        BY <2>3, <2>d
      <3>2. /\ Occurrences(v, closers[s]) = 0
            /\ Occurrences(v, batch) = 0 /\ Occurrences(v, released) = 1
        BY <2>3, <2>o, <3>1
      <3> QED BY <3>2
    <2> QED BY <2>1, <2>2, <2>3, <2>f
  <1> QED BY <1>1, <1>2

\* In every composition and every interleaving of resolutions with Close, a
\* built io.Closer is queued, taken or closed, and in one of these places once.
THEOREM ClosedAtMostOnceHolds == Spec => []ClosedAtMostOnce
  BY Accounted, Invariance, InvClosedOnce, PTL

-----------------------------------------------------------------------------
LEMMA AnswersKept ==
    ASSUME IInv, AnswersOK, [Next]_vars
    PROVE  AnswersOK'
  \* Whatever was answered before was an entry's instance and still is.
  <1>1. \A a \in answers : a[1] \in ScopeSet =>
            /\ a[2] \in Types /\ a[3] = entry[a[1]][a[2]] /\ a[3] # None
    <2> SUFFICES ASSUME NEW a \in answers, a[1] \in ScopeSet
                 PROVE  a[2] \in Types /\ a[3] = entry[a[1]][a[2]] /\ a[3] # None
      OBVIOUS
    <2>1. a \in (ScopeSet \cup {None}) \X Types \X Instances
      BY DEF IInv, TypeOK
    <2>2. a[2] \in Types /\ a[3] \in Instances
      BY <2>1
    <2> QED BY <2>2, InstancesAreSomething DEF AnswersOK
  <1>2. \A a \in answers : a[1] \in ScopeSet => a[3] = entry'[a[1]][a[2]]
    BY <1>1, StepKeepsInstances
  <1>3. ASSUME NEW who, NEW t, NEW v, Answer(who, t, v),
               who \in ScopeSet => v = entry'[who][t]
        PROVE  AnswersOK'
    BY <1>2, <1>3 DEF Answer, AnswersOK
  <1>4. ASSUME answers' = answers PROVE AnswersOK'
    BY <1>2, <1>4 DEF AnswersOK
  <1>5. ASSUME NEW g \in Goroutines, Cached(g) PROVE AnswersOK'
    <2>1. answers' = answers \/ Answer(None, Top(g).typ, cache[Top(g).typ])
      BY <1>5 DEF Cached
    <2> QED BY <1>3, <1>4, <2>1, NoneAssumption
  <1>6. ASSUME NEW g \in Goroutines, Remember(g) PROVE AnswersOK'
    <2>1. \E v : Answer(None, Top(g).typ, v)
      BY <1>6 DEF Remember
    <2> QED BY <1>3, <2>1, NoneAssumption
  <1>7. ASSUME NEW g \in Goroutines, LockBuilt(g) PROVE AnswersOK'
    <2>1. Answer(Top(g).scope, Top(g).typ, entry[Top(g).scope][Top(g).typ]) /\ entry' = entry
      BY <1>7 DEF LockBuilt, bagVars
    <2> QED BY <1>3, <2>1
  <1>8. ASSUME NEW g \in Goroutines, FactoryReturns(g) PROVE AnswersOK'
    <2>1. PICK s \in ScopeSet, t \in Types : s = Top(g).scope /\ t = Top(g).typ
      BY <1>8, TopOK DEF FactoryReturns, In, FrameOK, Frame, BagAt
    <2>2. PICK v : Answer(s, t, v) /\ entry' = [entry EXCEPT ![s][t] = v]
      BY <1>8, <2>1 DEF FactoryReturns
    <2>3. entry'[s][t] = v
      BY <2>2 DEF IInv, TypeOK
    <2> QED BY <1>3, <2>2, <2>3
  <1>9. CASE \A g \in Goroutines : ~ Cached(g) /\ ~ Remember(g) /\ ~ LockBuilt(g) /\ ~ FactoryReturns(g)
    <2>1. answers' = answers
      BY <1>9
      DEF Next, Advance, Ask, Snapshot, Scan, Through, Resolve, EntryFor, LockAndBuild,
          FactoryAsks, FactoryGets, FactoryPanics, Unwind, Close, CloseStage,
          CloseScope, CloseInstance, Finished, vars
    <2> QED BY <1>4, <2>1
  <1> QED BY <1>5, <1>6, <1>7, <1>8, <1>9

\* Every caller a scope ever answers, over its whole life, gets one instance:
\* the part of Agreement a scope owes, for every composition.
THEOREM ScopesAgree ==
    Spec => [](\A a, b \in answers :
                  a[1] \in ScopeSet /\ a[1] = b[1] /\ a[2] = b[2] => a[3] = b[3])
  <1>1. Init => AnswersOK
    BY InitClosing
  <1>2. AnswersOK => \A a, b \in answers :
                         a[1] \in ScopeSet /\ a[1] = b[1] /\ a[2] = b[2] => a[3] = b[3]
    BY DEF AnswersOK
  <1>3. IInv /\ AnswersOK /\ [Next]_vars => AnswersOK'
    BY AnswersKept
  <1> QED BY <1>1, <1>2, <1>3, Invariance, PTL DEF Spec

-----------------------------------------------------------------------------
(***************************************************************************)
(* Dependents close first.  A scope's closers are in the order their       *)
(* factories returned, so it comes down to this: when a factory returns,   *)
(* everything it reaches in its scope has been built.  That is a fact      *)
(* about calls in progress (CallsLinked, BuiltOver); the rest follows the  *)
(* order through the queue, the batch and the closed ones (OrderOK).       *)
(***************************************************************************)

\* t, and what is reached from it without leaving s.
Under(s, t) == {t} \cup Uses[s][t]

Scoped(s, t) == t \in DOMAIN Regs[s] /\ Regs[s][t].kind = "scoped"

\* Given the entries e, everything under t that a factory of s makes is there.
Stands(e, s, t) == \A y \in Under(s, t) : Scoped(s, y) => e[s][y] # None

\* Call c resolves, in s, t or something that covers all there is under t.
Resolves(c, s, t) ==
    /\ c.at \in BagAt \cup {"through"}
    /\ c.scope = s
    /\ \A y \in Under(s, t) : Scoped(s, y) => y \in Under(s, c.typ)

\* With c's answer, or already, t stands.
Brings(e, c, s, t) == Resolves(c, s, t) \/ Stands(e, s, t)

\* What a factory call has asked for so far.
Asked(f) == Regs[f.scope][f.typ].needs \ f.todo

\* The calls there are, the pairs of a call and the one it waits for, and the
\* results a call is handed.
SoundCalls ==
    {f \in Frame :
        /\ f.at \in BagAt \cup {"through"} => f.scope \in ScopeSet
        /\ f.at \in {"entry", "lock", "build"} => Scoped(f.scope, f.typ)}

Waits(e) ==
    {p \in SoundCalls \X Frame :
        /\ p[1].at = "through" => Brings(e, p[2], p[1].scope, p[1].typ)
        /\ p[1].at = "build" => \A d \in Asked(p[1]) : Brings(e, p[2], p[1].scope, d)}

Given(e) ==
    {p \in SoundCalls \X Results :
        /\ p[1].at = "through" /\ p[2].tag \in {"value", "absent"} =>
              Stands(e, p[1].scope, p[1].typ)
        /\ p[1].at = "build" /\ p[2].tag # "panic" =>
              \A d \in Asked(p[1]) : Stands(e, p[1].scope, d)}

\* A stack q whose innermost call has been handed r, by such sets.
Linked(q, r, S, W, G) ==
    /\ \A i \in 1..Len(q) : q[i] \in S
    /\ \A i \in 1..Len(q) : i + 1 \in 1..Len(q) => <<q[i], q[i + 1]>> \in W
    /\ q # <<>> => <<q[Len(q)], r>> \in G

CallsLinked ==
    \A g \in Goroutines : Linked(stack[g], ret[g], SoundCalls, Waits(entry), Given(entry))

\* An instance is built over instances.
BuiltOver ==
    \A s \in ScopeSet, t \in Types : entry[s][t] # None => Stands(entry, s, t)

Placed(v, q) == \E i \in 1..Len(q) : q[i] = v

\* v comes after w in q, which is gone through from its end.
Before(v, w, q) == \E i, j \in 1..Len(q) : j < i /\ q[i] = v /\ q[j] = w

\* v is closed, or its scope's Close came before it was built.
Gone(v, s) == Placed(v, released) \/ (shut[s] /\ Placed(v, closers[s]))

\* An instance is ahead of, or further than, whatever it is built over.
OrderOK ==
    \A s \in ScopeSet, x, y \in Types :
        /\ y \in Uses[s][x] /\ IsCloser(s, x) /\ IsCloser(s, y) /\ entry[s][x] # None
        => /\ Placed(entry[s][y], closers[s]) => Before(entry[s][x], entry[s][y], closers[s])
           /\ Placed(entry[s][y], batch) =>
                 Before(entry[s][x], entry[s][y], batch) \/ Gone(entry[s][x], s)
           /\ Placed(entry[s][y], released) => Gone(entry[s][x], s)

\* A scope is closed once, after the stage has closed, and nothing of a scope is
\* on its way out before.
ShutOK ==
    /\ scopes \in {Scopes, <<>>}
    /\ ~ closed => toClose = <<>> /\ \A s \in ScopeSet : ~ shut[s]
    /\ \A i, j \in 1..Len(toClose) : toClose[i] = toClose[j] => i = j
    /\ \A i \in 1..Len(toClose) : ~ shut[toClose[i]]
    /\ \A i \in 1..Len(batch) : shut[batch[i].scope]
    /\ \A i \in 1..Len(released) : shut[released[i].scope]

-----------------------------------------------------------------------------
(* A step of one stack, whatever the sets.                                 *)

LEMMA BecomeLinks ==
    ASSUME stack \in [Goroutines -> Seq(Frame)],
           NEW S, NEW W, NEW G, NEW W2, NEW G2, W \subseteq W2, G \subseteq G2,
           \A h \in Goroutines : Linked(stack[h], ret[h], S, W, G),
           NEW g \in Goroutines, stack[g] # <<>>, NEW f \in Frame, Become(g, f),
           \A h \in Goroutines \ {g} : ret'[h] = ret[h],
           f \in S, \A b : <<b, Top(g)>> \in W => <<b, f>> \in W2, <<f, ret'[g]>> \in G2
    PROVE  \A h \in Goroutines : Linked(stack'[h], ret'[h], S, W2, G2)
  <1>1. PICK n \in Nat \ {0} :
            /\ n = Len(stack[g]) /\ Len(stack'[g]) = n
            /\ Top(g) = stack[g][n]
            /\ stack'[g][n] = f
            /\ \A i \in 1..(n - 1) : stack'[g][i] = stack[g][i]
            /\ \A h \in Goroutines \ {g} : stack'[h] = stack[h]
    BY BecomeStack DEF Top
  <1>2. \A h \in Goroutines \ {g} : Linked(stack'[h], ret'[h], S, W2, G2)
    BY <1>1 DEF Linked
  <1>l. /\ \A i \in 1..n : stack[g][i] \in S
        /\ \A i \in 1..n : i + 1 \in 1..n => <<stack[g][i], stack[g][i + 1]>> \in W
    <2>1. Linked(stack[g], ret[g], S, W, G) /\ n = Len(stack[g])
      BY <1>1
    <2> QED BY <2>1 DEF Linked
  <1>3. \A i \in 1..n : stack'[g][i] \in S
    <2> SUFFICES ASSUME NEW i \in 1..n PROVE stack'[g][i] \in S
      OBVIOUS
    <2> QED BY <1>1, <1>l
  <1>4. ASSUME NEW i \in 1..n, i + 1 \in 1..n PROVE <<stack'[g][i], stack'[g][i + 1]>> \in W2
    <2>1. <<stack[g][i], stack[g][i + 1]>> \in W /\ stack'[g][i] = stack[g][i]
      BY <1>1, <1>4, <1>l
    <2>2. CASE i + 1 = n
      <3>1. <<stack[g][i], Top(g)>> \in W /\ stack'[g][i + 1] = f
        BY <1>1, <2>1, <2>2
      <3> QED BY <2>1, <3>1
    <2>3. CASE i + 1 # n
      <3>1. i + 1 \in 1..(n - 1)
        BY <1>4, <2>3
      <3>2. stack'[g][i + 1] = stack[g][i + 1]
        BY <1>1, <3>1
      <3> QED BY <2>1, <3>2
    <2> QED BY <2>2, <2>3
  <1>5. Linked(stack'[g], ret'[g], S, W2, G2)
    BY <1>1, <1>3, <1>4 DEF Linked
  <1> QED BY <1>2, <1>5

LEMMA PushLinks ==
    ASSUME stack \in [Goroutines -> Seq(Frame)],
           NEW S, NEW W, NEW G, NEW W2, NEW G2, W \subseteq W2, G \subseteq G2,
           \A h \in Goroutines : Linked(stack[h], ret[h], S, W, G),
           NEW g \in Goroutines, stack[g] # <<>>,
           NEW f \in Frame, NEW c \in Frame, Push(g, f, c),
           \A h \in Goroutines \ {g} : ret'[h] = ret[h],
           f \in S, c \in S, \A b : <<b, Top(g)>> \in W => <<b, f>> \in W2,
           <<f, c>> \in W2, <<c, ret'[g]>> \in G2
    PROVE  \A h \in Goroutines : Linked(stack'[h], ret'[h], S, W2, G2)
  <1>1. PICK n \in Nat \ {0} :
            /\ n = Len(stack[g]) /\ Len(stack'[g]) = n + 1
            /\ Top(g) = stack[g][n]
            /\ stack'[g][n] = f /\ stack'[g][n + 1] = c
            /\ \A i \in 1..(n - 1) : stack'[g][i] = stack[g][i]
            /\ \A h \in Goroutines \ {g} : stack'[h] = stack[h]
    <2>1. /\ Len(stack[g]) \in Nat \ {0}
          /\ Len(stack'[g]) = Len(stack[g]) + 1
          /\ stack'[g][Len(stack[g]) + 1] = c
          /\ stack'[g][Len(stack[g])] = f
          /\ \A i \in 1..(Len(stack[g]) - 1) : stack'[g][i] = stack[g][i]
          /\ \A h \in Goroutines \ {g} : stack'[h] = stack[h]
      BY PushStack
    <2>2. Top(g) = stack[g][Len(stack[g])]
      BY DEF Top
    <2> QED BY <2>1, <2>2
  <1>2. \A h \in Goroutines \ {g} : Linked(stack'[h], ret'[h], S, W2, G2)
    BY <1>1 DEF Linked
  <1>l. /\ \A i \in 1..n : stack[g][i] \in S
        /\ \A i \in 1..n : i + 1 \in 1..n => <<stack[g][i], stack[g][i + 1]>> \in W
    <2>1. Linked(stack[g], ret[g], S, W, G) /\ n = Len(stack[g])
      BY <1>1
    <2> QED BY <2>1 DEF Linked
  <1>3. \A i \in 1..(n + 1) : stack'[g][i] \in S
    <2> SUFFICES ASSUME NEW i \in 1..(n + 1) PROVE stack'[g][i] \in S
      OBVIOUS
    <2> QED BY <1>1, <1>l
  <1>4. ASSUME NEW i \in 1..(n + 1), i + 1 \in 1..(n + 1)
        PROVE  <<stack'[g][i], stack'[g][i + 1]>> \in W2
    <2>1. CASE i = n
      BY <1>1, <2>1
    <2>2. CASE i # n
      <3>1. i \in 1..(n - 1) /\ i + 1 \in 1..n
        BY <1>4, <2>2
      <3>2. <<stack[g][i], stack[g][i + 1]>> \in W /\ stack'[g][i] = stack[g][i]
        BY <1>1, <1>l, <3>1
      <3>3. CASE i + 1 = n
        <4>1. <<stack[g][i], Top(g)>> \in W /\ stack'[g][i + 1] = f
          BY <1>1, <3>2, <3>3
        <4> QED BY <3>2, <4>1
      <3>4. CASE i + 1 # n
        <4>1. i + 1 \in 1..(n - 1)
          BY <3>1, <3>4
        <4>2. stack'[g][i + 1] = stack[g][i + 1]
          BY <1>1, <4>1
        <4> QED BY <3>2, <4>2
      <3> QED BY <3>3, <3>4
    <2> QED BY <2>1, <2>2
  <1>5. Linked(stack'[g], ret'[g], S, W2, G2)
    <2>1. stack'[g] # <<>> => <<stack'[g][Len(stack'[g])], ret'[g]>> \in G2
      BY <1>1
    <2> QED BY <1>1, <1>3, <1>4, <2>1 DEF Linked
  <1> QED BY <1>2, <1>5

LEMMA ReturnLinks ==
    ASSUME stack \in [Goroutines -> Seq(Frame)], DOMAIN ret = Goroutines,
           NEW S, NEW W, NEW G, NEW W2, NEW G2, W \subseteq W2, G \subseteq G2,
           \A h \in Goroutines : Linked(stack[h], ret[h], S, W, G),
           NEW g \in Goroutines, stack[g] # <<>>, NEW r, Return(g, r),
           \A b : <<b, Top(g)>> \in W => <<b, r>> \in G2
    PROVE  \A h \in Goroutines : Linked(stack'[h], ret'[h], S, W2, G2)
  <1>1. PICK n \in Nat \ {0} :
            /\ n = Len(stack[g]) /\ Len(stack'[g]) = n - 1
            /\ Top(g) = stack[g][n]
            /\ \A i \in 1..(n - 1) : stack'[g][i] = stack[g][i]
            /\ \A h \in Goroutines \ {g} : stack'[h] = stack[h]
    BY ReturnStack DEF Top
  <1>r. ret' = [ret EXCEPT ![g] = r]
    BY DEF Return
  <1>s. ret'[g] = r /\ \A h \in Goroutines \ {g} : ret'[h] = ret[h]
    BY <1>r
  <1>2. \A h \in Goroutines \ {g} : Linked(stack'[h], ret'[h], S, W2, G2)
    BY <1>1, <1>s DEF Linked
  <1>l. /\ \A i \in 1..n : stack[g][i] \in S
        /\ \A i \in 1..n : i + 1 \in 1..n => <<stack[g][i], stack[g][i + 1]>> \in W
    <2>1. Linked(stack[g], ret[g], S, W, G) /\ n = Len(stack[g])
      BY <1>1
    <2> QED BY <2>1 DEF Linked
  <1>3. \A i \in 1..(n - 1) : stack'[g][i] \in S
    <2> SUFFICES ASSUME NEW i \in 1..(n - 1) PROVE stack'[g][i] \in S
      OBVIOUS
    <2> QED BY <1>1, <1>l
  <1>4. \A i \in 1..(n - 1) : i + 1 \in 1..(n - 1) => <<stack'[g][i], stack'[g][i + 1]>> \in W2
    BY <1>1, <1>l
  <1>5. ASSUME stack'[g] # <<>> PROVE <<stack'[g][n - 1], r>> \in G2
    <2>1. stack' \in [Goroutines -> Seq(Frame)]
      BY ReturnStack
    <2>2. n - 1 \in Nat /\ n - 1 # 0
      <3>1. Len(stack'[g]) # 0
        BY <1>5, <2>1, EmptySeq
      <3> QED BY <1>1, <3>1
    <2>3. n - 1 \in 1..n /\ n - 1 + 1 \in 1..n /\ n - 1 + 1 = n /\ n - 1 \in 1..(n - 1)
      BY <2>2
    <2>4. <<stack[g][n - 1], Top(g)>> \in W
      BY <1>1, <1>l, <2>3
    <2> QED BY <1>1, <2>3, <2>4
  <1>6. Linked(stack'[g], ret'[g], S, W2, G2)
    BY <1>1, <1>s, <1>3, <1>4, <1>5 DEF Linked
  <1> QED BY <1>2, <1>6

-----------------------------------------------------------------------------
(* What is reached from a registration.                                    *)

LEMMA TurnsToTypes ==
    \A s \in ScopeSet : \A x : /\ TurnsTo(s, x) \subseteq Types
                               /\ \A y \in TurnsTo(s, x) : x \in DOMAIN Regs[s]
  BY DEF TurnsTo

LEMMA UsesLeast ==
    ASSUME NEW s \in ScopeSet, NEW x \in Types
    PROVE  /\ Uses[s][x] \subseteq Types
           /\ \A u \in Uses[s][x] \cup {x} : TurnsTo(s, u) \subseteq Uses[s][x]
           /\ \A S \in SUBSET Types :
                 (\A u \in S \cup {x} : TurnsTo(s, u) \subseteq S) => Uses[s][x] \subseteq S
  <1>1. Uses[s][x] = {y \in Types : \A S \in SUBSET Types :
                          (\A u \in S \cup {x} : TurnsTo(s, u) \subseteq S) => y \in S}
    BY DEF Uses
  <1>2. ASSUME NEW u \in Uses[s][x] \cup {x}, NEW y \in TurnsTo(s, u),
               NEW S \in SUBSET Types, \A w \in S \cup {x} : TurnsTo(s, w) \subseteq S
        PROVE  y \in S
    BY <1>1, <1>2
  <1>3. \A u \in Uses[s][x] \cup {x} : TurnsTo(s, u) \subseteq Uses[s][x]
    BY <1>1, <1>2, TurnsToTypes
  <1>4. ASSUME NEW S \in SUBSET Types, \A u \in S \cup {x} : TurnsTo(s, u) \subseteq S
        PROVE  Uses[s][x] \subseteq S
    BY <1>1, <1>4
  <1>5. Uses[s][x] \subseteq Types
    BY <1>1
  <1> QED BY <1>3, <1>4, <1>5

\* What is reached is reached by way of what is turned to directly.
LEMMA UsesByWay ==
    ASSUME NEW s \in ScopeSet, NEW x \in Types, NEW y \in Uses[s][x]
    PROVE  \E d \in TurnsTo(s, x) : y \in Under(s, d)
  <1> DEFINE S == {w \in Types : \E d \in TurnsTo(s, x) : w \in Under(s, d)}
  <1>1. S \in SUBSET Types
    OBVIOUS
  <1>2. ASSUME NEW u \in S \cup {x}, NEW w \in TurnsTo(s, u) PROVE w \in S
    <2>1. w \in Types
      BY TurnsToTypes
    <2>2. CASE u = x
      BY <2>1, <2>2 DEF Under
    <2>3. CASE u \in S
      <3>1. PICK d \in TurnsTo(s, x) : u \in Under(s, d)
        BY <2>3
      <3>2. d \in Types
        BY TurnsToTypes
      <3>3. u \in Uses[s][d] \cup {d}
        BY <3>1 DEF Under
      <3>4. w \in Uses[s][d]
        BY <3>2, <3>3, UsesLeast
      <3> QED BY <2>1, <3>1, <3>4 DEF Under
    <2> QED BY <2>2, <2>3
  <1>3. \A u \in S \cup {x} : TurnsTo(s, u) \subseteq S
    BY <1>2
  <1>4. Uses[s][x] \subseteq S
    <2> HIDE DEF S
    <2> QED BY <1>1, <1>3, UsesLeast
  <1> QED BY <1>4

\* An alias covers nothing but what it stands for, and a type nobody registers,
\* or registers by value, covers nothing; a factory covers what it asks for.
LEMMA UnderWhat ==
    ASSUME NEW s \in ScopeSet, NEW t \in Types
    PROVE  /\ t \notin DOMAIN Regs[s] => \A y \in Under(s, t) : ~ Scoped(s, y)
           /\ t \in DOMAIN Regs[s] =>
                 /\ Regs[s][t].kind = "instance" => \A y \in Under(s, t) : ~ Scoped(s, y)
                 /\ Regs[s][t].kind = "alias" =>
                       \A y \in Under(s, t) : Scoped(s, y) => y \in Under(s, Regs[s][t].target)
                 /\ Regs[s][t].kind = "scoped" =>
                       \A y \in Under(s, t) : y = t \/ \E d \in Regs[s][t].needs : y \in Under(s, d)
  <1>0. \A y \in Under(s, t) : y = t \/ \E d \in TurnsTo(s, t) : y \in Under(s, d)
    BY UsesByWay DEF Under
  <1>1. ASSUME t \notin DOMAIN Regs[s] PROVE \A y \in Under(s, t) : ~ Scoped(s, y)
    BY <1>0, <1>1, TurnsToTypes DEF Scoped
  <1>2. ASSUME t \in DOMAIN Regs[s], Regs[s][t].kind = "instance"
        PROVE  \A y \in Under(s, t) : ~ Scoped(s, y)
    <2>1. TurnsTo(s, t) = {}
      BY <1>2 DEF TurnsTo, Reg
    <2> QED BY <1>0, <1>2, <2>1 DEF Scoped
  <1>3. ASSUME t \in DOMAIN Regs[s], Regs[s][t].kind = "alias", NEW y \in Under(s, t), Scoped(s, y)
        PROVE  y \in Under(s, Regs[s][t].target)
    <2>1. \A d \in TurnsTo(s, t) : d = Regs[s][t].target
      BY <1>3 DEF TurnsTo, Reg
    <2>2. y # t
      BY <1>3 DEF Scoped
    <2> QED BY <1>0, <1>3, <2>1, <2>2
  <1>4. ASSUME t \in DOMAIN Regs[s], Regs[s][t].kind = "scoped", NEW y \in Under(s, t)
        PROVE  y = t \/ \E d \in Regs[s][t].needs : y \in Under(s, d)
    <2>1. \A d \in TurnsTo(s, t) : d \in Regs[s][t].needs
      BY <1>4 DEF TurnsTo, Reg
    <2> QED BY <1>0, <1>4, <2>1
  <1> QED BY <1>1, <1>2, <1>3, <1>4

-----------------------------------------------------------------------------
(* What stands stays, and what a call is handed by the one it waits for.   *)

LEMMA StandsStays ==
    ASSUME IInv, [Next]_vars
    PROVE  /\ \A s \in ScopeSet : \A t : Stands(entry, s, t) => Stands(entry', s, t)
           /\ \A s \in ScopeSet : \A c, t : Brings(entry, c, s, t) => Brings(entry', c, s, t)
           /\ Waits(entry) \subseteq Waits(entry')
           /\ Given(entry) \subseteq Given(entry')
  <1>1. ASSUME NEW s \in ScopeSet, NEW t, Stands(entry, s, t) PROVE Stands(entry', s, t)
    <2> SUFFICES ASSUME NEW y \in Under(s, t), Scoped(s, y) PROVE entry'[s][y] # None
      BY DEF Stands
    <2>1. y \in Types
      BY RegsAssumption DEF Scoped
    <2>2. entry[s][y] # None
      BY <1>1 DEF Stands
    <2> QED BY <2>1, <2>2, StepKeepsInstances
  <1>2. \A s \in ScopeSet : \A c, t : Brings(entry, c, s, t) => Brings(entry', c, s, t)
    BY <1>1 DEF Brings
  <1>3. Waits(entry) \subseteq Waits(entry')
    BY <1>2 DEF Waits, SoundCalls, BagAt
  <1>4. Given(entry) \subseteq Given(entry')
    BY <1>1 DEF Given, SoundCalls, BagAt
  <1> QED BY <1>1, <1>2, <1>3, <1>4

LEMMA WaitsForAnother ==
    ASSUME NEW e, NEW e2, NEW c, NEW f \in Frame,
           \A s \in ScopeSet : \A t : Brings(e, c, s, t) => Brings(e2, f, s, t)
    PROVE  \A b : <<b, c>> \in Waits(e) => <<b, f>> \in Waits(e2)
  BY DEF Waits, SoundCalls, BagAt

LEMMA GivenAnswer ==
    ASSUME NEW e, NEW e2, NEW c, NEW r \in Results,
           \A s \in ScopeSet : \A t : Brings(e, c, s, t) => Stands(e2, s, t)
    PROVE  \A b : <<b, c>> \in Waits(e) => <<b, r>> \in Given(e2)
  BY DEF Waits, Given, SoundCalls, BagAt

LEMMA GivenPanic ==
    ASSUME NEW e, NEW e2, NEW c
    PROVE  \A b : <<b, c>> \in Waits(e) => <<b, Panic>> \in Given(e2)
  BY ResultFacts DEF Waits, Given

\* A call in the stage brings nothing that is not there.
LEMMA StageBrings ==
    ASSUME NEW e, NEW c, c.at \in StageAt
    PROVE  \A s, t : Brings(e, c, s, t) => Stands(e, s, t)
  BY DEF Brings, Resolves, StageAt, BagAt

\* A container's call that ends with what it was asked for standing.
LEMMA ScopeBrings ==
    ASSUME NEW e, NEW e2, NEW c, Stands(e2, c.scope, c.typ),
           \A s \in ScopeSet : \A t : Stands(e, s, t) => Stands(e2, s, t)
    PROVE  \A s \in ScopeSet : \A t : Brings(e, c, s, t) => Stands(e2, s, t)
  BY DEF Brings, Resolves, Stands

LEMMA CallsLinkedPrime ==
    ASSUME \A g \in Goroutines :
               Linked(stack'[g], ret'[g], SoundCalls, Waits(entry'), Given(entry'))
    PROVE  CallsLinked'
  BY DEF CallsLinked, Linked, Waits, Given, Brings, Resolves, Stands, Asked, SoundCalls

LEMMA TopLinked ==
    ASSUME IInv, CallsLinked, NEW g \in Goroutines, stack[g] # <<>>
    PROVE  /\ Top(g) \in SoundCalls /\ Top(g) \in Frame
           /\ <<Top(g), ret[g]>> \in Given(entry)
           /\ ret[g] \in Results
  <1>1. Len(stack[g]) \in 1..Len(stack[g]) /\ Top(g) = stack[g][Len(stack[g])] /\ Top(g) \in Frame
    BY TopIsFrame DEF IInv, TypeOK
  <1>2. Linked(stack[g], ret[g], SoundCalls, Waits(entry), Given(entry))
    BY DEF CallsLinked
  <1>3. Top(g) \in SoundCalls /\ <<Top(g), ret[g]>> \in Given(entry)
    BY <1>1, <1>2 DEF Linked
  <1> QED BY <1>1, <1>3 DEF IInv, TypeOK

LEMMA BecomeKeepsCalls ==
    ASSUME IInv, CallsLinked, [Next]_vars,
           NEW g \in Goroutines, stack[g] # <<>>, NEW f \in SoundCalls, Become(g, f),
           \A h \in Goroutines \ {g} : ret'[h] = ret[h],
           \A s \in ScopeSet : \A t : Brings(entry, Top(g), s, t) => Brings(entry', f, s, t),
           <<f, ret'[g]>> \in Given(entry')
    PROVE  CallsLinked'
  <1>1. stack \in [Goroutines -> Seq(Frame)] /\ f \in Frame
    BY DEF IInv, TypeOK, SoundCalls
  <1>2. \A b : <<b, Top(g)>> \in Waits(entry) => <<b, f>> \in Waits(entry')
    BY <1>1, WaitsForAnother
  <1>3. \A h \in Goroutines :
            Linked(stack'[h], ret'[h], SoundCalls, Waits(entry'), Given(entry'))
    BY <1>1, <1>2, StandsStays, BecomeLinks DEF CallsLinked
  <1> QED BY <1>3, CallsLinkedPrime

LEMMA PushKeepsCalls ==
    ASSUME IInv, CallsLinked, [Next]_vars,
           NEW g \in Goroutines, stack[g] # <<>>,
           NEW f \in SoundCalls, NEW c \in SoundCalls, Push(g, f, c),
           \A h \in Goroutines \ {g} : ret'[h] = ret[h],
           \A s \in ScopeSet : \A t : Brings(entry, Top(g), s, t) => Brings(entry', f, s, t),
           <<f, c>> \in Waits(entry'), <<c, ret'[g]>> \in Given(entry')
    PROVE  CallsLinked'
  <1>1. stack \in [Goroutines -> Seq(Frame)] /\ f \in Frame /\ c \in Frame
    BY DEF IInv, TypeOK, SoundCalls
  <1>2. \A b : <<b, Top(g)>> \in Waits(entry) => <<b, f>> \in Waits(entry')
    BY <1>1, WaitsForAnother
  <1>3. \A h \in Goroutines :
            Linked(stack'[h], ret'[h], SoundCalls, Waits(entry'), Given(entry'))
    BY <1>1, <1>2, StandsStays, PushLinks DEF CallsLinked
  <1> QED BY <1>3, CallsLinkedPrime

LEMMA ReturnKeepsCalls ==
    ASSUME IInv, CallsLinked, [Next]_vars,
           NEW g \in Goroutines, stack[g] # <<>>, NEW r, Return(g, r),
           \A b : <<b, Top(g)>> \in Waits(entry) => <<b, r>> \in Given(entry')
    PROVE  CallsLinked'
  <1>1. stack \in [Goroutines -> Seq(Frame)] /\ DOMAIN ret = Goroutines
    BY DEF IInv, TypeOK
  <1>2. \A h \in Goroutines :
            Linked(stack'[h], ret'[h], SoundCalls, Waits(entry'), Given(entry'))
    BY <1>1, StandsStays, ReturnLinks DEF CallsLinked
  <1> QED BY <1>2, CallsLinkedPrime

-----------------------------------------------------------------------------
(* One lemma per action that moves a call.                                 *)

LEMMA AskCalls ==
    ASSUME IInv, CallsLinked, [Next]_vars, NEW g \in Goroutines, NEW t \in Types, Ask(g, t)
    PROVE  CallsLinked'
  <1>1. PICK c : c = StageCall(t, {})
    OBVIOUS
  <1>2. c.at = "cached" /\ c \in Frame
    BY <1>1, StageCallFacts DEF FrameOK
  <1>3. /\ stack' = [stack EXCEPT ![g] = <<c>>] /\ stack \in [Goroutines -> Seq(Frame)]
        /\ ret' = [ret EXCEPT ![g] = Running] /\ ret \in [Goroutines -> Results]
    BY <1>1 DEF Ask, IInv, TypeOK
  <1>4. /\ stack'[g] = <<c>> /\ ret'[g] = Running
        /\ \A h \in Goroutines \ {g} : stack'[h] = stack[h] /\ ret'[h] = ret[h]
    BY <1>3
  <1>5. c \in SoundCalls /\ <<c, Running>> \in Given(entry')
    BY <1>2, ResultFacts DEF SoundCalls, Given, BagAt
  <1>6. Linked(stack'[g], ret'[g], SoundCalls, Waits(entry'), Given(entry'))
    <2>1. Len(<<c>>) = 1 /\ <<c>>[1] = c
      OBVIOUS
    <2>2. \A i \in 1..1 : i = 1 /\ i + 1 \notin 1..1
      OBVIOUS
    <2> QED BY <1>4, <1>5, <2>1, <2>2 DEF Linked
  <1>7. \A h \in Goroutines \ {g} :
            Linked(stack'[h], ret'[h], SoundCalls, Waits(entry'), Given(entry'))
    BY <1>4, StandsStays DEF CallsLinked, Linked
  <1> QED BY <1>6, <1>7, CallsLinkedPrime

\* A call in the stage that goes on, asks a scope, or answers.
LEMMA StageCalls ==
    ASSUME IInv, CallsLinked, [Next]_vars, NEW g \in Goroutines,
           Cached(g) \/ Snapshot(g) \/ Scan(g) \/ Remember(g)
    PROVE  CallsLinked'
  <1>1. stack[g] # <<>> /\ Top(g).at \in StageAt
    BY DEF Cached, Snapshot, Scan, Remember, In, StageAt
  <1>2. PICK f : f = Top(g)
    OBVIOUS
  <1>3. /\ f \in SoundCalls /\ f \in Frame /\ ret[g] \in Results
        /\ f.typ \in Types /\ f.path \in SUBSET Types /\ f.rest \in Seq(ScopeSet)
    BY <1>1, <1>2, TopLinked DEF Frame
  <1>4. \A s \in ScopeSet : \A t : Brings(entry, f, s, t) => Stands(entry', s, t)
    BY <1>1, <1>2, StageBrings, StandsStays
  <1>5. ASSUME NEW r \in Results, Return(g, r) PROVE CallsLinked'
    <2>1. \A b : <<b, f>> \in Waits(entry) => <<b, r>> \in Given(entry')
      BY <1>4, GivenAnswer
    <2> QED BY <1>1, <1>2, <1>5, <2>1, ReturnKeepsCalls
  <1>6. ASSUME NEW c \in Frame, c.at \in StageAt PROVE
            /\ c \in SoundCalls
            /\ \A s \in ScopeSet : \A t : Brings(entry, f, s, t) => Brings(entry', c, s, t)
            /\ \A r \in Results : <<c, r>> \in Given(entry')
    BY <1>4, <1>6 DEF SoundCalls, Given, Brings, StageAt, BagAt
  <1>7. CASE Cached(g)
    <2>1. CASE cache[f.typ] # None /\ Return(g, Value(cache[f.typ]))
      <3>1. cache[f.typ] \in Instances
        BY <1>3, <2>1 DEF IInv, TypeOK
      <3> QED BY <1>5, <2>1, <3>1, ResultFacts
    <2>2. CASE Goto(g, "snapshot") /\ ret' = ret
      <3>1. PICK c : c = [f EXCEPT !.at = "snapshot"]
        OBVIOUS
      <3>2. c \in Frame /\ c.at \in StageAt /\ Become(g, c)
        BY <1>2, <1>3, <2>2, <3>1 DEF Goto, Frame, StageAt
      <3> QED BY <1>1, <1>2, <1>3, <1>6, <2>2, <3>2, BecomeKeepsCalls
    <2> QED BY <1>2, <1>7, <2>1, <2>2 DEF Cached
  <1>8. CASE Snapshot(g)
    <2>1. PICK c : c = [f EXCEPT !.at = "scan", !.rest = scopes]
      OBVIOUS
    <2>2. c \in Frame /\ c.at \in StageAt /\ Become(g, c) /\ ret' = ret
      BY <1>2, <1>3, <1>8, <2>1 DEF Snapshot, Frame, StageAt, IInv, TypeOK
    <2> QED BY <1>1, <1>2, <1>3, <1>6, <2>2, BecomeKeepsCalls
  <1>9. CASE Scan(g)
    <2>1. CASE Return(g, Absent)
      BY <1>5, <2>1, ResultFacts
    <2>2. CASE /\ f.rest # <<>>
               /\ Push(g, [f EXCEPT !.rest = Tail(f.rest)],
                       ResolveCall(Head(f.rest), f.typ, f.path))
               /\ ret' = [ret EXCEPT ![g] = Running]
      <3>1. Head(f.rest) \in ScopeSet /\ Tail(f.rest) \in Seq(ScopeSet)
        <4>1. PICK q \in Seq(ScopeSet) : q = f.rest /\ q # <<>>
          BY <1>3, <2>2
        <4> QED BY <4>1, HeadTailProperties
      <3>2. PICK e, c : /\ e = [f EXCEPT !.rest = Tail(f.rest)]
                        /\ c = ResolveCall(Head(f.rest), f.typ, f.path)
        OBVIOUS
      <3>3. e \in Frame /\ e.at \in StageAt
        BY <1>1, <1>2, <1>3, <3>1, <3>2 DEF Frame
      <3>4. c \in Frame /\ c.at = "resolve" /\ c.scope \in ScopeSet
        BY <1>3, <3>1, <3>2 DEF ResolveCall, Call, Frame, BagAt
      <3>5. c \in SoundCalls /\ <<c, Running>> \in Given(entry')
        BY <3>4, ResultFacts DEF SoundCalls, Given, BagAt
      <3>6. <<e, c>> \in Waits(entry')
        BY <1>6, <3>3, <3>4 DEF Waits, StageAt
      <3>7. ret'[g] = Running /\ \A h \in Goroutines \ {g} : ret'[h] = ret[h]
        BY <2>2 DEF IInv, TypeOK
      <3>8. Push(g, e, c)
        BY <2>2, <3>2
      <3> QED BY <1>1, <1>2, <1>6, <3>3, <3>5, <3>6, <3>7, <3>8, PushKeepsCalls
    <2> QED BY <1>2, <1>9, <2>1, <2>2 DEF Scan
  <1>10. CASE Remember(g)
    <2>1. PICK v : /\ v = IF cache[f.typ] # None THEN cache[f.typ] ELSE ret[g].inst
                   /\ Return(g, Value(v)) /\ ret[g].tag = "value"
      BY <1>2, <1>10 DEF Remember
    <2>2. v \in Instances
      BY <1>3, <2>1, ResultFacts DEF IInv, TypeOK
    <2> QED BY <1>5, <2>1, <2>2, ResultFacts
  <1> QED BY <1>7, <1>8, <1>9, <1>10

LEMMA ThroughCalls ==
    ASSUME IInv, CallsLinked, [Next]_vars, NEW g \in Goroutines, Through(g)
    PROVE  CallsLinked'
  <1>1. stack[g] # <<>> /\ Top(g).at = "through"
    BY DEF Through, In
  <1>2. PICK f : f = Top(g)
    OBVIOUS
  <1>3. /\ f \in SoundCalls /\ f \in Frame /\ ret[g] \in Results /\ f.at = "through"
        /\ f.scope \in ScopeSet /\ f.typ \in Types /\ f.path \in SUBSET Types
        /\ <<f, ret[g]>> \in Given(entry)
    BY <1>1, <1>2, TopLinked DEF Frame, SoundCalls
  <1>4. ret[g].tag \in {"value", "absent"} => Stands(entry', f.scope, f.typ)
    BY <1>3, StandsStays DEF Given
  <1>5. CASE Push(g, f, ResolveCall(f.scope, f.typ, f.path)) /\ ret' = ret /\ ret[g] = Running
    <2>1. PICK c : c = ResolveCall(f.scope, f.typ, f.path)
      OBVIOUS
    <2>2. c \in Frame /\ c.at = "resolve" /\ c.scope = f.scope /\ c.typ = f.typ
      BY <1>3, <2>1 DEF ResolveCall, Call, Frame, BagAt
    <2>3. c \in SoundCalls /\ <<c, ret'[g]>> \in Given(entry')
      BY <1>3, <1>5, <2>2 DEF SoundCalls, Given, BagAt
    <2>4. Brings(entry', c, f.scope, f.typ)
      BY <2>2 DEF Brings, Resolves, BagAt
    <2>5. <<f, c>> \in Waits(entry')
      BY <1>3, <2>2, <2>4 DEF Waits
    <2> QED BY <1>1, <1>2, <1>3, <1>5, <2>1, <2>3, <2>5, StandsStays, PushKeepsCalls
  <1>6. CASE ret[g].tag = "value" /\ Return(g, ret[g])
    <2>1. \A s \in ScopeSet : \A t : Brings(entry, f, s, t) => Stands(entry', s, t)
      BY <1>4, <1>6, StandsStays, ScopeBrings
    <2>2. \A b : <<b, f>> \in Waits(entry) => <<b, ret[g]>> \in Given(entry')
      BY <1>3, <2>1, GivenAnswer
    <2> QED BY <1>1, <1>2, <1>6, <2>2, ReturnKeepsCalls
  <1>7. CASE /\ ret[g] = Absent
             /\ Become(g, StageCall(f.typ, f.path))
             /\ ret' = [ret EXCEPT ![g] = Running]
    <2>1. PICK c : c = StageCall(f.typ, f.path)
      OBVIOUS
    <2>2. c \in Frame /\ c.at = "cached"
      BY <1>3, <2>1, StageCallFacts DEF FrameOK
    <2>3. c \in SoundCalls /\ <<c, Running>> \in Given(entry')
      BY <2>2, ResultFacts DEF SoundCalls, Given, BagAt
    <2>4. \A s \in ScopeSet : \A t : Brings(entry, f, s, t) => Stands(entry', s, t)
      BY <1>4, <1>7, ResultFacts, StandsStays, ScopeBrings
    <2>5. \A s \in ScopeSet : \A t : Brings(entry, f, s, t) => Brings(entry', c, s, t)
      BY <2>4 DEF Brings
    <2>6. ret'[g] = Running /\ \A h \in Goroutines \ {g} : ret'[h] = ret[h]
      BY <1>7 DEF IInv, TypeOK
    <2> QED BY <1>1, <1>2, <1>7, <2>1, <2>3, <2>5, <2>6, BecomeKeepsCalls
  <1> QED BY <1>2, <1>5, <1>6, <1>7 DEF Through

LEMMA ResolveCalls ==
    ASSUME IInv, CallsLinked, [Next]_vars, NEW g \in Goroutines, Resolve(g)
    PROVE  CallsLinked'
  <1>1. stack[g] # <<>> /\ Top(g).at = "resolve" /\ ret[g] = Running
    BY DEF Resolve, In
  <1>2. PICK f, s, t : f = Top(g) /\ s = f.scope /\ t = f.typ
    OBVIOUS
  <1>3. /\ f \in Frame /\ f.at = "resolve" /\ s \in ScopeSet /\ t \in Types
        /\ f.path \in SUBSET Types
    BY <1>1, <1>2, TopLinked DEF Frame, SoundCalls, BagAt
  \* It answers, and what it was asked for covers nothing there is to build.
  <1>4. ASSUME NEW r \in Results, Return(g, r), \A y \in Under(s, t) : ~ Scoped(s, y)
        PROVE  CallsLinked'
    <2>1. Stands(entry', f.scope, f.typ)
      BY <1>2, <1>4 DEF Stands
    <2>2. \A u \in ScopeSet : \A x : Brings(entry, f, u, x) => Stands(entry', u, x)
      BY <2>1, StandsStays, ScopeBrings
    <2>3. \A b : <<b, f>> \in Waits(entry) => <<b, r>> \in Given(entry')
      BY <1>4, <2>2, GivenAnswer
    <2> QED BY <1>1, <1>2, <1>4, <2>3, ReturnKeepsCalls
  \* It goes on, for the same type or for what an alias stands for.
  <1>5. ASSUME NEW c \in SoundCalls, Become(g, c), ret' = ret,
               c.at \in BagAt \cup {"through"}, c.at # "build", c.scope = s,
               \A y \in Under(s, t) : Scoped(s, y) => y \in Under(s, c.typ)
        PROVE  CallsLinked'
    <2>1. ret' [g] = Running /\ Running.tag = "running" /\ Running \in Results
      BY <1>1, <1>5, ResultFacts
    <2>2. <<c, ret'[g]>> \in Given(entry')
      BY <1>5, <2>1 DEF Given
    <2>3. \A u \in ScopeSet : \A x : Resolves(f, u, x) => Resolves(c, u, x)
      BY <1>2, <1>5 DEF Resolves
    <2>4. \A u \in ScopeSet : \A x : Brings(entry, f, u, x) => Brings(entry', c, u, x)
      BY <2>3, StandsStays DEF Brings
    <2> QED BY <1>1, <1>2, <1>5, <2>2, <2>4, BecomeKeepsCalls
  <1>6. CASE t \notin DOMAIN Regs[s] /\ Return(g, Absent)
    BY <1>3, <1>4, <1>6, UnderWhat, ResultFacts
  <1>7. CASE Return(g, Panic)
    BY <1>1, <1>7, GivenPanic, ReturnKeepsCalls
  <1>8. CASE /\ t \in DOMAIN Regs[s]
             /\ Reg(s, t).kind = "alias"
             /\ Become(g, ThroughCall(s, Reg(s, t).target, f.path \cup {t}))
             /\ ret' = ret
    <2>1. PICK c : c = ThroughCall(s, Regs[s][t].target, f.path \cup {t})
      OBVIOUS
    <2>2. Regs[s][t].target \in Types /\ f.path \cup {t} \in SUBSET Types /\ Regs[s][t].kind = "alias"
      BY <1>3, <1>8, RegsAssumption DEF Reg
    <2>3. c \in Frame /\ c.at = "through" /\ c.scope = s /\ c.typ = Regs[s][t].target
      BY <1>3, <2>1, <2>2 DEF ThroughCall, Call, Frame, BagAt
    <2>4. c \in SoundCalls /\ Become(g, c)
      BY <1>3, <1>8, <2>1, <2>3 DEF SoundCalls, Reg
    <2>5. \A y \in Under(s, t) : Scoped(s, y) => y \in Under(s, c.typ)
      BY <1>3, <1>8, <2>2, <2>3, UnderWhat
    <2> QED BY <1>5, <1>8, <2>3, <2>4, <2>5
  <1>9. CASE /\ t \in DOMAIN Regs[s]
             /\ Reg(s, t).kind = "instance"
             /\ Return(g, Value([scope |-> s, typ |-> t, run |-> 0]))
    <2>1. PICK v : v = [scope |-> s, typ |-> t, run |-> 0]
      OBVIOUS
    <2>2. v \in Instances
      BY <1>3, <2>1 DEF Instances
    <2>3. Value(v) \in Results /\ Return(g, Value(v))
      BY <1>9, <2>1, <2>2, ResultFacts
    <2>4. \A y \in Under(s, t) : ~ Scoped(s, y)
      BY <1>3, <1>9, UnderWhat DEF Reg
    <2> QED BY <1>4, <2>3, <2>4
  <1>10. CASE /\ t \in DOMAIN Regs[s]
              /\ Reg(s, t).kind = "scoped"
              /\ Goto(g, "entry")
              /\ ret' = ret
    <2>1. PICK c : c = [f EXCEPT !.at = "entry"]
      OBVIOUS
    <2>2. c \in Frame /\ c.at = "entry" /\ c.scope = s /\ c.typ = t /\ Become(g, c)
      BY <1>2, <1>3, <1>10, <2>1 DEF Goto, Frame, BagAt
    <2>3. c \in SoundCalls
      BY <1>3, <1>10, <2>2 DEF SoundCalls, Scoped, Reg
    <2> QED BY <1>5, <1>10, <2>2, <2>3 DEF BagAt
  <1> QED BY <1>2, <1>6, <1>7, <1>8, <1>9, <1>10 DEF Resolve

LEMMA EntryCalls ==
    ASSUME IInv, CallsLinked, BuiltOver, [Next]_vars, NEW g \in Goroutines,
           EntryFor(g) \/ LockBuilt(g)
    PROVE  CallsLinked'
  <1>1. stack[g] # <<>> /\ Top(g).at \in {"entry", "lock"}
    BY DEF EntryFor, LockBuilt, In
  <1>2. PICK f, s, t : f = Top(g) /\ s = f.scope /\ t = f.typ
    OBVIOUS
  <1>3. /\ f \in SoundCalls /\ f \in Frame /\ s \in ScopeSet /\ t \in Types
        /\ ret[g] \in Results /\ Scoped(s, t)
    BY <1>1, <1>2, TopLinked DEF Frame, SoundCalls, BagAt
  <1>4. CASE Return(g, Panic)
    BY <1>1, <1>4, GivenPanic, ReturnKeepsCalls
  <1>5. CASE Goto(g, "lock") /\ ret' = ret
    <2>1. PICK c : c = [f EXCEPT !.at = "lock"]
      OBVIOUS
    <2>2. c \in Frame /\ c.at = "lock" /\ c.scope = s /\ c.typ = t /\ Become(g, c)
      BY <1>2, <1>3, <1>5, <2>1 DEF Goto, Frame, BagAt
    <2>3. c \in SoundCalls /\ <<c, ret'[g]>> \in Given(entry')
      BY <1>3, <1>5, <2>2 DEF SoundCalls, Given
    <2>4. \A u \in ScopeSet : \A x : Resolves(f, u, x) => Resolves(c, u, x)
      BY <1>2, <2>2 DEF Resolves, BagAt
    <2>5. \A u \in ScopeSet : \A x : Brings(entry, f, u, x) => Brings(entry', c, u, x)
      BY <2>4, StandsStays DEF Brings
    <2> QED BY <1>1, <1>2, <1>5, <2>2, <2>3, <2>5, BecomeKeepsCalls
  <1>6. CASE entry[s][t] # None /\ Return(g, Value(entry[s][t]))
    <2>1. Stands(entry, s, t)
      BY <1>3, <1>6 DEF BuiltOver
    <2>2. Stands(entry', f.scope, f.typ)
      BY <1>2, <1>3, <2>1, StandsStays
    <2>3. entry[s][t] \in Instances
      BY <1>3, <1>6 DEF IInv, TypeOK
    <2>4. Value(entry[s][t]) \in Results
      BY <2>3, ResultFacts
    <2>5. \A u \in ScopeSet : \A x : Brings(entry, f, u, x) => Stands(entry', u, x)
      BY <2>2, StandsStays, ScopeBrings
    <2>6. \A b : <<b, f>> \in Waits(entry) => <<b, Value(entry[s][t])>> \in Given(entry')
      BY <2>4, <2>5, GivenAnswer
    <2> QED BY <1>1, <1>2, <1>6, <2>6, ReturnKeepsCalls
  <1> QED BY <1>2, <1>4, <1>5, <1>6 DEF EntryFor, LockBuilt

LEMMA LockAndBuildCalls ==
    ASSUME IInv, CallsLinked, [Next]_vars, NEW g \in Goroutines, LockAndBuild(g)
    PROVE  CallsLinked'
  <1>1. stack[g] # <<>> /\ Top(g).at = "lock" /\ ret' = ret
    BY DEF LockAndBuild, In
  <1>2. PICK f, s, t : f = Top(g) /\ s = f.scope /\ t = f.typ
    OBVIOUS
  <1>3. /\ f \in SoundCalls /\ f \in Frame /\ s \in ScopeSet /\ Scoped(s, t) /\ ret[g] \in Results
    BY <1>1, <1>2, TopLinked DEF SoundCalls, BagAt
  <1>4. Regs[s][t].needs \subseteq Types
    BY <1>3, RegsAssumption DEF Registration, Scoped
  <1>5. PICK c : c = [[f EXCEPT !.at = "build"] EXCEPT !.todo = Regs[s][t].needs]
    OBVIOUS
  <1>6. /\ c \in Frame /\ c.at = "build" /\ c.scope = s /\ c.typ = t
        /\ c.todo = Regs[s][t].needs
    <2>1. PICK d : d = [f EXCEPT !.at = "build"]
      OBVIOUS
    <2>2. d \in Frame /\ d.at = "build" /\ d.scope = f.scope /\ d.typ = f.typ
      BY <1>3, <2>1 DEF Frame, BagAt
    <2>3. c = [d EXCEPT !.todo = Regs[s][t].needs]
      BY <1>5, <2>1
    <2> HIDE <1>5
    <2> QED BY <1>2, <1>4, <2>2, <2>3 DEF Frame
  <1>7. Become(g, c)
    BY <1>2, <1>5 DEF LockAndBuild, Reg
  <1>8. Asked(c) = {}
    BY <1>6 DEF Asked
  <1>9. c \in SoundCalls /\ <<c, ret'[g]>> \in Given(entry')
    BY <1>1, <1>3, <1>6, <1>8 DEF SoundCalls, Given
  <1>10. \A u \in ScopeSet : \A x : Resolves(f, u, x) => Resolves(c, u, x)
    BY <1>2, <1>6 DEF Resolves, BagAt
  <1>11. \A u \in ScopeSet : \A x : Brings(entry, f, u, x) => Brings(entry', c, u, x)
    BY <1>10, StandsStays DEF Brings
  <1> QED BY <1>1, <1>2, <1>7, <1>9, <1>11, BecomeKeepsCalls

LEMMA FactoryAsksCalls ==
    ASSUME IInv, CallsLinked, [Next]_vars, NEW g \in Goroutines, FactoryAsks(g)
    PROVE  CallsLinked'
  <1>1. stack[g] # <<>> /\ Top(g).at = "build" /\ ret[g] = Running /\ ret' = ret
    BY DEF FactoryAsks, In
  <1>2. PICK f : f = Top(g)
    OBVIOUS
  <1>3. /\ f \in SoundCalls /\ f \in Frame /\ f.at = "build" /\ f.scope \in ScopeSet
        /\ f.typ \in Types /\ f.path \in SUBSET Types /\ f.todo \in SUBSET Types
        /\ Scoped(f.scope, f.typ) /\ <<f, ret[g]>> \in Given(entry) /\ ret[g] \in Results
    BY <1>1, <1>2, TopLinked DEF Frame, SoundCalls, BagAt
  <1>4. PICK d \in f.todo :
            Push(g, [f EXCEPT !.todo = @ \ {d}], ThroughCall(f.scope, d, f.path \cup {f.typ}))
    BY <1>2 DEF FactoryAsks
  <1>5. PICK e, c : /\ e = [f EXCEPT !.todo = f.todo \ {d}]
                    /\ c = ThroughCall(f.scope, d, f.path \cup {f.typ})
    OBVIOUS
  <1>6. d \in Types /\ f.path \cup {f.typ} \in SUBSET Types /\ f.todo \ {d} \in SUBSET Types
    BY <1>3
  <1>7. /\ e \in Frame /\ e.at = "build" /\ e.scope = f.scope /\ e.typ = f.typ
        /\ e.todo = f.todo \ {d}
    BY <1>3, <1>5, <1>6 DEF Frame
  <1>8. c \in Frame /\ c.at = "through" /\ c.scope = f.scope /\ c.typ = d
    BY <1>3, <1>5, <1>6 DEF ThroughCall, Call, Frame, BagAt
  <1>9. Push(g, e, c)
    BY <1>4, <1>5
  <1>10. e \in SoundCalls /\ c \in SoundCalls /\ <<c, ret'[g]>> \in Given(entry')
    BY <1>1, <1>3, <1>7, <1>8, ResultFacts DEF SoundCalls, Given, BagAt
  \* What it asked for before stands; what it asks for now, c resolves.
  <1>11. <<e, c>> \in Waits(entry')
    <2> SUFFICES ASSUME NEW x \in Asked(e) PROVE Brings(entry', c, e.scope, x)
      BY <1>7, <1>8, <1>10 DEF Waits
    <2>1. CASE x = d
      BY <1>7, <1>8, <2>1 DEF Brings, Resolves
    <2>2. CASE x # d
      <3>1. x \in Asked(f)
        BY <1>7, <2>2 DEF Asked
      <3>2. Stands(entry, f.scope, x)
        BY <1>1, <1>3, <3>1, ResultFacts DEF Given
      <3> QED BY <1>3, <1>7, <3>2, StandsStays DEF Brings
    <2> QED BY <2>1, <2>2
  <1>12. \A u \in ScopeSet : \A x : Resolves(f, u, x) => Resolves(e, u, x)
    BY <1>3, <1>7 DEF Resolves, BagAt
  <1>13. \A u \in ScopeSet : \A x : Brings(entry, f, u, x) => Brings(entry', e, u, x)
    BY <1>12, StandsStays DEF Brings
  <1> QED BY <1>1, <1>2, <1>9, <1>10, <1>11, <1>13, PushKeepsCalls

LEMMA FactoryStaysCalls ==
    ASSUME IInv, CallsLinked, [Next]_vars, NEW g \in Goroutines,
           FactoryGets(g) \/ FactoryPanics(g)
    PROVE  CallsLinked'
  <1>1. stack[g] # <<>> /\ Top(g).at = "build" /\ stack' = stack
    BY DEF FactoryGets, FactoryPanics, In
  <1>2. /\ \A h \in Goroutines \ {g} : ret'[h] = ret[h]
        /\ \/ ret'[g] = Panic
           \/ ret'[g] = Running /\ ret[g].tag # "panic"
    BY ResultFacts DEF FactoryGets, FactoryPanics, IInv, TypeOK
  <1>3. <<Top(g), ret[g]>> \in Given(entry)
    BY <1>1, TopLinked
  <1>4. <<Top(g), ret'[g]>> \in Given(entry)
    BY <1>1, <1>2, <1>3, ResultFacts DEF Given
  <1>5. \A h \in Goroutines : Linked(stack[h], ret[h], SoundCalls, Waits(entry'), Given(entry'))
    BY StandsStays DEF CallsLinked, Linked
  <1>6. Top(g) = stack[g][Len(stack[g])] /\ <<Top(g), ret'[g]>> \in Given(entry')
    BY <1>4, StandsStays DEF Top
  <1>7. ASSUME NEW h \in Goroutines
        PROVE  Linked(stack'[h], ret'[h], SoundCalls, Waits(entry'), Given(entry'))
    <2>1. CASE h # g
      BY <1>1, <1>2, <1>5, <2>1
    <2>2. CASE h = g
      BY <1>1, <1>5, <1>6, <2>2 DEF Linked
    <2> QED BY <2>1, <2>2
  <1> QED BY <1>7, CallsLinkedPrime

\* When a factory returns, all that its instance is built over has been built.
LEMMA FactoryReturnsOver ==
    ASSUME IInv, CallsLinked, [Next]_vars, NEW g \in Goroutines, FactoryReturns(g)
    PROVE  \E s \in ScopeSet, t \in Types, v \in Instances :
              /\ s = Top(g).scope /\ t = Top(g).typ /\ Scoped(s, t)
              /\ v.scope = s /\ v.typ = t
              /\ Return(g, Value(v))
              /\ entry' = [entry EXCEPT ![s][t] = v]
              /\ entry[s][t] = None /\ entry'[s][t] = v
              /\ \A u \in ScopeSet, x \in Types : ~ (u = s /\ x = t) => entry'[u][x] = entry[u][x]
              /\ \A y \in Uses[s][t] : Scoped(s, y) => y # t /\ entry[s][y] # None
              /\ Stands(entry', s, t)
              /\ closers' = IF Reg(s, t).closer THEN [closers EXCEPT ![s] = Append(@, v)] ELSE closers
              /\ UNCHANGED <<shut, toClose, batch, released, scopes, closed>>
  <1>1. stack[g] # <<>> /\ Top(g).at = "build" /\ ret[g] = Running
    BY DEF FactoryReturns, In
  <1>2. PICK f, s, t : f = Top(g) /\ s = f.scope /\ t = f.typ
    OBVIOUS
  <1>3. /\ f \in SoundCalls /\ f \in Frame /\ s \in ScopeSet /\ t \in Types /\ Scoped(s, t)
        /\ f.at = "build" /\ <<f, ret[g]>> \in Given(entry)
    BY <1>1, <1>2, TopLinked DEF Frame, SoundCalls, BagAt
  <1>4. PICK v \in Instances :
            /\ v.scope = s /\ v.typ = t
            /\ entry' = [entry EXCEPT ![s][t] = v]
            /\ closers' = IF Reg(s, t).closer THEN [closers EXCEPT ![s] = Append(@, v)] ELSE closers
            /\ Return(g, Value(v))
            /\ UNCHANGED <<shut, toClose, batch, released, scopes, closed>>
    <2>1. [scope |-> s, typ |-> t, run |-> runs[s][t]] \in Instances
      BY <1>3 DEF Instances, IInv, TypeOK
    <2> QED BY <1>2, <2>1 DEF FactoryReturns, endVars, stageVars
  <1>5. /\ entry'[s][t] = v /\ v # None
        /\ \A u \in ScopeSet, x \in Types : ~ (u = s /\ x = t) => entry'[u][x] = entry[u][x]
    BY <1>3, <1>4, InstancesAreSomething DEF IInv, TypeOK
  <1>6. entry[s][t] = None
    <2>1. Len(stack[g]) \in 1..Len(stack[g]) /\ Top(g) = stack[g][Len(stack[g])]
      BY <1>1, TopIsFrame DEF IInv, TypeOK
    <2> QED BY <1>1, <1>2, <2>1 DEF IInv, StackInv, BuildersHold
  <1>7. f.todo = {}
    BY <1>2 DEF FactoryReturns
  <1>8. \A d \in Regs[s][t].needs : Stands(entry, s, d)
    <2>1. Asked(f) = Regs[s][t].needs
      BY <1>2, <1>7 DEF Asked
    <2> QED BY <1>1, <1>2, <1>3, <2>1, ResultFacts DEF Given
  <1>9. ASSUME NEW y \in Uses[s][t], Scoped(s, y) PROVE y # t /\ entry[s][y] # None
    <2>1. PICK d \in TurnsTo(s, t) : y \in Under(s, d)
      BY <1>3, UsesByWay
    <2>2. d \in Regs[s][t].needs
      BY <1>3, <2>1 DEF TurnsTo, Scoped, Reg
    <2>3. entry[s][y] # None
      BY <1>8, <1>9, <2>1, <2>2 DEF Stands
    <2> QED BY <1>6, <2>3
  <1>10. Stands(entry', s, t)
    <2> SUFFICES ASSUME NEW y \in Under(s, t), Scoped(s, y) PROVE entry'[s][y] # None
      BY DEF Stands
    <2>1. y \in Types
      BY <1>3, RegsAssumption DEF Scoped
    <2>2. y = t \/ (y # t /\ entry[s][y] # None)
      BY <1>9 DEF Under
    <2> QED BY <1>3, <1>5, <2>1, <2>2
  <1> QED BY <1>2, <1>3, <1>4, <1>5, <1>6, <1>9, <1>10

LEMMA FactoryReturnsCalls ==
    ASSUME IInv, CallsLinked, [Next]_vars, NEW g \in Goroutines, FactoryReturns(g)
    PROVE  CallsLinked'
  <1>1. stack[g] # <<>>
    BY DEF FactoryReturns, In
  <1>2. PICK v \in Instances : Return(g, Value(v)) /\ Stands(entry', Top(g).scope, Top(g).typ)
    BY FactoryReturnsOver
  <1>3. \A u \in ScopeSet : \A x : Brings(entry, Top(g), u, x) => Stands(entry', u, x)
    BY <1>2, StandsStays, ScopeBrings
  <1>4. \A b : <<b, Top(g)>> \in Waits(entry) => <<b, Value(v)>> \in Given(entry')
    BY <1>3, ResultFacts, GivenAnswer
  <1> QED BY <1>1, <1>2, <1>4, ReturnKeepsCalls

LEMMA NextCalls ==
    ASSUME IInv, CallsLinked, BuiltOver, [Next]_vars
    PROVE  CallsLinked' /\ BuiltOver'
  <1>1. ASSUME NEW g \in Goroutines, Unwind(g) PROVE CallsLinked'
    BY <1>1, GivenPanic, ReturnKeepsCalls DEF Unwind
  <1>2. ASSUME NEW g \in Goroutines, Advance(g) PROVE CallsLinked'
    BY <1>1, <1>2, StageCalls, ThroughCalls, ResolveCalls, EntryCalls, LockAndBuildCalls,
       FactoryAsksCalls, FactoryStaysCalls, FactoryReturnsCalls
    DEF Advance
  <1>3. ASSUME NEW g \in Goroutines, NEW t \in Types, Ask(g, t) PROVE CallsLinked'
    BY <1>3, AskCalls
  <1>4. ASSUME Close \/ Finished \/ UNCHANGED vars PROVE CallsLinked'
    <2>1. stack' = stack /\ ret' = ret
      BY <1>4 DEF Close, CloseStage, CloseScope, CloseInstance, Finished, goVars, vars
    <2>2. \A h \in Goroutines : Linked(stack'[h], ret'[h], SoundCalls, Waits(entry'), Given(entry'))
      BY <2>1, StandsStays DEF CallsLinked, Linked
    <2> QED BY <2>2, CallsLinkedPrime
  <1>5. CallsLinked'
    BY <1>2, <1>3, <1>4 DEF Next
  <1>6. ASSUME NEW s \in ScopeSet, NEW t \in Types, entry'[s][t] # None
        PROVE  Stands(entry', s, t)
    <2>1. CASE entry[s][t] # None
      BY <2>1, StandsStays DEF BuiltOver
    <2>2. CASE entry[s][t] = None
      <3>1. PICK g \in Goroutines : FactoryReturns(g)
        <4> SUFFICES ASSUME \A g \in Goroutines : ~ FactoryReturns(g) PROVE FALSE
          OBVIOUS
        <4>1. entry' = entry
          BY DEF Next, Advance, Ask, Cached, Snapshot, Scan, Remember, Through, Resolve,
             EntryFor, LockBuilt, LockAndBuild, FactoryAsks, FactoryGets,
             FactoryPanics, Unwind, Close, CloseStage, CloseScope, CloseInstance,
             Finished, bagVars, vars
        <4> QED BY <1>6, <2>2, <4>1
      <3>2. s = Top(g).scope /\ t = Top(g).typ /\ Stands(entry', Top(g).scope, Top(g).typ)
        BY <1>6, <2>2, <3>1, FactoryReturnsOver
      <3> QED BY <3>2
    <2> QED BY <2>1, <2>2
  <1>7. BuiltOver'
    BY <1>6 DEF BuiltOver, Stands
  <1> QED BY <1>5, <1>7

LEMMA InitOrder == Init => CallsLinked /\ BuiltOver /\ ShutOK /\ OrderOK
  <1> SUFFICES ASSUME Init PROVE CallsLinked /\ BuiltOver /\ ShutOK /\ OrderOK
    OBVIOUS
  <1>1. /\ \A g \in Goroutines : stack[g] = <<>> /\ Len(stack[g]) = 0
        /\ \A s \in ScopeSet, t \in Types : entry[s][t] = None
        /\ \A s \in ScopeSet : ~ shut[s]
        /\ batch = <<>> /\ Len(batch) = 0 /\ released = <<>> /\ Len(released) = 0
        /\ toClose = <<>> /\ Len(toClose) = 0 /\ scopes = Scopes /\ ~ closed
    BY DEF Init
  <1>2. CallsLinked
    BY <1>1 DEF CallsLinked, Linked
  <1>3. BuiltOver
    BY <1>1 DEF BuiltOver
  <1>4. ShutOK
    BY <1>1 DEF ShutOK
  <1>5. OrderOK
    BY <1>1 DEF OrderOK
  <1> QED BY <1>2, <1>3, <1>4, <1>5

\* The place of an instance among the closers of its scope says its scope.
LEMMA PlacedNames ==
    ASSUME IInv, ClosingOK, NEW s \in ScopeSet, NEW t \in Types
    PROVE  /\ \A u \in ScopeSet : Placed(entry[s][t], closers[u]) => u = s
           /\ Placed(entry[s][t], batch) \/ Placed(entry[s][t], released) =>
                 entry[s][t] # None /\ entry[s][t].scope = s
           /\ entry[s][t] # None => entry[s][t].scope = s /\ entry[s][t].typ = t
  <1>1. entry[s][t] # None => entry[s][t].scope = s /\ entry[s][t].typ = t
    BY DEF ClosingOK, NamesOK
  <1>2. ASSUME NEW u \in ScopeSet, Placed(entry[s][t], closers[u]) PROVE u = s
    <2>1. PICK i \in 1..Len(closers[u]) : closers[u][i] = entry[s][t]
      BY <1>2 DEF Placed
    <2>2. closers[u][i] # None /\ closers[u][i].scope = u
      BY ClosingTypes, InstancesAreSomething DEF ClosingOK, NamesOK
    <2> QED BY <1>1, <2>1, <2>2
  <1>3. Placed(entry[s][t], batch) \/ Placed(entry[s][t], released) => entry[s][t] # None
    BY ClosingTypes, InstancesAreSomething DEF Placed
  <1> QED BY <1>1, <1>2, <1>3

LEMMA NextShut ==
    ASSUME IInv, ClosingOK, ShutOK, [Next]_vars
    PROVE  ShutOK'
  <1>0. /\ Scopes \in Seq(ScopeSet) /\ Len(Scopes) \in Nat
        /\ \A k \in 1..Len(Scopes) : Scopes[k] \in ScopeSet
        /\ \A i, j \in 1..Len(Scopes) : Scopes[i] = Scopes[j] => i = j
    BY RegsAssumption, ElementOfSeq, LenProperties
  <1>t. /\ toClose \in Seq(ScopeSet) /\ shut \in [ScopeSet -> BOOLEAN]
        /\ \A i \in 1..Len(toClose) : toClose[i] \in ScopeSet
    <2>1. toClose \in Seq(ScopeSet) /\ shut \in [ScopeSet -> BOOLEAN]
      BY DEF IInv, TypeOK
    <2> QED BY <2>1, ElementOfSeq
  <1>1. CASE CloseStage
    <2>1. /\ ~ closed /\ closed' /\ scopes' = <<>> /\ shut' = shut /\ toClose' = scopes
          /\ batch' = batch /\ released' = released
      BY <1>1 DEF CloseStage, bagVars
    <2>2. \A s \in ScopeSet : ~ shut[s]
      BY <2>1 DEF ShutOK
    <2>3. CASE scopes = Scopes
      BY <1>0, <2>1, <2>2, <2>3 DEF ShutOK
    <2>4. CASE scopes = <<>>
      <3>1. Len(toClose') = 0
        BY <2>1, <2>4
      <3> QED BY <2>1, <3>1 DEF ShutOK
    <2> QED BY <2>3, <2>4 DEF ShutOK
  <1>2. CASE CloseScope
    <2> DEFINE n == Len(toClose)
               s == toClose[n]
    <2>1. /\ toClose # <<>> /\ toClose' = SubSeq(toClose, 1, n - 1)
          /\ shut' = [shut EXCEPT ![s] = TRUE]
          /\ batch' = closers[s] /\ released' = released
          /\ scopes' = scopes /\ closed' = closed
      BY <1>2 DEF CloseScope, stageVars
    <2>2. /\ n \in Nat \ {0} /\ Len(toClose') = n - 1
          /\ \A i \in 1..(n - 1) : toClose'[i] = toClose[i]
      BY <1>t, <2>1, FrontFacts
    <2>3. n \in 1..n /\ s \in ScopeSet /\ closed
      BY <1>t, <2>1, <2>2 DEF ShutOK
    <2>4. \A u \in ScopeSet : shut'[u] <=> (u = s \/ shut[u])
      BY <1>t, <2>1, <2>3
    <2>5. \A i \in 1..(n - 1) : i \in 1..n /\ i # n /\ toClose[i] \in ScopeSet /\ toClose[i] # s
      BY <1>t, <2>2, <2>3 DEF ShutOK
    <2>6. /\ \A i, j \in 1..Len(toClose') : toClose'[i] = toClose'[j] => i = j
          /\ \A i \in 1..Len(toClose') : ~ shut'[toClose'[i]]
      <3>1. /\ \A i, j \in 1..n : toClose[i] = toClose[j] => i = j
            /\ \A i \in 1..n : ~ shut[toClose[i]]
        BY DEF ShutOK
      <3>2. /\ \A i \in 1..(n - 1) : i \in 1..n /\ toClose'[i] = toClose[i]
            /\ \A i \in 1..(n - 1) : ~ shut'[toClose[i]]
        BY <2>2, <2>4, <2>5, <3>1
      <3>3. \A i, j \in 1..(n - 1) : toClose'[i] = toClose'[j] => i = j
        BY <3>1, <3>2
      <3>4. \A i \in 1..(n - 1) : ~ shut'[toClose'[i]]
        BY <3>2
      <3> QED BY <2>2, <3>3, <3>4
    <2>7. \A i \in 1..Len(closers[s]) : shut'[closers[s][i].scope]
      <3>1. \A i \in 1..Len(closers[s]) : closers[s][i].scope = s
        BY <2>3 DEF ClosingOK, NamesOK
      <3>2. shut'[s]
        BY <2>3, <2>4
      <3> QED BY <3>1, <3>2
    <2>8. \A i \in 1..Len(released) : shut'[released[i].scope]
      <3>1. \A i \in 1..Len(released) : released[i].scope \in ScopeSet
        BY ClosingTypes DEF Instances
      <3> QED BY <2>4, <3>1 DEF ShutOK
    <2> HIDE DEF n, s
    <2> QED BY <2>1, <2>3, <2>6, <2>7, <2>8 DEF ShutOK
  <1>3. CASE CloseInstance
    <2> DEFINE n == Len(batch)
               m == Len(released)
    <2>1. /\ batch # <<>> /\ batch' = SubSeq(batch, 1, n - 1)
          /\ released' = Append(released, batch[n])
          /\ UNCHANGED <<scopes, closed, shut, toClose>>
      BY <1>3 DEF CloseInstance, stageVars, bagVars
    <2>2. /\ n \in Nat \ {0} /\ Len(batch') = n - 1
          /\ \A i \in 1..(n - 1) : batch'[i] = batch[i]
      BY <2>1, ClosingTypes, FrontFacts
    <2>3. n \in 1..n /\ batch[n] \in Instances /\ m \in Nat
      BY <2>2, ClosingTypes
    <2>4. /\ Len(released') = m + 1 /\ released'[m + 1] = batch[n]
          /\ \A i \in 1..m : released'[i] = released[i]
      BY <2>1, <2>3, ClosingTypes, AppendFacts
    <2>5. \A i \in 1..Len(batch') : shut[batch'[i].scope]
      BY <2>2 DEF ShutOK
    <2>6. \A i \in 1..Len(released') : shut[released'[i].scope]
      <3> SUFFICES ASSUME NEW i \in 1..(m + 1) PROVE shut[released'[i].scope]
        BY <2>4
      <3>1. i \in 1..m \/ i = m + 1
        BY <2>3
      <3> QED BY <2>3, <2>4, <3>1 DEF ShutOK
    <2> HIDE DEF n, m
    <2>7. /\ scopes' = scopes /\ closed' = closed /\ shut' = shut /\ toClose' = toClose
      BY <2>1
    <2>8. /\ scopes \in {Scopes, <<>>}
          /\ ~ closed => toClose = <<>> /\ \A s \in ScopeSet : ~ shut[s]
          /\ \A i, j \in 1..Len(toClose) : toClose[i] = toClose[j] => i = j
          /\ \A i \in 1..Len(toClose) : ~ shut[toClose[i]]
      BY DEF ShutOK
    <2> QED BY ONLY <2>5, <2>6, <2>7, <2>8 DEF ShutOK
  <1>4. CASE ~ CloseStage /\ ~ CloseScope /\ ~ CloseInstance
    <2>1. UNCHANGED <<scopes, closed, shut, toClose, batch, released>>
      BY <1>4
      DEF Next, Advance, Ask, Cached, Snapshot, Scan, Remember, Through, Resolve,
          EntryFor, LockBuilt, LockAndBuild, FactoryAsks, FactoryGets, FactoryReturns,
          FactoryPanics, Unwind, Close, Finished, stageVars, bagVars, endVars, vars
    <2> QED BY <2>1 DEF ShutOK
  <1> QED BY <1>1, <1>2, <1>3, <1>4

LEMMA FactoryReturnsOrders ==
    ASSUME IInv, ClosingOK, CallsLinked, BuiltOver, ShutOK, OrderOK, [Next]_vars,
           NEW g \in Goroutines, FactoryReturns(g)
    PROVE  OrderOK'
  <1>1. PICK s \in ScopeSet, t \in Types, v \in Instances :
            /\ Scoped(s, t) /\ v.scope = s /\ v.typ = t
            /\ entry[s][t] = None /\ entry'[s][t] = v
            /\ \A u \in ScopeSet, x \in Types : ~ (u = s /\ x = t) => entry'[u][x] = entry[u][x]
            /\ \A y \in Uses[s][t] : Scoped(s, y) => y # t /\ entry[s][y] # None
            /\ closers' = IF Reg(s, t).closer THEN [closers EXCEPT ![s] = Append(@, v)] ELSE closers
            /\ shut' = shut /\ batch' = batch /\ released' = released
    BY FactoryReturnsOver
  <1> DEFINE n == Len(closers[s])
  <1>2. /\ n \in Nat
        /\ \A u \in ScopeSet \ {s} : closers'[u] = closers[u]
        /\ \A i \in 1..n : i \in 1..Len(closers'[s]) /\ closers'[s][i] = closers[s][i]
        /\ \/ ~ IsCloser(s, t) /\ closers'[s] = closers[s]
           \/ /\ Len(closers'[s]) = n + 1 /\ closers'[s][n + 1] = v
              /\ n + 1 \in 1..Len(closers'[s])
    <2>1. closers[s] \in Seq(Instances) /\ n \in Nat /\ closers \in [ScopeSet -> Seq(Instances)]
      BY ClosingTypes DEF IInv, TypeOK
    <2>2. /\ Len(Append(closers[s], v)) = n + 1
          /\ Append(closers[s], v)[n + 1] = v
          /\ \A i \in 1..n : Append(closers[s], v)[i] = closers[s][i]
      BY <2>1, AppendFacts
    <2>3. CASE Reg(s, t).closer
      <3>1. closers' = [closers EXCEPT ![s] = Append(closers[s], v)]
        BY <1>1, <2>3
      <3>2. closers'[s] = Append(closers[s], v) /\ \A u \in ScopeSet \ {s} : closers'[u] = closers[u]
        BY <2>1, <3>1
      <3>3. Len(closers'[s]) = n + 1 /\ closers'[s][n + 1] = v
            /\ \A i \in 1..n : closers'[s][i] = closers[s][i]
        BY <2>2, <3>2
      <3>4. 1..n \subseteq 1..(n + 1) /\ n + 1 \in 1..(n + 1)
        BY <2>1
      <3> QED BY <2>1, <3>2, <3>3, <3>4
    <2>4. CASE ~ Reg(s, t).closer
      BY <1>1, <2>1, <2>4 DEF IsCloser
    <2> QED BY <2>3, <2>4
  <1> HIDE DEF n
  <1>n. n = Len(closers[s])
    BY DEF n
  \* What was queued is queued, in the order it was; v alone joins, at the end.
  <1>3. /\ \A u \in ScopeSet : \A i \in 1..Len(closers[u]) :
              i \in 1..Len(closers'[u]) /\ closers'[u][i] = closers[u][i]
        /\ \A u \in ScopeSet : \A i \in 1..Len(closers'[u]) :
              \/ i \in 1..Len(closers[u]) /\ closers'[u][i] = closers[u][i]
              \/ u = s /\ i = n + 1 /\ closers'[u][i] = v
    BY <1>2, <1>n
  <1>4. /\ \A u \in ScopeSet : \A w : Placed(w, closers[u]) => Placed(w, closers'[u])
        /\ \A u \in ScopeSet : \A w : Placed(w, closers'[u]) /\ w # v => Placed(w, closers[u])
        /\ \A u \in ScopeSet : \A w, z : Before(w, z, closers[u]) => Before(w, z, closers'[u])
        /\ \A u \in ScopeSet : \A w : Gone(w, u) =>
              Placed(w, released) \/ (shut[u] /\ Placed(w, closers'[u]))
    BY <1>3 DEF Placed, Before, Gone
  <1>p. shut' = shut /\ batch' = batch /\ released' = released
    BY <1>1
  <1> SUFFICES ASSUME NEW u \in ScopeSet, NEW x \in Types, NEW y \in Types,
                      y \in Uses[u][x], IsCloser(u, x), IsCloser(u, y), entry'[u][x] # None
               PROVE  /\ Placed(entry'[u][y], closers'[u]) =>
                            Before(entry'[u][x], entry'[u][y], closers'[u])
                      /\ Placed(entry'[u][y], batch') =>
                            \/ Before(entry'[u][x], entry'[u][y], batch')
                            \/ Placed(entry'[u][x], released')
                            \/ shut'[u] /\ Placed(entry'[u][x], closers'[u])
                      /\ Placed(entry'[u][y], released') =>
                            \/ Placed(entry'[u][x], released')
                            \/ shut'[u] /\ Placed(entry'[u][x], closers'[u])
    BY DEF OrderOK, Placed, Before, Gone, IsCloser, Reg
  <1>5. CASE u = s /\ x = t
    <2>1. y # t
      BY <1>1, <1>5
    <2>2. entry'[u][y] = entry[s][y] /\ entry'[u][x] = v
      BY <1>1, <1>5, <2>1
    <2>3. n + 1 \in 1..Len(closers'[s]) /\ closers'[s][n + 1] = v
      BY <1>2, <1>5
    <2>4. Placed(v, closers'[s])
      BY <2>3 DEF Placed
    <2>5. entry[s][y] # v
      <3>1. entry[s][y] # None => entry[s][y].typ = y
        BY PlacedNames
      <3> QED BY <1>1, <2>1, <3>1, InstancesAreSomething
    <2>6. ASSUME Placed(entry[s][y], closers'[s]) PROVE Before(v, entry[s][y], closers'[s])
      <3>1. PICK j \in 1..n : closers[s][j] = entry[s][y]
        <4>1. Placed(entry[s][y], closers[s])
          BY <1>4, <2>5, <2>6
        <4> QED BY <1>n, <4>1 DEF Placed
      <3>2. j \in 1..Len(closers'[s]) /\ closers'[s][j] = entry[s][y] /\ j < n + 1
        BY <1>2, <3>1
      <3> QED BY <2>3, <3>2 DEF Before
    <2>7. Placed(entry[s][y], batch) \/ Placed(entry[s][y], released) => shut[s]
      <3>1. ASSUME Placed(entry[s][y], batch) \/ Placed(entry[s][y], released)
            PROVE  entry[s][y].scope = s
        BY <3>1, PlacedNames
      <3> QED BY <3>1 DEF ShutOK, Placed
    <2> QED BY <1>5, <1>p, <2>2, <2>4, <2>6, <2>7
  <1>6. CASE ~ (u = s /\ x = t)
    <2>1. entry'[u][x] = entry[u][x]
      BY <1>1, <1>6
    <2>2. ~ (u = s /\ y = t)
      <3> SUFFICES ASSUME u = s, y = t PROVE FALSE
        OBVIOUS
      <3>1. Stands(entry, s, x)
        BY <2>1 DEF BuiltOver
      <3>2. entry[s][t] # None
        BY <1>1, <3>1 DEF Stands, Under
      <3> QED BY <1>1, <3>2
    <2>3. entry'[u][y] = entry[u][y]
      BY <1>1, <2>2
    <2>4. entry[u][y] # v
      <3>1. entry[u][y] # None => entry[u][y].scope = u /\ entry[u][y].typ = y
        BY PlacedNames
      <3> QED BY <1>1, <2>2, <3>1, InstancesAreSomething
    <2>5. /\ Placed(entry[u][y], closers[u]) => Before(entry[u][x], entry[u][y], closers[u])
          /\ Placed(entry[u][y], batch) =>
                Before(entry[u][x], entry[u][y], batch) \/ Gone(entry[u][x], u)
          /\ Placed(entry[u][y], released) => Gone(entry[u][x], u)
      BY <2>1 DEF OrderOK
    <2> QED BY <1>4, <1>p, <2>1, <2>3, <2>4, <2>5
  <1> QED BY <1>5, <1>6

LEMMA CloseScopeOrders ==
    ASSUME IInv, ClosingOK, ShutOK, OrderOK, CloseScope
    PROVE  OrderOK'
  <1>1. PICK s \in ScopeSet :
            /\ batch' = closers[s] /\ closers' = [closers EXCEPT ![s] = <<>>]
            /\ shut' = [shut EXCEPT ![s] = TRUE] /\ ~ shut[s]
    <2>1. toClose \in Seq(ScopeSet) /\ toClose # <<>>
      BY DEF CloseScope, IInv, TypeOK
    <2>2. Len(toClose) \in 1..Len(toClose) /\ toClose[Len(toClose)] \in ScopeSet
      <3>1. Len(toClose) \in Nat \ {0}
        BY <2>1, EmptySeq, LenProperties
      <3> QED BY <2>1, <3>1, ElementOfSeq
    <2> QED BY <2>2 DEF CloseScope, ShutOK
  <1>2. /\ entry' = entry /\ released' = released
        /\ closers'[s] = <<>> /\ \A u \in ScopeSet \ {s} : closers'[u] = closers[u]
        /\ \A u \in ScopeSet \ {s} : shut'[u] = shut[u]
    BY <1>1 DEF CloseScope, IInv, TypeOK
  <1>3. Len(closers'[s]) = 0
    BY <1>2
  <1>4. \A w : ~ Placed(w, closers'[s])
    BY <1>3 DEF Placed
  <1> SUFFICES ASSUME NEW u \in ScopeSet, NEW x \in Types, NEW y \in Types,
                      y \in Uses[u][x], IsCloser(u, x), IsCloser(u, y), entry[u][x] # None
               PROVE  /\ Placed(entry[u][y], closers'[u]) =>
                            Before(entry[u][x], entry[u][y], closers'[u])
                      /\ Placed(entry[u][y], closers[s]) =>
                            Before(entry[u][x], entry[u][y], closers[s])
                      /\ Placed(entry[u][y], released) =>
                            \/ Placed(entry[u][x], released)
                            \/ shut'[u] /\ Placed(entry[u][x], closers'[u])
    BY <1>1, <1>2 DEF OrderOK, Placed, Before, Gone, IsCloser, Reg
  <1>5. /\ Placed(entry[u][y], closers[u]) => Before(entry[u][x], entry[u][y], closers[u])
        /\ Placed(entry[u][y], released) => Gone(entry[u][x], u)
    BY DEF OrderOK
  <1>6. Placed(entry[u][y], closers[s]) => u = s
    BY PlacedNames
  <1>7. CASE u = s
    BY <1>1, <1>4, <1>5, <1>7 DEF Gone
  <1>8. CASE u # s
    BY <1>2, <1>5, <1>6, <1>8 DEF Gone
  <1> QED BY <1>7, <1>8

LEMMA CloseInstanceOrders ==
    ASSUME IInv, ClosingOK, OrderOK, CloseInstance
    PROVE  OrderOK'
  <1> DEFINE n == Len(batch)
             m == Len(released)
  <1>1. /\ batch # <<>> /\ batch' = SubSeq(batch, 1, n - 1)
        /\ released' = Append(released, batch[n])
        /\ entry' = entry /\ closers' = closers /\ shut' = shut
    BY DEF CloseInstance, bagVars
  <1>2. /\ n \in Nat \ {0} /\ Len(batch') = n - 1
        /\ \A i \in 1..(n - 1) : batch'[i] = batch[i]
    BY <1>1, ClosingTypes, FrontFacts
  <1>3. n \in 1..n /\ batch[n] \in Instances /\ m \in Nat
    BY <1>2, ClosingTypes
  <1>4. /\ Len(released') = m + 1 /\ released'[m + 1] = batch[n]
        /\ \A i \in 1..m : released'[i] = released[i]
    BY <1>1, <1>3, ClosingTypes, AppendFacts
  <1>n. n = Len(batch) /\ m = Len(released)
    OBVIOUS
  <1> HIDE DEF n, m
  <1>5. /\ \A w : Placed(w, batch') => Placed(w, batch) /\ w # batch[n]
        /\ \A w : Placed(w, released) => Placed(w, released')
        /\ Placed(batch[n], released')
        /\ \A w : Placed(w, released') => w = batch[n] \/ Placed(w, released)
    <2>1. ASSUME NEW w, Placed(w, batch') PROVE Placed(w, batch) /\ w # batch[n]
      <3>1. PICK i \in 1..(n - 1) : batch'[i] = w
        BY <1>2, <2>1 DEF Placed
      <3>2. i \in 1..n /\ i # n /\ batch[i] = w
        BY <1>2, <3>1
      <3> QED BY <1>3, <1>n, <3>2 DEF Placed, ClosingOK, PlacesOK
    <2>2. ASSUME NEW w, Placed(w, released) PROVE Placed(w, released')
      BY <1>3, <1>4, <1>n, <2>2 DEF Placed
    <2>3. Placed(batch[n], released')
      BY <1>3, <1>4 DEF Placed
    <2>4. ASSUME NEW w, Placed(w, released') PROVE w = batch[n] \/ Placed(w, released)
      <3>1. PICK i \in 1..(m + 1) : released'[i] = w
        BY <1>4, <2>4 DEF Placed
      <3>2. i = m + 1 \/ i \in 1..m
        BY <1>3
      <3> QED BY <1>4, <1>n, <3>1, <3>2 DEF Placed
    <2> QED BY <2>1, <2>2, <2>3, <2>4
  \* Whatever is ahead in the batch is the one closed now or ahead still.
  <1>6. \A w, z : Before(w, z, batch) /\ w # batch[n] => Before(w, z, batch')
    <2> SUFFICES ASSUME NEW w, NEW z, Before(w, z, batch), w # batch[n] PROVE Before(w, z, batch')
      OBVIOUS
    <2>1. PICK i \in 1..n, j \in 1..n : j < i /\ batch[i] = w /\ batch[j] = z
      BY <1>n DEF Before
    <2>2. i \in 1..(n - 1) /\ j \in 1..(n - 1)
      BY <1>2, <2>1
    <2> QED BY <1>2, <2>1, <2>2 DEF Before
  <1>7. \A w : ~ Before(w, batch[n], batch)
    <2> SUFFICES ASSUME NEW w, Before(w, batch[n], batch) PROVE FALSE
      OBVIOUS
    <2>1. PICK i \in 1..n, j \in 1..n : j < i /\ batch[j] = batch[n]
      BY <1>n DEF Before
    <2>2. j = n
      BY <1>3, <1>n, <2>1 DEF ClosingOK, PlacesOK
    <2> QED BY <1>2, <2>1, <2>2
  <1>k. entry' = entry /\ closers' = closers /\ shut' = shut
    BY <1>1
  <1> SUFFICES ASSUME NEW u \in ScopeSet, NEW x \in Types, NEW y \in Types,
                      y \in Uses[u][x], IsCloser(u, x), IsCloser(u, y), entry'[u][x] # None
               PROVE  /\ Placed(entry'[u][y], closers'[u]) =>
                            Before(entry'[u][x], entry'[u][y], closers'[u])
                      /\ Placed(entry'[u][y], batch') =>
                            \/ Before(entry'[u][x], entry'[u][y], batch')
                            \/ Placed(entry'[u][x], released')
                            \/ shut'[u] /\ Placed(entry'[u][x], closers'[u])
                      /\ Placed(entry'[u][y], released') =>
                            \/ Placed(entry'[u][x], released')
                            \/ shut'[u] /\ Placed(entry'[u][x], closers'[u])
    BY DEF OrderOK, Placed, Before, Gone, IsCloser, Reg
  <1>8. /\ Placed(entry[u][y], closers[u]) => Before(entry[u][x], entry[u][y], closers[u])
        /\ Placed(entry[u][y], batch) =>
              Before(entry[u][x], entry[u][y], batch) \/ Gone(entry[u][x], u)
        /\ Placed(entry[u][y], released) => Gone(entry[u][x], u)
    BY <1>k DEF OrderOK
  <1>9. Placed(batch[n], batch)
    BY <1>3, <1>n DEF Placed
  <1> QED BY <1>5, <1>6, <1>7, <1>8, <1>9, <1>k DEF Gone

LEMMA NextOrders ==
    ASSUME IInv, ClosingOK, CallsLinked, BuiltOver, ShutOK, OrderOK, [Next]_vars
    PROVE  OrderOK'
  <1>1. ASSUME NEW g \in Goroutines, FactoryReturns(g) PROVE OrderOK'
    BY <1>1, FactoryReturnsOrders
  <1>2. CASE CloseScope
    BY <1>2, CloseScopeOrders
  <1>3. CASE CloseInstance
    BY <1>3, CloseInstanceOrders
  <1>4. CASE ~ CloseScope /\ ~ CloseInstance /\ \A g \in Goroutines : ~ FactoryReturns(g)
    <2>1. UNCHANGED <<entry, closers, batch, released, shut>>
      BY <1>4
      DEF Next, Advance, Ask, Cached, Snapshot, Scan, Remember, Through, Resolve,
          EntryFor, LockBuilt, LockAndBuild, FactoryAsks, FactoryGets,
          FactoryPanics, Unwind, Close, CloseStage, Finished, bagVars, endVars, vars
    <2> QED BY <2>1 DEF OrderOK, Placed, Before, Gone, IsCloser, Reg
  <1> QED BY <1>1, <1>2, <1>3, <1>4

\* All there is to know of what is built, queued and closed.
OrderInv == IInv /\ ClosingOK /\ CallsLinked /\ BuiltOver /\ ShutOK /\ OrderOK

\* All of it holds in every state of every composition, cyclic or not: each
\* collaborator is there before its dependent (BuiltOver), is queued before it,
\* and a scope is closed once (bag.go resolve, Close; stage.go Close).
THEOREM Ordered == Spec => []OrderInv
  <1>1. Init => ClosingOK /\ CallsLinked /\ BuiltOver /\ ShutOK /\ OrderOK
    BY InitClosing, InitOrder
  <1>2. OrderInv /\ [Next]_vars => (ClosingOK /\ CallsLinked /\ BuiltOver /\ ShutOK /\ OrderOK)'
    BY NextCloses, NextCalls, NextShut, NextOrders DEF OrderInv
  <1> QED BY <1>1, <1>2, InitInv, NextKeeps, PTL DEF Spec, OrderInv

LEMMA OccursPlaced ==
    ASSUME NEW S, NEW q \in Seq(S), \A i, j \in 1..Len(q) : q[i] = q[j] => i = j
    PROVE  \A v : Occurrences(v, q) > 0 <=> Placed(v, q)
  <1> SUFFICES ASSUME NEW v PROVE Occurrences(v, q) > 0 <=> Placed(v, q)
    OBVIOUS
  <1>1. /\ (\E i \in 1..Len(q) : q[i] = v) => Occurrences(v, q) = 1
        /\ (\A i \in 1..Len(q) : q[i] # v) => Occurrences(v, q) = 0
    BY OccursOnce
  <1>2. 1 > 0 /\ ~ (0 > 0)
    OBVIOUS
  <1> QED BY <1>1, <1>2 DEF Placed

LEMMA InvDependentsCloseFirst == OrderInv => DependentsCloseFirst
  <1> SUFFICES ASSUME OrderInv, NEW s \in ScopeSet, NEW x \in Types, NEW y \in Types,
                      IsCloser(s, x), IsCloser(s, y), y \in Uses[s][x],
                      entry[s][x] # None, Occurrences(entry[s][y], released) > 0
               PROVE  Occurrences(entry[s][x], released) > 0 \/ Orphan(entry[s][x])
    BY DEF DependentsCloseFirst
  <1>1. \A v : Occurrences(v, released) > 0 <=> Placed(v, released)
    BY ClosingTypes, OccursPlaced DEF OrderInv, ClosingOK, PlacesOK
  <1>2. Gone(entry[s][x], s)
    BY <1>1 DEF OrderInv, OrderOK
  <1>3. entry[s][x].scope = s
    BY PlacedNames DEF OrderInv
  <1>4. DOMAIN closers[s] = 1..Len(closers[s])
    BY ClosingTypes, LenProperties DEF OrderInv
  <1> QED BY <1>1, <1>2, <1>3, <1>4 DEF Gone, Orphan, Placed

\* In every composition, cyclic or not, and whatever races with Close: when an
\* instance is closed, every dependent of its scope built over it is closed
\* already, but for one that was built after the scope took its closers.
THEOREM DependentsCloseFirstHolds == Spec => []DependentsCloseFirst
  BY Ordered, InvDependentsCloseFirst, PTL
=============================================================================
