-------------------------- MODULE LoadOrderProofs ---------------------------
(***************************************************************************)
(* LoadPlugins sorts by dependency for every list of plugins, of any length *)
(* and with any Inject and Provides, and it reports a cycle exactly when    *)
(* there is one; of a list it refuses it loads nothing, of any other it has *)
(* each plugin in the order once.                                           *)
(***************************************************************************)
EXTENDS LoadOrder, SequenceTheorems, FiniteSetTheorems, NaturalsInduction,
        WellFoundedInduction, TLAPS

\* What the activation below the top of the stack is waiting for.
Awaited(k) == IF k < Len(stack) THEN {stack[k + 1].name} ELSE {}

\* Every entry an activation has seen is done, or is the one it waits for.
SeenSettled ==
    \A k \in 1 .. Len(stack) :
        \A i \in 1 .. Len(Inject(list, stack[k].name)) : i < stack[k].next =>
            DependsOn(list, Inject(list, stack[k].name)[i]) \subseteq done \cup Awaited(k)

\* done and order say the same.
DoneIsOrder == done = {order[j] : j \in 1 .. Len(order)}

\* Names come from the list, Inject entries are sequences.
Listed ==
    /\ list \in Seq(Plugin)
    /\ todo \subseteq NamesOf(list)
    /\ \A k \in 1 .. Len(stack) : stack[k].name \in NamesOf(list)
    /\ stack \in Seq([name : Names, next : Nat])
    /\ order \in Seq(Names)

\* Loading begins when the sort is over, and a cycle ends the sort.
NothingBefore ==
    /\ phase \in {"begin", "sort"} => loaded = {} /\ err = ""
    /\ phase = "load" => err = ""
    /\ err \in {"duplicate", "cycle"} => loaded = {}

IInv == Listed /\ SeenSettled /\ DoneIsOrder /\ OrderTopological /\ NothingBefore

\* No plugin of a list is loaded when its names clash or its plugins depend on
\* one another in a circle.
NothingLoadedOnBadList == err \in {"duplicate", "cycle"} => loaded = {}

Frames == [name : Names, next : Nat]

-----------------------------------------------------------------------------
\* An entry leads to at most one plugin, and it is one of the list.
LEMMA DependsOnListed ==
  ASSUME list \in Seq(Plugin), NEW key
  PROVE  /\ DependsOn(list, key) \subseteq NamesOf(list) /\ NamesOf(list) \subseteq Names
         /\ \A m, n \in DependsOn(list, key) : m = n
<1>1. DOMAIN list = 1 .. Len(list) /\ Len(list) \in Nat
  OBVIOUS
<1>2. \A i \in DOMAIN list : list[i] \in Plugin
  BY <1>1, ElementOfSeq
<1>3. NamesOf(list) \subseteq Names
  BY <1>2 DEF NamesOf, Plugin
<1>4. ProviderOf(list, key) \subseteq NamesOf(list)
  BY DEF ProviderOf, NamesOf
<1>5. ASSUME NEW i \in DOMAIN list, NEW j \in DOMAIN list, i <= j, j <= i
      PROVE  i = j
  BY <1>1, <1>5
<1>6. \A m, n \in ProviderOf(list, key) : m = n
  BY <1>5 DEF ProviderOf
<1>7. QED
  BY <1>3, <1>4, <1>6 DEF DependsOn

\* A plugin of the list injects a sequence of keys.
LEMMA InjectType ==
  ASSUME list \in Seq(Plugin), NEW n \in NamesOf(list)
  PROVE  Inject(list, n) \in Seq(Keys) /\ Len(Inject(list, n)) \in Nat
<1>1. \E i \in DOMAIN list : list[i].name = n
  BY DEF NamesOf
<1>2. PICK i \in DOMAIN list : Of(list, n) = list[i]
  BY <1>1 DEF Of
<1>3. list[i] \in Plugin
  BY <1>2, ElementOfSeq
<1>4. Inject(list, n) \in Seq(Keys)
  BY <1>2, <1>3 DEF Inject, Plugin
<1>5. QED
  BY <1>4, LenProperties

\* An activation that moves on keeps its name, and those below keep all.
LEMMA AdvancedStack ==
  ASSUME stack \in Seq(Frames), stack # <<>>
  PROVE  /\ Len(stack) \in Nat /\ Len(stack) >= 1 /\ Top \in Frames
         /\ Advanced(stack) \in Seq(Frames) /\ Len(Advanced(stack)) = Len(stack)
         /\ \A k \in 1 .. Len(stack) : Advanced(stack)[k].name = stack[k].name
         /\ \A k \in 1 .. Len(stack) : k # Len(stack) => Advanced(stack)[k] = stack[k]
         /\ Advanced(stack)[Len(stack)].next = Top.next + 1
<1> DEFINE L == Len(stack)
           n == Top.next + 1
           e == [Top EXCEPT !.next = n]
<1>1. L \in Nat /\ L >= 1 /\ L \in 1 .. L
  BY EmptySeq, LenProperties
<1>2. Top = stack[L] /\ Top \in Frames
  BY <1>1, ElementOfSeq DEF Top
<1>3. n \in Nat
  BY <1>2 DEF Frames
<1>4. Advanced(stack) = [stack EXCEPT ![L] = e]
  BY <1>2 DEF Advanced
<1> HIDE DEF n
<1>5. e \in Frames /\ e.name = Top.name /\ e.next = n
  BY <1>2, <1>3 DEF Frames
<1> HIDE DEF e
<1>6. /\ [stack EXCEPT ![L] = e] \in Seq(Frames) /\ Len([stack EXCEPT ![L] = e]) = L
      /\ \A k \in 1 .. L : [stack EXCEPT ![L] = e][k] = IF k = L THEN e ELSE stack[k]
  BY <1>1, <1>5, ExceptSeq
<1>7. QED
  BY <1>1, <1>2, <1>4, <1>5, <1>6 DEF n

\* What is left when the top goes.
LEMMA WithoutTop ==
  ASSUME stack \in Seq(Frames), stack # <<>>
  PROVE  /\ SubSeq(stack, 1, Len(stack) - 1) \in Seq(Frames)
         /\ Len(SubSeq(stack, 1, Len(stack) - 1)) = Len(stack) - 1
         /\ \A k \in 1 .. Len(stack) - 1 : SubSeq(stack, 1, Len(stack) - 1)[k] = stack[k]
<1> DEFINE L == Len(stack)
<1>1. L \in Nat /\ L >= 1
  BY EmptySeq, LenProperties
<1>2. \A i \in 1 .. L - 1 : stack[i] \in Frames
  BY <1>1, ElementOfSeq
<1> HIDE DEF L
<1>3. /\ SubSeq(stack, 1, L - 1) \in Seq(Frames)
      /\ Len(SubSeq(stack, 1, L - 1)) = IF 1 <= L - 1 THEN (L - 1) - 1 + 1 ELSE 0
      /\ \A i \in 1 .. (L - 1) - 1 + 1 : SubSeq(stack, 1, L - 1)[i] = stack[1 + i - 1]
  BY <1>1, <1>2, SubSeqProperties
<1>4. /\ (IF 1 <= L - 1 THEN (L - 1) - 1 + 1 ELSE 0) = L - 1
      /\ \A i \in 1 .. L - 1 : i \in 1 .. (L - 1) - 1 + 1 /\ 1 + i - 1 = i
  BY <1>1
<1>5. QED
  BY <1>3, <1>4 DEF L

-----------------------------------------------------------------------------
\* A call of LoadPlugins begins with the invariant.
THEOREM LoadOrderInit == Init => IInv
<1> SUFFICES ASSUME Init PROVE IInv
  OBVIOUS
<1>1. list \in Seq(Plugin)
  BY LoadOrderAssumption DEF Init
<1>2. /\ stack = <<>> /\ order = <<>> /\ todo = {} /\ done = {} /\ loaded = {}
      /\ phase = "begin" /\ err = ""
  BY DEF Init
<1>3. Len(<<>>) = 0 /\ 1 .. 0 = {} /\ DOMAIN <<>> = {}
  OBVIOUS
<1>4. Listed
  <2>1. <<>> \in Seq([name : Names, next : Nat]) /\ <<>> \in Seq(Names)
    OBVIOUS
  <2>2. QED
    BY <1>1, <1>2, <1>3, <2>1 DEF Listed
<1>a. SeenSettled /\ DoneIsOrder
  BY <1>2, <1>3 DEF SeenSettled, DoneIsOrder
<1>5. OrderTopological /\ NothingBefore
  BY <1>2, <1>3 DEF OrderTopological, NothingBefore
<1>6. QED
  BY <1>4, <1>a, <1>5 DEF IInv


\* The steps that leave the stack and the order alone.
LEMMA SameStack ==
  ASSUME IInv, NothingBefore', UNCHANGED <<list, stack, done, order>>,
         todo' \subseteq NamesOf(list)
  PROVE  IInv'
<1>1. Listed'
  BY DEF IInv, Listed
<1>2. SeenSettled'
  BY DEF IInv, SeenSettled, Awaited
<1>3. DoneIsOrder' /\ OrderTopological'
  BY DEF IInv, DoneIsOrder, OrderTopological
<1>4. QED
  BY <1>1, <1>2, <1>3 DEF IInv

\* The loop starts an activation on an empty stack.
LEMMA VisitNextStep ==
  ASSUME IInv, VisitNext
  PROVE  IInv'
<1> USE DEF IInv
<1>1. PICK n \in todo : /\ todo' = todo \ {n}
                       /\ \/ UNCHANGED stack
                          \/ stack' = <<Frame(n)>>
  BY DEF VisitNext
<1>2. /\ UNCHANGED <<list, phase, err, done, order, loaded>> /\ stack = <<>>
      /\ NothingBefore'
  BY DEF VisitNext, NothingBefore
<1>3. n \in NamesOf(list) /\ n \in Names /\ list \in Seq(Plugin)
  BY DependsOnListed DEF Listed
<1>4. todo' \subseteq NamesOf(list)
  BY <1>1 DEF Listed
<1>5. CASE UNCHANGED stack
  BY <1>2, <1>4, <1>5, SameStack
<1>6. CASE stack' = <<Frame(n)>>
  <2>1. /\ stack' \in Seq([name : Names, next : Nat]) /\ Len(stack') = 1
        /\ stack'[1].name = n /\ stack'[1].next = 1
    BY <1>3, <1>6 DEF Frame
  <2>2. Listed'
    BY <1>2, <1>3, <1>4, <2>1 DEF Listed
  <2>3. SeenSettled'
    BY <2>1 DEF SeenSettled
  <2>4. DoneIsOrder' /\ OrderTopological'
    BY <1>2 DEF DoneIsOrder, OrderTopological
  <2>5. QED
    BY <1>2, <2>2, <2>3, <2>4
<1>7. QED
  BY <1>1, <1>5, <1>6

\* What an activation has seen stays settled when it moves on, and when it calls
\* visit for the plugin it is at.
LEMMA SeeDependencyStep ==
  ASSUME IInv, SeeDependency
  PROVE  IInv'
<1> USE DEF IInv
<1> DEFINE L == Len(stack)
           deps == DependsOn(list, Inject(list, Top.name)[Top.next])
           seen == Advanced(stack)
<1>1. /\ UNCHANGED <<list, todo, done, order, next, loaded>>
      /\ phase = "sort" /\ stack # <<>>
      /\ \/ deps \subseteq done /\ stack' = seen /\ UNCHANGED <<phase, err>>
         \/ UNCHANGED stack /\ phase' = "returned" /\ err' = "cycle"
         \/ \E n \in deps : stack' = Append(seen, Frame(n)) /\ UNCHANGED <<phase, err>>
  BY DEF SeeDependency, Settled
<1>2. NothingBefore' /\ todo' \subseteq NamesOf(list)
  BY <1>1 DEF NothingBefore, Listed
<1>3. /\ list \in Seq(Plugin) /\ stack \in Seq([name : Names, next : Nat])
      /\ L \in Nat /\ L >= 1
  <2>1. list \in Seq(Plugin) /\ stack \in Seq([name : Names, next : Nat])
    BY DEF Listed
  <2>2. QED
    BY <1>1, <2>1, EmptySeq, LenProperties
<1>4. /\ Top = stack[L] /\ Top.name \in Names /\ Top.next \in Nat
      /\ Top.name \in NamesOf(list) /\ Top \in [name : Names, next : Nat]
  <2>1. L \in 1 .. L
    BY <1>3
  <2>2. stack[L] \in [name : Names, next : Nat]
    BY <1>3, <2>1, ElementOfSeq
  <2>3. QED
    BY <2>1, <2>2 DEF Top, Listed
<1>5. /\ seen \in Seq([name : Names, next : Nat]) /\ Len(seen) = L
      /\ \A k \in 1 .. L : seen[k].name = stack[k].name
      /\ \A k \in 1 .. L : k # L => seen[k] = stack[k]
      /\ seen[L].next = Top.next + 1 /\ seen[L].name = Top.name
  <2>1. /\ seen \in Seq(Frames) /\ Len(seen) = L
        /\ \A k \in 1 .. L : seen[k].name = stack[k].name
        /\ \A k \in 1 .. L : k # L => seen[k] = stack[k]
        /\ seen[L].next = Top.next + 1
    BY <1>1, <1>3, AdvancedStack DEF Frames
  <2> HIDE DEF seen
  <2>2. L \in 1 .. L
    BY <1>3
  <2>3. QED
    BY <1>4, <2>1, <2>2 DEF Frames
<1> HIDE DEF seen
<1>6. CASE UNCHANGED stack
  BY <1>1, <1>2, <1>6, SameStack
<1>7. CASE stack' = seen /\ deps \subseteq done
  <2>1. Listed'
    BY <1>1, <1>2, <1>3, <1>5, <1>7 DEF Listed
  <2>2. ASSUME NEW k \in 1 .. L, NEW i \in 1 .. Len(Inject(list, seen[k].name)),
               i < seen[k].next
        PROVE  DependsOn(list, Inject(list, seen[k].name)[i])
                 \subseteq done \cup IF k < L THEN {seen[k + 1].name} ELSE {}
    <3>1. CASE k = L /\ i = Top.next
      BY <1>4, <1>5, <1>7, <3>1
    <3>2. CASE k = L /\ i # Top.next
      <4>1. Len(Inject(list, Top.name)) \in Nat
        BY <1>3, <1>4, InjectType
      <4>2. i < stack[k].next /\ i \in 1 .. Len(Inject(list, stack[k].name))
        BY <1>4, <1>5, <2>2, <3>2, <4>1
      <4>3. QED
        BY <1>4, <1>5, <3>2, <4>2 DEF SeenSettled, Awaited
    <3>3. CASE k # L
      <4>1. k + 1 \in 1 .. L /\ k < L
        BY <1>3, <3>3
      <4>2. QED
        BY <1>5, <2>2, <3>3, <4>1 DEF SeenSettled, Awaited
    <3>4. QED
      BY <3>1, <3>2, <3>3
  <2>3. SeenSettled'
    BY <1>1, <1>5, <1>7, <2>2 DEF SeenSettled, Awaited
  <2>4. DoneIsOrder' /\ OrderTopological'
    BY <1>1 DEF DoneIsOrder, OrderTopological
  <2>5. QED
    BY <1>2, <2>1, <2>3, <2>4
<1>8. ASSUME NEW n \in deps, stack' = Append(seen, Frame(n))
      PROVE  IInv'
  <2>1. n \in NamesOf(list) /\ n \in Names /\ deps = {n}
    BY <1>3, DependsOnListed
  <2>2. /\ stack' \in Seq([name : Names, next : Nat]) /\ Len(stack') = L + 1
        /\ \A k \in 1 .. L : stack'[k] = seen[k]
        /\ stack'[L + 1] = Frame(n)
    <3>1. Frame(n) \in [name : Names, next : Nat]
      BY <2>1 DEF Frame
    <3>2. QED
      BY <1>5, <1>8, <3>1, AppendProperties
  <2>3. Listed'
    <3>1. \A k \in 1 .. L + 1 : stack'[k].name \in NamesOf(list)
      <4> SUFFICES ASSUME NEW k \in 1 .. L + 1 PROVE stack'[k].name \in NamesOf(list)
        OBVIOUS
      <4>1. CASE k = L + 1
        BY <2>1, <2>2, <4>1 DEF Frame
      <4>2. CASE k # L + 1
        <5>1. k \in 1 .. L
          BY <1>3, <4>2
        <5>2. QED
          BY <1>5, <2>2, <5>1 DEF Listed
      <4>3. QED
        BY <4>1, <4>2
    <3>2. QED
      BY <1>1, <1>2, <2>2, <3>1 DEF Listed
  <2>4. ASSUME NEW k \in 1 .. L + 1, NEW i \in 1 .. Len(Inject(list, stack'[k].name)),
               i < stack'[k].next
        PROVE  DependsOn(list, Inject(list, stack'[k].name)[i])
                 \subseteq done \cup IF k < L + 1 THEN {stack'[k + 1].name} ELSE {}
    <3>1. CASE k = L + 1
      <4>1. stack'[k].next = 1
        BY <2>2, <3>1 DEF Frame
      <4>2. i >= 1
        <5>1. Len(Inject(list, stack'[k].name)) \in Nat
          BY <1>1, <1>3, <2>3, <2>2, InjectType DEF Listed
        <5>2. QED
          BY <5>1
      <4>3. QED
        BY <2>4, <4>1, <4>2
    <3>2. CASE k = L
      <4>1. /\ k \in 1 .. L /\ k < L + 1 /\ stack'[k] = seen[L] /\ stack'[k + 1].name = n
            /\ Len(Inject(list, Top.name)) \in Nat
        BY <1>3, <1>4, <2>2, <3>2, InjectType DEF Frame
      <4>2. CASE i = Top.next
        BY <1>5, <2>1, <4>1, <4>2
      <4>3. CASE i # Top.next
        <5>1. i \in 1 .. Len(Inject(list, stack[L].name)) /\ i < stack[L].next
          BY <1>4, <1>5, <2>4, <4>1, <4>3
        <5>2. DependsOn(list, Inject(list, stack[L].name)[i]) \subseteq done
          BY <1>3, <5>1 DEF SeenSettled, Awaited
        <5>3. QED
          BY <1>4, <1>5, <4>1, <5>2
      <4>4. QED
        BY <4>2, <4>3
    <3>3. CASE k < L
      <4>1. k \in 1 .. L /\ k + 1 \in 1 .. L /\ k < L + 1 /\ k # L
        BY <1>3, <3>3
      <4>2. stack'[k] = stack[k] /\ stack'[k + 1].name = stack[k + 1].name
        BY <1>5, <2>2, <4>1
      <4>3. QED
        BY <2>4, <3>3, <4>1, <4>2 DEF SeenSettled, Awaited
    <3>4. QED
      BY <1>3, <3>1, <3>2, <3>3
  <2>5. SeenSettled'
    BY <1>1, <2>2, <2>4 DEF SeenSettled, Awaited
  <2>6. DoneIsOrder' /\ OrderTopological'
    BY <1>1 DEF DoneIsOrder, OrderTopological
  <2>7. QED
    BY <1>2, <2>3, <2>5, <2>6
<1>9. QED
  BY <1>1, <1>6, <1>7, <1>8

\* The plugin whose entries are all seen goes to the end of the order.
LEMMA FinishStep ==
  ASSUME IInv, Finish
  PROVE  IInv'
<1> USE DEF IInv
<1> DEFINE L == Len(stack)
           n == Top.name
           M == Len(order)
<1>1. /\ UNCHANGED <<list, phase, err, todo, loaded>> /\ stack # <<>>
      /\ Top.next > Len(Inject(list, n))
      /\ done' = done \cup {n} /\ order' = Append(order, n)
      /\ stack' = SubSeq(stack, 1, L - 1)
  BY DEF Finish, InOrder
<1>2. /\ list \in Seq(Plugin) /\ stack \in Seq([name : Names, next : Nat])
      /\ order \in Seq(Names) /\ L \in Nat /\ L >= 1 /\ M \in Nat
  <2>1. list \in Seq(Plugin) /\ stack \in Seq([name : Names, next : Nat]) /\ order \in Seq(Names)
    BY DEF Listed
  <2>2. QED
    BY <1>1, <2>1, EmptySeq, LenProperties
<1>3. /\ Top = stack[L] /\ n \in Names /\ Top.next \in Nat /\ n \in NamesOf(list)
      /\ Len(Inject(list, n)) \in Nat
  <2>1. L \in 1 .. L
    BY <1>2
  <2>2. stack[L] \in [name : Names, next : Nat]
    BY <1>2, <2>1, ElementOfSeq
  <2>3. n \in NamesOf(list)
    BY <2>1 DEF Top, Listed
  <2>4. QED
    BY <1>2, <2>1, <2>2, <2>3, InjectType DEF Top
<1>4. /\ stack' \in Seq([name : Names, next : Nat]) /\ Len(stack') = L - 1
      /\ \A k \in 1 .. L - 1 : stack'[k] = stack[k]
  BY <1>1, <1>2, WithoutTop DEF Frames
<1>5. /\ order' \in Seq(Names) /\ Len(order') = M + 1 /\ order'[M + 1] = n
      /\ \A i \in 1 .. M : order'[i] = order[i]
  BY <1>1, <1>2, <1>3, AppendProperties
<1>6. Edges(list, n) \subseteq done
  <2>1. ASSUME NEW i \in 1 .. Len(Inject(list, n))
        PROVE  DependsOn(list, Inject(list, n)[i]) \subseteq done
    <3>1. L \in 1 .. L /\ ~(L < L) /\ i < stack[L].next
      BY <1>1, <1>2, <1>3
    <3>2. QED
      BY <1>3, <3>1 DEF SeenSettled, Awaited
  <2>2. QED
    BY <2>1 DEF Edges
<1> HIDE DEF n, L, M
<1>7. Listed'
  <2>1. \A k \in 1 .. L - 1 : k \in 1 .. Len(stack)
    BY <1>2 DEF L
  <2>2. \A k \in 1 .. Len(stack') : stack'[k].name \in NamesOf(list)
    BY <1>4, <2>1 DEF Listed
  <2>3. QED
    BY <1>1, <1>2, <1>4, <1>5, <2>2 DEF Listed
<1>8. SeenSettled'
  <2> SUFFICES ASSUME NEW k \in 1 .. L - 1, NEW i \in 1 .. Len(Inject(list, stack[k].name)),
                      i < stack[k].next
               PROVE  DependsOn(list, Inject(list, stack[k].name)[i])
                        \subseteq done' \cup IF k < L - 1 THEN {stack'[k + 1].name} ELSE {}
    BY <1>1, <1>4 DEF SeenSettled, Awaited
  <2>1. k \in 1 .. L /\ k < L /\ k + 1 \in 1 .. L
    BY <1>2
  <2>2. DependsOn(list, Inject(list, stack[k].name)[i]) \subseteq done \cup {stack[k + 1].name}
    BY <2>1 DEF SeenSettled, Awaited, L
  <2>3. CASE k < L - 1
    <3>1. k + 1 \in 1 .. L - 1
      BY <1>2, <2>3
    <3>2. QED
      BY <1>1, <1>4, <2>2, <2>3, <3>1
  <2>4. CASE ~(k < L - 1)
    <3>1. k + 1 = L
      BY <1>2, <2>4
    <3>2. stack[k + 1].name = n
      BY <1>3, <3>1 DEF n
    <3>3. QED
      BY <1>1, <2>2, <2>4, <3>2
  <2>5. QED
    BY <2>3, <2>4
<1>9. \A i \in 1 .. M : {order'[j] : j \in 1 .. i - 1} = {order[j] : j \in 1 .. i - 1}
  <2> SUFFICES ASSUME NEW i \in 1 .. M, NEW j \in 1 .. i - 1
               PROVE  order'[j] = order[j]
    OBVIOUS
  <2>1. j \in 1 .. M
    BY <1>2
  <2>2. QED
    BY <1>5, <2>1
<1>10. done = {order'[j] : j \in 1 .. M}
  BY <1>5 DEF DoneIsOrder, M
<1>11. DoneIsOrder'
  <2>1. 1 .. M + 1 = (1 .. M) \cup {M + 1}
    BY <1>2
  <2>2. QED
    BY <1>1, <1>5, <1>10, <2>1 DEF DoneIsOrder
<1>12. OrderTopological'
  <2> SUFFICES ASSUME NEW i \in 1 .. M + 1
               PROVE  Edges(list, order'[i]) \subseteq {order'[j] : j \in 1 .. i - 1}
    <3>1. DOMAIN order' = 1 .. M + 1
      BY <1>5, LenProperties
    <3>2. QED
      BY <1>1, <3>1 DEF OrderTopological
  <2>1. CASE i = M + 1
    <3>1. i - 1 = M
      BY <1>2, <2>1
    <3>2. QED
      BY <1>5, <1>6, <1>10, <2>1, <3>1
  <2>2. CASE i # M + 1
    <3>1. i \in 1 .. M /\ i \in DOMAIN order
      BY <1>2, <2>2 DEF M
    <3>2. QED
      BY <1>5, <1>9, <3>1 DEF OrderTopological
  <2>3. QED
    BY <2>1, <2>2
<1>13. NothingBefore'
  BY <1>1 DEF NothingBefore
<1>14. QED
  BY <1>7, <1>8, <1>11, <1>12, <1>13

-----------------------------------------------------------------------------
\* The invariant is inductive.
THEOREM LoadOrderNext == IInv /\ [Next]_vars => IInv'
<1> SUFFICES ASSUME IInv, [Next]_vars PROVE IInv'
  OBVIOUS
<1>1. CASE Begin
  <2>1. UNCHANGED <<list, stack, done, order>> /\ todo' \subseteq NamesOf(list)
    BY <1>1 DEF Begin, IInv, Listed
  <2>2. NothingBefore'
    BY <1>1 DEF Begin, IInv, NothingBefore
  <2>3. QED
    BY <2>1, <2>2, SameStack
<1>2. CASE VisitNext
  BY <1>2, VisitNextStep
<1>3. CASE SeeDependency
  BY <1>3, SeeDependencyStep
<1>4. CASE Finish
  BY <1>4, FinishStep
<1>5. CASE Sorted \/ LoadOne \/ Return
  <2>1. UNCHANGED <<list, stack, done, order>> /\ todo' \subseteq NamesOf(list)
    BY <1>5 DEF Sorted, LoadOne, Return, IInv, Listed
  <2>2. NothingBefore'
    BY <1>5 DEF Sorted, LoadOne, Return, IInv, NothingBefore
  <2>3. QED
    BY <2>1, <2>2, SameStack
<1>6. CASE UNCHANGED vars
  <2>1. UNCHANGED <<list, stack, done, order>> /\ todo' \subseteq NamesOf(list)
    BY <1>6 DEF vars, IInv, Listed
  <2>2. NothingBefore'
    BY <1>6 DEF vars, IInv, NothingBefore
  <2>3. QED
    BY <2>1, <2>2, SameStack
<1>7. QED
  BY <1>1, <1>2, <1>3, <1>4, <1>5, <1>6 DEF Next

\* For every list, at every moment of the sort: a plugin comes after every plugin
\* its Inject leads to.
THEOREM LoadOrderTopological == Spec => []OrderTopological
<1>1. IInv => OrderTopological
  BY DEF IInv
<1>2. QED
  BY <1>1, LoadOrderInit, LoadOrderNext, PTL DEF Spec

\* A list that is refused, for a duplicate name or a cycle, leaves the kernel as it
\* was.
THEOREM LoadOrderNothingLoaded == Spec => []NothingLoadedOnBadList
<1>1. IInv => NothingLoadedOnBadList
  BY DEF IInv, NothingBefore, NothingLoadedOnBadList
<1>2. QED
  BY <1>1, LoadOrderInit, LoadOrderNext, PTL DEF Spec

-----------------------------------------------------------------------------
Depth == 1 .. Len(stack)

\* The map visiting holds the names on the stack, each of them once, and none of
\* them is done; each activation was called for an entry of the one below it.
Visiting == visiting = {stack[k].name : k \in Depth}
Once == \A j, k \in Depth : stack[j].name = stack[k].name => j = k
NotDone == \A k \in Depth : stack[k].name \notin done
Chain == \A k \in Depth : k < Len(stack) => stack[k + 1].name \in Edges(list, stack[k].name)

Started == \A k \in Depth : stack[k].next >= 1

\* No plugin is forgotten: what the sort has not yet to visit is done or on the
\* stack, and after the sort all of it is done.
NoneForgotten ==
    /\ phase = "sort" => NamesOf(list) \subseteq todo \cup done \cup visiting
    /\ phase = "load" \/ (phase = "returned" /\ err \notin {"duplicate", "cycle"})
          => NamesOf(list) \subseteq done

CycleInv ==
    /\ Visiting /\ Once /\ NotDone /\ Chain /\ Started /\ NoneForgotten
    /\ err = "cycle" => Cyclic

\* Every nonempty set of numbers has a least one.
LEMMA LeastNumber ==
  ASSUME NEW T, T \subseteq Nat, T # {}
  PROVE  \E x \in T : \A y \in T : x <= y
<1>1. PICK x \in T : \A y \in T : ~ (<<y, x>> \in OpToRel(<, Nat))
  BY NatLessThanWellFounded, WFMin
<1>2. \A y \in T : ~ (y < x)
  BY <1>1 DEF OpToRel
<1>3. QED
  BY <1>2

\* What comes in an order where each comes after all it depends on is no circle:
\* of a circle, the one that comes first would depend on an earlier one.
LEMMA OrderedIsNotCyclic ==
  ASSUME IInv, NamesOf(list) \subseteq done
  PROVE  ~ Cyclic
<1> SUFFICES ASSUME NEW S \in (SUBSET NamesOf(list)) \ {{}},
                    \A n \in S : Edges(list, n) \cap S # {}
             PROVE  FALSE
  BY DEF Cyclic
<1> DEFINE M == Len(order)
           T == {i \in 1 .. M : order[i] \in S}
<1>1. order \in Seq(Names) /\ M \in Nat /\ DOMAIN order = 1 .. M
  <2>1. order \in Seq(Names)
    BY DEF IInv, Listed
  <2>2. QED
    BY <2>1, LenProperties
<1>2. T \subseteq Nat /\ T # {}
  <2>1. PICK n \in S : n \in done
    <3>1. S \subseteq done /\ S # {}
      OBVIOUS
    <3>2. QED
      BY <3>1
  <2>2. PICK j \in 1 .. M : n = order[j]
    BY <2>1 DEF IInv, DoneIsOrder
  <2>3. j \in T /\ T \subseteq 1 .. M
    BY <2>1, <2>2
  <2>4. QED
    BY <1>1, <2>3
<1>3. PICK i \in T : \A j \in T : i <= j
  BY <1>2, LeastNumber
<1>4. PICK n \in S : n \in Edges(list, order[i])
  OBVIOUS
<1>5. PICK j \in 1 .. i - 1 : n = order[j]
  BY <1>1, <1>4 DEF IInv, OrderTopological
<1>6. j \in T /\ j < i
  BY <1>1, <1>5
<1>7. QED
  BY <1>1, <1>3, <1>6

\* The names that the stack goes through from position j on are a circle, when the
\* last of them depends on the first.
LEMMA StackIsCyclic ==
  ASSUME IInv, CycleInv, NEW j \in Depth,
         stack[j].name \in Edges(list, stack[Len(stack)].name)
  PROVE  Cyclic
<1> DEFINE L == Len(stack)
           S == {stack[k].name : k \in j .. L}
<1>1. L \in Nat /\ L >= 1
  <2>1. stack \in Seq(Frames)
    BY DEF IInv, Listed, Frames
  <2>2. QED
    BY <2>1, LenProperties DEF Depth
<1>2. \A k \in j .. L : k \in Depth
  BY <1>1 DEF Depth
<1>3. S \subseteq NamesOf(list)
  BY <1>2 DEF IInv, Listed, Depth
<1>4. stack[j].name \in S
  BY <1>1 DEF Depth
<1>5. ASSUME NEW k \in j .. L
      PROVE  Edges(list, stack[k].name) \cap S # {}
  <2>1. CASE k = L
    BY <1>4, <2>1
  <2>2. CASE k # L
    <3>1. k < L /\ k + 1 \in j .. L
      BY <1>1, <2>2 DEF Depth
    <3>2. stack[k + 1].name \in S /\ stack[k + 1].name \in Edges(list, stack[k].name)
      BY <1>2, <3>1 DEF CycleInv, Chain
    <3>3. QED
      BY <3>2
  <2>3. QED
    BY <2>1, <2>2
<1> HIDE DEF S
<1>6. S \in (SUBSET NamesOf(list)) \ {{}} /\ \A n \in S : Edges(list, n) \cap S # {}
  <2>1. \A n \in S : \E k \in j .. L : n = stack[k].name
    BY DEF S
  <2>2. \A n \in S : Edges(list, n) \cap S # {}
    BY <1>5, <2>1
  <2>3. S # {}
    BY <1>4
  <2>4. S \in (SUBSET NamesOf(list)) \ {{}}
    BY <1>3, <2>3
  <2>5. QED
    BY <2>2, <2>4
<1>7. QED
  BY <1>6 DEF Cyclic

\* Before the sort the stack is empty.
THEOREM CycleInit == Init => CycleInv
<1> SUFFICES ASSUME Init PROVE CycleInv
  OBVIOUS
<1>1. stack = <<>> /\ visiting = {} /\ phase = "begin" /\ err = ""
  BY DEF Init
<1>2. Depth = {}
  <2>1. Len(<<>>) = 0 /\ 1 .. 0 = {}
    OBVIOUS
  <2>2. QED
    BY <1>1, <2>1 DEF Depth
<1>3. QED
  BY <1>1, <1>2 DEF CycleInv, Visiting, Once, NotDone, Chain, Started, NoneForgotten

\* The steps that leave the stack, visiting and done alone.
LEMMA CycleSameStack ==
  ASSUME CycleInv, UNCHANGED <<list, stack, visiting, done>>, NoneForgotten',
         err' = "cycle" => Cyclic
  PROVE  CycleInv'
<1>1. (Visiting /\ Once /\ NotDone /\ Chain /\ Started)'
  BY DEF CycleInv, Visiting, Once, NotDone, Chain, Started, Depth
<1>2. Cyclic' <=> Cyclic
  BY DEF Cyclic
<1>3. QED
  BY <1>1, <1>2 DEF CycleInv

\* A stack of the same names is as good.
LEMMA CycleSameNames ==
  ASSUME CycleInv, UNCHANGED <<list, visiting, done, phase, err, todo>>,
         Len(stack') = Len(stack), Len(stack) \in Nat,
         \A k \in Depth : stack'[k].name = stack[k].name /\ stack'[k].next >= 1
  PROVE  CycleInv'
<1>1. Depth' = Depth
  BY DEF Depth
<1>2. Visiting' /\ Once' /\ NotDone' /\ Started'
  BY <1>1 DEF CycleInv, Visiting, Once, NotDone, Started
<1>3. Chain'
  <2> SUFFICES ASSUME NEW k \in Depth, k < Len(stack)
               PROVE  stack'[k + 1].name \in Edges(list, stack'[k].name)
    BY <1>1 DEF Chain
  <2>1. k + 1 \in Depth
    BY DEF Depth
  <2>2. QED
    BY <2>1 DEF CycleInv, Chain
<1>4. NoneForgotten' /\ (err' = "cycle" => Cyclic')
  BY DEF CycleInv, NoneForgotten, Cyclic
<1>5. QED
  BY <1>2, <1>3, <1>4 DEF CycleInv

\* The loop visits a plugin that is not done, on an empty stack.
LEMMA CycleVisitNext ==
  ASSUME IInv, CycleInv, VisitNext
  PROVE  CycleInv'
<1>1. PICK n \in todo : /\ todo' = todo \ {n}
                       /\ IF n \in done THEN UNCHANGED <<stack, visiting>>
                          ELSE stack' = <<Frame(n)>> /\ visiting' = visiting \cup {n}
  BY DEF VisitNext
<1>2. /\ UNCHANGED <<list, phase, err, done>> /\ stack = <<>> /\ Depth = {} /\ phase = "sort"
  <2>1. Len(<<>>) = 0 /\ 1 .. 0 = {}
    OBVIOUS
  <2>2. QED
    BY <2>1 DEF VisitNext, Depth
<1>3. visiting = {}
  BY <1>2 DEF CycleInv, Visiting
<1>4. NoneForgotten'
  BY <1>1, <1>2 DEF CycleInv, NoneForgotten
<1>5. err' = "cycle" => Cyclic
  BY <1>2 DEF CycleInv
<1>6. CASE n \in done
  BY <1>1, <1>2, <1>4, <1>5, <1>6, CycleSameStack
<1>7. CASE n \notin done
  <2>1. /\ Len(stack') = 1 /\ Depth' = {1} /\ stack'[1].name = n
        /\ stack'[1].next = 1
    <3>1. Len(<<Frame(n)>>) = 1 /\ <<Frame(n)>>[1] = Frame(n) /\ 1 .. 1 = {1}
      OBVIOUS
    <3>2. Frame(n).name = n /\ Frame(n).next = 1
      BY DEF Frame
    <3>3. QED
      BY <1>1, <1>7, <3>1, <3>2 DEF Depth
  <2>2. Visiting' /\ Once' /\ NotDone' /\ Chain' /\ Started'
    BY <1>1, <1>2, <1>3, <1>7, <2>1 DEF Visiting, Once, NotDone, Chain, Started
  <2>3. Cyclic' <=> Cyclic
    BY <1>2 DEF Cyclic
  <2>4. QED
    BY <1>4, <1>5, <2>2, <2>3 DEF CycleInv
<1>8. QED
  BY <1>6, <1>7

\* visit calls itself for a plugin that is neither done nor being visited; the one
\* it finds being visited closes a circle.
LEMMA CycleSeeDependency ==
  ASSUME IInv, CycleInv, SeeDependency
  PROVE  CycleInv'
<1> DEFINE L == Len(stack)
           at == Inject(list, Top.name)[Top.next]
           deps == DependsOn(list, at)
           seen == Advanced(stack)
<1>1. /\ UNCHANGED <<list, todo, done>> /\ phase = "sort" /\ stack # <<>>
      /\ Top.next <= Len(Inject(list, Top.name))
  BY DEF SeeDependency
<1>2. \/ stack' = seen /\ UNCHANGED <<phase, err, visiting>>
      \/ \E n \in deps : /\ ~ (deps \subseteq done) /\ n \in visiting /\ UNCHANGED <<stack, visiting>>
                         /\ phase' = "returned" /\ err' = "cycle"
      \/ \E n \in deps : /\ ~ (deps \subseteq done) /\ n \notin visiting
                         /\ stack' = Append(seen, Frame(n)) /\ visiting' = visiting \cup {n}
                         /\ UNCHANGED <<phase, err>>
  BY DEF SeeDependency, Settled
<1>3. /\ stack \in Seq(Frames) /\ L \in Nat /\ L >= 1 /\ L \in Depth /\ Top = stack[L]
      /\ Top \in Frames /\ list \in Seq(Plugin)
      /\ seen \in Seq(Frames) /\ Len(seen) = L /\ \A k \in Depth : seen[k].name = stack[k].name /\ seen[k].next >= 1
  <2>1. stack \in Seq(Frames) /\ list \in Seq(Plugin)
    BY DEF IInv, Listed, Frames
  <2>2. /\ L \in Nat /\ L >= 1 /\ Top \in Frames
        /\ seen \in Seq(Frames) /\ Len(seen) = L /\ \A k \in 1 .. L : seen[k].name = stack[k].name
        /\ \A k \in 1 .. L : k # L => seen[k] = stack[k]
        /\ seen[L].next = Top.next + 1
    BY <1>1, <2>1, AdvancedStack
  <2> HIDE DEF seen
  <2>3. ASSUME NEW k \in Depth PROVE seen[k].next >= 1
    <3>1. CASE k = L
      BY <2>2, <3>1 DEF Frames
    <3>2. CASE k # L
      BY <2>2, <3>2 DEF CycleInv, Started, Depth
    <3>3. QED
      BY <3>1, <3>2
  <2>4. QED
    BY <2>1, <2>2, <2>3 DEF Top, Depth
<1>4. deps \subseteq Edges(list, Top.name)
  <2>1. Top.next \in 1 .. Len(Inject(list, Top.name))
    <3>1. Top.next >= 1 /\ Top.next \in Nat
      BY <1>3 DEF CycleInv, Started, Frames
    <3>2. Top.name \in NamesOf(list)
      BY <1>3 DEF IInv, Listed, Depth
    <3>3. Len(Inject(list, Top.name)) \in Nat
      BY <1>3, <3>2, InjectType
    <3>4. QED
      BY <1>1, <3>1, <3>3
  <2>2. QED
    BY <2>1 DEF Edges
<1>5. CASE stack' = seen /\ UNCHANGED <<phase, err, visiting>>
  BY <1>1, <1>3, <1>5, CycleSameNames
<1> HIDE DEF deps, seen
<1>6. ASSUME NEW n \in deps, n \in visiting, UNCHANGED <<stack, visiting>>,
             phase' = "returned", err' = "cycle"
      PROVE  CycleInv'
  <2>1. PICK j \in Depth : n = stack[j].name
    BY <1>6 DEF CycleInv, Visiting
  <2>2. Cyclic
    BY <1>3, <1>4, <2>1, StackIsCyclic
  <2>3. NoneForgotten'
    BY <1>6 DEF NoneForgotten
  <2>4. QED
    BY <1>1, <1>6, <2>2, <2>3, CycleSameStack
<1>7. ASSUME NEW n \in deps, ~ (deps \subseteq done), n \notin visiting,
             stack' = Append(seen, Frame(n)), visiting' = visiting \cup {n},
             UNCHANGED <<phase, err>>
      PROVE  CycleInv'
  <2>1. n \in Names /\ n \notin done
    BY <1>3, <1>7, DependsOnListed DEF deps
  <2>2. /\ Len(stack') = L + 1 /\ stack'[L + 1].name = n /\ stack'[L + 1].next = 1
        /\ \A k \in Depth : stack'[k].name = stack[k].name /\ stack'[k].next >= 1
    <3>1. Frame(n) \in Frames /\ Frame(n).name = n /\ Frame(n).next = 1
      BY <2>1 DEF Frame, Frames
    <3>2. Len(stack') = L + 1 /\ stack'[L + 1] = Frame(n) /\ \A k \in 1 .. L : stack'[k] = seen[k]
      BY <1>3, <1>7, <3>1, AppendProperties
    <3>3. QED
      BY <1>3, <3>1, <3>2 DEF Depth
  <2>3. Depth' = Depth \cup {L + 1} /\ L + 1 \notin Depth
    BY <1>3, <2>2 DEF Depth
  <2>4. Visiting'
    <3>1. {stack'[k].name : k \in Depth \cup {L + 1}} = {stack[k].name : k \in Depth} \cup {n}
      BY <2>2
    <3>2. QED
      BY <1>7, <2>3, <3>1 DEF CycleInv, Visiting
  <2>5. Once'
    <3>1. \A k \in Depth : stack[k].name # n
      BY <1>7 DEF CycleInv, Visiting
    <3>2. QED
      BY <2>2, <2>3, <3>1 DEF CycleInv, Once
  <2>6. NotDone' /\ Started'
    BY <1>1, <2>1, <2>2, <2>3 DEF CycleInv, NotDone, Started
  <2>7. Chain'
    <3> SUFFICES ASSUME NEW k \in Depth', k < L + 1
                 PROVE  stack'[k + 1].name \in Edges(list, stack'[k].name)
      BY <1>1, <2>2 DEF Chain
    <3>1. CASE k = L
      BY <1>3, <1>4, <2>2, <3>1
    <3>2. CASE k # L
      <4>1. k \in Depth /\ k < L /\ k + 1 \in Depth
        BY <1>3, <2>3, <3>2 DEF Depth
      <4>2. QED
        BY <2>2, <4>1 DEF CycleInv, Chain
    <3>3. QED
      BY <3>1, <3>2
  <2>8. NoneForgotten' /\ (err' = "cycle" => Cyclic')
    BY <1>1, <1>7 DEF CycleInv, NoneForgotten, Cyclic
  <2>9. QED
    BY <2>4, <2>5, <2>6, <2>7, <2>8 DEF CycleInv
<1>8. QED
  BY <1>2, <1>5, <1>6, <1>7

\* The plugin that is finished leaves the stack for done.
LEMMA CycleFinish ==
  ASSUME IInv, CycleInv, Finish
  PROVE  CycleInv'
<1> DEFINE L == Len(stack)
           n == Top.name
<1>1. /\ UNCHANGED <<list, phase, err, todo>> /\ stack # <<>>
      /\ done' = done \cup {n} /\ visiting' = visiting \ {n}
      /\ stack' = SubSeq(stack, 1, L - 1)
  BY DEF Finish
<1>2. stack \in Seq(Frames) /\ L \in Nat /\ L >= 1 /\ L \in Depth /\ n = stack[L].name
  <2>1. stack \in Seq(Frames)
    BY DEF IInv, Listed, Frames
  <2>2. QED
    BY <1>1, <2>1, AdvancedStack DEF Top, Depth
<1>3. Len(stack') = L - 1 /\ \A k \in 1 .. L - 1 : stack'[k] = stack[k]
  BY <1>1, <1>2, WithoutTop
<1>4. Depth' = Depth \ {L}
  BY <1>2, <1>3 DEF Depth
<1> HIDE DEF L, n
<1>5. \A k \in Depth' : stack'[k] = stack[k]
  BY <1>2, <1>3 DEF Depth
<1>6. \A k \in Depth' : k \in Depth /\ stack[k].name # n
  BY <1>2, <1>4 DEF CycleInv, Once
<1>7. Visiting'
  <2>1. {stack'[k].name : k \in Depth'} = {stack[k].name : k \in Depth'}
    BY <1>5
  <2>2. {stack[k].name : k \in Depth} = {stack[k].name : k \in Depth'} \cup {n}
    BY <1>2, <1>4
  <2>3. n \notin {stack[k].name : k \in Depth'}
    BY <1>6
  <2>4. QED
    BY <1>1, <2>1, <2>2, <2>3 DEF CycleInv, Visiting
<1>8. Once' /\ NotDone' /\ Started'
  BY <1>1, <1>5, <1>6 DEF CycleInv, Once, NotDone, Started
<1>9. Chain'
  <2> SUFFICES ASSUME NEW k \in Depth', k < L - 1
               PROVE  stack'[k + 1].name \in Edges(list, stack'[k].name)
    BY <1>1, <1>3 DEF Chain
  <2>1. k \in Depth /\ k < Len(stack) /\ k + 1 \in Depth'
    BY <1>2, <1>3 DEF Depth, L
  <2>2. QED
    BY <1>5, <2>1 DEF CycleInv, Chain
<1>10. NoneForgotten' /\ (err' = "cycle" => Cyclic')
  BY <1>1 DEF CycleInv, NoneForgotten, Cyclic
<1>11. QED
  BY <1>7, <1>8, <1>9, <1>10 DEF CycleInv

\* The invariant is inductive, beside the one of the order.
THEOREM CycleNext == IInv /\ CycleInv /\ [Next]_vars => CycleInv'
<1> SUFFICES ASSUME IInv, CycleInv, [Next]_vars PROVE CycleInv'
  OBVIOUS
<1>1. CASE Begin
  <2>1. UNCHANGED <<list, stack, visiting, done>>
    BY <1>1 DEF Begin
  <2>2. NoneForgotten' /\ (err' = "cycle" => Cyclic)
    BY <1>1 DEF Begin, CycleInv, NoneForgotten
  <2>3. QED
    BY <2>1, <2>2, CycleSameStack
<1>2. CASE VisitNext
  BY <1>2, CycleVisitNext
<1>3. CASE SeeDependency
  BY <1>3, CycleSeeDependency
<1>4. CASE Finish
  BY <1>4, CycleFinish
<1>5. CASE Sorted
  <2>1. /\ UNCHANGED <<list, stack, visiting, done, err, todo>> /\ phase = "sort" /\ phase' = "load"
        /\ stack = <<>> /\ todo = {}
    BY <1>5 DEF Sorted, AllVisited
  <2>2. visiting = {}
    <3>1. Depth = {}
      BY <2>1 DEF Depth
    <3>2. QED
      BY <3>1 DEF CycleInv, Visiting
  <2>3. NoneForgotten' /\ (err' = "cycle" => Cyclic)
    BY <2>1, <2>2 DEF CycleInv, NoneForgotten
  <2>4. QED
    BY <2>1, <2>3, CycleSameStack
<1>6. CASE LoadOne \/ Return
  <2>1. UNCHANGED <<list, stack, visiting, done, todo>> /\ phase = "load"
    BY <1>6 DEF LoadOne, Return
  <2>2. NoneForgotten' /\ (err' = "cycle" => Cyclic)
    BY <1>6 DEF LoadOne, Return, CycleInv, NoneForgotten
  <2>3. QED
    BY <2>1, <2>2, CycleSameStack
<1>7. CASE UNCHANGED vars
  <2>1. UNCHANGED <<list, stack, visiting, done>>
    BY <1>7 DEF vars
  <2>2. NoneForgotten' /\ (err' = "cycle" => Cyclic)
    BY <1>7 DEF vars, CycleInv, NoneForgotten
  <2>3. QED
    BY <2>1, <2>2, CycleSameStack
<1>8. QED
  BY <1>1, <1>2, <1>3, <1>4, <1>5, <1>6, <1>7 DEF Next

\* A cycle is reported exactly when the plugins depend on one another in a circle,
\* and nothing of such a list is loaded, whatever the list.
THEOREM LoadOrderCycle == Spec => []CycleReported
<1>1. IInv /\ CycleInv => CycleReported
  <2> SUFFICES ASSUME IInv, CycleInv PROVE CycleReported
    OBVIOUS
  <2>1. ASSUME phase \in {"load", "returned"}, err # "duplicate", Cyclic
        PROVE  err = "cycle"
    <3>1. CASE err # "cycle"
      <4>1. NamesOf(list) \subseteq done
        BY <2>1, <3>1 DEF CycleInv, NoneForgotten
      <4>2. QED
        BY <2>1, <4>1, OrderedIsNotCyclic
    <3>2. QED
      BY <3>1
  <2>2. err = "cycle" => Cyclic /\ loaded = {}
    BY DEF CycleInv, IInv, NothingBefore
  <2>3. QED
    BY <2>1, <2>2 DEF CycleReported
<1>2. Init => IInv /\ CycleInv
  BY LoadOrderInit, CycleInit
<1>3. (IInv /\ CycleInv) /\ [Next]_vars => (IInv /\ CycleInv)'
  BY LoadOrderNext, CycleNext
<1>4. QED
  BY <1>1, <1>2, <1>3, PTL DEF Spec

-----------------------------------------------------------------------------
\* The order holds names of the list, each once, and a list that is sorted has no
\* name twice.
EachOnce ==
    /\ \A i \in 1 .. Len(order) : order[i] \in NamesOf(list)
    /\ \A i, j \in 1 .. Len(order) : order[i] = order[j] => i = j
    /\ phase \in {"sort", "load"} => ~ Duplicated(list)

\* A sequence without repetitions is as long as its elements are many.
LEMMA LengthIsCardinality ==
  ASSUME NEW S, NEW s \in Seq(S), \A i, j \in 1 .. Len(s) : s[i] = s[j] => i = j
  PROVE  Len(s) = Cardinality({s[i] : i \in 1 .. Len(s)})
<1> DEFINE T == {s[i] : i \in 1 .. Len(s)}
<1>1. Len(s) \in Nat /\ s \in [1 .. Len(s) -> T]
  BY LenProperties
<1>2. s \in Bijection(1 .. Len(s), T)
  <2>1. \A a, b \in 1 .. Len(s) : s[a] = s[b] => a = b
    OBVIOUS
  <2>2. \A t \in T : \E a \in 1 .. Len(s) : s[a] = t
    OBVIOUS
  <2> HIDE DEF T
  <2>3. QED
    BY <1>1, <2>1, <2>2 DEF Bijection, Injection, Surjection, IsInjective
<1>3. ExistsBijection(1 .. Len(s), T)
  BY <1>2 DEF ExistsBijection
<1> HIDE DEF T
<1>4. Cardinality(T) = Len(s)
  BY <1>1, <1>3, FS_CountingElements
<1>5. QED
  BY <1>4 DEF T

\* Before the sort the order is empty.
THEOREM EachOnceInit == Init => EachOnce
<1>1. Init => order = <<>> /\ phase = "begin"
  BY DEF Init
<1>2. ASSUME order = <<>> PROVE Len(order) = 0
  BY <1>2
<1>3. QED
  BY <1>1, <1>2 DEF EachOnce

\* What is put in the order was not done, so it was not in the order.
THEOREM EachOnceNext == IInv /\ CycleInv /\ EachOnce /\ [Next]_vars => EachOnce'
<1> SUFFICES ASSUME IInv, CycleInv, EachOnce, [Next]_vars PROVE EachOnce'
  OBVIOUS
<1>1. CASE Finish
  <2> DEFINE M == Len(order)
  <2>1. /\ UNCHANGED <<list, phase>> /\ stack # <<>> /\ order' = Append(order, Top.name)
    BY <1>1 DEF Finish, InOrder
  <2>2. /\ order \in Seq(Names) /\ M \in Nat /\ stack \in Seq(Frames) /\ list \in Seq(Plugin)
        /\ Top.name \in NamesOf(list) /\ Top.name \in Names /\ Top.name \notin done
    <3>1. stack \in Seq(Frames) /\ order \in Seq(Names) /\ list \in Seq(Plugin)
      BY DEF IInv, Listed, Frames
    <3>2. Len(stack) \in 1 .. Len(stack) /\ Len(order) \in Nat
      BY <2>1, <3>1, EmptySeq, LenProperties
    <3>3. Top.name \in NamesOf(list) /\ Top.name \notin done
      BY <3>2 DEF Top, IInv, Listed, CycleInv, NotDone, Depth
    <3>4. QED
      BY <3>1, <3>2, <3>3, DependsOnListed
  <2>3. Len(order') = M + 1 /\ order'[M + 1] = Top.name /\ \A i \in 1 .. M : order'[i] = order[i]
    BY <2>1, <2>2, AppendProperties
  <2>4. 1 .. M + 1 = (1 .. M) \cup {M + 1}
    BY <2>2
  <2>5. \A i \in 1 .. M : order[i] # Top.name
    BY <2>2 DEF IInv, DoneIsOrder
  <2>6. \A i \in 1 .. M + 1 : order'[i] \in NamesOf(list)
    BY <2>2, <2>3, <2>4 DEF EachOnce
  <2>7. \A i, j \in 1 .. M + 1 : order'[i] = order'[j] => i = j
    BY <2>3, <2>4, <2>5 DEF EachOnce
  <2>8. QED
    BY <2>1, <2>3, <2>6, <2>7 DEF EachOnce
<1>2. CASE Begin
  BY <1>2 DEF Begin, EachOnce
<1>3. CASE VisitNext \/ SeeDependency \/ Sorted
  BY <1>3 DEF VisitNext, SeeDependency, Sorted, EachOnce
<1>4. CASE LoadOne \/ Return \/ UNCHANGED vars
  BY <1>4 DEF LoadOne, Return, vars, EachOnce
<1>5. QED
  BY <1>1, <1>2, <1>3, <1>4 DEF Next

\* Each plugin of the list has its place in the order when the loading begins, and
\* has it once.
THEOREM LoadOrderComplete == Spec => []OrderComplete
<1>1. IInv /\ CycleInv /\ EachOnce => OrderComplete
  <2> SUFFICES ASSUME IInv, CycleInv, EachOnce, phase = "load"
               PROVE  /\ {order[i] : i \in DOMAIN order} = NamesOf(list)
                      /\ Len(order) = Len(list)
    BY DEF OrderComplete
  <2>1. /\ list \in Seq(Plugin) /\ order \in Seq(Names)
        /\ DOMAIN order = 1 .. Len(order) /\ DOMAIN list = 1 .. Len(list) /\ Len(list) \in Nat
    BY LenProperties DEF IInv, Listed
  <2>2. {order[i] : i \in 1 .. Len(order)} = NamesOf(list)
    <3>1. NamesOf(list) \subseteq done
      BY DEF CycleInv, NoneForgotten
    <3>2. QED
      BY <3>1 DEF IInv, DoneIsOrder, EachOnce
  <2>3. Len(order) = Cardinality(NamesOf(list))
    BY <2>1, <2>2, LengthIsCardinality DEF EachOnce
  <2> DEFINE names == [i \in 1 .. Len(list) |-> list[i].name]
  <2>4. /\ names \in Seq(Names) /\ Len(names) = Len(list)
    <3>1. ASSUME NEW i \in 1 .. Len(list) PROVE list[i].name \in Names
      <4>1. list[i] \in Plugin
        BY <2>1, ElementOfSeq
      <4>2. QED
        BY <4>1 DEF Plugin
    <3>2. QED
      BY <2>1, <3>1, IsASeq
  <2>5. \A i, j \in 1 .. Len(list) : names[i] = names[j] => i = j
    BY <2>1 DEF EachOnce, Duplicated
  <2>6. {names[i] : i \in 1 .. Len(names)} = NamesOf(list)
    BY <2>1, <2>4 DEF NamesOf
  <2> HIDE DEF names
  <2>7. Len(list) = Cardinality(NamesOf(list))
    <3>1. \A i, j \in 1 .. Len(names) : names[i] = names[j] => i = j
      BY <2>4, <2>5
    <3>2. QED
      BY <2>4, <2>6, <3>1, LengthIsCardinality
  <2>8. QED
    BY <2>1, <2>2, <2>3, <2>7
<1>2. Init => IInv /\ CycleInv /\ EachOnce
  BY LoadOrderInit, CycleInit, EachOnceInit
<1>3. (IInv /\ CycleInv /\ EachOnce) /\ [Next]_vars => (IInv /\ CycleInv /\ EachOnce)'
  BY LoadOrderNext, CycleNext, EachOnceNext
<1>4. QED
  BY <1>1, <1>2, <1>3, PTL DEF Spec

-----------------------------------------------------------------------------
\* The plugins before the one that is next are loaded: what they put is there.  A
\* call that ends for a missing dependency has it missing now.
LoadedServe ==
    /\ next \in Nat /\ next >= 1
    /\ phase \in {"begin", "sort"} => next = 1
    /\ err = "missing" => phase = "returned" /\ next \in 1 .. Len(order) /\ Missing(Of(list, order[next]))
    /\ phase = "load" \/ err = "missing" =>
          \A j \in 1 .. next - 1 : Of(list, order[j]).puts \subseteq services

\* Before the call nothing of the list is loaded.
THEOREM LoadedServeInit == Init => LoadedServe
<1>1. Init => next = 1 /\ phase = "begin" /\ err = ""
  BY DEF Init
<1>2. ASSUME next = 1 PROVE next \in Nat /\ next >= 1 /\ \A j \in 1 .. next - 1 : FALSE
  BY <1>2
<1>3. QED
  BY <1>1, <1>2, Zenon DEF LoadedServe

\* A plugin that is loaded puts its keys and none goes; the call ends at the first that fails.
THEOREM LoadedServeNext == IInv /\ LoadedServe /\ [Next]_vars => LoadedServe'
<1> SUFFICES ASSUME IInv, LoadedServe, [Next]_vars PROVE LoadedServe'
  OBVIOUS
<1>1. CASE LoadOne
  <2> DEFINE p == Of(list, order[next])
  <2>1. /\ phase = "load" /\ UNCHANGED <<list, order>> /\ err = ""
    BY <1>1 DEF LoadOne, IInv, NothingBefore
  <2>2. \/ /\ Missing(p) /\ err' = "missing" /\ phase' = "returned" /\ UNCHANGED <<services, next>>
        \/ /\ err' = "apply" /\ phase' = "returned" /\ UNCHANGED <<services, next>>
        \/ /\ services' = services \cup p.puts /\ next' = next + 1 /\ UNCHANGED <<phase, err>>
    BY <1>1 DEF LoadOne
  <2>3. next \in 1 .. Len(order)
    <3>1. next \in Nat /\ next >= 1
      BY DEF LoadedServe
    <3>2. next <= Len(order) /\ Len(order) \in Nat
      BY <1>1, LenProperties DEF LoadOne, IInv, Listed
    <3>3. QED
      BY <3>1, <3>2
  <2>4. CASE Missing(p) /\ err' = "missing" /\ phase' = "returned" /\ UNCHANGED <<services, next>>
    <3>1. Missing(p)'
      BY <2>1, <2>4 DEF Missing
    <3>2. QED
      BY <2>1, <2>3, <2>4, <3>1 DEF LoadedServe
  <2>5. CASE err' = "apply" /\ phase' = "returned" /\ UNCHANGED <<services, next>>
    BY <2>1, <2>5 DEF LoadedServe
  <2>6. CASE services' = services \cup p.puts /\ next' = next + 1 /\ UNCHANGED <<phase, err>>
    <3>1. next' \in Nat /\ next' >= 1 /\ next' - 1 = next /\ 1 .. next = (1 .. next - 1) \cup {next}
      BY <2>6 DEF LoadedServe
    <3>2. \A j \in 1 .. next : Of(list, order[j]).puts \subseteq services'
      BY <2>1, <2>6, <3>1 DEF LoadedServe
    <3>3. QED
      BY <2>1, <2>6, <3>1, <3>2 DEF LoadedServe
  <2>7. QED
    BY <2>2, <2>4, <2>5, <2>6
<1>2. CASE Sorted
  <2>1. next' = 1 /\ err' # "missing"
    BY <1>2 DEF Sorted, IInv, NothingBefore, LoadedServe
  <2>2. 1 .. 1 - 1 = {}
    OBVIOUS
  <2>3. QED
    BY <2>1, <2>2 DEF LoadedServe
<1>3. CASE Begin \/ VisitNext \/ SeeDependency \/ Finish
  <2>1. phase \in {"begin", "sort"} /\ phase' # "load" /\ next' = next /\ err' # "missing"
    BY <1>3 DEF Begin, VisitNext, SeeDependency, Finish, IInv, NothingBefore
  <2>2. QED
    BY <2>1 DEF LoadedServe
<1>4. CASE Return
  BY <1>4 DEF Return, IInv, NothingBefore, LoadedServe
<1>5. CASE UNCHANGED vars
  BY <1>5 DEF vars, LoadedServe, Missing
<1>6. QED
  BY <1>1, <1>2, <1>3, <1>4, <1>5 DEF Next

\* When a plugin fails for a missing dependency, the plugin its declaration leads
\* to (there is at most one) did not put it there: the order itself is never why.
THEOREM LoadOrderServes == Spec => []ProvidersServeConsumers
<1>1. IInv /\ EachOnce /\ LoadedServe => ProvidersServeConsumers
  <2> SUFFICES ASSUME IInv, EachOnce, LoadedServe, err = "missing"
               PROVE  LET p == Of(list, order[next])
                      IN \E i \in DOMAIN p.inject : \A n \in DependsOn(list, p.inject[i]) :
                           p.inject[i] \notin Of(list, n).puts
    BY DEF ProvidersServeConsumers
  <2> DEFINE p == Of(list, order[next])
  <2>1. /\ next \in 1 .. Len(order) /\ order \in Seq(Names) /\ list \in Seq(Plugin)
        /\ DOMAIN order = 1 .. Len(order)
    BY LenProperties DEF LoadedServe, IInv, Listed
  <2>2. PICK i \in DOMAIN p.inject : p.inject[i] \notin services
    BY DEF LoadedServe, Missing
  <2>3. order[next] \in NamesOf(list)
    BY <2>1 DEF EachOnce
  <2>4. p.inject \in Seq(Keys) /\ DOMAIN p.inject = 1 .. Len(p.inject)
    BY <2>1, <2>3, InjectType, LenProperties DEF Inject
  <2>5. ASSUME NEW n \in DependsOn(list, p.inject[i])
        PROVE  p.inject[i] \notin Of(list, n).puts
    <3>1. n \in Edges(list, order[next])
      BY <2>2, <2>4 DEF Edges, Inject
    <3>2. PICK j \in 1 .. next - 1 : n = order[j]
      BY <2>1, <3>1 DEF IInv, OrderTopological
    <3>3. Of(list, n).puts \subseteq services
      BY <3>2 DEF LoadedServe
    <3>4. QED
      BY <2>2, <3>3
  <2>6. QED
    BY <2>2, <2>5
<1>2. Init => IInv /\ CycleInv /\ EachOnce /\ LoadedServe
  BY LoadOrderInit, CycleInit, EachOnceInit, LoadedServeInit
<1>3. (IInv /\ CycleInv /\ EachOnce /\ LoadedServe) /\ [Next]_vars
        => (IInv /\ CycleInv /\ EachOnce /\ LoadedServe)'
  BY LoadOrderNext, CycleNext, EachOnceNext, LoadedServeNext
<1>4. QED
  BY <1>1, <1>2, <1>3, PTL DEF Spec
-----------------------------------------------------------------------------
\* What the other variables hold: names and keys in the sets, and the position
\* in the order a position.
Position == next \in Nat /\ next >= 1
Named == todo \subseteq Names /\ visiting \subseteq Names /\ done \subseteq Names
Served == loaded \subseteq Names /\ services \subseteq Keys
Stage == phase \in {"begin", "sort", "load", "returned"}
Outcome == err \in {"", "duplicate", "cycle", "missing", "apply"}

Values == Position /\ Named /\ Served /\ Stage /\ Outcome

\* At the start, whatever the parent scope provides.
THEOREM ValuesInit == Init => Values
<1> SUFFICES ASSUME Init PROVE Values
  OBVIOUS
<1>1. Position
  <2>1. next = 1
    BY DEF Init
  <2>2. QED
    BY ONLY <2>1 DEF Position
<1>2. Named
  BY DEF Init, Named
<1>3. Served
  BY DEF Init, Served
<1>4. Stage /\ Outcome
  BY DEF Init, Stage, Outcome
<1>5. QED
  BY <1>1, <1>2, <1>3, <1>4 DEF Values

\* A step of the sort moves names of the list, and a Load adds what its plugin puts.
THEOREM ValuesNext == IInv /\ EachOnce /\ Values /\ [Next]_vars => Values'
<1> SUFFICES ASSUME IInv, EachOnce, Values, [Next]_vars PROVE Values'
  OBVIOUS
<1>1. /\ list \in Seq(Plugin) /\ NamesOf(list) \subseteq Names /\ order \in Seq(Names)
      /\ \A key : DependsOn(list, key) \subseteq Names
  BY DependsOnListed DEF IInv, Listed
<1>2. Stage' /\ Outcome'
  BY DEF Values, Stage, Outcome, Next, vars, Begin, VisitNext, SeeDependency, Finish, Sorted,
         LoadOne, Return
<1>3. CASE LoadOne
  <2> DEFINE p == Of(list, order[next])
  <2>1. Position /\ next <= Len(order)
    BY <1>3 DEF LoadOne, Values
  <2>2. \/ UNCHANGED <<loaded, services, next>>
        \/ loaded' = loaded \cup {p.name} /\ services' = services \cup p.puts /\ next' = next + 1
    BY <1>3 DEF LoadOne
  <2>3. p.name \in Names /\ p.puts \subseteq Keys
    <3>1. next \in 1 .. Len(order)
      BY <1>1, <2>1, LenProperties DEF Position
    <3>2. order[next] \in NamesOf(list)
      BY <3>1 DEF EachOnce
    <3>3. PICK i \in DOMAIN list : p = list[i]
      BY <3>2 DEF NamesOf, Of
    <3>4. p \in Plugin
      BY <1>1, <3>3, ElementOfSeq
    <3>5. \A q \in Plugin : q.name \in Names /\ q.puts \subseteq Keys
      BY DEF Plugin
    <3>6. QED
      BY ONLY <3>4, <3>5
  <2> HIDE DEF p
  <2>4. Named'
    BY <1>3 DEF LoadOne, Values, Named
  <2>5. Served'
    BY <2>2, <2>3 DEF Values, Served
  <2>6. Position'
    BY <2>1, <2>2 DEF Position
  <2>7. QED
    BY <1>2, <2>4, <2>5, <2>6 DEF Values
<1>4. CASE ~LoadOne
  <2>1. UNCHANGED <<next, loaded, services>>
    BY <1>4 DEF Next, vars, Begin, VisitNext, SeeDependency, Finish, Sorted, Return
  <2>2. Position' /\ Served'
    BY <2>1 DEF Values, Position, Served
  <2>3. Named'
    <3>1. CASE VisitNext
      <4>1. PICK n \in todo : todo' = todo \ {n} /\ visiting' \in {visiting, visiting \cup {n}}
        BY <3>1 DEF VisitNext
      <4>2. done' = done
        BY <3>1 DEF VisitNext
      <4>3. QED
        BY <4>1, <4>2 DEF Values, Named
    <3>2. CASE SeeDependency
      <4>1. UNCHANGED <<todo, done>>
        BY <3>2 DEF SeeDependency
      <4>2. visiting' = visiting \/ \E n \in Names : visiting' = visiting \cup {n}
        BY <1>1, <3>2 DEF SeeDependency
      <4>3. QED
        BY <4>1, <4>2 DEF Values, Named
    <3>3. CASE Finish
      <4>1. Top.name \in Names
        BY <1>1, <3>3, LenProperties DEF Finish, Top, IInv, Listed
      <4>2. todo' = todo /\ visiting' = visiting \ {Top.name} /\ done' = done \cup {Top.name}
        BY <3>3 DEF Finish
      <4>3. QED
        BY <4>1, <4>2 DEF Values, Named
    <3>4. CASE Begin
      BY <1>1, <3>4 DEF Begin, Values, Named
    <3>5. CASE Sorted \/ Return \/ UNCHANGED vars
      BY <3>5 DEF Sorted, Return, vars, Values, Named
    <3>6. QED
      BY <1>4, <3>1, <3>2, <3>3, <3>4, <3>5 DEF Next
  <2>4. QED
    BY <1>2, <2>2, <2>3 DEF Values
<1>5. QED
  BY <1>3, <1>4

\* Every variable keeps its type: the sort works on names of the list only.
THEOREM LoadOrderType == Spec => []TypeOK
<1>1. IInv /\ Values => TypeOK
  BY DEF IInv, Listed, Values, Position, Named, Served, Stage, Outcome, TypeOK
<1>2. Init => IInv /\ CycleInv /\ EachOnce /\ Values
  BY LoadOrderInit, CycleInit, EachOnceInit, ValuesInit
<1>3. (IInv /\ CycleInv /\ EachOnce /\ Values) /\ [Next]_vars
        => (IInv /\ CycleInv /\ EachOnce /\ Values)'
  BY LoadOrderNext, CycleNext, EachOnceNext, ValuesNext
<1>4. QED
  BY <1>1, <1>2, <1>3, PTL DEF Spec
=============================================================================
