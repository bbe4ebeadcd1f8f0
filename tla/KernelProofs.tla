---------------------------- MODULE KernelProofs ----------------------------
(***************************************************************************)
(* What Kernel's scopes and registry guarantee for any number of plugins,  *)
(* callers and calls, and for every profile: also when two goroutines load *)
(* and unload the same plugin at once.                                     *)
(***************************************************************************)
EXTENDS Kernel, SequenceTheorems, FiniteSetTheorems, TLAPS

\* A goroutine between Fork and the end of the scope's disposal.
InHand(c) == calls[c].pc \in {"apply", "rollback", "dispose", "replay"}

\* A call has a plugin to work on, and reads Inject and Script from 1.
CallsWellFormed ==
    \A c \in Callers :
        /\ calls[c].pc \notin {"idle", "snapshot", "stop", "panic"}
              => calls[c].names # <<>>
        /\ calls[c].pc \in {"inject", "apply"} => calls[c].at >= 1

\* A scope in the hands of a goroutine is in nobody else's and in no entry.
ScopesOwned ==
    \A c \in Callers : InHand(c) =>
        /\ calls[c].scope \in 1 .. forks
        /\ \A d \in Callers : InHand(d) /\ d # c => calls[d].scope # calls[c].scope
        /\ \A p \in Plugins : registry[p] # calls[c].scope
        /\ calls[c].pc \in {"apply", "dispose"} => ~scopes[calls[c].scope].disposed
        /\ calls[c].pc = "apply" => scopes[calls[c].scope].plugin = Target(c)

\* Entries and registrations exist only for scopes that were forked, a disposed
\* scope has no list any more, and what is in force is a listener or an effect.
ScopesForked ==
    /\ \A p \in Plugins : registry[p] <= forks
    /\ \A s \in Scopes :
          /\ s > forks => inForce[s] = {} /\ scopes[s] = Scratch
          /\ scopes[s].disposed => scopes[s].disposers = <<>>
          /\ \A i \in inForce[s] :
                /\ i \in DOMAIN Script[scopes[s].plugin]
                /\ Script[scopes[s].plugin][i].kind \in {"on", "effect"}

\* The inductive invariant of what holds for every profile.
IInv == /\ TypeOK /\ CallsWellFormed /\ ScopesOwned /\ ScopesForked
        /\ RegisteredScopeLives /\ EveryEffectReversible

-----------------------------------------------------------------------------
\* The names a call has left: the first is a plugin, the rest are names again.
LEMMA TailOfNames ==
  ASSUME NEW names \in Seq(Plugins), names # <<>>
  PROVE  /\ Head(names) \in Plugins
         /\ Tail(names) \in Seq(Plugins)
         /\ Len(names) > 1 => Tail(names) # <<>>
<1>1. /\ Head(names) \in Plugins
      /\ Tail(names) \in Seq(Plugins)
      /\ Len(Tail(names)) = Len(names) - 1
  BY HeadTailProperties
<1>2. Len(names) \in Nat
  BY LenProperties
<1>3. Len(<<>>) = 0
  OBVIOUS
<1>4. Len(names) > 1 => Tail(names) # <<>>
  BY <1>1, <1>2, <1>3
<1>5. QED
  BY <1>1, <1>4

\* A goroutine that is in no call has the type of a call.
LEMMA IdleType == Idle \in Call /\ Idle.pc = "idle"
  BY DEF Idle, Call, Steps, Operations

\* A scope that was not forked yet has the type of a scope.
LEMMA ScratchType == Scratch \in Scope
  BY KernelAssumption DEF Scratch, Scope

\* Load returns to a call that is over, or to LoadPlugins with a plugin left.
LEMMA AfterLoadType ==
  ASSUME NEW call \in Call, call.names # <<>>, NEW ok \in BOOLEAN
  PROVE  /\ AfterLoad(call, ok) \in Call
         /\ AfterLoad(call, ok).pc \in {"idle", "check"}
         /\ AfterLoad(call, ok).pc = "check" => AfterLoad(call, ok).names # <<>>
<1>0. call.names \in Seq(Plugins)
  BY DEF Call
<1>1. CASE call.op = "loadplugins" /\ ok /\ Len(call.names) > 1
  <2>1. Tail(call.names) \in Seq(Plugins) /\ Tail(call.names) # <<>>
    BY <1>0, <1>1, TailOfNames
  <2>2. QED
    BY <1>1, <2>1 DEF AfterLoad, Call, Steps, NoScope
<1>2. CASE ~(call.op = "loadplugins" /\ ok /\ Len(call.names) > 1)
  BY <1>2, IdleType DEF AfterLoad
<1>3. QED
  BY <1>1, <1>2

\* Unload returns to a call that is over, to Reload's Load, or to Shutdown.
LEMMA AfterUnloadType ==
  ASSUME NEW call \in Call, call.names # <<>>, NEW ok \in BOOLEAN
  PROVE  /\ AfterUnload(call, ok) \in Call
         /\ AfterUnload(call, ok).pc \in {"idle", "check", "delete", "stop"}
         /\ AfterUnload(call, ok).pc \in {"check", "delete"}
               => AfterUnload(call, ok).names # <<>>
<1>0. call.names \in Seq(Plugins)
  BY DEF Call
<1>1. CASE call.op = "reload" /\ ok
  BY <1>1 DEF AfterUnload, Call, Steps, NoScope
<1>2. CASE call.op = "shutdown"
  <2>1. /\ Tail(call.names) \in Seq(Plugins)
        /\ Len(call.names) > 1 => Tail(call.names) # <<>>
    BY <1>0, TailOfNames
  <2>2. QED
    BY <1>2, <2>1 DEF AfterUnload, Call, Steps, NoScope
<1>3. CASE ~(call.op = "reload" /\ ok) /\ call.op # "shutdown"
  BY <1>3, IdleType DEF AfterUnload
<1>4. QED
  BY <1>1, <1>2, <1>3

-----------------------------------------------------------------------------
\* A new kernel (New: no plugin, no service, no scope) satisfies the invariant.
THEOREM KernelInit == Init => IInv
<1> SUFFICES ASSUME Init PROVE IInv
  OBVIOUS
<1>1. TypeOK
  <2>1. \A c \in Callers : calls[c] = Idle
    BY DEF Init
  <2>2. calls \in [Callers -> Call]
    BY IdleType DEF Init
  <2>3. scopes \in [Scopes -> Scope]
    BY ScratchType DEF Init
  <2>4. QED
    BY <2>2, <2>3, KernelAssumption DEF TypeOK, Init, NoScope
<1>2. CallsWellFormed /\ ScopesOwned
  BY IdleType DEF Init, CallsWellFormed, ScopesOwned, InHand
<1>3. ScopesForked /\ RegisteredScopeLives /\ EveryEffectReversible
  BY KernelAssumption
     DEF Init, ScopesForked, RegisteredScopeLives, EveryEffectReversible,
         Scratch, Scopes, NoScope
<1>4. QED
  BY <1>1, <1>2, <1>3 DEF IInv

\* A step of one goroutine that touches no scope and no registry: it stays at
\* Apply, or it ends with no scope in hand and no disposer left to run.
LEMMA CallOnly ==
  ASSUME IInv, NEW c \in Callers, NEW call \in Call,
         calls' = [calls EXCEPT ![c] = call],
         UNCHANGED <<registry, services, inForce, scopes, forks, allowed>>,
         booked' \in 0 .. MaxForks,
         root' \in [disposed : BOOLEAN, started : BOOLEAN],
         call.pc \notin {"idle", "snapshot", "stop", "panic"}
            => call.names # <<>>,
         call.pc \in {"inject", "apply"} => call.at >= 1,
         \/ call.pc \notin {"apply", "rollback", "dispose", "replay"}
         \/ /\ call.pc = "apply" /\ calls[c].pc = "apply"
            /\ call.scope = calls[c].scope /\ call.names = calls[c].names,
         calls[c].pc \in {"rollback", "replay"} => calls[c].pending = <<>>
  PROVE  IInv'
<1> USE DEF IInv
<1>0. \A d \in Callers : calls'[d] = IF d = c THEN call ELSE calls[d]
  BY DEF TypeOK
<1>1. TypeOK'
  BY DEF TypeOK
<1>2. CallsWellFormed'
  BY <1>0 DEF CallsWellFormed
<1>3. ScopesOwned'
  BY <1>0 DEF ScopesOwned, InHand, Target
<1>4. ScopesForked' /\ RegisteredScopeLives'
  BY DEF ScopesForked, RegisteredScopeLives
<1>5. EveryEffectReversible'
  <2> SUFFICES ASSUME NEW s \in Scopes, NEW i \in inForce[s],
                      NEW d \in Callers, calls[d].scope = s,
                      calls[d].pc \in {"rollback", "replay"},
                      NEW j \in DOMAIN calls[d].pending,
                      calls[d].pending[j].at = i
               PROVE  calls'[d] = calls[d]
    BY DEF EveryEffectReversible
  <2>1. CASE d # c
    BY <2>1, <1>0
  <2>2. CASE d = c
    BY <2>2
  <2>3. QED
    BY <2>1, <2>2
<1>6. QED
  BY <1>1, <1>2, <1>3, <1>4, <1>5

\* The steps of a call that change nothing but the call.
LEMMA StepsOfACall ==
  ASSUME IInv, NEW c \in Callers,
         \/ Invoke(c)   \/ Check(c)    \/ CheckInject(c)
         \/ ApplyUse(c) \/ Lookup(c)   \/ Snapshot(c)
         \/ Replayed(c) \/ Stop(c)
  PROVE  IInv'
<1> USE DEF IInv
<1>0. /\ calls[c] \in Call /\ booked \in 0 .. MaxForks
      /\ root \in [disposed : BOOLEAN, started : BOOLEAN]
      /\ calls[c].pc \notin {"idle", "snapshot", "stop", "panic"}
            => calls[c].names # <<>> /\ calls[c].names \in Seq(Plugins)
      /\ MaxForks \in Nat
  BY KernelAssumption DEF TypeOK, CallsWellFormed, Call
<1>1. CASE Invoke(c)
  <2>1. PICK r \in allowed[c] :
          /\ booked + Needed(r) <= MaxForks
          /\ booked' = booked + Needed(r)
          /\ calls' = [calls EXCEPT ![c] =
               [Idle EXCEPT !.pc = FirstStep(r.op), !.op = r.op,
                            !.names = r.names, !.parent = r.parent]]
    BY <1>1 DEF Invoke
  <2>2. r \in Request
    BY KernelAssumption DEF TypeOK
  <2>3. Needed(r) \in Nat
    BY <2>2, LenProperties DEF Needed, Request
  <2> DEFINE call == [Idle EXCEPT !.pc = FirstStep(r.op), !.op = r.op,
                                  !.names = r.names, !.parent = r.parent]
  <2>4. FirstStep(r.op) \in {"check", "delete", "lookup", "snapshot"}
        /\ (r.op = "shutdown" <=> FirstStep(r.op) = "snapshot")
    BY <2>2 DEF FirstStep, Request, Operations
  <2>5. call \in Call /\ call.pc = FirstStep(r.op) /\ call.names = r.names
    BY <2>2, <2>4, IdleType DEF Call, Steps, Request, Idle
  <2>6. booked' \in 0 .. MaxForks
    BY <1>0, <2>1, <2>3
  <2>7. r.op # "shutdown" => r.names # <<>>
    BY <2>2 DEF Request
  <2>8. calls[c].pc = "idle"
    BY <1>1 DEF Invoke
  <2>9. /\ calls' = [calls EXCEPT ![c] = call]
        /\ UNCHANGED <<registry, services, inForce, scopes, forks, allowed, root>>
    BY <1>1, <2>1 DEF Invoke
  <2> HIDE DEF call
  <2>10. QED
    BY <1>0, <2>4, <2>5, <2>6, <2>7, <2>8, <2>9, CallOnly
<1>2. CASE Check(c)
  <2>1. PICK call \in Call :
          /\ calls' = [calls EXCEPT ![c] = call]
          /\ call.pc \in {"idle", "inject", "check"}
          /\ call.pc # "idle" => call.names # <<>>
          /\ call.pc = "inject" => call.at >= 1
    <3>1. CASE NameFree(Target(c))
      <4> DEFINE call == [calls[c] EXCEPT !.pc = "inject", !.at = 1]
      <4>1. call \in Call /\ call.pc = "inject" /\ call.at = 1
            /\ call.names = calls[c].names
        BY <1>0 DEF Call, Steps
      <4>2. calls' = [calls EXCEPT ![c] = call]
        BY <1>2, <3>1 DEF Check
      <4>3. calls[c].names # <<>>
        BY <1>0, <1>2 DEF Check
      <4> HIDE DEF call
      <4>4. call.at >= 1
        BY <4>1
      <4>5. call.names # <<>> /\ call.pc \in {"idle", "inject", "check"}
        BY <4>1, <4>3
      <4>6. QED
        BY <4>1, <4>2, <4>4, <4>5
    <3>2. CASE ~NameFree(Target(c))
      <4>1. calls' = [calls EXCEPT ![c] = AfterLoad(calls[c], FALSE)]
        BY <1>2, <3>2 DEF Check
      <4>2. QED
        BY <1>0, <1>2, <4>1, AfterLoadType DEF Check
    <3>3. QED
      BY <3>1, <3>2
  <2>2. QED
    BY <1>0, <1>2, <2>1, CallOnly DEF Check
<1>3. CASE CheckInject(c)
  <2> DEFINE m == calls[c].missing
                    \/ ~Has(calls[c].parent, Inject[Target(c)][calls[c].at])
             n == calls[c].at + 1
             call == [calls[c] EXCEPT !.at = n, !.missing = m]
  <2>1. m \in BOOLEAN
    OBVIOUS
  <2>2. calls' = [calls EXCEPT ![c] = call]
    BY <1>3 DEF CheckInject, TypeOK
  <2>3. calls[c].pc = "inject" /\ calls[c].at >= 1
    BY <1>3 DEF CheckInject, CallsWellFormed
  <2>a. n \in Nat /\ n >= 1
    BY <1>0, <2>3 DEF Call
  <2> HIDE DEF m, n
  <2>4. call \in Call /\ call.pc = "inject" /\ call.at >= 1
        /\ call.names = calls[c].names
    BY <1>0, <2>1, <2>3, <2>a DEF Call
  <2> HIDE DEF call
  <2>5. QED
    BY <1>0, <1>3, <2>2, <2>3, <2>4, CallOnly DEF CheckInject
<1>4. CASE ApplyUse(c)
  <2> DEFINE pc == IF Visible(calls[c].scope, Item(c).key)
                   THEN calls[c].pc ELSE "panic"
             n == calls[c].at + 1
             call == [calls[c] EXCEPT !.at = n, !.pc = pc]
  <2>1. calls[c].pc = "apply" /\ calls[c].at >= 1 /\ pc \in {"apply", "panic"}
    BY <1>4 DEF ApplyUse, CallsWellFormed
  <2>2. calls' = [calls EXCEPT ![c] = call]
    BY <1>4 DEF ApplyUse, TypeOK
  <2>a. n \in Nat /\ n >= 1
    BY <1>0, <2>1 DEF Call
  <2> HIDE DEF pc, n
  <2>3. /\ call \in Call /\ call.pc \in {"apply", "panic"} /\ call.at >= 1
        /\ call.names = calls[c].names /\ call.scope = calls[c].scope
    BY <1>0, <2>1, <2>a DEF Call, Steps
  <2> HIDE DEF call
  <2>4. QED
    BY <1>0, <1>4, <2>1, <2>2, <2>3, CallOnly DEF ApplyUse
<1>5. CASE Lookup(c)
  <2> DEFINE call == IF registry[Target(c)] = NoScope THEN Idle
                     ELSE [calls[c] EXCEPT !.pc = "delete"]
  <2>1. calls' = [calls EXCEPT ![c] = call] /\ calls[c].pc = "lookup"
    BY <1>5 DEF Lookup
  <2>2. [calls[c] EXCEPT !.pc = "delete"] \in Call
    BY <1>0 DEF Call, Steps
  <2>3. /\ call \in Call /\ call.pc \in {"idle", "delete"}
        /\ call.pc # "idle" => call.names # <<>>
    BY <1>0, <2>1, <2>2, IdleType DEF Call
  <2> HIDE DEF call
  <2>4. QED
    BY <1>0, <1>5, <2>1, <2>3, CallOnly DEF Lookup
<1>6. CASE Snapshot(c)
  <2> DEFINE names == {p \in Plugins : registry[p] # NoScope}
  <2>1. PICK q \in Backwards(names) :
          calls' = [calls EXCEPT ![c].names = q,
                      ![c].pc = IF names = {} THEN "stop" ELSE "delete"]
    BY <1>6 DEF Snapshot
  <2>2. IsFiniteSet(names) /\ Cardinality(names) \in Nat
        /\ (Cardinality(names) = 0 <=> names = {})
    BY KernelAssumption, FS_Subset, FS_EmptySet, FS_CardinalityType
  <2>3. q \in [1 .. Cardinality(names) -> Plugins]
    BY <2>1 DEF Backwards
  <2>4. q \in Seq(Plugins) /\ (names # {} => q # <<>>)
    <3>1. q \in Seq(Plugins)
      BY <2>2, <2>3, SeqDef
    <3>2. Len(q) = Cardinality(names)
      BY <2>2, <2>3
    <3>3. QED
      BY <2>2, <3>1, <3>2, EmptySeq
  <2> DEFINE call == [calls[c] EXCEPT !.names = q,
                        !.pc = IF names = {} THEN "stop" ELSE "delete"]
  <2>5. call \in Call /\ call.pc \in {"stop", "delete"}
        /\ (call.pc = "delete" => call.names # <<>>)
    BY <1>0, <2>4 DEF Call, Steps
  <2>6. calls' = [calls EXCEPT ![c] = call]
    BY <2>1 DEF TypeOK
  <2> HIDE DEF call, names
  <2>7. QED
    BY <1>0, <1>6, <2>5, <2>6, CallOnly DEF Snapshot
<1>7. CASE Replayed(c)
  <2>1. PICK ok \in BOOLEAN : calls' = [calls EXCEPT ![c] =
          IF @.pc = "rollback" THEN AfterLoad(@, FALSE) ELSE AfterUnload(@, ok)]
    BY <1>7 DEF Replayed
  <2>2. PICK call \in Call :
          /\ calls' = [calls EXCEPT ![c] = call]
          /\ call.pc \in {"idle", "check", "delete", "stop"}
          /\ call.pc \in {"check", "delete"} => call.names # <<>>
    BY <1>0, <1>7, <2>1, AfterLoadType, AfterUnloadType DEF Replayed
  <2>3. /\ calls[c].pc \in {"rollback", "replay"} /\ calls[c].pending = <<>>
        /\ UNCHANGED <<registry, services, inForce, scopes, forks, booked,
                       allowed, root>>
    BY <1>7 DEF Replayed
  <2>4. QED
    BY <1>0, <2>2, <2>3, CallOnly
<1>8. CASE Stop(c)
  <2>1. calls' = [calls EXCEPT ![c] = Idle] /\ calls[c].pc = "stop"
        /\ root' \in [disposed : BOOLEAN, started : BOOLEAN]
    BY <1>8 DEF Stop
  <2>2. QED
    BY <1>0, <1>8, <2>1, IdleType, CallOnly DEF Stop
<1>9. QED
  BY <1>1, <1>2, <1>3, <1>4, <1>5, <1>6, <1>7, <1>8

\* Fork gives the goroutine a scope nobody else has, or ends the call.
LEMMA ForkStep ==
  ASSUME IInv, NEW c \in Callers, Fork(c)
  PROVE  IInv'
<1> USE DEF IInv
<1>0. /\ calls[c] \in Call /\ calls[c].pc = "inject" /\ calls[c].names # <<>>
      /\ calls[c].names \in Seq(Plugins) /\ calls[c].parent \in Isolates \cup {Root}
      /\ forks \in Nat /\ MaxForks \in Nat /\ forks <= MaxForks
      /\ Target(c) \in Plugins
  <2>1. calls[c] \in Call /\ calls[c].pc = "inject" /\ calls[c].names # <<>>
    BY DEF TypeOK, CallsWellFormed, Fork
  <2>2. calls[c].names \in Seq(Plugins) /\ calls[c].parent \in Isolates \cup {Root}
    BY <2>1 DEF Call
  <2>3. forks \in Nat /\ MaxForks \in Nat /\ forks <= MaxForks
    BY KernelAssumption DEF TypeOK
  <2>4. QED
    BY <2>1, <2>2, <2>3, TailOfNames DEF Target
<1>1. CASE DependenciesMissing(c)
  <2>1. /\ calls' = [calls EXCEPT ![c] = AfterLoad(calls[c], FALSE)]
        /\ UNCHANGED <<registry, services, inForce, scopes, forks, booked,
                       allowed, root>>
    BY <1>1 DEF Fork
  <2>2. booked' \in 0 .. MaxForks /\ root' \in [disposed : BOOLEAN, started : BOOLEAN]
    BY <2>1 DEF TypeOK
  <2>3. QED
    BY <1>0, <2>1, <2>2, AfterLoadType, CallOnly
<1>2. CASE ~DependenciesMissing(c)
  <2> DEFINE n == forks + 1
             new == [Scratch EXCEPT !.plugin = Target(c), !.parent = calls[c].parent]
             call == [calls[c] EXCEPT !.pc = "apply", !.at = 1, !.scope = n]
  <2>1. /\ forks < MaxForks /\ forks' = n
        /\ scopes' = [scopes EXCEPT ![n] = new]
        /\ calls' = [calls EXCEPT ![c] = call]
        /\ UNCHANGED <<registry, services, inForce, booked, allowed, root>>
    BY <1>2 DEF Fork, TypeOK
  <2>2. n \in Scopes /\ n > forks /\ forks' \in 0 .. MaxForks
    BY <1>0, <2>1 DEF Scopes
  <2>3. new \in Scope /\ new.plugin = Target(c) /\ ~new.disposed
        /\ new.disposers = <<>>
    BY <1>0, ScratchType DEF Scope, Scratch
  <2>4. call \in Call /\ call.pc = "apply" /\ call.at = 1 /\ call.scope = n
        /\ call.names = calls[c].names
    BY <1>0, <2>2 DEF Call, Steps
  <2> HIDE DEF new, call
  <2>5. /\ \A d \in Callers : calls'[d] = IF d = c THEN call ELSE calls[d]
        /\ \A s \in Scopes : scopes'[s] = IF s = n THEN new ELSE scopes[s]
    BY <2>1 DEF TypeOK
  <2>6. TypeOK'
    BY <2>1, <2>2, <2>3, <2>4 DEF TypeOK
  <2>7. CallsWellFormed'
    BY <1>0, <2>4, <2>5 DEF CallsWellFormed
  <2>8. ScopesOwned'
    <3>1. /\ \A d \in Callers : InHand(d) => calls[d].scope # n /\ calls[d].scope \in 1 .. forks'
                                   /\ calls[d].scope \in Scopes
          /\ \A p \in Plugins : registry[p] # n
          /\ n \in 1 .. forks'
      BY <1>0, <2>1, <2>2 DEF ScopesOwned, ScopesForked, Scopes
    <3>2. QED
      BY <1>0, <2>1, <2>2, <2>3, <2>4, <2>5, <3>1 DEF ScopesOwned, InHand, Target
  <2>9. ScopesForked'
    <3>1. inForce[n] = {}
      BY <2>2 DEF ScopesForked
    <3>2. \A p \in Plugins : registry[p] \in Scopes \cup {NoScope} /\ registry[p] <= forks
      BY DEF TypeOK, ScopesForked
    <3>3. \A p \in Plugins : registry'[p] <= forks'
      BY <1>0, <2>1, <3>2 DEF Scopes, NoScope
    <3>4. \A s \in Scopes : s > forks' => s > forks /\ s # n
      BY <1>0, <2>1 DEF Scopes
    <3>5. QED
      BY <2>1, <2>2, <2>3, <2>5, <3>1, <3>3, <3>4 DEF ScopesForked
  <2>10. RegisteredScopeLives'
    <3>1. \A p \in Plugins : registry[p] \in Scopes \cup {NoScope} /\ registry[p] # n
      BY <1>0, <2>2 DEF TypeOK, ScopesForked
    <3>2. QED
      BY <2>1, <2>5, <3>1 DEF RegisteredScopeLives
  <2>11. EveryEffectReversible'
    <3> SUFFICES ASSUME NEW s \in Scopes, NEW i \in inForce[s],
                        s # n
                 PROVE  \/ \E j \in DOMAIN scopes'[s].disposers :
                              scopes'[s].disposers[j].at = i
                        \/ \E d \in Callers :
                              /\ calls'[d].scope = s
                              /\ calls'[d].pc \in {"rollback", "replay"}
                              /\ \E j \in DOMAIN calls'[d].pending :
                                    calls'[d].pending[j].at = i
      <4>1. inForce[n] = {} /\ inForce' = inForce
        BY <2>1, <2>2 DEF ScopesForked
      <4>2. QED
        BY <4>1 DEF EveryEffectReversible
    <3>1. CASE \E j \in DOMAIN scopes[s].disposers : scopes[s].disposers[j].at = i
      BY <2>5, <3>1
    <3>2. CASE \E d \in Callers :
                 /\ calls[d].scope = s
                 /\ calls[d].pc \in {"rollback", "replay"}
                 /\ \E j \in DOMAIN calls[d].pending : calls[d].pending[j].at = i
      BY <1>0, <2>5, <3>2
    <3>3. QED
      BY <3>1, <3>2 DEF EveryEffectReversible
  <2>12. QED
    BY <2>6, <2>7, <2>8, <2>9, <2>10, <2>11
<1>3. QED
  BY <1>1, <1>2

\* A list holds the disposer of position i; a list holds all that another holds.
Holds(list, i) == \E j \in DOMAIN list : list[j].at = i
HoldsAll(list, old) == \A i : Holds(old, i) => Holds(list, i)

\* A list with one more disposer holds that one and all it held.
LEMMA OneMore ==
  ASSUME NEW old \in Seq(Disposer), NEW d \in Disposer
  PROVE  /\ Append(old, d) \in Seq(Disposer)
         /\ HoldsAll(Append(old, d), old)
         /\ Holds(Append(old, d), d.at)
<1> DEFINE new == Append(old, d)
<1>1. /\ new \in Seq(Disposer)
      /\ Len(new) = Len(old) + 1
      /\ \A j \in 1 .. Len(old) : new[j] = old[j]
      /\ new[Len(old) + 1] = d
  BY AppendProperties
<1> HIDE DEF new
<1>2. /\ Len(old) \in Nat /\ DOMAIN old = 1 .. Len(old)
      /\ DOMAIN new = 1 .. Len(old) + 1
  BY <1>1, LenProperties
<1>3. ASSUME NEW i, NEW j \in DOMAIN old, old[j].at = i
      PROVE  \E l \in DOMAIN new : new[l].at = i
  <2>1. j \in DOMAIN new /\ new[j] = old[j]
    BY <1>1, <1>2, <1>3
  <2>2. QED
    BY <1>3, <2>1
<1>4. Len(old) + 1 \in DOMAIN new
  BY <1>2
<1>5. Holds(new, d.at)
  BY <1>1, <1>4 DEF Holds
<1>6. QED
  BY <1>1, <1>3, <1>5 DEF Holds, HoldsAll, new

\* Apply's goroutine adds to the scope in its hands: the old disposers stay, and
\* what it puts in force has a disposer.
LEMMA ScopeGrows ==
  ASSUME IInv, NEW c \in Callers, calls[c].pc = "apply",
         calls[c].at <= Len(Script[Target(c)]),
         NEW s, s = calls[c].scope, NEW new \in Scope, NEW extra,
         new.plugin = scopes[s].plugin, new.disposed = scopes[s].disposed,
         HoldsAll(new.disposers, scopes[s].disposers),
         extra \subseteq {calls[c].at},
         extra # {} =>
            /\ Script[Target(c)][calls[c].at].kind \in {"on", "effect"}
            /\ Holds(new.disposers, calls[c].at),
         scopes' = [scopes EXCEPT ![s] = new],
         inForce' = [inForce EXCEPT ![s] = @ \cup extra],
         services' \in [Keys -> Scopes \cup {NoScope}],
         calls' = [calls EXCEPT ![c].at = @ + 1],
         UNCHANGED <<registry, forks, booked, allowed, root>>
  PROVE  IInv'
<1> USE DEF IInv
<1> DEFINE n == calls[c].at + 1
           call == [calls[c] EXCEPT !.at = n]
<1>1. /\ calls[c] \in Call /\ calls[c].at \in Nat /\ calls[c].at >= 1
      /\ calls[c].names # <<>> /\ calls[c].names \in Seq(Plugins)
      /\ Target(c) \in Plugins
  <2>1. calls[c] \in Call /\ calls[c].at >= 1 /\ calls[c].names # <<>>
    BY DEF TypeOK, CallsWellFormed
  <2>2. calls[c].at \in Nat /\ calls[c].names \in Seq(Plugins)
    BY <2>1 DEF Call
  <2>3. QED
    BY <2>1, <2>2, TailOfNames DEF Target
<1>2. n \in Nat /\ n >= 1
  BY <1>1
<1>3. calls' = [calls EXCEPT ![c] = call]
  BY DEF TypeOK
<1> HIDE DEF n
<1>4. /\ call \in Call /\ call.pc = "apply" /\ call.at = n /\ call.scope = s
      /\ call.names = calls[c].names
  BY <1>1, <1>2 DEF Call
<1> HIDE DEF call
<1>5. /\ s \in 1 .. forks /\ ~scopes[s].disposed /\ scopes[s].plugin = Target(c)
      /\ \A p \in Plugins : registry[p] # s
  BY DEF ScopesOwned, InHand
<1>6. s \in Scopes /\ ~(s > forks)
  BY <1>5, KernelAssumption DEF TypeOK, Scopes
<1>7. /\ \A d \in Callers : calls'[d] = IF d = c THEN call ELSE calls[d]
      /\ \A t \in Scopes : scopes'[t] = IF t = s THEN new ELSE scopes[t]
      /\ \A t \in Scopes : inForce'[t] = IF t = s THEN inForce[s] \cup extra
                                                  ELSE inForce[t]
  BY <1>3, <1>6 DEF TypeOK
<1>8. TypeOK'
  BY <1>1, <1>3, <1>4, <1>6 DEF TypeOK
<1>9. CallsWellFormed'
  BY <1>1, <1>2, <1>4, <1>7 DEF CallsWellFormed
<1>10. ScopesOwned'
  <2>1. \A d \in Callers : InHand(d) => calls[d].scope \in Scopes
    BY KernelAssumption DEF ScopesOwned, Scopes, TypeOK
  <2>2. \A d \in Callers : InHand(d)' <=> InHand(d)
    BY <1>4, <1>7 DEF InHand
  <2>3. \A d \in Callers : calls'[d].scope = calls[d].scope /\ calls'[d].pc = calls[d].pc
                            /\ calls'[d].names = calls[d].names
    BY <1>4, <1>7
  <2>4. \A t \in Scopes : scopes'[t].disposed = scopes[t].disposed
                           /\ scopes'[t].plugin = scopes[t].plugin
    BY <1>7
  <2>5. QED
    BY <2>1, <2>2, <2>3, <2>4 DEF ScopesOwned, Target
<1>11. ScopesForked'
  <2>1. \A i \in extra : /\ i \in DOMAIN Script[Target(c)]
                         /\ Script[Target(c)][i].kind \in {"on", "effect"}
    <3>1. Script[Target(c)] \in Seq([kind : Kinds, key : Keys])
      BY <1>1, KernelAssumption
    <3>2. calls[c].at \in DOMAIN Script[Target(c)]
      BY <1>1, <3>1
    <3>3. QED
      BY <3>2
  <2>2. \A t \in Scopes : \A i \in inForce'[t] :
          /\ i \in DOMAIN Script[scopes'[t].plugin]
          /\ Script[scopes'[t].plugin][i].kind \in {"on", "effect"}
    BY <1>5, <1>6, <1>7, <2>1 DEF ScopesForked
  <2>3. QED
    BY <1>5, <1>6, <1>7, <2>2 DEF ScopesForked
<1>12. RegisteredScopeLives'
  BY <1>5, <1>7 DEF RegisteredScopeLives, TypeOK
<1>13. EveryEffectReversible'
  <2> SUFFICES ASSUME NEW t \in Scopes, NEW i \in inForce'[t]
               PROVE  \/ \E j \in DOMAIN scopes'[t].disposers :
                            scopes'[t].disposers[j].at = i
                      \/ \E d \in Callers :
                            /\ calls'[d].scope = t
                            /\ calls'[d].pc \in {"rollback", "replay"}
                            /\ \E j \in DOMAIN calls'[d].pending :
                                  calls'[d].pending[j].at = i
    BY DEF EveryEffectReversible
  <2>1. CASE i \notin inForce[t]
    BY <2>1, <1>7 DEF Holds
  <2>2. CASE i \in inForce[t] /\ \E j \in DOMAIN scopes[t].disposers :
                                    scopes[t].disposers[j].at = i
    <3>1. CASE t = s
      <4>1. \E j \in DOMAIN new.disposers : new.disposers[j].at = i
        BY <2>2, <3>1 DEF Holds, HoldsAll
      <4>2. QED
        BY <1>7, <3>1, <4>1
    <3>2. CASE t # s
      BY <1>7, <2>2, <3>2
    <3>3. QED
      BY <3>1, <3>2
  <2>3. CASE \E d \in Callers :
               /\ calls[d].scope = t
               /\ calls[d].pc \in {"rollback", "replay"}
               /\ \E j \in DOMAIN calls[d].pending : calls[d].pending[j].at = i
    BY <2>3, <1>7
  <2>4. QED
    BY <2>1, <2>2, <2>3 DEF EveryEffectReversible
<1>14. QED
  BY <1>8, <1>9, <1>10, <1>11, <1>12, <1>13

\* Provide, On and Effect: the disposer is on the list when they return.
LEMMA ApplyStep ==
  ASSUME IInv, NEW c \in Callers, ApplyProvide(c) \/ ApplyRegister(c)
  PROVE  IInv'
<1> DEFINE s == calls[c].scope
<1>1. /\ calls[c].pc = "apply" /\ calls[c].at <= Len(Script[Target(c)])
      /\ s \in 1 .. forks /\ s \in Scopes
      /\ scopes[s] \in Scope /\ scopes[s].disposers \in Seq(Disposer)
      /\ calls[c] \in Call /\ calls[c].at \in Nat
      /\ calls[c].names \in Seq(Plugins) /\ Target(c) \in Plugins
  <2>1. calls[c].pc = "apply" /\ calls[c].at <= Len(Script[Target(c)])
    BY DEF ApplyProvide, ApplyRegister
  <2>2. s \in 1 .. forks /\ s \in Scopes
    BY <2>1, KernelAssumption DEF IInv, ScopesOwned, InHand, Scopes, TypeOK
  <2>3. scopes[s] \in Scope /\ calls[c] \in Call
    BY <2>2 DEF IInv, TypeOK
  <2>4. calls[c].names \in Seq(Plugins) /\ calls[c].names # <<>>
    BY <2>1, <2>3 DEF IInv, CallsWellFormed, Call
  <2>5. scopes[s].disposers \in Seq(Disposer) /\ calls[c].at \in Nat
    BY <2>3 DEF Scope, Call
  <2>6. QED
    BY <2>1, <2>2, <2>3, <2>4, <2>5, TailOfNames DEF Target
<1>2. Item(c).key \in Keys
  <2>1. Script[Target(c)] \in Seq([kind : Kinds, key : Keys])
    BY <1>1, KernelAssumption
  <2>2. calls[c].at \in 1 .. Len(Script[Target(c)])
    BY <1>1, <2>1 DEF IInv, CallsWellFormed
  <2>a. Script[Target(c)][calls[c].at] \in [kind : Kinds, key : Keys]
    BY <2>1, <2>2, ElementOfSeq
  <2>3. Item(c) \in [kind : Kinds, key : Keys]
    BY <2>a DEF Item
  <2>4. QED
    BY <2>3
<1>4. CASE ApplyRegister(c)
  <2> DEFINE d == [at |-> calls[c].at, prev |-> NoScope]
             new == [scopes[s] EXCEPT !.disposers = Append(@, d)]
  <2>1. d \in Disposer /\ d.at = calls[c].at
    BY <1>1 DEF Disposer
  <2>2. /\ new \in Scope /\ new.plugin = scopes[s].plugin
        /\ new.disposed = scopes[s].disposed
        /\ new.disposers = Append(scopes[s].disposers, d)
    <3>1. Append(scopes[s].disposers, d) \in Seq(Disposer)
      BY <1>1, <2>1, OneMore
    <3>2. QED
      BY <1>1, <3>1 DEF Scope
  <2>a. HoldsAll(new.disposers, scopes[s].disposers)
        /\ Holds(new.disposers, calls[c].at)
    BY <1>1, <2>1, <2>2, OneMore
  <2>3. /\ scopes' = [scopes EXCEPT ![s] = new]
        /\ inForce' = [inForce EXCEPT ![s] = @ \cup {calls[c].at}]
        /\ calls' = [calls EXCEPT ![c].at = @ + 1]
        /\ services' \in [Keys -> Scopes \cup {NoScope}]
        /\ Script[Target(c)][calls[c].at].kind \in {"on", "effect"}
        /\ UNCHANGED <<registry, forks, booked, allowed, root>>
    BY <1>4, <1>1 DEF ApplyRegister, Recorded, Item, IInv, TypeOK
  <2>b. s = calls[c].scope
    OBVIOUS
  <2> HIDE DEF d, new, s
  <2>4. QED
    BY <1>1, <2>2, <2>3, <2>a, <2>b, ScopeGrows
<1>5. CASE ApplyProvide(c)
  <2> DEFINE none == {}
  <2>0. /\ inForce' = [inForce EXCEPT ![s] = @ \cup none]
        /\ none \subseteq {calls[c].at} /\ ~(none # {})
    BY <1>1, <1>5 DEF ApplyProvide, IInv, TypeOK
  <2> HIDE DEF none
  <2>1. CASE scopes[s].parent \in Isolates
    <3> DEFINE new == [scopes[s] EXCEPT !.local = @ \cup {Item(c).key}]
    <3>1. /\ new \in Scope /\ new.plugin = scopes[s].plugin
          /\ new.disposed = scopes[s].disposed
          /\ new.disposers = scopes[s].disposers
      BY <1>1, <1>2 DEF Scope
    <3>2. /\ scopes' = [scopes EXCEPT ![s] = new]
          /\ calls' = [calls EXCEPT ![c].at = @ + 1]
          /\ services' \in [Keys -> Scopes \cup {NoScope}]
          /\ UNCHANGED <<registry, forks, booked, allowed, root>>
      BY <1>5, <1>1, <2>1 DEF ApplyProvide, IInv, TypeOK
    <3>a. s = calls[c].scope /\ HoldsAll(new.disposers, scopes[s].disposers)
      BY <3>1 DEF HoldsAll
    <3> HIDE DEF new, s
    <3>3. QED
      BY <1>1, <2>0, <3>1, <3>2, <3>a, ScopeGrows
  <2>2. CASE scopes[s].parent \notin Isolates
    <3> DEFINE d == [at |-> calls[c].at, prev |-> services[Item(c).key]]
               new == [scopes[s] EXCEPT !.disposers = Append(@, d)]
    <3>1. d \in Disposer
      BY <1>1, <1>2 DEF Disposer, IInv, TypeOK
    <3>2. /\ new \in Scope /\ new.plugin = scopes[s].plugin
          /\ new.disposed = scopes[s].disposed
          /\ new.disposers = Append(scopes[s].disposers, d)
      <4>1. Append(scopes[s].disposers, d) \in Seq(Disposer)
        BY <1>1, <3>1, OneMore
      <4>2. QED
        BY <1>1, <4>1 DEF Scope
    <3>a. HoldsAll(new.disposers, scopes[s].disposers)
      BY <1>1, <3>1, <3>2, OneMore
    <3>b. s = calls[c].scope
      OBVIOUS
    <3>3. /\ scopes' = [scopes EXCEPT ![s] = new]
          /\ calls' = [calls EXCEPT ![c].at = @ + 1]
          /\ services' \in [Keys -> Scopes \cup {NoScope}]
          /\ UNCHANGED <<registry, forks, booked, allowed, root>>
      BY <1>5, <1>1, <1>2, <2>2 DEF ApplyProvide, Recorded, IInv, TypeOK
    <3> HIDE DEF d, new, s
    <3>4. QED
      BY <1>1, <2>0, <3>2, <3>3, <3>a, <3>b, ScopeGrows
  <2>3. QED
    BY <2>1, <2>2
<1>6. QED
  BY <1>4, <1>5

\* What holds of a goroutine whose call is at work on a plugin.
LEMMA AtWork ==
  ASSUME IInv, NEW c \in Callers,
         calls[c].pc \notin {"idle", "snapshot", "stop", "panic"}
  PROVE  /\ calls[c] \in Call /\ calls[c].names # <<>>
         /\ calls[c].names \in Seq(Plugins) /\ Target(c) \in Plugins
         /\ calls[c].pending \in Seq(Disposer)
         /\ forks \in Nat /\ forks <= MaxForks /\ MaxForks \in Nat
         /\ InHand(c) => /\ calls[c].scope \in 1 .. forks /\ calls[c].scope \in Scopes
                         /\ scopes[calls[c].scope] \in Scope
                         /\ scopes[calls[c].scope].disposers \in Seq(Disposer)
<1>1. calls[c] \in Call /\ calls[c].names # <<>>
  BY DEF IInv, TypeOK, CallsWellFormed
<1>2. calls[c].names \in Seq(Plugins) /\ calls[c].pending \in Seq(Disposer)
  BY <1>1 DEF Call
<1>3. forks \in Nat /\ forks <= MaxForks /\ MaxForks \in Nat
  BY KernelAssumption DEF IInv, TypeOK
<1>4. ASSUME InHand(c)
      PROVE  /\ calls[c].scope \in 1 .. forks /\ calls[c].scope \in Scopes
             /\ scopes[calls[c].scope] \in Scope
             /\ scopes[calls[c].scope].disposers \in Seq(Disposer)
  <2>1. calls[c].scope \in 1 .. forks
    BY <1>4 DEF IInv, ScopesOwned
  <2>2. calls[c].scope \in Scopes
    BY <1>3, <2>1 DEF Scopes
  <2>3. scopes[calls[c].scope] \in Scope
    BY <2>2 DEF IInv, TypeOK
  <2>4. QED
    BY <2>1, <2>2, <2>3 DEF Scope
<1>5. QED
  BY <1>1, <1>2, <1>3, <1>4, TailOfNames DEF Target

\* Dispose moves the list from the scope into the hands of the goroutine.
LEMMA DisposeStep ==
  ASSUME IInv, NEW c \in Callers, ApplyFails(c) \/ Dispose(c)
  PROVE  IInv'
<1> USE DEF IInv
<1> DEFINE s == calls[c].scope
<1>1. PICK pc \in {"rollback", "replay"} :
        /\ scopes' = [scopes EXCEPT ![s].disposed = TRUE, ![s].disposers = <<>>]
        /\ calls' = [calls EXCEPT ![c].pc = pc, ![c].scope = s,
                                  ![c].pending = scopes[s].disposers]
        /\ UNCHANGED <<registry, services, inForce, forks, booked, allowed, root>>
  BY DEF ApplyFails, Dispose, Disposing, Taken
<1>2. calls[c].pc \in {"apply", "dispose"} /\ InHand(c)
  BY DEF ApplyFails, Dispose, InHand
<1>3. /\ calls[c] \in Call /\ calls[c].names # <<>>
      /\ s \in 1 .. forks /\ s \in Scopes /\ forks \in Nat
      /\ scopes[s] \in Scope /\ scopes[s].disposers \in Seq(Disposer)
  BY <1>2, AtWork
<1> DEFINE new == [scopes[s] EXCEPT !.disposed = TRUE, !.disposers = <<>>]
           call == [calls[c] EXCEPT !.pc = pc, !.scope = s,
                                    !.pending = scopes[s].disposers]
<1>4. scopes' = [scopes EXCEPT ![s] = new] /\ calls' = [calls EXCEPT ![c] = call]
  BY <1>1, <1>3 DEF TypeOK
<1>u. UNCHANGED <<registry, services, inForce, forks, booked, allowed, root>>
  BY <1>1
<1>5. /\ new \in Scope /\ new.plugin = scopes[s].plugin /\ new.disposers = <<>>
      /\ new.disposed
  <2>1. <<>> \in Seq(Disposer)
    OBVIOUS
  <2>2. QED
    BY <1>3, <2>1 DEF Scope
<1>6. /\ call \in Call /\ call.pc = pc /\ call.scope = s /\ call.names = calls[c].names
      /\ call.pending = scopes[s].disposers
  BY <1>1, <1>3 DEF Call, Steps
<1>o. \A p \in Plugins : registry[p] # s
  BY <1>2 DEF ScopesOwned
<1>p. s = calls[c].scope
  OBVIOUS
<1> HIDE DEF new, call, s
<1>7. /\ \A d \in Callers : calls'[d] = IF d = c THEN call ELSE calls[d]
      /\ \A t \in Scopes : scopes'[t] = IF t = s THEN new ELSE scopes[t]
  BY <1>4 DEF TypeOK
<1>8. TypeOK'
  BY <1>u, <1>4, <1>5, <1>6 DEF TypeOK
<1>9. CallsWellFormed'
  BY <1>1, <1>3, <1>6, <1>7 DEF CallsWellFormed
<1>10. ScopesOwned'
  <2>1. \A d \in Callers : InHand(d)' <=> InHand(d)
    BY <1>1, <1>2, <1>6, <1>7 DEF InHand
  <2>2. \A d \in Callers : calls'[d].scope = calls[d].scope
    BY <1>6, <1>7, <1>p
  <2>3. \A d \in Callers : InHand(d) /\ d # c =>
          calls[d].scope # s /\ calls[d].scope \in Scopes /\ calls'[d] = calls[d]
    BY <1>2, <1>7, <1>p, AtWork DEF ScopesOwned, InHand
  <2>4. ~(calls'[c].pc \in {"apply", "dispose"})
    BY <1>1, <1>6, <1>7
  <2>5. QED
    BY <1>u, <1>7, <2>1, <2>2, <2>3, <2>4 DEF ScopesOwned, Target
<1>11. ScopesForked'
  <2>1. \A t \in Scopes : t > forks => t # s
    BY <1>3
  <2>2. QED
    BY <1>u, <1>5, <1>7, <2>1 DEF ScopesForked
<1>12. RegisteredScopeLives'
  BY <1>1, <1>7, <1>o DEF RegisteredScopeLives, TypeOK
<1>13. EveryEffectReversible'
  <2> SUFFICES ASSUME NEW t \in Scopes, NEW i \in inForce[t]
               PROVE  \/ \E j \in DOMAIN scopes'[t].disposers :
                            scopes'[t].disposers[j].at = i
                      \/ \E d \in Callers :
                            /\ calls'[d].scope = t
                            /\ calls'[d].pc \in {"rollback", "replay"}
                            /\ \E j \in DOMAIN calls'[d].pending :
                                  calls'[d].pending[j].at = i
    BY <1>1 DEF EveryEffectReversible
  <2>1. CASE t # s /\ \E j \in DOMAIN scopes[t].disposers : scopes[t].disposers[j].at = i
    BY <2>1, <1>7
  <2>2. CASE t = s /\ \E j \in DOMAIN scopes[t].disposers : scopes[t].disposers[j].at = i
    BY <2>2, <1>6, <1>7
  <2>3. CASE \E d \in Callers :
               /\ calls[d].scope = t
               /\ calls[d].pc \in {"rollback", "replay"}
               /\ \E j \in DOMAIN calls[d].pending : calls[d].pending[j].at = i
    BY <2>3, <1>2, <1>7
  <2>4. QED
    BY <2>1, <2>2, <2>3 DEF EveryEffectReversible
<1>14. QED
  BY <1>8, <1>9, <1>10, <1>11, <1>12, <1>13

\* Register hands the scope over to the entry.
LEMMA RegisterStep ==
  ASSUME IInv, NEW c \in Callers, Register(c)
  PROVE  IInv'
<1> USE DEF IInv
<1> DEFINE s == calls[c].scope
           p == Target(c)
           call == AfterLoad(calls[c], TRUE)
<1>1. /\ calls[c].pc = "apply" /\ InHand(c)
      /\ registry' = [registry EXCEPT ![p] = s]
      /\ calls' = [calls EXCEPT ![c] = call]
      /\ UNCHANGED <<services, inForce, scopes, forks, booked, allowed, root>>
  BY DEF Register, InHand
<1>2. /\ calls[c] \in Call /\ calls[c].names # <<>>
      /\ s \in 1 .. forks /\ s \in Scopes /\ forks \in Nat /\ p \in Plugins
  BY <1>1, AtWork
<1>3. /\ call \in Call /\ call.pc \in {"idle", "check"}
      /\ call.pc = "check" => call.names # <<>>
  BY <1>2, AfterLoadType
<1>4. ~scopes[s].disposed /\ scopes[s].plugin = p
  BY <1>1 DEF ScopesOwned
<1>p. s = calls[c].scope
  OBVIOUS
<1> HIDE DEF s, p, call
<1>5. /\ \A d \in Callers : calls'[d] = IF d = c THEN call ELSE calls[d]
      /\ \A q \in Plugins : registry'[q] = IF q = p THEN s ELSE registry[q]
  BY <1>1 DEF TypeOK
<1>6. TypeOK'
  BY <1>1, <1>2, <1>3 DEF TypeOK
<1>7. CallsWellFormed'
  BY <1>3, <1>5 DEF CallsWellFormed
<1>8. ScopesOwned'
  <2>1. ~InHand(c)'
    BY <1>3, <1>5 DEF InHand
  <2>2. \A d \in Callers : InHand(d)' => d # c /\ InHand(d) /\ calls[d].scope # s
    BY <1>1, <1>5, <1>p, <2>1 DEF InHand, ScopesOwned
  <2>3. QED
    BY <1>1, <1>5, <2>1, <2>2 DEF ScopesOwned, Target
<1>9. ScopesForked'
  BY <1>1, <1>2, <1>5 DEF ScopesForked
<1>10. RegisteredScopeLives'
  BY <1>1, <1>4, <1>5 DEF RegisteredScopeLives
<1>11. EveryEffectReversible'
  BY <1>1, <1>5 DEF EveryEffectReversible
<1>12. QED
  BY <1>6, <1>7, <1>8, <1>9, <1>10, <1>11

\* Delete takes the scope out of the entry into the hands of the goroutine.
LEMMA DeleteStep ==
  ASSUME IInv, NEW c \in Callers, Delete(c)
  PROVE  IInv'
<1> USE DEF IInv
<1> DEFINE p == Target(c)
           s == registry[p]
<1>0. /\ calls[c].pc = "delete" /\ ~InHand(c)
      /\ UNCHANGED <<services, inForce, scopes, forks, booked, allowed, root>>
  BY DEF Delete, InHand
<1>1. /\ calls[c] \in Call /\ calls[c].names # <<>> /\ p \in Plugins /\ forks \in Nat
  BY <1>0, AtWork
<1>2. CASE s = NoScope
  <2>1. /\ calls' = [calls EXCEPT ![c] = AfterUnload(calls[c], FALSE)]
        /\ UNCHANGED registry
    BY <1>2 DEF Delete
  <2>2. booked' \in 0 .. MaxForks /\ root' \in [disposed : BOOLEAN, started : BOOLEAN]
    BY <1>0 DEF TypeOK
  <2>3. QED
    BY <1>0, <1>1, <2>1, <2>2, AfterUnloadType, CallOnly
<1>3. CASE s # NoScope
  <2> DEFINE call == [calls[c] EXCEPT !.pc = "dispose", !.scope = s]
  <2>1. /\ registry' = [registry EXCEPT ![p] = NoScope]
        /\ calls' = [calls EXCEPT ![c] = call]
    BY <1>3 DEF Delete, Deleted, TypeOK
  <2>2. /\ s \in Scopes /\ s \in 1 .. forks /\ scopes[s].plugin = p
        /\ ~scopes[s].disposed
    <3>1. s \in Scopes /\ s <= forks
      BY <1>1, <1>3 DEF TypeOK, ScopesForked
    <3>2. s \in 1 .. forks
      BY <1>1, <3>1 DEF Scopes
    <3>3. QED
      BY <1>1, <1>3, <3>1, <3>2 DEF RegisteredScopeLives
  <2>3. /\ call \in Call /\ call.pc = "dispose" /\ call.scope = s
        /\ call.names = calls[c].names
    BY <1>1, <2>2 DEF Call, Steps
  <2>4. \A q \in Plugins : q # p => registry[q] # s
    BY <1>3 , <2>2 DEF RegisteredScopeLives
  <2>5. \A d \in Callers : InHand(d) => calls[d].scope # s
    BY <1>1 DEF ScopesOwned
  <2>6. NoScope \notin Scopes
    BY KernelAssumption DEF Scopes, NoScope
  <2> HIDE DEF s, p, call
  <2>7. /\ \A d \in Callers : calls'[d] = IF d = c THEN call ELSE calls[d]
        /\ \A q \in Plugins : registry'[q] = IF q = p THEN NoScope ELSE registry[q]
    BY <2>1 DEF TypeOK
  <2>8. TypeOK'
    BY <1>0, <2>1, <2>3 DEF TypeOK
  <2>9. CallsWellFormed'
    BY <1>1, <2>3, <2>7 DEF CallsWellFormed
  <2>10. ScopesOwned'
    <3>1. InHand(c)' /\ \A d \in Callers : d # c => (InHand(d)' <=> InHand(d))
      BY <2>3, <2>7 DEF InHand
    <3>2. \A d \in Callers : InHand(d) => calls[d].scope # NoScope /\ d # c
      BY <1>0, <2>6, AtWork DEF InHand
    <3>3. ASSUME NEW d \in Callers, InHand(d)', d # c
          PROVE  /\ calls'[d] = calls[d] /\ InHand(d)
                 /\ \A q \in Plugins : registry'[q] # calls'[d].scope
      BY <2>7, <3>1, <3>2, <3>3 DEF ScopesOwned
    <3>4. \A q \in Plugins : registry'[q] # s
      BY <2>2, <2>4, <2>6, <2>7
    <3>5. calls'[c] = call
      BY <2>7
    <3>6. QED
      BY <1>0, <2>2, <2>3, <2>5, <3>1, <3>3, <3>4, <3>5 DEF ScopesOwned, Target
  <2>11. ScopesForked'
    BY <1>0, <1>1, <2>7 DEF ScopesForked, NoScope
  <2>12. RegisteredScopeLives'
    BY <1>0, <2>7 DEF RegisteredScopeLives
  <2>13. EveryEffectReversible'
    BY <1>0, <2>7 DEF EveryEffectReversible
  <2>14. QED
    BY <2>8, <2>9, <2>10, <2>11, <2>12, <2>13
<1>4. QED
  BY <1>2, <1>3

\* One disposer run: its own registration is gone, the others keep theirs.
LEMMA ReplayStep ==
  ASSUME IInv, NEW c \in Callers, Replay(c)
  PROVE  IInv'
<1> USE DEF IInv
<1> DEFINE s == calls[c].scope
           old == calls[c].pending
           after == Without(old, Len(old))
           at == old[Len(old)].at
           item == Script[scopes[s].plugin][at]
<1>1. /\ calls[c].pc \in {"rollback", "replay"} /\ InHand(c) /\ old # <<>>
      /\ UNCHANGED <<registry, scopes, forks, booked, allowed, root>>
  BY DEF Replay, InHand
<1>2. /\ calls[c] \in Call /\ calls[c].names # <<>> /\ old \in Seq(Disposer)
      /\ s \in Scopes /\ scopes[s] \in Scope
  BY <1>1, AtWork
<1>3. Len(old) \in Nat /\ Len(old) # 0 /\ DOMAIN old = 1 .. Len(old)
  BY <1>1, <1>2, EmptySeq, LenProperties
<1>4. old[Len(old)] \in Disposer
  BY <1>2, <1>3, ElementOfSeq
<1>5. /\ DOMAIN after = 1 .. Len(old) - 1
      /\ \A j \in 1 .. Len(old) - 1 : after[j] = old[j]
  BY <1>3 DEF Without
<1>6. after \in Seq(Disposer)
  <2>1. Len(old) - 1 \in Nat /\ \A j \in 1 .. Len(old) - 1 : j \in 1 .. Len(old)
    BY <1>3
  <2>2. \A j \in 1 .. Len(old) - 1 : after[j] \in Disposer
    BY <1>2, <1>5, <2>1, ElementOfSeq
  <2>3. after = [j \in 1 .. Len(old) - 1 |-> after[j]]
    BY <1>5 DEF Without
  <2>4. after \in [1 .. Len(old) - 1 -> Disposer]
    BY <2>2, <2>3
  <2>5. QED
    BY <2>1, <2>4, SeqDef
<1>7. PICK err \in BOOLEAN : calls' = [calls EXCEPT ![c].pending = after,
                                                 ![c].failed = @ \/ err]
  BY DEF Replay, LastOf
<1> DEFINE failed == calls[c].failed \/ err
           call == [calls[c] EXCEPT !.pending = after, !.failed = failed]
<1>8. failed \in BOOLEAN
  OBVIOUS
<1>9. calls' = [calls EXCEPT ![c] = call]
  BY <1>7 DEF TypeOK
<1> HIDE DEF failed, after
<1>10. /\ call \in Call /\ call.pc = calls[c].pc /\ call.scope = s
       /\ call.names = calls[c].names /\ call.pending = after /\ call.at = calls[c].at
  BY <1>2, <1>6, <1>8 DEF Call
<1>11. \/ /\ item.kind = "provide"
          /\ services' = [services EXCEPT ![item.key] = old[Len(old)].prev]
          /\ inForce' = inForce
       \/ /\ inForce' = [inForce EXCEPT ![s] = @ \ {at}]
          /\ services' = services
  BY DEF Replay, LastOf
<1>12. old[Len(old)].prev \in Scopes \cup {NoScope}
  BY <1>4 DEF Disposer
<1>13. \A i \in inForce[s] : i \in inForce'[s] => i # at
  <2> HIDE DEF s, at
  <2>1. \A i \in inForce[s] : Script[scopes[s].plugin][i].kind # "provide"
    BY <1>2 DEF ScopesForked
  <2>2. CASE item.kind = "provide"
    BY <2>1, <2>2
  <2>3. CASE inForce' = [inForce EXCEPT ![s] = @ \ {at}]
    BY <1>2, <2>3 DEF TypeOK
  <2>4. QED
    BY <1>11, <2>2, <2>3
<1>14. /\ services' \in [Keys -> Scopes \cup {NoScope}]
       /\ inForce' \in [Scopes -> SUBSET Nat]
       /\ \A t \in Scopes : inForce'[t] \subseteq inForce[t]
  BY <1>11, <1>12 DEF TypeOK
<1>p. s = calls[c].scope /\ old = calls[c].pending
  OBVIOUS
<1> HIDE DEF call, at, s, old, item
<1>15. \A d \in Callers : calls'[d] = IF d = c THEN call ELSE calls[d]
  BY <1>9 DEF TypeOK
<1>16. TypeOK'
  BY <1>1, <1>9, <1>10, <1>14 DEF TypeOK
<1>17. CallsWellFormed'
  BY <1>2, <1>10, <1>15 DEF CallsWellFormed
<1>18. ScopesOwned'
  <2>1. \A d \in Callers : /\ calls'[d].pc = calls[d].pc /\ calls'[d].scope = calls[d].scope
                            /\ calls'[d].names = calls[d].names
    BY <1>10, <1>15, <1>p
  <2>2. QED
    BY <1>1, <2>1 DEF ScopesOwned, InHand, Target
<1>19. ScopesForked'
  BY <1>1, <1>14 DEF ScopesForked
<1>20. RegisteredScopeLives'
  BY <1>1 DEF RegisteredScopeLives
<1>21. EveryEffectReversible'
  <2> SUFFICES ASSUME NEW t \in Scopes, NEW i \in inForce'[t]
               PROVE  \/ \E j \in DOMAIN scopes'[t].disposers :
                            scopes'[t].disposers[j].at = i
                      \/ \E d \in Callers :
                            /\ calls'[d].scope = t
                            /\ calls'[d].pc \in {"rollback", "replay"}
                            /\ \E j \in DOMAIN calls'[d].pending :
                                  calls'[d].pending[j].at = i
    BY DEF EveryEffectReversible
  <2>0. i \in inForce[t]
    BY <1>14
  <2>1. CASE \E j \in DOMAIN scopes[t].disposers : scopes[t].disposers[j].at = i
    BY <1>1, <2>1
  <2>2. ASSUME NEW d \in Callers, calls[d].scope = t,
               calls[d].pc \in {"rollback", "replay"},
               NEW j \in DOMAIN calls[d].pending, calls[d].pending[j].at = i
        PROVE  /\ calls'[d].scope = t
               /\ calls'[d].pc \in {"rollback", "replay"}
               /\ \E l \in DOMAIN calls'[d].pending : calls'[d].pending[l].at = i
    <3>1. CASE d # c
      BY <1>15, <2>2, <3>1
    <3>2. CASE d = c
      <4>1. t = s /\ j \in 1 .. Len(old) /\ old[j].at = i
        BY <1>3, <1>p, <2>2, <3>2
      <4>2. i # at
        BY <1>13, <2>0, <4>1
      <4>3. j # Len(old)
        BY <4>1, <4>2 DEF at
      <4>4. j \in 1 .. Len(old) - 1
        BY <1>3, <4>1, <4>3
      <4>5. j \in DOMAIN after /\ after[j].at = i
        BY <1>5, <4>1, <4>4
      <4>6. QED
        BY <1>10, <1>15, <2>2, <3>2, <4>1, <4>5
    <3>3. QED
      BY <3>1, <3>2
  <2>3. QED
    BY <2>0, <2>1, <2>2 DEF EveryEffectReversible
<1>22. QED
  BY <1>16, <1>17, <1>18, <1>19, <1>20, <1>21

-----------------------------------------------------------------------------
\* The invariant is inductive: each step of each goroutine preserves it, in
\* whatever order the goroutines take them.
THEOREM KernelNext == IInv /\ [Next]_vars => IInv'
<1> SUFFICES ASSUME IInv, [Next]_vars PROVE IInv'
  OBVIOUS
<1>1. ASSUME NEW c \in Callers, Step(c) PROVE IInv'
  <2>1. CASE \/ Invoke(c)   \/ Check(c)    \/ CheckInject(c)
             \/ ApplyUse(c) \/ Lookup(c)   \/ Snapshot(c)
             \/ Replayed(c) \/ Stop(c)
    BY <2>1, StepsOfACall
  <2>2. CASE Fork(c)
    BY <2>2, ForkStep
  <2>3. CASE ApplyProvide(c) \/ ApplyRegister(c)
    BY <2>3, ApplyStep
  <2>4. CASE ApplyFails(c) \/ Dispose(c)
    BY <2>4, DisposeStep
  <2>5. CASE Register(c)
    BY <2>5, RegisterStep
  <2>6. CASE Delete(c)
    BY <2>6, DeleteStep
  <2>7. CASE Replay(c)
    BY <2>7, ReplayStep
  <2>8. QED
    BY <1>1, <2>1, <2>2, <2>3, <2>4, <2>5, <2>6, <2>7 DEF Step
<1>2. CASE UNCHANGED vars
  BY <1>2 DEF vars, IInv, TypeOK, CallsWellFormed, ScopesOwned, ScopesForked,
     RegisteredScopeLives, EveryEffectReversible, InHand, Target
<1>3. QED
  BY <1>1, <1>2 DEF Next

\* The invariant holds in every state of every behaviour of the kernel.
THEOREM KernelInvariant == Spec => []IInv
<1>1. QED
  BY KernelInit, KernelNext, PTL DEF Spec

\* Every variable keeps its type: no call ever works on a scope, a script position
\* or a plugin that does not exist.
THEOREM KernelType == Spec => []TypeOK
<1>1. IInv => TypeOK
  BY DEF IInv
<1>2. QED
  BY <1>1, KernelInvariant, PTL

\* Whatever calls the goroutines make, of the same plugin too, a registered plugin
\* runs on its own scope and nobody has begun to dispose it.
THEOREM KernelRegisteredScopeLives == Spec => []RegisteredScopeLives
<1>1. IInv => RegisteredScopeLives
  BY DEF IInv
<1>2. QED
  BY <1>1, KernelInvariant, PTL

\* Whatever Apply does and wherever it fails, every listener and effect it left in
\* force has a disposer that has yet to run.
THEOREM KernelEveryEffectReversible == Spec => []EveryEffectReversible
<1>1. IInv => EveryEffectReversible
  BY DEF IInv
<1>2. QED
  BY <1>1, KernelInvariant, PTL

\* A disposed scope has nothing in force once no goroutine is replaying its list:
\* Dispose, whoever called it, undid every listener and effect.
DisposedScopeClean ==
    \A s \in Scopes :
        /\ scopes[s].disposed
        /\ \A c \in Callers : ~(/\ calls[c].scope = s
                                /\ calls[c].pc \in {"rollback", "replay"})
        => inForce[s] = {}

\* Dispose is complete in every behaviour: no listener or effect outlives the
\* replay of its scope's list.
THEOREM KernelDisposedScopeClean == Spec => []DisposedScopeClean
<1>1. ASSUME IInv PROVE DisposedScopeClean
  <2> SUFFICES ASSUME NEW s \in Scopes, scopes[s].disposed,
                      \A c \in Callers : ~(/\ calls[c].scope = s
                                           /\ calls[c].pc \in {"rollback", "replay"}),
                      NEW i \in inForce[s]
               PROVE  FALSE
    BY DEF DisposedScopeClean
  <2>1. scopes[s].disposers = <<>>
    BY <1>1 DEF IInv, ScopesForked
  <2>2. QED
    BY <1>1, <2>1 DEF IInv, EveryEffectReversible
<1>2. QED
  BY <1>1, KernelInvariant, PTL

-----------------------------------------------------------------------------
\* A goroutine whose call is about a plugin.
Working(c) == calls[c].pc \notin {"idle", "snapshot", "stop", "panic"}

\* A call is one its goroutine may make, about the plugins and the scope it named.
Asked ==
    \A c \in Callers :
        /\ Working(c) /\ calls[c].op # "shutdown" =>
              \A i \in DOMAIN calls[c].names :
                  Asks(allowed, c, calls[c].names[i], calls[c].parent)
        /\ calls[c].op = "shutdown" => \E r \in allowed[c] : r.op = "shutdown"
        /\ calls[c].pc = "snapshot" => calls[c].op = "shutdown"
        /\ calls[c].pc \in {"check", "inject", "apply"} => calls[c].op # "shutdown"

\* While a plugin is loaded, or unloaded once its entry is out, its name is free,
\* and the scope in the goroutine's hands is that plugin's, on the parent it asked for.
FreeAtWork ==
    \A c \in Callers :
        /\ calls[c].pc = "inject" \/ InHand(c) => registry[Target(c)] = NoScope
        /\ InHand(c) => scopes[calls[c].scope].plugin = Target(c)
        /\ calls[c].pc = "apply" => scopes[calls[c].scope].parent = calls[c].parent

\* How a call goes on, once it has begun: it is over, or it is about the same
\* plugins, or about all but the first of them.
GoesOn(old, new) ==
    \/ new = Idle
    \/ /\ new.op = old.op /\ new.parent = old.parent
       /\ new.names = old.names \/ new.names = Tail(old.names)
       /\ new.pc \notin {"idle", "snapshot"}
       /\ new.pc \in {"check", "inject", "apply"} =>
             old.pc \in {"check", "inject", "apply"} \/ old.op # "shutdown"

\* So does a Load that returns.
LEMMA AfterLoadGoesOn ==
  ASSUME NEW call \in Call, NEW ok \in BOOLEAN
  PROVE  GoesOn(call, AfterLoad(call, ok))
BY DEF AfterLoad, GoesOn, Call

\* And an Unload.
LEMMA AfterUnloadGoesOn ==
  ASSUME NEW call \in Call, NEW ok \in BOOLEAN
  PROVE  GoesOn(call, AfterUnload(call, ok))
<1>1. CASE call.op = "reload" /\ ok
  BY <1>1 DEF AfterUnload, GoesOn, Call
<1>2. CASE call.op = "shutdown"
  BY <1>2 DEF AfterUnload, GoesOn, Call
<1>3. CASE ~(call.op = "reload" /\ ok) /\ call.op # "shutdown"
  BY <1>3 DEF AfterUnload, GoesOn
<1>4. QED
  BY <1>1, <1>2, <1>3

\* A step of c is a step of c's call only, and leaves the profile alone.
LEMMA OthersKept ==
  ASSUME IInv, NEW c \in Callers, Step(c)
  PROVE  /\ IInv' /\ calls' \in [Callers -> Call] /\ allowed' = allowed
         /\ \A d \in Callers : d # c => calls'[d] = calls[d]
<1>1. IInv'
  BY KernelNext DEF Next
<1>2. allowed' = allowed /\ calls \in [Callers -> Call]
  BY DEF Step, Invoke, Check, CheckInject, Fork, ApplyUse, ApplyProvide, ApplyRegister,
         ApplyFails, Register, Lookup, Snapshot, Delete, Dispose, Replay, Replayed, Stop,
         IInv, TypeOK
<1>3. \A d \in Callers : d # c => calls'[d] = calls[d]
  <2>1. CASE Invoke(c) \/ Check(c) \/ CheckInject(c) \/ Fork(c)
    BY <1>2, <2>1 DEF Invoke, Check, CheckInject, Fork
  <2>2. CASE ApplyUse(c) \/ ApplyProvide(c) \/ ApplyRegister(c) \/ ApplyFails(c) \/ Dispose(c)
    BY <1>2, <2>2 DEF ApplyUse, ApplyProvide, ApplyRegister, ApplyFails, Dispose, Disposing
  <2>3. CASE Register(c) \/ Lookup(c) \/ Snapshot(c) \/ Delete(c)
    BY <1>2, <2>3 DEF Register, Lookup, Snapshot, Delete
  <2>4. CASE Replay(c) \/ Replayed(c) \/ Stop(c)
    BY <1>2, <2>4 DEF Replay, Replayed, Stop
  <2>5. QED
    BY <2>1, <2>2, <2>3, <2>4 DEF Step
<1>4. QED
  BY <1>1, <1>2, <1>3 DEF IInv, TypeOK

\* Every step but the first and Shutdown's look at the registry goes on so.
LEMMA CallGoesOn ==
  ASSUME IInv, NEW c \in Callers, Step(c), ~Invoke(c), ~Snapshot(c)
  PROVE  GoesOn(calls[c], calls'[c]) /\ (Working(c) \/ calls'[c] = Idle)
<1> DEFINE old == calls[c]
<1>1. calls \in [Callers -> Call] /\ old \in Call
  BY DEF IInv, TypeOK
<1> HIDE DEF old
<1>p. old = calls[c]
  BY DEF old
<1>2. CASE Check(c)
  <2>1. old.pc = "check"
    BY <1>2, <1>p DEF Check
  <2>2. CASE NameFree(Target(c))
    <3>1. calls'[c] = [old EXCEPT !.pc = "inject", !.at = 1]
      BY <1>1, <1>2, <1>p, <2>2 DEF Check
    <3>2. QED
      BY <1>1, <1>p, <2>1, <3>1 DEF GoesOn, Working, Call
  <2>3. CASE ~NameFree(Target(c))
    <3>1. calls'[c] = AfterLoad(old, FALSE)
      BY <1>1, <1>2, <1>p, <2>3 DEF Check
    <3>2. QED
      BY <1>1, <1>p, <2>1, <3>1, AfterLoadGoesOn DEF Working
  <2>4. QED
    BY <2>2, <2>3
<1>3. CASE CheckInject(c)
  <2> DEFINE n == old.at + 1
             m == old.missing \/ ~Has(old.parent, Inject[Target(c)][old.at])
  <2>1. old.pc = "inject"
    BY <1>3, <1>p DEF CheckInject
  <2>2. calls'[c] = [old EXCEPT !.at = n, !.missing = m]
    BY <1>1, <1>3, <1>p DEF CheckInject
  <2> HIDE DEF n, m
  <2>3. QED
    BY <1>1, <1>p, <2>1, <2>2 DEF GoesOn, Working, Call
<1>4. CASE Fork(c)
  <2>1. old.pc = "inject"
    BY <1>4, <1>p DEF Fork
  <2>2. CASE DependenciesMissing(c)
    <3>1. calls'[c] = AfterLoad(old, FALSE)
      BY <1>1, <1>4, <1>p, <2>2 DEF Fork
    <3>2. QED
      BY <1>1, <1>p, <2>1, <3>1, AfterLoadGoesOn DEF Working
  <2>3. CASE ~DependenciesMissing(c)
    <3> DEFINE n == forks + 1
    <3>1. calls'[c] = [old EXCEPT !.pc = "apply", !.at = 1, !.scope = n]
      BY <1>1, <1>4, <1>p, <2>3 DEF Fork
    <3> HIDE DEF n
    <3>2. QED
      BY <1>1, <1>p, <2>1, <3>1 DEF GoesOn, Working, Call
  <2>4. QED
    BY <2>2, <2>3
<1>5. CASE ApplyUse(c)
  <2> DEFINE n == old.at + 1
             pc == IF Visible(old.scope, Item(c).key) THEN old.pc ELSE "panic"
  <2>1. old.pc = "apply" /\ pc \in {"apply", "panic"}
    BY <1>5, <1>p DEF ApplyUse
  <2>2. calls'[c] = [old EXCEPT !.at = n, !.pc = pc]
    BY <1>1, <1>5, <1>p DEF ApplyUse
  <2> HIDE DEF n, pc
  <2>3. QED
    BY <1>1, <1>p, <2>1, <2>2 DEF GoesOn, Working, Call
<1>6. CASE ApplyProvide(c) \/ ApplyRegister(c)
  <2> DEFINE n == old.at + 1
  <2>1. old.pc = "apply"
    BY <1>6, <1>p DEF ApplyProvide, ApplyRegister
  <2>2. calls'[c] = [old EXCEPT !.at = n]
    BY <1>1, <1>6, <1>p DEF ApplyProvide, ApplyRegister
  <2> HIDE DEF n
  <2>3. QED
    BY <1>1, <1>p, <2>1, <2>2 DEF GoesOn, Working, Call
<1>7. CASE ApplyFails(c) \/ Dispose(c)
  <2>1. PICK pc \in {"rollback", "replay"} : Disposing(c, pc, old.scope)
    BY <1>7, <1>p DEF ApplyFails, Dispose
  <2> DEFINE l == scopes[old.scope].disposers
             s == old.scope
  <2>2. old.pc \in {"apply", "dispose"}
    BY <1>7, <1>p DEF ApplyFails, Dispose
  <2>3. calls'[c] = [old EXCEPT !.pc = pc, !.scope = s, !.pending = l]
    BY <1>1, <1>p, <2>1 DEF Disposing, Taken
  <2> HIDE DEF l, s
  <2>4. QED
    BY <1>1, <1>p, <2>1, <2>2, <2>3 DEF GoesOn, Working, Call
<1>8. CASE Register(c)
  <2>1. old.pc = "apply"
    BY <1>8, <1>p DEF Register
  <2>2. calls'[c] = AfterLoad(old, TRUE)
    BY <1>1, <1>8, <1>p DEF Register
  <2>3. QED
    BY <1>1, <1>p, <2>1, <2>2, AfterLoadGoesOn DEF Working
<1>9. CASE Lookup(c)
  <2>1. old.pc = "lookup"
    BY <1>9, <1>p DEF Lookup
  <2>2. calls'[c] = Idle \/ calls'[c] = [old EXCEPT !.pc = "delete"]
    BY <1>1, <1>9, <1>p DEF Lookup
  <2>3. QED
    BY <1>1, <1>p, <2>1, <2>2 DEF GoesOn, Working, Call
<1>10. CASE Delete(c)
  <2>1. old.pc = "delete"
    BY <1>10, <1>p DEF Delete
  <2> DEFINE s == registry[Target(c)]
  <2>2. \/ calls'[c] = AfterUnload(old, FALSE)
        \/ calls'[c] = [old EXCEPT !.pc = "dispose", !.scope = s]
    BY <1>1, <1>10, <1>p DEF Delete
  <2> HIDE DEF s
  <2>3. CASE calls'[c] = AfterUnload(old, FALSE)
    BY <1>1, <1>p, <2>1, <2>3, AfterUnloadGoesOn DEF Working
  <2>4. CASE calls'[c] = [old EXCEPT !.pc = "dispose", !.scope = s]
    BY <1>1, <1>p, <2>1, <2>4 DEF GoesOn, Working, Call
  <2>5. QED
    BY <2>2, <2>3, <2>4
<1>11. CASE Replay(c)
  <2> DEFINE a == Without(old.pending, Len(old.pending))
  <2>1. old.pc \in {"rollback", "replay"}
    BY <1>11, <1>p DEF Replay
  <2>2. PICK err \in BOOLEAN : calls' = [calls EXCEPT ![c].pending = a, ![c].failed = @ \/ err]
    BY <1>11, <1>p DEF Replay, LastOf
  <2> DEFINE f == old.failed \/ err
  <2>3. calls'[c] = [old EXCEPT !.pending = a, !.failed = f]
    BY <1>1, <1>p, <2>2
  <2> HIDE DEF a, f
  <2>4. QED
    BY <1>1, <1>p, <2>1, <2>3 DEF GoesOn, Working, Call
<1>12. CASE Replayed(c)
  <2>1. old.pc \in {"rollback", "replay"}
    BY <1>12, <1>p DEF Replayed
  <2>2. PICK ok \in BOOLEAN : calls'[c] = AfterLoad(old, FALSE) \/ calls'[c] = AfterUnload(old, ok)
    BY <1>1, <1>12, <1>p DEF Replayed
  <2>3. QED
    BY <1>1, <1>p, <2>1, <2>2, AfterLoadGoesOn, AfterUnloadGoesOn DEF Working
<1>13. CASE Stop(c)
  <2>1. calls'[c] = Idle
    BY <1>1, <1>13 DEF Stop
  <2>2. QED
    BY <2>1 DEF GoesOn
<1>14. QED
  BY <1>2, <1>3, <1>4, <1>5, <1>6, <1>7, <1>8, <1>9, <1>10, <1>11, <1>12, <1>13 DEF Step

-----------------------------------------------------------------------------
\* What is left of a list of names names nothing new.
LEMMA TailNames ==
  ASSUME NEW names \in Seq(Plugins), names # <<>>, NEW i \in DOMAIN Tail(names)
  PROVE  \E j \in DOMAIN names : names[j] = Tail(names)[i]
<1>1. /\ Tail(names) \in Seq(Plugins) /\ Len(Tail(names)) = Len(names) - 1
      /\ \A j \in 1 .. Len(Tail(names)) : Tail(names)[j] = names[j + 1]
  BY HeadTailProperties
<1>2. DOMAIN Tail(names) = 1 .. Len(Tail(names)) /\ DOMAIN names = 1 .. Len(names)
      /\ Len(names) \in Nat
  BY <1>1, LenProperties
<1>3. i + 1 \in DOMAIN names
  BY <1>1, <1>2
<1>4. QED
  BY <1>1, <1>2, <1>3

\* The plugin a call is at work on is one it was asked for.
LEMMA HandlesTarget ==
  ASSUME IInv, Asked, NEW c \in Callers, Working(c)
  PROVE  /\ Target(c) \in Plugins /\ Handles(allowed, c, Target(c))
         /\ calls[c].op # "shutdown" => Asks(allowed, c, Target(c), calls[c].parent)
<1>1. /\ calls[c] \in Call /\ calls[c].names \in Seq(Plugins) /\ calls[c].names # <<>>
      /\ Target(c) \in Plugins
  BY AtWork DEF Working
<1>2. calls[c].parent \in Isolates \cup {Root}
  BY <1>1 DEF Call
<1>3. 1 \in DOMAIN calls[c].names /\ Target(c) = calls[c].names[1]
  BY <1>1, EmptySeq, LenProperties DEF Target
<1>4. QED
  BY <1>1, <1>2, <1>3 DEF Asked, Handles

\* Two goroutines are never at work on the same plugin.
LEMMA OneAtWork ==
  ASSUME IInv, Asked, PluginsApart,
         NEW c \in Callers, Working(c), NEW d \in Callers, Working(d),
         Target(c) = Target(d)
  PROVE  c = d
BY HandlesTarget DEF PluginsApart, IInv, TypeOK

\* No step makes a call about what its goroutine was not given.
LEMMA AskedKept ==
  ASSUME IInv, Asked, NEW c \in Callers, Step(c)
  PROVE  Asked'
<1>1. /\ calls' \in [Callers -> Call] /\ allowed' = allowed
      /\ \A d \in Callers : d # c => calls'[d] = calls[d]
      /\ calls[c] \in Call /\ calls \in [Callers -> Call] /\ allowed \in Profiles
  BY OthersKept DEF IInv, TypeOK
<1> SUFFICES /\ Working(c)' /\ calls'[c].op # "shutdown" =>
                   \A i \in DOMAIN calls'[c].names :
                       Asks(allowed, c, calls'[c].names[i], calls'[c].parent)
             /\ calls'[c].op = "shutdown" => \E r \in allowed[c] : r.op = "shutdown"
             /\ calls'[c].pc = "snapshot" => calls'[c].op = "shutdown"
             /\ calls'[c].pc \in {"check", "inject", "apply"} => calls'[c].op # "shutdown"
  BY <1>1 DEF Asked, Working, Asks
<1>2. CASE Invoke(c)
  <2>1. PICK r \in allowed[c] : calls' = [calls EXCEPT ![c] =
               [Idle EXCEPT !.pc = FirstStep(r.op), !.op = r.op,
                            !.names = r.names, !.parent = r.parent]]
    BY <1>2 DEF Invoke
  <2>2. calls'[c] = [Idle EXCEPT !.pc = FirstStep(r.op), !.op = r.op,
                            !.names = r.names, !.parent = r.parent]
    BY <1>1, <2>1
  <2>3. /\ calls'[c].pc = FirstStep(r.op) /\ calls'[c].op = r.op
        /\ calls'[c].names = r.names /\ calls'[c].parent = r.parent
    BY <2>2 DEF Idle
  <2>4. r.op \in Operations
    BY <1>1, KernelAssumption DEF Request
  <2>5. FirstStep(r.op) \in {"check", "delete", "lookup", "snapshot"}
        /\ (r.op = "shutdown" <=> FirstStep(r.op) = "snapshot")
    BY <2>4 DEF FirstStep, Operations
  <2>6. QED
    BY <2>3, <2>5 DEF Asks, Working
<1>3. CASE Snapshot(c)
  <2>1. calls'[c].op = calls[c].op /\ calls'[c].pc \in {"stop", "delete"}
    <3> DEFINE names == {p \in Plugins : registry[p] # NoScope}
    <3>1. PICK q \in Backwards(names) :
            calls' = [calls EXCEPT ![c].names = q,
                        ![c].pc = IF names = {} THEN "stop" ELSE "delete"]
      BY <1>3 DEF Snapshot
    <3> DEFINE pc == IF names = {} THEN "stop" ELSE "delete"
    <3>2. calls'[c] = [calls[c] EXCEPT !.names = q, !.pc = pc] /\ pc \in {"stop", "delete"}
      BY <1>1, <3>1
    <3> HIDE DEF names, pc
    <3>3. QED
      BY <1>1, <3>2 DEF Call
  <2>2. calls[c].pc = "snapshot" /\ calls[c].op = "shutdown"
    BY <1>3 DEF Snapshot, Asked
  <2>3. QED
    BY <2>1, <2>2 DEF Asked
<1>4. CASE ~Invoke(c) /\ ~Snapshot(c)
  <2>1. GoesOn(calls[c], calls'[c]) /\ (Working(c) \/ calls'[c] = Idle)
    BY <1>4, CallGoesOn
  <2>2. CASE calls'[c] = Idle
    <3>1. calls'[c].pc = "idle" /\ calls'[c].op = "unload"
      BY <2>2 DEF Idle
    <3>2. QED
      BY <3>1 DEF Working
  <2>3. CASE calls'[c] # Idle
    <3>1. /\ calls'[c].op = calls[c].op /\ calls'[c].parent = calls[c].parent
          /\ calls'[c].names = calls[c].names \/ calls'[c].names = Tail(calls[c].names)
          /\ calls'[c].pc # "snapshot"
          /\ calls'[c].pc \in {"check", "inject", "apply"} =>
                calls[c].pc \in {"check", "inject", "apply"} \/ calls[c].op # "shutdown"
      BY <2>1, <2>3 DEF GoesOn
    <3>2. calls[c].names \in Seq(Plugins) /\ calls[c].names # <<>>
      BY <2>1, <2>3, AtWork DEF Working
    <3>3. ASSUME NEW i \in DOMAIN calls'[c].names
          PROVE  \E j \in DOMAIN calls[c].names : calls[c].names[j] = calls'[c].names[i]
      BY <3>1, <3>2, TailNames
    <3>4. calls[c].op # "shutdown" => \A i \in DOMAIN calls[c].names :
              Asks(allowed, c, calls[c].names[i], calls[c].parent)
      BY <2>1, <2>3 DEF Asked
    <3>5. QED
      BY <3>1, <3>3, <3>4 DEF Asked
  <2>4. QED
    BY <2>2, <2>3
<1>5. QED
  BY <1>2, <1>3, <1>4

-----------------------------------------------------------------------------
\* What each step does to the registry.
LEMMA RegistryAfter ==
  ASSUME IInv, NEW c \in Callers, Step(c)
  PROVE  \/ registry' = registry
         \/ Register(c) /\ registry' = [registry EXCEPT ![Target(c)] = calls[c].scope]
         \/ /\ Delete(c) /\ registry[Target(c)] # NoScope
            /\ registry' = [registry EXCEPT ![Target(c)] = NoScope]
BY DEF Step, Invoke, Check, CheckInject, Fork, ApplyUse, ApplyProvide, ApplyRegister,
       ApplyFails, Register, Lookup, Snapshot, Delete, Deleted, Dispose, Replay, Replayed, Stop

\* A scope that was forked keeps its plugin and its parent.
LEMMA ScopeKept ==
  ASSUME IInv, NEW c \in Callers, Step(c), NEW s \in 1 .. forks
  PROVE  /\ s \in Scopes /\ scopes'[s].plugin = scopes[s].plugin
         /\ scopes'[s].parent = scopes[s].parent
<1>0. /\ s \in Scopes /\ forks \in Nat /\ scopes \in [Scopes -> Scope] /\ s # forks + 1
      /\ scopes[s] \in Scope
  <2>1. forks \in Nat /\ MaxForks \in Nat /\ forks <= MaxForks /\ scopes \in [Scopes -> Scope]
    BY KernelAssumption DEF IInv, TypeOK
  <2>2. s \in Scopes /\ s # forks + 1
    BY <2>1 DEF Scopes
  <2>3. QED
    BY <2>1, <2>2
<1>1. CASE scopes' = scopes
  BY <1>0, <1>1
<1>2. CASE Fork(c)
  <2>1. scopes' = scopes \/ \E new : scopes' = [scopes EXCEPT ![forks + 1] = new]
    BY <1>2 DEF Fork
  <2>2. QED
    BY <1>0, <2>1
<1>3. CASE ApplyProvide(c) \/ ApplyRegister(c)
  <2> DEFINE t == calls[c].scope
  <2>1. \/ scopes' = [scopes EXCEPT ![t].local = @ \cup {Item(c).key}]
        \/ \E d : scopes' = [scopes EXCEPT ![t].disposers = Append(@, d)]
    BY <1>3 DEF ApplyProvide, ApplyRegister, Recorded
  <2> HIDE DEF t
  <2>2. CASE scopes' = [scopes EXCEPT ![t].local = @ \cup {Item(c).key}]
    <3> DEFINE l == scopes[t].local \cup {Item(c).key}
    <3>1. scopes'[s] = scopes[s] \/ scopes'[s] = [scopes[s] EXCEPT !.local = l]
      BY <1>0, <2>2
    <3> HIDE DEF l
    <3>2. QED
      BY <1>0, <3>1 DEF Scope
  <2>3. ASSUME NEW d, scopes' = [scopes EXCEPT ![t].disposers = Append(@, d)]
        PROVE  scopes'[s].plugin = scopes[s].plugin /\ scopes'[s].parent = scopes[s].parent
    <3> DEFINE l == Append(scopes[t].disposers, d)
    <3>1. scopes'[s] = scopes[s] \/ scopes'[s] = [scopes[s] EXCEPT !.disposers = l]
      BY <1>0, <2>3
    <3> HIDE DEF l
    <3>2. QED
      BY <1>0, <3>1 DEF Scope
  <2>4. QED
    BY <1>0, <2>1, <2>2, <2>3
<1>4. CASE ApplyFails(c) \/ Dispose(c)
  <2> DEFINE t == calls[c].scope
  <2>1. scopes' = [scopes EXCEPT ![t].disposed = TRUE, ![t].disposers = <<>>]
    BY <1>4 DEF ApplyFails, Dispose, Disposing
  <2> HIDE DEF t
  <2>2. scopes'[s] = scopes[s] \/ scopes'[s] = [scopes[s] EXCEPT !.disposed = TRUE, !.disposers = <<>>]
    BY <1>0, <2>1
  <2>3. QED
    BY <1>0, <2>2 DEF Scope
<1>5. scopes' = scopes \/ Fork(c) \/ ApplyProvide(c) \/ ApplyRegister(c)
      \/ ApplyFails(c) \/ Dispose(c)
  BY DEF Step, Invoke, Check, CheckInject, ApplyUse, Register, Lookup, Snapshot, Delete,
         Replay, Replayed, Stop
<1>6. QED
  BY <1>1, <1>2, <1>3, <1>4, <1>5

\* How a plugin gets to be loaded or unloaded, and a scope into a goroutine's hands.
LEMMA HandsAfter ==
  ASSUME IInv, NEW c \in Callers, Step(c), (calls[c].pc = "inject" \/ InHand(c))'
  PROVE  /\ Target(c)' = Target(c) /\ ~Register(c)
         /\ \/ /\ Check(c) /\ registry[Target(c)] = NoScope /\ ~InHand(c)'
            \/ /\ CheckInject(c) /\ ~InHand(c)'
            \/ /\ Fork(c) /\ ~DependenciesMissing(c)
               /\ calls'[c].scope = forks + 1 /\ calls'[c].pc = "apply"
               /\ scopes'[forks + 1].plugin = Target(c)
               /\ scopes'[forks + 1].parent = calls[c].parent
            \/ /\ Delete(c) /\ registry[Target(c)] # NoScope
               /\ calls'[c].scope = registry[Target(c)] /\ calls'[c].pc = "dispose"
            \/ /\ InHand(c) /\ InHand(c)' /\ calls'[c].scope = calls[c].scope
               /\ calls'[c].pc = "apply" => calls[c].pc = "apply"
<1> DEFINE old == calls[c]
<1>1. calls \in [Callers -> Call] /\ old \in Call
  BY DEF IInv, TypeOK
<1> HIDE DEF old
<1>p. old = calls[c]
  BY DEF old
<1>w. calls'[c].pc \in {"inject", "apply", "rollback", "dispose", "replay"}
  BY DEF InHand
<1>2. CASE Check(c)
  <2>1. old.pc = "check" /\ old.names # <<>>
    BY <1>2, <1>p, AtWork DEF Check
  <2>2. CASE NameFree(Target(c))
    <3>1. calls'[c] = [old EXCEPT !.pc = "inject", !.at = 1]
      BY <1>1, <1>2, <1>p, <2>2 DEF Check
    <3>2. calls'[c].pc = "inject" /\ calls'[c].names = old.names
      BY <1>1, <3>1 DEF Call
    <3>3. QED
      BY <1>2, <1>p, <2>1, <2>2, <3>2 DEF InHand, Target, NameFree, Register
  <2>3. CASE ~NameFree(Target(c))
    <3>1. calls'[c] = AfterLoad(old, FALSE)
      BY <1>1, <1>2, <1>p, <2>3 DEF Check
    <3>2. QED
      BY <1>1, <1>w, <2>1, <3>1, AfterLoadType
  <2>4. QED
    BY <2>2, <2>3
<1>3. CASE CheckInject(c)
  <2> DEFINE n == old.at + 1
             m == old.missing \/ ~Has(old.parent, Inject[Target(c)][old.at])
  <2>1. old.pc = "inject"
    BY <1>3, <1>p DEF CheckInject
  <2>2. calls'[c] = [old EXCEPT !.at = n, !.missing = m]
    BY <1>1, <1>3, <1>p DEF CheckInject
  <2> HIDE DEF n, m
  <2>3. calls'[c].pc = "inject" /\ calls'[c].names = old.names
    BY <1>1, <2>1, <2>2 DEF Call
  <2>4. QED
    BY <1>3, <1>p, <2>1, <2>3 DEF InHand, Target, Register
<1>4. CASE Fork(c)
  <2>1. old.pc = "inject" /\ old.names # <<>>
    BY <1>4, <1>p, AtWork DEF Fork
  <2>2. CASE DependenciesMissing(c)
    <3>1. calls'[c] = AfterLoad(old, FALSE)
      BY <1>1, <1>4, <1>p, <2>2 DEF Fork
    <3>2. QED
      BY <1>1, <1>w, <2>1, <3>1, AfterLoadType
  <2>3. CASE ~DependenciesMissing(c)
    <3> DEFINE n == forks + 1
               new == [Scratch EXCEPT !.plugin = Target(c), !.parent = calls[c].parent]
    <3>1. calls'[c] = [old EXCEPT !.pc = "apply", !.at = 1, !.scope = n]
          /\ scopes' = [scopes EXCEPT ![n] = new]
      BY <1>1, <1>4, <1>p, <2>3 DEF Fork
    <3>2. new.plugin = Target(c) /\ new.parent = calls[c].parent
      BY DEF Scratch
    <3>3. n \in Scopes /\ scopes \in [Scopes -> Scope]
      BY <1>4, <2>3, KernelAssumption DEF Fork, Scopes, IInv, TypeOK
    <3>4. n = forks + 1
      OBVIOUS
    <3> HIDE DEF n, new
    <3>5. scopes'[n].plugin = Target(c) /\ scopes'[n].parent = calls[c].parent
      BY <3>1, <3>2, <3>3
    <3>6. calls'[c].names = old.names /\ calls'[c].scope = n /\ calls'[c].pc = "apply"
      BY <1>1, <3>1 DEF Call
    <3>7. QED
      BY <1>4, <1>p, <2>1, <2>3, <3>4, <3>5, <3>6 DEF Target, Register
  <2>4. QED
    BY <2>2, <2>3
<1>5. CASE ApplyUse(c)
  <2> DEFINE n == old.at + 1
             pc == IF Visible(old.scope, Item(c).key) THEN old.pc ELSE "panic"
  <2>1. old.pc = "apply" /\ pc \in {"apply", "panic"}
    BY <1>5, <1>p DEF ApplyUse
  <2>2. calls'[c] = [old EXCEPT !.at = n, !.pc = pc]
    BY <1>1, <1>5, <1>p DEF ApplyUse
  <2>r. ~Register(c)
    <3>1. calls[c].at <= Len(Script[Target(c)]) /\ calls[c].at \in Nat
      BY <1>1, <1>5, <1>p DEF ApplyUse, Call
    <3>2. Len(Script[Target(c)]) \in Nat
      BY <1>p, <2>1, KernelAssumption, AtWork, LenProperties
    <3>3. Register(c) => calls[c].at > Len(Script[Target(c)])
      BY DEF Register, Applied
    <3>4. QED
      BY <3>1, <3>2, <3>3
  <2> HIDE DEF n, pc
  <2>3. calls'[c].names = old.names /\ calls'[c].scope = old.scope /\ calls'[c].pc = pc
    BY <1>1, <2>2 DEF Call
  <2>4. QED
    BY <1>p, <1>w, <2>1, <2>3, <2>r DEF InHand, Target
<1>6. CASE ApplyProvide(c) \/ ApplyRegister(c)
  <2> DEFINE n == old.at + 1
  <2>1. old.pc = "apply"
    BY <1>6, <1>p DEF ApplyProvide, ApplyRegister
  <2>2. calls'[c] = [old EXCEPT !.at = n]
    BY <1>1, <1>6, <1>p DEF ApplyProvide, ApplyRegister
  <2>r. ~Register(c)
    <3>1. calls[c].at <= Len(Script[Target(c)]) /\ calls[c].at \in Nat
      BY <1>1, <1>6, <1>p DEF ApplyProvide, ApplyRegister, Call
    <3>2. Len(Script[Target(c)]) \in Nat
      BY <1>p, <2>1, KernelAssumption, AtWork, LenProperties
    <3>3. Register(c) => calls[c].at > Len(Script[Target(c)])
      BY DEF Register, Applied
    <3>4. QED
      BY <3>1, <3>2, <3>3
  <2> HIDE DEF n
  <2>3. calls'[c].names = old.names /\ calls'[c].scope = old.scope /\ calls'[c].pc = old.pc
    BY <1>1, <2>2 DEF Call
  <2>4. QED
    BY <1>p, <2>1, <2>3, <2>r DEF InHand, Target
<1>7. CASE ApplyFails(c) \/ Dispose(c)
  <2>1. PICK pc \in {"rollback", "replay"} : Disposing(c, pc, old.scope)
    BY <1>7, <1>p DEF ApplyFails, Dispose
  <2> DEFINE l == scopes[old.scope].disposers
             s == old.scope
  <2>2. old.pc \in {"apply", "dispose"} /\ s = old.scope
    BY <1>7, <1>p DEF ApplyFails, Dispose
  <2>3. calls'[c] = [old EXCEPT !.pc = pc, !.scope = s, !.pending = l]
    BY <1>1, <1>p, <2>1 DEF Disposing, Taken
  <2> HIDE DEF l, s
  <2>4. calls'[c].names = old.names /\ calls'[c].scope = s /\ calls'[c].pc = pc
    BY <1>1, <2>3 DEF Call
  <2>r. ~Register(c)
    <3>1. ASSUME Register(c) PROVE FALSE
      <4>1. old.names # <<>> /\ calls'[c] = AfterLoad(old, TRUE)
        BY <1>1, <1>p, <3>1, AtWork DEF Register
      <4>2. QED
        BY <1>1, <1>w, <4>1, AfterLoadType
    <3>2. QED
      BY <3>1
  <2>5. QED
    BY <1>p, <2>2, <2>4, <2>r DEF InHand, Target
<1>8. CASE Register(c)
  <2>1. old.names # <<>> /\ calls'[c] = AfterLoad(old, TRUE)
    BY <1>1, <1>p, <1>8, AtWork DEF Register
  <2>2. QED
    BY <1>1, <1>w, <2>1, AfterLoadType
<1>9. CASE Delete(c)
  <2>1. old.pc = "delete" /\ old.names # <<>>
    BY <1>9, <1>p, AtWork DEF Delete
  <2> DEFINE s == registry[Target(c)]
  <2>2. CASE s = NoScope
    <3>1. calls'[c] = AfterUnload(old, FALSE)
      BY <1>1, <1>9, <1>p, <2>2 DEF Delete
    <3>2. QED
      BY <1>1, <1>w, <2>1, <3>1, AfterUnloadType
  <2>3. CASE s # NoScope
    <3>1. calls'[c] = [old EXCEPT !.pc = "dispose", !.scope = s] /\ s = registry[Target(c)]
      BY <1>1, <1>9, <1>p, <2>3 DEF Delete
    <3> HIDE DEF s
    <3>2. calls'[c].names = old.names /\ calls'[c].scope = s /\ calls'[c].pc = "dispose"
      BY <1>1, <3>1 DEF Call
    <3>3. QED
      BY <1>9, <1>p, <2>1, <2>3, <3>1, <3>2 DEF Target, Register
  <2>4. QED
    BY <2>2, <2>3
<1>10. CASE Replay(c)
  <2> DEFINE a == Without(old.pending, Len(old.pending))
  <2>1. old.pc \in {"rollback", "replay"}
    BY <1>10, <1>p DEF Replay
  <2>2. PICK err \in BOOLEAN : calls' = [calls EXCEPT ![c].pending = a, ![c].failed = @ \/ err]
    BY <1>10, <1>p DEF Replay, LastOf
  <2> DEFINE f == old.failed \/ err
  <2>3. calls'[c] = [old EXCEPT !.pending = a, !.failed = f]
    BY <1>1, <1>p, <2>2
  <2> HIDE DEF a, f
  <2>4. calls'[c].names = old.names /\ calls'[c].scope = old.scope /\ calls'[c].pc = old.pc
    BY <1>1, <2>3 DEF Call
  <2>5. QED
    BY <1>p, <2>1, <2>4 DEF InHand, Target, Register
<1>11. CASE Replayed(c)
  <2>1. old.pc \in {"rollback", "replay"} /\ old.names # <<>>
    BY <1>11, <1>p, AtWork DEF Replayed
  <2>2. PICK ok \in BOOLEAN : calls'[c] = AfterLoad(old, FALSE) \/ calls'[c] = AfterUnload(old, ok)
    BY <1>1, <1>11, <1>p DEF Replayed
  <2>3. QED
    BY <1>1, <1>w, <2>1, <2>2, AfterLoadType, AfterUnloadType
<1>12. CASE Invoke(c)
  <2>1. PICK r \in allowed[c] : calls' = [calls EXCEPT ![c] =
               [Idle EXCEPT !.pc = FirstStep(r.op), !.op = r.op,
                            !.names = r.names, !.parent = r.parent]]
    BY <1>12 DEF Invoke
  <2>2. calls'[c] = [Idle EXCEPT !.pc = FirstStep(r.op), !.op = r.op,
                            !.names = r.names, !.parent = r.parent]
    BY <1>1, <2>1
  <2>3. calls'[c].pc = FirstStep(r.op)
    BY <2>2 DEF Idle
  <2>4. r.op \in Operations
    BY KernelAssumption DEF Request, IInv, TypeOK
  <2>5. FirstStep(r.op) \in {"check", "delete", "lookup", "snapshot"}
    BY <2>4 DEF FirstStep, Operations
  <2>6. QED
    BY <1>w, <2>3, <2>5
<1>13. CASE Snapshot(c)
  <2> DEFINE names == {p \in Plugins : registry[p] # NoScope}
             pc == IF names = {} THEN "stop" ELSE "delete"
  <2>1. PICK q \in Backwards(names) : calls' = [calls EXCEPT ![c].names = q, ![c].pc = pc]
    BY <1>13 DEF Snapshot
  <2>2. calls'[c] = [old EXCEPT !.names = q, !.pc = pc] /\ pc \in {"stop", "delete"}
    BY <1>1, <1>p, <2>1
  <2> HIDE DEF names, pc
  <2>3. calls'[c].pc \in {"stop", "delete"}
    BY <1>1, <2>2 DEF Call
  <2>4. QED
    BY <1>w, <2>3
<1>14. CASE Lookup(c)
  <2>1. calls'[c] = Idle \/ calls'[c] = [old EXCEPT !.pc = "delete"]
    BY <1>1, <1>14, <1>p DEF Lookup
  <2>2. QED
    BY <1>1, <1>w, <2>1 DEF Call, Idle
<1>15. CASE Stop(c)
  <2>1. calls'[c] = Idle
    BY <1>1, <1>15 DEF Stop
  <2>2. QED
    BY <1>w, <2>1 DEF Idle
<1>16. QED
  BY <1>2, <1>3, <1>4, <1>5, <1>6, <1>7, <1>8, <1>9, <1>10, <1>11, <1>12, <1>13, <1>14,
     <1>15 DEF Step

\* A call keeps its parent while it loads a plugin.
LEMMA ParentKept ==
  ASSUME IInv, NEW c \in Callers, Step(c), (calls[c].pc = "inject" \/ InHand(c))'
  PROVE  calls'[c].parent = calls[c].parent
<1>1. calls[c].pc \notin {"idle", "snapshot"} /\ calls'[c].pc # "idle"
  BY HandsAfter DEF Check, CheckInject, Fork, Delete, InHand
<1>2. GoesOn(calls[c], calls'[c]) /\ calls'[c] # Idle
  BY <1>1, CallGoesOn, IdleType DEF Invoke, Snapshot
<1>3. QED
  BY <1>2 DEF GoesOn

\* With each plugin's calls in one goroutine's hands, nobody takes the name of a plugin
\* that another is loading or unloading.
LEMMA FreeKept ==
  ASSUME IInv, Asked, FreeAtWork, PluginsApart, NEW c \in Callers, Step(c)
  PROVE  FreeAtWork'
<1>1. /\ calls' \in [Callers -> Call] /\ IInv'
      /\ \A d \in Callers : d # c => calls'[d] = calls[d]
      /\ registry \in [Plugins -> Scopes \cup {NoScope}]
  BY OthersKept DEF IInv, TypeOK
<1>2. ASSUME NEW d \in Callers, d # c, calls[d].pc = "inject" \/ InHand(d)
      PROVE  registry'[Target(d)] = NoScope
  <2>1. registry[Target(d)] = NoScope /\ Working(d) /\ Target(d) \in Plugins
    BY <1>2, AtWork DEF FreeAtWork, Working, InHand
  <2>2. CASE Register(c) /\ registry' = [registry EXCEPT ![Target(c)] = calls[c].scope]
    <3>1. Working(c)
      BY <2>2 DEF Register, Working
    <3>2. Target(c) # Target(d)
      BY <1>2, <2>1, <3>1, OneAtWork
    <3>3. QED
      BY <1>1, <2>1, <2>2, <3>2
  <2>3. QED
    BY <1>1, <2>1, <2>2, RegistryAfter
<1>3. ASSUME NEW d \in Callers, d # c, InHand(d)
      PROVE  scopes'[calls[d].scope].plugin = Target(d)
  <2>1. calls[d].scope \in 1 .. forks
    BY <1>3, AtWork DEF InHand
  <2>2. QED
    BY <1>3, <2>1, ScopeKept DEF FreeAtWork
<1>4. ASSUME (calls[c].pc = "inject" \/ InHand(c))'
      PROVE  registry'[Target(c)] = NoScope /\ Target(c)' = Target(c)
  <2>1. /\ Target(c)' = Target(c) /\ ~Register(c) /\ calls'[c].pc \notin {"idle", "snapshot", "stop", "panic"}
        /\ \/ registry[Target(c)] = NoScope
           \/ Delete(c)
    BY <1>4, HandsAfter DEF FreeAtWork, InHand, CheckInject, Fork
  <2>2. Target(c) \in Plugins
    <3>1. Target(c)' \in Plugins
      <4>1. calls'[c] \in Call /\ calls'[c].names # <<>>
        BY <1>1, <2>1 DEF IInv, CallsWellFormed
      <4>2. calls'[c].names \in Seq(Plugins)
        BY <4>1 DEF Call
      <4>3. QED
        BY <4>1, <4>2, TailOfNames DEF Target
    <3>2. QED
      BY <2>1, <3>1
  <2>3. CASE Delete(c) /\ registry[Target(c)] # NoScope
    BY <1>1, <2>1, <2>2, <2>3 DEF Delete, Deleted
  <2>4. CASE registry[Target(c)] = NoScope
    BY <1>1, <2>1, <2>2, <2>4, RegistryAfter
  <2>5. QED
    BY <2>1, <2>3, <2>4
<1>5. ASSUME InHand(c)'
      PROVE  scopes'[calls'[c].scope].plugin = Target(c)'
  <2>1. Target(c)' = Target(c) /\
        \/ /\ calls'[c].scope = forks + 1 /\ scopes'[forks + 1].plugin = Target(c)
        \/ /\ Delete(c) /\ registry[Target(c)] # NoScope
           /\ calls'[c].scope = registry[Target(c)]
        \/ InHand(c) /\ calls'[c].scope = calls[c].scope
    BY <1>5, HandsAfter
  <2>2. CASE Delete(c) /\ registry[Target(c)] # NoScope /\ calls'[c].scope = registry[Target(c)]
    <3>1. Target(c) \in Plugins
      BY <2>2, AtWork DEF Delete
    <3>2. scopes[registry[Target(c)]].plugin = Target(c) /\ scopes' = scopes
      BY <2>2, <3>1 DEF Delete, IInv, RegisteredScopeLives
    <3>3. QED
      BY <2>1, <2>2, <3>2
  <2>3. CASE InHand(c) /\ calls'[c].scope = calls[c].scope
    <3>1. calls[c].scope \in 1 .. forks
      BY <2>3, AtWork DEF InHand
    <3>2. QED
      BY <2>1, <2>3, <3>1, ScopeKept DEF FreeAtWork
  <2>4. QED
    BY <2>1, <2>2, <2>3
<1>a. ASSUME NEW d \in Callers, d # c, calls[d].pc = "apply"
      PROVE  scopes'[calls[d].scope].parent = calls[d].parent
  <2>1. calls[d].scope \in 1 .. forks
    BY <1>a, AtWork DEF InHand
  <2>2. QED
    BY <1>a, <2>1, ScopeKept DEF FreeAtWork
<1>b. ASSUME calls'[c].pc = "apply"
      PROVE  scopes'[calls'[c].scope].parent = calls'[c].parent
  <2>1. /\ calls'[c].parent = calls[c].parent
        /\ \/ /\ calls'[c].scope = forks + 1
              /\ scopes'[forks + 1].parent = calls[c].parent
           \/ calls[c].pc = "apply" /\ calls'[c].scope = calls[c].scope
    BY <1>b, HandsAfter, ParentKept DEF InHand
  <2>2. CASE calls[c].pc = "apply" /\ calls'[c].scope = calls[c].scope
    <3>1. calls[c].scope \in 1 .. forks
      BY <2>2, AtWork DEF InHand
    <3>2. QED
      BY <2>1, <2>2, <3>1, ScopeKept DEF FreeAtWork
  <2>3. QED
    BY <2>1, <2>2
<1>6. ASSUME NEW d \in Callers
      PROVE  /\ (calls[d].pc = "inject" \/ InHand(d))' => registry'[Target(d)'] = NoScope
             /\ InHand(d)' => scopes'[calls'[d].scope].plugin = Target(d)'
             /\ calls'[d].pc = "apply" => scopes'[calls'[d].scope].parent = calls'[d].parent
  <2>1. CASE d # c
    <3>1. calls'[d] = calls[d]
      BY <1>1, <2>1
    <3>2. QED
      BY <1>2, <1>3, <1>a, <2>1, <3>1 DEF InHand, Target
  <2>2. CASE d = c
    BY <1>4, <1>5, <1>b, <2>2 DEF InHand, Target
  <2>3. QED
    BY <2>1, <2>2
<1>7. QED
  BY <1>6 DEF FreeAtWork

-----------------------------------------------------------------------------
\* The positions of the disposers on a list.
Positions(list) == {list[j].at : j \in DOMAIN list}

\* A list of what a plugin's Apply registered, in the order it did, from the first on.
Rising(p, list) ==
    \A j \in DOMAIN list :
        /\ list[j].at \in Registrations(p) /\ list[j].prev = NoScope
        /\ \A k \in DOMAIN list : j < k => list[j].at < list[k].at
        /\ \A i \in Registrations(p) : i < list[j].at => i \in Positions(list)

\* An empty list.
LEMMA RisingEmpty ==
  ASSUME NEW p
  PROVE  Rising(p, <<>>) /\ Positions(<<>>) = {}
<1>1. DOMAIN <<>> = {}
  OBVIOUS
<1>2. QED
  BY <1>1 DEF Rising, Positions

\* The positions of a script are numbers.
LEMMA RegistrationsAre ==
  ASSUME NEW p \in Plugins
  PROVE  /\ Registrations(p) \subseteq 1 .. Len(Script[p]) /\ Len(Script[p]) \in Nat
         /\ DOMAIN Script[p] = 1 .. Len(Script[p])
         /\ \A i \in 1 .. Len(Script[p]) : Script[p][i].kind \in Kinds /\ Script[p][i].key \in Keys
<1>1. Script[p] \in Seq([kind : Kinds, key : Keys])
  BY KernelAssumption
<1>2. DOMAIN Script[p] = 1 .. Len(Script[p]) /\ Len(Script[p]) \in Nat
  BY <1>1, LenProperties
<1>3. \A i \in 1 .. Len(Script[p]) : Script[p][i] \in [kind : Kinds, key : Keys]
  BY <1>1, ElementOfSeq
<1>4. QED
  BY <1>2, <1>3 DEF Registrations

\* One more registration, the next.
LEMMA RisingMore ==
  ASSUME NEW p \in Plugins, NEW list \in Seq(Disposer), Rising(p, list),
         NEW n \in Registrations(p),
         \A i \in Registrations(p) : i < n <=> i \in Positions(list),
         NEW d \in Disposer, d.at = n, d.prev = NoScope
  PROVE  /\ Rising(p, Append(list, d))
         /\ Positions(Append(list, d)) = Positions(list) \cup {n}
<1> DEFINE new == Append(list, d)
<1>1. /\ new \in Seq(Disposer)
      /\ Len(new) = Len(list) + 1
      /\ \A j \in 1 .. Len(list) : new[j] = list[j]
      /\ new[Len(list) + 1] = d
  BY AppendProperties
<1> HIDE DEF new
<1>2. /\ Len(list) \in Nat /\ DOMAIN list = 1 .. Len(list)
      /\ DOMAIN new = 1 .. Len(list) + 1
  BY <1>1, LenProperties
<1>3. Positions(new) = Positions(list) \cup {n}
  <2>1. \A j \in DOMAIN list : j \in DOMAIN new /\ new[j].at = list[j].at
    BY <1>1, <1>2
  <2>2. Len(list) + 1 \in DOMAIN new /\ new[Len(list) + 1].at = n
    BY <1>1, <1>2
  <2>3. \A j \in DOMAIN new : j = Len(list) + 1 \/ j \in DOMAIN list
    BY <1>2
  <2>4. QED
    BY <2>1, <2>2, <2>3 DEF Positions
<1>4. n \in Nat /\ \A j \in DOMAIN list : list[j].at \in Nat /\ list[j].at \in Registrations(p)
                                          /\ list[j].at \in Positions(list)
  BY RegistrationsAre DEF Rising, Positions
<1>5. \A j \in DOMAIN list : list[j].at < n
  BY <1>4
<1>6. Rising(p, new)
  <2> SUFFICES ASSUME NEW j \in DOMAIN new
               PROVE  /\ new[j].at \in Registrations(p) /\ new[j].prev = NoScope
                      /\ \A k \in DOMAIN new : j < k => new[j].at < new[k].at
                      /\ \A i \in Registrations(p) : i < new[j].at => i \in Positions(new)
    BY DEF Rising
  <2>1. CASE j = Len(list) + 1
    <3>1. \A k \in DOMAIN new : ~(j < k)
      BY <1>2, <2>1
    <3>2. new[j] = d
      BY <1>1, <2>1
    <3>3. QED
      BY <1>3, <3>1, <3>2
  <2>2. CASE j \in DOMAIN list
    <3>1. new[j] = list[j]
      BY <1>1, <1>2, <2>2
    <3>2. ASSUME NEW k \in DOMAIN new, j < k
          PROVE  new[j].at < new[k].at
      <4>1. CASE k \in DOMAIN list
        <5>1. new[k] = list[k]
          BY <1>1, <1>2, <4>1
        <5>2. QED
          BY <2>2, <3>1, <3>2, <4>1, <5>1 DEF Rising
      <4>2. CASE k = Len(list) + 1
        BY <1>1, <1>5, <2>2, <3>1, <4>2
      <4>3. QED
        BY <1>2, <4>1, <4>2
    <3>3. QED
      BY <1>3, <2>2, <3>1, <3>2 DEF Rising
  <2>3. QED
    BY <1>2, <2>1, <2>2
<1>7. QED
  BY <1>3, <1>6 DEF new

\* The last one taken back.
LEMMA RisingLess ==
  ASSUME NEW p \in Plugins, NEW list \in Seq(Disposer), Rising(p, list), list # <<>>
  PROVE  /\ Len(list) \in DOMAIN list
         /\ Rising(p, Without(list, Len(list)))
         /\ Positions(Without(list, Len(list))) = Positions(list) \ {list[Len(list)].at}
<1> DEFINE n == Len(list)
           new == Without(list, n)
<1>1. n \in Nat /\ n # 0 /\ DOMAIN list = 1 .. n
  BY EmptySeq, LenProperties
<1>2. /\ DOMAIN new = 1 .. n - 1 /\ \A j \in 1 .. n - 1 : new[j] = list[j]
  BY <1>1 DEF Without
<1>3. n \in DOMAIN list /\ \A j \in DOMAIN new : j \in DOMAIN list /\ new[j] = list[j] /\ j < n
  BY <1>1, <1>2
<1>4. \A j \in DOMAIN list : j = n \/ j \in DOMAIN new
  BY <1>1, <1>2
<1>n. Len(list) = n
  OBVIOUS
<1> HIDE DEF new, n
<1>5. \A j \in DOMAIN list : list[j].at \in Nat
  BY RegistrationsAre DEF Rising
<1>6. \A j \in DOMAIN new : list[j].at < list[n].at
  BY <1>3 DEF Rising
<1>7. Positions(new) = Positions(list) \ {list[n].at}
  <2>1. \A j \in DOMAIN new : list[j].at # list[n].at
    BY <1>3, <1>5, <1>6
  <2>2. QED
    BY <1>3, <1>4, <2>1 DEF Positions
<1>8. Rising(p, new)
  <2> SUFFICES ASSUME NEW j \in DOMAIN new
               PROVE  /\ new[j].at \in Registrations(p) /\ new[j].prev = NoScope
                      /\ \A k \in DOMAIN new : j < k => new[j].at < new[k].at
                      /\ \A i \in Registrations(p) : i < new[j].at => i \in Positions(new)
    BY DEF Rising
  <2>1. new[j] = list[j] /\ j \in DOMAIN list
    BY <1>3
  <2>2. \A k \in DOMAIN new : new[k] = list[k] /\ k \in DOMAIN list
    BY <1>3
  <2>3. ASSUME NEW i \in Registrations(p), i < new[j].at PROVE i \in Positions(new)
    <3>1. i \in Positions(list)
      BY <2>1, <2>3 DEF Rising
    <3>2. i # list[n].at
      <4>1. i \in Nat /\ list[j].at \in Nat /\ list[n].at \in Nat /\ list[j].at < list[n].at
        BY RegistrationsAre, <1>3, <1>5, <1>6, <2>1
      <4>2. QED
        BY <2>1, <2>3, <4>1
    <3>3. QED
      BY <1>7, <3>1, <3>2
  <2>4. QED
    BY <2>1, <2>2, <2>3 DEF Rising
<1>9. QED
  BY <1>3, <1>7, <1>8, <1>n DEF new

\* Positions of a list that rises are registrations; what is on it has all before it.
LEMMA RisingIsInitial ==
  ASSUME NEW p \in Plugins, NEW list, Rising(p, list)
  PROVE  /\ Positions(list) \subseteq Registrations(p)
         /\ \A j \in Positions(list) : \A i \in Registrations(p) : i < j => i \in Positions(list)
BY DEF Rising, Positions

-----------------------------------------------------------------------------
\* A goroutine in Dispose, with the scope's list in hand.
Replaying(c) == calls[c].pc \in {"rollback", "replay"}

\* A list has a disposer for what stands of its scope, and only for that.
ListTrue(s, list) ==
    /\ Standing(s) = Positions(list)
    /\ Rising(scopes[s].plugin, list)

\* Every scope has such a list: its own, or the one in the hands of who replays it.
Lists ==
    /\ \A s \in Scopes :
          (\A c \in Callers : Replaying(c) => calls[c].scope # s) => ListTrue(s, scopes[s].disposers)
    /\ \A c \in Callers : Replaying(c) => ListTrue(calls[c].scope, calls[c].pending)

\* How far a list goes: at Apply, to the item the goroutine is at; of a registered
\* plugin, to the end; and only a scope that somebody has has one.
Extent ==
    /\ \A c \in Callers : calls[c].pc = "apply" =>
          \A i \in Registrations(Target(c)) :
              i < calls[c].at <=> i \in Positions(scopes[calls[c].scope].disposers)
    /\ \A p \in Plugins : registry[p] # NoScope =>
          Registrations(p) \subseteq Positions(scopes[registry[p]].disposers)
    /\ \A s \in Scopes : scopes[s].disposers # <<>> =>
          \/ registry[scopes[s].plugin] = s
          \/ \E c \in Callers : calls[c].pc \in {"apply", "dispose", "panic"} /\ calls[c].scope = s

\* No scope has a service of its own, and a service in the registry is one its
\* scope's plugin provides.
Provided ==
    /\ \A s \in Scopes : scopes[s].local = {}
    /\ \A k \in Keys : services[k] # NoScope =>
          \E i \in DOMAIN Script[scopes[services[k]].plugin] :
              /\ Script[scopes[services[k]].plugin][i].kind = "provide"
              /\ Script[scopes[services[k]].plugin][i].key = k

\* What a Load on a parent in B has found of the keys its plugin injects.
Seen(B) ==
    \A c \in Callers : calls[c].parent \in B =>
        /\ calls[c].pc = "inject" =>
              \A j \in DOMAIN Inject[Target(c)] :
                  j < calls[c].at =>
                      calls[c].missing \/ Has(calls[c].parent, Inject[Target(c)][j])
        /\ calls[c].pc = "apply" =>
              \A j \in DOMAIN Inject[Target(c)] : Has(calls[c].parent, Inject[Target(c)][j])

\* A goroutine that panicked did so on a scope of a plugin it may load, and whose name
\* is free.
Panicked ==
    \A c \in Callers : calls[c].pc = "panic" =>
        /\ calls[c].scope \in 1 .. forks
        /\ Handles(allowed, c, scopes[calls[c].scope].plugin)
        /\ registry[scopes[calls[c].scope].plugin] = NoScope

\* The inductive invariant for plugins that have a goroutine each.
KInv == /\ IInv /\ Asked /\ FreeAtWork /\ Panicked
        /\ Seen(Isolates) /\ Lists /\ Extent /\ Provided

\* What a Load has found on its parent it may rely on, as long as no service it injects
\* is taken out of the registry.
LEMMA SeenKept ==
  ASSUME IInv, NEW B, Seen(B), NEW c \in Callers, Step(c),
         \A d \in Callers :
             calls[d].parent \in B \ Isolates /\ calls[d].pc \in {"inject", "apply"} =>
                 \A j \in DOMAIN Inject[Target(d)] :
                     services[Inject[Target(d)][j]] # NoScope
                        => services'[Inject[Target(d)][j]] # NoScope
  PROVE  Seen(B)'
<1>1. /\ calls' \in [Callers -> Call] /\ calls \in [Callers -> Call]
      /\ \A d \in Callers : d # c => calls'[d] = calls[d]
  BY OthersKept DEF IInv, TypeOK
<1> DEFINE Found(d) == \A j \in DOMAIN Inject[Target(d)] : Has(calls[d].parent, Inject[Target(d)][j])
           FoundSoFar(d) == \A j \in DOMAIN Inject[Target(d)] :
                  j < calls[d].at => calls[d].missing \/ Has(calls[d].parent, Inject[Target(d)][j])
<1>2. ASSUME NEW d \in Callers, calls[d].parent \in B, calls[d].pc \in {"inject", "apply"},
             NEW j \in DOMAIN Inject[Target(d)], Has(calls[d].parent, Inject[Target(d)][j])
      PROVE  IF calls[d].parent \in Isolates
             THEN Inject[Target(d)][j] \in Private[calls[d].parent]
             ELSE services'[Inject[Target(d)][j]] # NoScope
  BY <1>2 DEF Has
<1>3. ASSUME NEW d \in Callers, d # c, calls[d].parent \in B
      PROVE  /\ calls'[d].pc = "inject" => FoundSoFar(d)'
             /\ calls'[d].pc = "apply" => Found(d)'
  <2>1. calls'[d] = calls[d] /\ Target(d)' = Target(d)
    BY <1>1, <1>3 DEF Target
  <2>2. ASSUME calls[d].pc = "inject" PROVE FoundSoFar(d)'
    <3>1. ASSUME NEW j \in DOMAIN Inject[Target(d)], j < calls[d].at, ~calls[d].missing
          PROVE  Has(calls[d].parent, Inject[Target(d)][j])'
      <4>1. Has(calls[d].parent, Inject[Target(d)][j])
        BY <1>3, <2>2, <3>1 DEF Seen
      <4>2. QED
        BY <1>2, <1>3, <2>1, <2>2, <3>1, <4>1 DEF Has
    <3>2. QED
      BY <2>1, <3>1
  <2>3. ASSUME calls[d].pc = "apply"
        PROVE  Found(d)'
    <3>3. ASSUME NEW j \in DOMAIN Inject[Target(d)]
          PROVE  Has(calls[d].parent, Inject[Target(d)][j])'
      <4>1. Has(calls[d].parent, Inject[Target(d)][j])
        BY <1>3, <2>3 DEF Seen
      <4>2. QED
        BY <1>2, <1>3, <2>1, <2>3, <4>1 DEF Has
    <3>4. QED
      BY <2>1, <3>3
  <2>4. QED
    BY <2>1, <2>2, <2>3
<1>4. ASSUME (calls[c].pc = "inject" \/ InHand(c))'
      PROVE  calls'[c].parent = calls[c].parent
  BY <1>4, ParentKept
<1>5. ASSUME calls'[c].parent \in B, calls'[c].pc = "inject"
      PROVE  FoundSoFar(c)'
  <2>1. Target(c)' = Target(c) /\ ~InHand(c)' /\ calls'[c].parent = calls[c].parent
        /\ \/ Check(c) /\ registry[Target(c)] = NoScope
           \/ CheckInject(c)
    BY <1>4, <1>5, HandsAfter DEF InHand
  <2>2. Target(c) \in Plugins /\ calls[c] \in Call
    BY <2>1, AtWork DEF Check, CheckInject
  <2>3. Inject[Target(c)] \in Seq(Keys) /\ DOMAIN Inject[Target(c)] = 1 .. Len(Inject[Target(c)])
        /\ Len(Inject[Target(c)]) \in Nat
    BY <2>2, KernelAssumption, LenProperties
  <2>4. CASE Check(c) /\ registry[Target(c)] = NoScope
    <3>1. calls'[c] = [calls[c] EXCEPT !.pc = "inject", !.at = 1]
      BY <1>1, <2>4 DEF Check, NameFree
    <3>2. calls'[c].at = 1
      BY <2>2, <3>1 DEF Call
    <3>3. QED
      BY <2>1, <2>3, <3>2
  <2>5. CASE CheckInject(c)
    <3> DEFINE n == calls[c].at + 1
               m == calls[c].missing \/ ~Has(calls[c].parent, Inject[Target(c)][calls[c].at])
    <3>1. calls'[c] = [calls[c] EXCEPT !.at = n, !.missing = m]
      BY <1>1, <2>5 DEF CheckInject
    <3>2. /\ calls[c].pc = "inject" /\ calls[c].at \in Nat /\ services' = services
          /\ calls[c].at <= Len(Inject[Target(c)])
      BY <2>2, <2>5 DEF CheckInject, Call
    <3> HIDE DEF n, m
    <3>3. calls'[c].at = n /\ calls'[c].missing = m
      BY <2>2, <3>1 DEF Call
    <3>4. ASSUME NEW j \in DOMAIN Inject[Target(c)], j < n, ~m
          PROVE  Has(calls[c].parent, Inject[Target(c)][j])
      <4>1. ~calls[c].missing /\ Has(calls[c].parent, Inject[Target(c)][calls[c].at])
        BY <3>4 DEF m
      <4>2. j = calls[c].at \/ j < calls[c].at
        BY <2>3, <3>2, <3>4 DEF n
      <4>3. QED
        BY <1>5, <2>1, <3>2, <4>1, <4>2 DEF Seen
    <3>5. QED
      BY <2>1, <3>2, <3>3, <3>4 DEF Has
  <2>6. QED
    BY <2>1, <2>4, <2>5
<1>6. ASSUME calls'[c].parent \in B, calls'[c].pc = "apply"
      PROVE  Found(c)'
  <2>1. Target(c)' = Target(c) /\ calls'[c].parent = calls[c].parent
        /\ \/ Fork(c) /\ ~DependenciesMissing(c)
           \/ calls[c].pc = "apply"
    BY <1>4, <1>6, HandsAfter DEF InHand
  <2>2. Target(c) \in Plugins /\ calls[c] \in Call
    BY <2>1, AtWork DEF Fork
  <2>3. CASE Fork(c) /\ ~DependenciesMissing(c)
    <3>1. Inject[Target(c)] \in Seq(Keys) /\ DOMAIN Inject[Target(c)] = 1 .. Len(Inject[Target(c)])
          /\ Len(Inject[Target(c)]) \in Nat
      BY <2>2, KernelAssumption, LenProperties
    <3>2. /\ calls[c].pc = "inject" /\ calls[c].at \in Nat /\ ~calls[c].missing
          /\ calls[c].at > Len(Inject[Target(c)]) /\ services' = services
      BY <2>2, <2>3 DEF Fork, DependenciesMissing, Call
    <3>3. \A j \in DOMAIN Inject[Target(c)] : j < calls[c].at
      BY <3>1, <3>2
    <3>4. Found(c)
      BY <1>6, <2>1, <3>2, <3>3 DEF Seen
    <3>5. QED
      BY <2>1, <2>3, <3>2, <3>4 DEF Has
  <2>4. CASE calls[c].pc = "apply"
    <3>3. ASSUME NEW j \in DOMAIN Inject[Target(c)]
          PROVE  Has(calls[c].parent, Inject[Target(c)][j])'
      <4>1. Has(calls[c].parent, Inject[Target(c)][j])
        BY <1>6, <2>1, <2>4 DEF Seen
      <4>2. QED
        BY <1>2, <1>6, <2>1, <2>4, <4>1 DEF Has
    <3>4. QED
      BY <2>1, <2>4, <3>3
  <2>5. QED
    BY <2>1, <2>3, <2>4
<1>7. QED
  BY <1>1, <1>3, <1>5, <1>6 DEF Seen

-----------------------------------------------------------------------------
\* Nobody has a scope's list in hand.
Unreplayed(s) == \A c \in Callers : Replaying(c) => calls[c].scope # s

\* What stands of a scope no longer, or not yet, changes when its registrations do not.
LEMMA StandingSame ==
  ASSUME NEW s \in Scopes, scopes[s].plugin \in Plugins, scopes'[s].plugin = scopes[s].plugin,
         inForce'[s] = inForce[s], scopes[s].local = {}, scopes'[s].local = {},
         \A k \in Keys : services'[k] = s <=> services[k] = s
  PROVE  Standing(s)' = Standing(s)
<1>1. \A i \in DOMAIN Script[scopes[s].plugin] : Script[scopes[s].plugin][i].key \in Keys
  BY RegistrationsAre
<1>2. QED
  BY <1>1 DEF Standing

\* The types of a scope.
LEMMA ScopeTypes ==
  ASSUME IInv, NEW s \in Scopes
  PROVE  /\ scopes[s] \in Scope /\ scopes[s].plugin \in Plugins
         /\ scopes[s].disposers \in Seq(Disposer)
         /\ NoScope \notin Scopes /\ s \in Nat /\ forks \in Nat
BY KernelAssumption DEF IInv, TypeOK, Scope, Scopes, NoScope

\* A scope on which a goroutine panicked is in no other's hands.
LEMMA PanicApart ==
  ASSUME IInv, Asked, FreeAtWork, Panicked, PluginsApart,
         NEW c \in Callers, InHand(c), NEW d \in Callers, calls[d].pc = "panic"
  PROVE  calls[d].scope # calls[c].scope
<1>1. Handles(allowed, c, Target(c)) /\ Target(c) \in Plugins /\ allowed \in Profiles
  BY HandlesTarget DEF InHand, Working, IInv, TypeOK
<1>2. c # d
  BY DEF InHand
<1>3. QED
  BY <1>1, <1>2 DEF FreeAtWork, Panicked, PluginsApart

\* A scope whose list is being replayed has no list of its own any more; one that Apply
\* or Dispose is about has its list, and nobody replays it.
LEMMA ListsApart ==
  ASSUME KInv, PluginsApart, NEW c \in Callers, InHand(c)
  PROVE  IF Replaying(c) THEN scopes[calls[c].scope].disposers = <<>>
                         ELSE Unreplayed(calls[c].scope)
<1> USE DEF KInv
<1>1. calls[c].scope \in Scopes
  BY AtWork DEF InHand
<1>2. CASE Replaying(c)
  <2>0. \A d \in Callers : calls[d].pc = "panic" => calls[d].scope # calls[c].scope
    BY <1>2, PanicApart
  <2>1. \A d \in Callers : calls[d].pc \in {"apply", "dispose"} => calls[d].scope # calls[c].scope
    BY <1>2 DEF IInv, ScopesOwned, InHand, Replaying
  <2>2. registry[scopes[calls[c].scope].plugin] # calls[c].scope
    BY <1>1, ScopeTypes DEF IInv, ScopesOwned
  <2>3. QED
    BY <1>1, <1>2, <2>0, <2>1, <2>2 DEF Extent
<1>3. CASE ~Replaying(c)
  BY <1>3 DEF IInv, ScopesOwned, Unreplayed, InHand, Replaying
<1>4. QED
  BY <1>2, <1>3

\* A registered scope has its list.
LEMMA RegisteredUnreplayed ==
  ASSUME IInv, NEW p \in Plugins, registry[p] # NoScope
  PROVE  registry[p] \in Scopes /\ Unreplayed(registry[p]) /\ scopes[registry[p]].plugin = p
BY DEF IInv, TypeOK, RegisteredScopeLives, ScopesOwned, Unreplayed, InHand, Replaying

\* What stands of a scope stands while somebody has the scope: an entry or a goroutine.
LEMMA StandingIsHad ==
  ASSUME IInv, Lists, Extent, Panicked, NEW s \in Scopes, Standing(s) # {}
  PROVE  /\ s \in 1 .. forks
         /\ \/ registry[scopes[s].plugin] = s
            \/ \E c \in Callers : InHand(c) /\ calls[c].scope = s
            \/ \E c \in Callers : calls[c].pc = "panic" /\ calls[c].scope = s
<1>1. \/ registry[scopes[s].plugin] = s
      \/ \E c \in Callers : InHand(c) /\ calls[c].scope = s
      \/ \E c \in Callers : calls[c].pc = "panic" /\ calls[c].scope = s
  <2>1. CASE Unreplayed(s)
    <3>1. Standing(s) = Positions(scopes[s].disposers)
      BY <2>1 DEF Lists, ListTrue, Unreplayed
    <3>2. scopes[s].disposers # <<>>
      BY <3>1, RisingEmpty
    <3>3. QED
      BY <3>2 DEF Extent, InHand
  <2>2. CASE ~Unreplayed(s)
    BY <2>2 DEF Unreplayed, Replaying, InHand
  <2>3. QED
    BY <2>1, <2>2
<1>2. CASE registry[scopes[s].plugin] = s
  <2>1. s <= forks /\ s \in Nat /\ s # 0 /\ forks \in Nat
    BY <1>2, ScopeTypes DEF IInv, ScopesForked, NoScope
  <2>2. QED
    BY <1>1, <2>1
<1>3. CASE \E c \in Callers : InHand(c) /\ calls[c].scope = s
  BY <1>1, <1>3, AtWork DEF InHand
<1>4. CASE \E c \in Callers : calls[c].pc = "panic" /\ calls[c].scope = s
  BY <1>1, <1>4 DEF Panicked
<1>5. QED
  BY <1>1, <1>2, <1>3, <1>4

\* A service in the registry stands: it is an item of its scope's script.
LEMMA ServiceStands ==
  ASSUME IInv, Provided, NEW k \in Keys, services[k] # NoScope
  PROVE  /\ services[k] \in Scopes
         /\ \E i \in DOMAIN Script[scopes[services[k]].plugin] :
              /\ Script[scopes[services[k]].plugin][i].kind = "provide"
              /\ Script[scopes[services[k]].plugin][i].key = k
              /\ i \in Standing(services[k])
<1>1. services[k] \in Scopes
  BY DEF IInv, TypeOK
<1>2. QED
  BY <1>1 DEF Provided, Standing

\* When Apply provides a service there is none of that key: its one provider is being
\* loaded, and has not come to it.
LEMMA KeyFree ==
  ASSUME KInv, PluginsApart, ProvidedOnce, NEW c \in Callers, ApplyProvide(c)
  PROVE  services[Item(c).key] = NoScope
<1> USE DEF KInv
<1> DEFINE p == Target(c)
           s == calls[c].scope
           k == Item(c).key
<1>1. /\ calls[c].pc = "apply" /\ calls[c].at <= Len(Script[p]) /\ Item(c).kind = "provide"
      /\ InHand(c) /\ p \in Plugins /\ s \in Scopes /\ calls[c].at \in Nat /\ calls[c].at >= 1
  <2>1. calls[c].pc = "apply" /\ calls[c].at <= Len(Script[p]) /\ Item(c).kind = "provide" /\ InHand(c)
    BY DEF ApplyProvide, InHand
  <2>2. calls[c] \in Call /\ p \in Plugins /\ s \in Scopes
    BY <2>1, AtWork
  <2>3. calls[c].at \in Nat /\ calls[c].at >= 1
    BY <2>1, <2>2 DEF Call, IInv, CallsWellFormed
  <2>4. QED
    BY <2>1, <2>2, <2>3
<1>2. /\ calls[c].at \in DOMAIN Script[p] /\ Script[p][calls[c].at].kind = "provide"
      /\ Script[p][calls[c].at].key = k /\ k \in Keys
      /\ calls[c].at \in Registrations(p)
  <2>1. calls[c].at \in DOMAIN Script[p] /\ DOMAIN Script[p] = 1 .. Len(Script[p])
    BY <1>1, RegistrationsAre
  <2>2. QED
    BY <1>1, <2>1, RegistrationsAre DEF Item, Registrations
<1> SUFFICES ASSUME services[k] # NoScope PROVE FALSE
  OBVIOUS
<1> DEFINE t == services[k]
<1>3. PICK i \in DOMAIN Script[scopes[t].plugin] :
        /\ Script[scopes[t].plugin][i].kind = "provide"
        /\ Script[scopes[t].plugin][i].key = k
        /\ i \in Standing(t)
  BY <1>2, ServiceStands
<1>4. t \in Scopes /\ scopes[t].plugin \in Plugins
  BY <1>2, ServiceStands, ScopeTypes
<1>5. scopes[t].plugin = p /\ i = calls[c].at
  BY <1>1, <1>2, <1>3, <1>4 DEF ProvidedOnce
<1>6. registry[p] = NoScope
  BY <1>1 DEF FreeAtWork
<1>7. NoScope \notin Scopes
  BY <1>4, ScopeTypes
<1>8. PICK d \in Callers : InHand(d) /\ calls[d].scope = t
  <2>1. ASSUME NEW e \in Callers, calls[e].pc = "panic", calls[e].scope = t PROVE FALSE
    <3>1. Handles(allowed, e, p) /\ Handles(allowed, c, p) /\ e # c /\ allowed \in Profiles
      BY <1>1, <1>5, <2>1, HandlesTarget DEF Panicked, Working, IInv, TypeOK
    <3>2. QED
      BY <1>1, <3>1 DEF PluginsApart
  <2>2. QED
    BY <1>3, <1>4, <1>5, <1>6, <1>7, <2>1, StandingIsHad
<1>9. d = c /\ t = s
  <2>1. Target(d) = p
    BY <1>5, <1>8 DEF FreeAtWork
  <2>2. Working(c) /\ Working(d)
    BY <1>1, <1>8 DEF Working, InHand
  <2>3. QED
    BY <1>8, <2>1, <2>2, OneAtWork
<1>10. calls[c].at \in Positions(scopes[s].disposers)
  <2>1. Unreplayed(s)
    BY <1>1, ListsApart DEF Replaying
  <2>2. Standing(s) = Positions(scopes[s].disposers)
    BY <1>1, <2>1 DEF Lists, ListTrue, Unreplayed
  <2>3. QED
    BY <1>3, <1>5, <1>9, <2>2
<1>11. calls[c].at < calls[c].at
  BY <1>1, <1>2, <1>10 DEF Extent
<1>12. QED
  BY <1>1, <1>11

\* Only a plugin that provides nothing is applied on an isolated scope.
LEMMA NotIsolated ==
  ASSUME KInv, IsolatesOnlyListen, NEW c \in Callers, calls[c].pc = "apply",
         calls[c].at <= Len(Script[Target(c)]), Item(c).kind \notin {"on", "effect"}
  PROVE  scopes[calls[c].scope].parent \notin Isolates
<1> USE DEF KInv
<1>1. /\ Target(c) \in Plugins /\ Handles(allowed, c, Target(c))
      /\ Asks(allowed, c, Target(c), calls[c].parent) /\ allowed \in Profiles
  BY HandlesTarget DEF Working, Asked, IInv, TypeOK
<1>2. calls[c].at \in DOMAIN Script[Target(c)]
  <2>1. calls[c].at \in Nat /\ calls[c].at >= 1
    BY DEF IInv, TypeOK, CallsWellFormed, Call
  <2>2. QED
    BY <1>1, <2>1, RegistrationsAre
<1>3. ASSUME scopes[calls[c].scope].parent \in Isolates PROVE FALSE
  <2>1. calls[c].parent \in Isolates
    BY <1>3 DEF FreeAtWork
  <2>2. \A j \in DOMAIN Inject[Target(c)] : Inject[Target(c)][j] \in Private[calls[c].parent]
    BY <2>1 DEF Seen, Has
  <2>3. Script[Target(c)][calls[c].at].kind \in {"on", "effect"}
    BY <1>1, <1>2, <2>1, <2>2 DEF IsolatesOnlyListen
  <2>4. QED
    BY <2>3 DEF Item
<1>4. QED
  BY <1>3

-----------------------------------------------------------------------------
\* Use goes on, or panics.
LEMMA ApplyUseCall ==
  ASSUME IInv, NEW c \in Callers, ApplyUse(c)
  PROVE  /\ calls'[c].pc \in {"apply", "panic"} /\ calls'[c].scope = calls[c].scope
         /\ calls'[c].names = calls[c].names /\ calls'[c].at = calls[c].at + 1
         /\ calls[c].pc = "apply" /\ InHand(c)
<1> DEFINE n == calls[c].at + 1
           pc == IF Visible(calls[c].scope, Item(c).key) THEN calls[c].pc ELSE "panic"
<1>1. calls[c].pc = "apply" /\ pc \in {"apply", "panic"} /\ calls \in [Callers -> Call]
      /\ calls[c] \in Call
  BY DEF ApplyUse, IInv, TypeOK
<1>2. calls'[c] = [calls[c] EXCEPT !.at = n, !.pc = pc]
  BY <1>1 DEF ApplyUse
<1>3. n = calls[c].at + 1
  OBVIOUS
<1> HIDE DEF n, pc
<1>4. QED
  BY <1>1, <1>2, <1>3 DEF Call, InHand

\* Replayed returns to a call that has no scope in hand.
LEMMA ReplayedCall ==
  ASSUME IInv, NEW c \in Callers, Replayed(c)
  PROVE  ~InHand(c)'
<1>1. calls[c] \in Call /\ calls[c].names # <<>> /\ calls \in [Callers -> Call]
  BY AtWork DEF Replayed, IInv, TypeOK
<1>2. PICK ok \in BOOLEAN : calls'[c] = AfterLoad(calls[c], FALSE) \/ calls'[c] = AfterUnload(calls[c], ok)
  BY <1>1 DEF Replayed
<1>3. QED
  BY <1>1, <1>2, AfterLoadType, AfterUnloadType DEF InHand

\* The steps that only change the call.
Calling(c) ==
    \/ Invoke(c) \/ Check(c) \/ CheckInject(c) \/ ApplyUse(c) \/ Lookup(c) \/ Snapshot(c)
    \/ Replayed(c) \/ Stop(c)
    \/ Fork(c) /\ DependenciesMissing(c)
    \/ Delete(c) /\ registry[Target(c)] = NoScope

\* They touch no scope, and only Use leaves the goroutine with a scope in hand.
LEMMA CallingIs ==
  ASSUME IInv, NEW c \in Callers, Calling(c)
  PROVE  /\ Step(c) /\ UNCHANGED <<registry, services, inForce, scopes, forks>>
         /\ InHand(c)' => ApplyUse(c) /\ calls'[c].pc = "apply" /\ Target(c)' = Target(c)
         /\ InHand(c) => ApplyUse(c) \/ (Replayed(c) /\ Replaying(c) /\ calls[c].pending = <<>>)
<1>1. Step(c) /\ UNCHANGED <<registry, services, inForce, scopes, forks>>
  BY DEF Calling, Step, Invoke, Check, CheckInject, ApplyUse, Lookup, Snapshot, Replayed, Stop,
         Fork, Delete
<1>2. InHand(c) => ApplyUse(c) \/ (Replayed(c) /\ Replaying(c) /\ calls[c].pending = <<>>)
  BY DEF Calling, InHand, Invoke, Check, CheckInject, Lookup, Snapshot, Replayed, Stop,
         Fork, Delete, Replaying
<1>3. ASSUME InHand(c)' PROVE ApplyUse(c) /\ calls'[c].pc = "apply" /\ Target(c)' = Target(c)
  <2>1. ~Replayed(c)
    BY <1>3, ReplayedCall
  <2>2. /\ Target(c)' = Target(c)
        /\ \/ Fork(c) /\ ~DependenciesMissing(c)
           \/ Delete(c) /\ registry[Target(c)] # NoScope
           \/ InHand(c)
    BY <1>1, <1>3, HandsAfter
  <2>3. CASE InHand(c)
    <3>1. ApplyUse(c)
      BY <1>2, <2>1, <2>3
    <3>2. QED
      BY <1>3, <2>2, <3>1, ApplyUseCall DEF InHand
  <2>4. CASE ~InHand(c)
    <3>1. ~ApplyUse(c)
      BY <2>4 DEF ApplyUse, InHand
    <3>2. ASSUME Fork(c), CheckInject(c) PROVE FALSE
      <4>1. calls[c].at <= Len(Inject[Target(c)]) /\ calls[c].at > Len(Inject[Target(c)])
        BY <3>2 DEF Fork, CheckInject
      <4>2. calls[c] \in Call /\ Target(c) \in Plugins
        BY <3>2, AtWork DEF Fork
      <4>3. calls[c].at \in Nat /\ Len(Inject[Target(c)]) \in Nat
        BY <4>2, KernelAssumption, LenProperties DEF Call
      <4>4. QED
        BY <4>1, <4>3
    <3>3. CASE Fork(c) /\ ~DependenciesMissing(c)
      <4>1. calls[c].pc = "inject"
        BY <3>3 DEF Fork
      <4>2. QED
        BY <2>1, <3>1, <3>2, <3>3, <4>1
           DEF Calling, Invoke, Check, Lookup, Snapshot, Stop, Delete
    <3>4. CASE Delete(c) /\ registry[Target(c)] # NoScope
      <4>1. calls[c].pc = "delete"
        BY <3>4 DEF Delete
      <4>2. QED
        BY <2>1, <3>1, <3>4, <4>1
           DEF Calling, Invoke, Check, CheckInject, Lookup, Snapshot, Stop, Fork
    <3>5. QED
      BY <2>2, <2>4, <3>3, <3>4
  <2>5. QED
    BY <2>3, <2>4
<1>4. QED
  BY <1>1, <1>2, <1>3

\* The lists stay true when only the call changes.
LEMMA CallingKeeps ==
  ASSUME KInv, PluginsApart, NEW c \in Callers, Calling(c)
  PROVE  Lists' /\ Extent' /\ Provided'
<1> USE DEF KInv
<1>1. /\ Step(c) /\ UNCHANGED <<registry, services, inForce, scopes, forks>>
      /\ InHand(c)' => ApplyUse(c) /\ calls'[c].pc = "apply" /\ Target(c)' = Target(c)
      /\ InHand(c) => ApplyUse(c) \/ (Replayed(c) /\ Replaying(c) /\ calls[c].pending = <<>>)
  BY CallingIs
<1>2. \A d \in Callers : d # c => calls'[d] = calls[d]
  BY <1>1, OthersKept
<1>3. Provided'
  BY <1>1 DEF Provided
<1>4. \A s \in Scopes : Standing(s)' = Standing(s)
  BY <1>1 DEF Standing
<1>5. ASSUME NEW s \in Scopes, Unreplayed(s)'
      PROVE  ListTrue(s, scopes[s].disposers)
  <2>1. CASE Unreplayed(s)
    BY <2>1 DEF Lists, Unreplayed
  <2>2. ASSUME NEW d \in Callers, Replaying(d), calls[d].scope = s
        PROVE  ListTrue(s, scopes[s].disposers)
    <3>1. d = c
      BY <1>2, <1>5, <2>2 DEF Unreplayed, Replaying
    <3>2. InHand(c) /\ Replaying(c) /\ calls[c].pending = <<>>
      BY <1>1, <2>2, <3>1 DEF InHand, Replaying, ApplyUse
    <3>3. scopes[s].disposers = <<>> /\ ListTrue(s, <<>>)
      BY <2>2, <3>1, <3>2, ListsApart DEF Lists
    <3>4. QED
      BY <3>3
  <2>3. QED
    BY <2>1, <2>2 DEF Unreplayed
<1>6. ASSUME NEW d \in Callers, Replaying(d)'
      PROVE  ListTrue(calls'[d].scope, calls'[d].pending) /\ calls'[d].scope \in Scopes
  <2>1. d # c
    BY <1>1, <1>6 DEF InHand, Replaying
  <2>2. calls'[d] = calls[d] /\ Replaying(d)
    BY <1>2, <1>6, <2>1 DEF Replaying
  <2>3. QED
    BY <2>2, AtWork DEF Lists, InHand, Replaying
<1>7. Lists'
  <2>1. \A s \in Scopes : Unreplayed(s)' => ListTrue(s, scopes[s].disposers)'
    BY <1>1, <1>4, <1>5 DEF ListTrue
  <2>2. \A d \in Callers : Replaying(d)' => ListTrue(calls[d].scope, calls[d].pending)'
    BY <1>1, <1>4, <1>6 DEF ListTrue
  <2>3. QED
    BY <2>1, <2>2 DEF Lists, Unreplayed
<1>8. Extent'
  <2>1. ASSUME NEW d \in Callers, calls'[d].pc = "apply", NEW i \in Registrations(Target(d)')
        PROVE  i < calls'[d].at <=> i \in Positions(scopes'[calls'[d].scope].disposers)
    <3>1. CASE d # c
      <4>1. calls'[d] = calls[d] /\ Target(d)' = Target(d)
        BY <1>2, <3>1 DEF Target
      <4>2. QED
        BY <1>1, <2>1, <4>1 DEF Extent
    <3>2. CASE d = c
      <4>1. ApplyUse(c) /\ Target(c)' = Target(c)
        BY <1>1, <2>1, <3>2 DEF InHand
      <4>2. /\ calls'[c].scope = calls[c].scope /\ calls'[c].at = calls[c].at + 1
            /\ calls[c].pc = "apply" /\ InHand(c)
        BY <4>1, ApplyUseCall
      <4>3. Script[Target(c)][calls[c].at].kind = "use"
        BY <4>1 DEF ApplyUse, Item
      <4>4. i \in Registrations(Target(c)) /\ i # calls[c].at
        BY <2>1, <3>2, <4>1, <4>3 DEF Registrations
      <4>5. i \in Nat /\ calls[c].at \in Nat
        <5>1. Target(c) \in Plugins /\ calls[c] \in Call
          BY <4>2, AtWork
        <5>2. QED
          BY <4>4, <5>1, RegistrationsAre DEF Call
      <4>6. i < calls[c].at <=> i \in Positions(scopes[calls[c].scope].disposers)
        BY <4>2, <4>4 DEF Extent
      <4>7. i < calls[c].at + 1 <=> i < calls[c].at
        BY <4>4, <4>5
      <4>8. QED
        BY <1>1, <3>2, <4>2, <4>6, <4>7
    <3>3. QED
      BY <3>1, <3>2
  <2>2. ASSUME NEW s \in Scopes, scopes[s].disposers # <<>>
        PROVE  \/ registry[scopes[s].plugin] = s
               \/ \E d \in Callers : calls'[d].pc \in {"apply", "dispose", "panic"} /\ calls'[d].scope = s
    <3>1. ASSUME NEW d \in Callers, calls[d].pc \in {"apply", "dispose", "panic"}, calls[d].scope = s
          PROVE  calls'[d].pc \in {"apply", "dispose", "panic"} /\ calls'[d].scope = s
      <4>1. CASE d # c
        BY <1>2, <3>1, <4>1
      <4>2. CASE d = c
        <5>1. calls[c].pc # "panic"
          BY DEF Calling, Invoke, Check, CheckInject, ApplyUse, Lookup, Snapshot, Replayed, Stop,
                 Fork, Delete
        <5>2. ApplyUse(c)
          BY <1>1, <3>1, <4>2, <5>1 DEF InHand, Replaying
        <5>3. QED
          BY <3>1, <4>2, <5>2, ApplyUseCall
      <4>3. QED
        BY <4>1, <4>2
    <3>2. QED
      BY <2>2, <3>1 DEF Extent
  <2>3. QED
    BY <1>1, <2>1, <2>2 DEF Extent
<1>9. QED
  BY <1>3, <1>7, <1>8

\* Nothing stands of a scope that was just forked.
LEMMA ForkKeeps ==
  ASSUME KInv, PluginsApart, NEW c \in Callers, Fork(c), ~DependenciesMissing(c)
  PROVE  Lists' /\ Extent' /\ Provided'
<1> USE DEF KInv
<1>0. PICK n : n = forks + 1
  OBVIOUS
<1> DEFINE new == [Scratch EXCEPT !.plugin = Target(c), !.parent = calls[c].parent]
           call == [calls[c] EXCEPT !.pc = "apply", !.at = 1, !.scope = n]
<1>1. /\ calls[c].pc = "inject" /\ scopes' = [scopes EXCEPT ![n] = new] /\ forks < MaxForks
      /\ forks' = n /\ calls' = [calls EXCEPT ![c] = call]
      /\ UNCHANGED <<registry, services, inForce>>
  BY <1>0 DEF Fork, IInv, TypeOK
<1>2. /\ Target(c) \in Plugins /\ calls[c] \in Call /\ forks \in Nat /\ MaxForks \in Nat
      /\ calls \in [Callers -> Call] /\ scopes \in [Scopes -> Scope]
  BY <1>1, AtWork DEF IInv, TypeOK
<1>3. n \in Scopes /\ n \notin 1 .. forks /\ n > forks
  BY <1>0, <1>1, <1>2 DEF Scopes
<1>4. /\ new.plugin = Target(c) /\ new.local = {} /\ new.disposers = <<>>
      /\ call.pc = "apply" /\ call.at = 1 /\ call.scope = n /\ call.names = calls[c].names
  BY <1>2 DEF Scratch, Call
<1> HIDE DEF new, call
<1>5. /\ \A d \in Callers : calls'[d] = IF d = c THEN call ELSE calls[d]
      /\ \A s \in Scopes : scopes'[s] = IF s = n THEN new ELSE scopes[s]
  BY <1>1, <1>2
<1>6. ASSUME NEW k \in Keys PROVE services[k] # n
  <2>1. ASSUME services[k] = n PROVE FALSE
    <3>1. services[k] # NoScope
      BY <1>2, <1>3, <2>1, ScopeTypes
    <3>2. Standing(n) # {}
      BY <2>1, <3>1, ServiceStands
    <3>3. QED
      BY <1>3, <3>2, StandingIsHad
  <2>2. QED
    BY <2>1
<1>7. Standing(n)' = {} /\ ListTrue(n, <<>>)'
  <2>1. inForce[n] = {}
    BY <1>3 DEF IInv, ScopesForked
  <2>2. \A i \in DOMAIN Script[Target(c)] : Script[Target(c)][i].key \in Keys
    BY <1>2, RegistrationsAre
  <2>3. scopes'[n] = new /\ inForce'[n] = {} /\ \A k \in Keys : services'[k] # n
    BY <1>1, <1>3, <1>5, <1>6, <2>1
  <2>4. Standing(n)' = {}
    BY <1>4, <2>2, <2>3 DEF Standing
  <2>5. ListTrue(n, <<>>)'
    BY <2>4, RisingEmpty DEF ListTrue
  <2>6. QED
    BY <2>4, <2>5
<1>8. \A s \in Scopes : s # n => Standing(s)' = Standing(s) /\ scopes'[s] = scopes[s]
  BY <1>1, <1>5 DEF Standing
<1>9. Provided'
  <2>1. \A k \in Keys : services[k] # NoScope => services[k] \in Scopes /\ services[k] # n
    BY <1>6, ServiceStands
  <2>2. QED
    BY <1>1, <1>4, <1>5, <2>1 DEF Provided
<1>10. \A d \in Callers : Replaying(d)' => /\ Replaying(d) /\ calls'[d] = calls[d]
                                           /\ calls[d].scope \in Scopes /\ calls[d].scope # n
  <2>1. \A d \in Callers : Replaying(d)' => Replaying(d) /\ calls'[d] = calls[d]
    BY <1>4, <1>5 DEF Replaying
  <2>2. QED
    BY <1>3, <2>1, AtWork DEF Replaying, InHand
<1>11. \A d \in Callers : Replaying(d) => Replaying(d)' /\ calls'[d] = calls[d]
  BY <1>1, <1>5 DEF Replaying
<1>12. Lists'
  <2>1. ASSUME NEW s \in Scopes, Unreplayed(s)'
        PROVE  ListTrue(s, scopes[s].disposers)'
    <3>1. CASE s = n
      <4>1. scopes'[s].disposers = <<>>
        BY <1>4, <1>5, <3>1
      <4>2. QED
        BY <1>7, <3>1, <4>1 DEF ListTrue
    <3>2. CASE s # n
      <4>1. Unreplayed(s)
        BY <1>11, <2>1 DEF Unreplayed
      <4>2. ListTrue(s, scopes[s].disposers)
        BY <4>1 DEF Lists, Unreplayed
      <4>3. QED
        BY <1>8, <3>2, <4>2 DEF ListTrue
    <3>3. QED
      BY <3>1, <3>2
  <2>2. ASSUME NEW d \in Callers, Replaying(d)'
        PROVE  ListTrue(calls[d].scope, calls[d].pending)'
    <3>1. ListTrue(calls[d].scope, calls[d].pending)
      BY <1>10, <2>2 DEF Lists
    <3>2. QED
      BY <1>8, <1>10, <2>2, <3>1 DEF ListTrue
  <2>3. QED
    BY <2>1, <2>2 DEF Lists, Unreplayed
<1>13. Extent'
  <2>1. ASSUME NEW d \in Callers, calls'[d].pc = "apply", NEW i \in Registrations(Target(d)')
        PROVE  i < calls'[d].at <=> i \in Positions(scopes'[calls'[d].scope].disposers)
    <3>1. CASE d # c
      <4>1. calls'[d] = calls[d] /\ Target(d)' = Target(d) /\ InHand(d)
        BY <1>5, <2>1, <3>1 DEF Target, InHand
      <4>2. calls[d].scope \in Scopes /\ calls[d].scope # n
        BY <1>3, <4>1, AtWork DEF InHand
      <4>3. QED
        BY <1>8, <2>1, <4>1, <4>2 DEF Extent
    <3>2. CASE d = c
      <4>1. Target(c)' = Target(c)
        BY <1>4, <1>5 DEF Target
      <4>2. i \in Nat /\ i >= 1
        BY <1>2, <2>1, <3>2, <4>1, RegistrationsAre
      <4>3. Positions(scopes'[n].disposers) = {}
        BY <1>3, <1>4, <1>5, RisingEmpty
      <4>4. QED
        BY <1>4, <1>5, <3>2, <4>2, <4>3
    <3>3. QED
      BY <3>1, <3>2
  <2>2. ASSUME NEW p \in Plugins, registry[p] # NoScope
        PROVE  Registrations(p) \subseteq Positions(scopes'[registry[p]].disposers)
    <3>1. registry[p] \in Scopes /\ registry[p] # n
      <4>1. registry[p] \in Scopes /\ registry[p] <= forks
        BY <2>2 DEF IInv, TypeOK, ScopesForked
      <4>2. registry[p] \in Nat /\ n \in Nat
        BY <1>3, <4>1, ScopeTypes
      <4>3. QED
        BY <1>2, <1>3, <4>1, <4>2
    <3>2. QED
      BY <1>8, <2>2, <3>1 DEF Extent
  <2>3. ASSUME NEW s \in Scopes, scopes'[s].disposers # <<>>
        PROVE  \/ registry[scopes'[s].plugin] = s
               \/ \E d \in Callers : calls'[d].pc \in {"apply", "dispose", "panic"} /\ calls'[d].scope = s
    <3>1. s # n /\ scopes'[s] = scopes[s]
      BY <1>4, <1>5, <2>3
    <3>2. \A d \in Callers : calls[d].pc \in {"apply", "dispose", "panic"} => calls'[d] = calls[d]
      BY <1>1, <1>5
    <3>3. \/ registry[scopes[s].plugin] = s
          \/ \E d \in Callers : calls[d].pc \in {"apply", "dispose", "panic"} /\ calls[d].scope = s
      BY <2>3, <3>1 DEF Extent
    <3>4. QED
      BY <3>1, <3>2, <3>3
  <2>4. QED
    BY <1>1, <2>1, <2>2, <2>3 DEF Extent
<1>14. QED
  BY <1>9, <1>12, <1>13

\* Apply's next registration goes to the end of its scope's list.
LEMMA ListGrows ==
  ASSUME KInv, PluginsApart, NEW c \in Callers, calls[c].pc = "apply",
         NEW s, s = calls[c].scope, calls[c].at \in Registrations(Target(c)),
         NEW d \in Disposer, d.at = calls[c].at, d.prev = NoScope, NEW new,
         new.disposers = Append(scopes[s].disposers, d), new.plugin = scopes[s].plugin,
         scopes' = [scopes EXCEPT ![s] = new],
         calls' = [calls EXCEPT ![c].at = @ + 1], registry' = registry,
         Standing(s)' = Standing(s) \cup {calls[c].at},
         \A t \in Scopes : t # s => Standing(t)' = Standing(t)
  PROVE  Lists' /\ Extent'
<1> USE DEF KInv
<1> DEFINE n == calls[c].at + 1
           call == [calls[c] EXCEPT !.at = n]
           p == Target(c)
<1>1. /\ p \in Plugins /\ calls[c] \in Call /\ s \in Scopes /\ InHand(c) /\ ~Replaying(c)
      /\ scopes[s].disposers \in Seq(Disposer) /\ calls \in [Callers -> Call]
      /\ scopes \in [Scopes -> Scope]
  BY AtWork DEF InHand, Replaying, IInv, TypeOK
<1>2. calls' = [calls EXCEPT ![c] = call] /\ calls[c].at \in Nat
  BY <1>1 DEF Call
<1>3. call.pc = "apply" /\ call.at = n /\ call.scope = s /\ call.names = calls[c].names
  BY <1>1 DEF Call
<1>4. n = calls[c].at + 1
  OBVIOUS
<1> HIDE DEF n, call
<1>5. /\ \A e \in Callers : calls'[e] = IF e = c THEN call ELSE calls[e]
      /\ \A t \in Scopes : scopes'[t] = IF t = s THEN new ELSE scopes[t]
  BY <1>1, <1>2
<1>6. Unreplayed(s) /\ scopes[s].plugin = p
  BY <1>1, ListsApart DEF FreeAtWork
<1>7. ListTrue(s, scopes[s].disposers)
  BY <1>1, <1>6 DEF Lists, Unreplayed
<1>8. \A i \in Registrations(p) : i < calls[c].at <=> i \in Positions(scopes[s].disposers)
  BY DEF Extent
<1>9. /\ Rising(p, new.disposers)
      /\ Positions(new.disposers) = Positions(scopes[s].disposers) \cup {calls[c].at}
  BY <1>1, <1>6, <1>7, <1>8, RisingMore DEF ListTrue
<1>10. ListTrue(s, scopes[s].disposers)'
  <2>1. scopes'[s] = new
    BY <1>1, <1>5
  <2>2. QED
    BY <1>6, <1>7, <1>9, <2>1 DEF ListTrue
<1>11. \A e \in Callers : /\ Replaying(e)' <=> Replaying(e)
                          /\ Replaying(e) => /\ calls'[e] = calls[e] /\ calls[e].scope # s
                                             /\ calls[e].scope \in Scopes
  <2>1. \A e \in Callers : /\ Replaying(e)' <=> Replaying(e)
                           /\ Replaying(e) => calls'[e] = calls[e] /\ InHand(e)
    BY <1>1, <1>3, <1>5 DEF Replaying, InHand
  <2>2. QED
    BY <1>6, <2>1, AtWork DEF Unreplayed, InHand
<1>12. Lists'
  <2>1. ASSUME NEW t \in Scopes, Unreplayed(t)'
        PROVE  ListTrue(t, scopes[t].disposers)'
    <3>1. CASE t # s
      <4>1. Unreplayed(t)
        BY <1>11, <2>1 DEF Unreplayed
      <4>2. ListTrue(t, scopes[t].disposers)
        BY <4>1 DEF Lists, Unreplayed
      <4>3. QED
        BY <1>5, <3>1, <4>2 DEF ListTrue
    <3>2. QED
      BY <1>10, <3>1
  <2>2. ASSUME NEW e \in Callers, Replaying(e)'
        PROVE  ListTrue(calls[e].scope, calls[e].pending)'
    <3>1. ListTrue(calls[e].scope, calls[e].pending)
      BY <1>11, <2>2 DEF Lists
    <3>2. QED
      BY <1>5, <1>11, <2>2, <3>1 DEF ListTrue
  <2>3. QED
    BY <2>1, <2>2 DEF Lists, Unreplayed
<1>13. Extent'
  <2>1. ASSUME NEW e \in Callers, calls'[e].pc = "apply", NEW i \in Registrations(Target(e)')
        PROVE  i < calls'[e].at <=> i \in Positions(scopes'[calls'[e].scope].disposers)
    <3>1. CASE e # c
      <4>1. calls'[e] = calls[e] /\ Target(e)' = Target(e) /\ InHand(e)
        BY <1>5, <2>1, <3>1 DEF Target, InHand
      <4>2. calls[e].scope \in Scopes /\ calls[e].scope # s
        <5>1. calls[e].scope # calls[c].scope
          BY <1>1, <3>1, <4>1 DEF IInv, ScopesOwned
        <5>2. QED
          BY <4>1, <5>1, AtWork DEF InHand
      <4>3. QED
        BY <1>5, <2>1, <4>1, <4>2 DEF Extent
    <3>2. CASE e = c
      <4>1. Target(c)' = p
        BY <1>3, <1>5 DEF Target
      <4>2. i \in Registrations(p) /\ i \in Nat
        BY <1>1, <2>1, <3>2, <4>1, RegistrationsAre
      <4>3. i < n <=> i < calls[c].at \/ i = calls[c].at
        BY <1>2, <1>4, <4>2
      <4>4. i \in Positions(new.disposers) <=> i < calls[c].at \/ i = calls[c].at
        BY <1>8, <1>9, <4>2
      <4>5. QED
        BY <1>1, <1>3, <1>5, <3>2, <4>3, <4>4
    <3>3. QED
      BY <3>1, <3>2
  <2>2. ASSUME NEW q \in Plugins, registry[q] # NoScope
        PROVE  Registrations(q) \subseteq Positions(scopes'[registry[q]].disposers)
    <3>1. registry[q] \in Scopes /\ registry[q] # s
      BY <1>1, <2>2 DEF IInv, TypeOK, ScopesOwned
    <3>2. QED
      BY <1>5, <2>2, <3>1 DEF Extent
  <2>3. ASSUME NEW t \in Scopes, scopes'[t].disposers # <<>>
        PROVE  \/ registry[scopes'[t].plugin] = t
               \/ \E e \in Callers : calls'[e].pc \in {"apply", "dispose", "panic"} /\ calls'[e].scope = t
    <3>1. CASE t = s
      BY <1>3, <1>5, <3>1
    <3>2. CASE t # s
      <4>1. scopes'[t] = scopes[t]
        BY <1>5, <3>2
      <4>2. \A e \in Callers : calls'[e].pc = calls[e].pc /\ calls'[e].scope = calls[e].scope
        BY <1>3, <1>5
      <4>3. \/ registry[scopes[t].plugin] = t
            \/ \E e \in Callers : calls[e].pc \in {"apply", "dispose", "panic"} /\ calls[e].scope = t
        BY <2>3, <4>1 DEF Extent
      <4>4. QED
        BY <4>1, <4>2, <4>3
    <3>3. QED
      BY <3>1, <3>2
  <2>4. QED
    BY <2>1, <2>2, <2>3 DEF Extent
<1>14. QED
  BY <1>12, <1>13

\* Apply is at an item of its plugin's script, a registration if it is no lookup.
LEMMA ApplyAt ==
  ASSUME IInv, NEW c \in Callers, calls[c].pc = "apply", calls[c].at <= Len(Script[Target(c)])
  PROVE  /\ Target(c) \in Plugins /\ calls[c].at \in Nat
         /\ calls[c].at \in DOMAIN Script[Target(c)] /\ Item(c) = Script[Target(c)][calls[c].at]
         /\ Item(c).key \in Keys
         /\ Item(c).kind # "use" => calls[c].at \in Registrations(Target(c))
         /\ InHand(c) /\ calls[c].scope \in Scopes
<1>1. /\ Target(c) \in Plugins /\ calls[c] \in Call /\ InHand(c) /\ calls[c].scope \in Scopes
      /\ calls[c].at >= 1
  BY AtWork DEF InHand, IInv, CallsWellFormed
<1>2. calls[c].at \in Nat
  BY <1>1 DEF Call
<1>3. DOMAIN Script[Target(c)] = 1 .. Len(Script[Target(c)]) /\ Len(Script[Target(c)]) \in Nat
  BY <1>1, RegistrationsAre
<1>4. calls[c].at \in 1 .. Len(Script[Target(c)])
  BY <1>1, <1>2, <1>3
<1>5. QED
  BY <1>1, <1>2, <1>3, <1>4, RegistrationsAre DEF Item, Registrations

\* On and Effect add what they register to the end of the scope's list.
LEMMA RegisterItemKeeps ==
  ASSUME KInv, PluginsApart, NEW c \in Callers, ApplyRegister(c)
  PROVE  Lists' /\ Extent' /\ Provided'
<1> USE DEF KInv
<1>1. /\ calls[c].pc = "apply" /\ Item(c).kind \in {"on", "effect"}
      /\ Target(c) \in Plugins /\ calls[c].at \in Nat
      /\ calls[c].at \in Registrations(Target(c)) /\ calls[c].scope \in Scopes
  BY ApplyAt DEF ApplyRegister
<1>2. PICK s \in Scopes : s = calls[c].scope
  BY <1>1
<1>3. PICK n \in Nat : n = calls[c].at
  BY <1>1
<1> DEFINE d == [at |-> n, prev |-> NoScope]
           l == Append(scopes[s].disposers, d)
           new == [scopes[s] EXCEPT !.disposers = l]
<1>4. d \in Disposer /\ d.at = n /\ d.prev = NoScope
  BY DEF Disposer
<1>5. /\ scopes' = [scopes EXCEPT ![s] = new] /\ inForce' = [inForce EXCEPT ![s] = @ \cup {n}]
      /\ calls' = [calls EXCEPT ![c].at = @ + 1] /\ registry' = registry
      /\ services' = services /\ forks' = forks
  BY <1>2, <1>3 DEF ApplyRegister, Recorded
<1> HIDE DEF l
<1>6. new.disposers = l /\ new.plugin = scopes[s].plugin /\ new.local = scopes[s].local
  BY ScopeTypes DEF Scope
<1>7. l = Append(scopes[s].disposers, d)
  BY DEF l
<1> HIDE DEF d, new
<1>8. /\ \A t \in Scopes : scopes'[t] = IF t = s THEN new ELSE scopes[t]
      /\ \A t \in Scopes : inForce'[t] = IF t = s THEN inForce[s] \cup {n} ELSE inForce[t]
  BY <1>5 DEF IInv, TypeOK
<1>9. \A t \in Scopes : scopes'[t].plugin = scopes[t].plugin /\ scopes'[t].local = {}
  BY <1>6, <1>8 DEF Provided
<1>10. Provided'
  BY <1>5, <1>9, ServiceStands DEF Provided
<1>11. \A t \in Scopes : t # s => Standing(t)' = Standing(t)
  BY <1>5, <1>8, <1>9, ScopeTypes, StandingSame DEF Provided
<1>12. Standing(s)' = Standing(s) \cup {n}
  <2>1. scopes'[s].plugin = scopes[s].plugin /\ scopes'[s].local = scopes[s].local
        /\ inForce'[s] = inForce[s] \cup {n} /\ services' = services
    BY <1>5, <1>8, <1>9 DEF Provided
  <2>2. QED
    BY <2>1 DEF Standing
<1>13. Lists' /\ Extent'
  BY <1>1, <1>2, <1>3, <1>4, <1>5, <1>6, <1>7, <1>11, <1>12, ListGrows
<1>14. QED
  BY <1>10, <1>13

\* Provide adds its service there too: nobody else had put one under the key.
LEMMA ProvideKeeps ==
  ASSUME KInv, PluginsApart, ProvidedOnce, IsolatesOnlyListen, NEW c \in Callers, ApplyProvide(c)
  PROVE  Lists' /\ Extent' /\ Provided'
<1> USE DEF KInv
<1>1. /\ calls[c].pc = "apply" /\ Item(c).kind = "provide" /\ Item(c).key \in Keys
      /\ Item(c) = Script[Target(c)][calls[c].at] /\ calls[c].at \in DOMAIN Script[Target(c)]
      /\ Target(c) \in Plugins /\ calls[c].at \in Nat /\ InHand(c)
      /\ calls[c].at \in Registrations(Target(c)) /\ calls[c].scope \in Scopes
  BY ApplyAt DEF ApplyProvide
<1>2. scopes[calls[c].scope].parent \notin Isolates
  BY <1>1, NotIsolated DEF ApplyProvide
<1>f. services[Item(c).key] = NoScope
  BY KeyFree
<1>s. PICK s \in Scopes : s = calls[c].scope
  BY <1>1
<1>3. PICK n \in Nat : n = calls[c].at
  BY <1>1
<1>k. PICK k \in Keys : k = Item(c).key
  BY <1>1
<1>p. PICK p \in Plugins : p = Target(c)
  BY <1>1
<1>q. scopes[s].plugin = p
  BY <1>1, <1>s, <1>p DEF FreeAtWork
<1> DEFINE d == [at |-> n, prev |-> NoScope]
           l == Append(scopes[s].disposers, d)
           new == [scopes[s] EXCEPT !.disposers = l]
<1>4. d \in Disposer /\ d.at = n /\ d.prev = NoScope
  BY DEF Disposer
<1>5. /\ scopes' = [scopes EXCEPT ![s] = new] /\ services' = [services EXCEPT ![k] = s]
      /\ calls' = [calls EXCEPT ![c].at = @ + 1] /\ registry' = registry
      /\ inForce' = inForce /\ forks' = forks
  BY <1>2, <1>s, <1>3, <1>k, <1>f DEF ApplyProvide, Recorded
<1> HIDE DEF l
<1>6. new.disposers = l /\ new.plugin = scopes[s].plugin /\ new.local = scopes[s].local
  BY ScopeTypes DEF Scope
<1>7. l = Append(scopes[s].disposers, d)
  BY DEF l
<1> HIDE DEF d, new
<1>8. /\ \A t \in Scopes : scopes'[t] = IF t = s THEN new ELSE scopes[t]
      /\ \A j \in Keys : services'[j] = IF j = k THEN s ELSE services[j]
      /\ services[k] = NoScope
  BY <1>5, <1>f, <1>k DEF IInv, TypeOK
<1>9. \A t \in Scopes : scopes'[t].plugin = scopes[t].plugin /\ scopes'[t].local = {}
  BY <1>6, <1>8 DEF Provided
<1>10. Provided'
  <2>1. ASSUME NEW j \in Keys, services'[j] # NoScope
        PROVE  \E i \in DOMAIN Script[scopes'[services'[j]].plugin] :
                  /\ Script[scopes'[services'[j]].plugin][i].kind = "provide"
                  /\ Script[scopes'[services'[j]].plugin][i].key = j
    <3>1. CASE j = k
      <4>1. services'[j] = s /\ scopes'[s].plugin = p
        BY <1>8, <1>9, <1>q, <3>1
      <4>2. QED
        BY <1>1, <1>k, <1>p, <3>1, <4>1
    <3>2. CASE j # k
      <4>1. services'[j] = services[j] /\ services[j] \in Scopes
        BY <1>8, <2>1, <3>2, ServiceStands
      <4>2. scopes'[services[j]].plugin = scopes[services[j]].plugin
        BY <1>9, <4>1
      <4>3. \E i \in DOMAIN Script[scopes[services[j]].plugin] :
                  /\ Script[scopes[services[j]].plugin][i].kind = "provide"
                  /\ Script[scopes[services[j]].plugin][i].key = j
        BY <2>1, <4>1 DEF Provided
      <4>4. QED
        BY <4>1, <4>2, <4>3
    <3>3. QED
      BY <3>1, <3>2
  <2>2. QED
    BY <1>9, <2>1 DEF Provided
<1>11. ASSUME NEW t \in Scopes, t # s PROVE Standing(t)' = Standing(t)
  <2>1. NoScope # t
    BY ScopeTypes
  <2>2. \A j \in Keys : services'[j] = t <=> services[j] = t
    BY <1>8, <1>11, <2>1
  <2>3. QED
    BY <1>5, <1>9, <2>2, ScopeTypes, StandingSame DEF Provided
<1>12. Standing(s)' = Standing(s) \cup {n}
  <2>1. /\ scopes'[s].plugin = p /\ scopes[s].local = {} /\ scopes'[s].local = {}
        /\ inForce'[s] = inForce[s]
    BY <1>5, <1>9, <1>q DEF Provided
  <2>2. \A i \in DOMAIN Script[p] : Script[p][i].key \in Keys
    BY RegistrationsAre
  <2>3. n \in DOMAIN Script[p] /\ Script[p][n].kind = "provide" /\ Script[p][n].key = k
    BY <1>1, <1>3, <1>k, <1>p
  <2>4. \A i \in DOMAIN Script[p] : Script[p][i].kind = "provide" /\ Script[p][i].key = k => i = n
    BY <2>3 DEF ProvidedOnce
  <2>5. s # NoScope
    BY ScopeTypes
  <2>6. \A i \in DOMAIN Script[p] : Script[p][i].kind = "provide" =>
            (services'[Script[p][i].key] = s <=> services[Script[p][i].key] = s \/ i = n)
    BY <1>8, <2>2, <2>3, <2>4, <2>5
  <2>7. QED
    BY <1>q, <2>1, <2>3, <2>6 DEF Standing
<1>13. Lists' /\ Extent'
  BY <1>1, <1>s, <1>3, <1>4, <1>5, <1>6, <1>7, <1>11, <1>12, ListGrows
<1>14. QED
  BY <1>10, <1>13

-----------------------------------------------------------------------------
\* Dispose hands the scope's list to the goroutine that replays it.
LEMMA DisposingKeeps ==
  ASSUME KInv, PluginsApart, NEW c \in Callers, ApplyFails(c) \/ Dispose(c)
  PROVE  Lists' /\ Extent' /\ Provided'
<1> USE DEF KInv
<1>1. /\ calls[c].pc \in {"apply", "dispose"} /\ InHand(c) /\ ~Replaying(c)
      /\ calls[c] \in Call /\ calls \in [Callers -> Call] /\ scopes \in [Scopes -> Scope]
      /\ calls[c].scope \in Scopes
  BY AtWork DEF ApplyFails, Dispose, InHand, Replaying, IInv, TypeOK
<1>2. PICK pc \in {"rollback", "replay"} : Disposing(c, pc, calls[c].scope)
  BY DEF ApplyFails, Dispose
<1>3. PICK s \in Scopes : s = calls[c].scope
  BY <1>1
<1>4. PICK l : l = scopes[s].disposers
  OBVIOUS
<1> DEFINE new == [scopes[s] EXCEPT !.disposed = TRUE, !.disposers = <<>>]
           call == [calls[c] EXCEPT !.pc = pc, !.scope = s, !.pending = l]
<1>5. /\ scopes' = [scopes EXCEPT ![s] = new] /\ calls' = [calls EXCEPT ![c] = call]
      /\ UNCHANGED <<registry, services, inForce>>
  BY <1>2, <1>3, <1>4 DEF ApplyFails, Dispose, Disposing, Taken
<1>6. /\ new.disposers = <<>> /\ new.plugin = scopes[s].plugin /\ new.local = scopes[s].local
      /\ call.pc = pc /\ call.scope = s /\ call.pending = l
  BY <1>1 DEF Scope, Call
<1> HIDE DEF new, call
<1>7. /\ \A d \in Callers : calls'[d] = IF d = c THEN call ELSE calls[d]
      /\ \A t \in Scopes : scopes'[t] = IF t = s THEN new ELSE scopes[t]
  BY <1>1, <1>5
<1>8. \A t \in Scopes : scopes'[t].plugin = scopes[t].plugin /\ scopes'[t].local = scopes[t].local
  BY <1>6, <1>7
<1>9. \A t \in Scopes : Standing(t)' = Standing(t)
  BY <1>5, <1>8 DEF Standing
<1>10. Provided'
  BY <1>5, <1>8, ServiceStands DEF Provided
<1>11. Unreplayed(s) /\ ListTrue(s, l)
  BY <1>1, <1>3, <1>4, ListsApart DEF Lists, Unreplayed
<1>12. Replaying(c)' /\ calls'[c].scope = s /\ calls'[c].pending = l
  BY <1>6, <1>7 DEF Replaying
<1>13. \A d \in Callers : d # c => /\ calls'[d] = calls[d] /\ (Replaying(d)' <=> Replaying(d))
                                   /\ InHand(d) => calls[d].scope # s /\ calls[d].scope \in Scopes
  <2>1. \A d \in Callers : d # c => calls'[d] = calls[d] /\ (Replaying(d)' <=> Replaying(d))
    BY <1>7 DEF Replaying
  <2>2. \A d \in Callers : d # c /\ InHand(d) => calls[d].scope # s
    BY <1>1, <1>3 DEF IInv, ScopesOwned
  <2>3. QED
    BY <2>1, <2>2, AtWork DEF InHand
<1>14. Lists'
  <2>1. ASSUME NEW t \in Scopes, Unreplayed(t)'
        PROVE  ListTrue(t, scopes[t].disposers)'
    <3>1. t # s /\ scopes'[t] = scopes[t]
      BY <1>7, <1>12, <2>1 DEF Unreplayed
    <3>2. Unreplayed(t)
      BY <1>1, <1>13, <2>1 DEF Unreplayed
    <3>3. ListTrue(t, scopes[t].disposers)
      BY <3>2 DEF Lists, Unreplayed
    <3>4. QED
      BY <1>9, <3>1, <3>3 DEF ListTrue
  <2>2. ASSUME NEW d \in Callers, Replaying(d)'
        PROVE  ListTrue(calls[d].scope, calls[d].pending)'
    <3>1. CASE d = c
      BY <1>8, <1>9, <1>11, <1>12, <3>1 DEF ListTrue
    <3>2. CASE d # c
      <4>1. ListTrue(calls[d].scope, calls[d].pending) /\ calls[d].scope \in Scopes
        BY <1>13, <2>2, <3>2 DEF Lists, Replaying, InHand
      <4>2. QED
        BY <1>8, <1>9, <1>13, <3>2, <4>1 DEF ListTrue
    <3>3. QED
      BY <3>1, <3>2
  <2>3. QED
    BY <2>1, <2>2 DEF Lists, Unreplayed
<1>15. Extent'
  <2>1. ASSUME NEW d \in Callers, calls'[d].pc = "apply", NEW i \in Registrations(Target(d)')
        PROVE  i < calls'[d].at <=> i \in Positions(scopes'[calls'[d].scope].disposers)
    <3>1. d # c
      BY <1>12, <2>1 DEF Replaying
    <3>2. calls'[d] = calls[d] /\ Target(d)' = Target(d) /\ InHand(d)
      BY <1>13, <2>1, <3>1 DEF Target, InHand
    <3>3. calls[d].scope \in Scopes /\ calls[d].scope # s
      BY <1>13, <3>1, <3>2
    <3>4. QED
      BY <1>7, <2>1, <3>2, <3>3 DEF Extent
  <2>2. ASSUME NEW q \in Plugins, registry[q] # NoScope
        PROVE  Registrations(q) \subseteq Positions(scopes'[registry[q]].disposers)
    <3>1. registry[q] \in Scopes /\ registry[q] # s
      BY <1>1, <1>3, <2>2 DEF IInv, TypeOK, ScopesOwned
    <3>2. QED
      BY <1>7, <2>2, <3>1 DEF Extent
  <2>3. ASSUME NEW t \in Scopes, scopes'[t].disposers # <<>>
        PROVE  \/ registry[scopes'[t].plugin] = t
               \/ \E e \in Callers : calls'[e].pc \in {"apply", "dispose", "panic"} /\ calls'[e].scope = t
    <3>1. t # s /\ scopes'[t] = scopes[t]
      BY <1>6, <1>7, <2>3
    <3>2. \A e \in Callers : calls[e].scope = t => e # c /\ calls'[e] = calls[e]
      BY <1>3, <1>13, <3>1
    <3>3. \/ registry[scopes[t].plugin] = t
          \/ \E e \in Callers : calls[e].pc \in {"apply", "dispose", "panic"} /\ calls[e].scope = t
      BY <2>3, <3>1 DEF Extent
    <3>4. QED
      BY <3>1, <3>2, <3>3
  <2>4. QED
    BY <1>5, <2>1, <2>2, <2>3 DEF Extent
<1>16. QED
  BY <1>10, <1>14, <1>15

\* When Load enters a plugin its whole script is on the scope's list.
LEMMA RegisterKeeps ==
  ASSUME KInv, PluginsApart, NEW c \in Callers, Register(c)
  PROVE  Lists' /\ Extent' /\ Provided'
<1> USE DEF KInv
<1>1. /\ calls[c].pc = "apply" /\ InHand(c) /\ ~Replaying(c) /\ calls[c].at > Len(Script[Target(c)])
      /\ calls[c] \in Call /\ calls \in [Callers -> Call] /\ calls[c].names # <<>>
      /\ calls[c].scope \in Scopes /\ Target(c) \in Plugins /\ calls[c].at \in Nat
      /\ registry \in [Plugins -> Scopes \cup {NoScope}]
  <2>1. calls[c].pc = "apply" /\ calls[c].at > Len(Script[Target(c)])
    BY DEF Register, Applied
  <2>2. QED
    BY <2>1, AtWork DEF InHand, Replaying, IInv, TypeOK, Call
<1>2. PICK s \in Scopes : s = calls[c].scope
  BY <1>1
<1>3. PICK p \in Plugins : p = Target(c)
  BY <1>1
<1>4. registry[p] = NoScope /\ scopes[s].plugin = p
  BY <1>1, <1>2, <1>3 DEF FreeAtWork
<1>5. /\ registry' = [registry EXCEPT ![p] = s] /\ calls'[c] = AfterLoad(calls[c], TRUE)
      /\ UNCHANGED <<services, inForce, scopes>>
      /\ \A d \in Callers : d # c => calls'[d] = calls[d]
  BY <1>1, <1>2, <1>3 DEF Register
<1>6. calls'[c].pc \in {"idle", "check"}
  BY <1>1, <1>5, AfterLoadType
<1>7. \A t \in Scopes : Standing(t)' = Standing(t)
  BY <1>5 DEF Standing
<1>8. Provided'
  BY <1>5 DEF Provided
<1>9. \A d \in Callers : /\ Replaying(d)' <=> Replaying(d)
                         /\ Replaying(d) => calls'[d] = calls[d] /\ calls[d].scope \in Scopes
  <2>1. \A d \in Callers : /\ Replaying(d)' <=> Replaying(d)
                           /\ Replaying(d) => calls'[d] = calls[d]
    BY <1>1, <1>5, <1>6 DEF Replaying
  <2>2. QED
    BY <2>1, AtWork DEF Replaying, InHand
<1>10. Lists'
  BY <1>5, <1>7, <1>9 DEF Lists, ListTrue
<1>11. Registrations(p) \subseteq Positions(scopes[s].disposers)
  <2>1. \A i \in Registrations(p) : i < calls[c].at
    BY <1>1, <1>3, RegistrationsAre
  <2>2. QED
    BY <1>1, <1>2, <1>3, <2>1 DEF Extent
<1>12. Extent'
  <2>1. ASSUME NEW d \in Callers, calls'[d].pc = "apply", NEW i \in Registrations(Target(d)')
        PROVE  i < calls'[d].at <=> i \in Positions(scopes'[calls'[d].scope].disposers)
    <3>1. calls'[d] = calls[d] /\ Target(d)' = Target(d)
      BY <1>5, <1>6, <2>1 DEF Target
    <3>2. QED
      BY <1>5, <2>1, <3>1 DEF Extent
  <2>2. ASSUME NEW q \in Plugins, registry'[q] # NoScope
        PROVE  Registrations(q) \subseteq Positions(scopes[registry'[q]].disposers)
    <3>1. registry'[q] = IF q = p THEN s ELSE registry[q]
      BY <1>1, <1>5
    <3>2. QED
      BY <1>11, <2>2, <3>1 DEF Extent
  <2>3. ASSUME NEW t \in Scopes, scopes[t].disposers # <<>>
        PROVE  \/ registry'[scopes[t].plugin] = t
               \/ \E e \in Callers : calls'[e].pc \in {"apply", "dispose", "panic"} /\ calls'[e].scope = t
    <3>1. scopes[t].plugin \in Plugins /\ t # NoScope
      BY ScopeTypes
    <3>2. CASE registry[scopes[t].plugin] = t
      BY <1>1, <1>4, <1>5, <3>1, <3>2
    <3>3. ASSUME NEW e \in Callers, calls[e].pc \in {"apply", "dispose", "panic"}, calls[e].scope = t
          PROVE  \/ registry'[scopes[t].plugin] = t
                 \/ calls'[e].pc \in {"apply", "dispose", "panic"} /\ calls'[e].scope = t
      BY <1>1, <1>2, <1>4, <1>5, <3>1, <3>3
    <3>4. QED
      BY <2>3, <3>2, <3>3 DEF Extent
  <2>4. QED
    BY <1>5, <2>1, <2>2, <2>3 DEF Extent
<1>13. QED
  BY <1>8, <1>10, <1>12

\* Unload takes the entry out and has the scope in hand.
LEMMA DeleteKeeps ==
  ASSUME KInv, PluginsApart, NEW c \in Callers, Delete(c), registry[Target(c)] # NoScope
  PROVE  Lists' /\ Extent' /\ Provided'
<1> USE DEF KInv
<1>1. /\ calls[c].pc = "delete" /\ calls[c] \in Call /\ calls \in [Callers -> Call]
      /\ Target(c) \in Plugins /\ registry \in [Plugins -> Scopes \cup {NoScope}]
  <2>1. calls[c].pc = "delete"
    BY DEF Delete
  <2>2. QED
    BY <2>1, AtWork DEF IInv, TypeOK
<1>2. PICK p \in Plugins : p = Target(c)
  BY <1>1
<1>3. PICK s : s = registry[p]
  OBVIOUS
<1> DEFINE call == [calls[c] EXCEPT !.pc = "dispose", !.scope = s]
<1>5. /\ registry' = [registry EXCEPT ![p] = NoScope] /\ calls' = [calls EXCEPT ![c] = call]
      /\ UNCHANGED <<services, inForce, scopes>>
  BY <1>1, <1>2, <1>3 DEF Delete, Deleted
<1>6. call.pc = "dispose" /\ call.scope = s
  BY <1>1 DEF Call
<1> HIDE DEF call
<1>7. \A d \in Callers : calls'[d] = IF d = c THEN call ELSE calls[d]
  BY <1>1, <1>5
<1>8. \A t \in Scopes : Standing(t)' = Standing(t)
  BY <1>5 DEF Standing
<1>9. Provided'
  BY <1>5 DEF Provided
<1>10. \A d \in Callers : /\ Replaying(d)' <=> Replaying(d)
                          /\ Replaying(d) => calls'[d] = calls[d] /\ calls[d].scope \in Scopes
  <2>1. \A d \in Callers : /\ Replaying(d)' <=> Replaying(d)
                           /\ Replaying(d) => calls'[d] = calls[d]
    BY <1>1, <1>6, <1>7 DEF Replaying
  <2>2. QED
    BY <2>1, AtWork DEF Replaying, InHand
<1>11. Lists'
  BY <1>5, <1>8, <1>10 DEF Lists, ListTrue
<1>12. Extent'
  <2>1. ASSUME NEW d \in Callers, calls'[d].pc = "apply", NEW i \in Registrations(Target(d)')
        PROVE  i < calls'[d].at <=> i \in Positions(scopes'[calls'[d].scope].disposers)
    <3>1. calls'[d] = calls[d] /\ Target(d)' = Target(d)
      BY <1>6, <1>7, <2>1 DEF Target
    <3>2. QED
      BY <1>5, <2>1, <3>1 DEF Extent
  <2>2. ASSUME NEW q \in Plugins, registry'[q] # NoScope
        PROVE  Registrations(q) \subseteq Positions(scopes[registry'[q]].disposers)
    <3>1. registry'[q] = IF q = p THEN NoScope ELSE registry[q]
      BY <1>1, <1>5
    <3>2. QED
      BY <2>2, <3>1 DEF Extent
  <2>3. ASSUME NEW t \in Scopes, scopes[t].disposers # <<>>
        PROVE  \/ registry'[scopes[t].plugin] = t
               \/ \E e \in Callers : calls'[e].pc \in {"apply", "dispose", "panic"} /\ calls'[e].scope = t
    <3>1. scopes[t].plugin \in Plugins
      BY ScopeTypes
    <3>2. CASE registry[scopes[t].plugin] = t
      <4>1. CASE scopes[t].plugin = p
        BY <1>3, <1>6, <1>7, <3>2, <4>1
      <4>2. CASE scopes[t].plugin # p
        BY <1>1, <1>5, <3>1, <3>2, <4>2
      <4>3. QED
        BY <4>1, <4>2
    <3>3. ASSUME NEW e \in Callers, calls[e].pc \in {"apply", "dispose", "panic"}, calls[e].scope = t
          PROVE  calls'[e].pc \in {"apply", "dispose", "panic"} /\ calls'[e].scope = t
      BY <1>1, <1>7, <3>3
    <3>4. QED
      BY <2>3, <3>2, <3>3 DEF Extent
  <2>4. QED
    BY <1>5, <2>1, <2>2, <2>3 DEF Extent
<1>13. QED
  BY <1>9, <1>11, <1>12

\* A disposer of s taken back: the registration at n, which leaves rest of its list.
Takes(c, s, p, n, rest) ==
    /\ s = calls[c].scope /\ p = scopes[s].plugin /\ n \in Standing(s)
    /\ ListTrue(s, calls[c].pending)
    /\ Rising(p, rest) /\ Positions(rest) = Positions(calls[c].pending) \ {n}
    /\ calls'[c].pending = rest /\ calls'[c].scope = s /\ calls'[c].pc = calls[c].pc
    /\ \/ /\ Script[p][n].kind = "provide" /\ inForce' = inForce
          /\ services[Script[p][n].key] = s
          /\ services' = [services EXCEPT ![Script[p][n].key] = NoScope]
       \/ /\ Script[p][n].kind # "provide" /\ services' = services
          /\ inForce' = [inForce EXCEPT ![s] = @ \ {n}]

\* The disposer Replay runs is the last of what stands of its scope, and what it takes back
\* is there: a service is still the one the scope provided, and there was none before it.
LEMMA ReplayTakes ==
  ASSUME KInv, PluginsApart, NEW c \in Callers, Replay(c)
  PROVE  /\ Replaying(c)
         /\ \E s \in Scopes, p \in Plugins :
               \E n \in Registrations(p) : \E rest : Takes(c, s, p, n, rest)
<1> USE DEF KInv
<1>1. /\ Replaying(c) /\ InHand(c) /\ calls[c].pending # <<>> /\ calls[c] \in Call
      /\ calls[c].pending \in Seq(Disposer) /\ calls[c].scope \in Scopes
      /\ calls \in [Callers -> Call]
  BY AtWork DEF Replay, Replaying, InHand, IInv, TypeOK
<1>2. PICK s \in Scopes : s = calls[c].scope
  BY <1>1
<1>3. PICK p \in Plugins : p = scopes[s].plugin
  BY ScopeTypes
<1>4. PICK list \in Seq(Disposer) : list = calls[c].pending
  BY <1>1
<1>5. ListTrue(s, list) /\ Rising(p, list) /\ list # <<>>
  BY <1>1, <1>2, <1>3, <1>4 DEF Lists, ListTrue
<1>6. PICK rest : rest = Without(list, Len(list))
  OBVIOUS
<1>7. /\ Len(list) \in DOMAIN list /\ Rising(p, rest)
      /\ Positions(rest) = Positions(list) \ {list[Len(list)].at}
  BY <1>5, <1>6, RisingLess
<1>8. PICK d : d = list[Len(list)]
  OBVIOUS
<1>9. d.at \in Registrations(p) /\ d.prev = NoScope /\ d.at \in Positions(list)
  BY <1>5, <1>7, <1>8 DEF Rising, Positions
<1>10. PICK n \in Registrations(p) : n = d.at
  BY <1>9
<1>11. n \in Standing(s)
  BY <1>5, <1>9, <1>10 DEF ListTrue
<1>12. IF Script[p][n].kind = "provide"
       THEN /\ services' = [services EXCEPT ![Script[p][n].key] = NoScope]
            /\ UNCHANGED inForce
       ELSE /\ inForce' = [inForce EXCEPT ![s] = @ \ {n}]
            /\ UNCHANGED services
  BY <1>2, <1>3, <1>4, <1>8, <1>9, <1>10 DEF Replay, LastOf
<1>13. ASSUME Script[p][n].kind = "provide"
       PROVE  services[Script[p][n].key] = s
  <2>1. scopes[s].local = {}
    BY DEF Provided
  <2>2. n \notin inForce[s]
    BY <1>3, <1>13 DEF IInv, ScopesForked
  <2>3. QED
    BY <1>3, <1>11, <2>1, <2>2 DEF Standing
<1>14. calls'[c].pending = rest /\ calls'[c].scope = s /\ calls'[c].pc = calls[c].pc
  <2>1. PICK err \in BOOLEAN :
          calls' = [calls EXCEPT ![c].pending = rest, ![c].failed = @ \/ err]
    BY <1>4, <1>6 DEF Replay, LastOf
  <2>2. PICK f : f = (calls[c].failed \/ err)
    OBVIOUS
  <2>3. calls'[c] = [calls[c] EXCEPT !.pending = rest, !.failed = f]
    BY <1>1, <2>1, <2>2
  <2>4. QED
    BY <1>1, <1>2, <2>3 DEF Call
<1>15. /\ s = calls[c].scope /\ p = scopes[s].plugin
       /\ n \in Standing(s) /\ ListTrue(s, calls[c].pending)
       /\ Rising(p, rest) /\ Positions(rest) = Positions(calls[c].pending) \ {n}
  BY <1>1, <1>2, <1>3, <1>4, <1>5, <1>7, <1>8, <1>10, <1>11
<1>16. \/ /\ Script[p][n].kind = "provide" /\ inForce' = inForce
          /\ services[Script[p][n].key] = s
          /\ services' = [services EXCEPT ![Script[p][n].key] = NoScope]
       \/ /\ Script[p][n].kind # "provide" /\ services' = services
          /\ inForce' = [inForce EXCEPT ![s] = @ \ {n}]
  BY <1>12, <1>13
<1>17. Takes(c, s, p, n, rest)
  BY <1>14, <1>15, <1>16 DEF Takes
<1>18. QED
  BY <1>1, <1>17

\* One disposer run: what stands of the scope is what is left of the list.
LEMMA ReplayKeeps ==
  ASSUME KInv, PluginsApart, ProvidedOnce, NEW c \in Callers, Replay(c)
  PROVE  Lists' /\ Extent' /\ Provided'
<1> USE DEF KInv
<1>p. PICK s \in Scopes, p \in Plugins :
        \E n \in Registrations(p) : \E rest : Takes(c, s, p, n, rest)
  BY ReplayTakes
<1>n. PICK n \in Registrations(p) : \E rest : Takes(c, s, p, n, rest)
  BY <1>p
<1>t. PICK rest : Takes(c, s, p, n, rest)
  BY <1>n
<1>1. /\ s = calls[c].scope /\ p = scopes[s].plugin /\ Replaying(c)
      /\ calls'[c].pending = rest /\ calls'[c].scope = s /\ calls'[c].pc = calls[c].pc
  BY <1>t, ReplayTakes DEF Takes
<1>a. ListTrue(s, calls[c].pending) /\ Rising(p, rest)
      /\ Positions(rest) = Positions(calls[c].pending) \ {n}
  BY <1>t DEF Takes
<1>b. \/ /\ Script[p][n].kind = "provide" /\ inForce' = inForce
         /\ services[Script[p][n].key] = s
         /\ services' = [services EXCEPT ![Script[p][n].key] = NoScope]
      \/ /\ Script[p][n].kind # "provide" /\ services' = services
         /\ inForce' = [inForce EXCEPT ![s] = @ \ {n}]
  BY <1>t DEF Takes
<1>2. /\ UNCHANGED <<registry, scopes>> /\ NoScope \notin Scopes
      /\ \A d \in Callers : d # c => calls'[d] = calls[d]
      /\ services \in [Keys -> Scopes \cup {NoScope}] /\ inForce \in [Scopes -> SUBSET Nat]
  <2>1. Step(c) /\ UNCHANGED <<registry, scopes>>
    BY DEF Step, Replay
  <2>2. QED
    BY <2>1, OthersKept, ScopeTypes DEF IInv, TypeOK
<1>3. \A t \in Scopes : scopes[t].local = {} /\ scopes[t].plugin \in Plugins
  BY ScopeTypes DEF Provided
<1>4. n \in DOMAIN Script[p] /\ \A i \in DOMAIN Script[p] : Script[p][i].key \in Keys
  BY RegistrationsAre DEF Registrations
<1>5. ASSUME NEW t \in Scopes, t # s PROVE Standing(t)' = Standing(t)
  <2>1. inForce'[t] = inForce[t]
    BY <1>b, <1>2, <1>5
  <2>2. \A k \in Keys : services'[k] = t <=> services[k] = t
    BY <1>b, <1>2, <1>4, <1>5
  <2>3. QED
    BY <1>2, <1>3, <2>1, <2>2, StandingSame
<1>6. Standing(s)' = Standing(s) \ {n}
  <2>1. CASE Script[p][n].kind = "provide"
    <3>1. n \notin inForce[s]
      BY <1>1, <2>1 DEF IInv, ScopesForked
    <3>2. \A i \in DOMAIN Script[p] :
             Script[p][i].kind = "provide" /\ Script[p][i].key = Script[p][n].key => i = n
      BY <1>4, <2>1 DEF ProvidedOnce
    <3>3. \A i \in DOMAIN Script[p] : Script[p][i].kind = "provide" =>
             (services'[Script[p][i].key] = s <=> services[Script[p][i].key] = s /\ i # n)
      BY <1>b, <1>2, <1>4, <2>1, <3>2
    <3>4. inForce'[s] = inForce[s] /\ scopes' = scopes
      BY <1>b, <1>2, <2>1
    <3>5. QED
      BY <1>1, <1>3, <3>1, <3>3, <3>4 DEF Standing
  <2>2. CASE Script[p][n].kind # "provide"
    <3>1. inForce'[s] = inForce[s] \ {n} /\ services' = services /\ scopes' = scopes
      BY <1>b, <1>2, <2>2
    <3>2. QED
      BY <1>1, <2>2, <3>1 DEF Standing
  <2>3. QED
    BY <2>1, <2>2
<1>7. \A k \in Keys : services'[k] # NoScope => services'[k] = services[k]
  BY <1>b, <1>2
<1>8. Provided'
  BY <1>2, <1>7 DEF Provided
<1>9. Replaying(c)' /\ \A d \in Callers : Replaying(d)' <=> Replaying(d)
  BY <1>1, <1>2 DEF Replaying
<1>10. \A d \in Callers : d # c /\ Replaying(d) => calls[d].scope # s /\ calls[d].scope \in Scopes
  BY <1>1, AtWork DEF IInv, ScopesOwned, InHand, Replaying
<1>11. Lists'
  <2>1. ASSUME NEW t \in Scopes, Unreplayed(t)'
        PROVE  ListTrue(t, scopes[t].disposers)'
    <3>1. t # s
      BY <1>1, <1>9, <2>1 DEF Unreplayed
    <3>2. Unreplayed(t)
      BY <1>1, <1>2, <1>9, <2>1 DEF Unreplayed
    <3>3. ListTrue(t, scopes[t].disposers)
      BY <3>2 DEF Lists, Unreplayed
    <3>4. QED
      BY <1>2, <1>5, <3>1, <3>3 DEF ListTrue
  <2>2. ASSUME NEW d \in Callers, Replaying(d)'
        PROVE  ListTrue(calls[d].scope, calls[d].pending)'
    <3>1. CASE d = c
      BY <1>1, <1>a, <1>2, <1>6, <3>1 DEF ListTrue
    <3>2. CASE d # c
      <4>1. calls'[d] = calls[d] /\ Replaying(d)
        BY <1>2, <1>9, <2>2, <3>2
      <4>2. ListTrue(calls[d].scope, calls[d].pending)
        BY <4>1 DEF Lists
      <4>3. QED
        BY <1>2, <1>5, <1>10, <3>2, <4>1, <4>2 DEF ListTrue
    <3>3. QED
      BY <3>1, <3>2
  <2>3. QED
    BY <2>1, <2>2 DEF Lists, Unreplayed
<1>12. Extent'
  <2>1. ASSUME NEW d \in Callers, calls[d].pc \in {"apply", "dispose", "panic"}
               \/ calls'[d].pc = "apply"
        PROVE  calls'[d] = calls[d]
    BY <1>1, <1>2, <2>1 DEF Replaying
  <2>2. ASSUME NEW d \in Callers, calls'[d].pc = "apply", NEW i \in Registrations(Target(d)')
        PROVE  i < calls'[d].at <=> i \in Positions(scopes'[calls'[d].scope].disposers)
    <3>1. calls'[d] = calls[d] /\ Target(d)' = Target(d)
      BY <2>1, <2>2 DEF Target
    <3>2. QED
      BY <1>2, <2>2, <3>1 DEF Extent
  <2>3. QED
    BY <1>2, <2>1, <2>2 DEF Extent
<1>13. QED
  BY <1>8, <1>11, <1>12

\* Only Use panics.
LEMMA OnlyUsePanics ==
  ASSUME IInv, NEW c \in Callers, Step(c), ~ApplyUse(c)
  PROVE  calls'[c].pc # "panic"
<1>1. calls \in [Callers -> Call] /\ calls[c] \in Call /\ allowed \in Profiles
  BY DEF IInv, TypeOK
<1>2. calls[c].pc # "panic"
  BY DEF Step, Invoke, Check, CheckInject, Fork, ApplyProvide, ApplyRegister,
         ApplyFails, Register, Lookup, Snapshot, Delete, Dispose, Replay, Replayed, Stop
<1>3. CASE Invoke(c)
  <2>1. PICK r \in allowed[c] : calls' = [calls EXCEPT ![c] =
               [Idle EXCEPT !.pc = FirstStep(r.op), !.op = r.op,
                            !.names = r.names, !.parent = r.parent]]
    BY <1>3 DEF Invoke
  <2>2. r.op \in Operations
    BY <1>1, KernelAssumption DEF Request
  <2>3. FirstStep(r.op) # "panic"
    BY <2>2 DEF FirstStep, Operations
  <2>4. calls'[c] = [Idle EXCEPT !.pc = FirstStep(r.op), !.op = r.op,
                            !.names = r.names, !.parent = r.parent]
    BY <1>1, <2>1
  <2>5. QED
    BY <2>3, <2>4 DEF Idle
<1>4. CASE Check(c) \/ Fork(c) \/ Register(c) \/ Replayed(c) \/ Delete(c)
  <2>1. calls[c].names # <<>>
    BY <1>4, AtWork DEF Check, Fork, Register, Replayed, Delete
  <2>2. \A ok \in BOOLEAN : /\ AfterLoad(calls[c], ok).pc # "panic"
                            /\ AfterUnload(calls[c], ok).pc # "panic"
    BY <1>1, <2>1, AfterLoadType, AfterUnloadType
  <2>3. CASE Check(c) \/ Register(c) \/ Replayed(c)
    <3>1. \/ calls'[c] = [calls[c] EXCEPT !.pc = "inject", !.at = 1]
          \/ \E ok \in BOOLEAN : calls'[c] \in {AfterLoad(calls[c], ok), AfterUnload(calls[c], ok)}
      BY <1>1, <2>3 DEF Check, Register, Replayed
    <3>2. QED
      BY <1>1, <2>2, <3>1 DEF Call
  <2>4. CASE Fork(c)
    <3>1. PICK n : n = forks + 1
      OBVIOUS
    <3>2. \/ calls'[c] = [calls[c] EXCEPT !.pc = "apply", !.at = 1, !.scope = n]
          \/ calls'[c] = AfterLoad(calls[c], FALSE)
      BY <1>1, <2>4, <3>1 DEF Fork
    <3>3. QED
      BY <1>1, <2>2, <3>2 DEF Call
  <2>5. CASE Delete(c)
    <3>1. PICK s : s = registry[Target(c)]
      OBVIOUS
    <3>2. \/ calls'[c] = [calls[c] EXCEPT !.pc = "dispose", !.scope = s]
          \/ calls'[c] = AfterUnload(calls[c], FALSE)
      BY <1>1, <2>5, <3>1 DEF Delete
    <3>3. QED
      BY <1>1, <2>2, <3>2 DEF Call
  <2>6. QED
    BY <1>4, <2>3, <2>4, <2>5
<1>5. CASE CheckInject(c) \/ ApplyProvide(c) \/ ApplyRegister(c)
  <2>1. PICK n : n = calls[c].at + 1
    OBVIOUS
  <2>2. PICK m : m = (calls[c].missing \/ ~Has(calls[c].parent, Inject[Target(c)][calls[c].at]))
    OBVIOUS
  <2>3. \/ calls'[c] = [calls[c] EXCEPT !.at = n, !.missing = m]
        \/ calls'[c] = [calls[c] EXCEPT !.at = n]
    BY <1>1, <1>5, <2>1, <2>2 DEF CheckInject, ApplyProvide, ApplyRegister
  <2>4. QED
    BY <1>1, <1>2, <2>3 DEF Call
<1>6. CASE ApplyFails(c) \/ Dispose(c)
  <2>1. PICK pc \in {"rollback", "replay"} : Disposing(c, pc, calls[c].scope)
    BY <1>6 DEF ApplyFails, Dispose
  <2>2. PICK s, l : s = calls[c].scope /\ l = scopes[s].disposers
    OBVIOUS
  <2>3. calls'[c] = [calls[c] EXCEPT !.pc = pc, !.scope = s, !.pending = l]
    BY <1>1, <2>1, <2>2 DEF Disposing, Taken
  <2>4. QED
    BY <1>1, <2>1, <2>3 DEF Call
<1>7. CASE Lookup(c) \/ Stop(c)
  <2>1. calls'[c] = Idle \/ calls'[c] = [calls[c] EXCEPT !.pc = "delete"]
    BY <1>1, <1>7 DEF Lookup, Stop
  <2>2. QED
    BY <1>1, <2>1, IdleType DEF Call
<1>8. CASE Snapshot(c)
  <2>0. \E pc \in {"stop", "delete"} : \E q :
           calls' = [calls EXCEPT ![c].names = q, ![c].pc = pc]
    <3>1. PICK names : names = {p \in Plugins : registry[p] # NoScope}
      OBVIOUS
    <3>2. PICK q \in Backwards(names) : calls' = [calls EXCEPT ![c].names = q,
                        ![c].pc = IF names = {} THEN "stop" ELSE "delete"]
      BY <1>8, <3>1 DEF Snapshot
    <3>3. PICK pc : pc = IF names = {} THEN "stop" ELSE "delete"
      OBVIOUS
    <3>4. pc \in {"stop", "delete"} /\ calls' = [calls EXCEPT ![c].names = q, ![c].pc = pc]
      BY <3>2, <3>3
    <3>5. QED
      BY <3>4
  <2>1. PICK pc \in {"stop", "delete"} : \E q :
           calls' = [calls EXCEPT ![c].names = q, ![c].pc = pc]
    BY <2>0
  <2>2. PICK q : calls'[c] = [calls[c] EXCEPT !.names = q, !.pc = pc]
    BY <1>1, <2>1
  <2>3. QED
    BY <1>1, <2>2 DEF Call
<1>9. CASE Replay(c)
  <2>1. PICK rest : rest = Without(calls[c].pending, Len(calls[c].pending))
    OBVIOUS
  <2>2. PICK err \in BOOLEAN : calls' = [calls EXCEPT ![c].pending = rest, ![c].failed = @ \/ err]
    BY <1>9, <2>1 DEF Replay, LastOf
  <2>3. PICK f : f = (calls[c].failed \/ err)
    OBVIOUS
  <2>4. calls'[c] = [calls[c] EXCEPT !.pending = rest, !.failed = f]
    BY <1>1, <2>2, <2>3
  <2>5. QED
    BY <1>1, <1>2, <2>4 DEF Call
<1>10. QED
  BY <1>3, <1>4, <1>5, <1>6, <1>7, <1>8, <1>9 DEF Step

\* A goroutine that panicked stays one that panicked on a plugin of its own.
LEMMA PanickedKept ==
  ASSUME IInv, Asked, FreeAtWork, Panicked, PluginsApart, NEW c \in Callers, Step(c)
  PROVE  Panicked'
<1>1. /\ calls' \in [Callers -> Call] /\ allowed' = allowed /\ allowed \in Profiles
      /\ \A d \in Callers : d # c => calls'[d] = calls[d]
      /\ registry \in [Plugins -> Scopes \cup {NoScope}]
  BY OthersKept DEF IInv, TypeOK
<1>2. forks \in Nat /\ (forks' = forks \/ forks' = forks + 1)
  <2>1. forks \in Nat
    BY KernelAssumption DEF IInv, TypeOK
  <2>2. Fork(c) => forks' = forks \/ forks' = forks + 1
    BY DEF Fork
  <2>3. ~Fork(c) => forks' = forks
    BY DEF Step, Invoke, Check, CheckInject, ApplyUse, ApplyProvide, ApplyRegister,
           ApplyFails, Register, Lookup, Snapshot, Delete, Dispose, Replay, Replayed, Stop
  <2>4. QED
    BY <2>1, <2>2, <2>3
<1>3. 1 .. forks \subseteq 1 .. forks'
  BY <1>2
<1> SUFFICES ASSUME NEW d \in Callers, calls'[d].pc = "panic"
             PROVE  /\ calls'[d].scope \in 1 .. forks'
                    /\ Handles(allowed, d, scopes'[calls'[d].scope].plugin)
                    /\ registry'[scopes'[calls'[d].scope].plugin] = NoScope
  BY <1>1 DEF Panicked, Handles, Asks
<1>4. /\ calls'[d].scope = calls[d].scope /\ calls[d].scope \in 1 .. forks
      /\ Handles(allowed, d, scopes[calls[d].scope].plugin)
      /\ registry[scopes[calls[d].scope].plugin] = NoScope
      /\ d = c => ~Register(c)
  <2>1. CASE d # c
    BY <1>1, <2>1 DEF Panicked
  <2>2. CASE d = c
    <3>1. ApplyUse(c)
      BY <2>2, OnlyUsePanics
    <3>2. calls'[c].scope = calls[c].scope /\ calls[c].pc = "apply" /\ InHand(c)
      BY <3>1, ApplyUseCall
    <3>3. /\ scopes[calls[c].scope].plugin = Target(c) /\ calls[c].scope \in 1 .. forks
          /\ registry[Target(c)] = NoScope
      BY <3>2, AtWork DEF FreeAtWork
    <3>4. Handles(allowed, c, Target(c))
      BY <3>2, HandlesTarget DEF Working
    <3>5. ASSUME Register(c) PROVE FALSE
      <4>1. calls[c].names # <<>> /\ calls[c] \in Call /\ calls \in [Callers -> Call]
        BY <3>2, AtWork DEF IInv, TypeOK
      <4>2. calls'[c] = AfterLoad(calls[c], TRUE)
        BY <3>5, <4>1 DEF Register
      <4>3. QED
        BY <2>2, <4>1, <4>2, AfterLoadType
    <3>6. QED
      BY <2>2, <3>2, <3>3, <3>4, <3>5
  <2>3. QED
    BY <2>1, <2>2
<1> DEFINE p == scopes[calls[d].scope].plugin
<1>5. scopes'[calls[d].scope].plugin = p /\ p \in Plugins
  BY <1>4, ScopeKept, ScopeTypes
<1>6. registry'[p] = NoScope
  <2>1. CASE registry' = registry
    BY <1>4, <2>1
  <2>2. CASE Register(c) /\ registry' = [registry EXCEPT ![Target(c)] = calls[c].scope]
    <3>1. Working(c) /\ d # c
      BY <1>4, <2>2 DEF Register, Working
    <3>2. Target(c) # p
      BY <1>1, <1>4, <1>5, <3>1, HandlesTarget DEF PluginsApart
    <3>3. QED
      BY <1>1, <1>4, <1>5, <2>2, <3>2
  <2>3. CASE registry' = [registry EXCEPT ![Target(c)] = NoScope]
    BY <1>1, <1>4, <1>5, <2>3
  <2>4. QED
    BY <2>1, <2>2, <2>3, RegistryAfter
<1>7. QED
  BY <1>3, <1>4, <1>5, <1>6

\* In a new kernel nothing stands and every list is empty.
LEMMA KInit == Init => KInv
<1> SUFFICES ASSUME Init PROVE KInv
  OBVIOUS
<1>1. IInv
  BY KernelInit
<1>2. \A c \in Callers : calls[c] = Idle /\ calls[c].pc = "idle" /\ calls[c].op = "unload"
  BY DEF Init, Idle
<1>3. Asked /\ FreeAtWork /\ Panicked /\ Seen(Isolates)
  BY <1>2 DEF Asked, FreeAtWork, Panicked, Seen, Working, InHand
<1>4. /\ \A s \in Scopes : /\ scopes[s].local = {} /\ scopes[s].disposers = <<>>
                           /\ inForce[s] = {} /\ scopes[s].plugin \in Plugins /\ s # NoScope
      /\ \A k \in Keys : services[k] = NoScope
  BY <1>1, ScopeTypes DEF Init, Scratch
<1>5. \A s \in Scopes : Standing(s) = {}
  BY <1>4, RegistrationsAre DEF Standing
<1>6. ASSUME NEW s \in Scopes PROVE ListTrue(s, scopes[s].disposers)
  <2>1. ListTrue(s, <<>>)
    BY <1>5, RisingEmpty DEF ListTrue
  <2>2. QED
    BY <1>4, <2>1
<1>7. Lists /\ Extent /\ Provided
  BY <1>2, <1>4, <1>6 DEF Lists, Extent, Provided, Replaying, Init
<1>8. QED
  BY <1>1, <1>3, <1>7 DEF KInv

\* Every step keeps the lists true.
LEMMA KNext ==
  ASSUME PluginsApart, ProvidedOnce, IsolatesOnlyListen, KInv, [Next]_vars
  PROVE  KInv'
<1>1. CASE UNCHANGED vars
  <2>1. UNCHANGED <<registry, services, inForce, scopes, forks, calls, booked, allowed, root>>
    BY <1>1 DEF vars
  <2>2. IInv'
    BY KernelNext DEF KInv
  <2>3. Asked' /\ FreeAtWork' /\ Panicked'
    BY <2>1 DEF KInv, Asked, FreeAtWork, Panicked, Working, InHand, Target, Handles, Asks
  <2>4. Seen(Isolates)'
    BY <2>1 DEF KInv, Seen, Has, Target
  <2>5. Lists' /\ Extent' /\ Provided'
    <3>1. \A s, list : ListTrue(s, list)' <=> ListTrue(s, list)
      BY <2>1 DEF ListTrue, Standing
    <3>2. Lists'
      BY <2>1, <3>1 DEF KInv, Lists, Replaying
    <3>3. Extent'
      BY <2>1 DEF KInv, Extent, Standing, Target
    <3>4. Provided'
      BY <2>1 DEF KInv, Provided
    <3>5. QED
      BY <3>2, <3>3, <3>4
  <2>6. QED
    BY <2>2, <2>3, <2>4, <2>5 DEF KInv
<1>2. ASSUME NEW c \in Callers, Step(c) PROVE KInv'
  <2>1. IInv' /\ Asked' /\ FreeAtWork' /\ Panicked'
    BY <1>2, OthersKept, AskedKept, FreeKept, PanickedKept DEF KInv
  <2>2. Seen(Isolates)'
    BY <1>2, SeenKept DEF KInv
  <2>3. Lists' /\ Extent' /\ Provided'
    BY <1>2, CallingKeeps, ForkKeeps, ProvideKeeps, RegisterItemKeeps, DisposingKeeps,
       RegisterKeeps, DeleteKeeps, ReplayKeeps
       DEF Step, Calling
  <2>4. QED
    BY <2>1, <2>2, <2>3 DEF KInv
<1>3. QED
  BY <1>1, <1>2 DEF Next

\* Whatever the calls, as long as each plugin has its goroutine, a key one provider and
\* isolated scopes only listeners: what stands of every scope is what its list of disposers
\* takes back.
THEOREM KernelWhole ==
  ASSUME PluginsApart, ProvidedOnce, IsolatesOnlyListen
  PROVE  Spec => []KInv
<1>1. KInv /\ [Next]_vars => KInv'
  BY KNext
<1>2. QED
  BY KInit, <1>1, PTL DEF Spec

-----------------------------------------------------------------------------
\* Some list accounts for what stands of a scope.
LEMMA SomeList ==
  ASSUME KInv, NEW s \in Scopes
  PROVE  \E list : ListTrue(s, list)
BY DEF KInv, Lists

\* What stands of a scope is at any moment an initial part of its plugin's script (Dispose
\* replays the disposers last first, Apply builds up first to last).
THEOREM KernelUndoneBackwards ==
  ASSUME PluginsApart, ProvidedOnce, IsolatesOnlyListen
  PROVE  Spec => []UndoneBackwards
<1>1. ASSUME KInv PROVE UndoneBackwards
  <2> SUFFICES ASSUME NEW s \in Scopes, NEW j \in Standing(s),
                      NEW i \in Registrations(scopes[s].plugin), i < j
               PROVE  i \in Standing(s)
    BY DEF UndoneBackwards
  <2>1. PICK list : ListTrue(s, list)
    BY <1>1, SomeList
  <2>2. scopes[s].plugin \in Plugins
    BY <1>1, ScopeTypes DEF KInv
  <2>3. QED
    BY <2>1, <2>2, RisingIsInitial DEF ListTrue
<1>2. QED
  BY <1>1, KernelWhole, PTL

\* When every call has returned nothing stands but what belongs to registered plugins,
\* whichever of Load, Unload, Reload and Shutdown failed or gave up on the way.
THEOREM KernelNoResidue ==
  ASSUME PluginsApart, ProvidedOnce, IsolatesOnlyListen
  PROVE  Spec => []NoResidue
<1>1. ASSUME KInv PROVE NoResidue
  BY <1>1, StandingIsHad DEF KInv, NoResidue, Quiet, InHand
<1>2. QED
  BY <1>1, KernelWhole, PTL

\* A registered plugin has all its services, listeners and effects, while other goroutines
\* load and unload the plugins around it.
THEOREM KernelRegisteredPluginWhole ==
  ASSUME PluginsApart, ProvidedOnce, IsolatesOnlyListen
  PROVE  Spec => []RegisteredPluginWhole
<1>1. ASSUME KInv PROVE RegisteredPluginWhole
  <2> SUFFICES ASSUME NEW p \in Plugins, registry[p] # NoScope
               PROVE  Standing(registry[p]) = Registrations(p)
    BY DEF RegisteredPluginWhole
  <2>1. /\ registry[p] \in Scopes /\ Unreplayed(registry[p]) /\ scopes[registry[p]].plugin = p
    BY <1>1, RegisteredUnreplayed DEF KInv
  <2>2. ListTrue(registry[p], scopes[registry[p]].disposers)
    BY <1>1, <2>1 DEF KInv, Lists, Unreplayed
  <2>3. Registrations(p) \subseteq Positions(scopes[registry[p]].disposers)
    BY <1>1 DEF KInv, Extent
  <2>4. QED
    BY <2>1, <2>2, <2>3, RisingIsInitial DEF ListTrue
<1>2. QED
  BY <1>1, KernelWhole, PTL

\* Two scopes of one plugin do not both stand.
LEMMA StandsAlone ==
  ASSUME KInv, PluginsApart, NEW s \in Scopes, NEW t \in Scopes,
         scopes[s].plugin = scopes[t].plugin, Standing(s) # {}, Standing(t) # {}
  PROVE  s = t
<1> USE DEF KInv
<1> DEFINE p == scopes[s].plugin
           Had(c, u) == (InHand(c) \/ calls[c].pc = "panic") /\ calls[c].scope = u
<1>1. p \in Plugins /\ allowed \in Profiles /\ NoScope \notin Scopes
  BY ScopeTypes DEF IInv, TypeOK
<1>2. /\ registry[p] = s \/ \E c \in Callers : Had(c, s)
      /\ registry[p] = t \/ \E c \in Callers : Had(c, t)
  BY StandingIsHad
<1>3. ASSUME NEW c \in Callers, NEW u \in Scopes, scopes[u].plugin = p, Had(c, u)
      PROVE  Handles(allowed, c, p) /\ registry[p] = NoScope
  <2>1. CASE InHand(c)
    <3>1. Target(c) = p /\ registry[p] = NoScope
      BY <1>3, <2>1 DEF FreeAtWork
    <3>2. QED
      BY <2>1, <3>1, HandlesTarget DEF InHand, Working
  <2>2. CASE calls[c].pc = "panic"
    BY <1>3, <2>2 DEF Panicked
  <2>3. QED
    BY <1>3, <2>1, <2>2
<1>4. CASE registry[p] = s \/ registry[p] = t
  BY <1>1, <1>2, <1>3, <1>4
<1>5. CASE registry[p] # s /\ registry[p] # t
  <2>1. PICK c \in Callers : Had(c, s)
    BY <1>2, <1>5
  <2>2. PICK d \in Callers : Had(d, t)
    BY <1>2, <1>5
  <2>3. Handles(allowed, c, p) /\ Handles(allowed, d, p)
    BY <1>3, <2>1, <2>2
  <2>4. c = d
    BY <1>1, <2>3 DEF PluginsApart
  <2>5. QED
    BY <2>1, <2>2, <2>4
<1>6. QED
  BY <1>4, <1>5

\* A plugin's old scope is unwound before the next Apply registers anything.
THEOREM KernelOneGeneration ==
  ASSUME PluginsApart, ProvidedOnce, IsolatesOnlyListen
  PROVE  Spec => []OneGeneration
<1>1. ASSUME KInv PROVE OneGeneration
  <2> SUFFICES ASSUME NEW s \in Scopes, NEW t \in Scopes, s < t,
                      scopes[s].plugin = scopes[t].plugin,
                      Standing(s) # {}, Standing(t) # {}
               PROVE  FALSE
    BY DEF OneGeneration
  <2>1. s = t
    BY <1>1, StandsAlone
  <2>2. s \in Nat
    BY <1>1, ScopeTypes DEF KInv
  <2>3. QED
    BY <2>1, <2>2
<1>2. QED
  BY <1>1, KernelWhole, PTL
=============================================================================
