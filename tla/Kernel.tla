------------------------------- MODULE Kernel -------------------------------
(***************************************************************************)
(* The Cordis micro-kernel of core/: the plugin registry, the kernel-wide  *)
(* service registry, the scopes plugins are applied on, and the reversible *)
(* registrations (services, listeners, effects) a scope replays backwards  *)
(* when it is disposed.  Several goroutines call Load, Unload, Reload,     *)
(* LoadPlugins and Shutdown at once: k.mu and Context.mu make single steps *)
(* atomic, never a whole call, so a call is a sequence of steps here too,  *)
(* cut where the code releases a mutex.                                    *)
(***************************************************************************)
EXTENDS Naturals, Sequences, FiniteSets

CONSTANTS
    Plugins,    \* plugin names, as numbers: the order of sort.Strings is <
    Keys,       \* service keys
    Isolates,   \* the scopes made with Isolate that plugins may be loaded on
    Private,    \* the keys an embedder has provided on each of them
    Inject,     \* the keys each plugin declares it needs, in order
    Script,     \* what each plugin's Apply does to its scope, in order
    Faulty,     \* plugins whose Apply, or an effect's disposer, may fail
    Callers,    \* goroutines calling the kernel
    Profiles,   \* the ways an embedder divides the calls among goroutines
    MaxForks    \* bound: calls that may fork a plugin scope, over a behaviour

Root == "root"
Kinds == {"use", "provide", "on", "effect"}
Scopes == 1 .. MaxForks
NoScope == 0

Operations == {"load", "loadplugins", "unload", "reload", "shutdown"}

\* A call: the plugins it is about (Shutdown finds them itself) and, for those
\* that load, the parent scope.
Request == {r \in [op : Operations, names : Seq(Plugins),
                   parent : Isolates \cup {Root}] :
               r.op # "shutdown" => r.names # <<>>}

ASSUME KernelAssumption ==
    /\ Plugins \subseteq Nat /\ Plugins # {} /\ IsFiniteSet(Plugins)
    /\ MaxForks \in Nat
    /\ Root \notin Isolates
    /\ Private \in [Isolates -> SUBSET Keys]
    /\ Inject \in [Plugins -> Seq(Keys)]
    /\ Script \in [Plugins -> Seq([kind : Kinds, key : Keys])]
    /\ Profiles \subseteq [Callers -> SUBSET Request]

VARIABLES
    registry,   \* Kernel.plugins: the scope each loaded plugin runs on
    services,   \* Kernel.services: the scope whose Provide put the value there
    inForce,    \* per scope, the script positions of its standing On and Effect
    scopes,     \* the plugin scopes forked so far
    forks,      \* how many of them there are
    calls,      \* the call each goroutine is in
    booked,     \* forks the calls made so far may need (bounded by MaxForks)
    allowed,    \* the profile of this behaviour
    root        \* the root scope's disposed flag and the kernel's started flag

vars == <<registry, services, inForce, scopes, forks, calls, booked, allowed,
          root>>

-----------------------------------------------------------------------------
\* A disposer on a scope's list: the script position whose registration it
\* takes back and, for a service, the value Provide found under the key.
Disposer == [at : Nat, prev : Scopes \cup {NoScope}]

Scope == [plugin    : Plugins,
          parent    : Isolates \cup {Root},
          disposed  : BOOLEAN,
          local     : SUBSET Keys,
          disposers : Seq(Disposer)]

Steps == {"idle", "check", "inject", "apply", "rollback", "lookup", "delete",
          "dispose", "replay", "snapshot", "stop", "panic"}

Call == [pc      : Steps,
         op      : Operations,
         names   : Seq(Plugins),           \* plugins still to deal with
         parent  : Isolates \cup {Root},
         scope   : Scopes \cup {NoScope},  \* the scope in hand
         at      : Nat,                    \* position in Inject or Script
         missing : BOOLEAN,
         pending : Seq(Disposer),          \* disposers left to replay
         failed  : BOOLEAN]

Idle == [pc |-> "idle", op |-> "unload", names |-> <<>>, parent |-> Root,
         scope |-> NoScope, at |-> 0, missing |-> FALSE, pending |-> <<>>,
         failed |-> FALSE]

Scratch == [plugin |-> CHOOSE p \in Plugins : TRUE, parent |-> Root,
            disposed |-> FALSE, local |-> {}, disposers |-> <<>>]

Target(c) == Head(calls[c].names)
Item(c) == Script[Target(c)][calls[c].at]

\* Has on a parent scope, lookup from a plugin's scope.  An isolated scope
\* sees its own services only; any other sees the kernel-wide registry.
Has(parent, key) ==
    IF parent \in Isolates THEN key \in Private[parent]
                           ELSE services[key] # NoScope

Visible(s, key) ==
    IF scopes[s].parent \in Isolates THEN key \in scopes[s].local
                                     ELSE services[key] # NoScope

\* Where a call goes when the Load, or the Unload, it was in has returned.
AfterLoad(call, ok) ==
    IF call.op = "loadplugins" /\ ok /\ Len(call.names) > 1
    THEN [call EXCEPT !.pc = "check", !.names = Tail(@), !.scope = NoScope,
                      !.at = 0, !.missing = FALSE]
    ELSE Idle

AfterUnload(call, ok) ==
    CASE call.op = "reload" /\ ok ->
            [call EXCEPT !.pc = "check", !.scope = NoScope]
      [] call.op = "shutdown" ->
            [call EXCEPT !.pc = IF Len(call.names) > 1 THEN "delete" ELSE "stop",
                         !.names = Tail(@), !.scope = NoScope, !.failed = FALSE]
      [] OTHER -> Idle

FirstStep(op) ==
    CASE op \in {"load", "loadplugins"} -> "check"
      [] op = "unload"                  -> "delete"
      [] op = "reload"                  -> "lookup"
      [] op = "shutdown"                -> "snapshot"

\* The forks a request may need; booking them keeps every call inside the bound.
Needed(r) == IF r.op \in {"load", "reload"} THEN 1
             ELSE IF r.op = "loadplugins" THEN Len(r.names) ELSE 0

-----------------------------------------------------------------------------
Init ==
    /\ registry = [p \in Plugins |-> NoScope]
    /\ services = [k \in Keys |-> NoScope]
    /\ inForce = [s \in Scopes |-> {}]
    /\ scopes = [s \in Scopes |-> Scratch]
    /\ forks = 0
    /\ calls = [c \in Callers |-> Idle]
    /\ booked = 0
    /\ allowed \in Profiles
    /\ root = [disposed |-> FALSE, started |-> TRUE]

Invoke(c) ==
    /\ calls[c].pc = "idle"
    /\ \E r \in allowed[c] :
         /\ booked + Needed(r) <= MaxForks
         /\ booked' = booked + Needed(r)
         /\ calls' = [calls EXCEPT ![c] =
               [Idle EXCEPT !.pc = FirstStep(r.op), !.op = r.op,
                            !.names = r.names, !.parent = r.parent]]
    /\ UNCHANGED <<registry, services, inForce, scopes, forks, allowed, root>>

\* Load, first lock: the name must be free.
AnyName(p) == TRUE
NameFree(p) == registry[p] = NoScope

Check(c) ==
    /\ calls[c].pc = "check"
    /\ calls' = [calls EXCEPT ![c] =
          IF NameFree(Target(c)) THEN [@ EXCEPT !.pc = "inject", !.at = 1]
                                 ELSE AfterLoad(@, FALSE)]
    /\ UNCHANGED <<registry, services, inForce, scopes, forks, booked, allowed, root>>

\* Load: one injected key looked up on the parent, without k.mu.
CheckInject(c) ==
    /\ calls[c].pc = "inject"
    /\ calls[c].at <= Len(Inject[Target(c)])
    /\ calls' = [calls EXCEPT ![c].at = @ + 1,
                              ![c].missing = @ \/ ~Has(calls[c].parent,
                                         Inject[Target(c)][calls[c].at])]
    /\ UNCHANGED <<registry, services, inForce, scopes, forks, booked, allowed, root>>

\* Load: give up if a dependency was missing, else fork the scope.
NothingMissing(c) == FALSE
DependenciesMissing(c) == calls[c].missing

Fork(c) ==
    /\ calls[c].pc = "inject"
    /\ calls[c].at > Len(Inject[Target(c)])
    /\ IF DependenciesMissing(c)
       THEN /\ calls' = [calls EXCEPT ![c] = AfterLoad(@, FALSE)]
            /\ UNCHANGED <<scopes, forks>>
       ELSE /\ forks < MaxForks
            /\ forks' = forks + 1
            /\ scopes' = [scopes EXCEPT ![forks + 1] =
                  [Scratch EXCEPT !.plugin = Target(c),
                                  !.parent = calls[c].parent]]
            /\ calls' = [calls EXCEPT ![c].pc = "apply", ![c].at = 1,
                                      ![c].scope = forks + 1]
    /\ UNCHANGED <<registry, services, inForce, booked, allowed,
                   root>>

\* Apply, item by item.  The scope is this goroutine's alone until it is
\* registered, so Provide's two locks (kernel, then scope) are one step.
\* core.Use panics when the service is not there: nothing recovers it, and the
\* process is gone (what other goroutines do after that is of no consequence).
ApplyUse(c) ==
    /\ calls[c].pc = "apply"
    /\ calls[c].at <= Len(Script[Target(c)])
    /\ Item(c).kind = "use"
    /\ calls' = [calls EXCEPT ![c].at = @ + 1,
                              ![c].pc = IF Visible(calls[c].scope, Item(c).key)
                                        THEN @ ELSE "panic"]
    /\ UNCHANGED <<registry, services, inForce, scopes, forks, booked, allowed, root>>

\* registerDisposer: the scope is not disposed yet, so the list grows.
NotRecorded(disposers, d) == disposers
Recorded(disposers, d) == Append(disposers, d)

\* On a scope that is not isolated: swap the kernel-wide value and remember the
\* one it hides.  On an isolated scope: a local entry, and no disposer.
ApplyProvide(c) ==
    LET s == calls[c].scope
        k == Item(c).key
    IN /\ calls[c].pc = "apply"
       /\ calls[c].at <= Len(Script[Target(c)])
       /\ Item(c).kind = "provide"
       /\ IF scopes[s].parent \in Isolates
          THEN /\ scopes' = [scopes EXCEPT ![s].local = @ \cup {k}]
               /\ UNCHANGED services
          ELSE /\ services' = [services EXCEPT ![k] = s]
               /\ scopes' = [scopes EXCEPT ![s].disposers =
                     Recorded(@, [at |-> calls[c].at, prev |-> services[k]])]
       /\ calls' = [calls EXCEPT ![c].at = @ + 1]
       /\ UNCHANGED <<registry, inForce, forks, booked, allowed,
                      root>>

\* On adds the listener, Effect runs the effect; both leave a disposer.
ApplyRegister(c) ==
    LET s == calls[c].scope
    IN /\ calls[c].pc = "apply"
       /\ calls[c].at <= Len(Script[Target(c)])
       /\ Item(c).kind \in {"on", "effect"}
       /\ inForce' = [inForce EXCEPT ![s] = @ \cup {calls[c].at}]
       /\ scopes' = [scopes EXCEPT ![s].disposers =
             Recorded(@, [at |-> calls[c].at, prev |-> NoScope])]
       /\ calls' = [calls EXCEPT ![c].at = @ + 1]
       /\ UNCHANGED <<registry, services, forks, booked, allowed,
                      root>>

\* Dispose marks the scope and takes its list of disposers.
Forgotten(s) == <<>>
Taken(s) == scopes[s].disposers

Disposing(c, pc, s) ==
    /\ scopes' = [scopes EXCEPT ![s].disposed = TRUE, ![s].disposers = <<>>]
    /\ calls' = [calls EXCEPT ![c].pc = pc, ![c].scope = s,
                              ![c].pending = Taken(s)]

\* Apply returns an error: Load disposes the scope nobody else has seen.
ApplyFails(c) ==
    /\ calls[c].pc = "apply"
    /\ Target(c) \in Faulty
    /\ Disposing(c, "rollback", calls[c].scope)
    /\ UNCHANGED <<registry, services, inForce, forks, booked,
                   allowed, root>>

\* Apply has returned nil: Load takes k.mu again and writes the entry, without
\* looking whether the name is still free.
AlmostApplied(c) == calls[c].at >= Len(Script[Target(c)])
Applied(c) == calls[c].at > Len(Script[Target(c)])

Register(c) ==
    LET p == Target(c)
    IN /\ calls[c].pc = "apply"
       /\ Applied(c)
       /\ registry' = [registry EXCEPT ![p] = calls[c].scope]
       /\ calls' = [calls EXCEPT ![c] = AfterLoad(@, TRUE)]
       /\ UNCHANGED <<services, inForce, scopes, forks, booked, allowed, root>>

-----------------------------------------------------------------------------
\* Reload reads the entry (and keeps its Plugin) before it calls Unload.
Lookup(c) ==
    /\ calls[c].pc = "lookup"
    /\ calls' = [calls EXCEPT ![c] =
          IF registry[Target(c)] = NoScope THEN Idle
                                           ELSE [@ EXCEPT !.pc = "delete"]]
    /\ UNCHANGED <<registry, services, inForce, scopes, forks, booked, allowed, root>>

\* Shutdown: the registered names, sorted backwards.
Backwards(names) ==
    {q \in [1 .. Cardinality(names) -> names] :
        \A i, j \in DOMAIN q : i < j => q[i] > q[j]}

Snapshot(c) ==
    LET names == {p \in Plugins : registry[p] # NoScope}
    IN /\ calls[c].pc = "snapshot"
       /\ \E q \in Backwards(names) :
             calls' = [calls EXCEPT
                ![c].names = q,
                ![c].pc = IF names = {} THEN "stop" ELSE "delete"]
       /\ UNCHANGED <<registry, services, inForce, scopes, forks, booked,
                      allowed, root>>

\* Unload, under k.mu: take the entry out.
Kept(p) == registry
Erased(p) == [q \in Plugins \ {p} |-> registry[q]]
Deleted(p) == [registry EXCEPT ![p] = NoScope]

Delete(c) ==
    LET p == Target(c)
    IN /\ calls[c].pc = "delete"
       /\ IF registry[p] = NoScope
          THEN /\ calls' = [calls EXCEPT ![c] = AfterUnload(@, FALSE)]
               /\ UNCHANGED registry
          ELSE /\ registry' = Deleted(p)
               /\ calls' = [calls EXCEPT ![c].pc = "dispose",
                                         ![c].scope = registry[p]]
       /\ UNCHANGED <<services, inForce, scopes, forks, booked, allowed, root>>

\* Unload, outside k.mu: dispose the entry's scope.
Dispose(c) ==
    /\ calls[c].pc = "dispose"
    /\ Disposing(c, "replay", calls[c].scope)
    /\ UNCHANGED <<registry, services, inForce, forks, booked,
                   allowed, root>>

\* The disposers run last first.
FirstOf(pending) == 1
LastOf(pending) == Len(pending)

Without(seq, i) ==
    [j \in 1 .. Len(seq) - 1 |-> IF j < i THEN seq[j] ELSE seq[j + 1]]

\* One disposer: a service goes back to what Provide had found under the key, a
\* listener or an effect is taken back.  An effect's disposer may fail; the
\* replay goes on and the error is joined to the others.
Replay(c) ==
    LET s == calls[c].scope
        i == LastOf(calls[c].pending)
        d == calls[c].pending[i]
        item == Script[scopes[s].plugin][d.at]
        after == Without(calls[c].pending, i)
    IN /\ calls[c].pc \in {"rollback", "replay"}
       /\ calls[c].pending # <<>>
       /\ IF item.kind = "provide"
          THEN /\ services' = [services EXCEPT ![item.key] = d.prev]
               /\ UNCHANGED inForce
          ELSE /\ inForce' = [inForce EXCEPT ![s] = @ \ {d.at}]
               /\ UNCHANGED services
       /\ \E err \in IF item.kind = "effect" /\ scopes[s].plugin \in Faulty
                     THEN BOOLEAN ELSE {FALSE} :
             calls' = [calls EXCEPT ![c].pending = after,
                                    ![c].failed = @ \/ err]
       /\ UNCHANGED <<registry, scopes, forks, booked, allowed, root>>

\* Dispose has returned, to Load's error path or to Unload.
Replayed(c) ==
    /\ calls[c].pc \in {"rollback", "replay"}
    /\ calls[c].pending = <<>>
    /\ calls' = [calls EXCEPT ![c] =
          IF @.pc = "rollback" THEN AfterLoad(@, FALSE)
                               ELSE AfterUnload(@, ~@.failed)]
    /\ UNCHANGED <<registry, services, inForce, scopes, forks, booked, allowed, root>>

\* Shutdown's end: the root scope (nothing registers on it) and the flag.
Stop(c) ==
    /\ calls[c].pc = "stop"
    /\ root' = [disposed |-> TRUE, started |-> FALSE]
    /\ calls' = [calls EXCEPT ![c] = Idle]
    /\ UNCHANGED <<registry, services, inForce, scopes, forks, booked, allowed>>

Step(c) ==
    \/ Invoke(c)
    \/ Check(c)    \/ CheckInject(c)  \/ Fork(c)
    \/ ApplyUse(c) \/ ApplyProvide(c) \/ ApplyRegister(c) \/ ApplyFails(c)
    \/ Register(c) \/ Lookup(c)       \/ Snapshot(c)
    \/ Delete(c)   \/ Dispose(c)      \/ Replay(c)        \/ Replayed(c)
    \/ Stop(c)

Next == \E c \in Callers : Step(c)

Spec == Init /\ [][Next]_vars

-----------------------------------------------------------------------------
Registrations(p) == {i \in DOMAIN Script[p] : Script[p][i].kind # "use"}

\* The positions of a scope's script whose registration stands: a lookup, an
\* emit or the outside world still meets it.
Standing(s) ==
    inForce[s] \cup
    {i \in DOMAIN Script[scopes[s].plugin] :
        LET item == Script[scopes[s].plugin][i]
        IN /\ item.kind = "provide"
           /\ \/ services[item.key] = s
              \/ item.key \in scopes[s].local}

Quiet == \A c \in Callers : calls[c].pc = "idle"

TypeOK ==
    /\ registry \in [Plugins -> Scopes \cup {NoScope}]
    /\ services \in [Keys -> Scopes \cup {NoScope}]
    /\ inForce \in [Scopes -> SUBSET Nat]
    /\ scopes \in [Scopes -> Scope]
    /\ forks \in 0 .. MaxForks
    /\ calls \in [Callers -> Call]
    /\ booked \in 0 .. MaxForks
    /\ allowed \in Profiles
    /\ root \in [disposed : BOOLEAN, started : BOOLEAN]

\* A registered plugin runs on a scope of its own that nobody has begun to
\* dispose, whatever the other goroutines are in the middle of (Load registers
\* last, Unload deletes the entry first).
RegisteredScopeLives ==
    \A p \in Plugins : registry[p] # NoScope =>
        /\ scopes[registry[p]].plugin = p
        /\ ~scopes[registry[p]].disposed

\* Every listener and every running effect can still be taken back: its disposer
\* is on its scope's list, or in the hands of the goroutine replaying that list.
\* Nothing an Apply registered can be left behind with no way to undo it.
EveryEffectReversible ==
    \A s \in Scopes : \A i \in inForce[s] :
        \/ \E j \in DOMAIN scopes[s].disposers : scopes[s].disposers[j].at = i
        \/ \E c \in Callers :
             /\ calls[c].scope = s
             /\ calls[c].pc \in {"rollback", "replay"}
             /\ \E j \in DOMAIN calls[c].pending : calls[c].pending[j].at = i

\* A plugin that is registered is whole: every service, listener and effect of
\* its Apply stands, however other plugins come and go around it.
RegisteredPluginWhole ==
    \A p \in Plugins : registry[p] # NoScope =>
        Standing(registry[p]) = Registrations(p)

\* Apply builds up, Dispose takes down in reverse order: at any moment what
\* stands of a scope is an initial part of its script, so no registration ever
\* outlives one it was built on.
UndoneBackwards ==
    \A s \in Scopes : \A j \in Standing(s) :
        \A i \in Registrations(scopes[s].plugin) : i < j => i \in Standing(s)

\* Reload and Load never let two generations of a plugin overlap: the effects of
\* one are all unwound before the next Apply registers anything.
OneGeneration ==
    \A s, t \in Scopes :
        s < t /\ t <= forks /\ scopes[s].plugin = scopes[t].plugin
        => Standing(s) = {} \/ Standing(t) = {}

\* When no call is under way all that stands belongs to a registered plugin: a
\* failed Load, an Unload, a Reload that stopped half-way and a Shutdown leave
\* nothing behind.
NoResidue ==
    Quiet => \A s \in Scopes :
        Standing(s) # {} => registry[scopes[s].plugin] = s

\* Load's check of Inject is there so that core.Use does not panic in Apply.  It
\* does when the provider is unloaded between the two, on another goroutine.
InjectHonoured == \A c \in Callers : calls[c].pc # "panic"

\* Shutdown's comment: it unloads every plugin in reverse load order (scopes are
\* numbered in the order they are forked).
ShutdownInReverseLoadOrder ==
    \A c \in Callers :
        /\ calls[c].pc = "delete" /\ calls[c].op = "shutdown"
        /\ registry[Target(c)] # NoScope
        => \A p \in Plugins : registry[p] <= registry[Target(c)]

-----------------------------------------------------------------------------
\* What some guarantees ask of the embedder, who writes the plugins and divides
\* the calls: p may be named by a request of c (on the scope b), or unloaded by
\* its Shutdown.
Asks(f, c, p, b) ==
    \E r \in f[c] : /\ r.op # "shutdown" /\ r.parent = b
                    /\ \E i \in DOMAIN r.names : r.names[i] = p

Handles(f, c, p) ==
    \/ \E r \in f[c] : r.op = "shutdown"
    \/ \E b \in Isolates \cup {Root} : Asks(f, c, p, b)

\* Each plugin is loaded and unloaded by one goroutine.
PluginsApart ==
    \A f \in Profiles : \A c, d \in Callers : \A p \in Plugins :
        Handles(f, c, p) /\ Handles(f, d, p) => c = d

\* A key has one provider, and one place where it provides it.
ProvidedOnce ==
    \A p, q \in Plugins : \A i \in DOMAIN Script[p], j \in DOMAIN Script[q] :
        /\ Script[p][i].kind = "provide" /\ Script[q][j].kind = "provide"
        /\ Script[p][i].key = Script[q][j].key
        => p = q /\ i = j

\* What can be loaded on an isolated scope has listeners and effects only.
IsolatesOnlyListen ==
    \A f \in Profiles : \A c \in Callers : \A p \in Plugins : \A b \in Isolates :
        /\ Asks(f, c, p, b)
        /\ \A j \in DOMAIN Inject[p] : Inject[p][j] \in Private[b]
        => \A i \in DOMAIN Script[p] : Script[p][i].kind \in {"on", "effect"}
=============================================================================
