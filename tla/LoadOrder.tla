----------------------------- MODULE LoadOrder ------------------------------
(***************************************************************************)
(* Kernel.LoadPlugins of core/loader.go: it sorts a list of plugins by      *)
(* their dependencies and loads them one after the other.  The recursive    *)
(* closure visit is an explicit stack here, one frame for each activation;  *)
(* a whole Load is one step (Kernel takes it apart).                        *)
(***************************************************************************)
EXTENDS Naturals, Sequences, FiniteSets

CONSTANTS
    Names,   \* plugin names, as numbers: the order of sort.Strings is <
    Keys,    \* what Inject and Provides may name: service keys, plugin names too
    Lists    \* the arguments LoadPlugins may be called with

\* A plugin: puts is what its Apply really provides (nothing makes a plugin
\* declare it), faulty that its Apply returns an error.
Plugin == [name : Names, inject : Seq(Keys), provides : SUBSET Keys,
           puts : SUBSET Keys, faulty : BOOLEAN]

ASSUME LoadOrderAssumption ==
    /\ Names \subseteq Nat /\ IsFiniteSet(Names)
    /\ Names \subseteq Keys
    /\ Lists \subseteq Seq(Plugin)

VARIABLES
    list,       \* the argument
    phase,      \* "begin", "sort", "load", "returned"
    err,        \* the error LoadPlugins returns, "" for none
    todo,       \* names the sorting loop has still to visit
    stack,      \* activations of visit: a name and the next Inject entry to see
    visiting,   \* the map visiting
    done,       \* the map done
    order,      \* the load order so far
    next,       \* the position in order of the plugin to load
    loaded,     \* the plugins this call has loaded
    services    \* the keys that have a value on the parent scope

vars == <<list, phase, err, todo, stack, visiting, done, order, next, loaded,
          services>>

-----------------------------------------------------------------------------
NamesOf(l) == {l[i].name : i \in DOMAIN l}
Duplicated(l) == \E i, j \in DOMAIN l : i # j /\ l[i].name = l[j].name

\* byName
Of(l, n) == l[CHOOSE i \in DOMAIN l : l[i].name = n]
Inject(l, n) == Of(l, n).inject

\* providerOf: the last plugin of the list that declares the key.
Declares(l, i, key) == key \in l[i].provides
ProviderOf(l, key) ==
    {l[i].name : i \in {i \in DOMAIN l :
        /\ Declares(l, i, key)
        /\ \A j \in DOMAIN l : Declares(l, j, key) => j <= i}}

\* The plugin an Inject entry leads to, if any: the provider of the key, else the
\* plugin of that name.
AnyKey(l, key) == IF ProviderOf(l, key) # {} THEN ProviderOf(l, key) ELSE {key}
DependsOn(l, key) ==
    IF ProviderOf(l, key) # {} THEN ProviderOf(l, key)
    ELSE IF key \in NamesOf(l) THEN {key} ELSE {}

Edges(l, n) == UNION {DependsOn(l, Inject(l, n)[i]) : i \in 1 .. Len(Inject(l, n))}

Top == stack[Len(stack)]
Frame(n) == [name |-> n, next |-> 1]

-----------------------------------------------------------------------------
Init ==
    /\ list \in Lists
    /\ phase = "begin" /\ err = ""
    /\ todo = {} /\ stack = <<>> /\ visiting = {} /\ done = {} /\ order = <<>>
    /\ next = 1 /\ loaded = {}
    /\ services \in {{}, Keys \ Names}

\* The names are unique, or nothing is done.
Begin ==
    /\ phase = "begin"
    /\ IF Duplicated(list)
       THEN phase' = "returned" /\ err' = "duplicate" /\ UNCHANGED todo
       ELSE phase' = "sort" /\ todo' = NamesOf(list) /\ UNCHANGED err
    /\ UNCHANGED <<list, stack, visiting, done, order, next, loaded, services>>

\* The loop over the sorted names calls visit.
VisitNext ==
    /\ phase = "sort" /\ stack = <<>> /\ todo # {}
    /\ \E n \in todo :
          /\ \A m \in todo : n <= m
          /\ todo' = todo \ {n}
          /\ IF n \in done
             THEN UNCHANGED <<stack, visiting>>
             ELSE stack' = <<Frame(n)>> /\ visiting' = visiting \cup {n}
    /\ UNCHANGED <<list, phase, err, done, order, next, loaded, services>>

\* visit sees one more Inject entry: nothing to do, a cycle, or one level deeper.
DoneOrVisiting(deps) == deps \subseteq done \cup visiting
Settled(deps) == deps \subseteq done

NotAdvanced(q) == q
Advanced(q) == [q EXCEPT ![Len(q)].next = @ + 1]

SeeDependency ==
    /\ phase = "sort" /\ stack # <<>>
    /\ Top.next <= Len(Inject(list, Top.name))
    /\ LET deps == DependsOn(list, Inject(list, Top.name)[Top.next])
       IN IF Settled(deps)
          THEN stack' = Advanced(stack) /\ UNCHANGED <<phase, err, visiting>>
          ELSE \E n \in deps :
                 IF n \in visiting
                 THEN /\ phase' = "returned" /\ err' = "cycle"
                      /\ UNCHANGED <<stack, visiting>>
                 ELSE /\ stack' = Append(Advanced(stack), Frame(n))
                      /\ visiting' = visiting \cup {n}
                      /\ UNCHANGED <<phase, err>>
    /\ UNCHANGED <<list, todo, done, order, next, loaded, services>>

\* visit has seen every entry: the plugin comes next in the order.
ToFront(q, n) == <<n>> \o q
InOrder(q, n) == Append(q, n)

Finish ==
    /\ phase = "sort" /\ stack # <<>>
    /\ Top.next > Len(Inject(list, Top.name))
    /\ visiting' = visiting \ {Top.name}
    /\ done' = done \cup {Top.name}
    /\ order' = InOrder(order, Top.name)
    /\ stack' = SubSeq(stack, 1, Len(stack) - 1)
    /\ UNCHANGED <<list, phase, err, todo, next, loaded, services>>

TooSoon == stack = <<>>
AllVisited == stack = <<>> /\ todo = {}

Sorted ==
    /\ phase = "sort" /\ AllVisited
    /\ phase' = "load"
    /\ UNCHANGED <<list, err, todo, stack, visiting, done, order, next, loaded, services>>

\* Load of one plugin: its keys must have a value on the parent, and its Apply
\* must succeed.  The first that fails ends the call; what is loaded stays.
Missing(p) == \E i \in DOMAIN p.inject : p.inject[i] \notin services

LoadOne ==
    /\ phase = "load" /\ next <= Len(order)
    /\ LET p == Of(list, order[next])
       IN IF Missing(p) \/ p.faulty
          THEN /\ err' = IF Missing(p) THEN "missing" ELSE "apply"
               /\ phase' = "returned"
               /\ UNCHANGED <<loaded, services, next>>
          ELSE /\ loaded' = loaded \cup {p.name}
               /\ services' = services \cup p.puts
               /\ next' = next + 1
               /\ UNCHANGED <<phase, err>>
    /\ UNCHANGED <<list, todo, stack, visiting, done, order>>

Return ==
    /\ phase = "load" /\ next > Len(order)
    /\ phase' = "returned"
    /\ UNCHANGED <<list, err, todo, stack, visiting, done, order, next, loaded, services>>

Next == Begin \/ VisitNext \/ SeeDependency \/ Finish \/ Sorted \/ LoadOne \/ Return

\* One goroutine runs the call and nothing it does blocks.
Spec == Init /\ [][Next]_vars /\ WF_vars(Next)

-----------------------------------------------------------------------------
TypeOK ==
    /\ list \in Seq(Plugin)
    /\ phase \in {"begin", "sort", "load", "returned"}
    /\ err \in {"", "duplicate", "cycle", "missing", "apply"}
    /\ todo \subseteq Names /\ visiting \subseteq Names /\ done \subseteq Names
    /\ stack \in Seq([name : Names, next : Nat])
    /\ order \in Seq(Names)
    /\ next \in Nat
    /\ loaded \subseteq Names
    /\ services \subseteq Keys

\* At every moment each plugin of the order comes after all those its Inject
\* leads to, whatever the names and however the list was given.
OrderTopological ==
    \A i \in DOMAIN order :
        Edges(list, order[i]) \subseteq {order[j] : j \in 1 .. i - 1}

\* Some plugins of the list depend on one another in a circle: a set of them in
\* which each depends on one of the set.
Cyclic ==
    \E S \in (SUBSET NamesOf(list)) \ {{}} : \A n \in S : Edges(list, n) \cap S # {}

\* A cycle is reported exactly when there is one, and then no plugin was loaded.
CycleReported ==
    /\ err = "cycle" => Cyclic
    /\ phase \in {"load", "returned"} /\ err # "duplicate" /\ Cyclic
          => err = "cycle" /\ loaded = {}

\* What is loaded, in order: every plugin of the list exactly once.
OrderComplete ==
    phase = "load" =>
        /\ {order[i] : i \in DOMAIN order} = NamesOf(list)
        /\ Len(order) = Len(list)

\* A plugin whose injected keys all are put there by the plugin its declaration
\* leads to never fails for a missing dependency: the order is good enough for
\* Load's own check of Inject.
ProvidersServeConsumers ==
    err = "missing" =>
        LET p == Of(list, order[next])
        IN \E i \in DOMAIN p.inject :
             \A n \in DependsOn(list, p.inject[i]) : p.inject[i] \notin Of(list, n).puts

\* LoadPlugins returns, cycles or not.
Returns == <>(phase = "returned")

\* The doc comment: a reference to an unknown plugin (a key that no plugin of the
\* list stands for, and that the parent does not have) is reported before any
\* plugin is loaded.
UnknownReportedFirst ==
    err = "missing" /\ (\E i \in DOMAIN Inject(list, order[next]) :
                          /\ DependsOn(list, Inject(list, order[next])[i]) = {}
                          /\ Inject(list, order[next])[i] \notin services)
    => loaded = {}
=============================================================================
