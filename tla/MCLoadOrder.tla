---------------------------- MODULE MCLoadOrder -----------------------------
(***************************************************************************)
(* Every way three plugins can inject up to two of four keys (three plugin  *)
(* names and one service key), with every mix of honest and silent          *)
(* providers; lists in ascending and descending order, and one duplicate.   *)
(***************************************************************************)
EXTENDS LoadOrder

MCNames == 1 .. 3
Service == 4
MCKeys == MCNames \cup {Service}

Injections == {<<>>} \cup {<<a>> : a \in MCKeys} \cup
              {<<a, b>> : a \in MCKeys, b \in MCKeys}

\* Declares the service and puts it; puts a service of its own name undeclared,
\* as core's tests do; declares the service but puts nothing.
Manners(n) == {[provides |-> {Service}, puts |-> {Service}],
               [provides |-> {}, puts |-> {n}],
               [provides |-> {Service}, puts |-> {}]}

Make(n, inject, manner, faulty) ==
    [name |-> n, inject |-> inject, provides |-> manner.provides,
     puts |-> manner.puts, faulty |-> faulty]

Ascending(q) == \A i, j \in DOMAIN q : i < j => q[i] < q[j]
Some(n) == {Make(n, i, m, FALSE) : i \in {q \in Injections : Ascending(q)}, m \in Manners(n)}
Third == {Make(3, i, m, TRUE) : i \in {<<>>, <<1>>, <<2, 4>>}, m \in Manners(3)}

MCLists == {<<a, b, c>> : a \in Some(1), b \in Some(2), c \in Third} \cup
           {<<c, b>> : c \in Some(3), b \in Some(2)} \cup
           {<<c, b, a>> : c \in {Make(3, <<1, 2>>, m, FALSE) : m \in Manners(3)},
                          b \in Some(2), a \in Some(1)} \cup
           {<<a, a>> : a \in Some(1)}
=============================================================================
