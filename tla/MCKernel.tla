------------------------------ MODULE MCKernel ------------------------------
(***************************************************************************)
(* Small kernels for TLC.  Plugin 1 provides a service, plugin 2 injects   *)
(* and uses it and provides one of its own, plugin 3 only has effects and  *)
(* a listener and may fail.  "session" is an isolated scope.               *)
(***************************************************************************)
EXTENDS Kernel

MCPlugins == 1 .. 3
MCKeys == {"llm", "tools"}
MCIsolates == {"session"}
MCPrivate == [b \in MCIsolates |-> {}]
MCInject == [p \in MCPlugins |-> IF p = 2 THEN <<"llm">> ELSE <<>>]

Do(kind, key) == [kind |-> kind, key |-> key]
MCScript ==
    << <<Do("effect", "llm"), Do("provide", "llm"), Do("on", "llm")>>,
       <<Do("use", "llm"), Do("provide", "tools"), Do("on", "tools")>>,
       <<Do("effect", "llm"), Do("on", "llm")>> >>

\* Plugins 1 and 2 provide one key.
MCShadowing ==
    << <<Do("provide", "llm")>>, <<Do("provide", "llm")>>, <<>> >>
MCNoInject == [p \in MCPlugins |-> <<>>]

Ask(op, names) == [op |-> op, names |-> names, parent |-> Root]
AskIn(op, names) == [Ask(op, names) EXCEPT !.parent = "session"]

\* The requests about one plugin.
About(p) == {Ask("load", <<p>>), Ask("unload", <<p>>), Ask("reload", <<p>>)}

\* One goroutine makes every kind of call; or two share the plugins out, each
\* plugin's calls coming from one of them (no shutdown: it reaches all of them),
\* the provider and its consumer from one goroutine or from two.
OneDriver ==
    [c \in {"a", "b"} |->
        IF c = "a" THEN UNION {About(p) : p \in MCPlugins} \cup
                        {Ask("loadplugins", <<1, 2>>), Ask("shutdown", <<>>),
                         AskIn("load", <<2>>), AskIn("reload", <<3>>)}
                   ELSE {}]
SharedOut ==
    [c \in {"a", "b"} |->
        IF c = "a" THEN About(1) \cup About(2) ELSE About(3) \cup {AskIn("load", <<3>>)}]
Split == [c \in {"a", "b"} |-> IF c = "a" THEN About(1) ELSE About(2)]
Apart == {OneDriver, SharedOut, Split}

\* Two goroutines load and unload the same plugin.
Together == {[c \in {"a", "b"} |-> About(1)]}

\* Where each plugin has its goroutine, the plugins and the profiles are as the
\* theorems of KernelProofs ask.
ASSUME MCApart ==
    Profiles = Apart /\ Script = MCScript =>
        PluginsApart /\ ProvidedOnce /\ IsolatesOnlyListen
=============================================================================
