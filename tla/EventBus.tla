------------------------------ MODULE EventBus ------------------------------
(***************************************************************************)
(* The kernel's event bus (core/event.go).  A listener is the registration *)
(* it stands for; a dispatch takes a snapshot of the listeners of its      *)
(* event and calls them without the lock, in one of five ways.  What a     *)
(* handler does is the parameter "reply" of Invoke: it calls next, returns *)
(* a value, returns nil, or fails; and of Leave, what it makes of the      *)
(* answer its next gave: passes it on, or returns another one instead.     *)
(*                                                                         *)
(* Left out: what a value is, a handler that calls next twice, panics.     *)
(***************************************************************************)
EXTENDS Naturals, Sequences, SequencesExt

CONSTANTS
    Goroutines,     \* what dispatches
    Events,
    Listeners,      \* the registrations there may be
    EventOf,        \* EventOf[l]: the event of listener l
    IsOnce          \* IsOnce[l]: it was registered with Once

ASSUME ListenersAssumption ==
    /\ EventOf \in [Listeners -> Events]
    /\ IsOnce \in [Listeners -> BOOLEAN]

VARIABLES
    listeners,      \* Kernel.listeners: event -> registrations in order
    removed,        \* the registrations that were removed
    dispatch,       \* what each goroutine dispatches
    spent           \* Once listeners some finished dispatch has called

busVars == <<listeners, removed, dispatch, spent>>

Modes == {"emit", "waterfall", "parallel", "serial", "bail"}
Replies == {"next", "value", "nil", "error"}

(* todo is the snapshot not yet called, open what has been called and has   *)
(* not returned (in a waterfall those that wait in next, too), called every *)
(* Once listener this dispatch has called, result what it will return or,   *)
(* when a waterfall is unwinding, what next has returned to the innermost.  *)
NoDispatch ==
    [mode |-> "emit", todo |-> <<>>, open |-> <<>>, called |-> {}, unwinding |-> FALSE,
     result |-> "nil"]

Dispatches ==
    [mode : Modes, todo : Seq(Listeners), open : Seq(Listeners),
     called : SUBSET Listeners, unwinding : BOOLEAN, result : Replies]

BusInit ==
    /\ listeners = [e \in Events |-> <<>>]
    /\ removed = {}
    /\ dispatch = [g \in Goroutines |-> NoDispatch]
    /\ spent = {}

Registered(l) == l \in Range(listeners[EventOf[l]])

Idle(g) == dispatch[g].todo = <<>> /\ dispatch[g].open = <<>>

-----------------------------------------------------------------------------
On(l) ==
    /\ ~Registered(l)
    /\ l \notin removed
    /\ listeners' = [listeners EXCEPT ![EventOf[l]] = Append(@, l)]
    /\ UNCHANGED <<removed, dispatch, spent>>

(* removeListener; it does nothing when the listener is gone already.       *)
RemoveListener(l) ==
    /\ listeners' = [listeners EXCEPT ![EventOf[l]] = RemoveFirst(@, l)]
    /\ removed' = removed \union {l}

Off(l) ==
    /\ Registered(l)
    /\ RemoveListener(l)
    /\ UNCHANGED <<dispatch, spent>>

-----------------------------------------------------------------------------
(* handlers(event): the snapshot.                                           *)
Dispatch(g, mode, event) ==
    /\ Idle(g)
    /\ dispatch' = [dispatch EXCEPT ![g] = [NoDispatch EXCEPT !.mode = mode,
                                                              !.todo = listeners[event]]]
    /\ UNCHANGED <<listeners, removed, spent>>

(* Whose turn it is: in a parallel dispatch everyone's, in the others the   *)
(* next one's when the one before has returned or, in a waterfall, called   *)
(* next.                                                                    *)
Turn(d) ==
    IF d.mode = "parallel" THEN Range(d.todo)
    ELSE {l \in Range(d.todo) : l = Head(d.todo) /\ (d.open = <<>> \/ d.mode = "waterfall")}

(* Whether the rest of the listeners is not called after this reply.        *)
Stops(mode, reply) ==
    \/ mode = "waterfall" /\ reply # "next"
    \/ mode = "serial" /\ reply = "error"
    \/ mode = "bail" /\ reply \in {"error", "value", "next"}

(* noopNext returns the payload, so outside a waterfall "next" is a value.  *)
(* In a waterfall the chain's end returns the payload.                      *)
Result(d, reply) ==
    LET r == IF reply = "next" THEN "value" ELSE reply
    IN  CASE d.mode = "emit" -> "nil"
          [] d.mode = "parallel" -> IF "error" \in {d.result, r} THEN "error" ELSE "nil"
          [] d.mode = "waterfall" -> r
          [] d.mode = "serial" -> IF r = "nil" THEN d.result ELSE r
          [] d.mode = "bail" -> r

Invoke(g, l, reply) ==
    LET d == dispatch[g]
    IN  /\ l \in Turn(d)
        /\ dispatch' = [dispatch EXCEPT ![g] =
               [d EXCEPT !.todo = IF Stops(d.mode, reply) THEN <<>> ELSE RemoveFirst(d.todo, l),
                         !.open = Append(d.open, l),
                         !.called = IF IsOnce[l] THEN d.called \union {l} ELSE d.called,
                         !.result = Result(d, reply)]]
        /\ UNCHANGED <<listeners, removed, spent>>

(* Which listeners may return: in a waterfall the innermost, and not before *)
(* the chain below it has come to its end.                                  *)
MayReturn(d) ==
    IF d.mode = "waterfall"
    THEN {l \in Range(d.open) : l = Last(d.open) /\ d.todo = <<>>}
    ELSE Range(d.open)

(* The variant: the wrapper of Once removes after a success only.           *)
RemovedOnSuccess(d, l) == IsOnce[l] /\ d.result # "error"

RemovedOnReturn(d, l) == IsOnce[l]

(* A listener returns; a Once listener is removed then.  With the last one  *)
(* the dispatch is over.  Whoever waited in next may put an answer of its   *)
(* own in the place of the one that comes back: "next" passes that one on.  *)
Leave(g, l, reply) ==
    LET d == dispatch[g]
        over == d.todo = <<>> /\ Len(d.open) = 1
    IN  /\ l \in MayReturn(d)
        /\ reply = "next" \/ d.unwinding
        /\ dispatch' = [dispatch EXCEPT ![g] =
               [d EXCEPT !.open = RemoveFirst(d.open, l),
                         !.unwinding = d.mode = "waterfall" /\ ~over,
                         !.result = IF reply = "next" THEN d.result ELSE reply]]
        /\ spent' = IF over THEN spent \union d.called ELSE spent
        /\ IF RemovedOnReturn(d, l) THEN RemoveListener(l) ELSE UNCHANGED <<listeners, removed>>

-----------------------------------------------------------------------------
BusTypeOK ==
    /\ listeners \in [Events -> Seq(Listeners)]
    /\ removed \subseteq Listeners
    /\ dispatch \in [Goroutines -> Dispatches]
    /\ spent \subseteq Listeners

(* Once a dispatch that called a Once listener has returned, no later       *)
(* dispatch calls that listener, whatever the mode, however the chain ended *)
(* and whoever else was calling it (event.go:23).                           *)
OnceIsOver == \A l \in spent : ~Registered(l)
=============================================================================
