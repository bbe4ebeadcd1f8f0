---------------------------- MODULE EventStream ----------------------------
(***************************************************************************)
(* What LLMClient.Chat promises its caller (pkg/interfaces.go): one stream *)
(* of events, received in the order they were emitted, with none missing   *)
(* and none of another stream in between.  A failover may throw away what  *)
(* was emitted, but only while the caller has received nothing, and only   *)
(* when it begins with an error.                                           *)
(***************************************************************************)
EXTENDS Naturals, Sequences

CONSTANTS Events,         \* what a client may emit
          Errors          \* the events that report a failure

VARIABLES queue,          \* emitted, not yet received
          got,            \* received by the caller, in order
          over            \* the caller no longer reads

vars == <<queue, got, over>>

Init == queue = <<>> /\ got = <<>> /\ over = FALSE

Emit == /\ queue' \in Seq(Events) /\ Len(queue') = Len(queue) + 1
        /\ \A i \in 1 .. Len(queue) : queue'[i] = queue[i]
        /\ UNCHANGED <<got, over>>

Receive == /\ ~over /\ queue # <<>>
           /\ got' = Append(got, Head(queue))
           /\ queue' = Tail(queue)
           /\ over' \in BOOLEAN            \* it may be the last one it wants

\* The client emitting so far is given up for another.
GiveUp == /\ ~over /\ got = <<>>
          /\ queue # <<>> => Head(queue) \in Errors
          /\ queue' = <<>>
          /\ UNCHANGED <<got, over>>

\* The stream is closed, or the call failed before there was one.
End == /\ ~over /\ queue = <<>>
       /\ over' = TRUE
       /\ UNCHANGED <<queue, got>>

Next == Emit \/ Receive \/ GiveUp \/ End

Spec == Init /\ [][Next]_vars
=============================================================================
