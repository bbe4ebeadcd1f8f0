--------------------------- MODULE StdioTransport ---------------------------
(***************************************************************************)
(* The stdio transport of internal/mcp: calls of Send share a child process *)
(* (an MCP server), one goroutine reads its output and hands each answer to *)
(* the call that waits for it, and restarts a process that has gone, up to  *)
(* a limit.  Close may come at any moment.                                  *)
(***************************************************************************)
EXTENDS Naturals, Sequences, FiniteSets

CONSTANTS
    Requests,    \* one for each call of Send; the counter reqID gives each an
                 \* id of its own, which is the request itself here
    Impatient,   \* the calls whose context may be cancelled
    MaxRetries   \* restarts the transport attempts

ASSUME StdioTransportAssumption ==
    /\ IsFiniteSet(Requests) /\ Impatient \subseteq Requests
    /\ MaxRetries \in Nat

Processes == 1 .. MaxRetries + 1
NoProcess == 0
Failure == "failure"   \* failPending's error response
TooLong == "too long"  \* a line that is over the scanner's megabyte

VARIABLES
    state,    \* each process: "unborn", "alive" or "dead"
    asked,    \* the requests a process has not answered
    said,     \* those it has, and may yet answer again
    out,      \* its lines that are not read yet
    cmd,      \* t.cmd, t.stdin and t.stdout: the process they belong to
    closed, retries, pending,
    chan,     \* the channel each Send made, of capacity one
    sends,    \* each Send: where it is, the stdin it took, what it got
    reader,   \* readLoop and tryRestart: one goroutine, or the next it starts
    closer,   \* where Close is
    victim    \* the process it has taken to kill

vars == <<state, asked, said, out, cmd, closed, retries, pending, chan, sends, reader, closer, victim>>

-----------------------------------------------------------------------------
Init ==
    /\ state = [p \in Processes |-> IF p = 1 THEN "alive" ELSE "unborn"]
    /\ asked = [p \in Processes |-> {}] /\ said = [p \in Processes |-> {}]
    /\ out = [p \in Processes |-> <<>>]
    /\ cmd = 1 /\ closed = FALSE /\ retries = 0 /\ pending = {}
    /\ chan = [r \in Requests |-> <<>>]
    /\ sends = [r \in Requests |-> [pc |-> "new", stdin |-> NoProcess, got |-> Failure]]
    /\ reader = [pc |-> "read", proc |-> 1, to |-> {}, line |-> Failure]
    /\ closer = "idle" /\ victim = NoProcess

\* Send, under mu: refuse a closed transport, else enter the channel.
Register(r) ==
    /\ sends[r].pc = "new"
    /\ IF closed
       THEN sends' = [sends EXCEPT ![r].pc = "error"] /\ UNCHANGED pending
       ELSE /\ pending' = pending \cup {r}
            /\ sends' = [sends EXCEPT ![r].pc = "write", ![r].stdin = cmd]
    /\ UNCHANGED <<state, asked, said, out, cmd, closed, retries, chan, reader, closer, victim>>

\* The write, without mu; to a process that is gone it fails, and the channel
\* stays in pending.
Write(r) ==
    LET p == sends[r].stdin
    IN /\ sends[r].pc = "write"
       /\ IF state[p] = "alive"
          THEN asked' = [asked EXCEPT ![p] = @ \cup {r}] /\ sends' = [sends EXCEPT ![r].pc = "wait"]
          ELSE sends' = [sends EXCEPT ![r].pc = "error"] /\ UNCHANGED asked
       /\ UNCHANGED <<state, said, out, cmd, closed, retries, pending, chan, reader, closer, victim>>

Receive(r) ==
    /\ sends[r].pc = "wait" /\ chan[r] # <<>>
    /\ chan' = [chan EXCEPT ![r] = Tail(@)]
    /\ sends' = [sends EXCEPT ![r].pc = IF Head(chan[r]) = Failure THEN "error" ELSE "ok",
                              ![r].got = Head(chan[r])]
    /\ UNCHANGED <<state, asked, said, out, cmd, closed, retries, pending, reader, closer, victim>>

\* Its context is cancelled; the channel stays in pending.
Cancel(r) ==
    /\ sends[r].pc = "wait" /\ r \in Impatient
    /\ sends' = [sends EXCEPT ![r].pc = "error"]
    /\ UNCHANGED <<state, asked, said, out, cmd, closed, retries, pending, chan, reader, closer, victim>>

-----------------------------------------------------------------------------
\* The server (no part of the repository): it answers in any order, may answer
\* again, may answer with an overlong line, and may die with lines in its pipe.
Answer(p, r) ==
    /\ state[p] = "alive" /\ r \in asked[p]
    /\ asked' = [asked EXCEPT ![p] = @ \ {r}]
    /\ said' = [said EXCEPT ![p] = @ \cup {r}]
    /\ \E line \in {r, TooLong} : out' = [out EXCEPT ![p] = Append(@, line)]
    /\ UNCHANGED <<state, cmd, closed, retries, pending, chan, sends, reader, closer, victim>>

AnswerAgain(p, r) ==
    /\ state[p] = "alive" /\ r \in said[p]
    /\ said' = [said EXCEPT ![p] = @ \ {r}]
    /\ out' = [out EXCEPT ![p] = Append(@, r)]
    /\ UNCHANGED <<state, asked, cmd, closed, retries, pending, chan, sends, reader, closer, victim>>

Die(p) ==
    /\ state[p] = "alive"
    /\ state' = [state EXCEPT ![p] = "dead"]
    /\ UNCHANGED <<asked, said, out, cmd, closed, retries, pending, chan, sends, reader, closer, victim>>

-----------------------------------------------------------------------------
\* readLoop: one line.  Under mu the channel of its id is taken out of pending;
\* a line nobody waits for is dropped.
AnyWaiting(id) == pending
Waiting(id) == pending \cap {id}

LeftIn(r) == pending
TakenOut(r) == pending \ {r}

Read ==
    LET line == Head(out[reader.proc])
    IN /\ reader.pc = "read" /\ out[reader.proc] # <<>> /\ line # TooLong
       /\ out' = [out EXCEPT ![reader.proc] = Tail(@)]
       /\ \/ \E r \in Waiting(line) :
                /\ pending' = TakenOut(r)
                /\ reader' = [reader EXCEPT !.pc = "deliver", !.to = {r}, !.line = line]
          \/ Waiting(line) = {} /\ UNCHANGED <<pending, reader>>
       /\ UNCHANGED <<state, asked, said, cmd, closed, retries, chan, sends, closer, victim>>

\* The send into the channel, without mu; it would block on a full one.
Lost(q, x) == q
Put(q, x) == Append(q, x)

Deliver ==
    /\ reader.pc = "deliver" /\ \A r \in reader.to : chan[r] = <<>>
    /\ chan' = [r \in Requests |->
                  IF r \in reader.to THEN Put(chan[r], reader.line) ELSE chan[r]]
    /\ reader' = [reader EXCEPT !.pc = "read", !.to = {}, !.line = Failure]
    /\ UNCHANGED <<state, asked, said, out, cmd, closed, retries, pending, sends, closer, victim>>

\* The scanner stops: at the end of the output, or at an overlong line (then the
\* process may be alive, and nobody reads it any more).  Closed is read under mu,
\* and not looked at again.
Stop ==
    /\ reader.pc = "read"
    /\ IF out[reader.proc] = <<>> THEN state[reader.proc] = "dead"
                                  ELSE Head(out[reader.proc]) = TooLong
    /\ reader' = [reader EXCEPT !.pc = IF closed THEN "gone" ELSE "restart"]
    /\ UNCHANGED <<state, asked, said, out, cmd, closed, retries, pending, chan, sends, closer, victim>>

\* tryRestart: count the attempt, or give up.
OneMore == retries > MaxRetries
Exhausted == retries >= MaxRetries

Retry ==
    /\ reader.pc = "restart"
    /\ IF Exhausted
       THEN reader' = [reader EXCEPT !.pc = "fail"] /\ UNCHANGED retries
       ELSE reader' = [reader EXCEPT !.pc = "start"] /\ retries' = retries + 1
    /\ UNCHANGED <<state, asked, said, out, cmd, closed, pending, chan, sends, closer, victim>>

\* startProcess: the process starts, or does not.
Start ==
    /\ reader.pc = "start"
    /\ \/ /\ state' = [state EXCEPT ![retries + 1] = "alive"]
          /\ reader' = [reader EXCEPT !.pc = "publish", !.proc = retries + 1]
       \/ reader' = [reader EXCEPT !.pc = "fail"] /\ UNCHANGED state
    /\ UNCHANGED <<asked, said, out, cmd, closed, retries, pending, chan, sends, closer, victim>>

\* Under mu: it becomes the transport's process; the next readLoop begins.
Publish ==
    /\ reader.pc = "publish"
    /\ cmd' = reader.proc
    /\ reader' = [reader EXCEPT !.pc = "read"]
    /\ UNCHANGED <<state, asked, said, out, closed, retries, pending, chan, sends, closer, victim>>

\* failPending, under mu: every call in pending is told.  One full channel would
\* block it for ever, and with it everyone who wants mu.
NoOne == {}
Everyone == pending

FailPending ==
    /\ reader.pc = "fail" /\ \A r \in Everyone : chan[r] = <<>>
    /\ chan' = [r \in Requests |-> IF r \in Everyone THEN <<Failure>> ELSE chan[r]]
    /\ pending' = {}
    /\ reader' = [reader EXCEPT !.pc = "gone"]
    /\ UNCHANGED <<state, asked, said, out, cmd, closed, retries, sends, closer, victim>>

-----------------------------------------------------------------------------
\* Close: under mu mark the transport and take its process, then kill it.
\* Nothing tells the calls that wait.
CloseMark ==
    /\ closer = "idle"
    /\ closed' = TRUE /\ closer' = "kill"
    /\ victim' = cmd
    /\ UNCHANGED <<state, asked, said, out, cmd, retries, pending, chan, sends, reader>>

CloseKill ==
    /\ closer = "kill"
    /\ state' = [state EXCEPT ![victim] = "dead"]
    /\ closer' = "closed"
    /\ UNCHANGED <<asked, said, out, cmd, closed, retries, pending, chan, sends, reader, victim>>

SendStep(r) == Register(r) \/ Write(r) \/ Receive(r)
ReaderStep ==
    Read \/ Deliver \/ Stop \/ Retry \/ Start \/ Publish \/ FailPending

Next ==
    \/ \E r \in Requests : SendStep(r) \/ Cancel(r)
    \/ \E p \in Processes : Die(p) \/ \E r \in Requests : Answer(p, r) \/ AnswerAgain(p, r)
    \/ ReaderStep \/ CloseMark \/ CloseKill

\* As long as a goroutine of the transport can go on, or a server has a request
\* to answer, something happens.  Nobody has to call Send or Close, no process
\* has to die.
Running ==
    \/ \E r \in Requests : Write(r) \/ Receive(r)
    \/ \E p \in Processes, r \in Requests : Answer(p, r)
    \/ ReaderStep \/ CloseKill

Spec == Init /\ [][Next]_vars /\ WF_vars(Running)

-----------------------------------------------------------------------------
SendState == [pc : {"new", "write", "wait", "ok", "error"},
              stdin : Processes \cup {NoProcess}, got : Requests \cup {Failure}]
ReaderState == [pc : {"read", "deliver", "restart", "start", "publish", "fail", "gone"},
                proc : Processes, to : SUBSET Requests, line : Requests \cup {Failure}]
Content == {<<>>} \cup {<<x>> : x \in Requests \cup {Failure}}

TypeOK ==
    /\ state \in [Processes -> {"unborn", "alive", "dead"}]
    /\ asked \in [Processes -> SUBSET Requests] /\ said \in [Processes -> SUBSET Requests]
    /\ out \in [Processes -> Seq(Requests \cup {TooLong})]
    /\ cmd \in Processes /\ closed \in BOOLEAN /\ retries \in 0 .. MaxRetries
    /\ pending \subseteq Requests
    /\ chan \in [Requests -> Content] /\ sends \in [Requests -> SendState]
    /\ reader \in ReaderState
    /\ closer \in {"idle", "kill", "closed"} /\ victim \in Processes \cup {NoProcess}

\* A Send that succeeds has the answer to its own request, across restarts and
\* whatever the server repeats.
AnswersOwnRequest == \A r \in Requests : sends[r].pc = "ok" => sends[r].got = r

\* The reader never meets a full channel, neither with an answer nor, holding mu,
\* with a failure: it cannot block, though it never waits for a Send to take what
\* it is given and a server may answer twice.
NeverBlocksOnChannel ==
    /\ reader.pc = "deliver" => \A r \in reader.to : chan[r] = <<>>
    /\ reader.pc = "fail" => \A r \in pending : chan[r] = <<>>

\* When the transport has given up (it was not closed, and each process came to
\* its end) no Send is left waiting for an answer that cannot come, not even one
\* that wrote to an earlier process or registered while the reader was giving up.
CameToItsEnd(p) ==
    state[p] # "alive" /\ \A i \in DOMAIN out[p] : out[p][i] # TooLong

NobodyLeftWaiting ==
    reader.pc = "gone" /\ ~closed /\ (\A p \in Processes : CameToItsEnd(p))
        => \A r \in Requests : sends[r].pc = "wait" => chan[r] # <<>>

\* A Send that waits returns, unless the transport is closed or its process has
\* had to be restarted.
SendReturns ==
    (\E r \in Requests : sends[r].pc = "wait")
        ~> (\A r \in Requests : sends[r].pc # "wait") \/ closed \/ retries > 0

\* Close kills the process: once it has returned, and the reader is not starting
\* another, nothing the transport started is running.
CloseLeavesNoProcess ==
    closer = "closed" /\ reader.pc \in {"read", "gone"}
        => \A p \in Processes : state[p] # "alive"
=============================================================================
