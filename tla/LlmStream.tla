----------------------------- MODULE LlmStream -----------------------------
(***************************************************************************)
(* One LLMClient.Chat call: the goroutine of each provider's client that   *)
(* requests, retries and parses the SSE reply into a channel               *)
(* (internal/llm/{openai,anthropic,deepseek,ollama}/client.go), the        *)
(* FallbackClient that tries the providers in turn and forwards the stream *)
(* of the first one that does not begin with an error (fallback.go), and   *)
(* the caller, which like every caller in the program reads until the      *)
(* stream is closed and stops at an error.                                 *)
(*                                                                         *)
(* A reply is up to ReplyLen lines; a failure is what the clients' tests   *)
(* of an error's type and text tell apart.  Sending an event and the close *)
(* that directly follows it are one step.                                  *)
(***************************************************************************)
EXTENDS Naturals, Sequences

CONSTANTS Chain,          \* the clients in order of priority
          MaxAttempts,    \* bound: requests a client makes (the code: 4, ollama 3)
          Capacity,       \* of a channel (64)
          ReplyLen        \* bound: lines of a reply's body

Clients == {Chain[i] : i \in 1 .. Len(Chain)}
Kinds == {"openai", "anthropic", "deepseek", "ollama"}

ASSUME LlmAssumption ==
    /\ Chain \in Seq(Clients) /\ Len(Chain) > 0
    /\ \A i, j \in 1 .. Len(Chain) : Chain[i] = Chain[j] => i = j
    /\ Clients \subseteq Kinds
    /\ MaxAttempts \in Nat \ {0}
    /\ Capacity \in Nat \ {0}
    /\ ReplyLen \in Nat

VARIABLES client,         \* client[p]: where the goroutine of p is, attempt, pieces read
          ch,             \* ch[p]: its event channel
          chat,           \* the call of Chat: pc and the provider it is at
          fwd,            \* fwd[p]: the forwarder of p, and the event it holds
          res,            \* res[p]: the channel the forwarder writes
          caller,         \* the caller: whether it still reads, what it received
          cancelled       \* its context

vars == <<client, ch, chat, fwd, res, caller, cancelled>>

(********************** what sets the clients apart ************************)

Types == {"text", "done", "error"}
Events == [from : Clients, attempt : Nat, n : Nat, type : Types]
Errors == {e \in Events : e.type = "error"}

Event(p, type) ==
    [from |-> p, attempt |-> client[p].attempt, n |-> client[p].n, type |-> type]

\* doRequest: how a request may fail.  "wait" is an answer 429 with a
\* Retry-After, "limited" one whose Retry-After is not there or not read,
\* "server" a 5xx answer.
OpenaiFailures == {"limited", "wait", "network", "server", "other"}
AnthropicFailures == {"limited", "wait", "network", "server", "other"}
DeepseekFailures == {"limited", "network", "server", "other"}
OllamaFailures == {"network", "server", "other"}

Failures(k) == CASE k = "openai" -> OpenaiFailures [] k = "anthropic" -> AnthropicFailures
                 [] k = "deepseek" -> DeepseekFailures [] k = "ollama" -> OllamaFailures

\* What is tried again: only the openai client's message of a 5xx answer is
\* spelt the way the test looks for, and ollama does not test.
OpenaiRetries == {"limited", "wait", "network", "server"}
AnthropicRetries == {"limited", "wait", "network"}
DeepseekRetries == {"limited", "network"}
OllamaRetries == OllamaFailures

Retries(k) == CASE k = "openai" -> OpenaiRetries [] k = "anthropic" -> AnthropicRetries
                [] k = "deepseek" -> DeepseekRetries [] k = "ollama" -> OllamaRetries

\* How often a client asks at most.
OpenaiAttempts == 4
AnthropicAttempts == 4
DeepseekAttempts == 4
OllamaAttempts == 3

Least(a, b) == IF a < b THEN a ELSE b

Attempts(k) == Least(MaxAttempts,
                     CASE k = "openai" -> OpenaiAttempts [] k = "anthropic" -> AnthropicAttempts
                       [] k = "deepseek" -> DeepseekAttempts [] k = "ollama" -> OllamaAttempts)

\* The parsers: what a line of the body makes a client emit, and whether it goes
\* on reading or returns.  Text; a line that does not parse, which openai tells
\* and the others skip; the end, or a finish reason that is known, too long
\* (openai tells it) or another one.
Line(emits, then) == [emits |-> emits, then |-> then]

\* The variant: no return after done.
StillReading == "stream"
AfterDone == "ended"

OpenaiLines == {Line("text", "stream"), Line("error", "stream"), Line("done", AfterDone),
                Line("error", "ended"), Line("nothing", "ended")}
AnthropicLines == {Line("text", "stream"), Line("nothing", "stream"), Line("done", AfterDone)}
DeepseekLines == {Line("text", "stream"), Line("nothing", "stream"), Line("done", AfterDone)}
OllamaLines == {Line("text", "stream"), Line("nothing", "stream"), Line("done", AfterDone)}

Lines(k) == CASE k = "openai" -> OpenaiLines [] k = "anthropic" -> AnthropicLines
              [] k = "deepseek" -> DeepseekLines [] k = "ollama" -> OllamaLines

\* What the deepseek parser emits when the body has ended or has broken off.
AtEndOfBody(k) == IF k = "deepseek" THEN "done" ELSE "nothing"

(******************************** the clients ******************************)

Ended(p) == client[p].pc = "ended"

Become(p, c) == client' = [client EXCEPT ![p] = c]
Goto(p, pc) == Become(p, [client[p] EXCEPT !.pc = pc])

\* eventCh <- e blocks while the channel is full and watches nothing else.
Send(p, type) == /\ Len(ch[p]) < Capacity
                 /\ ch' = [ch EXCEPT ![p] = Append(@, Event(p, type))]

Emit(p, type) == IF type = "nothing" THEN UNCHANGED ch ELSE Send(p, type)

\* Where the loop over the attempts goes after failure f.
AfterFailure(p, f) ==
    IF f \in Retries(p) /\ client[p].attempt < Attempts(p)
    THEN IF f = "wait" THEN "wait" ELSE "backoff"
    ELSE "giveup"

Requested(p) ==
    /\ client[p].pc = "request" /\ ~cancelled
    /\ Become(p, [client[p] EXCEPT !.pc = "stream", !.n = 0])
    /\ UNCHANGED ch

RequestFails(p) ==
    /\ client[p].pc = "request"
    /\ \E f \in Failures(p) : (cancelled => f = "other") /\ Goto(p, AfterFailure(p, f))
    /\ UNCHANGED ch

ReadsLine(p) ==
    /\ client[p].pc = "stream"
    /\ \E line \in Lines(p) :
          /\ line.then = "stream" => client[p].n < ReplyLen
          /\ Emit(p, line.emits)
          /\ Become(p, [client[p] EXCEPT !.pc = line.then, !.n = @ + 1])

BodyEnds(p) ==
    /\ client[p].pc = "stream"
    /\ Emit(p, AtEndOfBody(p))
    /\ Goto(p, "ended")

BodyBreaks(p) ==
    /\ client[p].pc = "stream"
    /\ Emit(p, AtEndOfBody(p))
    /\ \E f \in {"network", "other"} : Goto(p, AfterFailure(p, f))

RetryAfter(p) ==
    /\ client[p].pc = "wait"
    /\ \/ Goto(p, "backoff") /\ UNCHANGED ch
       \/ cancelled /\ Send(p, "error") /\ Goto(p, "ended")

Backoff(p) ==
    /\ client[p].pc = "backoff"
    /\ \/ /\ Become(p, [client[p] EXCEPT !.pc = "request", !.attempt = @ + 1])
          /\ UNCHANGED ch
       \/ cancelled /\ Send(p, "error") /\ Goto(p, "ended")

GivesUp(p) ==
    /\ client[p].pc = "giveup"
    /\ Send(p, "error")
    /\ Goto(p, "ended")

Client(p) ==
    /\ \/ Requested(p) \/ RequestFails(p) \/ ReadsLine(p) \/ BodyEnds(p) \/ BodyBreaks(p)
       \/ RetryAfter(p) \/ Backoff(p) \/ GivesUp(p)
    /\ UNCHANGED <<chat, fwd, res, caller, cancelled>>

(********************************* Fallback ********************************)

Current == Chain[chat.i]

Started(p) == [client EXCEPT ![p].pc = "request", ![p].attempt = 1]

\* The next provider of the chain, or the failure of the whole call.
TryNext ==
    /\ chat.pc = "try"
    /\ IF cancelled \/ chat.i = Len(Chain)
       THEN chat' = [chat EXCEPT !.pc = "failed"] /\ UNCHANGED client
       ELSE /\ chat' = [pc |-> "first", i |-> chat.i + 1]
            /\ client' = Started(Chain[chat.i + 1])
    /\ UNCHANGED <<ch, fwd, res, caller, cancelled>>

\* The forwarder is started, with the first event in its channel, before the
\* event is looked at: a stream that begins with an error is left to it.
\* The variant: the event that was looked at is gone.
OpeningLost(e) == <<>>
Opening(e) == <<e>>
FirstEvent ==
    LET p == Current  e == Head(ch[p]) IN
    /\ chat.pc = "first" /\ ch[p] # <<>>
    /\ ch' = [ch EXCEPT ![p] = Tail(@)]
    /\ res' = [res EXCEPT ![p] = Opening(e)]
    /\ fwd' = [fwd EXCEPT ![p].pc = "running"]
    /\ chat' = [chat EXCEPT !.pc = IF e.type = "error" THEN "try" ELSE "returned"]
    /\ UNCHANGED <<client, caller, cancelled>>

ClosedAtOnce ==
    /\ chat.pc = "first" /\ ch[Current] = <<>> /\ Ended(Current)
    /\ chat' = [chat EXCEPT !.pc = "try"]
    /\ UNCHANGED <<client, ch, fwd, res, caller, cancelled>>

Take(p) ==
    /\ fwd[p].pc = "running" /\ fwd[p].held = <<>> /\ ch[p] # <<>>
    /\ fwd' = [fwd EXCEPT ![p].held = <<Head(ch[p])>>]
    /\ ch' = [ch EXCEPT ![p] = Tail(@)]
    /\ UNCHANGED <<client, chat, res, caller, cancelled>>

Put(p) ==
    /\ fwd[p].held # <<>> /\ Len(res[p]) < Capacity
    /\ res' = [res EXCEPT ![p] = @ \o fwd[p].held]
    /\ fwd' = [fwd EXCEPT ![p].held = <<>>]
    /\ UNCHANGED <<client, ch, chat, caller, cancelled>>

\* The variant: no deferred close of the result channel.
NeverDrained(p) == FALSE
Drained(p) == ch[p] = <<>> /\ Ended(p)
Closes(p) ==
    /\ fwd[p].pc = "running" /\ fwd[p].held = <<>> /\ Drained(p)
    /\ fwd' = [fwd EXCEPT ![p].pc = "ended"]
    /\ UNCHANGED <<client, ch, chat, res, caller, cancelled>>

(********************************* the caller ******************************)

\* The caller holds the client's own channel when the program is wired without
\* a FallbackClient, as internal/build.go wires it.
Direct == chat.pc = "direct"
Readable == IF Direct THEN ch[Current] ELSE res[Current]
Shut == IF Direct THEN Ended(Current) ELSE fwd[Current].pc = "ended"
Returned == chat.pc \in {"direct", "returned"}

Read ==
    /\ caller.reads /\ Returned /\ Readable # <<>>
    /\ LET e == Head(Readable) IN
       caller' = [got |-> Append(caller.got, e), reads |-> e.type # "error"]
    /\ IF Direct THEN ch' = [ch EXCEPT ![Current] = Tail(@)] /\ UNCHANGED res
                 ELSE res' = [res EXCEPT ![Current] = Tail(@)] /\ UNCHANGED ch
    /\ UNCHANGED <<client, chat, fwd, cancelled>>

ReadsToEnd ==
    /\ caller.reads
    /\ \/ chat.pc = "failed"
       \/ Returned /\ Readable = <<>> /\ Shut
    /\ caller' = [caller EXCEPT !.reads = FALSE]
    /\ UNCHANGED <<client, ch, chat, fwd, res, cancelled>>

Cancel == /\ ~cancelled /\ caller.reads
          /\ cancelled' = TRUE
          /\ UNCHANGED <<client, ch, chat, fwd, res, caller>>

(******************************* specification *****************************)

Idle == [p \in Clients |-> [pc |-> "idle", attempt |-> 0, n |-> 0]]

Init ==
    /\ \/ /\ chat = [pc |-> "try", i |-> 0]
          /\ client = Idle
       \/ /\ chat = [pc |-> "direct", i |-> 1]
          /\ client = [Idle EXCEPT ![Chain[1]] = [pc |-> "request", attempt |-> 1, n |-> 0]]
    /\ ch = [p \in Clients |-> <<>>]
    /\ fwd = [p \in Clients |-> [pc |-> "off", held |-> <<>>]]
    /\ res = [p \in Clients |-> <<>>]
    /\ caller = [reads |-> TRUE, got |-> <<>>]
    /\ cancelled = FALSE

Chats == TryNext \/ FirstEvent \/ ClosedAtOnce
Forwards(p) == Take(p) \/ Put(p) \/ Closes(p)
Calls == Read \/ ReadsToEnd

Next == \/ Chats \/ Calls \/ Cancel
        \/ \E p \in Clients : Client(p) \/ Forwards(p)

\* Goroutines are scheduled, timers fire, and http.Client.Timeout bounds both a
\* request and the reading of its body.  Nobody has to cancel.
Fairness == /\ WF_vars(Chats) /\ WF_vars(Calls)
            /\ \A p \in Clients : WF_vars(Client(p)) /\ WF_vars(Forwards(p))

Spec == Init /\ [][Next]_vars
FairSpec == Spec /\ Fairness

(********************************* properties ******************************)

TypeOK ==
    /\ client \in [Clients -> [pc : {"idle", "request", "stream", "wait", "backoff",
                                     "giveup", "ended"},
                               attempt : Nat, n : Nat]]
    /\ ch \in [Clients -> Seq(Events)] /\ res \in [Clients -> Seq(Events)]
    /\ chat \in [pc : {"try", "first", "returned", "failed", "direct"}, i : 0 .. Len(Chain)]
    /\ fwd \in [Clients -> [pc : {"off", "running", "ended"}, held : Seq(Events)]]
    /\ caller \in [reads : BOOLEAN, got : Seq(Events)]
    /\ cancelled \in BOOLEAN

\* What the client the call is at has emitted and the caller has not received.
InFlight == IF chat.pc \in {"first", "returned", "direct"}
            THEN res[Current] \o fwd[Current].held \o ch[Current]
            ELSE <<>>

\* Two channels, a forwarder and a failover behave as one stream: what the
\* caller receives is what one client emitted, in order, nothing missing at the
\* front or in between, and a provider is given up only before that, for a stream
\* that begins with an error or is empty (fallback.go Chat, the clients' goroutines).
Stream == INSTANCE EventStream WITH
              Events <- Events, Errors <- Errors, queue <- InFlight,
              got <- caller.got, over <- ~caller.reads
IsOneStream == Stream!Spec

\* After "done" a client emits nothing more, neither a second "done" nor text
\* of a further attempt ("return to prevent double-done", openai/client.go:241),
\* and whatever the caller received ends with it.  The deepseek client is left
\* out: it says "done" of a body that broke, and then retries.
DoneIsLast ==
    \A p \in Clients \ {"deepseek"} :
        LET all == caller.got \o res[p] \o fwd[p].held \o ch[p]
        IN  \A i \in 1 .. Len(all) :
                all[i].from = p /\ all[i].type = "done"
                    => Ended(p) /\ \A j \in i + 1 .. Len(all) : all[j].from # p

\* Every call is answered: its stream ends or it fails, whatever the providers
\* do, and while an abandoned provider's stream is left unread.
CallIsAnswered == <>(~caller.reads)

\* Text is not repeated: what is wrong is that a reply that broke off is asked
\* for again after its first pieces have been passed on.
TextOnce ==
    \A i, j \in 1 .. Len(caller.got) :
        LET a == caller.got[i]  b == caller.got[j] IN
        a.type = "text" /\ b.type = "text" => a.attempt = b.attempt

\* Every goroutine ends: what is wrong is that a caller that stops at an error
\* leaves the writers behind it blocked on a full channel.
NobodyLeftWriting ==
    \A p \in Clients : (client[p].pc = "request") ~> Ended(p)
=============================================================================
