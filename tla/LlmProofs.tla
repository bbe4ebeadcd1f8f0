----------------------------- MODULE LlmProofs -----------------------------
(***************************************************************************)
(* Chat's two channels, its forwarders and its failover implement one      *)
(* stream of events (EventStream), for any chain of clients, any capacity  *)
(* of the channels, any number of attempts and replies of any length.      *)
(***************************************************************************)
EXTENDS LlmStream, SequenceTheorems, TLAPS

-----------------------------------------------------------------------------
\* The event that Chat looked at, put back in front.
LEMMA FrontAgain ==
  ASSUME NEW S, NEW s \in Seq(S), s # <<>>
  PROVE  /\ Head(s) \in S /\ Tail(s) \in Seq(S) /\ <<Head(s)>> \in Seq(S)
         /\ <<Head(s)>> \o Tail(s) = s
<1>1. Head(s) \in S /\ Tail(s) \in Seq(S) /\ Len(Tail(s)) = Len(s) - 1
      /\ \A i \in 1 .. Len(Tail(s)) : Tail(s)[i] = s[i + 1]
  BY HeadTailProperties
<1>2. <<Head(s)>> \in Seq(S) /\ Len(<<Head(s)>>) = 1 /\ <<Head(s)>>[1] = s[1]
  BY <1>1
<1>3. Len(s) \in Nat \ {0}
  BY EmptySeq
<1> DEFINE a == <<Head(s)>>
           b == Tail(s)
<1>4. a \in Seq(S) /\ Len(a) = 1 /\ a[1] = s[1]
  BY <1>2
<1>5. b \in Seq(S) /\ Len(b) = Len(s) - 1 /\ \A i \in 1 .. Len(b) : b[i] = s[i + 1]
  <2>1. Tail(s) \in Seq(S) /\ Len(Tail(s)) = Len(s) - 1
        /\ \A i \in 1 .. Len(Tail(s)) : Tail(s)[i] = s[i + 1]
    BY <1>1, Zenon
  <2>2. b = Tail(s)
    OBVIOUS
  <2> HIDE DEF b
  <2>3. QED
    BY ONLY <2>1, <2>2, Zenon
<1> HIDE DEF a, b
<1>6. /\ a \o b \in Seq(S) /\ Len(a \o b) = Len(a) + Len(b)
      /\ \A i \in 1 .. Len(a) + Len(b) : (a \o b)[i] = IF i <= Len(a) THEN a[i] ELSE b[i - Len(a)]
  <2>1. a \in Seq(S) /\ b \in Seq(S)
    BY <1>4, <1>5
  <2>2. QED
    BY ONLY <2>1, ConcatProperties
<1>7. Len(a \o b) = Len(s) /\ \A i \in 1 .. Len(s) : (a \o b)[i] = s[i]
  BY <1>3, <1>4, <1>5, <1>6
<1>8. a \o b = s
  BY <1>6, <1>7, SeqEqual
<1>9. QED
  BY <1>1, <1>2, <1>8 DEF a, b

\* The first event of a queue in parts is the first of its first part.
LEMMA FrontOfParts ==
  ASSUME NEW S, NEW r \in Seq(S), NEW t \in Seq(S), r # <<>>
  PROVE  r \o t # <<>> /\ Head(r \o t) = Head(r) /\ Tail(r \o t) = Tail(r) \o t
<1> DEFINE h == <<Head(r)>>
           u == Tail(r)
<1>1. Head(r) \in S /\ u \in Seq(S) /\ h \in Seq(S) /\ h \o u = r
  BY FrontAgain
<1>2. h = Append(<<>>, Head(r))
  OBVIOUS
<1>3. r \o t = h \o (u \o t) /\ u \o t \in Seq(S)
  BY <1>1, ConcatAssociative, ConcatProperties
<1>4. Len(h) = 1 /\ h[1] = Head(r)
  OBVIOUS
<1> HIDE DEF h, u
<1> DEFINE q == h \o (u \o t)
<1>5. /\ q \in Seq(S) /\ Len(q) = 1 + Len(u \o t) /\ q[1] = Head(r)
      /\ \A i \in 1 .. Len(u \o t) : q[i + 1] = (u \o t)[i]
  <2>1. Len(u \o t) \in Nat
    BY <1>3, LenProperties
  <2>2. /\ q \in Seq(S) /\ Len(q) = Len(h) + Len(u \o t)
        /\ \A i \in 1 .. Len(h) + Len(u \o t) :
              q[i] = IF i <= Len(h) THEN h[i] ELSE (u \o t)[i - Len(h)]
    BY <1>1, <1>3, ConcatProperties
  <2>3. QED
    BY <1>4, <2>1, <2>2
<1> HIDE DEF q
<1>6. Len(u \o t) \in Nat
  BY <1>3, LenProperties
<1>7. q # <<>>
  BY <1>5, <1>6, EmptySeq
<1>8. Head(q) = Head(r)
  BY <1>5, <1>6, <1>7
<1>9. Tail(q) = u \o t
  <2>1. Tail(q) \in Seq(S) /\ Len(Tail(q)) = Len(q) - 1
        /\ \A i \in 1 .. Len(Tail(q)) : Tail(q)[i] = q[i + 1]
    BY <1>5, <1>7, HeadTailProperties
  <2>2. Len(Tail(q)) = Len(u \o t) /\ \A i \in 1 .. Len(Tail(q)) : Tail(q)[i] = (u \o t)[i]
    BY <1>5, <1>6, <2>1
  <2>3. QED
    BY <1>3, <2>1, <2>2, SeqEqual
<1>10. QED
  BY <1>3, <1>7, <1>8, <1>9 DEF q, u

\* An event emitted at the back.
LEMMA AtTheBack ==
  ASSUME NEW S, NEW a \in Seq(S), NEW b \in Seq(S), NEW e \in S
  PROVE  /\ a \o Append(b, e) \in Seq(S)
         /\ Len(a \o Append(b, e)) = Len(a \o b) + 1
         /\ \A i \in 1 .. Len(a \o b) : (a \o Append(b, e))[i] = (a \o b)[i]
<1>1. a \o b \in Seq(S) /\ <<e>> \in Seq(S)
  BY ConcatProperties
<1>2. a \o Append(b, e) = (a \o b) \o <<e>>
  BY <1>1, AppendIsConcat, ConcatAssociative
<1>3. a \o Append(b, e) = Append(a \o b, e)
  BY <1>1, <1>2, AppendIsConcat
<1>4. QED
  BY <1>1, <1>3, AppendProperties

-----------------------------------------------------------------------------
(***************************** the invariant *****************************)

ClientStates == [pc : {"idle", "request", "stream", "wait", "backoff", "giveup", "ended"},
                 attempt : Nat, n : Nat]
ForwarderStates == [pc : {"off", "running", "ended"}, held : Seq(Events)]
Off == [pc |-> "off", held |-> <<>>]

\* The providers Chat has not come to have done nothing.
Untouched ==
    \A j \in 1 .. Len(Chain) :
        j > chat.i => /\ client[Chain[j]].pc = "idle" /\ ch[Chain[j]] = <<>>
                      /\ res[Chain[j]] = <<>> /\ fwd[Chain[j]] = Off

AtAClient == chat.pc \in {"first", "returned", "direct"} => chat.i \in 1 .. Len(Chain)

\* Until Chat has returned the caller waits, and has received nothing.
NothingYet == chat.pc \in {"try", "first"} => caller.reads /\ caller.got = <<>>

\* A stream Chat waits for, or handed over as it is, has no forwarder yet.
NotForwarded ==
    chat.pc \in {"first", "direct"} => res[Current] = <<>> /\ fwd[Current] = Off

\* A forwarder that has closed its channel has left nothing behind.
LeavesNothing ==
    \A p \in Clients : fwd[p].pc = "ended" => fwd[p].held = <<>> /\ ch[p] = <<>> /\ Ended(p)

SInv == TypeOK /\ Untouched /\ AtAClient /\ NothingYet /\ NotForwarded /\ LeavesNothing

\* What the steps of a client come to.
Moves(p) == /\ client[p].pc \notin {"idle", "ended"}
            /\ \E c \in ClientStates : client' = [client EXCEPT ![p] = c]
Emits(p) == ch' = ch \/ \E e \in Events : ch' = [ch EXCEPT ![p] = Append(@, e)]

\* The chain names clients, each once.
LEMMA ChainNamesClients ==
  /\ Len(Chain) \in Nat \ {0}
  /\ \A i \in 1 .. Len(Chain) : Chain[i] \in Clients
  /\ \A i, j \in 1 .. Len(Chain) : Chain[i] = Chain[j] => i = j
<1>1. Len(Chain) \in Nat \ {0}
  BY LlmAssumption, LenProperties
<1>2. QED
  BY <1>1, LlmAssumption DEF Clients

\* What a line of a reply makes the parser emit, and whether it reads on.
LEMMA LinesEmit ==
  ASSUME NEW p \in Clients, NEW line \in Lines(p)
  PROVE  line.emits \in Types \cup {"nothing"} /\ line.then \in {"stream", "ended"}
<1>1. p \in Kinds
  BY LlmAssumption
<1>2. CASE p = "openai"
  BY <1>2 DEF Lines, OpenaiLines, Line, AfterDone, Types
<1>3. CASE p = "anthropic"
  BY <1>3 DEF Lines, AnthropicLines, Line, AfterDone, Types
<1>4. CASE p = "deepseek"
  BY <1>4 DEF Lines, DeepseekLines, Line, AfterDone, Types
<1>5. CASE p = "ollama"
  BY <1>5 DEF Lines, OllamaLines, Line, AfterDone, Types
<1>6. QED
  BY <1>1, <1>2, <1>3, <1>4, <1>5 DEF Kinds

\* An event is put on the client's own channel.
LEMMA SendEmits ==
  ASSUME TypeOK, NEW p \in Clients, NEW type \in Types \cup {"nothing"}, Emit(p, type)
  PROVE  Emits(p)
<1>1. CASE type = "nothing"
  BY <1>1 DEF Emit, Emits
<1>2. CASE type # "nothing"
  <2>1. client[p] \in ClientStates
    BY DEF TypeOK, ClientStates
  <2>2. Event(p, type) \in Events
    BY <1>2, <2>1 DEF Event, Events, ClientStates
  <2>3. QED
    BY <1>2, <2>2 DEF Emit, Send, Emits
<1>3. QED
  BY <1>1, <1>2

\* A client that counts one more line or attempt is a client.
LEMMA StateAfter ==
  ASSUME NEW c \in ClientStates, NEW pc \in {"stream", "ended", "request"}
  PROVE  /\ [c EXCEPT !.pc = pc, !.n = @ + 1] \in ClientStates
         /\ [c EXCEPT !.pc = pc, !.attempt = @ + 1] \in ClientStates
<1>1. c.n + 1 \in Nat /\ c.attempt + 1 \in Nat
  BY DEF ClientStates
<1>2. \A k \in Nat : [c EXCEPT !.pc = pc, !.n = k] \in ClientStates
  BY DEF ClientStates
<1>3. \A k \in Nat : [c EXCEPT !.pc = pc, !.attempt = k] \in ClientStates
  BY DEF ClientStates
<1>4. QED
  BY <1>1, <1>2, <1>3, Zenon

\* A client that is at work moves to another state.
LEMMA BecomeMoves ==
  ASSUME NEW p \in Clients, client[p].pc \notin {"idle", "ended"},
         NEW c \in ClientStates, Become(p, c)
  PROVE  Moves(p)
BY DEF Moves, Become

\* Or to another place.
LEMMA GotoMoves ==
  ASSUME TypeOK, NEW p \in Clients, client[p].pc \notin {"idle", "ended"},
         NEW pc \in {"request", "stream", "wait", "backoff", "giveup", "ended"}, Goto(p, pc)
  PROVE  Moves(p)
<1>1. client[p] \in ClientStates
  BY DEF TypeOK, ClientStates
<1>2. [client[p] EXCEPT !.pc = pc] \in ClientStates
  BY <1>1 DEF ClientStates
<1>3. QED
  BY <1>2, BecomeMoves DEF Goto

\* What a client's step changes: itself and its channel.
LEMMA ClientSteps ==
  ASSUME TypeOK, NEW p \in Clients, Client(p)
  PROVE  Moves(p) /\ Emits(p) /\ UNCHANGED <<chat, fwd, res, caller, cancelled>>
<1>1. client[p] \in ClientStates
  BY DEF TypeOK, ClientStates
<1>2. UNCHANGED <<chat, fwd, res, caller, cancelled>>
  BY DEF Client
<1>3. CASE Requested(p)
  <2>1. [client[p] EXCEPT !.pc = "stream", !.n = 0] \in ClientStates
    BY <1>1 DEF ClientStates
  <2>2. Moves(p)
    BY <1>3, <2>1, BecomeMoves DEF Requested
  <2>3. QED
    BY <1>2, <1>3, <2>2 DEF Requested, Emits
<1>4. CASE RequestFails(p)
  <2>1. PICK f \in Failures(p) : Goto(p, AfterFailure(p, f))
    BY <1>4 DEF RequestFails
  <2>2. Moves(p)
    BY <1>4, <2>1, GotoMoves DEF RequestFails, AfterFailure
  <2>3. QED
    BY <1>2, <1>4, <2>2 DEF RequestFails, Emits
<1>5. CASE ReadsLine(p)
  <2>1. PICK line \in Lines(p) :
            /\ Emit(p, line.emits)
            /\ Become(p, [client[p] EXCEPT !.pc = line.then, !.n = @ + 1])
    BY <1>5 DEF ReadsLine
  <2>2. line.emits \in Types \cup {"nothing"} /\ line.then \in {"stream", "ended"}
    BY LinesEmit
  <2>3. [client[p] EXCEPT !.pc = line.then, !.n = @ + 1] \in ClientStates
    BY <1>1, <2>2, StateAfter, Zenon
  <2>4. Moves(p)
    BY <1>5, <2>1, <2>3, BecomeMoves DEF ReadsLine
  <2>5. Emits(p)
    BY <2>1, <2>2, SendEmits
  <2>6. QED
    BY <1>2, <2>4, <2>5
<1>6. AtEndOfBody(p) \in Types \cup {"nothing"}
  BY DEF AtEndOfBody, Types
<1>7. CASE BodyEnds(p)
  <2>1. Moves(p)
    BY <1>7, GotoMoves DEF BodyEnds
  <2>2. Emits(p)
    BY <1>6, <1>7, SendEmits DEF BodyEnds
  <2>3. QED
    BY <1>2, <2>1, <2>2
<1>8. CASE BodyBreaks(p)
  <2>1. PICK f \in {"network", "other"} : Goto(p, AfterFailure(p, f))
    BY <1>8 DEF BodyBreaks
  <2>2. Moves(p)
    BY <1>8, <2>1, GotoMoves DEF BodyBreaks, AfterFailure
  <2>3. Emits(p)
    BY <1>6, <1>8, SendEmits DEF BodyBreaks
  <2>4. QED
    BY <1>2, <2>2, <2>3
<1>9. ASSUME Send(p, "error") PROVE Emits(p)
  <2>1. Emit(p, "error")
    BY <1>9 DEF Emit
  <2>2. QED
    BY <2>1, SendEmits DEF Types
<1>10. CASE RetryAfter(p)
  <2>1. Moves(p)
    BY <1>10, GotoMoves DEF RetryAfter
  <2>2. Emits(p)
    BY <1>9, <1>10 DEF RetryAfter, Emits
  <2>3. QED
    BY <1>2, <2>1, <2>2
<1>11. CASE Backoff(p)
  <2>1. [client[p] EXCEPT !.pc = "request", !.attempt = @ + 1] \in ClientStates
    BY <1>1, StateAfter, Zenon
  <2>2. Moves(p)
    BY <1>11, <2>1, BecomeMoves, GotoMoves DEF Backoff
  <2>3. Emits(p)
    BY <1>9, <1>11 DEF Backoff, Emits
  <2>4. QED
    BY <1>2, <2>2, <2>3
<1>12. CASE GivesUp(p)
  <2>1. Moves(p)
    BY <1>12, GotoMoves DEF GivesUp
  <2>2. Emits(p)
    BY <1>9, <1>12 DEF GivesUp
  <2>3. QED
    BY <1>2, <2>1, <2>2
<1>13. QED
  BY <1>3, <1>4, <1>5, <1>7, <1>8, <1>10, <1>11, <1>12 DEF Client

\* The types, one by one.
LEMMA TypeSplit ==
  TypeOK <=> /\ client \in [Clients -> ClientStates]
             /\ ch \in [Clients -> Seq(Events)] /\ res \in [Clients -> Seq(Events)]
             /\ chat \in [pc : {"try", "first", "returned", "failed", "direct"},
                          i : 0 .. Len(Chain)]
             /\ fwd \in [Clients -> ForwarderStates]
             /\ caller \in [reads : BOOLEAN, got : Seq(Events)]
             /\ cancelled \in BOOLEAN
BY DEF TypeOK, ClientStates, ForwarderStates

\* At the start no client has done anything.
LEMMA SInit == Init => SInv
<1> SUFFICES ASSUME Init PROVE SInv
  OBVIOUS
<1>1. Len(Chain) \in Nat \ {0} /\ Chain[1] \in Clients
  BY ChainNamesClients
<1>2. <<>> \in Seq(Events)
  BY EmptySeq
<1>3. chat \in [pc : {"try", "first", "returned", "failed", "direct"}, i : 0 .. Len(Chain)]
  BY <1>1 DEF Init
<1>4. client \in [Clients -> ClientStates]
  BY <1>1 DEF Init, Idle, ClientStates
<1>5. fwd \in [Clients -> ForwarderStates] /\ \A p \in Clients : fwd[p] = Off
  BY <1>2 DEF Init, Off, ForwarderStates
<1>6. TypeOK
  BY <1>2, <1>3, <1>4, <1>5, TypeSplit DEF Init
<1>7. Untouched
  <2> SUFFICES ASSUME NEW j \in 1 .. Len(Chain), j > chat.i
               PROVE  /\ client[Chain[j]].pc = "idle" /\ ch[Chain[j]] = <<>>
                      /\ res[Chain[j]] = <<>> /\ fwd[Chain[j]] = Off
    BY DEF Untouched
  <2>1. Chain[j] \in Clients
    BY ChainNamesClients
  <2>2. chat.i = 1 => Chain[j] # Chain[1]
    BY <1>1, ChainNamesClients
  <2>3. client[Chain[j]].pc = "idle"
    BY <2>1, <2>2 DEF Init, Idle
  <2>4. QED
    BY <1>5, <2>1, <2>3 DEF Init
<1>8. AtAClient /\ NothingYet /\ NotForwarded
  BY <1>1, <1>5 DEF Init, AtAClient, NothingYet, NotForwarded, Current
<1>9. LeavesNothing
  BY <1>5 DEF LeavesNothing, Off
<1>10. QED
  BY <1>6, <1>7, <1>8, <1>9 DEF SInv

\* A client's step touches no other.
LEMMA SClient ==
  ASSUME SInv, NEW p \in Clients, Client(p)
  PROVE  SInv'
<1>1. TypeOK /\ Untouched /\ AtAClient /\ NothingYet /\ NotForwarded /\ LeavesNothing
  BY DEF SInv
<1>2. Moves(p) /\ Emits(p) /\ UNCHANGED <<chat, fwd, res, caller, cancelled>>
  BY <1>1, ClientSteps
<1>3. client \in [Clients -> ClientStates] /\ ch \in [Clients -> Seq(Events)]
  BY <1>1, TypeSplit
<1>4. client' \in [Clients -> ClientStates] /\ \A q \in Clients \ {p} : client'[q] = client[q]
  BY <1>2, <1>3 DEF Moves
<1>5. ch' \in [Clients -> Seq(Events)] /\ \A q \in Clients \ {p} : ch'[q] = ch[q]
  <2>1. CASE ch' = ch
    BY <1>3, <2>1
  <2>2. ASSUME NEW e \in Events, ch' = [ch EXCEPT ![p] = Append(@, e)]
        PROVE  ch' \in [Clients -> Seq(Events)] /\ \A q \in Clients \ {p} : ch'[q] = ch[q]
    <3>1. Append(ch[p], e) \in Seq(Events)
      BY <1>3, AppendProperties
    <3>2. QED
      BY <1>3, <2>2, <3>1
  <2>3. QED
    BY <1>2, <2>1, <2>2 DEF Emits
<1>6. TypeOK'
  BY <1>1, <1>2, <1>4, <1>5, TypeSplit DEF TypeOK, ClientStates
<1>7. Untouched'
  <2> SUFFICES ASSUME NEW j \in 1 .. Len(Chain), j > chat.i
               PROVE  /\ client'[Chain[j]].pc = "idle" /\ ch'[Chain[j]] = <<>>
                      /\ res[Chain[j]] = <<>> /\ fwd[Chain[j]] = Off
    BY <1>2 DEF Untouched
  <2>1. client[Chain[j]].pc = "idle" /\ ch[Chain[j]] = <<>>
        /\ res[Chain[j]] = <<>> /\ fwd[Chain[j]] = Off
    BY <1>1 DEF Untouched
  <2>2. Chain[j] \in Clients \ {p}
    BY <1>2, <2>1, ChainNamesClients DEF Moves
  <2>3. QED
    BY <1>4, <1>5, <2>1, <2>2
<1>8. AtAClient' /\ NothingYet' /\ NotForwarded'
  BY <1>1, <1>2 DEF AtAClient, NothingYet, NotForwarded, Current
<1>9. LeavesNothing'
  <2> SUFFICES ASSUME NEW q \in Clients, fwd[q].pc = "ended"
               PROVE  fwd[q].held = <<>> /\ ch'[q] = <<>> /\ client'[q].pc = "ended"
    BY <1>2 DEF LeavesNothing, Ended
  <2>1. fwd[q].held = <<>> /\ ch[q] = <<>> /\ client[q].pc = "ended"
    BY <1>1 DEF LeavesNothing, Ended
  <2>2. q # p
    BY <1>2, <2>1 DEF Moves
  <2>3. QED
    BY <1>4, <1>5, <2>1, <2>2
<1>10. QED
  BY <1>6, <1>7, <1>8, <1>9 DEF SInv

\* Chat goes to a client that is still untouched.
LEMMA STryNext ==
  ASSUME SInv, TryNext
  PROVE  SInv'
<1>1. TypeOK /\ Untouched /\ AtAClient /\ NothingYet /\ NotForwarded /\ LeavesNothing
  BY DEF SInv
<1>2. chat.i \in 0 .. Len(Chain) /\ UNCHANGED <<ch, fwd, res, caller, cancelled>>
  BY <1>1 DEF TypeOK, TryNext
<1>3. CASE chat' = [chat EXCEPT !.pc = "failed"] /\ UNCHANGED client
  <2>1. chat'.pc = "failed" /\ chat'.i = chat.i
    BY <1>1, <1>3 DEF TypeOK
  <2>2. TypeOK'
    BY <1>1, <1>2, <1>3 DEF TypeOK
  <2>3. QED
    BY <1>1, <1>2, <1>3, <2>1, <2>2
       DEF SInv, Untouched, AtAClient, NothingYet, NotForwarded, LeavesNothing, Ended
<1>4. CASE /\ chat.i # Len(Chain) /\ chat' = [pc |-> "first", i |-> chat.i + 1]
           /\ client' = Started(Chain[chat.i + 1])
  <2> DEFINE n == Chain[chat.i + 1]
  <2>1. chat.i + 1 \in 1 .. Len(Chain) /\ n \in Clients
    BY <1>2, <1>4, ChainNamesClients
  <2>2. client \in [Clients -> ClientStates]
    BY <1>1, TypeSplit
  <2>3. /\ client' \in [Clients -> ClientStates]
        /\ \A q \in Clients \ {n} : client'[q] = client[q]
    <3>1. [client[n] EXCEPT !.pc = "request", !.attempt = 1] \in ClientStates
      BY <2>1, <2>2 DEF ClientStates
    <3>2. client' = [client EXCEPT ![n] = [client[n] EXCEPT !.pc = "request", !.attempt = 1]]
      BY <1>4, <2>1, <2>2 DEF Started, ClientStates
    <3>3. QED
      BY <2>1, <2>2, <3>1, <3>2
  <2>4. /\ client[n].pc = "idle" /\ ch[n] = <<>> /\ res[n] = <<>> /\ fwd[n] = Off
    BY <1>1, <1>2, <2>1 DEF Untouched
  <2>5. TypeOK'
    BY <1>1, <1>2, <1>4, <2>1, <2>3 DEF TypeOK, ClientStates
  <2>6. Untouched'
    <3> SUFFICES ASSUME NEW j \in 1 .. Len(Chain), j > chat.i + 1
                 PROVE  /\ client'[Chain[j]].pc = "idle" /\ ch[Chain[j]] = <<>>
                        /\ res[Chain[j]] = <<>> /\ fwd[Chain[j]] = Off
      BY <1>2, <1>4 DEF Untouched
    <3>1. client[Chain[j]].pc = "idle" /\ ch[Chain[j]] = <<>>
          /\ res[Chain[j]] = <<>> /\ fwd[Chain[j]] = Off
      BY <1>1, <1>2 DEF Untouched
    <3>2. Chain[j] \in Clients \ {n}
      BY <1>2, <2>1, ChainNamesClients
    <3>3. QED
      BY <2>3, <3>1, <3>2
  <2>7. AtAClient' /\ NothingYet' /\ NotForwarded'
    BY <1>1, <1>2, <1>4, <2>1, <2>4
       DEF AtAClient, NothingYet, NotForwarded, Current, TryNext
  <2>8. LeavesNothing'
    <3> SUFFICES ASSUME NEW q \in Clients, fwd[q].pc = "ended"
                 PROVE  fwd[q].held = <<>> /\ ch[q] = <<>> /\ client'[q].pc = "ended"
      BY <1>2 DEF LeavesNothing, Ended
    <3>1. fwd[q].held = <<>> /\ ch[q] = <<>> /\ client[q].pc = "ended"
      BY <1>1 DEF LeavesNothing, Ended
    <3>2. q # n
      BY <2>4, <3>1
    <3>3. QED
      BY <2>3, <3>1, <3>2
  <2>9. QED
    BY <2>5, <2>6, <2>7, <2>8 DEF SInv
<1>5. QED
  BY <1>3, <1>4 DEF TryNext

\* The call's client, when it is at one.
LEMMA CurrentIsClient ==
  ASSUME SInv, chat.pc \in {"first", "returned", "direct"}
  PROVE  /\ chat.i \in 1 .. Len(Chain) /\ Current \in Clients
         /\ \A j \in 1 .. Len(Chain) : j > chat.i => Chain[j] \in Clients \ {Current}
BY ChainNamesClients DEF SInv, AtAClient, Current

\* Chat takes the first event, and gives its forwarder the rest or leaves an error behind.
LEMMA SFirstEvent ==
  ASSUME SInv, FirstEvent
  PROVE  SInv'
<1> DEFINE p == Current
           e == Head(ch[p])
<1>1. TypeOK /\ Untouched /\ AtAClient /\ NothingYet /\ NotForwarded /\ LeavesNothing
  BY DEF SInv
<1>2. /\ chat.pc = "first" /\ ch[p] # <<>>
      /\ ch' = [ch EXCEPT ![p] = Tail(@)]
      /\ res' = [res EXCEPT ![p] = <<e>>]
      /\ fwd' = [fwd EXCEPT ![p].pc = "running"]
      /\ chat' = [chat EXCEPT !.pc = IF e.type = "error" THEN "try" ELSE "returned"]
      /\ UNCHANGED <<client, caller, cancelled>>
  BY DEF FirstEvent, Opening
<1>3. /\ chat.i \in 1 .. Len(Chain) /\ p \in Clients
      /\ \A j \in 1 .. Len(Chain) : j > chat.i => Chain[j] \in Clients \ {p}
  BY <1>2, CurrentIsClient
<1> HIDE DEF p
<1>4. /\ ch \in [Clients -> Seq(Events)] /\ res \in [Clients -> Seq(Events)]
      /\ fwd \in [Clients -> ForwarderStates]
  BY <1>1, TypeSplit
<1>5. e \in Events /\ Tail(ch[p]) \in Seq(Events) /\ <<e>> \in Seq(Events)
  BY <1>2, <1>3, <1>4, FrontAgain
<1>6. chat' \in [pc : {"try", "first", "returned", "failed", "direct"}, i : 0 .. Len(Chain)]
      /\ chat'.pc \in {"try", "returned"} /\ chat'.i = chat.i
  <2>1. chat \in [pc : {"try", "first", "returned", "failed", "direct"}, i : 0 .. Len(Chain)]
    BY <1>1, TypeSplit
  <2> HIDE DEF e
  <2>2. QED
    BY <1>2, <2>1
<1> HIDE DEF e
<1>7. /\ ch' \in [Clients -> Seq(Events)] /\ res' \in [Clients -> Seq(Events)]
      /\ \A q \in Clients \ {p} : ch'[q] = ch[q] /\ res'[q] = res[q]
  BY <1>2, <1>3, <1>4, <1>5
<1>8. /\ fwd' \in [Clients -> ForwarderStates] /\ fwd'[p].pc = "running"
      /\ \A q \in Clients \ {p} : fwd'[q] = fwd[q]
  BY <1>2, <1>3, <1>4 DEF ForwarderStates
<1>9. TypeOK'
  BY <1>1, <1>2, <1>6, <1>7, <1>8 DEF TypeOK, ForwarderStates
<1>10. Untouched'
  BY <1>1, <1>2, <1>3, <1>6, <1>7, <1>8 DEF Untouched
<1>11. AtAClient' /\ NotForwarded'
  BY <1>3, <1>6 DEF AtAClient, NotForwarded
<1>12. NothingYet'
  BY <1>1, <1>2 DEF NothingYet
<1>13. LeavesNothing'
  BY <1>1, <1>2, <1>7, <1>8 DEF LeavesNothing, Ended
<1>14. QED
  BY <1>9, <1>10, <1>11, <1>12, <1>13 DEF SInv

\* A channel that is closed at once has left nothing.
LEMMA SClosedAtOnce ==
  ASSUME SInv, ClosedAtOnce
  PROVE  SInv'
<1>1. TypeOK /\ Untouched /\ AtAClient /\ NothingYet /\ NotForwarded /\ LeavesNothing
  BY DEF SInv
<1>2. chat.pc = "first" /\ chat' = [chat EXCEPT !.pc = "try"]
      /\ UNCHANGED <<client, ch, fwd, res, caller, cancelled>>
  BY DEF ClosedAtOnce
<1>3. chat'.pc = "try" /\ chat'.i = chat.i
  BY <1>1, <1>2 DEF TypeOK
<1>4. TypeOK'
  BY <1>1, <1>2 DEF TypeOK
<1>5. QED
  BY <1>1, <1>2, <1>3, <1>4
     DEF SInv, Untouched, AtAClient, NothingYet, NotForwarded, LeavesNothing, Ended

\* A forwarder's steps: it is neither off nor, before them, ended.
LEMMA SForwards ==
  ASSUME SInv, NEW p \in Clients, Forwards(p)
  PROVE  SInv'
<1>1. TypeOK /\ Untouched /\ AtAClient /\ NothingYet /\ NotForwarded /\ LeavesNothing
  BY DEF SInv
<1>2. /\ ch \in [Clients -> Seq(Events)] /\ res \in [Clients -> Seq(Events)]
      /\ fwd \in [Clients -> ForwarderStates]
  BY <1>1, TypeSplit
<1>3. UNCHANGED <<client, chat, caller, cancelled>>
  BY DEF Forwards, Take, Put, Closes
<1>4. fwd[p] # Off /\ (fwd[p].held # <<>> => fwd[p].pc # "ended")
  <2>1. fwd[p].held # <<>> => fwd[p].pc # "ended"
    BY <1>1 DEF LeavesNothing
  <2>2. fwd[p] = Off => fwd[p].pc = "off" /\ fwd[p].held = <<>>
    BY DEF Off
  <2>3. fwd[p].pc = "running" \/ fwd[p].held # <<>>
    BY DEF Forwards, Take, Put, Closes
  <2>4. QED
    BY <2>1, <2>2, <2>3
<1>5. /\ ch' \in [Clients -> Seq(Events)] /\ res' \in [Clients -> Seq(Events)]
      /\ fwd' \in [Clients -> ForwarderStates]
      /\ \A q \in Clients \ {p} : ch'[q] = ch[q] /\ res'[q] = res[q] /\ fwd'[q] = fwd[q]
      /\ fwd'[p].pc = "ended" => fwd'[p].held = <<>> /\ ch'[p] = <<>> /\ Ended(p)
  <2>1. fwd[p].held \in Seq(Events) /\ fwd[p].pc \in {"off", "running", "ended"}
    BY <1>2 DEF ForwarderStates
  <2>2. CASE Take(p)
    <3>1. /\ fwd[p].pc = "running" /\ ch[p] # <<>>
          /\ fwd' = [fwd EXCEPT ![p].held = <<Head(ch[p])>>]
          /\ ch' = [ch EXCEPT ![p] = Tail(@)]
          /\ UNCHANGED res
      BY <2>2 DEF Take
    <3>2. <<Head(ch[p])>> \in Seq(Events) /\ Tail(ch[p]) \in Seq(Events)
      BY <1>2, <3>1, FrontAgain
    <3>3. ch' \in [Clients -> Seq(Events)] /\ \A q \in Clients \ {p} : ch'[q] = ch[q]
      BY <1>2, <3>1, <3>2
    <3> DEFINE h == <<Head(ch[p])>>
    <3> HIDE DEF h
    <3>4. fwd' = [fwd EXCEPT ![p].held = h] /\ h \in Seq(Events)
      BY <3>1, <3>2 DEF h
    <3>5. /\ fwd' \in [Clients -> ForwarderStates] /\ fwd'[p].pc = "running"
          /\ \A q \in Clients \ {p} : fwd'[q] = fwd[q]
      BY <1>2, <3>1, <3>4 DEF ForwarderStates
    <3>6. QED
      BY <1>2, <3>1, <3>3, <3>5
  <2>3. CASE Put(p)
    <3>1. /\ fwd[p].held # <<>> /\ UNCHANGED ch
          /\ res' = [res EXCEPT ![p] = @ \o fwd[p].held]
          /\ fwd' = [fwd EXCEPT ![p].held = <<>>]
      BY <2>3 DEF Put
    <3>2. res[p] \o fwd[p].held \in Seq(Events) /\ <<>> \in Seq(Events)
      BY <1>2, <2>1, ConcatProperties, EmptySeq
    <3>3. res' \in [Clients -> Seq(Events)] /\ \A q \in Clients \ {p} : res'[q] = res[q]
      BY <1>2, <3>1, <3>2
    <3>4. /\ fwd' \in [Clients -> ForwarderStates] /\ fwd'[p].pc = fwd[p].pc
          /\ \A q \in Clients \ {p} : fwd'[q] = fwd[q]
      BY <1>2, <3>1, <3>2 DEF ForwarderStates
    <3>5. QED
      BY <1>2, <1>4, <3>1, <3>3, <3>4
  <2>4. CASE Closes(p)
    <3>1. /\ fwd[p].held = <<>> /\ ch[p] = <<>> /\ Ended(p)
          /\ fwd' = [fwd EXCEPT ![p].pc = "ended"] /\ UNCHANGED <<ch, res>>
      BY <2>4 DEF Closes, Drained
    <3>2. /\ fwd' \in [Clients -> ForwarderStates] /\ fwd'[p].held = fwd[p].held
          /\ \A q \in Clients \ {p} : fwd'[q] = fwd[q]
      BY <1>2, <3>1 DEF ForwarderStates
    <3>3. QED
      BY <1>2, <3>1, <3>2
  <2>5. QED
    BY <2>2, <2>3, <2>4 DEF Forwards
<1>6. TypeOK'
  BY <1>1, <1>3, <1>5 DEF TypeOK, ForwarderStates
<1>7. Untouched'
  <2> SUFFICES ASSUME NEW j \in 1 .. Len(Chain), j > chat.i
               PROVE  /\ client[Chain[j]].pc = "idle" /\ ch'[Chain[j]] = <<>>
                      /\ res'[Chain[j]] = <<>> /\ fwd'[Chain[j]] = Off
    BY <1>3 DEF Untouched
  <2>1. client[Chain[j]].pc = "idle" /\ ch[Chain[j]] = <<>>
        /\ res[Chain[j]] = <<>> /\ fwd[Chain[j]] = Off
    BY <1>1 DEF Untouched
  <2>2. Chain[j] \in Clients \ {p}
    BY <1>4, <2>1, ChainNamesClients
  <2>3. QED
    BY <1>5, <2>1, <2>2
<1>8. AtAClient' /\ NothingYet'
  BY <1>1, <1>3 DEF AtAClient, NothingYet
<1>9. NotForwarded'
  <2> SUFFICES ASSUME chat.pc \in {"first", "direct"}
               PROVE  res'[Current] = <<>> /\ fwd'[Current] = Off
    BY <1>3 DEF NotForwarded, Current
  <2>1. res[Current] = <<>> /\ fwd[Current] = Off
    BY <1>1 DEF NotForwarded
  <2>2. Current \in Clients \ {p}
    BY <1>4, <2>1, CurrentIsClient
  <2>3. QED
    BY <1>5, <2>1, <2>2
<1>10. LeavesNothing'
  BY <1>1, <1>3, <1>5 DEF LeavesNothing, Ended
<1>11. QED
  BY <1>6, <1>7, <1>8, <1>9, <1>10 DEF SInv

\* What the caller takes.
LEMMA SRead ==
  ASSUME SInv, Read
  PROVE  SInv'
<1>1. TypeOK /\ Untouched /\ AtAClient /\ NothingYet /\ NotForwarded /\ LeavesNothing
  BY DEF SInv
<1> DEFINE c == Current
           e == Head(Readable)
<1>2. /\ chat.pc \in {"direct", "returned"} /\ Readable # <<>>
      /\ caller' = [got |-> Append(caller.got, e), reads |-> e.type # "error"]
      /\ UNCHANGED <<client, chat, fwd, cancelled>>
  BY DEF Read, Returned
<1>3. /\ chat.i \in 1 .. Len(Chain) /\ c \in Clients
      /\ \A j \in 1 .. Len(Chain) : j > chat.i => Chain[j] \in Clients \ {c}
  BY <1>2, CurrentIsClient
<1>4. /\ ch \in [Clients -> Seq(Events)] /\ res \in [Clients -> Seq(Events)]
      /\ caller \in [reads : BOOLEAN, got : Seq(Events)]
  BY <1>1, TypeSplit
<1>5. Readable \in Seq(Events)
  BY <1>3, <1>4 DEF Readable
<1>6. e \in Events
  BY <1>2, <1>5, FrontAgain
<1>7. caller' \in [reads : BOOLEAN, got : Seq(Events)]
  <2>1. caller.got \in Seq(Events)
    BY <1>4
  <2>2. Append(caller.got, e) \in Seq(Events)
    BY <1>6, <2>1, AppendProperties
  <2> HIDE DEF e
  <2>3. QED
    BY <1>2, <2>2
<1>8. /\ ch' \in [Clients -> Seq(Events)] /\ res' \in [Clients -> Seq(Events)]
      /\ \A q \in Clients \ {c} : ch'[q] = ch[q] /\ res'[q] = res[q]
      /\ Direct => res' = res
      /\ ~Direct => ch' = ch
  <2>1. CASE Direct
    <3>1. ch' = [ch EXCEPT ![c] = Tail(@)] /\ UNCHANGED res
      BY <2>1 DEF Read
    <3>2. Tail(ch[c]) \in Seq(Events)
      BY <1>2, <1>3, <1>4, <2>1, FrontAgain DEF Readable
    <3> HIDE DEF c
    <3>3. QED
      BY <1>3, <1>4, <2>1, <3>1, <3>2
  <2>2. CASE ~Direct
    <3>1. res' = [res EXCEPT ![c] = Tail(@)] /\ UNCHANGED ch
      BY <2>2 DEF Read
    <3>2. Tail(res[c]) \in Seq(Events)
      BY <1>2, <1>3, <1>4, <2>2, FrontAgain DEF Readable
    <3> HIDE DEF c
    <3>3. QED
      BY <1>3, <1>4, <2>2, <3>1, <3>2
  <2>3. QED
    BY <2>1, <2>2
<1> HIDE DEF c, e
<1>9. TypeOK'
  BY <1>1, <1>2, <1>7, <1>8 DEF TypeOK
<1>10. Untouched'
  BY <1>1, <1>2, <1>3, <1>8 DEF Untouched
<1>11. AtAClient' /\ NothingYet'
  BY <1>1, <1>2 DEF AtAClient, NothingYet
<1>12. NotForwarded'
  BY <1>1, <1>2, <1>8 DEF NotForwarded, Current, Direct
<1>13. LeavesNothing'
  <2> SUFFICES ASSUME NEW q \in Clients, fwd[q].pc = "ended"
               PROVE  fwd[q].held = <<>> /\ ch'[q] = <<>> /\ Ended(q)
    BY <1>2 DEF LeavesNothing, Ended
  <2>1. fwd[q].held = <<>> /\ ch[q] = <<>> /\ Ended(q)
    BY <1>1 DEF LeavesNothing
  <2>2. Direct => q # c
    BY <1>1 DEF Direct, NotForwarded, Off, c
  <2>3. QED
    BY <1>8, <2>1, <2>2
<1>14. QED
  BY <1>9, <1>10, <1>11, <1>12, <1>13 DEF SInv

\* The caller's decisions touch no stream.
LEMMA SOther ==
  ASSUME SInv, ReadsToEnd \/ Cancel \/ UNCHANGED vars
  PROVE  SInv'
<1>1. TypeOK /\ Untouched /\ AtAClient /\ NothingYet /\ NotForwarded /\ LeavesNothing
  BY DEF SInv
<1>2. UNCHANGED <<client, ch, chat, fwd, res>>
  BY DEF ReadsToEnd, Cancel, vars
<1>3. /\ caller' \in [reads : BOOLEAN, got : Seq(Events)] /\ cancelled' \in BOOLEAN
  BY <1>1 DEF TypeOK, ReadsToEnd, Cancel, vars
<1>4. TypeOK'
  BY <1>1, <1>2, <1>3 DEF TypeOK
<1>5. NothingYet'
  BY <1>1, <1>2 DEF NothingYet, ReadsToEnd, Returned, Cancel, vars
<1>6. QED
  BY <1>1, <1>2, <1>4, <1>5
     DEF SInv, Untouched, AtAClient, NotForwarded, Current, LeavesNothing, Ended

\* The invariant is inductive.
LEMMA SStep == SInv /\ [Next]_vars => SInv'
<1>1. SUFFICES ASSUME SInv, [Next]_vars PROVE SInv'
  OBVIOUS
<1>2. CASE Chats
  BY <1>1, <1>2, STryNext, SFirstEvent, SClosedAtOnce DEF Chats
<1>3. CASE Calls
  BY <1>1, <1>3, SRead, SOther DEF Calls
<1>4. CASE Cancel \/ UNCHANGED vars
  BY <1>1, <1>4, SOther
<1>5. CASE \E p \in Clients : Client(p) \/ Forwards(p)
  BY <1>1, <1>5, SClient, SForwards
<1>6. QED
  BY <1>1, <1>2, <1>3, <1>4, <1>5 DEF Next

-----------------------------------------------------------------------------
(******************************* one stream ******************************)

Waiting == chat.pc \in {"first", "returned", "direct"}

\* The parts of the stream that the caller has not received.
LEMMA Parts ==
  ASSUME TypeOK, NEW p \in Clients
  PROVE  /\ res[p] \in Seq(Events) /\ fwd[p].held \in Seq(Events) /\ ch[p] \in Seq(Events)
         /\ res[p] \o fwd[p].held \in Seq(Events)
         /\ res[p] \o fwd[p].held \o ch[p] \in Seq(Events)
<1>1. res[p] \in Seq(Events) /\ fwd[p].held \in Seq(Events) /\ ch[p] \in Seq(Events)
  BY TypeSplit DEF ForwarderStates
<1>2. res[p] \o fwd[p].held \in Seq(Events)
  BY <1>1, ConcatProperties
<1>3. QED
  BY <1>1, <1>2, ConcatProperties

\* Nothing put before or after a stream changes it.
LEMMA Nothing == ASSUME NEW s \in Seq(Events) PROVE <<>> \o <<>> \o s = s /\ s \o <<>> = s
<1>1. <<>> \o s = s /\ s \o <<>> = s
  BY ConcatEmptySeq
<1>2. <<>> \o <<>> = <<>>
  BY ConcatEmptySeq, EmptySeq
<1>3. QED
  BY <1>1, <1>2

\* Before its forwarder starts, a stream is what its client's channel holds.
LEMMA Unforwarded ==
  ASSUME SInv, chat.pc \in {"first", "direct"}
  PROVE  InFlight = ch[Current]
<1>1. Current \in Clients /\ TypeOK /\ res[Current] = <<>> /\ fwd[Current] = Off
  BY CurrentIsClient DEF SInv, NotForwarded
<1>2. fwd[Current].held = <<>>
  BY <1>1 DEF Off
<1>3. ch[Current] \in Seq(Events)
  BY <1>1, Parts
<1>4. InFlight = <<>> \o <<>> \o ch[Current]
  BY <1>1, <1>2 DEF InFlight
<1>5. QED
  BY <1>3, <1>4, Nothing

Stutters == InFlight' = InFlight /\ UNCHANGED caller

\* What changes none of its three variables is a stutter of the abstract stream.
LEMMA StutterMaps == Stutters => UNCHANGED Stream!vars
BY DEF Stutters, Stream!vars

\* The abstract stream begins empty.
LEMMA EmptyMaps == Init => Stream!Init
<1> SUFFICES ASSUME Init PROVE Stream!Init
  OBVIOUS
<1>1. SInv
  BY SInit
<1>2. InFlight = <<>>
  <2>1. CASE chat.pc = "direct"
    BY <1>1, <2>1, Unforwarded, CurrentIsClient DEF Init
  <2>2. CASE chat.pc = "try"
    BY <2>2 DEF InFlight
  <2>3. QED
    BY <2>1, <2>2 DEF Init
<1>3. QED
  BY <1>2 DEF Init, Stream!Init

\* A client's event goes to the back, if the call is at this client.
LEMMA ClientMaps ==
  ASSUME SInv, NEW p \in Clients, Client(p)
  PROVE  Stream!Emit \/ Stutters
<1>1. Emits(p) /\ UNCHANGED <<chat, fwd, res, caller>> /\ TypeOK
  BY ClientSteps DEF SInv
<1>2. Current' = Current
  BY <1>1 DEF Current
<1>3. CASE ~Waiting
  BY <1>1, <1>3 DEF Waiting, InFlight, Stutters
<1>4. CASE Waiting /\ ch'[Current] = ch[Current]
  BY <1>1, <1>2, <1>4 DEF Waiting, InFlight, Stutters
<1>5. CASE Waiting /\ ch'[Current] # ch[Current]
  <2>1. Current \in Clients /\ ch \in [Clients -> Seq(Events)]
    BY <1>1, <1>5, CurrentIsClient DEF Waiting, TypeOK
  <2>2. PICK e \in Events : ch' = [ch EXCEPT ![p] = Append(@, e)]
    BY <1>1, <1>5 DEF Emits
  <2>3. ch'[Current] = Append(ch[Current], e)
    BY <1>5, <2>1, <2>2
  <2> DEFINE a == res[Current] \o fwd[Current].held
             b == ch[Current]
  <2>4. a \in Seq(Events) /\ b \in Seq(Events)
    BY <1>1, <2>1, Parts
  <2>5. InFlight = a \o b /\ InFlight' = a \o Append(b, e)
    BY <1>1, <1>2, <1>5, <2>3 DEF Waiting, InFlight
  <2> HIDE DEF a, b
  <2>6. QED
    BY <1>1, <2>4, <2>5, AtTheBack DEF Stream!Emit
<1>6. QED
  BY <1>3, <1>4, <1>5

\* The next provider of the chain begins with an empty stream.
LEMMA TryNextMaps ==
  ASSUME SInv, TryNext
  PROVE  Stutters
<1>1. chat.pc = "try" /\ TypeOK /\ Untouched /\ UNCHANGED <<ch, fwd, res, caller>>
  BY DEF SInv, TryNext
<1>2. InFlight = <<>>
  BY <1>1 DEF InFlight
<1>3. CASE chat' = [chat EXCEPT !.pc = "failed"]
  <2>1. chat'.pc = "failed"
    BY <1>1, <1>3 DEF TypeOK
  <2>2. QED
    BY <1>1, <1>2, <2>1 DEF InFlight, Stutters
<1>4. CASE chat.i # Len(Chain) /\ chat' = [pc |-> "first", i |-> chat.i + 1]
  <2> DEFINE n == Chain[chat.i + 1]
  <2>1. chat.i + 1 \in 1 .. Len(Chain) /\ chat.i + 1 > chat.i
    BY <1>1, <1>4, ChainNamesClients DEF TypeOK
  <2>2. ch[n] = <<>> /\ res[n] = <<>> /\ fwd[n].held = <<>>
    BY <1>1, <2>1 DEF Untouched, Off
  <2>3. Current' = n
    BY <1>4 DEF Current
  <2>4. InFlight' = <<>> \o <<>> \o <<>>
    BY <1>1, <1>4, <2>2, <2>3 DEF InFlight
  <2>5. QED
    BY <1>1, <1>2, <2>4, EmptySeq, Nothing DEF Stutters
<1>5. QED
  BY <1>3, <1>4 DEF TryNext

\* Chat looks at the first event: it goes on to the caller, or, an error, makes
\* Chat give the provider up before the caller has received anything.
LEMMA FirstEventMaps ==
  ASSUME SInv, FirstEvent
  PROVE  Stream!GiveUp \/ Stutters
<1> DEFINE p == Current
           e == Head(ch[p])
<1>1. /\ chat.pc = "first" /\ ch[p] # <<>> /\ UNCHANGED caller
      /\ ch' = [ch EXCEPT ![p] = Tail(@)] /\ res' = [res EXCEPT ![p] = <<e>>]
      /\ fwd' = [fwd EXCEPT ![p].pc = "running"]
      /\ chat' = [chat EXCEPT !.pc = IF e.type = "error" THEN "try" ELSE "returned"]
  BY DEF FirstEvent, Opening
<1>2. p \in Clients /\ TypeOK /\ InFlight = ch[p] /\ fwd[p] = Off
  BY <1>1, Unforwarded, CurrentIsClient DEF SInv, NotForwarded
<1>3. ch[p] \in Seq(Events)
  BY <1>2, Parts
<1>4. e \in Events /\ Tail(ch[p]) \in Seq(Events) /\ <<e>> \in Seq(Events)
      /\ <<e>> \o Tail(ch[p]) = ch[p]
  BY <1>1, <1>3, FrontAgain
<1>5. chat'.i = chat.i /\ Current' = p
      /\ chat'.pc = IF e.type = "error" THEN "try" ELSE "returned"
  BY <1>1, <1>2 DEF TypeOK, Current
<1>6. CASE e.type = "error"
  <2>1. InFlight' = <<>>
    BY <1>5, <1>6 DEF InFlight
  <2>2. Head(InFlight) \in Errors
    BY <1>2, <1>4, <1>6 DEF Errors
  <2>3. caller.reads /\ caller.got = <<>>
    BY <1>1 DEF SInv, NothingYet
  <2>4. QED
    BY <1>1, <2>1, <2>2, <2>3 DEF Stream!GiveUp
<1>7. CASE e.type # "error"
  <2>1. chat'.pc = "returned"
    BY <1>5, <1>7
  <2>2. ch'[p] = Tail(ch[p]) /\ res'[p] = <<e>>
    BY <1>1, <1>2 DEF TypeOK
  <2>3. fwd'[p].held = <<>>
    <3>1. fwd \in [Clients -> ForwarderStates]
      BY <1>2, TypeSplit
    <3>2. fwd[p].held = <<>>
      BY <1>2 DEF Off
    <3> HIDE DEF p
    <3>3. QED
      BY <1>1, <1>2, <3>1, <3>2 DEF ForwarderStates
  <2>4. InFlight' = res'[p] \o fwd'[p].held \o ch'[p]
    BY <1>5, <2>1 DEF InFlight
  <2>5. InFlight' = <<e>> \o <<>> \o Tail(ch[p])
    BY <2>2, <2>3, <2>4
  <2>6. <<e>> \o <<>> = <<e>>
    BY <1>4, Nothing
  <2>7. QED
    BY <1>1, <1>2, <1>4, <2>5, <2>6 DEF Stutters
<1>8. QED
  BY <1>6, <1>7

\* A channel closed at once had nothing on its way.
LEMMA ClosedAtOnceMaps ==
  ASSUME SInv, ClosedAtOnce
  PROVE  Stutters
<1>1. InFlight = <<>>
  BY Unforwarded DEF ClosedAtOnce
<1>2. chat'.pc = "try" /\ UNCHANGED caller
  BY DEF ClosedAtOnce, SInv, TypeOK
<1>3. QED
  BY <1>1, <1>2 DEF InFlight, Stutters

\* A forwarder moves an event from one channel to the other and keeps its place.
LEMMA ForwardsMaps ==
  ASSUME SInv, NEW p \in Clients, Forwards(p)
  PROVE  Stutters
<1>1. UNCHANGED <<chat, caller>> /\ TypeOK
  BY DEF Forwards, Take, Put, Closes, SInv
<1>2. Current' = Current
  BY <1>1 DEF Current
<1>3. CASE ~Waiting
  BY <1>1, <1>3 DEF Waiting, InFlight, Stutters
<1>4. ASSUME Waiting
      PROVE  /\ Current \in Clients
             /\ InFlight = res[Current] \o fwd[Current].held \o ch[Current]
             /\ InFlight' = res'[Current] \o fwd'[Current].held \o ch'[Current]
  BY <1>1, <1>2, <1>4, CurrentIsClient DEF Waiting, InFlight
<1>5. CASE Waiting /\ Current # p
  <2>1. /\ ch'[Current] = ch[Current] /\ res'[Current] = res[Current]
        /\ fwd'[Current] = fwd[Current]
    BY <1>1, <1>4, <1>5 DEF Forwards, Take, Put, Closes, TypeOK
  <2>2. QED
    BY <1>1, <1>4, <1>5, <2>1 DEF Stutters
<1>6. CASE Waiting /\ Current = p
  <2>1. res[p] \in Seq(Events) /\ fwd[p].held \in Seq(Events) /\ ch[p] \in Seq(Events)
    BY <1>1, Parts
  <2>2. fwd \in [Clients -> ForwarderStates]
        /\ ch \in [Clients -> Seq(Events)] /\ res \in [Clients -> Seq(Events)]
    BY <1>1, TypeSplit
  <2>3. CASE Take(p)
    <3> DEFINE h == <<Head(ch[p])>>
               u == Tail(ch[p])
    <3>1. h \in Seq(Events) /\ u \in Seq(Events) /\ h \o u = ch[p]
      BY <2>1, <2>3, FrontAgain DEF Take
    <3> HIDE DEF h
    <3>2. fwd[p].held = <<>> /\ fwd'[p].held = h /\ ch'[p] = u /\ res' = res
      BY <2>2, <2>3 DEF Take, ForwarderStates, h
    <3> HIDE DEF u
    <3>3. InFlight = res[p] \o <<>> \o ch[p] /\ InFlight' = res[p] \o h \o u
      BY <1>4, <1>6, <3>2
    <3>4. res[p] \o <<>> = res[p]
      BY <2>1, Nothing
    <3>5. res[p] \o h \o u = res[p] \o (h \o u)
      <4> DEFINE r == res[p]
      <4>1. r \in Seq(Events) /\ h \in Seq(Events) /\ u \in Seq(Events)
        BY <2>1, <3>1
      <4> HIDE DEF r
      <4>2. r \o h \o u = r \o (h \o u)
        BY ONLY <4>1, ConcatAssociative
      <4>3. QED
        BY <4>2 DEF r
    <3>6. QED
      BY <1>1, <3>1, <3>3, <3>4, <3>5 DEF Stutters
  <2>4. CASE Put(p)
    <3> DEFINE r == res[p] \o fwd[p].held
    <3>1. r \in Seq(Events)
      BY <1>1, Parts
    <3>2. res'[p] = r
      BY <2>2, <2>4 DEF Put
    <3>3. fwd'[p].held = <<>> /\ ch' = ch
      BY <2>2, <2>4 DEF Put, ForwarderStates
    <3>4. InFlight = r \o ch[p] /\ InFlight' = r \o <<>> \o ch[p]
      BY <1>4, <1>6, <3>2, <3>3
    <3>5. QED
      BY <1>1, <3>1, <3>4, Nothing DEF Stutters
  <2>5. CASE Closes(p)
    <3>1. fwd'[p].held = fwd[p].held /\ ch' = ch /\ res' = res
      BY <2>2, <2>5 DEF Closes, ForwarderStates
    <3>2. QED
      BY <1>1, <1>4, <1>6, <3>1 DEF Stutters
  <2>6. QED
    BY <2>3, <2>4, <2>5 DEF Forwards
<1>7. QED
  BY <1>3, <1>5, <1>6

\* The caller receives the front of the stream.
LEMMA ReadMaps ==
  ASSUME SInv, Read
  PROVE  Stream!Receive
<1> DEFINE c == Current
<1>1. /\ caller.reads /\ chat.pc \in {"direct", "returned"} /\ Readable # <<>>
      /\ caller' = [got |-> Append(caller.got, Head(Readable)),
                    reads |-> Head(Readable).type # "error"]
      /\ UNCHANGED <<chat, fwd>> /\ TypeOK
  BY DEF Read, Returned, SInv
<1>2. c \in Clients /\ Current' = c
  BY <1>1, CurrentIsClient DEF Current
<1>3. /\ ch \in [Clients -> Seq(Events)] /\ res \in [Clients -> Seq(Events)]
  BY <1>1, TypeSplit
<1>4. /\ InFlight = res[c] \o fwd[c].held \o ch[c]
      /\ InFlight' = res'[c] \o fwd[c].held \o ch'[c]
  BY <1>1, <1>2 DEF InFlight
<1>5. res[c] \in Seq(Events) /\ fwd[c].held \in Seq(Events) /\ ch[c] \in Seq(Events)
  BY <1>1, <1>2, Parts
<1>6. /\ InFlight # <<>> /\ Head(InFlight) = Head(Readable)
      /\ InFlight' = Tail(InFlight)
  <2>1. CASE Direct
    <3>1. Readable = ch[c] /\ ch' = [ch EXCEPT ![c] = Tail(@)] /\ res' = res
      BY <2>1 DEF Readable, Read
    <3>2. InFlight = ch[c]
      BY <2>1, Unforwarded DEF Direct
    <3>3. res[c] = <<>> /\ fwd[c].held = <<>>
      BY <2>1 DEF Direct, SInv, NotForwarded, Off
    <3>4. Tail(ch[c]) \in Seq(Events)
      BY <1>1, <1>5, <3>1, FrontAgain
    <3>5. ch'[c] = Tail(ch[c])
      BY <1>2, <1>3, <3>1
    <3>6. InFlight' = <<>> \o <<>> \o Tail(ch[c])
      BY <1>4, <3>1, <3>3, <3>5
    <3>7. QED
      BY <1>1, <3>1, <3>2, <3>4, <3>6, Nothing
  <2>2. CASE ~Direct
    <3>1. Readable = res[c] /\ res' = [res EXCEPT ![c] = Tail(@)] /\ ch' = ch
      BY <2>2 DEF Readable, Read
    <3>2. res'[c] = Tail(res[c])
      BY <1>2, <1>3, <3>1
    <3> DEFINE r == res[c]
               h == fwd[c].held
               d == ch[c]
    <3>3. r \in Seq(Events) /\ h \in Seq(Events) /\ d \in Seq(Events) /\ r # <<>>
      BY <1>1, <1>5, <3>1
    <3>4. InFlight = r \o h \o d /\ InFlight' = Tail(r) \o h \o d /\ Readable = r
      BY <1>4, <3>1, <3>2
    <3> HIDE DEF r, h, d
    <3>5. Tail(r) \in Seq(Events) /\ h \o d \in Seq(Events)
      BY <3>3, FrontAgain, ConcatProperties
    <3>6. r \o h \o d = r \o (h \o d) /\ Tail(r) \o h \o d = Tail(r) \o (h \o d)
      <4>1. r \o h \o d = r \o (h \o d)
        BY ONLY <3>3, ConcatAssociative
      <4>2. Tail(r) \o h \o d = Tail(r) \o (h \o d)
        BY ONLY <3>3, <3>5, ConcatAssociative
      <4>3. QED
        BY <4>1, <4>2
    <3>7. /\ r \o (h \o d) # <<>> /\ Head(r \o (h \o d)) = Head(r)
          /\ Tail(r \o (h \o d)) = Tail(r) \o (h \o d)
      BY <3>3, <3>5, FrontOfParts
    <3>8. QED
      BY <3>4, <3>6, <3>7
  <2>3. QED
    BY <2>1, <2>2
<1>7. QED
  BY <1>1, <1>6 DEF Stream!Receive

\* The caller learns that the stream has ended when none of it is left.
LEMMA ReadsToEndMaps ==
  ASSUME SInv, ReadsToEnd
  PROVE  Stream!End
<1>1. /\ caller.reads /\ UNCHANGED <<ch, chat, fwd, res>> /\ TypeOK
      /\ caller' = [caller EXCEPT !.reads = FALSE]
  BY DEF ReadsToEnd, SInv
<1>2. InFlight' = InFlight
  BY <1>1 DEF InFlight, Current
<1>3. ~caller'.reads /\ caller'.got = caller.got
  BY <1>1 DEF TypeOK
<1>4. InFlight = <<>>
  <2>1. CASE chat.pc = "failed"
    BY <2>1 DEF InFlight
  <2>2. CASE chat.pc = "direct"
    BY <2>2, Unforwarded DEF ReadsToEnd, Readable, Direct
  <2>3. CASE chat.pc = "returned"
    <3>1. Current \in Clients /\ res[Current] = <<>> /\ fwd[Current].pc = "ended"
      BY <2>3, CurrentIsClient DEF ReadsToEnd, Readable, Shut, Direct
    <3>2. fwd[Current].held = <<>> /\ ch[Current] = <<>>
      BY <3>1 DEF SInv, LeavesNothing
    <3>3. InFlight = <<>> \o <<>> \o <<>>
      BY <2>3, <3>1, <3>2 DEF InFlight
    <3>4. QED
      BY <3>3, EmptySeq, Nothing
  <2>4. QED
    BY <2>1, <2>2, <2>3 DEF ReadsToEnd, Returned
<1>5. QED
  BY <1>1, <1>2, <1>3, <1>4 DEF Stream!End

\* Every step is a step of the abstract stream or a stutter.
LEMMA StepMaps == SInv /\ [Next]_vars => [Stream!Next]_(Stream!vars)
<1>1. SUFFICES ASSUME SInv, [Next]_vars PROVE [Stream!Next]_(Stream!vars)
  OBVIOUS
<1>2. CASE Chats
  BY <1>1, <1>2, TryNextMaps, FirstEventMaps, ClosedAtOnceMaps, StutterMaps
     DEF Chats, Stream!Next
<1>3. CASE Calls
  BY <1>1, <1>3, ReadMaps, ReadsToEndMaps DEF Calls, Stream!Next
<1>4. CASE Cancel \/ UNCHANGED vars
  <2>1. Stutters
    BY <1>4 DEF Cancel, vars, Stutters, InFlight, Current
  <2>2. QED
    BY <2>1, StutterMaps
<1>5. CASE \E p \in Clients : Client(p) \/ Forwards(p)
  BY <1>1, <1>5, ClientMaps, ForwardsMaps, StutterMaps DEF Stream!Next
<1>6. QED
  BY <1>1, <1>2, <1>3, <1>4, <1>5 DEF Next

-----------------------------------------------------------------------------
\* The types of the channels, the forwarders and the caller hold throughout.
THEOREM LlmType == Spec => []TypeOK
<1>1. SInv => TypeOK
  BY DEF SInv
<1>2. QED
  BY <1>1, SInit, SStep, PTL DEF Spec

\* Whatever the clients answer and however they fail, and however their
\* channels, Chat's forwarders, its failover and the caller interleave, Chat
\* behaves as one stream of events: nothing emitted is lost, reordered or mixed
\* with another provider's, and a provider is given up only before the caller has
\* received an event, and only for a stream that begins with an error or has none.
THEOREM LlmIsOneStream == Spec => IsOneStream
<1>1. Stream!Spec <=> Stream!Init /\ [][Stream!Next]_(Stream!vars)
  BY DEF Stream!Spec
<1>2. QED
  BY <1>1, SInit, SStep, EmptyMaps, StepMaps, PTL DEF Spec, IsOneStream

\* A forwarder keeps what of its client's stream the caller has not received.
Rest(p) == res[p] \o fwd[p].held \o ch[p]

\* A forwarder moves events along and neither adds nor drops one.
LEMMA ForwardsKeep ==
  ASSUME SInv, NEW p \in Clients, Forwards(p)
  PROVE  \A q \in Clients : Rest(q)' = Rest(q)
<1>1. TypeOK
  BY DEF SInv
<1>2. /\ fwd \in [Clients -> ForwarderStates]
      /\ ch \in [Clients -> Seq(Events)] /\ res \in [Clients -> Seq(Events)]
  BY <1>1, TypeSplit
<1>3. ASSUME NEW q \in Clients, q # p PROVE Rest(q)' = Rest(q)
  <2>1. ch'[q] = ch[q] /\ res'[q] = res[q] /\ fwd'[q] = fwd[q]
    BY <1>2, <1>3 DEF Forwards, Take, Put, Closes
  <2>2. QED
    BY <2>1 DEF Rest
<1>4. Rest(p)' = Rest(p)
  <2>1. res[p] \in Seq(Events) /\ fwd[p].held \in Seq(Events) /\ ch[p] \in Seq(Events)
    BY <1>1, Parts
  <2>3. CASE Take(p)
    <3> DEFINE h == <<Head(ch[p])>>
               u == Tail(ch[p])
    <3>1. h \in Seq(Events) /\ u \in Seq(Events) /\ h \o u = ch[p]
      BY <2>1, <2>3, FrontAgain DEF Take
    <3> HIDE DEF h
    <3>2. fwd[p].held = <<>> /\ fwd'[p].held = h /\ ch'[p] = u /\ res' = res
      BY <1>2, <2>3 DEF Take, ForwarderStates, h
    <3> HIDE DEF u
    <3>3. Rest(p) = res[p] \o <<>> \o ch[p] /\ Rest(p)' = res[p] \o h \o u
      BY <3>2 DEF Rest
    <3>4. res[p] \o <<>> = res[p]
      BY <2>1, Nothing
    <3>5. res[p] \o h \o u = res[p] \o (h \o u)
      <4> DEFINE r == res[p]
      <4>1. r \in Seq(Events) /\ h \in Seq(Events) /\ u \in Seq(Events)
        BY <2>1, <3>1
      <4> HIDE DEF r
      <4>2. r \o h \o u = r \o (h \o u)
        BY ONLY <4>1, ConcatAssociative
      <4>3. QED
        BY <4>2 DEF r
    <3>6. QED
      BY <3>1, <3>3, <3>4, <3>5
  <2>4. CASE Put(p)
    <3> DEFINE r == res[p] \o fwd[p].held
    <3>1. r \in Seq(Events)
      BY <1>1, Parts
    <3>2. res'[p] = r
      BY <1>2, <2>4 DEF Put
    <3>3. fwd'[p].held = <<>> /\ ch' = ch
      BY <1>2, <2>4 DEF Put, ForwarderStates
    <3>4. Rest(p) = r \o ch[p] /\ Rest(p)' = r \o <<>> \o ch[p]
      BY <3>2, <3>3 DEF Rest
    <3>5. QED
      BY <3>1, <3>4, Nothing
  <2>5. CASE Closes(p)
    <3>1. fwd'[p].held = fwd[p].held /\ ch' = ch /\ res' = res
      BY <1>2, <2>5 DEF Closes, ForwarderStates
    <3>2. QED
      BY <3>1 DEF Rest
  <2>6. QED
    BY <2>3, <2>4, <2>5 DEF Forwards
<1>5. QED
  BY <1>3, <1>4

\* Which event a client emits: one of its own, and "done" only where it ends
\* (but for the deepseek client).
EmitsOwn(p) ==
    \/ ch' = ch
    \/ \E e \in Events :
          /\ e.from = p /\ (p # "deepseek" /\ e.type = "done" => Ended(p)')
          /\ ch' = [ch EXCEPT ![p] = Append(@, e)]

\* An event is of the client that emits it, and done is its last.
LEMMA EmitOwn ==
  ASSUME TypeOK, NEW p \in Clients, NEW type \in Types \cup {"nothing"}, Emit(p, type),
         p # "deepseek" /\ type = "done" => Ended(p)'
  PROVE  EmitsOwn(p)
<1>1. CASE type = "nothing"
  BY <1>1 DEF Emit, EmitsOwn
<1>2. CASE type # "nothing"
  <2> DEFINE e == Event(p, type)
  <2>1. client[p] \in ClientStates
    BY DEF TypeOK, ClientStates
  <2>2. e \in Events /\ e.from = p /\ e.type = type
    BY <1>2, <2>1 DEF Event, Events, ClientStates
  <2>3. ch' = [ch EXCEPT ![p] = Append(@, e)]
    BY <1>2 DEF Emit, Send
  <2> HIDE DEF e
  <2>4. QED
    BY <2>2, <2>3 DEF EmitsOwn
<1>3. QED
  BY <1>1, <1>2

\* A line that says done ends the reply.
LEMMA DoneEnds ==
  ASSUME NEW p \in Clients, NEW line \in Lines(p), line.emits = "done"
  PROVE  line.then = "ended"
<1>1. p \in Kinds
  BY LlmAssumption
<1>2. CASE p = "openai"
  BY <1>2 DEF Lines, OpenaiLines, Line, AfterDone
<1>3. CASE p = "anthropic"
  BY <1>3 DEF Lines, AnthropicLines, Line, AfterDone
<1>4. CASE p = "deepseek"
  BY <1>4 DEF Lines, DeepseekLines, Line, AfterDone
<1>5. CASE p = "ollama"
  BY <1>5 DEF Lines, OllamaLines, Line, AfterDone
<1>6. QED
  BY <1>1, <1>2, <1>3, <1>4, <1>5 DEF Kinds

\* A client emits its own events only, and after done none.
LEMMA ClientOwn ==
  ASSUME TypeOK, NEW p \in Clients, Client(p)
  PROVE  EmitsOwn(p) /\ ~Ended(p) /\ (\A q \in Clients \ {p} : Ended(q)' <=> Ended(q))
         /\ UNCHANGED <<chat, fwd, res, caller, cancelled>>
<1>1. client \in [Clients -> ClientStates] /\ Moves(p) /\ UNCHANGED <<chat, fwd, res, caller, cancelled>>
  BY ClientSteps, TypeSplit
<1>2. ~Ended(p) /\ (\A q \in Clients \ {p} : Ended(q)' <=> Ended(q))
  BY <1>1 DEF Moves, Ended
<1>3. ASSUME Emit(p, "error") PROVE EmitsOwn(p)
  BY <1>3, EmitOwn DEF Types
<1>4. ASSUME Send(p, "error") PROVE EmitsOwn(p)
  BY <1>3, <1>4 DEF Emit
<1>5. ASSUME Emit(p, AtEndOfBody(p)) PROVE EmitsOwn(p)
  <2>1. AtEndOfBody(p) \in Types \cup {"nothing"} /\ (p # "deepseek" => AtEndOfBody(p) # "done")
    BY DEF AtEndOfBody, Types
  <2>2. QED
    BY <1>5, <2>1, EmitOwn
<1>6. CASE ReadsLine(p)
  <2>1. PICK line \in Lines(p) :
            /\ Emit(p, line.emits)
            /\ Become(p, [client[p] EXCEPT !.pc = line.then, !.n = @ + 1])
    BY <1>6 DEF ReadsLine
  <2>2. line.emits \in Types \cup {"nothing"}
    BY LinesEmit
  <2>3. line.emits = "done" => Ended(p)'
    <3>1. SUFFICES ASSUME line.emits = "done" PROVE Ended(p)'
      OBVIOUS
    <3>2. line.then = "ended"
      BY <3>1, DoneEnds
    <3>3. client[p] \in ClientStates
      BY <1>1
    <3> DEFINE k == client[p].n + 1
               c == [client[p] EXCEPT !.pc = "ended", !.n = k]
    <3>4. client' = [client EXCEPT ![p] = c]
      BY <2>1, <3>2, <1>1 DEF Become
    <3> HIDE DEF k
    <3>5. c.pc = "ended"
      BY <3>3 DEF ClientStates
    <3> HIDE DEF c
    <3>6. QED
      BY <1>1, <3>4, <3>5 DEF Ended
  <2>4. EmitsOwn(p)
    BY <2>1, <2>2, <2>3, EmitOwn
  <2>5. QED
    BY <1>1, <1>2, <2>4
<1>7. CASE BodyEnds(p) \/ BodyBreaks(p)
  BY <1>1, <1>2, <1>5, <1>7 DEF BodyEnds, BodyBreaks
<1>8. CASE Requested(p) \/ RequestFails(p) \/ RetryAfter(p) \/ Backoff(p) \/ GivesUp(p)
  BY <1>1, <1>2, <1>4, <1>8 DEF Requested, RequestFails, RetryAfter, Backoff, GivesUp, EmitsOwn
<1>9. QED
  BY <1>6, <1>7, <1>8 DEF Client

-----------------------------------------------------------------------------
\* The whole of a client's stream, of which the caller may have received a part.
Received(p) == IF Returned /\ Current = p THEN caller.got ELSE <<>>

Whole(p) == Received(p) \o Rest(p)

OneDone(p, s) ==
    /\ s \in Seq(Events)
    /\ \A i \in 1 .. Len(s) :
          /\ s[i].from = p
          /\ p # "deepseek" /\ s[i].type = "done" => i = Len(s) /\ Ended(p)

DInv ==
    /\ \A p \in Clients : OneDone(p, Whole(p))
    /\ caller.got # <<>> => Returned

\* A step by which the streams stay as they are.
LEMMA WholeKept ==
  ASSUME DInv, \A p \in Clients : Whole(p)' = Whole(p), \A p \in Clients : Ended(p) => Ended(p)',
         (caller.got # <<>> => Returned)'
  PROVE  DInv'
<1>1. ASSUME NEW p \in Clients PROVE OneDone(p, Whole(p))'
  BY DEF DInv, OneDone
<1>2. QED
  BY <1>1 DEF DInv

\* A client's whole stream is what the caller has of it and what is on its way.
LEMMA WholeIs ==
  ASSUME SInv, NEW p \in Clients
  PROVE  /\ Rest(p) \in Seq(Events) /\ Received(p) \in Seq(Events) /\ Whole(p) \in Seq(Events)
         /\ Received(p) = <<>> => Whole(p) = Rest(p)
<1>1. Rest(p) \in Seq(Events)
  BY Parts DEF SInv, Rest
<1>2. Received(p) \in Seq(Events)
  BY TypeSplit, EmptySeq DEF SInv, Received
<1>3. <<>> \o Rest(p) = Rest(p)
  BY <1>1, ConcatEmptySeq
<1>4. QED
  BY <1>1, <1>2, <1>3, ConcatProperties DEF Whole

\* At the start all streams are empty.
LEMMA DInit == Init => DInv
<1> SUFFICES ASSUME Init PROVE DInv
  OBVIOUS
<1>1. SInv /\ caller.got = <<>>
  BY SInit DEF Init
<1>2. ASSUME NEW p \in Clients PROVE Whole(p) = <<>>
  <2>1. Received(p) = <<>> /\ res[p] = <<>> /\ fwd[p].held = <<>> /\ ch[p] = <<>>
    BY <1>1 DEF Init, Received
  <2>2. Rest(p) = <<>> \o <<>> \o <<>>
    BY <2>1 DEF Rest
  <2>3. QED
    BY <1>1, <2>1, <2>2, WholeIs, Nothing, EmptySeq
<1>3. <<>> \in Seq(Events) /\ Len(<<>>) = 0
  BY EmptySeq
<1>4. ASSUME NEW p \in Clients PROVE OneDone(p, Whole(p))
  <2>1. PICK w \in Seq(Events) : w = <<>> /\ Len(w) = 0
    BY <1>3
  <2>2. OneDone(p, w)
    BY <2>1 DEF OneDone
  <2>3. QED
    BY <1>2, <2>1, <2>2
<1>5. QED
  BY <1>1, <1>4 DEF DInv

\* A client's step adds at most one event, at the end of its stream.
LEMMA DClient ==
  ASSUME SInv, DInv, NEW p \in Clients, Client(p)
  PROVE  DInv'
<1>1. /\ EmitsOwn(p) /\ ~Ended(p) /\ (\A q \in Clients \ {p} : Ended(q)' <=> Ended(q))
      /\ UNCHANGED <<chat, fwd, res, caller>> /\ TypeOK
  BY ClientOwn DEF SInv
<1>2. (caller.got # <<>> => Returned)'
  BY <1>1 DEF DInv, Returned
<1>3. \A q \in Clients : Received(q)' = Received(q)
  BY <1>1 DEF Received, Returned, Current
<1>4. CASE ch' = ch
  BY <1>1, <1>2, <1>3, <1>4, WholeKept DEF Whole, Rest
<1>5. ASSUME NEW e \in Events, e.from = p, p # "deepseek" /\ e.type = "done" => Ended(p)',
             ch' = [ch EXCEPT ![p] = Append(@, e)]
      PROVE  DInv'
  <2>1. ch'[p] = Append(ch[p], e) /\ \A q \in Clients \ {p} : ch'[q] = ch[q]
    BY <1>1, <1>5, TypeSplit
  <2>2. \A q \in Clients \ {p} : Whole(q)' = Whole(q)
    BY <1>1, <1>3, <2>1 DEF Whole, Rest
  <2> DEFINE a == res[p] \o fwd[p].held
             w == Whole(p)
  <2>3. a \in Seq(Events) /\ ch[p] \in Seq(Events) /\ <<e>> \in Seq(Events)
    BY <1>1, Parts
  <2>4. Rest(p)' = Append(Rest(p), e)
    <3> DEFINE b == ch[p]
               u == <<e>>
    <3>1. Rest(p)' = a \o Append(b, e) /\ Rest(p) = a \o b
      BY <1>1, <2>1 DEF Rest
    <3>2. a \in Seq(Events) /\ b \in Seq(Events) /\ u \in Seq(Events)
      BY <2>3
    <3>3. b \o u = Append(b, e) /\ (a \o b) \o u = Append(a \o b, e)
      <4>1. a \o b \in Seq(Events)
        BY <3>2, ConcatProperties
      <4>2. QED
        BY <3>2, <4>1, AppendIsConcat
    <3> HIDE DEF a, b, u
    <3>5. a \o (b \o u) = (a \o b) \o u
      BY ONLY <3>2, ConcatAssociative
    <3>6. QED
      BY <3>1, <3>3, <3>5
  <2>5. Whole(p)' = Append(w, e) /\ w \in Seq(Events)
    <3> DEFINE r == Received(p)
               t == Rest(p)
    <3>1. r \in Seq(Events) /\ t \in Seq(Events) /\ r \o t \in Seq(Events)
      BY WholeIs DEF Whole
    <3>2. Whole(p)' = r \o Append(t, e) /\ w = r \o t
      BY <1>3, <2>4 DEF Whole
    <3> HIDE DEF r, t
    <3>3. r \o (t \o <<e>>) = (r \o t) \o <<e>>
      BY ONLY <3>1, <2>3, ConcatAssociative
    <3>4. t \o <<e>> = Append(t, e) /\ (r \o t) \o <<e>> = Append(r \o t, e)
      BY <3>1, AppendIsConcat
    <3>5. QED
      BY <3>1, <3>2, <3>3, <3>4
  <2>6. OneDone(p, w)
    BY DEF DInv
  <2> HIDE DEF w
  <2> DEFINE v == Append(w, e)
  <2>7. /\ v \in Seq(Events) /\ Len(v) = Len(w) + 1 /\ v[Len(w) + 1] = e
        /\ \A i \in 1 .. Len(w) : v[i] = w[i]
    BY <2>5, AppendProperties
  <2>8. Len(w) \in Nat
    BY <2>5
  <2> HIDE DEF v
  <2>9. \A i \in 1 .. Len(v) :
            /\ v[i].from = p
            /\ p # "deepseek" /\ v[i].type = "done" => i = Len(v) /\ Ended(p)'
    <3> SUFFICES ASSUME NEW i \in 1 .. Len(v)
                 PROVE  /\ v[i].from = p
                        /\ p # "deepseek" /\ v[i].type = "done" => i = Len(v) /\ Ended(p)'
      OBVIOUS
    <3>1. CASE i = Len(w) + 1
      BY <1>5, <2>7, <3>1
    <3>2. CASE i # Len(w) + 1
      <4>1. i \in 1 .. Len(w) /\ v[i] = w[i]
        BY <2>7, <2>8, <3>2
      <4>2. QED
        BY <1>1, <2>6, <4>1 DEF OneDone
    <3>3. QED
      BY <3>1, <3>2
  <2>10. OneDone(p, Whole(p))'
    <3>1. Whole(p)' = v
      BY <2>5 DEF v
    <3>2. QED
      BY <3>1, <2>7, <2>9 DEF OneDone
  <2>11. ASSUME NEW q \in Clients, q # p PROVE OneDone(q, Whole(q))'
    <3>1. Whole(q)' = Whole(q) /\ OneDone(q, Whole(q)) /\ (Ended(q) => Ended(q)')
      BY <1>1, <2>2, <2>11 DEF DInv
    <3>2. QED
      BY <3>1 DEF OneDone
  <2>12. QED
    BY <1>2, <2>10, <2>11 DEF DInv
<1>6. QED
  BY <1>1, <1>4, <1>5 DEF EmitsOwn

\* Chat hands a stream over whole, or drops one of which the caller has nothing.
LEMMA DChats ==
  ASSUME SInv, DInv, Chats
  PROVE  DInv'
<1>1. TypeOK /\ NothingYet /\ UNCHANGED caller
  BY DEF SInv, Chats, TryNext, FirstEvent, ClosedAtOnce
<1>2. chat.pc \in {"try", "first"} /\ caller.got = <<>>
  BY <1>1 DEF Chats, TryNext, FirstEvent, ClosedAtOnce, NothingYet
<1>3. \A p \in Clients : Received(p) = <<>> /\ Received(p)' = <<>>
  BY <1>1, <1>2 DEF Received
<1>4. (caller.got # <<>> => Returned)'
  BY <1>1, <1>2
<1>5. \A p \in Clients : Ended(p) => Ended(p)'
  <2>1. CASE TryNext
    <3>1. CASE client' = client
      BY <3>1 DEF Ended
    <3>2. CASE client' = Started(Chain[chat.i + 1]) /\ chat.i # Len(Chain)
      <4> DEFINE n == Chain[chat.i + 1]
      <4>1. chat.i + 1 \in 1 .. Len(Chain) /\ chat.i + 1 > chat.i
        BY <1>1, <3>2, ChainNamesClients DEF TypeOK
      <4>2. client[n].pc = "idle"
        BY <4>1 DEF SInv, Untouched
      <4> HIDE DEF n
      <4>3. \A p \in Clients \ {n} : client'[p] = client[p]
        BY <1>1, <3>2, TypeSplit DEF Started, n
      <4>4. QED
        BY <4>2, <4>3 DEF Ended
    <3>3. QED
      BY <2>1, <3>1, <3>2 DEF TryNext
  <2>2. CASE FirstEvent \/ ClosedAtOnce
    BY <2>2 DEF FirstEvent, ClosedAtOnce, Ended
  <2>3. QED
    BY <2>1, <2>2 DEF Chats
<1>6. \A p \in Clients : Rest(p)' = Rest(p)
  <2>1. CASE TryNext \/ ClosedAtOnce
    BY <2>1 DEF TryNext, ClosedAtOnce, Rest
  <2>2. CASE FirstEvent
    <3>0. PICK c : c = Current
      OBVIOUS
    <3> DEFINE e == Head(ch[c])
    <3>1. /\ chat.pc = "first" /\ ch[c] # <<>>
          /\ ch' = [ch EXCEPT ![c] = Tail(@)] /\ res' = [res EXCEPT ![c] = <<e>>]
          /\ fwd' = [fwd EXCEPT ![c].pc = "running"]
      BY <2>2, <3>0 DEF FirstEvent, Opening
    <3>2. c \in Clients /\ res[c] = <<>> /\ fwd[c] = Off
      BY <3>0, <3>1, CurrentIsClient DEF SInv, NotForwarded
    <3>3. /\ ch \in [Clients -> Seq(Events)] /\ res \in [Clients -> Seq(Events)]
          /\ fwd \in [Clients -> ForwarderStates] /\ ch[c] \in Seq(Events)
      BY <1>1, <3>2, TypeSplit
    <3>4. <<e>> \in Seq(Events) /\ <<e>> \o Tail(ch[c]) = ch[c]
      BY <3>1, <3>3, FrontAgain
    <3> DEFINE f == <<e>>
               t == Tail(ch[c])
    <3> HIDE DEF e
    <3>5. ch'[c] = Tail(ch[c]) /\ res'[c] = <<e>> /\ fwd'[c].held = <<>>
      <4>1. fwd[c].held = <<>>
        BY <3>2 DEF Off
      <4>2. QED
        BY <3>1, <3>2, <3>3, <4>1 DEF ForwarderStates
    <3> HIDE DEF f, t
    <3>6. ch'[c] = t /\ res'[c] = f /\ fwd'[c].held = <<>> /\ f \in Seq(Events) /\ f \o t = ch[c]
      BY <3>4, <3>5 DEF f, t
    <3>7. Rest(c)' = f \o <<>> \o t
      BY <3>6 DEF Rest
    <3>8. Rest(c)' = Rest(c)
      <4>1. fwd[c].held = <<>>
        BY <3>2 DEF Off
      <4>2. Rest(c) = <<>> \o <<>> \o ch[c]
        BY <3>2, <4>1 DEF Rest
      <4>3. Rest(c) = ch[c]
        BY <3>3, <4>2, Nothing
      <4>4. f \o <<>> = f
        BY <3>6, Nothing
      <4>5. QED
        BY <3>6, <3>7, <4>3, <4>4
    <3>9. ASSUME NEW q \in Clients, q # c PROVE Rest(q)' = Rest(q)
      <4>1. ch'[q] = ch[q] /\ res'[q] = res[q] /\ fwd'[q] = fwd[q]
        BY <3>1, <3>3, <3>9
      <4>2. QED
        BY <4>1 DEF Rest
    <3>10. QED
      BY <3>8, <3>9
  <2>3. QED
    BY <2>1, <2>2 DEF Chats
<1>7. \A p \in Clients : Whole(p)' = Whole(p)
  BY <1>3, <1>6 DEF Whole
<1>8. QED
  BY <1>4, <1>5, <1>7, WholeKept

\* A forwarder's step leaves the stream as it is.
LEMMA DForwards ==
  ASSUME SInv, DInv, NEW p \in Clients, Forwards(p)
  PROVE  DInv'
<1>1. UNCHANGED <<client, chat, caller>>
  BY DEF Forwards, Take, Put, Closes
<1>2. \A q \in Clients : Rest(q)' = Rest(q)
  BY ForwardsKeep
<1>3. \A q \in Clients : Whole(q)' = Whole(q)
  BY <1>1, <1>2 DEF Whole, Received, Returned, Current
<1>4. QED
  BY <1>1, <1>3, WholeKept DEF DInv, Returned, Ended

\* What the caller receives is the next event of the stream it has.
LEMMA DRead ==
  ASSUME SInv, DInv, Read
  PROVE  DInv'
<1>0. PICK c : c = Current
  OBVIOUS
<1>1. /\ UNCHANGED <<client, chat, fwd>> /\ Returned /\ Returned' /\ TypeOK
  BY DEF Read, Returned, SInv
<1>2. chat.pc \in {"first", "returned", "direct"} /\ c \in Clients /\ Current' = c
  BY <1>0, <1>1, CurrentIsClient DEF Returned, Current
<1>3. Stream!Receive
  BY ReadMaps
<1>4. InFlight = Rest(c) /\ InFlight' = Rest(c)'
  BY <1>0, <1>1, <1>2 DEF InFlight, Rest
<1>5. Received(c) = caller.got /\ Received(c)' = caller'.got
  BY <1>0, <1>1, <1>2 DEF Received
<1> DEFINE r == Rest(c)
           g == caller.got
<1>6. r # <<>> /\ Rest(c)' = Tail(r) /\ caller'.got = Append(g, Head(r))
  BY <1>3, <1>4 DEF Stream!Receive
<1>7. r \in Seq(Events) /\ g \in Seq(Events)
  BY <1>2, <1>5, WholeIs
<1>8. Whole(c)' = Append(g, Head(r)) \o Tail(r) /\ Whole(c) = g \o r
  BY <1>5, <1>6 DEF Whole
<1> HIDE DEF r, g
<1>9. Whole(c)' = Whole(c)
  <2> DEFINE h == <<Head(r)>>
             t == Tail(r)
  <2>1. h \in Seq(Events) /\ t \in Seq(Events) /\ h \o t = r /\ Head(r) \in Events
    BY <1>6, <1>7, FrontAgain
  <2>2. Append(g, Head(r)) = g \o h
    BY <1>7, <2>1, AppendIsConcat
  <2> HIDE DEF h, t
  <2>3. g \in Seq(Events) /\ h \in Seq(Events) /\ t \in Seq(Events)
    BY <1>7, <2>1
  <2>4. (g \o h) \o t = g \o (h \o t)
    BY ONLY <2>3, ConcatAssociative
  <2>5. QED
    BY <1>8, <2>1, <2>2, <2>4 DEF t
<1>10. ASSUME NEW q \in Clients, q # c PROVE Whole(q)' = Whole(q)
  <2>1. ch'[q] = ch[q] /\ res'[q] = res[q] /\ fwd' = fwd
    BY <1>0, <1>10, TypeSplit, <1>1 DEF Read
  <2>2. Received(q)' = Received(q)
    BY <1>0, <1>2, <1>10 DEF Received
  <2>3. QED
    BY <2>1, <2>2 DEF Whole, Rest
<1>11. \A q \in Clients : Whole(q)' = Whole(q)
  BY <1>9, <1>10
<1>12. QED
  BY <1>1, <1>11, WholeKept DEF Ended

\* The caller's decisions leave the streams as they are.
LEMMA DOther ==
  ASSUME SInv, DInv, ReadsToEnd \/ Cancel \/ UNCHANGED vars
  PROVE  DInv'
<1>1. UNCHANGED <<client, ch, chat, fwd, res>> /\ caller'.got = caller.got
  BY TypeSplit DEF ReadsToEnd, Cancel, vars, SInv
<1>2. \A q \in Clients : Whole(q)' = Whole(q)
  BY <1>1 DEF Whole, Received, Rest, Returned, Current
<1>3. QED
  BY <1>1, <1>2, WholeKept DEF DInv, Returned, Ended

\* The invariant of the streams is inductive.
LEMMA DStep == SInv /\ DInv /\ [Next]_vars => DInv'
<1>1. SUFFICES ASSUME SInv, DInv, [Next]_vars PROVE DInv'
  OBVIOUS
<1>2. QED
  BY <1>1, DChats, DRead, DOther, DClient, DForwards DEF Next, Calls

\* Nothing follows done in what comes of a client, neither a second done nor the text of
\* a further attempt; the deepseek client is left out, since its parser does otherwise.
THEOREM LlmDoneIsLast == Spec => []DoneIsLast
<1>1. SInv /\ DInv => DoneIsLast
  <2> SUFFICES ASSUME SInv, DInv, NEW p \in Clients \ {"deepseek"},
                      NEW all, all = caller.got \o res[p] \o fwd[p].held \o ch[p],
                      NEW i \in 1 .. Len(all), all[i].from = p, all[i].type = "done"
               PROVE  Ended(p) /\ \A j \in i + 1 .. Len(all) : all[j].from # p
    BY DEF DoneIsLast
  <2> DEFINE g == caller.got
             t == Rest(p)
  <2>1. g \in Seq(Events) /\ t \in Seq(Events) /\ OneDone(p, Whole(p))
    BY TypeSplit, WholeIs DEF SInv, DInv
  <2>2. all = g \o t
    <3> DEFINE r == res[p]
               h == fwd[p].held
               d == ch[p]
    <3>1. r \in Seq(Events) /\ h \in Seq(Events) /\ d \in Seq(Events) /\ r \o h \in Seq(Events)
      BY Parts DEF SInv
    <3>2. all = g \o r \o h \o d /\ t = r \o h \o d
      BY DEF Rest
    <3> HIDE DEF r, h, d, g, t
    <3>3. g \in Seq(Events)
      BY <2>1
    <3>4. (g \o r) \o h = g \o (r \o h)
      BY ONLY <3>1, <3>3, ConcatAssociative
    <3> DEFINE k == r \o h
    <3>5. k \in Seq(Events) /\ g \o r \o h \o d = (g \o k) \o d /\ r \o h \o d = k \o d
      BY <3>1, <3>4
    <3> HIDE DEF k
    <3>6. g \in Seq(Events) /\ k \in Seq(Events) /\ d \in Seq(Events)
      BY <3>1, <3>3, <3>5
    <3>7. (g \o k) \o d = g \o (k \o d)
      BY ONLY <3>6, ConcatAssociative
    <3>8. QED
      BY <3>2, <3>5, <3>7
  <2>3. CASE Received(p) = g
    <3>1. all = Whole(p)
      BY <2>2, <2>3 DEF Whole
    <3>2. QED
      BY <2>1, <3>1 DEF OneDone
  <2>4. CASE Received(p) # g
    <3>1. Received(p) = <<>> /\ g # <<>> /\ Returned /\ Current # p
      BY <2>4 DEF Received, DInv
    <3>2. Current \in Clients /\ chat.pc \in {"first", "returned", "direct"}
      BY <3>1, CurrentIsClient DEF Returned
    <3>0. PICK c : c = Current
      OBVIOUS
    <3>3. Received(c) = g /\ OneDone(c, Whole(c)) /\ Whole(c) = g \o Rest(c) /\ Rest(c) \in Seq(Events)
      BY <3>0, <3>1, <3>2, WholeIs DEF Received, DInv, Whole
    <3>4. \A k \in 1 .. Len(g) : g[k].from # p
      <4>1. \A k \in 1 .. Len(g) : k \in 1 .. Len(Whole(c)) /\ Whole(c)[k] = g[k]
        BY <2>1, <3>3, ConcatProperties
      <4>2. QED
        BY <3>0, <3>1, <3>3, <4>1 DEF OneDone
    <3>5. OneDone(p, t)
      BY <2>1, <3>1, WholeIs
    <3>6. /\ Len(all) = Len(g) + Len(t) /\ Len(g) \in Nat /\ Len(t) \in Nat
          /\ \A k \in 1 .. Len(all) : all[k] = IF k <= Len(g) THEN g[k] ELSE t[k - Len(g)]
      BY <2>1, <2>2, ConcatProperties
    <3> HIDE DEF g, t
    <3>7. i \in 1 .. Len(g) + Len(t) /\ all[i].from = p /\ all[i].type = "done" /\ p # "deepseek"
      BY <3>6
    <3>8. i > Len(g)
      BY ONLY <3>4, <3>6, <3>7
    <3>9. i - Len(g) \in 1 .. Len(t) /\ all[i] = t[i - Len(g)]
      BY ONLY <3>6, <3>7, <3>8
    <3>10. i - Len(g) = Len(t) /\ Ended(p)
      BY ONLY <3>5, <3>7, <3>9 DEF OneDone
    <3>11. i = Len(all)
      BY ONLY <3>6, <3>7, <3>10
    <3>12. ASSUME NEW j \in i + 1 .. Len(all) PROVE FALSE
      BY ONLY <3>6, <3>11, <3>12
    <3>13. QED
      BY <3>10, <3>12
  <2>5. QED
    BY <2>3, <2>4
<1>2. QED
  BY <1>1, SInit, SStep, DInit, DStep, PTL DEF Spec
=============================================================================
