----------------------------- MODULE McpProofs ------------------------------
(***************************************************************************)
(* The two ends of MCP. The stdio transport gives every Send the answer to *)
(* its own request and leaves nobody waiting when it gives up; the SSE     *)
(* client loses no answer, and its manager keeps every open client within  *)
(* reach: for any number of Sends, calls and servers, and whatever the     *)
(* servers say.                                                            *)
(***************************************************************************)
EXTENDS StdioTransport, McpClient, SequenceTheorems, FiniteSetTheorems, TLAPS

\* What has been read but not delivered is one line, for the request it names.
DeliversOwn == reader.to = {} \/ (reader.to = {reader.line} /\ reader.line \in Requests)

\* A request whose channel is in pending, or in the reader's hands, and one that
\* has not been registered, has been given nothing.
NothingGivenYet ==
    /\ reader.to \cap pending = {}
    /\ \A r \in Requests :
          r \in pending \cup reader.to \/ sends[r].pc = "new" => chan[r] = <<>>

\* Nobody waits for a request before its Send has registered it.
RegisteredFirst ==
    \A r \in Requests : sends[r].pc = "new" => r \notin pending \cup reader.to

\* A channel holds the request's own answer, or a failure.
HoldsOwn == \A r \in Requests : chan[r] \in {<<>>, <<r>>, <<Failure>>}

IInv == /\ TypeOK /\ DeliversOwn /\ NothingGivenYet /\ RegisteredFirst /\ HoldsOwn
        /\ AnswersOwnRequest
-----------------------------------------------------------------------------
\* A channel of capacity one: what it holds is taken whole, what is put into an
\* empty one is all it holds.
LEMMA OneSlot ==
  ASSUME NEW x
  PROVE  /\ Tail(<<x>>) = <<>> /\ Head(<<x>>) = x /\ <<x>> # <<>>
         /\ Append(<<>>, x) = <<x>>
  OBVIOUS

\* A new transport satisfies the invariant.
THEOREM StdioInit == Init => IInv
<1> SUFFICES ASSUME Init PROVE IInv
  OBVIOUS
<1>1. MaxRetries \in Nat /\ 1 \in Processes
  BY StdioTransportAssumption DEF Processes
<1>2. TypeOK
  <2>1. out \in [Processes -> Seq(Requests \cup {TooLong})]
    BY DEF Init
  <2>2. chan \in [Requests -> Content]
    BY DEF Init, Content
  <2>3. sends \in [Requests -> SendState]
    BY DEF Init, SendState
  <2>4. reader \in ReaderState
    BY <1>1 DEF Init, ReaderState
  <2>5. retries \in 0 .. MaxRetries
    BY <1>1 DEF Init
  <2>6. state \in [Processes -> {"unborn", "alive", "dead"}]
    BY DEF Init
  <2>7. QED
    BY <1>1, <2>1, <2>2, <2>3, <2>4, <2>5, <2>6 DEF Init, TypeOK
<1>3. DeliversOwn /\ NothingGivenYet /\ RegisteredFirst /\ HoldsOwn /\ AnswersOwnRequest
  BY DEF Init, DeliversOwn, NothingGivenYet, RegisteredFirst, HoldsOwn, AnswersOwnRequest
<1>4. QED
  BY <1>2, <1>3 DEF IInv

-----------------------------------------------------------------------------
\* A Send that goes on to a state of its own disturbs no other.
LEMMA SendMoves ==
  ASSUME TypeOK, AnswersOwnRequest, NEW r \in Requests, NEW s \in SendState,
         s.pc # "new", s.pc = "ok" => s.got = r,
         sends' = [sends EXCEPT ![r] = s]
  PROVE  /\ sends' \in [Requests -> SendState] /\ AnswersOwnRequest'
         /\ \A q \in Requests : sends'[q].pc = "new" => q # r /\ sends[q].pc = "new"
<1>1. \A q \in Requests : sends'[q] = IF q = r THEN s ELSE sends[q]
  BY DEF TypeOK
<1>2. sends' \in [Requests -> SendState]
  BY DEF TypeOK
<1>3. QED
  BY <1>1, <1>2 DEF AnswersOwnRequest

\* Each step of a Send keeps the invariant.
LEMMA SendKeeps ==
  ASSUME IInv, NEW r \in Requests, SendStep(r) \/ Cancel(r)
  PROVE  IInv'
<1> USE DEF IInv
<1>0. sends[r] \in SendState /\ cmd \in Processes
  BY DEF TypeOK
<1>1. CASE Register(r)
  <2> DEFINE s == IF closed THEN [sends[r] EXCEPT !.pc = "error"]
                            ELSE [sends[r] EXCEPT !.pc = "write", !.stdin = cmd]
  <2>1. s \in SendState /\ s.pc \in {"error", "write"}
    BY <1>0 DEF SendState
  <2>2. sends' = [sends EXCEPT ![r] = s]
    BY <1>1 DEF Register
  <2>3. pending \subseteq pending' /\ pending' \subseteq pending \cup {r}
    BY <1>1 DEF Register
  <2>4. UNCHANGED <<state, asked, said, out, cmd, closed, retries, chan, reader, closer, victim>>
    BY <1>1 DEF Register
  <2> HIDE DEF s
  <2>5. /\ sends' \in [Requests -> SendState] /\ AnswersOwnRequest'
        /\ \A q \in Requests : sends'[q].pc = "new" => q # r /\ sends[q].pc = "new"
    BY <2>1, <2>2, SendMoves
  <2>6. TypeOK'
    BY <2>3, <2>4, <2>5 DEF TypeOK
  <2>7. chan[r] = <<>> /\ r \notin reader.to
    BY <1>1 DEF Register, NothingGivenYet, RegisteredFirst
  <2>8. (NothingGivenYet /\ RegisteredFirst)'
    BY <2>3, <2>4, <2>5, <2>7 DEF NothingGivenYet, RegisteredFirst
  <2>9. (DeliversOwn /\ HoldsOwn)'
    BY <2>4 DEF DeliversOwn, HoldsOwn
  <2>10. QED
    BY <2>5, <2>6, <2>8, <2>9
<1>2. CASE Write(r) \/ Cancel(r)
  <2>1. PICK pc \in {"wait", "error"} : sends' = [sends EXCEPT ![r] = [sends[r] EXCEPT !.pc = pc]]
    BY <1>2 DEF Write, Cancel
  <2>2. [sends[r] EXCEPT !.pc = pc] \in SendState /\ [sends[r] EXCEPT !.pc = pc].pc = pc
    BY <1>0 DEF SendState
  <2>3. /\ sends' \in [Requests -> SendState] /\ AnswersOwnRequest'
        /\ \A q \in Requests : sends'[q].pc = "new" => q # r /\ sends[q].pc = "new"
    BY <2>1, <2>2, SendMoves
  <2>4. /\ UNCHANGED <<state, said, out, cmd, closed, retries, pending, chan, reader, closer, victim>>
        /\ asked' = asked \/ \E p : asked' = [asked EXCEPT ![p] = @ \cup {r}]
    BY <1>2 DEF Write, Cancel
  <2>8. asked' \in [Processes -> SUBSET Requests]
    <3>1. asked \in [Processes -> SUBSET Requests]
      BY DEF TypeOK
    <3>2. ASSUME NEW p, asked' = [asked EXCEPT ![p] = @ \cup {r}]
          PROVE  asked' \in [Processes -> SUBSET Requests]
      <4>1. CASE p \in Processes
        <5>1. asked[p] \cup {r} \in SUBSET Requests
          BY <3>1, <4>1
        <5>2. QED
          BY <3>1, <3>2, <5>1
      <4>2. CASE p \notin Processes
        BY <3>1, <3>2, <4>2
      <4>3. QED
        BY <4>1, <4>2
    <3>3. QED
      BY <2>4, <3>1, <3>2
  <2>5. TypeOK'
    BY <2>3, <2>4, <2>8 DEF TypeOK
  <2>6. (DeliversOwn /\ NothingGivenYet /\ RegisteredFirst /\ HoldsOwn)'
    BY <2>3, <2>4 DEF DeliversOwn, NothingGivenYet, RegisteredFirst, HoldsOwn
  <2>7. QED
    BY <2>3, <2>5, <2>6
<1>3. CASE Receive(r)
  <2>1. PICK x \in {r, Failure} : chan[r] = <<x>>
    BY <1>3 DEF HoldsOwn, Receive
  <2>2. Head(chan[r]) = x /\ Tail(chan[r]) = <<>>
    BY <2>1, OneSlot
  <2> DEFINE s == [sends[r] EXCEPT !.pc = IF x = Failure THEN "error" ELSE "ok", !.got = x]
  <2>3. s \in SendState /\ s.pc # "new" /\ (s.pc = "ok" => s.got = r)
    BY <1>0 DEF SendState
  <2>4. sends' = [sends EXCEPT ![r] = s]
    BY <1>3, <2>2 DEF Receive
  <2>5. chan' = [chan EXCEPT ![r] = <<>>]
    BY <1>3, <2>2 DEF Receive
  <2> HIDE DEF s
  <2>6. /\ sends' \in [Requests -> SendState] /\ AnswersOwnRequest'
        /\ \A q \in Requests : sends'[q].pc = "new" => q # r /\ sends[q].pc = "new"
    BY <2>3, <2>4, SendMoves
  <2>7. chan' \in [Requests -> Content] /\ (\A q \in Requests : chan'[q] \in {chan[q], <<>>})
    BY <2>5 DEF TypeOK, Content
  <2>8. UNCHANGED <<state, asked, said, out, cmd, closed, retries, pending, reader, closer, victim>>
    BY <1>3 DEF Receive
  <2>9. TypeOK'
    BY <2>6, <2>7, <2>8 DEF TypeOK
  <2>10. (NothingGivenYet /\ RegisteredFirst)'
    BY <2>6, <2>7, <2>8 DEF NothingGivenYet, RegisteredFirst
  <2>11. (DeliversOwn /\ HoldsOwn)'
    BY <2>7, <2>8 DEF DeliversOwn, HoldsOwn
  <2>12. QED
    BY <2>6, <2>9, <2>10, <2>11
<1>4. QED
  BY <1>1, <1>2, <1>3 DEF SendStep

\* What the server says and when it dies touch no Send and no channel.
LEMMA ServerKeeps ==
  ASSUME IInv, NEW p \in Processes, NEW r \in Requests,
         Answer(p, r) \/ AnswerAgain(p, r) \/ Die(p)
  PROVE  IInv'
<1> USE DEF IInv
<1>1. \A x \in Requests \cup {TooLong} :
          Append(out[p], x) \in Seq(Requests \cup {TooLong})
  BY AppendProperties DEF TypeOK
<1>2. TypeOK'
  <2>1. CASE Answer(p, r)
    BY <1>1, <2>1 DEF TypeOK, Answer
  <2>2. CASE AnswerAgain(p, r)
    BY <1>1, <2>2 DEF TypeOK, AnswerAgain
  <2>3. CASE Die(p)
    BY <2>3 DEF TypeOK, Die
  <2>4. QED
    BY <2>1, <2>2, <2>3
<1>3. UNCHANGED <<pending, chan, sends, reader>>
  BY DEF Answer, AnswerAgain, Die
<1>4. (DeliversOwn /\ NothingGivenYet /\ RegisteredFirst /\ HoldsOwn /\ AnswersOwnRequest)'
  BY <1>3 DEF DeliversOwn, NothingGivenYet, RegisteredFirst, HoldsOwn, AnswersOwnRequest
<1>5. QED
  BY <1>2, <1>4

\* Reading a line, delivering it and failing all that wait keep the invariant.
LEMMA ReadKeeps ==
  ASSUME IInv, Read
  PROVE  IInv'
<1> USE DEF IInv
<1> DEFINE line == Head(out[reader.proc])
<1>1. line \in Requests \cup {TooLong} /\ Tail(out[reader.proc]) \in Seq(Requests \cup {TooLong})
  <2>1. out[reader.proc] \in Seq(Requests \cup {TooLong}) /\ out[reader.proc] # <<>>
    BY DEF Read, TypeOK, ReaderState
  <2>2. QED
    BY <2>1, HeadTailProperties
<1>2. UNCHANGED <<state, asked, said, cmd, closed, retries, chan, sends, closer, victim>>
  BY DEF Read
<1>3. out' \in [Processes -> Seq(Requests \cup {TooLong})]
  BY <1>1 DEF Read, TypeOK
<1>4. CASE line \in pending
  <2>1. pending' = pending \ {line} /\ reader' = [reader EXCEPT !.pc = "deliver", !.to = {line}, !.line = line]
    BY <1>4 DEF Read, Waiting, TakenOut
  <2>2. line \in Requests
    BY <1>4 DEF TypeOK
  <2>3. TypeOK'
    BY <1>2, <1>3, <2>1, <2>2 DEF TypeOK, ReaderState
  <2>4. reader'.to = {line} /\ reader'.line = line
    BY <2>1 DEF TypeOK, ReaderState
  <2>5. (DeliversOwn /\ NothingGivenYet /\ RegisteredFirst)'
    BY <1>2, <1>4, <2>1, <2>2, <2>4 DEF DeliversOwn, NothingGivenYet, RegisteredFirst
  <2>6. (HoldsOwn /\ AnswersOwnRequest)'
    BY <1>2 DEF HoldsOwn, AnswersOwnRequest
  <2>7. QED
    BY <2>3, <2>5, <2>6
<1>5. CASE line \notin pending
  <2>1. UNCHANGED <<pending, reader>>
    BY <1>5 DEF Read, Waiting
  <2>2. TypeOK'
    BY <1>2, <1>3, <2>1 DEF TypeOK
  <2>3. (DeliversOwn /\ NothingGivenYet /\ RegisteredFirst /\ HoldsOwn /\ AnswersOwnRequest)'
    BY <1>2, <2>1 DEF DeliversOwn, NothingGivenYet, RegisteredFirst, HoldsOwn, AnswersOwnRequest
  <2>4. QED
    BY <2>2, <2>3
<1>6. QED
  BY <1>4, <1>5

\* What is delivered came off pending, so its channel was empty.
LEMMA DeliverKeeps ==
  ASSUME IInv, Deliver
  PROVE  IInv'
<1> USE DEF IInv
<1>1. \A r \in reader.to : chan'[r] = <<r>>
  BY OneSlot DEF Deliver, Put, DeliversOwn
<1>2. \A r \in Requests : r \notin reader.to => chan'[r] = chan[r]
  BY DEF Deliver
<1>3. chan' \in [Requests -> Content]
  <2>1. \A r \in Requests :
          chan'[r] \in Content
    BY <1>1, <1>2 DEF TypeOK, Content
  <2>2. chan' = [r \in Requests |-> chan'[r]]
    BY DEF Deliver
  <2>3. QED
    BY <2>1, <2>2
<1>4. TypeOK'
  BY <1>3 DEF Deliver, TypeOK, ReaderState
<1>5. reader'.to = {}
  BY DEF Deliver, TypeOK, ReaderState
<1>6. (DeliversOwn /\ HoldsOwn)'
  BY <1>1, <1>2, <1>5 DEF DeliversOwn, HoldsOwn
<1>7. (NothingGivenYet /\ RegisteredFirst)'
  BY <1>2, <1>5 DEF NothingGivenYet, RegisteredFirst, Deliver
<1>8. AnswersOwnRequest'
  BY DEF AnswersOwnRequest, Deliver
<1>9. QED
  BY <1>4, <1>6, <1>7, <1>8

\* failPending tells only those it takes out of pending.
LEMMA FailPendingKeeps ==
  ASSUME IInv, FailPending
  PROVE  IInv'
<1> USE DEF IInv
<1>1. TypeOK'
  <2>1. <<Failure>> \in Content
    BY DEF Content
  <2>2. QED
    BY <2>1 DEF FailPending, Everyone, TypeOK, ReaderState
<1>2. reader'.to = reader.to /\ reader'.line = reader.line
  BY DEF FailPending, TypeOK, ReaderState
<1>3. (DeliversOwn /\ HoldsOwn)'
  BY <1>2 DEF DeliversOwn, HoldsOwn, FailPending, Everyone
<1>4. (NothingGivenYet /\ RegisteredFirst)'
  BY <1>2 DEF NothingGivenYet, RegisteredFirst, FailPending, Everyone
<1>5. AnswersOwnRequest'
  BY DEF AnswersOwnRequest, FailPending
<1>6. QED
  BY <1>1, <1>3, <1>4, <1>5

\* The rest of the reader's steps, and Close, leave requests and channels alone.
LEMMA OtherKeeps ==
  ASSUME IInv, Stop \/ Retry \/ Start \/ Publish \/ CloseMark \/ CloseKill
  PROVE  IInv'
<1> USE DEF IInv
<1>1. TypeOK'
  <2>1. CASE Stop
    BY <2>1 DEF Stop, TypeOK, ReaderState
  <2>2. CASE Retry
    <3>1. retries' \in 0 .. MaxRetries
      BY <2>2, StdioTransportAssumption DEF Retry, Exhausted, TypeOK
    <3>2. PICK pc \in {"fail", "start"} : reader' = [reader EXCEPT !.pc = pc]
      BY <2>2 DEF Retry
    <3>3. reader' \in ReaderState
      BY <3>2 DEF TypeOK, ReaderState
    <3>4. QED
      BY <2>2, <3>1, <3>3 DEF Retry, TypeOK
  <2>3. CASE Start
    <3>1. retries + 1 \in Processes
      BY StdioTransportAssumption DEF Processes, TypeOK
    <3>2. QED
      BY <2>3, <3>1 DEF Start, TypeOK, ReaderState
  <2>4. CASE Publish
    BY <2>4 DEF Publish, TypeOK, ReaderState
  <2>5. CASE CloseMark
    BY <2>5 DEF CloseMark, TypeOK
  <2>6. CASE CloseKill
    BY <2>6 DEF CloseKill, TypeOK
  <2>7. QED
    BY <2>1, <2>2, <2>3, <2>4, <2>5, <2>6
<1>2. UNCHANGED <<pending, chan, sends>> /\ reader'.to = reader.to /\ reader'.line = reader.line
  BY DEF Stop, Retry, Start, Publish, CloseMark, CloseKill, TypeOK, ReaderState
<1>3. (DeliversOwn /\ NothingGivenYet /\ RegisteredFirst /\ HoldsOwn /\ AnswersOwnRequest)'
  BY <1>2 DEF DeliversOwn, NothingGivenYet, RegisteredFirst, HoldsOwn, AnswersOwnRequest
<1>4. QED
  BY <1>1, <1>3

\* Every step keeps the invariant.
THEOREM StdioStep == IInv /\ [Next]_vars => IInv'
<1> SUFFICES ASSUME IInv, [Next]_vars PROVE IInv'
  OBVIOUS
<1>1. CASE \E r \in Requests : SendStep(r) \/ Cancel(r)
  BY <1>1, SendKeeps
<1>2. ASSUME NEW p \in Processes, NEW r \in Requests, Answer(p, r) \/ AnswerAgain(p, r)
      PROVE  IInv'
  BY <1>2, ServerKeeps
<1>3. ASSUME NEW p \in Processes, Die(p) PROVE IInv'
  <2>1. CASE \E r \in Requests : TRUE
    BY <1>3, <2>1, ServerKeeps
  <2>2. CASE Requests = {}
    BY <1>3, <2>2 DEF IInv, TypeOK, DeliversOwn, NothingGivenYet, RegisteredFirst,
                      HoldsOwn, AnswersOwnRequest, Die
  <2>3. QED
    BY <2>1, <2>2
<1>4. CASE ReaderStep
  BY <1>4, ReadKeeps, DeliverKeeps, FailPendingKeeps, OtherKeeps DEF ReaderStep
<1>5. CASE CloseMark \/ CloseKill
  BY <1>5, OtherKeeps
<1>6. CASE UNCHANGED vars
  BY <1>6 DEF vars, IInv, TypeOK, DeliversOwn, NothingGivenYet, RegisteredFirst,
              HoldsOwn, AnswersOwnRequest
<1>7. QED
  BY <1>1, <1>2, <1>3, <1>4, <1>5, <1>6 DEF Next

-----------------------------------------------------------------------------
\* The invariant holds in every behaviour.
THEOREM StdioInvariant == Spec => []IInv
<1>1. QED
  BY StdioInit, StdioStep, PTL DEF Spec

\* Type correctness of the transport, for any Sends and any limit of restarts.
THEOREM StdioType == Spec => []TypeOK
<1>1. IInv => TypeOK
  BY DEF IInv
<1>2. QED
  BY <1>1, StdioInvariant, PTL

\* Send (stdio.go) returns a success only with the answer to its own request,
\* whatever the server repeats and however often it was restarted.
THEOREM StdioAnswersOwnRequest == Spec => []AnswersOwnRequest
<1>1. IInv => AnswersOwnRequest
  BY DEF IInv
<1>2. QED
  BY <1>1, StdioInvariant, PTL

\* readLoop and failPending (stdio.go) send only into empty channels, so that
\* neither blocks, failPending with mu held least of all.
THEOREM StdioNeverBlocksOnChannel == Spec => []NeverBlocksOnChannel
<1>1. IInv => NeverBlocksOnChannel
  BY DEF IInv, TypeOK, ReaderState, NothingGivenYet, NeverBlocksOnChannel
<1>2. QED
  BY <1>1, StdioInvariant, PTL
-----------------------------------------------------------------------------
\* Nothing a process writes can be waited for any more: it is dead, or a line
\* of its own stopped the reader.
Overlong(p) == \E i \in DOMAIN out[p] : out[p][i] = TooLong
ReadsNoMore(p) == state[p] = "dead" \/ Overlong(p)

\* The reader reads the transport's process until that has ended, and gives a
\* process that is to replace it a number of its own.
ReaderFollows ==
    /\ reader.pc \in {"read", "deliver"} => reader.proc = cmd
    /\ reader.pc \notin {"read", "deliver"} => ReadsNoMore(cmd)
    /\ reader.pc \in {"start", "publish"} => cmd <= retries
    /\ reader.pc = "publish" => reader.proc = retries + 1
    /\ cmd <= retries + 1

\* A Send that waits is in pending, in the reader's hands, or has been given
\* something.
WaitsOrTold ==
    /\ reader.pc # "deliver" => reader.to = {}
    /\ \A r \in Requests :
          sends[r].pc \in {"write", "wait"} =>
              r \in pending \cup reader.to \/ chan[r] # <<>>

\* A Send the reader did not find when it gave up came later: it took the stdin
\* of a process that had ended, and could write only if that was not dead.
CameTooLate ==
    reader.pc = "gone" /\ ~closed =>
        \A r \in pending :
            /\ sends[r].pc = "write" => sends[r].stdin = cmd
            /\ sends[r].pc = "wait" => Overlong(cmd)

JInv == IInv /\ ReaderFollows /\ WaitsOrTold /\ CameTooLate

\* What is in a process's output stays there when a line is added.
LEMMA OverlongKept ==
  ASSUME TypeOK, NEW p \in Processes, Overlong(p), NEW x \in Requests \cup {TooLong},
         out'[p] = Append(out[p], x)
  PROVE  Overlong(p)'
<1>1. out[p] \in Seq(Requests \cup {TooLong})
  BY DEF TypeOK
<1>2. /\ DOMAIN out[p] = 1 .. Len(out[p]) /\ Len(out[p]) \in Nat
      /\ DOMAIN out'[p] = 1 .. Len(out[p]) + 1
      /\ \A i \in 1 .. Len(out[p]) : out'[p][i] = out[p][i]
  BY <1>1, AppendProperties
<1>3. PICK i \in DOMAIN out[p] : out[p][i] = TooLong
  BY DEF Overlong
<1>4. i \in DOMAIN out'[p] /\ out'[p][i] = TooLong
  BY <1>2, <1>3
<1>5. QED
  BY <1>4 DEF Overlong

\* A Send's step keeps what is known of the reader and of the Sends it left.
LEMMA SendKeepsJ ==
  ASSUME JInv, NEW r \in Requests, SendStep(r) \/ Cancel(r)
  PROVE  (ReaderFollows /\ WaitsOrTold /\ CameTooLate)'
<1> USE DEF JInv, IInv
<1>1. UNCHANGED <<state, out, cmd, closed, retries, reader>>
  BY DEF SendStep, Register, Write, Receive, Cancel
<1>2. ReaderFollows'
  BY <1>1 DEF ReaderFollows, ReadsNoMore, Overlong
<1>3. Overlong(cmd)' <=> Overlong(cmd)
  BY <1>1 DEF Overlong
<1>4. /\ pending \subseteq pending'
      /\ \A q \in Requests : q # r =>
            sends'[q] = sends[q] /\ chan'[q] = chan[q] /\ (q \in pending' => q \in pending)
  BY DEF SendStep, Register, Write, Receive, Cancel, TypeOK
<1>5. sends[r] \in SendState
  BY DEF TypeOK
<1>6. CASE Register(r)
  <2>1. sends'[r].pc \in {"write", "error"} /\ (sends'[r].pc = "write" => r \in pending' /\ sends'[r].stdin = cmd)
    BY <1>5, <1>6 DEF Register, TypeOK, SendState
  <2>2. WaitsOrTold'
    BY <1>1, <1>4, <2>1 DEF WaitsOrTold
  <2>3. pending' \subseteq Requests
    BY <1>6 DEF Register, TypeOK
  <2>4. CameTooLate'
    BY <1>1, <1>3, <1>4, <2>1, <2>3 DEF CameTooLate
  <2>5. QED
    BY <1>2, <2>2, <2>4
<1>7. CASE Write(r)
  <2>1. /\ sends[r].pc = "write" /\ UNCHANGED <<pending, chan>>
        /\ sends'[r].pc \in {"wait", "error"}
        /\ sends'[r].pc = "wait" => state[sends[r].stdin] = "alive"
    BY <1>5, <1>7 DEF Write, TypeOK, SendState
  <2>2. WaitsOrTold'
    BY <1>1, <1>4, <2>1 DEF WaitsOrTold
  <2>3. reader.pc = "gone" /\ ~closed /\ r \in pending /\ sends'[r].pc = "wait" => Overlong(cmd)
    BY <2>1 DEF CameTooLate, ReaderFollows, ReadsNoMore
  <2>4. CameTooLate'
    BY <1>1, <1>3, <1>4, <2>1, <2>3 DEF CameTooLate, TypeOK
  <2>5. QED
    BY <1>2, <2>2, <2>4
<1>8. CASE Receive(r) \/ Cancel(r)
  <2>1. sends'[r].pc \in {"ok", "error"} /\ UNCHANGED pending
    BY <1>5, <1>8 DEF Receive, Cancel, TypeOK, SendState
  <2>2. WaitsOrTold'
    BY <1>1, <1>4, <2>1 DEF WaitsOrTold
  <2>3. CameTooLate'
    BY <1>1, <1>3, <1>4, <2>1 DEF CameTooLate, TypeOK
  <2>4. QED
    BY <1>2, <2>2, <2>3
<1>9. QED
  BY <1>6, <1>7, <1>8 DEF SendStep

\* What a server writes, and its death, undo no end.
LEMMA ServerKeepsJ ==
  ASSUME JInv, NEW p \in Processes,
         Die(p) \/ \E r \in Requests : Answer(p, r) \/ AnswerAgain(p, r)
  PROVE  (ReaderFollows /\ WaitsOrTold /\ CameTooLate)'
<1> USE DEF JInv, IInv
<1>1. UNCHANGED <<cmd, closed, retries, pending, chan, sends, reader>>
  BY DEF Die, Answer, AnswerAgain
<1>2. cmd \in Processes
  BY DEF TypeOK
<1>3. out'[cmd] = out[cmd] \/ \E x \in Requests \cup {TooLong} : out'[cmd] = Append(out[cmd], x)
  <2>1. out \in [Processes -> Seq(Requests \cup {TooLong})]
    BY DEF TypeOK
  <2>2. CASE Die(p)
    BY <2>2 DEF Die
  <2>3. ASSUME NEW x \in Requests \cup {TooLong}, out' = [out EXCEPT ![p] = Append(@, x)]
        PROVE  out'[cmd] = out[cmd] \/ out'[cmd] = Append(out[cmd], x)
    BY <1>2, <2>1, <2>3
  <2>4. QED
    BY <2>2, <2>3 DEF Answer, AnswerAgain
<1>4. Overlong(cmd) => Overlong(cmd)'
  <2>1. CASE out'[cmd] = out[cmd]
    BY <1>1, <2>1 DEF Overlong
  <2>2. ASSUME Overlong(cmd), NEW x \in Requests \cup {TooLong}, out'[cmd] = Append(out[cmd], x)
        PROVE  Overlong(cmd)'
    BY <1>1, <1>2, <2>2, OverlongKept DEF Overlong
  <2>3. QED
    BY <1>3, <2>1, <2>2
<1>5. state[cmd] = "dead" => state'[cmd] = "dead"
  BY <1>2 DEF Die, Answer, AnswerAgain, TypeOK
<1>6. ReadsNoMore(cmd) => ReadsNoMore(cmd)'
  BY <1>1, <1>4, <1>5 DEF ReadsNoMore
<1>7. ReaderFollows'
  BY <1>1, <1>6 DEF ReaderFollows
<1>8. WaitsOrTold'
  BY <1>1 DEF WaitsOrTold
<1>9. CameTooLate'
  BY <1>1, <1>4 DEF CameTooLate
<1>10. QED
  BY <1>7, <1>8, <1>9

\* Handing over an answer.
LEMMA ReadKeepsJ ==
  ASSUME JInv, Read \/ Deliver
  PROVE  (ReaderFollows /\ WaitsOrTold /\ CameTooLate)'
<1> USE DEF JInv, IInv
<1>1. UNCHANGED <<cmd, closed, retries, sends>>
  BY DEF Read, Deliver
<1>2. reader \in ReaderState /\ reader'.proc = reader.proc /\ reader'.pc \in {"read", "deliver"}
  BY DEF Read, Deliver, TypeOK, ReaderState
<1>3. reader.pc \in {"read", "deliver"}
  BY DEF Read, Deliver
<1>4. ReaderFollows'
  BY <1>1, <1>2, <1>3 DEF ReaderFollows
<1>5. CameTooLate'
  BY <1>2 DEF CameTooLate
<1>6. WaitsOrTold'
  <2>1. CASE Read
    <3>1. chan' = chan
      BY <2>1 DEF Read
    <3>2. reader.to = {}
      BY <2>1 DEF Read, WaitsOrTold
    <3>3. pending' \cup reader'.to = pending /\ (reader'.pc # "deliver" => reader'.to = {})
      <4>1. CASE Head(out[reader.proc]) \in pending
        <5>1. \E r \in pending : pending' = pending \ {r}
                /\ reader'.to = {r} /\ reader'.pc = "deliver"
          BY <1>2, <2>1, <4>1 DEF Read, Waiting, TakenOut, ReaderState
        <5>2. QED
          BY <5>1
      <4>2. CASE Head(out[reader.proc]) \notin pending
        BY <2>1, <3>2, <4>2 DEF Read, Waiting
      <4>3. QED
        BY <4>1, <4>2
    <3>4. QED
      BY <1>1, <3>1, <3>2, <3>3 DEF WaitsOrTold
  <2>2. CASE Deliver
    <3>1. \A r \in Requests : r \in reader.to => chan'[r] # <<>>
      BY <2>2, OneSlot DEF Deliver, Put
    <3>2. \A r \in Requests : r \notin reader.to => chan'[r] = chan[r]
      BY <2>2 DEF Deliver
    <3>3. pending' = pending /\ reader'.to = {}
      BY <1>2, <2>2 DEF Deliver, ReaderState
    <3>4. QED
      BY <1>1, <3>1, <3>2, <3>3 DEF WaitsOrTold
  <2>3. QED
    BY <2>1, <2>2
<1>7. QED
  BY <1>4, <1>5, <1>6

\* The end of a process, its replacement, and giving up.
LEMMA RestartKeepsJ ==
  ASSUME JInv, Stop \/ Retry \/ Start \/ Publish \/ FailPending
  PROVE  (ReaderFollows /\ WaitsOrTold /\ CameTooLate)'
<1> USE DEF JInv, IInv
<1>1. reader \in ReaderState /\ cmd \in Nat /\ retries \in Nat /\ cmd \in Processes
  BY StdioTransportAssumption DEF TypeOK, Processes
<1>2. UNCHANGED <<out, closed, sends>> /\ reader'.to = reader.to
  BY <1>1 DEF Stop, Retry, Start, Publish, FailPending, ReaderState
<1>3. ReaderFollows'
  <2>1. CASE Stop
    <3>1. out[cmd] \in Seq(Requests \cup {TooLong})
      BY <1>1 DEF TypeOK
    <3>2. out[cmd] # <<>> => 1 \in DOMAIN out[cmd] /\ Head(out[cmd]) = out[cmd][1]
      BY <3>1, EmptySeq, LenProperties
    <3>3. ReadsNoMore(cmd)
      BY <2>1, <3>2 DEF Stop, ReaderFollows, ReadsNoMore, Overlong
    <3>4. /\ reader'.pc \in {"gone", "restart"} /\ reader'.proc = reader.proc
          /\ UNCHANGED <<state, cmd, retries>>
      BY <1>1, <2>1 DEF Stop, ReaderState
    <3>5. ReadsNoMore(cmd)'
      BY <1>2, <3>3, <3>4 DEF ReadsNoMore, Overlong
    <3>6. QED
      BY <3>4, <3>5 DEF ReaderFollows
  <2>2. CASE Retry
    <3>1. /\ reader.pc = "restart" /\ reader'.pc \in {"fail", "start"} /\ UNCHANGED <<state, cmd>>
          /\ reader'.pc = "start" => retries' = retries + 1
          /\ retries' \in {retries, retries + 1}
      BY <1>1, <2>2 DEF Retry, ReaderState
    <3>2. ReadsNoMore(cmd)'
      BY <1>2, <3>1 DEF ReaderFollows, ReadsNoMore, Overlong
    <3>3. cmd <= retries + 1
      BY DEF ReaderFollows
    <3>4. /\ reader'.pc = "start" => cmd' <= retries'
          /\ cmd' <= retries' + 1
      <4>1. cmd' = cmd /\ cmd \in Nat /\ retries \in Nat
        BY <1>1, <3>1
      <4>2. CASE retries' = retries + 1
        BY <3>3, <4>1, <4>2
      <4>3. CASE retries' = retries /\ reader'.pc # "start"
        BY <3>3, <4>1, <4>3
      <4>4. QED
        BY <3>1, <4>2, <4>3
    <3>5. QED
      BY <3>1, <3>2, <3>4 DEF ReaderFollows
  <2>3. CASE Start
    <3>1. /\ reader.pc = "start" /\ UNCHANGED <<cmd, retries>>
          /\ \/ reader'.pc = "publish" /\ reader'.proc = retries + 1
             \/ reader'.pc = "fail"
      BY <1>1, <2>3 DEF Start, ReaderState
    <3>2. cmd # retries + 1 /\ ReadsNoMore(cmd)
      BY <1>1, <3>1 DEF ReaderFollows
    <3>3. state'[cmd] = state[cmd]
      BY <1>1, <2>3, <3>2 DEF Start, TypeOK
    <3>4. ReadsNoMore(cmd)'
      BY <1>2, <3>1, <3>2, <3>3 DEF ReadsNoMore, Overlong
    <3>5. QED
      BY <3>1, <3>4 DEF ReaderFollows
  <2>4. CASE Publish
    <3>1. /\ reader.pc = "publish" /\ reader'.pc = "read" /\ reader'.proc = reader.proc
          /\ cmd' = reader.proc /\ retries' = retries
      BY <1>1, <2>4 DEF Publish, ReaderState
    <3>2. reader.proc = retries + 1
      BY <3>1 DEF ReaderFollows
    <3>3. cmd' <= retries' + 1 /\ reader'.proc = cmd'
      BY <1>1, <3>1, <3>2
    <3>4. QED
      BY <3>1, <3>3 DEF ReaderFollows
  <2>5. CASE FailPending
    <3>1. /\ reader.pc = "fail" /\ reader'.pc = "gone" /\ UNCHANGED <<state, cmd, retries>>
      BY <1>1, <2>5 DEF FailPending, ReaderState
    <3>2. ReadsNoMore(cmd)'
      BY <1>2, <3>1 DEF ReaderFollows, ReadsNoMore, Overlong
    <3>3. QED
      BY <3>1, <3>2 DEF ReaderFollows
  <2>6. QED
    BY <2>1, <2>2, <2>3, <2>4, <2>5
<1>4. reader.to = {}
  BY DEF Stop, Retry, Start, Publish, FailPending, WaitsOrTold
<1>5. WaitsOrTold'
  <2>1. CASE FailPending
    <3>1. \A r \in Requests : r \in pending => chan'[r] = <<Failure>>
      BY <2>1 DEF FailPending, Everyone
    <3>2. \A r \in Requests : r \notin pending => chan'[r] = chan[r]
      BY <2>1 DEF FailPending, Everyone
    <3>3. QED
      BY <1>2, <1>4, <3>1, <3>2, OneSlot DEF WaitsOrTold
  <2>2. CASE ~FailPending
    <3>1. UNCHANGED <<pending, chan>>
      BY <2>2 DEF Stop, Retry, Start, Publish
    <3>2. QED
      BY <1>2, <1>4, <3>1 DEF WaitsOrTold
  <2>3. QED
    BY <2>1, <2>2
<1>6. CameTooLate'
  <2>1. CASE FailPending
    BY <2>1 DEF CameTooLate, FailPending
  <2>2. CASE ~FailPending
    <3>1. reader'.pc # "gone" \/ closed
      BY <1>1, <2>2 DEF Stop, Retry, Start, Publish, ReaderState
    <3>2. QED
      BY <1>2, <3>1 DEF CameTooLate
  <2>3. QED
    BY <2>1, <2>2
<1>7. QED
  BY <1>3, <1>5, <1>6

\* Close marks the transport and kills; what has ended has ended.
LEMMA CloseKeepsJ ==
  ASSUME JInv, CloseMark \/ CloseKill
  PROVE  (ReaderFollows /\ WaitsOrTold /\ CameTooLate)'
<1> USE DEF JInv, IInv
<1>1. UNCHANGED <<out, cmd, retries, pending, chan, sends, reader>>
  BY DEF CloseMark, CloseKill
<1>2. closed => closed'
  BY DEF CloseMark, CloseKill
<1>3. cmd \in Processes
  BY DEF TypeOK
<1>4. state[cmd] = "dead" => state'[cmd] = "dead"
  BY <1>3 DEF CloseMark, CloseKill, TypeOK
<1>5. ReaderFollows'
  BY <1>1, <1>4 DEF ReaderFollows, ReadsNoMore, Overlong
<1>6. (WaitsOrTold /\ CameTooLate)'
  BY <1>1, <1>2 DEF WaitsOrTold, CameTooLate, Overlong
<1>7. QED
  BY <1>5, <1>6

\* The stronger invariant holds in every behaviour.
THEOREM StdioFollows == Spec => []JInv
<1>1. Init => JInv
  <2>1. Init => cmd <= retries + 1
    BY DEF Init
  <2>2. QED
    BY <2>1, StdioInit DEF Init, JInv, ReaderFollows, WaitsOrTold, CameTooLate
<1>2. JInv /\ [Next]_vars => JInv'
  <2> SUFFICES ASSUME JInv, [Next]_vars PROVE JInv'
    OBVIOUS
  <2>1. IInv'
    BY StdioStep DEF JInv
  <2>2. CASE \E r \in Requests : SendStep(r) \/ Cancel(r)
    BY <2>1, <2>2, SendKeepsJ DEF JInv
  <2>3. CASE \E p \in Processes : Die(p) \/ \E r \in Requests : Answer(p, r) \/ AnswerAgain(p, r)
    BY <2>1, <2>3, ServerKeepsJ DEF JInv
  <2>4. CASE ReaderStep
    BY <2>1, <2>4, ReadKeepsJ, RestartKeepsJ DEF ReaderStep, JInv
  <2>5. CASE CloseMark \/ CloseKill
    BY <2>1, <2>5, CloseKeepsJ DEF JInv
  <2>6. CASE UNCHANGED vars
    BY <2>1, <2>6 DEF vars, JInv, ReaderFollows, ReadsNoMore, Overlong, WaitsOrTold, CameTooLate
  <2>7. QED
    BY <2>2, <2>3, <2>4, <2>5, <2>6 DEF Next
<1>3. QED
  BY <1>1, <1>2, PTL DEF Spec

\* When tryRestart has given up and failPending has run, no Send waits for an
\* answer that cannot come: those that had registered are told, and those that
\* register afterwards fail to write.
THEOREM StdioNobodyLeftWaiting == Spec => []NobodyLeftWaiting
<1>1. JInv => NobodyLeftWaiting
  <2> SUFFICES ASSUME JInv, reader.pc = "gone", ~closed, \A p \in Processes : CameToItsEnd(p),
                      NEW r \in Requests, sends[r].pc = "wait"
               PROVE  chan[r] # <<>>
    BY DEF NobodyLeftWaiting
  <2>1. ~Overlong(cmd)
    BY DEF JInv, IInv, TypeOK, CameToItsEnd, Overlong
  <2>2. r \notin pending
    BY <2>1 DEF JInv, CameTooLate
  <2>3. reader.to = {}
    BY DEF JInv, WaitsOrTold
  <2>4. QED
    BY <2>2, <2>3 DEF JInv, WaitsOrTold
<1>2. QED
  BY <1>1, StdioFollows, PTL

Places == {"idle", "boot", "open", "send", "post", "posted", "wait", "store", "listed",
           "register", "close", "delete"}

Conns ==
    [name : Servers, closed : BOOLEAN, sent : 0 .. MaxSends,
     pending : SUBSET [id : Nat, of : Goroutines],
     asked : SUBSET Nat, answered : SUBSET Nat, listed : BOOLEAN, boot : BOOLEAN]

Tasks ==
    [at : Places, for : {"none", "connect", "list", "call", "disconnect"},
     server : Servers \union {Nobody}, conn : Nat, id : Nat, reply : Nat, todo : Seq(Servers)]

McpTypeOK ==
    /\ servers \in [Servers -> 0 .. Len(conns)]
    /\ conns \in Seq(Conns)
    /\ registry \in [Tools -> Servers \union {Nobody}]
    /\ task \in [Goroutines -> Tasks]

\* The server was asked, and has answered, what was sent.
AskedWasSent ==
    \A k \in 1 .. Len(conns) :
        conns[k].asked \subseteq 1 .. conns[k].sent /\ conns[k].answered \subseteq 1 .. conns[k].sent

\* Who has a connection in hand has one that was made.
HasConn ==
    \A g \in Goroutines :
        IF task[g].at \in {"idle", "boot", "open", "register"} THEN task[g].conn = 0
        ELSE task[g].conn \in 1 .. Len(conns)

\* The bridge lists the tools of the first server that is left.
ListsFirst ==
    \A g \in Goroutines : task[g].for = "list" =>
        task[g].todo # <<>> /\ task[g].at \in {"send", "post", "posted", "wait", "listed"}

OpensAServer == \A g \in Goroutines : task[g].at = "open" => task[g].server \in Servers

\* A request that was registered has its reply, or it is in pending and the reader
\* has not seen an answer to it.
Waits(g) ==
    task[g].at \in {"post", "posted", "wait"} =>
        /\ task[g].id \in 1 .. Conn(g).sent
        /\ \/ task[g].reply = task[g].id
           \/ [id |-> task[g].id, of |-> g] \in Conn(g).pending /\ task[g].id \notin Conn(g).answered

ReplyOrPending == \A g \in Goroutines : Waits(g)

ReplyInv == McpTypeOK /\ AskedWasSent /\ HasConn /\ ListsFirst /\ OpensAServer /\ ReplyOrPending

OneManager == Managers = {Boot}

\* Whoever is not the manager makes calls only.
UsersOnlyCall ==
    \A g \in Goroutines \ {Boot} :
        \/ task[g].at = "idle"
        \/ task[g].for = "call" /\ task[g].at \in {"send", "post", "posted", "wait"}

\* What the manager is at, with what it knows of the server and its connection:
\* between two tasks, opening, connecting, listing for the bridge, calling,
\* disconnecting.
Asking(b) == b.at \in {"send", "post", "posted", "wait"}

Holds(b) == conns[b.conn].name = b.server /\ servers[b.server] = b.conn

Between(b) == b.at \in {"idle", "boot", "register"} /\ b.for = "none"

Opening(b) == b.at = "open" /\ b.for = "connect" /\ b.server \in Servers /\ servers[b.server] = 0

Connecting(b) ==
    /\ Asking(b) \/ b.at = "store"
    /\ b.for = "connect" /\ conns[b.conn].name = b.server /\ servers[b.server] = 0
    /\ ~conns[b.conn].boot

Listing(b) ==
    /\ Asking(b) \/ b.at = "listed"
    /\ b.for = "list" /\ Holds(b) /\ b.todo # <<>> /\ b.server = Head(b.todo)
    /\ Asking(b) => ~conns[b.conn].listed

Calling(b) == Asking(b) /\ b.for = "call" /\ Holds(b)

Leaving(b) ==
    /\ b.at \in {"close", "delete"} /\ b.for = "disconnect" /\ Holds(b)
    /\ b.at = "delete" => conns[b.conn].closed

ManagerAt ==
    LET b == task[Boot]
    IN  Between(b) \/ Opening(b) \/ Connecting(b) \/ Listing(b) \/ Calling(b) \/ Leaving(b)

\* The entries of the client's map are connections of these servers.
EntriesTrue == \A s \in Servers : servers[s] # 0 => conns[servers[s]].name = s

\* A tool is registered for a server that has it.
RegistryTrue == \A t \in Tools : registry[t] # Nobody => t \in ToolsOf[registry[t]]

Registering == task[Boot].at \in {"register", "listed"} \/ task[Boot].for = "list"

InRegistry(k) ==
    conns[k].listed => \A t \in ToolsOf[conns[k].name] : registry[t] # Nobody

\* While the bridge is at work, a server that was connected when it began still is,
\* and its tools are in the registry or its turn will come.
BridgeGoesOn ==
    \A k \in 1 .. Len(conns) : conns[k].boot =>
        /\ Registering => servers[conns[k].name] = k
        /\ InRegistry(k) \/ (Registering /\ conns[k].name \in Range(task[Boot].todo))

-----------------------------------------------------------------------------
(************************** sequences and sets *****************************)

\* The sequences of a set's elements without repetition have all of them.
LEMMA SetToSeqsAll ==
  ASSUME NEW S, IsFiniteSet(S), NEW o \in SetToSeqs(S)
  PROVE  o \in Seq(S) /\ Range(o) = S
<1> DEFINE n == Cardinality(S)
<1>1. n \in Nat
  BY FS_CardinalityType
<1>2. o \in [1 .. n -> S] /\ \A i, j \in 1 .. n : i # j => o[i] # o[j]
  BY DEF SetToSeqs
<1>3. o \in Seq(S) /\ Range(o) \subseteq S
  BY <1>1, <1>2, SeqDef DEF Range
<1>4. ASSUME NEW x \in S, x \notin Range(o)
      PROVE  FALSE
  <2>1. o \in [1 .. n -> S \ {x}]
    BY <1>2, <1>4 DEF Range
  <2>2. IsFiniteSet(S \ {x}) /\ Cardinality(S \ {x}) = n - 1
    BY <1>1, FS_RemoveElement
  <2>3. IsFiniteSet(1 .. n) /\ Cardinality(1 .. n) = n
    <3>1. 1 \in Int /\ n \in Int
      BY <1>1
    <3>2. IsFiniteSet(1 .. n) /\ Cardinality(1 .. n) = IF 1 > n THEN 0 ELSE n - 1 + 1
      BY <3>1, FS_Interval
    <3>3. QED
      BY <3>2, <1>1
  <2>4. \E i, j \in 1 .. n : i # j /\ o[i] = o[j]
    BY <2>1, <2>2, <2>3, <1>1, FS_PigeonHole
  <2>5. QED
    BY <2>4, <1>2
<1>5. QED
  BY <1>3, <1>4

\* The head and the tail of a sequence that is not empty.
LEMMA TailOf ==
  ASSUME NEW S, NEW s \in Seq(S), s # <<>>
  PROVE  /\ Head(s) \in S /\ Tail(s) \in Seq(S) /\ Head(s) \in Range(s)
         /\ \A x \in Range(s) : x = Head(s) \/ x \in Range(Tail(s))
<1>1. /\ Head(s) \in S /\ Tail(s) \in Seq(S) /\ Len(Tail(s)) = Len(s) - 1
      /\ \A i \in 1 .. Len(Tail(s)) : Tail(s)[i] = s[i + 1]
  BY HeadTailProperties
<1>2. Len(s) \in Nat \ {0} /\ Head(s) = s[1]
  BY EmptySeq
<1>3. DOMAIN s = 1 .. Len(s) /\ DOMAIN Tail(s) = 1 .. Len(s) - 1
  BY <1>1, <1>2
<1>4. ASSUME NEW i \in 1 .. Len(s), i # 1
      PROVE  s[i] \in Range(Tail(s))
  <2>1. i - 1 \in 1 .. Len(Tail(s)) /\ (i - 1) + 1 = i
    BY <1>1, <1>2, <1>4
  <2>2. Tail(s)[i - 1] = s[i]
    BY <2>1, <1>1
  <2>3. QED
    BY <2>1, <2>2, <1>1, <1>3 DEF Range
<1>5. Head(s) \in Range(s)
  BY <1>2, <1>3 DEF Range
<1>6. QED
  BY <1>1, <1>2, <1>3, <1>4, <1>5 DEF Range

-----------------------------------------------------------------------------
(************************* what a step does to it **************************)

\* A connection stays the one it is, and what is pending stays.
Grows ==
    /\ conns' \in Seq(Conns) /\ Len(conns) <= Len(conns')
    /\ \A k \in 1 .. Len(conns) :
          /\ conns'[k].sent >= conns[k].sent /\ conns[k].pending \subseteq conns'[k].pending
          /\ conns'[k].answered = conns[k].answered
    /\ AskedWasSent'

\* The rules for a task that its step has changed.
TaskOK(n) ==
    /\ n \in Tasks
    /\ IF n.at \in {"idle", "boot", "open", "register"} THEN n.conn = 0
       ELSE n.conn \in 1 .. Len(conns')
    /\ n.at = "open" => n.server \in Servers
    /\ n.for = "list" => n.todo # <<>> /\ n.at \in {"send", "post", "posted", "wait", "listed"}

\* A connection that was made is one.
LEMMA ConnTypes ==
  ASSUME ReplyInv, NEW k \in 1 .. Len(conns)
  PROVE  /\ conns[k] \in Conns /\ conns[k].sent \in 0 .. MaxSends /\ conns[k].sent \in Nat
         /\ conns[k].asked \subseteq 1 .. conns[k].sent /\ conns[k].answered \subseteq 1 .. conns[k].sent
<1>1. conns[k] \in Conns
  BY ElementOfSeq DEF ReplyInv, McpTypeOK
<1>2. QED
  BY <1>1, ClientAssumption DEF Conns, ReplyInv, AskedWasSent

\* What a goroutine is at.
LEMMA TaskTypes ==
  ASSUME ReplyInv, NEW g \in Goroutines
  PROVE  /\ task[g] \in Tasks
         /\ IF task[g].at \in {"idle", "boot", "open", "register"} THEN task[g].conn = 0
            ELSE task[g].conn \in 1 .. Len(conns)
         /\ task[g].at = "open" => task[g].server \in Servers
         /\ task[g].for = "list" =>
               task[g].todo # <<>> /\ task[g].at \in {"send", "post", "posted", "wait", "listed"}
         /\ Waits(g)
BY DEF ReplyInv, McpTypeOK, HasConn, ListsFirst, OpensAServer, ReplyOrPending

\* What is left alone grows.
LEMMA SameGrows == ASSUME ReplyInv, conns' = conns PROVE Grows
BY ConnTypes DEF Grows, ReplyInv, McpTypeOK, AskedWasSent

\* A step of one goroutine keeps the invariant if its own task is in order.
LEMMA OneStep ==
  ASSUME ReplyInv, Grows, NEW g \in Goroutines, NEW n,
         servers' \in [Servers -> 0 .. Len(conns')],
         registry' \in [Tools -> Servers \union {Nobody}],
         task' = [task EXCEPT ![g] = n], TaskOK(n), Waits(g)'
  PROVE  ReplyInv'
<1>0. task \in [Goroutines -> Tasks] /\ conns \in Seq(Conns) /\ conns' \in Seq(Conns)
      /\ Len(conns) \in Nat /\ Len(conns') \in Nat /\ Len(conns) <= Len(conns')
  BY DEF ReplyInv, McpTypeOK, Grows
<1>1. task'[g] = n /\ \A h \in Goroutines \ {g} : task'[h] = task[h]
  BY <1>0
<1>2. McpTypeOK'
  BY <1>0 DEF McpTypeOK, TaskOK
<1>3. HasConn' /\ ListsFirst' /\ OpensAServer'
  <2>1. \A h \in Goroutines : TaskOK(task'[h])
    <3>1. \A h \in Goroutines \ {g} : TaskOK(task[h])
      BY <1>0, TaskTypes DEF TaskOK
    <3>2. QED
      BY <1>1, <3>1
  <2>2. QED
    BY <2>1 DEF HasConn, ListsFirst, OpensAServer, TaskOK
<1>4. ASSUME NEW h \in Goroutines \ {g}
      PROVE  Waits(h)'
  <2> DEFINE k == task[h].conn
  <2>1. task'[h] = task[h] /\ Waits(h)
    BY <1>1, TaskTypes
  <2>2. CASE task[h].at \in {"post", "posted", "wait"}
    <3>1. k \in 1 .. Len(conns)
      BY <2>2, TaskTypes
    <3>2. conns[k].sent \in Nat /\ conns'[k].sent \in Nat
      <4>1. k \in 1 .. Len(conns')
        BY <3>1, <1>0
      <4>2. conns'[k] \in Conns
        BY <4>1, <1>0, ElementOfSeq
      <4>3. QED
        BY <4>2, <3>1, ConnTypes, ClientAssumption DEF Conns
    <3>3. QED
      BY <2>1, <2>2, <3>1, <3>2 DEF Waits, Conn, Grows
  <2>3. CASE ~(task[h].at \in {"post", "posted", "wait"})
    BY <2>1, <2>3 DEF Waits
  <2>4. QED
    BY <2>2, <2>3
<1>5. QED
  BY <1>2, <1>3, <1>4 DEF ReplyInv, Grows, ReplyOrPending

\* One connection that is replaced by a record of its own kind.
LEMMA ConnStep ==
  ASSUME ReplyInv, NEW k \in 1 .. Len(conns), NEW c \in Conns,
         conns' = [conns EXCEPT ![k] = c],
         c.sent >= conns[k].sent, conns[k].pending \subseteq c.pending,
         c.answered = conns[k].answered, c.asked \subseteq 1 .. c.sent
  PROVE  /\ Grows /\ Len(conns') = Len(conns)
         /\ conns'[k] = c /\ \A j \in 1 .. Len(conns) : j # k => conns'[j] = conns[j]
<1>0. conns \in Seq(Conns)
  BY DEF ReplyInv, McpTypeOK
<1>1. /\ conns' \in Seq(Conns) /\ Len(conns') = Len(conns)
      /\ \A j \in 1 .. Len(conns) : conns'[j] = IF j = k THEN c ELSE conns[j]
  BY <1>0, ExceptSeq
<1>2. conns[k].sent \in Nat /\ c.sent \in Nat /\ conns[k].answered \subseteq 1 .. conns[k].sent
  BY ConnTypes, ClientAssumption DEF Conns
<1>3. c.answered \subseteq 1 .. c.sent
  BY <1>2
<1>4. AskedWasSent'
  BY <1>1, <1>3, ConnTypes DEF AskedWasSent
<1>5. \A j \in 1 .. Len(conns) :
          /\ conns'[j].sent >= conns[j].sent /\ conns[j].pending \subseteq conns'[j].pending
          /\ conns'[j].answered = conns[j].answered
  BY <1>1, ConnTypes
<1>6. QED
  BY <1>0, <1>1, <1>4, <1>5 DEF Grows

\* A goroutine that rests has nothing in hand.
LEMMA RestIsATask == Rest \in Tasks /\ Rest.conn = 0 /\ Rest.at = "idle" /\ Rest.for = "none"
                     /\ Rest.todo = <<>>
<1>1. <<>> \in Seq(Servers)
  OBVIOUS
<1>2. QED
  BY <1>1 DEF Rest, Tasks, Places

\* What comes after a task.
LEMMA EndedIsATask ==
  ASSUME ReplyInv, NEW g \in Goroutines
  PROVE  /\ Ended(g) \in Tasks /\ Ended(g).conn = 0 /\ Ended(g).for = "none"
         /\ Ended(g).at = IF g = Boot /\ task[g].for = "connect" /\ task[g].todo # <<>> THEN "boot"
                          ELSE IF task[g].for = "list" THEN "register" ELSE "idle"
         /\ task[g].for = "list" => Ended(g).todo = Tail(task[g].todo)
<1>1. task[g].todo \in Seq(Servers) /\ (task[g].for = "list" => task[g].todo # <<>>)
  BY TaskTypes DEF Tasks
<1>2. task[g].todo # <<>> => Tail(task[g].todo) \in Seq(Servers)
  BY <1>1, TailOf
<1>3. CASE g = Boot /\ task[g].for = "connect" /\ task[g].todo # <<>>
  <2> DEFINE r == Tail(task[g].todo)
  <2>1. Ended(g) = [Rest EXCEPT !.at = "boot", !.todo = r] /\ r \in Seq(Servers)
    BY <1>2, <1>3 DEF Ended
  <2> HIDE DEF r
  <2>2. Ended(g) \in Tasks /\ Ended(g).conn = 0 /\ Ended(g).for = "none" /\ Ended(g).at = "boot"
    BY <2>1, RestIsATask DEF Tasks, Places
  <2>3. QED
    BY <1>3, <2>2
<1>4. CASE ~(g = Boot /\ task[g].for = "connect" /\ task[g].todo # <<>>) /\ task[g].for = "list"
  <2> DEFINE r == Tail(task[g].todo)
  <2>1. Ended(g) = [Rest EXCEPT !.at = "register", !.todo = r] /\ r \in Seq(Servers)
    BY <1>1, <1>2, <1>4 DEF Ended
  <2> HIDE DEF r
  <2>2. /\ Ended(g) \in Tasks /\ Ended(g).conn = 0 /\ Ended(g).for = "none"
        /\ Ended(g).at = "register" /\ Ended(g).todo = r
    BY <2>1, RestIsATask DEF Tasks, Places
  <2>3. QED
    BY <1>4, <2>2 DEF r
<1>5. CASE ~(g = Boot /\ task[g].for = "connect" /\ task[g].todo # <<>>) /\ task[g].for # "list"
  BY <1>5, RestIsATask DEF Ended
<1>6. QED
  BY <1>3, <1>4, <1>5

\* A goroutine that ends its task waits for nothing.
LEMMA EndsKeeps ==
  ASSUME ReplyInv, Grows, NEW g \in Goroutines, Ends(g),
         servers' \in [Servers -> 0 .. Len(conns')], registry' \in [Tools -> Servers \union {Nobody}]
  PROVE  ReplyInv'
<1>1. task' = [task EXCEPT ![g] = Ended(g)] /\ task'[g] = Ended(g)
  BY DEF Ends, ReplyInv, McpTypeOK
<1>2. TaskOK(Ended(g)) /\ Ended(g).at \in {"boot", "register", "idle"}
  BY EndedIsATask DEF TaskOK
<1>3. Waits(g)'
  BY <1>1, <1>2 DEF Waits
<1>4. QED
  BY <1>1, <1>2, <1>3, OneStep

\* Maps that stay the same are maps still when the connections only grow.
LEMMA MapsStay ==
  ASSUME ReplyInv, Grows
  PROVE  /\ servers' = servers => servers' \in [Servers -> 0 .. Len(conns')]
         /\ registry' = registry => registry' \in [Tools -> Servers \union {Nobody}]
<1>1. Len(conns) \in Nat /\ Len(conns') \in Nat /\ Len(conns) <= Len(conns')
  BY DEF ReplyInv, McpTypeOK, Grows
<1>2. 0 .. Len(conns) \subseteq 0 .. Len(conns')
  BY <1>1
<1>3. servers \in [Servers -> 0 .. Len(conns)] /\ registry \in [Tools -> Servers \union {Nobody}]
  BY DEF ReplyInv, McpTypeOK
<1>4. QED
  BY <1>2, <1>3

\* A step that changes only the task of g, which then waits for nothing.
LEMMA TaskStep ==
  ASSUME ReplyInv, NEW g \in Goroutines, NEW n, task' = [task EXCEPT ![g] = n],
         conns' = conns, servers' = servers, registry' \in [Tools -> Servers \union {Nobody}],
         TaskOK(n), n.at \notin {"post", "posted", "wait"}
  PROVE  ReplyInv'
<1>1. Grows
  BY SameGrows
<1>2. task'[g] = n
  BY DEF ReplyInv, McpTypeOK
<1>3. Waits(g)'
  BY <1>2 DEF Waits
<1>4. QED
  BY <1>1, <1>3, MapsStay, OneStep

\* Connect looks the server up and has no connection yet.
LEMMA ConnectKeeps ==
  ASSUME ReplyInv, NEW g \in Goroutines, NEW s \in Servers, Connect(g, s)
  PROVE  ReplyInv'
<1> DEFINE b == task[g]
           n == IF servers[s] = 0 THEN [b EXCEPT !.at = "open", !.for = "connect", !.server = s]
                ELSE IF At(g, "boot") THEN [b EXCEPT !.todo = Tail(b.todo)] ELSE b
<1>1. /\ task' = [task EXCEPT ![g] = n] /\ UNCHANGED <<servers, conns, registry>>
      /\ b.at \in {"idle", "boot"} /\ (At(g, "boot") => b.todo # <<>>)
  BY DEF Connect, At
<1>2. b \in Tasks /\ b.conn = 0 /\ b.for # "list"
  BY <1>1, TaskTypes
<1>3. At(g, "boot") => Tail(b.todo) \in Seq(Servers)
  BY <1>1, <1>2, TailOf DEF Tasks
<1>4. n \in Tasks /\ n.conn = 0 /\ n.at \in {"idle", "boot", "open"} /\ n.for # "list"
      /\ (n.at = "open" => n.server \in Servers)
  <2>1. CASE servers[s] = 0
    BY <2>1, <1>2 DEF Tasks, Places
  <2>2. CASE servers[s] # 0 /\ At(g, "boot")
    <3> DEFINE r == Tail(b.todo)
    <3>1. n = [b EXCEPT !.todo = r] /\ r \in Seq(Servers)
      BY <2>2, <1>3
    <3> HIDE DEF r, n
    <3>2. QED
      BY <3>1, <1>1, <1>2 DEF Tasks, Places
  <2>3. CASE servers[s] # 0 /\ ~At(g, "boot")
    BY <2>3, <1>1, <1>2
  <2>4. QED
    BY <2>1, <2>2, <2>3
<1> HIDE DEF n
<1>5. TaskOK(n)
  BY <1>4 DEF TaskOK
<1>6. registry' \in [Tools -> Servers \union {Nobody}]
  BY <1>1 DEF ReplyInv, McpTypeOK
<1>7. QED
  BY <1>1, <1>4, <1>5, <1>6, TaskStep

\* Opening makes one more connection and asks nothing on it yet.
LEMMA OpenKeeps ==
  ASSUME ReplyInv, NEW g \in Goroutines, Open(g)
  PROVE  ReplyInv' /\ Grows
<1> DEFINE b == task[g]
           c == NewConn(b.server)
<1>1. b \in Tasks /\ b.at = "open" /\ b.for # "list" /\ UNCHANGED <<servers, registry>>
  BY TaskTypes DEF Open, At
<1>2. CASE Ends(g) /\ UNCHANGED conns
  BY <1>1, <1>2, SameGrows, MapsStay, EndsKeeps
<1>3. CASE ~(Ends(g) /\ UNCHANGED conns)
  <2>1. conns' = Append(conns, c) /\ task' = [task EXCEPT ![g].at = "send", ![g].conn = Len(conns')]
    BY <1>3 DEF Open
  <2>2. c \in Conns
    <3>1. b.server \in Servers
      BY <1>1, TaskTypes
    <3>2. QED
      BY <3>1, ClientAssumption DEF NewConn, Conns
  <2>3. /\ conns' \in Seq(Conns) /\ Len(conns') = Len(conns) + 1
        /\ \A k \in 1 .. Len(conns) : conns'[k] = conns[k]
        /\ conns'[Len(conns) + 1] = c /\ conns \in Seq(Conns) /\ Len(conns) \in Nat
    <3>1. conns \in Seq(Conns)
      BY DEF ReplyInv, McpTypeOK
    <3>2. QED
      BY <3>1, <2>1, <2>2, AppendProperties
  <2>4. c.sent = 0 /\ c.asked = {} /\ c.answered = {}
    BY DEF NewConn
  <2>5. AskedWasSent'
    <3>1. \A k \in 1 .. Len(conns') : k \in 1 .. Len(conns) \/ k = Len(conns) + 1
      BY <2>3
    <3>2. QED
      BY <3>1, <2>3, <2>4, ConnTypes DEF AskedWasSent
  <2>6. Grows
    BY <2>3, <2>5, ConnTypes DEF Grows
  <2> DEFINE m == Len(conns')
             n == [b EXCEPT !.at = "send", !.conn = m]
  <2>m. m \in Nat /\ task' = [task EXCEPT ![g].at = "send", ![g].conn = m]
    BY <2>1, <2>3
  <2> HIDE DEF m
  <2>t. task' = [task EXCEPT ![g] = n]
    BY <2>m DEF ReplyInv, McpTypeOK
  <2>n. n \in Tasks /\ n.at = "send" /\ n.conn = m /\ n.for = b.for
    BY <2>m, <1>1 DEF Tasks, Places
  <2>7. task' = [task EXCEPT ![g] = n] /\ n \in Tasks /\ n.at = "send" /\ n.conn = Len(conns')
        /\ n.for # "list"
    BY <2>t, <2>n, <1>1 DEF m
  <2> HIDE DEF n
  <2>8. TaskOK(n)
    BY <2>7, <2>3 DEF TaskOK
  <2>9. Waits(g)'
    BY <2>7 DEF Waits, ReplyInv, McpTypeOK
  <2>10. QED
    BY <2>6, <2>7, <2>8, <2>9, <1>1, MapsStay, OneStep
<1>4. QED
  BY <1>2, <1>3

\* Whoever is past the opening has a connection in hand.
LEMMA InHand ==
  ASSUME ReplyInv, NEW g \in Goroutines,
         task[g].at \in {"send", "post", "posted", "wait", "store", "listed", "close", "delete"}
  PROVE  task[g].conn \in 1 .. Len(conns) /\ Conn(g) \in Conns
<1>1. task[g].conn \in 1 .. Len(conns)
  BY TaskTypes
<1>2. QED
  BY <1>1, ConnTypes DEF Conn

\* To close a transport loses no request.
LEMMA ClosedGrows ==
  ASSUME ReplyInv, NEW g \in Goroutines, task[g].conn \in 1 .. Len(conns), conns' = Closed(g)
  PROVE  Grows /\ Len(conns') = Len(conns) /\ conns'[task[g].conn].closed
<1> DEFINE k == task[g].conn
           c == [conns[k] EXCEPT !.closed = TRUE]
<1>1. conns[k] \in Conns /\ conns[k].sent \in Nat /\ conns[k].asked \subseteq 1 .. conns[k].sent
  BY ConnTypes
<1>2. conns' = [conns EXCEPT ![k] = c]
  BY DEF Closed, ReplyInv, McpTypeOK
<1>3. c \in Conns /\ c.sent = conns[k].sent /\ c.pending = conns[k].pending
      /\ c.answered = conns[k].answered /\ c.asked = conns[k].asked /\ c.closed
  BY <1>1 DEF Conns
<1> HIDE DEF c
<1>4. c.sent >= conns[k].sent
  BY <1>1, <1>3
<1>5. QED
  BY <1>1, <1>2, <1>3, <1>4, ConnStep

\* Closing a transport changes nothing of a connection but that it is closed.
LEMMA ClosedAlike ==
  ASSUME ReplyInv, NEW g \in Goroutines, task[g].conn \in 1 .. Len(conns), conns' = Closed(g),
         NEW j \in 1 .. Len(conns)
  PROVE  /\ conns'[j].name = conns[j].name /\ conns'[j].listed = conns[j].listed
         /\ conns'[j].boot = conns[j].boot /\ (conns[j].closed => conns'[j].closed)
<1> DEFINE k == task[g].conn
           c == [conns[k] EXCEPT !.closed = TRUE]
<1>1. conns[k] \in Conns /\ conns \in Seq(Conns)
  BY ConnTypes DEF ReplyInv, McpTypeOK
<1>2. conns' = [conns EXCEPT ![k] = c]
  BY <1>1 DEF Closed
<1>3. c.name = conns[k].name /\ c.listed = conns[k].listed /\ c.boot = conns[k].boot /\ c.closed
  BY <1>1 DEF Conns
<1> HIDE DEF c
<1>4. conns'[j] = IF j = k THEN c ELSE conns[j]
  BY <1>1, <1>2
<1>5. QED
  BY <1>3, <1>4

\* A send that fails ends the task.
LEMMA SendFailsKeeps ==
  ASSUME ReplyInv, NEW g \in Goroutines, task[g].conn \in 1 .. Len(conns), SendFails(g),
         UNCHANGED <<servers, registry>>
  PROVE  ReplyInv'
<1>1. Grows
  BY ClosedGrows, SameGrows DEF SendFails
<1>2. QED
  BY <1>1, MapsStay, EndsKeeps DEF SendFails

\* A request is registered under a number that no answer has had.
LEMMA RegisterRequestKeeps ==
  ASSUME ReplyInv, NEW g \in Goroutines, RegisterRequest(g)
  PROVE  ReplyInv'
<1> DEFINE b == task[g]
           k == b.conn
           i == conns[k].sent + 1
           c == [conns[k] EXCEPT !.sent = i, !.pending = conns[k].pending \union {[id |-> i, of |-> g]}]
           n == [b EXCEPT !.at = "post", !.id = i]
<1>1. /\ b \in Tasks /\ k \in 1 .. Len(conns) /\ b.at = "send"
      /\ b.for = "list" => b.todo # <<>>
      /\ UNCHANGED <<servers, registry>> /\ conns[k].sent < MaxSends
  BY TaskTypes DEF RegisterRequest, At, Conn
<1>2. CASE SendFails(g)
  BY <1>1, <1>2, SendFailsKeeps
<1>3. CASE ~SendFails(g)
  <2>1. /\ conns' = [conns EXCEPT ![k] = Entered(g, "send", [conns[k] EXCEPT !.sent = conns[k].sent + 1])]
        /\ task' = [task EXCEPT ![g] = n]
    <3>1. task' = [task EXCEPT ![g].at = "post", ![g].id = conns[k].sent + 1]
      BY <1>3 DEF RegisterRequest, Conn
    <3>2. QED
      BY <3>1, <1>3 DEF RegisterRequest, Conn, ReplyInv, McpTypeOK
  <2>2. conns[k] \in Conns /\ conns[k].sent \in Nat /\ conns[k].asked \subseteq 1 .. conns[k].sent
        /\ conns[k].answered \subseteq 1 .. conns[k].sent
    BY <1>1, ConnTypes
  <2>3. Entered(g, "send", [conns[k] EXCEPT !.sent = conns[k].sent + 1]) = c
    <3> DEFINE d == [conns[k] EXCEPT !.sent = conns[k].sent + 1]
    <3>1. /\ Entered(g, "send", d) = [d EXCEPT !.pending = d.pending \union {[id |-> d.sent, of |-> g]}]
          /\ d = [conns[k] EXCEPT !.sent = i]
      BY DEF Entered, PendingFrom
    <3> HIDE DEF i, d
    <3>3. d.pending = conns[k].pending /\ d.sent = i
      BY <2>2, <3>1 DEF Conns
    <3> DEFINE q == conns[k].pending \union {[id |-> i, of |-> g]}
    <3>4. /\ Entered(g, "send", d) = [d EXCEPT !.pending = q]
          /\ c = [conns[k] EXCEPT !.sent = i, !.pending = q]
      BY <3>1, <3>3
    <3> HIDE DEF q, c
    <3>5. [d EXCEPT !.pending = q] = c
      BY <2>2, <3>1, <3>4 DEF Conns
    <3>6. QED
      BY <3>4, <3>5 DEF d
  <2>4. i \in 0 .. MaxSends /\ i \in Nat /\ conns[k].sent < i
    <3>1. conns[k].sent \in Nat /\ conns[k].sent < MaxSends /\ MaxSends \in Nat
      BY <2>2, <1>1, ClientAssumption
    <3>2. QED
      BY <3>1
  <2> HIDE DEF i
  <2>5. /\ c \in Conns /\ c.sent = i /\ c.pending = conns[k].pending \union {[id |-> i, of |-> g]}
        /\ c.asked = conns[k].asked /\ c.answered = conns[k].answered
    <3> DEFINE q == conns[k].pending \union {[id |-> i, of |-> g]}
    <3>1. q \in SUBSET [id : Nat, of : Goroutines]
      BY <2>2, <2>4 DEF Conns
    <3> HIDE DEF q
    <3>2. c = [conns[k] EXCEPT !.sent = i, !.pending = q]
      BY DEF q
    <3> HIDE DEF c
    <3>3. /\ c \in Conns /\ c.sent = i /\ c.pending = q
          /\ c.asked = conns[k].asked /\ c.answered = conns[k].answered
      BY <3>1, <3>2, <2>2, <2>4 DEF Conns
    <3>4. QED
      BY <3>3 DEF q
  <2>6. n \in Tasks /\ n.at = "post" /\ n.id = i /\ n.conn = k /\ n.for = b.for /\ n.todo = b.todo
    BY <1>1, <2>4 DEF Tasks, Places
  <2> HIDE DEF c, n
  <2>7. c.sent >= conns[k].sent /\ c.asked \subseteq 1 .. c.sent
    BY <2>2, <2>4, <2>5
  <2>8. Grows /\ Len(conns') = Len(conns) /\ conns'[k] = c
    BY <2>1, <2>3, <2>5, <2>7, <1>1, ConnStep
  <2>9. TaskOK(n)
    BY <2>6, <2>8, <1>1 DEF TaskOK
  <2>10. task'[g] = n
    BY <2>1 DEF ReplyInv, McpTypeOK
  <2>11. i \notin conns[k].answered
    BY <2>2, <2>4
  <2>12. Waits(g)'
    <3>1. i \in 1 .. c.sent /\ [id |-> i, of |-> g] \in c.pending /\ i \notin c.answered
      BY <2>2, <2>4, <2>5, <2>11
    <3>2. task'[g].id = i /\ Conn(g)' = c
      BY <2>6, <2>8, <2>10 DEF Conn
    <3>3. QED
      BY <3>1, <3>2 DEF Waits
  <2>13. QED
    BY <2>1, <2>8, <2>9, <2>12, <1>1, MapsStay, OneStep
<1>4. QED
  BY <1>2, <1>3

\* The POST arrives after its request was registered.
LEMMA PostArrivesKeeps ==
  ASSUME ReplyInv, NEW g \in Goroutines, PostArrives(g)
  PROVE  ReplyInv'
<1> DEFINE b == task[g]
           k == b.conn
           q == conns[k].asked \union {b.id}
           c == [conns[k] EXCEPT !.asked = q]
           n == [b EXCEPT !.at = "posted"]
<1>1. /\ b \in Tasks /\ k \in 1 .. Len(conns) /\ b.at = "post"
      /\ b.for = "list" => b.todo # <<>>
      /\ UNCHANGED <<servers, registry>> /\ Waits(g)
  BY TaskTypes DEF PostArrives, At
<1>2. conns[k] \in Conns /\ conns[k].sent \in Nat /\ conns[k].asked \subseteq 1 .. conns[k].sent
  BY <1>1, ConnTypes
<1>3. b.id \in 1 .. conns[k].sent
      /\ (b.reply = b.id \/ ([id |-> b.id, of |-> g] \in conns[k].pending /\ b.id \notin conns[k].answered))
  BY <1>1 DEF Waits, Conn
<1>4. conns' = [conns EXCEPT ![k] = c] /\ task' = [task EXCEPT ![g] = n] /\ task'[g] = n
  BY DEF PostArrives, Goes, ReplyInv, McpTypeOK
<1>5. q \in SUBSET Nat /\ q \subseteq 1 .. conns[k].sent
  BY <1>2, <1>3
<1> HIDE DEF q
<1>6. /\ c \in Conns /\ c.sent = conns[k].sent /\ c.pending = conns[k].pending
      /\ c.answered = conns[k].answered /\ c.asked = q
  BY <1>2, <1>5 DEF Conns
<1>7. n \in Tasks /\ n.at = "posted" /\ n.id = b.id /\ n.conn = k /\ n.for = b.for
      /\ n.todo = b.todo /\ n.reply = b.reply
  BY <1>1 DEF Tasks, Places
<1> HIDE DEF c, n
<1>8. c.sent >= conns[k].sent
  BY <1>2, <1>6
<1>9. Grows /\ Len(conns') = Len(conns) /\ conns'[k] = c
  BY <1>1, <1>4, <1>5, <1>6, <1>8, ConnStep
<1>10. TaskOK(n)
  BY <1>1, <1>7, <1>9 DEF TaskOK
<1>11. Waits(g)'
  BY <1>3, <1>4, <1>6, <1>7, <1>9 DEF Waits, Conn
<1>12. QED
  BY <1>1, <1>4, <1>9, <1>10, <1>11, MapsStay, OneStep

\* A POST that returns leaves reply and pending as they are.
LEMMA PostReturnsKeeps ==
  ASSUME ReplyInv, NEW g \in Goroutines, PostReturns(g)
  PROVE  ReplyInv' /\ conns' = conns
<1> DEFINE b == task[g]
           k == b.conn
           n == [b EXCEPT !.at = "wait"]
<1>1. /\ b \in Tasks /\ k \in 1 .. Len(conns) /\ b.at = "posted"
      /\ b.for = "list" => b.todo # <<>>
      /\ UNCHANGED <<servers, registry>> /\ Waits(g)
  BY TaskTypes DEF PostReturns, At
<1>2. conns' = [conns EXCEPT ![k] = conns[k]]
  BY DEF PostReturns, Entered, PendingFrom, Conn
<1>3. conns' = conns
  BY <1>1, <1>2 DEF ReplyInv, McpTypeOK
<1>4. task' = [task EXCEPT ![g] = n] /\ task'[g] = n
  BY DEF PostReturns, Goes, ReplyInv, McpTypeOK
<1>5. n \in Tasks /\ n.at = "wait" /\ n.id = b.id /\ n.conn = k /\ n.for = b.for
      /\ n.todo = b.todo /\ n.reply = b.reply
  BY <1>1 DEF Tasks, Places
<1> HIDE DEF n
<1>6. TaskOK(n)
  BY <1>1, <1>3, <1>5 DEF TaskOK
<1>7. Waits(g)'
  BY <1>1, <1>3, <1>4, <1>5 DEF Waits, Conn
<1>8. QED
  BY <1>1, <1>3, <1>4, <1>6, <1>7, SameGrows, MapsStay, OneStep

\* A call that fails waits no more.
LEMMA FailKeeps ==
  ASSUME ReplyInv, NEW g \in Goroutines, Fail(g)
  PROVE  ReplyInv'
<1>1. task[g].conn \in 1 .. Len(conns)
  BY InHand DEF Fail
<1>2. QED
  BY <1>1, SendFailsKeeps DEF Fail

\* The client learns whether it has the server's tools.
LEMMA ListedGrows ==
  ASSUME ReplyInv, NEW k \in 1 .. Len(conns), NEW v \in BOOLEAN,
         conns' = [conns EXCEPT ![k].listed = v]
  PROVE  Grows /\ Len(conns') = Len(conns)
<1> DEFINE c == [conns[k] EXCEPT !.listed = v]
<1>1. conns[k] \in Conns /\ conns[k].sent \in Nat /\ conns[k].asked \subseteq 1 .. conns[k].sent
  BY ConnTypes
<1>2. conns' = [conns EXCEPT ![k] = c]
  BY DEF ReplyInv, McpTypeOK
<1>3. c \in Conns /\ c.sent = conns[k].sent /\ c.pending = conns[k].pending
      /\ c.answered = conns[k].answered /\ c.asked = conns[k].asked
  BY <1>1 DEF Conns
<1> HIDE DEF c
<1>4. c.sent >= conns[k].sent
  BY <1>1, <1>3
<1>5. QED
  BY <1>1, <1>2, <1>3, <1>4, ConnStep

\* A step to a place where it waits for nothing, with the same connection.
LEMMA GoesOn ==
  ASSUME ReplyInv, Grows, NEW g \in Goroutines, NEW n, task' = [task EXCEPT ![g] = n],
         UNCHANGED <<servers, registry>>, task[g].conn \in 1 .. Len(conns),
         n \in Tasks, n.at \in {"send", "store", "listed", "delete"}, n.conn = task[g].conn,
         n.for = "list" => n.todo # <<>> /\ n.at \in {"send", "listed"}
  PROVE  ReplyInv'
<1>1. task'[g] = n
  BY DEF ReplyInv, McpTypeOK
<1>2. n.conn \in 1 .. Len(conns')
  BY DEF Grows, ReplyInv, McpTypeOK
<1>3. TaskOK(n) /\ Waits(g)'
  BY <1>1, <1>2 DEF TaskOK, Waits
<1>4. QED
  BY <1>3, MapsStay, OneStep

\* Whoever takes the reply goes on, and another's request stays in pending.
LEMMA TakeReplyKeeps ==
  ASSUME ReplyInv, NEW g \in Goroutines, TakeReply(g)
  PROVE  ReplyInv'
<1> DEFINE b == task[g]
           again == [b EXCEPT !.at = "send", !.id = 0, !.reply = 0]
<1>1. /\ b \in Tasks /\ b.conn \in 1 .. Len(conns) /\ b.at = "wait"
      /\ b.for = "list" => b.todo # <<>>
      /\ UNCHANGED <<servers, registry>>
  BY TaskTypes DEF TakeReply, At
<1>2. again \in Tasks /\ again.at = "send" /\ again.conn = b.conn /\ again.for = b.for
      /\ again.todo = b.todo
  BY <1>1 DEF Tasks, Places
<1>3. CASE b.for = "connect" /\ task' = [task EXCEPT ![g] = again] /\ conns' = conns
  BY <1>1, <1>2, <1>3, SameGrows, GoesOn
<1>4. ASSUME b.for = "connect", NEW v \in BOOLEAN, conns' = [conns EXCEPT ![b.conn].listed = v],
             Goes(g, "store")
      PROVE  ReplyInv'
  <2> DEFINE n == [b EXCEPT !.at = "store"]
  <2>1. task' = [task EXCEPT ![g] = n]
    BY <1>4 DEF Goes, ReplyInv, McpTypeOK
  <2>2. n \in Tasks /\ n.at = "store" /\ n.conn = b.conn /\ n.for = "connect"
    BY <1>1, <1>4 DEF Tasks, Places
  <2> HIDE DEF n
  <2>3. QED
    BY <1>1, <1>4, <2>1, <2>2, ListedGrows, GoesOn
<1>5. ASSUME b.for = "list", NEW v \in BOOLEAN, conns' = [conns EXCEPT ![b.conn].listed = v],
             task' = [task EXCEPT ![g] = [again EXCEPT !.at = "listed"]]
      PROVE  ReplyInv'
  <2> DEFINE n == [again EXCEPT !.at = "listed"]
  <2> HIDE DEF again
  <2>2. n \in Tasks /\ n.at = "listed" /\ n.conn = b.conn /\ n.for = "list" /\ n.todo = b.todo
    BY <1>2, <1>5 DEF Tasks, Places
  <2> HIDE DEF n
  <2>3. QED
    BY <1>1, <1>5, <2>2, ListedGrows, GoesOn DEF n
<1>6. CASE Ends(g) /\ UNCHANGED conns
  BY <1>1, <1>6, SameGrows, MapsStay, EndsKeeps
<1>7. QED
  BY <1>3, <1>4, <1>5, <1>6 DEF TakeReply

\* The connection is entered, and the task goes on or ends.
LEMMA StoreKeeps ==
  ASSUME ReplyInv, NEW g \in Goroutines, Store(g)
  PROVE  ReplyInv'
<1>1. task[g].conn \in 1 .. Len(conns) /\ Ends(g) /\ UNCHANGED <<conns, registry>>
  BY InHand DEF Store, At
<1>2. servers' \in [Servers -> 0 .. Len(conns')]
  <2>1. task[g].conn \in 0 .. Len(conns)
    BY <1>1 DEF ReplyInv, McpTypeOK
  <2>2. QED
    BY <2>1, <1>1 DEF Store, ReplyInv, McpTypeOK
<1>3. QED
  BY <1>1, <1>2, SameGrows, MapsStay, EndsKeeps

\* The entry goes, and with it the task.
LEMMA DeleteKeeps ==
  ASSUME ReplyInv, NEW g \in Goroutines, Delete(g)
  PROVE  ReplyInv'
<1>1. Ends(g) /\ UNCHANGED <<conns, registry>>
  BY DEF Delete
<1>2. servers' \in [Servers -> 0 .. Len(conns')]
  <2>1. /\ servers \in [Servers -> 0 .. Len(conns)] /\ 0 \in 0 .. Len(conns) /\ conns' = conns
        /\ servers' = [servers EXCEPT ![task[g].server] = 0]
    BY <1>1 DEF Delete, ReplyInv, McpTypeOK
  <2>2. QED
    BY <2>1
<1>3. QED
  BY <1>1, <1>2, SameGrows, MapsStay, EndsKeeps

\* A transport that is closed keeps its pending requests.
LEMMA CloseTransportKeeps ==
  ASSUME ReplyInv, NEW g \in Goroutines, CloseTransport(g)
  PROVE  ReplyInv'
<1> DEFINE n == [task[g] EXCEPT !.at = "delete"]
<1>1. /\ task[g].conn \in 1 .. Len(conns) /\ task[g] \in Tasks /\ conns' = Closed(g)
      /\ task[g].for # "list" /\ UNCHANGED <<servers, registry>>
  BY TaskTypes DEF CloseTransport, At
<1>2. task' = [task EXCEPT ![g] = n]
  BY DEF CloseTransport, Goes, ReplyInv, McpTypeOK
<1>3. n \in Tasks /\ n.at = "delete" /\ n.conn = task[g].conn /\ n.for = task[g].for
  BY <1>1 DEF Tasks, Places
<1> HIDE DEF n
<1>4. Grows
  BY <1>1, ClosedGrows
<1>5. QED
  BY <1>1, <1>2, <1>3, <1>4, GoesOn

-----------------------------------------------------------------------------
\* The bridge and Close change all connections at once, in a field of no weight here.
LEMMA AllConns ==
  ASSUME ReplyInv,
         conns' \in [1 .. Len(conns) -> Conns],
         \A k \in 1 .. Len(conns) :
            /\ conns'[k].sent = conns[k].sent /\ conns'[k].pending = conns[k].pending
            /\ conns'[k].asked = conns[k].asked /\ conns'[k].answered = conns[k].answered
  PROVE  Grows /\ Len(conns') = Len(conns)
<1>1. conns' \in Seq(Conns) /\ Len(conns') = Len(conns) /\ Len(conns) \in Nat
  <2>1. Len(conns) \in Nat
    BY DEF ReplyInv, McpTypeOK
  <2>2. conns' \in Seq(Conns)
    BY <2>1, SeqDef
  <2>3. QED
    BY <2>1, <2>2, LenProperties
<1>2. AskedWasSent'
  BY <1>1, ConnTypes DEF AskedWasSent
<1>3. QED
  BY <1>1, <1>2, ConnTypes DEF Grows

\* Close changes no task and no pending request.
LEMMA CloseKeeps ==
  ASSUME ReplyInv, NEW g \in Goroutines, Close(g)
  PROVE  ReplyInv' /\ Len(conns') = Len(conns)
<1> DEFINE c(k) == IF servers[conns[k].name] = k THEN [conns[k] EXCEPT !.closed = TRUE] ELSE conns[k]
<1>1. DOMAIN conns = 1 .. Len(conns)
  BY DEF ReplyInv, McpTypeOK
<1>2. conns' = [k \in 1 .. Len(conns) |-> c(k)]
  BY <1>1 DEF Close
<1>3. ASSUME NEW k \in 1 .. Len(conns)
      PROVE  /\ c(k) \in Conns
             /\ c(k).sent = conns[k].sent /\ c(k).pending = conns[k].pending
             /\ c(k).asked = conns[k].asked /\ c(k).answered = conns[k].answered
  BY ConnTypes DEF Conns
<1> HIDE DEF c
<1>4. Grows /\ Len(conns') = Len(conns)
  BY <1>2, <1>3, AllConns
<1>5. servers' \in [Servers -> 0 .. Len(conns')]
  BY <1>4 DEF Close, ReplyInv, McpTypeOK
<1>6. task' = [task EXCEPT ![g] = task[g]] /\ TaskOK(task[g]) /\ task[g].at = "idle"
  BY <1>4, TaskTypes DEF Close, At, TaskOK, ReplyInv, McpTypeOK
<1>7. Waits(g)'
  BY <1>6 DEF Waits, Close
<1>8. QED
  BY <1>4, <1>5, <1>6, <1>7, MapsStay, OneStep DEF Close

\* The goroutine that boots is one of them.
LEMMA BootIsOne == Boot \in Goroutines
BY ClientAssumption DEF Goroutines

\* The bridge makes its list of the servers that are connected.
LEMMA ListServersKeeps ==
  ASSUME ReplyInv, ListServers
  PROVE  ReplyInv' /\ Len(conns') = Len(conns)
<1> DEFINE c(k) == [conns[k] EXCEPT !.boot = servers[conns[k].name] = k]
           S == {s \in Servers : servers[s] # 0}
<1>1. DOMAIN conns = 1 .. Len(conns)
  BY DEF ReplyInv, McpTypeOK
<1>2. conns' = [k \in 1 .. Len(conns) |-> c(k)] /\ UNCHANGED <<servers, registry>>
  BY <1>1 DEF ListServers
<1>3. ASSUME NEW k \in 1 .. Len(conns)
      PROVE  /\ c(k) \in Conns
             /\ c(k).sent = conns[k].sent /\ c(k).pending = conns[k].pending
             /\ c(k).asked = conns[k].asked /\ c(k).answered = conns[k].answered
  BY ConnTypes DEF Conns
<1> HIDE DEF c
<1>4. Grows /\ Len(conns') = Len(conns)
  BY <1>2, <1>3, AllConns
<1>5. PICK order \in SetToSeqs(S) :
          task' = [task EXCEPT ![Boot].at = "register", ![Boot].todo = order]
  BY DEF ListServers
<1>6. order \in Seq(Servers)
  <2>1. IsFiniteSet(S)
    BY ClientAssumption, FS_Subset
  <2>2. order \in Seq(S)
    BY <2>1, SetToSeqsAll
  <2>3. QED
    BY <2>2
<1> DEFINE n == [task[Boot] EXCEPT !.at = "register", !.todo = order]
<1>7. task' = [task EXCEPT ![Boot] = n]
  BY <1>5, BootIsOne DEF ReplyInv, McpTypeOK
<1>8. /\ task[Boot] \in Tasks /\ task[Boot].conn = 0 /\ task[Boot].for # "list"
  BY BootIsOne, TaskTypes DEF ListServers, At
<1>9. n \in Tasks /\ n.conn = 0 /\ n.for # "list" /\ n.at = "register"
  BY <1>6, <1>8 DEF Tasks, Places
<1> HIDE DEF n
<1>10. TaskOK(n) /\ Waits(Boot)'
  <2>1. task'[Boot] = n
    BY <1>7, BootIsOne DEF ReplyInv, McpTypeOK
  <2>2. QED
    BY <2>1, <1>9 DEF TaskOK, Waits
<1>11. QED
  BY <1>2, <1>4, <1>7, <1>10, BootIsOne, MapsStay, OneStep

\* The adapters of one server are of that server, or there were none.
LEMMA RegisteredIs ==
  ASSUME ReplyInv, NEW s \in Servers
  PROVE  /\ Registered(s) \in [Tools -> Servers \union {Nobody}]
         /\ \A t \in Tools : Registered(s)[t] = IF t \in ToolsOf[s] /\ registry[t] = Nobody
                                                THEN s ELSE registry[t]
BY DEF Registered, ReplyInv, McpTypeOK

\* The bridge asks the next server for its tools.
LEMMA RegisterServerKeeps ==
  ASSUME ReplyInv, RegisterServer
  PROVE  ReplyInv'
<1> DEFINE b == task[Boot]
           s == Head(b.todo)
           k == servers[s]
<1>1. /\ b \in Tasks /\ b.at = "register" /\ b.todo # <<>> /\ b.conn = 0 /\ b.for # "list"
      /\ UNCHANGED <<servers, conns>>
  BY BootIsOne, TaskTypes DEF RegisterServer, At
<1>2. b.todo \in Seq(Servers) /\ s \in Servers /\ Tail(b.todo) \in Seq(Servers)
  BY <1>1, TailOf DEF Tasks
<1>3. k \in 0 .. Len(conns) /\ Len(conns) \in Nat
  BY <1>2 DEF ReplyInv, McpTypeOK
<1>4. CASE k # 0 /\ ~conns[k].listed
  <2> DEFINE n == [b EXCEPT !.at = "send", !.for = "list", !.conn = k, !.server = s]
  <2>1. task' = [task EXCEPT ![Boot].at = "send", ![Boot].for = "list",
                             ![Boot].conn = k, ![Boot].server = s] /\ UNCHANGED registry
    BY <1>4 DEF RegisterServer
  <2> HIDE DEF k, s
  <2>2. task' = [task EXCEPT ![Boot] = n]
    BY <2>1, BootIsOne DEF ReplyInv, McpTypeOK
  <2>t. k \in Nat /\ s \in Servers \union {Nobody} /\ b \in Tasks
    BY <1>1, <1>2, <1>3
  <2> HIDE DEF b
  <2>3. n \in Tasks /\ n.at = "send" /\ n.conn = k /\ n.todo = b.todo
    BY <2>t DEF Tasks, Places
  <2> HIDE DEF n
  <2>4. k \in 1 .. Len(conns')
    BY <1>1, <1>3, <1>4
  <2>5. TaskOK(n)
    BY <2>3, <2>4, <1>1 DEF TaskOK
  <2>6. QED
    BY <1>1, <2>1, <2>2, <2>3, <2>5, BootIsOne, MapsStay, SameGrows, TaskStep
<1>5. CASE ~(k # 0 /\ ~conns[k].listed)
  <2> DEFINE r == Tail(b.todo)
             n == [b EXCEPT !.todo = r]
  <2>1. /\ task' = [task EXCEPT ![Boot].todo = Tail(task[Boot].todo)]
        /\ registry' = IF k = 0 THEN registry ELSE Registered(s)
    BY <1>5 DEF RegisterServer
  <2> HIDE DEF s, r
  <2>2. task' = [task EXCEPT ![Boot] = n]
    BY <2>1, BootIsOne DEF ReplyInv, McpTypeOK, r
  <2>3. n \in Tasks /\ n.at = "register" /\ n.conn = 0 /\ n.for = b.for
    BY <1>1, <1>2 DEF Tasks, Places, r
  <2> HIDE DEF n
  <2>4. TaskOK(n)
    BY <2>3, <1>1 DEF TaskOK
  <2>5. registry' \in [Tools -> Servers \union {Nobody}]
    BY <2>1, <1>2, RegisteredIs DEF ReplyInv, McpTypeOK
  <2>6. QED
    BY <1>1, <2>2, <2>3, <2>4, <2>5, BootIsOne, TaskStep
<1>6. QED
  BY <1>4, <1>5

\* The bridge enters the tools that a server listed.
LEMMA RegisterListedKeeps ==
  ASSUME ReplyInv, RegisterListed
  PROVE  ReplyInv'
<1>1. Ends(Boot) /\ UNCHANGED <<servers, conns>> /\ task[Boot].at = "listed"
  BY DEF RegisterListed, At
<1>2. registry' \in [Tools -> Servers \union {Nobody}]
  <2>1. CASE registry' = registry
    BY <2>1 DEF ReplyInv, McpTypeOK
  <2>2. CASE registry' = Registered(task[Boot].server)
    <3>1. registry \in [Tools -> Servers \union {Nobody}] /\ task[Boot] \in Tasks
      BY BootIsOne, TaskTypes DEF ReplyInv, McpTypeOK
    <3>2. task[Boot].server \in Servers \union {Nobody}
      BY <3>1 DEF Tasks
    <3>3. QED
      BY <2>2, <3>1, <3>2 DEF Registered
  <2>3. QED
    BY <2>1, <2>2 DEF RegisterListed
<1>3. QED
  BY <1>1, <1>2, BootIsOne, SameGrows, MapsStay, EndsKeeps

\* The boot ends with nothing left to list.
LEMMA BootedKeeps ==
  ASSUME ReplyInv, Booted
  PROVE  ReplyInv'
<1>1. TaskOK(Rest) /\ Rest.at = "idle"
  BY RestIsATask DEF TaskOK
<1>2. registry' \in [Tools -> Servers \union {Nobody}]
  BY DEF Booted, ReplyInv, McpTypeOK
<1>3. QED
  BY <1>1, <1>2, BootIsOne, TaskStep DEF Booted

\* A call begins with the connection that its server's entry holds.
LEMMA ExecuteToolKeeps ==
  ASSUME ReplyInv, NEW g \in Goroutines, NEW t \in Tools, ExecuteTool(g, t)
  PROVE  ReplyInv'
<1> DEFINE s == registry[t]
           k == servers[s]
           n == [Rest EXCEPT !.at = "send", !.for = "call", !.server = s, !.conn = k]
<1>1. /\ s \in Servers /\ k \in 0 .. Len(conns) /\ k # 0 /\ Len(conns) \in Nat
      /\ task' = [task EXCEPT ![g] = n] /\ UNCHANGED <<servers, conns, registry>>
      /\ registry' \in [Tools -> Servers \union {Nobody}]
  BY DEF ExecuteTool, ReplyInv, McpTypeOK
<1> HIDE DEF s, k
<1>t. k \in Nat /\ s \in Servers \union {Nobody}
  BY <1>1
<1>2. n \in Tasks /\ n.at = "send" /\ n.for = "call" /\ n.conn = k
  BY <1>t, RestIsATask DEF Rest, Tasks, Places
<1> HIDE DEF n
<1>3. TaskOK(n)
  BY <1>1, <1>2 DEF TaskOK
<1>4. QED
  BY <1>1, <1>2, <1>3, TaskStep

\* Disconnect looks its connection up.
LEMMA DisconnectKeeps ==
  ASSUME ReplyInv, NEW g \in Goroutines, NEW s \in Servers, Disconnect(g, s)
  PROVE  ReplyInv'
<1> DEFINE k == servers[s]
           n == [Rest EXCEPT !.at = "close", !.for = "disconnect", !.server = s, !.conn = k]
<1>1. /\ k \in 0 .. Len(conns) /\ k # 0 /\ Len(conns) \in Nat
      /\ task' = [task EXCEPT ![g] = n] /\ UNCHANGED <<servers, conns, registry>>
      /\ registry' \in [Tools -> Servers \union {Nobody}]
  BY DEF Disconnect, ReplyInv, McpTypeOK
<1> HIDE DEF k
<1>t. k \in Nat /\ s \in Servers \union {Nobody}
  BY <1>1
<1>2. n \in Tasks /\ n.at = "close" /\ n.for = "disconnect" /\ n.conn = k
  BY <1>t, RestIsATask DEF Rest, Tasks, Places
<1> HIDE DEF n
<1>3. TaskOK(n)
  BY <1>1, <1>2 DEF TaskOK
<1>4. QED
  BY <1>1, <1>2, <1>3, TaskStep

\* An answer that the reader dispatches goes to whoever is in pending for it.
LEMMA ServerAnswersKeeps ==
  ASSUME ReplyInv, NEW k \in 1 .. Len(conns), NEW id \in conns[k].asked, NEW lines,
         ServerAnswers(k, id, lines)
  PROVE  ReplyInv' /\ UNCHANGED <<servers, registry>> /\ Len(conns') = Len(conns)
<1> DEFINE who == {p \in conns[k].pending : p.id = id}
           q == conns[k].pending \ who
           a == conns[k].answered \union {id}
           c == [conns[k] EXCEPT !.pending = q, !.answered = a]
<1>1. UNCHANGED <<servers, registry>>
  BY DEF ServerAnswers
<1>2. CASE UNCHANGED <<conns, task>>
  BY <1>1, <1>2 DEF ReplyInv, McpTypeOK, AskedWasSent, HasConn, ListsFirst, OpensAServer,
     ReplyOrPending, Waits, Conn
<1>3. CASE ~ UNCHANGED <<conns, task>>
  <2>1. /\ conns' = [conns EXCEPT ![k].pending = conns[k].pending \ who,
                                  ![k].answered = conns[k].answered \union {id}]
        /\ task' = [g \in Goroutines |->
                      IF task[g].conn = k /\ task[g].id = id /\ \E p \in who : p.of = g
                      THEN [task[g] EXCEPT !.reply = id] ELSE task[g]]
    BY <1>3 DEF ServerAnswers
  <2>2. conns[k] \in Conns /\ conns[k].sent \in Nat /\ conns[k].asked \subseteq 1 .. conns[k].sent
        /\ conns[k].answered \subseteq 1 .. conns[k].sent
    BY ConnTypes
  <2>3. id \in 1 .. conns[k].sent /\ id \in Nat
    BY <2>2
  <2>4. conns' = [conns EXCEPT ![k] = c]
    BY <2>1 DEF ReplyInv, McpTypeOK
  <2>5. q \in SUBSET [id : Nat, of : Goroutines] /\ a \in SUBSET Nat /\ a \subseteq 1 .. conns[k].sent
    BY <2>2, <2>3 DEF Conns
  <2> HIDE DEF q, a
  <2>6. c \in Conns /\ c.sent = conns[k].sent /\ c.asked = conns[k].asked /\ c.pending = q
        /\ c.answered = a
    BY <2>2, <2>5 DEF Conns
  <2> HIDE DEF c
  <2>7. conns \in Seq(Conns)
    BY DEF ReplyInv, McpTypeOK
  <2>8. /\ conns' \in Seq(Conns) /\ Len(conns') = Len(conns)
        /\ \A j \in 1 .. Len(conns) : conns'[j] = IF j = k THEN c ELSE conns[j]
    BY <2>4, <2>6, <2>7, ExceptSeq
  <2>9. AskedWasSent'
    BY <2>2, <2>5, <2>6, <2>8, ConnTypes DEF AskedWasSent
  <2>10. ASSUME NEW g \in Goroutines
         PROVE  /\ task'[g] \in Tasks
                /\ task'[g].at = task[g].at /\ task'[g].conn = task[g].conn
                /\ task'[g].for = task[g].for /\ task'[g].todo = task[g].todo
                /\ task'[g].server = task[g].server /\ task'[g].id = task[g].id
                /\ task'[g].reply = IF task[g].conn = k /\ task[g].id = id /\ \E p \in who : p.of = g
                                    THEN id ELSE task[g].reply
    <3>1. task[g] \in Tasks
      BY TaskTypes
    <3>2. task'[g] = IF task[g].conn = k /\ task[g].id = id /\ \E p \in who : p.of = g
                     THEN [task[g] EXCEPT !.reply = id] ELSE task[g]
      BY <2>1
    <3> HIDE DEF who
    <3>3. QED
      BY <3>1, <3>2, <2>3 DEF Tasks
  <2>11. McpTypeOK'
    <3>1. task' \in [Goroutines -> Tasks]
      BY <2>1, <2>10
    <3>2. QED
      BY <3>1, <2>8, <1>1 DEF McpTypeOK, ReplyInv
  <2>12. HasConn' /\ ListsFirst' /\ OpensAServer'
    BY <2>8, <2>10, TaskTypes DEF HasConn, ListsFirst, OpensAServer
  <2>13. ASSUME NEW g \in Goroutines
         PROVE  Waits(g)'
    <3>1. CASE task[g].at \notin {"post", "posted", "wait"}
      BY <3>1, <2>10 DEF Waits
    <3>2. CASE task[g].at \in {"post", "posted", "wait"}
      <4> DEFINE j == task[g].conn
                 i == task[g].id
      <4>1. j \in 1 .. Len(conns) /\ i \in 1 .. conns[j].sent
            /\ (task[g].reply = i \/ ([id |-> i, of |-> g] \in conns[j].pending /\ i \notin conns[j].answered))
        BY <3>2, TaskTypes DEF Waits, Conn
      <4>2. CASE j # k
        BY <4>1, <4>2, <3>2, <2>8, <2>10 DEF Waits, Conn
      <4>3. CASE j = k
        <5>1. conns'[j] = c /\ c.sent = conns[k].sent
          BY <4>3, <2>6, <2>8
        <5>2. CASE i = id
          <6>1. task[g].reply = i \/ \E p \in who : p.of = g
            BY <4>1, <4>3, <5>2
          <6>2. task'[g].reply = i
            BY <6>1, <5>2, <4>3, <2>10
          <6>3. QED
            BY <6>2, <5>1, <4>1, <4>3, <2>10 DEF Waits, Conn
        <5>3. CASE i # id
          <6>1. task'[g].reply = task[g].reply
            BY <5>3, <2>10
          <6>2. [id |-> i, of |-> g] \in conns[k].pending => [id |-> i, of |-> g] \in q
            BY <5>3 DEF q
          <6>3. i \notin conns[k].answered => i \notin a
            BY <5>3 DEF a
          <6>4. QED
            BY <6>1, <6>2, <6>3, <5>1, <4>1, <4>3, <2>6, <2>10 DEF Waits, Conn
        <5>4. QED
          BY <5>2, <5>3
      <4>4. QED
        BY <4>2, <4>3
    <3>3. QED
      BY <3>1, <3>2
  <2>14. QED
    BY <1>1, <2>8, <2>9, <2>11, <2>12, <2>13 DEF ReplyInv, ReplyOrPending
<1>4. Len(conns') = Len(conns)
  <2>1. CASE conns' = conns
    BY <2>1
  <2>2. QED
    BY <2>1 DEF ServerAnswers, ReplyInv, McpTypeOK
<1>5. QED
  BY <1>1, <1>2, <1>3, <1>4

-----------------------------------------------------------------------------
\* At the start nobody waits.
LEMMA ReplyInit == ClientInit => ReplyInv
<1> SUFFICES ASSUME ClientInit PROVE ReplyInv
  OBVIOUS
<1>1. conns = <<>> /\ conns \in Seq(Conns) /\ Len(conns) = 0
  BY DEF ClientInit
<1> DEFINE n == [Rest EXCEPT !.at = "boot", !.todo = Configured]
<1>2. n \in Tasks /\ n.at = "boot" /\ n.conn = 0 /\ n.for = "none"
  BY RestIsATask, ClientAssumption DEF Tasks, Places
<1> HIDE DEF n
<1>3. task = [g \in Goroutines |-> IF g = Boot THEN n ELSE Rest]
  BY DEF ClientInit, n
<1>4. \A g \in Goroutines : task[g] \in Tasks /\ task[g].at \in {"boot", "idle"}
                            /\ task[g].conn = 0 /\ task[g].for = "none"
  BY <1>2, <1>3, RestIsATask
<1>5. task \in [Goroutines -> Tasks]
  BY <1>3, <1>4
<1>6. McpTypeOK
  BY <1>1, <1>5 DEF McpTypeOK, ClientInit
<1>7. QED
  BY <1>1, <1>4, <1>6 DEF ReplyInv, AskedWasSent, HasConn, ListsFirst, OpensAServer, ReplyOrPending, Waits

\* The invariant of the replies is inductive.
LEMMA ReplyStep == ReplyInv /\ [ClientNext]_clientVars => ReplyInv'
<1> SUFFICES ASSUME ReplyInv, [ClientNext]_clientVars PROVE ReplyInv'
  OBVIOUS
<1>1. CASE UNCHANGED clientVars
  BY <1>1 DEF clientVars, ReplyInv, McpTypeOK, AskedWasSent, HasConn, ListsFirst, OpensAServer,
     ReplyOrPending, Waits, Conn
<1>2. CASE \E g \in Goroutines, s \in Servers : Connect(g, s) \/ Disconnect(g, s)
  BY <1>2, ConnectKeeps, DisconnectKeeps
<1>3. CASE \E g \in Goroutines :
          \/ Open(g) \/ RegisterRequest(g) \/ PostArrives(g) \/ PostReturns(g) \/ Fail(g)
          \/ TakeReply(g) \/ Store(g) \/ CloseTransport(g) \/ Delete(g) \/ Close(g)
  BY <1>3, OpenKeeps, RegisterRequestKeeps, PostArrivesKeeps, PostReturnsKeeps, FailKeeps,
     TakeReplyKeeps, StoreKeeps, CloseTransportKeeps, DeleteKeeps, CloseKeeps
<1>4. CASE \E g \in Goroutines, t \in Tools : ExecuteTool(g, t)
  BY <1>4, ExecuteToolKeeps
<1>5. CASE \E k \in DOMAIN conns :
              \E id \in conns[k].asked, lines \in Framings : ServerAnswers(k, id, lines)
  <2>1. DOMAIN conns = 1 .. Len(conns)
    BY DEF ReplyInv, McpTypeOK
  <2>2. QED
    BY <1>5, <2>1, ServerAnswersKeeps
<1>6. CASE ListServers \/ RegisterServer \/ RegisterListed \/ Booted
  BY <1>6, ListServersKeeps, RegisterServerKeeps, RegisterListedKeeps, BootedKeeps
<1>7. QED
  BY <1>1, <1>2, <1>3, <1>4, <1>5, <1>6 DEF ClientNext

\* Whoever waits has the reply or is still in pending, for any servers, managers and
\* users.
THEOREM McpReplies == ClientSpec => []ReplyInv
  BY ReplyInit, ReplyStep, PTL DEF ClientSpec

\* The client, its connections and its goroutines keep their types.
THEOREM McpTypes == ClientSpec => []ClientTypeOK
<1>1. ReplyInv => ClientTypeOK
  <2> SUFFICES ASSUME ReplyInv PROVE ClientTypeOK
    OBVIOUS
  <2>1. DOMAIN conns = 1 .. Len(conns) /\ Len(conns) \in Nat
    BY DEF ReplyInv, McpTypeOK
  <2>2. \A k \in DOMAIN conns : conns[k] \in Conns /\ conns[k].asked \subseteq 1 .. conns[k].sent
    BY <2>1, ConnTypes
  <2>3. \A g \in Goroutines : task[g].conn \in 0 .. Len(conns) /\ task[g].todo \in Seq(Servers)
    <3>1. \A g \in Goroutines : task[g] \in Tasks /\ task[g].conn \in 0 .. Len(conns)
      BY <2>1, TaskTypes
    <3>2. QED
      BY <3>1 DEF Tasks
  <2>4. QED
    BY <2>2, <2>3 DEF ClientTypeOK, ReplyInv, McpTypeOK, Conns
<1>2. QED
  BY <1>1, McpReplies, PTL

\* Nobody waits for an answer that the reader of the stream has already seen: the request
\* is registered before its POST (sse.go:161).
THEOREM McpNoAnswerLost == ClientSpec => []NoAnswerLost
<1>1. ReplyInv => NoAnswerLost
  BY DEF ReplyInv, ReplyOrPending, Waits, NoAnswerLost
<1>2. QED
  BY <1>1, McpReplies, PTL

\* OpenIsReachable, where there is one manager.
Reachable ==
    \A k \in 1 .. Len(conns) :
        conns[k].closed \/ servers[conns[k].name] = k \/ task[Boot].conn = k

MInv == UsersOnlyCall /\ ManagerAt /\ EntriesTrue /\ RegistryTrue /\ Reachable /\ BridgeGoesOn

\* The connections are the same as far as the manager is concerned.
Alike ==
    /\ Len(conns') = Len(conns)
    /\ \A k \in 1 .. Len(conns) :
          /\ conns'[k].name = conns[k].name /\ conns'[k].closed = conns[k].closed
          /\ conns'[k].listed = conns[k].listed /\ conns'[k].boot = conns[k].boot

\* What the proofs for one manager use of the types.
LEMMA MFacts ==
  ASSUME ReplyInv, MInv
  PROVE  /\ Boot \in Goroutines /\ task \in [Goroutines -> Tasks] /\ task[Boot] \in Tasks
         /\ servers \in [Servers -> 0 .. Len(conns)] /\ conns \in Seq(Conns) /\ Len(conns) \in Nat
         /\ \A k \in 1 .. Len(conns) : conns[k] \in Conns /\ conns[k].name \in Servers
         /\ IF task[Boot].at \in {"idle", "boot", "open", "register"} THEN task[Boot].conn = 0
            ELSE task[Boot].conn \in 1 .. Len(conns)
<1>1. \A k \in 1 .. Len(conns) : conns[k] \in Conns /\ conns[k].name \in Servers
  BY ConnTypes DEF Conns
<1>2. QED
  BY <1>1, BootIsOne, TaskTypes DEF ReplyInv, McpTypeOK

\* A step that is nothing to the manager but a request's way.
LEMMA AlikeKeeps ==
  ASSUME ReplyInv, MInv, Alike, UNCHANGED <<servers, registry>>, UsersOnlyCall',
         \/ task'[Boot].at = task[Boot].at
         \/ Asking(task[Boot]) /\ Asking(task'[Boot]),
         task'[Boot].for = task[Boot].for, task'[Boot].server = task[Boot].server,
         task'[Boot].conn = task[Boot].conn, task'[Boot].todo = task[Boot].todo
  PROVE  MInv'
<1> DEFINE b == task[Boot]
           n == task'[Boot]
<1>1. /\ servers \in [Servers -> 0 .. Len(conns)] /\ Len(conns) \in Nat
      /\ \A k \in 1 .. Len(conns) : conns[k].name \in Servers
      /\ IF b.at \in {"idle", "boot", "open", "register"} THEN b.conn = 0 ELSE b.conn \in 1 .. Len(conns)
  BY MFacts
<1>2. ManagerAt'
  <2>1. CASE Between(b)
    BY <2>1 DEF Between, ManagerAt, Asking
  <2>2. CASE Opening(b)
    BY <2>2 DEF Opening, ManagerAt, Asking
  <2>3. CASE Connecting(b)
    <3>1. b.conn \in 1 .. Len(conns)
      BY <2>3, <1>1 DEF Connecting, Asking
    <3>2. Connecting(task[Boot])'
      BY <2>3, <3>1 DEF Connecting, Asking, Alike
    <3>3. QED
      BY <3>2 DEF ManagerAt
  <2>4. CASE Listing(b)
    <3>1. b.conn \in 1 .. Len(conns)
      BY <2>4, <1>1 DEF Listing, Asking
    <3>2. Listing(task[Boot])'
      BY <2>4, <3>1 DEF Listing, Asking, Alike, Holds
    <3>3. QED
      BY <3>2 DEF ManagerAt
  <2>5. CASE Calling(b)
    <3>1. b.conn \in 1 .. Len(conns)
      BY <2>5, <1>1 DEF Calling, Asking
    <3>2. Calling(task[Boot])'
      BY <2>5, <3>1 DEF Calling, Asking, Alike, Holds
    <3>3. QED
      BY <3>2 DEF ManagerAt
  <2>6. CASE Leaving(b)
    <3>1. b.conn \in 1 .. Len(conns)
      BY <2>6, <1>1 DEF Leaving
    <3>2. Leaving(task[Boot])'
      BY <2>6, <3>1 DEF Leaving, Asking, Alike, Holds
    <3>3. QED
      BY <3>2 DEF ManagerAt
  <2>7. QED
    BY <2>1, <2>2, <2>3, <2>4, <2>5, <2>6 DEF MInv, ManagerAt
<1>3. EntriesTrue'
  BY <1>1 DEF EntriesTrue, MInv, Alike
<1>4. RegistryTrue' /\ Reachable'
  BY <1>1 DEF RegistryTrue, Reachable, MInv, Alike
<1>5. Registering' => Registering
  BY DEF Registering, Asking
<1>6. BridgeGoesOn'
  <2>1. Registering = Registering'
    BY DEF Registering, Asking
  <2>2. ASSUME NEW k \in 1 .. Len(conns)
        PROVE  InRegistry(k)' = InRegistry(k)
    BY DEF InRegistry, Alike
  <2>3. QED
    BY <2>1, <2>2 DEF BridgeGoesOn, MInv, Alike
<1>7. QED
  BY <1>2, <1>3, <1>4, <1>6 DEF MInv

\* Only the manager's task changes.
LEMMA BootOnly ==
  ASSUME ReplyInv, MInv, NEW n, task' = [task EXCEPT ![Boot] = n]
  PROVE  UsersOnlyCall' /\ task'[Boot] = n
BY MFacts DEF UsersOnlyCall, MInv

\* A user's task stays one that calls.
LEMMA UserOnly ==
  ASSUME ReplyInv, MInv, NEW g \in Goroutines \ {Boot}, NEW n, task' = [task EXCEPT ![g] = n],
         n.at = "idle" \/ (n.for = "call" /\ n.at \in {"send", "post", "posted", "wait"}),
         Alike, UNCHANGED <<servers, registry>>
  PROVE  MInv'
<1>1. UsersOnlyCall' /\ task'[Boot] = task[Boot]
  BY MFacts DEF UsersOnlyCall, MInv
<1>2. QED
  BY <1>1, AlikeKeeps

\* One connection replaced by one that is alike.
LEMMA AlikeConn ==
  ASSUME ReplyInv, NEW k \in 1 .. Len(conns), NEW c, conns' = [conns EXCEPT ![k] = c],
         c.name = conns[k].name, c.closed = conns[k].closed, c.listed = conns[k].listed,
         c.boot = conns[k].boot
  PROVE  Alike
BY DEF Alike, ReplyInv, McpTypeOK

\* Connections that stay the same are alike.
LEMMA SameAlike == ASSUME conns' = conns PROVE Alike
BY DEF Alike

-----------------------------------------------------------------------------
\* The end of a task of the manager, where it holds its connection or has closed it.
LEMMA EndsReachable ==
  ASSUME ReplyInv, MInv, Ends(Boot), conns' \in Seq(Conns), Len(conns') = Len(conns),
         UNCHANGED <<servers, registry>>, ~Registering,
         task[Boot].conn \in 1 .. Len(conns) =>
            \/ servers[conns[task[Boot].conn].name] = task[Boot].conn
            \/ conns'[task[Boot].conn].closed,
         \A k \in 1 .. Len(conns) :
            /\ conns'[k].name = conns[k].name /\ conns'[k].listed = conns[k].listed
            /\ conns'[k].boot = conns[k].boot /\ (conns[k].closed => conns'[k].closed)
  PROVE  MInv'
<1> DEFINE b == task[Boot]
<1>1. /\ servers \in [Servers -> 0 .. Len(conns)] /\ Len(conns) \in Nat /\ Boot \in Goroutines
      /\ \A k \in 1 .. Len(conns) : conns[k].name \in Servers
  BY MFacts
<1>2. task' = [task EXCEPT ![Boot] = Ended(Boot)]
  BY DEF Ends
<1>3. task'[Boot] = Ended(Boot) /\ UsersOnlyCall'
  BY <1>2, BootOnly
<1>4. Ended(Boot).conn = 0 /\ Ended(Boot).for = "none" /\ Ended(Boot).at \in {"boot", "idle"}
  BY <1>1, EndedIsATask DEF Registering
<1>5. ManagerAt'
  BY <1>3, <1>4 DEF ManagerAt, Between
<1>6. EntriesTrue' /\ RegistryTrue'
  BY <1>1 DEF EntriesTrue, RegistryTrue, MInv
<1>7. Reachable'
  <2>1. ASSUME NEW k \in 1 .. Len(conns)
        PROVE  conns'[k].closed \/ servers[conns[k].name] = k
    <3>1. conns[k].closed \/ servers[conns[k].name] = k \/ b.conn = k
      BY DEF Reachable, MInv
    <3>2. QED
      BY <3>1
  <2>2. QED
    BY <2>1 DEF Reachable
<1>8. BridgeGoesOn'
  <2>1. ~Registering'
    BY <1>3, <1>4 DEF Registering
  <2>2. \A k \in 1 .. Len(conns) : conns[k].boot => InRegistry(k)
    BY DEF BridgeGoesOn, MInv
  <2>3. QED
    BY <2>1, <2>2 DEF BridgeGoesOn, InRegistry
<1>9. QED
  BY <1>3, <1>5, <1>6, <1>7, <1>8 DEF MInv

\* The turn of the next server: this one's tools are in the registry, or not known.
LEMMA EndsListing ==
  ASSUME ReplyInv, MInv, Ends(Boot), task[Boot].for = "list", Holds(task[Boot]),
         task[Boot].todo # <<>>, task[Boot].server = Head(task[Boot].todo),
         NEW i \in 1 .. Len(conns), task[Boot].conn = i,
         UNCHANGED <<servers, conns>>,
         RegistryTrue', \A t \in Tools : registry[t] # Nobody => registry'[t] = registry[t],
         InRegistry(i)'
  PROVE  MInv'
<1> DEFINE b == task[Boot]
<1>1. /\ servers \in [Servers -> 0 .. Len(conns)] /\ Len(conns) \in Nat /\ Boot \in Goroutines
      /\ b.todo \in Seq(Servers)
      /\ \A k \in 1 .. Len(conns) : conns[k].name \in Servers
  BY MFacts DEF Tasks
<1>2. task' = [task EXCEPT ![Boot] = Ended(Boot)]
  BY DEF Ends
<1>3. task'[Boot] = Ended(Boot) /\ UsersOnlyCall'
  BY <1>2, BootOnly
<1>4. /\ Ended(Boot).conn = 0 /\ Ended(Boot).for = "none" /\ Ended(Boot).at = "register"
      /\ Ended(Boot).todo = Tail(b.todo)
  BY <1>1, EndedIsATask
<1>5. ManagerAt'
  BY <1>3, <1>4 DEF ManagerAt, Between
<1>6. EntriesTrue'
  BY DEF EntriesTrue, MInv
<1>7. Reachable'
  <2>1. ASSUME NEW k \in 1 .. Len(conns)
        PROVE  conns[k].closed \/ servers[conns[k].name] = k
    <3>1. conns[k].closed \/ servers[conns[k].name] = k \/ b.conn = k
      BY DEF Reachable, MInv
    <3>2. QED
      BY <3>1 DEF Holds
  <2>2. QED
    BY <2>1 DEF Reachable
<1>8. BridgeGoesOn'
  <2>1. Registering
    BY DEF Registering
  <2>2. ASSUME NEW k \in 1 .. Len(conns), conns[k].boot
        PROVE  servers[conns[k].name] = k
               /\ (InRegistry(k)' \/ conns[k].name \in Range(Tail(b.todo)))
    <3>1. servers[conns[k].name] = k /\ (InRegistry(k) \/ conns[k].name \in Range(b.todo))
      BY <2>1, <2>2 DEF BridgeGoesOn, MInv
    <3>2. InRegistry(k) => InRegistry(k)'
      BY <1>1, ClientAssumption DEF InRegistry
    <3>3. conns[k].name = Head(b.todo) => k = i
      BY <3>1 DEF Holds
    <3>4. conns[k].name \in Range(b.todo) =>
             conns[k].name = Head(b.todo) \/ conns[k].name \in Range(Tail(b.todo))
      BY <1>1, TailOf
    <3>5. QED
      BY <3>1, <3>2, <3>3, <3>4
  <2>3. Registering' /\ task'[Boot].todo = Tail(b.todo)
    BY <1>3, <1>4 DEF Registering
  <2>4. QED
    BY <2>2, <2>3 DEF BridgeGoesOn, InRegistry
<1>9. QED
  BY <1>3, <1>5, <1>6, <1>7, <1>8 DEF MInv

-----------------------------------------------------------------------------
\* Only the manager connects, and only to a server without an entry.
LEMMA ConnectM ==
  ASSUME ReplyInv, MInv, OneManager, NEW g \in Goroutines, NEW s \in Servers, Connect(g, s)
  PROVE  MInv'
<1> DEFINE b == task[Boot]
           n == IF servers[s] = 0 THEN [b EXCEPT !.at = "open", !.for = "connect", !.server = s]
                ELSE IF At(Boot, "boot") THEN [b EXCEPT !.todo = Tail(b.todo)] ELSE b
<1>1. /\ g = Boot /\ task' = [task EXCEPT ![Boot] = n] /\ UNCHANGED <<servers, conns, registry>>
      /\ b.at \in {"idle", "boot"} /\ b \in Tasks /\ b.conn = 0
  BY MFacts DEF Connect, At, OneManager
<1>2. b.for = "none"
  BY <1>1 DEF MInv, ManagerAt, Between, Opening, Connecting, Listing, Calling, Leaving, Asking
<1>3. \/ n.at \in {"idle", "boot"} /\ n.for = "none" /\ n.conn = 0
      \/ n.at = "open" /\ n.for = "connect" /\ n.conn = 0 /\ n.server = s /\ servers[s] = 0
  <2>1. CASE servers[s] = 0
    BY <2>1, <1>1 DEF Tasks
  <2>2. CASE servers[s] # 0 /\ At(Boot, "boot")
    <3> DEFINE r == Tail(b.todo)
    <3>1. n = [b EXCEPT !.todo = r]
      BY <2>2
    <3> HIDE DEF r, n
    <3>2. QED
      BY <3>1, <1>1, <1>2 DEF Tasks
  <2>3. CASE servers[s] # 0 /\ ~At(Boot, "boot")
    BY <2>3, <1>1, <1>2
  <2>4. QED
    BY <2>1, <2>2, <2>3
<1> HIDE DEF n
<1>4. task'[Boot] = n /\ UsersOnlyCall'
  BY <1>1, BootOnly
<1>5. ManagerAt'
  BY <1>1, <1>3, <1>4 DEF ManagerAt, Between, Opening
<1>6. ~Registering /\ ~Registering'
  BY <1>1, <1>2, <1>3, <1>4 DEF Registering
<1>7. EntriesTrue' /\ RegistryTrue'
  BY <1>1 DEF EntriesTrue, RegistryTrue, MInv
<1>8. Reachable'
  BY <1>1, <1>3, <1>4 DEF Reachable, MInv
<1>9. BridgeGoesOn'
  BY <1>1, <1>6 DEF BridgeGoesOn, InRegistry, MInv
<1>10. QED
  BY <1>4, <1>5, <1>7, <1>8, <1>9 DEF MInv

\* A transport that was just opened is in the manager's hands.
LEMMA OpenM ==
  ASSUME ReplyInv, MInv, NEW g \in Goroutines, Open(g)
  PROVE  MInv'
<1> DEFINE b == task[Boot]
           c == NewConn(b.server)
<1>1. g = Boot /\ b.at = "open" /\ b.conn = 0 /\ UNCHANGED <<servers, registry>> /\ b \in Tasks
  BY MFacts DEF Open, At, MInv, UsersOnlyCall
<1>2. Opening(b)
  BY <1>1 DEF MInv, ManagerAt, Between, Connecting, Listing, Calling, Leaving, Asking
<1>3. ~Registering
  BY <1>1, <1>2 DEF Registering, Opening
<1>4. CASE Ends(g) /\ UNCHANGED conns
  BY <1>1, <1>3, <1>4, MFacts, EndsReachable
<1>5. CASE ~(Ends(g) /\ UNCHANGED conns)
  <2>1. conns' = Append(conns, c) /\ task' = [task EXCEPT ![Boot].at = "send", ![Boot].conn = Len(conns')]
    BY <1>1, <1>5 DEF Open
  <2>2. c.name = b.server /\ ~c.boot
    BY DEF NewConn
  <2>3. /\ Len(conns') = Len(conns) + 1 /\ Len(conns) \in Nat
        /\ \A k \in 1 .. Len(conns) : conns'[k] = conns[k]
        /\ conns'[Len(conns) + 1] = c
        /\ \A k \in 1 .. Len(conns') : k \in 1 .. Len(conns) \/ k = Len(conns) + 1
    <3>1. conns \in Seq(Conns) /\ b.server \in Servers
      BY MFacts, <1>2 DEF Opening
    <3>2. c \in Conns
      BY <3>1, ClientAssumption DEF NewConn, Conns
    <3>3. QED
      BY <3>1, <3>2, <2>1, AppendProperties
  <2> HIDE DEF c
  <2> DEFINE m == Len(conns')
             n == [b EXCEPT !.at = "send", !.conn = m]
  <2>m. m \in Nat /\ task' = [task EXCEPT ![Boot].at = "send", ![Boot].conn = m]
        /\ m = Len(conns) + 1
    BY <2>1, <2>3
  <2> HIDE DEF m
  <2>t. task' = [task EXCEPT ![Boot] = n]
    BY <2>m, MFacts
  <2>n. n.at = "send" /\ n.conn = m /\ n.for = "connect" /\ n.server = b.server
    BY <2>m, <1>1, <1>2 DEF Tasks, Opening
  <2> HIDE DEF n
  <2>4. task'[Boot] = n /\ UsersOnlyCall'
    BY <2>t, BootOnly
  <2>5. Connecting(task[Boot])'
    BY <2>n, <2>4, <2>m, <2>2, <2>3, <1>1, <1>2 DEF Connecting, Asking, Opening
  <2>6. ManagerAt'
    BY <2>4, <2>5 DEF ManagerAt
  <2>7. EntriesTrue' /\ RegistryTrue'
    <3>1. \A s \in Servers : servers[s] # 0 => servers[s] \in 1 .. Len(conns)
      BY MFacts
    <3>2. QED
      BY <3>1, <2>3, <1>1 DEF EntriesTrue, RegistryTrue, MInv
  <2>8. Reachable'
    BY <2>3, <2>4, <2>n, <2>m, <1>1 DEF Reachable, MInv
  <2>9. ~Registering'
    BY <2>4, <2>n DEF Registering
  <2>10. BridgeGoesOn'
    BY <2>2, <2>3, <2>9, <1>1, <1>3 DEF BridgeGoesOn, InRegistry, MInv
  <2>11. QED
    BY <2>4, <2>6, <2>7, <2>8, <2>10 DEF MInv
<1>6. QED
  BY <1>4, <1>5

\* Asking, the manager connects, lists or calls.
LEMMA WhoAsks ==
  ASSUME MInv, Asking(task[Boot])
  PROVE  Connecting(task[Boot]) \/ Listing(task[Boot]) \/ Calling(task[Boot])
BY DEF MInv, ManagerAt, Between, Opening, Leaving, Asking

\* When a send fails the manager closes what it was opening; a user has opened nothing.
LEMMA SendFailsM ==
  ASSUME ReplyInv, MInv, NEW g \in Goroutines, task[g].at \in {"send", "post", "posted", "wait"},
         SendFails(g), UNCHANGED <<servers, registry>>
  PROVE  MInv'
<1> DEFINE b == task[Boot]
           k == b.conn
<1>1. CASE g # Boot
  <2>1. task[g].for = "call"
    BY <1>1 DEF MInv, UsersOnlyCall
  <2>2. conns' = conns /\ task' = [task EXCEPT ![g] = Ended(g)]
    BY <2>1 DEF SendFails, Ends
  <2>3. Ended(g).at = "idle"
    BY <2>1, EndedIsATask
  <2>4. QED
    BY <1>1, <2>2, <2>3, SameAlike, UserOnly
<1>2. CASE g = Boot
  <2>0. /\ Asking(b) /\ k \in 1 .. Len(conns) /\ conns \in Seq(Conns)
        /\ Ends(Boot) /\ conns' = (IF b.for = "connect" THEN Closed(Boot) ELSE conns)
    BY <1>2, MFacts DEF Asking, SendFails
  <2>1. CASE Connecting(b)
    <3>1. ~Registering
      BY <2>0, <2>1 DEF Registering, Connecting, Asking
    <3>2. conns' = Closed(Boot)
      BY <2>0, <2>1 DEF Connecting
    <3>3. Grows /\ Len(conns') = Len(conns) /\ conns'[k].closed
      BY <2>0, <3>2, BootIsOne, ClosedGrows
    <3>4. conns' \in Seq(Conns)
      BY <3>3 DEF Grows
    <3>5. \A j \in 1 .. Len(conns) :
            /\ conns'[j].name = conns[j].name /\ conns'[j].listed = conns[j].listed
            /\ conns'[j].boot = conns[j].boot /\ (conns[j].closed => conns'[j].closed)
      BY <3>2, <2>0, MFacts, ClosedAlike
    <3>6. QED
      BY <2>0, <3>1, <3>3, <3>4, <3>5, EndsReachable
  <2>2. CASE Listing(b)
    <3>1. conns' = conns /\ ~conns[k].listed
      BY <2>0, <2>2 DEF Listing
    <3>2. PICK i \in 1 .. Len(conns) : k = i
      BY <2>0
    <3>3. InRegistry(i)'
      BY <3>1, <3>2 DEF InRegistry
    <3>4. RegistryTrue' /\ \A t \in Tools : registry[t] # Nobody => registry'[t] = registry[t]
      BY DEF RegistryTrue, MInv
    <3>5. QED
      BY <2>0, <2>2, <3>1, <3>2, <3>3, <3>4, EndsListing DEF Listing
  <2>3. CASE Calling(b)
    <3>1. conns' = conns /\ ~Registering /\ servers[conns[k].name] = k
      BY <2>0, <2>3 DEF Calling, Holds, Registering, Asking
    <3>2. QED
      BY <2>0, <3>1, EndsReachable
  <2>4. QED
    BY <2>0, <2>1, <2>2, <2>3, WhoAsks
<1>3. QED
  BY <1>1, <1>2

\* The next place on a request's way.
LEMMA AskingStep ==
  ASSUME ReplyInv, MInv, NEW g \in Goroutines, Asking(task[g]), NEW n, Asking(n),
         task' = [task EXCEPT ![g] = n],
         n.for = task[g].for, n.server = task[g].server, n.conn = task[g].conn, n.todo = task[g].todo,
         Alike, UNCHANGED <<servers, registry>>
  PROVE  MInv'
<1>1. CASE g # Boot
  <2>1. n.for = "call"
    BY <1>1 DEF MInv, UsersOnlyCall, Asking
  <2>2. QED
    BY <1>1, <2>1, UserOnly DEF Asking
<1>2. CASE g = Boot
  <2>1. UsersOnlyCall' /\ task'[Boot] = n
    BY <1>2, BootOnly
  <2>2. QED
    BY <1>2, <2>1, AlikeKeeps
<1>3. QED
  BY <1>1, <1>2

\* A request changes nothing the manager's invariant speaks of.
LEMMA RegisterRequestM ==
  ASSUME ReplyInv, MInv, NEW g \in Goroutines, RegisterRequest(g)
  PROVE  MInv'
<1> DEFINE b == task[g]
           k == b.conn
           i == conns[k].sent + 1
           q == conns[k].pending \union {[id |-> i, of |-> g]}
           c == [conns[k] EXCEPT !.sent = i, !.pending = q]
           n == [b EXCEPT !.at = "post", !.id = i]
<1>1. b \in Tasks /\ k \in 1 .. Len(conns) /\ b.at = "send" /\ UNCHANGED <<servers, registry>>
  BY TaskTypes DEF RegisterRequest, At
<1>2. CASE SendFails(g)
  BY <1>1, <1>2, SendFailsM
<1>3. CASE ~SendFails(g)
  <2>1. /\ conns' = [conns EXCEPT ![k] = Entered(g, "send", [conns[k] EXCEPT !.sent = conns[k].sent + 1])]
        /\ task' = [task EXCEPT ![g].at = "post", ![g].id = conns[k].sent + 1]
    BY <1>3 DEF RegisterRequest, Conn
  <2>2. task' = [task EXCEPT ![g] = n]
    BY <2>1 DEF ReplyInv, McpTypeOK
  <2>3. conns[k] \in Conns
    BY <1>1, ConnTypes
  <2>4. Entered(g, "send", [conns[k] EXCEPT !.sent = conns[k].sent + 1]) = c
    BY <2>3 DEF Entered, PendingFrom, Conns
  <2>5. conns' = [conns EXCEPT ![k] = c]
    BY <2>1, <2>4
  <2> HIDE DEF i, q
  <2>6. /\ c.name = conns[k].name /\ c.closed = conns[k].closed
        /\ c.listed = conns[k].listed /\ c.boot = conns[k].boot
    BY <2>3 DEF Conns
  <2>7. n.at = "post" /\ n.for = b.for /\ n.server = b.server /\ n.conn = b.conn /\ n.todo = b.todo
    BY <1>1 DEF Tasks
  <2> HIDE DEF c, n
  <2>8. Alike
    BY <1>1, <2>5, <2>6, AlikeConn
  <2>9. Asking(task[g]) /\ Asking(n)
    BY <1>1, <2>7 DEF Asking
  <2>10. QED
    BY <1>1, <2>2, <2>7, <2>8, <2>9, AskingStep
<1>4. QED
  BY <1>2, <1>3

\* Nor does its arrival.
LEMMA PostArrivesM ==
  ASSUME ReplyInv, MInv, NEW g \in Goroutines, PostArrives(g)
  PROVE  MInv'
<1> DEFINE b == task[g]
           k == b.conn
           q == conns[k].asked \union {b.id}
           c == [conns[k] EXCEPT !.asked = q]
           n == [b EXCEPT !.at = "posted"]
<1>1. b \in Tasks /\ k \in 1 .. Len(conns) /\ b.at = "post" /\ UNCHANGED <<servers, registry>>
  BY TaskTypes DEF PostArrives, At
<1>2. conns' = [conns EXCEPT ![k] = c] /\ task' = [task EXCEPT ![g] = n]
  BY DEF PostArrives, Goes, ReplyInv, McpTypeOK
<1>3. conns[k] \in Conns
  BY <1>1, ConnTypes
<1> HIDE DEF q
<1>4. /\ c.name = conns[k].name /\ c.closed = conns[k].closed
      /\ c.listed = conns[k].listed /\ c.boot = conns[k].boot
  BY <1>3 DEF Conns
<1>5. n.at = "posted" /\ n.for = b.for /\ n.server = b.server /\ n.conn = b.conn /\ n.todo = b.todo
  BY <1>1 DEF Tasks
<1> HIDE DEF c, n
<1>6. Alike
  BY <1>1, <1>2, <1>4, AlikeConn
<1>7. Asking(task[g]) /\ Asking(n)
  BY <1>1, <1>5 DEF Asking
<1>8. QED
  BY <1>1, <1>2, <1>5, <1>6, <1>7, AskingStep

\* Nor the return of its POST.
LEMMA PostReturnsM ==
  ASSUME ReplyInv, MInv, NEW g \in Goroutines, PostReturns(g)
  PROVE  MInv'
<1> DEFINE b == task[g]
           n == [b EXCEPT !.at = "wait"]
<1>1. b \in Tasks /\ b.at = "posted" /\ UNCHANGED <<servers, registry>>
  BY TaskTypes DEF PostReturns, At
<1>2. task' = [task EXCEPT ![g] = n]
  BY DEF PostReturns, Goes, ReplyInv, McpTypeOK
<1>3. n.at = "wait" /\ n.for = b.for /\ n.server = b.server /\ n.conn = b.conn /\ n.todo = b.todo
  BY <1>1 DEF Tasks
<1> HIDE DEF n
<1>4. Alike
  BY PostReturnsKeeps, SameAlike
<1>5. Asking(task[g]) /\ Asking(n)
  BY <1>1, <1>3 DEF Asking
<1>6. QED
  BY <1>1, <1>2, <1>3, <1>4, <1>5, AskingStep

\* A handshake that fails closes its transport, a listing that fails leaves its server out.
LEMMA FailM ==
  ASSUME ReplyInv, MInv, NEW g \in Goroutines, Fail(g)
  PROVE  MInv'
BY SendFailsM DEF Fail

\* What the client learns of a server's tools.
LEMMA ListedIs ==
  ASSUME ReplyInv, NEW k \in 1 .. Len(conns), NEW v \in BOOLEAN,
         conns' = [conns EXCEPT ![k].listed = v]
  PROVE  /\ Len(conns') = Len(conns)
         /\ \A j \in 1 .. Len(conns) :
               /\ conns'[j].name = conns[j].name /\ conns'[j].closed = conns[j].closed
               /\ conns'[j].boot = conns[j].boot
               /\ j # k => conns'[j].listed = conns[j].listed
<1> DEFINE c == [conns[k] EXCEPT !.listed = v]
<1>1. conns[k] \in Conns /\ conns \in Seq(Conns)
  BY ConnTypes DEF ReplyInv, McpTypeOK
<1>2. conns' = [conns EXCEPT ![k] = c]
  BY <1>1
<1>3. c.name = conns[k].name /\ c.closed = conns[k].closed /\ c.boot = conns[k].boot
  BY <1>1 DEF Conns
<1> HIDE DEF c
<1>4. \A j \in 1 .. Len(conns) : conns'[j] = IF j = k THEN c ELSE conns[j]
  BY <1>1, <1>2
<1>5. QED
  BY <1>1, <1>2, <1>3, <1>4

\* With the reply the handshake is stored, the list registered, the call over.
LEMMA TakeReplyM ==
  ASSUME ReplyInv, MInv, NEW g \in Goroutines, TakeReply(g)
  PROVE  MInv'
<1> DEFINE b == task[g]
           k == b.conn
           again == [b EXCEPT !.at = "send", !.id = 0, !.reply = 0]
<1>1. /\ b \in Tasks /\ k \in 1 .. Len(conns) /\ b.at = "wait"
      /\ UNCHANGED <<servers, registry>> /\ conns \in Seq(Conns)
  BY TaskTypes DEF TakeReply, At, ReplyInv, McpTypeOK
<1>2. Asking(b) /\ Asking(again) /\ again.at = "send" /\ again.conn = b.conn /\ again.for = b.for
      /\ again.todo = b.todo /\ again.server = b.server
  BY <1>1 DEF Tasks, Asking
<1>3. CASE b.for = "connect" /\ task' = [task EXCEPT ![g] = again] /\ conns' = conns
  <2> HIDE DEF again
  <2>1. QED
    BY <1>1, <1>2, <1>3, SameAlike, AskingStep
<1>4. ASSUME b.for = "connect", NEW v \in BOOLEAN, conns' = [conns EXCEPT ![k].listed = v],
             Goes(g, "store")
      PROVE  MInv'
  <2> DEFINE n == [b EXCEPT !.at = "store"]
  <2>1. g = Boot
    BY <1>4, <1>1 DEF MInv, UsersOnlyCall
  <2>2. task' = [task EXCEPT ![Boot] = n] /\ n.at = "store" /\ n.conn = k /\ n.for = "connect"
        /\ n.server = b.server
    BY <1>1, <1>4, <2>1 DEF Goes, Tasks, ReplyInv, McpTypeOK
  <2> HIDE DEF n
  <2>3. task'[Boot] = n /\ UsersOnlyCall'
    BY <2>2, BootOnly
  <2>4. Connecting(task[Boot])
    BY <1>1, <1>2, <1>4, <2>1, WhoAsks DEF Listing, Calling
  <2>5. /\ Len(conns') = Len(conns)
        /\ \A j \in 1 .. Len(conns) :
               /\ conns'[j].name = conns[j].name /\ conns'[j].closed = conns[j].closed
               /\ conns'[j].boot = conns[j].boot
               /\ j # k => conns'[j].listed = conns[j].listed
    BY <1>1, <1>4, ListedIs
  <2>6. ManagerAt'
    <3>1. Connecting(task[Boot])'
      BY <2>1, <2>2, <2>3, <2>4, <2>5, <1>1 DEF Connecting
    <3>2. QED
      BY <3>1 DEF ManagerAt
  <2>7. EntriesTrue' /\ RegistryTrue'
    BY <1>1, <2>5, MFacts DEF EntriesTrue, RegistryTrue, MInv
  <2>8. Reachable'
    BY <1>1, <2>1, <2>2, <2>3, <2>5 DEF Reachable, MInv
  <2>9. ~Registering /\ ~Registering'
    BY <1>1, <1>4, <2>1, <2>2, <2>3 DEF Registering
  <2>10. BridgeGoesOn'
    <3>1. \A j \in 1 .. Len(conns) : conns'[j].boot => conns[j].boot /\ j # k
      BY <1>1, <2>1, <2>4, <2>5 DEF Connecting
    <3>2. QED
      BY <3>1, <1>1, <2>5, <2>9 DEF BridgeGoesOn, InRegistry, MInv
  <2>11. QED
    BY <2>3, <2>6, <2>7, <2>8, <2>10 DEF MInv
<1>5. ASSUME b.for = "list", NEW v \in BOOLEAN, conns' = [conns EXCEPT ![k].listed = v],
             task' = [task EXCEPT ![g] = [again EXCEPT !.at = "listed"]]
      PROVE  MInv'
  <2> DEFINE n == [again EXCEPT !.at = "listed"]
  <2>1. g = Boot
    BY <1>5, <1>1 DEF MInv, UsersOnlyCall
  <2>2. task' = [task EXCEPT ![Boot] = n] /\ n.at = "listed" /\ n.conn = k /\ n.for = "list"
        /\ n.server = b.server /\ n.todo = b.todo
    BY <1>1, <1>5, <2>1 DEF Tasks
  <2> HIDE DEF n, again
  <2>3. task'[Boot] = n /\ UsersOnlyCall'
    BY <2>2, BootOnly
  <2>4. Listing(task[Boot])
    BY <1>1, <1>2, <1>5, <2>1, WhoAsks DEF Connecting, Calling
  <2>5. /\ Len(conns') = Len(conns)
        /\ \A j \in 1 .. Len(conns) :
               /\ conns'[j].name = conns[j].name /\ conns'[j].closed = conns[j].closed
               /\ conns'[j].boot = conns[j].boot
               /\ j # k => conns'[j].listed = conns[j].listed
    BY <1>1, <1>5, ListedIs
  <2>6. ManagerAt'
    <3>1. Listing(task[Boot])'
      BY <2>1, <2>2, <2>3, <2>4, <2>5, <1>1 DEF Listing, Holds, Asking
    <3>2. QED
      BY <3>1 DEF ManagerAt
  <2>7. EntriesTrue' /\ RegistryTrue'
    BY <1>1, <2>5, MFacts DEF EntriesTrue, RegistryTrue, MInv
  <2>8. Reachable'
    BY <1>1, <2>1, <2>2, <2>3, <2>5 DEF Reachable, MInv
  <2>9. Registering /\ Registering'
    BY <1>5, <2>1, <2>2, <2>3 DEF Registering
  <2>10. BridgeGoesOn'
    <3>1. conns[k].name \in Range(b.todo)
      <4>1. b.todo \in Seq(Servers) /\ b.todo # <<>> /\ conns[k].name = Head(b.todo)
        BY <1>1, <2>1, <2>4 DEF Listing, Holds, Tasks
      <4>2. QED
        BY <4>1, TailOf
    <3>2. \A j \in 1 .. Len(conns) : conns[j].boot =>
             /\ servers[conns[j].name] = j
             /\ InRegistry(j) \/ conns[j].name \in Range(b.todo)
      BY <2>1, <2>9 DEF BridgeGoesOn, MInv
    <3>3. ASSUME NEW j \in 1 .. Len(conns), conns[j].boot
          PROVE  InRegistry(j)' \/ conns[j].name \in Range(b.todo)
      <4>1. CASE j = k
        BY <3>1, <4>1
      <4>2. CASE j # k
        BY <4>2, <3>2, <3>3, <2>5, <1>1 DEF InRegistry
      <4>3. QED
        BY <4>1, <4>2
    <3>4. QED
      BY <3>2, <3>3, <1>1, <2>2, <2>3, <2>5, <2>9 DEF BridgeGoesOn, InRegistry
  <2>11. QED
    BY <2>3, <2>6, <2>7, <2>8, <2>10 DEF MInv
<1>6. CASE b.for = "call" /\ Ends(g) /\ UNCHANGED conns
  <2>1. CASE g # Boot
    <3>1. Ended(g).at = "idle" /\ task' = [task EXCEPT ![g] = Ended(g)]
      BY <1>6, <2>1, EndedIsATask DEF Ends
    <3>2. QED
      BY <1>1, <1>6, <2>1, <3>1, SameAlike, UserOnly
  <2>2. CASE g = Boot
    <3>1. Calling(task[Boot])
      BY <1>2, <1>6, <2>2, WhoAsks DEF Connecting, Listing
    <3>2. ~Registering /\ servers[conns[task[Boot].conn].name] = task[Boot].conn
      BY <3>1 DEF Calling, Holds, Registering, Asking
    <3>3. QED
      BY <1>1, <1>6, <2>2, <3>2, EndsReachable
  <2>3. QED
    BY <2>1, <2>2
<1>7. QED
  BY <1>3, <1>4, <1>5, <1>6 DEF TakeReply

\* The entry that is stored holds the connection the manager had in hand.
LEMMA StoreM ==
  ASSUME ReplyInv, MInv, NEW g \in Goroutines, Store(g)
  PROVE  MInv'
<1> DEFINE b == task[Boot]
           k == b.conn
<1>0. g = Boot
  BY DEF Store, At, MInv, UsersOnlyCall
<1>1. /\ b.at = "store" /\ UNCHANGED <<conns, registry>> /\ Ends(Boot)
      /\ servers' = [servers EXCEPT ![b.server] = k]
  BY <1>0 DEF Store, At
<1>2. Connecting(b)
  BY <1>1 DEF MInv, ManagerAt, Between, Opening, Listing, Calling, Leaving, Asking
<1>3. /\ servers \in [Servers -> 0 .. Len(conns)] /\ Len(conns) \in Nat /\ Boot \in Goroutines
      /\ \A j \in 1 .. Len(conns) : conns[j].name \in Servers
      /\ k \in 1 .. Len(conns) /\ conns[k].name = b.server /\ servers[b.server] = 0
  BY <1>1, <1>2, MFacts DEF Connecting
<1>4. \A s \in Servers : servers'[s] = IF s = b.server THEN k ELSE servers[s]
  BY <1>1, <1>3
<1>5. task'[Boot] = Ended(Boot) /\ UsersOnlyCall'
  BY <1>1, BootOnly DEF Ends
<1>6. Ended(Boot).conn = 0 /\ Ended(Boot).for = "none" /\ Ended(Boot).at \in {"boot", "idle"}
  BY <1>2, <1>3, EndedIsATask DEF Connecting
<1>7. ManagerAt'
  BY <1>5, <1>6 DEF ManagerAt, Between
<1>8. EntriesTrue' /\ RegistryTrue'
  BY <1>1, <1>3, <1>4 DEF EntriesTrue, RegistryTrue, MInv
<1>9. Reachable'
  <2>1. ASSUME NEW j \in 1 .. Len(conns)
        PROVE  conns[j].closed \/ servers'[conns[j].name] = j
    <3>1. conns[j].closed \/ servers[conns[j].name] = j \/ k = j
      BY DEF Reachable, MInv
    <3>2. QED
      BY <3>1, <1>3, <1>4
  <2>2. QED
    BY <2>1, <1>1 DEF Reachable
<1>10. ~Registering /\ ~Registering'
  BY <1>1, <1>2, <1>5, <1>6 DEF Registering, Connecting
<1>11. BridgeGoesOn'
  BY <1>1, <1>10 DEF BridgeGoesOn, InRegistry, MInv
<1>12. QED
  BY <1>5, <1>7, <1>8, <1>9, <1>11 DEF MInv

\* The bridge takes the servers that are connected, every one of them.
LEMMA ListServersM ==
  ASSUME ReplyInv, MInv, ListServers
  PROVE  MInv'
<1> DEFINE b == task[Boot]
           c(j) == [conns[j] EXCEPT !.boot = servers[conns[j].name] = j]
           S == {s \in Servers : servers[s] # 0}
<1>1. /\ servers \in [Servers -> 0 .. Len(conns)] /\ Len(conns) \in Nat /\ Boot \in Goroutines
      /\ \A j \in 1 .. Len(conns) : conns[j] \in Conns /\ conns[j].name \in Servers
      /\ b.at = "boot" /\ b \in Tasks /\ b.conn = 0 /\ UNCHANGED <<servers, registry>>
  BY MFacts DEF ListServers, At
<1>2. b.for = "none"
  BY <1>1 DEF MInv, ManagerAt, Between, Opening, Connecting, Listing, Calling, Leaving, Asking
<1>3. conns' = [j \in 1 .. Len(conns) |-> c(j)] /\ Len(conns') = Len(conns)
  BY ListServersKeeps DEF ListServers, ReplyInv, McpTypeOK
<1>4. \A j \in 1 .. Len(conns) :
          /\ c(j).name = conns[j].name /\ c(j).closed = conns[j].closed
          /\ c(j).listed = conns[j].listed /\ c(j).boot = (servers[conns[j].name] = j)
  BY <1>1 DEF Conns
<1> HIDE DEF c
<1>5. \A j \in 1 .. Len(conns) :
          /\ conns'[j].name = conns[j].name /\ conns'[j].closed = conns[j].closed
          /\ conns'[j].listed = conns[j].listed /\ conns'[j].boot = (servers[conns[j].name] = j)
  BY <1>3, <1>4
<1>6. PICK order \in SetToSeqs(S) :
          task' = [task EXCEPT ![Boot].at = "register", ![Boot].todo = order]
  BY DEF ListServers
<1>7. Range(order) = S
  BY ClientAssumption, FS_Subset, SetToSeqsAll
<1> DEFINE n == [b EXCEPT !.at = "register", !.todo = order]
<1>8. task' = [task EXCEPT ![Boot] = n] /\ n.conn = 0 /\ n.for = "none" /\ n.at = "register"
      /\ n.todo = order
  BY <1>1, <1>2, <1>6, MFacts DEF Tasks
<1> HIDE DEF n
<1>9. task'[Boot] = n /\ UsersOnlyCall'
  BY <1>8, BootOnly
<1>10. ManagerAt'
  BY <1>8, <1>9 DEF ManagerAt, Between
<1>11. EntriesTrue' /\ RegistryTrue'
  BY <1>1, <1>3, <1>5 DEF EntriesTrue, RegistryTrue, MInv
<1>12. Reachable'
  BY <1>1, <1>3, <1>5, <1>8, <1>9 DEF Reachable, MInv
<1>13. Registering'
  BY <1>8, <1>9 DEF Registering
<1>14. ASSUME NEW j \in 1 .. Len(conns'), conns'[j].boot
       PROVE  servers'[conns'[j].name] = j /\ conns'[j].name \in Range(task'[Boot].todo)
  <2>1. j \in 1 .. Len(conns) /\ servers[conns[j].name] = j /\ conns'[j].name = conns[j].name
    BY <1>3, <1>5, <1>14
  <2>2. conns[j].name \in S
    BY <2>1, <1>1
  <2>3. QED
    BY <2>1, <2>2, <1>1, <1>7, <1>8, <1>9
<1>15. BridgeGoesOn'
  BY <1>13, <1>14 DEF BridgeGoesOn
<1>16. QED
  BY <1>9, <1>10, <1>11, <1>12, <1>15 DEF MInv

\* To register a server's adapters takes no tool from another and leaves none of its
\* own out.
LEMMA RegisteredTrue ==
  ASSUME ReplyInv, MInv, NEW s \in Servers, registry' = Registered(s)
  PROVE  /\ RegistryTrue'
         /\ \A t \in Tools : registry[t] # Nobody => registry'[t] = registry[t]
         /\ \A t \in ToolsOf[s] : registry'[t] # Nobody
<1>1. \A t \in Tools : registry'[t] = IF t \in ToolsOf[s] /\ registry[t] = Nobody
                                      THEN s ELSE registry[t]
  BY RegisteredIs
<1>2. ToolsOf[s] \subseteq Tools /\ s # Nobody
  BY ClientAssumption
<1>3. QED
  BY <1>1, <1>2 DEF RegistryTrue, MInv

\* The bridge goes to the first server that is left, and leaves out one that cannot list.
LEMMA RegisterServerM ==
  ASSUME ReplyInv, MInv, RegisterServer
  PROVE  MInv'
<1> DEFINE b == task[Boot]
           s == Head(b.todo)
           k == servers[s]
<1>1. /\ servers \in [Servers -> 0 .. Len(conns)] /\ Len(conns) \in Nat /\ Boot \in Goroutines
      /\ \A j \in 1 .. Len(conns) : conns[j].name \in Servers
      /\ b.at = "register" /\ b \in Tasks /\ b.conn = 0 /\ b.todo # <<>> /\ b.todo \in Seq(Servers)
      /\ UNCHANGED <<servers, conns>>
  BY MFacts DEF RegisterServer, At, Tasks
<1>2. b.for = "none" /\ Registering
  BY <1>1 DEF MInv, ManagerAt, Between, Opening, Connecting, Listing, Calling, Leaving, Asking,
     Registering
<1>3. s \in Servers /\ k \in 0 .. Len(conns) /\ (k # 0 => conns[k].name = s /\ k \in 1 .. Len(conns))
  <2>1. s \in Servers
    BY <1>1, TailOf
  <2>2. QED
    BY <2>1, <1>1 DEF MInv, EntriesTrue
<1>4. CASE k # 0 /\ ~conns[k].listed
  <2> DEFINE n == [b EXCEPT !.at = "send", !.for = "list", !.conn = k, !.server = s]
  <2>1. task' = [task EXCEPT ![Boot].at = "send", ![Boot].for = "list",
                             ![Boot].conn = k, ![Boot].server = s] /\ UNCHANGED registry
    BY <1>4 DEF RegisterServer
  <2>2. task' = [task EXCEPT ![Boot] = n]
    BY <2>1, <1>1 DEF ReplyInv, McpTypeOK
  <2>f. servers[s] = k /\ s = Head(b.todo)
    OBVIOUS
  <2> HIDE DEF k, s
  <2>3. n.at = "send" /\ n.for = "list" /\ n.conn = k /\ n.server = s /\ n.todo = b.todo
    BY <1>1 DEF Tasks
  <2> HIDE DEF n
  <2>4. task'[Boot] = n /\ UsersOnlyCall'
    BY <2>2, BootOnly
  <2>5. ManagerAt'
    <3>1. Listing(task[Boot])'
      BY <2>1, <2>3, <2>4, <2>f, <1>1, <1>3, <1>4 DEF Listing, Holds, Asking
    <3>2. QED
      BY <3>1 DEF ManagerAt
  <2>6. EntriesTrue' /\ RegistryTrue'
    BY <1>1, <2>1 DEF EntriesTrue, RegistryTrue, MInv
  <2>7. Reachable'
    BY <1>1, <2>1, <2>3, <2>4 DEF Reachable, MInv
  <2>8. Registering'
    BY <2>3, <2>4 DEF Registering
  <2>9. BridgeGoesOn'
    BY <1>1, <1>2, <2>1, <2>3, <2>4, <2>8 DEF BridgeGoesOn, InRegistry, MInv
  <2>10. QED
    BY <2>4, <2>5, <2>6, <2>7, <2>9 DEF MInv
<1>5. CASE ~(k # 0 /\ ~conns[k].listed)
  <2> DEFINE r == Tail(b.todo)
             n == [b EXCEPT !.todo = r]
  <2>1. /\ task' = [task EXCEPT ![Boot].todo = Tail(task[Boot].todo)]
        /\ registry' = IF k = 0 THEN registry ELSE Registered(s)
    BY <1>5 DEF RegisterServer
  <2>2. task' = [task EXCEPT ![Boot] = n]
    BY <2>1, <1>1 DEF ReplyInv, McpTypeOK, r
  <2>f. servers[s] = k /\ s = Head(b.todo) /\ r = Tail(b.todo)
    OBVIOUS
  <2> HIDE DEF k, s, r
  <2>3. n.at = "register" /\ n.for = "none" /\ n.conn = 0 /\ n.todo = r
    BY <1>1, <1>2 DEF Tasks
  <2> HIDE DEF n
  <2>4. task'[Boot] = n /\ UsersOnlyCall'
    BY <2>2, BootOnly
  <2>5. ManagerAt' /\ Registering'
    BY <2>3, <2>4 DEF ManagerAt, Between, Registering
  <2>6. RegistryTrue' /\ \A t \in Tools : registry[t] # Nobody => registry'[t] = registry[t]
    <3>1. CASE k = 0
      BY <2>1, <3>1 DEF RegistryTrue, MInv
    <3>2. CASE k # 0
      BY <2>1, <3>2, <1>3, RegisteredTrue
    <3>3. QED
      BY <3>1, <3>2
  <2>7. EntriesTrue'
    BY <1>1 DEF EntriesTrue, MInv
  <2>8. Reachable'
    BY <1>1, <2>3, <2>4 DEF Reachable, MInv
  <2>9. ASSUME NEW j \in 1 .. Len(conns), conns[j].boot
        PROVE  servers[conns[j].name] = j /\ (InRegistry(j)' \/ conns[j].name \in Range(r))
    <3>1. servers[conns[j].name] = j /\ (InRegistry(j) \/ conns[j].name \in Range(b.todo))
      BY <1>2, <2>9 DEF BridgeGoesOn, MInv
    <3>2. InRegistry(j) => InRegistry(j)'
      BY <1>1, <2>6, ClientAssumption DEF InRegistry
    <3>3. conns[j].name = s => InRegistry(j)'
      <4> SUFFICES ASSUME conns[j].name = s PROVE InRegistry(j)'
        OBVIOUS
      <4>1. k = j /\ k # 0
        BY <3>1, <2>f
      <4>2. \A t \in ToolsOf[s] : registry'[t] # Nobody
        BY <4>1, <2>1, <1>3, RegisteredTrue
      <4>3. QED
        BY <4>2, <1>1 DEF InRegistry
    <3>4. conns[j].name \in Range(b.todo) => conns[j].name = s \/ conns[j].name \in Range(r)
      BY <1>1, <2>f, TailOf
    <3>5. QED
      BY <3>1, <3>2, <3>3, <3>4
  <2>10. BridgeGoesOn'
    BY <2>9, <2>3, <2>4, <2>5, <1>1 DEF BridgeGoesOn, InRegistry
  <2>11. QED
    BY <2>4, <2>5, <2>6, <2>7, <2>8, <2>10 DEF MInv
<1>6. QED
  BY <1>4, <1>5

\* After its turn each tool of a server is in the registry, for it or for an earlier one.
LEMMA RegisterListedM ==
  ASSUME ReplyInv, MInv, RegisterListed
  PROVE  MInv'
<1> DEFINE b == task[Boot]
<1>1. /\ b.at = "listed" /\ Ends(Boot) /\ UNCHANGED <<servers, conns>>
      /\ registry' = IF conns[b.conn].listed THEN Registered(b.server) ELSE registry
      /\ b \in Tasks /\ b.conn \in 1 .. Len(conns) /\ b.todo \in Seq(Servers)
  BY MFacts DEF RegisterListed, At, Conn, Tasks
<1>2. Listing(b)
  BY <1>1 DEF MInv, ManagerAt, Between, Opening, Connecting, Calling, Leaving, Asking
<1>3. PICK i \in 1 .. Len(conns) : b.conn = i
  BY <1>1
<1>4. b.server \in Servers /\ conns[i].name = b.server
  BY <1>1, <1>2, <1>3, TailOf DEF Listing, Holds
<1>5. /\ RegistryTrue' /\ \A t \in Tools : registry[t] # Nobody => registry'[t] = registry[t]
      /\ InRegistry(i)'
  <2>1. CASE conns[i].listed
    <3>1. registry' = Registered(b.server)
      BY <1>1, <1>3, <2>1
    <3>2. PICK s \in Servers : s = b.server
      BY <1>4
    <3>3. /\ RegistryTrue' /\ \A t \in Tools : registry[t] # Nobody => registry'[t] = registry[t]
          /\ \A t \in ToolsOf[s] : registry'[t] # Nobody
      BY <3>1, <3>2, RegisteredTrue
    <3>4. QED
      BY <3>2, <3>3, <1>1, <1>4 DEF InRegistry
  <2>2. CASE ~conns[i].listed
    BY <2>2, <1>1, <1>3 DEF RegistryTrue, InRegistry, MInv
  <2>3. QED
    BY <2>1, <2>2
<1>6. QED
  BY <1>1, <1>2, <1>3, <1>5, EndsListing DEF Listing

\* At the end of the boot no server's turn is still to come.
LEMMA BootedM ==
  ASSUME ReplyInv, MInv, Booted
  PROVE  MInv'
<1> DEFINE b == task[Boot]
<1>1. /\ task' = [task EXCEPT ![Boot] = Rest] /\ UNCHANGED <<servers, conns, registry>>
      /\ b.at = "register" /\ b.todo = <<>> /\ b.conn = 0
  BY MFacts DEF Booted, At
<1>2. task'[Boot] = Rest /\ UsersOnlyCall'
  BY <1>1, BootOnly
<1>3. ManagerAt' /\ ~Registering'
  BY <1>2, RestIsATask DEF ManagerAt, Between, Registering
<1>4. EntriesTrue' /\ RegistryTrue' /\ Reachable'
  BY <1>1, <1>2, RestIsATask DEF EntriesTrue, RegistryTrue, Reachable, MInv
<1>5. \A x : x \notin Range(b.todo)
  BY <1>1 DEF Range
<1>6. BridgeGoesOn'
  BY <1>1, <1>3, <1>5 DEF BridgeGoesOn, InRegistry, MInv
<1>7. QED
  BY <1>2, <1>3, <1>4, <1>6 DEF MInv

\* A call uses an entry and changes none.
LEMMA ExecuteToolM ==
  ASSUME ReplyInv, MInv, NEW g \in Goroutines, NEW t \in Tools, ExecuteTool(g, t)
  PROVE  MInv'
<1> DEFINE b == task[Boot]
           s == registry[t]
           k == servers[s]
           n == [Rest EXCEPT !.at = "send", !.for = "call", !.server = s, !.conn = k]
<1>1. /\ s \in Servers /\ k \in 0 .. Len(conns) /\ k # 0 /\ Len(conns) \in Nat
      /\ task' = [task EXCEPT ![g] = n] /\ UNCHANGED <<servers, conns, registry>>
  BY DEF ExecuteTool, ReplyInv, McpTypeOK
<1>2. conns[k].name = s /\ k \in 1 .. Len(conns) /\ servers[s] = k
  BY <1>1 DEF MInv, EntriesTrue
<1> HIDE DEF s, k
<1>3. n.at = "send" /\ n.for = "call" /\ n.server = s /\ n.conn = k
  BY DEF Rest
<1> HIDE DEF n
<1>4. CASE g # Boot
  BY <1>1, <1>3, <1>4, SameAlike, UserOnly
<1>5. CASE g = Boot
  <2>1. b.at = "idle" /\ b.conn = 0
    BY <1>5, MFacts DEF ExecuteTool, At
  <2>2. b.for = "none" /\ ~Registering
    BY <2>1 DEF MInv, ManagerAt, Between, Opening, Connecting, Listing, Calling, Leaving, Asking,
       Registering
  <2>3. task'[Boot] = n /\ UsersOnlyCall'
    BY <1>1, <1>5, BootOnly
  <2>4. ManagerAt'
    <3>1. Calling(task[Boot])'
      BY <1>1, <1>2, <1>3, <2>3 DEF Calling, Holds, Asking
    <3>2. QED
      BY <3>1 DEF ManagerAt
  <2>5. EntriesTrue' /\ RegistryTrue'
    BY <1>1 DEF EntriesTrue, RegistryTrue, MInv
  <2>6. Reachable'
    BY <1>1, <2>1 DEF Reachable, MInv
  <2>7. ~Registering'
    BY <1>3, <2>3 DEF Registering
  <2>8. BridgeGoesOn'
    BY <1>1, <2>2, <2>7 DEF BridgeGoesOn, InRegistry, MInv
  <2>9. QED
    BY <2>3, <2>4, <2>5, <2>6, <2>8 DEF MInv
<1>6. QED
  BY <1>4, <1>5

\* Only the manager disconnects, and what it looks up is an entry.
LEMMA DisconnectM ==
  ASSUME ReplyInv, MInv, OneManager, NEW g \in Goroutines, NEW s \in Servers, Disconnect(g, s)
  PROVE  MInv'
<1> DEFINE b == task[Boot]
           k == servers[s]
           n == [Rest EXCEPT !.at = "close", !.for = "disconnect", !.server = s, !.conn = k]
<1>1. g = Boot /\ b.at = "idle" /\ b.conn = 0
  BY MFacts DEF Disconnect, At, OneManager
<1>2. /\ k \in 0 .. Len(conns) /\ k # 0 /\ Len(conns) \in Nat
      /\ task' = [task EXCEPT ![Boot] = n] /\ UNCHANGED <<servers, conns, registry>>
  BY <1>1 DEF Disconnect, ReplyInv, McpTypeOK
<1>3. conns[k].name = s /\ servers[s] = k
  BY <1>2 DEF MInv, EntriesTrue
<1> HIDE DEF k
<1>4. n.at = "close" /\ n.for = "disconnect" /\ n.server = s /\ n.conn = k
  BY DEF Rest
<1> HIDE DEF n
<1>5. b.for = "none" /\ ~Registering
  BY <1>1 DEF MInv, ManagerAt, Between, Opening, Connecting, Listing, Calling, Leaving, Asking,
     Registering
<1>6. task'[Boot] = n /\ UsersOnlyCall'
  BY <1>2, BootOnly
<1>7. ManagerAt'
  <2>1. Leaving(task[Boot])'
    BY <1>2, <1>3, <1>4, <1>6 DEF Leaving, Holds
  <2>2. QED
    BY <2>1 DEF ManagerAt
<1>8. EntriesTrue' /\ RegistryTrue'
  BY <1>2 DEF EntriesTrue, RegistryTrue, MInv
<1>9. Reachable'
  BY <1>1, <1>2 DEF Reachable, MInv
<1>10. ~Registering'
  BY <1>4, <1>6 DEF Registering
<1>11. BridgeGoesOn'
  BY <1>2, <1>5, <1>10 DEF BridgeGoesOn, InRegistry, MInv
<1>12. QED
  BY <1>6, <1>7, <1>8, <1>9, <1>11 DEF MInv

\* A transport that is closed needs no entry.
LEMMA CloseTransportM ==
  ASSUME ReplyInv, MInv, NEW g \in Goroutines, CloseTransport(g)
  PROVE  MInv'
<1> DEFINE b == task[Boot]
           k == b.conn
           n == [b EXCEPT !.at = "delete"]
<1>0. g = Boot
  BY DEF CloseTransport, At, MInv, UsersOnlyCall
<1>1. /\ b.at = "close" /\ conns' = Closed(Boot) /\ task' = [task EXCEPT ![Boot] = n]
      /\ UNCHANGED <<servers, registry>>
  BY <1>0 DEF CloseTransport, At, Goes, ReplyInv, McpTypeOK
<1>2. Leaving(b)
  BY <1>1 DEF MInv, ManagerAt, Between, Opening, Connecting, Listing, Calling, Asking
<1>3. k \in 1 .. Len(conns) /\ b \in Tasks
  BY <1>1, MFacts
<1>4. n.at = "delete" /\ n.for = b.for /\ n.server = b.server /\ n.conn = k
  BY <1>3 DEF Tasks
<1> HIDE DEF n
<1>5. task'[Boot] = n /\ UsersOnlyCall'
  BY <1>1, BootOnly
<1>6. /\ Len(conns') = Len(conns) /\ conns'[k].closed
      /\ \A j \in 1 .. Len(conns) :
            /\ conns'[j].name = conns[j].name /\ conns'[j].listed = conns[j].listed
            /\ conns'[j].boot = conns[j].boot /\ (conns[j].closed => conns'[j].closed)
  <2>1. Len(conns') = Len(conns) /\ conns'[k].closed
    BY <1>1, <1>3, BootIsOne, ClosedGrows
  <2>2. QED
    BY <2>1, <1>1, <1>3, BootIsOne, ClosedAlike
<1>7. ManagerAt'
  <2>1. Leaving(task[Boot])'
    BY <1>1, <1>2, <1>3, <1>4, <1>5, <1>6 DEF Leaving, Holds
  <2>2. QED
    BY <2>1 DEF ManagerAt
<1>8. EntriesTrue' /\ RegistryTrue'
  BY <1>1, <1>6, MFacts DEF EntriesTrue, RegistryTrue, MInv
<1>9. Reachable'
  BY <1>1, <1>4, <1>5, <1>6 DEF Reachable, MInv
<1>10. ~Registering /\ ~Registering'
  BY <1>1, <1>2, <1>4, <1>5 DEF Registering, Leaving
<1>11. BridgeGoesOn'
  BY <1>1, <1>6, <1>10 DEF BridgeGoesOn, InRegistry, MInv
<1>12. QED
  BY <1>5, <1>7, <1>8, <1>9, <1>11 DEF MInv

\* The entry that goes is the one whose transport was closed.
LEMMA DeleteM ==
  ASSUME ReplyInv, MInv, NEW g \in Goroutines, Delete(g)
  PROVE  MInv'
<1> DEFINE b == task[Boot]
           k == b.conn
<1>0. g = Boot
  BY DEF Delete, At, MInv, UsersOnlyCall
<1>1. /\ b.at = "delete" /\ Ends(Boot) /\ UNCHANGED <<conns, registry>>
      /\ servers' = [servers EXCEPT ![b.server] = 0]
  BY <1>0 DEF Delete, At
<1>2. Leaving(b)
  BY <1>1 DEF MInv, ManagerAt, Between, Opening, Connecting, Listing, Calling, Asking
<1>3. /\ servers \in [Servers -> 0 .. Len(conns)] /\ Len(conns) \in Nat /\ Boot \in Goroutines
      /\ \A j \in 1 .. Len(conns) : conns[j].name \in Servers
      /\ k \in 1 .. Len(conns) /\ conns[k].closed /\ servers[b.server] = k
  BY <1>1, <1>2, MFacts DEF Leaving, Holds
<1>4. \A s \in Servers : servers'[s] = IF s = b.server THEN 0 ELSE servers[s]
  BY <1>1, <1>3
<1>5. task'[Boot] = Ended(Boot) /\ UsersOnlyCall'
  BY <1>1, BootOnly DEF Ends
<1>6. Ended(Boot).conn = 0 /\ Ended(Boot).for = "none" /\ Ended(Boot).at = "idle"
  BY <1>2, <1>3, EndedIsATask DEF Leaving
<1>7. ManagerAt'
  BY <1>5, <1>6 DEF ManagerAt, Between
<1>8. EntriesTrue' /\ RegistryTrue'
  BY <1>1, <1>3, <1>4 DEF EntriesTrue, RegistryTrue, MInv
<1>9. Reachable'
  <2>1. ASSUME NEW j \in 1 .. Len(conns)
        PROVE  conns[j].closed \/ servers'[conns[j].name] = j
    <3>1. conns[j].closed \/ servers[conns[j].name] = j \/ k = j
      BY DEF Reachable, MInv
    <3>2. QED
      BY <3>1, <1>3, <1>4
  <2>2. QED
    BY <2>1, <1>1 DEF Reachable
<1>10. ~Registering /\ ~Registering'
  BY <1>1, <1>2, <1>5, <1>6 DEF Registering, Leaving
<1>11. BridgeGoesOn'
  BY <1>1, <1>10 DEF BridgeGoesOn, InRegistry, MInv
<1>12. QED
  BY <1>5, <1>7, <1>8, <1>9, <1>11 DEF MInv

\* Close has every transport closed before the map is empty.
LEMMA CloseM ==
  ASSUME ReplyInv, MInv, OneManager, NEW g \in Goroutines, Close(g)
  PROVE  MInv'
<1> DEFINE b == task[Boot]
           c(j) == IF servers[conns[j].name] = j THEN [conns[j] EXCEPT !.closed = TRUE] ELSE conns[j]
<1>1. /\ servers \in [Servers -> 0 .. Len(conns)] /\ Len(conns) \in Nat /\ Boot \in Goroutines
      /\ \A j \in 1 .. Len(conns) : conns[j] \in Conns /\ conns[j].name \in Servers
      /\ b.at = "idle" /\ b.conn = 0 /\ UNCHANGED <<registry, task>>
      /\ servers' = [s \in Servers |-> 0]
  BY MFacts DEF Close, At, OneManager
<1>2. b.for = "none" /\ ~Registering
  BY <1>1 DEF MInv, ManagerAt, Between, Opening, Connecting, Listing, Calling, Leaving, Asking,
     Registering
<1>3. conns' = [j \in 1 .. Len(conns) |-> c(j)] /\ Len(conns') = Len(conns)
  BY CloseKeeps DEF Close, ReplyInv, McpTypeOK
<1>4. \A j \in 1 .. Len(conns) :
          /\ c(j).name = conns[j].name /\ c(j).listed = conns[j].listed /\ c(j).boot = conns[j].boot
          /\ (conns[j].closed \/ servers[conns[j].name] = j => c(j).closed)
  BY <1>1 DEF Conns
<1> HIDE DEF c
<1>5. \A j \in 1 .. Len(conns) :
          /\ conns'[j].name = conns[j].name /\ conns'[j].listed = conns[j].listed
          /\ conns'[j].boot = conns[j].boot
          /\ (conns[j].closed \/ servers[conns[j].name] = j => conns'[j].closed)
  BY <1>3, <1>4
<1>6. UsersOnlyCall' /\ ManagerAt' /\ ~Registering'
  BY <1>1, <1>2 DEF UsersOnlyCall, ManagerAt, Between, Registering, MInv
<1>7. EntriesTrue' /\ RegistryTrue'
  BY <1>1 DEF EntriesTrue, RegistryTrue, MInv
<1>8. Reachable'
  <2>1. ASSUME NEW j \in 1 .. Len(conns)
        PROVE  conns'[j].closed
    <3>1. conns[j].closed \/ servers[conns[j].name] = j \/ b.conn = j
      BY DEF Reachable, MInv
    <3>2. QED
      BY <3>1, <1>1, <1>5
  <2>2. QED
    BY <2>1, <1>3 DEF Reachable
<1>9. BridgeGoesOn'
  BY <1>1, <1>2, <1>3, <1>5, <1>6 DEF BridgeGoesOn, InRegistry, MInv
<1>10. QED
  BY <1>6, <1>7, <1>8, <1>9 DEF MInv

\* An answer touches pending and what is listed, neither the entries nor the transports.
LEMMA ServerAnswersM ==
  ASSUME ReplyInv, MInv, NEW k \in 1 .. Len(conns), NEW id \in conns[k].asked, NEW lines,
         ServerAnswers(k, id, lines)
  PROVE  MInv'
<1> DEFINE who == {p \in conns[k].pending : p.id = id}
           q == conns[k].pending \ who
           a == conns[k].answered \union {id}
           c == [conns[k] EXCEPT !.pending = q, !.answered = a]
<1>1. UNCHANGED <<servers, registry>>
  BY DEF ServerAnswers
<1>2. CASE UNCHANGED <<conns, task>>
  <2>1. UsersOnlyCall'
    BY <1>2 DEF UsersOnlyCall, MInv
  <2>2. QED
    BY <1>1, <1>2, <2>1, SameAlike, AlikeKeeps
<1>3. CASE ~ UNCHANGED <<conns, task>>
  <2>1. /\ conns' = [conns EXCEPT ![k].pending = conns[k].pending \ who,
                                  ![k].answered = conns[k].answered \union {id}]
        /\ task' = [g \in Goroutines |->
                      IF task[g].conn = k /\ task[g].id = id /\ \E p \in who : p.of = g
                      THEN [task[g] EXCEPT !.reply = id] ELSE task[g]]
    BY <1>3 DEF ServerAnswers
  <2>2. conns[k] \in Conns
    BY ConnTypes
  <2>3. conns' = [conns EXCEPT ![k] = c]
    BY <2>1 DEF ReplyInv, McpTypeOK
  <2> HIDE DEF q, a
  <2>4. /\ c.name = conns[k].name /\ c.closed = conns[k].closed
        /\ c.listed = conns[k].listed /\ c.boot = conns[k].boot
    BY <2>2 DEF Conns
  <2> HIDE DEF c
  <2>5. Alike
    BY <2>3, <2>4, AlikeConn
  <2>6. ASSUME NEW g \in Goroutines
        PROVE  /\ task'[g].at = task[g].at /\ task'[g].conn = task[g].conn
               /\ task'[g].for = task[g].for /\ task'[g].todo = task[g].todo
               /\ task'[g].server = task[g].server
    <3>1. task[g] \in Tasks
      BY TaskTypes
    <3>2. task'[g] = IF task[g].conn = k /\ task[g].id = id /\ \E p \in who : p.of = g
                     THEN [task[g] EXCEPT !.reply = id] ELSE task[g]
      BY <2>1
    <3> HIDE DEF who
    <3>3. QED
      BY <3>1, <3>2 DEF Tasks
  <2>7. UsersOnlyCall'
    BY <2>6 DEF UsersOnlyCall, MInv
  <2>8. QED
    BY <1>1, <2>5, <2>6, <2>7, BootIsOne, AlikeKeeps
<1>4. QED
  BY <1>2, <1>3

\* At the start there is no connection.
LEMMA MInit == ClientInit => MInv
<1> SUFFICES ASSUME ClientInit PROVE MInv
  OBVIOUS
<1>1. conns = <<>> /\ Len(conns) = 0
  BY DEF ClientInit
<1> DEFINE n == [Rest EXCEPT !.at = "boot", !.todo = Configured]
<1>2. n.at = "boot" /\ n.conn = 0 /\ n.for = "none"
  BY DEF Rest
<1> HIDE DEF n
<1>3. task = [g \in Goroutines |-> IF g = Boot THEN n ELSE Rest]
  BY DEF ClientInit, n
<1>4. UsersOnlyCall /\ ManagerAt
  <2>1. task[Boot] = n /\ \A g \in Goroutines \ {Boot} : task[g] = Rest
    BY <1>3, BootIsOne
  <2>2. QED
    BY <2>1, <1>2, RestIsATask DEF UsersOnlyCall, ManagerAt, Between
<1>5. EntriesTrue /\ RegistryTrue
  BY DEF EntriesTrue, RegistryTrue, ClientInit
<1>6. Reachable /\ BridgeGoesOn
  BY <1>1 DEF Reachable, BridgeGoesOn
<1>7. QED
  BY <1>4, <1>5, <1>6 DEF MInv

\* With one manager the invariant is inductive.
LEMMA MStep == OneManager /\ ReplyInv /\ MInv /\ [ClientNext]_clientVars => MInv'
<1> SUFFICES ASSUME OneManager, ReplyInv, MInv, [ClientNext]_clientVars PROVE MInv'
  OBVIOUS
<1>1. CASE UNCHANGED clientVars
  <2>1. UNCHANGED <<servers, conns, registry, task>>
    BY <1>1 DEF clientVars
  <2>2. UsersOnlyCall'
    BY <2>1 DEF UsersOnlyCall, MInv
  <2>3. QED
    BY <2>1, <2>2, SameAlike, AlikeKeeps
<1>2. CASE \E g \in Goroutines, s \in Servers : Connect(g, s) \/ Disconnect(g, s)
  BY <1>2, ConnectM, DisconnectM
<1>3. CASE \E g \in Goroutines :
          \/ Open(g) \/ RegisterRequest(g) \/ PostArrives(g) \/ PostReturns(g) \/ Fail(g)
          \/ TakeReply(g) \/ Store(g) \/ CloseTransport(g) \/ Delete(g) \/ Close(g)
  BY <1>3, OpenM, RegisterRequestM, PostArrivesM, PostReturnsM, FailM, TakeReplyM, StoreM,
     CloseTransportM, DeleteM, CloseM
<1>4. CASE \E g \in Goroutines, t \in Tools : ExecuteTool(g, t)
  BY <1>4, ExecuteToolM
<1>5. CASE \E k \in DOMAIN conns :
              \E id \in conns[k].asked, lines \in Framings : ServerAnswers(k, id, lines)
  <2>1. DOMAIN conns = 1 .. Len(conns)
    BY DEF ReplyInv, McpTypeOK
  <2>2. QED
    BY <1>5, <2>1, ServerAnswersM
<1>6. CASE ListServers \/ RegisterServer \/ RegisterListed \/ Booted
  BY <1>6, ListServersM, RegisterServerM, RegisterListedM, BootedM
<1>7. QED
  BY <1>1, <1>2, <1>3, <1>4, <1>5, <1>6 DEF ClientNext

\* With one manager, what it is at and the client's map always fit together.
THEOREM McpManager == OneManager => (ClientSpec => [](ReplyInv /\ MInv))
<1> SUFFICES ASSUME OneManager PROVE ClientSpec => [](ReplyInv /\ MInv)
  OBVIOUS
<1>1. ClientInit => ReplyInv /\ MInv
  BY ReplyInit, MInit
<1>2. ReplyInv /\ MInv /\ [ClientNext]_clientVars => (ReplyInv /\ MInv)'
  BY ReplyStep, MStep
<1>3. QED
  BY <1>1, <1>2, PTL DEF ClientSpec

\* With one manager no transport is left open that neither an entry nor the manager holds:
\* a Connect that fails half-way, a reconnect and Close leave none behind.
THEOREM McpOpenIsReachable == OneManager => (ClientSpec => []OpenIsReachable)
<1>1. ReplyInv /\ MInv => OpenIsReachable
  <2> SUFFICES ASSUME ReplyInv, MInv PROVE OpenIsReachable
    OBVIOUS
  <2>1. DOMAIN conns = 1 .. Len(conns)
    BY DEF ReplyInv, McpTypeOK
  <2>2. QED
    BY <2>1, ClientAssumption DEF OpenIsReachable, MInv, Reachable
<1>2. QED
  BY <1>1, McpManager, PTL

\* With one manager, after the boot each tool that a connected server listed is in the
\* registry, for a server that has it, whatever the other servers did.
THEOREM McpBootComplete == OneManager => (ClientSpec => []BootComplete)
<1>1. ReplyInv /\ MInv => BootComplete
  <2> SUFFICES ASSUME ReplyInv, MInv, ~Registering,
                      NEW k \in 1 .. Len(conns), conns[k].boot, conns[k].listed,
                      NEW t \in ToolsOf[conns[k].name]
               PROVE  registry[t] # Nobody /\ t \in ToolsOf[registry[t]]
    <3>1. ReplyInv => DOMAIN conns = 1 .. Len(conns)
      BY DEF ReplyInv, McpTypeOK
    <3>2. QED
      BY <3>1 DEF BootComplete, Registering
  <2>1. InRegistry(k) /\ conns[k].name \in Servers
    BY MFacts DEF MInv, BridgeGoesOn
  <2>2. registry[t] # Nobody /\ t \in Tools
    BY <2>1, ClientAssumption DEF InRegistry
  <2>3. QED
    BY <2>2 DEF MInv, RegistryTrue
<1>2. QED
  BY <1>1, McpManager, PTL
=============================================================================
