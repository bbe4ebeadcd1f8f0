---------------------------- MODULE AgentProofs ----------------------------
(***************************************************************************)
(* What the agent's loop keeps to, for any number of overlapping calls,    *)
(* any plans and any limits, whatever the LLM, the tools, the sessions and *)
(* the contexts do.                                                        *)
(***************************************************************************)
EXTENDS AgentLoop, SequenceTheorems, TLAPS

Ready == {"setPlan", "setState"}
Retrying == {"backoff", "reselect", "reexecute"}
Executing == {"select", "execute"} \union Retrying

\* A call has its plan from the end of its planning on, and its index points
\* into it while a step is under way.
HasItsPlan(c) ==
    /\ At(c, "idle") \/ At(c, "plan") \/ At(c, "done") =>
          call[c].plan = NoPlan /\ call[c].index = 1 /\ ran[c] = NewRecord
    /\ call[c].at \in Ready => call[c].index = 1 /\ ran[c] = NewRecord
    /\ call[c].at \in Ready \union Executing \union {"next", "finish"} => call[c].plan \in Plans
    /\ call[c].at \in Executing => call[c].index <= Len(call[c].plan)
    /\ At(c, "next") => call[c].index <= Len(call[c].plan) + 1
    /\ At(c, "finish") => call[c].index = Len(call[c].plan) + 1

\* What it has executed of it.
ExecutesItsPlan(c) ==
    call[c].plan # NoPlan => ran[c].steps = SubSeq(call[c].plan, 1, call[c].index - 1)

\* How often the current step's tool was executed, by the attempt.
TriesCounted(c) ==
    /\ ran[c].tries <= 1 + MaxRetries
    /\ call[c].at \in {"select", "execute"} => ran[c].tries = 0
    /\ call[c].at \in Retrying => ran[c].tries <= call[c].attempt

\* A tool that was late is followed by a look at the context.
LateIsSeen(c) ==
    /\ ran[c].late <= 1
    /\ ran[c].late = 1 =>
          c \in cancelled /\ call[c].at \in {"next", "backoff", "finish", "leaving"}

CallOK(c) == HasItsPlan(c) /\ ExecutesItsPlan(c) /\ TriesCounted(c) /\ LateIsSeen(c)

LInv == TypeOK /\ \A c \in Calls : CallOK(c)

\* What a step of c leaves to the other calls.
Frame(c) ==
    \A d \in Calls \ {c} :
        call'[d] = call[d] /\ ran'[d] = ran[d] /\ (d \in cancelled => d \in cancelled')

-----------------------------------------------------------------------------
\* The types of what a call holds.
LEMMA CallTypes ==
  ASSUME TypeOK, NEW c \in Calls
  PROVE  /\ call[c].kind \in Kinds /\ call[c].at \in Places
         /\ call[c].plan \in Plans \union {NoPlan}
         /\ call[c].index \in Nat \ {0} /\ call[c].attempt \in 0 .. MaxRetries
         /\ ran[c].steps \in Seq(Steps) /\ ran[c].tries \in Nat /\ ran[c].late \in Nat
  BY DEF TypeOK

\* A plan is a sequence of steps and has one.
LEMMA PlanTypes ==
  ASSUME NEW p \in Plans
  PROVE  /\ p \in Seq(Steps) /\ p # NoPlan /\ Len(p) \in Nat \ {0}
         /\ \A i \in 1 .. Len(p) : p[i] \in Steps
  BY AgentAssumption, EmptySeq, LenProperties, ElementOfSeq

\* One step more of a plan.
LEMMA OneMoreStep ==
  ASSUME NEW p \in Plans, NEW i \in 1 .. Len(p)
  PROVE  Append(SubSeq(p, 1, i - 1), p[i]) = SubSeq(p, 1, i)
<1> DEFINE s == SubSeq(p, 1, i - 1)
           t == SubSeq(p, 1, i)
<1>1. p \in Seq(Steps) /\ Len(p) \in Nat /\ \A j \in 1 .. Len(p) : p[j] \in Steps
  BY PlanTypes
<1>2. s \in Seq(Steps) /\ Len(s) = i - 1 /\ \A j \in 1 .. i - 1 : s[j] = p[j]
  <2>1. \A j \in 1 .. i - 1 : p[j] \in Steps
    BY <1>1
  <2>2. 1 \in Int /\ i - 1 \in Int
    BY <1>1
  <2>3. /\ s \in Seq(Steps)
        /\ Len(s) = IF 1 <= i - 1 THEN i - 1 - 1 + 1 ELSE 0
        /\ \A j \in 1 .. i - 1 - 1 + 1 : s[j] = p[1 + j - 1]
    BY ONLY <2>1, <2>2, SubSeqProperties
  <2>4. QED
    BY <1>1, <2>3
<1>3. t \in Seq(Steps) /\ Len(t) = i /\ \A j \in 1 .. i : t[j] = p[j]
  <2>1. \A j \in 1 .. i : p[j] \in Steps
    BY <1>1
  <2>2. 1 \in Int /\ i \in Int
    BY <1>1
  <2>3. /\ t \in Seq(Steps)
        /\ Len(t) = IF 1 <= i THEN i - 1 + 1 ELSE 0
        /\ \A j \in 1 .. i - 1 + 1 : t[j] = p[1 + j - 1]
    BY ONLY <2>1, <2>2, SubSeqProperties
  <2>4. QED
    BY <1>1, <2>3
<1> HIDE DEF s, t
<1>4. Append(s, p[i]) \in Seq(Steps) /\ Len(Append(s, p[i])) = i
      /\ \A j \in 1 .. i : Append(s, p[i])[j] = p[j]
  BY <1>1, <1>2, AppendProperties
<1>5. Append(s, p[i]) = t
  BY <1>3, <1>4, SeqEqual
<1>6. QED
  BY <1>5 DEF s, t

\* Steps of other calls leave a call as it is.
LEMMA OthersKept ==
  ASSUME LInv, NEW c, Frame(c), NEW d \in Calls \ {c}
  PROVE  CallOK(d)'
  BY DEF LInv, CallOK, HasItsPlan, ExecutesItsPlan, TriesCounted, LateIsSeen, At, Frame

\* The records of the calls.
CallRecord == [kind : Kinds, at : Places, plan : Plans \union {NoPlan},
               index : Nat \ {0}, attempt : 0 .. MaxRetries]

RunRecord == [steps : Seq(Steps), tries : Nat, late : Nat]

\* A call that moves keeps its record's other fields.
LEMMA Moves ==
  ASSUME TypeOK, NEW c \in Calls, NEW p \in Places, call' = [call EXCEPT ![c].at = p]
  PROVE  /\ call' \in [Calls -> CallRecord]
         /\ call'[c].at = p /\ call'[c].plan = call[c].plan
         /\ call'[c].index = call[c].index /\ call'[c].attempt = call[c].attempt
         /\ \A d \in Calls \ {c} : call'[d] = call[d]
<1>1. call \in [Calls -> CallRecord] /\ call[c] \in CallRecord
  BY DEF TypeOK, CallRecord
<1>2. [call[c] EXCEPT !.at = p] \in CallRecord
  BY <1>1, Zenon DEF CallRecord
<1>3. QED
  BY <1>1, <1>2 DEF CallRecord

\* So does one that goes to the backoff of an attempt.
LEMMA Retries ==
  ASSUME TypeOK, NEW c \in Calls, NEW n \in 0 .. MaxRetries,
         call' = [call EXCEPT ![c].at = "backoff", ![c].attempt = n]
  PROVE  /\ call' \in [Calls -> CallRecord]
         /\ call'[c].at = "backoff" /\ call'[c].plan = call[c].plan
         /\ call'[c].index = call[c].index /\ call'[c].attempt = n
         /\ \A d \in Calls \ {c} : call'[d] = call[d]
<1>1. call \in [Calls -> CallRecord] /\ call[c] \in CallRecord /\ "backoff" \in Places
  BY DEF TypeOK, CallRecord, Places
<1>2. [call[c] EXCEPT !.at = "backoff", !.attempt = n] \in CallRecord
  BY <1>1, Zenon DEF CallRecord
<1>3. QED
  BY <1>1, <1>2 DEF CallRecord

\* And one whose step is done.
LEMMA Advances ==
  ASSUME TypeOK, NEW c \in Calls, StepDone(c)
  PROVE  /\ call' \in [Calls -> CallRecord]
         /\ call'[c].at = "next" /\ call'[c].plan = call[c].plan
         /\ call'[c].index = call[c].index + 1 /\ call'[c].attempt = 0
         /\ \A d \in Calls \ {c} : call'[d] = call[d]
<1>1. call \in [Calls -> CallRecord] /\ call[c] \in CallRecord
  BY DEF TypeOK, CallRecord
<1>2. call[c].index + 1 \in Nat \ {0} /\ 0 \in 0 .. MaxRetries /\ "next" \in Places
  BY <1>1, AgentAssumption DEF CallRecord, Places
<1>3. [call[c] EXCEPT !.at = "next", !.index = @ + 1, !.attempt = 0] \in CallRecord
  BY <1>1, <1>2, Zenon DEF CallRecord
<1>4. QED
  BY <1>1, <1>2, <1>3 DEF CallRecord, StepDone

\* A tool's execution.
LEMMA Executions ==
  ASSUME TypeOK, NEW c \in Calls, NEW ok \in BOOLEAN, Executed(c, ok),
         ok => Current(c) \in Steps
  PROVE  /\ ran' \in [Calls -> RunRecord]
         /\ ran'[c].tries = ran[c].tries + 1
         /\ ran'[c].late = IF c \in cancelled THEN ran[c].late + 1 ELSE ran[c].late
         /\ ran'[c].steps = IF ok THEN Append(ran[c].steps, Current(c)) ELSE ran[c].steps
         /\ \A d \in Calls \ {c} : ran'[d] = ran[d]
<1> DEFINE late == IF c \in cancelled THEN ran[c].late + 1 ELSE ran[c].late
           steps == IF ok THEN Append(ran[c].steps, Current(c)) ELSE ran[c].steps
<1>1. ran \in [Calls -> RunRecord] /\ ran[c] \in RunRecord
  BY DEF TypeOK, RunRecord
<1>2. ran[c].tries + 1 \in Nat /\ late \in Nat /\ steps \in Seq(Steps)
  BY <1>1, AppendProperties DEF RunRecord
<1>3. ran' = [ran EXCEPT ![c].tries = ran[c].tries + 1, ![c].late = late, ![c].steps = steps]
  BY <1>1 DEF Executed, RunRecord
<1> HIDE DEF late, steps
<1>4. [ran[c] EXCEPT !.tries = ran[c].tries + 1, !.late = late, !.steps = steps] \in RunRecord
  BY <1>1, <1>2, Zenon DEF RunRecord
<1>5. /\ ran' \in [Calls -> RunRecord]
      /\ ran'[c].tries = ran[c].tries + 1 /\ ran'[c].late = late /\ ran'[c].steps = steps
      /\ \A d \in Calls \ {c} : ran'[d] = ran[d]
  BY <1>1, <1>2, <1>3, <1>4 DEF RunRecord
<1>6. QED
  BY <1>5 DEF late, steps

\* Away from the places that look at the context, nothing was late yet.
LEMMA NotLate ==
  ASSUME LInv, NEW c \in Calls, call[c].at \notin {"next", "backoff", "finish", "leaving"}
  PROVE  ran[c].late = 0
<1>1. ran[c].late \in Nat
  BY CallTypes DEF LInv
<1>2. ran[c].late <= 1 /\ ran[c].late # 1
  BY DEF LInv, CallOK, LateIsSeen
<1>3. QED
  BY <1>1, <1>2

\* The step under way is one of the plan's.
LEMMA CurrentIsAStep ==
  ASSUME LInv, NEW c \in Calls, call[c].at \in Executing
  PROVE  /\ call[c].plan \in Plans /\ call[c].index \in 1 .. Len(call[c].plan)
         /\ Current(c) \in Steps
<1>1. call[c].plan \in Plans /\ call[c].index <= Len(call[c].plan)
  BY DEF LInv, CallOK, HasItsPlan
<1>2. call[c].index \in Nat \ {0}
  BY CallTypes DEF LInv
<1>3. call[c].index \in 1 .. Len(call[c].plan)
  BY <1>1, <1>2, PlanTypes
<1>4. QED
  BY <1>1, <1>3, PlanTypes DEF Current

\* One step of one call keeps the invariant when it keeps the types, the
\* other calls and what is said of the call itself.
LEMMA Whole ==
  ASSUME LInv, NEW c \in Calls, TypeOK', CallOK(c)', Frame(c)
  PROVE  LInv'
<1>1. ASSUME NEW d \in Calls PROVE CallOK(d)'
  <2>1. CASE d = c
    BY <2>1
  <2>2. CASE d # c
    BY <2>2, OthersKept
  <2>3. QED
    BY <2>1, <2>2
<1>2. QED
  BY <1>1 DEF LInv

\* A call that returns, its executions counted.
LEMMA Leaving ==
  ASSUME LInv, NEW c \in Calls, Goes(c, "leaving"), UNCHANGED cancelled,
         ran' \in [Calls -> RunRecord], \A d \in Calls \ {c} : ran'[d] = ran[d],
         ran'[c].steps = ran[c].steps, ran'[c].tries <= 1 + MaxRetries,
         ran'[c].late <= 1, ran'[c].late = 1 => c \in cancelled
  PROVE  call' \in [Calls -> CallRecord] /\ CallOK(c)' /\ Frame(c)
<1>1. /\ call' \in [Calls -> CallRecord]
      /\ call'[c].at = "leaving" /\ call'[c].plan = call[c].plan
      /\ call'[c].index = call[c].index
      /\ \A d \in Calls \ {c} : call'[d] = call[d]
  BY Moves DEF LInv, Goes, Places
<1>2. HasItsPlan(c)'
  BY <1>1 DEF HasItsPlan, At, Ready, Executing, Retrying
<1>3. ExecutesItsPlan(c)' /\ TriesCounted(c)' /\ LateIsSeen(c)'
  BY <1>1 DEF LInv, CallOK, ExecutesItsPlan, TriesCounted, LateIsSeen, Retrying
<1>4. QED
  BY <1>1, <1>2, <1>3 DEF CallOK, Frame

\* The same when nothing was executed.
LEMMA LeavingAsItIs ==
  ASSUME LInv, NEW c \in Calls, Goes(c, "leaving"), UNCHANGED <<cancelled, ran>>
  PROVE  call' \in [Calls -> CallRecord] /\ CallOK(c)' /\ Frame(c)
<1>1. ran' \in [Calls -> RunRecord]
  BY DEF LInv, TypeOK, RunRecord
<1>2. ran[c].tries <= 1 + MaxRetries /\ ran[c].late <= 1 /\ (ran[c].late = 1 => c \in cancelled)
  BY DEF LInv, CallOK, TriesCounted, LateIsSeen
<1>3. QED
  BY <1>1, <1>2, Leaving

\* Nothing of a plan is executed before its first step.
LEMMA NothingYet ==
  ASSUME NEW p \in Plans
  PROVE  <<>> = SubSeq(p, 1, 0)
<1>1. p \in Seq(Steps)
  BY PlanTypes
<1>2. SubSeq(p, 1, 0) \in Seq(Steps) /\ Len(SubSeq(p, 1, 0)) = 0
  BY <1>1, SubSeqProperties
<1>3. QED
  BY <1>2, EmptySeq

\* At the start no call is under way.
LEMMA AgentInitOK ==
  ASSUME AgentInit
  PROVE  LInv
<1>1. TypeOK
  <2>1. NewCall \in CallRecord
    BY AgentAssumption DEF NewCall, CallRecord, Kinds, Places
  <2>2. NewRecord \in RunRecord
    BY EmptySeq DEF NewRecord, RunRecord
  <2>3. QED
    BY <2>1, <2>2 DEF AgentInit, TypeOK, CallRecord, RunRecord, LoopStates
<1>2. ASSUME NEW c \in Calls PROVE CallOK(c)
  <2>1. call[c] = NewCall /\ ran[c] = NewRecord
    BY DEF AgentInit
  <2>2. QED
    BY <2>1, AgentAssumption
       DEF CallOK, HasItsPlan, ExecutesItsPlan, TriesCounted, LateIsSeen, At, NewCall,
           NewRecord, Ready, Executing, Retrying
<1>3. QED
  BY <1>1, <1>2 DEF LInv

\* A call begins with nothing executed.
LEMMA BeginKeeps ==
  ASSUME LInv, NEW c \in Calls, NEW kind \in Kinds, Begin(c, kind)
  PROVE  LInv'
<1>1. CASE Fails(c)
  <2>1. call' \in [Calls -> CallRecord] /\ CallOK(c)' /\ Frame(c)
    BY <1>1, LeavingAsItIs DEF Begin, Fails, Returns
  <2>2. TypeOK'
    BY <1>1, <2>1 DEF Begin, Fails, Returns, LInv, TypeOK, CallRecord, LoopStates
  <2>3. QED
    BY <2>1, <2>2, Whole
<1>2. CASE call' = [call EXCEPT ![c].kind = kind, ![c].at = "plan"] /\ state' = "planning"
  <2>1. call \in [Calls -> CallRecord] /\ call[c] \in CallRecord /\ "plan" \in Places
    BY DEF LInv, TypeOK, CallRecord, Places
  <2>2. [call[c] EXCEPT !.kind = kind, !.at = "plan"] \in CallRecord
    BY <2>1, Zenon DEF CallRecord
  <2>3. /\ call' \in [Calls -> CallRecord]
        /\ call'[c].at = "plan" /\ call'[c].plan = call[c].plan
        /\ call'[c].index = call[c].index
        /\ \A d \in Calls \ {c} : call'[d] = call[d]
    BY <1>2, <2>1, <2>2 DEF CallRecord
  <2>4. ran' = ran /\ cancelled' = cancelled
        /\ call[c].plan = NoPlan /\ call[c].index = 1 /\ ran[c] = NewRecord
    BY DEF LInv, CallOK, HasItsPlan, Begin
  <2>5. CallOK(c)'
    BY <2>3, <2>4, AgentAssumption
       DEF CallOK, HasItsPlan, ExecutesItsPlan, TriesCounted, LateIsSeen, At,
           NewRecord, Ready, Executing, Retrying
  <2>6. TypeOK'
    BY <1>2, <2>3 DEF Begin, LInv, TypeOK, CallRecord, LoopStates
  <2>7. QED
    BY <2>3, <2>4, <2>5, <2>6, Whole DEF Frame
<1>3. QED
  BY <1>1, <1>2 DEF Begin

\* The planner's answer is the call's own plan.
LEMMA PlanKeeps ==
  ASSUME LInv, NEW c \in Calls, Plan(c)
  PROVE  LInv'
<1>1. CASE Fails(c) /\ UNCHANGED plan
  <2>1. call' \in [Calls -> CallRecord] /\ CallOK(c)' /\ Frame(c)
    BY <1>1, LeavingAsItIs DEF Plan, Fails, Returns
  <2>2. TypeOK'
    BY <1>1, <2>1 DEF Plan, Fails, Returns, LInv, TypeOK, CallRecord, LoopStates
  <2>3. QED
    BY <2>1, <2>2, Whole
<1>2. ASSUME NEW p \in PlannerAnswers, plan' = p, UNCHANGED state,
             call' = [call EXCEPT ![c].plan = p, ![c].at = "setPlan"]
      PROVE  LInv'
  <2>1. call \in [Calls -> CallRecord] /\ call[c] \in CallRecord /\ "setPlan" \in Places
        /\ p \in Plans
    BY DEF LInv, TypeOK, CallRecord, Places, PlannerAnswers
  <2>2. [call[c] EXCEPT !.plan = p, !.at = "setPlan"] \in CallRecord
    BY <2>1, Zenon DEF CallRecord
  <2>3. /\ call' \in [Calls -> CallRecord]
        /\ call'[c].at = "setPlan" /\ call'[c].plan = p /\ call'[c].index = call[c].index
        /\ \A d \in Calls \ {c} : call'[d] = call[d]
    BY <1>2, <2>1, <2>2 DEF CallRecord
  <2>4. ran' = ran /\ cancelled' = cancelled /\ call[c].index = 1 /\ ran[c] = NewRecord
    BY DEF LInv, CallOK, HasItsPlan, Plan
  <2>5. CallOK(c)'
    BY <2>1, <2>3, <2>4, NothingYet, AgentAssumption
       DEF CallOK, HasItsPlan, ExecutesItsPlan, TriesCounted, LateIsSeen, At,
           NewRecord, Ready, Executing, Retrying
  <2>6. TypeOK'
    BY <1>2, <2>1, <2>3 DEF Plan, LInv, TypeOK, CallRecord
  <2>7. QED
    BY <2>3, <2>4, <2>5, <2>6, Whole DEF Frame
<1>3. QED
  BY <1>1, <1>2 DEF Plan

\* What the session may hold.
SessionRecord == [plan : Plans \union {NoPlan}, state : LoopStates]

\* It is stored, which the call's copy does not depend on.
LEMMA SetPlanKeeps ==
  ASSUME LInv, NEW c \in Calls, SetPlan(c)
  PROVE  LInv'
<1>1. /\ call' \in [Calls -> CallRecord]
      /\ call'[c].at = "setState" /\ call'[c].plan = call[c].plan
      /\ call'[c].index = call[c].index
      /\ \A d \in Calls \ {c} : call'[d] = call[d]
  BY Moves DEF LInv, SetPlan, Goes, Places
<1>2. /\ ran' = ran /\ cancelled' = cancelled
      /\ call[c].plan \in Plans /\ call[c].index = 1 /\ ran[c] = NewRecord
  BY DEF LInv, CallOK, HasItsPlan, SetPlan, At, Ready
<1>3. CallOK(c)'
  BY <1>1, <1>2, NothingYet, AgentAssumption
     DEF CallOK, HasItsPlan, ExecutesItsPlan, TriesCounted, LateIsSeen, At,
         NewRecord, Ready, Executing, Retrying
<1>4. session' \in SessionRecord
  <2>1. PICK p \in Stored(session.plan, call[c].plan) : session' = [session EXCEPT !.plan = p]
    BY DEF SetPlan
  <2>2. session \in SessionRecord /\ p \in Plans \union {NoPlan}
    BY <1>2 DEF LInv, TypeOK, SessionRecord, Stored
  <2>3. [session EXCEPT !.plan = p] \in SessionRecord
    BY <2>2, Zenon DEF SessionRecord
  <2>4. QED
    BY <2>1, <2>3
<1>5. TypeOK'
  BY <1>1, <1>4 DEF SetPlan, LInv, TypeOK, CallRecord, SessionRecord
<1>6. QED
  BY <1>1, <1>2, <1>3, <1>5, Whole DEF Frame

\* A session whose state is set.
LEMMA SessionStates ==
  ASSUME TypeOK, NEW t \in LoopStates,
         \E s \in Stored(session.state, t) : session' = [session EXCEPT !.state = s]
  PROVE  session' \in SessionRecord
<1>1. PICK s \in Stored(session.state, t) : session' = [session EXCEPT !.state = s]
  OBVIOUS
<1>2. session \in SessionRecord /\ s \in LoopStates
  BY DEF TypeOK, SessionRecord, Stored
<1>3. [session EXCEPT !.state = s] \in SessionRecord
  BY <1>2, Zenon DEF SessionRecord
<1>4. QED
  BY <1>1, <1>3

\* The session's state is no call's plan.
LEMMA SetSessionStateKeeps ==
  ASSUME LInv, NEW c \in Calls, SetSessionState(c)
  PROVE  LInv'
<1>1. StateOf(call[c].kind) \in LoopStates
  BY CallTypes DEF LInv, StateOf, Kinds, LoopStates
<1>2. session' \in SessionRecord
  BY <1>1, SessionStates DEF LInv, SetSessionState
<1>3. ran' = ran /\ cancelled' = cancelled /\ UNCHANGED <<plan, withSessions>>
  BY DEF SetSessionState
<1>4. CASE call[c].kind = "runPlan"
  <2>1. call' \in [Calls -> CallRecord] /\ CallOK(c)' /\ Frame(c)
    BY <1>3, <1>4, LeavingAsItIs DEF SetSessionState, Returns
  <2>2. TypeOK'
    BY <1>2, <1>3, <1>4, <2>1
       DEF SetSessionState, Returns, LInv, TypeOK, CallRecord, SessionRecord, LoopStates
  <2>3. QED
    BY <2>1, <2>2, Whole
<1>5. CASE call[c].kind # "runPlan"
  <2>1. /\ call' \in [Calls -> CallRecord]
        /\ call'[c].at = "next" /\ call'[c].plan = call[c].plan
        /\ call'[c].index = call[c].index
        /\ \A d \in Calls \ {c} : call'[d] = call[d]
    BY <1>5, Moves DEF LInv, SetSessionState, Goes, Places
  <2>2. call[c].plan \in Plans /\ call[c].index = 1 /\ ran[c] = NewRecord
    BY DEF LInv, CallOK, HasItsPlan, SetSessionState, At, Ready
  <2>3. 1 <= Len(call[c].plan) + 1
    BY <2>2, PlanTypes
  <2>4. CallOK(c)'
    BY <1>3, <2>1, <2>2, <2>3, NothingYet, AgentAssumption
       DEF CallOK, HasItsPlan, ExecutesItsPlan, TriesCounted, LateIsSeen, At,
           NewRecord, Ready, Executing, Retrying
  <2>5. TypeOK'
    BY <1>2, <1>3, <1>5, <2>1
       DEF SetSessionState, LInv, TypeOK, CallRecord, SessionRecord, LoopStates
  <2>6. QED
    BY <1>3, <2>1, <2>4, <2>5, Whole DEF Frame
<1>6. QED
  BY <1>4, <1>5

\* ApprovePlan takes the plan the session has as its own.
LEMMA LoadKeeps ==
  ASSUME LInv, NEW c \in Calls, Load(c)
  PROVE  LInv'
<1> DEFINE p == IF withSessions THEN session.plan ELSE plan
<1>1. CASE Fails(c)
  <2>1. call' \in [Calls -> CallRecord] /\ CallOK(c)' /\ Frame(c)
    BY <1>1, LeavingAsItIs DEF Load, Fails, Returns
  <2>2. TypeOK'
    BY <1>1, <2>1 DEF Load, Fails, Returns, LInv, TypeOK, CallRecord, LoopStates
  <2>3. QED
    BY <2>1, <2>2, Whole
<1>2. CASE /\ p # NoPlan
           /\ call' = [call EXCEPT ![c].kind = "approve", ![c].plan = p,
                                    ![c].at = "setState"]
           /\ state' = "acting"
  <2>1. p \in Plans
    BY <1>2 DEF LInv, TypeOK
  <2> HIDE DEF p
  <2>2. call \in [Calls -> CallRecord] /\ call[c] \in CallRecord
        /\ "setState" \in Places /\ "approve" \in Kinds
    BY DEF LInv, TypeOK, CallRecord, Places, Kinds
  <2>3. [call[c] EXCEPT !.kind = "approve", !.plan = p, !.at = "setState"] \in CallRecord
    BY <2>1, <2>2, Zenon DEF CallRecord
  <2>4. /\ call' \in [Calls -> CallRecord]
        /\ call'[c].at = "setState" /\ call'[c].plan = p /\ call'[c].index = call[c].index
        /\ \A d \in Calls \ {c} : call'[d] = call[d]
    BY <1>2, <2>2, <2>3 DEF CallRecord
  <2>5. ran' = ran /\ cancelled' = cancelled /\ call[c].index = 1 /\ ran[c] = NewRecord
    BY DEF LInv, CallOK, HasItsPlan, Load
  <2>6. CallOK(c)'
    BY <2>1, <2>4, <2>5, NothingYet, AgentAssumption
       DEF CallOK, HasItsPlan, ExecutesItsPlan, TriesCounted, LateIsSeen, At,
           NewRecord, Ready, Executing, Retrying
  <2>7. TypeOK'
    BY <1>2, <2>4 DEF Load, LInv, TypeOK, CallRecord, LoopStates
  <2>8. QED
    BY <2>4, <2>5, <2>6, <2>7, Whole DEF Frame
<1>3. QED
  BY <1>1, <1>2 DEF Load

\* The next step begins with no try, or the plan is over.
LEMMA NextStepKeeps ==
  ASSUME LInv, NEW c \in Calls, NextStep(c)
  PROVE  LInv'
<1>1. /\ call[c].at = "next" /\ call[c].plan \in Plans
      /\ call[c].index <= Len(call[c].plan) + 1
      /\ call[c].index \in Nat \ {0} /\ Len(call[c].plan) \in Nat
      /\ ran[c].late <= 1 /\ (ran[c].late = 1 => c \in cancelled) /\ ran[c].late \in Nat
      /\ ran[c].steps = SubSeq(call[c].plan, 1, call[c].index - 1)
  BY CallTypes, PlanTypes
     DEF LInv, CallOK, HasItsPlan, ExecutesItsPlan, LateIsSeen, NextStep, At
<1>2. /\ ran' \in [Calls -> RunRecord]
      /\ ran'[c].tries = 0 /\ ran'[c].late = ran[c].late /\ ran'[c].steps = ran[c].steps
      /\ \A d \in Calls \ {c} : ran'[d] = ran[d]
  <2>1. ran \in [Calls -> RunRecord] /\ ran[c] \in RunRecord
    BY DEF LInv, TypeOK, RunRecord
  <2>2. [ran[c] EXCEPT !.tries = 0] \in RunRecord
    BY <2>1, Zenon DEF RunRecord
  <2>3. QED
    BY <2>1, <2>2 DEF NextStep, RunRecord
<1>3. UNCHANGED <<plan, session, withSessions, cancelled>> /\ MaxRetries \in Nat
  BY AgentAssumption DEF NextStep
<1>4. CASE Goes(c, "leaving") /\ state' \in LoopStates
  <2>1. /\ cancelled' = cancelled /\ ran'[c].tries <= 1 + MaxRetries
        /\ ran'[c].late <= 1 /\ (ran'[c].late = 1 => c \in cancelled)
    BY <1>1, <1>2, <1>3
  <2>2. call' \in [Calls -> CallRecord] /\ CallOK(c)' /\ Frame(c)
    BY <1>2, <1>4, <2>1, Leaving
  <2>3. TypeOK'
    BY <1>2, <1>3, <1>4, <2>2 DEF LInv, TypeOK, CallRecord, RunRecord
  <2>4. QED
    BY <2>2, <2>3, Whole
<1>5. CASE PlanDone(c) /\ Goes(c, "finish") /\ UNCHANGED state
  <2>1. /\ call' \in [Calls -> CallRecord]
        /\ call'[c].at = "finish" /\ call'[c].plan = call[c].plan
        /\ call'[c].index = call[c].index
        /\ \A d \in Calls \ {c} : call'[d] = call[d]
    BY <1>5, Moves DEF LInv, Goes, Places
  <2>2. call[c].index = Len(call[c].plan) + 1
    BY <1>1, <1>5 DEF PlanDone
  <2>3. CallOK(c)'
    BY <1>1, <1>2, <1>3, <2>1, <2>2
       DEF CallOK, HasItsPlan, ExecutesItsPlan, TriesCounted, LateIsSeen, At,
           Ready, Executing, Retrying
  <2>4. TypeOK'
    BY <1>2, <1>3, <1>5, <2>1 DEF LInv, TypeOK, CallRecord, RunRecord
  <2>5. QED
    BY <1>2, <1>3, <2>1, <2>3, <2>4, Whole DEF Frame
<1>6. CASE ~PlanDone(c) /\ c \notin cancelled /\ Goes(c, "select") /\ UNCHANGED state
  <2>1. /\ call' \in [Calls -> CallRecord]
        /\ call'[c].at = "select" /\ call'[c].plan = call[c].plan
        /\ call'[c].index = call[c].index
        /\ \A d \in Calls \ {c} : call'[d] = call[d]
    BY <1>6, Moves DEF LInv, Goes, Places
  <2>2. call[c].index <= Len(call[c].plan) /\ ran[c].late # 1
    BY <1>1, <1>6 DEF PlanDone
  <2>3. CallOK(c)'
    BY <1>1, <1>2, <1>3, <2>1, <2>2
       DEF CallOK, HasItsPlan, ExecutesItsPlan, TriesCounted, LateIsSeen, At,
           Ready, Executing, Retrying
  <2>4. TypeOK'
    BY <1>2, <1>3, <1>6, <2>1 DEF LInv, TypeOK, CallRecord, RunRecord
  <2>5. QED
    BY <1>2, <1>3, <2>1, <2>3, <2>4, Whole DEF Frame
<1>7. QED
  BY <1>4, <1>5, <1>6 DEF NextStep, Fails, Returns, LoopStates

\* A step that failed before a second execution could follow the first: what
\* the call has executed is counted in ran', and its attempt is the first.
LEMMA StepFailedKeeps ==
  ASSUME LInv, NEW c \in Calls, NEW e, NEW s \in LoopStates, StepFailed(c, e, s),
         call[c].at \in Executing,
         UNCHANGED cancelled, UNCHANGED <<plan, session, withSessions>>,
         ran' \in [Calls -> RunRecord], \A d \in Calls \ {c} : ran'[d] = ran[d],
         ran'[c].steps = ran[c].steps, ran'[c].tries <= 1,
         ran'[c].late <= 1, ran'[c].late = 1 => c \in cancelled
  PROVE  LInv'
<1>1. 1 \in 0 .. MaxRetries /\ MaxRetries \in Nat
  BY AgentAssumption
<1>2. CASE Fails(c)
  <2>1. ran'[c].tries <= 1 + MaxRetries
    BY <1>1 DEF RunRecord
  <2>2. call' \in [Calls -> CallRecord] /\ CallOK(c)' /\ Frame(c)
    BY <1>2, <2>1, Leaving DEF Fails, Returns
  <2>3. TypeOK'
    BY <1>2, <2>2 DEF Fails, Returns, LInv, TypeOK, CallRecord, RunRecord, LoopStates
  <2>4. QED
    BY <2>2, <2>3, Whole
<1>3. CASE call' = [call EXCEPT ![c].at = "backoff", ![c].attempt = 1] /\ state' = s
  <2>1. /\ call' \in [Calls -> CallRecord]
        /\ call'[c].at = "backoff" /\ call'[c].plan = call[c].plan
        /\ call'[c].index = call[c].index /\ call'[c].attempt = 1
        /\ \A d \in Calls \ {c} : call'[d] = call[d]
    BY <1>1, <1>3, Retries DEF LInv
  <2>2. ran'[c].tries \in Nat /\ ran'[c].tries <= 1 + MaxRetries
    BY <1>1 DEF RunRecord
  <2>3. /\ call[c].plan \in Plans /\ call[c].index <= Len(call[c].plan)
        /\ ran[c].steps = SubSeq(call[c].plan, 1, call[c].index - 1)
    BY AgentAssumption DEF LInv, CallOK, HasItsPlan, ExecutesItsPlan
  <2>4. CallOK(c)'
    BY <2>1, <2>2, <2>3
       DEF CallOK, HasItsPlan, ExecutesItsPlan, TriesCounted, LateIsSeen, At,
           Ready, Executing, Retrying
  <2>5. TypeOK'
    BY <1>3, <2>1 DEF LInv, TypeOK, CallRecord, RunRecord
  <2>6. QED
    BY <2>1, <2>4, <2>5, Whole DEF Frame
<1>4. QED
  BY <1>2, <1>3 DEF StepFailed

\* A step whose tool succeeded.
LEMMA StepDoneKeeps ==
  ASSUME LInv, NEW c \in Calls, call[c].at \in {"execute", "reexecute"},
         Executed(c, TRUE), StepDone(c), state' \in LoopStates,
         UNCHANGED <<plan, session, withSessions, cancelled>>
  PROVE  LInv'
<1>1. call[c].plan \in Plans /\ call[c].index \in 1 .. Len(call[c].plan) /\ Current(c) \in Steps
  BY CurrentIsAStep DEF Executing, Retrying
<1>2. /\ ran' \in [Calls -> RunRecord]
      /\ ran'[c].tries = ran[c].tries + 1
      /\ ran'[c].late = IF c \in cancelled THEN ran[c].late + 1 ELSE ran[c].late
      /\ ran'[c].steps = Append(ran[c].steps, Current(c))
      /\ \A d \in Calls \ {c} : ran'[d] = ran[d]
  BY <1>1, Executions DEF LInv
<1>3. /\ call' \in [Calls -> CallRecord]
      /\ call'[c].at = "next" /\ call'[c].plan = call[c].plan
      /\ call'[c].index = call[c].index + 1 /\ call'[c].attempt = 0
      /\ \A d \in Calls \ {c} : call'[d] = call[d]
  BY Advances DEF LInv
<1>4. HasItsPlan(c)'
  BY <1>1, <1>3, PlanTypes DEF HasItsPlan, At, Ready, Executing, Retrying
<1>5. ExecutesItsPlan(c)'
  <2>1. ran[c].steps = SubSeq(call[c].plan, 1, call[c].index - 1)
    BY <1>1, AgentAssumption DEF LInv, CallOK, ExecutesItsPlan
  <2>2. Append(ran[c].steps, Current(c)) = SubSeq(call[c].plan, 1, call[c].index)
    BY <1>1, <2>1, OneMoreStep DEF Current
  <2>3. call'[c].index - 1 = call[c].index
    BY <1>1, <1>3
  <2>4. QED
    BY <1>2, <1>3, <2>2, <2>3 DEF ExecutesItsPlan
<1>6. TriesCounted(c)'
  <2>1. ran[c].tries <= MaxRetries /\ ran[c].tries \in Nat /\ MaxRetries \in Nat
    <3>1. ran[c].tries \in Nat /\ call[c].attempt \in 0 .. MaxRetries /\ MaxRetries \in Nat
      BY CallTypes, AgentAssumption DEF LInv
    <3>2. ran[c].tries = 0 \/ ran[c].tries <= call[c].attempt
      BY DEF LInv, CallOK, TriesCounted, Retrying
    <3>3. QED
      BY <3>1, <3>2
  <2>2. ran'[c].tries <= 1 + MaxRetries
    BY <1>2, <2>1
  <2>3. QED
    BY <1>3, <2>2 DEF TriesCounted, Retrying
<1>7. LateIsSeen(c)'
  <2>1. ran[c].late = 0
    BY NotLate
  <2>2. QED
    BY <1>2, <1>3, <2>1 DEF LateIsSeen
<1>8. TypeOK'
  BY <1>2, <1>3 DEF LInv, TypeOK, CallRecord, RunRecord
<1>9. QED
  BY <1>2, <1>3, <1>4, <1>5, <1>6, <1>7, <1>8, Whole DEF CallOK, Frame

\* A failed execution.
LEMMA FailedExecution ==
  ASSUME LInv, NEW c \in Calls, call[c].at \in {"execute", "reexecute"}, Executed(c, FALSE)
  PROVE  /\ ran' \in [Calls -> RunRecord] /\ \A d \in Calls \ {c} : ran'[d] = ran[d]
         /\ ran'[c].steps = ran[c].steps /\ ran'[c].tries = ran[c].tries + 1
         /\ ran'[c].late <= 1 /\ (ran'[c].late = 1 => c \in cancelled)
<1>1. ran[c].late = 0
  BY NotLate
<1>2. /\ ran' \in [Calls -> RunRecord]
      /\ ran'[c].tries = ran[c].tries + 1
      /\ ran'[c].late = IF c \in cancelled THEN ran[c].late + 1 ELSE ran[c].late
      /\ ran'[c].steps = ran[c].steps
      /\ \A d \in Calls \ {c} : ran'[d] = ran[d]
  BY Executions DEF LInv
<1>3. QED
  BY <1>1, <1>2

\* Selecting a tool runs none.
LEMMA SelectKeeps ==
  ASSUME LInv, NEW c \in Calls, Select(c)
  PROVE  LInv'
<1>1. call[c].at = "select" /\ UNCHANGED <<plan, session, withSessions, cancelled, ran>>
  BY DEF Select, At
<1>2. /\ ran[c].tries = 0 /\ ran[c].late = 0
      /\ call[c].plan \in Plans /\ call[c].index <= Len(call[c].plan)
      /\ ran[c].steps = SubSeq(call[c].plan, 1, call[c].index - 1)
      /\ MaxRetries \in Nat
  BY <1>1, NotLate, AgentAssumption
     DEF LInv, CallOK, HasItsPlan, ExecutesItsPlan, TriesCounted, Executing
<1>3. CASE Goes(c, "execute") /\ state' = "acting"
  <2>1. /\ call' \in [Calls -> CallRecord]
        /\ call'[c].at = "execute" /\ call'[c].plan = call[c].plan
        /\ call'[c].index = call[c].index
        /\ \A d \in Calls \ {c} : call'[d] = call[d]
    BY <1>3, Moves DEF LInv, Goes, Places
  <2>2. CallOK(c)'
    BY <1>1, <1>2, <2>1
       DEF CallOK, HasItsPlan, ExecutesItsPlan, TriesCounted, LateIsSeen, At,
           Ready, Executing, Retrying
  <2>3. TypeOK'
    BY <1>1, <1>3, <2>1 DEF LInv, TypeOK, CallRecord, LoopStates
  <2>4. QED
    BY <1>1, <2>1, <2>2, <2>3, Whole DEF Frame
<1>4. ASSUME NEW e \in SelectorErrors, StepFailed(c, Wrapped(e), state)
      PROVE  LInv'
  <2>1. ran' \in [Calls -> RunRecord] /\ state \in LoopStates
    BY <1>1 DEF LInv, TypeOK, RunRecord
  <2>2. QED
    BY <1>1, <1>2, <1>4, <2>1, StepFailedKeeps DEF Executing
<1>5. QED
  BY <1>3, <1>4 DEF Select

\* The first try of a step.
LEMMA ExecuteKeeps ==
  ASSUME LInv, NEW c \in Calls, Execute(c)
  PROVE  LInv'
<1>1. call[c].at = "execute" /\ UNCHANGED <<plan, session, withSessions, cancelled>>
  BY DEF Execute, At
<1>2. state \in LoopStates /\ "observing" \in LoopStates
  BY DEF LInv, TypeOK, LoopStates
<1>3. CASE Executed(c, TRUE) /\ StepDone(c) /\ state' = "observing"
  BY <1>1, <1>2, <1>3, StepDoneKeeps
<1>4. ASSUME Executed(c, FALSE), NEW e, NEW s \in LoopStates, StepFailed(c, e, s)
      PROVE  LInv'
  <2>1. /\ ran' \in [Calls -> RunRecord] /\ \A d \in Calls \ {c} : ran'[d] = ran[d]
        /\ ran'[c].steps = ran[c].steps /\ ran'[c].tries = ran[c].tries + 1
        /\ ran'[c].late <= 1 /\ (ran'[c].late = 1 => c \in cancelled)
    BY <1>1, <1>4, FailedExecution
  <2>2. ran[c].tries = 0
    BY <1>1 DEF LInv, CallOK, TriesCounted
  <2>3. ran'[c].tries <= 1
    BY <2>1, <2>2
  <2>4. call[c].at \in Executing
    BY <1>1 DEF Executing
  <2>5. QED
    BY <1>1, <1>4, <2>1, <2>3, <2>4, StepFailedKeeps
<1>5. QED
  BY <1>2, <1>3, <1>4 DEF Execute

\* Of a call between a failed execution and the next.
LEMMA RetryingFacts ==
  ASSUME LInv, NEW c \in Calls, call[c].at \in Retrying
  PROVE  /\ call[c].plan \in Plans /\ call[c].index <= Len(call[c].plan)
         /\ ran[c].steps = SubSeq(call[c].plan, 1, call[c].index - 1)
         /\ ran[c].tries <= call[c].attempt /\ ran[c].tries \in Nat
         /\ call[c].attempt \in Nat /\ call[c].attempt <= MaxRetries /\ MaxRetries \in Nat
<1>1. /\ call[c].plan \in Plans /\ call[c].index <= Len(call[c].plan)
      /\ ran[c].steps = SubSeq(call[c].plan, 1, call[c].index - 1)
      /\ ran[c].tries <= call[c].attempt
  BY AgentAssumption
     DEF LInv, CallOK, HasItsPlan, ExecutesItsPlan, TriesCounted, Executing
<1>2. ran[c].tries \in Nat /\ call[c].attempt \in 0 .. MaxRetries /\ MaxRetries \in Nat
  BY CallTypes, AgentAssumption DEF LInv
<1>3. QED
  BY <1>1, <1>2

\* A retry that moves on to its next place, nothing late behind it.
LEMMA RetryMoves ==
  ASSUME LInv, NEW c \in Calls, call[c].at \in Retrying, NEW p \in {"reselect", "reexecute"},
         Goes(c, p), UNCHANGED <<state, plan, session, withSessions, cancelled, ran>>,
         ran[c].late # 1
  PROVE  LInv'
<1>1. UNCHANGED <<state, plan, session, withSessions, cancelled, ran>>
  OBVIOUS
<1>2. /\ call' \in [Calls -> CallRecord]
      /\ call'[c].at = p /\ call'[c].plan = call[c].plan
      /\ call'[c].index = call[c].index /\ call'[c].attempt = call[c].attempt
      /\ \A d \in Calls \ {c} : call'[d] = call[d]
  BY Moves DEF LInv, Goes, Places
<1>3. /\ call[c].plan \in Plans /\ call[c].index <= Len(call[c].plan)
      /\ ran[c].steps = SubSeq(call[c].plan, 1, call[c].index - 1)
      /\ ran[c].tries <= call[c].attempt
  BY RetryingFacts
<1>4. ran[c].tries <= 1 + MaxRetries /\ ran[c].late <= 1
  BY DEF LInv, CallOK, TriesCounted, LateIsSeen
<1>5. CallOK(c)'
  BY <1>1, <1>2, <1>3, <1>4
     DEF CallOK, HasItsPlan, ExecutesItsPlan, TriesCounted, LateIsSeen, At,
         Ready, Executing, Retrying
<1>6. TypeOK'
  BY <1>1, <1>2 DEF LInv, TypeOK, CallRecord
<1>7. QED
  BY <1>1, <1>2, <1>5, <1>6, Whole DEF Frame

\* A retry that failed, its execution counted if there was one.
LEMMA RetryFailed ==
  ASSUME LInv, NEW c \in Calls, call[c].at \in Retrying, NextAttempt(c) \/ Fails(c),
         UNCHANGED <<plan, session, withSessions, cancelled>>,
         ran' \in [Calls -> RunRecord], \A d \in Calls \ {c} : ran'[d] = ran[d],
         ran'[c].steps = ran[c].steps, ran'[c].tries <= ran[c].tries + 1,
         ran'[c].late <= 1, ran'[c].late = 1 => c \in cancelled
  PROVE  LInv'
<1>1. /\ call[c].plan \in Plans /\ call[c].index <= Len(call[c].plan)
      /\ ran[c].steps = SubSeq(call[c].plan, 1, call[c].index - 1)
      /\ ran[c].tries <= call[c].attempt /\ ran[c].tries \in Nat
      /\ call[c].attempt \in Nat /\ call[c].attempt <= MaxRetries /\ MaxRetries \in Nat
  BY RetryingFacts
<1>2. ran'[c].tries \in Nat
  BY DEF RunRecord
<1>3. ran'[c].tries <= 1 + MaxRetries /\ ran'[c].tries <= call[c].attempt + 1
  BY <1>1, <1>2
<1>4. CASE Fails(c)
  <2>1. call' \in [Calls -> CallRecord] /\ CallOK(c)' /\ Frame(c)
    BY <1>3, <1>4, Leaving DEF Fails, Returns
  <2>2. TypeOK'
    BY <1>4, <2>1 DEF Fails, Returns, LInv, TypeOK, CallRecord, RunRecord, LoopStates
  <2>3. QED
    BY <2>1, <2>2, Whole
<1>5. CASE /\ call[c].attempt < MaxRetries /\ UNCHANGED state
           /\ call' = [call EXCEPT ![c].at = "backoff", ![c].attempt = @ + 1]
  <2>1. call[c].attempt + 1 \in 0 .. MaxRetries
    BY <1>1, <1>5
  <2>2. call' = [call EXCEPT ![c].at = "backoff", ![c].attempt = call[c].attempt + 1]
    BY <1>5 DEF LInv, TypeOK
  <2>3. /\ call' \in [Calls -> CallRecord]
        /\ call'[c].at = "backoff" /\ call'[c].plan = call[c].plan
        /\ call'[c].index = call[c].index /\ call'[c].attempt = call[c].attempt + 1
        /\ \A d \in Calls \ {c} : call'[d] = call[d]
    BY <2>1, <2>2, Retries DEF LInv
  <2>4. CallOK(c)'
    BY <1>1, <1>3, <2>3
       DEF CallOK, HasItsPlan, ExecutesItsPlan, TriesCounted, LateIsSeen, At,
           Ready, Executing, Retrying
  <2>5. TypeOK'
    BY <1>5, <2>3 DEF LInv, TypeOK, CallRecord, RunRecord
  <2>6. QED
    BY <2>3, <2>4, <2>5, Whole DEF Frame
<1>6. QED
  BY <1>4, <1>5 DEF NextAttempt

\* The same when nothing was executed.
LEMMA RetryFailedAsItIs ==
  ASSUME LInv, NEW c \in Calls, call[c].at \in Retrying, NextAttempt(c) \/ Fails(c),
         UNCHANGED <<plan, session, withSessions, cancelled, ran>>
  PROVE  LInv'
<1>1. ran' \in [Calls -> RunRecord] /\ ran[c].tries \in Nat
  BY CallTypes DEF LInv, TypeOK, RunRecord
<1>2. ran[c].late <= 1 /\ (ran[c].late = 1 => c \in cancelled)
  BY DEF LInv, CallOK, LateIsSeen
<1>3. ran'[c].tries <= ran[c].tries + 1 /\ ran' = ran /\ UNCHANGED <<plan, session, withSessions, cancelled>>
  BY <1>1
<1>4. QED
  BY <1>1, <1>2, <1>3, RetryFailed

\* The wait before a retry ends, or the context does.
LEMMA BackoffKeeps ==
  ASSUME LInv, NEW c \in Calls, Backoff(c)
  PROVE  LInv'
<1>1. call[c].at \in Retrying /\ UNCHANGED <<plan, session, withSessions, cancelled, ran>>
  BY DEF Backoff, At, Retrying
<1>2. CASE c \in cancelled
  BY <1>1, <1>2, RetryFailedAsItIs DEF Backoff
<1>3. CASE c \notin cancelled
  <2>1. ran[c].late # 1
    BY <1>3 DEF LInv, CallOK, LateIsSeen
  <2>2. QED
    BY <1>1, <1>3, <2>1, RetryMoves DEF Backoff
<1>4. QED
  BY <1>2, <1>3

\* Selecting for a retry runs no tool.
LEMMA ReselectKeeps ==
  ASSUME LInv, NEW c \in Calls, Reselect(c)
  PROVE  LInv'
<1>1. /\ call[c].at = "reselect" /\ call[c].at \in Retrying
      /\ UNCHANGED <<plan, session, withSessions, cancelled, ran>>
  BY DEF Reselect, At, Retrying
<1>2. CASE Goes(c, "reexecute") /\ UNCHANGED state
  <2>1. ran[c].late # 1
    BY <1>1, NotLate
  <2>2. QED
    BY <1>1, <1>2, <2>1, RetryMoves
<1>3. CASE NextAttempt(c)
  BY <1>1, <1>3, RetryFailedAsItIs
<1>4. QED
  BY <1>2, <1>3 DEF Reselect

\* A further try is a further attempt.
LEMMA ReexecuteKeeps ==
  ASSUME LInv, NEW c \in Calls, Reexecute(c)
  PROVE  LInv'
<1>1. /\ call[c].at = "reexecute" /\ call[c].at \in Retrying
      /\ UNCHANGED <<plan, session, withSessions, cancelled>>
  BY DEF Reexecute, At, Retrying
<1>2. CASE Executed(c, TRUE) /\ StepDone(c) /\ UNCHANGED state
  <2>1. state' \in LoopStates
    BY <1>2 DEF LInv, TypeOK
  <2>2. QED
    BY <1>1, <1>2, <2>1, StepDoneKeeps
<1>3. CASE Executed(c, FALSE) /\ (NextAttempt(c) \/ Fails(c))
  <2>1. /\ ran' \in [Calls -> RunRecord] /\ \A d \in Calls \ {c} : ran'[d] = ran[d]
        /\ ran'[c].steps = ran[c].steps /\ ran'[c].tries = ran[c].tries + 1
        /\ ran'[c].late <= 1 /\ (ran'[c].late = 1 => c \in cancelled)
    BY <1>1, <1>3, FailedExecution
  <2>2. ran'[c].tries <= ran[c].tries + 1
    BY <2>1, CallTypes DEF LInv
  <2>3. QED
    BY <1>1, <1>3, <2>1, <2>2, RetryFailed
<1>4. QED
  BY <1>2, <1>3 DEF Reexecute

\* What follows the last step runs no tool.
LEMMA FinishKeeps ==
  ASSUME LInv, NEW c \in Calls, Finish(c)
  PROVE  LInv'
<1>1. session' \in SessionRecord
  BY SessionStates DEF LInv, Finish, LoopStates
<1>2. call' \in [Calls -> CallRecord] /\ CallOK(c)' /\ Frame(c)
  BY LeavingAsItIs DEF Finish, Returns
<1>3. TypeOK'
  BY <1>1, <1>2 DEF Finish, Returns, LInv, TypeOK, CallRecord, SessionRecord, LoopStates
<1>4. QED
  BY <1>2, <1>3, Whole

\* A call that leaves keeps what it has executed.
LEMMA LeaveKeeps ==
  ASSUME LInv, NEW c \in Calls, Leave(c)
  PROVE  LInv'
<1>1. [NewCall EXCEPT !.at = "done"] = [kind |-> "run", at |-> "done", plan |-> NoPlan,
                                       index |-> 1, attempt |-> 0]
  BY DEF NewCall
<1>2. [NewCall EXCEPT !.at = "done"] \in CallRecord /\ NewRecord \in RunRecord
  BY <1>1, EmptySeq, AgentAssumption DEF CallRecord, Kinds, Places, NewRecord, RunRecord
<1>3. /\ call' \in [Calls -> CallRecord] /\ ran' \in [Calls -> RunRecord]
      /\ call'[c].at = "done" /\ call'[c].plan = NoPlan /\ call'[c].index = 1
      /\ ran'[c] = NewRecord
      /\ \A d \in Calls \ {c} : call'[d] = call[d] /\ ran'[d] = ran[d]
  BY <1>1, <1>2 DEF Leave, LInv, TypeOK, CallRecord, RunRecord
<1>4. CallOK(c)'
  BY <1>3, AgentAssumption
     DEF CallOK, HasItsPlan, ExecutesItsPlan, TriesCounted, LateIsSeen, At,
         NewRecord, Ready, Executing, Retrying
<1>5. TypeOK'
  BY <1>3 DEF Leave, LInv, TypeOK, CallRecord, RunRecord, LoopStates
<1>6. QED
  BY <1>3, <1>4, <1>5, Whole DEF Frame, Leave

\* A context that ends is seen at the next check.
LEMMA CancelKeeps ==
  ASSUME LInv, NEW c \in Calls, Cancel(c)
  PROVE  LInv'
<1>1. TypeOK'
  BY DEF Cancel, LInv, TypeOK
<1>2. ASSUME NEW d \in Calls PROVE CallOK(d)'
  BY DEF Cancel, LInv, CallOK, HasItsPlan, ExecutesItsPlan, TriesCounted, LateIsSeen, At
<1>3. QED
  BY <1>1, <1>2 DEF LInv

\* The invariant is inductive.
LEMMA AgentNextKeeps ==
  ASSUME LInv, [AgentNext]_agentVars
  PROVE  LInv'
<1>1. CASE UNCHANGED agentVars
  <2>1. TypeOK'
    BY <1>1 DEF LInv, TypeOK, agentVars
  <2>2. ASSUME NEW c \in Calls PROVE CallOK(c)'
    BY <1>1 DEF LInv, CallOK, HasItsPlan, ExecutesItsPlan, TriesCounted, LateIsSeen, At, agentVars
  <2>3. QED
    BY <2>1, <2>2 DEF LInv
<1>2. ASSUME NEW c \in Calls, PlanSteps(c) PROVE LInv'
  BY <1>2, PlanKeeps, SetPlanKeeps, SetSessionStateKeeps DEF PlanSteps
<1>3. ASSUME NEW c \in Calls, ExecuteSteps(c) PROVE LInv'
  BY <1>3, NextStepKeeps, SelectKeeps, ExecuteKeeps, BackoffKeeps, ReselectKeeps,
     ReexecuteKeeps, FinishKeeps DEF ExecuteSteps
<1>4. ASSUME NEW c \in Calls, Step(c) \/ Cancel(c) PROVE LInv'
  <2>1. CASE Run(c)
    BY <1>2, <1>3, <2>1, BeginKeeps DEF Run, Kinds
  <2>2. CASE RunPlan(c)
    BY <1>2, <2>2, BeginKeeps DEF RunPlan, Kinds
  <2>3. CASE ApprovePlan(c)
    BY <1>3, <2>3, LoadKeeps, SetSessionStateKeeps DEF ApprovePlan
  <2>4. QED
    BY <1>4, <2>1, <2>2, <2>3, LeaveKeeps, CancelKeeps DEF Step
<1>5. QED
  BY <1>1, <1>4 DEF AgentNext

\* Each call has its own plan and has executed it up to its index.
LEMMA AgentInvariant == AgentSpec => []LInv
<1>1. AgentInit => LInv
  BY AgentInitOK
<1>2. LInv /\ [AgentNext]_agentVars => LInv'
  BY AgentNextKeeps
<1>3. QED
  BY <1>1, <1>2, PTL DEF AgentSpec

-----------------------------------------------------------------------------
\* Every variable keeps its type, and no call's attempt passes maxRetries.
THEOREM AgentType == AgentSpec => []TypeOK
<1>1. LInv => TypeOK
  BY DEF LInv
<1>2. QED
  BY <1>1, AgentInvariant, PTL

\* A step's tool is executed once and then at most maxRetries times
\* (SelfCorrector.maxRetries, Agent.retryStep), however its errors come.
THEOREM AgentRetriesBounded == AgentSpec => []RetriesBounded
<1>1. LInv => RetriesBounded
  BY DEF LInv, CallOK, TriesCounted, RetriesBounded
<1>2. QED
  BY <1>1, AgentInvariant, PTL

\* After its context has ended a call of Run or ApprovePlan executes at most
\* one more tool (the checks in executePlan and in the backoff).
THEOREM AgentCancelStops == AgentSpec => []CancelStops
<1>1. LInv => CancelStops
  BY DEF LInv, CallOK, LateIsSeen, CancelStops
<1>2. QED
  BY <1>1, AgentInvariant, PTL

\* What a call has executed is its own plan up to its index, whatever plans
\* the overlapping calls set (Agent.plan, Session.Plan).
THEOREM AgentOnePlan == AgentSpec => []OnePlan
<1>1. LInv => OnePlan
  BY DEF LInv, CallOK, ExecutesItsPlan, OnePlan
<1>2. QED
  BY <1>1, AgentInvariant, PTL

\* Only the end of executePlan marks the session completed.
LEMMA OnlyFinishCompletes ==
  ASSUME LInv, AgentNext, session.state # "completed", session'.state = "completed"
  PROVE  \E c \in Calls : Finish(c)
<1>1. SUFFICES ASSUME NEW c \in Calls, Step(c) \/ Cancel(c), ~Finish(c)
               PROVE  FALSE
  BY DEF AgentNext
<1>2. session \in SessionRecord
  BY DEF LInv, TypeOK, SessionRecord
<1>3. CASE UNCHANGED session
  BY <1>3
<1>4. CASE SetPlan(c)
  BY <1>2, <1>4 DEF SetPlan, SessionRecord
<1>5. CASE SetSessionState(c)
  <2>1. PICK s \in Stored(session.state, StateOf(call[c].kind)) :
           session' = [session EXCEPT !.state = s]
    BY <1>5 DEF SetSessionState
  <2>2. s # "completed"
    BY CallTypes DEF LInv, Stored, StateOf, Kinds
  <2>3. session'.state = s
    BY <1>2, <2>1 DEF SessionRecord
  <2>4. QED
    BY <2>2, <2>3
<1>6. QED
  BY <1>1, <1>3, <1>4, <1>5
     DEF Step, Run, RunPlan, ApprovePlan, PlanSteps, ExecuteSteps, Begin, Plan, Load,
         NextStep, Select, Execute, Backoff, Reselect, Reexecute, Leave, Cancel

\* The session becomes completed only when a call has executed all of its
\* plan: a cancellation, a failure and the iteration limit do not do it.
THEOREM AgentCompletedMeansAll == AgentSpec => CompletedMeansAll
<1> DEFINE Completes == session.state # "completed" /\ session'.state = "completed"
           AllDone == \E c \in Calls : At(c, "finish") /\ ran[c].steps = call[c].plan
<1>1. ASSUME LInv, [AgentNext]_agentVars, Completes
      PROVE  AllDone
  <2>1. AgentNext
    BY <1>1 DEF agentVars
  <2>2. PICK c \in Calls : Finish(c)
    BY <1>1, <2>1, OnlyFinishCompletes
  <2>3. At(c, "finish")
    BY <2>2 DEF Finish
  <2>4. /\ call[c].plan \in Plans /\ call[c].index = Len(call[c].plan) + 1
        /\ ran[c].steps = SubSeq(call[c].plan, 1, call[c].index - 1)
    BY <1>1, <2>3, AgentAssumption DEF LInv, CallOK, HasItsPlan, ExecutesItsPlan, At
  <2>5. call[c].plan \in Seq(Steps) /\ Len(call[c].plan) \in Nat
        /\ call[c].index - 1 = Len(call[c].plan)
    BY <2>4, PlanTypes
  <2>6. SubSeq(call[c].plan, 1, Len(call[c].plan)) = call[c].plan
    BY <2>5, SubSeqFull
  <2>7. QED
    BY <2>3, <2>4, <2>5, <2>6
<1>2. LInv /\ [AgentNext]_agentVars => [Completes => AllDone]_agentVars
  BY <1>1
<1>3. QED
  BY <1>2, AgentInvariant, PTL DEF AgentSpec, CompletedMeansAll
=============================================================================
