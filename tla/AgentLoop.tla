------------------------------ MODULE AgentLoop ------------------------------
(***************************************************************************)
(* The agent's loop (internal/agent): Run plans and executes, RunPlan      *)
(* plans and waits, ApprovePlan executes the plan the session holds.  The  *)
(* calls may overlap; they share the agent's state and plan and one        *)
(* session.  What the LLM and the tools answer is chosen freely, and so is *)
(* whether the session manager and the context manager fail.               *)
(*                                                                         *)
(* Left out: the text of messages and summaries, the length of a backoff.  *)
(***************************************************************************)
EXTENDS Naturals, Sequences, SequencesExt

CONSTANTS
    Calls,          \* the calls that are made
    Plans,          \* what the planner may answer: sequences of steps
    NoPlan,         \* no plan
    MaxIterations,  \* Agent.maxIterations
    MaxRetries      \* SelfCorrector.maxRetries

Steps == UNION {Range(p) : p \in Plans}

ASSUME AgentAssumption ==
    /\ \A p \in Plans : p \in Seq(Steps) /\ p # <<>> /\ p # NoPlan
    /\ MaxIterations \in Nat \ {0}
    /\ MaxRetries \in Nat \ {0}

VARIABLES
    state,          \* Agent.state
    plan,           \* Agent.plan
    session,        \* the plan and the state the session holds
    withSessions,   \* whether there is a session manager
    cancelled,      \* the calls whose context is cancelled
    call,           \* where each call is
    ran             \* what each call has executed: see NewRecord

agentVars == <<state, plan, session, withSessions, cancelled, call, ran>>

Kinds == {"run", "runPlan", "approve"}

LoopStates ==
    {"idle", "planning", "acting", "observing", "waiting_approval", "completed", "error"}

Places ==
    {"idle", "plan", "setPlan", "setState", "next", "select", "execute",
     "backoff", "reselect", "reexecute", "finish", "leaving", "done"}

NewCall ==
    [kind |-> "run", at |-> "idle", plan |-> NoPlan, index |-> 1, attempt |-> 0]

(* steps: those that succeeded; tries: how often the current step's tool    *)
(* was executed; late: how often a tool was after the context's end.        *)
NewRecord == [steps |-> <<>>, tries |-> 0, late |-> 0]

AgentInit ==
    /\ state = "idle"
    /\ plan = NoPlan
    /\ withSessions \in BOOLEAN
    /\ session = [plan |-> NoPlan, state |-> "idle"]
    /\ cancelled = {}
    /\ call = [c \in Calls |-> NewCall]
    /\ ran = [c \in Calls |-> NewRecord]

-----------------------------------------------------------------------------
(* Errors: of a type that says retry, of one that says give up, or of none; *)
(* with a text that names something transient, or not.                      *)
Errors == [type : {"retryable", "final", "none"}, signal : BOOLEAN]

IsRetryable(e) == e.type = "retryable" \/ (e.type = "none" /\ e.signal)

(* fmt.Errorf keeps the text and hides the type from a type assertion.      *)
Wrapped(e) == [e EXCEPT !.type = "none"]

(* The planner refuses an answer without steps, so Run and RunPlan never    *)
(* see an empty plan.                                                       *)
PlannerAnswers == {p \in Plans : p # <<>>}

(* The selector wraps whatever went wrong: the call, the stream, the text.  *)
SelectorErrors == {Wrapped(e) : e \in Errors}

At(c, place) == call[c].at = place

Goes(c, place) == call' = [call EXCEPT ![c].at = place]

(* Every return but the last ones of a call sets an end state; the deferred *)
(* setState comes after it.                                                 *)
Returns(c, s) ==
    /\ Goes(c, "leaving")
    /\ state' = s

Fails(c) == Returns(c, "error")

(* Its locals go with it.                                                   *)
Leave(c) ==
    /\ At(c, "leaving")
    /\ call' = [call EXCEPT ![c] = [NewCall EXCEPT !.at = "done"]]
    /\ ran' = [ran EXCEPT ![c] = NewRecord]
    /\ cancelled' = cancelled \ {c}
    /\ state' = "idle"
    /\ UNCHANGED <<plan, session, withSessions>>

Cancel(c) ==
    /\ ~At(c, "done")
    /\ c \notin cancelled
    /\ cancelled' = cancelled \union {c}
    /\ UNCHANGED <<state, plan, session, withSessions, call, ran>>

-----------------------------------------------------------------------------
(* BuildContext and AppendMessage.                                          *)
Begin(c, kind) ==
    /\ At(c, "idle")
    /\ \/ call' = [call EXCEPT ![c].kind = kind, ![c].at = "plan"] /\ state' = "planning"
       \/ Fails(c)
    /\ UNCHANGED <<plan, session, withSessions, cancelled, ran>>

(* planner.Plan: an error or a plan.                                        *)
Plan(c) ==
    /\ At(c, "plan")
    /\ \/ Fails(c) /\ UNCHANGED plan
       \/ \E p \in PlannerAnswers :
             /\ plan' = p
             /\ call' = [call EXCEPT ![c].plan = p, ![c].at = "setPlan"]
             /\ UNCHANGED state
    /\ UNCHANGED <<session, withSessions, cancelled, ran>>

(* What SetPlan and SetState leave in the session: a failure is only        *)
(* logged, and without a session manager nothing is called.                 *)
Stored(old, new) == IF withSessions THEN {old, new} ELSE {old}

SetPlan(c) ==
    /\ At(c, "setPlan")
    /\ \E p \in Stored(session.plan, call[c].plan) : session' = [session EXCEPT !.plan = p]
    /\ Goes(c, "setState")
    /\ UNCHANGED <<state, plan, withSessions, cancelled, ran>>

StateOf(k) ==
    CASE k = "run" -> "planning"
      [] k = "runPlan" -> "waiting_approval"
      [] k = "approve" -> "acting"

SetSessionState(c) ==
    /\ At(c, "setState")
    /\ \E s \in Stored(session.state, StateOf(call[c].kind)) :
          session' = [session EXCEPT !.state = s]
    /\ IF call[c].kind = "runPlan"
       THEN Returns(c, "waiting_approval")
       ELSE Goes(c, "next") /\ state' = "acting"
    /\ UNCHANGED <<plan, withSessions, cancelled, ran>>

(* ApprovePlan's first half: the session's plan, or the agent's without     *)
(* sessions, whatever the session's state is; then BuildContext.            *)
Load(c) ==
    LET p == IF withSessions THEN session.plan ELSE plan
    IN  /\ At(c, "idle")
        /\ \/ Fails(c)
           \/ /\ p # NoPlan
              /\ call' = [call EXCEPT ![c].kind = "approve", ![c].plan = p,
                                       ![c].at = "setState"]
              /\ state' = "acting"
        /\ UNCHANGED <<plan, session, withSessions, cancelled, ran>>

-----------------------------------------------------------------------------
(* The variant: the agent's plan, whoever set it.                           *)
AgentsCurrent(c) == plan[call[c].index]

Current(c) == call[c].plan[call[c].index]

(* The variant: the budget ends the plan.                                   *)
PlanOrBudgetDone(c) == call[c].index > Len(call[c].plan) \/ call[c].index > MaxIterations

PlanDone(c) == call[c].index > Len(call[c].plan)

(* The head of the loop over the steps.                                     *)
NextStep(c) ==
    /\ At(c, "next")
    /\ \/ PlanDone(c) /\ Goes(c, "finish") /\ UNCHANGED state
       \/ ~PlanDone(c) /\ c \in cancelled /\ Fails(c)
       \/ /\ ~PlanDone(c) /\ c \notin cancelled
          /\ IF call[c].index > MaxIterations
             THEN Returns(c, "completed")
             ELSE Goes(c, "select") /\ UNCHANGED state
    /\ ran' = [ran EXCEPT ![c].tries = 0]
    /\ UNCHANGED <<plan, session, withSessions, cancelled>>

(* executeStep returned e and left the agent in state s.                    *)
StepFailed(c, e, s) ==
    IF IsRetryable(e)
    THEN call' = [call EXCEPT ![c].at = "backoff", ![c].attempt = 1] /\ state' = s
    ELSE Fails(c)

StepDone(c) ==
    call' = [call EXCEPT ![c].at = "next", ![c].index = @ + 1, ![c].attempt = 0]

Select(c) ==
    /\ At(c, "select")
    /\ \/ Goes(c, "execute") /\ state' = "acting"
       \/ \E e \in SelectorErrors : StepFailed(c, Wrapped(e), state)
    /\ UNCHANGED <<plan, session, withSessions, cancelled, ran>>

Executed(c, ok) ==
    ran' = [ran EXCEPT ![c].tries = @ + 1,
                       ![c].late = IF c \in cancelled THEN @ + 1 ELSE @,
                       ![c].steps = IF ok THEN Append(@, Current(c)) ELSE @]

(* executeStep from Execute on: the tool succeeds; Execute returns an       *)
(* error; the result says failure, an error without a type.                 *)
Execute(c) ==
    /\ At(c, "execute")
    /\ \/ Executed(c, TRUE) /\ StepDone(c) /\ state' = "observing"
       \/ Executed(c, FALSE) /\ \E e \in Errors : StepFailed(c, Wrapped(e), state)
       \/ Executed(c, FALSE) /\ \E e \in Errors : e.type = "none" /\ StepFailed(c, e, "observing")
    /\ UNCHANGED <<plan, session, withSessions, cancelled>>

-----------------------------------------------------------------------------
(* retryStep.                                                               *)
(* The variant: the wait does not look at the context.                      *)
BackoffBlind(c) ==
    /\ At(c, "backoff")
    /\ Goes(c, "reselect")
    /\ UNCHANGED <<state, plan, session, withSessions, cancelled, ran>>

Backoff(c) ==
    /\ At(c, "backoff")
    /\ IF c \in cancelled
       THEN Fails(c)
       ELSE Goes(c, "reselect") /\ UNCHANGED state
    /\ UNCHANGED <<plan, session, withSessions, cancelled, ran>>

(* The variant: one attempt too many.                                       *)
OneMoreAttempt(c) ==
    IF call[c].attempt <= MaxRetries
    THEN call' = [call EXCEPT ![c].at = "backoff", ![c].attempt = @ + 1] /\ UNCHANGED state
    ELSE Fails(c)

NextAttempt(c) ==
    IF call[c].attempt < MaxRetries
    THEN call' = [call EXCEPT ![c].at = "backoff", ![c].attempt = @ + 1] /\ UNCHANGED state
    ELSE Fails(c)

Reselect(c) ==
    /\ At(c, "reselect")
    /\ \/ Goes(c, "reexecute") /\ UNCHANGED state
       \/ NextAttempt(c)
    /\ UNCHANGED <<plan, session, withSessions, cancelled, ran>>

(* Here the error has its type; a result that says failure is retried       *)
(* whatever it says.                                                        *)
Reexecute(c) ==
    /\ At(c, "reexecute")
    /\ \/ Executed(c, TRUE) /\ StepDone(c) /\ UNCHANGED state
       \/ /\ Executed(c, FALSE)
          /\ \/ NextAttempt(c)
             \/ \E e \in Errors : ~IsRetryable(e) /\ Fails(c)
    /\ UNCHANGED <<plan, session, withSessions, cancelled>>

(* buildSummary and the end.                                                *)
Finish(c) ==
    /\ At(c, "finish")
    /\ \E s \in Stored(session.state, "completed") : session' = [session EXCEPT !.state = s]
    /\ Returns(c, "completed")
    /\ UNCHANGED <<plan, withSessions, cancelled, ran>>

-----------------------------------------------------------------------------
PlanSteps(c) == Plan(c) \/ SetPlan(c) \/ SetSessionState(c)

ExecuteSteps(c) ==
    \/ NextStep(c) \/ Select(c) \/ Execute(c)
    \/ Backoff(c) \/ Reselect(c) \/ Reexecute(c)
    \/ Finish(c)

Run(c) ==
    \/ Begin(c, "run")
    \/ call[c].kind = "run" /\ (PlanSteps(c) \/ ExecuteSteps(c))

RunPlan(c) ==
    \/ Begin(c, "runPlan")
    \/ call[c].kind = "runPlan" /\ PlanSteps(c)

ApprovePlan(c) ==
    \/ Load(c)
    \/ call[c].kind = "approve" /\ (SetSessionState(c) \/ ExecuteSteps(c))

Step(c) == Run(c) \/ RunPlan(c) \/ ApprovePlan(c) \/ Leave(c)

AgentNext == \E c \in Calls : Step(c) \/ Cancel(c)

AgentSpec == AgentInit /\ [][AgentNext]_agentVars

-----------------------------------------------------------------------------
TypeOK ==
    /\ state \in LoopStates
    /\ plan \in Plans \union {NoPlan}
    /\ session \in [plan : Plans \union {NoPlan}, state : LoopStates]
    /\ withSessions \in BOOLEAN
    /\ cancelled \subseteq Calls
    /\ call \in [Calls -> [kind : Kinds, at : Places, plan : Plans \union {NoPlan},
                          index : Nat \ {0}, attempt : 0 .. MaxRetries]]
    /\ ran \in [Calls -> [steps : Seq(Steps), tries : Nat, late : Nat]]

(* A step's tool is executed once and then at most MaxRetries times, with   *)
(* whatever mix of selections that fail, errors and failed results          *)
(* (loop.go:245), and never after a success.                                *)
RetriesBounded == \A c \in Calls : ran[c].tries <= 1 + MaxRetries

(* After its context has ended a call executes at most one more tool: the   *)
(* head of the loop and the backoff look at the context, the selection in   *)
(* between need not (loop.go:144, 246).                                     *)
CancelStops == \A c \in Calls : ran[c].late <= 1

(* A call executes one plan, in order, without a gap or a repetition,       *)
(* although other calls replace the agent's and the session's plan under    *)
(* it (loop.go:127, plan_mode.go:83).                                       *)
OnePlan ==
    \A c \in Calls :
        call[c].plan # NoPlan => ran[c].steps = SubSeq(call[c].plan, 1, call[c].index - 1)

(* The session is marked completed only by a call that has executed every   *)
(* step of its plan: not on a cancellation, a failure or the iteration      *)
(* limit (loop.go:155, 191).                                                *)
CompletedMeansAll ==
    [][session.state # "completed" /\ session'.state = "completed"
         => \E c \in Calls : At(c, "finish") /\ ran[c].steps = call[c].plan]_agentVars
=============================================================================
