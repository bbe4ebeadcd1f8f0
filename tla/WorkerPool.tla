----------------------------- MODULE WorkerPool -----------------------------
(***************************************************************************)
(* The sub-agent orchestrator of internal/subagent and its worker pool: a   *)
(* Dispatch starts the pool if there is none, a goroutine of its own pushes *)
(* the tasks, the call collects as many results as it pushed tasks; each    *)
(* worker makes a worktree for its task, runs an agent (which does not work *)
(* there: Workplace), and merges or abandons the worktree; CancelAll stops  *)
(* the pool.  With it the worktree manager's Create, Merge and Abandon as   *)
(* the workers call them (one step each: Manager.mu is held throughout).    *)
(***************************************************************************)
EXTENDS Naturals, Sequences, FiniteSets

CONSTANTS
    Workers,      \* the workers of a pool
    Dispatchers,  \* one for each call of Dispatch
    Tasks,        \* task ids
    Batch,        \* the tasks of each call, in order
    Flaky,        \* the tasks for which git or the agent may fail unprompted
    Impatient,    \* the calls whose context may be cancelled
    Capacity,     \* of each of the two channels (the code: twice the workers)
    MaxPools      \* bound: pools made over a behaviour

ASSUME WorkerPoolAssumption ==
    /\ Batch \in [Dispatchers -> Seq(Tasks) \ {<<>>}]
    /\ Impatient \subseteq Dispatchers /\ Flaky \subseteq Tasks
    /\ Capacity \in Nat \ {0} /\ MaxPools \in Nat /\ IsFiniteSet(Workers)

Pools == 1 .. MaxPools
NoPool == 0

VARIABLES
    pool,     \* Orchestrator.pool (started is pool # NoPool)
    made,     \* pools made so far
    mu,       \* Orchestrator.mu is held by CancelAll
    chans,    \* for each pool: its two channels, stopped and the context
    workers,  \* for each pool and worker: where its goroutine is
    calls,    \* each Dispatch: its pool and what it has collected
    pushers,  \* each Dispatch's pushing goroutine: the jobs it has left
    cancel,   \* where CancelAll is
    trees     \* each task's worktree directory, branch and metadata entry

vars == <<pool, made, mu, chans, workers, calls, pushers, cancel, trees>>

-----------------------------------------------------------------------------
\* A job is a task of a call (its place in the batch tells two equal ids apart);
\* the code passes the task on without the rest.  What a result says (Success,
\* Output, Error) is left out: a result is the job it answers.
Job == [by : Dispatchers, at : Nat, task : Tasks]
Jobs(d) == [i \in 1 .. Len(Batch[d]) |-> [by |-> d, at |-> i, task |-> Batch[d][i]]]
NoJob == [by |-> CHOOSE d \in Dispatchers : TRUE, at |-> 0, task |-> CHOOSE t \in Tasks : TRUE]
Without(pc) == [pc |-> pc, job |-> NoJob]
AtWork == {"create", "run", "merge", "abandon", "send"}

RoomForOneMore(q) == Len(q) <= Capacity
Room(q) == Len(q) < Capacity

Init ==
    /\ pool = NoPool /\ made = 0 /\ mu = FALSE
    /\ chans = [g \in Pools |-> [stopped |-> FALSE, closed |-> FALSE, cancelled |-> FALSE,
                                 resultsClosed |-> FALSE, tasks |-> <<>>, results |-> <<>>]]
    /\ workers = [g \in Pools |-> [w \in Workers |-> Without("unborn")]]
    /\ calls = [d \in Dispatchers |-> [pc |-> "new", pool |-> NoPool, results |-> <<>>]]
    /\ pushers = [d \in Dispatchers |-> [pc |-> "unborn", left |-> <<>>]]
    /\ cancel = "idle"
    /\ trees = [t \in Tasks |-> [dir |-> FALSE, branch |-> FALSE, entry |-> "none"]]

\* Under Orchestrator.mu: take the pool or make one (its client factory may
\* fail), then start the pushing goroutine and collect.
Join(d, g) ==
    /\ calls' = [calls EXCEPT ![d].pc = "collect", ![d].pool = g]
    /\ pushers' = [pushers EXCEPT ![d] = [pc |-> "push", left |-> Jobs(d)]]

Dispatch(d) ==
    /\ calls[d].pc = "new" /\ ~mu /\ pool # NoPool
    /\ Join(d, pool)
    /\ UNCHANGED <<pool, made, mu, chans, workers, cancel, trees>>

DispatchFirst(d) ==
    /\ calls[d].pc = "new" /\ ~mu /\ pool = NoPool /\ made < MaxPools
    /\ made' = made + 1
    /\ \/ /\ pool' = made + 1
          /\ workers' = [workers EXCEPT ![made + 1] = [w \in Workers |-> Without("select")]]
          /\ Join(d, made + 1)
       \/ /\ calls' = [calls EXCEPT ![d].pc = "failed"]
          /\ UNCHANGED <<pool, workers, pushers>>
    /\ UNCHANGED <<mu, chans, cancel, trees>>

\* Submit, in the pushing goroutine: select between stopped and the send.  Once
\* Stop has closed both channels either case may be chosen, and a send on a
\* closed channel panics: nothing recovers it.
Repeated(q) == q
Pushed(q) == Tail(q)

Submit(d) ==
    LET g == calls[d].pool
        left == pushers[d].left
    IN /\ pushers[d].pc = "push" /\ left # <<>>
       /\ ~chans[g].closed /\ Room(chans[g].tasks)
       /\ chans' = [chans EXCEPT ![g].tasks = Append(@, Head(left))]
       /\ pushers' = [pushers EXCEPT ![d].left = Pushed(left)]
       /\ UNCHANGED <<pool, made, mu, workers, calls, cancel, trees>>

SubmitStopped(d) ==
    LET g == calls[d].pool
    IN /\ pushers[d].pc = "push" /\ pushers[d].left # <<>>
       /\ chans[g].stopped
       /\ \/ pushers' = [pushers EXCEPT ![d].pc = "done"]
          \/ chans[g].closed /\ pushers' = [pushers EXCEPT ![d].pc = "panic"]
       /\ UNCHANGED <<pool, made, mu, chans, workers, calls, cancel, trees>>

\* Dispatch collects one result from the pool's channel, whoever pushed the task.
Collect(d) ==
    LET g == calls[d].pool
        got == Append(calls[d].results, Head(chans[g].results))
    IN /\ calls[d].pc = "collect" /\ chans[g].results # <<>>
       /\ chans' = [chans EXCEPT ![g].results = Tail(@)]
       /\ calls' = [calls EXCEPT ![d].results = got,
                                 ![d].pc = IF Len(got) < Len(Batch[d]) THEN @ ELSE "returned"]
       /\ UNCHANGED <<pool, made, mu, workers, pushers, cancel, trees>>

CollectClosed(d) ==
    LET g == calls[d].pool
    IN /\ calls[d].pc = "collect"
       /\ chans[g].results = <<>> /\ chans[g].resultsClosed
       /\ calls' = [calls EXCEPT ![d].pc = "failed"]
       /\ UNCHANGED <<pool, made, mu, chans, workers, pushers, cancel, trees>>

\* Its context is cancelled: it returns what it has; the tasks stay in the pool.
GiveUp(d) ==
    /\ calls[d].pc = "collect" /\ d \in Impatient
    /\ calls' = [calls EXCEPT ![d].pc = "failed"]
    /\ UNCHANGED <<pool, made, mu, chans, workers, pushers, cancel, trees>>

-----------------------------------------------------------------------------
At(g, w, pc) == workers[g][w].pc = pc
Go(g, w, pc) == workers' = [workers EXCEPT ![g][w].pc = pc]

\* The worker's loop: the context is cancelled, or the closed channel is drained.
Leave(g, w) ==
    /\ At(g, w, "select")
    /\ chans[g].cancelled \/ (chans[g].closed /\ chans[g].tasks = <<>>)
    /\ Go(g, w, "exited")
    /\ UNCHANGED <<pool, made, mu, chans, calls, pushers, cancel, trees>>

StillThere(q) == q
Received(q) == Tail(q)

Take(g, w) ==
    /\ At(g, w, "select") /\ chans[g].tasks # <<>>
    /\ chans' = [chans EXCEPT ![g].tasks = Received(@)]
    /\ workers' = [workers EXCEPT ![g][w].pc = "create", ![g][w].job = Head(chans[g].tasks)]
    /\ UNCHANGED <<pool, made, mu, calls, pushers, cancel, trees>>

\* Manager.Create: the directory must not exist, and git refuses a branch name
\* that is taken.  A git that fails or is killed by the context, or an entry that
\* cannot be saved, may leave the branch, or the branch and the directory.
AnyState(t) == TRUE
NoDirectory(t) == ~trees[t].dir
Fresh(t) == ~trees[t].dir /\ ~trees[t].branch

Create(g, w) ==
    LET t == workers[g][w].job.task
    IN /\ At(g, w, "create")
       /\ \/ /\ Fresh(t) /\ ~chans[g].cancelled
             /\ trees' = [trees EXCEPT ![t] = [dir |-> TRUE, branch |-> TRUE, entry |-> "active"]]
             /\ Go(g, w, "run")
          \/ /\ \/ ~Fresh(t) /\ UNCHANGED trees
                \/ /\ Fresh(t) /\ (chans[g].cancelled \/ t \in Flaky)
                   /\ \E left \in {{}, {"branch"}, {"branch", "dir"}} :
                         trees' = [trees EXCEPT ![t].dir = @ \/ "dir" \in left,
                                                ![t].branch = @ \/ "branch" \in left]
             /\ Go(g, w, "send")
       /\ UNCHANGED <<pool, made, mu, chans, calls, pushers, cancel>>

\* The agent runs: success, or an error, a timeout or the pool's cancellation.
\* It does not work in the worktree: executeTask drops the path that Create
\* returned, and gives every agent the program's own tool registry, whose tools
\* work where the program was started.
MainDirectory == [dir |-> "main"]
Workplace(g, w) == MainDirectory

Run(g, w) ==
    /\ At(g, w, "run")
    /\ \/ Go(g, w, "merge")
       \/ /\ chans[g].cancelled \/ workers[g][w].job.task \in Flaky
          /\ Go(g, w, "abandon")
    /\ UNCHANGED <<pool, made, mu, chans, calls, pushers, cancel, trees>>

\* Manager.Merge: of an active entry only.  A conflict or a cancelled context is
\* logged, and the result says success all the same.
Merge(g, w) ==
    LET t == workers[g][w].job.task
    IN /\ At(g, w, "merge")
       /\ \/ trees[t].entry = "active" /\ trees' = [trees EXCEPT ![t].entry = "merged"]
          \/ /\ trees[t].entry # "active" \/ chans[g].cancelled \/ t \in Flaky
             /\ UNCHANGED trees
       /\ Go(g, w, "send")
       /\ UNCHANGED <<pool, made, mu, chans, calls, pushers, cancel>>

\* Manager.Abandon: the directory goes (not by the context's leave), the branch
\* stays.  It may fail to remove the directory, or then to save the entry.
Abandon(g, w) ==
    LET t == workers[g][w].job.task
    IN /\ At(g, w, "abandon")
       /\ \/ trees' = [trees EXCEPT ![t].dir = FALSE, ![t].entry = "abandoned"]
          \/ /\ t \in Flaky
             /\ trees' = [trees EXCEPT ![t].dir = FALSE] \/ UNCHANGED trees
       /\ Go(g, w, "send")
       /\ UNCHANGED <<pool, made, mu, chans, calls, pushers, cancel>>

\* The result goes to the channel, or is dropped when the context is cancelled.
Send(g, w) ==
    /\ At(g, w, "send") /\ Room(chans[g].results)
    /\ chans' = [chans EXCEPT ![g].results = Append(@, workers[g][w].job)]
    /\ workers' = [workers EXCEPT ![g][w] = Without("select")]
    /\ UNCHANGED <<pool, made, mu, calls, pushers, cancel, trees>>

Stubborn(g) == FALSE
Released(g) == chans[g].cancelled

Drop(g, w) ==
    /\ At(g, w, "send") /\ Released(g)
    /\ workers' = [workers EXCEPT ![g][w] = Without("exited")]
    /\ UNCHANGED <<pool, made, mu, chans, calls, pushers, cancel, trees>>

-----------------------------------------------------------------------------
\* CancelAll takes Orchestrator.mu and keeps it while Stop runs.
CancelAll ==
    /\ cancel = "idle" /\ ~mu /\ pool # NoPool
    /\ mu' = TRUE /\ cancel' = "stopped"
    /\ UNCHANGED <<pool, made, chans, workers, calls, pushers, trees>>

CloseStopped ==
    /\ cancel = "stopped"
    /\ chans' = [chans EXCEPT ![pool].stopped = TRUE]
    /\ cancel' = "tasks"
    /\ UNCHANGED <<pool, made, mu, workers, calls, pushers, trees>>

CloseTasks ==
    /\ cancel = "tasks"
    /\ chans' = [chans EXCEPT ![pool].closed = TRUE]
    /\ cancel' = "context"
    /\ UNCHANGED <<pool, made, mu, workers, calls, pushers, trees>>

CancelContext ==
    /\ cancel = "context"
    /\ chans' = [chans EXCEPT ![pool].cancelled = TRUE]
    /\ cancel' = "wait"
    /\ UNCHANGED <<pool, made, mu, workers, calls, pushers, trees>>

\* wg.Wait, then the results are closed, the pool is forgotten and mu released.
NobodyAwaited(g) == TRUE
AllExited(g) == \A w \in Workers : At(g, w, "exited")
LeftOpen == FALSE
Closed == TRUE

Stopped ==
    /\ cancel = "wait" /\ AllExited(pool)
    /\ chans' = [chans EXCEPT ![pool].resultsClosed = Closed]
    /\ pool' = NoPool /\ mu' = FALSE /\ cancel' = "idle"
    /\ UNCHANGED <<made, workers, calls, pushers, trees>>

-----------------------------------------------------------------------------
Panicked == \E d \in Dispatchers : pushers[d].pc = "panic"

DispatchStep(d) ==
    \/ Dispatch(d) \/ DispatchFirst(d) \/ Submit(d) \/ SubmitStopped(d)
    \/ Collect(d)  \/ CollectClosed(d) \/ GiveUp(d)

WorkerStep(g, w) ==
    \/ Leave(g, w) \/ Take(g, w)    \/ Create(g, w) \/ Run(g, w)
    \/ Merge(g, w) \/ Abandon(g, w) \/ Send(g, w)   \/ Drop(g, w)

StopStep == CloseStopped \/ CloseTasks \/ CancelContext \/ Stopped

\* A panic is the end of the process.
Next ==
    /\ ~Panicked
    /\ \/ \E d \in Dispatchers : DispatchStep(d)
       \/ \E g \in Pools, w \in Workers : WorkerStep(g, w)
       \/ CancelAll
       \/ StopStep

\* As long as some goroutine of the program can run, one does: a pusher, a
\* collector, a worker or a Stop under way.  Nobody has to call Dispatch or
\* CancelAll, or to cancel a context.  An agent's run ends because its context has
\* a timeout.  (Nothing here can go round in circles, the tasks are finite: being
\* fair to each goroutine would say no more.)
Running ==
    /\ ~Panicked
    /\ \/ \E d \in Dispatchers : Submit(d) \/ SubmitStopped(d) \/ Collect(d) \/ CollectClosed(d)
       \/ \E g \in Pools, w \in Workers : WorkerStep(g, w)
       \/ StopStep

Spec == Init /\ [][Next]_vars /\ WF_vars(Running)

-----------------------------------------------------------------------------
TypeOK ==
    /\ pool \in Pools \cup {NoPool} /\ made \in 0 .. MaxPools /\ mu \in BOOLEAN
    /\ \A g \in Pools :
          /\ chans[g].tasks \in Seq(Job) /\ Len(chans[g].tasks) <= Capacity
          /\ chans[g].results \in Seq(Job) /\ Len(chans[g].results) <= Capacity
          /\ \A w \in Workers :
                workers[g][w].pc \in AtWork \cup {"unborn", "select", "exited"}
    /\ calls \in [Dispatchers -> [pc : {"new", "collect", "returned", "failed"},
                                  pool : Pools \cup {NoPool}, results : Seq(Job)]]
    /\ pushers \in [Dispatchers -> [pc : {"unborn", "push", "done", "panic"}, left : Seq(Job)]]
    /\ cancel \in {"idle", "stopped", "tasks", "context", "wait"}
    /\ trees \in [Tasks -> [dir : BOOLEAN, branch : BOOLEAN,
                            entry : {"none", "active", "merged", "abandoned"}]]

Occurs(q, j) == {i \in DOMAIN q : q[i] = j}

\* The places a job of call d is in.
Places(d, j) ==
    LET g == calls[d].pool
    IN Cardinality(Occurs(pushers[d].left, j))
       + Cardinality(Occurs(chans[g].tasks, j))
       + Cardinality({w \in Workers : workers[g][w].pc \in AtWork /\ workers[g][w].job = j})
       + Cardinality(Occurs(chans[g].results, j))
       + Cardinality({e \in Dispatchers : Occurs(calls[e].results, j) # {}})

\* No job is lost or run twice: until the pool is stopped it is in exactly one
\* place on its way from the pusher to a collector, and afterwards in at most one.
JobInOnePlace ==
    \A d \in Dispatchers : calls[d].pool # NoPool =>
        \A i \in DOMAIN Jobs(d) :
            /\ Places(d, Jobs(d)[i]) <= 1
            /\ ~chans[calls[d].pool].stopped => Places(d, Jobs(d)[i]) = 1

\* When the result channel is closed, and when CancelAll has returned, no worker
\* of that pool runs any more: no send meets a closed channel, and no agent
\* outlives CancelAll.
NoWorkerOutlivesStop ==
    \A g \in Pools : chans[g].resultsClosed \/ (g <= made /\ g # pool)
        => \A w \in Workers : workers[g][w].pc \in {"exited", "unborn"}

\* A worktree has one owner from its Create to its Merge or Abandon: no other
\* worker, of any pool, merges or abandons it, even when two calls dispatch the
\* same task id.  (Whose changes are in it is another matter: AgentsApart.)
OneOwner ==
    \A g, h \in Pools : \A v, w \in Workers :
        /\ <<g, v>> # <<h, w>>
        /\ workers[g][v].pc \in {"run", "merge", "abandon"}
        /\ workers[h][w].pc \in {"run", "merge", "abandon"}
        => workers[g][v].job.task # workers[h][w].job.task

\* What was merged or abandoned stays so: a later task with the same id can
\* neither take it up again nor merge what was given up.
SettledTreeStays ==
    [][\A t \in Tasks : trees[t].entry \in {"merged", "abandoned"}
          => trees'[t] = trees[t]]_vars

\* A call that had the pool to itself and was not refused returns the result of
\* each of its own tasks, once.
OwnResultsWhenAlone ==
    \A d \in Dispatchers :
        /\ calls[d].pc = "returned"
        /\ \A e \in Dispatchers \ {d} : calls[e].pool # calls[d].pool
        => {calls[d].results[i] : i \in DOMAIN calls[d].results}
               = {Jobs(d)[i] : i \in DOMAIN Jobs(d)}

\* Every Dispatch returns, unless the process dies: when some are waiting for
\* results a time comes when none is (the calls are finitely many, so that is the
\* same as saying it of each).
DispatchReturns ==
    (\E d \in Dispatchers : calls[d].pc = "collect")
        ~> (\A d \in Dispatchers : calls[d].pc # "collect") \/ Panicked

\* Every CancelAll returns, whatever the workers are in the middle of and however
\* full the channels are.
CancelReturns == cancel # "idle" ~> cancel = "idle" \/ Panicked

\* Submit's comment: it returns false if the pool is stopped.
SubmitReturnsFalseWhenStopped == ~Panicked

\* The interface: Dispatch returns the result of each of its sub-tasks.
ReturnsResultOfEachTask ==
    \A d \in Dispatchers : calls[d].pc = "returned" =>
        {calls[d].results[i] : i \in DOMAIN calls[d].results}
            = {Jobs(d)[i] : i \in DOMAIN Jobs(d)}

\* The requirement F-WT-002: each agent works in its own worktree, undisturbed
\* by the others.  It is not what executeTask does (Workplace).
AgentsApart ==
    \A g, h \in Pools : \A v, w \in Workers :
        <<g, v>> # <<h, w>> /\ At(g, v, "run") /\ At(h, w, "run")
        => Workplace(g, v) # Workplace(h, w)
=============================================================================
