---------------------------- MODULE WorkerProofs ----------------------------
(***************************************************************************)
(* What the pool promises, for any number of workers, calls, tasks and     *)
(* pools and any capacity of the channels: one owner of a worktree, that   *)
(* Stop leaves no worker behind, and that no job is lost or run twice on   *)
(* its way.                                                                *)
(***************************************************************************)
EXTENDS WorkerPool, SequenceTheorems, FiniteSetTheorems, TLAPS

ChanStates == [stopped : BOOLEAN, closed : BOOLEAN, cancelled : BOOLEAN,
               resultsClosed : BOOLEAN, tasks : Seq(Job), results : Seq(Job)]
WorkerStates == [pc : AtWork \cup {"unborn", "select", "exited"}, job : Job \cup {NoJob}]
CallStates == [pc : {"new", "collect", "returned", "failed"},
               pool : Pools \cup {NoPool}, results : Seq(Job)]
PusherStates == [pc : {"unborn", "push", "done", "panic"}, left : Seq(Job)]
TreeStates == [dir : BOOLEAN, branch : BOOLEAN,
               entry : {"none", "active", "merged", "abandoned"}]

Types ==
    /\ pool \in Pools \cup {NoPool} /\ made \in 0 .. MaxPools /\ mu \in BOOLEAN
    /\ chans \in [Pools -> ChanStates]
    /\ workers \in [Pools -> [Workers -> WorkerStates]]
    /\ calls \in [Dispatchers -> CallStates]
    /\ pushers \in [Dispatchers -> PusherStates]
    /\ cancel \in {"idle", "stopped", "tasks", "context", "wait"}
    /\ trees \in [Tasks -> TreeStates]

Bounded == \A g \in Pools : Len(chans[g].tasks) <= Capacity /\ Len(chans[g].results) <= Capacity

\* A worker that has taken a task has one.
HasItsJob ==
    \A g \in Pools, w \in Workers : workers[g][w].pc \in AtWork => workers[g][w].job \in Job

\* A call that pushes or collects has a pool to do it with.
HasItsPool ==
    \A d \in Dispatchers :
        calls[d].pc \in {"collect", "returned"} \/ pushers[d].pc # "unborn"
            => calls[d].pool \in Pools

\* CancelAll keeps mu, so nobody takes the pool from under it.
StopsThePool == (cancel # "idle" <=> mu) /\ (mu => pool \in Pools)

\* A pool whose results are closed has been made and is no longer in use.
ClosedIsOver == \A g \in Pools : chans[g].resultsClosed => g <= made /\ g # pool
UnmadeIsUnborn == \A g \in Pools : g > made => \A w \in Workers : At(g, w, "unborn")
PoolWasMade == pool <= made

\* Whoever is in a worktree is there alone, and its entry is active; an entry
\* has its branch, which is never removed and so keeps the id from being reused.
InTree(g, w) == workers[g][w].pc \in {"run", "merge", "abandon"}
InActiveTree ==
    \A g \in Pools, w \in Workers : InTree(g, w) => trees[workers[g][w].job.task].entry = "active"
BranchStays == \A t \in Tasks : trees[t].entry # "none" => trees[t].branch


Shape == Types /\ Bounded /\ HasItsJob /\ HasItsPool /\ StopsThePool
Life == ClosedIsOver /\ UnmadeIsUnborn /\ PoolWasMade /\ NoWorkerOutlivesStop
Tree == InActiveTree /\ BranchStays /\ OneOwner
WInv == Shape /\ Life /\ Tree

-----------------------------------------------------------------------------
(*************************** what steps come to **************************)

Becomes(g, w, s) == workers' = [workers EXCEPT ![g][w] = s]
HasBecome(g, w, s) ==
    /\ workers' \in [Pools -> [Workers -> WorkerStates]]
    /\ workers'[g][w] = s
    /\ \A h \in Pools, v \in Workers : h # g \/ v # w => workers'[h][v] = workers[h][v]

\* One worker's goroutine moves.
LEMMA OneWorker ==
  ASSUME Types, NEW g \in Pools, NEW w \in Workers, NEW s \in WorkerStates, Becomes(g, w, s)
  PROVE  HasBecome(g, w, s)
<1>1. workers \in [Pools -> [Workers -> WorkerStates]]
  BY DEF Types
<1>2. workers[g] \in [Workers -> WorkerStates]
  BY <1>1
<1> DEFINE row == [workers[g] EXCEPT ![w] = s]
<1>3. /\ row \in [Workers -> WorkerStates] /\ row[w] = s
      /\ \A v \in Workers : v # w => row[v] = workers[g][v]
  BY <1>2
<1>4. workers' = [workers EXCEPT ![g] = row]
  BY DEF Becomes
<1> HIDE DEF row
<1>5. QED
  BY <1>1, <1>3, <1>4 DEF HasBecome

\* A worker that goes on keeps its job.
LEMMA WorkerGoes ==
  ASSUME Types, NEW g \in Pools, NEW w \in Workers,
         NEW pc \in AtWork \cup {"unborn", "select", "exited"}, Go(g, w, pc)
  PROVE  /\ workers' \in [Pools -> [Workers -> WorkerStates]]
         /\ workers'[g][w].pc = pc /\ workers'[g][w].job = workers[g][w].job
         /\ \A h \in Pools, v \in Workers : h # g \/ v # w => workers'[h][v] = workers[h][v]
<1> DEFINE s == [workers[g][w] EXCEPT !.pc = pc]
<1>1. workers \in [Pools -> [Workers -> WorkerStates]]
  BY DEF Types
<1>2. workers[g][w] \in WorkerStates
  BY <1>1
<1>3. s \in WorkerStates /\ s.pc = pc /\ s.job = workers[g][w].job
  BY <1>2 DEF WorkerStates
<1>4. Becomes(g, w, s)
  BY Zenon DEF Go, Becomes
<1> HIDE DEF s
<1>5. /\ workers' \in [Pools -> [Workers -> WorkerStates]] /\ workers'[g][w] = s
      /\ \A h \in Pools, v \in Workers : h # g \/ v # w => workers'[h][v] = workers[h][v]
  <2>1. HasBecome(g, w, s)
    BY <1>3, <1>4, OneWorker
  <2>2. QED
    BY <2>1 DEF HasBecome
<1>6. QED
  BY <1>3, <1>5

\* Nothing of a pool's life changes.
LEMMA LifeKept ==
  ASSUME Life, UNCHANGED <<pool, made>>,
         \A g \in Pools : chans'[g].resultsClosed = chans[g].resultsClosed,
         \A g \in Pools, w \in Workers :
             workers[g][w].pc \in {"exited", "unborn"} => workers'[g][w] = workers[g][w]
  PROVE  Life'
<1>1. ClosedIsOver' /\ PoolWasMade'
  BY DEF Life, ClosedIsOver, PoolWasMade
<1>2. UnmadeIsUnborn'
  BY DEF Life, UnmadeIsUnborn, At
<1>3. NoWorkerOutlivesStop'
  BY DEF Life, NoWorkerOutlivesStop
<1>4. QED
  BY <1>1, <1>2, <1>3 DEF Life

\* Two that are not in one tree are not when no one enters any.
LEMMA OneOwnerKept ==
  ASSUME OneOwner,
         \A g \in Pools, w \in Workers :
             InTree(g, w)' => InTree(g, w) /\ workers'[g][w].job = workers[g][w].job
  PROVE  OneOwner'
<1> SUFFICES ASSUME NEW h \in Pools, NEW k \in Pools, NEW u \in Workers, NEW v \in Workers,
                    <<h, u>> # <<k, v>>, InTree(h, u)', InTree(k, v)'
             PROVE  workers'[h][u].job.task # workers'[k][v].job.task
  BY DEF OneOwner, InTree
<1>1. /\ InTree(h, u) /\ workers'[h][u].job = workers[h][u].job
      /\ InTree(k, v) /\ workers'[k][v].job = workers[k][v].job
  OBVIOUS
<1>2. workers[h][u].job.task # workers[k][v].job.task
  BY <1>1 DEF OneOwner, InTree
<1>3. QED
  BY <1>1, <1>2

\* Nobody enters a worktree, and none changes.
LEMMA TreeKept ==
  ASSUME Tree, UNCHANGED trees,
         \A g \in Pools, w \in Workers :
             InTree(g, w)' => InTree(g, w) /\ workers'[g][w].job = workers[g][w].job
  PROVE  Tree'
<1>1. BranchStays'
  BY DEF Tree, BranchStays
<1>2. InActiveTree'
  BY DEF Tree, InActiveTree
<1>3. OneOwner'
  BY OneOwnerKept DEF Tree
<1>4. QED
  BY <1>1, <1>2, <1>3 DEF Tree

\* A step of the calls, that leaves pools and workers alone.
LEMMA CallsOnly ==
  ASSUME WInv, UNCHANGED <<pool, made, mu, workers, cancel, trees>>,
         chans' \in [Pools -> ChanStates], Bounded',
         \A g \in Pools : chans'[g].resultsClosed = chans[g].resultsClosed,
         calls' \in [Dispatchers -> CallStates], pushers' \in [Dispatchers -> PusherStates],
         HasItsPool'
  PROVE  WInv'
<1>1. Shape /\ Life /\ Tree
  BY DEF WInv
<1>2. Types' /\ HasItsJob' /\ StopsThePool'
  BY <1>1 DEF Shape, Types, HasItsJob, StopsThePool
<1>3. Shape'
  BY <1>2 DEF Shape
<1>4. Life'
  BY <1>1, LifeKept
<1>5. Tree'
  BY <1>1, TreeKept DEF InTree
<1>6. QED
  BY <1>3, <1>4, <1>5 DEF WInv

\* A step of one worker, that is neither new nor gone.
LEMMA WorkerOnly ==
  ASSUME WInv, NEW g \in Pools, NEW w \in Workers,
         UNCHANGED <<pool, made, mu, calls, pushers, cancel>>,
         workers[g][w].pc \notin {"exited", "unborn"},
         workers' \in [Pools -> [Workers -> WorkerStates]],
         \A h \in Pools, v \in Workers : h # g \/ v # w => workers'[h][v] = workers[h][v],
         workers'[g][w].pc \in AtWork => workers'[g][w].job \in Job,
         chans' \in [Pools -> ChanStates], Bounded',
         \A h \in Pools : chans'[h].resultsClosed = chans[h].resultsClosed,
         trees' \in [Tasks -> TreeStates], Tree'
  PROVE  WInv'
<1>1. Shape /\ Life /\ Tree
  BY DEF WInv
<1>2. Types' /\ HasItsPool' /\ StopsThePool'
  BY <1>1 DEF Shape, Types, HasItsPool, StopsThePool
<1>5. HasItsJob'
  <2> SUFFICES ASSUME NEW h \in Pools, NEW v \in Workers, workers'[h][v].pc \in AtWork
               PROVE  workers'[h][v].job \in Job
    BY DEF HasItsJob
  <2>1. CASE h = g /\ v = w
    BY <2>1
  <2>2. CASE h # g \/ v # w
    BY <1>1, <2>2 DEF Shape, HasItsJob
  <2>3. QED
    BY <2>1, <2>2
<1>3. Life'
  <2>1. \A h \in Pools, v \in Workers :
            workers[h][v].pc \in {"exited", "unborn"} => workers'[h][v] = workers[h][v]
    OBVIOUS
  <2>2. QED
    BY <1>1, <2>1, LifeKept
<1>4. QED
  BY <1>2, <1>3, <1>5 DEF WInv, Shape

\* A channel loses its first job or gets one more.
LEMMA QueueKept ==
  ASSUME NEW q \in Seq(Job), Len(q) <= Capacity
  PROVE  /\ q # <<>> => Head(q) \in Job /\ Tail(q) \in Seq(Job) /\ Len(Tail(q)) <= Capacity
         /\ \A j \in Job : Room(q) => Append(q, j) \in Seq(Job) /\ Len(Append(q, j)) <= Capacity
<1>1. Len(q) \in Nat /\ Capacity \in Nat
  BY WorkerPoolAssumption, LenProperties
<1>2. q # <<>> => Head(q) \in Job /\ Tail(q) \in Seq(Job) /\ Len(Tail(q)) <= Capacity
  BY <1>1, HeadTailProperties
<1>3. \A j \in Job : Room(q) => Append(q, j) \in Seq(Job) /\ Len(Append(q, j)) <= Capacity
  BY <1>1, AppendProperties DEF Room
<1>4. QED
  BY <1>2, <1>3

\* A task queue that changes within its capacity.
LEMMA TasksChange ==
  ASSUME Types, Bounded, NEW g \in Pools, NEW q \in Seq(Job), Len(q) <= Capacity,
         chans' = [chans EXCEPT ![g].tasks = q]
  PROVE  /\ chans' \in [Pools -> ChanStates] /\ Bounded'
         /\ \A h \in Pools : chans'[h].resultsClosed = chans[h].resultsClosed
<1>1. chans \in [Pools -> ChanStates]
  BY DEF Types
<1>2. /\ chans' \in [Pools -> ChanStates]
      /\ \A h \in Pools : chans'[h].resultsClosed = chans[h].resultsClosed
  BY <1>1 DEF ChanStates
<1>3. /\ chans'[g].tasks = q /\ chans'[g].results = chans[g].results
      /\ \A h \in Pools \ {g} : chans'[h] = chans[h]
  BY <1>1 DEF ChanStates
<1>4. Bounded'
  BY <1>3 DEF Bounded
<1>5. QED
  BY <1>2, <1>4

\* A result queue that changes within its capacity.
LEMMA ResultsChange ==
  ASSUME Types, Bounded, NEW g \in Pools, NEW q \in Seq(Job), Len(q) <= Capacity,
         chans' = [chans EXCEPT ![g].results = q]
  PROVE  /\ chans' \in [Pools -> ChanStates] /\ Bounded'
         /\ \A h \in Pools : chans'[h].resultsClosed = chans[h].resultsClosed
<1>1. chans \in [Pools -> ChanStates]
  BY DEF Types
<1>2. /\ chans' \in [Pools -> ChanStates]
      /\ \A h \in Pools : chans'[h].resultsClosed = chans[h].resultsClosed
  BY <1>1 DEF ChanStates
<1>3. /\ chans'[g].results = q /\ chans'[g].tasks = chans[g].tasks
      /\ \A h \in Pools \ {g} : chans'[h] = chans[h]
  BY <1>1 DEF ChanStates
<1>4. Bounded'
  BY <1>3 DEF Bounded
<1>5. QED
  BY <1>2, <1>4

-----------------------------------------------------------------------------
(*************************** calls and pushers ***************************)

\* What a call dispatches are jobs.
LEMMA JobsAreJobs ==
  ASSUME NEW d \in Dispatchers
  PROVE  Jobs(d) \in Seq(Job)
<1>1. Batch[d] \in Seq(Tasks)
  BY WorkerPoolAssumption
<1>2. Len(Batch[d]) \in Nat /\ \A i \in 1 .. Len(Batch[d]) : Batch[d][i] \in Tasks
  BY <1>1, LenProperties, ElementOfSeq
<1>3. \A i \in 1 .. Len(Batch[d]) : [by |-> d, at |-> i, task |-> Batch[d][i]] \in Job
  BY <1>2 DEF Job
<1>4. QED
  BY <1>2, <1>3, IsASeq DEF Jobs

\* Taking the pool and starting the goroutine that pushes.
LEMMA Joins ==
  ASSUME Types, HasItsPool, NEW d \in Dispatchers, NEW g \in Pools, Join(d, g)
  PROVE  /\ calls' \in [Dispatchers -> CallStates]
         /\ pushers' \in [Dispatchers -> PusherStates] /\ HasItsPool'
<1> DEFINE p == [pc |-> "push", left |-> Jobs(d)]
<1>1. calls \in [Dispatchers -> CallStates] /\ pushers \in [Dispatchers -> PusherStates]
  BY DEF Types
<1>2. p \in PusherStates
  BY JobsAreJobs DEF PusherStates
<1>3. pushers' = [pushers EXCEPT ![d] = p]
  BY DEF Join
<1> HIDE DEF p
<1>4. pushers' \in [Dispatchers -> PusherStates] /\ \A e \in Dispatchers \ {d} : pushers'[e] = pushers[e]
  BY <1>1, <1>2, <1>3
<1>5. /\ calls' \in [Dispatchers -> CallStates] /\ calls'[d].pool = g
      /\ \A e \in Dispatchers \ {d} : calls'[e] = calls[e]
  BY <1>1 DEF Join, CallStates
<1>6. HasItsPool'
  BY <1>4, <1>5 DEF HasItsPool
<1>7. QED
  BY <1>4, <1>5, <1>6

\* A call makes a pool if there is none, or uses the one there is.
LEMMA WDispatch ==
  ASSUME WInv, NEW d \in Dispatchers, Dispatch(d)
  PROVE  WInv'
<1>1. Types /\ Bounded /\ HasItsPool
  BY DEF WInv, Shape
<1>2. pool \in Pools /\ Join(d, pool)
      /\ UNCHANGED <<pool, made, mu, chans, workers, cancel, trees>>
  BY <1>1 DEF Dispatch, Types
<1>3. chans' \in [Pools -> ChanStates] /\ Bounded'
  BY <1>1, <1>2 DEF Types, Bounded
<1>4. QED
  BY <1>1, <1>2, <1>3, Joins, CallsOnly

\* A call's own state changes, but not its pool.
LEMMA CallGoes ==
  ASSUME WInv, NEW d \in Dispatchers, UNCHANGED <<pool, made, mu, workers, cancel, trees, pushers>>,
         chans' \in [Pools -> ChanStates], Bounded',
         \A g \in Pools : chans'[g].resultsClosed = chans[g].resultsClosed,
         calls' \in [Dispatchers -> CallStates],
         calls[d].pc = "collect", calls'[d].pool = calls[d].pool,
         \A e \in Dispatchers \ {d} : calls'[e] = calls[e]
  PROVE  WInv'
<1>1. Types /\ HasItsPool
  BY DEF WInv, Shape
<1>2. HasItsPool'
  BY <1>1 DEF HasItsPool
<1>3. pushers' \in [Dispatchers -> PusherStates]
  BY <1>1 DEF Types
<1>4. QED
  BY <1>2, <1>3, CallsOnly

\* A call takes a result.
LEMMA WCollect ==
  ASSUME WInv, NEW d \in Dispatchers, Collect(d)
  PROVE  WInv'
<1> DEFINE g == calls[d].pool
           q == chans[g].results
           got == Append(calls[d].results, Head(q))
           pc == IF Len(got) < Len(Batch[d]) THEN calls[d].pc ELSE "returned"
<1>1. Types /\ Bounded /\ HasItsPool
  BY DEF WInv, Shape
<1>2. /\ calls[d].pc = "collect" /\ q # <<>>
      /\ chans' = [chans EXCEPT ![g].results = Tail(q)]
      /\ calls' = [calls EXCEPT ![d].results = got, ![d].pc = pc]
      /\ UNCHANGED <<pool, made, mu, workers, pushers, cancel, trees>>
  BY DEF Collect
<1>3. g \in Pools
  BY <1>1, <1>2 DEF HasItsPool
<1>4. q \in Seq(Job) /\ Len(q) <= Capacity
  BY <1>1, <1>3 DEF Types, ChanStates, Bounded
<1>5. Head(q) \in Job /\ Tail(q) \in Seq(Job) /\ Len(Tail(q)) <= Capacity
  BY <1>2, <1>4, QueueKept
<1>6. /\ chans' \in [Pools -> ChanStates] /\ Bounded'
      /\ \A h \in Pools : chans'[h].resultsClosed = chans[h].resultsClosed
  <2> DEFINE r == Tail(q)
  <2>1. r \in Seq(Job) /\ Len(r) <= Capacity /\ chans' = [chans EXCEPT ![g].results = r]
    BY <1>2, <1>5
  <2> HIDE DEF r, g
  <2>2. QED
    BY <1>1, <1>3, <2>1, ResultsChange
<1>7. /\ calls' \in [Dispatchers -> CallStates] /\ calls'[d].pool = calls[d].pool
      /\ \A e \in Dispatchers \ {d} : calls'[e] = calls[e]
  <2>1. calls \in [Dispatchers -> CallStates]
    BY <1>1 DEF Types
  <2>2. got \in Seq(Job) /\ pc \in {"collect", "returned"}
    BY <1>2, <1>5, <2>1, AppendProperties DEF CallStates
  <2> HIDE DEF got, pc
  <2>3. QED
    BY <1>2, <2>1, <2>2 DEF CallStates
<1>8. QED
  BY <1>2, <1>6, <1>7, CallGoes

\* A call that stops collecting.
LEMMA WCollectEnds ==
  ASSUME WInv, NEW d \in Dispatchers, CollectClosed(d) \/ GiveUp(d)
  PROVE  WInv'
<1>1. Types /\ Bounded
  BY DEF WInv, Shape
<1>2. /\ calls[d].pc = "collect" /\ calls' = [calls EXCEPT ![d].pc = "failed"]
      /\ UNCHANGED <<pool, made, mu, chans, workers, pushers, cancel, trees>>
  BY DEF CollectClosed, GiveUp
<1>3. /\ calls' \in [Dispatchers -> CallStates] /\ calls'[d].pool = calls[d].pool
      /\ \A e \in Dispatchers \ {d} : calls'[e] = calls[e]
  BY <1>1, <1>2 DEF Types, CallStates
<1>4. chans' \in [Pools -> ChanStates] /\ Bounded'
  BY <1>1, <1>2 DEF Types, Bounded
<1>5. QED
  BY <1>2, <1>3, <1>4, CallGoes

\* A job is put into the task queue.
LEMMA WSubmit ==
  ASSUME WInv, NEW d \in Dispatchers, Submit(d)
  PROVE  WInv'
<1> DEFINE g == calls[d].pool
           left == pushers[d].left
           q == Append(chans[g].tasks, Head(left))
           rest == Tail(left)
<1>1. Types /\ Bounded /\ HasItsPool
  BY DEF WInv, Shape
<1>2. /\ pushers[d].pc = "push" /\ left # <<>> /\ Room(chans[g].tasks)
      /\ chans' = [chans EXCEPT ![g].tasks = q]
      /\ pushers' = [pushers EXCEPT ![d].left = rest]
      /\ UNCHANGED <<pool, made, mu, workers, calls, cancel, trees>>
  BY DEF Submit, Pushed
<1>3. g \in Pools
  BY <1>1, <1>2 DEF HasItsPool
<1>4. pushers \in [Dispatchers -> PusherStates] /\ left \in Seq(Job)
  BY <1>1 DEF Types, PusherStates
<1>5. Head(left) \in Job /\ rest \in Seq(Job)
  BY <1>2, <1>4, HeadTailProperties
<1>6. chans[g].tasks \in Seq(Job) /\ Len(chans[g].tasks) <= Capacity
  BY <1>1, <1>3 DEF Types, ChanStates, Bounded
<1>7. q \in Seq(Job) /\ Len(q) <= Capacity
  BY <1>2, <1>5, <1>6, QueueKept
<1> HIDE DEF q, rest
<1>8. /\ chans' \in [Pools -> ChanStates] /\ Bounded'
      /\ \A h \in Pools : chans'[h].resultsClosed = chans[h].resultsClosed
  BY <1>1, <1>2, <1>3, <1>7, TasksChange
<1>9. /\ pushers' \in [Dispatchers -> PusherStates]
      /\ \A e \in Dispatchers : pushers'[e].pc = pushers[e].pc
  BY <1>2, <1>4, <1>5 DEF PusherStates
<1>10. calls' \in [Dispatchers -> CallStates] /\ HasItsPool'
  BY <1>1, <1>2, <1>9 DEF Types, HasItsPool
<1>11. QED
  BY <1>2, <1>8, <1>9, <1>10, CallsOnly

\* A job that is refused.
LEMMA WSubmitStopped ==
  ASSUME WInv, NEW d \in Dispatchers, SubmitStopped(d)
  PROVE  WInv'
<1>1. Types /\ Bounded /\ HasItsPool
  BY DEF WInv, Shape
<1>2. PICK pc \in {"done", "panic"} : pushers' = [pushers EXCEPT ![d].pc = pc]
  BY DEF SubmitStopped
<1>3. pushers[d].pc = "push" /\ UNCHANGED <<pool, made, mu, chans, workers, calls, cancel, trees>>
  BY DEF SubmitStopped
<1>4. /\ pushers' \in [Dispatchers -> PusherStates]
      /\ \A e \in Dispatchers \ {d} : pushers'[e] = pushers[e]
  BY <1>1, <1>2 DEF Types, PusherStates
<1>5. calls' \in [Dispatchers -> CallStates] /\ HasItsPool'
  BY <1>1, <1>3, <1>4 DEF Types, HasItsPool
<1>6. chans' \in [Pools -> ChanStates] /\ Bounded'
  BY <1>1, <1>3 DEF Types, Bounded
<1>7. QED
  BY <1>3, <1>4, <1>5, <1>6, CallsOnly

\* The first call makes the pool, whose workers begin.
LEMMA WDispatchFirst ==
  ASSUME WInv, NEW d \in Dispatchers, DispatchFirst(d)
  PROVE  WInv'
<1>1. /\ Types /\ Bounded /\ HasItsJob /\ HasItsPool /\ StopsThePool
      /\ Life /\ Tree
  BY DEF WInv, Shape
<1>2. /\ calls[d].pc = "new" /\ pool = NoPool /\ made < MaxPools /\ made' = made + 1
      /\ UNCHANGED <<mu, chans, cancel, trees>>
  BY DEF DispatchFirst
<1>3. MaxPools \in Nat /\ made \in 0 .. MaxPools
  BY <1>1, WorkerPoolAssumption DEF Types
<1>4. made + 1 \in Pools /\ made' \in 0 .. MaxPools
  BY <1>2, <1>3 DEF Pools
<1>5. chans' \in [Pools -> ChanStates] /\ Bounded' /\ trees' \in [Tasks -> TreeStates]
  BY <1>1, <1>2 DEF Types, Bounded
<1>6. CASE /\ pool' = made + 1 /\ Join(d, made + 1)
           /\ workers' = [workers EXCEPT ![made + 1] = [w \in Workers |-> Without("select")]]
  <2>1. /\ calls' \in [Dispatchers -> CallStates]
        /\ pushers' \in [Dispatchers -> PusherStates] /\ HasItsPool'
    BY <1>1, <1>4, <1>6, Joins
  <2>2. Without("select") \in WorkerStates /\ Without("select").pc = "select"
    BY DEF Without, WorkerStates
  <2>3. /\ workers' \in [Pools -> [Workers -> WorkerStates]]
        /\ \A w \in Workers : workers'[made + 1][w].pc = "select"
        /\ \A h \in Pools \ {made + 1} : workers'[h] = workers[h]
    <3>1. workers \in [Pools -> [Workers -> WorkerStates]]
      BY <1>1 DEF Types
    <3> DEFINE row == [w \in Workers |-> Without("select")]
    <3>2. row \in [Workers -> WorkerStates] /\ \A w \in Workers : row[w].pc = "select"
      BY <2>2
    <3>3. workers' = [workers EXCEPT ![made + 1] = row]
      BY <1>6
    <3> HIDE DEF row
    <3>4. QED
      BY <1>4, <3>1, <3>2, <3>3
  <2>4. Types' /\ StopsThePool'
    BY <1>1, <1>2, <1>4, <1>5, <1>6, <2>1, <2>3 DEF Types, StopsThePool
  <2>5. HasItsJob'
    BY <1>1, <2>3 DEF HasItsJob, AtWork
  <2>6. ClosedIsOver' /\ PoolWasMade'
    BY <1>1, <1>2, <1>3, <1>6 DEF Life, ClosedIsOver, PoolWasMade, Pools
  <2>7. UnmadeIsUnborn'
    BY <1>1, <1>2, <1>3, <2>3 DEF Life, UnmadeIsUnborn, At, Pools
  <2>8. NoWorkerOutlivesStop'
    <3> SUFFICES ASSUME NEW g \in Pools,
                        chans[g].resultsClosed \/ (g <= made + 1 /\ g # made + 1),
                        NEW w \in Workers
                 PROVE  workers'[g][w].pc \in {"exited", "unborn"}
      BY <1>2, <1>6 DEF NoWorkerOutlivesStop
    <3>1. g # made + 1 /\ g <= made
      BY <1>1, <1>3 DEF Life, ClosedIsOver, Pools
    <3>2. workers[g][w].pc \in {"exited", "unborn"}
      BY <1>1, <1>2, <3>1 DEF Life, NoWorkerOutlivesStop, Pools, NoPool
    <3>3. QED
      BY <2>3, <3>1, <3>2
  <2>9. Tree'
    <3>1. \A g \in Pools, w \in Workers :
              InTree(g, w)' => InTree(g, w) /\ workers'[g][w].job = workers[g][w].job
      BY <2>3 DEF InTree
    <3>2. QED
      BY <1>1, <1>2, <3>1, TreeKept
  <2>10. QED
    BY <1>5, <2>1, <2>4, <2>5, <2>6, <2>7, <2>8, <2>9 DEF WInv, Shape, Life
<1>7. CASE /\ calls' = [calls EXCEPT ![d].pc = "failed"]
           /\ UNCHANGED <<pool, workers, pushers>>
  <2>1. /\ calls' \in [Dispatchers -> CallStates] /\ calls'[d].pool = calls[d].pool
        /\ calls'[d].pc = "failed" /\ \A e \in Dispatchers \ {d} : calls'[e] = calls[e]
    BY <1>1, <1>7 DEF Types, CallStates
  <2>2. HasItsPool' /\ HasItsJob' /\ StopsThePool'
    BY <1>1, <1>2, <1>7, <2>1 DEF HasItsPool, HasItsJob, StopsThePool
  <2>3. Types'
    BY <1>1, <1>2, <1>4, <1>5, <1>7, <2>1 DEF Types
  <2>4. ClosedIsOver' /\ PoolWasMade' /\ UnmadeIsUnborn'
    BY <1>1, <1>2, <1>3, <1>7 DEF Life, ClosedIsOver, PoolWasMade, UnmadeIsUnborn, At, Pools, NoPool
  <2>5. NoWorkerOutlivesStop'
    BY <1>1, <1>2, <1>3, <1>7 DEF Life, NoWorkerOutlivesStop, UnmadeIsUnborn, At, Pools, NoPool
  <2>6. Tree'
    BY <1>1, <1>2, <1>7, TreeKept DEF InTree
  <2>7. QED
    BY <1>5, <2>2, <2>3, <2>4, <2>5, <2>6 DEF WInv, Shape, Life
<1>8. QED
  BY <1>6, <1>7 DEF DispatchFirst

-----------------------------------------------------------------------------
(******************************** workers ********************************)

\* A worker moves with the trees as they are.
LEMMA WLeave ==
  ASSUME WInv, NEW g \in Pools, NEW w \in Workers, Leave(g, w) \/ Run(g, w)
  PROVE  WInv'
<1>1. Types /\ Bounded /\ HasItsJob /\ Tree
  BY DEF WInv, Shape
<1>2. UNCHANGED <<pool, made, mu, chans, calls, pushers, cancel, trees>>
  BY DEF Leave, Run
<1>3. PICK pc \in {"exited", "merge", "abandon"} :
          /\ Go(g, w, pc)
          /\ pc # "exited" => workers[g][w].pc = "run"
          /\ workers[g][w].pc \in {"select", "run"}
  BY DEF Leave, Run, At
<1>4. /\ workers' \in [Pools -> [Workers -> WorkerStates]]
      /\ workers'[g][w].pc = pc /\ workers'[g][w].job = workers[g][w].job
      /\ \A h \in Pools, v \in Workers : h # g \/ v # w => workers'[h][v] = workers[h][v]
  BY <1>1, <1>3, WorkerGoes DEF AtWork
<1>5. Tree'
  <2>1. \A h \in Pools, v \in Workers :
            InTree(h, v)' => InTree(h, v) /\ workers'[h][v].job = workers[h][v].job
    BY <1>3, <1>4 DEF InTree
  <2>2. QED
    BY <1>1, <1>2, <2>1, TreeKept
<1>6. workers'[g][w].pc \in AtWork => workers'[g][w].job \in Job
  BY <1>1, <1>3, <1>4 DEF HasItsJob, AtWork
<1>7. chans' \in [Pools -> ChanStates] /\ Bounded' /\ trees' \in [Tasks -> TreeStates]
  BY <1>1, <1>2 DEF Types, Bounded
<1>8. QED
  BY <1>2, <1>3, <1>4, <1>5, <1>6, <1>7, WorkerOnly

\* A worker that takes a job has it.
LEMMA TakeGives ==
  ASSUME WInv, NEW g \in Pools, NEW w \in Workers, Take(g, w)
  PROVE  /\ workers' \in [Pools -> [Workers -> WorkerStates]]
         /\ workers'[g][w].pc = "create" /\ workers'[g][w].job = Head(chans[g].tasks)
         /\ \A h \in Pools, v \in Workers : h # g \/ v # w => workers'[h][v] = workers[h][v]
<1> DEFINE j == Head(chans[g].tasks)
           s == [workers[g][w] EXCEPT !.pc = "create", !.job = j]
           first == [workers EXCEPT ![g][w].pc = "create"]
<1>1. Types /\ chans[g].tasks # <<>> /\ chans[g].tasks \in Seq(Job)
  BY DEF WInv, Shape, Take, Types, ChanStates
<1>2. j \in Job
  BY <1>1, HeadTailProperties
<1>3. workers' = [workers EXCEPT ![g][w].pc = "create", ![g][w].job = j]
  BY DEF Take
<1> HIDE DEF j
<1>4. workers \in [Pools -> [Workers -> WorkerStates]] /\ workers[g] \in [Workers -> WorkerStates]
      /\ workers[g][w] \in WorkerStates
  BY <1>1 DEF Types
<1>5. s \in WorkerStates /\ s.pc = "create" /\ s.job = j
  BY <1>2, <1>4 DEF WorkerStates, AtWork
<1>6. Becomes(g, w, s)
  <2>1. workers' = [first EXCEPT ![g] = [first[g] EXCEPT ![w] = [first[g][w] EXCEPT !.job = j]]]
    BY <1>3, Zenon
  <2>2. first[g] = [workers[g] EXCEPT ![w] = [workers[g][w] EXCEPT !.pc = "create"]]
    BY <1>4
  <2>3. first[g][w] = [workers[g][w] EXCEPT !.pc = "create"]
    BY <1>4, <2>2
  <2>4. [first[g] EXCEPT ![w] = [first[g][w] EXCEPT !.job = j]] = [workers[g] EXCEPT ![w] = s]
    BY <1>4, <2>2, <2>3
  <2>5. QED
    BY <1>4, <2>1, <2>4 DEF Becomes
<1> HIDE DEF s
<1>7. HasBecome(g, w, s)
  BY <1>1, <1>5, <1>6, OneWorker
<1>8. QED
  BY <1>5, <1>7 DEF HasBecome, j

\* A worker takes a job, and is in no tree yet.
LEMMA WTake ==
  ASSUME WInv, NEW g \in Pools, NEW w \in Workers, Take(g, w)
  PROVE  WInv'
<1> DEFINE q == chans[g].tasks
           j == Head(q)
<1>1. Types /\ Bounded /\ Tree
  BY DEF WInv, Shape
<1>2. /\ workers[g][w].pc = "select" /\ q # <<>>
      /\ chans' = [chans EXCEPT ![g].tasks = Tail(q)]
      /\ UNCHANGED <<pool, made, mu, calls, pushers, cancel, trees>>
  BY DEF Take, At, Received
<1>3. q \in Seq(Job) /\ Len(q) <= Capacity
  BY <1>1 DEF Types, ChanStates, Bounded
<1>4. j \in Job /\ Tail(q) \in Seq(Job) /\ Len(Tail(q)) <= Capacity
  BY <1>2, <1>3, QueueKept
<1>5. /\ chans' \in [Pools -> ChanStates] /\ Bounded'
      /\ \A h \in Pools : chans'[h].resultsClosed = chans[h].resultsClosed
  <2> DEFINE r == Tail(q)
  <2>1. r \in Seq(Job) /\ Len(r) <= Capacity /\ chans' = [chans EXCEPT ![g].tasks = r]
    BY <1>2, <1>4
  <2> HIDE DEF r
  <2>2. QED
    BY <1>1, <2>1, TasksChange
<1>6. /\ workers' \in [Pools -> [Workers -> WorkerStates]]
      /\ workers'[g][w].pc = "create" /\ workers'[g][w].job = j
      /\ \A h \in Pools, v \in Workers : h # g \/ v # w => workers'[h][v] = workers[h][v]
  BY TakeGives
<1> HIDE DEF j
<1>7. Tree'
  <2>1. \A h \in Pools, v \in Workers :
            InTree(h, v)' => InTree(h, v) /\ workers'[h][v].job = workers[h][v].job
    BY <1>6 DEF InTree
  <2>2. QED
    BY <1>1, <1>2, <2>1, TreeKept
<1>8. trees' \in [Tasks -> TreeStates]
  BY <1>1, <1>2 DEF Types
<1>9. /\ workers[g][w].pc \notin {"exited", "unborn"} /\ workers'[g][w].job \in Job
       /\ UNCHANGED <<pool, made, mu, calls, pushers, cancel>>
  BY <1>2, <1>4, <1>6
<1>10. QED
  BY <1>5, <1>6, <1>7, <1>8, <1>9, WorkerOnly

\* A worker is done with its job.
LEMMA WLetsGo ==
  ASSUME WInv, NEW g \in Pools, NEW w \in Workers, Send(g, w) \/ Drop(g, w)
  PROVE  WInv'
<1>1. Types /\ Bounded /\ HasItsJob /\ Tree
  BY DEF WInv, Shape
<1>2. workers[g][w].pc = "send" /\ UNCHANGED <<pool, made, mu, calls, pushers, cancel, trees>>
  BY DEF Send, Drop, At
<1>3. PICK pc \in {"select", "exited"} : workers' = [workers EXCEPT ![g][w] = Without(pc)]
  BY DEF Send, Drop
<1> DEFINE s == Without(pc)
<1>4. s \in WorkerStates /\ s.pc = pc /\ Becomes(g, w, s)
  BY <1>3 DEF Without, WorkerStates, Becomes
<1> HIDE DEF s
<1>5. /\ workers' \in [Pools -> [Workers -> WorkerStates]] /\ workers'[g][w] = s
      /\ \A h \in Pools, v \in Workers : h # g \/ v # w => workers'[h][v] = workers[h][v]
  <2>1. HasBecome(g, w, s)
    BY <1>1, <1>4, OneWorker
  <2>2. QED
    BY <2>1 DEF HasBecome
<1>6. /\ chans' \in [Pools -> ChanStates] /\ Bounded'
      /\ \A h \in Pools : chans'[h].resultsClosed = chans[h].resultsClosed
  <2>1. CASE UNCHANGED chans
    BY <1>1, <2>1 DEF Types, Bounded
  <2>2. CASE Send(g, w)
    <3> DEFINE q == Append(chans[g].results, workers[g][w].job)
    <3>1. workers[g][w].job \in Job
      BY <1>1, <1>2 DEF HasItsJob, AtWork
    <3>2. chans[g].results \in Seq(Job) /\ Len(chans[g].results) <= Capacity
      BY <1>1 DEF Types, ChanStates, Bounded
    <3>3. q \in Seq(Job) /\ Len(q) <= Capacity /\ chans' = [chans EXCEPT ![g].results = q]
      BY <2>2, <3>1, <3>2, QueueKept DEF Send
    <3> HIDE DEF q
    <3>4. QED
      BY <1>1, <3>3, ResultsChange
  <2>3. QED
    BY <2>1, <2>2 DEF Drop
<1>7. Tree'
  <2>1. \A h \in Pools, v \in Workers :
            InTree(h, v)' => InTree(h, v) /\ workers'[h][v].job = workers[h][v].job
    BY <1>4, <1>5 DEF InTree
  <2>2. QED
    BY <1>1, <1>2, <2>1, TreeKept
<1>8. trees' \in [Tasks -> TreeStates]
  BY <1>1, <1>2 DEF Types
<1>9. QED
  BY <1>2, <1>4, <1>5, <1>6, <1>7, <1>8, WorkerOnly DEF AtWork

\* A worker that goes on to its next step.
LEMMA WorkerMoves ==
  ASSUME WInv, NEW g \in Pools, NEW w \in Workers,
         UNCHANGED <<pool, made, mu, chans, calls, pushers, cancel>>,
         workers[g][w].pc \in AtWork, NEW pc \in AtWork, Go(g, w, pc),
         trees' \in [Tasks -> TreeStates], Tree'
  PROVE  WInv'
<1>1. Types /\ Bounded /\ HasItsJob
  BY DEF WInv, Shape
<1>2. /\ workers' \in [Pools -> [Workers -> WorkerStates]]
      /\ workers'[g][w].pc = pc /\ workers'[g][w].job = workers[g][w].job
      /\ \A h \in Pools, v \in Workers : h # g \/ v # w => workers'[h][v] = workers[h][v]
  BY <1>1, WorkerGoes
<1>3. workers'[g][w].job \in Job /\ workers[g][w].pc \notin {"exited", "unborn"}
  BY <1>1, <1>2 DEF HasItsJob, AtWork
<1>4. chans' \in [Pools -> ChanStates] /\ Bounded'
      /\ \A h \in Pools : chans'[h].resultsClosed = chans[h].resultsClosed
  BY <1>1 DEF Types, Bounded
<1>5. QED
  BY <1>2, <1>3, <1>4, WorkerOnly

\* The task of a worker that has one.
LEMMA TaskOf ==
  ASSUME Types, HasItsJob, NEW g \in Pools, NEW w \in Workers, workers[g][w].pc \in AtWork
  PROVE  /\ workers[g][w].job.task \in Tasks /\ trees[workers[g][w].job.task] \in TreeStates
         /\ trees \in [Tasks -> TreeStates]
BY DEF Types, HasItsJob, Job

\* Trees in which no entry changes and no branch goes.
LEMMA TreeGrows ==
  ASSUME Types, HasItsJob, Tree,
         \A t \in Tasks : /\ trees'[t].entry = trees[t].entry
                          /\ trees[t].branch => trees'[t].branch,
         \A g \in Pools, w \in Workers :
             InTree(g, w)' => InTree(g, w) /\ workers'[g][w].job = workers[g][w].job
  PROVE  Tree'
<1>1. BranchStays'
  BY DEF Tree, BranchStays
<1>2. InActiveTree'
  <2> SUFFICES ASSUME NEW g \in Pools, NEW w \in Workers, InTree(g, w)'
               PROVE  trees'[workers'[g][w].job.task].entry = "active"
    BY DEF InActiveTree
  <2>1. InTree(g, w) /\ workers'[g][w].job = workers[g][w].job
    OBVIOUS
  <2>2. trees[workers[g][w].job.task].entry = "active"
    BY <2>1 DEF Tree, InActiveTree
  <2>3. workers[g][w].job.task \in Tasks
    BY <2>1, TaskOf DEF InTree, AtWork
  <2>4. QED
    BY <2>1, <2>2, <2>3
<1>3. OneOwner'
  BY OneOwnerKept DEF Tree
<1>4. QED
  BY <1>1, <1>2, <1>3 DEF Tree

\* A worker changes its own worktree and leaves it.
LEMMA TreeSettles ==
  ASSUME Types, HasItsJob, Tree, NEW g \in Pools, NEW w \in Workers, InTree(g, w),
         \A t \in Tasks \ {workers[g][w].job.task} : trees'[t] = trees[t],
         trees[workers[g][w].job.task].branch => trees'[workers[g][w].job.task].branch,
         ~InTree(g, w)',
         \A h \in Pools, v \in Workers : h # g \/ v # w => workers'[h][v] = workers[h][v]
  PROVE  Tree'
<1> DEFINE mine == workers[g][w].job.task
<1>1. mine \in Tasks /\ trees[mine].entry = "active"
  BY TaskOf DEF InTree, AtWork, Tree, InActiveTree
<1>2. trees[mine].branch
  BY <1>1 DEF Tree, BranchStays
<1>3. BranchStays'
  BY <1>2 DEF Tree, BranchStays
<1>4. ASSUME NEW h \in Pools, NEW v \in Workers, InTree(h, v)'
      PROVE  /\ (h # g \/ v # w) /\ InTree(h, v) /\ workers'[h][v] = workers[h][v]
             /\ workers[h][v].job.task \in Tasks \ {mine}
  <2>1. h # g \/ v # w
    BY <1>4
  <2>2. workers'[h][v] = workers[h][v]
    BY <2>1
  <2>3. InTree(h, v)
    BY <1>4, <2>2 DEF InTree
  <2>4. <<h, v>> # <<g, w>>
    BY <2>1
  <2>5. workers[h][v].job.task # mine
    BY <2>3, <2>4 DEF Tree, OneOwner, InTree
  <2>6. workers[h][v].job.task \in Tasks
    BY <2>3, TaskOf DEF InTree, AtWork
  <2>7. QED
    BY <2>1, <2>2, <2>3, <2>5, <2>6
<1>5. InActiveTree'
  <2> SUFFICES ASSUME NEW h \in Pools, NEW v \in Workers, InTree(h, v)'
               PROVE  trees'[workers'[h][v].job.task].entry = "active"
    BY DEF InActiveTree
  <2>1. /\ InTree(h, v) /\ workers'[h][v] = workers[h][v]
        /\ workers[h][v].job.task \in Tasks \ {mine}
    BY <1>4
  <2>2. trees[workers[h][v].job.task].entry = "active"
    BY <2>1 DEF Tree, InActiveTree
  <2>3. QED
    BY <2>1, <2>2
<1>6. OneOwner'
  BY <1>4 DEF Tree, OneOwner, InTree
<1>7. QED
  BY <1>3, <1>5, <1>6 DEF Tree

\* A worktree is made for an id whose branch is not there.
LEMMA WCreate ==
  ASSUME WInv, NEW g \in Pools, NEW w \in Workers, Create(g, w)
  PROVE  WInv'
<1> DEFINE t == workers[g][w].job.task
<1>1. Types /\ HasItsJob /\ Tree
  BY DEF WInv, Shape
<1>2. workers[g][w].pc = "create" /\ UNCHANGED <<pool, made, mu, chans, calls, pushers, cancel>>
  BY Zenon DEF Create, At
<1>3. t \in Tasks /\ trees[t] \in TreeStates /\ trees \in [Tasks -> TreeStates]
  BY <1>1, <1>2, TaskOf DEF AtWork
<1>4. ASSUME NEW pc \in {"run", "send"}, Go(g, w, pc)
      PROVE  /\ workers'[g][w].pc = pc /\ workers'[g][w].job = workers[g][w].job
             /\ \A h \in Pools, v \in Workers :
                    h # g \/ v # w => workers'[h][v] = workers[h][v]
  BY <1>1, <1>4, WorkerGoes DEF AtWork
<1>5. CASE /\ Fresh(t) /\ Go(g, w, "run")
           /\ trees' = [trees EXCEPT ![t] = [dir |-> TRUE, branch |-> TRUE, entry |-> "active"]]
  <2>1. /\ workers'[g][w].pc = "run" /\ workers'[g][w].job = workers[g][w].job
        /\ \A h \in Pools, v \in Workers : h # g \/ v # w => workers'[h][v] = workers[h][v]
    BY <1>4, <1>5
  <2> HIDE DEF t
  <2>2. /\ trees' \in [Tasks -> TreeStates] /\ trees'[t].entry = "active" /\ trees'[t].branch
        /\ \A u \in Tasks \ {t} : trees'[u] = trees[u]
    BY <1>3, <1>5 DEF TreeStates
  <2>3. ASSUME NEW h \in Pools, NEW v \in Workers, InTree(h, v)', h # g \/ v # w
        PROVE  /\ InTree(h, v) /\ workers'[h][v] = workers[h][v]
               /\ workers[h][v].job.task \in Tasks \ {t}
    <3>1. workers'[h][v] = workers[h][v] /\ InTree(h, v)
      BY <2>1, <2>3 DEF InTree
    <3>2. workers[h][v].job.task \in Tasks
      BY <1>1, <3>1, TaskOf DEF InTree, AtWork
    <3>3. trees[workers[h][v].job.task].branch
      BY <1>1, <3>1, <3>2 DEF Tree, InActiveTree, BranchStays
    <3>4. QED
      BY <1>5, <3>1, <3>2, <3>3 DEF Fresh
  <2>4. BranchStays'
    BY <1>1, <2>2 DEF Tree, BranchStays
  <2>5. InActiveTree'
    <3> SUFFICES ASSUME NEW h \in Pools, NEW v \in Workers, InTree(h, v)'
                 PROVE  trees'[workers'[h][v].job.task].entry = "active"
      BY DEF InActiveTree
    <3>1. CASE h = g /\ v = w
      BY <2>1, <2>2, <3>1 DEF t
    <3>2. CASE h # g \/ v # w
      <4>1. /\ InTree(h, v) /\ workers'[h][v] = workers[h][v]
            /\ workers[h][v].job.task \in Tasks \ {t}
        BY <2>3, <3>2
      <4>2. trees[workers[h][v].job.task].entry = "active"
        BY <1>1, <4>1 DEF Tree, InActiveTree
      <4>3. QED
        BY <2>2, <4>1, <4>2
    <3>3. QED
      BY <3>1, <3>2
  <2>6. OneOwner'
    <3> SUFFICES ASSUME NEW h \in Pools, NEW k \in Pools, NEW u \in Workers, NEW v \in Workers,
                        h # k \/ u # v, InTree(h, u)', InTree(k, v)'
                 PROVE  workers'[h][u].job.task # workers'[k][v].job.task
      BY DEF OneOwner, InTree
    <3>1. CASE h = g /\ u = w
      BY <2>1, <2>3, <3>1 DEF t
    <3>2. CASE k = g /\ v = w
      BY <2>1, <2>3, <3>2 DEF t
    <3>3. CASE (h # g \/ u # w) /\ (k # g \/ v # w)
      <4>1. /\ InTree(h, u) /\ workers'[h][u] = workers[h][u]
            /\ InTree(k, v) /\ workers'[k][v] = workers[k][v]
        BY <2>3, <3>3
      <4>2. <<h, u>> # <<k, v>>
        OBVIOUS
      <4>3. QED
        BY <1>1, <4>1, <4>2 DEF Tree, OneOwner, InTree
    <3>4. QED
      BY <3>1, <3>2, <3>3
  <2>7. Tree'
    BY <2>4, <2>5, <2>6 DEF Tree
  <2>8. QED
    BY <1>2, <1>5, <2>2, <2>7, WorkerMoves DEF AtWork
<1>6. CASE Go(g, w, "send") /\ ~(/\ Fresh(t) /\ Go(g, w, "run")
           /\ trees' = [trees EXCEPT ![t] = [dir |-> TRUE, branch |-> TRUE, entry |-> "active"]])
  <2>1. \A h \in Pools, v \in Workers :
            InTree(h, v)' => InTree(h, v) /\ workers'[h][v].job = workers[h][v].job
    BY <1>4, <1>6 DEF InTree
  <2>2. /\ trees' \in [Tasks -> TreeStates]
        /\ \A u \in Tasks : trees'[u].entry = trees[u].entry /\ (trees[u].branch => trees'[u].branch)
    <3>1. CASE UNCHANGED trees
      BY <1>3, <3>1
    <3>2. ASSUME NEW left \in {{}, {"branch"}, {"branch", "dir"}},
                 trees' = [trees EXCEPT ![t].dir = @ \/ "dir" \in left,
                                        ![t].branch = @ \/ "branch" \in left]
          PROVE  /\ trees' \in [Tasks -> TreeStates]
                 /\ \A u \in Tasks : /\ trees'[u].entry = trees[u].entry
                                     /\ trees[u].branch => trees'[u].branch
      <4> DEFINE x == [trees[t] EXCEPT !.dir = @ \/ "dir" \in left,
                                       !.branch = @ \/ "branch" \in left]
      <4> HIDE DEF t
      <4>1. x \in TreeStates /\ x.entry = trees[t].entry /\ (trees[t].branch => x.branch)
        BY <1>3 DEF TreeStates
      <4>2. trees' = [trees EXCEPT ![t] = x]
        BY <1>3, <3>2
      <4> HIDE DEF x
      <4>3. QED
        BY <1>3, <4>1, <4>2
    <3>3. QED
      BY <1>6, <3>1, <3>2, Zenon DEF Create
  <2>3. Tree'
    BY <1>1, <2>1, <2>2, TreeGrows
  <2>4. QED
    BY <1>2, <1>6, <2>2, <2>3, WorkerMoves DEF AtWork
<1>7. QED
  BY <1>5, <1>6, Zenon DEF Create

\* Merge and Abandon: the worker has its result to send.
LEMMA WEnds ==
  ASSUME WInv, NEW g \in Pools, NEW w \in Workers, Merge(g, w) \/ Abandon(g, w)
  PROVE  WInv'
<1> DEFINE t == workers[g][w].job.task
<1>1. Types /\ HasItsJob /\ Tree
  BY DEF WInv, Shape
<1>2. /\ workers[g][w].pc \in {"merge", "abandon"} /\ Go(g, w, "send")
      /\ UNCHANGED <<pool, made, mu, chans, calls, pushers, cancel>>
  BY Zenon DEF Merge, Abandon, At
<1>3. t \in Tasks /\ trees[t] \in TreeStates /\ trees \in [Tasks -> TreeStates]
  BY <1>1, <1>2, TaskOf DEF AtWork
<1>4. /\ workers'[g][w].pc = "send"
      /\ \A h \in Pools, v \in Workers : h # g \/ v # w => workers'[h][v] = workers[h][v]
  BY <1>1, <1>2, WorkerGoes DEF AtWork
<1>5. /\ trees' \in [Tasks -> TreeStates]
      /\ \A u \in Tasks \ {t} : trees'[u] = trees[u]
      /\ trees[t].branch => trees'[t].branch
  <2> HIDE DEF t
  <2>1. CASE UNCHANGED trees
    BY <1>3, <2>1
  <2>2. ASSUME NEW x \in TreeStates, x.branch = trees[t].branch, trees' = [trees EXCEPT ![t] = x]
        PROVE  <1>5
    BY <1>3, <2>2
  <2>3. CASE trees' = [trees EXCEPT ![t].entry = "merged"]
    <3> DEFINE x == [trees[t] EXCEPT !.entry = "merged"]
    <3>1. x \in TreeStates /\ x.branch = trees[t].branch
      BY <1>3 DEF TreeStates
    <3>2. trees' = [trees EXCEPT ![t] = x]
      BY <2>3, Zenon
    <3> HIDE DEF x
    <3>3. QED
      BY <2>2, <3>1, <3>2
  <2>4. CASE trees' = [trees EXCEPT ![t].dir = FALSE, ![t].entry = "abandoned"]
    <3> DEFINE x == [trees[t] EXCEPT !.dir = FALSE, !.entry = "abandoned"]
    <3>1. x \in TreeStates /\ x.branch = trees[t].branch
      BY <1>3 DEF TreeStates
    <3>2. trees' = [trees EXCEPT ![t] = x]
      BY <1>3, <2>4
    <3> HIDE DEF x
    <3>3. QED
      BY <2>2, <3>1, <3>2
  <2>5. CASE trees' = [trees EXCEPT ![t].dir = FALSE]
    <3> DEFINE x == [trees[t] EXCEPT !.dir = FALSE]
    <3>1. x \in TreeStates /\ x.branch = trees[t].branch
      BY <1>3 DEF TreeStates
    <3>2. trees' = [trees EXCEPT ![t] = x]
      BY <2>5, Zenon
    <3> HIDE DEF x
    <3>3. QED
      BY <2>2, <3>1, <3>2
  <2>6. QED
    BY <2>1, <2>3, <2>4, <2>5, Zenon DEF Merge, Abandon, t
<1>6. Tree'
  BY <1>1, <1>2, <1>4, <1>5, TreeSettles DEF InTree
<1>7. QED
  BY <1>2, <1>5, <1>6, WorkerMoves DEF AtWork

-----------------------------------------------------------------------------
(********************************* Stop **********************************)

\* Up to the wait, CancelAll closes and cancels.
LEMMA WStops ==
  ASSUME WInv, CancelAll \/ CloseStopped \/ CloseTasks \/ CancelContext
  PROVE  WInv'
<1>1. Shape /\ Life /\ Tree /\ Types /\ Bounded /\ StopsThePool
  BY DEF WInv, Shape
<1>2. UNCHANGED <<pool, made, workers, calls, pushers, trees>>
  BY DEF CancelAll, CloseStopped, CloseTasks, CancelContext
<1>3. /\ cancel' \in {"stopped", "tasks", "context", "wait"} /\ mu' = TRUE
      /\ pool \in Pools /\ UNCHANGED <<pool, made, workers, calls, pushers, trees>>
  BY <1>1 DEF CancelAll, CloseStopped, CloseTasks, CancelContext, StopsThePool, Types
<1>4. /\ chans' \in [Pools -> ChanStates]
      /\ \A g \in Pools : /\ chans'[g].resultsClosed = chans[g].resultsClosed
                          /\ chans'[g].tasks = chans[g].tasks
                          /\ chans'[g].results = chans[g].results
  <2>1. chans \in [Pools -> ChanStates]
    BY <1>1 DEF Types
  <2>2. CASE CancelAll
    BY <2>1, <2>2 DEF CancelAll
  <2>3. CASE CloseStopped
    BY <2>1, <2>3 DEF CloseStopped, ChanStates
  <2>4. CASE CloseTasks
    BY <2>1, <2>4 DEF CloseTasks, ChanStates
  <2>5. CASE CancelContext
    BY <2>1, <2>5 DEF CancelContext, ChanStates
  <2>6. QED
    BY <2>2, <2>3, <2>4, <2>5
<1>5. Types' /\ StopsThePool' /\ HasItsJob' /\ HasItsPool' /\ Bounded'
  BY <1>1, <1>3, <1>4 DEF Shape, Types, StopsThePool, HasItsJob, HasItsPool, Bounded
<1>6. Life'
  BY <1>1, <1>3, <1>4, LifeKept
<1>7. Tree'
  BY <1>1, <1>3, TreeKept DEF InTree
<1>8. QED
  BY <1>5, <1>6, <1>7 DEF WInv, Shape

\* Every worker has exited: the results are closed and the pool forgotten.
LEMMA WStopped ==
  ASSUME WInv, Stopped
  PROVE  WInv'
<1>1. Shape /\ Life /\ Tree /\ Types /\ Bounded /\ StopsThePool
  BY DEF WInv, Shape
<1>2. /\ cancel = "wait" /\ AllExited(pool)
      /\ chans' = [chans EXCEPT ![pool].resultsClosed = TRUE]
      /\ pool' = NoPool /\ mu' = FALSE /\ cancel' = "idle"
      /\ UNCHANGED <<made, workers, calls, pushers, trees>>
  BY DEF Stopped, Closed
<1>3. pool \in Pools /\ pool <= made
  BY <1>1, <1>2 DEF StopsThePool, Life, PoolWasMade
<1>4. /\ chans' \in [Pools -> ChanStates]
      /\ \A g \in Pools : /\ g # pool => chans'[g].resultsClosed = chans[g].resultsClosed
                          /\ chans'[g].tasks = chans[g].tasks
                          /\ chans'[g].results = chans[g].results
  BY <1>1, <1>2 DEF Types, ChanStates
<1>5. NoPool \notin Pools /\ NoPool <= made
  BY <1>1 DEF Pools, NoPool, Types
<1>6. Types' /\ StopsThePool' /\ HasItsJob' /\ HasItsPool' /\ Bounded'
  BY <1>1, <1>2, <1>4, <1>5 DEF Shape, Types, StopsThePool, HasItsJob, HasItsPool, Bounded
<1>7. ClosedIsOver' /\ PoolWasMade' /\ UnmadeIsUnborn'
  BY <1>1, <1>2, <1>3, <1>4, <1>5 DEF Life, ClosedIsOver, PoolWasMade, UnmadeIsUnborn, At
<1>8. NoWorkerOutlivesStop'
  BY <1>1, <1>2, <1>3, <1>4, <1>5 DEF Life, NoWorkerOutlivesStop, AllExited, At
<1>9. Tree'
  BY <1>1, <1>2, TreeKept DEF InTree
<1>10. QED
  BY <1>6, <1>7, <1>8, <1>9 DEF WInv, Shape, Life

\* A stutter.
LEMMA WNothing == WInv /\ UNCHANGED vars => WInv'
<1> SUFFICES ASSUME WInv, UNCHANGED vars PROVE WInv'
  OBVIOUS
<1>1. UNCHANGED <<pool, made, mu, chans, workers, calls, pushers, cancel, trees>>
  BY DEF vars
<1>2. Types /\ Bounded /\ HasItsPool
  BY DEF WInv, Shape
<1>3. /\ chans' \in [Pools -> ChanStates] /\ Bounded' /\ HasItsPool'
      /\ calls' \in [Dispatchers -> CallStates] /\ pushers' \in [Dispatchers -> PusherStates]
  BY <1>1, <1>2 DEF Types, Bounded, HasItsPool
<1>4. QED
  BY <1>1, <1>3, CallsOnly

\* At the start there is no pool.
LEMMA WInit == Init => WInv
<1> SUFFICES ASSUME Init PROVE WInv
  OBVIOUS
<1>1. MaxPools \in Nat /\ Capacity \in Nat /\ <<>> \in Seq(Job) /\ Len(<<>>) = 0
  BY WorkerPoolAssumption, EmptySeq
<1>2. Without("unborn") \in WorkerStates /\ Without("unborn").pc = "unborn"
  BY DEF Without, WorkerStates
<1>3. workers \in [Pools -> [Workers -> WorkerStates]]
      /\ \A g \in Pools, w \in Workers : workers[g][w].pc = "unborn"
  BY <1>2 DEF Init
<1>4. chans \in [Pools -> ChanStates]
      /\ \A g \in Pools : ~chans[g].resultsClosed /\ chans[g].tasks = <<>> /\ chans[g].results = <<>>
  BY <1>1 DEF Init, ChanStates
<1>5. /\ calls \in [Dispatchers -> CallStates] /\ \A d \in Dispatchers : calls[d].pc = "new"
      /\ pushers \in [Dispatchers -> PusherStates] /\ \A d \in Dispatchers : pushers[d].pc = "unborn"
  BY <1>1 DEF Init, CallStates, PusherStates
<1>6. trees \in [Tasks -> TreeStates] /\ \A t \in Tasks : trees[t].entry = "none"
  BY DEF Init, TreeStates
<1>7. Types
  <2>1. pool \in Pools \cup {NoPool} /\ made \in 0 .. MaxPools
    BY <1>1 DEF Init
  <2>2. mu \in BOOLEAN /\ cancel \in {"idle", "stopped", "tasks", "context", "wait"}
    BY DEF Init
  <2>3. QED
    BY <1>3, <1>4, <1>5, <1>6, <2>1, <2>2, Zenon DEF Types
<1>8. Bounded /\ HasItsJob /\ HasItsPool /\ StopsThePool
  BY <1>1, <1>3, <1>4, <1>5 DEF Init, Bounded, HasItsJob, AtWork, HasItsPool, StopsThePool
<1>9. ClosedIsOver /\ UnmadeIsUnborn /\ PoolWasMade /\ NoWorkerOutlivesStop
  BY <1>3, <1>4 DEF Init, ClosedIsOver, UnmadeIsUnborn, At, PoolWasMade, NoPool, NoWorkerOutlivesStop
<1>10. Tree
  <2>1. \A g \in Pools, w \in Workers : ~InTree(g, w)
    BY <1>3 DEF InTree
  <2>2. InActiveTree /\ BranchStays
    BY <1>6, <2>1 DEF InActiveTree, BranchStays
  <2>3. OneOwner
    BY <2>1 DEF OneOwner, InTree
  <2>4. QED
    BY <2>2, <2>3 DEF Tree
<1>11. QED
  BY <1>7, <1>8, <1>9, <1>10 DEF WInv, Shape, Life

\* The invariant is inductive.
LEMMA WStep == WInv /\ [Next]_vars => WInv'
<1>1. SUFFICES ASSUME WInv, [Next]_vars PROVE WInv'
  OBVIOUS
<1>2. CASE \E d \in Dispatchers : DispatchStep(d)
  BY <1>1, <1>2, WDispatch, WDispatchFirst, WSubmit, WSubmitStopped, WCollect, WCollectEnds
     DEF DispatchStep
<1>3. CASE \E g \in Pools, w \in Workers : WorkerStep(g, w)
  BY <1>1, <1>3, WLeave, WTake, WCreate, WEnds, WLetsGo DEF WorkerStep
<1>4. CASE CancelAll \/ StopStep
  BY <1>1, <1>4, WStops, WStopped DEF StopStep
<1>5. CASE UNCHANGED vars
  BY <1>1, <1>5, WNothing
<1>6. QED
  BY <1>1, <1>2, <1>3, <1>4, <1>5 DEF Next

\* An entry that is settled is not touched again.
LEMMA SettledKept ==
  ASSUME WInv, [Next]_vars, NEW t \in Tasks, trees[t].entry \in {"merged", "abandoned"}
  PROVE  trees'[t] = trees[t]
<1>1. Types /\ HasItsJob /\ Tree /\ trees \in [Tasks -> TreeStates]
  BY DEF WInv, Shape, Types
<1>2. CASE UNCHANGED trees
  BY <1>2
<1>3. ASSUME NEW g \in Pools, NEW w \in Workers, Create(g, w) \/ Merge(g, w) \/ Abandon(g, w),
             trees' # trees
      PROVE  /\ workers[g][w].job.task # t
             /\ \A u \in Tasks \ {workers[g][w].job.task} : trees'[u] = trees[u]
  <2> DEFINE mine == workers[g][w].job.task
  <2>1. mine \in Tasks
    BY <1>1, <1>3, TaskOf, Zenon DEF Create, Merge, Abandon, At, AtWork
  <2>2. CASE Create(g, w)
    <3>1. Fresh(mine)
      BY <1>3, <2>2, Zenon DEF Create
    <3>2. mine # t
      BY <1>1, <3>1 DEF Tree, BranchStays, Fresh
    <3>3. \A u \in Tasks \ {mine} : trees'[u] = trees[u]
      BY <1>1, <1>3, <2>1, <2>2, Zenon DEF Create
    <3>4. QED
      BY <3>2, <3>3
  <2>3. CASE Merge(g, w) \/ Abandon(g, w)
    <3>1. trees[mine].entry = "active"
      BY <1>1, <2>3, Zenon DEF Merge, Abandon, At, Tree, InActiveTree, InTree
    <3>2. \A u \in Tasks \ {mine} : trees'[u] = trees[u]
      BY <1>1, <1>3, <2>1, <2>3, Zenon DEF Merge, Abandon
    <3>3. QED
      BY <3>1, <3>2
  <2>4. QED
    BY <1>3, <2>2, <2>3
<1>4. CASE \E d \in Dispatchers : DispatchStep(d)
  BY <1>2, <1>4 DEF DispatchStep, Dispatch, DispatchFirst, Submit, SubmitStopped,
                    Collect, CollectClosed, GiveUp
<1>5. CASE \E g \in Pools, w \in Workers : WorkerStep(g, w)
  BY <1>2, <1>3, <1>5 DEF WorkerStep, Leave, Take, Run, Send, Drop
<1>6. CASE CancelAll \/ StopStep \/ UNCHANGED vars
  BY <1>2, <1>6 DEF CancelAll, StopStep, CloseStopped, CloseTasks, CancelContext, Stopped, vars
<1>7. QED
  BY <1>4, <1>5, <1>6 DEF Next

-----------------------------------------------------------------------------
(*************************** where a job is ******************************)

In(q, j) == \E i \in DOMAIN q : q[i] = j
Unrepeated(q) == \A i, k \in DOMAIN q : q[i] = q[k] => i = k
Has(g, w, j) == workers[g][w].pc \in AtWork /\ workers[g][w].job = j

\* On its way a job is with its pusher, in the task queue, with a worker, in the
\* result queue, or with a call that has collected it.
Left(j) == \E d \in Dispatchers : In(pushers[d].left, j)
Queued(j) == \E g \in Pools : In(chans[g].tasks, j)
AtHand(j) == \E g \in Pools, w \in Workers : Has(g, w, j)
Answered(j) == \E g \in Pools : In(chans[g].results, j)
Collected(j) == \E e \in Dispatchers : In(calls[e].results, j)
Somewhere(j) == Left(j) \/ Queued(j) \/ AtHand(j) \/ Answered(j) \/ Collected(j)

\* It is never in two of them,
Apart(j) ==
    /\ Left(j) => ~Queued(j) /\ ~AtHand(j) /\ ~Answered(j) /\ ~Collected(j)
    /\ Queued(j) => ~AtHand(j) /\ ~Answered(j) /\ ~Collected(j)
    /\ AtHand(j) => ~Answered(j) /\ ~Collected(j)
    /\ Answered(j) => ~Collected(j)

\* nor with two workers or two calls,
Once(j) ==
    /\ \A g \in Pools : \A v, w \in Workers : Has(g, v, j) /\ Has(g, w, j) => v = w
    /\ \A e, f \in Dispatchers : In(calls[e].results, j) /\ In(calls[f].results, j) => e = f

\* and it is one of its call's jobs, pushed by that call's goroutine into the pool
\* that the call has taken, and collected by a call of the same pool.
OneOf(j) == j \in Job /\ j.at \in 1 .. Len(Batch[j.by]) /\ j.task = Batch[j.by][j.at]
PoolOf(j) == calls[j.by].pool

Owned(j) ==
    /\ Somewhere(j) => OneOf(j) /\ PoolOf(j) \in Pools
    /\ \A d \in Dispatchers : In(pushers[d].left, j) => d = j.by
    /\ \A g \in Pools : In(chans[g].tasks, j) \/ In(chans[g].results, j) => g = PoolOf(j)
    /\ \A g \in Pools, w \in Workers : Has(g, w, j) => g = PoolOf(j)
    /\ \A e \in Dispatchers : In(calls[e].results, j) => calls[e].pool = PoolOf(j)

OnItsWay(j) == Apart(j) /\ Once(j) /\ Owned(j)

\* No queue holds a job twice.
NoneTwice ==
    /\ \A g \in Pools : Unrepeated(chans[g].tasks) /\ Unrepeated(chans[g].results)
    /\ \A d \in Dispatchers : Unrepeated(pushers[d].left) /\ Unrepeated(calls[d].results)

\* Until its pool is stopped a job that was dispatched is somewhere.
NoneLost ==
    \A j \in Job : OneOf(j) /\ PoolOf(j) \in Pools /\ ~chans[PoolOf(j)].stopped => Somewhere(j)

\* Stop closes stopped before it closes the tasks and cancels the context.
StoppedFirst ==
    /\ \A g \in Pools : chans[g].closed \/ chans[g].cancelled => chans[g].stopped
    /\ cancel \in {"tasks", "context", "wait"} => chans[pool].stopped

\* A call that is new has no pool, and one that collects has not got all.
Collecting ==
    \A d \in Dispatchers :
        /\ calls[d].pc = "new" => calls[d].pool = NoPool
        /\ calls[d].pc = "new" \/ calls[d].pool = NoPool => calls[d].results = <<>>
        /\ calls[d].pc = "collect" => Len(calls[d].results) < Len(Batch[d])
        /\ calls[d].pc = "returned" => Len(calls[d].results) = Len(Batch[d])

JobInv ==
    /\ \A j \in Job : OnItsWay(j)
    /\ NoneTwice /\ NoneLost /\ StoppedFirst /\ Collecting

-----------------------------------------------------------------------------
\* What leaves the head of a queue is not in the rest.
LEMMA TailLets ==
  ASSUME NEW q \in Seq(Job), q # <<>>, Unrepeated(q)
  PROVE  /\ Head(q) \in Job /\ In(q, Head(q)) /\ Unrepeated(Tail(q))
         /\ \A j : In(Tail(q), j) <=> In(q, j) /\ j # Head(q)
<1>1. /\ Head(q) \in Job /\ Tail(q) \in Seq(Job) /\ Len(Tail(q)) = Len(q) - 1
      /\ \A i \in 1 .. Len(Tail(q)) : Tail(q)[i] = q[i + 1]
  BY HeadTailProperties
<1>2. Len(q) \in Nat \ {0} /\ DOMAIN q = 1 .. Len(q) /\ DOMAIN Tail(q) = 1 .. Len(q) - 1
      /\ Head(q) = q[1]
  BY <1>1, LenProperties, EmptySeq
<1> DEFINE t == Tail(q)
<1>3. /\ DOMAIN t = 1 .. Len(q) - 1
      /\ \A i \in 1 .. Len(q) - 1 : t[i] = q[i + 1]
  BY <1>1, <1>2
<1> HIDE DEF t
<1>4. Unrepeated(t)
  <2> SUFFICES ASSUME NEW i \in DOMAIN t, NEW k \in DOMAIN t, t[i] = t[k] PROVE i = k
    BY DEF Unrepeated
  <2>1. q[i + 1] = q[k + 1] /\ i + 1 \in DOMAIN q /\ k + 1 \in DOMAIN q
    BY <1>2, <1>3
  <2>2. i + 1 = k + 1
    BY <2>1 DEF Unrepeated
  <2>3. QED
    BY <1>2, <1>3, <2>2
<1>5. ASSUME NEW j PROVE In(t, j) <=> In(q, j) /\ j # Head(q)
  <2>1. ASSUME NEW i \in DOMAIN t, t[i] = j PROVE In(q, j) /\ j # Head(q)
    <3>1. i + 1 \in DOMAIN q /\ q[i + 1] = j /\ i + 1 # 1 /\ 1 \in DOMAIN q
      BY <1>2, <1>3, <2>1
    <3>2. QED
      BY <1>2, <3>1 DEF In, Unrepeated
  <2>2. ASSUME NEW i \in DOMAIN q, q[i] = j, j # Head(q) PROVE In(t, j)
    <3>1. i - 1 \in DOMAIN t /\ t[i - 1] = j
      BY <1>2, <1>3, <2>2
    <3>2. QED
      BY <3>1 DEF In
  <2>3. QED
    BY <2>1, <2>2 DEF In
<1>6. In(q, Head(q))
  BY <1>2 DEF In
<1>7. QED
  BY <1>1, <1>4, <1>5, <1>6 DEF t

\* What joins the end of a queue is in it once.
LEMMA AppendTakes ==
  ASSUME NEW q \in Seq(Job), NEW h \in Job, Unrepeated(q), ~In(q, h)
  PROVE  /\ Unrepeated(Append(q, h))
         /\ \A j : In(Append(q, h), j) <=> In(q, j) \/ j = h
<1> DEFINE t == Append(q, h)
<1>1. /\ t \in Seq(Job) /\ Len(t) = Len(q) + 1 /\ \A i \in 1 .. Len(q) : t[i] = q[i]
      /\ t[Len(q) + 1] = h
  BY AppendProperties
<1>2. Len(q) \in Nat /\ DOMAIN q = 1 .. Len(q) /\ DOMAIN t = 1 .. Len(q) + 1
  BY <1>1, LenProperties
<1> HIDE DEF t
<1>3. Unrepeated(t)
  BY <1>1, <1>2 DEF Unrepeated, In
<1>4. ASSUME NEW j PROVE In(t, j) <=> In(q, j) \/ j = h
  <2>1. ASSUME NEW i \in DOMAIN t, t[i] = j PROVE In(q, j) \/ j = h
    BY <1>1, <1>2, <2>1 DEF In
  <2>2. ASSUME NEW i \in DOMAIN q, q[i] = j PROVE In(t, j)
    BY <1>1, <1>2, <2>2 DEF In
  <2>3. Len(q) + 1 \in DOMAIN t
    BY <1>2
  <2>4. In(t, h)
    BY <1>1, <2>3 DEF In
  <2>5. QED
    BY <2>1, <2>2, <2>4 DEF In
<1>5. QED
  BY <1>3, <1>4 DEF t

\* A job that no step touches is on its way as before.
Untouched(j) ==
    /\ \A d \in Dispatchers : In(pushers'[d].left, j) <=> In(pushers[d].left, j)
    /\ \A g \in Pools : In(chans'[g].tasks, j) <=> In(chans[g].tasks, j)
    /\ \A g \in Pools, w \in Workers : Has(g, w, j)' <=> Has(g, w, j)
    /\ \A g \in Pools : In(chans'[g].results, j) <=> In(chans[g].results, j)
    /\ \A e \in Dispatchers : In(calls'[e].results, j) <=> In(calls[e].results, j)

\* It is then where it was.
LEMMA UntouchedStays ==
  ASSUME NEW j \in Job, OnItsWay(j), Untouched(j), PoolOf(j)' = PoolOf(j),
         \A e \in Dispatchers : In(calls[e].results, j) => calls'[e].pool = calls[e].pool
  PROVE  OnItsWay(j)' /\ (Somewhere(j)' <=> Somewhere(j))
<1>1. /\ Left(j)' <=> Left(j)
      /\ Queued(j)' <=> Queued(j)
      /\ AtHand(j)' <=> AtHand(j)
      /\ Answered(j)' <=> Answered(j)
      /\ Collected(j)' <=> Collected(j)
  BY DEF Untouched, Left, Queued, AtHand, Answered, Collected
<1>2. Somewhere(j)' <=> Somewhere(j)
  BY <1>1 DEF Somewhere
<1>3. Apart(j)'
  BY <1>1 DEF OnItsWay, Apart
<1>4. Once(j)'
  BY DEF OnItsWay, Once, Untouched
<1>5. Owned(j)'
  <2>1. Somewhere(j)' => OneOf(j)' /\ PoolOf(j)' \in Pools
    BY <1>2 DEF OnItsWay, Owned, OneOf
  <2>2. /\ \A d \in Dispatchers : In(pushers'[d].left, j) => d = j.by
        /\ \A g \in Pools : In(chans'[g].tasks, j) \/ In(chans'[g].results, j) => g = PoolOf(j)'
    BY DEF OnItsWay, Owned, Untouched
  <2>3. \A g \in Pools, w \in Workers : Has(g, w, j)' => g = PoolOf(j)'
    BY DEF OnItsWay, Owned, Untouched
  <2>4. \A e \in Dispatchers : In(calls'[e].results, j) => calls'[e].pool = PoolOf(j)'
    BY DEF OnItsWay, Owned, Untouched
  <2>5. QED
    BY <2>1, <2>2, <2>3, <2>4 DEF Owned
<1>6. QED
  BY <1>2, <1>3, <1>4, <1>5 DEF OnItsWay

\* A step that touches job h at most, and leaves it on its way.
LEMMA JobsMove ==
  ASSUME JobInv, NEW h \in Job, \A j \in Job : j = h \/ Untouched(j),
         OnItsWay(h)', Somewhere(h) => Somewhere(h)' \/ chans'[PoolOf(h)].stopped,
         NoneTwice', StoppedFirst', Collecting',
         \A d \in Dispatchers : calls'[d].pool = calls[d].pool,
         \A g \in Pools : chans[g].stopped => chans'[g].stopped
  PROVE  JobInv'
<1>1. \A j \in Job : PoolOf(j)' = PoolOf(j)
  BY DEF PoolOf, Job
<1>2. \A j \in Job : j # h => OnItsWay(j)' /\ (Somewhere(j)' <=> Somewhere(j))
  BY <1>1, UntouchedStays DEF JobInv
<1>3. NoneLost'
  <2> SUFFICES ASSUME NEW j \in Job, OneOf(j), PoolOf(j)' \in Pools, ~chans'[PoolOf(j)'].stopped
               PROVE  Somewhere(j)'
    BY DEF NoneLost, OneOf
  <2>1. Somewhere(j)
    BY <1>1 DEF JobInv, NoneLost
  <2>2. QED
    BY <1>1, <1>2, <2>1
<1>4. QED
  BY <1>2, <1>3 DEF JobInv

\* A step that touches no job.
LEMMA NoJobMoves ==
  ASSUME JobInv,
         \A d \in Dispatchers : pushers'[d].left = pushers[d].left
                                /\ calls'[d].pool = calls[d].pool
                                /\ calls'[d].results = calls[d].results,
         \A g \in Pools : chans'[g].tasks = chans[g].tasks /\ chans'[g].results = chans[g].results
                          /\ (chans[g].stopped => chans'[g].stopped),
         \A g \in Pools, w \in Workers, j \in Job : Has(g, w, j)' <=> Has(g, w, j),
         StoppedFirst', Collecting'
  PROVE  JobInv'
<1>1. NoneTwice'
  BY DEF JobInv, NoneTwice
<1>2. \A j \in Job : Untouched(j)
  BY DEF Untouched
<1>3. \A j \in Job : PoolOf(j)' = PoolOf(j)
  BY DEF PoolOf, Job
<1>4. \A j \in Job : OnItsWay(j)' /\ (Somewhere(j)' <=> Somewhere(j))
  BY <1>2, <1>3, UntouchedStays DEF JobInv
<1>5. NoneLost'
  BY <1>3, <1>4 DEF JobInv, NoneLost, OneOf
<1>6. QED
  BY <1>1, <1>4, <1>5 DEF JobInv

\* A worker that lets its job go has none.
LEMMA LetsGo ==
  ASSUME WInv, NEW g \in Pools, NEW w \in Workers, NEW pc \in {"select", "exited"},
         workers' = [workers EXCEPT ![g][w] = Without(pc)]
  PROVE  /\ workers'[g][w].pc = pc
         /\ \A h \in Pools, v \in Workers : h # g \/ v # w => workers'[h][v] = workers[h][v]
<1> DEFINE s == Without(pc)
<1>1. s \in WorkerStates /\ s.pc = pc /\ Becomes(g, w, s)
  BY DEF Without, WorkerStates, Becomes
<1> HIDE DEF s
<1>2. HasBecome(g, w, s)
  BY <1>1, OneWorker DEF WInv, Shape
<1>3. QED
  BY <1>1, <1>2 DEF HasBecome

\* The flags of the pools stay as they are.
LEMMA FlagsStay ==
  ASSUME WInv, JobInv, UNCHANGED <<pool, cancel>>,
         \A g \in Pools : /\ chans'[g].stopped = chans[g].stopped /\ chans'[g].closed = chans[g].closed
                          /\ chans'[g].cancelled = chans[g].cancelled
  PROVE  StoppedFirst'
<1>1. cancel # "idle" => pool \in Pools
  BY DEF WInv, Shape, StopsThePool
<1>2. QED
  BY <1>1 DEF JobInv, StoppedFirst

\* A job goes from its pusher into the task queue.
LEMMA JSubmit ==
  ASSUME WInv, JobInv, NEW d \in Dispatchers, Submit(d)
  PROVE  JobInv'
<1> DEFINE left == pushers[d].left
           rest == Tail(left)
<1>1. Types /\ HasItsPool /\ d \in Dispatchers /\ pushers[d].pc = "push" /\ left # <<>>
  BY DEF WInv, Shape, Submit
<1>2. PICK g \in Pools : g = calls[d].pool
  BY <1>1 DEF HasItsPool
<1> DEFINE q == chans[g].tasks
<1>3. /\ pushers \in [Dispatchers -> PusherStates] /\ left \in Seq(Job)
      /\ chans \in [Pools -> ChanStates] /\ q \in Seq(Job)
  BY <1>1 DEF Types, PusherStates, ChanStates
<1>4. Unrepeated(left) /\ Unrepeated(q)
  BY DEF JobInv, NoneTwice
<1>5. PICK h \in Job : h = Head(left)
  BY <1>1, <1>3, HeadTailProperties
<1> DEFINE longer == Append(q, h)
<1>6. /\ In(left, h) /\ Unrepeated(rest)
      /\ \A j : In(rest, j) <=> In(left, j) /\ j # h
  BY <1>1, <1>3, <1>4, <1>5, TailLets
<1>7. /\ chans' = [chans EXCEPT ![g].tasks = longer]
       /\ pushers' = [pushers EXCEPT ![d].left = rest]
       /\ UNCHANGED <<pool, made, mu, workers, calls, cancel, trees>>
  BY <1>2, <1>5 DEF Submit, Pushed
<1> HIDE DEF rest
<1>8. OnItsWay(h) /\ Left(h)
  BY <1>6 DEF JobInv, Left
<1>9. ~Queued(h) /\ ~AtHand(h) /\ ~Answered(h) /\ ~Collected(h)
  BY <1>8 DEF OnItsWay, Apart
<1>10. OneOf(h) /\ h.by = d /\ PoolOf(h) = g
  BY <1>2, <1>6, <1>8 DEF OnItsWay, Owned, Somewhere, PoolOf
<1>11. /\ Unrepeated(longer)
       /\ \A j : In(longer, j) <=> In(q, j) \/ j = h
  BY <1>3, <1>4, <1>9, AppendTakes DEF Queued
<1> HIDE DEF longer
<1>12. /\ pushers'[d].left = rest /\ \A e \in Dispatchers \ {d} : pushers'[e] = pushers[e]
       /\ chans'[g].tasks = longer /\ chans'[g].results = chans[g].results
       /\ chans'[g].stopped = chans[g].stopped /\ chans'[g].closed = chans[g].closed
       /\ chans'[g].cancelled = chans[g].cancelled
       /\ \A k \in Pools \ {g} : chans'[k] = chans[k]
  BY <1>3, <1>7 DEF PusherStates, ChanStates
<1> HIDE DEF left, q
<1>13. NoneTwice' /\ Collecting'
  BY <1>7, <1>6, <1>11, <1>12 DEF JobInv, NoneTwice, Collecting
<1>14. StoppedFirst'
  BY <1>7, <1>12, FlagsStay
<1>15. \A j \in Job : j = h \/ Untouched(j)
  BY <1>7, <1>6, <1>11, <1>12 DEF Untouched, Has, left, q
<1>16. /\ Queued(h)' /\ ~Left(h)' /\ ~AtHand(h)' /\ ~Answered(h)' /\ ~Collected(h)'
       /\ \A k \in Pools : In(chans'[k].tasks, h) => k = g
  <2>1. Queued(h)' /\ \A k \in Pools : In(chans'[k].tasks, h) => k = g
    BY <1>9, <1>11, <1>12 DEF Queued, q
  <2>2. ~Left(h)'
    BY <1>6, <1>8, <1>10, <1>12 DEF Left, OnItsWay, Owned, left
  <2>3. ~AtHand(h)' /\ ~Answered(h)' /\ ~Collected(h)'
    BY <1>7, <1>9, <1>12 DEF AtHand, Has, Answered, Collected
  <2>4. QED
    BY <2>1, <2>2, <2>3
<1>17. OnItsWay(h)'
  <2>1. Apart(h)' /\ Once(h)'
    BY <1>16 DEF Apart, Once, AtHand, Collected
  <2>2. Owned(h)'
    BY <1>7, <1>10, <1>16 DEF Owned, PoolOf, OneOf, Left, AtHand, Answered, Collected
  <2>3. QED
    BY <2>1, <2>2 DEF OnItsWay
<1>18. /\ \A e \in Dispatchers : calls'[e].pool = calls[e].pool
       /\ \A k \in Pools : chans[k].stopped => chans'[k].stopped
  BY <1>7, <1>12
<1>19. Somewhere(h)'
  BY <1>16 DEF Somewhere
<1>20. QED
  BY <1>13, <1>14, <1>15, <1>17, <1>18, <1>19, JobsMove

\* A job goes from the task queue to a worker.
LEMMA JTake ==
  ASSUME WInv, JobInv, NEW g \in Pools, NEW w \in Workers, Take(g, w)
  PROVE  JobInv'
<1> DEFINE q == chans[g].tasks
           rest == Tail(q)
<1>1. Types /\ q # <<>> /\ ~(workers[g][w].pc \in AtWork)
  BY DEF WInv, Shape, Take, At, AtWork
<1>2. chans \in [Pools -> ChanStates] /\ q \in Seq(Job)
  BY <1>1 DEF Types, ChanStates
<1>3. Unrepeated(q)
  BY DEF JobInv, NoneTwice
<1>4. PICK h \in Job : h = Head(q)
  BY <1>1, <1>2, HeadTailProperties
<1>5. /\ In(q, h) /\ Unrepeated(rest)
      /\ \A j : In(rest, j) <=> In(q, j) /\ j # h
  BY <1>1, <1>2, <1>3, <1>4, TailLets
<1>6. /\ chans' = [chans EXCEPT ![g].tasks = rest]
      /\ UNCHANGED <<pool, made, mu, calls, pushers, cancel, trees>>
  BY DEF Take, Received
<1> HIDE DEF rest
<1>7. /\ workers'[g][w].pc = "create" /\ workers'[g][w].job = h
      /\ \A k \in Pools, v \in Workers : k # g \/ v # w => workers'[k][v] = workers[k][v]
  BY <1>4, TakeGives
<1>8. OnItsWay(h) /\ Queued(h)
  BY <1>5 DEF JobInv, Queued
<1>9. ~Left(h) /\ ~AtHand(h) /\ ~Answered(h) /\ ~Collected(h)
  BY <1>8 DEF OnItsWay, Apart
<1>10. OneOf(h) /\ PoolOf(h) = g
  BY <1>5, <1>8 DEF OnItsWay, Owned, Somewhere
<1>11. /\ chans'[g].tasks = rest /\ chans'[g].results = chans[g].results
       /\ chans'[g].stopped = chans[g].stopped /\ chans'[g].closed = chans[g].closed
       /\ chans'[g].cancelled = chans[g].cancelled
       /\ \A k \in Pools \ {g} : chans'[k] = chans[k]
  BY <1>2, <1>6 DEF ChanStates
<1>12. NoneTwice' /\ Collecting'
  BY <1>5, <1>6, <1>11 DEF JobInv, NoneTwice, Collecting
<1>13. StoppedFirst'
  BY <1>6, <1>11, FlagsStay
<1>14. \A k \in Pools, v \in Workers, j \in Job :
           Has(k, v, j)' <=> Has(k, v, j) \/ (k = g /\ v = w /\ j = h)
  BY <1>1, <1>7 DEF Has, AtWork
<1>15. \A j \in Job : j = h \/ Untouched(j)
  BY <1>5, <1>6, <1>11, <1>14 DEF Untouched
<1>16. /\ AtHand(h)' /\ ~Left(h)' /\ ~Queued(h)' /\ ~Answered(h)' /\ ~Collected(h)'
       /\ \A k \in Pools, v \in Workers : Has(k, v, h)' => k = g /\ v = w
  <2>1. AtHand(h)' /\ \A k \in Pools, v \in Workers : Has(k, v, h)' => k = g /\ v = w
    BY <1>9, <1>14 DEF AtHand
  <2>2. ~Queued(h)'
    BY <1>5, <1>8, <1>10, <1>11 DEF Queued, OnItsWay, Owned
  <2>3. ~Left(h)' /\ ~Answered(h)' /\ ~Collected(h)'
    BY <1>6, <1>9, <1>11 DEF Left, Answered, Collected
  <2>4. QED
    BY <2>1, <2>2, <2>3
<1>17. OnItsWay(h)'
  <2>1. Apart(h)' /\ Once(h)'
    BY <1>16 DEF Apart, Once, Collected
  <2>2. Owned(h)'
    BY <1>6, <1>10, <1>16 DEF Owned, PoolOf, OneOf, Left, Queued, Answered, Collected
  <2>3. QED
    BY <2>1, <2>2 DEF OnItsWay
<1>18. /\ \A e \in Dispatchers : calls'[e].pool = calls[e].pool
       /\ \A k \in Pools : chans[k].stopped => chans'[k].stopped
  BY <1>6, <1>11
<1>19. Somewhere(h)'
  BY <1>16 DEF Somewhere
<1>20. QED
  BY <1>12, <1>13, <1>15, <1>17, <1>18, <1>19, JobsMove

\* A result goes into the result queue.
LEMMA JSend ==
  ASSUME WInv, JobInv, NEW g \in Pools, NEW w \in Workers, Send(g, w)
  PROVE  JobInv'
<1> DEFINE q == chans[g].results
<1>1. Types /\ workers[g][w].pc \in AtWork
  BY DEF WInv, Shape, Send, At, AtWork
<1>2. chans \in [Pools -> ChanStates] /\ q \in Seq(Job)
  BY <1>1 DEF Types, ChanStates
<1>3. PICK h \in Job : h = workers[g][w].job
  BY <1>1 DEF WInv, Shape, HasItsJob
<1>4. OnItsWay(h) /\ Has(g, w, h) /\ AtHand(h)
  BY <1>1, <1>3 DEF JobInv, AtHand, Has
<1>5. ~Left(h) /\ ~Queued(h) /\ ~Answered(h) /\ ~Collected(h)
  BY <1>4 DEF OnItsWay, Apart
<1>6. OneOf(h) /\ PoolOf(h) = g
  BY <1>4 DEF OnItsWay, Owned, Somewhere
<1> DEFINE longer == Append(q, h)
<1>7. /\ Unrepeated(longer)
      /\ \A j : In(longer, j) <=> In(q, j) \/ j = h
  BY <1>2, <1>5, AppendTakes DEF JobInv, NoneTwice, Answered
<1>8. /\ chans' = [chans EXCEPT ![g].results = longer]
      /\ workers' = [workers EXCEPT ![g][w] = Without("select")]
      /\ UNCHANGED <<pool, made, mu, calls, pushers, cancel, trees>>
  BY <1>3 DEF Send
<1> HIDE DEF longer
<1>9. /\ workers'[g][w].pc = "select"
      /\ \A k \in Pools, v \in Workers : k # g \/ v # w => workers'[k][v] = workers[k][v]
  BY <1>1, <1>8, LetsGo
<1>10. /\ chans'[g].results = longer /\ chans'[g].tasks = chans[g].tasks
       /\ chans'[g].stopped = chans[g].stopped /\ chans'[g].closed = chans[g].closed
       /\ chans'[g].cancelled = chans[g].cancelled
       /\ \A k \in Pools \ {g} : chans'[k] = chans[k]
  BY <1>2, <1>8 DEF ChanStates
<1>11. NoneTwice' /\ Collecting'
  BY <1>7, <1>8, <1>10 DEF JobInv, NoneTwice, Collecting
<1>12. StoppedFirst'
  BY <1>8, <1>10, FlagsStay
<1>13. \A k \in Pools, v \in Workers, j \in Job :
           Has(k, v, j)' <=> Has(k, v, j) /\ ~(k = g /\ v = w)
  BY <1>9 DEF Has, AtWork
<1>14. \A j \in Job : j = h \/ ~Has(g, w, j)
  BY <1>3 DEF Has
<1>15. \A j \in Job : j = h \/ Untouched(j)
  BY <1>7, <1>8, <1>10, <1>13, <1>14 DEF Untouched
<1>16. /\ Answered(h)' /\ ~Left(h)' /\ ~Queued(h)' /\ ~AtHand(h)' /\ ~Collected(h)'
       /\ \A k \in Pools : In(chans'[k].results, h) => k = g
  <2>1. Answered(h)' /\ \A k \in Pools : In(chans'[k].results, h) => k = g
    BY <1>5, <1>7, <1>10 DEF Answered
  <2>2. ~AtHand(h)'
    BY <1>4, <1>6, <1>13 DEF AtHand, OnItsWay, Owned, Once
  <2>3. ~Left(h)' /\ ~Queued(h)' /\ ~Collected(h)'
    BY <1>5, <1>8, <1>10 DEF Left, Queued, Collected
  <2>4. QED
    BY <2>1, <2>2, <2>3
<1>17. OnItsWay(h)'
  <2>1. Apart(h)' /\ Once(h)'
    BY <1>16 DEF Apart, Once, AtHand, Collected
  <2>2. Owned(h)'
    BY <1>6, <1>8, <1>16 DEF Owned, PoolOf, OneOf, Left, Queued, AtHand, Collected
  <2>3. QED
    BY <2>1, <2>2 DEF OnItsWay
<1>18. /\ \A e \in Dispatchers : calls'[e].pool = calls[e].pool
       /\ \A k \in Pools : chans[k].stopped => chans'[k].stopped
  BY <1>8, <1>10
<1>19. Somewhere(h)'
  BY <1>16 DEF Somewhere
<1>20. QED
  BY <1>11, <1>12, <1>15, <1>17, <1>18, <1>19, JobsMove

\* A result is dropped, once the pool has been stopped.
LEMMA JDrop ==
  ASSUME WInv, JobInv, NEW g \in Pools, NEW w \in Workers, Drop(g, w)
  PROVE  JobInv'
<1>1. workers[g][w].pc \in AtWork /\ chans[g].cancelled
  BY DEF Drop, Released, At, AtWork
<1>2. PICK h \in Job : h = workers[g][w].job
  BY <1>1 DEF WInv, Shape, HasItsJob
<1>3. OnItsWay(h) /\ Has(g, w, h) /\ AtHand(h)
  BY <1>1, <1>2 DEF JobInv, AtHand, Has
<1>4. ~Left(h) /\ ~Queued(h) /\ ~Answered(h) /\ ~Collected(h)
  BY <1>3 DEF OnItsWay, Apart
<1>5. PoolOf(h) = g /\ chans[g].stopped
  BY <1>1, <1>3 DEF OnItsWay, Owned, JobInv, StoppedFirst
<1>6. /\ workers' = [workers EXCEPT ![g][w] = Without("exited")]
      /\ UNCHANGED <<pool, made, mu, chans, calls, pushers, cancel, trees>>
  BY DEF Drop
<1>7. /\ workers'[g][w].pc = "exited"
      /\ \A k \in Pools, v \in Workers : k # g \/ v # w => workers'[k][v] = workers[k][v]
  BY <1>1, <1>6, LetsGo
<1>8. NoneTwice' /\ Collecting' /\ StoppedFirst'
  BY <1>6 DEF JobInv, NoneTwice, Collecting, StoppedFirst
<1>9. \A k \in Pools, v \in Workers, j \in Job :
          Has(k, v, j)' <=> Has(k, v, j) /\ ~(k = g /\ v = w)
  BY <1>7 DEF Has, AtWork
<1>10. \A j \in Job : j = h \/ ~Has(g, w, j)
  BY <1>2 DEF Has
<1>11. \A j \in Job : j = h \/ Untouched(j)
  BY <1>6, <1>9, <1>10 DEF Untouched
<1>12. ~Left(h)' /\ ~Queued(h)' /\ ~AtHand(h)' /\ ~Answered(h)' /\ ~Collected(h)'
  <2>1. ~AtHand(h)'
    BY <1>3, <1>5, <1>9 DEF AtHand, OnItsWay, Owned, Once
  <2>2. QED
    BY <2>1, <1>4, <1>6 DEF Left, Queued, Answered, Collected
<1>13. OnItsWay(h)'
  BY <1>12 DEF OnItsWay, Apart, Once, Owned, Somewhere, Left, Queued, AtHand, Answered, Collected
<1>14. QED
  BY <1>5, <1>6, <1>8, <1>11, <1>13, JobsMove

\* A call takes a result that it has not had, nor has anybody else.
LEMMA JCollect ==
  ASSUME WInv, JobInv, NEW d \in Dispatchers, Collect(d)
  PROVE  JobInv'
<1> DEFINE mine == calls[d].results
<1>1. Types /\ HasItsPool /\ calls[d].pc = "collect"
  BY DEF WInv, Shape, Collect
<1>2. PICK g \in Pools : g = calls[d].pool
  BY <1>1 DEF HasItsPool
<1> DEFINE q == chans[g].results
           rest == Tail(q)
<1>3. /\ calls \in [Dispatchers -> CallStates] /\ mine \in Seq(Job)
      /\ chans \in [Pools -> ChanStates] /\ q \in Seq(Job) /\ q # <<>>
  BY <1>1, <1>2 DEF Types, CallStates, ChanStates, Collect
<1>4. PICK h \in Job : h = Head(q)
  BY <1>3, HeadTailProperties
<1>5. /\ In(q, h) /\ Unrepeated(rest)
      /\ \A j : In(rest, j) <=> In(q, j) /\ j # h
  BY <1>3, <1>4, TailLets DEF JobInv, NoneTwice
<1>6. OnItsWay(h) /\ Answered(h)
  BY <1>5 DEF JobInv, Answered
<1>7. ~Left(h) /\ ~Queued(h) /\ ~AtHand(h) /\ ~Collected(h)
  BY <1>6 DEF OnItsWay, Apart
<1>8. OneOf(h) /\ PoolOf(h) = g
  BY <1>5, <1>6 DEF OnItsWay, Owned, Somewhere
<1> DEFINE got == Append(mine, h)
           pc == IF Len(got) < Len(Batch[d]) THEN calls[d].pc ELSE "returned"
<1>9. /\ Unrepeated(got) /\ got \in Seq(Job) /\ Len(got) = Len(mine) + 1
      /\ \A j : In(got, j) <=> In(mine, j) \/ j = h
  BY <1>3, <1>7, AppendTakes, AppendProperties DEF JobInv, NoneTwice, Collected
<1>10. /\ chans' = [chans EXCEPT ![g].results = rest]
       /\ calls' = [calls EXCEPT ![d].results = got, ![d].pc = pc]
       /\ UNCHANGED <<pool, made, mu, workers, pushers, cancel, trees>>
  BY <1>2, <1>4 DEF Collect
<1>11. /\ pc \in {"collect", "returned"}
       /\ pc = "collect" => Len(got) < Len(Batch[d])
       /\ pc = "returned" => Len(got) = Len(Batch[d])
  <2>1. Batch[d] \in Seq(Tasks)
    BY WorkerPoolAssumption
  <2>2. Len(Batch[d]) \in Nat /\ Len(mine) \in Nat /\ Len(mine) < Len(Batch[d])
    BY <1>1, <1>3, <2>1, LenProperties DEF JobInv, Collecting
  <2>3. QED
    BY <1>1, <1>9, <2>2
<1> HIDE DEF rest, got, pc
<1>12. /\ calls'[d].results = got /\ calls'[d].pc = pc /\ calls'[d].pool = g
       /\ \A e \in Dispatchers \ {d} : calls'[e] = calls[e]
  BY <1>2, <1>3, <1>10 DEF CallStates
<1>13. /\ chans'[g].results = rest /\ chans'[g].tasks = chans[g].tasks
       /\ chans'[g].stopped = chans[g].stopped /\ chans'[g].closed = chans[g].closed
       /\ chans'[g].cancelled = chans[g].cancelled
       /\ \A k \in Pools \ {g} : chans'[k] = chans[k]
  BY <1>3, <1>10 DEF ChanStates
<1> HIDE DEF mine, q
<1>14. NoneTwice'
  BY <1>5, <1>9, <1>10, <1>12, <1>13 DEF JobInv, NoneTwice
<1>15. Collecting'
  <2>1. g # NoPool
    BY DEF Pools, NoPool
  <2>2. QED
    BY <1>11, <1>12, <2>1 DEF JobInv, Collecting
<1>16. StoppedFirst'
  BY <1>10, <1>13, FlagsStay
<1>17. ASSUME NEW j \in Job, j # h PROVE Untouched(j)
  <2>1. \A k \in Pools : In(chans'[k].results, j) <=> In(chans[k].results, j)
    BY <1>5, <1>13, <1>17 DEF q
  <2>2. \A e \in Dispatchers : In(calls'[e].results, j) <=> In(calls[e].results, j)
    BY <1>9, <1>12, <1>17 DEF mine
  <2>3. QED
    BY <1>10, <1>13, <2>1, <2>2 DEF Untouched, Has
<1>18. /\ Collected(h)' /\ ~Left(h)' /\ ~Queued(h)' /\ ~AtHand(h)' /\ ~Answered(h)'
       /\ \A e \in Dispatchers : In(calls'[e].results, h) => e = d
  <2>1. Collected(h)' /\ \A e \in Dispatchers : In(calls'[e].results, h) => e = d
    BY <1>7, <1>9, <1>12 DEF Collected
  <2>2. ~Answered(h)'
    BY <1>5, <1>6, <1>8, <1>13 DEF Answered, OnItsWay, Owned
  <2>3. ~Left(h)' /\ ~Queued(h)' /\ ~AtHand(h)'
    BY <1>7, <1>10, <1>13 DEF Left, Queued, AtHand, Has
  <2>4. QED
    BY <2>1, <2>2, <2>3
<1>19. /\ \A e \in Dispatchers : calls'[e].pool = calls[e].pool
       /\ \A k \in Pools : chans[k].stopped => chans'[k].stopped
  BY <1>2, <1>12, <1>13
<1>20. OnItsWay(h)'
  <2>1. Apart(h)' /\ Once(h)'
    BY <1>18 DEF Apart, Once, AtHand
  <2>2. PoolOf(h)' = g
    BY <1>8, <1>19 DEF PoolOf, Job
  <2>3. Owned(h)'
    BY <1>8, <1>12, <1>18, <2>2 DEF Owned, OneOf, Left, Queued, AtHand, Answered
  <2>4. QED
    BY <2>1, <2>3 DEF OnItsWay
<1>21. Somewhere(h)'
  BY <1>18 DEF Somewhere
<1>22. QED
  BY <1>14, <1>15, <1>16, <1>17, <1>19, <1>20, <1>21, JobsMove

\* The jobs of a call differ, if only in their places in the batch.
LEMMA JobsDiffer ==
  ASSUME NEW d \in Dispatchers
  PROVE  /\ Unrepeated(Jobs(d)) /\ DOMAIN Jobs(d) = 1 .. Len(Batch[d])
         /\ \A j \in Job : In(Jobs(d), j) <=> OneOf(j) /\ j.by = d
<1>1. /\ DOMAIN Jobs(d) = 1 .. Len(Batch[d])
      /\ \A i \in 1 .. Len(Batch[d]) : Jobs(d)[i] = [by |-> d, at |-> i, task |-> Batch[d][i]]
  BY DEF Jobs
<1>2. ASSUME NEW i \in 1 .. Len(Batch[d]) PROVE Jobs(d)[i].at = i
  <2>1. Jobs(d)[i] = [by |-> d, at |-> i, task |-> Batch[d][i]]
    BY <1>1
  <2>2. QED
    BY <2>1
<1>3. Unrepeated(Jobs(d))
  BY <1>1, <1>2 DEF Unrepeated
<1>4. ASSUME NEW j \in Job PROVE In(Jobs(d), j) <=> OneOf(j) /\ j.by = d
  <2>1. ASSUME NEW i \in 1 .. Len(Batch[d]), Jobs(d)[i] = j PROVE OneOf(j) /\ j.by = d
    <3>1. j = [by |-> d, at |-> i, task |-> Batch[d][i]]
      BY <1>1, <2>1
    <3>2. QED
      BY <3>1 DEF OneOf
  <2>2. ASSUME OneOf(j), j.by = d PROVE In(Jobs(d), j)
    <3>1. j.at \in 1 .. Len(Batch[d]) /\ j = [by |-> d, at |-> j.at, task |-> Batch[d][j.at]]
      BY <2>2 DEF OneOf, Job
    <3>2. QED
      BY <1>1, <3>1 DEF In
  <2>3. QED
    BY <1>1, <2>1, <2>2 DEF In
<1>5. QED
  BY <1>1, <1>3, <1>4

\* A call's jobs begin their way with its pusher.
LEMMA JJoins ==
  ASSUME WInv, JobInv, NEW d \in Dispatchers, NEW g \in Pools, calls[d].pc = "new", Join(d, g),
         UNCHANGED chans, StoppedFirst',
         \A k \in Pools, w \in Workers, j \in Job : Has(k, w, j)' <=> Has(k, w, j)
  PROVE  JobInv'
<1>1. calls \in [Dispatchers -> CallStates] /\ pushers \in [Dispatchers -> PusherStates]
  BY DEF WInv, Shape, Types
<1>2. calls[d].pool = NoPool /\ calls[d].results = <<>> /\ NoPool \notin Pools /\ g # NoPool
  BY DEF JobInv, Collecting, Pools, NoPool
<1>3. /\ calls'[d].pc = "collect" /\ calls'[d].pool = g /\ calls'[d].results = <<>>
      /\ \A e \in Dispatchers \ {d} : calls'[e] = calls[e]
  BY <1>1, <1>2 DEF Join, CallStates
<1>4. /\ pushers'[d].left = Jobs(d)
      /\ \A e \in Dispatchers \ {d} : pushers'[e] = pushers[e]
  BY <1>1 DEF Join
<1>5. \A j : ~In(<<>>, j)
  BY DEF In
<1>6. NoneTwice'
  BY <1>3, <1>4, JobsDiffer DEF JobInv, NoneTwice, Unrepeated
<1>7. Collecting'
  <2>1. Batch[d] \in Seq(Tasks) /\ Batch[d] # <<>>
    BY WorkerPoolAssumption
  <2>2. Len(<<>>) < Len(Batch[d])
    BY <2>1, LenProperties, EmptySeq
  <2>3. QED
    BY <1>2, <1>3, <2>2 DEF JobInv, Collecting
<1>8. ASSUME NEW j \in Job, j.by # d
      PROVE  OnItsWay(j)' /\ (Somewhere(j)' <=> Somewhere(j)) /\ PoolOf(j)' = PoolOf(j)
  <2>1. PoolOf(j)' = PoolOf(j)
    BY <1>3, <1>8 DEF PoolOf, Job
  <2>2. ~In(pushers[d].left, j) /\ ~In(pushers'[d].left, j)
    BY <1>4, <1>8, JobsDiffer DEF JobInv, OnItsWay, Owned
  <2>3. Untouched(j)
    BY <1>2, <1>3, <1>4, <2>2 DEF Untouched
  <2>4. \A e \in Dispatchers : In(calls[e].results, j) => calls'[e].pool = calls[e].pool
    BY <1>2, <1>3, <1>5
  <2>5. QED
    BY <2>1, <2>3, <2>4, UntouchedStays DEF JobInv
<1>9. ASSUME NEW j \in Job, j.by = d
      PROVE  OnItsWay(j)' /\ (OneOf(j) => Somewhere(j)')
  <2>1. ~Somewhere(j)
    BY <1>2, <1>9 DEF JobInv, OnItsWay, Owned, PoolOf
  <2>2. ~Queued(j)' /\ ~AtHand(j)' /\ ~Answered(j)'
    BY <2>1 DEF Somewhere, Queued, AtHand, Answered
  <2>3. ~Collected(j)'
    BY <1>3, <1>5, <2>1 DEF Somewhere, Collected
  <2>4. \A e \in Dispatchers : In(pushers'[e].left, j) <=> e = d /\ OneOf(j)
    BY <1>4, <1>9, <2>1, JobsDiffer DEF Somewhere, Left
  <2>5. Left(j)' <=> OneOf(j)
    BY <2>4 DEF Left
  <2>6. Apart(j)' /\ Once(j)'
    BY <2>2, <2>3 DEF Apart, Once, AtHand, Collected
  <2>7. Owned(j)'
    BY <1>3, <1>9, <2>2, <2>3, <2>4, <2>5
       DEF Owned, Somewhere, OneOf, PoolOf, Queued, AtHand, Answered, Collected
  <2>8. QED
    BY <2>5, <2>6, <2>7 DEF OnItsWay, Somewhere
<1>10. NoneLost'
  BY <1>8, <1>9 DEF JobInv, NoneLost, OneOf
<1>11. QED
  BY <1>6, <1>7, <1>8, <1>9, <1>10 DEF JobInv

\* A call that takes the pool there is.
LEMMA JDispatch ==
  ASSUME WInv, JobInv, NEW d \in Dispatchers, Dispatch(d)
  PROVE  JobInv'
<1>1. /\ pool \in Pools /\ calls[d].pc = "new" /\ Join(d, pool)
      /\ UNCHANGED <<pool, chans, workers, cancel>>
  BY DEF WInv, Shape, Types, Dispatch
<1>2. StoppedFirst'
  BY <1>1 DEF JobInv, StoppedFirst
<1>3. PICK g \in Pools : g = pool
  BY <1>1
<1>4. Join(d, g)
  BY <1>1, <1>3 DEF Join
<1>5. \A k \in Pools, w \in Workers, j \in Job : Has(k, w, j)' <=> Has(k, w, j)
  BY <1>1 DEF Has
<1>6. QED
  BY <1>1, <1>2, <1>4, <1>5, JJoins

\* A call that ends, or does not begin, moves no job.
LEMMA CallEnds ==
  ASSUME WInv, JobInv, NEW d \in Dispatchers, calls' = [calls EXCEPT ![d].pc = "failed"],
         UNCHANGED <<chans, workers, pushers>>, StoppedFirst'
  PROVE  JobInv'
<1>1. calls \in [Dispatchers -> CallStates]
  BY DEF WInv, Shape, Types
<1>2. /\ calls'[d].pc = "failed" /\ calls'[d].pool = calls[d].pool
      /\ calls'[d].results = calls[d].results
      /\ \A e \in Dispatchers \ {d} : calls'[e] = calls[e]
  BY <1>1 DEF CallStates
<1>3. Collecting'
  BY <1>2 DEF JobInv, Collecting
<1>4. \A k \in Pools, w \in Workers, j \in Job : Has(k, w, j)' <=> Has(k, w, j)
  BY DEF Has
<1>5. \A e \in Dispatchers : /\ pushers'[e].left = pushers[e].left
                             /\ calls'[e].pool = calls[e].pool
                             /\ calls'[e].results = calls[e].results
  BY <1>2
<1>6. QED
  BY <1>3, <1>4, <1>5, NoJobMoves

\* The workers of a new pool have no job.
LEMMA JDispatchFirst ==
  ASSUME WInv, JobInv, NEW d \in Dispatchers, DispatchFirst(d)
  PROVE  JobInv'
<1>1. /\ calls[d].pc = "new" /\ ~mu /\ made < MaxPools /\ made \in Nat /\ MaxPools \in Nat
      /\ UNCHANGED <<mu, chans, cancel, trees>>
  BY WorkerPoolAssumption DEF WInv, Shape, Types, DispatchFirst
<1>2. PICK g \in Pools : g = made + 1
  BY <1>1 DEF Pools
<1>3. StoppedFirst'
  <2>1. cancel = "idle"
    BY <1>1 DEF WInv, Shape, StopsThePool
  <2>2. QED
    BY <1>1, <2>1 DEF JobInv, StoppedFirst
<1>4. workers \in [Pools -> [Workers -> WorkerStates]]
  BY DEF WInv, Shape, Types
<1>5. CASE workers' = [workers EXCEPT ![g] = [w \in Workers |-> Without("select")]] /\ Join(d, g)
  <2>1. /\ \A w \in Workers : workers'[g][w].pc = "select"
        /\ \A k \in Pools \ {g} : workers'[k] = workers[k]
    BY <1>4, <1>5 DEF Without
  <2>2. \A w \in Workers : workers[g][w].pc = "unborn"
    BY <1>1, <1>2 DEF WInv, Life, UnmadeIsUnborn, At
  <2>3. \A k \in Pools, w \in Workers, j \in Job : Has(k, w, j)' <=> Has(k, w, j)
    BY <2>1, <2>2 DEF Has, AtWork
  <2>4. QED
    BY <1>1, <1>3, <1>5, <2>3, JJoins
<1>6. CASE calls' = [calls EXCEPT ![d].pc = "failed"] /\ UNCHANGED <<pool, workers, pushers>>
  BY <1>1, <1>3, <1>6, CallEnds
<1>7. \/ /\ workers' = [workers EXCEPT ![made + 1] = [w \in Workers |-> Without("select")]]
         /\ Join(d, made + 1)
      \/ calls' = [calls EXCEPT ![d].pc = "failed"] /\ UNCHANGED <<pool, workers, pushers>>
  BY DEF DispatchFirst
<1>8. Join(d, made + 1) => Join(d, g)
  BY <1>2 DEF Join
<1>9. QED
  BY <1>2, <1>5, <1>6, <1>7, <1>8

\* A call that gives up leaves its jobs where they are.
LEMMA JGivesUp ==
  ASSUME WInv, JobInv, NEW d \in Dispatchers, CollectClosed(d) \/ GiveUp(d)
  PROVE  JobInv'
<1>1. /\ calls' = [calls EXCEPT ![d].pc = "failed"]
      /\ UNCHANGED <<pool, chans, workers, pushers, cancel>>
  BY DEF CollectClosed, GiveUp
<1>2. StoppedFirst'
  BY <1>1 DEF JobInv, StoppedFirst
<1>3. QED
  BY <1>1, <1>2, CallEnds

\* So does a pusher that is refused.
LEMMA JSubmitStopped ==
  ASSUME WInv, JobInv, NEW d \in Dispatchers, SubmitStopped(d)
  PROVE  JobInv'
<1>1. PICK pc \in {"done", "panic"} : pushers' = [pushers EXCEPT ![d].pc = pc]
  BY DEF SubmitStopped
<1>2. UNCHANGED <<pool, chans, workers, calls, cancel>>
  BY DEF SubmitStopped
<1>3. \A e \in Dispatchers : pushers'[e].left = pushers[e].left
  BY <1>1 DEF WInv, Shape, Types, PusherStates
<1>4. StoppedFirst' /\ Collecting'
  BY <1>2 DEF JobInv, StoppedFirst, Collecting
<1>5. \A k \in Pools, w \in Workers, j \in Job : Has(k, w, j)' <=> Has(k, w, j)
  BY <1>2 DEF Has
<1>6. QED
  BY <1>2, <1>3, <1>4, <1>5, NoJobMoves

\* A worker that goes on with its job keeps it, and one that leaves has none.
LEMMA JWorks ==
  ASSUME WInv, JobInv, NEW g \in Pools, NEW w \in Workers,
         Leave(g, w) \/ Create(g, w) \/ Run(g, w) \/ Merge(g, w) \/ Abandon(g, w)
  PROVE  JobInv'
<1>1. UNCHANGED <<pool, made, mu, chans, calls, pushers, cancel>>
  BY DEF Leave, Create, Run, Merge, Abandon
<1>2. \/ workers[g][w].pc = "select" /\ Go(g, w, "exited")
      \/ workers[g][w].pc \in AtWork /\ \E pc \in {"run", "send", "merge", "abandon"} : Go(g, w, pc)
  BY DEF Leave, Create, Run, Merge, Abandon, At, AtWork
<1>3. PICK pc \in {"exited", "run", "send", "merge", "abandon"} :
          /\ Go(g, w, pc) /\ (pc = "exited" <=> workers[g][w].pc = "select")
          /\ workers[g][w].pc \in AtWork \cup {"select"}
  BY <1>2 DEF AtWork
<1>4. /\ workers'[g][w].pc = pc /\ workers'[g][w].job = workers[g][w].job
      /\ \A h \in Pools, v \in Workers : h # g \/ v # w => workers'[h][v] = workers[h][v]
  BY <1>3, WorkerGoes DEF WInv, Shape, AtWork
<1>5. \A k \in Pools, v \in Workers, j \in Job : Has(k, v, j)' <=> Has(k, v, j)
  BY <1>3, <1>4 DEF Has, AtWork
<1>6. StoppedFirst' /\ Collecting'
  BY <1>1 DEF JobInv, StoppedFirst, Collecting
<1>7. QED
  BY <1>1, <1>5, <1>6, NoJobMoves

\* Stop closes and cancels, and moves no job.
LEMMA JStops ==
  ASSUME WInv, JobInv, CancelAll \/ StopStep \/ UNCHANGED vars
  PROVE  JobInv'
<1>1. UNCHANGED <<made, workers, calls, pushers, trees>>
  BY DEF CancelAll, StopStep, CloseStopped, CloseTasks, CancelContext, Stopped, vars
<1>2. chans \in [Pools -> ChanStates] /\ (cancel # "idle" => pool \in Pools)
  BY DEF WInv, Shape, Types, StopsThePool
<1>3. /\ \A g \in Pools : /\ chans'[g].tasks = chans[g].tasks /\ chans'[g].results = chans[g].results
                          /\ (chans[g].stopped => chans'[g].stopped)
      /\ StoppedFirst'
  <2>1. CASE CancelAll \/ UNCHANGED vars
    BY <2>1 DEF CancelAll, vars, JobInv, StoppedFirst
  <2>2. CASE CloseStopped
    <3>1. /\ pool \in Pools /\ chans' = [chans EXCEPT ![pool].stopped = TRUE]
          /\ cancel' = "tasks" /\ UNCHANGED pool
      BY <1>2, <2>2 DEF CloseStopped
    <3>2. QED
      BY <1>2, <3>1 DEF ChanStates, JobInv, StoppedFirst
  <2>3. CASE CloseTasks
    <3>1. /\ pool \in Pools /\ chans' = [chans EXCEPT ![pool].closed = TRUE]
          /\ cancel = "tasks" /\ cancel' = "context" /\ UNCHANGED pool
      BY <1>2, <2>3 DEF CloseTasks
    <3>2. QED
      BY <1>2, <3>1 DEF ChanStates, JobInv, StoppedFirst
  <2>4. CASE CancelContext
    <3>1. /\ pool \in Pools /\ chans' = [chans EXCEPT ![pool].cancelled = TRUE]
          /\ cancel = "context" /\ cancel' = "wait" /\ UNCHANGED pool
      BY <1>2, <2>4 DEF CancelContext
    <3>2. QED
      BY <1>2, <3>1 DEF ChanStates, JobInv, StoppedFirst
  <2>5. CASE Stopped
    <3>1. /\ pool \in Pools /\ chans' = [chans EXCEPT ![pool].resultsClosed = Closed]
          /\ cancel' = "idle"
      BY <1>2, <2>5 DEF Stopped
    <3>2. QED
      BY <1>2, <3>1 DEF ChanStates, JobInv, StoppedFirst
  <2>6. QED
    BY <2>1, <2>2, <2>3, <2>4, <2>5 DEF StopStep
<1>4. Collecting'
  BY <1>1 DEF JobInv, Collecting
<1>5. \A k \in Pools, w \in Workers, j \in Job : Has(k, w, j)' <=> Has(k, w, j)
  BY <1>1 DEF Has
<1>6. QED
  BY <1>1, <1>3, <1>4, <1>5, NoJobMoves

\* At the start there is no job anywhere.
LEMMA JInit == Init => JobInv
<1> SUFFICES ASSUME Init PROVE JobInv
  OBVIOUS
<1>1. \A j : ~In(<<>>, j)
  BY DEF In
<1>2. /\ \A d \in Dispatchers : pushers[d].left = <<>> /\ calls[d].results = <<>>
                                /\ calls[d].pc = "new" /\ calls[d].pool = NoPool
      /\ \A g \in Pools : /\ chans[g].tasks = <<>> /\ chans[g].results = <<>>
                          /\ ~chans[g].closed /\ ~chans[g].cancelled
      /\ cancel = "idle"
  BY DEF Init
<1>3. \A g \in Pools, w \in Workers : workers[g][w].pc = "unborn"
  BY DEF Init, Without
<1>4. \A j \in Job : /\ ~Left(j) /\ ~Queued(j) /\ ~AtHand(j) /\ ~Answered(j) /\ ~Collected(j)
                     /\ PoolOf(j) \notin Pools
  BY <1>1, <1>2, <1>3
     DEF Left, Queued, AtHand, Answered, Collected, Has, AtWork, PoolOf, Pools, NoPool, Job
<1>5. \A j \in Job : OnItsWay(j)
  BY <1>4 DEF OnItsWay, Apart, Once, Owned, Somewhere, Left, Queued, AtHand, Answered, Collected
<1>6. NoneLost
  BY <1>4 DEF NoneLost
<1>7. NoneTwice /\ StoppedFirst /\ Collecting
  BY <1>2 DEF NoneTwice, Unrepeated, StoppedFirst, Collecting
<1>8. QED
  BY <1>5, <1>6, <1>7 DEF JobInv

\* No step loses a job or gives it to two.
LEMMA JStep == WInv /\ JobInv /\ [Next]_vars => JobInv'
<1>1. SUFFICES ASSUME WInv, JobInv, [Next]_vars PROVE JobInv'
  OBVIOUS
<1>2. CASE \E d \in Dispatchers : DispatchStep(d)
  BY <1>1, <1>2, JDispatch, JDispatchFirst, JSubmit, JSubmitStopped, JCollect, JGivesUp
     DEF DispatchStep
<1>3. CASE \E g \in Pools, w \in Workers : WorkerStep(g, w)
  BY <1>1, <1>3, JTake, JWorks, JSend, JDrop DEF WorkerStep
<1>4. CASE CancelAll \/ StopStep \/ UNCHANGED vars
  BY <1>1, <1>4, JStops
<1>5. QED
  BY <1>1, <1>2, <1>3, <1>4 DEF Next

\* A set without two members, counted.
LEMMA CountOne ==
  ASSUME NEW S, \A x, y \in S : x = y
  PROVE  Cardinality(S) = IF S = {} THEN 0 ELSE 1
<1>1. CASE S = {}
  BY <1>1, FS_EmptySet
<1>2. CASE S # {}
  <2>1. PICK x \in S : S = {x}
    BY <1>2
  <2>2. QED
    BY <2>1, FS_Singleton
<1>3. QED
  BY <1>1, <1>2

\* What occurs once in a queue, counted.
LEMMA OccursOnce ==
  ASSUME NEW q, Unrepeated(q), NEW j
  PROVE  /\ Cardinality(Occurs(q, j)) = IF In(q, j) THEN 1 ELSE 0
         /\ Occurs(q, j) # {} <=> In(q, j)
<1>1. \A x, y \in Occurs(q, j) : x = y
  BY DEF Occurs, Unrepeated
<1>2. Occurs(q, j) # {} <=> In(q, j)
  BY DEF Occurs, In
<1>3. QED
  BY <1>1, <1>2, CountOne

\* A function of n numbers to n numbers that repeats none leaves none out.
LEMMA AllOfThem ==
  ASSUME NEW n \in Nat, NEW f \in [1 .. n -> 1 .. n], \A i, k \in 1 .. n : f[i] = f[k] => i = k
  PROVE  \A m \in 1 .. n : \E i \in 1 .. n : f[i] = m
<1>1. IsFiniteSet(1 .. n)
  BY FS_Interval
<1>2. f \in Injection(1 .. n, 1 .. n)
  BY DEF Injection, IsInjective
<1>3. f \in Surjection(1 .. n, 1 .. n)
  BY <1>1, <1>2, FS_Injection
<1>4. QED
  BY <1>3 DEF Surjection

-----------------------------------------------------------------------------
\* The types of the pool's channels, goroutines and worktrees hold throughout.
THEOREM WorkerType == Spec => []TypeOK
<1>1. WInv => TypeOK
  BY DEF WInv, Shape, Types, Bounded, TypeOK, ChanStates, WorkerStates, CallStates,
         PusherStates, TreeStates
<1>2. QED
  BY <1>1, WInit, WStep, PTL DEF Spec

\* When the result channel is closed, and when CancelAll has returned, no worker
\* of that pool runs any more.
THEOREM WorkerNoneOutlivesStop == Spec => []NoWorkerOutlivesStop
<1>1. WInv => NoWorkerOutlivesStop
  BY DEF WInv, Life
<1>2. QED
  BY <1>1, WInit, WStep, PTL DEF Spec

\* A worktree has one owner from its Create to its Merge or Abandon, whatever ids
\* the calls dispatch and however git and the agents fail.
THEOREM WorkerOneOwner == Spec => []OneOwner
<1>1. WInv => OneOwner
  BY DEF WInv, Tree
<1>2. QED
  BY <1>1, WInit, WStep, PTL DEF Spec

\* What was merged or abandoned is not taken up again by a later task of that id.
THEOREM WorkerSettledTreeStays == Spec => SettledTreeStays
<1>1. WInv /\ [Next]_vars =>
          [\A t \in Tasks : trees[t].entry \in {"merged", "abandoned"} => trees'[t] = trees[t]]_vars
  BY SettledKept
<1>2. QED
  BY <1>1, WInit, WStep, PTL DEF Spec, SettledTreeStays

\* Nothing that was dispatched is lost, run twice or answered twice: until the
\* pool is stopped a job is in exactly one place, and afterwards in at most one.
THEOREM WorkerJobInOnePlace == Spec => []JobInOnePlace
<1>1. WInv /\ JobInv => JobInOnePlace
  <2> SUFFICES ASSUME WInv, JobInv, NEW d \in Dispatchers, calls[d].pool # NoPool,
                      NEW i \in DOMAIN Jobs(d)
               PROVE  /\ Places(d, Jobs(d)[i]) <= 1
                      /\ ~chans[calls[d].pool].stopped => Places(d, Jobs(d)[i]) = 1
    BY DEF JobInOnePlace
  <2> DEFINE j == Jobs(d)[i]
             g == calls[d].pool
  <2>1. g \in Pools
    BY DEF WInv, Shape, Types, CallStates
  <2>2. j \in Job /\ OneOf(j) /\ j.by = d /\ PoolOf(j) = g
    <3>1. j \in Job
      BY JobsAreJobs, JobsDiffer, ElementOfSeq, LenProperties
    <3>2. In(Jobs(d), j)
      BY DEF In
    <3>3. QED
      BY <3>1, <3>2, JobsDiffer DEF PoolOf
  <2> HIDE DEF j, g
  <2>3. OnItsWay(j)
    BY <2>2 DEF JobInv
  <2> DEFINE holders == {w \in Workers : workers[g][w].pc \in AtWork /\ workers[g][w].job = j}
             owners == {e \in Dispatchers : Occurs(calls[e].results, j) # {}}
             Bit(b) == IF b THEN 1 ELSE 0
  <2>4. /\ Cardinality(Occurs(pushers[d].left, j)) = Bit(Left(j))
        /\ Cardinality(Occurs(chans[g].tasks, j)) = Bit(Queued(j))
        /\ Cardinality(Occurs(chans[g].results, j)) = Bit(Answered(j))
    <3>1. /\ Left(j) <=> In(pushers[d].left, j)
          /\ Queued(j) <=> In(chans[g].tasks, j)
          /\ Answered(j) <=> In(chans[g].results, j)
      BY <2>1, <2>2, <2>3 DEF OnItsWay, Owned, Left, Queued, Answered
    <3>2. Unrepeated(pushers[d].left) /\ Unrepeated(chans[g].tasks) /\ Unrepeated(chans[g].results)
      BY <2>1 DEF JobInv, NoneTwice
    <3>3. QED
      BY <3>1, <3>2, OccursOnce
  <2>5. Cardinality(holders) = Bit(AtHand(j))
    <3>1. \A v, w \in holders : v = w
      BY <2>1, <2>3 DEF OnItsWay, Once, Has
    <3>2. holders # {} <=> AtHand(j)
      BY <2>1, <2>2, <2>3 DEF AtHand, Has, OnItsWay, Owned
    <3>3. QED
      BY <3>1, <3>2, CountOne
  <2>6. Cardinality(owners) = Bit(Collected(j))
    <3>1. \A e \in Dispatchers : Occurs(calls[e].results, j) # {} <=> In(calls[e].results, j)
      BY OccursOnce DEF JobInv, NoneTwice
    <3>2. \A e, f \in owners : e = f
      BY <2>3, <3>1 DEF OnItsWay, Once
    <3>3. owners # {} <=> Collected(j)
      BY <3>1 DEF Collected
    <3>4. QED
      BY <3>2, <3>3, CountOne
  <2>7. Places(d, j) = Bit(Left(j)) + Bit(Queued(j)) + Bit(AtHand(j)) + Bit(Answered(j)) + Bit(Collected(j))
    BY <2>4, <2>5, <2>6 DEF Places, g
  <2>8. Places(d, j) = Bit(Somewhere(j))
    BY <2>3, <2>7 DEF OnItsWay, Apart, Somewhere
  <2>9. ~chans[g].stopped => Somewhere(j)
    BY <2>1, <2>2 DEF JobInv, NoneLost
  <2>10. QED
    BY <2>8, <2>9 DEF j, g
<1>2. QED
  BY <1>1, WInit, WStep, JInit, JStep, PTL DEF Spec

\* A Dispatch that had its pool to itself and was not refused returns the results
\* of its own tasks, all of them and each once, however the workers raced.
THEOREM WorkerOwnResultsWhenAlone == Spec => []OwnResultsWhenAlone
<1>1. WInv /\ JobInv => OwnResultsWhenAlone
  <2> SUFFICES ASSUME WInv, JobInv, NEW d \in Dispatchers, calls[d].pc = "returned",
                      \A e \in Dispatchers \ {d} : calls[e].pool # calls[d].pool
               PROVE  {calls[d].results[i] : i \in DOMAIN calls[d].results}
                          = {Jobs(d)[i] : i \in DOMAIN Jobs(d)}
    BY DEF OwnResultsWhenAlone
  <2> DEFINE got == calls[d].results
             n == Len(Batch[d])
  <2>1. /\ got \in Seq(Job) /\ Len(got) = n /\ n \in Nat
        /\ DOMAIN got = 1 .. n /\ Unrepeated(got) /\ DOMAIN Jobs(d) = 1 .. n
    <3>1. got \in Seq(Job) /\ Unrepeated(got) /\ Len(got) = n
      BY DEF WInv, Shape, Types, CallStates, JobInv, NoneTwice, Collecting
    <3>2. QED
      BY <3>1, LenProperties, JobsDiffer
  <2>2. ASSUME NEW i \in 1 .. n
        PROVE  got[i] \in Job /\ got[i].by = d /\ OneOf(got[i]) /\ got[i].at \in 1 .. n
               /\ got[i] = Jobs(d)[got[i].at]
    <3>1. got[i] \in Job /\ In(got, got[i])
      BY <2>1, ElementOfSeq DEF In
    <3>2. OnItsWay(got[i]) /\ Collected(got[i])
      BY <3>1 DEF JobInv, Collected
    <3>3. OneOf(got[i]) /\ PoolOf(got[i]) = calls[d].pool /\ got[i].by \in Dispatchers
      BY <3>1, <3>2 DEF OnItsWay, Owned, Somewhere, Job
    <3>4. got[i].by = d
      BY <3>3 DEF PoolOf
    <3>5. got[i] = [by |-> d, at |-> got[i].at, task |-> Batch[d][got[i].at]]
      BY <3>1, <3>3, <3>4 DEF OneOf, Job
    <3>6. got[i].at \in 1 .. n
      BY <3>3, <3>4 DEF OneOf
    <3>7. Jobs(d)[got[i].at] = [by |-> d, at |-> got[i].at, task |-> Batch[d][got[i].at]]
      BY <3>6 DEF Jobs
    <3>8. QED
      BY <3>1, <3>3, <3>4, <3>5, <3>6, <3>7
  <2> DEFINE f == [i \in 1 .. n |-> got[i].at]
  <2> HIDE DEF got, n
  <2>3. /\ f \in [1 .. n -> 1 .. n] /\ \A i \in 1 .. n : f[i] = got[i].at
    BY <2>2
  <2>4. \A i, k \in 1 .. n : f[i] = f[k] => i = k
    <3>1. \A i, k \in 1 .. n : f[i] = f[k] => got[i] = got[k]
      BY <2>2, <2>3
    <3>2. QED
      BY <2>1, <3>1 DEF Unrepeated
  <2> HIDE DEF f
  <2>5. \A m \in 1 .. n : \E i \in 1 .. n : f[i] = m
    <3>1. n \in Nat
      BY <2>1
    <3>2. QED
      BY <2>3, <2>4, <3>1, AllOfThem, Zenon
  <2>6. ASSUME NEW m \in 1 .. n PROVE \E i \in 1 .. n : got[i] = Jobs(d)[m]
    <3>1. PICK i \in 1 .. n : f[i] = m
      BY <2>5
    <3>2. got[i] = Jobs(d)[m]
      BY <2>2, <2>3, <3>1
    <3>3. QED
      BY <3>2
  <2>7. {got[i] : i \in DOMAIN got} = {Jobs(d)[i] : i \in DOMAIN Jobs(d)}
    <3>1. DOMAIN got = 1 .. n /\ DOMAIN Jobs(d) = 1 .. n
      BY <2>1
    <3>2. \A i \in 1 .. n : \E m \in 1 .. n : got[i] = Jobs(d)[m]
      BY <2>2
    <3>3. {got[i] : i \in 1 .. n} \subseteq {Jobs(d)[m] : m \in 1 .. n}
      BY <3>2
    <3>4. {Jobs(d)[m] : m \in 1 .. n} \subseteq {got[i] : i \in 1 .. n}
      BY <2>6
    <3>5. QED
      BY <3>1, <3>3, <3>4
  <2>8. QED
    BY <2>7 DEF got
<1>2. QED
  BY <1>1, WInit, WStep, JInit, JStep, PTL DEF Spec
=============================================================================
