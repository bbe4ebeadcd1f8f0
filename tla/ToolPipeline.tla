---------------------------- MODULE ToolPipeline ----------------------------
(***************************************************************************)
(* A tool call from end to end: the pipeline of events around it           *)
(* (plugin/tools/registry.go), the tool registry with its hooks            *)
(* (internal/tools/registry.go), the permission engine and its plugin      *)
(* (internal/permission/engine.go, plugin/permission), the audit and git   *)
(* plugins (plugin/hooks), over the EventBus.  LogAction is a call that     *)
(* never waits; what becomes of a record is AuditLog's.                    *)
(*                                                                         *)
(* Left out: parameters and results, tool schemas, the engine's third      *)
(* layer (no caller in the repository checks a file action).               *)
(***************************************************************************)
EXTENDS EventBus, FiniteSets

CONSTANTS
    Tools,          \* tool names
    Rules,          \* [covers : SUBSET Tools, decision, priority], one per ID
    Hooks,          \* names of hooks
    AuditHook,      \* the hook that is builtin.AuditHook, if it is in Hooks
    RoleOf,         \* RoleOf[l]: what plugin the listener is of
    HasTracker,     \* a FirstUseTracker is attached
    Setups,         \* what may be registered when the first call comes
    Answers,        \* Answers[l]: what a handler of another plugin may reply
    Renames,        \* Renames[l]: what tools it may put in the place of the call's
    MaxChanges      \* bound: how often the configuration is changed

Decisions == {"allow", "deny", "ask"}
PipelineEvents == {"pre-execute", "execute", "post-execute", "result"}
Roles == {"permission", "audit", "git", "other"}

(* A plugin registers a listener once, on the event that its role says.     *)
ASSUME PipelineAssumption ==
    /\ Tools # {}
    /\ Rules \subseteq [covers : SUBSET Tools, decision : Decisions, priority : Nat]
    /\ RoleOf \in [Listeners -> Roles]
    /\ \A l \in Listeners : RoleOf[l] = "audit" => EventOf[l] = "result"
    /\ PipelineEvents \subseteq Events
    /\ Answers \in [Listeners -> SUBSET Replies]
    /\ Renames \in [Listeners -> SUBSET Tools]
    /\ \A l \in Listeners : EventOf[l] \notin {"pre-execute", "execute"} => Renames[l] = {}
    /\ HasTracker \in BOOLEAN
    /\ \A s \in Setups : /\ s.uses \subseteq {"execute", "announce"}
                         /\ s.tools \subseteq Tools
                         /\ s.listeners \in [Events -> Seq(Listeners)]
                         /\ \A e \in Events : IsInjective(s.listeners[e])
                         /\ s.rules \in Seq(Rules)
                         /\ s.hooks \in Seq(Hooks)
    /\ MaxChanges \in Nat

VARIABLES
    tools,          \* Registry.tools
    hooks,          \* Registry.hooks
    rules,          \* Engine.rules
    authorized,     \* FirstUseTracker.authorized
    calls,          \* each goroutine's Execute
    records,        \* calls of LogAction: whose Execute, and from where
    uses,           \* bound: what the goroutines of this behaviour do
    changes,        \* counts the changes of the configuration
    vetoed,         \* history: calls and the tools that were denied all the while
    guarded,        \* history: calls during which the permission plugin was first
    heard           \* history: calls during which an audit listener always stood

configVars == <<tools, hooks, rules, authorized>>
pipelineVars == <<configVars, calls, records, uses, changes, vetoed, guarded, heard>>
vars == <<busVars, pipelineVars>>

SortedByPriority(s) == \A i, j \in DOMAIN s : i < j => s[i].priority <= s[j].priority

(* The variant: the rules stay in the order they were added.                *)
Unsorted(s) == {s}

(* sortRules: sort.Slice leaves rules of equal priority in any order.      *)
SortRules(s) == {t \in [DOMAIN s -> Range(s)] :
                    /\ SortedByPriority(t)
                    /\ \A r \in Range(s) : Cardinality({i \in DOMAIN s : s[i] = r})
                                           = Cardinality({i \in DOMAIN t : t[i] = r})}

(* asked is the tool the call came for, tool the one its invocation names   *)
(* by now.                                                                  *)
NoCall == [pc |-> "idle", asked |-> CHOOSE t \in Tools : TRUE,
           tool |-> CHOOSE t \in Tools : TRUE, cancelled |-> FALSE, snapshot |-> <<>>,
           left |-> <<>>, ran |-> FALSE, ok |-> TRUE, after |-> {}]

Init ==
    /\ removed = {}
    /\ dispatch = [g \in Goroutines |-> NoDispatch]
    /\ spent = {}
    /\ \E s \in Setups :
           /\ uses = s.uses
           /\ tools = s.tools
           /\ listeners = s.listeners
           /\ hooks = s.hooks
           /\ rules \in SortRules(s.rules)
    /\ authorized = {}
    /\ calls = [g \in Goroutines |-> NoCall]
    /\ records = {}
    /\ changes = 0
    /\ vetoed = {}
    /\ guarded = {}
    /\ heard = {}

-----------------------------------------------------------------------------
(* The permission engine.                                                  *)

(* matches, for an action of type "tool": where the rules of a tool are.    *)
Matching(tool) == {i \in DOMAIN rules : tool \in rules[i].covers}

IsFirstUse(tool) == HasTracker /\ tool \notin authorized

(* Check of an action of type "tool"; without a target it allows.          *)
Check(target, tool) ==
    CASE ~target -> "allow"
      [] target /\ Matching(tool) # {} -> rules[Min(Matching(tool))].decision
      [] target /\ Matching(tool) = {} /\ IsFirstUse(tool) -> "ask"
      [] OTHER -> "allow"

AddRule(r) ==
    /\ \E sorted \in SortRules(Append(rules, r)) : rules' = sorted
    /\ UNCHANGED <<tools, hooks, authorized>>

(* The rules other than r, in the order they are in.                        *)
Without(s, r) ==
    {t \in UNION {[1 .. n -> Range(s)] : n \in 0 .. Len(s)} :
        \E f \in [DOMAIN t -> DOMAIN s] :
            /\ \A i, j \in DOMAIN t : i < j => f[i] < f[j]
            /\ \A i \in DOMAIN t : t[i] = s[f[i]]
            /\ Range(f) = {i \in DOMAIN s : s[i] # r}}

RemoveRule(r) ==
    /\ \E filtered \in Without(rules, r) : rules' = filtered
    /\ UNCHANGED <<tools, hooks, authorized>>

Authorize(t) ==
    /\ authorized' = authorized \union {t}
    /\ UNCHANGED <<tools, hooks, rules>>

-----------------------------------------------------------------------------
(* The registry's own changes.                                             *)

Register(t) ==
    /\ t \notin tools
    /\ tools' = tools \union {t}
    /\ UNCHANGED <<hooks, rules, authorized>>

Unregister(t) ==
    /\ t \in tools
    /\ tools' = tools \ {t}
    /\ UNCHANGED <<hooks, rules, authorized>>

RegisterHook(h) ==
    /\ h \notin Range(hooks)
    /\ hooks' = Append(hooks, h)
    /\ UNCHANGED <<tools, rules, authorized>>

UnregisterHook(h) ==
    /\ h \in Range(hooks)
    /\ hooks' = RemoveFirst(hooks, h)
    /\ UNCHANGED <<tools, rules, authorized>>

Change ==
    /\ changes < MaxChanges
    /\ changes' = changes + 1
    /\ \/ /\ \/ \E r \in Rules : AddRule(r) \/ RemoveRule(r)
             \/ \E t \in Tools : Authorize(t) \/ Register(t) \/ Unregister(t)
             \/ \E h \in Hooks : RegisterHook(h) \/ UnregisterHook(h)
          /\ UNCHANGED busVars
       \/ /\ \E l \in Listeners : On(l) \/ Off(l)
          /\ UNCHANGED configVars
    /\ UNCHANGED <<calls, records, uses>>

-----------------------------------------------------------------------------
(* Execute.                                                                *)

At(g, pc) == calls[g].pc = pc

Moved(g, pc) == calls' = [calls EXCEPT ![g].pc = pc]

Execute(g, t) ==
    /\ "execute" \in uses
    /\ At(g, "idle")
    /\ calls' = [calls EXCEPT ![g] = [NoCall EXCEPT !.pc = "pre-execute", !.asked = t,
                                                   !.tool = t]]
    /\ Dispatch(g, "waterfall", "pre-execute")
    /\ UNCHANGED <<configVars, records, uses, changes>>

Cancel(g) ==
    /\ calls[g].pc \notin {"idle", "returned"}
    /\ ~calls[g].cancelled
    /\ calls' = [calls EXCEPT ![g].cancelled = TRUE]
    /\ UNCHANGED <<busVars, configVars, records, uses, changes>>

(* What the plugins' handlers may return.  The permission plugin's denies   *)
(* or, without calling next, returns the call.                              *)
PermissionReplies(g) ==
    IF Check(TRUE, calls[g].tool) = "deny" THEN {"error"} ELSE {"value"}

GitReplies == {"value", "error"}

AuditReplies == {"nil"}

RepliesOf(l, g) ==
    CASE RoleOf[l] = "permission" -> PermissionReplies(g)
      [] RoleOf[l] = "git" -> GitReplies
      [] RoleOf[l] = "audit" -> AuditReplies
      [] OTHER -> Answers[l]

(* The records a handler starts to log: the audit plugin's hook always, in  *)
(* a goroutine of its own; the permission plugin when it denies.            *)
LogsOf(l, g, reply) ==
    CASE RoleOf[l] = "audit" -> {<<g, "listener">>}
      [] RoleOf[l] = "permission" /\ reply = "error" -> {<<g, "permission">>}
      [] OTHER -> {}

(* The invocation is passed on by reference: a handler of another plugin    *)
(* may rewrite its name.                                                    *)
Renamed(g, l) ==
    \E name \in {calls[g].tool} \union (IF RoleOf[l] = "other" THEN Renames[l] ELSE {}) :
        calls' = [calls EXCEPT ![g].tool = name]

CallListener(g, l) ==
    \E reply \in RepliesOf(l, g) :
        /\ Invoke(g, l, reply)
        /\ Renamed(g, l)
        /\ records' = records \union LogsOf(l, g, reply)
        /\ UNCHANGED <<configVars, uses, changes>>

(* What a handler makes of the answer of next: the plugins' never call it.  *)
RepliesAfterNext(l) ==
    {"next"} \union
    (IF RoleOf[l] = "other" /\ "next" \in Answers[l] THEN Answers[l] ELSE {})

ListenerReturns(g, l) ==
    /\ \E reply \in RepliesAfterNext(l) : Leave(g, l, reply)
    /\ IF dispatch[g].unwinding THEN Renamed(g, l) ELSE UNCHANGED calls
    /\ UNCHANGED <<configVars, records, uses, changes>>

(* The waterfall is over: the next event, or the error.                     *)
AfterPreExecute(g) ==
    /\ At(g, "pre-execute")
    /\ Idle(g)
    /\ IF dispatch[g].result = "error"
       THEN Moved(g, "returned") /\ UNCHANGED busVars
       ELSE Moved(g, "execute") /\ Dispatch(g, "waterfall", "execute")
    /\ UNCHANGED <<configVars, records, uses, changes>>

AfterExecute(g) ==
    /\ At(g, "execute")
    /\ Idle(g)
    /\ Moved(g, IF dispatch[g].result = "error" THEN "returned" ELSE "lookup")
    /\ UNCHANGED <<busVars, configVars, records, uses, changes>>

(* The inner registry failed: the result event is emitted all the same.     *)
Fails(g) ==
    /\ calls' = [calls EXCEPT ![g].pc = "result", ![g].ok = FALSE]
    /\ Dispatch(g, "emit", "result")

(* The inner registry is asked for what the invocation names by now.        *)
Lookup(g) ==
    /\ At(g, "lookup")
    /\ IF calls[g].tool \in tools
       THEN /\ calls' = [calls EXCEPT ![g].pc = "check", ![g].snapshot = hooks]
            /\ UNCHANGED busVars
       ELSE Fails(g)
    /\ UNCHANGED <<configVars, records, uses, changes>>

(* The registry's own check sets no target, so the engine allows it.        *)
CheckTool(g) ==
    /\ At(g, "check")
    /\ IF Check(FALSE, calls[g].tool) = "deny"
       THEN Fails(g)
       ELSE /\ calls' = [calls EXCEPT ![g].pc = "before", ![g].left = calls[g].snapshot]
            /\ UNCHANGED busVars
    /\ UNCHANGED <<configVars, records, uses, changes>>

(* One hook before the tool: a cancelled call stops, a hook may reject or   *)
(* time out, which is an error too.                                         *)
BeforeTool(g) ==
    /\ At(g, "before")
    /\ calls[g].left # <<>>
    /\ \/ Fails(g)
       \/ /\ ~calls[g].cancelled
          /\ calls' = [calls EXCEPT ![g].left = Tail(@)]
          /\ UNCHANGED busVars
    /\ UNCHANGED <<configVars, records, uses, changes>>

(* The variant: the hooks that are registered by now.                       *)
HooksNow(g) == hooks

HooksAtLookup(g) == calls[g].snapshot

RunTool(g) ==
    /\ At(g, "before")
    /\ calls[g].left = <<>>
    /\ \E ok \in BOOLEAN :
           calls' = [calls EXCEPT ![g].pc = "after", ![g].ran = TRUE, ![g].ok = ok,
                                  ![g].left = HooksAtLookup(g)]
    /\ UNCHANGED <<busVars, configVars, records, uses, changes>>

(* One hook after the tool; its error is logged only.                       *)
AfterTool(g) ==
    LET h == Head(calls[g].left)
    IN  /\ At(g, "after")
        /\ calls[g].left # <<>>
        /\ ~calls[g].cancelled
        /\ calls' = [calls EXCEPT ![g].left = Tail(@), ![g].after = @ \union {h}]
        /\ records' = IF h = AuditHook THEN records \union {<<g, "hook">>} ELSE records
        /\ UNCHANGED <<busVars, configVars, uses, changes>>

(* The inner registry returns: post-execute if the tool succeeded.          *)
InnerReturns(g) ==
    /\ At(g, "after")
    /\ calls[g].left = <<>> \/ calls[g].cancelled
    /\ IF calls[g].ok
       THEN Moved(g, "post-execute") /\ Dispatch(g, "waterfall", "post-execute")
       ELSE Moved(g, "result") /\ Dispatch(g, "emit", "result")
    /\ UNCHANGED <<configVars, records, uses, changes>>

(* The variant: an error of a post-execute listener ends the call.          *)
FailsAfterPostExecute(g) ==
    /\ At(g, "post-execute")
    /\ Idle(g)
    /\ IF dispatch[g].result = "error"
       THEN Moved(g, "returned") /\ UNCHANGED busVars
       ELSE Moved(g, "result") /\ Dispatch(g, "emit", "result")
    /\ UNCHANGED <<configVars, records, uses, changes>>

AfterPostExecute(g) ==
    /\ At(g, "post-execute")
    /\ Idle(g)
    /\ Moved(g, "result")
    /\ Dispatch(g, "emit", "result")
    /\ UNCHANGED <<configVars, records, uses, changes>>

Return(g) ==
    /\ At(g, "result")
    /\ Idle(g)
    /\ Moved(g, "returned")
    /\ UNCHANGED <<busVars, configVars, records, uses, changes>>

(* Any other event, dispatched by a plugin in one of the five ways.         *)
Announce(g, mode, event) ==
    /\ "announce" \in uses
    /\ At(g, "idle")
    /\ Moved(g, "announce")
    /\ Dispatch(g, mode, event)
    /\ UNCHANGED <<configVars, records, uses, changes>>

Announced(g) ==
    /\ At(g, "announce")
    /\ Idle(g)
    /\ Moved(g, "returned")
    /\ UNCHANGED <<busVars, configVars, records, uses, changes>>

Step(g) ==
    \/ \E l \in Listeners : CallListener(g, l) \/ ListenerReturns(g, l)
    \/ AfterPreExecute(g) \/ AfterExecute(g)
    \/ Lookup(g) \/ CheckTool(g) \/ BeforeTool(g) \/ RunTool(g) \/ AfterTool(g)
    \/ InnerReturns(g) \/ AfterPostExecute(g) \/ Return(g)
    \/ Announced(g)

-----------------------------------------------------------------------------
(* By the rules' priorities alone, every rule that decides denies the tool. *)
Denied(t) ==
    LET matching == {r \in Range(rules) : t \in r.covers}
    IN  /\ matching # {}
        /\ \A r \in matching : (\A q \in matching : r.priority <= q.priority)
                                => r.decision = "deny"

(* The permission plugin is the first to see a call.                        *)
Guarding ==
    LET pre == listeners["pre-execute"]
    IN  pre # <<>> /\ RoleOf[Head(pre)] = "permission"

PermissionStands == \E l \in Range(listeners["pre-execute"]) : RoleOf[l] = "permission"

AuditorStands == \E l \in Listeners : RoleOf[l] = "audit" /\ Registered(l)

InCall(g) == calls[g].pc # "idle"

(* A call stays in vetoed, guarded or heard as long as the condition stands.*)
Remember ==
    /\ vetoed' = {v \in Goroutines \X Tools :
          /\ InCall(v[1])' /\ (InCall(v[1]) => v \in vetoed)
          /\ (Denied(v[2]) /\ PermissionStands) /\ (Denied(v[2]) /\ PermissionStands)'}
    /\ guarded' = {g \in Goroutines :
          /\ InCall(g)' /\ (InCall(g) => g \in guarded)
          /\ Guarding /\ Guarding'}
    /\ heard' = {g \in Goroutines :
          /\ InCall(g)' /\ (InCall(g) => g \in heard)
          /\ AuditorStands /\ AuditorStands'}

Next ==
    /\ \/ Change
       \/ \E g \in Goroutines :
              \/ Step(g)
              \/ Cancel(g)
              \/ \E t \in Tools : Execute(g, t)
              \/ \E m \in Modes, e \in Events \ PipelineEvents : Announce(g, m, e)
    /\ Remember

Spec == Init /\ [][Next]_vars

-----------------------------------------------------------------------------
TypeOK ==
    /\ BusTypeOK
    /\ tools \subseteq Tools
    /\ hooks \in Seq(Hooks)
    /\ rules \in Seq(Rules)
    /\ authorized \subseteq Tools
    /\ \A g \in Goroutines :
          /\ calls[g].asked \in Tools
          /\ calls[g].tool \in Tools
          /\ calls[g].snapshot \in Seq(Hooks)
          /\ calls[g].after \subseteq Hooks
    /\ records \subseteq Goroutines \X {"permission", "listener", "hook"}
    /\ uses \subseteq {"execute", "announce"}
    /\ changes \in 0 .. MaxChanges
    /\ vetoed \subseteq Goroutines \X Tools
    /\ guarded \subseteq Goroutines
    /\ heard \subseteq Goroutines

(* A call that comes for a tool the rules deny until the call ends runs     *)
(* nothing, under no name, whatever else is registered, removed, added or   *)
(* renamed meanwhile, as long as the permission plugin is the first on the  *)
(* event (plugin/permission/plugin.go:57, engine.go:79).                    *)
VetoHolds ==
    \A v \in vetoed :
        calls[v[1]].asked = v[2] /\ v[1] \in guarded => ~calls[v[1]].ran

(* Not so: under a permission plugin that is the first on the event no tool *)
(* runs that the rules deny all the while.  A handler of the execute event  *)
(* may name it after the check (plugin/tools/registry.go:57).               *)
DeniedNeverRuns ==
    \A v \in vetoed :
        calls[v[1]].ran /\ v[1] \in guarded => calls[v[1]].tool # v[2]

(* Not so: while a permission plugin stands, a call for a tool the rules    *)
(* deny all the while runs nothing.  A handler in front of the plugin may   *)
(* answer without next, and the inner registry's check allows everything.   *)
DeniedNeverPasses ==
    \A v \in vetoed : calls[v[1]].asked = v[2] => ~calls[v[1]].ran

(* A call that was not cancelled and ran its tool has run AfterTool of all  *)
(* the hooks that were registered when it looked the tool up, those that    *)
(* were unregistered meanwhile included (registry.go:128 and 162).          *)
AfterHooksRun ==
    \A g \in Goroutines :
        /\ calls[g].ran /\ ~calls[g].cancelled
        /\ calls[g].pc \in {"post-execute", "result", "returned"}
        => calls[g].after = Range(calls[g].snapshot)

(* A call that ran its tool is reported to an audit plugin that stood all   *)
(* the while, whether the tool succeeded, failed or was cancelled, and      *)
(* whatever the listeners of post-execute did (plugin/tools/registry.go:62).*)
EveryRunReported ==
    \A g \in heard :
        calls[g].ran /\ At(g, "returned") => <<g, "listener">> \in records
=============================================================================
