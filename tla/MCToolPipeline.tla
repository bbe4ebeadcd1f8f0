--------------------------- MODULE MCToolPipeline ---------------------------
EXTENDS ToolPipeline

MCEvents == PipelineEvents \union {"custom"}

MCListeners == {"permission", "rewriter", "audit", "git", "probe", "wrapper", "renamer"}

MCEventOf == [l \in MCListeners |->
    CASE l \in {"permission", "rewriter"} -> "pre-execute"
      [] l = "renamer" -> "execute"
      [] l = "git" -> "post-execute"
      [] l = "audit" -> "result"
      [] OTHER -> "custom"]

MCIsOnce == [l \in MCListeners |-> l = "probe"]

MCRoleOf == [l \in MCListeners |->
    IF l \in {"permission", "audit", "git"} THEN l ELSE "other"]

Deny == [covers |-> {"bash"}, decision |-> "deny", priority |-> 1]
Allow == [covers |-> {"bash"}, decision |-> "allow", priority |-> 2]

MCRules == {Deny, Allow}

MCAnswers == [l \in MCListeners |->
    CASE l = "rewriter" -> {"next", "value"}
      [] l \in {"wrapper", "renamer"} -> {"next", "error"}
      [] OTHER -> {"nil", "value"}]

MCRenames == [l \in MCListeners |-> IF l = "renamer" THEN {"bash"} ELSE {}]

(* What is loaded when the first call comes: the permission plugin first    *)
(* with rules that deny the tool, alone or with a renamer behind it; after  *)
(* a rewriter and without rules; or without the tool, as the tools plugin   *)
(* starts out.                                                              *)
Loaded(u, t, pre, exec, r, h) ==
    [uses |-> u, tools |-> t, rules |-> r, hooks |-> h,
     listeners |-> [e \in MCEvents |->
        CASE e = "pre-execute" -> pre
          [] e = "execute" -> exec
          [] e = "post-execute" -> <<"git">>
          [] e = "result" -> <<"audit">>
          [] e = "custom" -> <<"wrapper", "probe">>]]

MCSetups ==
    {Loaded({"execute"}, {"bash"}, <<"permission">>, <<>>, <<Allow, Deny>>, <<>>),
     Loaded({"execute"}, {"bash"}, <<"permission">>, <<"renamer">>, <<Deny>>, <<>>),
     Loaded({"execute"}, {"bash"}, <<"rewriter", "permission">>, <<>>, <<>>, <<"format">>),
     Loaded({"execute"}, {}, <<"permission">>, <<>>, <<>>, <<"auditHook">>),
     Loaded({"announce"}, {}, <<"permission">>, <<>>, <<>>, <<>>)}

(* With a rewriter in front of the permission plugin and the tool denied.   *)
MCBypassed ==
    MCSetups \union
    {Loaded({"execute"}, {"bash"}, <<"rewriter", "permission">>, <<>>, <<Deny>>, <<>>)}
=============================================================================
