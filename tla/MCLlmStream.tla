---------------------------- MODULE MCLlmStream ----------------------------
(* Three clients in the program's order of priority; anthropic, left out,   *)
(* differs from the others in nothing that one of them does not do.         *)
EXTENDS LlmStream

ProviderPriority == <<"openai", "deepseek", "ollama">>
=============================================================================
