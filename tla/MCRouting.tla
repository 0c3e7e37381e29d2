----------------------------- MODULE MCRouting ------------------------------
(* The seeds, one model and one prompt that an operator adds, and a seed   *)
(* that the operator takes out of a mode.                                  *)
EXTENDS Routing

CONSTANTS llama, embedder, extra, plugin

Model(n, caps, modes, default) ==
  [name |-> n, capabilities |-> caps, modes |-> modes, default |-> default, fallbacks |-> <<>>]
Prompt(n, version, mode, compatible) ==
  [name |-> n, version |-> version, mode |-> mode, compatible |-> compatible]

MCSeedModels == <<Model(llama, Chatty, Modes, TRUE),
                  Model(embedder, {"embeddings"}, {"deterministic"}, TRUE)>>
MCSeedPrompts == <<Prompt("fallback_chat", "phase3.v1", "deterministic", {llama}),
                   Prompt("summarize", "phase3.summary.v1", "deterministic", {llama})>>

MCModels == {[Model(extra, {"summarize"}, {"creative"}, FALSE) EXCEPT !.fallbacks = <<plugin, llama>>],
             Model(plugin, {"chat", "embeddings"}, {}, TRUE),
             Model(llama, {"chat"}, {"creative"}, FALSE)}
MCPrompts == {Prompt("summarize", "v2", "creative", {extra, embedder})}

Ask(action, mode) ==
  [action |-> action, mode |-> mode, model |-> NoModel, fallbacks |-> <<>>,
   version |-> NoVersion, schema |-> FALSE, generate |-> FALSE]
Generating == {[Ask("summarize", "creative") EXCEPT !.generate = TRUE, !.schema = TRUE]}

MCRequests ==
  {Ask("embed", "deterministic"),
   [Ask("summarize", "deterministic") EXCEPT !.model = extra, !.version = "v2"],
   [Ask("fallback_chat", "creative") EXCEPT !.model = plugin, !.fallbacks = <<embedder, plugin>>]}
  \cup Generating
=============================================================================
