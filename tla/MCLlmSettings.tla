--------------------------- MODULE MCLlmSettings ---------------------------
(* An instance of LlmSettings for TLC.                                      *)
EXTENDS LlmSettings

CONSTANTS small, large, custom

\* The provider is chosen with everything else; what the page saves, the two
\* models, comes without a provider and may be refused for its row.
Asked == {[provider |-> "ollama", model |-> large, embed |-> large, list |-> custom],
          [NoAnswer EXCEPT !.model = small, !.embed = small]}
============================================================================
