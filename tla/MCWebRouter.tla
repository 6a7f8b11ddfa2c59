---------------------------- MODULE MCWebRouter -----------------------------
(***************************************************************************)
(* Small instances of WebRouter.                                           *)
(***************************************************************************)
EXTENDS WebRouter

Plain(ask, model, stream) == [ask |-> ask, model |-> model, plain |-> TRUE, stream |-> stream]

\* The ways a request is routed: by the configured mode, with a default model that
\* may change backend and with one of codex, by a web model that may not, and by a
\* header that overrides the mode; streamed or not.
FourKinds ==
  {Plain("config", "default", TRUE), Plain("config", "native", FALSE),
   Plain("auto", "web", TRUE), Plain("web", "default", FALSE)}

TwoLimits == {1, 2}
TwoModes == {"auto", "codex"}

=============================================================================
