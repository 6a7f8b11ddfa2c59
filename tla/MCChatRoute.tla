---------------------------- MODULE MCChatRoute ----------------------------
(***************************************************************************)
(* Small instances of ChatRoute.                                           *)
(***************************************************************************)
EXTENDS ChatRoute

CONSTANTS r1, r2, i1, i2

MCConfig ==
  [sticky |-> TRUE, bodyOptions |-> TRUE, keyMax |-> "256", defaultTtl |-> 3,
   minTtl |-> 2, maxTtl |-> 5, runtime |-> "pool", runtimeHeader |-> TRUE]

MCParseInt == [zero |-> 0, one |-> 1, four |-> 4, nine |-> 9]
MCOperational == {"get_data", "read_file"}

NoOptions ==
  [key |-> "absent", legacy |-> "absent", mode |-> "absent", ttl |-> "absent",
   reset |-> "absent", policy |-> "absent"]

Plain(route, stream) ==
  [route |-> route, stream |-> stream, via |-> "codex", input |-> "given", tools |-> <<>>,
   choice |-> "absent", header |-> NoOptions, body |-> NoOptions, runtime |-> "absent"]

Alone(a) ==
  [r \in Requests |-> IF r = r1 THEN a ELSE [Plain("chat", FALSE) EXCEPT !.via = "absent"]]
Both(a, b) == [r \in Requests |-> IF r = r1 THEN a ELSE b]

\* Streams: with their items, with a tool that the text may call; one beside a request
\* that comes after a fallback and has no input.
Streamed ==
  {Alone(Plain("responses", TRUE)),
   Alone([Plain("chat", TRUE) EXCEPT !.tools = <<"get_data">>]),
   Both(Plain("chat", TRUE), [Plain("chat", FALSE) EXCEPT !.via = "declined", !.input = "missing"])}

\* A request after the web was tried with the one tool it has to call, beside ones that are
\* answered, cannot be parsed, have no input and are malformed.
Collected ==
  {Both([Plain("chat", FALSE) EXCEPT !.tools = <<"schema">>, !.via = "tried"], b) :
     b \in {Plain("responses", FALSE), [Plain("chat", TRUE) EXCEPT !.via = "unparsed"],
            [Plain("responses", TRUE) EXCEPT !.input = "missing"],
            [Plain("chat", FALSE) EXCEPT !.input = "malformed"]}}

Keyed(key, legacy, mode) == [NoOptions EXCEPT !.key = key, !.legacy = legacy, !.mode = mode]

\* Session options in the headers, a mode in the body, and a runtime.
Optioned ==
  {Alone([Plain("responses", FALSE) EXCEPT !.header = o, !.body.mode = m, !.runtime = "oneshot"]) :
     o \in {Keyed(k, "absent", "absent") : k \in {"absent", "blank", "k1", "over128", "overmax"}}
             \cup {Keyed("absent", l, "absent") : l \in {"k2", "over128"}}
             \cup {Keyed(k, "absent", e) : k \in {"absent", "k1"}, e \in {"stateless", "other"}},
     m \in {"absent", "pool", "sticky"}}
  \cup
  {Alone([Plain("responses", FALSE) EXCEPT
            !.header = [Keyed("k1", "absent", "sticky") EXCEPT !.ttl = t, !.policy = p]]) :
     t \in {"blank", "word", "zero", "one", "four", "nine"}, p \in {"absent", "other"}}

MCScenarios == Streamed \cup Collected \cup Optioned

=============================================================================
