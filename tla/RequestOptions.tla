--------------------------- MODULE RequestOptions ---------------------------
(***************************************************************************)
(* What a request asks for: its session (server/sticky-options.ts), its    *)
(* runtime (subprocess/runtime.ts), and the tools its answer may call      *)
(* (adapter/openai-to-codex.ts).                                           *)
(*                                                                         *)
(* An option is a raw value by what the parsers tell apart.  A request     *)
(* carries headers and a codex_proxy object in its body, as records from   *)
(* option names to raw values.                                             *)
(***************************************************************************)
EXTENDS Integers, Sequences

CONSTANTS
  Config,       \* the settings: see Configs
  ParseInt,     \* the integers that raw values begin with, of those that begin with one
  Operational   \* the functions whose names say that they act, as get_... or readFile do

\* "absent" is a missing header or property.  A blank is "" or white space.
RawKeys == {"absent", "null", "blank", "object", "control", "k1", "k2", "over128", "overmax"}
RawModes == {"absent", "null", "blank", "pool", "sticky", "stateless", "other"}
RawTtls == {"absent", "null", "blank", "word"} \cup DOMAIN ParseInt
RawResets == {"absent", "null", "blank", "true", "false", "other"}
RawPolicies == {"absent", "null", "blank", "strict", "compatible", "other"}

Options == [key : RawKeys, legacy : RawKeys, mode : RawModes, ttl : RawTtls,
            reset : RawResets, policy : RawPolicies]

Configs ==
  [sticky : BOOLEAN, bodyOptions : BOOLEAN, keyMax : {"128", "256"},
   defaultTtl : Nat \ {0}, minTtl : Nat \ {0}, maxTtl : Nat \ {0},
   runtime : {"pool", "oneshot"}, runtimeHeader : BOOLEAN]

ASSUME ConfigAssumption ==
  Config \in Configs /\ Config.minTtl <= Config.maxTtl
ASSUME ParseIntAssumption ==
  /\ ParseInt \in [DOMAIN ParseInt -> Int]
  /\ DOMAIN ParseInt \cap {"absent", "null", "blank", "word"} = {}

-----------------------------------------------------------------------------
(***************************************************************************)
(* Reading.                                                                *)
(***************************************************************************)
\* ?? skips what is undefined or null, and a blank header is neither.
Given(raw) == raw \notin {"absent", "null"}

\* The header, else the body's option where the settings allow it.  A header is absent
\* or a string.
InBody(body, name) == IF Config.bodyOptions THEN body[name] ELSE "absent"
Read(header, body, name) == IF Given(header[name]) THEN header[name] ELSE InBody(body, name)

ReadKey(header, body) ==
  IF Given(header.key) THEN header.key
  ELSE IF Given(header.legacy) THEN header.legacy ELSE InBody(body, "key")

FromLegacy(header) == ~Given(header.key) /\ Given(header.legacy)

Blank(raw) == raw \in {"absent", "null", "blank"}
Present(raw) == raw # "absent"

Valid(raw, valid) == IF raw \in valid THEN raw ELSE "invalid"
NormalMode(raw, keyed) ==
  IF Blank(raw) THEN IF keyed THEN "sticky" ELSE "pool"
  ELSE Valid(raw, {"pool", "sticky", "stateless"})
NormalPolicy(raw) == IF Blank(raw) THEN "strict" ELSE Valid(raw, {"strict", "compatible"})

KeyFits(raw, legacy) ==
  \/ raw \in {"k1", "k2"}
  \/ raw = "over128" /\ Config.keyMax = "256" /\ ~legacy

Clamped(n) ==
  LET most == IF n > Config.maxTtl THEN Config.maxTtl ELSE n
  IN  IF most < Config.minTtl THEN Config.minTtl ELSE most

-----------------------------------------------------------------------------
(***************************************************************************)
(* resolveSessionOptions.                                                  *)
(***************************************************************************)
Resolutions ==
  [kind : {"ok", "invalid"}, mode : {"pool", "sticky", "stateless"}, explicit : BOOLEAN,
   key : RawKeys, ttl : Nat, reset : BOOLEAN]

Ok(mode, explicit) ==
  [kind |-> "ok", mode |-> mode, explicit |-> explicit, key |-> "absent", ttl |-> 0, reset |-> FALSE]
Invalid == [Ok("pool", TRUE) EXCEPT !.kind = "invalid"]

Resolve(header, body) ==
  LET rawKey == ReadKey(header, body)
      rawTtl == Read(header, body, "ttl")
      keyed == ~Blank(rawKey)
      mode == NormalMode(Read(header, body, "mode"), keyed)
      explicit == keyed \/ \E n \in {"mode", "ttl", "reset", "policy"} : Present(Read(header, body, n))
      ttl == IF Blank(rawTtl) THEN Config.defaultTtl
             ELSE IF rawTtl = "word" THEN 0 ELSE ParseInt[rawTtl]
  IN  CASE mode = "invalid" -> Invalid
        [] mode \in {"pool", "stateless"} -> Ok(mode, explicit)
        [] mode = "sticky" /\ ~Config.sticky -> Ok("pool", FALSE)
        [] OTHER ->
             IF \/ ~KeyFits(rawKey, FromLegacy(header))
                \/ ttl <= 0
                \/ NormalPolicy(Read(header, body, "policy")) = "invalid"
             THEN Invalid
             ELSE [Ok("sticky", TRUE) EXCEPT
                     !.key = rawKey, !.ttl = Clamped(ttl), !.reset = Read(header, body, "reset") = "true"]

\* setSessionHeaders: what the response says of the session.
Told(s) ==
  IF s.mode = "pool" /\ ~s.explicit
  THEN [mode |-> "none", key |-> "absent", ttl |-> 0]
  ELSE [mode |-> s.mode, key |-> s.key, ttl |-> s.ttl]

-----------------------------------------------------------------------------
(***************************************************************************)
(* The runtime: resolveRuntime, and the dispatch of runTurn.               *)
(***************************************************************************)
Runtime(header) ==
  IF Config.runtimeHeader /\ header \in {"pool", "oneshot"} THEN header ELSE Config.runtime

\* Fault: the runtime that was asked for comes before the session.
Dispatch_Runtime(s, runtime) ==
  IF runtime = "oneshot" \/ s.mode = "stateless" THEN "oneshot" ELSE s.mode

\* How the turn runs.
Dispatch(s, runtime) ==
  CASE s.mode = "sticky" -> "sticky"
    [] s.mode = "stateless" -> "oneshot"
    [] OTHER -> runtime

-----------------------------------------------------------------------------
(***************************************************************************)
(* Tools.  tools is the sequence of named functions that a request offers, *)
(* choice what its tool_choice says: "absent", "auto", "required", "none"  *)
(* or a function.                                                          *)
(***************************************************************************)
Offered(tools) == {tools[i] : i \in DOMAIN tools}

\* requestedFunctionTool: the one function the answer has to call, if any.
Requested(tools, choice) ==
  CASE tools = <<>> -> "none"
    [] choice = "required" -> tools[1]
    [] choice \in {"absent", "auto"} ->
         IF Len(tools) = 1 /\ tools[1] \notin Operational THEN tools[1] ELSE "none"
    [] choice = "none" -> "none"
    [] OTHER -> IF choice \in Offered(tools) THEN choice ELSE "none"

\* shouldEmulateOperationalTools: the functions are offered in the prompt, and their
\* calls are looked for in the text of the answer.
Emulates(tools, choice) ==
  Requested(tools, choice) = "none" /\ choice # "none" /\ tools # <<>>

\* extractAllProxyToolCalls of a text in which calls are named.
Extracted(named, tools, choice) ==
  IF Emulates(tools, choice) THEN SelectSeq(named, LAMBDA f : f \in Offered(tools)) ELSE <<>>

=============================================================================
