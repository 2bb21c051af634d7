----------------------------- MODULE LLMClient -----------------------------
(***************************************************************************)
(* What happens to one question to a model: how the scheduler shortens its *)
(* payload (scheduler.py), which endpoint the configuration names and what *)
(* AsyncLLMClient.chat makes of the endpoint's answers (llm_client.py),    *)
(* and which verdict classify_error gives on the error that comes out      *)
(* (resilience.py).  The verdict decides whether the call is repeated and  *)
(* whether the provider is blocked; see AIScheduler.                       *)
(***************************************************************************)
EXTENDS Integers, Sequences, SequencesExt, FiniteSets, FiniteSetsExt

(* PROVIDER_PROFILES: the wire of each profile, which is also the only one
   it supports; and PROFILE_ALIASES. *)
Wires == {"chat_completions", "responses"}
ProfileWire == [openai_chat_completions |-> "chat_completions",
                openai_responses |-> "responses",
                custom_chat_compatible |-> "chat_completions",
                custom_responses_compatible |-> "responses"]
DefaultPath == [chat_completions |-> "/chat/completions", responses |-> "/responses"]
ProfileAliases == [chat |-> "openai_chat_completions", responses |-> "openai_responses"]

(* resolve_provider_profile; "unsupported" stands for the LLMError.  A wire
   is normalised already here, "" meaning none. *)
NormalWire(wire) == IF wire = "" THEN "chat_completions" ELSE wire

ResolveProfile(config) ==
  LET requested == IF config.profile # "" THEN config.profile
                   ELSE IF NormalWire(config.wire) = "responses"
                   THEN "openai_responses" ELSE "openai_chat_completions"
      named == IF requested \in DOMAIN ProfileAliases
               THEN ProfileAliases[requested] ELSE requested IN
  IF named \in DOMAIN ProfileWire THEN named ELSE "unsupported"

(* _effective_wire_api: a configured profile overrules the configured wire. *)
EffectiveWire(config) ==
  IF config.profile # "" THEN ProfileWire[ResolveProfile(config)]
  ELSE NormalWire(config.wire)

(* _effective_capability; an override is "unset", "yes" or "no". *)
Supports(config, wire) ==
  \/ config.supports[wire] = "yes"
  \/ config.supports[wire] = "unset" /\ ProfileWire[ResolveProfile(config)] = wire

(* _build_url: a path that is itself a URL leaves the base out.  AbsolutePath
   stands for them, as "not a url" does for the bases that are none. *)
AbsolutePath == "https://elsewhere/v2"

Url(config) ==
  IF config.path = AbsolutePath THEN <<config.path>>
  ELSE <<config.base, IF config.path # "" THEN config.path
                      ELSE DefaultPath[ProfileWire[ResolveProfile(config)]]>>

(* Why chat refuses before it asks; "none" if it does not. *)
Refusal(config, size) ==
  IF config.mock THEN "mock"
  ELSE IF config.base = "" \/ config.key = "" THEN "missing"
  ELSE IF ResolveProfile(config) = "unsupported" THEN "profile"
  ELSE IF ~Supports(config, EffectiveWire(config)) THEN "capability"
  ELSE IF config.base = "not a url" /\ config.path # AbsolutePath THEN "url"
  ELSE IF config.limit > 0 /\ size > config.limit THEN "size"
  ELSE "none"

-----------------------------------------------------------------------------
(* classify_error.  A failure is [kind, code, words]: a "status" with its code,
   or the httpx exception or fault of the answer that kind names, and those
   of the words classify_error looks for that its text holds: the text of the
   exception, the body behind a status, the preview of an unusable answer. *)
Words == {"Timed out", "timeout", "Connection error", "disconnected", "server"}

Status(code) == [kind |-> "status", code |-> code, words |-> {}]
Other(kind, words) == [kind |-> kind, code |-> 0, words |-> words]

Verdict(kind, retryable) == [kind |-> kind, retryable |-> retryable]

OfStatus(code) ==
  CASE code = 429 -> Verdict("rate_limited", TRUE)
    [] code \in {500, 502, 503, 504} -> Verdict("server_error", TRUE)
    [] code \in {401, 403} -> Verdict("auth_error", FALSE)
    [] code = 400 -> Verdict("bad_request", FALSE)
    [] code = 404 -> Verdict("not_found", FALSE)
    [] code = 413 -> Verdict("payload_oversize", FALSE)
    [] OTHER -> IF code >= 500 THEN Verdict("http_error", TRUE) ELSE Verdict("http_error", FALSE)

(* The verdict on the exception itself. *)
OfFailure(f) ==
  CASE f.kind = "status" -> OfStatus(f.code)
    [] f.kind \in {"connect", "read_error", "write_error", "protocol"} ->
         Verdict("connection_error", TRUE)
    [] f.kind \in {"read_timeout", "write_timeout", "pool_timeout", "connect_timeout"} ->
         Verdict("timeout", TRUE)
    [] OTHER -> Verdict("unknown", FALSE)

(* The LLMError chat makes of it: its status code and the words of its
   message.  Four kinds have a message that chat begins, or writes, itself; of
   "Write timed out", "Unexpected error" and an unusable answer none of the
   words is found, so that only the text behind them counts.  Thus a protocol
   error reads "Server disconnected without sending a response" or, for a body
   cut short, "peer closed connection without sending complete message body". *)
Wrapped(f) ==
  [code |-> f.code,
   says |-> CASE f.kind = "connect" -> f.words \cup {"Connection error"}
              [] f.kind = "read_timeout" -> f.words \cup {"Timed out"}
              [] f.kind = "pool_timeout" -> f.words \cup {"timeout"}
              [] f.kind = "not_json" -> {}
              [] OTHER -> f.words]

(* The verdict on an LLMError with a code; FewerServerErrors knows the four
   usual ones only. *)
FewerServerErrors(code) ==
  CASE code = 429 -> Verdict("rate_limited", TRUE)
    [] code \in {500, 502, 503, 504} -> Verdict("server_error", TRUE)
    [] code \in {401, 403} -> Verdict("auth_error", FALSE)
    [] OTHER -> Verdict("http_error", FALSE)
OfCode(code) ==
  CASE code = 429 -> Verdict("rate_limited", TRUE)
    [] code >= 500 -> Verdict("server_error", TRUE)
    [] code \in {401, 403} -> Verdict("auth_error", FALSE)
    [] OTHER -> Verdict("http_error", FALSE)

OfLLMError(e) ==
  IF e.code # 0 THEN OfCode(e.code)
  ELSE IF e.says \cap {"Timed out", "timeout"} # {} THEN Verdict("timeout", TRUE)
  ELSE IF e.says \cap {"Connection error", "disconnected", "server"} # {}
  THEN Verdict("connection_error", TRUE)
  ELSE Verdict("unknown", FALSE)

-----------------------------------------------------------------------------
(* chat.                                                                    *)

(* The number of attempts: asked for, or configured (-1 stands for None). *)
Attempts(config, asked) ==
  Max({1, IF asked # -1 THEN asked ELSE IF config.retries = 0 THEN 1 ELSE config.retries})

(* Every failure but that of an unusable answer is asked again, whatever its
   verdict would be; the last failure is raised. *)
Chat(config, asked, size, outcomes) ==
  LET ends == {n \in 1..Attempts(config, asked) : outcomes[n].kind \in {"ok", "content"}}
      calls == IF ends = {} THEN Attempts(config, asked) ELSE Min(ends) IN
  IF Refusal(config, size) # "none"
  THEN [calls |-> 0, ok |-> FALSE, error |-> Wrapped(Other("refused", {}))]
  ELSE [calls |-> calls, ok |-> outcomes[calls].kind = "ok", error |-> Wrapped(outcomes[calls])]

(* Failures that the LLMError chat makes of them tells apart. *)
Identified == {"status", "connect", "read_timeout", "pool_timeout", "not_json"}

(* Such a failure that outlasts the attempts of chat gets the verdict it
   would have had itself, whatever its text: wrapping must not turn an
   overloaded server, which the scheduler tries again, into an error that
   blocks the provider, nor a rejected key into one that is repeated.  Every
   other failure is judged by its text alone, so that it may lose its verdict
   either way. *)
KeepsVerdict(config, asked, outcomes) ==
  LET r == Chat(config, asked, 0, outcomes)
      last == outcomes[r.calls]
      retryable == OfLLMError(r.error).retryable IN
  r.calls > 0 /\ ~r.ok =>
    IF last.kind \in Identified THEN retryable = OfFailure(last).retryable
    ELSE retryable <=> last.words # {}

-----------------------------------------------------------------------------
(* _truncate_payload and its gate in _call_once.  A payload is the lengths of
   its strings, longest first, and the size of the rest: what _estimate_chars
   counts of it (keys with four characters each, and numbers), and what it
   does not (quotes, escapes, the commas and brackets of lists).  An escape
   that is cut away with its string is left in: sizes behind a cut are upper
   bounds. *)
Sum(numbers) ==
  LET sum[i \in 0..Len(numbers)] == IF i = 0 THEN 0 ELSE sum[i - 1] + numbers[i]
  IN sum[Len(numbers)]

Estimate(payload) == payload.counted + Sum(payload.strings)
Size(payload) == payload.counted + payload.uncounted + Sum(payload.strings)

(* "... [truncated from N chars]" behind its line break, in JSON, for lengths
   of three to six digits. *)
MarkerSize(length) ==
  IF length < 1000 THEN 32 ELSE IF length < 10000 THEN 33 ELSE IF length < 100000 THEN 34 ELSE 35

(* What a cut takes off the excess; KeptInstead takes what is left. *)
KeptInstead(length, keep) == keep
CutAway(length, keep) == length - keep

Keep(length, over) == LET n == length - (over * 6) \div 5 IN IF n > 500 THEN n ELSE 500

(* Strings are cut in turn while there is an excess. *)
IsCut(length, over) == length > 200 /\ over > 0 /\ Keep(length, over) < length

(* The excess in front of each string, and behind the last. *)
Excess(payload, limit) ==
  LET over[i \in 0..Len(payload.strings)] ==
        IF i = 0 THEN Size(payload) - limit
        ELSE LET length == payload.strings[i]
                 was == over[i - 1] IN
             IF IsCut(length, was) THEN was - CutAway(length, Keep(length, was)) ELSE was
  IN over

(* The marks of the cuts; 0 where there is none. *)
Marks(payload, limit) ==
  LET over == Excess(payload, limit) IN
  [i \in DOMAIN payload.strings |->
     IF IsCut(payload.strings[i], over[i - 1]) THEN MarkerSize(payload.strings[i]) ELSE 0]

Truncate(payload, limit) ==
  LET over == Excess(payload, limit)
      marks == Marks(payload, limit)
      cut(i) == IF marks[i] = 0 THEN payload.strings[i]
                ELSE Keep(payload.strings[i], over[i - 1]) + marks[i] IN
  IF Size(payload) <= limit THEN payload
  ELSE [payload EXCEPT !.strings = [i \in DOMAIN @ |-> cut(i)]]

(* What is sent: the gate looks at the estimate, truncation at the size. *)
Prepared(payload, limit) ==
  IF Estimate(payload) > limit THEN Truncate(payload, limit) ELSE payload

(* A payload that is sent although it exceeds the limit of its task, which the
   endpoint may reject, exceeds it by its truncation marks only, or has no
   string left that truncation could shorten; or nothing was cut, and it does
   so by what the estimate leaves out. *)
FitsOrSpent(payload, limit) ==
  LET r == Prepared(payload, limit) IN
  IF Estimate(payload) > limit
  THEN \/ Size(r) <= limit + Sum(Marks(payload, limit))
       \/ \A i \in DOMAIN r.strings : r.strings[i] <= 500 + MarkerSize(payload.strings[i])
  ELSE r = payload /\ Size(r) <= limit + payload.uncounted
=============================================================================
