------------------------------ MODULE Settings ------------------------------
(***************************************************************************)
(* The configuration of the model endpoint: in memory, in the file         *)
(* orchestrator_config.json, in the file of local secrets and in the       *)
(* environment (config.py), and the form that shows, tests and saves it    *)
(* (api.py).  Of its fields those that name the endpoint stand for all.    *)
(*                                                                         *)
(* A configuration is one of LLMClient with a set of headers; "" is a      *)
(* field that is not set.  A disk is [config, secret].  A form is          *)
(* [key, base, wire], as the page sends it.                                *)
(***************************************************************************)
EXTENDS LLMClient

Masked == "***"
Fields == {"key", "base", "wire", "profile", "path"}

(* _drop_sensitive_headers, for the names the runs use. *)
SensitiveHeaders == {"x-api-key"}
PlainHeaders(headers) == headers \ SensitiveHeaders

(* save_config: to_persisted_dict leaves out the key and sensitive headers;
   the secrets are another file. *)
SaveConfig(config, disk) ==
  [disk EXCEPT !.config = [config EXCEPT !.key = "", !.headers = PlainHeaders(@)]]

(* load_config: the file, then the environment; for the key the secrets come
   between the two. *)
Set(value, otherwise) == IF value # "" THEN value ELSE otherwise

LoadedKey(file, secret, env) == Set(env, Set(secret, file))

LoadConfig(disk, env) ==
  [disk.config EXCEPT
     !.key = LoadedKey(@, disk.secret, env.key),
     !.base = Set(env.base, @), !.wire = Set(env.wire, @),
     !.profile = Set(env.profile, @), !.path = Set(env.path, @)]

(* _masked_llm_dict, and the answer of GET /model-settings. *)
Shown(config) ==
  [key |-> IF config.key # "" THEN Masked ELSE "", base |-> config.base, wire |-> config.wire]

(* A key in a form is a new one unless it is the mask; AnyKey takes it as it
   is. *)
AnyKey(form, config) == form.key
KeyOf(form, config) == IF form.key \in {"", Masked} THEN config.key ELSE form.key

(* PUT /model-settings changes the configuration in memory and saves it; a new
   key reaches neither the file nor the secrets.  (update_config, which would
   save it, is not called.) *)
PutSettings(form, config) ==
  [config EXCEPT !.key = KeyOf(form, config),
                 !.base = Set(form.base, @), !.wire = Set(form.wire, @)]

(* POST /model-settings/test tries a configuration of its own, with none of
   the fields the form does not have. *)
TestedConfig(form, config) ==
  [config EXCEPT !.mock = FALSE, !.key = KeyOf(form, config),
                 !.base = form.base, !.wire = form.wire, !.profile = "", !.path = "",
                 !.headers = {}, !.supports = [w \in Wires |-> "unset"]]

(* What a call sends and where to. *)
Endpoint(config) ==
  IF ResolveProfile(config) = "unsupported" THEN <<"unsupported">>
  ELSE <<Url(config), EffectiveWire(config), config.key>>

-----------------------------------------------------------------------------
(* Saving a form that shows the masked key, however the other fields were
   edited, and starting again leaves the endpoint the form describes, with
   the key of the environment or of the secrets still in place.  (A key that
   somebody wrote into the file is gone.) *)
SavedFormSurvives(form, disk, env) ==
  LET config == LoadConfig(disk, env)
      saved == PutSettings([form EXCEPT !.key = Shown(config).key], config)
      again == LoadConfig(SaveConfig(saved, disk), env) IN
  /\ disk.config.key = "" => again.key = saved.key
  /\ \A f \in Fields \ {"key"} :
       env[f] = "" => again[f] = saved[f]
  /\ again.headers = PlainHeaders(saved.headers)

(* The test of a form reaches the endpoint that saving it leads to, if the
   configuration has no profile and no path of its own. *)
TestIsFaithful(form, config) ==
  config.profile = "" /\ config.path = "" /\ form.base # "" /\ form.wire # "" =>
    Endpoint(TestedConfig(form, config)) = Endpoint(PutSettings(form, config))
=============================================================================
