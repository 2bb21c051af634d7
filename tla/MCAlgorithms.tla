----------------------------- MODULE MCAlgorithms -----------------------------
(***************************************************************************)
(* Small inputs for the algorithms of Algorithms.                          *)
(***************************************************************************)
EXTENDS Algorithms, TLC

-----------------------------------------------------------------------------
(* Plans: up to three packages, whose answers place them in waves that may   *)
(* not exist, with directories, files and patterns that overlap.           *)
Src == <<"src">>
Main == <<Src, <<"main", ".py">>>>
Api == <<Src, <<"api">>>>
Routes == <<Src, <<"api">>, <<"routes", ".py">>>>
AnySrc == <<Src, <<"*", "*">>>>
Page == <<Src, <<"[id]">>, <<"page", ".tsx">>>>
Tests == <<<<"tests">>, <<"*", "*">>>>

Package(key, wave, allowed, forbidden, deps) ==
  [key |-> key, role |-> "backend", wave |-> wave,
   allowed |-> allowed, forbidden |-> forbidden, deps |-> deps]

Infrastructure(wave) ==
  [Package("infra", wave, {Main}, {}, {}) EXCEPT !.role = "infrastructure"]

FirstPackages ==
  {Package("a", w, al, f, {}) : w \in {"", "w1", "gone"},
     al \in {{Main}, {Main, Page, AnySrc}, {Api, Tests}}, f \in {{}, {AnySrc}, {Tests}}}
SecondPackages ==
  {Package("b", w, al, {}, d) : w \in {"", "w1"},
     al \in {{Main}, {Routes}, {Page, AnySrc}}, d \in {{}, {"a"}}}
ThirdPackages ==
  {Package("c", "", al, {Tests}, {"b"}) : al \in {{Main, Routes}, {Tests}}}
  \cup {Infrastructure("w1"), Infrastructure("gone")}

Scopes ==
  {[alias |-> x, packages |-> <<p>> \o q \o r] :
     x \in BOOLEAN, p \in FirstPackages,
     q \in {<<>>} \cup {<<y>> : y \in SecondPackages},
     r \in {<<>>} \cup {<<y>> : y \in ThirdPackages}}

MCNumberedKeys == <<"wave_0", "wave_1", "wave_2">>

Wave(key, members) == [key |-> key, members |-> members]
WaveAnswers ==
  {<<>>, <<Wave("w1", {"a", "b"}), Wave("w2", {"c"})>>,
   <<Wave("", {"b"}), Wave("w1", {"c"})>>,
   <<Wave("w1", {"a"}), Wave("w2", {"a", "b", "c"})>>}

DefaultScopes ==
  {DefaultScope(d) : d \in {<<>>, <<<<Src>>>>, <<<<<<"docs">>>>, <<Src, <<"api">>>>, <<Src>>>>}}

MCPlans ==
  {[kind |-> "plan", scope |-> s, waves |-> w] : s \in Scopes, w \in WaveAnswers}
  \cup {[kind |-> "plan", scope |-> s, waves |-> DefaultWaves(s)] :
           s \in Scopes \cup DefaultScopes}

(* Manifests: three entries, the last an ordinary one, for a package that may
   write below src but not src/main.py, or for one without patterns; and two
   manifests of two entries for two executions of one job. *)
Entry(path, action, content) ==
  [absolute |-> FALSE, path |-> path, action |-> action, content |-> content]
App == <<Src, <<"app", ".py">>>>
Util == <<Src, <<"lib">>, <<"util", ".py">>>>

Repeated == {Entry(p, a, "new") : p \in {App, Util}, a \in {"create", "replace", "delete"}}

Entries ==
  Repeated
  \cup {Entry(App, "upsert", "newer"), Entry(App, "move", "new"),
        [Entry(App, "create", "new") EXCEPT !.absolute = TRUE],
        Entry(<<Src, <<"tmp">>, <<"main", ".py">>>>, "create", "new"),
        Entry(<<Src, <<".">>, <<"main", ".py">>>>, "create", "new"),
        Entry(<<Src, <<"..">>, <<"main", ".py">>>>, "create", "new"),
        Entry(<<Src, <<"..">>, <<"..">>, <<"main", ".py">>>>, "create", "new"),
        Entry(<<Src, <<".git">>, <<"main", ".py">>>>, "create", "new"),
        Entry(<<Src>>, "create", "new"), Entry(<<>>, "create", "new")}

Trees ==
  {[files |-> f, dirs |-> d] :
     f \in {<<>>, App :> "old", (App :> "old") @@ (Util :> "old")},
     d \in {{<<>>, <<Src>>, <<Src, <<"lib">>>>}}}

Manifest(tree, files, again, allowed) ==
  [kind |-> "manifest", tree |-> tree, files |-> files, again |-> again,
   allowed |-> allowed, forbidden |-> {Main}]

Later == {[e EXCEPT !.content = "newer"] : e \in Repeated}

MCManifests ==
  {Manifest(t, <<e, f, g>>, <<>>, al) :
     t \in Trees, e \in Entries, f \in Entries, g \in Repeated, al \in {{AnySrc}, {}}}
  \cup {Manifest(t, <<e, f>>, <<g, h>>, {AnySrc}) :
           t \in Trees, e \in Repeated, f \in Repeated, g \in Later, h \in Later}

(* Answers of the endpoint, in the order they would come: any of them at one
   place, and the others from a few. *)
Failures ==
  {Status(code) : code \in {302, 400, 401, 403, 404, 413, 429, 500, 503, 520}}
  \cup {Other(k, w) :
          k \in {"connect", "read_timeout", "pool_timeout", "protocol", "read_error",
                 "write_timeout", "connect_timeout", "not_json", "content", "ok"},
          w \in {{}, {"timeout"}, {"disconnected", "server"}}}
Few ==
  {Status(503), Other("ok", {}), Other("content", {"server"}), Other("not_json", {}),
   Other("protocol", {})}

Config ==
  [mock |-> FALSE, key |-> "k", base |-> "b", wire |-> "", profile |-> "", path |-> "",
   headers |-> {}, supports |-> [w \in Wires |-> "unset"], limit |-> 0, retries |-> 2]

MCCalls ==
  {[kind |-> "call", config |-> [Config EXCEPT !.retries = r], asked |-> n,
    outcomes |-> o] :
     r \in {0, 2}, n \in {-1, 0, 3},
     o \in UNION {{<<f, x, y>>, <<x, f, y>>, <<x, y, f>>} :
                   f \in Failures, x \in Few, y \in Few}}

(* Payloads of up to three strings, around the lengths truncation knows. *)
Lengths == {150, 201, 500, 533, 600, 900, 4000}
Descending(s) == \A i \in 1..Len(s) - 1 : s[i] >= s[i + 1]

MCPayloads ==
  {[kind |-> "payload", payload |-> [counted |-> 80, uncounted |-> u, strings |-> s],
    limit |-> n] :
     u \in {20, 120}, s \in {t \in Lengths \X Lengths \X Lengths : Descending(t)},
     n \in {300, 700, 973, 1400, 4000, 4600, 5000}}

(* Configurations on disk, in the environment and in the form. *)
MCSaved ==
  {[kind |-> "settings", disk |-> [config |-> c, secret |-> s], env |-> e, form |-> f] :
     c \in {[Config EXCEPT !.key = k, !.wire = w, !.profile = p, !.headers = h] :
              k \in {"", "filed"}, w \in Wires, p \in {"", "responses", "none"},
              h \in SUBSET {"x-api-key", "x-trace"}},
     s \in {"", "secret"},
     e \in [key : {"", "env"}, base : {"", "env"}, wire : {""}, profile : {""}, path : {"", AbsolutePath}],
     f \in [key : {"", Masked, "new"}, base : {"", "other"}, wire : {"", "responses"}]}

(* Projects by the scale they name, with the counts of their answers around
   the limits of the scores. *)
MCProjects ==
  {[kind |-> "project", scale |-> n, answers |-> a] :
     n \in {"", "tiny", "medium", "l", "xl", "300k", "enterprise"},
     a \in {<<x, y, z>> : x, y, z \in (0..4) \X {0, 1, 6}}}
=============================================================================
