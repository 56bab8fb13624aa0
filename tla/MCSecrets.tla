-------------------------------- MODULE MCSecrets --------------------------------
(***************************************************************************)
(* A file of two lines and its twin without comments, as a dotenv file, as *)
(* a compose file (well formed or not) and as a program, each line any of  *)
(* a dozen that matter.                                                    *)
(***************************************************************************)
EXTENDS Secrets, TLC

CONSTANTS env, envTwin, compose, composeTwin, torn, tornTwin, program, programTwin, image

Kinds == {env, compose, torn, program}
MCTwin == (env :> envTwin) @@ (compose :> composeTwin) @@ (torn :> tornTwin) @@ (program :> programTwin)
MCScans == {<<env, envTwin>>, <<compose, composeTwin>>, <<torn, tornTwin>>, <<program, programTwin, image>>}
MCFiles == UNION {ToSet(scan) : scan \in MCScans}
MCBase == (env :> ".env") @@ (envTwin :> ".env.local") @@ (compose :> "compose.yaml")
  @@ (composeTwin :> "docker-compose.yml") @@ (torn :> "docker-compose.dev.yml")
  @@ (tornTwin :> "compose.yaml") @@ (program :> "app.py") @@ (programTwin :> ".env.example")
  @@ (image :> "logo.png")
MCBinary == [f \in MCFiles |-> f = image]
MCWellFormed == [f \in MCFiles |-> f \notin {torn, tornTwin}]

Val(shape, quoted) == [shape |-> shape, entropic |-> shape # "tiny", quoted |-> quoted, codeRef |-> ~quoted]
Line(matches, entry, context) == [words |-> <<>>, matches |-> matches, entry |-> entry, context |-> context]
Env(class, v) == [class |-> class, value |-> v, place |-> "environment"]
Blank == Line(<<>>, NoEntry, {})

Pass(shape) ==
  LET v == Val(shape, TRUE) IN Line("hardcoded-password" :> v, Env("credential", v), {})
Samples ==
  {Blank, Pass("literal"), Pass("interpolated"), Pass("number"),
   Line("github-token" :> Val("literal", TRUE), Env("credential", Val("literal", TRUE)), {}),
   Line("github-token" :> Val("placeholder", TRUE), NoEntry, {}),
   Line("generic-api-key" :> Val("literal", FALSE), NoEntry, {}),
   Line("hardcoded-password-comparison" :> Val("literal", TRUE), NoEntry, {"equality"}),
   Line("mongodb-uri" :> Val("literal", TRUE), NoEntry, {"assert"}),
   Line("totp-seed" :> Val("literal", TRUE), Env("setting", Val("literal", TRUE)), {}),
   Line(<<>>, Env("keyMaterial", Val("literal", TRUE)), {})}
Comments ==
  {<<>>, <<"#", "noqa">>, <<"noqa">>, <<"//", "nosec", "ZS-SEC-031", "zs-ignore", "-", "ZS-SEC-004">>,
   <<"#", "noqa", "E501", "ZS-SEC-002", "prose">>}

MCTexts ==
  {[f \in MCFiles |->
      IF f = image THEN <<>>
      ELSE IF f \in Kinds THEN <<[one EXCEPT !.words = c], [two EXCEPT !.words = k]>> ELSE <<one, two>>] :
   one \in Samples, two \in Samples, c \in Comments, k \in Comments}
==============================================================================
