----------------------------- MODULE MCService -----------------------------
EXTENDS Service

\* .env.example, as docker compose passes it on.
Example == [s \in Settings |->
  CASE s \in Secrets              -> Word("given")
    [] s = "JWT_REFRESH_EXPIRY"   -> Days(7)
    [] s = "CORS_ALLOWED_ORIGINS" -> List(<<"http://localhost:3000", "http://localhost:8080">>)
    [] OTHER                      -> setDefaults(s)]

\* The same with one line changed or left empty, and an environment that only
\* has what is required.
MCEnvs ==
  {Example,
   [Example EXCEPT !["DB_PASSWORD"] = Blank],
   [Example EXCEPT !["APP_PORT"] = Number(65536)],
   [Example EXCEPT !["LOG_OUTPUT"] = Word("unwritable")],
   [Example EXCEPT !["WORKER_QUEUE_DEFAULT"] = Word("files"), !["RATE_LIMIT_MAX"] = Word("none"),
                   !["RATE_LIMIT_EXPIRY"] = Number(0)],
   [s \in Settings |-> IF s \in Secrets THEN Word("given") ELSE Unset]}

=============================================================================
