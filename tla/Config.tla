------------------------------- MODULE Config -------------------------------
(***************************************************************************)
(* Config: what the server makes of its environment variables.             *)
(*                                                                         *)
(* env[s] is the value of variable s, by its form; every setting that a    *)
(* decision depends on is here, the others only pass through.  The keys of *)
(* the .env file are flat and the program asks for dotted ones, so the     *)
(* file itself sets nothing: its values count where the container or make  *)
(* has put them into the environment.                                      *)
(***************************************************************************)
EXTENDS Integers, Sequences

Secrets == {"APP_SECRET", "DB_HOST", "DB_USER", "DB_PASSWORD", "DB_NAME", "REDIS_HOST",
            "JWT_ACCESS_SECRET", "JWT_REFRESH_SECRET", "MINIO_ACCESS_KEY", "MINIO_SECRET_KEY"}

Settings == Secrets \cup
  {"APP_PORT", "UPLOAD_MAX_SIZE", "UPLOAD_CHUNK_SIZE", "RATE_LIMIT_MAX", "RATE_LIMIT_EXPIRY",
   "JWT_ACCESS_EXPIRY", "JWT_REFRESH_EXPIRY", "LOG_OUTPUT", "WORKER_QUEUE_DEFAULT",
   "WORKER_QUEUE_CRITICAL", "CORS_ALLOWED_ORIGINS"}

\* The forms of a value.  An empty variable counts as unset; a blank one is white space.
Unset     == [form |-> "unset"]
Blank     == [form |-> "blank"]
Word(w)   == [form |-> "word", word |-> w]
Number(n) == [form |-> "number", n |-> n]
Span(n)   == [form |-> "span", n |-> n]     \* n seconds, as in "15m"
Days(n)   == [form |-> "days", n |-> n]     \* a number, anything, and a final "d"
List(ws)  == [form |-> "list", items |-> ws]  \* separated by commas, blank items as ""

Day == 24 * 3600

setDefaults(s) ==
  CASE s = "APP_PORT"              -> Number(8080)
    [] s = "UPLOAD_MAX_SIZE"       -> Number(104857600)
    [] s = "UPLOAD_CHUNK_SIZE"     -> Number(5242880)
    [] s = "RATE_LIMIT_MAX"        -> Number(100)
    [] s = "RATE_LIMIT_EXPIRY"     -> Span(60)
    [] s = "JWT_ACCESS_EXPIRY"     -> Span(15 * 60)
    [] s = "JWT_REFRESH_EXPIRY"    -> Span(7 * Day)
    [] s = "LOG_OUTPUT"            -> Word("stdout")
    [] s = "WORKER_QUEUE_DEFAULT"  -> Word("default")
    [] s = "WORKER_QUEUE_CRITICAL" -> Word("critical")
    [] s = "CORS_ALLOWED_ORIGINS"  -> List(<<"*">>)
    [] OTHER                       -> Unset

\* bindEnvVars: the variable, else the default.
Setting(env, s) == IF env[s] = Unset THEN setDefaults(s) ELSE env[s]

\* What does not parse counts as zero.
GetInt(value) == IF value.form = "number" THEN value.n ELSE 0

parseDuration(value, fallback) ==
  CASE value.form = "days"         -> value.n * Day
    [] value.form = "span"         -> value.n
    [] value = Number(0)           -> 0
    [] OTHER                       -> fallback

splitCSV(value) ==
  CASE value.form = "list" -> SelectSeq(value.items, LAMBDA w : w # "")
    [] value.form = "word" -> <<value.word>>
    [] OTHER               -> <<>>

buildConfig(env) ==
  LET int(s)           == GetInt(Setting(env, s))
      seconds(s, none) == parseDuration(Setting(env, s), none)
  IN  [missing  |-> {s \in Secrets : Setting(env, s) \in {Unset, Blank}},
       port     |-> int("APP_PORT"),
       maxSize  |-> int("UPLOAD_MAX_SIZE"),
       chunk    |-> int("UPLOAD_CHUNK_SIZE"),
       limit    |-> int("RATE_LIMIT_MAX"),
       window   |-> seconds("RATE_LIMIT_EXPIRY", 60),
       access   |-> seconds("JWT_ACCESS_EXPIRY", 15 * 60),
       refresh  |-> seconds("JWT_REFRESH_EXPIRY", 7 * Day),
       output   |-> Setting(env, "LOG_OUTPUT"),
       queues   |-> {Setting(env, "WORKER_QUEUE_DEFAULT"), Setting(env, "WORKER_QUEUE_CRITICAL")},
       origins  |-> splitCSV(Setting(env, "CORS_ALLOWED_ORIGINS"))]

validate(cfg) ==
  /\ cfg.missing = {}
  /\ cfg.port \in 1..65535
  /\ cfg.maxSize > 0 /\ cfg.chunk > 0

=============================================================================
