------------------------------ MODULE Service ------------------------------
(***************************************************************************)
(* Service: the life of the server process.                                *)
(*                                                                         *)
(* main() loads the configuration, connects to the stores one after the    *)
(* other, leaves three things running (the task worker, the cron scheduler *)
(* and the HTTP listener), waits for a signal, drains the listener and     *)
(* runs its deferred calls.  The container starts it again as long as      *)
(* nobody stops the container.  Requests and cron jobs put tasks into a    *)
(* queue in Redis, which the worker empties.  What is in Redis outlives    *)
(* the process; everything else ends with it.                              *)
(***************************************************************************)
EXTENDS Config

CONSTANTS
  Calls,       \* the HTTP requests of a behaviour, each handled once
  Firings,     \* the runs of cron jobs, each happening once
  Envs,        \* the environments the container may be configured with
  Stores,      \* "postgres", "redis", "minio"
  MaxUpsets    \* how many signals, kills and outages there are

ASSUME ServiceAssumption ==
  /\ Calls \cap Firings = {}
  /\ Envs \subseteq [Settings -> [form : {"unset", "blank"}] \cup [form : {"word"}, word : STRING]
                       \cup [form : {"number", "span", "days"}, n : Int]
                       \cup [form : {"list"}, items : Seq(STRING)]]
  /\ Stores = {"postgres", "redis", "minio"}
  /\ MaxUpsets \in Nat

VARIABLES
  env,       \* the environment variables; fixed
  wanted,    \* nobody has stopped the container
  up,        \* the stores that answer
  upsets,    \* how many signals, kills and outages there were
  proc,      \* the process: where main() is, and what it has started
  call,      \* call[w]: the goroutine of a request or a cron job, and its answer
  task       \* task[w]: the task that w put into the queue

vars == <<env, wanted, up, upsets, proc, call, task>>

Work == Calls \cup Firings

\* main's cfg: what it loads from the environment it runs in.
Built == [e \in Envs |-> buildConfig(e)]
cfg   == Built[env]

Starting == <<"config", "logger", "postgres", "migrate", "redis", "minio", "bucket", "client",
              "routes", "spawn", "notify">>

\* Faulty variant: the deferred calls run in the order in which they were deferred.
StoppingInOrder == <<"signalled", "draining", "close_redis", "close_tasks", "stop_worker", "wait_worker",
                     "stop_cron", "exit">>

Stopping == <<"signalled", "draining", "stop_cron", "stop_worker", "wait_worker", "close_tasks",
              "close_redis", "exit">>

Places == {"down", "waiting"} \cup {Starting[i] : i \in DOMAIN Starting}
                              \cup {Stopping[i] : i \in DOMAIN Stopping}

\* failed: the exit status of the last run.  redis, tasks: the two clients of
\* Redis.  ready: the goroutine exists and has not come to its Start or Listen.
Proc == [main: Places, failed: BOOLEAN, redis: {"none", "open", "closed"},
         tasks: {"none", "open", "closed"}, cron: {"off", "on"},
         worker: {"none", "ready", "active", "closing", "stopped"},
         listener: {"none", "ready", "open", "closed", "failed"}]

\* late: accepted after the drain began; outlived: it ran when the drain timed
\* out or its scheduler stopped; closed: who met a closed client, if anybody did,
\* the handler (or job) or the publisher it left behind (history).
CallState == [pc: {"idle", "limit", "work", "enqueue", "publish", "done"},
              op: {"none", "read", "chunks", "upload", "health", "job"},
              reply: {"pending", "ok", "err", "limited", "killed", "cut"},
              late: BOOLEAN, outlived: BOOLEAN, closed: {"no", "handler", "publisher"}]

\* running, handled: with a handler of this process, whose result is not in
\* Redis yet; orphan: Redis has it as active and nobody works on it any more.
\* upset: a kill, an outage or a timeout hit it while it was held (history).
TaskState == [state: {"none", "pending", "running", "handled", "orphan", "done"}, runs: Nat, upset: BOOLEAN]

TypeOK ==
  /\ env \in Envs /\ wanted \in BOOLEAN /\ up \subseteq Stores /\ upsets \in 0..MaxUpsets
  /\ proc \in Proc /\ call \in [Work -> CallState] /\ task \in [Work -> TaskState]

NoProc == [main |-> "down", failed |-> FALSE, redis |-> "none", tasks |-> "none",
           cron |-> "off", worker |-> "none", listener |-> "none"]

Init ==
  /\ env \in Envs /\ wanted = TRUE /\ up = Stores /\ upsets = 0
  /\ proc = [NoProc EXCEPT !.main = "config"]
  /\ call = [w \in Work |-> [pc |-> "idle", op |-> "none", reply |-> "pending",
                             late |-> FALSE, outlived |-> FALSE, closed |-> "no"]]
  /\ task = [w \in Work |-> [state |-> "none", runs |-> 0, upset |-> FALSE]]

At(place) == proc.main = place

\* The place after p in a list of places, or `last'.
After(p, list, last) ==
  LET i == CHOOSE k \in DOMAIN list : list[k] = p
  IN  IF i = Len(list) THEN last ELSE list[i + 1]

\* Faulty variant: nobody waits for the signal.
ForwardToServing(p) == IF p \in {Starting[i] : i \in DOMAIN Starting}
                         THEN After(p, Starting, "serving") ELSE After(p, Stopping, "down")

Forward(p) == IF p \in {Starting[i] : i \in DOMAIN Starting}
                THEN After(p, Starting, "waiting") ELSE After(p, Stopping, "down")

\* What the drain waits for.  A request in "publish" has its answer; only the
\* goroutine that it started is left.
InFlight(w) == call[w].pc \in {"limit", "work", "enqueue"}
Held(w)     == task[w].state \in {"running", "handled"}

-----------------------------------------------------------------------------
(* The end of the process and its restart *)

\* What was in flight gets no answer, and no goroutine goes on; what a handler
\* held stays active in Redis.
Ended(answer, hit) ==
  /\ call' = [w \in Work |->
       IF call[w].pc = "idle" THEN call[w]
       ELSE [call[w] EXCEPT !.pc = "done", !.reply = IF InFlight(w) THEN answer ELSE call[w].reply]]
  /\ task' = [w \in Work |-> IF Held(w)
                THEN [task[w] EXCEPT !.state = "orphan", !.upset = @ \/ hit] ELSE task[w]]

Die == proc' = [NoProc EXCEPT !.failed = TRUE] /\ Ended("killed", TRUE)

\* Faulty variant: restart: on-failure.
RestartFailed ==
  /\ At("down") /\ wanted /\ proc.failed
  /\ proc' = [NoProc EXCEPT !.main = "config"]
  /\ UNCHANGED <<env, wanted, up, upsets, call, task>>

\* restart: unless-stopped, whatever ended the last run.
Restart ==
  /\ At("down") /\ wanted
  /\ proc' = [NoProc EXCEPT !.main = "config"]
  /\ UNCHANGED <<env, wanted, up, upsets, call, task>>

-----------------------------------------------------------------------------
(* main(): the start *)

Opens(output)        == output # Word("unwritable")
AcceptsCORS(origins) == origins # <<>> /\ \A i \in DOMAIN origins : origins[i] # "*"

\* A panic, logger.Fatal or os.Exit; nothing runs yet that could be cut short.
Refuse == proc' = [NoProc EXCEPT !.failed = TRUE]
Proceed(p) == proc' = [p EXCEPT !.main = Forward(@)]

LoadConfig ==
  /\ At("config")
  /\ IF validate(cfg) THEN Proceed(proc) ELSE Refuse
  /\ UNCHANGED <<env, wanted, up, upsets, call, task>>

InitLogger ==
  /\ At("logger")
  /\ IF Opens(cfg.output) THEN Proceed(proc) ELSE Refuse
  /\ UNCHANGED <<env, wanted, up, upsets, call, task>>

\* The connections are tried once, without a retry.  NewPostgres migrates, and
\* main migrates again.
NewPostgres ==
  /\ At("postgres") \/ At("migrate")
  /\ IF "postgres" \in up THEN Proceed(proc) ELSE Refuse
  /\ UNCHANGED <<env, wanted, up, upsets, call, task>>

NewRedis ==
  /\ At("redis")
  /\ IF "redis" \in up THEN Proceed([proc EXCEPT !.redis = "open"]) ELSE Refuse
  /\ UNCHANGED <<env, wanted, up, upsets, call, task>>

\* NewMinioStorage makes the bucket, and main once more.
EnsureBucket ==
  /\ At("minio") \/ At("bucket")
  /\ IF "minio" \in up THEN Proceed(proc) ELSE Refuse
  /\ UNCHANGED <<env, wanted, up, upsets, call, task>>

\* asynq connects when it is used.
NewClient ==
  /\ At("client")
  /\ Proceed([proc EXCEPT !.tasks = "open"])
  /\ UNCHANGED <<env, wanted, up, upsets, call, task>>

\* The CORS middleware panics on a wildcard origin with credentials.
SetupRoutes ==
  /\ At("routes")
  /\ IF AcceptsCORS(cfg.origins) THEN Proceed(proc) ELSE Refuse
  /\ UNCHANGED <<env, wanted, up, upsets, call, task>>

\* go processor.Start, scheduler.Start, go app.Listen.
Spawn ==
  /\ At("spawn")
  /\ Proceed([proc EXCEPT !.worker = "ready", !.cron = "on", !.listener = "ready"])
  /\ UNCHANGED <<env, wanted, up, upsets, call, task>>

\* From here on a signal is delivered to main, which waits for it.
Notify ==
  /\ At("notify")
  /\ Proceed(proc)
  /\ UNCHANGED <<env, wanted, up, upsets, call, task>>

Start == \/ LoadConfig \/ InitLogger \/ NewPostgres \/ NewRedis \/ EnsureBucket \/ NewClient
         \/ SetupRoutes \/ Spawn \/ Notify

StartWorker ==
  /\ proc.worker = "ready"
  /\ proc' = [proc EXCEPT !.worker = "active"]
  /\ UNCHANGED <<env, wanted, up, upsets, call, task>>

\* Without the port the error is logged, and main keeps waiting.
Listen ==
  /\ proc.listener = "ready"
  /\ \/ proc' = [proc EXCEPT !.listener = "open"] /\ UNCHANGED upsets
     \/ /\ upsets < MaxUpsets /\ upsets' = upsets + 1
        /\ proc' = [proc EXCEPT !.listener = "failed"]
  /\ UNCHANGED <<env, wanted, up, call, task>>

-----------------------------------------------------------------------------
(* main(): the shutdown, and its deferred calls, the last one first *)

\* ShutdownWithContext closes the listener if there is one yet.
CloseListener ==
  /\ At("signalled")
  /\ Proceed(IF proc.listener = "open" THEN [proc EXCEPT !.listener = "closed"] ELSE proc)
  /\ UNCHANGED <<env, wanted, up, upsets, call, task>>

\* Faulty variant: app.Shutdown in a goroutine of its own.
DrainNothing ==
  /\ At("draining")
  /\ Proceed(proc)
  /\ UNCHANGED <<env, wanted, up, upsets, call, task>>

\* It waits until no request is in flight, for 30 seconds at most.
Drain ==
  /\ At("draining")
  /\ LET open == {c \in Calls : InFlight(c) /\ ~ call[c].late}
     IN  \/ open = {} /\ UNCHANGED call
         \/ call' = [w \in Work |-> IF w \in open THEN [call[w] EXCEPT !.outlived = TRUE] ELSE call[w]]
  /\ Proceed(proc)
  /\ UNCHANGED <<env, wanted, up, upsets, task>>

\* cron.Stop does not wait for jobs that run.
StopCron ==
  /\ At("stop_cron")
  /\ call' = [w \in Work |-> IF w \in Firings /\ InFlight(w)
                THEN [call[w] EXCEPT !.outlived = TRUE] ELSE call[w]]
  /\ Proceed([proc EXCEPT !.cron = "off"])
  /\ UNCHANGED <<env, wanted, up, upsets, task>>

\* asynq's Shutdown does nothing to a worker that has not been started.
StopWorker ==
  /\ At("stop_worker")
  /\ IF proc.worker = "active"
       THEN Proceed([proc EXCEPT !.worker = "closing"])
       ELSE proc' = [proc EXCEPT !.main = Forward("wait_worker")]
  /\ UNCHANGED <<env, wanted, up, upsets, call, task>>

\* Faulty variant: asynq's Stop, which only takes no more tasks.
WaitForNobody ==
  /\ At("wait_worker")
  /\ Proceed([proc EXCEPT !.worker = "stopped"])
  /\ UNCHANGED <<env, wanted, up, upsets, call, task>>

\* Faulty variant: it waits until its queue is empty.
WaitForQueue ==
  /\ At("wait_worker") /\ \A w \in Work : task[w].state \in {"none", "done"}
  /\ Proceed([proc EXCEPT !.worker = "stopped"])
  /\ UNCHANGED <<env, wanted, up, upsets, call, task>>

\* It waits until no handler runs, for 8 seconds at most, and hands back to
\* Redis what is left then; what Redis does not take stays active there.
WaitWorker ==
  /\ At("wait_worker")
  /\ Proceed([proc EXCEPT !.worker = "stopped"])
  /\ task' = [w \in Work |->
       CASE task[w].state = "handled" /\ "redis" \in up -> [task[w] EXCEPT !.state = "done"]
         [] task[w].state = "running" /\ "redis" \in up -> [task[w] EXCEPT !.state = "pending", !.upset = TRUE]
         [] Held(w) /\ "redis" \notin up -> [task[w] EXCEPT !.state = "orphan", !.upset = TRUE]
         [] OTHER -> task[w]]
  /\ UNCHANGED <<env, wanted, up, upsets, call>>

\* Deferred: workerClient.Close, redisClient.Close.  PostgreSQL is not closed.
CloseClients ==
  /\ \/ At("close_tasks") /\ Proceed([proc EXCEPT !.tasks = "closed"])
     \/ At("close_redis") /\ Proceed([proc EXCEPT !.redis = "closed"])
  /\ UNCHANGED <<env, wanted, up, upsets, call, task>>

\* main returns, which ends every goroutine.
Exit ==
  /\ At("exit")
  /\ proc' = NoProc
  /\ Ended("cut", FALSE)
  /\ UNCHANGED <<env, wanted, up, upsets>>

Stop == CloseListener \/ Drain \/ StopCron \/ StopWorker \/ WaitWorker \/ CloseClients \/ Exit

-----------------------------------------------------------------------------
(* Requests and cron jobs *)

Accept(c) ==
  /\ proc.listener = "open" /\ call[c].pc = "idle"
  /\ \E op \in {"read", "chunks", "upload", "health"} :
       LET late == ~ (At("notify") \/ At("waiting") \/ At("signalled"))
       IN  call' = [call EXCEPT ![c] = [call[c] EXCEPT !.pc = "limit", !.op = op, !.late = late]]
  /\ UNCHANGED <<env, wanted, up, upsets, proc, task>>

\* A closed client answers with an error at once.
Meets(w, client, who) == IF client = "closed" /\ call[w].closed = "no" THEN who ELSE call[w].closed

\* The rate limiter refuses a client over its limit (with no limit worth the
\* name, every client) and lets everybody pass when Redis fails.
Limit(c) ==
  /\ call[c].pc = "limit"
  /\ LET answers == "redis" \in up /\ proc.redis = "open"
         seen    == [call[c] EXCEPT !.closed = Meets(c, proc.redis, "handler")]
     IN  \/ /\ answers => cfg.limit >= 1
            /\ call' = [call EXCEPT ![c] = IF seen.op = "health"
                          THEN [seen EXCEPT !.pc = "done", !.reply = "ok"] ELSE [seen EXCEPT !.pc = "work"]]
         \/ /\ answers /\ (cfg.limit < 1 \/ cfg.window > 0)
            /\ call' = [call EXCEPT ![c] = [call[c] EXCEPT !.pc = "done", !.reply = "limited"]]
  /\ UNCHANGED <<env, wanted, up, upsets, proc, task>>

\* The use case: rows are read or written.  A chunked upload has a task left;
\* an upload, and the making of a share link, answers and leaves a goroutine
\* behind that publishes an event (its context is context.Background()).
Serve(c) ==
  /\ call[c].pc = "work"
  /\ \/ /\ "postgres" \notin up
        /\ call' = [call EXCEPT ![c] = [call[c] EXCEPT !.pc = "done", !.reply = "err"]]
     \/ /\ "postgres" \in up /\ call[c].op = "chunks"
        /\ call' = [call EXCEPT ![c] = [call[c] EXCEPT !.pc = "enqueue"]]
     \/ /\ "postgres" \in up /\ call[c].op = "upload"
        /\ call' = [call EXCEPT ![c] = [call[c] EXCEPT !.pc = "publish", !.reply = "ok"]]
     \/ /\ "postgres" \in up /\ call[c].op = "read"
        /\ call' = [call EXCEPT ![c] = [call[c] EXCEPT !.pc = "done", !.reply = "ok"]]
  /\ UNCHANGED <<env, wanted, up, upsets, proc, task>>

\* go publishFileEvent: a failure is logged, nobody waits for it.
Publish(c) ==
  /\ call[c].pc = "publish"
  /\ call' = [call EXCEPT ![c] =
       [call[c] EXCEPT !.pc = "done", !.closed = Meets(c, proc.redis, "publisher")]]
  /\ UNCHANGED <<env, wanted, up, upsets, proc, task>>

\* The scheduler runs a job in a goroutine of its own.
Fire(f) ==
  /\ proc.cron = "on" /\ call[f].pc = "idle"
  /\ call' = [call EXCEPT ![f] = [@ EXCEPT !.pc = "enqueue", !.op = "job"]]
  /\ UNCHANGED <<env, wanted, up, upsets, proc, task>>

\* What the adapters name, and what asynq takes for jobs that name none.
Queue == Word("default")

\* An error is ignored or logged.
Enqueue(w) ==
  /\ call[w].pc = "enqueue"
  /\ call' = [call EXCEPT ![w] =
       [call[w] EXCEPT !.pc = "done", !.reply = "ok", !.closed = Meets(w, proc.tasks, "handler")]]
  /\ task' = IF "redis" \in up /\ proc.tasks = "open" THEN [task EXCEPT ![w].state = "pending"] ELSE task
  /\ UNCHANGED <<env, wanted, up, upsets, proc>>

-----------------------------------------------------------------------------
(* The worker: asynq over Redis *)

\* Faulty variant: the worker listens on the critical queue only.
ReachesCritical(queues) ==
  proc.worker = "active" /\ "redis" \in up /\ Queue = Setting(env, "WORKER_QUEUE_CRITICAL")

\* The worker listens on the two configured queues.
Reaches(queues) == proc.worker = "active" /\ "redis" \in up /\ Queue \in queues

\* late: the worker was started after processor.Stop.
Take(w) ==
  /\ task[w].state = "pending" /\ Reaches(cfg.queues)
  /\ LET late == At("close_tasks") \/ At("close_redis") \/ At("exit")
     IN  task' = [task EXCEPT ![w] =
           [task[w] EXCEPT !.state = "running", !.runs = task[w].runs + 1, !.upset = task[w].upset \/ late]]
  /\ UNCHANGED <<env, wanted, up, upsets, proc, call>>

\* Every handler logs and returns nil.
Handle(w) ==
  /\ task[w].state = "running"
  /\ task' = [task EXCEPT ![w].state = "handled"]
  /\ UNCHANGED <<env, wanted, up, upsets, proc, call>>

Ack(w) ==
  /\ task[w].state = "handled" /\ "redis" \in up
  /\ task' = [task EXCEPT ![w].state = "done"]
  /\ UNCHANGED <<env, wanted, up, upsets, proc, call>>

\* A lease that cannot be renewed runs out, and the worker drops the task.
Lapse(w) ==
  /\ Held(w) /\ "redis" \notin up
  /\ task' = [task EXCEPT ![w] = [@ EXCEPT !.state = "orphan", !.upset = TRUE]]
  /\ UNCHANGED <<env, wanted, up, upsets, proc, call>>

\* The recoverer of any worker finds a task whose lease ran out.
Recover(w) ==
  /\ task[w].state = "orphan" /\ Reaches(cfg.queues)
  /\ task' = [task EXCEPT ![w].state = "pending"]
  /\ UNCHANGED <<env, wanted, up, upsets, proc, call>>

-----------------------------------------------------------------------------
(* Whoever operates the service *)

\* A signal; or docker stop, which sends one and ends the restarts.  Before
\* Notify it kills the process, during a shutdown nobody looks at it.
Signal ==
  /\ upsets < MaxUpsets /\ upsets' = upsets + 1
  /\ \E stop \in BOOLEAN : wanted' = (wanted /\ ~ stop)
  /\ CASE At("waiting") -> proc' = [proc EXCEPT !.main = "signalled"] /\ UNCHANGED <<call, task>>
       [] proc.main \in {Starting[i] : i \in DOMAIN Starting} -> Die
       [] OTHER -> UNCHANGED <<proc, call, task>>
  /\ UNCHANGED <<env, up>>

Kill ==
  /\ ~ At("down") /\ upsets < MaxUpsets /\ upsets' = upsets + 1
  /\ Die
  /\ UNCHANGED <<env, wanted, up>>

Outage(s) ==
  /\ s \in up /\ upsets < MaxUpsets /\ upsets' = upsets + 1
  /\ up' = up \ {s}
  /\ UNCHANGED <<env, wanted, proc, call, task>>

Restore(s) ==
  /\ s \notin up
  /\ up' = up \cup {s}
  /\ UNCHANGED <<env, wanted, upsets, proc, call, task>>

-----------------------------------------------------------------------------
Continue(w) == (w \in Calls /\ (Limit(w) \/ Serve(w) \/ Publish(w))) \/ Enqueue(w)
Process(w)  == Take(w) \/ Handle(w) \/ Ack(w) \/ Recover(w)

Next ==
  \/ Restart \/ Start \/ Stop \/ StartWorker \/ Listen
  \/ \E c \in Calls : Accept(c)
  \/ \E f \in Firings : Fire(f)
  \/ \E w \in Work : Continue(w) \/ Process(w) \/ Lapse(w)
  \/ Signal \/ Kill
  \/ \E s \in Stores : Outage(s) \/ Restore(s)

Spec == Init /\ [][Next]_vars

\* Goroutines are scheduled, the container runtime restarts, an outage ends.
FairSpec ==
  /\ Spec
  /\ WF_vars(Restart) /\ WF_vars(Start) /\ WF_vars(Stop) /\ WF_vars(StartWorker) /\ WF_vars(Listen)
  /\ \A w \in Work : WF_vars(Continue(w)) /\ WF_vars(Process(w))
  /\ \A s \in Stores : WF_vars(Restore(s))

-----------------------------------------------------------------------------
(* Properties *)

\* An orderly stop answers every request it has accepted, but for those that a
\* timed-out drain left running and those of a listener that came up only after
\* the server had been told to close it.
StopAnswersRequests ==
  \A c \in Calls : call[c].reply = "cut" => call[c].late \/ call[c].outlived

\* No handler and no cron job meets a Redis client that the shutdown has closed
\* already, but for those requests and for jobs that ran when cron was stopped:
\* the deferred calls are in the order that this takes.  This does not extend to
\* the goroutines that answered uploads leave behind: the drain does not know
\* of them, and one that comes to publish after the close loses its event in a
\* stop in which nothing has failed or timed out.
OpenWhileNeeded ==
  \A w \in Work : call[w].closed = "handler" => call[w].late \/ call[w].outlived

\* A task runs twice only if a kill, an outage of Redis or a timeout of the stop
\* hit it while it was held, or a worker that was started too late took it.
RunsOnce ==
  \A w \in Work : task[w].runs > 1 => task[w].upset

\* Can this environment serve at all?
Startable == validate(cfg) /\ Opens(cfg.output) /\ AcceptsCORS(cfg.origins)

\* While nobody stops the container, the server comes back after every crash,
\* signal and outage, in any environment whose start does not panic; the one
\* exception is a port that is taken, which leaves a process without listener.
ServesAgain ==
  At("down") ~> proc.listener \in {"open", "failed"} \/ ~ wanted \/ ~ Startable

\* Told to stop, the process ends, whatever hangs or fails at that time.
StopEnds == At("signalled") ~> At("down")

\* A task that is in the queue is handled, across restarts, outages and lost
\* leases, if the configured queues include the one that everything is put into.
TasksHandled ==
  \A w \in Work : task[w].state = "pending" ~>
    task[w].state = "done" \/ ~ wanted \/ Queue \notin cfg.queues

=============================================================================
