---------------------------- MODULE ServiceProofs ----------------------------
(***************************************************************************)
(* What holds of the server process for every number of requests, cron     *)
(* jobs, environments, signals, kills and outages: an orderly stop answers *)
(* what it has accepted, closes its clients in the right order, and a task *)
(* runs twice only where something hit it.                                 *)
(***************************************************************************)
EXTENDS Service, SequenceTheorems, TLAPS

-----------------------------------------------------------------------------
(* The places of main() *)

LEMMA AfterIs ==
  ASSUME NEW list, NEW last, NEW i \in DOMAIN list, \A j, k \in DOMAIN list : list[j] = list[k] => j = k
  PROVE  After(list[i], list, last) = IF i = Len(list) THEN last ELSE list[i + 1]
<1> DEFINE m == CHOOSE k \in DOMAIN list : list[k] = list[i]
<1>1. m \in DOMAIN list /\ list[m] = list[i]
  OBVIOUS
<1>2. m = i
  BY <1>1
<1> HIDE DEF m
<1> QED  BY <1>2 DEF After, m

\* The places of the start before anything runs beside main(), of the shutdown
\* after the drain, after the scheduler's stop and after the worker's.
Alone      == {"down", "config", "logger", "postgres", "migrate", "redis", "minio", "bucket", "client",
               "routes", "spawn"}
Closing    == {"close_tasks", "close_redis", "exit"}
AfterCron  == {"stop_worker", "wait_worker"} \cup Closing
AfterDrain == {"stop_cron"} \cup AfterCron

LEMMA Lists ==
  /\ Len(Starting) = 11 /\ DOMAIN Starting = 1 .. 11
  /\ Len(Stopping) = 8 /\ DOMAIN Stopping = 1 .. 8
  /\ \A j, k \in 1 .. 11 : Starting[j] = Starting[k] => j = k
  /\ \A j, k \in 1 .. 8 : Stopping[j] = Stopping[k] => j = k
  /\ {Starting[i] : i \in DOMAIN Starting} = (Alone \ {"down"}) \cup {"notify"}
  /\ {Stopping[i] : i \in DOMAIN Stopping} = {"signalled", "draining"} \cup AfterDrain
<1>1. Len(Starting) = 11 /\ DOMAIN Starting = 1 .. 11
  BY DEF Starting
<1>2. Len(Stopping) = 8 /\ DOMAIN Stopping = 1 .. 8
  BY DEF Stopping
<1>3. /\ Starting[1] = "config" /\ Starting[2] = "logger" /\ Starting[3] = "postgres" /\ Starting[4] = "migrate"
      /\ Starting[5] = "redis" /\ Starting[6] = "minio" /\ Starting[7] = "bucket" /\ Starting[8] = "client"
      /\ Starting[9] = "routes" /\ Starting[10] = "spawn" /\ Starting[11] = "notify"
  BY DEF Starting
<1>4. /\ Stopping[1] = "signalled" /\ Stopping[2] = "draining" /\ Stopping[3] = "stop_cron"
      /\ Stopping[4] = "stop_worker" /\ Stopping[5] = "wait_worker" /\ Stopping[6] = "close_tasks"
      /\ Stopping[7] = "close_redis" /\ Stopping[8] = "exit"
  BY DEF Stopping
<1>5. 1 .. 11 = {1, 2, 3, 4, 5, 6, 7, 8, 9, 10, 11} /\ 1 .. 8 = {1, 2, 3, 4, 5, 6, 7, 8}
  OBVIOUS
<1>6. \A j, k \in 1 .. 11 : Starting[j] = Starting[k] => j = k
  BY <1>3, <1>5
<1>7. \A j, k \in 1 .. 8 : Stopping[j] = Stopping[k] => j = k
  BY <1>4, <1>5
<1>8. {Starting[i] : i \in 1 .. 11} = (Alone \ {"down"}) \cup {"notify"}
  BY <1>3, <1>5 DEF Alone
<1>9. {Stopping[i] : i \in 1 .. 8} = {"signalled", "draining"} \cup AfterDrain
  BY <1>4, <1>5 DEF AfterDrain, AfterCron, Closing
<1> QED  BY <1>1, <1>2, <1>6, <1>7, <1>8, <1>9

LEMMA ForwardIs ==
  /\ \A p \in {"config", "logger", "postgres", "migrate", "redis", "minio", "bucket", "client", "routes"} :
       Forward(p) \in Alone
  /\ Forward("spawn") = "notify" /\ Forward("notify") = "waiting"
  /\ Forward("signalled") = "draining" /\ Forward("draining") = "stop_cron"
  /\ Forward("stop_cron") = "stop_worker" /\ Forward("stop_worker") = "wait_worker"
  /\ Forward("wait_worker") = "close_tasks" /\ Forward("close_tasks") = "close_redis"
  /\ Forward("close_redis") = "exit"
<1>1. \A i \in 1 .. 11 : After(Starting[i], Starting, "waiting") = IF i = 11 THEN "waiting" ELSE Starting[i + 1]
  <2>1. \A j, k \in DOMAIN Starting : Starting[j] = Starting[k] => j = k
    BY Lists
  <2>2. \A i \in DOMAIN Starting :
          After(Starting[i], Starting, "waiting") = IF i = Len(Starting) THEN "waiting" ELSE Starting[i + 1]
    BY <2>1, AfterIs
  <2> QED  BY <2>2, Lists
<1>2. \A i \in 1 .. 8 : After(Stopping[i], Stopping, "down") = IF i = 8 THEN "down" ELSE Stopping[i + 1]
  <2>1. \A j, k \in DOMAIN Stopping : Stopping[j] = Stopping[k] => j = k
    BY Lists
  <2>2. \A i \in DOMAIN Stopping :
          After(Stopping[i], Stopping, "down") = IF i = Len(Stopping) THEN "down" ELSE Stopping[i + 1]
    BY <2>1, AfterIs
  <2> QED  BY <2>2, Lists
<1>3. \A i \in 1 .. 11 : Forward(Starting[i]) = IF i = 11 THEN "waiting" ELSE Starting[i + 1]
  BY <1>1, Lists DEF Forward
<1>4. \A i \in 1 .. 8 : Forward(Stopping[i]) = IF i = 8 THEN "down" ELSE Stopping[i + 1]
  <2> TAKE i \in 1 .. 8
  <2>1. Stopping[i] \notin {Starting[j] : j \in DOMAIN Starting}
    BY Lists DEF Alone, AfterDrain, AfterCron, Closing
  <2> QED  BY <1>2, <2>1 DEF Forward
<1>5. \A i \in 1 .. 11 : i + 1 \in 1 .. 12
  OBVIOUS
<1>6. /\ Starting[1] = "config" /\ Starting[2] = "logger" /\ Starting[3] = "postgres" /\ Starting[4] = "migrate"
      /\ Starting[5] = "redis" /\ Starting[6] = "minio" /\ Starting[7] = "bucket" /\ Starting[8] = "client"
      /\ Starting[9] = "routes" /\ Starting[10] = "spawn" /\ Starting[11] = "notify"
  BY DEF Starting
<1>7. /\ Stopping[1] = "signalled" /\ Stopping[2] = "draining" /\ Stopping[3] = "stop_cron"
      /\ Stopping[4] = "stop_worker" /\ Stopping[5] = "wait_worker" /\ Stopping[6] = "close_tasks"
      /\ Stopping[7] = "close_redis" /\ Stopping[8] = "exit"
  BY DEF Stopping
<1>8. \A i \in 1 .. 10 : Forward(Starting[i]) = Starting[i + 1]
  BY <1>3
<1>9. \A i \in 1 .. 7 : Forward(Stopping[i]) = Stopping[i + 1]
  BY <1>4
<1>10. /\ Forward("config") = "logger" /\ Forward("logger") = "postgres" /\ Forward("postgres") = "migrate"
       /\ Forward("migrate") = "redis" /\ Forward("redis") = "minio" /\ Forward("minio") = "bucket"
       /\ Forward("bucket") = "client" /\ Forward("client") = "routes" /\ Forward("routes") = "spawn"
       /\ Forward("spawn") = "notify"
  <2>1. /\ Forward(Starting[1]) = Starting[2] /\ Forward(Starting[2]) = Starting[3]
        /\ Forward(Starting[3]) = Starting[4] /\ Forward(Starting[4]) = Starting[5]
        /\ Forward(Starting[5]) = Starting[6] /\ Forward(Starting[6]) = Starting[7]
        /\ Forward(Starting[7]) = Starting[8] /\ Forward(Starting[8]) = Starting[9]
        /\ Forward(Starting[9]) = Starting[10] /\ Forward(Starting[10]) = Starting[11]
    BY <1>8
  <2> QED  BY <1>6, <2>1
<1>11. Forward("notify") = "waiting"
  <2>1. Forward(Starting[11]) = "waiting"
    BY <1>3
  <2> QED  BY <1>6, <2>1
<1>12. /\ Forward("signalled") = "draining" /\ Forward("draining") = "stop_cron"
       /\ Forward("stop_cron") = "stop_worker" /\ Forward("stop_worker") = "wait_worker"
       /\ Forward("wait_worker") = "close_tasks" /\ Forward("close_tasks") = "close_redis"
       /\ Forward("close_redis") = "exit"
  <2>1. /\ Forward(Stopping[1]) = Stopping[2] /\ Forward(Stopping[2]) = Stopping[3]
        /\ Forward(Stopping[3]) = Stopping[4] /\ Forward(Stopping[4]) = Stopping[5]
        /\ Forward(Stopping[5]) = Stopping[6] /\ Forward(Stopping[6]) = Stopping[7]
        /\ Forward(Stopping[7]) = Stopping[8]
    BY <1>9
  <2> QED  BY <1>7, <2>1
<1> QED  BY <1>10, <1>11, <1>12 DEF Alone

LEMMA PlacesAre == Places = Alone \cup {"notify", "waiting", "signalled", "draining"} \cup AfterDrain
BY Lists DEF Places, Alone

-----------------------------------------------------------------------------
(* The invariant *)

\* What runs, and what is open, at each place of main().
InPlace(p) ==
  /\ p.main \in Alone => p.worker = "none"
  /\ p.worker \in {"closing", "stopped"} => p.main \in {"wait_worker"} \cup Closing
  /\ p.main \in AfterCron => p.cron = "off"
  /\ p.redis = "closed" => p.main = "exit"
  /\ p.tasks = "closed" => p.main \in {"close_redis", "exit"}

\* A request or job x in flight while main() is at a place has come late or
\* outlived what was to wait for it or to stop it.
Excepted(x) == x.late \/ x.outlived
InTime(w, x, main) ==
  /\ x.pc = "idle" => x.reply = "pending" /\ x.closed = "no"
  /\ x.reply = "cut" \/ x.closed = "handler" => Excepted(x)
  /\ x.pc \in {"limit", "work", "enqueue"} =>
       /\ w \in Calls /\ main \in AfterDrain => Excepted(x)
       /\ w \in Firings /\ main \in AfterCron => x.outlived

\* A task y that ran, and is not done, was hit, or is held by the one worker that runs.
HitOrHeld(y, p) ==
  /\ y.runs > 1 => y.upset
  /\ y.state = "pending" /\ y.runs > 0 => y.upset
  /\ y.state = "orphan" => y.upset
  /\ y.state \in {"running", "handled"} /\ p.main \in Closing => y.upset
  /\ p.worker \in {"none", "ready"} => y.state \notin {"running", "handled"}

Untouched(y) == y.state = "none" /\ y.runs = 0

ServiceInv ==
  /\ TypeOK /\ InPlace(proc)
  /\ \A w \in Work : /\ InTime(w, call[w], proc.main) /\ HitOrHeld(task[w], proc)
                     /\ call[w].pc # "done" => Untouched(task[w])

LEMMA InitService == Init => ServiceInv
<1> SUFFICES ASSUME Init PROVE ServiceInv
  OBVIOUS
<1>1. proc \in Proc /\ proc.main = "config" /\ proc.worker = "none" /\ proc.redis = "none" /\ proc.tasks = "none"
  <2>1. "config" \in Places
    BY PlacesAre DEF Alone
  <2> QED  BY <2>1 DEF Init, NoProc, Proc
<1>2. \A w \in Work : /\ call[w] \in CallState /\ call[w].pc = "idle" /\ call[w].reply = "pending"
                      /\ call[w].closed = "no"
                      /\ task[w] \in TaskState /\ task[w].state = "none" /\ task[w].runs = 0
  BY DEF Init, CallState, TaskState
<1>3. TypeOK
  BY <1>1, <1>2, ServiceAssumption DEF Init, TypeOK
<1>4. InPlace(proc)
  BY <1>1 DEF InPlace, AfterCron, Closing
<1>5. ASSUME NEW w \in Work
      PROVE  InTime(w, call[w], proc.main) /\ HitOrHeld(task[w], proc) /\ Untouched(task[w])
  BY <1>2 DEF InTime, HitOrHeld, Untouched
<1> QED  BY <1>3, <1>4, <1>5 DEF ServiceInv

-----------------------------------------------------------------------------
(* Steps *)

\* What main() does without touching requests and tasks.
LEMMA ProcStep ==
  ASSUME ServiceInv, UNCHANGED <<env, call, task>>, wanted' \in BOOLEAN, up' \subseteq Stores,
         upsets' \in 0 .. MaxUpsets, proc' \in Proc, InPlace(proc'),
         proc'.main \in AfterDrain => proc.main \in AfterDrain,
         proc'.main \in AfterCron => proc.main \in AfterCron,
         proc'.main \in Closing => proc.main \in Closing \/ proc.worker \in {"none", "ready"},
         proc'.worker \in {"none", "ready"} => proc.worker \in {"none", "ready"}
  PROVE  ServiceInv'
<1>1. TypeOK'
  BY DEF ServiceInv, TypeOK
<1>2. ASSUME NEW w \in Work
      PROVE  /\ InTime(w, call'[w], proc'.main) /\ HitOrHeld(task'[w], proc')
             /\ call'[w].pc # "done" => Untouched(task'[w])
  BY DEF ServiceInv, InTime, HitOrHeld
<1>3. InPlace(proc)'
  BY DEF InPlace
<1>4. \A w \in Work : InTime(w, call[w], proc.main)' /\ HitOrHeld(task[w], proc)' /\ (call[w].pc # "done" => Untouched(task[w]))'
  BY <1>2 DEF InTime, Excepted, HitOrHeld, Untouched
<1> QED  BY <1>1, <1>3, <1>4 DEF ServiceInv

\* main() goes to its next place.
LEMMA ProceedIs ==
  ASSUME NEW p \in Proc, Proceed(p), Forward(p.main) \in Places
  PROVE  /\ proc' \in Proc /\ proc'.main = Forward(p.main) /\ proc'.redis = p.redis /\ proc'.tasks = p.tasks
         /\ proc'.cron = p.cron /\ proc'.worker = p.worker /\ proc'.listener = p.listener
BY DEF Proceed, Proc

LEMMA NoProcIs ==
  /\ \A b \in BOOLEAN :
       LET p == [NoProc EXCEPT !.failed = b]
       IN  /\ p \in Proc /\ p.main = "down" /\ p.worker = "none" /\ InPlace(p)
           /\ LET q == [p EXCEPT !.main = "config"]
              IN  q \in Proc /\ InPlace(q) /\ q.main = "config" /\ q.worker = "none"
  /\ NoProc = [NoProc EXCEPT !.failed = FALSE]
  /\ "down" \in Alone /\ "config" \in Alone /\ Alone \cap AfterDrain = {}
  /\ Closing \subseteq AfterCron /\ AfterCron \subseteq AfterDrain
<1>1. "down" \in Places /\ "config" \in Places
  BY PlacesAre DEF Alone
<1>2. NoProc = [NoProc EXCEPT !.failed = FALSE]
  <2>1. NoProc \in Proc /\ NoProc.failed = FALSE
    BY <1>1 DEF NoProc, Proc
  <2>2. \A r \in Proc : r = [r EXCEPT !.failed = r.failed]
    BY DEF Proc
  <2> QED  BY <2>1, <2>2
<1>3. ASSUME NEW b \in BOOLEAN
      PROVE  LET p == [NoProc EXCEPT !.failed = b]
             IN  /\ p \in Proc /\ p.main = "down" /\ p.worker = "none" /\ p.redis = "none" /\ p.tasks = "none"
                 /\ p.cron = "off"
                 /\ LET q == [p EXCEPT !.main = "config"]
                    IN  /\ q \in Proc /\ q.main = "config" /\ q.worker = "none" /\ q.redis = "none"
                        /\ q.tasks = "none" /\ q.cron = "off"
  BY <1>1 DEF NoProc, Proc
<1>4. "down" \in Alone /\ "config" \in Alone /\ Alone \cap AfterDrain = {}
      /\ Closing \subseteq AfterCron /\ AfterCron \subseteq AfterDrain
  BY DEF Alone, AfterDrain, AfterCron, Closing
<1> QED  BY <1>2, <1>3, <1>4 DEF InPlace

LEMMA RestartStep ==
  ASSUME ServiceInv, Restart
  PROVE  ServiceInv'
<1>1. proc' = [NoProc EXCEPT !.main = "config"] /\ UNCHANGED <<env, wanted, up, upsets, call, task>> /\ proc.main = "down"
  BY DEF Restart, At
<1> DEFINE new == [NoProc EXCEPT !.main = "config"]
<1>2. new \in Proc /\ InPlace(new) /\ new.main = "config" /\ new.worker = "none"
  <2>1. new = [[NoProc EXCEPT !.failed = FALSE] EXCEPT !.main = "config"]
    BY NoProcIs
  <2> QED  BY <2>1, NoProcIs
<1> HIDE DEF new
<1>3. proc' = new
  BY <1>1 DEF new
<1>4. proc.worker = "none"
  BY <1>1, NoProcIs DEF ServiceInv, InPlace
<1> QED  BY <1>1, <1>2, <1>3, <1>4, NoProcIs, ProcStep DEF ServiceInv, TypeOK

\* A start that is given up.
LEMMA RefuseStep ==
  ASSUME ServiceInv, proc.main \in Alone, Refuse, UNCHANGED <<env, wanted, up, upsets, call, task>>
  PROVE  ServiceInv'
<1> DEFINE new == [NoProc EXCEPT !.failed = TRUE]
<1>1. proc' = new
  BY DEF Refuse
<1>2. new \in Proc /\ InPlace(new) /\ new.main = "down" /\ new.worker = "none"
  BY NoProcIs
<1> HIDE DEF new
<1>3. proc.worker = "none"
  BY DEF ServiceInv, InPlace
<1> QED  BY <1>1, <1>2, <1>3, NoProcIs, ProcStep DEF ServiceInv, TypeOK

\* A step of the start before anything is spawned.
LEMMA AloneStep ==
  ASSUME ServiceInv, proc.main \in {"config", "logger", "postgres", "migrate", "redis", "minio", "bucket", "client", "routes"},
         NEW p \in Proc, p.main = proc.main, p.worker = proc.worker, p.redis \in {proc.redis, "open"},
         p.tasks \in {proc.tasks, "open"},
         Proceed(p), UNCHANGED <<env, wanted, up, upsets, call, task>>
  PROVE  ServiceInv'
<1>1. proc.main \in Alone /\ Forward(p.main) \in Alone /\ Forward(p.main) \in Places
  BY ForwardIs, PlacesAre DEF Alone
<1>2. /\ proc' \in Proc /\ proc'.main \in Alone /\ proc'.worker = proc.worker
      /\ proc'.redis \in {proc.redis, "open"} /\ proc'.tasks \in {proc.tasks, "open"}
  BY <1>1, ProceedIs
<1>3. proc.worker = "none" /\ proc.redis # "closed" /\ proc.tasks # "closed"
  BY <1>1 DEF ServiceInv, InPlace, Alone
<1>4. InPlace(proc')
  BY <1>2, <1>3, NoProcIs DEF InPlace
<1>5. proc'.main \notin AfterDrain
  BY <1>2, NoProcIs
<1> QED  BY <1>2, <1>3, <1>4, <1>5, NoProcIs, ProcStep DEF ServiceInv, TypeOK

LEMMA StartStep ==
  ASSUME ServiceInv, Start
  PROVE  ServiceInv'
<1>1. proc \in Proc /\ InPlace(proc)
  BY DEF ServiceInv, TypeOK
<1>2. {"config", "logger", "postgres", "migrate", "redis", "minio", "bucket", "client", "routes"} \subseteq Alone
  BY DEF Alone
<1>3. CASE Refuse /\ proc.main \in Alone /\ UNCHANGED <<env, wanted, up, upsets, call, task>>
  BY <1>3, RefuseStep
<1>4. ASSUME ~ Refuse, LoadConfig \/ InitLogger \/ NewPostgres \/ EnsureBucket \/ SetupRoutes PROVE ServiceInv'
  <2>1. /\ Proceed(proc) /\ UNCHANGED <<env, wanted, up, upsets, call, task>>
        /\ proc.main \in {"config", "logger", "postgres", "migrate", "redis", "minio", "bucket", "client", "routes"}
    BY <1>4 DEF LoadConfig, InitLogger, NewPostgres, EnsureBucket, SetupRoutes, At
  <2> QED  BY <1>1, <2>1, AloneStep
<1>5. ASSUME ~ Refuse, NewRedis PROVE ServiceInv'
  <2> DEFINE p == [proc EXCEPT !.redis = "open"]
  <2>1. Proceed(p) /\ UNCHANGED <<env, wanted, up, upsets, call, task>> /\ proc.main = "redis"
    BY <1>5 DEF NewRedis, At
  <2>2. p \in Proc /\ p.main = proc.main /\ p.worker = proc.worker /\ p.redis = "open" /\ p.tasks = proc.tasks
    BY <1>1 DEF Proc
  <2> HIDE DEF p
  <2> QED  BY <2>1, <2>2, AloneStep
<1>6. ASSUME NewClient PROVE ServiceInv'
  <2> DEFINE p == [proc EXCEPT !.tasks = "open"]
  <2>1. Proceed(p) /\ UNCHANGED <<env, wanted, up, upsets, call, task>> /\ proc.main = "client"
    BY <1>6 DEF NewClient, At
  <2>2. p \in Proc /\ p.main = proc.main /\ p.worker = proc.worker /\ p.redis = proc.redis /\ p.tasks = "open"
    BY <1>1 DEF Proc
  <2> HIDE DEF p
  <2> QED  BY <2>1, <2>2, AloneStep
<1>7. ASSUME Spawn PROVE ServiceInv'
  <2> DEFINE p == [proc EXCEPT !.worker = "ready", !.cron = "on", !.listener = "ready"]
  <2>1. Proceed(p) /\ UNCHANGED <<env, wanted, up, upsets, call, task>> /\ proc.main = "spawn"
    BY <1>7 DEF Spawn, At
  <2>2. p \in Proc /\ p.main = "spawn" /\ p.worker = "ready" /\ p.redis = proc.redis /\ p.tasks = proc.tasks
    BY <1>1, <2>1 DEF Proc
  <2> HIDE DEF p
  <2>3. Forward("spawn") = "notify" /\ "notify" \in Places
    BY ForwardIs, PlacesAre
  <2>4. /\ proc' \in Proc /\ proc'.main = "notify" /\ proc'.worker = "ready"
        /\ proc'.redis = proc.redis /\ proc'.tasks = proc.tasks
    BY <2>1, <2>2, <2>3, ProceedIs
  <2>5. proc.worker = "none" /\ proc.redis # "closed" /\ proc.tasks # "closed"
    BY <1>1, <2>1 DEF InPlace, Alone
  <2>6. "notify" \notin AfterDrain /\ "notify" \notin Alone
    BY DEF AfterDrain, AfterCron, Closing, Alone
  <2>7. InPlace(proc')
    BY <2>4, <2>5, <2>6, NoProcIs DEF InPlace
  <2> QED  BY <2>1, <2>4, <2>5, <2>6, <2>7, NoProcIs, ProcStep DEF ServiceInv, TypeOK
<1>8. ASSUME Notify PROVE ServiceInv'
  <2>1. Proceed(proc) /\ UNCHANGED <<env, wanted, up, upsets, call, task>> /\ proc.main = "notify"
    BY <1>8 DEF Notify, At
  <2>2. Forward("notify") = "waiting" /\ "waiting" \in Places
    BY ForwardIs, PlacesAre
  <2>3. /\ proc' \in Proc /\ proc'.main = "waiting" /\ proc'.worker = proc.worker
        /\ proc'.redis = proc.redis /\ proc'.tasks = proc.tasks
    BY <1>1, <2>1, <2>2, ProceedIs
  <2>4. "waiting" \notin AfterDrain /\ "waiting" \notin Alone
    BY DEF AfterDrain, AfterCron, Closing, Alone
  <2>5. InPlace(proc')
    BY <1>1, <2>1, <2>3, <2>4, NoProcIs DEF InPlace, Closing
  <2> QED  BY <2>1, <2>3, <2>4, <2>5, NoProcIs, ProcStep DEF ServiceInv, TypeOK
<1>9. /\ (LoadConfig \/ InitLogger \/ NewPostgres \/ EnsureBucket \/ SetupRoutes \/ NewRedis)
           => proc.main \in Alone /\ UNCHANGED <<env, wanted, up, upsets, call, task>>
  BY DEF LoadConfig, InitLogger, NewPostgres, EnsureBucket, SetupRoutes, NewRedis, At, Alone
<1> QED  BY <1>3, <1>4, <1>5, <1>6, <1>7, <1>8, <1>9 DEF Start


\* The worker and the listener come to life.
LEMMA ReadyStep ==
  ASSUME ServiceInv, StartWorker \/ Listen
  PROVE  ServiceInv'
<1>1. proc \in Proc /\ InPlace(proc) /\ upsets \in 0 .. MaxUpsets /\ MaxUpsets \in Nat
  BY ServiceAssumption DEF ServiceInv, TypeOK
<1>2. CASE StartWorker
  <2>1. /\ proc' \in Proc /\ proc'.main = proc.main /\ proc'.worker = "active" /\ proc'.cron = proc.cron
        /\ proc'.redis = proc.redis /\ proc'.tasks = proc.tasks /\ proc.worker = "ready"
    BY <1>1, <1>2 DEF StartWorker, Proc
  <2>2. InPlace(proc')
    BY <1>1, <2>1 DEF InPlace
  <2> QED  BY <1>2, <2>1, <2>2, ProcStep DEF StartWorker, ServiceInv, TypeOK
<1>3. CASE Listen
  <2>1. /\ proc' \in Proc /\ proc'.main = proc.main /\ proc'.worker = proc.worker /\ proc'.cron = proc.cron
        /\ proc'.redis = proc.redis /\ proc'.tasks = proc.tasks
    BY <1>1, <1>3 DEF Listen, Proc
  <2>2. InPlace(proc')
    BY <1>1, <2>1 DEF InPlace
  <2>3. upsets' \in 0 .. MaxUpsets
    BY <1>1, <1>3 DEF Listen
  <2> QED  BY <1>3, <2>1, <2>2, <2>3, ProcStep DEF Listen, ServiceInv, TypeOK
<1> QED  BY <1>2, <1>3

\* A step of the shutdown that only main() takes part in.
LEMMA CloseStep ==
  ASSUME ServiceInv, CloseListener \/ StopWorker \/ CloseClients
  PROVE  ServiceInv'
<1>1. proc \in Proc /\ InPlace(proc) /\ proc.worker \in {"none", "ready", "active", "closing", "stopped"}
  BY DEF ServiceInv, TypeOK, Proc
<1>2. /\ "draining" \in Places /\ "wait_worker" \in Places /\ "close_tasks" \in Places /\ "close_redis" \in Places
      /\ "exit" \in Places /\ "draining" \notin AfterDrain
      /\ "signalled" \notin Alone /\ "draining" \notin Alone /\ Alone \cap AfterDrain = {}
      /\ "stop_worker" \in AfterCron /\ "wait_worker" \in AfterCron /\ Closing \subseteq AfterCron
      /\ AfterCron \subseteq AfterDrain /\ Closing = {"close_tasks", "close_redis", "exit"}
      /\ "stop_worker" \notin Closing /\ "wait_worker" \notin Closing
  BY PlacesAre DEF Alone, AfterDrain, AfterCron, Closing
<1>3. CASE CloseListener
  <2> DEFINE p == IF proc.listener = "open" THEN [proc EXCEPT !.listener = "closed"] ELSE proc
  <2>1. /\ p \in Proc /\ p.main = "signalled" /\ p.worker = proc.worker /\ p.redis = proc.redis
        /\ p.tasks = proc.tasks /\ proc.main = "signalled" /\ Proceed(p) /\ UNCHANGED <<env, wanted, up, upsets, call, task>>
    BY <1>1, <1>3 DEF CloseListener, Proc, At
  <2> HIDE DEF p
  <2>2. /\ proc' \in Proc /\ proc'.main = "draining" /\ proc'.worker = proc.worker
        /\ proc'.redis = proc.redis /\ proc'.tasks = proc.tasks
    BY <1>2, <2>1, ForwardIs, ProceedIs
  <2>3. proc.worker \notin {"closing", "stopped"} /\ proc.redis # "closed" /\ proc.tasks # "closed"
    BY <1>1, <1>2, <2>1 DEF InPlace
  <2>4. InPlace(proc')
    BY <1>2, <2>2, <2>3 DEF InPlace
  <2> QED  BY <1>2, <2>1, <2>2, <2>4, ProcStep DEF ServiceInv, TypeOK
<1>4. CASE StopWorker /\ proc.worker = "active"
  <2> DEFINE p == [proc EXCEPT !.worker = "closing"]
  <2>1. /\ p \in Proc /\ p.main = "stop_worker" /\ p.worker = "closing" /\ p.redis = proc.redis /\ p.cron = proc.cron
        /\ p.tasks = proc.tasks /\ proc.main = "stop_worker" /\ Proceed(p) /\ UNCHANGED <<env, wanted, up, upsets, call, task>>
    BY <1>1, <1>4 DEF StopWorker, Proc, At
  <2> HIDE DEF p
  <2>2. /\ proc' \in Proc /\ proc'.main = "wait_worker" /\ proc'.worker = "closing" /\ proc'.cron = proc.cron
        /\ proc'.redis = proc.redis /\ proc'.tasks = proc.tasks
    BY <1>2, <2>1, ForwardIs, ProceedIs
  <2>3. proc.redis # "closed" /\ proc.tasks # "closed" /\ proc.cron = "off"
    BY <1>1, <1>2, <2>1 DEF InPlace
  <2>4. InPlace(proc')
    BY <1>2, <2>2, <2>3 DEF InPlace
  <2> QED  BY <1>2, <2>1, <2>2, <2>4, ProcStep DEF ServiceInv, TypeOK
<1>5. CASE StopWorker /\ proc.worker # "active"
  <2>1. /\ proc.main = "stop_worker" /\ proc' = [proc EXCEPT !.main = "close_tasks"]
        /\ UNCHANGED <<env, wanted, up, upsets, call, task>>
    BY <1>5, ForwardIs DEF StopWorker, At
  <2>2. /\ proc' \in Proc /\ proc'.main = "close_tasks" /\ proc'.worker = proc.worker /\ proc'.cron = proc.cron
        /\ proc'.redis = proc.redis /\ proc'.tasks = proc.tasks
    BY <1>1, <1>2, <2>1 DEF Proc
  <2>3. proc.redis # "closed" /\ proc.tasks # "closed" /\ proc.cron = "off" /\ proc.worker \in {"none", "ready"}
    BY <1>1, <1>2, <1>5, <2>1 DEF InPlace
  <2>4. InPlace(proc')
    BY <1>2, <2>2, <2>3 DEF InPlace
  <2> QED  BY <1>2, <2>1, <2>2, <2>3, <2>4, ProcStep DEF ServiceInv, TypeOK
<1>6. CASE CloseClients /\ proc.main = "close_tasks"
  <2> DEFINE p == [proc EXCEPT !.tasks = "closed"]
  <2>1. /\ p \in Proc /\ p.main = "close_tasks" /\ p.worker = proc.worker /\ p.redis = proc.redis /\ p.cron = proc.cron
        /\ p.tasks = "closed" /\ Proceed(p) /\ UNCHANGED <<env, wanted, up, upsets, call, task>>
    BY <1>1, <1>6 DEF CloseClients, Proc, At
  <2> HIDE DEF p
  <2>2. /\ proc' \in Proc /\ proc'.main = "close_redis" /\ proc'.worker = proc.worker /\ proc'.cron = proc.cron
        /\ proc'.redis = proc.redis /\ proc'.tasks = "closed"
    BY <1>2, <2>1, ForwardIs, ProceedIs
  <2>3. proc.redis # "closed" /\ proc.cron = "off"
    BY <1>1, <1>2, <1>6 DEF InPlace
  <2>4. InPlace(proc')
    BY <1>2, <2>2, <2>3 DEF InPlace
  <2> QED  BY <1>2, <1>6, <2>1, <2>2, <2>4, ProcStep DEF ServiceInv, TypeOK
<1>7. CASE CloseClients /\ proc.main # "close_tasks"
  <2> DEFINE p == [proc EXCEPT !.redis = "closed"]
  <2>1. /\ p \in Proc /\ p.main = "close_redis" /\ p.worker = proc.worker /\ p.redis = "closed" /\ p.cron = proc.cron
        /\ p.tasks = proc.tasks /\ proc.main = "close_redis" /\ Proceed(p) /\ UNCHANGED <<env, wanted, up, upsets, call, task>>
    BY <1>1, <1>7 DEF CloseClients, Proc, At
  <2> HIDE DEF p
  <2>2. /\ proc' \in Proc /\ proc'.main = "exit" /\ proc'.worker = proc.worker /\ proc'.cron = proc.cron
        /\ proc'.redis = "closed" /\ proc'.tasks = proc.tasks
    BY <1>2, <2>1, ForwardIs, ProceedIs
  <2>3. proc.cron = "off"
    BY <1>1, <1>2, <2>1 DEF InPlace
  <2>4. InPlace(proc')
    BY <1>2, <2>2, <2>3 DEF InPlace
  <2> QED  BY <1>2, <2>1, <2>2, <2>4, ProcStep DEF ServiceInv, TypeOK
<1> QED  BY <1>3, <1>4, <1>5, <1>6, <1>7

\* Signals before the end, outages and their ends.
LEMMA OutsideStep ==
  ASSUME ServiceInv,
         \/ Signal /\ proc.main \notin {Starting[i] : i \in DOMAIN Starting}
         \/ \E s \in Stores : Outage(s) \/ Restore(s)
  PROVE  ServiceInv'
<1>1. proc \in Proc /\ InPlace(proc) /\ upsets \in 0 .. MaxUpsets /\ MaxUpsets \in Nat /\ up \subseteq Stores /\ wanted \in BOOLEAN
  BY ServiceAssumption DEF ServiceInv, TypeOK
<1>2. ASSUME NEW s \in Stores, Outage(s) \/ Restore(s) PROVE ServiceInv'
  <2>1. /\ UNCHANGED <<env, wanted, proc, call, task>> /\ up' \subseteq Stores /\ upsets' \in 0 .. MaxUpsets
    BY <1>1, <1>2 DEF Outage, Restore
  <2>2. proc' = proc
    BY <2>1
  <2> QED  BY <1>1, <2>1, <2>2, ProcStep
<1>3. ASSUME Signal, proc.main \notin {Starting[i] : i \in DOMAIN Starting} PROVE ServiceInv'
  <2>1. /\ UNCHANGED <<env, up, call, task>> /\ upsets' \in 0 .. MaxUpsets /\ wanted' \in BOOLEAN
        /\ proc' = proc \/ (proc.main = "waiting" /\ proc' = [proc EXCEPT !.main = "signalled"])
    BY <1>1, <1>3 DEF Signal, At
  <2>2. CASE proc' = proc
    BY <1>1, <2>1, <2>2, ProcStep
  <2>3. CASE proc.main = "waiting" /\ proc' = [proc EXCEPT !.main = "signalled"]
    <3>1. /\ "signalled" \in Places /\ "waiting" \notin Alone /\ "signalled" \notin Alone \cup AfterDrain
          /\ "waiting" \notin AfterDrain /\ "waiting" \notin Closing
      BY PlacesAre DEF Alone, AfterDrain, AfterCron, Closing
    <3>2. /\ proc' \in Proc /\ proc'.main = "signalled" /\ proc'.worker = proc.worker /\ proc'.cron = proc.cron
          /\ proc'.redis = proc.redis /\ proc'.tasks = proc.tasks
      BY <1>1, <2>3, <3>1 DEF Proc
    <3>3. proc.worker \notin {"closing", "stopped"} /\ proc.redis # "closed" /\ proc.tasks # "closed"
      BY <1>1, <2>3, <3>1 DEF InPlace
    <3>4. InPlace(proc')
      BY <3>1, <3>2, <3>3, NoProcIs DEF InPlace
    <3> QED  BY <1>1, <2>1, <3>1, <3>2, <3>4, NoProcIs, ProcStep
  <2> QED  BY <2>1, <2>2, <2>3
<1> QED  BY <1>2, <1>3


\* A step of one request or job that leaves its task alone.
LEMMA CallStep ==
  ASSUME ServiceInv, UNCHANGED <<env, wanted, up, upsets, proc, task>>, NEW w \in Work, NEW new \in CallState,
         call' = [call EXCEPT ![w] = new], call[w].pc # "done", new.pc # "idle", InTime(w, new, proc.main)
  PROVE  ServiceInv'
<1>1. call' \in [Work -> CallState] /\ call'[w] = new /\ \A v \in Work \ {w} : call'[v] = call[v]
  BY DEF ServiceInv, TypeOK
<1>2. TypeOK'
  BY <1>1 DEF ServiceInv, TypeOK
<1>3. \A v \in Work : InTime(v, call'[v], proc.main) /\ (call'[v].pc # "done" => Untouched(task[v]))
  BY <1>1 DEF ServiceInv
<1>4. \A v \in Work : InTime(v, call[v], proc.main)' /\ HitOrHeld(task[v], proc)' /\ (call[v].pc # "done" => Untouched(task[v]))'
  BY <1>3 DEF ServiceInv, InTime, Excepted, HitOrHeld, Untouched
<1> QED  BY <1>2, <1>4 DEF ServiceInv, InPlace

\* A step of one task.
LEMMA TaskStep ==
  ASSUME ServiceInv, UNCHANGED <<env, wanted, up, upsets, proc, call>>, NEW w \in Work, NEW new \in TaskState,
         task' = [task EXCEPT ![w] = new], task[w].state # "none", HitOrHeld(new, proc)
  PROVE  ServiceInv'
<1>1. task' \in [Work -> TaskState] /\ task'[w] = new /\ \A v \in Work \ {w} : task'[v] = task[v]
  BY DEF ServiceInv, TypeOK
<1>2. TypeOK'
  BY <1>1 DEF ServiceInv, TypeOK
<1>3. \A v \in Work : HitOrHeld(task'[v], proc) /\ (call[v].pc # "done" => Untouched(task'[v]))
  BY <1>1 DEF ServiceInv, Untouched
<1>4. \A v \in Work : InTime(v, call[v], proc.main)' /\ HitOrHeld(task[v], proc)' /\ (call[v].pc # "done" => Untouched(task[v]))'
  BY <1>3 DEF ServiceInv, InTime, Excepted, HitOrHeld, Untouched
<1> QED  BY <1>2, <1>4 DEF ServiceInv, InPlace

LEMMA AcceptStep ==
  ASSUME ServiceInv, NEW c \in Calls, Accept(c)
  PROVE  ServiceInv'
<1> DEFINE late == ~ (At("notify") \/ At("waiting") \/ At("signalled"))
<1>1. PICK op \in {"read", "chunks", "upload", "health"} :
        call' = [call EXCEPT ![c] = [call[c] EXCEPT !.pc = "limit", !.op = op, !.late = late]]
  BY DEF Accept
<1>2. c \in Work /\ call[c] \in CallState /\ call \in [Work -> CallState] /\ call[c].pc = "idle" /\ InTime(c, call[c], proc.main)
      /\ UNCHANGED <<env, wanted, up, upsets, proc, task>>
  BY DEF Accept, ServiceInv, TypeOK, Work
<1>3. proc.main \in AfterDrain => late
  BY DEF At, AfterDrain, AfterCron, Closing
<1>4. late \in BOOLEAN
  OBVIOUS
<1> HIDE DEF late
<1> DEFINE new == [call[c] EXCEPT !.pc = "limit", !.op = op, !.late = late]
<1>5. call' = [call EXCEPT ![c] = new]
  BY <1>1, <1>2
<1>6. /\ new \in CallState /\ new.pc = "limit" /\ new.late = late /\ new.outlived = call[c].outlived
      /\ new.reply = call[c].reply /\ new.closed = call[c].closed
  BY <1>2, <1>4 DEF CallState
<1> HIDE DEF new
<1>7. InTime(c, new, proc.main)
  <2>1. c \notin Firings
    BY ServiceAssumption
  <2> QED  BY <1>2, <1>3, <1>6, <2>1 DEF InTime, Excepted
<1> QED  BY <1>2, <1>5, <1>6, <1>7, CallStep

LEMMA FireStep ==
  ASSUME ServiceInv, NEW f \in Firings, Fire(f)
  PROVE  ServiceInv'
<1> DEFINE new == [call[f] EXCEPT !.pc = "enqueue", !.op = "job"]
<1>1. f \in Work /\ call[f] \in CallState /\ call \in [Work -> CallState] /\ call[f].pc = "idle" /\ InTime(f, call[f], proc.main)
      /\ UNCHANGED <<env, wanted, up, upsets, proc, task>> /\ proc.cron = "on" /\ InPlace(proc)
  BY DEF Fire, ServiceInv, TypeOK, Work
<1>2. call' = [call EXCEPT ![f] = new]
  BY <1>1 DEF Fire
<1>3. /\ new \in CallState /\ new.pc = "enqueue" /\ new.late = call[f].late /\ new.outlived = call[f].outlived
      /\ new.reply = call[f].reply /\ new.closed = call[f].closed
  BY <1>1 DEF CallState
<1> HIDE DEF new
<1>4. InTime(f, new, proc.main)
  <2>1. f \notin Calls /\ proc.main \notin AfterCron
    BY <1>1, ServiceAssumption DEF InPlace
  <2> QED  BY <1>1, <1>3, <2>1 DEF InTime, Excepted
<1> QED  BY <1>1, <1>2, <1>3, <1>4, CallStep

\* A request goes on, or is answered.
LEMMA GoesOn ==
  ASSUME ServiceInv, NEW c \in Work, call[c].pc \notin {"idle", "done"},
         NEW pc \in {"work", "enqueue", "publish", "done"}, pc \in {"work", "enqueue"} => InFlight(c),
         NEW reply \in {call[c].reply, "ok", "err", "limited"}, NEW closed \in {"no", "handler", "publisher"},
         closed = "handler" => call[c].closed = "handler" \/ Excepted(call[c]),
         UNCHANGED <<env, wanted, up, upsets, proc, task>>,
         call' = [call EXCEPT ![c] = [call[c] EXCEPT !.pc = pc, !.reply = reply, !.closed = closed]]
  PROVE  ServiceInv'
<1> DEFINE new == [call[c] EXCEPT !.pc = pc, !.reply = reply, !.closed = closed]
<1>1. call[c] \in CallState /\ InTime(c, call[c], proc.main)
  BY DEF ServiceInv, TypeOK
<1>2. /\ new \in CallState /\ new.pc = pc /\ new.late = call[c].late /\ new.outlived = call[c].outlived
      /\ new.reply = reply /\ new.closed = closed
  BY <1>1 DEF CallState
<1> HIDE DEF new
<1>3. InTime(c, new, proc.main)
  BY <1>1, <1>2 DEF InTime, Excepted, InFlight
<1>4. call' = [call EXCEPT ![c] = new]
  BY DEF new
<1> QED  BY <1>2, <1>3, <1>4, CallStep

\* A call in flight that meets a closed client is an exception.
LEMMA MeetsClosed ==
  ASSUME ServiceInv, NEW w \in Work, InFlight(w), proc.redis = "closed" \/ proc.tasks = "closed"
  PROVE  Excepted(call[w])
<1>1. proc.main \in {"close_redis", "exit"}
  BY DEF ServiceInv, InPlace
<1>2. proc.main \in AfterDrain /\ proc.main \in AfterCron
  BY <1>1 DEF AfterDrain, AfterCron, Closing
<1>3. InTime(w, call[w], proc.main)
  BY DEF ServiceInv
<1> QED  BY <1>2, <1>3 DEF InTime, InFlight, Excepted, Work

\* So the history of a call in flight is an exception, or as it was.
LEMMA MeetsIs ==
  ASSUME ServiceInv, NEW w \in Work, InFlight(w), NEW client \in {proc.redis, proc.tasks}
  PROVE  /\ Meets(w, client, "handler") \in {"no", "handler", "publisher"}
         /\ Meets(w, client, "handler") = "handler" => call[w].closed = "handler" \/ Excepted(call[w])
<1>1. call[w].closed \in {"no", "handler", "publisher"}
  BY DEF ServiceInv, TypeOK, CallState
<1> QED  BY <1>1, MeetsClosed DEF Meets

LEMMA LimitStep ==
  ASSUME ServiceInv, NEW c \in Calls, Limit(c)
  PROVE  ServiceInv'
<1> DEFINE closed == Meets(c, proc.redis, "handler")
           seen == [call[c] EXCEPT !.closed = closed]
<1>1. /\ c \in Work /\ call[c] \in CallState /\ call \in [Work -> CallState] /\ call[c].pc = "limit"
      /\ call[c].closed \in {"no", "handler", "publisher"}
      /\ InFlight(c) /\ UNCHANGED <<env, wanted, up, upsets, proc, task>>
  BY DEF Limit, ServiceInv, TypeOK, Work, CallState, InFlight
<1>2. /\ closed \in {"no", "handler", "publisher"}
      /\ closed = "handler" => call[c].closed = "handler" \/ Excepted(call[c])
  BY <1>1, MeetsIs
<1>3. PICK pc \in {"work", "done"}, reply \in {call[c].reply, "ok", "limited"}, b \in {closed, call[c].closed} :
        call' = [call EXCEPT ![c] = [call[c] EXCEPT !.pc = pc, !.reply = reply, !.closed = b]]
  <2>1. CASE call' = [call EXCEPT ![c] = IF seen.op = "health"
                        THEN [seen EXCEPT !.pc = "done", !.reply = "ok"] ELSE [seen EXCEPT !.pc = "work"]]
    <3> HIDE DEF closed
    <3>1. [seen EXCEPT !.pc = "done", !.reply = "ok"]
            = [call[c] EXCEPT !.pc = "done", !.reply = "ok", !.closed = closed]
      BY <1>1 DEF CallState
    <3>2. [seen EXCEPT !.pc = "work"] = [call[c] EXCEPT !.pc = "work", !.reply = call[c].reply, !.closed = closed]
      BY <1>1 DEF CallState
    <3> HIDE DEF seen
    <3> QED  BY <2>1, <3>1, <3>2
  <2>2. CASE call' = [call EXCEPT ![c] = [call[c] EXCEPT !.pc = "done", !.reply = "limited"]]
    <3>1. [call[c] EXCEPT !.pc = "done", !.reply = "limited"]
            = [call[c] EXCEPT !.pc = "done", !.reply = "limited", !.closed = call[c].closed]
      BY <1>1 DEF CallState
    <3> QED  BY <2>2, <3>1
  <2> QED  BY <2>1, <2>2 DEF Limit
<1> HIDE DEF closed
<1>4. b \in {"no", "handler", "publisher"} /\ (b = "handler" => call[c].closed = "handler" \/ Excepted(call[c]))
  BY <1>1, <1>2
<1> QED  BY <1>1, <1>3, <1>4, GoesOn

LEMMA ServeStep ==
  ASSUME ServiceInv, NEW c \in Calls, Serve(c)
  PROVE  ServiceInv'
<1>1. /\ c \in Work /\ call[c] \in CallState /\ call \in [Work -> CallState] /\ call[c].pc = "work"
      /\ call[c].closed \in {"no", "handler", "publisher"} /\ InFlight(c)
      /\ UNCHANGED <<env, wanted, up, upsets, proc, task>>
  BY DEF Serve, ServiceInv, TypeOK, Work, CallState, InFlight
<1>2. \/ \E r \in {"ok", "err"} : call' = [call EXCEPT ![c] = [call[c] EXCEPT !.pc = "done", !.reply = r]]
      \/ call' = [call EXCEPT ![c] = [call[c] EXCEPT !.pc = "enqueue"]]
      \/ call' = [call EXCEPT ![c] = [call[c] EXCEPT !.pc = "publish", !.reply = "ok"]]
  BY DEF Serve
<1>3. /\ \A pc, r : [call[c] EXCEPT !.pc = pc, !.reply = r]
                      = [call[c] EXCEPT !.pc = pc, !.reply = r, !.closed = call[c].closed]
      /\ [call[c] EXCEPT !.pc = "enqueue"]
           = [call[c] EXCEPT !.pc = "enqueue", !.reply = call[c].reply, !.closed = call[c].closed]
  BY <1>1 DEF CallState
<1>4. PICK pc \in {"enqueue", "publish", "done"}, reply \in {call[c].reply, "ok", "err"} :
        call' = [call EXCEPT ![c] = [call[c] EXCEPT !.pc = pc, !.reply = reply, !.closed = call[c].closed]]
  BY <1>2, <1>3
<1> QED  BY <1>1, <1>4, GoesOn

\* A publisher is left behind by a request that has its answer: nothing is due to it.
LEMMA PublishStep ==
  ASSUME ServiceInv, NEW c \in Calls, Publish(c)
  PROVE  ServiceInv'
<1> DEFINE closed == Meets(c, proc.redis, "publisher")
<1>1. /\ c \in Work /\ call[c] \in CallState /\ call[c].pc = "publish"
      /\ call[c].closed \in {"no", "handler", "publisher"}
      /\ UNCHANGED <<env, wanted, up, upsets, proc, task>>
  BY DEF Publish, ServiceInv, TypeOK, Work, CallState
<1>2. closed \in {"no", "handler", "publisher"} /\ (closed = "handler" => call[c].closed = "handler")
  BY <1>1 DEF Meets
<1>3. call' = [call EXCEPT ![c] = [call[c] EXCEPT !.pc = "done", !.closed = closed]]
  BY DEF Publish
<1> HIDE DEF closed
<1>4. [call[c] EXCEPT !.pc = "done", !.closed = closed]
        = [call[c] EXCEPT !.pc = "done", !.reply = call[c].reply, !.closed = closed]
  BY <1>1 DEF CallState
<1>5. call' = [call EXCEPT ![c] = [call[c] EXCEPT !.pc = "done", !.reply = call[c].reply, !.closed = closed]]
  BY <1>3, <1>4
<1> QED  BY <1>1, <1>2, <1>5, GoesOn

\* A task is put into the queue only by a call that has not done it yet.
LEMMA EnqueueStep ==
  ASSUME ServiceInv, NEW w \in Work, Enqueue(w)
  PROVE  ServiceInv'
<1> DEFINE closed == Meets(w, proc.tasks, "handler")
           new == [call[w] EXCEPT !.pc = "done", !.reply = "ok", !.closed = closed]
<1>1. /\ call[w] \in CallState /\ call \in [Work -> CallState] /\ call[w].pc = "enqueue" /\ InTime(w, call[w], proc.main)
      /\ task \in [Work -> TaskState] /\ task[w] \in TaskState /\ Untouched(task[w]) /\ HitOrHeld(task[w], proc)
      /\ UNCHANGED <<env, wanted, up, upsets, proc>>
  BY DEF Enqueue, ServiceInv, TypeOK
<1>2. /\ closed \in {"no", "handler", "publisher"}
      /\ closed = "handler" => call[w].closed = "handler" \/ Excepted(call[w])
  BY <1>1, MeetsIs DEF InFlight
<1>3. call' = [call EXCEPT ![w] = new]
  BY <1>1 DEF Enqueue
<1> HIDE DEF closed
<1>4. /\ new \in CallState /\ new.pc = "done" /\ new.late = call[w].late /\ new.outlived = call[w].outlived
      /\ new.reply = "ok" /\ new.closed = closed
  BY <1>1, <1>2 DEF CallState
<1> HIDE DEF new
<1>5. InTime(w, new, proc.main)
  BY <1>1, <1>2, <1>4 DEF InTime, Excepted
<1> DEFINE queued == [task[w] EXCEPT !.state = "pending"]
<1>6. task' = task \/ task' = [task EXCEPT ![w] = queued]
  BY <1>1 DEF Enqueue
<1>7. /\ queued \in TaskState /\ queued.state = "pending" /\ queued.runs = task[w].runs
  BY <1>1 DEF TaskState
<1> HIDE DEF queued
<1>8. HitOrHeld(queued, proc)
  BY <1>1, <1>7 DEF HitOrHeld, Untouched
<1>9. /\ call' \in [Work -> CallState] /\ call'[w] = new /\ \A v \in Work \ {w} : call'[v] = call[v]
      /\ task' \in [Work -> TaskState] /\ task'[w] \in {task[w], queued} /\ \A v \in Work \ {w} : task'[v] = task[v]
  BY <1>1, <1>3, <1>4, <1>6, <1>7
<1>10. TypeOK'
  BY <1>1, <1>9 DEF ServiceInv, TypeOK
<1>11. \A v \in Work : /\ InTime(v, call'[v], proc.main) /\ HitOrHeld(task'[v], proc)
                       /\ call'[v].pc # "done" => Untouched(task'[v])
  BY <1>1, <1>4, <1>5, <1>8, <1>9 DEF ServiceInv
<1>12. \A v \in Work : InTime(v, call[v], proc.main)' /\ HitOrHeld(task[v], proc)' /\ (call[v].pc # "done" => Untouched(task[v]))'
  BY <1>1, <1>11 DEF InTime, Excepted, HitOrHeld, Untouched
<1> QED  BY <1>1, <1>10, <1>12 DEF ServiceInv, InPlace

LEMMA TakeStep ==
  ASSUME ServiceInv, NEW w \in Work, Take(w)
  PROVE  ServiceInv'
<1> DEFINE hit == task[w].upset \/ At("close_tasks") \/ At("close_redis") \/ At("exit")
           new == [task[w] EXCEPT !.state = "running", !.runs = task[w].runs + 1, !.upset = hit]
<1>1. /\ task \in [Work -> TaskState] /\ task[w] \in TaskState /\ task[w].state = "pending" /\ HitOrHeld(task[w], proc)
      /\ UNCHANGED <<env, wanted, up, upsets, proc, call>> /\ proc.worker = "active"
  BY DEF Take, Reaches, ServiceInv, TypeOK
<1>2. task[w].runs \in Nat /\ task[w].runs + 1 \in Nat /\ hit \in BOOLEAN
  BY <1>1 DEF TaskState
<1>3. task' = [task EXCEPT ![w] = new]
  BY <1>1 DEF Take
<1>4. (proc.main \in Closing => hit) /\ (task[w].upset => hit)
  BY DEF Closing, At
<1> HIDE DEF hit
<1>5. new \in TaskState /\ new.state = "running" /\ new.runs = task[w].runs + 1 /\ new.upset = hit
  BY <1>1, <1>2 DEF TaskState
<1> HIDE DEF new
<1>6. HitOrHeld(new, proc)
  <2>1. new.runs > 1 => task[w].runs > 0
    BY <1>2, <1>5
  <2> QED  BY <1>1, <1>4, <1>5, <2>1 DEF HitOrHeld
<1> QED  BY <1>1, <1>3, <1>5, <1>6, TaskStep

\* A task that is held, or was lost, goes on.
LEMMA HeldStep ==
  ASSUME ServiceInv, NEW w \in Work, Handle(w) \/ Ack(w) \/ Lapse(w) \/ Recover(w)
  PROVE  ServiceInv'
<1>1. /\ task \in [Work -> TaskState] /\ task[w] \in TaskState /\ HitOrHeld(task[w], proc)
      /\ UNCHANGED <<env, wanted, up, upsets, proc, call>> /\ task[w].state \in {"running", "handled", "orphan"}
  BY DEF Handle, Ack, Lapse, Recover, Held, ServiceInv, TypeOK
<1>2. CASE Handle(w)
  <2> DEFINE new == [task[w] EXCEPT !.state = "handled"]
  <2>1. task' = [task EXCEPT ![w] = new] /\ task[w].state = "running"
    BY <1>1, <1>2 DEF Handle
  <2>2. new \in TaskState /\ new.state = "handled" /\ new.runs = task[w].runs /\ new.upset = task[w].upset
    BY <1>1 DEF TaskState
  <2> HIDE DEF new
  <2>3. HitOrHeld(new, proc)
    BY <1>1, <2>1, <2>2 DEF HitOrHeld
  <2> QED  BY <1>1, <2>1, <2>2, <2>3, TaskStep
<1>3. CASE Ack(w)
  <2> DEFINE new == [task[w] EXCEPT !.state = "done"]
  <2>1. task' = [task EXCEPT ![w] = new]
    BY <1>1, <1>3 DEF Ack
  <2>2. new \in TaskState /\ new.state = "done" /\ new.runs = task[w].runs /\ new.upset = task[w].upset
    BY <1>1 DEF TaskState
  <2> HIDE DEF new
  <2>3. HitOrHeld(new, proc)
    BY <1>1, <2>2 DEF HitOrHeld
  <2> QED  BY <1>1, <2>1, <2>2, <2>3, TaskStep
<1>4. CASE Lapse(w)
  <2> DEFINE new == [task[w] EXCEPT !.state = "orphan", !.upset = TRUE]
  <2>1. task' = [task EXCEPT ![w] = new]
    BY <1>1, <1>4 DEF Lapse
  <2>2. new \in TaskState /\ new.state = "orphan" /\ new.upset
    BY <1>1 DEF TaskState
  <2> HIDE DEF new
  <2>3. HitOrHeld(new, proc)
    BY <2>2 DEF HitOrHeld
  <2> QED  BY <1>1, <2>1, <2>2, <2>3, TaskStep
<1>5. CASE Recover(w)
  <2> DEFINE new == [task[w] EXCEPT !.state = "pending"]
  <2>1. task' = [task EXCEPT ![w] = new] /\ task[w].state = "orphan"
    BY <1>1, <1>5 DEF Recover
  <2>2. new \in TaskState /\ new.state = "pending" /\ new.upset = task[w].upset
    BY <1>1 DEF TaskState
  <2> HIDE DEF new
  <2>3. HitOrHeld(new, proc)
    BY <1>1, <2>1, <2>2 DEF HitOrHeld
  <2> QED  BY <1>1, <2>1, <2>2, <2>3, TaskStep
<1> QED  BY <1>2, <1>3, <1>4, <1>5

\* What the drain and the scheduler's stop leave running is marked.
LEMMA MarkStep ==
  ASSUME ServiceInv, NEW marked \in SUBSET Work, NEW p \in Proc, Proceed(p), p.main = proc.main,
         proc.main \in {"draining", "stop_cron"},
         p.worker = proc.worker, p.redis = proc.redis, p.tasks = proc.tasks,
         proc.main = "stop_cron" => p.cron = "off" /\ \A f \in Firings : InFlight(f) => f \in marked,
         proc.main = "draining" => \A c \in Calls : InFlight(c) => c \in marked \/ call[c].late,
         call' = [w \in Work |-> IF w \in marked THEN [call[w] EXCEPT !.outlived = TRUE] ELSE call[w]],
         UNCHANGED <<env, wanted, up, upsets, task>>
  PROVE  ServiceInv'
<1>0. /\ "stop_cron" \in Places /\ "stop_worker" \in Places /\ "stop_cron" \notin AfterCron \cup Alone
      /\ "stop_worker" \notin Alone \cup Closing /\ "stop_cron" \notin Closing /\ "draining" \notin Closing \cup AfterDrain
      /\ "stop_cron" \in AfterDrain /\ "draining" # "stop_cron" /\ "stop_worker" # "exit" /\ "stop_cron" # "exit"
      /\ Closing = {"close_tasks", "close_redis", "exit"}
  BY PlacesAre DEF Alone, AfterDrain, AfterCron, Closing
<1>1. /\ proc' \in Proc /\ proc'.worker = proc.worker /\ proc'.redis = proc.redis /\ proc'.tasks = proc.tasks
      /\ proc'.cron = p.cron
      /\ \/ proc.main = "draining" /\ proc'.main = "stop_cron"
         \/ proc.main = "stop_cron" /\ proc'.main = "stop_worker"
  BY <1>0, ForwardIs, ProceedIs
<1>2. InPlace(proc) /\ TypeOK
  BY DEF ServiceInv
<1>3. InPlace(proc')
  <2>1. proc.worker \notin {"closing", "stopped"} /\ proc.redis # "closed" /\ proc.tasks # "closed"
    BY <1>0, <1>2 DEF InPlace
  <2> QED  BY <1>0, <1>1, <2>1 DEF InPlace
<1>4. ASSUME NEW w \in Work
      PROVE  /\ call'[w] \in CallState /\ call'[w].pc = call[w].pc /\ call'[w].reply = call[w].reply
             /\ call'[w].closed = call[w].closed /\ call'[w].late = call[w].late
             /\ call'[w].outlived = (w \in marked \/ call[w].outlived)
  <2>1. call[w] \in CallState
    BY <1>2 DEF TypeOK
  <2>2. CASE w \in marked
    BY <2>1, <2>2 DEF CallState
  <2>3. CASE w \notin marked
    BY <2>1, <2>3 DEF CallState
  <2> QED  BY <2>2, <2>3
<1>5. TypeOK'
  <2>1. call' \in [Work -> CallState]
    BY <1>4
  <2> QED  BY <1>1, <1>2, <2>1 DEF TypeOK
<1>6. ASSUME NEW w \in Work
      PROVE  /\ InTime(w, call'[w], proc'.main) /\ HitOrHeld(task[w], proc')
             /\ call'[w].pc # "done" => Untouched(task[w])
  <2>1. /\ InTime(w, call[w], proc.main) /\ HitOrHeld(task[w], proc)
        /\ call[w].pc # "done" => Untouched(task[w])
    BY DEF ServiceInv
  <2>2. HitOrHeld(task[w], proc')
    BY <1>0, <1>1, <2>1 DEF HitOrHeld
  <2>3. InTime(w, call'[w], proc'.main)
    BY <1>0, <1>1, <1>4, <2>1 DEF InTime, Excepted, InFlight
  <2> QED  BY <1>4, <2>1, <2>2, <2>3
<1>7. \A w \in Work : InTime(w, call[w], proc.main)' /\ HitOrHeld(task[w], proc)' /\ (call[w].pc # "done" => Untouched(task[w]))'
  BY <1>6 DEF InTime, Excepted, HitOrHeld, Untouched
<1>8. InPlace(proc)'
  BY <1>3 DEF InPlace
<1> QED  BY <1>5, <1>7, <1>8 DEF ServiceInv

LEMMA DrainStep ==
  ASSUME ServiceInv, Drain
  PROVE  ServiceInv'
<1> DEFINE open == {c \in Calls : InFlight(c) /\ ~ call[c].late}
<1>1. /\ proc \in Proc /\ call \in [Work -> CallState] /\ proc.main = "draining" /\ Proceed(proc)
      /\ UNCHANGED <<env, wanted, up, upsets, task>>
  BY DEF Drain, ServiceInv, TypeOK, At
<1>2. /\ open \in SUBSET Work
      /\ call' = [w \in Work |-> IF w \in open THEN [call[w] EXCEPT !.outlived = TRUE] ELSE call[w]]
  BY <1>1 DEF Drain, Work
<1>3. \A c \in Calls : InFlight(c) => c \in open \/ call[c].late
  OBVIOUS
<1> HIDE DEF open
<1> QED  BY <1>1, <1>2, <1>3, MarkStep

LEMMA StopCronStep ==
  ASSUME ServiceInv, StopCron
  PROVE  ServiceInv'
<1> DEFINE open == {f \in Firings : InFlight(f)}
           p == [proc EXCEPT !.cron = "off"]
<1>1. /\ proc \in Proc /\ call \in [Work -> CallState] /\ proc.main = "stop_cron" /\ Proceed(p)
      /\ UNCHANGED <<env, wanted, up, upsets, task>>
  BY DEF StopCron, ServiceInv, TypeOK, At
<1>2. /\ p \in Proc /\ p.main = proc.main /\ p.worker = proc.worker /\ p.redis = proc.redis
      /\ p.tasks = proc.tasks /\ p.cron = "off"
  BY <1>1 DEF Proc
<1> HIDE DEF p
<1>3. /\ open \in SUBSET Work
      /\ call' = [w \in Work |-> IF w \in open THEN [call[w] EXCEPT !.outlived = TRUE] ELSE call[w]]
  BY <1>1 DEF StopCron, Work
<1>4. \A f \in Firings : InFlight(f) => f \in open
  OBVIOUS
<1> HIDE DEF open
<1> QED  BY <1>1, <1>2, <1>3, <1>4, MarkStep

\* The worker hands back, or loses, what it holds.
LEMMA WaitStep ==
  ASSUME ServiceInv, WaitWorker
  PROVE  ServiceInv'
<1> DEFINE p == [proc EXCEPT !.worker = "stopped"]
<1>1. /\ proc \in Proc /\ InPlace(proc) /\ proc.main = "wait_worker" /\ Proceed(p)
      /\ UNCHANGED <<env, wanted, up, upsets, call>> /\ task \in [Work -> TaskState] /\ TypeOK
  BY DEF WaitWorker, ServiceInv, TypeOK, At
<1>2. /\ p \in Proc /\ p.main = proc.main /\ p.worker = "stopped" /\ p.redis = proc.redis
      /\ p.tasks = proc.tasks /\ p.cron = proc.cron
  BY <1>1 DEF Proc
<1> HIDE DEF p
<1>3. /\ "close_tasks" \in Places /\ "close_tasks" \notin Alone /\ "close_tasks" \in AfterCron
      /\ "wait_worker" \in AfterCron /\ "wait_worker" \in AfterDrain /\ "close_tasks" \in Closing
      /\ "wait_worker" \notin Closing
  BY PlacesAre DEF Alone, AfterDrain, AfterCron, Closing
<1>4. /\ proc' \in Proc /\ proc'.worker = "stopped" /\ proc'.redis = proc.redis /\ proc'.tasks = proc.tasks
      /\ proc'.cron = proc.cron /\ proc'.main = "close_tasks"
  BY <1>1, <1>2, <1>3, ForwardIs, ProceedIs
<1>5. InPlace(proc')
  BY <1>1, <1>3, <1>4 DEF InPlace
<1>6. ASSUME NEW w \in Work
      PROVE  /\ task'[w] \in TaskState /\ HitOrHeld(task'[w], proc')
             /\ Untouched(task[w]) => Untouched(task'[w])
  <2>1. task[w] \in TaskState /\ HitOrHeld(task[w], proc)
    BY <1>1 DEF ServiceInv
  <2>2. CASE task[w].state = "handled" /\ "redis" \in up
    <3>1. task'[w] = [task[w] EXCEPT !.state = "done"]
      BY <2>2 DEF WaitWorker
    <3> QED  BY <1>4, <2>1, <2>2, <3>1 DEF TaskState, HitOrHeld, Untouched
  <2>3. CASE task[w].state = "running" /\ "redis" \in up
    <3>1. task'[w] = [task[w] EXCEPT !.state = "pending", !.upset = TRUE]
      BY <2>3 DEF WaitWorker
    <3> QED  BY <1>4, <2>1, <2>3, <3>1 DEF TaskState, HitOrHeld, Untouched
  <2>4. CASE Held(w) /\ "redis" \notin up
    <3>1. task'[w] = [task[w] EXCEPT !.state = "orphan", !.upset = TRUE]
      BY <2>4 DEF WaitWorker
    <3> QED  BY <1>4, <2>1, <2>4, <3>1 DEF TaskState, HitOrHeld, Untouched, Held
  <2>5. CASE ~ Held(w)
    <3>1. task'[w] = task[w]
      BY <2>5 DEF WaitWorker, Held
    <3> QED  BY <1>4, <2>1, <2>5, <3>1 DEF HitOrHeld, Held
  <2> QED  BY <2>2, <2>3, <2>4, <2>5 DEF Held
<1>7. TypeOK'
  <2>1. task' = [w \in Work |-> task'[w]]
    BY DEF WaitWorker
  <2> QED  BY <1>1, <1>4, <1>6, <2>1 DEF TypeOK
<1>8. \A w \in Work : InTime(w, call[w], proc'.main) /\ (call[w].pc # "done" => Untouched(task'[w]))
  BY <1>1, <1>3, <1>4, <1>6 DEF ServiceInv, InTime
<1>9. \A w \in Work : InTime(w, call[w], proc.main)' /\ HitOrHeld(task[w], proc)' /\ (call[w].pc # "done" => Untouched(task[w]))'
  BY <1>1, <1>6, <1>8 DEF InTime, Excepted, HitOrHeld, Untouched
<1>10. InPlace(proc)'
  BY <1>5 DEF InPlace
<1> QED  BY <1>7, <1>9, <1>10 DEF ServiceInv

\* The process ends, killed or after its deferred calls.
LEMMA EndStep ==
  ASSUME ServiceInv, NEW failed \in BOOLEAN, NEW answer \in {"killed", "cut"}, NEW hit \in BOOLEAN,
         proc' = [NoProc EXCEPT !.failed = failed], Ended(answer, hit),
         answer = "cut" \/ ~ hit => proc.main = "exit",
         UNCHANGED <<env, up>>, wanted' \in BOOLEAN, upsets' \in 0 .. MaxUpsets
  PROVE  ServiceInv'
<1> DEFINE p == [NoProc EXCEPT !.failed = failed]
<1>1. p \in Proc /\ p.main = "down" /\ p.worker = "none" /\ InPlace(p)
  BY NoProcIs
<1>2. proc' = p
  OBVIOUS
<1> HIDE DEF p
<1>3. TypeOK
  BY DEF ServiceInv
<1>4. "down" \notin AfterDrain \cup AfterCron \cup Closing /\ "exit" \in AfterDrain \cap AfterCron /\ "exit" \in Closing
  BY DEF AfterDrain, AfterCron, Closing
<1>5. ASSUME NEW w \in Work
      PROVE  /\ call'[w] \in CallState /\ InTime(w, call'[w], "down")
             /\ call'[w].pc # "done" => call[w].pc # "done"
  <2>1. call[w] \in CallState /\ InTime(w, call[w], proc.main)
    BY <1>3 DEF ServiceInv, TypeOK
  <2>2. CASE InFlight(w)
    <3> DEFINE new == [call[w] EXCEPT !.pc = "done", !.reply = answer]
    <3>1. call'[w] = new
      BY <2>2 DEF Ended, InFlight
    <3>2. /\ new \in CallState /\ new.pc = "done" /\ new.reply = answer /\ new.closed = call[w].closed
          /\ new.late = call[w].late /\ new.outlived = call[w].outlived
      BY <2>1 DEF CallState
    <3> HIDE DEF new
    <3>3. proc.main = "exit" => Excepted(call[w])
      BY <1>4, <2>1, <2>2 DEF InTime, InFlight, Excepted, Work
    <3> QED  BY <2>1, <2>2, <3>1, <3>2, <3>3 DEF InTime, Excepted
  <2>3. CASE call[w].pc \in {"publish", "done"}
    <3> DEFINE new == [call[w] EXCEPT !.pc = "done", !.reply = call[w].reply]
    <3>1. call'[w] = new
      BY <2>3 DEF Ended, InFlight
    <3>2. /\ new \in CallState /\ new.pc = "done" /\ new.reply = call[w].reply /\ new.closed = call[w].closed
          /\ new.late = call[w].late /\ new.outlived = call[w].outlived
      BY <2>1 DEF CallState
    <3> HIDE DEF new
    <3> QED  BY <2>1, <2>3, <3>1, <3>2 DEF InTime, Excepted
  <2>4. CASE call[w].pc = "idle"
    <3>1. call'[w] = call[w]
      BY <2>4 DEF Ended, InFlight
    <3> QED  BY <1>4, <2>1, <2>4, <3>1 DEF InTime
  <2>5. InFlight(w) \/ call[w].pc \in {"idle", "publish", "done"}
    BY <2>1 DEF CallState, InFlight
  <2> QED  BY <2>2, <2>3, <2>4, <2>5
<1>6. ASSUME NEW w \in Work
      PROVE  /\ task'[w] \in TaskState /\ HitOrHeld(task'[w], p) /\ (Untouched(task[w]) => Untouched(task'[w]))
  <2>1. task[w] \in TaskState /\ HitOrHeld(task[w], proc)
    BY <1>3 DEF ServiceInv, TypeOK
  <2>2. CASE Held(w)
    <3> DEFINE upset == task[w].upset \/ hit
               new == [task[w] EXCEPT !.state = "orphan", !.upset = upset]
    <3>1. task'[w] = new
      BY <2>2 DEF Ended
    <3>2. upset
      BY <1>4, <2>1, <2>2 DEF HitOrHeld, Held
    <3> HIDE DEF upset
    <3>3. new \in TaskState /\ new.state = "orphan" /\ new.upset
      BY <2>1, <3>2 DEF TaskState
    <3> HIDE DEF new
    <3> QED  BY <2>2, <3>1, <3>3 DEF HitOrHeld, Untouched, Held
  <2>3. CASE ~ Held(w)
    <3>1. task'[w] = task[w]
      BY <2>3 DEF Ended
    <3> QED  BY <1>1, <2>1, <2>3, <3>1 DEF HitOrHeld, Held
  <2> QED  BY <2>2, <2>3
<1>7. TypeOK'
  <2>1. call' = [w \in Work |-> call'[w]] /\ task' = [w \in Work |-> task'[w]]
    BY DEF Ended
  <2>2. call' \in [Work -> CallState] /\ task' \in [Work -> TaskState]
    BY <1>5, <1>6, <2>1
  <2> QED  BY <1>1, <1>2, <1>3, <2>2 DEF TypeOK
<1>8. \A w \in Work : /\ InTime(w, call'[w], proc'.main) /\ HitOrHeld(task'[w], proc')
                      /\ call'[w].pc # "done" => Untouched(task'[w])
  BY <1>1, <1>2, <1>5, <1>6 DEF ServiceInv
<1>9. \A w \in Work : InTime(w, call[w], proc.main)' /\ HitOrHeld(task[w], proc)' /\ (call[w].pc # "done" => Untouched(task[w]))'
  BY <1>8 DEF InTime, Excepted, HitOrHeld, Untouched
<1>10. InPlace(proc)'
  BY <1>1, <1>2 DEF InPlace
<1> QED  BY <1>7, <1>9, <1>10 DEF ServiceInv

LEMMA NextService == ServiceInv /\ [Next]_vars => ServiceInv'
<1> SUFFICES ASSUME ServiceInv, [Next]_vars PROVE ServiceInv'
  OBVIOUS
<1>0. /\ upsets \in 0 .. MaxUpsets /\ MaxUpsets \in Nat /\ wanted \in BOOLEAN
      /\ NoProc = [NoProc EXCEPT !.failed = FALSE]
  BY NoProcIs, ServiceAssumption DEF ServiceInv, TypeOK
<1>1. CASE UNCHANGED vars
  <2>1. /\ env' = env /\ wanted' = wanted /\ up' = up /\ upsets' = upsets /\ proc' = proc
        /\ call' = call /\ task' = task
    BY <1>1 DEF vars
  <2>2. TypeOK' = TypeOK
    BY <2>1 DEF TypeOK
  <2> QED  BY <2>1, <2>2 DEF ServiceInv, InPlace, InTime, Excepted, HitOrHeld, Untouched
<1>2. CASE Stop
  <2>1. CASE Exit
    BY <1>0, <2>1, EndStep DEF Exit, At
  <2> QED  BY <1>2, <2>1, CloseStep, DrainStep, StopCronStep, WaitStep DEF Stop
<1>3. CASE Signal
  <2>1. CASE proc.main \in {Starting[i] : i \in DOMAIN Starting}
    <3>1. Die /\ wanted' \in BOOLEAN /\ upsets' \in 0 .. MaxUpsets /\ UNCHANGED <<env, up>>
      <4>1. "waiting" \notin {Starting[i] : i \in DOMAIN Starting}
        BY Lists DEF Alone
      <4> QED  BY <1>0, <1>3, <2>1, <4>1 DEF Signal, At
    <3> QED  BY <3>1, EndStep DEF Die
  <2> QED  BY <1>3, <2>1, OutsideStep
<1>4. CASE Kill
  <2>1. Die /\ wanted' \in BOOLEAN /\ upsets' \in 0 .. MaxUpsets /\ UNCHANGED <<env, up>>
    BY <1>0, <1>4 DEF Kill
  <2> QED  BY <2>1, EndStep DEF Die
<1>5. ASSUME NEW w \in Work, Continue(w) \/ Process(w) \/ Lapse(w) PROVE ServiceInv'
  BY <1>5, LimitStep, ServeStep, PublishStep, EnqueueStep, TakeStep, HeldStep DEF Continue, Process
<1> QED  BY <1>1, <1>2, <1>3, <1>4, <1>5, RestartStep, StartStep, ReadyStep, AcceptStep, FireStep, OutsideStep DEF Next

-----------------------------------------------------------------------------
(* The theorems *)

\* The inductive invariant of the process holds in every state, for every number
\* of requests, jobs, environments and upsets.
THEOREM ServiceCorrect == Spec => []ServiceInv
BY InitService, NextService, PTL DEF Spec

\* The process, its calls and their tasks keep their types: main() is always at
\* one of the places in the lists of its start and of its shutdown, or between.
THEOREM TypeCorrect == Spec => []TypeOK
<1>1. ServiceInv => TypeOK
  BY DEF ServiceInv
<1> QED  BY <1>1, ServiceCorrect, PTL

\* When main() returns, the drain and the order of the deferred calls have left
\* no accepted request unanswered, but for the late ones and those it gave up.
THEOREM StopAnswers == Spec => []StopAnswersRequests
<1>1. ServiceInv => StopAnswersRequests
  BY DEF ServiceInv, InTime, Excepted, StopAnswersRequests, Work
<1> QED  BY <1>1, ServiceCorrect, PTL

\* The deferred Close of the Redis clients comes after everything that is still
\* to use them, requests and jobs alike, but for the named exceptions.
THEOREM ClientsOpen == Spec => []OpenWhileNeeded
<1>1. ServiceInv => OpenWhileNeeded
  BY DEF ServiceInv, InTime, Excepted, OpenWhileNeeded
<1> QED  BY <1>1, ServiceCorrect, PTL

\* A task is delivered twice only if something hit it while it was held.
THEOREM TasksRunOnce == Spec => []RunsOnce
<1>1. ServiceInv => RunsOnce
  BY DEF ServiceInv, HitOrHeld, RunsOnce
<1> QED  BY <1>1, ServiceCorrect, PTL

=============================================================================
