# Verification of the file management service

A Go service (Fiber, GORM on PostgreSQL, Redis, MinIO) that stores users' files in folders,
with permissions, share links, token sessions and a rate limit. This directory has TLA+ models
of its state-changing core, the TLC instances that check them, and TLAPS proofs that hold for
every value of the constants. Paths below are relative to the repository; `usecase/...` is
`src/internal/usecase/...`.

## The system

### How a request runs

The HTTP server handles each request in a goroutine: router, rate limiter, auth middleware,
handler, one call of a use case. A use case is a sequence of separate database, Redis and
object-store calls. There is one transaction in the whole service (`folderRepository.Move`);
nothing else is locked or transactional, no call is made again by the code, and a request that dies
with the server process is never resumed. So what is hard here is always the same: a value read by one
call is used by a later one, other requests come in between, and a step in the middle can fail.
Every model therefore makes one database, Redis or object-store call one step, and lets the
steps of all requests interleave.

Three properties of the libraries run through everything and are modelled, not assumed away:

- GORM's `Save` writes **every** column of the struct it is given, `WHERE deleted_at IS NULL`,
  and when that affects no row it inserts the struct `ON CONFLICT (id) DO UPDATE`. A struct read
  earlier thus overwrites what others wrote meanwhile, and revives a row deleted meanwhile.
- The schema in force is what `AutoMigrate` makes from the entities. It has the unique indexes
  on emails, usernames, token hashes, storage keys and share tokens, but none of the CHECKs and
  none of the composite UNIQUEs of `migrations/001_init.sql`.
- The Redis client is made without `MaxRetries` (`redis.go:17`), so it sends a command or a whole pipeline
  whose answer does not come again, up to three times, whatever Redis did with the ones before. A request
  may count several times at the rate limiter, and an event be published several times. And a subscription whose
  connection breaks is made anew without a word to whoever reads from it: what was published meanwhile is missing.

### Inventory

| Component | State | Operations | Interacts with | What is hard; what makes it correct |
|---|---|---|---|---|
| File use case (`usecase/file`, `file_repo_impl.go`, `minio.go`) | `files` rows, objects, `users.storage_used`, `download_count` | Upload, InitChunkUpload, CompleteChunkUpload, Copy, Delete, Move, Rename, Download, presigned URL, Share, versions, listings | permissions (access), users (quota), object store, notifications, worker | Two stores and a counter written one after the other: a listed file must have its object, a deleted one must not, acknowledged files stay, quota is charged and refunded once |
| Folder use case (`usecase/folder`, `folder_repo_impl.go`) | `folders` rows: parent, path, subfolder count | Create, Update, Delete, Move, GetTree, GetBreadcrumb, Share, listings | permissions | Counts corrected after the write from a parent read before it; parents form a forest only by luck; paths are redundant; a loop over parents |
| Auth use case (`usecase/auth`, `user_repo_impl.go`, `pkg/jwt`, auth middleware) | `users` row, `refresh_tokens` rows | Register, Login, RefreshToken, Logout, LogoutAll, ChangePassword, UpdateProfile | admin handlers share the users row | Tokens are functions of the second; rotation in several steps; revocation against logins in progress; whole-row saves |
| Role checks (`middleware/rbac.go`) | none | RequireAdmin in front of the admin routes | auth, admin handlers | They look at the role in the token, not at the row: a demotion against tokens in use and logins in progress |
| Admin handlers (`admin_handler.go`) | `users` row | CreateUser, UpdateUser, BanUser, DeleteUser, statistics | auth | A ban or a demotion against concurrent whole-row saves |
| Permission use case (`usecase/permission`, `permission_repo_impl.go`) | `permissions` rows | Grant, GrantBulk, Revoke, Check, listings | file and folder use case ask it | A grant checked before its granter loses the right; overlapping revocations; no first manager |
| Share links (file and folder use case, `permission_repo_impl.go`) | `share_links` rows | Share, DownloadByShareToken | files, objects | A use count read, checked, and saved after the object was fetched |
| Rate limiter (`middleware/ratelimit.go`) | one Redis key per IP | one pipeline per request | Redis | INCR and EXPIRE are two commands, keys expire in between, Redis may fail, its client sends both again |
| Notifications (`usecase/notification`, publisher, SSE stream) | `notifications` rows, Redis channels, open streams | Publish, Stream, MarkAsRead, MarkAllAsRead, Delete, counts | file use case publishes | Delivery to streams that come and go, of events sent again, over subscriptions that break; the subscription is closed when the handler returns |
| Worker and scheduler (`infrastructure/worker`, `adapters.go`) | the Asynq queue in Redis | cron jobs and requests enqueue; take, handle, acknowledge, recover a task | file use case, Redis, start and shutdown | A task held by a process that dies, loses Redis or stops is neither lost nor run twice without need; handlers are stubs that log |
| Start and shutdown (`cmd/api/main.go`, `docker-compose.yml`) | the process and what it has started | connect to the stores, spawn worker, cron and listener, wait, drain, run the deferred calls; the container's restart | all | Each step can fail or be cut; what ends first is still used; the server must come back |
| Configuration (`config/config.go`) | the settings | defaults, variables, conversions, validation | start, rate limiter, worker, CORS | What does not parse becomes zero; which environments can start at all |
| Listings (`pkg/pagination`, the `List` of five repositories, handlers) | none of their own | files, search, folders, users, audit log, its export, inbox | the tables | COUNT and SELECT of a page are two queries, pages are counted by OFFSET, ties have no order |
| Audit log | `audit_logs` rows | append, list, export | every use case appends | Best-effort append |
| Rest: router, handlers, logging, validation, crypto, utils, cache, docs | none that operations share | parsing, formatting | | |

`PROJECT.json` lists the components with what is left out of each, and the hazards line by line.

## The modules

`Calls` is in every model the set of HTTP requests of a behaviour, each handled once;
`call[c]` is the local state of the goroutine that handles `c`, its `pc` the next database or
store call. A request that a crash or a lost connection cuts short is one that takes no further
step; as only safety is claimed except where fairness is named, every such prefix is checked.
Refused requests and failing *reads* change nothing and are left out unless a property looks at
the refusal. A failing *write* is in `Faults`: `failed` had no effect, `unacked` took effect but
reported an error.

| Module | Models | Correspondence |
|---|---|---|
| `FileStore` | the file use case over `files`, the object store and `storage_used` | `status`, `downloads` are the row, `objects` the keys with an object, `used` the quota column; `PutObject`, `CreateRow`, `Rollback`, `Charge` are the calls of Upload in order, and so on per operation; `SaveRow`, `SaveUser` are GORM's `Save`; `Crash` kills all running calls. A new file is named by the call that made it (fresh uuid and random key) |
| `FileCatalogue` | what the file service promises a client: files are published and withdrawn, each in one step, and never come back | implemented by `FileStore` under `served` = live row with an object, `withdrawn` = a Delete or rollback removed the object |
| `FileStoreLedger` | the properties of `FileStore` that add up sizes | |
| `FolderTree` | the folder use case on `folders` | parent, path and count of a row; `Correct`, `UpdateOldCount`, `UpdateNewCount` are the count updates after each write; `WriteMove` is the transaction of Move with the prefix `LIKE` and the `REPLACE` on paths |
| `Sessions` | the auth use case, the admin user handlers and the gate of the admin routes for one account | a token is the second it was issued in and the role (the JWT has no other varying claim); `row[t]` is its `refresh_tokens` row; `Rotate` and `StoreToken` are the two halves of a refresh; `RequireAdmin` is the gate; of the roles, those with and without access to the admin routes are told apart |
| `SessionLedger` | what the sessions of an account come down to: a session begins with a login and ends `Life` later, a valid token lets its bearer in, who may continue its session with one new token, and a revoked token lets nobody in again | implemented by `Sessions` under `ledger` = the token rows, `holds` = the token a refresh under way has presented (`Admitted`) |
| `Permissions` | Grant, GrantBulk, Revoke for one resource, and expiry | `perm` is the table; a revoked row keeps its contents as history |
| `ShareLinks` | Share, DownloadByShareToken, with deletion of the file and expiry | `call[c].uses` is the count a download has read; `UpdateShareLink` saves it plus one |
| `RateLimiter` | the middleware for one IP | `count` and `deadline` are the key and its time to live; `Incr`, `Expire` the two commands; `pipe[<<r, k>>]` is the sending number `k` of request `r`'s pipeline; `RedisError` is an answer that does not come, after which the client sends again or the handler lets the request through |
| `Notifications` | publishing, the event stream and the inbox | `stream[c]` is the stream call `c` opened: `sub` and `wire` its subscription at Redis, `buffer` the Go channel of go-redis, `writer` the goroutine of `SetBodyStreamWriter`, `got` what it wrote; `note[n]` is a row with who set `read_at`. An event is named by its call; `published` has every copy of it that Redis took, and messages are places in it. `Resend` and `GiveUp` are the client's further sendings and the logged error, `LoseConnection` the subscription made anew |
| `EventFeed` | what the event service promises a user: a feed shows the postings for the user while it listened, one after the other in their order, none twice; an event may be posted again up to `Sendings` times in all. It may stop listening without a word, and lose by that the last postings not shown yet and those made before it listens again; there and at its end only are gaps, and once over it shows nothing more | implemented by `Notifications` under `posted` = `published`, `shown` = what the writer of a stream wrote, `due` = the messages on its buffer and wire, `view` = whether the writer still runs |
| `Service` | `main()` from the settings to the last deferred call, the container's restarts, the listener, cron and the task worker | `proc` is the process: the place of `main` and its goroutines and clients; `call[w]` a request or a run of a cron job, `task[w]` what it put into Redis, which outlives the process; `Publish` is the goroutine that an answered upload or share leaves behind; `Signal`, `Kill`, `Outage`, `Restore` are the world. Asynq is external: leases, recovery and the worker's shutdown as its use here needs them |
| `Config` | `Load`: what the settings become | `env[s]` is a variable by its form (unset, blank, a word, a number, a duration, a list); `buildConfig` and `validate` keep their names |
| `Listings` | the seven listings and a client that follows the pages of one | `row` is the table, with the rows that match the filter and their two sort columns; `Count` and `Find` are the two queries, `Pages` every page PostgreSQL may return for an `ORDER BY` with ties; `Enter`, `Leave`, `Rename` what other requests do meanwhile |
| `*Proofs` | theorems about the module they extend | |
| `MC*` | instances for TLC: sets of model values, symmetries, workloads | |

Definitions whose comment begins with "Faulty variant" are what the code would be with a
plausible bug. No action uses them: each shows that a property can fail.

History variables (`after`, `before`, `during`, `path`, `root`, `generation`, ...) record who ran
when, so that properties can name overlap. No guard reads them.

## What the runs check

Deadlock is not checked anywhere: each request is handled once, so every model stops when all
are done, as the service is idle then (and `Service` when the container was stopped). The type
invariants are proved; of the runs only `service_all` checks one too.

| Run | Bounds | Shows |
|---|---|---|
| `files_all` | 3 calls of any kind, 3 in flight, 2 users (the second holds every grant), sizes 1 and 3 on a quota of 3, failing and unacknowledged writes, one crash | object and row agree but for calls that stopped between them (`LiveRowHasObject`, `NoOrphanObject`); acknowledged files stay (`AcknowledgedFileIsServed`); refunds happen once (`SecondRefundNeedsSave`); `storage_used` is the sum of the files but for six listed ways to drift (`UsedMatchesFiles`) and, until a profile update saves a stale row of the user, exceeds the quota by at most what runs at the same time (`OvershootBounded`); only a stale `Save` undoes a write (`OnlySaveUndoes`); and `FileStore` implements `FileCatalogue` (`ImplementsCatalogue`) |
| `rate_window` | 3 requests, limit 2, window of 2 ticks, each pipeline sent up to 3 times, 2 answers that do not come | at most the limit is admitted in any window, across expiry of the key (`WindowBound`); a client that was quiet for a window is admitted, unless the Redis client counted its one request more often than the limit (`QuietClientIsAdmitted`) |
| `sessions_all` | 4 calls, about tokens over 4 seconds, about the account too in 2, or about its role | sessions end (`SessionBounded`), rotated and revoked tokens stay dead (`RotatedTokenIsDead`, `RevocationIsFinal`), what LogoutAll and ChangePassword close (`RevokeAllClosesSessions`), what can lift a ban (`BanHolds`), when a demoted admin has lost the admin routes (`DemotionHolds`); and `Sessions` implements `SessionLedger` (`ImplementsLedger`) |
| `folders_tree` | 3 calls on every forest of up to 3 folders; with 3 folders at most 2 Moves and no failing writes | subfolder counts match but for calls that clash on one folder (`CountsMatch`), an acknowledged Move holds (`MoveHolds`), cycles need a bad or overlapping Move (`CycleNeedsBadMove`) |
| `folders_walk` | 2 calls, up to 3 folders, fairness | every breadcrumb is answered unless folders form a cycle (`BreadcrumbEnds`) |
| `folders_paths` (violation) | 1 Move | paths of descendants are left wrong by a Move |
| `share_uses` | 4 calls, 2 links, limits 1 and 2, failing writes | the count never passes the limit (`LimitKept`) and misses uses only when downloads overlap or saves fail (`UsesCounted`) |
| `permissions_table` | 3 calls, 3 users, every table of up to 3 rows | grants descend from managers or the owner (`GrantsDescend`), a row is revoked once (`RevokedOnce`), a resource without a manager stays so for ever (`SealedForever`) |
| `notifications_all` | 3 calls, of events and streams or of the inbox, 2 users, 2 notifications, a Go channel of 1 message, each event sent up to twice, lost connections, failing calls, fairness | a stream shows events of its own user, in Redis's order and each no more often than it was sent (`OwnEventsInOrder`), what it took before the handler closed the subscription is still written (`TakenIsWritten`), one call wins a notification (`OneWinner`), a stream leaves no goroutine behind (`StreamEnds`), and `Notifications` implements `EventFeed` (`ImplementsFeed`) |
| `notifications_lasts` (violation) | the same | a stream ends although its client is connected and the server runs |
| `service_all` | 1 request, 1 cron job, 6 environments, 2 signals, kills, outages or taken ports, fairness | an orderly stop answers what it accepted (`StopAnswersRequests`), no handler or job meets a client closed under it, although the publishers that answered requests left behind may, and lose their event (`OpenWhileNeeded`), a task runs again only when something hit it (`RunsOnce`), each with its exceptions; the server comes back (`ServesAgain`), a stop ends (`StopEnds`), queued tasks are handled (`TasksHandled`) |
| `listings_walk` | 3 rows, 3 changes, page sizes up to 2, a single page of 2 | a client that follows the pages misses a row that was there all the time (`MissedOnlyByShift`), or sees one twice (`RepeatedOnlyByShift`), only for the named reasons |

Why the bounds are enough: the hazards are races of two calls around a third one that set the
stage (a Delete and a Save of one uploaded file, two Deletes of it, two Moves of three folders,
a login and a refresh against a revocation and its next use), so three or four calls reach each
of them; every passing run's properties were seen to fail when the matching line of the model
is replaced by its faulty variant. The quota, sizes and `MaxInFlight` of `files_all` are chosen
so that the bound of `OvershootBounded` is met exactly; that it is lifted by a stale `Save` takes six calls,
more than this run has, and came out of the proof (see below). The workload constraints of `MCSessions`,
`MCFolderTree` and `MCNotifications` only cut the product of dimensions that do not meet (late clocks with
profile edits, roles with the other operations, failing writes in the largest forests, streams with the inbox). Symmetry is used for
invariants and action properties only, never in the liveness runs.

One request and one cron job are enough for `Service`, as tasks and requests do not interact with each
other but with the process; two upsets let an outage or a kill hit the recovery from another, or a stop.
The environments are that of `.env.example`, four of its lines changed or left empty, and one with the
required variables only. The three rows of `Listings` give two pages and a boundary that rows can cross in
both directions; `MaxChanges` lets every row move once. `Offset` and `TotalPages` are the
code's arithmetic without a width: `page` is bounded by the rows here, far from overflow.

The Redis client sends a pipeline or event up to three more times. In `rate_window` two more are enough for
one request to count three times, above the limit of 2; one event sent twice in `notifications_all` meets a copy of itself
and other events on the way. `MaxErrors` bounds answers that do not come over all requests of a behaviour;
`Notifications` needs no such bound. Where a behaviour has streams and events, the first call is a stream of
alice and the third is not a stream, which loses nothing: calls and users have no other difference.

The Go channel of a subscription holds 100 messages; with a capacity of 1 and two events it is full,
and the publisher's message waits on the connection, which is all that its size decides.

Fairness: three specifications have some, always weak. `FolderTree!FairSpec` and
`Notifications!FairSpec` assume it of `Continue(c)`, for a started goroutine is scheduled again and
the database and Redis answer it, with a result or an error. `Notifications!FairSpec` assumes it also of the
goroutine that closes the Go channel and of the stream writer, which is a goroutine with a ticker of 30
seconds. `Service!FairSpec` assumes it of the goroutines (requests, jobs, worker, listener, `main` with its
timeouts), of the container runtime, which restarts the process (`restart: unless-stopped`), and of the
end of each outage. Clients are never obliged to send a request or to leave, nobody has to shut the server
down, and Redis does not have to take a command, to deliver or to keep a connection, so `Request`, `Disconnect`,
`Shutdown`, `RedisSubscribe`, `Receive`, `LoseConnection`, copies of an event sent before and given up,
`Accept`, `Fire`, `Signal`, `Kill`, `Outage` and `Lapse` have none.

## What is proved

TLAPS checks the following for every value of the constants that satisfies the module's
`ASSUME`: any number of calls, users, files, rows, links, ticks, further sendings, any quota, any fault model.

An update of several fields of one element is written as an EXCEPT within an EXCEPT throughout: tlapm 1.4.5 translates
several paths that begin with the same index, in one EXCEPT, to hypotheses that contradict each other, from which
anything follows.

- **`FileStoreProofs`**: `TypeOK`; `FileStoreInv`; from it `LiveRowHasObject`, `NoOrphanObject`,
  `AcknowledgedFileIsServed`, `SecondRefundNeedsSave`, `OnlySaveUndoes`, and
  `Spec => ImplementsCatalogue`. The three file invariants are not inductive: that a row has an
  object depends on where its creating call is and on which Deletes got how far. `CreationInv`
  says how `pc` of the creating call, row and object go together, `WorkInv` what a call that
  resolved a file may still rely on. The proof has a lemma per action; a lemma of effect
  (`GotoEffect`, `ReplyEffect`, `EndEffect`, `Monotone`) says once what a program-counter change can disturb.
  The refinement maps each step to a publication, a withdrawal or a stutter.
- **`RateLimiterProofs`**: `TypeOK`, `RateInv`, `WindowBound`. The invariant is about sendings, not requests, of which
  each may have several, counted late or given up. It says that INCR results of one key are distinct, and that by
  the time a key has expired every admitted request that ran its EXPIRE in time has left the window; so those in
  a window are of one key, with distinct results of at most `Max`.
- **`LinksAndListingsProofs`**: two components that share no variable. Of `ShareLinks`: `TypeOK`, `LimitInv`, `LimitKept`. A save
  writes an old count plus one, so `LimitKept` needs that every download in progress holds a count below the
  limit its link still has (`ReadBelowLimit`). Of `Listings`, whose names begin with `Walk` for that reason:
  `ListingsInv`, `MissedOnlyByShift`, `RepeatedOnlyByShift`. A page is a window of positions in an order that ties leave
  open, so a row is located by the number of rows before it whatever the order (`Rank`, `PageHasRank`). Unless a named
  reason holds, a row not shown yet ranks behind the pages shown so far (`UnseenComesLater`) and has room in what
  COUNT found (`CountHasRoom`, `AnotherPage`), and a row shown ranks among them (`SeenComesEarlier`).
- **`PermissionsProofs`**: `TypeOK`, `PermInv`, `GrantsDescend`, `RevokedOnce`, `SealedForever`.
  The invariant keeps, for every checked grant in progress, a row that made its caller a manager, and for
  every acknowledged revocation that its row is gone; `SealedForever` needs `TypeOK` only.

- **`NotificationsProofs`**: `TypeOK`, `NotificationsInv`, `OwnEventsInOrder`, `OneWinner`. The messages of a
  stream, from the client to the wire (`Line`), stay as they are, lose one, lose their end or gain the one just
  taken by Redis (`LineStep`), so the invariant adds that all of them are places of messages taken before now (`LineInv`):
  the next is the latest. That an event is in a line no more often than it was sent is counted at Redis: `LineInv` says
  so of the copies there (`Copies`), and as a line never holds one place twice, the copies in it (`Shown`) map into
  those. For `OneWinner`, `CallInv` keeps what every step of a call may rely on, and that a row
  whose Delete was acknowledged is gone; that a row stays gone and that `read_at` is set once is `NoteKept`.
  And `Spec => ImplementsFeed`: Publish is a post to every stream subscribed then, OpenStream opens a feed, RedisSubscribe makes
  it listen, LoseConnection makes it stop, WriteEvent shows the first posting due or ends the feed, CloseSubscription closes
  it for new ones and leaves those already taken due, every other end of the writer ends the feed, and the rest, with
  every further sending, are stutters. That the writer shows the earliest posting due, and that CloseSubscription and
  LoseConnection lose only the latest, comes from `OwnEventsInOrder` (`DueInOrder`).

- **`SessionsProofs`**: `SessionsInv`, and from it `TypeOK`, `SessionBounded`, `RotatedTokenIsDead`,
  `RevokeAllClosesSessions`, `BanHolds`, `DemotionHolds` and `RevocationIsFinal`. The invariant says what each place
  in a call knows (`InOrder`), that every row expires `RowTTL` after the login it goes back to (`RowsBounded`), that
  what an admin saved is in the users row, and in every copy of it that a call has read since, until another admin or a
  Save that was running undoes it (`UpdatesKept`), and that an admin's token made after a demotion is due to such a
  Save or to a login or refresh that was running (`TokensExplained`). One lemma of effects
  (`Effect`) says what a step of a call may do to its call, the rows, the user and the tokens; the parts of the invariant
  are proved from it and not from the actions. And `Spec => ImplementsLedger`: Refresh presents a token, Rotate, Logout and
  RevokeAll revoke one or all, StoreToken is the login or the renewal, a refresh that fails gives its token up, the
  rest are stutters. That a renewal continues the session with the same end, although it writes from a copy read
  four steps earlier, needs that this copy is still the row but for a revocation (`CopiesFaithful`), and that the new token is
  not from the future needs `TokensExplained`.
- **`FolderTreeProofs`**: `FolderInv`, `TypeOK`, `CountsMatch`, `MoveHolds`, `CycleNeedsBadMove`. That folders are a forest is
  carried as acyclicity of the parents (`Above`); a Move that is not bad keeps it, by an argument with ranks. What
  `Above` and the `REPLACE` on paths (`Replaced`) compute for every input is proved by taking a least
  counterexample, as the natural numbers are well-founded. `CountsMatch` balances the stored count, the children
  in the rows and the corrections still due (`ToRaise`, `ToLower`), and needs that without a clash every
  copy a call holds is still what the row says (`CopiesFresh`).
- **`ServiceProofs`**: `ServiceInv`, `TypeOK`, `StopAnswersRequests`, `OpenWhileNeeded`, `RunsOnce`. The invariant lists what runs
  and what is open at each place of `main()` (`InPlace`), which calls may still be in flight there
  (`InTime`: only those that came late or outlived what was to wait for them), and that a task that ran is done, held by
  the running worker, or was hit (`HitOrHeld`). `OpenWhileNeeded` is about handlers and jobs, which the stop waits for. A
  publisher has its request's answer behind it and is waited for by nobody, so it may meet the closed client even in an
  orderly stop; a run that forbids it finds such a stop after one signal, so the property leaves it out by name.

More invariants of the modules above, each with an inductive invariant of its own:

- `OvershootBounded` (`OvershootIsBounded`). Of the calls that passed the check and have not charged yet,
  count the one that was checked last with its own size and every other with the largest size: then the sum with
  `storage_used` stays in the bound (`Fits`). It uses that the server limits the size of a body (`router.go:70`).
  The bound as first stated had no exception and is false. Two uploads pass the check together and fill
  twice the quota; a profile update reads the users row; two Deletes refund both; a third upload passes the check; the
  update saves its old row, and with it `storage_used`; the upload charges. More rounds of that lift it further, so
  the property now excepts users whose row was saved.
- `UsedMatchesFiles` (`StorageAddsUp`). `storage_used` is at all times the charges minus the refunds, in any
  order (a Delete may refund before the Upload charges), unless an update was cut off, reported an error, or a row of the user was
  saved (`LedgerInv`). When nothing has drifted, refunds and deleted files correspond one to one, because of
  `SecondRefundNeedsSave`, so the listed files are what is left. The sum is the community modules'
  fold; that it does not depend on the order of the elements is proved first (`SummedExists` to `SumImage`).
- `QuietClientIsAdmitted` (`QuietAreAdmitted`): a key is there because of a sending whose EXPIRE is less than a window
  ago or is still due (`KeyOwed`). So unless another request disturbed it, the key holds no more than the request's own
  sendings (`OwnKey`, by induction over them). The property as first stated had no exception for those, and is
  false for a limit of up to 3: one request that the Redis client sends again counts several times and limits itself.
- `UsesCounted` (`CountMissesOverlapsOnly`): a count in a row or in the hands of a download misses only downloads that
  overlapped (`CountInv`).
- `TakenIsWritten` (`TakenAreWritten`): when the writer ends for no other reason, it found the Go channel closed and empty
  (`DeliveryInv`).
- `ImplementsFeed` (`FeedImplemented`) also uses that a call has no subscription before it opened a stream, and has one
  that is not closed until its handler closes it (`FeedInv`).

The invariants named in the proofs were checked by TLC on the instances of the runs before they were proved.

What stays with TLC: liveness (`StreamEnds`, `BreadcrumbEnds`,
`ServesAgain`, `StopEnds`, `TasksHandled`) and ENABLED, which are beyond the prover.

## Where the code and its documents disagree

Two disagreements have a run that shows them (the violation runs above; `PROJECT.json` quotes the
lines). Others met on the way, which the models contain but no run is spent on:

- `auth_usecase_impl.go:130` says "Rotate: revoke old token", but two refreshes of one token that overlap both pass
  the check before either revokes it, and both get a new session (`RotatedTokenIsDead` says that no
  later one does).
- GetBreadcrumb returns the chain "from root to folderID" (`folder_usecase.go:28`), but Move accepts the
  folder itself or a descendant as the new parent, and then it follows parents for ever
  (`BreadcrumbEnds` has that exception). GetTree of such a folder gives the JSON encoder a cyclic structure.
- A Delete between the row insert and the charge of an Upload makes `storage_used` negative for a while,
  which `chk_users_storage_used` (`migrations/001_init.sql:94`) would refuse if it were in force.
- Overlapping downloads with one share link read the same count, so more are answered than `max_uses`
  (`file_usecase_impl.go:783`), although the saved count keeps the limit.
- The limiter is called a sliding window (`ratelimit.go:15`), but every request, rejected ones
  included, renews the one counter, so a client that never pauses stays limited.
- `CompleteChunkUpload` makes a row without an object: the adapter's multipart calls do nothing,
  and the use case does not assemble chunks as `cmd/api/adapters.go:45` says.
- `Register` returns a refresh token that has no row, so it cannot be used; a login with the old password
  that overlaps ChangePassword outlives it, although the code means to end all sessions.
- Folder `Delete` is documented as recursive (`folder_usecase.go:16`) and deletes one row;
  GetTree without a folder shows one root only (`folder_usecase_impl.go:394`).
- Revoke is open to the granter of a row (`permission_usecase_impl.go:114` names owners and
  managers only); `share` does not let a user grant (`README.md:551`); the same
  permission can be granted twice (`migrations/001_init.sql:310` forbids it).
- "Ban/unban", "Toggle user ban status" (`admin_handler.go:207`) only bans; CreateUser of the admin stores no
  password hash, so nobody can log in to that account.
- The keys of `.env` are flat and the program asks viper for dotted ones, so the file that `config.go:119` and
  `README.md:562` name sets nothing by itself; only variables that docker or make export count. A number that does
  not parse is 0: `RATE_LIMIT_MAX=abc` refuses every request.
- The default of `CORS_ALLOWED_ORIGINS` is `*`, with which the CORS middleware panics because credentials are
  allowed (`router.go:97`): without that variable the server cannot start.
- Tasks go to the queue `default` (`adapters.go:64`), whatever `WORKER_QUEUE_DEFAULT` says; under another name
  the worker never sees them. The tasks of `README.md:508` have other names than those of the code, and the
  handlers only log.
- When the port is taken, `app.Listen` fails in its goroutine, the error is logged and the process
  stays, without a listener. The drain waits 30 seconds (`main.go:205`), longer than `docker stop` does by default.
- Folder List and file Search document `page` and `page_size` (`folder_handler.go:56`, `file_handler.go:489`) and always
  send the first 50 or 100; "Export audit logs" (`audit_handler.go:125`) sends the newest 10,000.
- Permissions are not inherited from parent folders (`README.md:554`), soft-deleted files are never purged
  (`README.md:526`), and the variable is `RATE_LIMIT_EXPIRY`, not `RATE_LIMIT_WINDOW` (`README.md:230`).

## What is not modelled

- Reads of the inbox (list, count) and the payload of events. A heartbeat matters only as a failing write.
- What a task does: all handlers are stubs that log, which is part of `FileStore` (a chunked file stays
  `processing`) and of `Service` (a task has no effect but its end).
- Appending to the audit log: rows are written by goroutines whose errors are only logged, and nothing is decided from them.
- GetTree: one query and a pure function of its rows, which hangs each folder under its parent and ends whatever
  Move did. Statistics: counts of a moment.
- File versions: no code path inserts one, so RestoreVersion always answers not found.
- AdminUseCase and the Redis cache: constructed by nothing, or used by nothing.
- Handlers, validation, JWT signatures, password hashing, wording and headers. Passwords of share
  links are stored and never checked.
- Losses in the stores themselves. Redis is taken to keep what it acknowledged: `docker-compose.yml` has it write its
  log once a second (`appendfsync everysec`) and evict keys when its memory is full (`allkeys-lru`), so a crash
  of Redis may forget a second of tasks and acknowledgements, and an eviction a limiter's key or the queue. That asynq gives a task up when it was lost too often (each lost lease counts as a retry) is left out too, so
  `TasksHandled` holds for tasks with retries left.
- What completing a chunked upload promises: its row never gets an object, and the properties of files name these
  rows as an exception (`AcknowledgedFileIsServed` and `LiveRowHasObject`), see above.
- Access: `FileStore` fixes the granted actions for a behaviour; `FolderTree` and `ShareLinks` take
  the check as passed. Its races are those of a check made before the work, in `Permissions`.

## Plan

Done, with proofs: `FileStore` with its catalogue and ledger, `RateLimiter`, `ShareLinks`, `Permissions`,
`Notifications` with its feed, `Sessions` with roles and its ledger, `FolderTree`, `Service`, `Listings`. Done,
model-checked only: `Config`, within the run of `Service`.

Left: access composed with the rest, that is grants of `Permissions` that change under the calls of `FileStore`, instead
of a fixed set.
