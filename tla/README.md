# TLA+ models of hongik-backend

hongik-backend is the HTTP back end of the Hongik language site: users keep code
snippets, share code through links, and log in. This directory models the parts
where the program's own logic meets concurrency, time and failures: the snippet
operations of the three stores (PostgreSQL, the Redis cache in front of it, the
in-memory map), shares, accounts, the rate limiter, schema migrations, and the start
and shutdown of the process. The models are checked with TLC, and their safety
properties are proved with TLAPS.

## 1. Inventory

| Component (source) | State | Operations | Talks to |
|---|---|---|---|
| Snippet handlers (`api/handlers/snippets.go`, `api/routes.go`) | none | list, search, get (public); create, update, delete, fork (JWT) | `Store` |
| `Store` interface (`service/store.go:26-47`) | - | what every store owes the handlers | - |
| `InMemoryStore` (`service/store.go`) | maps of snippets, shares, users, one `sync.RWMutex`, a clean-up goroutine | every `Store` operation under the lock | - |
| `PostgresStore` (`service/postgres_store.go`) | tables, a pool of 25 connections, a clean-up goroutine | one to two SQL statements per operation, no transactions | PostgreSQL |
| `CachedStore`, `Cache` (`service/cached_store.go`, `cache.go`) | Redis keys with a TTL | read-through, invalidation after a write | an inner `Store`, Redis |
| Shares (all three stores, `handlers/share.go`) | tokens with 24 h of life | create, get, hourly clean-up | |
| Accounts (`handlers/auth.go`, `middleware/auth.go`) | users, JWTs of 24 h | register, log in, check a token | `Store` |
| Rate limiter (`middleware/ratelimit.go`) | a token bucket per address | allow, evict idle buckets | |
| Process (`main.go`, `config`) | server, pool, cache, goroutines | start, signal, shutdown within 10 s, close | all |
| Migrations (`service/migrate.go`, `cmd/migrate`) | schema version, dirty flag | `up` at the start of every replica; up, down, force, version by hand | PostgreSQL |
| Body limit, semaphore, logger, health, metadata | a semaphore nobody mounts any more | | |

A request runs in a goroutine of its own: handler, then `CachedStore` (if Redis is
configured), then `PostgresStore` or `InMemoryStore`. Replicas share the database
and Redis and nothing else. There are no retries, no transactions and no message
queues; errors of a statement or of a Redis command are logged or dropped, and
turned into an ordinary answer (404, 403, an empty list, even 201).

Hard behaviours, and what makes each component correct:

* **PostgresStore.** Ownership is checked on a row read by an earlier statement.
  Correct means: a write is allowed to its user *when it takes place*, a deleted
  snippet stays deleted, every answer is explained by what the snippet was while
  the request ran.
* **CachedStore.** Reads fill and writes empty the same keys, without any order
  between them; commands get lost; a replica stops between the database write and
  the invalidation. Correct means: what is wrong in the cache is removed by its
  writer when nothing fails, and does not live longer than the TTL otherwise.
* **InMemoryStore.** Lock modes, mutual exclusion, nobody waits for ever.
* **Shares.** Three clocks look at one expiry time: the reader, the clean-up and the
  TTL of a cached copy that does not know it. Correct means: a link works until it
  expires and not much longer.
* **Accounts.** `CreateUser` looks and inserts in two statements. Correct means: one
  user per name, a token only for a user that is there, and every answer has its
  reason at one moment.
* **Rate limiter.** A bucket is used after the mutex is released, and clean-up drops
  buckets. Correct means: nobody can tell that any bucket was ever dropped.
* **Migrations and process.** Replicas with different binaries start together, beside
  an operator; signals and failures come at any time. Correct means: a clean version
  says what has been applied, handlers find their schema, nothing is closed under a
  handler that may still finish, and start and stop come to an end.

`PROJECT.json` lists every hazard at its line with the properties that cover it.

## 2. Modules

| Module | What it is |
|---|---|
| `Snippets` | vocabulary: rows, tables, requests, answers, who may write |
| `SnippetContract` | abstract specification of the snippet part of `Store` |
| `PostgresStore` | the operations of `postgres_store.go`, one action per SQL statement |
| `PostgresReplies` | `PostgresStore` with a history variable, and the refinement mapping to `SnippetContract` |
| `CachedStore` | `cached_store.go` and `cache.go` over `PostgresStore`, one action per Redis command |
| `CachedReplies` | `CachedStore` with the history of each snippet: what clients are shown; also the inner store's refinement of `SnippetContract` |
| `Pages` | page arithmetic of the listings in ints that wrap around: `parsePagination`, start and end of a page |
| `MemoryStore` | the operations of `InMemoryStore` with its `RWMutex`, and its mapping to `SnippetContract` |
| `TokenBucket` | abstract specification of the rate limiter: one everlasting bucket per address |
| `RateLimiter` | `middleware/ratelimit.go`, and its refinement of `TokenBucket` |
| `Shares` | shares in the three stores, with expiry, clean-up and cached copies |
| `Registry` | abstract specification of registration and login, each in one step |
| `Accounts` | `handlers/auth.go` with the user operations of both stores, and its refinement of `Registry` |
| `Migrations` | `service/migrate.go` and `cmd/migrate`: sessions that take the schema from version to version |
| `Lifecycle` | `main.go` for several replicas, over `Migrations` |
| `MCPostgres`, `MCCached`, `MCCachedReplies`, `MCMemory`, `MCRateLimiter`, `MCShares`, `MCAccounts`, `MCLifecycle` | instances for TLC |
| `PostgresStore_proofs`, `PostgresReplies_proofs`, `CachedStore_proofs`, `MemoryStore_proofs`, `RateLimiter_proofs`, `Shares_proofs`, `Accounts_proofs`, `Lifecycle_proofs` | theorems |

How they compose: `Snippets` gives its vocabulary to the stores and the contract;
`CachedStore` extends `PostgresStore` and runs its statements as the inner store, and
`CachedReplies` extends both it and `PostgresReplies`; `MemoryStore` extends `Pages`;
`Lifecycle` extends `Migrations`, whose sessions are the replicas and the operators.
`RateLimiter`, `Shares` and `Accounts` share no state with the others: a request of
theirs touches rows and keys of its own, and the limiter ends before the handler
begins.

### Abstractions of the snippet modules

* Title, code, description and the timestamps are written together by every write,
  so a snippet is an owner and one opaque text. `ForkSnippet` appends a suffix to
  the title; that a fork's text is a copy of the original's is what the model keeps.
* An owner of `None` is the empty `UserID`: seeded snippets, and snippets whose user
  was deleted (`ON DELETE SET NULL`). Anyone may write these; the code says so.
* A listing is the total and the rows of the page. The page modelled holds every
  match (offset 0, limit at least the total), and the search modelled matches every
  snippet. Order and search terms are left out: `list` and `search` stand for the two
  families of cache keys. How a listing is cut into pages is in `Pages`, where a match is
  its place, from 0, in the order that one request has made of them.
* Requests are those the routes let through: writes carry a user, reads do not.
  400 and 401 answers end before the store and are not modelled.
* `failed` in an answer is not visible to the client. It records that a database
  error lies behind it, so that properties can tell such an answer apart.
* Ids are finite, so an insert begins only while an id is left for it (`IdLeft`);
  `used` remembers the ids drawn, as `uuid.New()` does not draw one twice.

### PostgresStore

`pc[p]` is the next statement of handler `p`: `count` and `select` for the two
statements of a listing, `query` for the SELECT by id that get, update, delete and
fork begin with, `exec` for INSERT, UPDATE or DELETE, `reply` when the operation has
returned. `snap[p]` is the row the SELECT returned (local variables `sn`,
`original`), `count[p]` the total. A statement is atomic (each runs in autocommit);
between two statements any other handler of any replica runs. `QueryFails`,
`CountFails`, `SelectFails`, `InsertFails`, `OwnedWriteFails` are the error branches:
a write that reports an error may have been applied, a page may have been read in
part (`rows.Err()` is not asked). `Crash` stops a request between statements.

### CachedStore

`at[p]` says where a request is: with the inner store (`inner`), or at a Redis
command (`hit`, `scan`, `unlink`); SET and DEL take place when the inner store has
replied. `key[p]` is the key or prefix the command is for. An entry has a value,
`left` ticks before Redis drops it, and two history fields: `age`, for how many
ticks (counted up to `TTL + MaxLag`, the value no entry reaches) the value has
differed from the table, and `clean`, whether it agreed when it
was stored. `Tick` is time. A GET that fails or times out is a miss, so `Read` may
be taken whatever Redis holds.

`CachedReplies` adds `ago[id][row]`, how many ticks ago snippet `id` last was `row` (counted up
to `TTL + MaxLag`, which also stands for never). `Tick` makes every past row a tick older,
the present one is 0 ticks ago. It restricts nothing, and `seen` is that of
`PostgresReplies`.

### MemoryStore

`readers`, `writer` and the steps `lock`, `wait`, `drain`, `unlock` are
`sync.RWMutex` as its documentation describes it: a writer first keeps out other
writers and new readers, then waits for the present ones; when it unlocks, the
readers that wait get in. The lookup and the store of an operation are separate
steps, so exclusion is a result of the lock modes the operations ask for.

### Pages

`Page` and `Limit` are what `parsePagination` makes of the query, `First` and `End` the start
and end that the stores compute (`store.go:164-171` and `:196-203`; `postgres_store.go:114`
leaves the end to LIMIT), `Wrap` is Go's int. `OutOfRange` is the panic of the slice
expression, which `gin.Recovery` answers with 500 and which leaves no lock behind
(`defer`). A number larger than an int is an error of `Atoi`, and keeps the default.

A place is a place in the order of one request. `store.go:161-166` sorts the values of a map,
which come in random order, by `CreatedAt` only and with `sort.Slice`, which is not stable, so two
requests may order snippets of the same instant differently. Nothing is said of pages
of different requests beyond that they are pages of their own orders.

### SnippetContract

A request may have one effect at one moment (`Insert`, `Overwrite`, `Remove`, or
none), which its user is allowed then, and gets an answer explained by `seen`, the
values its key has had since the call: 404 only if the snippet was missing at some
moment, 403 only if it belonged to someone else at some moment, 200 with a row that
was there, and so on. A listing's total and its page may come from two different
moments. Only an answer with `failed` is free of this.

### RateLimiter

`clients[a]` is the bucket of an address, `level[b]` the tokens it has now; the
library computes them from the time of its last use, which comes to the same.
Times are ages: `idle[a]` ticks since `lastSeen`, `due` ticks until the next clean-up,
`delay[p]` ticks since a handler's `getLimiter`. `GetLimiter` is the part under the mutex
and `Allow` the part after it. A bucket that the map and the handlers have let go of
is garbage and may be made again, so finitely many do. `granted` and `elapsed` count
what passes in a window that opens at any time. The assumption on the constants,
`Rate * (Idle + 1 - MaxDelay) >= Burst`, is what makes eviction harmless: with the values
of `main.go` and `ratelimit.go` it holds unless a handler waits 541 seconds between
`getLimiter` and `Allow`.

### Shares

`table[t]` is the expiry time of a stored share, `entry[t]` what its cached copy has
left to live; `now` is the clock in the unit of the code (seconds of Unix time), the
same for all replicas, and past 0, which as an expiry time means "never". A copy that
was SET with a TTL of 0 or less stays. The steps of `GetShare` are those of `CachedStore` around those
of `PostgresStore`: GET, SELECT, the comparison of the times, SET. `Sweep` reads the
clock for the DELETE, `Delete` executes it. The same steps stand for `InMemoryStore`,
which takes them under its lock and so does a part of this; errors are PostgreSQL's
only and `Restart`, which empties the store and leaves Redis alone, is the
in-memory store's only. `told` remembers what was given out, `doubt` whose INSERT
reported an error (`CreateShare` drops it) or who was lost in a restart.

### Accounts

`pc[p]` is the next statement or bcrypt call of a registration (`count`, `hash`,
`insert`) or login (`select`, `compare`); `locked` is all of it for the in-memory store,
which runs it under the lock. The COUNT proves nothing about the INSERT; the UNIQUE
constraint of the first migration does, and answers 500. `free` remembers which requests
began when nobody had their name: only these may be answered 500 without an error,
for a name that another registration took meanwhile or for a password bcrypt
refuses; a name that was taken before is a 409. A password is a model value
and `Head` says what the first 72 bytes of each are: bcrypt refuses to hash more, and
compares no more. `tokens` holds the ids that tokens name, which outlive everything.

### Migrations and Lifecycle

A session (a replica at its start, or an operator's command) connects, waits for the
advisory lock, reads the version and, for each migration, marks the version dirty,
runs the file and marks it clean. It can break off between any two of these. `Connect`
waits for the lock without a limit (`WithInstance` makes the version table under it),
`Acquire` up to 15 seconds (`GiveUp`). `applied` is the set of migrations whose SQL is in
effect; `Latest[s]` is the newest that the binary of `s` has. `version = 0` stands for the
empty version table. A file going up needs what the earlier ones made (`Builds`: 000002
indexes a table of 000001) and fails without it; one going down takes what builds on it
along (`RunDown`). Files go up and down `IF (NOT) EXISTS`, so one may run twice.

`force` takes one of the versions there are, or none. `byHand` remembers what operators
did to the promise of the version: `down`, and whether a `force` has ever written a
version that claims too much (`overclaim`: a migration up to it is not applied) or too
little (`underclaim`).

`main[r]` is where `func main` is, in the order of `main.go`: `ping`, `migrate`, `serve`,
`shutdown`, `cache`, `cancel` (first line of `Close`), `wait` (`wg.Wait`), `return`. `signal` is the
cancelled root context; `stopSignals` cancels it as well. `busy` are the handlers at
work, `cleaner` is the clean-up goroutine, `pool` the connection pool. `Kill` stops a
process anywhere and takes its session and connections along. Handlers do not end
by themselves and pay no attention to contexts, as no snippet, share or user
operation of a store does.

## 3. Runs

| Run | Instance | Checks |
|---|---|---|
| `postgres` | 2 handlers, 2 users, 2 ids, 2 texts, 1 failure | `ObsTypeInv`, `SnapshotInv`, `OnlyOwnerWrites`, `GoneForGood`, `HonoursContract` |
| `memory` | 3 handlers, 2 users, 2 ids, 1 text, ints to 15, limits to 4 | `MemoryTypeOK`, `WritesAlone`, `NobodyStuck`, `PagesExact`, `HonoursContract` |
| `memory_live` | 3 handlers, 1 user, 1 id, 1 text | `EveryCallReturns` |
| `cached` | 2 handlers, 1 user, 1 id, 2 texts, TTL 2, MaxLag 1, 1 failure | `CacheTypeOK`, `BoundedStaleness`, `StalenessInv`, `InvalidationCovers` |
| `cached_live` | 2 handlers, 1 user, 1 id, 1 text, TTL 1, MaxLag 1, 1 failure | `ShownRecently`, `EventuallyFresh` |
| `shares` | 2 handlers, 2 tokens, life 3, TTL 2, MaxLag 1, clock from 1 to 7, 1 fault | `SharesTypeOK`, `CopiesExpire`, `FoundUntilExpiry`, `ServedInTime` |
| `accounts` | 3 handlers, 3 ids, 2 names, 3 passwords, 2 faults | `AccountsTypeOK`, `OneUserPerName`, `TokensNameUsers`, `HonoursRegistry` |
| `rate` | 2 handlers, 2 addresses, 3 buckets, burst 3, rate 1, idle 4, period 2, delay 2, window 4 | `LimiterTypeOK`, `FairShare`, `EntriesExpire`, `HonoursBuckets` |
| `lifecycle` | 1 server with migration 1, 1 operator with migrations 1 and 2, 1 handler, 2 starts, 3 faults | `LifecycleTypeOK`, `CleanMeansComplete`, `DirtyLacksOne`, `WholeSchemaServed`, `OpenWhileBusy`, `SweepsOpenPool`, `StopsWhenTold`, `StartEnds` |
| `created_is_stored`, `zero_ttl`, `deleted_not_served` | as above | violated: section 6 |

Why the bounds are enough for the questions asked: the races between snippet
requests are between two requests on one snippet, so two handlers and one id meet
all of them, and a second id lets inserts succeed while the first snippet exists.
Two users make an owner and a stranger, two texts make an update visible. One
failure is enough to lose any single command or statement at any place; the theorems
hold for any number. Three handlers are needed for the lock, so that two can keep it
busy while one waits. A TTL of 2 tells an entry's first tick from its last. Every table
is an initial state of the runs over PostgreSQL, because the database outlives the
back end. For pages, clients write every number from -2 to 18: below, at and above what is
an int, with products that come out negative (16 to 31, and 48 to 56) and products that
come out as the start of another page (32 to 47); two stored snippets have a page that is full, one that
is partial and one that begins where they end. `cached_live` has one text, so what a client may
be shown too late there is a deleted snippet or one that never was; a replaced text is left to
the theorem `ShownRecentlySafe` (two texts do not fit the time of a run). `cached` has one id, so creates succeed
there and forks do not; that forks invalidate what they change is part of the theorem
`InvalidationSafe`, which holds for every number of ids.

For shares, twice the life on the clock lets a share expire, be swept, be served from a
copy and vanish from the cache, with a second one beside it. For accounts, three
registrations of one name race, a login meets them, and one of the passwords is longer
than 72 bytes and begins with another. For the limiter, three buckets are one for
each address and one that was dropped before it; the numbers meet
the assumption with nothing to spare (1 * (4 + 1 - 2) = 3), which is where eviction is
closest to giving tokens back. For the life of the process, one server and one operator
who is a migration ahead have every conflict over the lock and the version that two
sessions can have, from both sides of a rollout; two starts show a restart after any
fault, and three faults a failed migration, a `force` and a kill in one history,
or a `force` in each direction around a failure. More
replicas, handlers and migrations are covered by the theorems.

Bounds, by name: `MaxFaults` (failures, kills and operators' commands in a behaviour),
`MaxBoots` (starts), `TTL` (`CACHE_TTL_DATA` in ticks), `MaxLag` and `MaxDelay` (below), `MaxTime`
(the clock), `MaxWindow` (length of a counting window), `IdLeft` (finite ids), and the sizes
of the sets.

`MaxLag` and `MaxDelay` are assumptions and not only bounds. `MaxLag` says how many ticks pass
at most between the start of an uncached read (for a share: the comparison of the
times) and its SET; the code sets no limit on a statement, so the bound on staleness is
TTL plus the slowest read. `MaxDelay` says how long the scheduler may keep a handler
between `getLimiter` and `Allow`.

## 4. Properties

* `OnlyOwnerWrites` - a stored snippet changes only through a statement whose user
  may write the row as it is at that moment, although the WHERE clause does not say
  so. `SnapshotInv` is the reason: owners of stored snippets never change, ids are
  not reused, so an old snapshot still tells the owner.
* `GoneForGood` - an UPDATE in flight does not bring a deleted snippet back.
* `HonoursContract` - the store implements `SnippetContract`.
* `BoundedStaleness`, `StalenessInv` - no cached value is wrong for `TTL + MaxLag` ticks
  or longer, through lost DELs, late SETs, stopped replicas and cached error pages.
* `InvalidationCovers` - with no failure, an entry that was right and no longer is
  has a writer under way that will remove it.
* `EventuallyFresh` - if clients stop writing, the cache agrees with the table from
  some moment on.
* `ShownRecently` - no client is shown a version of a snippet, alone or on a page, that was
  replaced or deleted `TTL + MaxLag` ticks ago or earlier. `BoundedStaleness` looks at when an
  entry began to differ from the table; this one asks of every value whether it is
  recent history, pages of truncated reads included, and relates the answer to
  the past of the table and not only to its present.
* `WritesAlone`, `EveryCallReturns` - exclusion and progress of the in-memory store.
  `NobodyStuck` - whenever the lock holds a request up, some other is inside or on its way
  in and can go on: no early return keeps the lock, and no reader that waits is
  forgotten.
* `PagesExact` - whatever page and limit clients write: as long as `(page - 1) * limit` is an int,
  page `k` has the `k`-th `limit` places of the order made for it, and no slice is cut out
  of range. A greater product wraps around, and then the slice panics exactly when it
  has come out negative, and is otherwise the page where it has come out (section 6).
* `FoundUntilExpiry` - a link leads to its code until its time is over, whatever the
  clean-up, the clocks and the cache do; `ServedInTime` - and for less than `TTL + MaxLag`
  longer, because copies do not know the time. `CopiesExpire` is the reason. Tokens whose INSERT
  reported an error are exempt from the first, and so is the 404 of a SELECT that fails.
* `OneUserPerName`, `TokensNameUsers`, `HonoursRegistry` - the two statements of `CreateUser` are
  as good as one: one registration gets the name, one that begins later gets 409 (or
  an error), one that races with it 409 or 500, and no error leaves a token without a
  user. 500 without an error is allowed in two cases and no other, and in both the
  API document promises something else (section 6).
* `HonoursBuckets`, `FairShare`, `EntriesExpire` - the limiter behaves as if it never dropped
  anything, although the map stays small.
* `CleanMeansComplete` - a version that is not dirty has exactly the migrations up to it,
  wherever sessions broke off. After a `force` that claims too little it still promises
  nothing that is not there; only one that claims too much ends that.
* `DirtyLacksOne` - a dirty version `V` has every migration before it, so `force V-1` is never a
  claim too much, and starts the servers that refuse a dirty version again. `force V`, which
  `README.md:218` of the repository shows, may be one.
* `WholeSchemaServed` - "handlers never see a half-migrated schema" (`postgres_store.go:45`),
  for any mix of binaries, as long as operators take nothing back and force no version
  that is not there.
* `OpenWhileBusy`, `SweepsOpenPool` - the order of closing. That Shutdown gave up means in the
  model that handlers were busy when it returned; that `net/http` returns no earlier than it
  says is not checked.
* `StopsWhenTold`, `StartEnds` - no signal is lost, and nobody waits for ever.

Fairness. `CachedStore`: handlers go on with their statements and commands, and time
passes (`WF` of `Inner`, `Redis`, `Tick`); PostgreSQL and Redis are assumed to answer or
report an error in the end. The Go scheduler and the timeouts in `cache.go` justify
the rest. No client is made to call. `MemoryStore`: every goroutine runs (`WF`), and the
mutex among writers is handed on in turn (`SF` of `Acquire`: Go's `sync.Mutex` changes to
FIFO hand-over when a waiter has waited for a millisecond). `Lifecycle`: main, the
clean-up goroutine and the sessions run (`WF` of `Main`, `Swept`, `Worked`); PostgreSQL queues
those who wait for an advisory lock (`SF` of `Waited`); Go's `select` picks at random among
what is ready, so it does not take the ticker for ever once the context is cancelled
(`SF` of `Quit`). Shutdown's 10 seconds pass, so no fairness of handlers is needed. No
signal, failure, start or command is made to happen.

## 5. Proofs

For any sets of users, ids, texts, tokens, names, addresses, replicas and handlers, any
TTL and any number of failures. (What `BoundedStaleness`, `StalenessInv`, `ShownRecently`,
`CopiesExpire` and `ServedInTime` bound is stated for a TTL of 1 or more; with 0 or less, entries
have no end, and `zero_ttl` is the run about that.) Assumed are only the named assumptions on the
constants: `None` is not one of the other values, `Ids` is finite, the bounds are numbers
(`SnippetsAssumption`, `PostgresAssumption`, `CacheAssumption`, `ProcsAssumption`, `SharesAssumption`,
`AccountsAssumption`, `LifecycleAssumption`; `PagesAssumption` also has the limits fit in an int); cutting a password to 72 bytes twice is the same
as once (`AccountsAssumption`); replicas are not operators, and each binary has at least one
migration (`MigrationsAssumption`); and the limiter's numbers fit each other
(`LimiterAssumption`, section 2).

* `PostgresStore_proofs`. `TypeInv` (types, and that a handler's request fits its
  statement) is inductive. `SnapshotInv` is inductive relative to it, and needs
  `Stored(rows) \subseteq used`: without it an id could be drawn again with a new
  owner between a check and its write. `OwnershipSafe` and `GoneSafe` are action
  properties that follow from both.
* `PostgresReplies_proofs`. `ObsInv` adds that what a request read is among the values
  it has seen. With it each statement maps to a step of the contract or to a
  stutter (`StepSimulation`), one lemma per kind of statement, and
  `ContractHonoured` follows. The words of the contract are the store's own
  (`SameWords`).
* `CachedStore_proofs`. `CacheInv` ties the position of a request to its statement.
  `StalenessInv` is the inductive form of the bound: an entry that gets a tick older
  in its error loses a tick of its life. `InvalidationSafe` goes through the writers:
  the step that makes an entry wrong leaves its writer owing the removal, and no
  step of a writer pays off a debt without removing the entry. `CachedOwnershipSafe`
  carries ownership over: every step of the cached store is a step of the inner one
  or leaves it alone; `CachedGoneSafe` does the same for `GoneForGood`, and
  `CachedContractHonoured` for the refinement of `SnippetContract`: a hit, an expiry or a lost
  command is no step of the inner store. What the cache itself answers does not keep the
  contract (section 6, 3); that is what `ShownRecently` is for.

  `ShownRecentlySafe` rests on `HistoryInv`. `ShownRecently` alone is not inductive: a reply or an
  entry that is recent now may be too old after a tick. So `ReplyFits` bounds the rows of a
  reply by the ticks since its read began, and `EntryFits` those of an entry by what it has
  used up of its life: with `left` ticks to go, its rows were there at most `TTL + MaxLag - left`
  ticks ago. A SET turns the first into the second, since a read lasts `MaxLag` ticks at
  most, and a tick costs both sides one. `StalenessInv` gives the ranges of `left`.

* `MemoryStore_proofs`. `MemoryInv` says what each step holds of the lock (`LockFits`: who is
  among the readers, who is the writer, and that nobody else is inside with a writer),
  that the row looked up is still the stored one at the store step (`HandlerFits`, which
  needs the lock), and what a request has seen (`SeenFits`). `WritesAlone` and the refinement
  of `SnippetContract` follow. `NobodyStuck` needs of `LockFits` that a reader waits only while there
  is a writer; the writer, or a reader it drains, is then the one that goes on.

  The same module proves `PagesExact`, for any width of an int, any limits, whatever is
  written and any number of snippets: what wraps around is negative when the
  remaining bits exceed `MaxInt` and those bits when they do not (`WrapBits`, from the
  uniqueness of the remainder, `DivModUnique`); the end wraps only together with the
  start; and place `i` has page number `k` just when it lies between `k * limit` and
  `k * limit + limit` (`PageOfMatch`). The theorem needs nothing of the steps of the store:
  `PagesExact` holds for every table.
* `RateLimiter_proofs`. `LimiterInv` says that two addresses never share a bucket, and that
  an address whose entry is gone or about to go would find its bucket full; the
  longer idle, the fuller (`LevelFits`). A handler with a dropped bucket would contradict
  that, by the assumption on the numbers. So an eviction, seen through the mapping
  `Avail`, changes nothing, and every step is a step of `TokenBucket` or a stutter.
* `Shares_proofs`. `SharesInv`: a stored share has the time it was given out with, a share
  whose time is not over and whose INSERT went well is stored, and what a handler is
  about to SET was valid `lag` ticks ago at most.
* `Accounts_proofs`. `AccountsInv` adds to the properties that a handler's request fits its
  step, that its user was found by name, and that a name which is free now, or was at
  its COUNT, was free when it began (`HandlersOK`; names are only ever taken while a
  request runs), and that stored ids were drawn (`IdsUsed`). The INSERT, the failing statement or the comparison is the moment of the
  abstract step; everything else is a call, a return or a stutter.
* `Lifecycle_proofs`. `MigrationsInv` says for each step of a session what is applied then:
  up to the version before `mark`, all but the migration at hand before `run`, up to it
  before `clean`; with a history of `force` these become two statements, that nothing up to there
  is missing (`Honest`: no version ever claimed too much) and that there is nothing else
  (`Exact`: no `force` ever claimed anything wrong). At most one session, the holder of the
  lock, is there. A session that is `done` had, as long as nothing was taken back or claimed
  too much, everything its binary has applied, and nothing takes it back. `ReplicaFits` adds how far main has started and closed things.

Only model-checked: `EventuallyFresh`, `EveryCallReturns`, `StopsWhenTold` and `StartEnds` (liveness is
out of the prover's reach).

## 6. Disagreements found

1. `CreateSnippet` drops the error of its INSERT (`postgres_store.go:221`): 201 for a
   snippet that is not stored. Run `created_is_stored`.
2. `CACHE_TTL_DATA=0` (`cache.go:90`) does not send every read to the database, as
   `.env.example:48` says; it makes entries that never expire. Run `zero_ttl`.
3. A read under way during a delete (or an update) SETs the old value after the
   invalidation (`cached_store.go:71`); hits return it until the TTL passes. Run
   `deleted_not_served`. `BoundedStaleness` says how long at most, and
   `InvalidationCovers` that this is the only way when nothing fails.

Two more are part of what a run checks: the property allows exactly these cases.

4. `docs/openapi.yaml:139` promises 409 for a name that is taken. A registration that has
   counted 0 when another one takes the name is refused by the constraint
   (`postgres_store.go:369-375`) and answered 500 (`auth.go:49-52`). In `Registry`, `Undocumented`
   allows 500 for a taken name only to a request that began when the name was free;
   `HonoursRegistry` (run `accounts`) shows that this happens in a race and in no other way.
5. `docs/openapi.yaml:606` (`maxLength: 100`) and `auth.go:39-40` take a password of 73 to 100 bytes as
   valid; `bcrypt.GenerateFromPassword` refuses it, and the answer is 500, in both stores.
   `Undocumented` is also the only place that allows this.

One that no document excludes:

6. `docs/openapi.yaml` sets no maximum for `page`. When `(page - 1) * limit` is more than an int, the
   in-memory store panics (`store.go:164-172`; 500 by `gin.Recovery`) or serves the page where the
   product has come out, and PostgreSQL is sent that OFFSET: a negative one is an error,
   answered as an empty page. `PagesExact` says for which pages.

Noticed while reading, and not made into runs: `docs/openapi.yaml:138` and `:605` allow
passwords from 4 characters, `auth.go:39` from 8 bytes; `README.md:169` documents an
`expires_in` for shares that the code ignores; `docs/operations/backup-recovery.md:144`
gives `bin/migrate` flags it does not know; `README.md:218` offers `force 2` to clear a dirty
version: where migration 2 broke off, that is the claim too much that `CleanMeansComplete` and
`WholeSchemaServed` exclude, and `force 1` is the safe one (`DirtyLacksOne`).

## 7. Not modelled

* The order of the matches, and with it what the pages of several requests repeat or
  leave out: snippets written in between move the places, and those of the same
  `CreatedAt` have no order of their own in the in-memory store (section 2, Pages). The
  panic of a slice out of range is in `Pages` and not a step of `MemoryStore`.
* `AuthRequired`, JWT and bcrypt: parsing and libraries. The models begin with requests
  that are let through. That a token is accepted for 24 hours after the in-memory store
  has lost its user is said by `TokensNameUsers`, which exempts that store.
* Snippets in Redis after a restart of an in-memory store: `CachedStore` has PostgreSQL
  inside. The same is checked for shares.
* `ExecuteSemaphore`: no route mounts it. Body limit, request ids, logger, CORS, metadata and
  health endpoints: no state between requests. Configuration is read once, before
  anything runs.
* The pool's limit of 25 connections, which no statement of the code waits for while it
  holds another.
* Clocks of replicas that differ, and Redis losing data (which only makes misses, and
  those are modelled).
