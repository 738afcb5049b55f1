# NanoLink in TLA+

TLA+ models of NanoLink, the URL shortener of this repository: the Go API
(`cmd/`, `internal/`) with Postgres, Redis and ClickHouse around it, and the Python
engine (`engine/`), which offers the same API in one process on SQLite. TLC checks
the models on small instances; TLAPS proves the most important properties for
every instance. Runs, mutants, findings, hazards and the map from definitions to
source lines are in `PROJECT.json`.

    tlc -workers 2 -config MCUrlFaults.cfg MCUrlService    # one run
    tlapm UrlServiceProofs.tla                             # one module's proofs

## The system

Several identical API processes stand behind a load balancer
(`deploy/k8s/deployment.yaml` asks for three). They share one Postgres, one
Redis and one ClickHouse, and talk to each other through these only.

| Component | Source | State | Operations |
| --- | --- | --- | --- |
| URL service | `internal/service/url_service.go`, `internal/api/handlers/url_handler.go`, `internal/storage/postgres/url_repo.go` | table `urls` | shorten, resolve (redirect, QR code), delete, list |
| URL cache | `internal/storage/redis/redis.go` | Redis strings `url:<code>` with a TTL | SetURL, GetURL, InvalidateURL |
| Bloom filters | `internal/service/bloom_service.go`, `internal/pkg/bloom`, `internal/storage/redis/bloom.go` | a bit array in each process, a RedisBloom filter | Add, MightContain |
| ID generator | `internal/pkg/snowflake` | last stamp and sequence in each process | Generate |
| Base62 | `internal/pkg/base62` | none | encode, decode |
| Click pipeline | `analytics_service.go`, `stream.go`, `internal/worker`, `clickhouse.go` | `click_count`, a Redis stream with a consumer group, a ClickHouse table | RecordClick (two of them), worker's batch, GetStats |
| Rate limiter | `rate_limiter_service.go`, `redis.go` (Lua), `internal/pkg/tokenbucket`, `middleware/rate_limiter.go` | a Redis hash per client, a map of buckets in each process | Allow |
| Authentication | `middleware/auth.go` | none of its own | find the user of an API key |
| Router, metrics, health | `internal/api` | counters for Prometheus | - |
| Python engine | `engine/` | SQLite, in-process cache, filter, limiter and click thread | the same API in one process |
| Deployment, web page, tests | `deploy/`, `terraform/`, `web/`, `tests/`, `observability/` | none | - |

How they interact, and what is hard about it:

* **Shorten** looks an alias up, inserts, adds to both filters, reads the clock,
  fills the cache: five calls that other requests, crashes and failing calls can
  come between, and errors after the insert are dropped. The unique index is the
  only arbiter.
* **Resolve** asks both filters, the cache, the table, checks the expiry, reads the
  clock again and fills the cache from what it read: a check-then-act across two
  stores.
* **Delete** updates the table, then drops the cache entry; a fill in flight may
  land after it.
* **IDs** must not repeat across restarts and clocks set back; between processes
  nothing but the unique index keeps their codes apart.
* **Clicks** pass through goroutines nobody waits for, clients that send commands
  and statements again, a stream with pending entries, inserts of unknown outcome, and
  a Redis that may come back as it was some time ago.
* **The Python engine** has one process, so one filter and one cache, but its handlers
  run on threads that interleave between locks and SQL statements, and a restart
  leaves it with the table only.
* **A Bloom filter's words** are shared by all goroutines of a process: setting a bit
  is a read and a write of 64 of them.
* **Rate limits** rest on a time that is read before, and elsewhere than, the
  script that uses it, and on a fallback in each process.

What makes each component correct:

* URL service: a code has one target for ever, in the table, the cache and every
  answer; one request creates it; only its owner deactivates it; the creator finds
  it; dead links are not served, or at least fade.
* ID generator: IDs of a process grow, so that none is made twice by it; the wait ends;
  a code decodes to its ID, so that the codes of different IDs differ.
* Bloom filter: no code that was added is ever refused; every call returns.
* Click pipeline: an entry has one reader, is stored at most once and not forgotten
  before it is, unless Redis itself forgets; the counter exceeds the redirects by no
  more than what the driver repeats; without faults everything arrives.
* Rate limiter: no window lets more pass than a bucket and the window's refill.
* Python engine: what the URL service promises; a link once acknowledged is found,
  across restarts; a delete's answer is true; a published click is in one place.

## The modules

| Module | What it is |
| --- | --- |
| `UrlMap` | what clients are promised: a write-once map from codes to targets |
| `UrlService` | the URL service with its stores; implements `UrlMap` |
| `MCUrlService` | its instances for TLC |
| `UrlServiceProofs` | type correctness, invariants, the refinement |
| `UrlAnswersProofs` | what its 200, 400 and 404 say about the table; what a dead link's cache entry may still do |
| `Snowflake` | the ID generators |
| `ShortCodes`, `MCSnowflake`, `SnowflakeProofs` | Base62 and padding, on the IDs of `Snowflake`; the instance and the proofs of both |
| `CodeFilter` | what a process is promised of its Bloom filter: a set with false positives |
| `Bloom`, `MCBloom`, `BloomProofs` | the filter's words under their lock; implements `CodeFilter` |
| `ClickPipeline`, `MCClickPipeline`, `ClickPipelineProofs` | clicks, from redirect to ClickHouse |
| `RateLimiter`, `MCRateLimiter`, `RateLimiterProofs` | the limiter of one client |
| `Engine`, `MCEngine`, `EngineProofs` | the Python engine's links; implements `UrlMap` too |
| `EngineClicks`, `MCEngineClicks`, `EngineClicksProofs` | the Python engine's clicks, its click thread and its stats |

### UrlService

A request is a record in a slot: which call it makes next (`at`), and the local
variables of its handler (`code`, `long`, `exp`, `ttl`, `user`). Each action is one
call to Postgres or Redis together with the local code up to the next one:
`ShortenStart`, `CheckAlias`, `ClaimAlias` / `CreateURL` / `RetryWithHash`,
`BloomAdd`, `ChooseTTL`, `CacheSet`; `ResolveStart`, `BloomCheck`, `CacheGet`,
`DbGet`, `ChooseTTL`, `CacheSet`; `DeleteStart`, `DbDelete`, `CacheDelete`. A final
`at` is the HTTP status. `Finish` frees the slot.

* **Faults.** With `DbFaults` a Postgres call may return an error, applied or not.
  With `RedisFaults` a Redis call may fail, keys may be evicted, and Redis may come
  back empty. The code drops Redis errors, so a failed write is a write that did
  not happen. `Crash` drops a node's requests and its filter. A failed call is not
  applied later than its error.
* **Repeats.** The Redis client sends a command again when its connection broke, and
  `database/sql` a statement, executed or not. For a `SET` this is a write of its own,
  at a later time: `sends` counts the sendings left (`Attempts`). An `UPDATE` that
  deactivates may take place several times. A `DEL` or a `BF.ADD` that is executed again
  does nothing new, or is a `CacheEvict` between; an `INSERT` that is executed again
  fails at its own row, the last case of `InsertError`.
* **Filters.** A Bloom filter is the set of what was added to it; a code in it always
  passes, a code not in it may pass (`Rejectable`), which covers every false
  positive. This is `CodeFilter`, which `Bloom` is shown to implement.
* **Time** is relative. `exp` and `ttl` are ticks left; 0 is the instant of expiry
  (`time.After` is strict), -1 is any time past it. `Tick` ages all of them, so no
  bound on the clock is needed and the fairness runs have no last tick. A lifetime
  of -1 is a `ttl_seconds` whose nanoseconds wrap (`url_service.go:77`): such a link
  has run out when it is created.
* **Codes** are drawn from sets: what users ask for, what the generator gives, what
  the MD5 fallback gives. The sets may overlap, as the real strings may. `TooLong`
  are the codes that do not fit `VARCHAR(10)`.
* **History.** `acked` (codes a node answered 201 for since it started) and `deleted`
  (codes deactivated before some delete's 200) only serve the properties; `seen`
  records them when a request comes in, so that "a later request" means one that
  began after the answer, and that a delete found a row of its user.
* Requests refused before their first call change nothing. Listing only reads.
* A process that starts while Redis is away has a client all the same
  (`redis.go:30`), whose calls fail until Redis is back: that is `RedisFaults`.

### Snowflake

One generator per process, each with its host's clock, which `SetBack` may move by
any amount, up to `MaxBacks[p]` times. The processes in `Restarted` may be replaced
by a new one, which takes at least a tick. `Generate` is one action because of the mutex, except for the busy wait
of a full millisecond, which `Spin` ends; other callers wait meanwhile. `|` of the
three shifted fields is `+`, because the fields do not overlap for times between
2024 and 2093. `NodeId` is a constant of the module; the run gives every process the
number that the code gives it, 1 (`url_service.go:37`).

### ShortCodes

A code is a sequence of digits, a digit the index of its character in the alphabet.
`Digits` builds them last digit first, as the loop and the reversal do; `Pad` is
`%06s`, with the zero as the padding character. (Some versions of Go pad strings with
blanks there; two codes meet as little.) `Base62Decode` works modulo `WordSpan`, the 64
bits of a `uint64`; nothing in the service calls it. The module extends `Snowflake`,
so that its properties speak of the IDs the generators really make. Padding is there
because the code has it: an ID below 62^5 takes a clock within a second of the scheme's
epoch. With `MinLen` 2 and base 3, some of the IDs are padded and some are not.

### CodeFilter and Bloom

`Bloom` has one action for each step of a call that other goroutines can see: `Begin`,
then `Lock`, `Load` and `Store` for each seed, `Unlock`; or `RLock`, `TestBit` for each seed,
`RUnlock`. `writer` is the goroutine that has the write lock or waits in it for the
readers to leave, which keeps new readers out, as `sync.RWMutex` does. The hash is a
constant, any function from codes and seeds to bits, so the sizing formulas and
FNV-1a do not matter. A word is the set of its bits. `Restart` is a new process with
an empty filter. `added` has the codes whose `Add` has returned; `CodeFilter` is about
them, and the refinement maps a check's answer to an `Answer`, an `Unlock` to an `Add`.
The lock of the Python filter (`nanolink_core.py:90`) is a mutex, under which `Engine` has
each call as one action.

### ClickPipeline

All clicks are on one code. Entries are numbered in the order of their Redis IDs;
`log` is the history of what was ever appended, `redis` what Redis has of it: the
entries of the stream, whether the group exists, the last entry it has delivered, and
what is pending. `XREADGROUP ... >` delivers the entries after `delivered` and puts
them in `pending`; nothing in the code reads pending entries again (`LeftBehind`,
`NoSecondReader`).

* **Repeats.** The Redis client repeats a command whose connection broke (`MaxRetries`,
  3 by default), so a click may have several entries: `publishing[k]` has the attempts
  left. `database/sql` executes a statement again, up to three times in all, when the
  driver reports a bad connection, and lib/pq reports one for a connection that was
  closed after the commit: `counting[k]` has the attempts left, and `resent` counts the
  UPDATEs sent again, by as much as which `click_count` may run ahead of the redirects.
* **Redis.** `RedisSnapshot` takes an `image` of it, as the snapshots on its volume
  (`docker-compose.yml:51`) or its replica (`terraform/elasticache.tf:14`) do at some time.
  `RedisRestart` brings it back with that image or with nothing. Then the stream may
  have lost its last entries, and the group may have forgotten deliveries, in which
  case it delivers those entries again and they are stored again: `again[i]` counts how
  often this has happened to entry `i`.
* A ClickHouse insert may fail applied or not. `Crash` is also the clean shutdown: `main`
  waits for handlers only. `faults` counts the calls that failed, the crashes and the
  restarts of Redis, up to `MaxFaults`.
* `GroupCreated` says whether somebody has run `XGROUP CREATE`, which the repository
  never does. Entries the worker cannot parse do not occur, since the only writer is
  `PublishClickEvent`; the user agent's classification is left out. Without
  `CLICKHOUSE_DSN` the worker does nothing: that is the model with a worker that never
  reads.

### RateLimiter

One client key. `clock` counts ticks, `PerSec` of them a second, because the script
works in whole seconds and the fallback bucket does not. `Arrive` reads the time,
`Evaluate` runs the script, `EvaluateLost` runs it and loses the answer, `Fallback`
asks the node's bucket. `MaxDelay` bounds the ticks between reading the time and the
answer: 0 is the case in which the limiter works, 1 the one in which it does not.
Creating the fallback bucket and using it are one action: a bucket made earlier is
full, and stays full. Rates and capacities are whole numbers.
The histories are running totals: `granted[s]` is what Redis has let pass of the
requests that came in up to second `s`, `localGranted[n][t]` what node `n`'s own
bucket has by tick `t`, so that a window is a difference of two totals (`Passed`).

### Engine

The style of `UrlService`: a request in a slot, one action for each locked section or
SQL statement, relative time. `ShortenStart`, `CheckAlias`, `InsertRow`, `AddToFilter`,
`PrewarmCache`; `RedirectStart`, `CheckFilter`, `GetCache`, `QueryRow`, `FillCache`,
`CountClick`; `DeleteStart`, `DeactivateRow`, `DropEntry`.

* **Filter.** Here it is a set of bits, with the positions of each code in the constant
  `Hash`; false positives come from codes that share bits. `add` and `contains` are
  atomic, because both hold the lock.
* **Faults.** With `DbFaults` a statement may raise an exception, which nobody catches:
  the request is a 500 and the statement is not applied. With `Crashes` the process
  may stop between any two steps; `Restart` loses cache, filter and requests and adds
  the active rows to the new filter, as the module does when it is imported.
* **Cache.** A fill from the table lives a `Day` whatever the link's expiry; the entry
  of a new link lives its `ttl_seconds`, or for ever if there is none. A negative
  `ttl_seconds` gives an entry that has run out and a row that never does.
* `known` records whether the code had been answered 201 when a redirect came in.
* Left out: click events and `click_count` (`CountClick` is the statement that may
  fail), which are `EngineClicks`; the rate limiter.

### EngineClicks

A redirect that has found its link publishes its click to a list in memory, counts it in
the row and answers: `Redirect`, `PublishClickStream`, `CountClick`. The click thread copies
the head of the list, cuts it off, and writes the batch in one transaction: `CopyBatch`,
`DropBatch`, `WriteBatch`; the lock is held over the first two, so that publishers wait
(`Unlocked`). `StatsStart` and `GetUrlStats` are a stats request, with the clicks answered
before it came in. An SQL error in a redirect is a 500, after its click has been
published; one in the thread ends the thread ("dead"), because nothing catches it, and
takes the batch with it (`lost`). `Restart` empties the list. The order is not the Go
API's, where both happen after the answer and independently.

## The runs

| Run | Shows |
| --- | --- |
| `MCUrlFaults` | two requests over one code under every fault: types, `HolderHasRow`, `CacheMirrorsDb`, `OneCreator`, `DeleteReplyTrue`, `GoneFades`, and that `UrlService` implements `UrlMap` |
| `MCUrlFair` | fairness, Redis may fail: only taken or unfit codes are refused; the creator finds its link unless Redis has missed it; deactivated and expired links leave the cache for good |
| `MCSnow` | one process whose clock is set back and one that restarts, both with node number 1: the IDs of each grow, their codes decode to them, the busy wait ends |
| `MCBloom` | three goroutines, two codes that share words and bits: no member is refused, calls return, `Bloom` implements `CodeFilter` |
| `MCClick` | two workers, any two faults: an entry has one reader and is stored once, unless Redis forgets; nothing else is forgotten; no overcount but for repeats; and where nothing has failed every click arrives and the counts agree |
| `MCEngine` | two threads, failing statements, restarts: acknowledged links are found, deletes answer the truth, expired links fade, and `Engine` implements `UrlMap` |
| `MCEngineClicks` | three redirects, a click thread that may die, restarts: an event is in one place, a total is fresh, events are stored while the thread lives |
| `MCRatePrompt` | scripts that run at once: both buckets keep their bounds, across faults and expiry |

The other runs each show one disagreement of the code with what the repository says
of it ("Findings"). `MCUrlDeleted` starts from a link whose creator has its answer and
whose first cache entry has run out (`LinkInit`), so that its trace is the race of a
delete with a resolve.

**Bounds.** Two requests in flight are enough for every two-party race: each property
speaks of one code and of at most two requests. One code, with the generated code,
the alias and the hash all equal, is the case with the most collisions; `MCUrlFair`
has a second code, generated, that does not fit the column. Lifetimes of one tick,
"none" and (in `MCUrlFair`) one that is over at once, with a `CacheTTL` of one (in
`MCUrlFair`) or two (in `MCUrlFaults`, so that a link may have less time left than the
cache's 24 hours, the branch at `url_service.go:163`),
give every order of expiry, cache expiry and handler step. One node suffices where all
state a property reads is shared, or a node's own; `MCUrlElsewhere` has two. `MCUrlFair` has
no failing Postgres, because a refusal after a failed query says nothing of the code,
and no crashes, which take what a node has acknowledged away together with its filter. Snowflake has a sequence
of two, so that it wraps; three milliseconds and four IDs a process, so that it wraps,
waits and goes on. `Attempts` is two wherever
Redis may fail: a repeat, and one that is the last. `MCClick` has two clicks, each command
and statement sent up to twice, two entries (for two clicks, or for one that is
published twice) in batches of two, and any two faults (`MaxFaults`): two failed calls
around each other, a crash or a restart of Redis around a failed call, or two of them. Its
clicks and nodes are named in the order in which they are first used (`NamedSpec`), which
leaves no behaviour out but for the names. Its liveness properties and `CountsAgree` are
about behaviours with no fault (`faults` is 0).
`MCBloom` has bits in two words, two bits both codes have, and a third goroutine for the
writer that waits between a reader and a checker. `MCEngineClicks` has three clicks for
batches of two, so that a pop leaves one behind. The limiter has a bucket of
two with a token a second, two ticks a second and five ticks, which is longer than
the key's lifetime of four. The engine has a code that is never made but shares a bit
with one that is, and a day of two ticks, longer than the life of a link. Where a bound stops the model (clocks, clicks) the cfg
turns the deadlock check off and says why; the URL service never stops, and its runs
check for deadlock.

**Symmetry** is used for request slots in two runs without liveness (`MCUrlFaults`,
`MCRatePrompt`), and for targets in the first, only.

**Fairness.** A started request takes its next step: every call ends, since the Redis
client and the HTTP server have timeouts, and a failed call is a step too. Time
passes. The busy wait reads the clock again; the clock is set back finitely often
(`MaxBacks`). Goroutines run; the worker's ticker fires each second. Nothing is
assumed of clients, crashes or faults: the faults are never required to stop, but
`MCUrlFair` needs none of them to, because a failing `DEL` leaves the entry to its TTL.
In the engine threads run and time passes; statements may fail and the process may
restart for ever; the click thread wakes up as long as it lives (`WF_vars(Work)`). In
`Bloom`, goroutines that hold the lock run on (weak fairness), and a lock that is free
again and again is given to each that waits for it (strong fairness): Go's mutex hands
it over after a millisecond of starvation, and readers that wait when a writer leaves
go before the next one.

## Mutants

Every property of a passing run is shown to notice a bug: a definition named
`X_Suffix` beside `X` is `X` with a plausible mistake in it (a lost guard, an upsert
instead of an insert, a stamp that is not kept), and with it in place of `X` the run
fails on that property. The specifications never use these definitions.

## Findings

| Run | The code | What is said of it |
| --- | --- | --- |
| `MCUrlElsewhere` | a node rejects links made on other nodes, or before its restart: its filter does not know them (`bloom_service.go:30`) | nodes are stateless and scale independently (`README.md:69`) |
| `MCUrlDeleted` | a cache fill in flight revives a deleted link for up to a day (`url_service.go:167`) | "URL successfully deactivated" (`url_handler.go:92`) |
| `MCClickNoGroup` | nothing creates the consumer group (`stream.go:31`) | `stream.go:29`, `README.md:68` |
| `MCRateRace` | the script trusts a time from outside (`redis.go:85`) | no "race-prone read/modify/write" (`README.md:98`) |

The same models show more, by changing a constant; no run is kept for these:

* A link that runs out between the expiry check and the computation of its TTL is
  cached for a day (`url_service.go:163`): `CacheTTLFor`. The engine does so for every
  link it reads from the table (`main.py:265`): after a restart an expired link may be
  answered for a day.
* A link of the engine without a TTL is cached for ever (`main.py:223`); when its row is
  deactivated between the insert and `set_cache`, it is answered until a restart.
* Deleting another user's link, or none, answers 200 as well (`url_repo.go:104` looks
  at no row count): the hypothesis "own" of `DeleteReplyTrue`.
* Aliases of 11 to 30 characters pass the regexp (`url_service.go:21`) and fail at the
  insert (`migrations/001:24`): the exception in `RefusedOnlyIfTaken`.
* After a `BF.ADD` that failed, or a Redis that lost its filter, a link is a 404 on the
  node that made it (`bloom_service.go:25`): the last disjunct of `ReadYourWrites`.
* IDs are not unique, although `snowflake.go:41` says that `Generate` "creates a unique
  64-bit Snowflake ID" and `README.md:95` that collisions are avoided "through
  deterministic distributed ID generation": every process has node number 1
  (`url_service.go:37`), so two of them that shorten in the same millisecond make the
  same ID and the same code. What the models say of uniqueness is said of one generator
  (`Increasing`, `IdsUnique`). A restart forgets the last stamp (`snowflake.go:37`), so a
  restarted process whose clock was set back repeats its own IDs.
* `click_count` may exceed the redirects, although `url_handler.go:63` says "Count only
  successful redirects": an UPDATE whose reply was lost is executed again
  (`url_repo.go:90`), the `resent` of `CountNotAbove`.
* After a Redis that comes back with an older image, entries that were stored are
  delivered and stored again (`stream.go:34`): the `again` of `StoredOnce`.
* The engine's limiter reads its time before it takes its lock
  (`nanolink_core.py:122`), so that threads can overtake each other with the effect of
  `MCRateRace`.
* Two API hosts whose clocks differ refill the shared bucket for the difference each
  time one follows the other (`redis.go:85`): `RedisBound` with a `Skew`.

A collision of IDs is not a collision of links: the second insert fails at the unique
index and the MD5 fallback gives another code (`url_service.go:93`), which `OneCreator` and
`ImplementsUrlMap` cover, since every request of `UrlService` may draw the same code.

Two losses the models contain and no document denies, so that they are no findings: a
batch whose insert or acknowledgement failed is never read again, and a click whose
`XADD` was repeated is counted twice in ClickHouse. A third one is the engine's: its
click thread does not survive an SQL error, and clicks then pile up in memory.

## The proofs

All proofs hold for any number of nodes, requests, codes, clicks, workers and
goroutines, every hash, every number of repeats, all bounds and every combination of the fault switches, under
the modules' assumptions (sets of codes within `Codes`, `None` not a value, positive
sizes); where a theorem needs a fault switched off, it says so and the list below does.

* **UrlServiceProofs**: `TypeCorrect`, `HoldersCorrect`, `CacheCorrect`,
  `CreatorsCorrect`, `Refinement`. The inductive invariant is
  `TypeOK /\ HolderHasRow /\ CacheMirrorsDb /\ OneCreator`. `CacheMirrorsDb` is not
  inductive by itself: a fill writes what its request holds, so `HolderHasRow` has to
  say that this is the row's target; and that needs rows never to change their target,
  which is the unique index in `InsertOK`. `OneCreator` needs `HolderHasRow`: a second
  winner would have inserted over the first one's row. For the refinement every action
  is shown to be a `Register`, `Deactivate`, `Answer` or `Forget` of `UrlMap`, or a
  stutter, with `HolderHasRow` and `CacheMirrorsDb` giving the target of each answer.
* **SnowflakeProofs**: `TypeCorrect`, `IdsGrow`, `IdsBounded`, `IdsUnique`. `Bounded` says
  that no ID lies above the generator's position; each step moves the position up
  (`GenerateAdvances`), also past a full millisecond, so `Increasing` follows.
  A generator without a stamp is bounded by its clock instead (`Consistent`), so a
  restart moves the position up as well if the clock has not been set back; the
  theorems assume that for processes that restart. `IdsUnique` adds that an ID
  determines its node number, so that equal IDs come from processes that share one, or
  are the same ID; all processes of this code do share one.
  For the codes, `RoundTrip` says that every number below `WordSpan` is what its code
  decodes to, for every base and padding. The digits of a number are those of its
  quotient and one more, so this is an induction over numbers, done with sets: every set
  of numbers has a least one (`NatLeast`, from the well-foundedness of `<`), a set that
  is closed under going up is all of them (`Induction`), and a function that is
  determined by its smaller values exists and is the only one (`Recursion`), which is
  what makes the two recursive functions of `ShortCodes` equal to their equations
  (`DigitsStep`, `DecodeValue`). Decoding a digit more multiplies and adds
  (`DecodeAppend`); zeros in front change nothing (`DecodePadded`). That an ID has the
  generator's fields is inductive (`Fields`), so every ID fits the word, and
  `CodesDecoded` holds of all IDs without a hypothesis on clocks or node numbers: two IDs
  with one code would be decoded to the same number, so codes meet only where IDs do.
* **BloomProofs**: `TypeCorrect`, `NeverFalseNegative`, `LockNeverStuck`, `Refinement`. A check may see any
  mixture of the words before and after an `Add`, so `NoFalseNegatives` needs the lock:
  the invariant says that whoever writes is the writer, that nobody reads once it has
  begun (`Exclusive`), that the word in its hands is the one in memory (`Fresh`), and
  that the bits of the seeds it has passed are set (`Progress`). Then all bits of an
  added code stay set (`Complete`), and a check that says no has seen a bit that is
  still not set (`Witnessed`). The refinement needs the last two only.
  `LockNeverStuck` is what `CallsReturn` rests on and safety can say: every lock is held
  by a call in the part that gives it back (`HeldByCalls`, with `LockHeld` the other way
  round), so whatever a call waits for, some call can go on.
* **ClickPipelineProofs**: `TypeCorrect`, `AtMostOnce`, `NothingForgotten`,
  `NeverOvercounted`, `CountsMeet`, `ReadOnce`. The inductive invariant is a budget for
  each entry: its rows, the workers that are about to insert it, and one if the group has
  yet to deliver it (or would have to, with the image) are no more than one and the
  deliveries Redis has forgotten (`Budget`). A delivery moves the one to a worker, an insert
  from there to the rows; failing calls and crashes only take away; a restart of Redis
  with an older image adds one on both sides. `ForgottenIsStored` has to hold of the image
  as well (`ImageForgot`), which is never ahead of Redis (`ImageOlder`), and of the batches
  that are about to be acknowledged (`AckStored`).
  `NeverOvercounted` counts: a redirect adds one to both sides, and so does an UPDATE that
  is sent again. `CountsMeet` counts twice: as long as nothing has failed, the counter and
  the increments under way make up the redirects, and so do the entries of the stream and
  the publications under way; when all is quiet both are the number of redirects. By then
  every entry has left the pending list for exactly one row, which takes
  `ForgottenIsStored` and `StoredOnce`, so the total of the rows is the number of entries.
  `ReadOnce` says why nothing is stored twice, and what it costs: the worker reads `>`
  only, so an entry has one reader, and once that reader has left it behind (by a crash,
  or because the insert or the `XACK` failed), nobody stores or acknowledges it any more,
  unless Redis forgets the delivery.
* **UrlAnswersProofs**: `DeletesTrue`, `RefusalsTrue`, `ReadsTrue`, `OnlyFillersRevive`, on top of the
  invariant of `UrlServiceProofs`. The first holds under all faults: rows stay and are
  never reactivated, so once a delete that came for its user's row has updated it, its
  200 stays true. The other two assume `~DbFaults`. A refusal is true because the row it
  saw stays. For `ReadsTrue` the invariant `Reads` says that what a node has answered 201
  for is in its filter and in the table (`Known`), which a crash keeps true because it
  takes the node's history and requests with its filter; and that a code on its way to
  `BF.ADD` has been answered to nobody (`FreshAt`), which needs `OneCreator`: else the
  code a 404 has missed in the Redis filter could be added after the answer.
  `OnlyFillersRevive` is what `DeactivatedFades` and `ExpiredFades` rest on and safety can
  say: a link that is gone stays gone, nobody becomes one of its `Fillers` any more,
  and its cache entry only ages or goes, but for their writes, each of which takes a
  sending away from its request or ends it (`WrittenBy`). The unique index keeps out new inserts, the filter on active rows and the expiry check new
  reads.
* **EngineProofs**: `TypeCorrect`, `AckedFound`, `DeletesTrue`, `Refinement`,
  `OnlyFillersRevive` (as above, for the engine's cache), with failing
  statements and restarts. What each handler does to its request is one relation
  (`Moves`), so that the step proofs split on it instead of on the actions. The
  invariant adds to `TypeOK` that requests and cache agree with the row (`HeldAt`,
  `Mirrors`), that a matched delete stays true (`DeleteAt`), that a request about to
  answer 201 has its bits in the filter (`AddedAt`), and that the filter passes every
  acknowledged active code (`AckedAt`). The last survives a restart because the new
  filter is built from the rows, and a hit on shared bits can only help.
* **EngineClicksProofs**: `TypeCorrect`, `EventsInOnePlace`, `StatsFresh`. The invariant
  says that the list and the batch have no event twice, that a batch still under the
  lock is the head of the list (`Places`), and that the counter is the number of
  redirects answered (`Counted`). Lemmas about cutting a list (`Cut`, `Popped`) do the
  rest; the bound of the counter in `TypeOK` follows from `Counted`.
* **RateLimiterProofs**: `TypeCorrect`, `LocalBounded`, `RedisBounded`, `RedisBoundedAtOnce`.
  Types are inductive by themselves: for any rates, clocks and order of the scripts, a
  refill is cut at the capacity and time that runs backwards takes no tokens away
  (`RefilledType`, `LocalType`).
  A bound on every window is not inductive, since it says nothing of the tokens left.
  `Metered` does: in every window that ends now, what has passed and what may still pass
  together are no more than a full bucket and the window's refill. A request moves one
  from the second to the first (`MeterPass`), a lost answer only takes it away
  (`MeterLess`), time adds the refill (`MeterTick`), a loss of Redis's data adds a full
  bucket (`MeterLoss`). `LocalBounded` is that for a node's own bucket, and needs no
  hypothesis, because the bucket reads its clock under its lock.
  For the bucket in Redis the key's expiry must not be worth a full bucket, which is
  `Aged`: a key that runs out was last renewed so long ago that its bucket would be full
  again. Two hypotheses are left: the nodes' clocks agree, though all may be fast by the
  same number of seconds, and each script runs in the second its request came in
  (`Prompt`, an assumption on the behaviour: `RedisBounded` is about any `MaxDelay`).
  Neither can be dropped: `MCRateRace` is a behaviour without the second, and "Findings"
  has the first. `RedisBoundedAtOnce` is the case `MaxDelay = 0`, in which the
  specification implies `Prompt`.

Every safety invariant, action property and refinement that a passing run checks is a
theorem.
Only model-checked is what is about liveness (`DeactivatedFades`, both `ExpiredFades`,
`EventSettles`, `ClicksStored`, `Drains`, `SpinEnds`, `CallsReturn`): fairness is out of
the prover's reach.

## Not modelled

* Listing links, which only reads the table; the lookup of API keys, metrics, health,
  QR rendering, the web page, deployment: no state that the properties read. The
  engine's routes `/health` and `/metrics` shadow aliases of that name; paths are not
  modelled.
* The engine's limiter: the Go fallback bucket without its capacity per process, and
  with the race of the script.
* Reading the environment. A false positive rate of 1 or more, which `config.go` does
  not refuse, makes a filter of no bits, whose first use divides by zero
  (`bloom.go:28` and 47); `Bloom` assumes at least one bit.
* A Redis that comes back with an older image is in `ClickPipeline` only. `UrlService` has
  the loss of everything, of any key (`CacheEvict`) and of any `BF.ADD` at the time it is
  made, and a filter that comes back from an image is one that has forgotten some. An
  entry of the cache that comes back from an image after its `DEL` it has not, since an
  image of the cache beside the cache takes the runs beyond their limits: such an entry
  keeps its time of expiry, so it fades, but `GoneFades` and `OnlyFillersRevive` are not
  about it.
  `RateLimiter` has the loss of the bucket, after which it is full: no older image has
  more tokens than that.
* Widths of integers outside the ID generator, the codes and `ttl_seconds`.
* A wrong assumption the models share: that Postgres and SQLite transactions are atomic
  and durable, and Redis commands atomic.

## Plan

1. Done: all modules above; a theorem for every safety property of the runs.
2. Proofs: what the remaining liveness properties rest on and safety can say, as
   `OnlyFillersRevive` does for the caches, `ReadOnce` for the clicks and `LockNeverStuck`
   for the filter: the busy wait of the generator (`SpinEnds`), the engine's click events.
3. Model: the engine's limiter, as a second instance of the bucket with the clock read
   before the lock is taken; the bucket's refill lemmas and `Metered` apply to it as they are.
