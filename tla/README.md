# EmbyToAlist: a TLA+ model of the caching proxy

EmbyToAlist sits between a media player and an Emby server. A request for a
video is redirected to a "raw link" of the file; to make playback start at once,
the proxy answers the first bytes of a file (the *head*, with the container's
header) and the last ones (the *tail*, with its index) from a cache of its own.
This directory models that cache: how bytes get into memory, from memory to disk,
from either to a client, and how all of it is forgotten again.

Paths below are relative to `src/EmbyToAlist/` of the repository. The repository
has no tests; what the program promises is taken from its docstrings, comments and
log messages.

Contents

1. The system: components, their state, operations and interactions
2. The execution model
3. The modules, and how they correspond to the code
4. The runs: what each checks, its bounds, what it shows
5. Where the code disagrees with itself
6. Fairness
7. What is proved
8. What is only model-checked, and what is not modelled
9. Plan

## 1. The system

| Component | Code | State | Operations |
|---|---|---|---|
| ChunksWriter | `cache/writer.py` | `cache_data`, `completed`, `error`, `file_headers`, `task`, a condition variable | `write` (starts the task), `_run_write`/`_write` (download with up to five attempts), `read` (a generator per consumer) |
| TaskManager | `cache/manager.py` | dict of dicts of dicts (type, file id, sub key) -> (instance, expiry) | `create_task`, `get_task`, `remove_task`, `_cleanup_task` once a second |
| FileStorage | `cache/storage/file_storage.py` | cache directories and files, TinyDB tables `cache_files` and `system_info`, one lock per directory | `write_to_disk`, `get_cache_file_path`, `get_file_headers`, `read_from_disk`, `_update_cache_stats` |
| CacheSystem | `cache/system.py` | none of its own: TaskManager entries, writers, tasks | `get_cache_status`, `get_cache_file`, `start_write_cache_file`, `_write_to_disk`, `_warm_up_tail_cache`, `cache_next_episode` |
| Redirect route, response stream | `routes/redirect.py`, `utils/network.py` | one request | classify the range (head, tail, neither), hit or miss, headers, stream out of cache followed by the raw link |
| RawLinkManager | `providers/manager.py` | shared `RawLinkTask` per path, a cache of links | `create_task`, `get_raw_url` |
| Cleanup policy | `cache/cleanup.py` | none; reads both tables | `check_and_cleanup`, `cleanup_by_size`, `force_cleanup_low_scores`, `_remove_cache_entry` |
| Scheduler | `cache/scheduler.py` | dict of tasks with `next_run_time` | every 5 s create an execution of what is due: the check of the size (hourly), the recalculation of scores, the weekly cleanup |
| Scores | `cache/score.py`, `cache/score_calculator.py` | `score` column of `cache_files` | `recalculate_all_scores`, the formula |
| TinyDBHandler | `utils/database.py` | the table it is currently set to | `set_table`, queries |
| Providers, paths, models, config | the rest | none shared | HTTP calls, parsing, constants |

How they interact:

* The route asks CacheSystem for the *status* of a file, then for its *content*
  (hit), or tells it to *start writing* and then asks for the content (miss).
* CacheSystem looks writers up in, and registers them with, TaskManager. It starts
  a writer once RawLinkManager has answered with a url. It creates a task
  `_write_to_disk` per request, and a marker entry in TaskManager tells such tasks
  of each other.
* `_write_to_disk` waits until the writer is complete and has FileStorage pull the
  bytes through `ChunksWriter.read`, under a time limit.
* FileStorage updates the two tables after each file, through a TinyDBHandler
  that it shares with its own lookups and the score updates.
* Cleanup reads the tables, removes directories and updates the tables; it asks
  for none of FileStorage's locks.

What is hard about it:

* **Interleaving.** Many requests for one file arrive while the first is still
  waiting for the url; readers are suspended in the middle of a buffer that a retry
  empties; two writers save into one directory while cleanup removes it; several
  requests share the fetch of one link.
* **Failure.** Retries and the last failure of a download; a url that does not come;
  a client that leaves while it is responsible for starting the writer others
  wait for; a write to disk that fails or is cancelled half way; a stop of the
  process between a rename and the rows that account for it.
* **Timing.** Registrations run out after 180 s under whoever uses them; the
  60 s + 3 polls before a write to disk race the download; a write is cancelled
  after 90 s.
* **Stale values.** The status is looked up before the kind of request is known;
  a file is looked up, and opened later; one database handler is switched
  between tables by tasks that do not know of each other.

What makes each component correct:

* ChunksWriter: a stream that ends normally is whole; headers belong to the bytes;
  a settled outcome stands; no reader waits for ever (`RangeStream`).
* TaskManager: it is a flat table with expiry (`TaskRegistry`); nothing leaks or
  overstays.
* FileStorage: a file under its final name holds all that a completed writer had of its range,
  never a piece of a write that failed; files of a directory do not repeat each other; the
  tables sum up what is on disk, but for what a restart or a cancelled write leaves; every
  call ends.
* CacheSystem: one download per range and registration, one write to disk at a time
  per range, only of settled writers; a request that missed comes to its end, unless its
  registration runs out while it waits for the url and the writer that took its place is
  abandoned: then it waits for ever (`Stranded`).
* Route: hit and content agree; every byte sent is the next one of the file, from the
  cache and from the link behind it; as many are sent as were announced, or the
  answer breaks off, or it is known why it ends short without an error.
* RawLinkManager: one fetch per path and user agent at a time, a failed one is not
  handed out again, no link stays in the cache beyond its lifetimes (a manager keeps the one it
  has at hand for as long as its request lasts), everybody who waits is answered.
* Cleanup: afterwards the cache is down to its target or nothing more could be
  removed; nothing is removed beyond that; the lowest scores go first; protected
  entries survive.
* Scheduler: what is due is run, once, and what fails does not block the rest.

The hazards this leads to, each at its line and with the properties that cover it,
are listed in `PROJECT.json`.

## 2. The execution model

The program is one asyncio event loop. A step of a model is what runs between two
suspension points. Three facts decide where they are:

* `await` of a coroutine that does not itself suspend does not suspend.
  In particular `asyncio.Lock.acquire` returns at once if the lock is free.
* The bodies under `TaskManager.lock`, under `ChunksWriter.condition` (except
  `wait_for` while its predicate is false, which releases it) and under
  `FileStorage.db_lock` contain no suspension. These locks are therefore never
  contended, and each TaskManager operation, a whole round of
  `_cleanup_task`, "look the writer up, else register a new one", "check the marker,
  else set it" and `_update_cache_stats` are single steps.
* `check_and_cleanup`, `cleanup_by_size`, `force_cleanup_low_scores` and
  `recalculate_all_scores` only await `db_lock`, which is free whenever the loop runs
  them, and each other; TinyDB, `rmtree` and `stat` are plain calls. An execution of a
  scheduled task is therefore one step, and two of them never interleave. What does run
  beside it are the threads of `aiofiles`: `rmtree` can meet a file that one of them is
  adding.
* What really suspends: the network (`get_raw_url`, response headers, chunks),
  `aiofiles` (each call runs in a thread), `sleep`, `wait_for` on a condition whose
  predicate is false, a `yield` to a consumer, the lock of a cache directory when
  another job holds it, and tasks created with `create_task`, which run later.

## 3. The modules

### RangeStream and ChunksWriter

`RangeStream` is the abstract specification of a cached range: one fetch that
ends `whole` or `failed`, consumers that receive bytes in order, in file positions,
and whose stream may end by itself only when served or when the fetch failed.

`ChunksWriter` is `cache/writer.py`. The bytes are counted, not stored.

| Model | Code |
|---|---|
| `phase`, `attempt` | where the download task stands (`none` before `write()`; `backoff` is tenacity's sleep) |
| `len`, `recv`, `headersOf` | `len(cache_data)`, bytes of this response, the attempt `file_headers` come from |
| `completed`, `error` | the attributes of that name |
| `reader[r]` | the generator of one call of `read`: `cur` is `current_index`, `out` the index up to which bytes were yielded |
| `Write`, `Retry` | `write()` creating the task; the next attempt, with the reset at the top of `_write` |
| `Respond`, `Chunk`, `Finish` | accepted response, `aiter_bytes`, end of the body |
| `RequestError`, `GiveUp` | an `httpx.RequestError` with attempts left; what leaves `_write` and is caught by `_run_write` |
| `Read`, `Begin`, `Wake`, `Resume`, `Disconnect` | the call, first step, wake-up from the condition, step after a yield, close or cancellation of a generator |

`Source`, `Stage` and `View` are the refinement mapping to `RangeStream`.

### TaskRegistry and TaskManager

`TaskRegistry` is a flat table whose expired entries stay readable until a sweep
takes exactly them. `TaskManager` is the nested dict with the pruning of
`remove_task`, a clock in seconds and the cleanup loop; `Flat` is the refinement
mapping.

### FileStorage

`final[d][r]` and `tmp[d][r]` are the files of a cache directory by the range in their name:
the number of bytes each holds, or `Absent`. A file is named by the range of the request
that saves it, and filled from the writer registered under the sub key, which another request
or a prefetch may have made for a shorter head: `SameKey` says which writers a request can
meet, `Handed` what `read` then hands out before it ends, which nothing compares with the
name. `record`, `sysSize`, `sysCount` are the rows of the two
tables, `table` is the table the shared handler was last set to, `pending` the
`update_score` tasks waiting to run. A job is one call of `write_to_disk`:

    idle -> lock -> clear -> fill -> rename -> renamed -> done
              |       |        |        |         |
              v       +--------+--------+         +--> failed (file gone at stat)
           skipped             v
                             undo -> (unlink) -> failed

and from everywhere to `cancelled`, or `orphaned` if the rename was done, by the
90 s limit or a restart. `Release` is part of every action that leaves the `async
with`; the handler that removes the `.tmp` file runs after it, in two awaits,
as in the code. `Commit` is the whole of `_update_cache_stats` (no suspension).
`RemoveEntry`, `RemoveEntryFails` are `_remove_cache_entry`; `Crash` is a restart on the same
disk and database, `CrashInCommit` one between the row and `system_info`, `CrashInRemoval`
one inside a removal: in the middle of `rmtree`, before the row goes, or between the row and
`system_info`. `torn` and `evicted` record that a restart fell between two writes to the database,
or that a directory was removed or half removed, for properties that exclude it.
`Sums` is the sum of a function over a finite set, for the totals of this module and of
Cleanup.

One assumption is made about threads: a rename that a thread has begun ends
before another job of the same directory, which can only start once the cancelled
one released the lock, gets as far as opening its file.

### CacheSystem

One media file: two sub keys, their registered writers (`reg`), the writers
(`writer`, reduced to ChunksWriter's outcome plus `idle` for "registered, `write()`
not yet called"), what is on disk, the markers `disk_writer_*`, the requests and
the tasks `_write_to_disk`. The composition uses what the components promise:
a reader of a settled writer ends (`StreamsEnd`), a table of two keys
(`TaskRegistry`), a write to disk that leaves a file under the name of the range, never a piece
of a failed write, or nothing (`AsWritten`, `JobsEnd`). `own` is the writer a request is to
start, `w` the one it reads, which `get_cache_file` looks up anew.

| Model | Code |
|---|---|
| `Arrive` | `redirect.py` up to the branch on `cache_exist`, with `get_cache_status` as it behaves there, and `get_cache_file` on a hit |
| `Prefetch` | `cache_next_episode` for this file |
| `UseWriter`, `JoinWriter`, `NewWriter` | `_get_writer` and the check of `writer.task` |
| `UrlFails`, `UrlArrives`, `UrlArrivesAndWarmsUp` | the rest of `start_write_cache_file`, `_warm_up_tail_cache`, then `get_cache_file` |
| `ReadEnds`, `Disconnect` | end of the response, client gone |
| `Settle`, `Expire` | a download ends; a registration is older than 180 s |
| `Begin`, `WakeUp`, `Abort`, `Save`, `SaveFails` | `_write_to_disk` |
| `Evict` | cleanup |

Left out of this module because a component module has it or it cannot
matter: a tail request that starts before the writer's range (500; it is in
`ChunksWriter` as `refused`); the marker's own expiry (its 300 s outlive the at most
about 150 s of a call). The raw link manager is shared by the copy of the request that
the warm-up makes and has its link by then, so the warm-up does not suspend
and is part of the step that received the url.

### RawLinks

`RawLinkManager` and `RawLinkTask` for one path and one user agent, by which both the
registry and the cache of links are keyed. A link is named by the task that fetched it.

| Model | Code |
|---|---|
| `task[t]` | a `RawLinkTask`: running, done or failed, its attempt, when it was created |
| `reg`, `regUntil` | the entry of TaskManager and its expiry (600 s) |
| `cache`, `cacheUntil` | aiocache's entry and its expiry (3600 s) |
| `mgr[m]` | one `RawLinkManager`: `url` is `raw_url`, `on` the task it awaits or has awaited |
| `CreateTask` = `UseCached`, `Reuse`, `Start` | the three ways through `create_task` |
| `FetchRetries`, `FetchSucceeds`, `FetchFails` | `_run` with the retries of `precheck_strm`, `get_alist_raw_url`, `get_emby_raw_url` |
| `GetRawUrl` = `AtHand`, `Lost`, `Receive`, `Refuse`, `Wait` | `get_raw_url` up to its end or the await of a running task |
| `Wake`, `Leave` | the awaited task is over; the client leaves (`asyncio.shield` keeps the task) |
| `ExpireTask`, `ExpireLink` | TaskManager's loop, aiocache's timer |

aiocache's memory backend does not suspend, so `create_task` is one step and two managers
cannot both find nothing. (aiocache wraps each operation in `asyncio.wait_for`, which runs
it in the calling task from Python 3.12 on; before that it would suspend.) A step
of the clock is long compared to a fetch and short compared to a lifetime: `Tick` waits
until no fetch is under way. Managers that await the same task are resumed by the loop one
right after the other; the model lets other steps fall between, which allows more
behaviours than the code has. The provider is a free choice of outcomes; what
`get_emby_raw_url` searches its answers for is not modelled.

CacheSystem does not include RawLinks: for it a url arrives or does not
(`UrlArrives`, `UrlFails`), and `WaitersAnswered` is why its fairness may assume one of the two.

### RangeResponse

The answer to one request: what `redirect.py` decides from the Range header, the size of
the file and what is cached, what it announces, and which bytes then go out, from
`get_cache_file`, `merged_stream` and `reverse_proxy`. A byte is its position in the file and a
chunk a run of them, so that the arithmetic of the code - inclusive and exclusive
ends, indices into a buffer that begins at the tail, the offset at which the proxy goes on -
is the model's. The other modules keep what this one has as free choices: a writer found
in memory either delivers its range or fails (`ChunksWriter`), a file on disk holds its range or
what a shorter writer had of it, or is gone when opened (`FileStorage`), and another request may
have registered the writer first (`CacheSystem`).

| Model | Code |
|---|---|
| `file`, `req` | `file_info` (`size`, `head` = `cache_file_size`) and the request: form of the Range header, its ends, the `User-Agent` of a high-compatibility client, `HEAD` |
| `mem`, `disk` | the ranges of registered writers by sub key; the files in the cache directory, `[lo, hi, last]`: the range in the name and the last byte there is |
| `code`, `announced` | status and `Content-Length` of the answer |
| `src`, `at`, `cut` | the cached range read, the index in it, a stream that ended early without raising |
| `pos`, `whole`, `short` | the next byte of the proxied answer; whether its server ignored the Range header; whether its body ended before the range did |
| `sent`, `misplaced` | `bytes_sent`; whether a byte went out at the wrong place |
| `Redirect`, `Refuse` | `temporary_redirect` (no Range header, neither head nor tail); 416, or 500 for a header that `int()` refuses |
| `Direct`, `AnswerHead`, `Merge` | `FULLY_CACHED` or a cached tail; the answer to HEAD; `stream_handler` on a hit that is to go on, or on a miss |
| `StartWrite`, `StartFails` | `start_write_cache_file`, by its result |
| `CacheChunk`, `CacheRaises`, `CacheCut` | a chunk of `read` or `_stream_file`; the writer's error; the end of the stream by an error that is only logged |
| `DirectEnds`, `CacheEnds` | the end of `get_cache_file`'s generator; after it, `merged_stream`'s choice to stop or to go on |
| `ProxyOpens`, `Relay`, `ProxyEnds`, `ProxyFails` | `reverse_proxy`: 206 or 200, its chunks cut to what is left, a body that ends early without an error, its errors |

`OtherHeads` are the heads that `cache_next_episode` leaves behind: it copies the ranges of
the episode before, whose head may have had another length.

### Scores and Cleanup

`Scores` is the formula of `score_calculator.py`, in integers with stated denominators; it
has no state. `Cleanup` is the scheduler, the policy and the rows they work on. A unit of
time is a day, the unit of protection, which is also the granularity with which a file
system mounted `relatime` keeps access times.

| Model | Code |
|---|---|
| `row[e]`, `total` | the row of a directory in `cache_files`; `cache_size` of `system_info` |
| `file[e][p]` | the files of the directory, with their access time and the one before it |
| `saving[e]` | the file that a `write_to_disk` is writing under `e` |
| `torn`, `lost` | a restart fell between a row and `cache_size`; directories that lost a file since `last_read_time` was set |
| `next`, `created` | `next_run_time`; executions that the last round created and that have not begun |
| `BeginSave` | `write_to_disk` up to the file: skipped if covered, superfluous files removed without a word to the tables |
| `EndSave`, `SaveFails`, `SaveCutOff` | the rename with its statistics; a write given up; one whose 90 s end between rename and statistics |
| `Access` | `get_cache_file_path` with the update of `last_read_time`, of a file with or without a row |
| `CheckRuns` | `check_and_cleanup`: recalculation, reduction in rounded sizes, `cleanup_by_size` |
| `RecalculateRuns`, `WeeklyRuns` | `recalculate_all_scores`; `force_cleanup_low_scores` |
| `Wake`, `Fails`, `NextRun` | a round of `_run_scheduler`; an execution that raises; `next_run_time` after either |
| `Restart` | a new process on the same disk and tables: `register_cleanup_tasks` |
| `RestartInSave`, `RestartInRecalculate`, `RestartInCheck`, `RestartInWeekly` | the same, after some of the writes of one operation: between the row and `cache_size` of a save, between two rows, between or inside two removals |

Sizes that the code rounds to 0.01 GB are rounded to `Unit`, ties going either way. The
stored score after a second file is a choice of the old and the new one, because
FileStorage shows that the update may be lost. Equal candidates keep the order of the
table, which the model does not have: `Queues` are all orders the sort may leave. A
removal can fail half way where a thread adds to the directory (`hurt` in `Remove`); the
interleaving of saves with each other, and their `.tmp` files, are FileStorage's.

## 4. The runs

| Run | Instance | Checks |
|---|---|---|
| `writer_head` | 2 readers, bytes 0..2, 2 attempts; 150 thousand states under symmetry | `TypeOK`, `EndedIsWhole`, `HeadersMatchData`, `WithinRequest`, `SettledForGood` |
| `writer_tail` | 1 reader, bytes 2..4, starts 0..5, 5 attempts; 13 thousand states | refinement `ImplementsRangeStream`, liveness `StreamsEnd` |
| `task_manager` | 2 types x 2 files x 2 sub keys, lifetimes 1 and 2, 3 s; 30 thousand states | `TypeOK`, `NoEmptyMaps`, `NoOverstay`, refinement `ImplementsRegistry` |
| `file_storage` | 2 jobs, 2 directories, 3 ranges (two nested), 1 stream, 1 restart; 380 thousand states | `TypeOK`, `AsWritten`, `NoNested`, `Accounting`, `DiskAccounted`, `FailureExplained`, liveness `JobsEnd` |
| `cache_system` | 2 requests, 3 writers, 1 expiry, 4 tasks; 573 thousand states | `TypeOK`, `MarkerOwned`, `DownloadOnce`, `SavesSettled`, liveness `MissEnds` |
| `raw_links` | 3 managers, 3 tasks, 2 attempts, lifetimes 1 and 2, clock to 4; 1.16 million states | `TypeOK`, `OneFetch`, `FailureDropped`, `LinkFresh`, `LostExplained`, liveness `WaitersAnswered` |
| `response` | files of 7, 5 and 2 bytes with a head of 3, tails of up to 3, other heads of 2 and 4; 1.47 million states | `TypeOK`, `InOrder`, `WithinAnnounced`, `ShortExplained`, `HitHasContent` |
| `cleanup` | 2 directories of 2 files, 3 days, 3 tasks, 2 saves per row, 1 restart; 1.24 million states | `TypeOK`, `ColdOnly`, `ReachesTarget`, `NoNeedlessEviction`, `LowestFirst`, liveness `CatchesUp` |
| `storage_score`, `system_hang`, `response_short`, `cleanup_protect` | see section 5 | one violated property each |

What the properties say:

* `EndedIsWhole`: a stream that ends normally is whole, unless the download failed
  after the stream began and while the consumer was busy. A reader begun on a settled
  writer (which is what FileStorage does) is whole, as far as the
  writer's own range goes, or raises. `SavesSettled` of
  CacheSystem is the other half of that argument: FileStorage is only ever given
  settled writers.
* `HeadersMatchData`: the headers stored belong to the attempt the bytes come from.
* `WithinRequest`: nobody gets bytes past the end asked for. It is true of heads
  only: a tail request with an end is served past it.
* `SettledForGood`: once completed, outcome and bytes are frozen.
* `StreamsEnd`: a consumer that keeps asking is served, refused or told of the error.
* `NoEmptyMaps`, `NoOverstay`: pruning is exact; an entry is gone in the second
  after its lifetime.
* `AsWritten`: a file under its final name holds all that a writer which completed without
  error had of its range, whatever failed, was cancelled, removed or stopped. It is
  shorter than its name, and a stream from it ends early, only if such a writer was
  that of a shorter range (see section 5). `NoNested`: no file of a directory repeats another.
* `Accounting`: `system_info` is the sum of `cache_files`, unless a restart fell
  between the two writes. `DiskAccounted`: a row owns up to at least the bytes on
  disk, except for files whose job was cut off after the rename. (It may
  claim more: files removed as superfluous stay in the sum.)
* `FailureExplained`: a write whose writer completed fails only if a directory was removed
  under it or another, failing job for the same range unlinked its `.tmp` file.
* `MarkerOwned`: a marker is owned by exactly one call under way.
* `DownloadOnce`: a range is downloaded again only after a registration of its own sub key
  ran out.
* `MissEnds`: a request that missed ends, although it may depend on a writer that a
  failing or leaving request was to start - unless it is stranded. While it waits for its url its
  registration can run out; another request registers the next writer and is given up;
  `get_cache_file` finds that one, and never compares it with the writer that was just started.
  The request then waits for ever. Nothing else excuses a hang.

* `OneFetch`: two fetches of one link are at least 600 s apart, however many requests
  ask, until a failure was reported. (Afterwards they may not be: a manager that is
  told late removes by key whatever task is registered by then.)
* `FailureDropped`: a failed task is handed out while it is registered, but not after
  a manager was told of it.
* `LinkFresh`: a link in the cache is at most 600 + 3600 s old. Its lifetime counts from the
  time it was read, by each reader of the task anew, so 3600 s alone does not hold.
* `LostExplained`: a manager that asks for a link and finds no task is one whose
  registration ran out, or that comes after a reported failure; nothing else loses a link.
* `WaitersAnswered`: who awaits a fetch is answered, also when the client
  that started it has gone.

* `InOrder`: each byte goes out at its place, through the shift into a cached tail, the
  splice with the proxy and the cut at the end; only a server that answers a range with the
  whole file (`network.py:152`) breaks it.
* `WithinAnnounced`: never more than `Content-Length`, but for high-compatibility clients,
  whose answer ends with the file's own head, when the cache holds a longer one.
* `ShortExplained`: an answer that ends without an error and is short either ended with the
  body of the link's server, which nothing compares with the range that was asked for
  (`network.py:94-105,156`), or came from the cache alone. With `InOrder`, a spliced answer
  that ends is exactly the bytes announced, or a beginning of them that ends where
  that body did.
* `HitHasContent`: a hit has something to read, but for the case of section 5.

* `TypeOK` of Cleanup: a row stands for a file that is there, unless one was removed behind its
  back, and `cache_size` is the total of the rows, unless a restart tore an update. Files without
  a row and rows that count files which are gone do occur, and are let be.
* `ColdOnly`: what is evicted has a file that nobody had read for the days of protection
  when it was last asked for. A directory that lost a file since (superfluous, or in an
  `rmtree` that did not come to its end) is excepted: `last_read_time` may be that of the file
  which is gone.
* `ReachesTarget`: after a check that found the threshold reached, the total is down to the
  target, as far as sizes are rounded, or what is left is protected or being written under.
* `NoNeedlessEviction`: without the last entry it removed the check would not have got
  there. `LowestFirst`: nothing with a higher score, as of that moment, goes before
  something removable with a lower one.
* `CatchesUp`: again and again nothing is due, although tasks fail.

Bounds and why they are enough:

* Attempts: 2 shows every difference between a first, a middle and a last attempt that
  safety depends on; `writer_tail` has the code's 5. The theorems of section 7 hold
  for any number.
* Ranges of three bytes: chunks of one, two and three bytes fall before, on and
  after every reader's position. A tail from byte 2 allows requests that start two
  before, inside and past it. The theorems hold for any range.
* Readers do not influence the writer or one another; two show a reader that waits
  beside one that has been served.
* TaskManager: keys that share a type, a file or nothing are there; lifetimes of one
  and two rounds distinguish expired, expiring and live entries. The theorems hold for any
  keys, lifetimes and interval.
* FileStorage: two jobs give every pair of places at which one can be while the
  other acts. Instances of three jobs (one directory; two directories up to
  symmetry, 667 and 380 thousand states) were checked without error and are not kept
  as runs. One restart is enough as the second would start from a state of the same
  kind. The theorems hold for any jobs, directories, ranges, streams and restarts.
* CacheSystem: two requests and four tasks to save show "two start", "one
  starts, one joins", "one starts, leaves, the other goes on"; one expiry
  gives two writers for the same key at once. The theorems hold for any number of requests
  and expiries; the number of writers is no bound on the system (`WritersSuffice`).

* RawLinks: three managers show one that starts, one that shares, one that comes after
  a failure or an expiry. The clock passes the sum of the lifetimes (3) by one, so that
  a link that is too old would be seen. The theorems hold for any numbers.

* RangeResponse: a file longer than head and tail together, one in which they overlap
  and one shorter than its head; every start and end in them, every combination of writers
  and files, every split into chunks. The theorems hold for any sizes.
* Cleanup: one directory with a head that may first have been saved shorter (1 unit inside
  4), one with a head and a tail (2 and 2). The tables count up to 9 units, the threshold is 8
  and the target 6: a check removes one directory or both, files of one directory differ in
  age, and a superfluous file makes the row larger than the disk. `Unit` 2 makes rounding go
  wrong by as much as a small entry. A protection of one day and a clock of three days
  give entries that are protected, on the edge, and cold; the intervals of 1, 2 and 2 days
  make all three tasks due at once. `MinScore` is set where the scores of these young entries
  fall if nobody reads them, so that the weekly cleanup has something to remove. `MaxSaves` lets both files of a
  directory be saved under one row. One restart, at any point. The theorems hold for
  any directories, sizes, limits, intervals, saves and restarts.

Deadlock is not checked where all jobs, readers, requests or managers may be over, nor in
`cleanup`, whose clock stops at its bound;
TaskManager's loop never stops, and there it is checked.

## 5. Where the code disagrees with itself

In four runs TLC finds the counterexample to what a comment or a docstring says.

* **`storage_score` / `ScoreFresh`.** The score recalculated on access is to be
  stored by a task (`file_storage.py:375,381`), but the shared handler has
  been switched to `system_info` by the time it runs, and the update matches no row.
* **`system_hang` / `ReadersServed`.** A writer is registered before its url is known.
  If the url fails or the client leaves, the writer stays registered and is a hit for
  the next request, which waits on it; nobody will ever call `write()`.
* **`response_short` / `FullyCachedServed`.** The branch for ranges "entirely within the
  cache" (`redirect.py:119-123`) compares an inclusive end with a size: a range that
  ends with the first byte after the head is answered from the head, one byte short.
* **`cleanup_protect` / `ReadIsKept`.** "A cache that was accessed in the last N days is
  not removed" (`config.py:61`). `last_read_time` is the file's access time from before the
  request, so a record can be removed right after it was read.

Further observations, which the properties above are stated around and which have no
run of their own:

* The docstring of `create_task` (`cache/manager.py:92`) and the comment at `cache/system.py:80`
  say that `ttl=None` sets no expiry. `create_task` then takes `default_ttl`, 300 s
  (`manager.py:94-95`): the marker of a write to disk, and any entry registered so, expires
  like the others (`Lifetime` in TaskManager, `NoOverstay`).
* The docstring of `get_alist_raw_url` (`providers/rawlink/alist/rawlink.py:21`) gives a link a
  cache of 5 minutes. It is cached for 3600 s, up to 4200 s after its fetch (`LinkFresh`); a
  manager that has it keeps it for good.
* The docstring of `_stream_file` (`file_storage.py:150-152`) promises `FileNotFoundError` and
  other exceptions. They are logged and the stream just ends (`cut` in RangeResponse; `empty`
  in FileStorage).
* The writer a request saves may be that of a prefetch with a shorter head
  (`system.py:57-59,202-204`): the file is then shorter than its name, `_is_already_fully_cached`
  takes it for the range from then on, and who reads it gets less (`AsWritten`, `Saved` in
  RangeResponse).
* The last resort against hanging readers (`writer.py:134`) does not help a request that missed
  either, if its registration ran out while it waited for the url (`Stranded` in CacheSystem).
* `reverse_proxy` checks the status and neither length nor `Content-Range`: a body that ends
  early ends the answer short without an error (`ProxyEnds`).

* The comment at `cache/writer.py:37-42` has the cached tail widened when a later request
  starts earlier; only `smallest_request_start_point` is updated, which nothing reads, and
  the request ends with status 500 (`refused` in ChunksWriter).
* `redirect.py:105` asks for the status before it has classified the request, so the
  writer of the head makes a request for the tail a hit; its content is looked up under
  `tail` and is `None` (`HitHasContent`).
* After the polls at `system.py:87-90` a writer that was found completed is given up like
  one that was not (`Abort` in CacheSystem).
* The docstring at `providers/manager.py:71` has `get_raw_url` start a task by itself. It
  only looks one up, and raises if it is gone (`LostExplained`).
* A file shorter than its head is never cached: the writer asks for more than there is, and
  every attempt fails its check of the length (`writer.py:104`; `Exists` in RangeResponse).
* "bytes=-500" is answered with status 500 (`Refuse`).
* The popularity factor has steps that fall with the frequency, so that a record can gain
  by not being read (`score_calculator.py:62`).
* A failed task waits its full interval, whatever `max_retries` says, and stopping the
  scheduler does not stop what it created.

## 6. Fairness

* `ChunksWriter!Fairness`: weak fairness of the download once it was started (httpx
  times out after 30 s, tenacity's sleeps end, the loop runs what is ready), of a
  notified reader, and of a consumer that took its bytes: it asks for more unless it
  goes away. Nothing forces anybody to call `write()` or to disconnect.
* `FileStorage!FairSpec`: weak fairness per job (threads finish, the loop resumes).
  The lock of a directory is FIFO and each job asks for it once, so weak fairness of
  `Acquire` is no more than the code gives. Timeouts, removals and restarts are free:
  `JobsEnd` does not need the 90 s limit.
* `CacheSystem!FairSpec`: weak fairness of the disjunction of all steps the system
  does of itself. None of them can repeat for ever, so this weaker assumption
  suffices; clients, expiry and eviction are free.
* `RawLinks!FairSpec`: weak fairness of the fetches (each request has a timeout and their
  number is bounded) and of the wake-up of each manager whose task is over. Nobody has to
  ask, to stay, or to come back; the clock is free.
* `Cleanup!FairSpec`: weak fairness of the round of the scheduler and of each execution it
  created: the loop resumes the one and begins the other, and an execution does not suspend
  before its end, whether it succeeds or raises. Saves, requests, failures, restarts and the
  clock are free.
* TaskManager: none; `NoOverstay` is a safety property of a clock that does not
  run past the round that is due.

## 7. What is proved

Every safety property, action property and refinement that a passing run checks is also
a theorem, for every value of the constants that the assumptions allow. What is assumed
is said for each module below; the bounds on time, restarts and expiries are among the
constants, so no theorem depends on how large they are. Each `Invariance` is proved from
`Init => Inv` and one lemma per action or kind of step (`...Inv`, `...Step`), and the other theorems
from `Inv`.

`ChunksWriterProofs` holds theorems for every range, number of attempts and set of
readers, under `WriterAssumption` (a non-empty range of naturals; a head starts at
0; at least one attempt) and nothing else.

| Theorem | Statement |
|---|---|
| `Invariance` | `Spec => []Inv` |
| `TypeCorrect` | `Spec => []TypeOK` |
| `EndedWhole` | `Spec => []EndedIsWhole` |
| `HeadersMatch` | `Spec => []HeadersMatchData` |
| `HeadWithinRequest` | `~Tail => (Spec => []WithinRequest)` |
| `Settled` | `Spec => SettledForGood` |
| `Refinement` | `Spec => ImplementsRangeStream` |

The properties are not inductive as they stand. `Inv` adds two things to the types:

* `Outcome` ties what consumers see to where the task stands: `completed` exactly in
  phase `done`, `error` only then, a completed download without error filled the
  buffer, the headers are those of the running attempt while it streams. Without
  it, `SettledForGood` could be broken from a state in which a completed writer is
  still streaming.
* `Honest(r)` ties a reader to the outcome: one that waits has handed out all it has
  passed, one that was started on a settled writer is never between two yields after
  an error, and one that has ended is whole or was overtaken by an error.

The proof goes action by action (`StartAttemptInv`, `ResponseInv`, `SettleInv` for the
download; `LoopInv`, `ReadInv`, `ReaderInv` for the generators); `LoopStops` says once
what the loop of `read` can stop with. The refinement uses `Inv` and shows that each
step is a `Settle`, `Open`, `Deliver`, `End`, `Break`, `Leave` of `RangeStream` or a
stutter (`DownloadRef`, `LoopRef`, `ReaderRef`).

`RawLinksProofs` holds theorems for every set of managers and tasks, number of attempts,
both lifetimes and the clock's bound, under `LinkAssumption` (`None` is not a task;
the numbers are naturals, attempts and lifetimes not 0).

| Theorem | Statement |
|---|---|
| `Invariance` | `Spec => []Inv` |
| `TypeCorrect` | `Spec => []TypeOK` |
| `Coalesced` | `Spec => []OneFetch` |
| `Dropped` | `Spec => []FailureDropped` |
| `NoStaleLink` | `Spec => []LinkFresh` |
| `Obtainable` | `Spec => []LostExplained` |

`Inv` is `TypeOK` and `OneFetch` with what they need: `Registered` ties a registration's
expiry to the start of its fetch, `Cached` the link's to it, and `Waiting` keeps who awaits a
task within its registration's lifetime - otherwise such a manager could cache a link that
is older than `LinkFresh` allows. `Kept` says that before a reported failure only the clock
ends a registration, without which a second fetch could start early. `Told` keeps the
failure that was reported from being registered again. The proof has a lemma for the
fetches (`FetchInv`), one for `create_task` (`CreateTaskInv`), two for `get_raw_url`
(`AnswerInv` when the task it found is over, `GetRawUrlInv` for its other ways) and one for
time and expiry (`TimeInv`). `Obtainable` needs `Asked` besides: a manager that has not got a
link yet was created when a task was registered, which since then either still is, or was
reported as failed, or has outlived its registration (`AskedInv`); `Stays` says which steps
leave that alone.

`RangeResponseProofs` holds theorems for files, heads and tails of every size and for every
combination of writers and files on disk, under `ResponseAssumption` (sizes are
naturals and not 0; `None` is neither a number nor a range).

| Theorem | Statement |
|---|---|
| `Invariance` | `Spec => []Inv` |
| `TypeCorrect` | `Spec => []TypeOK` |
| `BytesInOrder` | `Spec => []InOrder` |
| `NotTooLong` | `Spec => []WithinAnnounced` |
| `ShortHasItsReason` | `Spec => []ShortExplained` |
| `HitsHaveContent` | `Spec => []HitHasContent` |

The four properties speak of what has been sent; `Inv` adds where the next byte comes from.
`Aligned`: while the cache is read, the index in the cached range and the number of bytes
sent point to the same byte. `Joined`: the same of the proxied answer, if its server
honoured the range. `Rest`: the proxy is only asked by clients that want more than the
cache had. `Lone`: an answer from the cache alone announced nothing, or a tail. `WholeLate`:
until the proxy answered, no byte can be out of place. Without `Aligned` and `Joined`,
`InOrder` could be broken by the next chunk; without `Rest`,
what is left to send could be less than nothing when the proxy's chunks are cut to it. That a
server's body may end early without an error is one of the reasons `ShortExplained` admits
(`ProxyEndsInv`). `Opened`, `Closed` and `BrokenOff` say once what a step that opens,
ends or breaks off a stream has to show, and `OverShort` why a cached range that is over is
short.

`TaskManagerProofs` holds theorems for any types, file ids, sub keys, lifetimes and interval,
under `ManagerAssumption` (`None` is neither a lifetime nor an instance; lifetimes and
interval are positive).

| Theorem | Statement |
|---|---|
| `Invariance` | `Spec => []Inv` |
| `TypeCorrect` | `Spec => []TypeOK` |
| `NothingLeaks` | `Spec => []NoEmptyMaps` |
| `EntriesExpire` | `Spec => []NoOverstay` |
| `Implements` | `Spec => ImplementsRegistry` |

`InsertIs` and `WithoutIs` carry the argument: setting a leaf of a dict of dicts of dicts that has no
empty map leaves it without one and changes that key alone; taking keys away, and the maps
that empty with them, leaves exactly the other keys. `Inv` adds that to the types (`Shape`)
and, for `NoOverstay`, that an entry expires later than one interval before the next round
(`Fresh`): what had expired at the last round was taken then, and what came after it lives
at least as long. With `FlatIs`, the same two lemmas make every step one of `TaskRegistry`
(`CreateMaps`, `WithoutMaps`, `NextMaps`).

`CacheSystemProofs` holds theorems for any number of requests and expiries, with and without
a disk, under `SystemAssumption` (`None` is not a writer, and there are as many writers as
sub keys and expiries together). The bound on the expiries is one for both sub keys, their count is
kept for each.

| Theorem | Statement |
|---|---|
| `Invariance` | `Spec => []Inv` |
| `TypeCorrect` | `Spec => []TypeOK` |
| `MarkerHasOneOwner` | `Spec => []MarkerOwned` |
| `OneDownload` | `Spec => []DownloadOnce` |
| `SavesAreSettled` | `Spec => []SavesSettled` |
| `WritersSuffice` | `Spec => []((\E k \in Keys : reg[k] = None) => CanCreate)` |

`RegLive`, `ReqLive` and `SaverLive` say that whoever holds a writer holds one that was
created, of its sub key, and that a task in `write` holds a settled one, which stays
settled (`Grow`, `GrowKeeps`). `OneOwner` is the marker, as a set of the calls that are past its
check: each step moves one call, so the set grows or shrinks by that call
(`ActiveAfter`, `OwnerLeaves`). It needs `Unsaved`: a request that awaits its url has not
created its tasks before, so creating them cannot overwrite one that owns a marker. `Births` counts: the
writers of a sub key are its registered one and those whose registration ran out, so
a download beyond the first costs an expiry. That the bound on the writers is never what
stops a request is the theorem `WritersSuffice`.

`SumsProofs` proves what the next two modules need of sums over finite sets, up to
`SumRemove` (any element may be taken first), `SumSubset` and `SumSplit`. The library's induction on finite
sets takes a predicate as a parameter and cannot be used; the proofs take a minimal
counterexample instead, which exists because strict inclusion in a finite set is
well-founded (`MinimalSet`). `FoldSet` itself is such a recursion: `RecExists` and `RecUnique`
show that there is one function that satisfies it.

`FileStorageProofs` holds theorems for any directories, ranges, jobs, streams and restarts, under
`StorageAssumption` (a range is two naturals in order; `None` is neither a job nor a row). None
of these sets has to be finite.

| Theorem | Statement |
|---|---|
| `Invariance` | `Spec => []Inv` |
| `TypeCorrect` | `Spec => []TypeOK` |
| `FilesAsWritten` | `Spec => []AsWritten` |
| `NothingTwice` | `Spec => []NoNested` |
| `FailuresExplained` | `Spec => []FailureExplained` |
| `TotalsAgree` | `Spec => []Accounting` |
| `BytesAccounted` | `Spec => []DiskAccounted` |

`Inv` has five parts, proved one after the other.

* `Core`: the jobs, locks and files. A job inside the lock is the one it names (`Owner`),
  what is about to be renamed holds all that the job's writer handed out (`FilledTmp`), every file
  under its final name came from such a job (`Written`), and what the job found when it took the lock
  still holds at the rename: no file covers its range, and those it covers are still
  to be removed (`Cleared`) - of which `NoNested` is the consequence. `Explained` says of each
  job that is not excused that all it relies on is there; the unlink of a `.tmp` file outside the
  lock is the one step that can take it from another job, and only one for the same range.
* `DataTypes` and `Streamed`: the tables are tables, `Clamped` keeps the totals natural; a
  stream that ended early found a file whose job had a shorter writer (`Streamed`).
* `Accounted`: the rows present are finite in number and `system_info` sums them. `RowStep`
  reduces all steps to three: one row changes with its file, one row goes, none does.
* `OnDisk`: the files that count, which are those no job is still to account for, add up
  to no more than the row claims. `JobFiles` shows that a step adds to them only the file
  it accounts for in the same step, also when another job for the same range is cut off
  between its rename and its row.

`CleanupProofs` holds theorems for any directories, sizes, limits, intervals and numbers
of saves and restarts, under `CleanupAssumption` (the target is not above the threshold; units and
intervals are positive; `None` is neither row nor file nor the name of one; no
file lies within itself).

| Theorem | Statement |
|---|---|
| `Invariance` | `Spec => []Inv` |
| `TypeCorrect` | `Spec => []TypeOK` |
| `ColdIsEvicted` | `Spec => ColdOnly` |
| `TargetReached` | `Spec => ReachesTarget` |
| `NothingInVain` | `Spec => NoNeedlessEviction` |
| `LowestGoFirst` | `Spec => LowestFirst` |

`Inv` relates rows to files (`Agrees`): the dates of a row are past, and, unless the directory lost
a file since, one of its files was last read, before the last request for it, no later
than the row says. That is what `ColdOnly` needs: the policy sees only `last_read_time`, and
it lags behind the files. `Total` is the sum that a check starts from, unless a restart tore
it; `Timely` is the scheduler's part. Removals are proved once, for a run that a failing
`rmtree` or a restart stops anywhere: `RemoveInv` says what `Remove` leaves for any set of
entries that go, that go without being counted, or that lose files.
`Taking` is the lemma about `cleanup_by_size`: whatever order the sort leaves, and whichever
removals fail, the entries taken are candidates, they are all or free enough, without the
last one they do not, and none sorts after one that is left (the least index at which enough is freed
exists by `LeastIndex`). `CheckRemoves` and `CutRemoves` carry it over to a check that
ends and to one that a restart cuts off. With `ReductionIs`, the error of the rounded
sizes, they give the three action properties of a check. Of the formula of the scores only
the range is used (`ScoreIn`).

## 8. Only model-checked, or not modelled

Only model-checked: `StreamsEnd`, `JobsEnd`, `MissEnds`, `WaitersAnswered` and `CatchesUp`.
Liveness under fairness and `ENABLED` are beyond the proof system. So are the four
violations of section 5, which are counterexamples.

Modelled in part:

* Scores: the formula, and when it is computed and stored. `Scores` agrees with
  `score_calculator.py` up to the roundings it states; no property is about the values.
* TinyDB: the table that is selected. Not its file format.
* Alist and Emby raw links: attempts, outcome and lifetime of a fetch. Not what an answer is
  searched for.
* `AppContext`: the registration of the scheduled tasks. Not the order in which the
  singletons are made and stopped.

Not modelled, because there is no state that lasts from one call to the next:

* Playback info, Emby client and items, paths, configuration, logging: single HTTP calls
  or text handling. What they answer is a free choice in the modules that use them.

Not modelled, because nothing calls it: `cache/safety.py`; `manual_cleanup` and
`get_cleanup_preview`; `get_task_status` and `list_all_tasks`; `CacheScoreCalculator`, its
factor classes and `explain_score`; `calculate_and_update_score`; `verify_cache_file`; `warm_up_remote_fs`. The
options `CACHE_NEXT_EPISODE` and `FORCE_CLIENT_RECONNECT` are read by nothing.

## 9. Plan

1. Done: `RangeStream`, `ChunksWriter` (+ proofs), `TaskRegistry`, `TaskManager`,
   `FileStorage`, `CacheSystem`, `RawLinks` (+ proofs), `RangeResponse` (+ proofs), `Scores`,
   `Cleanup` and their MC modules.
2. Done: proofs of TaskManager, CacheSystem, FileStorage and Cleanup, with the sums the last two need.
3. A proof that CacheSystem's writers behave as ChunksWriter's outcome allows, and its saves
   as a job of FileStorage does: today the composition is by the properties named in section 3.
4. The safety halves of the liveness arguments: `JobsEnd` and `MissEnds` each rest on an
   invariant that says who can still move, and a measure that each step lowers.

None of the modules declares a RECURSIVE operator: the prover does not accept one.
