# Formal models of Ask-about-Piotr

TLA+ models of the application's own control logic, the TLC runs that check them on small
instances, and TLAPS proofs of the properties that matter most for every instance.

The application answers questions about one person from a set of Markdown cards. A browser page
posts a question to a FastAPI backend. The backend routes the question to categories with a language
model, retrieves chunks of the cards from Postgres/pgvector, has a language model write an answer
from them, and returns the answer with its evidence. A container migrates the database and ingests
the cards before it starts to serve.

## 1. Inventory

Paths are relative to `src/`; `app/` is `backend/app/`, `scripts/` is `backend/scripts/`.

| Component | State | Operations | Correct when |
|---|---|---|---|
| Chat pipeline, `app/main.py` `chat()`, `app/llm.py` | per request: routed categories, budgets, chunks, synthesis | accept, rewrite, route, admit, allocate and clamp budgets, retrieve per category, merge, pin, cap, synthesize, judge, retry once, force coverage, respond | a reply is an error, a refusal without evidence, or an answer that cites chunks stored while it was made; budgets and evidence stay under the cap; every routed category that retrieved something is cited; every request ends |
| Evidence selection, `app/main.py` 403-477, `app/retrieval.py` 691-933 | none (pure) | budget policy, clamp, merge, pinning, cap with coverage, forced coverage | pins and coverage survive the cap when they fit; choices are well defined |
| Retrieval, `app/retrieval.py` 68-688 | of one pass: rows, what is kept, deferred, selected; a connection per pass | query, cut off or fall back, weigh sections, select in three rounds | within the limit; empty only when the query is; cutoffs are hard; no card crowds out another; titles crowd out nothing |
| Interaction logging, `app/interaction_logging.py` | two module flags per worker process; the table | insert, create the table once, retry, disable | no row twice, one creation per process, never disabled without cause, never blocks |
| Prompt cache, `app/prompt_cache.py`, `app/openai_client.py` | ordered dict per process, no lock | look up, drop, move to end, store, evict | bounded by `max_entries` and the threads inside `set()`; expired answers stay unusable; races cost at most a duplicate call |
| GeoIP, `app/geoip.py` | dict per process, no lock | lookup, prune | best effort: never fails a request, bounded |
| Migrations, `scripts/run_migrations.py`, `db/migrations` | `schema_migrations`, the schema, an advisory lock | create the ledger, lock, plan, apply, unlock, commit | ledger and schema agree; one runner; safe to repeat |
| Ingestion, `scripts/ensure_ingested.py`, `scripts/ingest_cards.py` | `knowledge_chunks`, `knowledge_ingestion_state`, an advisory lock | count, hash, lock, skip or load and rebuild, record | one at a time; nothing recorded that was not ingested; what is served is current |
| Start-up, `entrypoint.sh`, compose files | where a container is | run both scripts, fail fast or go on, restart | every container comes to serve |
| Session middleware, conversation, page: `app/main.py` 236-288, 555-600, 1069-1104, `frontend/app/page.tsx` | the browser's cookie; per tab the messages, loading flag, conversation id and last topic; nothing on the server | submit, answer, fail, deliver, lose, reload | turns alternate; one load of a tab is one conversation with its own topic; the session id settles; a tab never loads for ever |
| Configuration, privacy, card parsing, embeddings, quality counters, log format | none | pure functions, calls | inputs of the parts above |

How they interact. `chat()` is a synchronous handler: gunicorn workers run it on a thread pool, so
requests of one process run at the same time and share the prompt cache, the GeoIP cache and the
logging flags, and nothing of the pipeline. The log record is written by a background task after the
response. Replicas and workers meet only in Postgres: its tables, its advisory locks and its
transactions; a container that starts may rebuild the knowledge base between two retrieval passes of a
request another one serves. The page and the server share the conversation id and last topic, each
echoing what the other sent, and the tabs of a browser share its cookie.

What is hard to test here: the loops that take budgets, pins and evictions down to a cap while
several promises are to be kept at once; a model that may answer anything, twice; flags and caches
shared by threads without locks; answers that are late, lost or arrive at a tab that was reloaded; scripts of two replicas interleaved with crashes between a
transaction, its lock and its record; and what was read before a lock, or from an earlier corpus, and
used afterwards.
`PROJECT.json` lists every such hazard at its line with the properties that cover it, or why none
does yet.

## 2. Modules

| Module | What it is |
|---|---|
| `Evidence` | pure rules: budgets, clamp order, chunk order, merge, provenance, pins, eviction, forced coverage |
| `ChatPipeline` | the request from acceptance to reply, one action per stage or loop turn; extends `Evidence` and `RetrievalContract` |
| `RetrievalContract` | what a retrieval pass promises: assumed by `ChatPipeline`, kept by `Retrieval` |
| `Retrieval` | one pass, from its query to its selection, row by row |
| `PromptCache` | the threads of a worker on the cache of model calls |
| `Conversation` | tabs, wire, cookie and the stateless server between them |
| `GroundedAnswer` | the abstract promise of `POST /chat`; `ChatPipeline` implements it (`GroundedPromise`) |
| `InteractionLogging` | writers of several processes, their flags, the table |
| `Startup` | replicas running migrations and ingestion against one database |
| `MCChatPipeline`, `MCRetrieval`, `MCInteractionLogging` | constants of the runs (the other modules need none) |
| `LeastElements` | lemmas: finite totally ordered sets and sets of naturals have a least element |
| `EvidenceProofs`, `ChatPipelineProofs`, `RetrievalProofs`, `PromptCacheProofs`, `ConversationProofs`, `InteractionLoggingProofs`, `StartupProofs` | theorems |

`PROJECT.json` "map" gives, per definition, the lines it stands for. Definitions whose names end in
`_Something` after the name of an action or operator are mutants of it, a bug someone could plausibly
write; no specification uses them, and each property is known to fail under one.

### Evidence and ChatPipeline

A chunk is its deduplication key (card, section, content); its number is its place in the order that
breaks ties. A routing category is its place in alphabetical order, because the code breaks ties by
name. `Dist` is the distance to the question at hand. Everything the code computes from text
(prompts, wording, topic, counting of words) is left out; what it decides by is kept: the kind of an
answer (refusal, short, full) and the indices it cites.

The variables follow the locals of `chat()`: `raw` and `routed` (lines 631-672), `budgets` (674-686),
`retrieved` (748-783), `prov` for the merged chunks with `origin_routing_category`,
`origin_routing_categories` and `is_pinned` (785-830), `rules` for the loop of `apply_pinning`,
`chunks` (842), `synthesis` and `retried` (877-999), `reply`. Loops (admission, clamp, pinning,
eviction) are one action per turn, so that their termination is a question and not an assumption.
Calls that leave the process are nondeterministic: the router answers with any list of
`RouterReplies` or fails into the classifier, a retrieval pass returns anything `Passes` allows, the
model cites any subset, and any of them may raise (`CanRaise`, `RequestFails`), except where the code
catches. Requests share none of this state, so one at a time is modelled.

Every pass opens its own connection, so it sees what is `stored` when it runs, and `Ingest` may replace
that at any moment with another version of the cards: one request can merge chunks of two versions and
find the card of a pinning rule gone. `corpus` is a history variable, what was stored at any time since
the request came; `GroundedAnswer` promises citations from it (`Rebuild` is its step for a change).
`retrieve_for_card` may return any stored chunk of its card.

### Retrieval

`request.kind` tells `retrieve` ("plain"), `retrieve_for_category` and `retrieve_for_card` apart. The
query hands over rows one at a time, nearest first (`FetchRow`), and may stop before the last one:
that stands for its LIMIT and for the approximate index. `Cut` is the hard cutoff with its
fallback to at most the nearest three; `Penalty` and `Bonus` are the section penalties and the clipped
weights; `VisitFirst`, `VisitDeferred` and `Fill` are turns of the three selection loops (lines
244-289 and their copies for a category). Sections are what the ranking takes them for:
low-signal ones by name, the others by length. Distances and weights are hundredths. Which chunks are
selected is modelled, the order they are returned in is not: the pipeline sorts them again, or, on the
single-category path, is modelled for any order (`FirstChunks`).

### PromptCache

`lru` is the `OrderedDict` of `TTLRUCache`, oldest first, and `expired` the keys past their lifetime.
A call on the dict is atomic under the interpreter's lock and another thread may run after each one, so
`get()` is `Start` (it reads the clock), `Lookup`, then `Drop` or `Touch`, and `set()` is `Assign`,
`Check` and `Evict`, with `ModelCall` between them. `move_to_end` on a key and `popitem` on a dict
that another thread emptied meanwhile raise (`raised`). `late` is what the thread's clock reading says
of the entry; since an entry stored later has a later deadline, it is false again for a key just stored.

### Conversation

A page is a tab: which load of it, its loading flag, its messages by kind, conversation id and last
topic. `Submit` builds the request as `submitQuestion` does (`last_topic` only with a history of two
messages), `Answer` and `Fail` are what middleware and `chat()` make of it, `Deliver` is the response
handled by the browser (cookie) and by the page, if that load of it still exists, and `Break` a lost
connection, before or after the server got the request. `Reload` loses the page and keeps the cookie. A
UUID the server makes is the number of the submission it is made for, so two of them never collide.
`rows` and `delivered` are history variables. An error answered by the outermost handler (500) bypasses
the middleware and carries no cookie.

### InteractionLogging

`attempted` and `disabled` are the two module globals per process; `pc` is where a background writer
is; `table` is whether `interaction_logs` exists. A step ends where another thread may run, at a
database call, and a flag's test and assignment without a call in between are one step
(lines 89-90). An insert ends in success, `UndefinedTable`, another programming error, or any other
error, and a connection lost at commit may or may not leave the row (`Insertions`). `create_all`
checks and then creates (two steps), so two processes may collide. `Restart` replaces a worker.

### Startup

Each replica runs `run_migrations.py up`, then `ensure_ingested.py`, then serves. `mine` is what its
still open transaction has applied: the first read of the connection opens a transaction that the
`transaction()` of `_apply_one` nests in as a savepoint, so all files commit together when the
connection's block ends, after the unlock. `Blocked` is a runner waiting for the row or table lock of
another's open transaction, `Rejected` one that finds the file recorded when the wait ends, or the
column it copies missing. In ingestion `populated` and `version` are what was counted and hashed
before the lock, `loaded` the cards read under it, `chunks` and `recorded` the committed tables. A
version of the directory stands for its hash with the embedding settings. Failures: a count or state
read that fails is swallowed as the code swallows it, a failed record is best effort, any other failing
call ends its script (`ScriptFails`) with what `entrypoint.sh` makes of that under either setting of
`AUTO_STARTUP_FAIL_FAST`, and a container may die anywhere (`Crash`). `FORCE_REINGEST` is a constant
of the container.

## 3. Runs

| Run | Checks | Bounds | States |
|---|---|---|---|
| `chat_pipeline` | `TypeOK`, `BudgetsWithinCap`, `ConfidenceRespected`, `PinnedSurvive`, `CoverageSurvives`, `CoverageYieldsLast`, `CategoriesCited`, `ForcedEvidenceDistinct`, `GroundedPromise`, `RequestEnds` | 3 categories, 5 chunks of 3 cards in 2 versions, 5 router replies, 5 configurations | 820,658 |
| `retrieval` | `TypeOK`, `KeepsContract`, `CutoffsHold`, `CapYieldsLast`, `SignalFirst` | 6 chunks of 3 cards, 36 distance vectors, 6 requests, 3 configurations | 1,528,959 |
| `prompt_cache` | `TypeOK`, `SizeBounded`, `LifetimeNotRenewed`, `CallsEnd` | 3 threads, 3 keys, 1 entry | 640,890 |
| `conversation` | `TurnsAlternate`, `ContextFollowsPage`, `SessionSettles`, `SubmissionEnds` | 2 tabs, 2 topics, 3 submissions, 2 loads of each tab | 169,131 |
| `interaction_logging` | `TypeOK`, `OneCreator`, `StoredAtMostOnce`, `InstalledNeverDisabled`, `OffOnlyByRace`, `MissingTableIsCreated`, `WritesEnd` | 2 processes, 3 writers, healthy or failing | 2,171 |
| `startup` | `TypeOK`, `LedgerMatchesSchema`, `OneIngests`, `RecordedWasIngested`, `ServesCurrent`, `UnmigratedNotRecorded`, `StartupEnds` | 2 replicas, 2 files, 2 versions, 1 fault | 171,702 |
| `pinned_cards` | `PinnedCardsIncluded`: violated | as `chat_pipeline`, cap 2, a filled knowledge base that does not change | |
| `one_migrator` | `OneInstanceApplies`: violated | 2 replicas, no faults | |
| `fresh_install` | `FreshInstallMigrates`: violated | 1 replica, fresh schema | |
| `knowledge_rollback` | `SkippedMeansUnchanged`: violated | 1 replica, 2 versions, rollbacks | |
| `cache_races` | `NeverRaises`: violated | 2 threads, 3 keys, 2 entries | |

Why the bounds are enough. The pipeline treats categories and chunks uniformly up to order: two
categories reach the gate's special case, three its absence and the fixed budgets of two each; router
replies hold repeats, ties and every pair of confidences in both orders; caps lie below, at and above
the number of categories; five chunks on three cards let pins collide with retrieval, tie in distance
and overflow the cap; the second version takes a card away. In retrieval, the cards show every mix the
rounds distinguish (a title with a long and a short section, a low-signal section with a medium one, a
low-signal section alone), distances lie on both sides of each cutoff and of each penalty, and limits lie
below and above what the cap allows. Three threads and a cache of one entry let the cache exceed its
bound by every number of threads, and let one thread drop what a second is about to touch while a third
stores it. Two tabs and three submissions make first questions race for the cookie and leave
one to come after the race; a second load meets answers meant for the first. In logging, two writers of one process make every race over its flags, and one of
another process the race over the table. At start-up, two replicas make every race over locks and the
ledger, two files an order and a gap, and one fault a crash or failing call at any place of either.
Every safety invariant and action property of these runs is also proved without bounds, and so is
what the liveness properties rest on (section 5).

Fairness. `ChatPipeline`: the handler's steps (`WF(Progress)`), because calls carry timeouts and a
worker thread runs to the end; nobody has to ask. `PromptCache`: each
thread inside a call (`WF(Step)`), for the same reason; nobody has to start one and nothing has to
expire. `Conversation`: each submission under way (`WF(Handle)`), because the server's calls have timeouts
and a connection that is dead is noticed; nobody has to submit or reload. `InteractionLogging`: each
started writer (`WF(WriterStep)`); starting and restarting are not fair. `Startup`: each script's steps are weakly
fair, including the exit of a script that cannot go on and the restart that
`restart: unless-stopped` brings; a lock is strongly fair, since Postgres grants it in queue order; and
crashes, failing calls, restarts and deployments never have to happen. `InteractionLogging` is
checked without deadlock checking: once logging is off in every process and no failure can restart
one, nothing happens any more, as in the code. `conversation` is too: its bounds on submissions and loads
end every behaviour. `Retrieval` is over after one pass and stutters then (`Over`). The other runs check
for deadlock.

Some properties carry a condition the code imposes. `CoverageSurvives` holds with room for the pins
and one chunk per category; `CoverageYieldsLast` says what is left of the promise without that room.
`OffOnlyByRace` is about a healthy database without the table: a process may then give up logging, but
only when its table is there or one of its own writers is creating it (the race of lines 106 and 119). `ConfidenceRespected` holds for a cap of at most
six: above it the fixed share of three goes to the more confident of two categories and the larger rest
to the other. `ServesCurrent` and `RecordedWasIngested` are about cards that only move forward;
with a rollback they fail, which `knowledge_rollback` shows as a property of the code. `SizeBounded` allows one entry for every
thread inside `set()`, since without a lock the code guarantees no less. `SessionSettles` starts
once no exchange begun without a cookie is under way: two first questions of two tabs do get two session
ids, and the later response wins. `CallsEnd` lets a thread go round the eviction loop as long as others
keep storing.

## 4. What the code does differently from what it says

Five disagreements came up while modelling; each is a violation run with the line quoted in
`PROJECT.json` "findings".

- *Pinned cards* (`app/retrieval.py` 736). A card that retrieval already returned is passed over by
  pinning, so its chunk is not marked pinned and the cap may evict it. In the run, on a table that
  never changes, the routed category asks for two cards under a cap of two: one was retrieved and is
  passed over, the other is pinned, and the first is evicted though both fit.
- *One migrator* (`scripts/run_migrations.py` 277). The advisory lock is released before the commit.
  Nothing is corrupted (`LedgerMatchesSchema` holds: the second runner waits on row and table locks and
  fails), but it does apply files at the same time and, with fail-fast, its container restarts.
- *Fresh install* (`2026-02-15_add_card_category_column.sql` 23). The backfill reads a column that
  the canonical schema no longer has; with fail-fast a fresh installation never starts.
  `StartupEnds` is therefore checked on the legacy schema.
- *Rolled-back cards* (`scripts/ensure_ingested.py` 199, 242). The recorded hash is older than the
  cards it stands for when they change in between.
- *Cache without a lock* (`app/prompt_cache.py` 71). The comment accepts duplicate calls as the worst case.
  A thread that finds a usable entry which another thread drops or evicts before `move_to_end`
  gets a `KeyError`; out of `rewrite_question` it becomes a 500.

Noticed without a run: an empty rule set ("{}") brings the default pinning rules back (`app/config.py`
424) though the comment at line 241 says it disables pinning; parsing the environment is not modelled.

## 5. Proofs

All theorems are for every value of the constants under the named assumptions of the modules
(`EvidenceAssumption`, `ChatAssumption`, `RetrievalAssumption`, `CacheAssumption`,
`ConversationAssumption`, `LoggingAssumption`, `StartupAssumption`), which say what the
constants are: finite sets of numbers, functions on them, caps between 1 and 10 as the settings are
bounded, and, for the pipeline, a single-category limit no smaller than the multi-category cap.

**Pipeline** (`ChatPipelineProofs`). `Invariance` proves the inductive `IInv`: types; nothing is
there before its stage; admitted categories are distinct; one budget per category and, after the clamp,
`BudgetsWithinCap`; evidence is stored and attributed to routed categories (`EvidenceInv`); during
eviction every pinned chunk and, given room, every present category is kept (`CapInv`); citations are
evidence, with forced ones covering what is missing (`AnswerInv`). The stage-by-stage conjuncts are needed because each promised property is about a late stage and rests on
what an earlier one established. `TypeCorrect`, `ClampIsSound`, `PinsSurviveTheCap`, `CoverageSurvivesTheCap` and
`AnswersCoverCategories` follow. The two counting arguments are in `EvidenceProofs`: `VictimIsRedundant`
(with more chunks than pins and categories together, some unpinned chunk is nobody's sole cover,
because sole covers inject into categories) and the clamp's `TotalOfOnes`. `PipelineIsGrounded` is
the refinement: inner steps stutter, `Receive` is `Accept`, and `Respond` and `RequestFails` are
`Finish`, `Ingest` is `Rebuild`. `EvidenceInv` says stored at some time since the request came, which is
all a request can know of chunks it retrieved before a rebuild.

Three invariants of the pipeline stand beside `IInv`, for the properties it does not imply.
`LossInv` carries `YieldedLast` through the eviction loop, for `CoverageIsGivenUpLast`: the turn that
uncovers a category finds every unpinned chunk a sole cover, and later turns only take such chunks
away (`EvictionYieldsLast`); the turns before it keep coverage, and the closing slice cuts pinned chunks
or nothing.
`ForcedInv`, that with two routed categories at most one chunk is forced in, is behind
`ForcedEvidenceIsDistinct`: the chunks cited, which are there whenever coverage is enforced, cover at least one of the two
(`ForcedCoverageIsOne`). `ConfidenceInv`, for `ConfidenceIsRespected`, is `OrderKept` over the clamp
loop as well as after it: the policy starts in the order of confidence (`AllocationKeepsOrder`), a
turn takes from the least confident category that has more than one (`NextReducedExists`), so that a
more confident one is lowered only when the less confident are down to one (`ReductionKeepsOrder`),
and the closing trim finds nothing to take (`TrimKeepsOrder`).

**Retrieval** (`RetrievalProofs`). `IInv` adds to the types: `StageInv`, what each variable holds at
each stage; `CutInv`, the kept rows are those within the cutoffs, or there are none and the kept ones are
among the first three; `CapInv`, in the capped rounds no card is over the cap and a row passed over is of
a card at its cap, and in the uncapped round either the result was full before it or that holds
of every row left out; `SignalInv`, no low-signal row of a better card is selected before every
substantive row had its turn. `NextRow` exists because `RankedBefore` orders a finite set of rows totally (`LeastElements`).
`PassesKeepTheContract` composes with the pipeline: its theorems assume of a pass that it
returns a member of `Passes`, which this one shows of every pass, for any corpus, distances,
cutoffs, cap and weights.

**Cache** (`PromptCacheProofs`). `IInv` is `TypeOK /\ SizeBounded`, inductive because a thread enters
`set()` with the entry it appends, leaves only after seeing the cache small enough, and every other
step keeps or shortens the dict. `OvershootIsBounded` follows for any number of threads, and
`UseRenewsNothing` is a case analysis over the steps from the same invariant.

**Conversation** (`ConversationProofs`). The properties are about what a page shows and sends; the
invariant has to say what every message still on the wire may yet do to it. `SubmissionInv`: messages,
rows and answers carry numbers of submissions made, each once. `LoadingInv`: the only live message of a
page is the one its loading flag stands for, and of its latest submission, which is why an answer that
arrives is never an old one (`TurnsKeepAlternating`). `ConversationInv`: a conversation id is the number of a row
of the same load, so two loads cannot share one; `ContextInv` and `TopicInv`: the request under way carries what
the page holds, and what it holds is from the latest answer delivered to it (`ContextStaysWithPage`).
`CookieInv`: an answer sets a cookie only when its request had none, which with the state of
`SessionSettles` leaves no message that could change it (`SessionIdSettles`).

**Logging** (`InteractionLoggingProofs`). The strengthening is that a row still held has not been
stored (every repeated insert follows one that found no table), and that with an installed table no
writer leaves the first insert. `TypeCorrect`, `CreatorsAreAlone`, `RowsAreStoredOnce` and `InstalledStaysEnabled`
follow for any number of processes, writers and failures. `OffNeedsARace` adds three invariants of the
healthy database: a writer past the creation has the table (`CreatedInv`), a retry comes after its
process's one attempt (`RetryInv`), and that attempt, while the table is missing, is still under way
(`CreationUnderWay`). With them `LoneWriterStaysOn` shows that the race takes two writers.

**Start-up** (`StartupProofs`). `PendingInv`: files are applied, in the open transaction, or pending,
and the first two have no gap, because `NextFile` is the least pending one; `MigratedInv`: under
fail-fast nothing gets past unfinished migrations; `RowsInv` and `VersionInv`: under the lock, hashed
version <= loaded version, table version <= loaded version <= current version. `LedgerIsTrue`, `IngestionsExclude`,
`RecordsFollowIngestion` and `ServersAreCurrent` follow for any number of replicas, files, versions and
faults. `UnmigratedNotRecorded` is inductive beside `IInv` (`RecordsMeanMigrated`): no step brings the old
column back, and on it an ingestion fails before its record.

**What liveness rests on.** Liveness under fairness is outside the prover's reach, so `RequestEnds`,
`CallsEnd`, `SubmissionEnds`, `MissingTableIsCreated`, `WritesEnd` and `StartupEnds` are model-checked
only. What could break them in the code, beyond a thread that is not scheduled, is a loop that does
not run down, a step of somebody else that sends one back, a wait in a circle, or a flag nobody
is left to clear. These are safety, and proved for every instance:

- `RequestsRunDown`: each step of `chat()` goes to a later stage or takes a turn of the present loop
  away (items of the router's reply, units of the budgets, passes, rules, chunks: `Turns`), and nothing
  else moves the request. It needs that the rules are finitely many (`FiniteRules`) and that a turn of the clamp takes exactly one from the sum (`TotalIsLowered`).
- `PassesRunDown`: the same of a retrieval pass, whose query and selection loops deal with each of
  finitely many rows once (`Ahead`); a pass waits for nobody, so no run states its end.
- `CallsRunDown`: the same of a thread in the cache, whose eviction loop counts down the entries it
  shares. Steps of other threads take it no farther away, but for one that stores an answer.
- `SubmissionIsUnderWay`: a page that is loading has a message on the wire that can end it.
- `WritesAreBounded`: five steps at most to the end of a write. `ClaimsAreHonoured`: without failures
  the one attempt of a process to create the table is not lost before the table is there.
- `ReplicasRunDown`: on the old schema a starting replica goes back only by a fault, which is used
  up, or because another created the tracking table or committed files it had planned to apply;
  `Setbacks` counts how often that can still happen. `NoCircularWait`: the holder of the migration lock waits for
  the rows of an uncommitted runner at most, and that one and the holder of the ingestion lock for nothing.

What they leave to TLC is that an unfinished actor always has a step to take (`ENABLED`), and the
fairness argument itself. The definitions of these theorems (`RunsDown`, `CallsAdvance`, `WritersAdvance`,
`CreationUnderWay`, `ReplicasAdvance`, `WaitsDescend`) were model-checked on the runs' instances before
they were proved. No module uses recursive operators.

## 6. Not modelled, and the plan

- *GeoIP* (`app/geoip.py`): off unless configured, runs after the response, and fills one column of a
  log row. Its cache has the shape of the prompt cache, without a lock; the prune iterates over the dict
  while another thread may insert, and the `RuntimeError` is caught by the lookup. Listed as a hazard
  without a property.
- *Parsing*: cards (`app/knowledge.py`), environment variables (`app/config.py`), addresses and user
  agents (`app/privacy.py`). Pure functions of text; their results are constants here.
- *Embeddings and distances*: calls that answer or raise, and any distance.
- *Wording*: prompts, answers, follow-up detection, the counting of words and sentences, log records and
  their set-up, the page's layout and details panel.
- *Migration runner*: a file whose checksum changed, and `status`. Files do not change in the model.
- *Sessions*: the `x-session-id` header, which the page does not send.
- *Page without an API address*: that branch of `submitQuestion` cannot be reached from the page,
  which then disables the input.

Next: that the bound of `OvershootIsBounded` is back at `max_entries` when no thread stores; and the
abstract view of start-up (a ledger, a table of chunks) that `Startup` implements, step by step.
