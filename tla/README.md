# A TLA+ model of Kindred

Kindred is a self-hosted chat application: a FastAPI process with one SQLite
database, a web client, and characters that a language model speaks for. This
directory models the parts of it in which the order of events matters, checks
them with TLC and proves their main invariants with TLAPS.

## 1. Inventory

One process. Coroutines (`async def` handlers and the daemon's loop) share one
event loop, and code between two awaits is atomic among them. Plain `def`
handlers run in a thread pool and interleave with everything. Every `Database`
method is a transaction of its own (`database.py`, `connection`), so a handler is
a sequence of transactions that uses in one what it read in another.

| Component | State | Operations | Talks to | Hard part | What makes it correct |
| --- | --- | --- | --- | --- | --- |
| Cloud budget (`rate_limits.py`) | `usage_logs`, `app_settings["limits"]` | reserve, settle, fail, change limits | model adapters, images | limits and timestamp read before the lock; commits out of timestamp order; settlement may exceed the estimate | rolling windows never over; one reservation per dispatched call |
| Conversations (`database.py`, `main.py`) | `users`, `user_character_access`, `characters`, `threads`, `messages` | chat, open a thread, test message, initiative, account and character administration | model (awaited), notifications | rows read before an await and used after it; cascades and SET NULL | a message agrees with its thread; replies have questions; history goes only with its thread |
| Daemon life cycle (`daemon.py`, `main.py`) | `self._task`, asyncio tasks, push threads | start, stop, loop, restore, reset | Autonomy, maintenance | cancellation, uncaught exceptions, tabs and push services that never answer, two requests at once | one loop; never a dead one; database replaced while it is quiet |
| Autonomy (`daemon.py`) | `daemon_state`, `messages.initiated` | gates, fan-out to recipients, manual and forced runs | model, notifications | decisions taken on values read before several awaits; local time | caps, cooldowns, quiet hours, an unavailable model costs others nothing |
| Quiet hours (`daemon.py`) | none | `in_quiet_hours` | Autonomy | windows over midnight | one arc of the clock |
| Model adapters (`llm.py`) | none | respond | budget, lore | timeouts, malformed answers | failure is `BackendUnavailable` |
| Lore and embeddings (`llm.py`, `database.py`) | `lore_packs`, `lore_facts`, `lore_fact_embeddings` | import, delete, assign, retrieve | Ollama | facts, packs and the whole database change while the service computes; ids that restart; other dimensions after a restart | the cache cannot be noticed; every retrieval ends |
| Notifications (`notifications.py`) | sockets, `push_subscriptions`, `notification_deliveries` | publish, subscribe, unsubscribe | browser push service | threads; expired endpoints; a database that refuses a step; peers without a timeout | one delivery row per attempt; no event to another account |
| Settings (`main.py`) | `app_settings` | PATCH a section | everything | read, merge and write in two transactions | patches that do not meet another writer add up |
| Maintenance (`main.py`, `database.py`) | the database file, uploads | backup, restore, reset | daemon | crash or full disk between two file steps; seeds one transaction each; threads with the file open; uploads beside the database | whoever serves has a whole database; uploaded avatars have their files |
| Authentication (`auth.py`) | signed tokens | login, authenticate | accounts | a token outlives its account | a disabled account is refused |
| Character cards (`main.py`) | `characters` | import, export, seed | conversations | renaming on a name that exists | a card is stored whole or not at all |
| Web client (`frontend/src`) | selected thread, messages | select, send, receive events | REST, WebSocket | answers for a thread no longer selected | what is shown belongs to the selected thread |
| Service worker, configuration, migrations | - | - | - | - | - |

`PROJECT.json` lists each component with its status and, under `hazards`, what can
go wrong at which line and which property would show it.

## 2. Modules

| Module | Models | Extended by |
| --- | --- | --- |
| `CloudBudget` | the budget, a cloud chat and an image request | `MCCloudBudget`, `CloudBudget_proofs` |
| `Conversations` | the store and the handlers that write it | `MCConversations`, `Conversations_proofs` |
| `DaemonLifecycle` | the loop's task and the maintenance around it | `MCDaemonLifecycle`, `DaemonLifecycle_proofs` |
| `QuietHours` | `in_quiet_hours` | `Autonomy`, `QuietHours_proofs` |
| `Autonomy` | `should_initiate` and `run_once` over time | `MCAutonomy`, `Autonomy_proofs` |
| `Notifications` | `publish`: tabs, push subscriptions, the delivery ledger | `MCNotifications`, `Notifications_proofs` |
| `LoreRetrieval` | the abstract specification: retrieval without a cache | instantiated by `LoreCache` |
| `LoreCache` | lore packs, `_retrieve_lore`, `_semantic_lore` and the cache of embeddings | `MCLoreCache`, `LoreCache_proofs` |
| `Maintenance` | the database file, settings, seeding and uploads under backup, restore, reset, crashes | `MCMaintenance`, `Maintenance_proofs` |

The `MC...` modules give the constants their values for TLC. Operators named
`X_Something` next to an `X` are mutants: the form `X` would take with a plausible
bug. They are used by no specification.

### CloudBudget

`ledger` is the table `usage_logs` in order of id; `row[r]` is the
`reservation_id` of a request. A request runs `ReadLimits` (`get_settings`),
`TakeStamp` (`datetime.now`) and then one transaction, `Reserve` or `Refuse`
(`BEGIN IMMEDIATE` to commit). A chat runs these on the event loop, where nothing
else of the loop can come between (`LoopBusy`); images run in threads and
interleave. `Settle` is `update_usage_log` with the usage the provider reports,
`Fail` an exception after the reservation, `Crash` the end of the process. One
token of the estimate is `Price`d as in `llm.py`, in units of half a millionth of
a dollar, so the arithmetic is exact. `inForce` is a history variable: the limits
may be changed at any time, and a window can only be held against limits that
were in force. A process is in dry-run mode or not (`DryRunModes`); an image may
ask for a dry run by itself. The clock starts at 0; a window that would start earlier starts at
0, which changes nothing since no row is older.

### Conversations

Tables are sets and functions keyed by ids; `users` and `characters` have
`used...` companions because AUTOINCREMENT never reuses an id. `Admin` stands both
for the administrator and for NULL in `user_id`, as it does in the code. A handler
`o` keeps what the code keeps in locals: `seen[o]` is the thread row it has read,
`todo[o]` the recipients still to be served. Every action is one transaction, and
every insertion has a branch in which a foreign key refuses it. `openedBy` is a
history variable. Message texts, titles, timestamps and search are not modelled.

### DaemonLifecycle

`handle` is `self._task`. A task is asleep, or it awaits the model ("generate"), a
tab that is sent an event ("send") or a push thread ("push"), or it has ended by
cancellation or by an exception. The model's client has a timeout; `send_json`
(`notifications.py:54`) and `webpush` (`:132`) are given none, so the last two awaits
may never end. The push thread of a cancelled loop goes on by itself and is not
followed. `overBudget` and `dbFails` are what makes `run_once` raise something it does
not catch: the budget is used up, or the database refuses a statement, because a row
it refers to was deleted or because the file stays locked. `cancel` holds the
cancellations requested and not yet thrown. A maintenance request suspends only in
`stop`; what follows the await (`self._task = None`, the files, `start`) is one
step, `ReplaceAndStart`, because nothing in it awaits. Names of tasks are reused
once a task has ended and nobody refers to it, which keeps the instances finite
without bounding the number of restarts. `overlapped` is a history variable: a
request entered `stop` while another one was waiting there. After that `Enters`
admits no further request until the process restarts; this is the one bound of the
module, and without it the number of loops would grow without end, since each
overlap adds one.

### Autonomy and QuietHours

`log` is every message ever stored and `kept` the indices still in the table, so
that deleting a thread can be told from never having written. A run reads its
`base` (the code's `now`) once; `Defer` and `Select` are the two outcomes of
`should_initiate`, the random sample being a free choice; `Ask`, `Store` and
`Published` are the steps between awaits of the loop over recipients. A step that
awaits nothing keeps the event loop (`LoopFreeFor`). A run ends in one of two ways:
it `Return`s ("idle"), or it is interrupted (`Interrupt`) by a cancellation, a restart
or any exception other than `BackendUnavailable`, whatever it was doing. Timestamps are instants
(UTC); `Wall` is the local clock, shifted once at `ChangeAt`, and `Since` is
Python's `now - timedelta(...)` on an aware local time followed by `iso`: the
subtraction moves the wall clock, and the conversion back takes a reading the
change skipped with the old offset. The recipients of a decision are any subset
(`Conversations` has which ones). The daemon's settings are constants.

### Notifications

A call `p` of `publish` copies the sockets its event concerns (`audience`), awaits
one send after the other (`Send`, `SendRaises`), forgets the sockets that failed
and starts the worker thread (`Fanned`). The worker reads the subscriptions once
(`List`) and then, for each of them, pushes (`Push`), removes it on 404 or 410
(`Remove`) and writes its row (`Log`), each in a transaction of its own. Every access
to the database may fail instead, which no code catches and which ends the call
(`Raise`): the file stays locked, a saved subscription has keys that are no object
(`database.py:1110`), or the row's account is gone. A push may remain unanswered for
ever, as nothing makes `Push` happen. `accepted` is what the push
service took, outside Kindred: what a call had pushed but not recorded when it was
cut off is the difference. The switch in the settings is a free choice between
`List` and `Decline`, since nothing else reads it. Who opens a WebSocket is a
constant, as each is opened once. Locals that nothing uses again are cleared
(`Forget`, `Unload`), which merges states and changes nothing else. The order of
sends and pushes, which is that of a dict and of a query, is left open.

### LoreRetrieval and LoreCache

`LoreRetrieval` says what a request is promised, in terms a reader of
`docs/LORE_FACTS.md` would use: it draws only on facts it found in packs assigned to
its character, ranks each by what the configured model makes of that fact's own
text, or all of them by words, and is answered unless it is excused: a fact it had
found was removed, or the embedding service answered with JSON that is no embedding.
It knows no cache, no chunks and no transactions.

`LoreCache` is the code. A request lists packs (`ListPacks`) and reads their facts
(`FactsOf`) in two transactions, twice: for `search_lore` and for `_semantic_lore`.
It looks every fact up in the cache (`Lookup`), sends those that are missing in
chunks (`Send`), stores each vector as it arrives (`Store`) and at last sends the
query and ranks (`Rank`). `Unavailable` is `BackendUnavailable`, which falls back to
the words; `Raise` is every other exception. A vector is a pair of the settings and
the text it was computed from, so that a stale one can be told; the hash is what
`content_hash` is made of, the provider left out as there is only one. Deleting a
character removes its assignments, which `Assign` with no packs does as well.
Scores are left open.

The refinement maps `pc` to the abstract `phase` and what a request holds in its
locals to what it `known`s; everything else keeps its name, and the cache and the
positions in the code have no counterpart.

### Maintenance

`file` is what is at the path of the database: nothing, an empty file (a thread
connected too early), half a copy, a database of a newer build, or one with all
tables; `data` its content; `uploads` the directory beside it. `Begin` to `Fill` are
the steps of `restore_system` and `reset_system` after the daemon has stopped, in the
order of the code: validate the extracted copy, unlink, copy, schema, defaults, count
and seed, remove the uploads one by one, copy those of the archive one by one. Each of
them may fail, on a full disk for instance (`ReplaceFails`); what is on the disk stays
there, and the process serves on. No coroutine comes between them (`LoopFreeFor`),
threads do: `PATCH /api/settings` (`ReadSection`, `Connect`, `Commit`), new, edited
and deleted characters and `backup_system`. A thread that has the file open when it is
unlinked writes into a file without a name (`stranded`). `Crash` may come anywhere;
`Boot`, `BootSeed` and `Serve` are the start of the process. A patch is sent once.

`data.avatars` are the characters whose `avatar_url` is the one `upload_avatar` gave
them. `create_character` stands for new characters, imported cards and copies alike;
they and an edit (`EditAvatar`) may store any other `avatar_url`, to which no file of
the uploads need belong.

History variables name what the code does not promise, so that the properties
can say what it does: `lost`, a patch was merged into a section that was no longer
there (another patch, a reset or a restore came between); `halfway`, a restore died or
failed between the database and its uploads, or among these; `broken`, the last
replacement failed before the new database was whole, the defaults, the count and the
seeds of a reset included. Of a database, `seeded` counts the seeds created since its
table was empty (`Counted`, `WithSeed`), and `cut` says that the others are not to
come: a crash or a failure stopped the seeding with some in the table (`Interrupted`),
a character was created first, or a backup was made of it meanwhile. `clean` says of
an archive that nothing was being replaced while it was made. `ideal` is the section
as it would be if every patch were one step.

## 3. Runs

Bounds are chosen so that the limits bind within them: two requests fill a window,
three show that the third is refused; two handlers are enough for one to delete or
write what the other holds; two maintenance requests are enough to overlap; two messages, tabs and endpoints
are enough for one to fail while the other succeeds. Two retrievals are enough for one to
store what the other looks up, and one pack with two facts, an empty database and a
saved one, whose fact 1 has another text, for an id to change its meaning under a
request. One maintenance request is enough for `Maintenance`, since a second one
cannot come between its steps; two patches of different keys lose one another; two
seeds can be cut off between. `MaxPack`, `MaxId` and `Pictured` (the characters that
get an avatar or are deleted) only keep the instances small: databases are replaced
without bound, so ids are given again. New characters leave the ids that seeds still to
come need, and a table is emptied only when there are ids left to seed it again. The
constraint `Apart` of `Maintenance` looks at patches and at avatars apart from each
other, both with every failure, crash, restore and reset: neither reads what the other
writes. The theorems have no such bound.

| Run | Instance | Shows |
| --- | --- | --- |
| `CloudBudget` | 3 requests, hour 1 tick, day 2, clock to 3; limits that bind the counters and limits that bind the spend; live and dry | every rolling window, reservations, the ledger's history |
| `ConversationsStore` | 2 accounts, 2 characters, 2 handlers, 2 threads | the store's integrity under every deletion |
| `DaemonLifecycle` | 2 maintenance requests (repeating), 3 task names, loops may die, with fairness | one loop and quiet replacement without overlap; maintenance ends, and intervals go on unless an exception or a silent peer stops them |
| `AutonomyLoop` | the loop, 2 characters, 2 recipients, deletions | cooldown between initiatives, a turn for every character in a run that is not interrupted, forward-moving state |
| `AutonomyManual` | the loop and a manual run, 3 messages, day cap 1, clock to 3, autumn clock change, quiet hours, no deletions | overshoot of two runs, cooldown of the decision, quiet hours at every local time |
| `Notifications` | 2 messages, 2 tabs (an account's and the administrator's), 2 endpoints | open tabs get the event, the ledger agrees with the push service, a worker that gets to its end has recorded every attempt |
| `LoreCache` | 2 retrievals for one character, 1 pack of 2 facts, 2 settings of the dimensions, chunks and answers of 1, with fairness | refinement of `LoreRetrieval`; every retrieval ends |
| `Maintenance` | 1 maintenance request (repeating), 1 backup, 2 patches of 2 keys, 1 upload, 2 seeds, ids to 3; failures, restarts without bound | a whole database whenever the process serves after a replacement that did not fail; settings; uploaded avatars |

`ConversationsStore` has `CHECK_DEADLOCK FALSE`: each handler runs once, so the
system of the instance stops when all have run and every id is used. So has
`Maintenance`: a process whose database was cut off in the copy does not start any
more, in the code as in the model.

`AutonomyManual` takes two states for one (`View`) that differ only in when a character
was checked last or in how a run that is over has ended: neither decides about a step
or is read by its invariants, except that `TypeOK` says of what type they are.

The symmetry of `Maintenance` exchanges the two patches together with their keys; they
differ in nothing else. The properties it is used with are invariants.

`StateAdvances` and `EveryCharacterChecked` are checked for the loop alone: with a
concurrent manual run, the one that ends later writes its older time over the newer
one.

Four runs more end in a violation; each refutes a sentence of the documentation, or
a docstring, and is a finding in `PROJECT.json`:

| Run | What the code does |
| --- | --- |
| `ConversationsOrphans` | the threads of a deleted account join the administrator's own list |
| `DaemonTwoLoops` | two concurrent restores start two loops |
| `DaemonDies` | `LimitExceeded` or `IntegrityError` ends the loop for good |
| `AutonomySpring` | wall-clock arithmetic empties the hourly window after the spring change |

Behaviours that the models also contain, and that a reader of the documentation may
not expect, without a run of their own:

- No `max_tokens` is sent (`llm.py:392`), so a long answer takes a rolling day over
  its token limit; `SpendWindows` bounds by how much.
- `stop` re-raises the exception of a loop that has died (`daemon.py:111`), so a
  restore or reset answers 500 and does not restart it (`StopRaises`).
- A tab or a push service that never answers holds the loop for ever, without any
  exception (`notifications.py:54`, `:132`); `IntervalsGoOn` excuses exactly this.
- A push thread survives its cancelled loop into the replacement of the database
  (`notifications.py:60`).
- The ledger's row of one subscription, when the database refuses it, ends the worker:
  the subscriptions that are left get nothing, and whoever awaits `publish`, the chat
  or the loop, gets the exception (`notifications.py:74-173`, `Raise`).
- An exception other than `BackendUnavailable` in one character's turn costs all the
  remaining characters theirs, and ends the loop (`daemon.py:191`, `Interrupt`).
- One decision writes to every recipient on one comparison with the caps
  (`daemon.py:154`); `CapsOvershoot` bounds by how much. The caps count the rows
  there are, so that deleting a thread gives its budget back.
- A message that arrives while the model generates, and quiet hours that begin
  meanwhile, do not stop the initiative (`daemon.py:124`, `:136`);
  `CooldownAtDecision` says what the cooldown does guarantee.

- A PATCH that was read before a reset or restore and written after it brings settings
  of the old database into the new one; of two patches at once one may be lost
  (`main.py:811`). `SerialWhenApart` is about all others.
- A full disk, or a crash, while a restore copies the database leaves a file that does
  not open, and the old one is gone (`database.py:287`, `Copy`, `ReplaceFails`). With
  a crash before the copy, the next start makes an empty database with the seeds.
- A restore that dies or fails after the database is in place leaves it beside the old
  uploads, or beside some of either (`main.py:898-903`, `halfway`).
- A crash, or in a reset a full disk, between two seeds leaves the others out for good,
  since the table is no longer empty (`database.py:378`, `cut`). So does a character
  that is created while a failed reset has left the table empty, and a restore of a
  backup made of such a database.
- The `avatar_url` of a card, a new character or an edit may have no file
  (`main.py:365`, `:461`; `docs/CHARACTER_CARDS.md:181`): `AvatarsHaveFiles` is about
  uploaded ones. A copy of a character refers to the file of the original.
- A fact deleted while its embedding is computed, or JSON of another shape from the
  service, fails the whole answer instead of falling back to the words (`llm.py:265`,
  `:308`, `Raise`); for the daemon this is one more exception that ends the loop.

### Fairness

`DaemonLifecycle`, `DaemonDies` and `LoreCache` use it. `LoopStep` (`Elapse`, `Finish`,
`Deliver`) is weakly fair: asyncio resumes a task whose sleep is over or whose
cancellation is requested, the model's client answers or gives up after 120 s, and
SQLite after 10. So are `Resume` and `Answered`, since nothing in them waits for anything
but the task that ended. `Publish`, `Push` and `PushDone` are not: a run need not have
anything to send, and `send_json` and `webpush` have no timeout. `IntervalsGoOn`
therefore excuses a loop that one of these awaits holds for ever, as it does one ended
by an exception; a cancellation is delivered in them too, so `MaintenanceEnds` needs no
excuse. Only `DaemonDies` assumes peers that answer (`PromptSpec`, with `Push` and
`PushDone` weakly fair), to show that the loop stops even so. Nothing makes requests,
exceptions, cancellations or restarts happen. `IntervalsGoOn` and `EveryInterval`
assume that maintenance and restarts stop, since each of them resets the interval.

In `LoreCache` the steps of a
request are strongly fair: they wait for the event loop, which another request holds
again and again but never for good, and asyncio runs what is ready in the order in
which it became ready. The service may fail at every step, but not answer never: its
client has a timeout of 120 s (`llm.py:299`).

## 4. Proofs

TLAPS checks what follows for all values of the constants that the modules' `ASSUME`s
allow. Every safety property a run checks has its theorem. The assumptions are type
facts, and two more: the sets that sums and caps count are finite (calls up to the
clock bound, runs, recipients), and no request of `Maintenance` is of two kinds
(`RequestsDiffer`).

- `CloudBudget_proofs`: `TypeCorrect`; `RollingWindows` (`RequestWindows` and
  `ImageWindows`, the latter also as `ImagesBounded`); `ReservationHeld`;
  `HistoryOfRows`; `SpendBounded`. The windows follow from an argument about the
  moment of a reservation: the rows of any window ending at or after the new
  timestamp are among those the transaction has counted, whatever their order, and
  windows ending before it do not contain the new row. The invariant adds to the
  type that what a request read has been in force. `SpendBounded` (`SpendWindows`)
  needs more: that a request's row holds its full estimate until it is answered and
  is nobody else's (`RowInv`). So the overrun of an answered request was zero before,
  and the windows grow by no more than it does. The model's sums are
  folds of the community modules; what is used of them (a sum exists, does not depend
  on the order of its elements, grows with its set and with its numbers) is proved in
  the same module, from the definition of `MapThenSumSet`.
- `Conversations_proofs`: `TypeCorrect`; `MessagesAgree`; `RepliesFollowQuestions`;
  `HistoryIsKept`. `MessageMatchesThread` is
  not inductive: the insertion copies `seen[o]`, so `AgreeInv` adds that what a
  handler has seen agrees with the thread as long as thread and owner exist
  (`SeenFaithful`), and that the store's references hold (`StoreRefers`). For the
  replies, `ReplyInv` adds that a handler awaiting the model has its question in the
  thread it has seen, if that thread is still there (`AskedHere`), that its messages
  are those of the steps it has taken (`WrittenWhere`), and that after a reply it has
  nobody left to write to (`NobodyLeft`). The history needs no invariant but the agreement: a
  step that removes messages removes their threads.
- `DaemonLifecycle_proofs`: `TypeCorrect`; `LoopHandled` and `QuietReplacement`, for
  any number of requests and tasks. The invariant, `OneAtATime`, ties the three variables together: no live loop but the recorded
  one, at most one request waiting and for that one, and no pending cancellation
  without it. It is what the second of two overlapping requests breaks.
- `QuietHours_proofs`: `WindowIsOneArc` for any day length; with the type of the
  clock it gives `AlwaysOneArc` in `Autonomy_proofs`.
- `Autonomy_proofs`: `TypeCorrect`; `CooldownKept` and `CapsBounded`, for any runs,
  characters, recipients, caps and windows, under `NoSpring`: no clock is put
  forward (`AutonomySpring` shows that the assumption is needed). For the caps the
  invariant counts what decisions still have to send (`Owed`) together with what is
  sent: a decision is taken below the cap and what is owed is always at most one
  fan-out of every run; sending moves a message from the one to the other. It needs
  that a window that reaches past a decision is among what the decision counted
  (`CountedBefore`), and that a message is stored no earlier than its decision
  (`BasesPassed`).

  Three more hold while no manual run overlaps another run (`Alone`: there is one run,
  which comes again and again): `StateOnlyAdvances`, `EveryoneChecked` and, with
  `NoSpring`, `OneInitiativePerCooldown`. `Alone` is the case of the instance
  `AutonomyLoop`; with a second run the one that ends later writes its older time over
  the newer one. The first needs that no time of `daemon_state` is later than that of
  the run there is (`StateInv`). The second says that a run that ends uninterrupted has recorded every
  character at its own time, whichever models were unavailable; it needs that a
  character is either still on the run's list or recorded. The third looks
  at a fan-out from the middle of it: what its character has sent is a cooldown older
  than the run, or of the run itself and to somebody it will not write to again
  (`SentApart`), and a character still on the list has sent nothing since the run began
  (`SentBefore`).

- `Notifications_proofs`: `TypeCorrect`; `TabsHear`, `LedgerTellsTheTruth` and
  `AttemptsAreRecorded`, for any number of messages, tabs and endpoints, and whichever
  accesses to the database fail. `LedgerAgrees` does not say where a call may be
  behind, so `LedgerInv` adds it: at the subscription it is at, between the answer
  and the row. `AttemptInv` does the same for the rows of every outcome: one for each
  subscription a worker has gone through but the one at hand, and none for the others.

- `LoreCache_proofs`: `TypeCorrect`; `CacheCannotBeNoticed`: `LoreCache` implements
  `LoreRetrieval`, for any requests, packs, settings and chunks, and any databases put
  in place whose facts are finite, whose references hold and whose cached vectors are
  those of their hashes (`LoreCacheAssumption`; MC's archives satisfy it). Types say
  too little for a step of the refinement, so the invariant adds: only a configured
  process is past the search by words (`Configured`); where a request is and what it
  holds there (`Located`), so that one that leaves leaves nothing behind; every vector, in
  the cache and in a request, is that of its fact's text under the settings it
  is used with (`Truth`): a row is written and read under the hash of both, so
  neither ids that restart nor new settings matter; what was found by words fits into
  an answer (`Small`); and whoever holds a fact that is gone is excused (`Excusable`),
  so a vector that cannot be stored makes no request fail without an excuse.
  `RetrievalProgresses` is the safety half of `RetrievalEnds`, without fairness: each
  step of a busy request lowers its stage, or within the lookups what is `Left` of its
  facts to look up, send and store, and nothing that others do raises either. It needs
  that what a request has seen is finite, and that a chunk is done with before the next
  one is chosen (`Counted`): otherwise the facts of the old one would be looked up again.

- `Maintenance_proofs`: `TypeCorrect`, `CompleteAndSeeded` (`CompleteWhileServing`),
  `EveryAvatarHasItsFile` (`AvatarsHaveFiles`) and `PatchesAreSerial`
  (`SerialWhenApart`), for any number of maintenance requests, patches and uploads, any
  seeds and ids, and failures at every step. `TypeOK` is not inductive: that ids stay
  within `MaxId` while seeds are created, and that no more seeds are created than there
  are, needs `DataInv` (what is created and what is still to come are together within
  both bounds), and so who holds the event loop, that seeds are pending only at a start
  or in a reset (`PlaceInv`), and what a request has accepted by the time it is past
  its checks (`HoldInv`). Four invariants follow the database through a replacement:
  `FileInv` says what is at its path at every step of a request, and that a database
  without its tables has no content; `SeedInv` and `CopyInv` that it is `Seeded` (all
  of them, or `cut`) or its seeds are still to come or the replacement is `broken`, and
  that every archive that can be restored is; `AvatarInv` that the avatars of a
  database just restored are those of its archive, whose uploads follow, and that a
  database just reset has none; `SerialInv` that what a patch has read is
  what is stored unless it is marked as no longer so, with the time between a copied
  database and its defaults set apart. In the properties these times are hidden
  behind `Settled`; for the proofs they are most of the work. The steps that stand
  beside a replacement and leave the places of all requests alone are taken together
  (`Aside`).

Only model-checked: everything that needs fairness, since the installed provers have
no `ENABLED`: `MaintenanceEnds`, `IntervalsGoOn`, `RetrievalEnds` (of the last,
`RetrievalProgresses` proves all but that a step can and will be taken). The induction
theorems of the library take an operator as a parameter, which the provers cannot
instantiate; where an induction was needed, for sums, it is made on a set instead: the
least element of a set of naturals exists (`Least`, from `NatLessThanWellFounded` and
`WFMin`).

## 5. Not modelled

Prompt building, lore ranking, search, exports, HTTP formats, password hashing and
token signing are data transformations without interleaving. The web client is
TypeScript whose state lives in React; its half of each exchange would have to be
modelled on assumptions about effects and renders. Two imports of cards may choose the
same free name (`main.py:399`), but no operation relies on names being distinct. The
present modules other than `LoreCache` and `Maintenance` let no database be replaced
under a request: what ids that restart do to a late settlement of the budget or to a
push thread is not modelled.

Smaller things left out: a failure of `unlink` between the database and its sidecar
files; a partly written upload, which counts as a file; the `avatar_url`s that cards,
edits and copies bring; two identical rows of the delivery ledger, which is a set here;
a message delivered to an account that was disabled or lost its grant while the model
was awaited; the deletion, by endpoint, of a subscription that another account has
taken over meanwhile. `hazards` in `PROJECT.json` says of each of those that matter why
no property covers it.

What is planned:

1. An abstract quota ledger that `CloudBudget` implements, in which a reservation is
   one step under limits that were in force since the call began.
2. The replacement of the database under a settlement of the budget and under a push
   thread, for the hazards that have no property yet.
