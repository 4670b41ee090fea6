# Verification of aos-cx-docs-dldr

aos-cx-docs-dldr downloads Aruba AOS-CX guides into a local library: one folder
per release with the guides as HTML and PDF, and beside it a raw HTTP cache.
These modules specify what is hard to test in it: what survives crashes and
competing runs, what goroutines do to each other, what a file edited at the wrong
moment can slip past, and what the long algorithms between the publisher's data
and a printed guide promise. TLC checks them on small instances; TLAPS proves the
safety of publication and its recovery, of the records and copies of guides, of the
cache and its root, of the retrieval policy and the budget, of the ZIP, the prefetch and the
prompts, of PDF rendering, the pinned tools and the extraction of pinned archives, of the
goroutines that read the catalogue and a guide's inputs, and of the guided choice of what
to download, for instances of any size.

## Inventory

| Component | State | Operations | What is hard |
|---|---|---|---|
| Library publication (`internal/library`: `library.go`, `ownership.go`, `preflight.go`) | lock, journal, release folder, `.staging`, `.snapshots` on disk; `Run.previous`, `Run.journal` in memory | preflight, acquire, recover, stage, accept, publish (journal, two renames, journal removal), drop records, roll back, close | kill or power loss between any two calls; a lock removed by hand; a rollback that fails; two runs on one base |
| Guide acceptance (`library.go`: Accept, Publish) | guides and records of the staged release, PDFs in its root | accept a better, worse or failed copy, place its PDF, state the release's status | what a later run with other options may lose; two guides of one PDF name |
| Library ZIP export (`library/zip.go`) | listing, hashes, part file, the ZIP | collect, verify, hash, copy, validate, replace | the folder is edited meanwhile; the lock is removed |
| Raw HTTP cache (`cache/cache.go`) | flights per URL with waiter counts, `fresh` marks, `closed`, body and metadata files | Get, Prefetch, acquire, wait, run, ensure, Close | joining, leaving and abandoning flights; Close beside all of them; damaged entries; kills between body and metadata |
| Cache root admission (`cache/root.go`) | directory, marker, part of the marker | open, create, look once more, change mode, undo | several processes create one cache; a step fails and is undone beside the others |
| Retrieval policy (`fetch/http.go`, `robots.go`, `deadline.go`, `compatible.go`) | robots rules, pause and last start per origin, four leases; two moving deadlines per retrieval | attempt, robots, lease, throttle, request, redirect, body, retry | deadlines racing answers; shared waits; slots lost on error paths |
| Attempt budget (`fetch/budget.go`, `dispatch.go`) | attempted, reserved, headers; a permit per request | begin, startAttempt, wroteHeaders, finish | callbacks from other goroutines; give back once |
| Catalogue and input readers (`source/catalog.go`, `portal.go`, `planning.go`) | channels, results by index, first error | discover, load mappings, read inputs side by side | results out of order; a failure that cancels the others; who drains the channels |
| Guide plans (`source/flare.go`, `hpe.go`, `static.go`, `oxygen.go`, `preference.go`) | pages found, visited data files | read TOC and chunks, follow links, register pages | cycles in the publisher's data; a page lost or twice in the plan |
| Routes and replacements (`source/resolve.go`, `peer.go`, `availability.go`) | mappings of releases, candidates, probes | resolve, probe, look for another source | a wrong guide substituted; a source called gone because a probe failed |
| Guided selection (`cli/selection.go`, `options.go`) | answers, history, availability of the guides | ask, go back, scan availability, apply it | answers that outlive the step that asked for them |
| Terminal prompts and completion (`cli/prompt.go`, `completion.go`) | the running prompt, keys typed ahead, channel of one for suggestions | run, answer, complete a path, close | keys between two prompts; a late suggestion; a program that ended |
| Download command (`cli/download.go`) | guides put aside, rounds, exit code | attempt, put aside, retry round, give up, publish, abort | which failure is recorded; cancellation between two attempts; what an exit code says |
| HTML archive (`internal/archive`) | topics of a plan, prefetch channels, size budget; of every file the pages need: absent, pending, complete, failed, unavailable or substituted | prefetch, inventory, load and try assets, replace what is gone, sanitise, rewrite | workers that leave, results out of order, cancellation while a channel is full; files that refer to each other while they are rewritten; a failure on trial that counts later |
| PDF rendering (`pdfgen/render.go`, `process*.go`, `memory*.go`) | render slot, process group, temporary files, record, guide folder | start, watch, stop, check, publish, roll back, record the failure | a tool that hangs or grows; a step that fails after the PDF is in place |
| PDF outline and footers (`pdfgen/qpdf_outline.go`, `qpdf_audit.go`, `footer.go`) | doubly linked outline, footer labels | write, validate, walk, label pages | one wrong link, count or destination among many; several topics on a page |
| Sidecar checks (`pdfgen/sidecar*.go`, `quarantine*.go`) | remembered checks by file snapshot | list, compare, read, hash, remove the quarantine | a file is edited or replaced between the check and the use |
| Print publication (`internal/publication`) | index of an archive, contents, outline | verify, index, compose, rewrite links, label | redirects and wrappers: one URL, several pages; links that lead nowhere |
| Release packaging (`releasepkg/acquire.go`) | private stage, members, identity of the archive | preflight members, unpack, confirm, publish | names that clash; the archive, the stage or the destination is swapped meanwhile |
| Publisher PDF, storage helpers, library pages and search, versions, progress, PDF checks, destination policy and URLs, types, commands and scripts | | | see *Not modelled* |

The CLI opens one `Run` of the library, resolves guides through the catalogue,
routes and the selection, plans each through `source`, and archives it through the
cache `Store`; the store calls `Client.Download` of the retrieval policy, whose
requests go through the attempt budget and a lease of the backend; an archived
guide may be composed for print, rendered, its outline audited, and is accepted
into the staged release, which `Publish` moves into place and the ZIP exports.

What makes each part correct:

- publication: one owner at a time; a release is replaced by compare and swap
  on what the run opened; whatever a crash leaves is recoverable; a published
  release is never lost; the ZIP is the earlier one or a whole new one;
- cache: one writer per URL, exact waiter counts, cancellation only of one's
  own, metadata only after its body, fresh only when validated; of a shared root
  everybody is in the directory at the path;
- network: rules before content, spaced starts, leases always returned, every
  wait bounded; attempts made plus reserved never exceed the maximum;
- planning: nothing the publisher lists is left out or twice in a plan, whatever
  overtakes what; a guide is replaced only when it is gone, and only by its own;
- selection: the choice stands for the place finally chosen and for the command
  line; keys and suggestions reach the question they were meant for;
- guides: every attempted guide is recorded once, with its first failure; a
  published copy is never replaced by a worse one; status and exit code are true;
- archive: a guide without errors holds every file its pages and files refer to, and what the
  publisher no longer serves is named in the manifest or a warning;
- PDF: a guide accepted with a generated PDF is exactly what its manifest says;
  tools are stopped and pinned; outline and footers agree with the plan.

## Modules

| Module | Models | State and actions |
|---|---|---|
| `ReleaseRegister` | abstract specification of publication | one release, changed by compare and swap, reports of success |
| `Publication` | `Run` of `internal/library` and its disk | `disk` is what processes see, `durable` the states a power loss may leave; one action per step between two file system calls that another process or a crash can separate |
| `CacheStore` | one URL of `cache.Store` | callers and flights as two program counters; every section under `Store.mu` and every file operation is a step |
| `CacheRoot` | `Prepare` of several processes on one path | `root` is what is at the path, `opener` a process: where it is, its file descriptor (live or of a directory since removed), what it made; every file system call is a step that may fail |
| `Retrieval` | the retrievals of one `fetch.Client` from one origin | a program counter, two deadlines and a timer per retrieval; `Tick` moves time in units of 15 s of the default settings |
| `AttemptBudget` | `AttemptBudget` and `scheduledBackend.RoundTrip` | every section under the budget's lock is a step; connections and headers come from the backend |
| `CatalogReaders` | `LoadCatalogWithWorkersObserved`: the portal's resources and the pool for the mappings | `stage` is the loader, `loading` the index each goroutine reads |
| `InputReaders` | `readAll` and its jobs | feeder, readers, results by job, the first failure that counts |
| `GuidePlan` | planning of the Flare, HPE and static kinds, and the preference for PDFs | what the publisher's data hold is chosen as it is read; `topics` and `contents` grow as the code registers pages |
| `OxygenPlan` | the Oxygen portal's TOC, nested data files, front and back matter | `outline` with branches to expand, `visited` data files, links followed backwards and forwards |
| `Routes` | `ResolveDocuments` for one guide, `ProbeDocumentAvailability`, peers and release PDFs | mapping tables of releases and platforms, candidates tried in order |
| `Selection` | the wizard of `selection.go` and the direct command line | one variable per option, `history` of snapshots to step back to, `sources` as probes found them |
| `Prompts` | the prompt session, its program, and the completion goroutine | caller, loop and worker as three processes; channels of the code |
| `GuideRounds` | `downloadGuidesObserved`, `Run.Accept` and `Run.Publish`, over any number of runs | `staged` and `published` releases as records, guides and root PDFs; an attempt is one choice among the copies a guide can yield |
| `TopicPrefetch` | `htmlArchiver.inventory` and `topicPrefetch` | the two channels, a program counter for the archive, one for each worker |
| `Assets` | `assetManager` (`load`, `probe`, `fail`, `recordFailure`) and the uses of it in pages, image slots, linked images and page stylesheets | `assets` is what the manager knows of each file, `stack` the files being rewritten, the innermost last, `answer` what the load that just ended returned; `order`, `losses`, `errors` are what the manifest says |
| `PdfRender` | `GenerateInRoot` of `pdfgen` up to acceptance of the guide | `pdfAt` is the step, `tool` the process that runs, `guideDisk` what is in the guide's folder |
| `PdfOutline` | the outline's links, `validateQPDFOutline`, `AuditOutline`, `buildFooterPlan` | objects as records of links; the audit's recursion as a stack `frames` |
| `Sidecars` | the verification of a tool's pinned files and what relies on it | files with change times, the remembered snapshot of each, one check after another |
| `PrintAssembly` | verification, indexing, contents, topics, links, outline and labels | one action per stage of `Assemble` |
| `Extraction` | `ExtractArchive`, whole and selective | members one by one; other processes rewrite, replace and swap |
| `ZipExport` | `ExportZIP` | listing, verification, hash and copy per file, beside edits |
| `Ordered` | the loops of `internal/source` that keep some elements of a list in its order | `Those`, used by both readers |
| `Planning`, `Workshop` | the sums described below | |
| `CacheRootProofs`, `CacheStoreProofs`, `GuideRoundsProofs`, `PlanningProofs`, `PublicationProofs`, `RetrievalProofs`, `TopicPrefetchProofs`, `WorkshopProofs` | theorems about the module they are named after; `PlanningProofs` holds those about the catalogue, the input readers and the guided choice, `WorkshopProofs` those about the budget, the ZIP, the rendering, the prompts, the pinned files and the extraction | |
| other `MC*` | instances for TLC | |

`Publication` implements `ReleaseRegister` under the mapping `release <- Exposed(disk)`,
`based <- prev`, `reported <-` the runs whose `Publish` returned nil: the
property `AtomicPublication`.

### What a power loss leaves

Every change is first seen by the processes and later on the disk; `durable` holds the disks a
power loss may leave, and `SyncDir` of a directory commits the names in that directory. It does not
commit the name that the directory has in its own parent, and `storage.EnsureDir`
(`files.go:104`) makes folders without syncing their parents. So `disk.fresh` holds the folders whose
names are not on the disk yet, and a power loss may take any of them with all they hold:

- a stage (`library.go:178`) or a recovery folder until the sync of `.staging`, which comes after
  the promotion (`library.go:1412`) or the recovery (`library.go:1242`). The journal is on the disk
  before that (`ownership.go:213`), and may outlive the stage that it names;
- the folder `.snapshots/<version>` (`library.go:1318`), which nothing ever syncs. Only a power loss that
  spares it makes it durable.

`disk.lost` remembers the whole trees that were taken. `Cut` says that one of them is the tree that
the journal needs: then, and only then, the next run ends in "interrupted publication requires manual recovery"
(`library.go:1223`). `AlwaysRecoverable`, `HealthyNeverFails` and `NothingDestroyed` name this exception.

Taken as given: a rename reaches the disk as a whole (not in one of its two parents only), and a sync
of the release's parent commits what was renamed there; the base and the platform's folder are on the disk
from the start; a snapshot that `dropRecords` removed may come back, which no run notices. On Windows
`SyncDir` does nothing (`files.go:211`) and the model does not apply.

### The two sums

Parts that share no state with each other are checked together. `Planning` takes in each
behaviour one of `CatalogReaders`, `InputReaders`, `GuidePlan`, `OxygenPlan`,
`Routes`, `Selection`, `PrintAssembly` and `Assets`; `Workshop` one of `AttemptBudget`, `CacheRoot`,
`ZipExport`, `TopicPrefetch`, `Prompts`, `PdfRender`, `Sidecars`, `PdfOutline` and `Extraction`.
`component` names it; the variables of the others hold 0 and never change, so a sum
has as many states as its parts have together. Each invariant of a sum is one
part's type invariant and correctness, `PlanningSettles` and `WorkSettles` are the
liveness of the parts that need it. A sum is no composition: the parts run one
after the other in one process, or, like prompts and cache root, meet nowhere.
Deadlock is not checked in the sums, because the parts end. Both sums leave their inputs open
(the publisher's data and the command lines; the files of a tool, the archives, what is
selected of them), and `MCPlanning` and `MCWorkshop` name those that TLC takes.
`WorkshopProofs` takes the theorems about the cache root and the prefetch from the modules of
those parts.

## Runs

| Run | Instance | Shows |
|---|---|---|
| `pub_faults` | a faultless run beside two that crash, fail at any call or lose power, one of which leaves only PDFs | one owner; recovery finds the tree that the journal promises in every state that can survive, but for a power loss that took the unsynced folder of that very tree; refinement of `ReleaseRegister`; the faultless run ends and fails for nothing else that it finds; a folder of PDFs is left alone |
| `pub_careless` | three runs whose locks may be removed while they live | published releases stay whole in the folder or a snapshot, unless power was lost before the folder of the snapshot had reached the disk |
| `cache` | two calls, Close, kills, damage, fair scheduling | one writer, exact waiter counts, root unused when closed, `DiskTruthful`, `ReturnsTruthful`, calls and Close return |
| `fetch_deadlines` | two retrievals, one lease, one retry | rules first, leases in use, starts spaced, every retrieval ends |
| `guide_rounds` | two guides, two PDF names, two kinds of missing resources, two retry rounds, any number of runs with changing options | records, status and exit code are true, no copy gets worse, root PDFs match the records, runs end |
| `planning` | two goroutines, two guides in a configuration of up to three resources, three inputs, trees of two nodes in two chunks, Oxygen TOCs of three entries, mappings of four releases and three platforms, eight command lines, six of them with questions, and answers without a bound, a few hundred tables of contents over five archives; five guides of three stylesheets, a vector, two images and a font, with two uses by the pages | one invariant per part: `CatalogComplete`, `ReadsTruthful`, `PlansComplete` (both planners), `ReplacementsEarned`, `ChoiceStands`, `PrintIsWhole`, `ArchiveTruthful`; pools, plans and archives come to rest |
| `workshop` | three requests with budget 5; two openers on five foundations; three files and two edits; two workers with five topics; two questions and four keys; every failing step; two pinned files, three changes, two checks; outlines of three entries with one damaged field; archives of three members | one invariant per part (for the budget `BudgetKept` and `BooksBalance`); the work comes to rest |
| `pub_rerun_refused` | two runs | counterexample: a kill between creation and write of the journal leaves a base that every later run refuses |
| `pub_drop_interrupted` | two runs, one of which leaves only PDFs | counterexample: a kill while the records are dropped leaves a folder that no run accepts or repairs |
| `prefetch_cancelled` | one worker, three topics, cancellation | counterexample: the worker leaves on cancellation while the archive hands over topics, and the send to the full channel never returns |
| `selection_unreported` | the wizard of `planning` | counterexample: a guide found unavailable is skipped, and a later answer empties the list of skipped guides |
| `render_refused` | the rendering of `workshop` | counterexample: a failure while the finished PDF is published makes acceptance refuse the guide, HTML and all |

### Bounds

Three runs of the library are enough for a crashed run, one that recovers it
and one that competes. Two calls of the cache give a flight that is abandoned and
a call that waits for it, joins it or starts the next; the theorems cover any
number. Two retrievals give a reader of the rules and a follower, and a
holder of the lease and one that waits for it; `MaxHops` and `MaxChunks` bound
redirects (10 in the code) and the reads of a body that never ends. Two guides may
share a PDF name or have one each, and `Rounds` is the code's two.

Three requests against a budget for two and a half bring one refusal, and a
backend that takes one connection more than its allowance brings the alarm. Two
goroutines of a pool overtake each other with two jobs; a third comes when one
has failed. Five topics are one more than the window of two workers, so that the
archive hands one over while it reads. Two data files form a cycle, and one that two
branches name; the front and back matter goes to three pages so that a link can
lead back. Three platforms can agree and disagree on a target, and the four
releases are the one chosen and its neighbours in the publisher's numbering. The answers of the
wizard need no bound: its states are finitely many, and TLC follows the user
through every question, back to the platform, the release, the mode or the guides, and on to a choice, as
often as that leads to a new state; the command lines fix each group of options once. The tables of contents hold every pair of the ways in which an entry can name a page
(by URL, fragment, redirect, wrapper, other host, not at all), nested and side by
side, and triples of the ones that interact. The guides of `Assets` hold a cycle of a stylesheet
and a vector's, a stylesheet first wanted by a page and then by a vector, an image shown and
linked, one stylesheet name twice on a page, and a table stylesheet of another guide; every
read may end in each of six ways, two uses set a use against what an earlier one left behind, and with
`MaxAssets = 5` of seven files the archive can be full. One damaged field of an outline is what `PdfOutline`
needs: each check looks at one object and its neighbours. Three members of an archive
can clash in name, repeat a directory, and exceed the total; three edits of pinned files
are an edit, a replacement and a touch.

Deadlock is checked except in `prefetch_cancelled`, where a cancelled archive does stop for
ever, and in the sums and their counterexample runs, where a part ends.

### Fairness

`Publication!FairSpec` is fair to the steps of healthy runs only: a process that is
neither killed nor failed by I/O keeps running. `CacheStore!FairSpec` schedules
goroutines, and takes it that a download ends, which `Retrieval` shows under
its own fairness: time passes, and a goroutine that can proceed without waiting
does. The server owes nothing: an answer is never assumed. `GuideRounds!FairSpec`
lets the command go on; attempts end because retrievals do. The sums state the
fairness of their parts: goroutines are scheduled and reads end
(`CatalogReaders`, `InputReaders`, `TopicPrefetch`, `Prompts`), a plan and an audit
go on (`GuidePlan`, `OxygenPlan`, `Assets`, `PdfOutline`), a process that opens the cache goes on.
In `PdfRender` the tool owes nothing: only its context, a timer, is sure to end,
and a process group that is killed dies. Nobody is obliged to cancel and the user owes
no answer. Loops that end by their own bounds (`Routes`, `Selection`,
`PrintAssembly`, `ZipExport`, `Extraction`, `Sidecars`) have no liveness property: it would
say no more than the bound.

## Proofs

`PublicationProofs` proves what `pub_faults` and `pub_careless` check, except `HealthyEnds`, for any
set of runs, from the assumption that no lock is removed while its owner lives; only
`NothingEverDestroyed` does without it. It goes in three layers.

- The lock. `TypeCorrect`, and `OneOwnerAlways`: a run enters the owning steps only through the
  exclusive create, every later step keeps or checks the lock (`KeepsLock`), and only the
  owner's `Close` or the operator, after the owner has ended, removes it. Each
  action is shown to keep the run variables well typed (`RunOK`) and the disk well
  typed (`DiskOK`) once.
- Recovery. `AlwaysRecovers`, `HealthyAlwaysSucceed`, `PdfFolderKept` and the
  refinement of `ReleaseRegister` (`PublishingIsAtomic`). `AlwaysRecoverable` is far from inductive:
  the invariant `IInv` says, label by label, what the run at work knows of the disk
  (`AtWork`: which tree is where while it is renamed, what the journal says), what every
  run may rely on before it has a journal (`Fresh`), and what a power loss may leave
  (`DurableOK`: the disks that may survive differ from what is seen in the trees or in the
  journal, never in both, and expose the same release or the one before an unreported
  publication). A power loss that took the tree the journal needs leads out of `IInv` into
  `Stranded`, where no run gets past recovery; `IInv \/ Stranded` is inductive. For the refinement each step of a run is shown to leave the exposed
  release alone or to be the one compare and swap of that run, and a power
  loss to be a step that the register allows (`Advances`).
- Published releases. `NothingEverDestroyed` holds with locks removed under living runs,
  so it may not use who owns the folder. `KInv` follows each release instead: it is in its
  stage until its own run moves it and kept from then on; `DInv` says the same of
  the disks that may survive a power loss, apart from the trees that a power loss took (`Lost`). Its hypothesis `PdfRuns = {}` is the one of the run
  `pub_careless`: a run that leaves only PDFs drops records on purpose.

`RetrievalProofs` proves `TypeCorrect`, `RulesAlwaysFirst`, `LeasesAlwaysInUse` and
`StartsAlwaysSpaced` for any number of retrievals, leases, retries and deadlines. The invariant
adds to the types what a retrieval at each position relies on (`CallsOK`: the
robots entry it loads is its own, content is asked for under rules that allow it, a backoff has
a retry left) and that leases are held exactly at the positions between lease and
answer (`LeasesOK`). Most steps change one retrieval (`OneCall`). `Retries \in 0..10`
is what `Config.Validate` enforces; the delay of a stalled body is a power of two of it.

`CacheRootProofs` proves `AdmissionAlwaysSafe` for any set of processes, all faults (kills too,
which the run leaves out) and all foundations that the module knows. What one process does
takes nothing from another (`Wider`), except that it removes a directory it created and finds
empty: nobody can have come further than listing it. `Placed` says what a process at each
step relies on; `Calm` and `AtEase` are the stronger facts that hold while nobody was cut short.

`GuideRoundsProofs` proves `TypeCorrect`, `RecordsAlwaysTruthful`, `StageAlwaysMatches` and the
action property of `NeverGetsWorse` for any guides, offers, PDF names and rounds. A guide is in one
place at a time (`OnePlace`): not tried, in the attempt, put aside, due again, or recorded
once; so a run accepts it at most once and compares each copy with the published
one (`Kept`). No two guides keep a PDF of one name in the release folder (`RootsApart`), and the
folder holds what the guides say (`Matches`). The assumptions: the placeholder `None` is no guide,
name or copy, and what the publisher offers has a name of `Names`.

`TopicPrefetchProofs` proves `PrefetchAlwaysSound` for any number of workers and topics. A
topic is downloaded once: nothing is known of a topic that is queued, downloaded or not yet
handed over, and no two workers have it (`Unserved`), so what waits for the archive says what its one
download ended with (`Reported`). The window is counted: what is outstanding is at most what was
handed over and not yet taken (`Ahead`).

`CacheStoreProofs` proves every safety property of `CacheStore` for any finite set of
calls. It goes in two layers.

- `CallsInv` (calls and flights) joins `TypeOK`, `OneWriter` and `WaitersExact` with what they
  need to be inductive. `Started`: a flight is named by the call that started it, so a
  call that has not started one finds its own unused and nobody waits there; the
  flight in `active` runs. `Cancellations`: a flight ends with a cancellation only when it was
  cancelled, and it is cancelled only when its last waiter left or Close came; as an
  abandoned flight has no waiters, no waiter receives another's cancellation.
  `Closed`: Close passed its waits in order. `WaitersExact` counts a set, so joining and
  leaving go through `WaitingCounts`, the library's facts on cardinality.
- `FilesInv` (the entry) says of a flight that it names a body on disk before it writes
  metadata, and that success with `refresh` or `networked` means a validated entry; and of
  a refreshing call that it waits for a refreshing flight or has to look at what the
  flight it joined did. `DiskAlwaysTruthful` and the action property of
  `ReturnsAlwaysTruthful` follow.

Steps are grouped by shape: `Works` is what all steps of a flight share, `Quiet` a step of a
call that touches no flight, `Leaving` the end of a wait.

`WorkshopProofs` proves every invariant of the run `workshop` but the audit of the outline. A step
of the sum is a step of one part and leaves the variables of the others alone, so what is
invariant in each part is invariant in the sum (`OnePart`): `AdmissionSafe` and `PrefetchSound`
follow from the modules of their parts, the others are proved there.

- The attempt budget, for every set of requests and every backend. An admission adds the allowance to
  `reserved` under the guard that it still fits, a connection moves one unit from `reserved` to
  `attempted`, and nothing else adds to either: `BudgetKept` with the bound on what a permit
  may start. `BooksBalance` says that the two counters are sums over the permits. The sum is
  stated as the cardinality of a set of units, one for each attempt that a permit holds or has
  started, so that a step moves one summand; `RequestInv` says what the permit of a
  request at each position still holds.
- The ZIP, stage by stage (`ZipInv`): what was verified has the node and size of the list, what was
  copied the content that was hashed, and the part takes the place of the ZIP only when it is whole.
- The rendering: `StageOK` says what each step of a PDF has left in the guide's folder, in the
  record and in memory, `ToolOK` what a tool at work means, `NoticeOK` that the failure recorded
  is the one that happened. The rollback restores what the step before it knew to be there.
- The prompts: what was pressed is what was used followed by what is pending, a prompt belongs
  to the question that is asked, and each answered question has one reply.
- The extraction: after `k` members the nodes are closed under directories, no two differ only
  in case, nothing lies under a file, and the explicit ones are the members (`NodesOK`), whose bytes
  are within the limit (`LimitsOK`); the staged tree is what the members seen so far put out
  (`StagedOK`), all of it as pinned once the archive was found unchanged after the last byte.
  Two outputs of one archive never meet (`OutputsApart`), neither by name nor one under
  the other; for a selective extraction this rests on the check of the selections.

- The pinned files (`OnlyPinnedIsTrusted`), for any files, changes and checks. Nothing that the
  verification remembers is younger than the clock, and every change of a file moves its ctime past
  the clock; so a file that still looks as remembered is the one that was hashed, and one whose
  ctime is at most the beginning of the verification was not changed since.

`WorkshopAssumption` says what the inputs are: paths are non-empty sequences of known names, members
have a kind and a size, limits are numbers, files are finite.

`PlanningProofs` proves `CatalogComplete`, `ReadsTruthful` and `ChoiceStands` in the sum, for any finite
pool and any catalogue, set of inputs or command line. The first two go by counting. Each guide or input handed
out is in the hands of one goroutine or has its result, so the number of results and of
goroutines at work adds up to what was offered, and the loader that counts results knows when
it has all of them. In the pool of inputs, whoever ends it leaves the failure that ended it,
and a cancellation is written down only where such a failure stands. What is then listed in
the order of the data rests on the lemmas about `Those`: its elements are the ones
wanted, each once, in the order of the sequence. `Those` is a recursive function, and the
induction over the length is done with the least length that fails (the library's
well-foundedness of `Nat`), because the induction theorems themselves cannot be instantiated.
`PlanningAssumption` asks for at least one goroutine and a finite pool.

`ChoiceStands` holds however long the user wanders (`ChoiceInv`).

- `HistoryOK`: the questions behind lie in the order of `Steps` before the one asked, and each may
  still be asked: no answer changes which earlier questions the command line leaves open. So
  the question about guides cannot be passed over while some are to be chosen.
- `ChoiceOK`: once that question is behind (`Settled`), the guides are the ones ticked. Going back to it
  may change the draft alone, and then it is no longer behind. Under "all", a snapshot leaves out
  only guides that are gone, and a guide found gone stays so until the place changes, which
  drops the snapshot.
- `FixedOK`: what the command line fixed is as it was given, and `StartOK` that nothing is answered
  before the first question.
- A preference or conversion that was answered and is no longer relevant is reset by the pass over the
  questions that completes the choice, and another destination or place resets `refresh`.

`ChoiceAssumption` says what a command line is that Cobra and `validateFor` accept
(`CommandLine`): what is not fixed has its default, `--all` and `--guides` exclude each other, and
questions are asked exactly when something is missing.

The other assumptions are those the modules name: finite sets of calls, retrievals, requests and
workers, distinct placeholders, Boolean options.

Model-checked only:

- liveness (`HealthyEnds`, `EverybodyReturns`, `RetrievalsEnd`, `RunEnds`, `PlanningSettles`,
  `WorkSettles`): fairness and ENABLED are out of the prover's reach;
- what an algorithm computes from its whole input by recursion over trees, graphs or tables:
  `PlansComplete`, `ReplacementsEarned`, `PrintIsWhole`, `ArchiveTruthful`, `PdfIsAsPlanned`.

## What the checks found

Each is a run with a counterexample:

- A run killed while it writes its journal leaves a base that later runs refuse
  (`pub_rerun_refused`).
- A run killed while it drops the records of a folder of PDFs leaves a folder that
  nothing completes (`pub_drop_interrupted`).
- An archive cancelled while it hands topics to its workers may wait for ever
  (`prefetch_cancelled`).
- A guide found unavailable in the wizard is neither downloaded nor reported when a
  later answer applies the availability again to the reduced list
  (`selection_unreported`).
- A PDF that fails while it is published leaves a record of the failure that still
  has its hash, size and pages; acceptance refuses the guide, and the download ends
  unpublished (`render_refused`).

Met while modelling, each without a run:

- A power loss between the sync of the journal (`ownership.go:213`) and the sync of `.staging`
  (`library.go:1412`) may leave the journal of a first publication without its stage, and every later run
  ends at `library.go:1223`. The folder of the snapshots (`library.go:1318`) is never synced: a power loss
  between the two renames may take the previous release with it.
- A stall of the retrieval that reads the robots rules fails the retrievals that wait
  for it with their retries unused (`fetch/http.go:595`; `docs/go-architecture.md:79`
  describes a stall as one retrieval's own), and a request that waits out another's
  pause can use up its attempt there (`http.go:547`, comment at `http.go:195`).
- A cancellation after the last guide was accepted publishes a complete release and
  exits with 130.
- A process killed while it creates a cache root leaves a part of the marker; processes
  that open the cache later wait for a marker and refuse. The constant `Faults` of
  `CacheRoot` takes "kill".
- A file of the release edited between its verification and its hash is exported as it
  then is: the ZIP is whole, and differs from the manifest.
- The wizard may find a publisher's PDF in a rescan that follows the preference
  question, and does not ask it again; a document replaced by a release PDF is probed
  again after every answer; two guides of one URL share their replacement.
- An Oxygen page may be front and back matter at once.
- The generator accepts an outline entry without a target and a leaf with a stray
  `/Last`; only the audit refuses them.
- Images are written into a page before its links. An image that is gone and both shown and linked
  at full size is therefore a placeholder when the link is reached, and the link's load of it makes
  the guide incomplete; `docs/go-architecture.md:229` says that such a link only loses its target.
- A stylesheet of a page, or a linked vector, that is served but needs a file that is gone is
  recorded as itself gone; the guide is incomplete either way.
- In print, a planned topic that the TOC does not name has no bookmark, links to other
  guides stay relative, and a URL that two pages claim is linked to the publisher.
- An extraction whose last directory sync fails reports a failure though the tree is in
  place, and the next one refuses the occupied destination.

## Not modelled

Within the modelled parts:

- `GuideRounds`: an attempt is one outcome, hashes and metadata checks are one
  condition, skipped unavailable guides and history are left out; every copy whose PDF
  failed is taken as accepted, where `render_refused` shows one that is not.
- `TopicPrefetch`: topics found in other topics, which are read without workers.
- `Assets`: markup and CSS syntax (what a file refers to is given), the size budget, the limit on
  nesting, media types, cancellation during a load, the remote fallback that a font recovery keeps.
- Planning: the publisher's syntax, URL normalisation and words of titles are choices over
  their results.
- `PdfRender`: what the checks of a PDF look at, the browser's flags, temporary files.
- `PrintAssembly`: markup, styles, page breaks; a topic's file hashed at one moment and parsed
  at another.
- `Sidecars`: architectures, names, unreadable metadata of sync clients, and edits between the
  last check and the start of the tool, or between the check and the removal of the quarantine,
  which no check could see.
- `Extraction`: failures while our own staging directory is removed, an edit of the archive that is undone between two checks, a stage swapped after
  the last check, an empty directory created at the destination before the rename.
- `ZipExport`: the ZIP format. `Prompts`: drawing.

Left out as components, because they are functions or plain I/O without states worth
exploring: the publisher's PDF (one download, validated and written), library pages and search,
comparison of versions (`Publication` takes its verdict), progress and summaries, read-only
checks of PDF files, admission of URLs and dial targets, data types, commands and scripts, and
in the HTML archive the sanitising and rewriting of markup.

## Plan

1. HTML archive: the inventory of topics found in other topics, unpublished topics, the size budget,
   degradation as `GuideRounds` compares it.
2. A composition of one guide attempt: plan, archive, PDF, acceptance.
3. Proofs: the parts of `PdfIsAsPlanned` that concern one object of the outline.
