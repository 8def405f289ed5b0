# Formal models of audit-log

audit-log is a Go service that records audit events in one append-only table
(`audit_events`) and serves them, newest first, over gRPC and over a small HTTP
API with a query page. This directory holds TLA+ models of it, the TLC runs
that check them on small instances, and theorems that TLAPS proves for every
value of the constants.

    tlc -config two_processes.cfg MCAuditService.tla     # one run
    tlapm AuditServiceProofs.tla                         # one proof module

## 1. The system

| Component | State | Operations | Source |
|---|---|---|---|
| Write path | one handler per call; the id generator of the process | `WriteEvent`, `WriteCompensation` | `grpcapi/server.go`, `usecases/audit_service.go`, `domain/builder.go` |
| Event repository | the table | `Save`, `FindByID`, `Query`, `QueryNamespaces` | `persistence/event_repository.go` |
| Query service | none | `QueryEvents`, `GetEvent`, `ListNamespaces` | `usecases/audit_service.go`, `grpcapi`, `httpapi` |
| Request conversion | none | gRPC and HTTP requests to options, events to answers | the two `mapconv` packages |
| Query page | filters, events shown, next token, loading flag | search, load more, edit filters | `web/src/pages/QueryPage.tsx`, `searchQuery.ts` |
| Date range control | a preset or two dates | select, enter dates, resolve to bounds | `web/src/dateRange.ts`, `components/DateRangeFilter.tsx` |
| Server process | telemetry providers, database connection, two servers, signal context, `errCh` | start, install, migrate, bootstrap, serve, shut down | `cmd/server/main.go`, `infra/database`, `infra/telemetry` |
| Configuration, wiring, version, assets | read once | | `internal/infra`, `cmd/server/wire` |

Handlers run concurrently (one goroutine per call) and share nothing but the
table and the generator of UUIDv7 ids. Several processes may use one database.
A client sees an error, an answer or a deadline; nothing deduplicates retries.
No row is ever updated or deleted by the code.

What is hard, and the properties that say so:

- **Lookup and INSERT of a compensation are two steps** (`audit_service.go:25-35`).
  A stored compensation must still refer to a stored event of its tenant:
  `CompensationIntegrity`.
- **The row is committed before the answer** (`server.go:30-38`). A confirmation
  must be true and a refusal must leave nothing, whatever deadlines and restarts
  do: `AnswersAreTrue`, `RowsHaveOneOrigin`.
- **The id and the timestamp come from two readings of the clock**
  (`builder.go:203,208`), while order and cursor rest on the id: `IdsGrow`,
  `CompensationsPointBack`, and the finding `NewestFirst`.
- **Rows appear above and below a cursor during a walk**
  (`event_repository.go:161`): `WalkComplete`, `PagesDescend`.
- **The row fetched ahead and the token** (`audit_service.go:99-108`):
  `TokenPromisesPage`, `WalkEnds`.
- **A bootstrap that fails half-way, again and again** (`main.go:81`):
  `BootstrapIsPrefix`, `AppendOnlyEnforced`.
- **Two drains with deadlines, then the deferred Close** (`main.go:143-162`):
  `ShutdownLosesNoCall`, and `SignalEndsProcess` from the time it serves.
- **The second exporter may fail after the first provider was installed**
  (`telemetry.go:67`), and the providers must outlive the last call:
  `TelemetryEndsLast`.
- **Load more sends an old token with the filters of the moment**
  (`QueryPage.tsx:319`): `ShownDescends`, `ShownIsWanted`, `NothingSkipped`.
- **A preset is resolved again for each page, past midnight too**
  (`QueryPage.tsx:49`): `NothingSkipped` for what all pages were asked for, and
  the finding `LoadMoreContinues` for what the search alone was.
- **An answer is applied to whatever the page shows when it arrives**
  (`QueryPage.tsx:75`), or never arrives: `ShownIsCurrent`, `TokenIsLastShown`,
  `LoadingEnds`.
- **Two transports decode the same question with different code**, and an answer
  over HTTP has lost the fractions of its timestamps: `TransportsAgree`,
  `AllNamespacesIsNone`, `LaterAnswersKeep`, `ShownIsQueryable`.
- **The namespaces offered leave out the empty one**
  (`event_repository.go:186`): `NamespacesAreListed`.
- **Weeks, months, leap days and clock changes in local time**
  (`dateRange.ts:14-79`): `RangeIsPeriod`, `PeriodsAdjoin`.

`PROJECT.json` lists every hazard at its line. Five have no property: retries
are new calls and nothing in the code says otherwise; the pool that keeps the
in-memory database alive, and the comparison of timestamps in it, are the
libraries'; a signal during the start waits for the database without a deadline
(`main.go:54-89`), so that no end can be promised; and a typed year below 100 is
taken to be of the twentieth century (`dateRange.ts:73`), which `TypedDate` models
and `RangeIsPeriod` leaves out.

## 2. The modules

| Module | Models | Instances and proofs |
|---|---|---|
| `AuditLog` | what the service promises: a growing set of events, one per call at most, founded compensations, confirmations of recorded calls only | |
| `EventRepository` | the table's reads and `QueryEvents`, as operators over a set of rows | `EventRepositoryProofs` |
| `AuditService` | the write path; EXTENDS `EventRepository`, implements `AuditLog` | `MCAuditService`, `AuditServiceProofs` |
| `PageWalk` | a client that walks the pages while writers commit; EXTENDS `EventRepository` | `MCPageWalk`, `PageWalkProofs` |
| `RequestConversion` | requests to options and rows to answers, of both transports, as operators; EXTENDS `EventRepository` | `RequestConversionProofs` |
| `QueryApi` | readers over both transports beside writers; EXTENDS `RequestConversion` | `MCQueryApi`, `QueryApiProofs` |
| `DateRange` | what a preset or two dates resolve to, with the calendar, as operators | |
| `DateRangeFilter` | the control that sets the range while time passes; EXTENDS `DateRange` | `MCDateRangeFilter`, `DateRangeFilterProofs` |
| `QueryPage` | the page in front of the HTTP API; EXTENDS `RequestConversion` and `DateRange` | `MCQueryPage`, `QueryPageProofs` |
| `ServerLifecycle` | the process from start to exit | `MCServerLifecycle`, `ServerLifecycleProofs` |

**EventRepository.** `rows` is the set of committed rows. Pointers that may be
nil are sets of at most one value, so that `applyQueryFilters` is a conjunction
of quantifiers. The equality filters are represented by three columns: `tenant`, which every
event has, `action`, which is an enumeration, and `source`, which may be empty.
An answer is a set because `ORDER BY id DESC` fixes the order of distinct ids.

**AuditService.** The pc of a call is its place in the code; an action is the
code between two points where another handler, a restart or the client can
intervene.

| Action | Code |
|---|---|
| `Receive` | decoding in `server.go:25-56` |
| `LookupReferenced` | `FindByID` and the two checks, `audit_service.go:25-34` |
| `BuildEvent` | `Build` up to `NewV7`, `builder.go:181-207` |
| `StampEvent` | `time.Now`, `builder.go:208`, and the diff, `audit_service.go:72-86` |
| `Save` | `toRecord` and the INSERT |
| `Reply` | the conversion and the answer; an error also when the commit went through but was reported as failed |
| `GiveUp`, `Restart`, `Tick`, `SetBack` | the client's deadline, the death of a process, the system clock |

An id is `time * RandomSpan + tail`, where the generator's time never repeats in
a process (google/uuid keeps the last time in a variable) and is forgotten by a
restart; the tail stands for the random bits. Two processes, or one before and
after a restart, can therefore mint equal ids, which is what the primary key is
for. The `V7Time` operator models the library and is marked external. With
`Durable = FALSE` the rows die with the process (in-memory SQLite).

**PageWalk.** Writers insert any candidate row at any time, in any order of ids.
The client sends a query, receives a page, and goes on with its token; an answer
may be lost, and then the same page is asked for again.

**RequestConversion.** A request names the values given for each parameter, in
their order; a parameter that is parsed holds literals, one of which stands for
whatever does not parse. `IsMessage` says which requests a protobuf message can
hold. The options decoded are a set that is empty when the request is refused.
Instants are in units shorter than a second, because JSON shows whole seconds
and the table does not.

**QueryApi.** Each handler reads the table with one statement, so serving a
request is one step of decoding, reading and converting; the read may fail, as
a database may. `answers` is the history of what was served. `ShownIsQueryable`
asks again (`Again`) with every filter set to what was shown, for a page of one
event from the next id down: if the filters and the bounds still select the
event, it is that page, however many other rows match.

**DateRange and DateRangeFilter.** A local date is a day number; years, months
and weekdays are computed from it as `Date` does, with months and days out of
range carried over, and `TypedDate` is the day that a typed date becomes: its year
goes through `new Date(year, ...)`, which moves 0 to 99 to 1900 to 1999. The clock
is assumed to be past the year 100 (`ClockYears`), where that rule does not touch
the presets. A day has `DayLength` units, one fewer or more when the
clocks change. A range ends `Millisecond` before the next day. The actions of
`DateRangeFilter` are the control's handlers; `Means` is the reference
definition, by counting Mondays and comparing months.

**QueryPage.** One action for each thing the user may do, enabled as the
controls are: the buttons and the Enter key ask whether a request is out, edits
do not.

| Action | Code |
|---|---|
| `ToggleNamespace`, `EditFilters`, `EditPageSize` | the `onChange` handlers, one setter each |
| `ClickSearch`, `PressEnter`, `ClickLoadMore` | `search()` up to `fetch`: parse the query, resolve the range, build the URL |
| `Serve` | the HTTP handler, from the rows committed by then |
| `Receive`, `Fail` | the rest of `search()`: the answer replaces or extends the screen, or an error is shown; loading ends |
| `LoadNamespaces` | the effect that asks for the namespaces |
| `Insert`, `PassTime` | writers, and the clock of the browser |

`origin` is a history variable that only the properties read: what was asked for
the first page on the screen and for all of them (the form and the moment), which
rows the first one saw, and whether the screen answers the last request.
`NothingSkipped` is about the events that every page on the screen was asked for,
without a condition: an edit or a midnight between two pages takes away what the
later page did not ask for, and nothing else may be missing. What an unedited
search may lose is the subject of `LoadMoreContinues`.

**ServerLifecycle.** `stage` is the place in `run()`; the bootstrap executes
its statements one at a time, and the table and the executed statements survive
the process. `select` between the signal and `errCh` is a choice between
`BeginShutdown` and `ServeError`. `disrupted` records that a deadline passed, a
server failed or the process was killed. The statements of `BootstrapSQL` are
numbers; 1 is the REVOKE. The bootstrap is taken to reach the database of
`DB_DSN`; the migrations of libraries are one step. `telemetry` follows the trace and the
metric provider: `Install` may fail at either, and then shuts the first one down
itself; the shutdown that `run()` defers comes after the deferred Close, in
stage "flush", and may be cut off by its deadline.
`Main` is `Starting` up to `Listen` and `Finishing` from the `select` on.

## 3. The runs

| Run | Instance | Shows |
|---|---|---|
| `one_process` | 3 calls, 1 process, clock to 2, set back by 1 | `IdsGrow`, `CompensationsPointBack` |
| `two_processes` | 3 calls, 2 processes, one tail (ids collide), 1 restart, 2 tenants | `CompensationIntegrity`, `RowsHaveOneOrigin`, `AnswersAreTrue`, `ImplementsAuditLog` |
| `bad_requests` | 2 calls, each kind of bad request, 1 restart, clock set back | `TypeOK`, `RowsHaveOneOrigin`, `AnswersAreTrue`, `NamespacesAreListed` |
| `in_memory` | 3 calls, 2 restarts that lose the rows | `CompensationIntegrity` |
| `page_walk` | 5 rows, 11 queries: sizes -1, 0, 1, 2, 4, 5, 500, 501 and each kind of filter | the six properties of `PageWalk` |
| `query_api` | 3 events, 18 requests (pages, cursors, bounds, filters; empty, repeated and malformed values), 2 answers | `LaterAnswersKeep`, `ShownIsQueryable`, `TransportsAgree`, `AllNamespacesIsNone` |
| `date_range` | first and last instant of 98 days around a leap day, both clock changes and two new years; 4 dates to enter, one of the year 24 | `RangeIsPeriod`, `PeriodsAdjoin` |
| `query_page` | 3 events on 2 days, 4 search queries, page sizes 0, 1 (at first) and 2, 2 edits | `ShownIsWanted`, `NothingSkipped`, `ShownDescends`, `TokenIsLastShown`, `ShownIsCurrent`, `LoadingEnds` |
| `lifecycle` | 2 calls of each kind, 3 statements, 2 starts | `TypeOK`, `ShutdownLosesNoCall`, `BootstrapIsPrefix`, `TelemetryEndsLast`, `SignalEndsProcess` |
| `newest_first` | 2 calls, 1 process, clock to 3 | violation: see findings |
| `load_more` | as `query_page`, without edits | violation: see findings |
| `append_only` | 1 call of each kind, 1 start | violation: see findings |

*Why the bounds are enough.* A compensation, the event it refers to and a third
call that interferes are three calls; two processes are enough for equal ids
from different generators, and one restart for equal ids from one. A clock of
two values lets it stand still, advance and be set back around every step. In
`page_walk`, five rows are one less than, equal to and one more than page sizes
or multiples of them; page sizes 0, 500 and 501 are the edges of the check.
Two calls of a kind let one be answered while the other runs into the deadline,
and two starts let a bootstrap that failed be taken up again. In `query_api` two
answers are the two that `LaterAnswersKeep` compares, and three events make a
page, a rest and an event committed between the answers; two units make a
second, so that a timestamp with a fraction differs from the one shown. In
`query_page` the first page holds one event of three (the code starts with 20),
so that Load more has something to fetch and to miss; two edits change one
filter and then another, or change it back, before and while a request is out;
the two instants are noon of two days, with events on both. A date range depends
on the day alone, and `date_range` has days on both sides of every boundary and
compares each with the nine weeks before it. The clocks change inside a day, by
one unit of six; changes at midnight itself are not represented. `MaxTime`,
`MaxCrashes`, `MaxBoots`, `MaxAnswers` and `MaxEdits` are the only caps, and each
is a guard. Calls are interchangeable, so the safety runs of `AuditService` use
symmetry.

`CHECK_DEADLOCK FALSE` is set because every run may really stop: the calls are
answered, the walk is done, the starts are used up, the clock has reached its
last moment.

*Fairness.* `PageWalk!FairSpec` has weak fairness of `Answer` (the service
answers a request that stays) and strong fairness of `Receive` (not every answer
is lost); writers need not be fair or ever stop. `ServerLifecycle!FairSpec` has
weak fairness of `Finishing`, what `run()` does once it serves: it is one goroutine
whose waits for calls all have a timer, and the Go scheduler does not withhold its
steps for ever. Of `Starting` nothing is assumed: migration, bootstrap and connection
(`main.go:60-89`, `event_repository.go:267-271`) are database calls without the
context of the signal or a deadline, and one that waits for a lock may never return.
`SignalEndsProcess` therefore begins in stage "serve" or later. `QueryPage!FairSpec` has weak fairness of
`SettleAny`: a `fetch` is resolved or rejected in the end, by an answer or by the
browser; the server is not assumed to answer. Handlers and clients are not assumed to
do anything, which is the point of the two deadlines.

### Findings

1. **Newest first is by id, not by date** (`newest_first`). One handler mints
   its id and is overtaken, before it reads the clock, by a second one that mints
   and stamps; the smaller id gets the later timestamp.
   `event_repository.go:155-157` and `README.md:73` say otherwise.
2. **Load more does not continue a search past midnight** (`load_more`). The
   preset "today" is resolved for each request (`QueryPage.tsx:49`). The first page
   shows the newest event of a day, midnight passes, and Load more sends its token
   with the bounds of the new day: the answer is empty and ends the list, although
   the token stood for more results (`2026-04-02-audit-log-design.md:167`).
   "Yesterday" fails alike, and the weeks and months do when a new one begins.
   `UnmovedSearchContinues` proves that nothing else loses an event of an unedited
   search.
3. **Append-only is not enforced by the connection** (`append_only`): the
   bootstrap is optional and its failure is only logged; the design document
   (`2026-04-02-audit-log-design.md:237`) says the runtime connection
   "physically cannot UPDATE or DELETE".

`README.md:54` of the repository still calls `db_dsn` "Required"; the fallback to
memory (`main.go:58`) was made on purpose
(`2026-04-09-in-memory-db-fallback-design.md:12`), so that line is only out of date.

## 4. What is proved

All theorems hold for any sets of calls, servers, requests, rows and queries
that satisfy the named assumptions of the modules: requests are of type
`Request`, an in-memory database has one process, candidate rows are finite in
number with natural ids, the bounds are naturals.

- **`AuditServiceProofs`.** `TypeCorrect`; `CompensationsFounded`; `AnswersTrue`;
  `Refinement`, that with a durable database every behaviour implements
  `AuditLog`. `CompensationIntegrity` is not inductive: a handler past its lookup
  will store a reference that only the lookup justified. The invariant adds that
  every open handler of a compensation has its target in `rows` with the same
  tenant; it survives a lost database because such handlers die in the same
  restart. For `AnswersAreTrue` it adds that only
  a call that ended well was told OK, that in a durable database a recorded
  call's event is in `rows`, and that a call refused as wrong never built an event. In the refinement `Save` is
  `Record`, `Reply` with OK is `Confirm` or a stutter, everything else stutters.
  `NamespacesListed`: the builder let no event through without a namespace, from
  the request on. `RowsOriginate`, for a durable database only: there the rows
  are exactly the events of the calls that reached it; where rows are lost, an
  equal row may be written again and two calls own it in turn. `IdsAlwaysGrow`
  and `CompensationsLookBack` assume `OneGenerator`, one process that is not
  restarted, as the run `one_process` does: two processes may mint in any order.
  Their invariant puts every stored or minted id below the next one the
  generator can mint, and every compensation past its lookup above its target.
- **`EventRepositoryProofs`.** `PageAndToken`: the page is the newest rows below
  the cursor; without a token it is all of them; with one it is full, the token
  is its smallest id, and rows are left below it. The lemmas are about finite
  sets with distinct natural ids; `PageOfShape` is the same for the options that
  requests are decoded to, whose filters may hold anything.
- **`RequestConversionProofs`.** Lemmas: at most one set of options is decoded
  and it has the right shape, and what the answers of both transports are in
  terms of `QueryEvents`. The next two rest on them.
- **`QueryApiProofs`.** `AnswersKeep`, `AllIsNoFilter`, `TransportsAnswerAlike`,
  `ShownIsFound`, for any table, requests and number of answers. `LaterAnswersKeep`
  needs that ids are unique in the table and that whatever an answer listed is
  stored still; the step of each method then follows from the lemma about its
  answer. `ShownIsFound` needs more: what an answer shows is a stored event as it
  is, or as JSON shows it. It then rests on `CutOff`, that a timestamp cut to
  seconds is not above the timestamp, and on `FirstOfPage`, that the event is the
  newest below its id plus one.
- **`QueryPageProofs`.** `ScreenDescends`, `TokenFollowsScreen`,
  `ScreenIsCurrent`, `ScreenIsWanted`, `NothingIsSkipped`, for any events, page
  sizes, searches, edits and days that pass. The invariant `PageInv` says that at most one request
  is out, exactly while the page is loading; that one of Load more carries the
  token of the screen; and that its answer lies below that token, in order, with
  the id of its oldest event as the next token. So it is the loading flag, and not
  the filters, that keeps the screen in order: filters may be edited at any time.
  For the last two theorems `FilterInv` adds what has to be remembered of the
  filters: a request that is out carries the URL built from what was typed when it
  was sent; its answer was read from a table that all rows seen by the first page
  are still in; every event shown was asked for by one of the pages; and what is
  shown and what is left below the token are together everything that all pages
  were asked for, because a row below the old token that the new page was asked for
  too is on that page or below its token. `UnmovedSearchContinues` follows:
  `LoadMoreContinues` holds as long as the date range resolves to the same instants
  for every page. Under them is
  `SelectsWanted`: the options decoded from the URL select exactly what `Wanted`
  says, of which the first value typed for a key is the hard part
  (`FirstValueCounts`). `AtPlaces` is a function of the places, without recursion,
  so that this can be proved for queries of any length.
- **`DateRangeFilterProofs`.** `RangeNamesPeriod` and `PeriodsMeet`, for presets at
  any moment after the year 100 and pairs of dates of years from 100 on
  (`FourDigitYears`; by `TypedInFull` those are not moved), for any length of a day
  and any finite sets of days on which the clocks change; and
  `RangeNamesNothingElse`, which lifts the nine weeks that `RangeIsPeriod`
  compares. The invariant only says that a value is a preset or two dates that
  may be missing; the work is in the calendar. A day, a year and a
  month each begin after the one before (`DayStarts`, `YearLength`, `MonthGrows`),
  so that the searches in `DayOf`, `FullYear` and `Month` find the one that an
  instant or a day is in (`DayOfInstant`, `YearOfDay`, `MonthOfDay`), and counting
  Mondays or comparing months selects an interval (`MondaysCounted`,
  `DaysOfMonth`), the one whose ends `FirstDay` and `LastDay` give
  (`DaysOfPresets`). Steps from one day, month or year to the next go by the least
  counterexample (`LeastNatural`), because the induction theorems cannot be used.
  `Wanted` in `QueryPage` asks for the instants of a resolved range, so that these
  theorems also say which days the events on the screen are from.
- **`PageWalkProofs`.** The five safety properties of the walk. The invariant
  says that everything collected is at or above the token, that a matching row
  of the start is collected or below it, that a token has rows below it, and
  what the page on its way may hold although rows were committed since; the
  step of `Answer` cites `PageAndToken`.
- **`ServerLifecycleProofs`.** `TypeCorrect` and `BootstrapOrdered` rest on
  `BootstrapProgress` (while the bootstrap runs, the table is there and the
  statements before the next one were executed); without it even the type of
  `statement` is not preserved. `ShutdownSafe` rests on `OrderlyShutdown`: the
  servers are off until `run()` serves, the connection is open while it serves or
  drains, HTTP stops first, and nothing runs at the end. `TelemetryLast` adds
  `ProvidersTracked`: which providers there are at each stage.

Only model-checked are the liveness properties `WalkEnds`, `SignalEndsProcess`
and `LoadingEnds`: fairness and ENABLED are beyond the prover. Every invariant and
action property that a passing run checks is stated by a theorem.

## 5. Not modelled

- Wiring, the pprof server, the version and the embedded assets: no state of
  their own, or static files.
- Generated protobuf code, and the internals of gorm, grpc, google/uuid,
  jsondiff and OpenTelemetry. What the models need of them is a choice: a
  statement, a conversion or an exporter may fail.
- Of the configuration, everything but which DSNs are set and whether telemetry
  is on; of telemetry, sampling and the exporters.
- Of the query page, which row is expanded, whether a menu is open, and layout.
  They neither read nor change what the models hold. Splitting the search query
  at blanks is abstracted to the tokens it gives.
- The operations of a JSON diff, which come from a library: a diff can be
  computed or not.
- Actor, outcome, service, session, tags and reason of an event: stored and
  returned as they are, and filtered like the columns that are modelled.

What could be added: clock changes at midnight, which some time zones have.
