# Database Gateway: TLA+ models, checks and proofs

Database Gateway lets people run SQL against configured PostgreSQL databases
("targets") through one service that parses each statement, checks it against
the configured schema and an OPA policy, runs it, and keeps the result. This
directory models that service in TLA+, checks the models with TLC and proves
theorems about them with TLAPS. Paths below are relative to `src/`.

## 1. The system

| Part | State it keeps | Operations | Interacts with |
| --- | --- | --- | --- |
| Query run (`internal/app/service.go` `RunQuery`, `internal/app/private.go`) | `Service.conns`: target -> connection pool, under an RWMutex | `query.run.v1` | parser, validator, policy, pgx pools, targets, storage |
| SQL parser (`internal/parser`) | `Tables.m` and the columns of one statement, while it is parsed | `Parse` of SELECT, INSERT, UPDATE, DELETE | `pg_query`, validator |
| Validator (`internal/validator`) | none | `MakeVectors`, `ValidateSchema`, `ValidateAccess`, `GetTable`, `CanonicalTable` | configuration, policy |
| Policy (`internal/policy/opa`) | compiled queries, fixed at start | `AllowTarget`, `AllowQuery` | Rego modules |
| Configuration (`internal/config`) | the configuration, fixed at start | `Validate` | all |
| Stored results (`internal/storage/api.go`, `service.go` 431-459, 539-608) | rows of `query_results`; inserted, never changed | `query-results.get.v1`, `queries.list.v1`, `admin.requests.list.v1` | storage |
| Bookmarks (`service.go` 461-537, `storage/api.go` 149-249) | rows of `bookmarks` | `bookmarks.add/delete/list.v1` | storage, policy (target check) |
| Export links (`internal/facade/service.go` 422-639, `api_lrpc.go` 389-423) | none; the link carries user, result, format and expiry | `query-results.export-link.v1`, the download route | stored results, session |
| Login and session (`facade/service.go` 328-412, `app/service.go` 249-430) | a cookie with the login state and the user | `/auth`, `/auth/callback`, `/logout`, bearer authentication | identity provider |
| Frontend (`frontend/src`) | route; per page the loads in flight and what is shown; the token in localStorage, which tabs share | loads, runs, live refresh, navigation | the API |
| Migrations and start (`cmd/gateway`, `internal/migrator`, `internal/policy/opa`, `Config.Validate`) | `goose_migrations`, the schema of the storage | `run`, `migrate-up`, `migrate-down-one` | storage, policies, identity provider |

What is hard in it:

* **Concurrency.** Echo runs every call in a goroutine of its own. The map of
  pools is read under a read lock, a pool is made under no lock, and the map is
  written under the write lock: misses race. Calls share pools of bounded size.
  In the browser, answers arrive in any order while the route changes.
* **Two databases, no transaction.** A statement takes effect at its target
  before its result is inserted in the storage; an error, a lost connection or
  the end of the process can fall in between. `facade.Run` does not listen to
  its context, so every stop of the process is abrupt.
* **Names.** A table can be spelled with or without a schema and be hidden by
  an alias, which sets its own name free for another table; the parser, the
  schema check, the policy and the target database each resolve the spelling, and
  must agree. The parser keeps all names of a statement in one map.
* **Paging** by offset over a list that grows at its head, with rows inserted
  later than their `created_at`.
* **A session without a server.** The login is a cookie that a handler reads in its
  request and replaces in its answer; tabs share it and the stored token, and
  their requests and answers cross.
* **Time** in whole seconds: the life of an export link, of a cookie, of a
  token, at instances whose clocks differ.
* **Migrations without a lock**: instances start together on one storage, one is
  overtaken, another dies between two files, an operator migrates down meanwhile.

What makes each part correct:

* *Query run*: only permitted statements run; a refused call leaves no trace;
  stored rows are true; an answered id can be read; a pool leads to its target;
  a call returns.
* *Parser and vectors*: every table and every column a statement reads or
  writes reaches the checks, under the right table.
* *Validator*: the name the policy is asked about is the table the target will use.
* *Stored results*: a walk over the pages misses no row; only the owner or an
  administrator reads a result.
* *Export links*: what a link serves is what the result page shows, for as long
  as the link lives.
* *Session*: a login that was started can finish; a renewed token stays; a session
  ends with its token.
* *Start*: who serves has the whole schema and a checked configuration; a
  migration is not carried out over rows it would lose.
* *Bookmarks*: everybody sees and deletes their own; a page at rest shows what is stored.
* *Frontend*: what is shown belongs to the route.

`PROJECT.json` lists every part with its status and every hazard with its line.

## 2. Modules

| Module | Stands for |
| --- | --- |
| `Validator` | `internal/validator/schema.go`, `validator.go`: lookup of names, schema check; the reference `Resolved`/`OpenColumns` says what the names mean to the target database |
| `QueryService` | the abstract service: submit, refuse, run, store, reply, fail |
| `QueryGateway` | `lrpcQueryRun`, `RunQuery`, `getConnection`, the pools, the targets and the insert of the result, for concurrent calls |
| `MCQueryGateway` | the instance of `QueryGateway` for TLC, and what the documentation says of it |
| `QueryGatewayProofs` | theorems about `Validator` and `QueryGateway` |
| `SqlVectors` | `internal/parser` and `MakeVectors`: from the tree of a statement to its vectors |
| `SqlMeaning` | the reference: the tables and columns a statement reads or writes by the rules of SQL; that the vectors are these |
| `MCSqlVectors` | the families of statements for TLC |
| `SqlVectorsProofs` | theorems about `SqlVectors` and `SqlMeaning` |
| `RequestLog` | `ListAdminRequests`, `lrpcAdminRequestsList` and the storage's listing: one caller walks over the pages while rows are inserted |
| `MCRequestLog` | the instance of `RequestLog` for TLC |
| `RequestLogProofs` | theorems about `RequestLog` |
| `ServerPage` | `ServerPage.svelte`, the routes of `App.svelte` and `routing.js`, running a bookmark in `DashboardPage.svelte`: one tab of the frontend |
| `MCServerPage`, `ServerPageProofs` | the instance of `ServerPage` for TLC; theorems about it |
| `ExportLink` | `lrpcQueryResultsExportLink`, `downloadQueryResultsExport` with all it calls, `GetQueryResults`: links, their claims and end, who opens them, the JSON and CSV files |
| `MCExportLink`, `ExportLinkProofs` | its instance for TLC; theorems about it |
| `Session` | `/auth`, `/auth/callback`, `/logout`, the middleware of `/ui` and of the API, `InitOIDC`, `CompleteOIDC`, and the token side of `api.js` and `App.svelte`: the tabs of one browser |
| `MCSession`, `SessionProofs` | its instance for TLC; theorems about it |
| `Startup` | `cmd/gateway`: `run`, `migrate-up` and `migrate-down-one` from the configuration file to serving, the migration files, `opa.New`, `Config.Validate`: instances on one storage |
| `MCStartup`, `StartupProofs` | its instance for TLC; theorems about it |
| `Bookmarks` | the bookmark handlers and queries, `ServerPage.svelte` and `DashboardPage.svelte` as far as they save, delete and list |
| `MCBookmarks`, `BookmarksProofs` | its instance for TLC; theorems about it |

### QueryGateway

`pc[r]` is the place of call `r`'s goroutine, from `idle` over the checks
(`preflight`), the pool (`lookup`, `create`, `store`), the target (`acquire`,
`executing`, `collecting`) and the storage (`inserting`) to `answering` and
`done`. `conns` is `Service.conns`; `pools` and `using` are the
`pgxpool.Pool`s that exist and which call uses which pool; `ran` and `recorded`
are the effects in the two databases. A call creates at most one pool, which
carries the call's name; calls are numbered as they arrive, which only says which
of them is called which. A pool lends no more than `MaxConns` connections, pgxpool's own
limit: that is the library's and no property is about it. The
`maxPoolSize` of a target is part of the configuration and read by no action,
as in the code.

The step is cut where the code lets another goroutine in: between the read of
the map, the making of the pool and the write of the map; around every wait
for a database. `Preflight` is one action, since all it reads (the
call's input, the configuration, the compiled policy) is fixed; its disjuncts
are the early returns in their order. `QueryFails` and `InsertFails` cover an
error before the effect and an error after it (the acknowledgement is lost).
`Crash` ends the process and starts it again: goroutines, map and pools are
gone, a statement or an insert already sent may still take effect.

The policy is a pair of relations, `TargetGrants` and `QueryGrants`; the
parser's result for a text is the constant `Vectors`. `SqlVectors` models how
that result comes about.

### SqlVectors

One behaviour parses one statement: `CheckClauses` (the clauses a handler turns
away), `PutTable` once for every table, `Finalize`, `LookInto` once for every part
a handler looks into, `MakeVectors`. `m` is `Tables.m`; a key is a dotted name,
`<<>>` the empty one. `todo` keeps the parts in the order of the handler, and a
condition inside a condition is put in front of them, which is the recursion of
`parseWhereClause` and `parseAexpr` with an explicit stack. Each handler's rules on
the kinds of node it knows are `Supported`, what it takes from a node
is `Found`.

`SqlMeaning` says on its own what a statement reads and writes: `Meant`, `Visible` and
`SqlAccepts` are the rules by which PostgreSQL resolves a column, under which an alias hides the
name of its table, and another table may have that name. `Kept(D, t)` says that none of the names by which the
statement asks for table `t` was taken over in `Tables.m` by another one.

### RequestLog

`at` is the table `query_results`: its rows, each with its instant;
the listing is ordered by that instant, which `RunQuery` takes before it inserts
the row, so rows enter anywhere. Rows of one instant come in any order, anew for
each page (`Orderings`): the statement orders by `created_at` alone. `Fetch`
is one call: the number of the page is brought into range, one row more
than a page is asked for, and the surplus row says whether there is a next page.
`BeginWalk` notes in history variables which rows were there and what was shown.

### ServerPage

`hist` and `pos` are the session history of one document of a tab; `GoTo` is a
change of route with what it sets off: App.svelte keeps the component or mounts
another, and the effect on the route resets it and starts a load. A load is
two requests, the server and then the result if the route (as it is *then*) has
one, so it is two entries of `loads`, one after the other; the list is in the order of
asking, and any entry may be answered next. `server` is kept for unmounted
components too, because a run started in one reads it when its answer comes.
`AutoRun` is the second effect and is part of each action that changes what it
reads. `hasty` and `overtaken` are history variables that say whether the user
moved or ran something during a run and whether answers came out of order.

### ExportLink

`now` is the time in seconds and ticks, `Unix(i)` what the clock of instance `i` says
of it in whole seconds. `ExportLink` is the call that signs a link, for the user of
the bearer token; a link is the record of its claims, with the user
and the time of the call added for the properties. The signature is what makes `links` the
only links that are accepted: anything else is `NoLink`. A download is two
steps, since the result is read after the link is judged: `Open` finds the user (the
token first, and one that is refused is not made up for by the cookie; then the cookie) and
parses the link, `Serve` looks the result up and writes
the file, or goes on without a result after the 404 (`panic`), and `ServeFails` is the
error of the storage, which is returned before anything is written.
`SessionChanges` and `Truncate` are what may happen in between. The files are
`marshalQueryResultsJSON`, in which a row is a function of its headers, filled from left to
right, and `marshalQueryResultsCSV`.

### Session

`jar` is the cookie as the browser has it, `stored` the token in localStorage, and
`place[t]` where tab `t` is: on a page, in a request to `/auth` or the callback *with the
cookie that was sent*, at the identity provider, or on the redirect back.
A handler's answer is built from the cookie of its request (`AuthCookie`), so what
another tab's answer has set meanwhile is undone, as in the code. `calls` are
API calls in flight with the token each carries; `Answer` clears the token that is
stored *by then*. `crossed`, `overlap` and the `from` and `tokenEnds` of
the cookie are history variables. A `MaxAge` of 0 is a cookie without Max-Age (gorilla's
rule), which lives as long as the browser.

### Startup

`pc[i]` is how far the process of instance `i` is: in goose's steps (`versions`, `create`,
`list`, `up`, or `current` and `down`), or past them. `next[i]` is what is left of the list
of migrations, which is made once. `schema` says which tables and columns exist,
`versions` is `goose_migrations` in the order of its rows, `rows` who has stored a result.
goose is a library and modelled from its use here: a version older than the newest and not applied
is refused; each file and its record are one transaction, which is one step; no lock is
taken; a step down takes the version that was recorded last. The files are
records of what they need, clash with, add and drop, taken from their SQL.
An operator edits the configuration and runs the migration commands; storage and
identity provider fail and recover; instances crash and are started again.

### Bookmarks

`calls` are the requests in flight, in the order they were made, each first handled and then
answered or lost; a page that is left abandons its calls to run without it (`NoTab`), in any
order among those of others (`Left`). `Save` and
`Delete` are the halves of `saveBookmark` and `removeBookmark` up to the first
`await`; `Move` is a change of route that keeps the component, to another server or, as after a run,
within the same one; `GoOn` is what follows each `await`: a server page asks for the list of the
server of its route *as it is now*, a dashboard takes the row out of its list. `unseen` and
`blurred` are history variables: changes a tab could not know of, and tabs whose lists came out
of order or not at all.

## 3. What TLC checks

| Run | Module | Question | States |
| --- | --- | --- | --- |
| `gateway_calls` | `MCQueryGateway` | the properties of the query run, that every call returns, and that `QueryGateway` implements `QueryService`: three calls, three targets, every kind of refusal, pools of one connection, one restart | full |
| `gateway_audit`, `gateway_pool` | `MCQueryGateway` | two statements of the documentation that the code does not keep | to the counterexample |
| `parser_vectors` | `MCSqlVectors` | names resolve; which tables have a vector; columns are in vectors; the vectors are the meaning | all statements |
| `parser_renamed`, `parser_shadowed` | `MCSqlVectors` | two statements of the documentation that the code does not keep | to the counterexample |
| `log_walk` | `MCRequestLog` | a walk misses no row; what it shows twice is due to inserts; no page of it is empty | full |
| `page_settled` | `MCServerPage` | a page at rest shows its route; links name the server of the run; a page does not load for ever | full |
| `export_links` | `MCExportLink` | who gets the file of a link, how long, what is in it, when the handler panics | full |
| `session_tabs` | `MCSession` | why a login is refused, whether cookie and token stay of one user, when a session ends, that a tab gets in | full |
| `startup_races` | `MCStartup` | the schema and configuration of who serves, who may fail, that no rows are lost, that instances come to serve | full |
| `bookmarks_tabs` | `MCBookmarks` | whose bookmarks are shown and deleted, what a page at rest shows, that forms come back | full |

Every module but the abstract `QueryService` states the types of its variables in `TypeOK`. It is proved of
each; the runs of `QueryGateway` and `ExportLink` check it besides.

**Bounds of the gateway runs.** Three calls are what a race for a pool needs to
be seen by somebody else: two that miss together and one that comes later. A
limit of one connection for a pool makes a call wait for every other. Two
targets with different default schemas make one spelling mean two tables, a third one's
pool cannot be made, and two users with different grants make a call permitted for one
of them only. `AllAsks` has an ask for each early return of `RunQuery`. One restart suffices
to lose everything that lives in the process at any place of the three calls.
No symmetry is used, since liveness is checked in the same run; that calls are numbered
as they arrive leaves out only renamings. `gateway_audit` needs one call.
`gateway_pool` has a pool limit of two, above the one connection that
its targets are configured for: two calls are enough to exceed that. Deadlock is not
checked: the system rests when every call has returned.

**Bounds of the parser runs.** Joins of two tables with every schema out of none,
the default one and another, two relations, and no alias, a fresh one or one
that is the other relation's name, times the qualifiers of two columns; single
tables; each shape of condition, target and sort item the handlers know, and each
they refuse; INSERT, UPDATE and DELETE with RETURNING and ON CONFLICT items.
A third table adds no new way for two names to meet: entries of `Tables.m`
are overwritten pairwise, and what holds of any number of tables is proved.
`parser_shadowed` takes the joins of aliased tables without a schema, and a database that looks in
the default one.

**Bounds of the log runs.** Up to five rows and pages of two rows: the
walk meets full and partial last pages, inserts before, on and
behind the page it is at, and ties within a page and across a boundary.

**Bounds of the page run.** Two servers, two runs, two moves through the history:
enough for two pages of one component with
different servers, a load of each in flight at once, and a run that comes back to
a page that has moved on. The system rests when nothing is in flight and the
bounds are used up, so deadlock is not checked.

**Bounds of the export run.** A user who is an administrator at times and one who is not, a
result of each, one of them with two columns of one name; two instances a second
apart, two ticks to a second and five seconds, which is past the end of a link made in the
first second at either clock. One link and one caller: a download reads no other link and
no other download (the theorems hold for any number).

**Bounds of the session run.** Two tabs, two users, three visits or logouts: a tab may
log in, be sent away and come back while the other does something in between. Two ticks make
a second; tokens live less than a second or more; `/auth`'s five minutes are one second,
so that a login can be late.

**Bounds of the start run.** Two instances on the storage of any earlier release or none, each
kind of fault in the configuration that some check refuses (and `policy.path`, which none does), and two troubles out of a crash, an outage, an
edit and an operator's command, which covers a crash while the other migrates, a migrate-down beside
a start, an edit between two starts. More instances add nothing but more that are overtaken (the
theorems hold for any number). The files are the four of this release.

**Bounds of the bookmark run.** A user with a server page and a dashboard, another user at the
API, two targets of which that one may use one, two rows, two calls in flight and three
events (pages loaded, moves, lost answers): a save and a delete with their lists out of order, a
page that moves between a change and its list, a bookmark deleted from two places.

**Fairness.** `FairSpec` gives every call weak fairness of `Progress(r)`: the Go
scheduler runs a goroutine that can run, a target and the storage reply, and a
pool serves those who wait. Nothing is assumed of failures, clients or restarts.
Strong fairness is not needed: with a free connection the pool
serves *some* call, every call takes a connection once, so a wait ends after
finitely many calls. `ServerPage` and `Bookmarks` assume that a request is
answered or fails, as a `fetch` is, and nothing of the user. `Session` assumes that requests are
answered, that pages go on by themselves, and that a user who is asked to sign in does.
`Startup` assumes that a process that runs takes its next step, that the deployment
starts what has ended, and that an outage ends; nothing of crashes, edits and operators.

**What holds.** A statement runs only when the configuration and the policy
allow each of its tables under the name the target gives it
(`OnlyPermittedRuns`); a refusal leaves no pool, effect or row
(`RefusalLeavesNoTrace`); rows and answers tell the truth, across restarts
(`RecordsAreTrue`, `AnswersAreBacked`); a pool in use or in the map is open
and leads to the right target, whoever wins the race (`PoolsServeTheirTarget`);
after a race the set of pools grows no more (`NoPoolAfterTheRace`); every call
returns (`EveryCallReturns`). In the parser, `Get` terminates
(`NamesLead`); a table has a vector exactly if no later `Put` overwrote its entry
(`VectorUnlessOverwritten`); every column is in a vector (`EveryColumnHasVector`); and
a table that keeps its names is in the vectors with all its columns, which are
just what SQL makes of the statement if all tables keep theirs (`VectorsAreTheMeaning`). A walk over the log shows every row that
was there when it began, whatever is inserted meanwhile (`NothingMissed`), shows
a row again only as often as rows went in (`RepeatsAreShifts`) and goes on to
a page only if there is something on it (`NextPageHasRows`). In the frontend, a page whose loads came in order and which waits
for nothing shows its route (`SettledShowsRoute`), also when the route changed
between the two halves of a load; a patient user's links are true, in whatever order
the loads come (`LinksAreTrue`); and `isLoading` goes out (`LoadingEnds`).

An export link serves its own user only, who may read the result at that moment
(`ServedIsReadable`), for less than four seconds and the difference of the clocks
(`OverInTime`), and refuses nobody in time without a loss, but for those who show a bearer token that is
refused, however good their cookie (`RefusalHasCause`); the nil result in
`serveExport` is reached only after such a loss (`PanicNeedsALoss`); the file holds the table
(`FileHoldsTable`). A login is refused for its state only when it is late or another tab's answer crossed it
(`RefusedHasCause`); cookie and token are of one user if logins did not overlap (`OneUser`); a session
outlives its token only in the two ways `CookieEnds` names; a good token goes only for a
newer one or through the late refusal of an older one (`GoodTokenStays`); and a tab gets in
(`GetsIn`). Instances that race, crash and restart serve on the whole schema
(`ServesFullSchema`), with a configuration that passed the checks (`ServesCheckedConfig`); a migration
fails only for one that was overtaken (`FailsOnlyOvertaken`), which then comes to serve
(`ComesToServe`); and the truncate of the fourth migration never hits rows that an instance of this
release has stored (`RowsStay`). A tab at rest shows what is stored (`QuietTabShowsStored`), its
own user's only (`BookmarksAreOnesOwn`); nobody deletes for somebody else
(`OnlyOwnersDelete`), and no button stays disabled (`FormsComeBack`).

**Preconditions, and why.** What `Tables.Put` overwrites is lost, and PostgreSQL accepts statements in which
that happens: in `FROM y AS a JOIN x AS y` the alias `y` is free, as the first
table is known by its alias only, and so are the names of two tables `s.x` and `r.x` of different
schemas. `VectorUnlessOverwritten` therefore says which tables have a vector, in both directions:
no statement is excluded, and a table whose entry is overwritten has lost its vector.
`VectorsAreTheMeaning` speaks of statements the target database accepts, table by
table: of a table it asks that its names be `Kept`, of the others nothing. What is lost otherwise is the run `parser_shadowed`. Its
other condition is `Plain`, no items that give a name to a value they look up or return; what
happens without it is the run `parser_renamed`. `NothingMissed` speaks of rows with an instant of
their own: the database may order rows of one instant differently for each page.
`SettledShowsRoute` speaks of loads answered in order: a late load replaces
what the page shows. `LinksAreTrue` speaks of a user who waits for a run before doing anything
else: a run whose page has gone on to another server leads to a link that
names the other one. `QuietTabShowsStored` leaves out tabs whose lists came out of order or failed: a late list
puts the bookmarks of one server on the page of another. `GetsIn` leaves out tabs whose login was
crossed: two tabs that sign in by themselves can go on crossing each other.
`ServesFullSchema`, `FailsOnlyOvertaken` and `RowsStay` speak of the time before anybody
migrates down, and `ComesToServe` of storages without a hole in the versions: a
migrate-down-one beside a start can take a version out from under a newer one that the start is about to
record, and goose refuses such a storage from then on.

**What does not hold.** Each of these is a run that ends in a counterexample,
and a finding of `PROJECT.json`:

* `WhatRanIsRecorded`: a statement can have run without a row. In the trace it takes effect and
  then fails while its rows are read (`service.go:202`); an insert that fails (`service.go:242`) ends the same way.
* `PoolSizeHolds`: `max_pool_size` of a target is configured and documented (`README.md:257`, `README.md:266`) and reaches
  no pool: two calls run at once at a target that has one connection. If it were given to the pool,
  calls that miss the map together would still make a pool each.
* `RenamedColumnsCount`: `RETURNING d AS c` counts as the column `c`.
* `EveryTableIsChecked`: in `SELECT a.c FROM y AS a JOIN x AS y ...` the parser takes the columns of both tables for
  columns of `x`. The schema check and the policy are not asked about `y`, which the target reads.

**Noticed on the way**, without a run of their own:

* `use_ssl` of a target (`README.md:256`) becomes `sslmode=enable` (`private.go:52`), which pgx does not know: its pool
  is never made, and no query is served there. `CreatePoolFails` is this case, and the target
  `vault` of `MCQueryGateway` meets it.
* `/auth` gives the cookie it was sent another five minutes, the user in it included, so a session
  can live past its token (`README.md:130` says that it is tied to it); a token
  with less than a second to live makes a cookie that lives as long as the browser.
* `README.md:147` lists `GET /api/v1/token`, which no route serves.
* `/logout` leaves the token in localStorage.
* Deleting a bookmark that is gone is `storage.ErrNotFound`, which the API does not turn into its
  "not found"; the dashboard shows the error in place of its list.
* The migrations run before the checks of the configuration; `withConfig` joins an
  empty `policy.path` to the directory of the file, so `config.go:146` never fires.

## 4. What is proved

For every set of calls, users, targets, texts, every configuration that
`Config.Validate` accepts, every policy and every limit of the pools
(`RequestAssumption`, `BlankAssumption`, `ConfigAssumption`, `BoundAssumption`):

* `CanonicalIsResolved`, `FitsSchemaMeans`: what `GetTable` finds is what the
  target database takes the name for, so the schema check and the policy are
  asked about the right table. `IsSchema` (every configured table is written with
  its schema, `config.go` 129-151) is what makes the lookup of an unqualified
  name unambiguous.
* `ChecksDecidePermission`: the checks pass exactly the permitted asks.
* `TypeCorrectness`, `OnlyPermittedRun`, `RefusalsAreClean`, `RecordsTrue`,
  `AnswersBacked`, `PoolsCorrect`, `PoolsStopGrowing`: the safety properties of
  `gateway_calls`.
* `Implementation`: `QueryGateway` implements `QueryService`.

The properties are not inductive. Their common strengthening is `Inv` of
`QueryGatewayProofs`, which ties the place of a call to what it has done:
past the checks it is permitted; past `executing` it has run; at `answering` it
is recorded; with an outcome it is at `done`; a pool's maker asked for the
pool's target. The refinement maps `pc` and `outcome` to the abstract status; each step maps to a
step of `QueryService` or to a stutter, a failure or a crash to `Fail`.

For every set of statements (`StatementAssumption`: what the grammar gives):

* `NamesResolve`: a name leads to itself or to one entered later.
* `GetTerminates`: so `Get`, which has no bound in the code, comes from every name to one
  that stands for itself. The number of the table that entered a name last falls
  along the chain, and the chain is no longer than `Tables.m` has names (`ChainEnds`).
* `TablesHaveVectors`: a table of an accepted statement has a vector of its own exactly if its entry was not
  overwritten. One direction is that such an entry stands for itself; the other, that `Get` ends only at entries that
  do (`EndOfGet`), so an overwritten name is never its result.
* `ColumnsHaveVectors`: each column found in it is in the vector of one of its tables.
* `TypeCorrect`, which needs the second assumption below, since the conditions inside a part are looked into too.

Their invariant is `Entered /\ Phases /\ Finite`: every entry of `Tables.m` is what the last
table with that key put there, an UPDATE past its first item has found a
column of its own table (which is why it needs no vector of its own), and names are finitely many,
the empty one leading to a table. That the recursive function `Walk` is what its
definition says is proved from the chain of each length (`ChainExists`, `WalkIs`), by induction
over the set of lengths that have one (`NatSetInduction`, from the library's well-founded order on `Nat`).

For all trees and default schemas (`NodeAssumption`: a node is higher than its parts; `ItemAssumption`: only a
write names columns of its table, and a SET always does):

* `VectorsMean`: each table that keeps its names is in the vectors with all its columns, and if all do, the vectors
  are the statement's meaning. The strengthening is `ColumnsInv`: the columns
  found, with those that the parts still to look into stand for (`Wanted`), are always those the statement
  stands for; each handler's rules on the kinds of node it knows are what `PieceSplits` needs to find in a part
  all that is in it. The columns in a node, `Leaves`, are a recursive function of the tree: `LeavesIs` proves
  its equation, by induction over the height. For the tables, `GetsTable` follows a
  name through `Tables.m`: if a table keeps its names, all names on the way are its own.

For every set of rows and instants and every page size (`LogAssumption`):

* `TypeCorrect`, and `WalkIsComplete`: a walk shows every row that was stored when it began and has
  an instant of its own. The strengthening is `Behind`: before page `n + 1` is
  fetched, such a row that was not shown has at least `n` pages of rows in front of it. It
  holds because inserts only push rows back and because a row not among the first
  `n` pages' worth is not in front of them; the step needs that the rows in front
  of a row with its own instant are the same in every ordering.
* `NoEmptyPage`: a caller is sent on to a page only when there is a row on it.
* `RepeatsNeedInserts`: a walk shows a row again only as often as rows were inserted. The
  strengthening is `Shifts`: the rows that were shown and have slipped behind the page the caller is at
  (`Late`), with those shown again already, are no more than the inserts, since an insert pushes one row
  over the boundary (`OneMore`).

For every number of instances and any sequence of crashes, outages, edits and commands
(`StartupAssumption`):

* `WholeSchemaServed`, `OnlyOvertakenFail`: the storage part. The strengthening is `StorageInv`:
  while nobody has migrated down, the versions applied are `0..k` and the schema is that of
  version `k` (`Unbroken`), the version before the next of an instance's list has been
  applied, by whomever, and one past its list has 4 behind it (`Positions`). The step
  that matters is a file that is applied although its version is there (`CommitKeeps`).
* `RowsAreKept`: rows exist only under a table with `target_id` (`RowsInTable`), with which
  the file that truncates fails as a whole.
* `OnlyCheckedServes`: by the checks an instance has behind it at each place (`Passed`).
* `TypeCorrect`, also after a migrate-down. An instance that makes its list or looks up the current version needs
  a recorded version to begin with: version 0 is never deleted (`Recorded`). What a migrate-down leaves of the
  records, `Without`, is a recursive function like `Walk` (`KeptExists`, `WithoutIs`); the model has it in place
  of `SelectSeq`, whose definition the prover does not expand.

For all users, roles, results, tables, clocks and any division of the second (`ClockAssumption`,
`DataAssumption`, `TableAssumption`), with tokens that are refused among those presented:

* `TypeCorrect`, `OnlyReadersServed`, `LinksEnd`, `RefusalsAreFounded`, `PanicsAreLosses`,
  `FilesAreTheTable`: the properties of `export_links`. The strengthening is `IInv` of
  `ExportLinkProofs`: a link carries its maker's id, right to read and clock (`Made`), a download that has
  begun is of that id and in time (`Begun`), and an answer is `Answered` for good, because
  results are only lost. `InTime` and `NotInTime` bound the comparison of two clocks in whole seconds.

For all servers and any number of runs and moves (`PageAssumption`):

* `TypeCorrect`, `PagesShowTheirRoute`. The strengthening is `OrderInv`: while answers come in order and
  nothing has failed, the server of the route is still to come and only the result of the route was
  asked for after it (`ServerComes`), or it has come, and the result is out or shown
  (`ServerCame`). A change of route between the halves of a load is what the second part is for.
* `LinksNameTheirServer`. The strengthening is `Patient`: while the user waits for each run, the whole history
  is of one server, so is all the mounted page has and loads, and a run in flight
  belongs to the page that is mounted. Loads out of order do no harm to it.

For all tabs, users, states and times (`SessionAssumption`, `TokenAssumption`, and `FreshAssumption`: a new
UUID is none of those in use):

* `TypeCorrect`, `RefusalsHaveCause`. The strengthening is `StateInv`: a login that was not crossed is late, or the
  browser still has the cookie with its state, for exactly the rest of the five minutes.
* `SessionsEnd` is inductive with the types.
* `OneUserAtRest`. The strengthening is `OneUserInv`: while no two logins have overlapped, the user of the cookie
  and the users of the copies that requests to `/auth` carry are the user who is about to land or, if nobody
  is, that of the token (`Agrees`); a copy may also be older than a login that was begun without a
  user, and then the cookie has none either (`CopyOf`).
* `GoodTokensStay`: by cases over the steps.

For all users, tabs, clients, policies and any number of rows, calls and events (`BookmarksAssumption`):

* `TypeCorrect`, `BookmarksStayOnesOwn`, `DeletesAreOwners`. What makes them inductive is that every call in
  flight is of the user of its tab, and the list it brings too (`FineCalls`).
* `QuietTabsAreRight`. The strengthening is `ShownInv`: what a tab shows, or the last list on its way to it, is what is
  stored, but for what others have changed and for changes of its own whose answers are
  under way (`Agrees`, `Underway`); a change that was made is followed by a list or,
  on a dashboard, by the row taken out. It needs that a dashboard which loads has nothing else in flight
  (`DashboardInv`), and that calls of a page that is left keep none of its places.

Only model-checked: `EveryCallReturns`, `LoadingEnds`, `GetsIn`, `ComesToServe` and `FormsComeBack`
(liveness, which is out of the prover's reach), and all runs that end in a counterexample.

## 5. Not modelled

* `pg_query`'s own parsing; LIMIT and OFFSET expressions (the parser does not look at them either),
  names of databases in front of a schema, identifiers that need quotes.
* The text of a DSN but for its sslmode; the contents of result sets beyond the table an export
  writes; Rego; which of a user's claims makes the role; the revocation of tokens that nothing calls.
* The admin pages: `AdminRequestsPage` drops a load that is asked for while another is in flight, also
  when the page has changed; the walk over the pages itself is `RequestLog`.
* The list of a user's recent queries and the stand-alone page of a result, which read what
  `QueryGateway` stores and change nothing; the export button of a page.
* Goose's, pgx's, gorilla's and the browser's own code: external, modelled from how it is used.
* Generated code, charts, images and local environments; `jet-generate` and `migrate-new`, which only
  write source files for a developer.

## 6. Plan

Done: the query run with its abstract service, parser and vectors, the request log, the server page, export
links, the session, the start, bookmarks; proofs of all their safety properties.

Left, in this order:

1. `QueryGateway` with `Vectors` from `SqlVectors`: the composed permission theorem.
2. `AdminRequestsPage`: loads, live refresh and navigation, over `RequestLog`.
