# TLA+ models of the senior-jobs backend

The program under `src/` manages publicly funded jobs for seniors: organisations
(tenants) run business units, register seniors, record the hours each senior worked in
a month, have the records approved and paid, and keep the budgets the money comes from.
It is a FastAPI backend over PostgreSQL, Redis, Celery and MinIO, and a React frontend.

Its handlers are short. What makes them hard is what happens between their statements:
every handler awaits the database and Redis several times, several workers run handlers
at once, no query takes a row lock, no row has a version, and nothing in the repository
starts two handlers at the same time in a test. These models take the handlers apart at
those awaits.

## 1. Inventory

| Part | State | Operations | What is hard | What makes it correct |
|---|---|---|---|---|
| Monthly work records (`services/work_record_service.py`, `routers/work_records.py`) | `monthly_work_records`, `audit_logs` | create, update, submit, approve, reject, soft delete | SELECT-check-UPDATE without a lock; a unique index over live rows only; three different limits on the hours | one live record per senior and month; a record is edited only as a draft, and decided once after its submission; the audit log tells its story; no tenant touches another's |
| Seniors (`services/senior_service.py`) | `seniors` | create, update, soft delete | a deleted senior hides rows of other tables | approved work stays payable |
| Login, refresh, logout (`services/auth_service.py`, `core/security.py`) | Redis: `login_fail:{ip}`, `refresh_token:{jti}`, `user_tokens:{user}` | login, refresh, reuse detection, logout | a dozen Redis calls, each its own await; keys with a time to live; crashes between two calls | a used token is dead and is exchanged no more often than requests overlap, reuse ends every session, five failures block an address and the block ends |
| Business units and budgets (`services/business_unit_service.py`, `services/budget_service.py`) | `business_units`, `annual_budgets`, `budget_expenditures` | create, update and delete a unit; create and update a budget; create and delete an expenditure | counts taken before the commit | a unit that has spending is not deleted, an update takes no concurrent one back, the policy's hours stand, money stays in its tenant |
| Tenant isolation (`core/tenant.py`, `core/database.py`, row policies of migration 0001) | a setting on each pooled connection | SET, query, commit, return to the pool | the setting belongs to the connection, not to the request; a handler may need a second connection | a query runs under its own tenant; nobody waits for ever |
| Users, registration, tenants (`routers/users.py`, `register.py`, `tenants.py`) | `users`, `user_business_units`, `tenants` | registration; create, update, deactivate, delete, transfer of the administration; create, update, deactivate a tenant | the role of a request is that of its access token; lookups before inserts; two rows changed from two lookups | an organisation is registered whole; it loses its last administrator only knowingly; what an update sends replaces the assignments |
| Work-log rows (`services/work_hours.py`) | none; reads the hours on record so far | rows of a month, feasibility of a target | rounding up month by month against a yearly allocation; months are read and recorded in any order | a sheet that counts all that came before leads neither past the allocation nor short of it |
| Exports (`tasks/export_tasks.py`, `routers/work_logs.py`, `routers/consultation_logs.py`) | MinIO objects, `document_snapshots`, `generated_files`, Celery messages and results | export now, export as a task, poll | two stores and no transaction over both; tasks acknowledged late and delivered again, even while they run | a recorded file is stored, a finished task leads to its file, recorded once per delivery; every task ends |
| Consultation logs (`services/consultation_log_service.py`) | `consultation_logs` | create, update, soft delete | exported by tasks while they change | an export shows what was on record |
| Dashboard (`services/dashboard_service.py`) | none | summary, alerts | up to six SELECTs for one figure | a figure lies between what was and what is |
| Policy rules, audit log reader, frontend | `policy_rules`, `policy_versions`; lists fetched earlier | create, update, delete; query; save all | little that the program depends on | - |

How they interact. A router depends on `get_tenant_db` (token, then session, then SET),
calls one service function, and commits. The service SELECTs, checks, assigns to ORM
objects, adds an audit row and flushes. `get_db` commits again on success and rolls back
on an exception. Login and refresh talk to Redis and to the database without any
transaction over both. Deleting a senior, deactivating a user and deleting a business unit
are read by other components through filters in their queries.

`PROJECT.json` lists the components with their files and status, and the hazards with
the line where each bites.

## 2. Modules

| Module | What it is |
|---|---|
| `WorkRecords` | work records, the deletion of seniors, the audit trail |
| `WorkRecordWorkflow` | the abstract workflow `WorkRecords` implements: operations are granted on a status and carried out later |
| `Auth` | login, refresh, reuse detection and logout over the Redis keys |
| `Budgets` | business units, budgets, expenditures |
| `Dashboard` | `Budgets` with wages paid and a report that is read meanwhile |
| `Staff` | organisations, employees, their roles, tokens and assignments |
| `Exports` | consultation logs, exports, tasks, broker, workers and the two stores |
| `TenantPool` | requests, pooled connections, the tenant setting and the row policies |
| `WorkHours` | the rows of the monthly sheets and the hours on record over a year |
| `MC...` | small instances for TLC: functions for the constants, symmetry sets |
| `WorkRecordsProofs`, `AuthProofs`, `BudgetsProofs`, `DashboardProofs`, `TenantPoolProofs`, `StaffProofs`, `ExportsProofs`, `WorkHoursProofs` | theorems and their proofs |

Each of the system modules also holds the mutants: variants of one of its
definitions with a plausible bug, marked "Mutant" and used by no specification. For every
property of every passing run `PROJECT.json` names one that TLC finds to violate it.

### How a request is modelled

`req[r]` is a slot for a request in flight; as many requests interleave as there are
slots. In `WorkRecords`, `Budgets`, `Staff` and `Exports` a request starts with its SELECT and the checks on what that
returned: a request that fails a check answers 4xx and changes nothing, so it is not a
step at all. Then it holds `found`, the row as SELECTed, and `set`, the ORM object after the
handler's assignments, until it commits. The commit writes exactly the columns in which
`set` differs from `found`, whatever the row holds by then: that is what the unit of work
of SQLAlchemy does (`Written`). Flush and commit are one step, because the row lock of the
flush keeps other writers of the row waiting and nobody reads uncommitted rows. `Abort` is
the end of a process or a connection before the commit. Rows that are soft-deleted and rows
of another tenant are not found, as in the queries.

`Auth` has one action per Redis or database call, named for what it does
(`CheckIp` is the GET of the counter, `CountFailure` the INCR, `ExpireFailures` the EXPIRE,
`ListTokens` the SMEMBERS, `PurgeTokens` the pipeline, which redis-py sends as MULTI/EXEC).
Time is an action: `CounterLapses`, `TokenLapses`, `FamilyLapses` may happen when the key
has a time to live; the list of a user outlives its tokens because each store renews it.

`Staff` takes update and transfer apart at each SELECT, as their later ones depend on the
earlier: an update of the assignments deletes the rows it listed and inserts those it was
sent, which leaves the union when two of them interleave. A request of a
manager needs a token that says so, and tokens keep the role they were signed with until
they expire.

In `Exports` the object store changes with the upload and the database with the commit. A
task is a message in `queue`; a process of the worker takes it, selects, uploads, records,
stores the result and acknowledges, each a step. Celery and Redis are modelled from how
`tasks/celery_app.py` sets them up. `task_acks_late` leaves a message with the broker until the end
of its task. It is delivered again when the worker dies (`Crash`), and also when the
visibility timeout, which nothing sets, passes or the connection breaks while the worker
goes on (`Redeliver`): two processes may then run one task, each with its own attempt. A
process that dies alone is reported as FAILURE by its worker (`LoseProcess`). The result
backend ignores what is stored after SUCCESS, so a task that has it keeps status and link
while it runs again. A task that catches its error and returns it has ended with SUCCESS for
Celery; `Status` is what `routers/tasks.py:47` makes of that.

In `TenantPool` a connection has the setting that is in force and the one a rollback would
return to. A session holds a connection from its first statement to its commit, and from
then on none, until a refresh of the object it returns takes another one. Whichever idle
connection the pool hands out, with whatever setting, is a choice.

`Dashboard` extends `Budgets`: its next-state relation is that of `Budgets`, payments of
wages, and the SELECTs of one report, for a type of unit and a year. The year of a unit,
which no update changes, is the function `UnitYear` of its id; its budgets may be of another
year. A report is `steady` while nothing it could read falls, disappears or is below 0.

`WorkHours` has no concurrency, but no order either. Its state is the year of one senior: the
hours of each month on record, in tenths, and the sheet of each month as it was last
printed. Any sheet is printed and any month recorded, changed or deleted at any time, with any
hours the table takes; whether the senior works what a sheet asks for is a choice. The plan
of the unit is fixed for the types the policy fixes (`business_unit_service.py:91`), which
are those the properties speak of.

History variables and fields, which no action's guard reads more of than the code could know:
`minted[j].parent` (the token a token was exchanged for) and `handed` (tokens some client
received) in `Auth`, the order of `trail` in `WorkRecords`, `known` of a deletion in `Budgets`,
`floor` and `steady` in `Dashboard`, `seen` in `TenantPool` and in the sheets of `WorkHours`, and
in `Exports` the content in an entry of `audited` and `attempt`, `returned` and `shown` of a task.

| TLA+ | Code |
|---|---|
| `records`, `trail`, `departed` | `monthly_work_records`, `audit_logs`, `seniors.deleted_at` |
| `Create`, `Update`, `Submit`, `Approve`, `Reject`, `SoftDelete` | the first half of the service functions of those names |
| `CommitCreate`, `RefuseCreate` | the flush of the INSERT that fits the constraints, and the IntegrityError answered 409 |
| `CommitRow`, `RefuseRow` | flush and commit of the UPDATE, and the CHECK that fails it (500) |
| `fails`, `timed` | `login_fail:{ip}` and whether it has a time to live |
| `live`, `family` | `refresh_token:{jti}` exists; `user_tokens:{user}` |
| `units`, `budgets`, `exps`, `audited` | `business_units`, `annual_budgets`, `budget_expenditures`, `audit_logs` |
| `tenants`, `users`, `assigned`, `tokens` | `tenants`, `users`, `user_business_units`; access tokens that have not expired |
| `logs`, `objects`, `snapshots`, `files` | `consultation_logs`, MinIO, `document_snapshots`, `generated_files` |
| `tasks`, `queue`, `worker` | Celery results, messages that wait, what each process of the worker runs |
| `conns`, `rows` | connections of the pool with `app.current_tenant`; rows of all tables, by tenant |
| `recorded`, `sheets` | `monthly_work_records.worked_hours` of a senior by month; the row count `get_monthly_rows` answered |
| `ListBudgets`, `CountExpenditures`, `CommitDeleteUnit` | the two queries and the commit of `delete_business_unit` |

`PROJECT.json`, "map", gives the lines of every definition.

## 3. Runs

Deadlock is checked except where a bound, and not the code, stops the system: in the `Auth`
runs a handler that needs a token to sign waits once all of `Tokens` are used, in `Staff`
and `Exports` identifiers are used up, in `TenantPool` the requests end with `MaxAsked`.

| Run | Requests at a time | What it checks |
|---|---|---|
| `WorkRecordsRaces` | 2 | `OneLiveRecordPerMonth`, `DecisionsFollowSubmission`, `StatusIsTheLastAudited`, `TenantsStayApart`, `NothingIsUndone`: what survives every interleaving; `ImplementsWorkflow`: refinement of `WorkRecordWorkflow` |
| `WorkRecordsLateEdit` | 2 | `OnlyDraftsAreEdited` is violated |
| `AuthRaces` | 2 | `FailuresBounded`; `BlockLifts` (liveness) |
| `AuthExchanges` | 2, with crashes | `ExchangesBounded`: a token is exchanged at most once per request in flight; `ExchangedTokensAreDead`, `DeadStaysDead` |
| `AuthReuse` | 2 | `ReuseEndsEverySession` is violated |
| `Budgets` | 2 | `SpendingStaysInTenant`, `PolicyPlansStand`, `OnlySentLimitsChange`, `EarlierSpendingKeepsUnit` |
| `Dashboard` | 1 and a report | `ReportLiesBetween`: while nothing falls or disappears, a report is at least what was when it began and at most what is when it ends; `AlertsCatchNinetyPercent` |
| `Staff` | 2 | `RegistrationIsWhole`, `ChangesAreOnRecord`, `LastAdministratorGoesAlone` |
| `StaffReplaced` | 2 | `AssignmentsAreReplaced` is violated |
| `Exports` | 1, and two processes that may run one task | `RecordedFilesAreStored`, `ExportsAreOnRecord`, `SuccessIsComplete`, `RecordedOncePerDelivery`; `TasksEnd` (liveness) |
| `TenantPool` | 2 | `SeesOwnTenantOnly`; `RequestsEnd` (liveness) |
| `WorkHours` | - | `OvershootIsLessThanASession`, `YearIsFilled`, `RowsRiseByOne`, `SuggestionsReachTheTarget` |

`WorkRecordsRaces`, `AuthRaces`, `Budgets`, `Staff`, `Exports` and `TenantPool` also check the
`TypeOK` of their module. `OneBudgetPerUnitYear` is proved and not run.

What some of the properties ask needs a word:

- `ImplementsWorkflow`. The workflow is that of the documentation: a draft or a rejected
  record may be edited and submitted, a submitted one decided. It grants an operation and
  carries it out later, on whatever the record has become, but changes no more than the
  operation is about: a late edit moves no record, a late approval edits none, neither brings
  a deleted one back. The service permits less than the workflow: a rejected record
  can be neither edited nor submitted again (`work_record_service.py:141`), while
  `routers/work_records.py:177` says it is a draft again and line 244 that it can be edited
  and resubmitted.
- `EarlierSpendingKeepsUnit` is what the three steps of a deletion guarantee of "연결된 지출 내역이 있는
  경우 삭제 불가" (`routers/business_units.py:141`, no deletion while there is spending): an expenditure that was there when the deletion began keeps the unit, whatever
  is created, changed or deleted between them, as long as it stands.
- `OvershootIsLessThanASession` and `RowsRiseByOne` are about a sheet that counts the months
  before it. A sheet that is read ahead of their records asks for their hours again: with
  330 hours allocated and 180 on record by June, the sheets of July to November, all read
  before any of these months is recorded, have 10, 12, 13, 14 and 14 rows of 3 hours, and
  lead to 369 hours. The model has these sheets, and the properties hold of the others.

### What the violations show

- `WorkRecordsLateEdit`: an update that SELECTed the draft commits after the submission,
  or even the approval, of the record and changes its hours and amount.
- `AuthReuse`: a login or refresh stores its token between SMEMBERS and the pipeline of
  the revocation. The token stays usable, and as the list is deleted with the pipeline no
  later revocation finds it.
- `StaffReplaced`: two updates list the units of one employee before either commits; the later
  deletes what it listed and leaves what the earlier one inserted, so that the employee
  ends with the units of both (`routers/users.py:187`), while line 151 says all
  assignments are deleted and replaced.

### Disagreements without a run of their own

The following were met while modelling. Each is a behaviour the models contain, unless it
says otherwise, and the properties of the passing runs are stated around it.

Work records and hours:

- An approval and a rejection that both SELECTed the submitted record both commit
  (`work_record_service.py:203` and `:229`). `DecisionsFollowSubmission` is the part that
  survives: each decision is backed by a submission.
- Hours in (42, 43] with a reason pass schema and service, and the table's CHECK refuses
  them (`0001_initial_schema.py:148`); the handler answers that IntegrityError as a
  duplicate month (`work_record_service.py:61`), while
  `tests/integration/test_work_records.py:102` says such a record is a draft.
- Deleting a senior takes approved, unpaid records off the salary statement and out of the
  summary (`senior_service.py:113`), while `routers/work_records.py:210` says an approved
  record is on the statement.
- A month of a social service unit has 60 hours, and a public benefit sheet of 14 rows of
  4 hours has 56 (`schemas/business_unit.py:20`, `work_hours.py:41`): neither can be recorded
  under the CHECK of 42.
- `carry_over_enabled` is read nowhere; only the type of the unit decides, while
  `routers/work_records.py:279` says the setting does.
- `calculate_monthly_rows` takes months up to November and raises ValueError for December,
  which the list of sheets shows as a sheet of 0 rows (`work_logs.py:90`) and the workbook of the
  same month as one of 10 (`work_logs.py:167`).
- `validate_work_feasibility` calls a deficit unavoidable also when the target equals what
  the longest session reaches (`work_hours.py:119`), and has no caller outside the tests.

Login and staff:

- Two refreshes that verify one token before either deletes it both succeed
  (`core/security.py:92`); `ExchangesBounded` is what holds for any number of them.
- Concurrent logins pass the counter check together, so a sixth failure is answered 401
  (`auth_service.py:35`); `FailuresBounded` is what holds for any number of them.
- A handler that ends between INCR and EXPIRE (`auth_service.py:45`) leaves a new counter without
  a time to live. When that happens to every failure that blocks an address, nothing ends
  the block. `BlockLifts` is checked for handlers that run to their end.
- Deactivating a user or a tenant does not touch Redis, and a deactivated tenant's users
  can still log in (`routers/tenants.py:148`), while `routers/tenants.py:130` says they cannot.
- An administrator can end the own account by PUT and by DELETE, and with it the last one of
  the organisation; only `deactivate_user` refuses it (`routers/users.py:226`).
- Two transfers by a token that is still valid after the first leave two administrators
  (`routers/users.py:303`), and the demoted user's token keeps its role until it expires.
- Two registrations of one name both find no other and both succeed (`routers/register.py:64`);
  from then on a registration of that name fails with 500 in `scalar_one_or_none`, while
  `register.py:52` promises 409.

Budgets and dashboard:

- An expenditure that commits between the count and the commit of `delete_business_unit` is
  left in a deleted unit (`business_unit_service.py:114`).
- Nobody is warned of overspending: the warnings `create_expenditure` returns are dropped
  (`routers/budgets.py:120`), and the sum they are made of misses what commits at the same
  time. The sum has no effect that lasts and is left out.
- A budget may be created for an inactive unit or, since foreign keys are checked without
  row policies, for a unit of another tenant; a second budget of a unit and year is an
  uncaught IntegrityError (`budget_service.py:29`).
- The budget alert sums every expenditure and no approved wages, the summary approved wages
  and no expenditure of the category wage (`dashboard_service.py:89` and `:186`): the two
  disagree about one unit. The rate that `routers/dashboard.py:36` bounds by 100 is not bounded.
- Deactivating a unit takes its spending out of both.
- Neither `schemas/budget.py` nor a CHECK keeps a limit or an amount from being negative,
  and the SELECT of the budgets and that of the spending see different rows: a report read
  while such a row is inserted may show less than there ever was. What the reports promise
  is said, and proved, of amounts that are not negative.

Exports:

- A workbook that is stored cannot be recorded: "xlsx" is not in the enum of the table
  (`0001_initial_schema.py:27`). With storage up, an export as workbook commits outside its
  try block and answers 500, leaving the object (`consultation_logs.py:267`,
  `work_logs.py:339`), while `work_logs.py:234` says the file is returned even when storage is
  down: it is returned only then. A bulk export of logs in the default format fails whenever
  it finds a log.
- Bulk files of a tenant made in the same second have one path, and the later replaces the
  earlier (`export_tasks.py:81`); a salary statement has the path of its month, whatever
  unit it is of (`work_logs.py:299`).
- A task that is delivered again, after a crash or while it still runs, is recorded once for
  each delivery; `generated_files` then has several rows for one task, and its link leads to
  the first result that was stored as SUCCESS.
- Without storage the snapshots of a salary statement are saved and its file is not; with
  it, the row of the file names no snapshot (`work_logs.py:328`).
- An update of a log that sends its date fails: the audit entry takes the date into a JSON
  column as it is (`consultation_log_service.py:87`, and `senior_service.py:105` for a birth
  date). The models leave these columns out; the failure is an `Abort`.

Database:

- The row policies bind only a role that is not a superuser, as in the tests
  (`tests/conftest.py:82`); the role `docker-compose.yml` creates is one. `TenantPool` is about
  the former; `Budgets` runs with the policies off.
- Under the policies login and registration, which SET nothing, see what the setting left
  on their connection lets them see, or no row at all, and a refresh after the commit may
  run on a connection with another setting and answer 500 for what was committed. The engine
  of the synchronous queries in the request process never SETs a tenant
  (`core/database.py:41`).
- The ORM declares a plain unique constraint on work records
  (`models/monthly_work_records.py:25`), the migration a partial index; the models follow
  the migration, which is what creates the table.

### Bounds

- `MaxTrail` bounds the commits of a behaviour of `WorkRecords`. Five are enough for a
  record to be created, submitted, decided twice and deleted, or edited late on the way, and
  for its month to be taken again.
- `RecordIds` has two records and `Months` one, so that two records compete for the same
  senior and month; a second senior and user of another tenant make tenancy matter.
- `Hours` (in tenths: the code has one decimal) are 39 and 40, which the table accepts, and
  42.5, which the API accepts with a reason and the CHECK of the table refuses. An edit needs
  one value to change from and one to change to: `WorkRecordsRaces` has them in the hours and
  one value of `Amounts`, `WorkRecordsLateEdit` the other way round.
- `Tokens` bounds the tokens ever signed: three or four give a login, a refresh and a
  reuse on either side of it. `IpFailMax` is 2, where the code has 5: the counter is below,
  at and, by the race, above the limit in both.
- `Requests` is two where races matter: every race found needs two and no more. `Exports`
  and `Dashboard` have one, beside the two processes of the worker and beside the report. The proofs cover any number.
- `Budgets` has one unit, two budgets competing for its only year, one expenditure, two
  categories and limits of 1 and 2: a deletion lists the budgets, counts the expenditures of
  each and commits while the other request does anything else. `RowSecurity` is off there and on in `Dashboard`:
  `docker-compose.yml` creates the database role as a superuser, whom row policies do not bind.
- `Dashboard` has one budget and two expenditures of 1 under limits of 1 and 2, so that
  one expenditure reaches a limit, or nine tenths of it, and two overspend it. Its unit is
  of 2026 and the budget of 2025 or 2026, and so is the year of a report. The 4.2 million states take
  some three minutes; two units, two budgets or negative amounts are left to the proofs.
- `Staff` has two organisations, two accounts, one business unit and one token at a time. Two
  accounts are enough for an administrator and a successor, and for two registrations of
  one email; two units would add nothing to the sets that are compared unit by unit. An
  update changes one field.
- `Exports` has two tenants, one log with two contents, and one task whose message comes back
  once (`MaxReturned`), so that both processes of `docker-compose.yml:88` run it at the same time or
  one after the other. One request runs beside them, `MaxAsked` are sent, and there is one
  second, so that the two files of the task compete for a path. More tasks are left to the proofs.
- `TenantPool` has two connections, of which the pool keeps one, so that settings both
  stay on a connection and go with it; `MaxAsked` of 4 lets a connection be used again.
- `WorkHours` takes the hours of the three types as `TYPE_DEFAULTS` has them, sessions of 3 and
  4 hours, allocations of 100 and 330 hours, and three months: the first of the adjustment, the
  second, and the last. A month is recorded with what its sheet asked for, with 30.5 hours, with
  42, the most the table takes, or not at all. The proofs cover every month and any hours,
  also the negative ones that no check refuses.

### Fairness

Three runs assume any. `AuthRaces`: weak fairness of `Continue(r)`, since an event loop
runs a handler whose await has completed, and of `CounterLapses(ip)`, since Redis deletes a
key whose time to live has ended. `Exports`: weak fairness of `Run(w)`, since a worker takes
a message when it is free and a task does not wait for anybody; how often the broker takes a
message back is bounded, as a task whose worker always dies is never ended. `TenantPool`: weak fairness of
`Proceed(r)`; `GiveUp`, the timeout of the pool, is not needed for `RequestsEnd`, because a
handler that wants its second connection holds none. Nothing forces a client to ask, a
token to lapse or a handler to crash.

## 4. Proofs

The proof modules are checked by TLAPS to the last leaf. Their theorems hold for
every value of the constants: any number of requests, rows, users, tenants and tokens, any
limit.

**WorkRecords.** `IInv` is `TypeOK`, `RequestsOK` (a request in flight names an existing
row of its user's tenant, assigned what its handler assigns, and if it SELECTed a submitted
row the trail has the submission), and `SubmissionsLogged` (a row that is not a draft
has its submission in the trail). `TypeOK` alone is not inductive: an UPDATE needs its row to exist,
and a decision needs the submission that its stale SELECT saw to be in the log. From it
follow `TypeCorrect`, `AtMostOneLiveRecord`, `NoStepUndoes`, `TenantIsolation`,
`StatusMatchesTheLog`, `DecisionsAreBacked`. `ServiceImplementsTheWorkflow` needs no more than `IInv`:
a SELECT is a grant, because it saw a live row with a permitted status; a commit is the
operation carried out, because the columns that differ from what was found are those of
the operation (`Assigned`); a refusal or an abort is a renunciation.

**Auth.** `IInv` is `TypeOK`, `RequestsOK` (the token of a request was signed for
its user, and one that is about to be exchanged is dead) and `ParentsOK` (a token that was exchanged is dead). `ExchangeKills` and `NothingComesBack` follow.
`FailuresAreBounded` counts: failures plus requests that passed the check and have not
counted yet stay below the limit plus the requests, where only a request that read a
counter below the limit is admitted. `ExchangesAreBounded` counts the same way: exchanges of a
token plus the requests that verified it and have not stored its successor
are at most the requests, for once one of them has deleted the token nobody verifies it
again. `SerialReuse` assumes that all slots are one and adds what the only request
knows; it says what the race of `AuthReuse` takes away.

**Budgets.** `IInv` is `TypeOK`, `RequestsOK` (the rows a request names exist and kept
tenant, kind and budget), `IdsApart` (rows flushed and not committed have ids of their own) and `PolicyPlansStand`.
`PlansStand`, `AtMostOneBudget`, `UpdatesMerge` and `TenantSpending` follow.
`SpendingKeepsUnits` adds `DeletionsOK`: an expenditure that was there when a deletion began is
in a budget the deletion listed and has still to count, or is deleted, or of another unit.
Its heart is that this does not go stale (`DeletionStays`), because no budget changes its
unit and no deleted expenditure comes back (`TablesStay`).

**Dashboard.** The tables behave as `Budgets` has them (`TablesAreBudgets`), so `IInv` of
`Budgets` stands beside a report, and with it, since each step inserts at most one row,
`TablesFinite`. A sum over a set is a fold that takes its elements off in an order nobody
knows: `SubsetInduction` (well-founded induction on the subsets of one finite set, for a set
of sets instead of a predicate) gives the equation the fold satisfies, `SumUnfolds`, and from
it that sums are integers, do not fall when their terms or their sets grow, and split over
disjoint sets. The invariant of a report (`Right`) then says, for each stage, what has been
read and what is still to be read: the floor is at most what was read and what is there to be
read (`UnitsAhead`, `BudgetsAhead`, `WagesAhead`, `SpendingAhead`), and what was read is
still there. `ReportLiesBetween` alone is not inductive: it says nothing before a report is
done, and a report that is half read is right only because what it listed is still listed.
A step of the tables that only adds keeps that (`SteadyStays`), each SELECT
carries it to the next stage, and `ReportsAreRight` and `AlertsAreRaised` follow, for any
number of units, budgets and expenditures, any finite set of categories and any requests
between two SELECTs.

**TenantPool.** `IInv` is `TypeOK`, with "a connection is held by one request", `SeesOwnTenantOnly`
and `OwnSetting` (a request that goes on to its queries holds a connection on which its own
tenant is SET). The last is what makes the setting of an earlier request harmless, for any
number of connections and any size of the pool. `TypeCorrect` and `TenantsAreIsolated` follow.

**Staff.** `IInv` is `TypeOK`, `RequestsOK` (a request about an account names two accounts of
one organisation, and a transfer makes another account an administrator and changes
nothing else of it), `Known` (tokens and assignments are of accounts), `RegistrationIsWhole`
and `ChangesAreOnRecord`. The organisation of an account never changes, which keeps
`RequestsOK` true of requests whose rows others change. `RegistrationsAreWhole`,
`DeparturesAreOnRecord`, and the action properties `AssignmentsEndSeen` and
`AdministrationIsKept` follow: when the last administrator goes and the asker is another
account with an up-to-date token, that account is an administrator that stays.

**Exports.** `IInv` is `TypeOK`, `LogsOK` (the content of a log is in its audit log), `RequestsOK`
(an export in flight shows what is on record), `JobsOK` (what a process claims to have uploaded
and recorded is there), `TasksOK` (so is what a task with SUCCESS links to), `DeliveriesOK` (a
message is taken once, and once more for each time it came back) and `OnceOK` (processes that
run one task run different deliveries, and one that is short of its end has recorded nothing).
Files are overwritten, but never removed: `JobsOK` and `TasksOK` ask for a file at the path and a row
with the lines that were shown, and survive whoever else uploads there.
`RecordedIsStored`, `ExportedIsOnRecord`, `SuccessMeansComplete` and `OncePerDelivery` follow, for
any number of processes, redeliveries and requests.

**WorkHours.** `IInv` is `TypeOK` and `SheetsOK`: the rows of each sheet follow from what it has seen,
whatever came on record since. The rest is arithmetic: `CeilBounds` (a quotient rounded up is
the least that reaches the dividend), `LessThanASession` (a sheet from July on passes what it
saw left by less than a session), `LastSheet` (that of November reaches it) and `NextMonth` (what a month takes off
lowers what each later month has to bear). `OvershootIsBounded`, `TheYearIsFilled`, `RowsRise` and `SuggestionsReach` follow, for every
allocation, any hours and every order of sheets and records.

The assumptions are those named in the modules: users and seniors have a tenant, roles are
sets of users, the null values are no rows and no users, limits are numbers, there are
finitely many requests, the categories of a budget are finitely many, and one of them is the
wages.

**Only model-checked.** `BlockLifts`, `TasksEnd` and `RequestsEnd`: liveness, which TLAPS does
not reach. Every other property of a passing run is stated by a theorem.

## 5. Not modelled

- Reading endpoints, except the dashboard's figures and the exports. Of the dashboard the
  summary and the alerts are modelled; the counts of seniors, the months without a
  consultation, the indicators and the hours by month are single SELECTs of what other
  models have. (`routers/dashboard.py:83` calls the hours by month approved, and the query
  sums those of every status.)
- Policy rules. `routers/policy_rules.py` stores rules and a version of each change, and
  `services/rule_engine.py` applies them; nothing outside the tests calls the engine or reads
  a version. A version holds the fields that were sent and not the rule, a deletion writes
  none, and rules of equal priority apply in the order the database returns them.
- The reader of the audit log, one query.
- The frontend. It shows lists it fetched; the one page with control of its own, which
  saves and submits many records in a loop (`hooks/useWorkRecords.ts`), issues the requests
  `WorkRecords` takes in any order.
- Texts, names, dates, user agents and addresses; the layout of workbooks and PDFs.
- The rate limit per minute in front of the endpoints (slowapi) and the signature of
  access tokens. `Staff` has the role and the lifetime of an access token.
- Configuration, logging, start-up and seed data.

## 6. Plan

1. The indicators of the dashboard, should they come to be computed from more than one SELECT.
2. `WorkPage`, should the page come to decide more than it does.
