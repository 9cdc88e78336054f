-------------------------------- MODULE Exports --------------------------------
(***************************************************************************)
(* Consultation logs and the files made of them and of salaries:           *)
(* services/consultation_log_service.py, routers/consultation_logs.py, the *)
(* salary statement of routers/work_logs.py, and the Celery tasks of       *)
(* tasks/export_tasks.py with their status, routers/tasks.py.              *)
(*                                                                         *)
(* A file lives in two stores with no transaction over both.  It is        *)
(* uploaded to the object store first; its snapshots and its row are       *)
(* committed to the database after that.  A task is a message of the       *)
(* Redis broker that is acknowledged when its result has been stored.  The *)
(* broker delivers it again when the worker dies before, and also when the *)
(* visibility timeout passes or the connection breaks while the worker     *)
(* goes on: two processes may run one task.  The result backend keeps the  *)
(* first SUCCESS whatever is stored later.                                 *)
(***************************************************************************)
EXTENDS Integers, FiniteSets

CONSTANTS
  Tenants, LogIds,
  Contents,     \* content of a consultation log
  Units,        \* business units to make a salary statement of
  Tasks,        \* identifiers of tasks
  Workers,      \* processes of the Celery worker, docker-compose.yml:88
  Requests,     \* slots for requests in flight at the same time
  Clock,        \* the seconds a bulk file may be named for
  MaxAsked,     \* bound of the requests sent
  MaxReturned,  \* bound of the times the broker takes one task back
  NoTask, Idle, NoRequest

VARIABLES
  logs,         \* consultation_logs: id -> row
  audited,      \* audit_logs, as the set of what was written to which log
  objects,      \* the object store: path -> what the file there shows
  snapshots,    \* document_snapshots
  files,        \* generated_files
  tasks,        \* task id -> arguments and what the result backend knows of it
  queue,        \* messages that wait for a worker
  worker,       \* worker -> the task it runs
  asked,        \* how many requests have been sent
  req           \* slot -> the request in flight

vars == <<logs, audited, objects, snapshots, files, tasks, queue, worker, asked, req>>

Format == {"excel", "pdf"}

Log   == [tenant : Tenants, content : Contents, deleted : BOOLEAN]
Entry == [tenant : Tenants, log : LogIds, content : Contents]

\* A line of a file: a log and its content, or the paid records of a unit.
Line == [log : LogIds, content : Contents] \union [unit : Units]

\* {tenant}/{format}/{filename}: a bulk file is named for the second it is made
\* in, the file of one log for the log, a salary statement for neither.
Path == [tenant : Tenants, format : Format,
         name : {<<"bulk", s>> : s \in Clock} \union {<<"work_logs", s>> : s \in Clock}
                  \union {<<"log", l>> : l \in LogIds} \union {<<"salary">>}]

\* One row stands for the snapshots, or the files, of all lines of a document.
Snapshot == [tenant : Tenants, lines : SUBSET Line]
File     == [tenant : Tenants, path : Path, lines : SUBSET Line,
             task : Tasks \union {NoTask}, attempt : 0..(MaxReturned + 1)]

\* attempt, returned and shown are history: how often the message was delivered
\* and taken back, and the lines of the file that url leads to.
Task == [kind : {"consultation", "work_log"}, tenant : Tenants, ids : SUBSET LogIds,
         format : Format, attempt : 0..(MaxReturned + 1), returned : 0..MaxReturned,
         state : {"PENDING", "STARTED", "SUCCESS", "FAILURE"}, url : SUBSET Path,
         shown : SUBSET Line]

\* A task that returns its error has ended with SUCCESS for Celery.
Status(task) == IF task.state = "SUCCESS" /\ task.url = {} THEN "FAILURE" ELSE task.state

\* set is the content the UPDATE carries, or none.
UpdateRequest == [op : {"update"}, tenant : Tenants, log : LogIds, sent : Contents,
                  set : {{}} \union {{c} : c \in Contents}]
DeleteRequest == [op : {"delete"}, tenant : Tenants, log : LogIds, content : Contents]
ExportRequest == [op : {"export"}, at : {"fetched", "uploaded", "not uploaded"},
                  tenant : Tenants, path : Path, lines : SUBSET Line, salary : BOOLEAN]
Request == UpdateRequest \union DeleteRequest \union ExportRequest

Job == [task : Tasks, attempt : 1..(MaxReturned + 1), at : {"started", "selected", "uploaded", "ended", "reported"},
        lines : SUBSET Line, path : SUBSET Path, result : {"SUCCESS", "FAILURE"}]

ASSUME BoundAssumption == MaxAsked \in Nat /\ MaxReturned \in Nat
ASSUME NullAssumption  == NoTask \notin Tasks /\ Idle \notin Job /\ NoRequest \notin Request

-----------------------------------------------------------------------------
With(rows, id, row) == [i \in DOMAIN rows \union {id} |-> IF i = id THEN row ELSE rows[i]]

\* Rows that are soft-deleted and rows of other tenants are not found.
LogFound(tenant, l) == l \in DOMAIN logs /\ ~logs[l].deleted /\ logs[l].tenant = tenant

LineOf(l) == [log |-> l, content |-> logs[l].content]

\* file_type "xlsx" is no value of the enum filetype: the INSERT of the row of a
\* workbook fails, and with it the transaction.  "pdf" is one.
FileTypeFits(path) == path.format = "pdf"

-----------------------------------------------------------------------------
Init ==
  /\ logs = [l \in {} |-> {}]
  /\ audited = {}
  /\ objects = [p \in {} |-> {}]
  /\ snapshots = {}
  /\ files = {}
  /\ tasks = [k \in {} |-> {}]
  /\ queue = {}
  /\ worker = [w \in Workers |-> Idle]
  /\ asked = 0
  /\ req = [r \in Requests |-> NoRequest]

stores == <<logs, audited, objects, snapshots, files>>
broker == <<tasks, queue, worker>>

Set(r, q) == req' = [req EXCEPT ![r] = q]
Done(r)   == Set(r, NoRequest)

Audit(tenant, l, content) ==
  audited' = audited \union {[tenant |-> tenant, log |-> l, content |-> content]}

(* Consultation logs.                                                      *)

\* The entry of a CREATE names the log; its content is history here.
CreateLog(r, tenant, l, content) ==
  /\ req[r] = NoRequest
  /\ l \notin DOMAIN logs
  /\ logs' = With(logs, l, [tenant |-> tenant, content |-> content, deleted |-> FALSE])
  /\ Audit(tenant, l, content)
  /\ UNCHANGED <<objects, snapshots, files, broker, req>>

UpdateLog(r, tenant, l, content) ==
  /\ req[r] = NoRequest
  /\ LogFound(tenant, l)
  /\ Set(r, [op |-> "update", tenant |-> tenant, log |-> l, sent |-> content,
             set |-> IF content = logs[l].content THEN {} ELSE {content}])
  /\ UNCHANGED <<stores, broker>>

\* Mutant: what was sent is not in the audit log.
CommitUpdateUnseen(r) ==
  /\ req[r] \in UpdateRequest
  /\ logs' = [logs EXCEPT ![req[r].log].content = req[r].sent]
  /\ Done(r)
  /\ UNCHANGED <<audited, objects, snapshots, files, broker, asked>>

CommitUpdateLog(r) ==
  /\ req[r] \in UpdateRequest
  /\ logs' = [logs EXCEPT ![req[r].log].content =
                IF req[r].set = {} THEN @ ELSE req[r].sent]
  /\ Audit(req[r].tenant, req[r].log, req[r].sent)
  /\ Done(r)
  /\ UNCHANGED <<objects, snapshots, files, broker, asked>>

DeleteLog(r, tenant, l) ==
  /\ req[r] = NoRequest
  /\ LogFound(tenant, l)
  /\ Set(r, [op |-> "delete", tenant |-> tenant, log |-> l, content |-> logs[l].content])
  /\ UNCHANGED <<stores, broker>>

CommitDeleteLog(r) ==
  /\ req[r] \in DeleteRequest
  /\ logs' = [logs EXCEPT ![req[r].log].deleted = TRUE]
  /\ Done(r)
  /\ UNCHANGED <<audited, objects, snapshots, files, broker, asked>>

(* One document, made and returned by the request itself.                  *)

ExportOf(tenant, format, name, lines, salary) ==
  [op |-> "export", at |-> "fetched", tenant |-> tenant, lines |-> lines, salary |-> salary,
   path |-> [tenant |-> tenant, format |-> format, name |-> name]]

\* One query for the log, its senior and its writer.
ExportLog(r, tenant, l, format) ==
  /\ req[r] = NoRequest
  /\ LogFound(tenant, l)
  /\ Set(r, ExportOf(tenant, format, <<"log", l>>, {LineOf(l)}, FALSE))
  /\ UNCHANGED <<stores, broker>>

\* The statement of one business unit or, with all Units, of the tenant.
ExportSalary(r, tenant, units, format) ==
  /\ req[r] = NoRequest
  /\ Set(r, ExportOf(tenant, format, <<"salary">>, [unit : units], TRUE))
  /\ UNCHANGED <<stores, broker>>

Upload(r) ==
  /\ req[r] \in ExportRequest /\ req[r].at = "fetched"
  /\ objects' = With(objects, req[r].path, req[r].lines)
  /\ Set(r, [req[r] EXCEPT !.at = "uploaded"])
  /\ UNCHANGED <<logs, audited, snapshots, files, broker, asked>>

\* Nobody hears of it.
UploadFails(r) ==
  /\ req[r] \in ExportRequest /\ req[r].at = "fetched"
  /\ Set(r, [req[r] EXCEPT !.at = "not uploaded"])
  /\ UNCHANGED <<stores, broker, asked>>

FileOf(q) == [tenant |-> q.tenant, path |-> q.path, lines |-> q.lines,
              task |-> NoTask, attempt |-> 0]

SnapshotOf(q) == [tenant |-> q.tenant, lines |-> q.lines]

\* The commit stands after the try block: what fails in it answers 500.
CommitExport(r) ==
  /\ req[r] \in ExportRequest /\ req[r].at = "uploaded"
  /\ IF FileTypeFits(req[r].path)
       THEN /\ files' = files \union {FileOf(req[r])}
            /\ snapshots' = snapshots \union {SnapshotOf(req[r])}
       ELSE UNCHANGED <<files, snapshots>>
  /\ Done(r)
  /\ UNCHANGED <<logs, audited, objects, broker, asked>>

\* Without an upload the snapshots of salaries are saved, those of a log are not.
CommitWithoutFile(r) ==
  /\ req[r] \in ExportRequest /\ req[r].at = "not uploaded"
  /\ snapshots' = IF req[r].salary THEN snapshots \union {SnapshotOf(req[r])} ELSE snapshots
  /\ Done(r)
  /\ UNCHANGED <<logs, audited, objects, files, broker, asked>>

Abort(r) ==
  /\ req[r] # NoRequest
  /\ Done(r)
  /\ UNCHANGED <<stores, broker, asked>>

(* Many documents in one file, made by a task.                             *)

\* The ids are not looked at before the task runs.
Delay(r, k, kind, tenant, ids, format) ==
  /\ req[r] = NoRequest
  /\ k \notin DOMAIN tasks
  /\ tasks' = With(tasks, k, [kind |-> kind, tenant |-> tenant,
                              ids |-> IF kind = "work_log" THEN {} ELSE ids,
                              format |-> IF kind = "work_log" THEN "excel" ELSE format,
                              attempt |-> 0, returned |-> 0,
                              state |-> "PENDING", url |-> {}, shown |-> {}])
  /\ queue' = queue \union {k}
  /\ UNCHANGED <<stores, worker, req>>

Work(w, job)  == worker' = [worker EXCEPT ![w] = job]
Running(w, at) == worker[w] # Idle /\ worker[w].at = at
TaskOf(w)     == tasks[worker[w].task]

Started(k) == [task |-> k, attempt |-> tasks[k].attempt + 1, at |-> "started",
                    lines |-> {}, path |-> {}, result |-> "FAILURE"]

\* Mutant: the message is broadcast to all workers.
TakeShared(w, k) ==
  /\ worker[w] = Idle /\ k \in queue /\ tasks[k].attempt <= MaxReturned
  /\ tasks' = [tasks EXCEPT ![k].state = "STARTED", ![k].attempt = @ + 1]
  /\ Work(w, Started(k))
  /\ UNCHANGED <<stores, queue, asked, req>>

\* A task that has SUCCESS keeps it while it is run again.
Take(w, k) ==
  /\ worker[w] = Idle /\ k \in queue
  /\ queue' = queue \ {k}
  /\ tasks' = [tasks EXCEPT ![k].state = IF @ = "SUCCESS" THEN @ ELSE "STARTED",
                            ![k].attempt = @ + 1]
  /\ Work(w, Started(k))
  /\ UNCHANGED <<stores, asked, req>>

\* One query for all logs of the tenant among the ids.  What a workbook of work
\* logs shows is left out.
SelectLogs(w) ==
  /\ Running(w, "started")
  /\ Work(w, [worker[w] EXCEPT !.at = "selected", !.lines =
       IF TaskOf(w).kind = "work_log" THEN {}
       ELSE {LineOf(l) : l \in {i \in TaskOf(w).ids : LogFound(TaskOf(w).tenant, i)}}])
  /\ UNCHANGED <<stores, tasks, queue, asked, req>>

\* Mutant: the tenant and the format change places.
BulkPathSwapped(task, second) ==
  [tenant |-> task.format, format |-> task.tenant,
   name |-> <<IF task.kind = "work_log" THEN "work_logs" ELSE "bulk", second>>]

BulkPath(task, second) ==
  [tenant |-> task.tenant, format |-> task.format,
   name |-> <<IF task.kind = "work_log" THEN "work_logs" ELSE "bulk", second>>]

\* Mutant: the file is uploaded when its rows are committed.
UploadLater(w, second) ==
  /\ Running(w, "selected")
  /\ Work(w, [worker[w] EXCEPT !.at = "uploaded", !.path = {BulkPath(TaskOf(w), second)}])
  /\ UNCHANGED <<stores, tasks, queue, asked, req>>

UploadBulk(w, second) ==
  /\ Running(w, "selected")
  /\ objects' = With(objects, BulkPath(TaskOf(w), second), worker[w].lines)
  /\ Work(w, [worker[w] EXCEPT !.at = "uploaded", !.path = {BulkPath(TaskOf(w), second)}])
  /\ UNCHANGED <<logs, audited, snapshots, files, tasks, queue, asked, req>>

\* The database or the object store fails: the exception is the result.
TaskFails(w) ==
  /\ \/ Running(w, "started") \/ Running(w, "selected") \/ Running(w, "uploaded")
  /\ Work(w, [worker[w] EXCEPT !.at = "ended"])
  /\ UNCHANGED <<stores, tasks, queue, asked, req>>

BulkFileOf(w, path) ==
  [tenant |-> TaskOf(w).tenant, path |-> path, lines |-> worker[w].lines,
   task |-> worker[w].task, attempt |-> worker[w].attempt]

\* Mutant: a file type that does not fit is skipped and the task succeeds.
RecordWhatFits(w) ==
  /\ Running(w, "uploaded")
  /\ \E path \in worker[w].path :
       IF worker[w].lines # {} /\ FileTypeFits(path)
         THEN /\ files' = files \union {BulkFileOf(w, path)}
              /\ snapshots' = snapshots
                   \union {[tenant |-> TaskOf(w).tenant, lines |-> worker[w].lines]}
         ELSE UNCHANGED <<files, snapshots>>
  /\ Work(w, [worker[w] EXCEPT !.at = "ended", !.result = "SUCCESS"])
  /\ UNCHANGED <<logs, audited, objects, tasks, queue, asked, req>>

\* Snapshots and rows of all lines in one transaction, or nothing to record.
Record(w) ==
  /\ Running(w, "uploaded")
  /\ \E path \in worker[w].path :
       /\ worker[w].lines # {} => FileTypeFits(path)
       /\ IF worker[w].lines # {}
            THEN /\ files' = files \union {BulkFileOf(w, path)}
                 /\ snapshots' = snapshots
                      \union {[tenant |-> TaskOf(w).tenant, lines |-> worker[w].lines]}
            ELSE UNCHANGED <<files, snapshots>>
  /\ Work(w, [worker[w] EXCEPT !.at = "ended", !.result = "SUCCESS"])
  /\ UNCHANGED <<logs, audited, objects, tasks, queue, asked, req>>

\* What the task returns, its link or its error, is stored, unless the task has
\* SUCCESS already.
Report(w) ==
  /\ Running(w, "ended")
  /\ IF TaskOf(w).state = "SUCCESS" THEN UNCHANGED tasks
     ELSE tasks' = [tasks EXCEPT
            ![worker[w].task].state = "SUCCESS",
            ![worker[w].task].url = IF worker[w].result = "SUCCESS" THEN worker[w].path ELSE {},
            ![worker[w].task].shown = worker[w].lines]
  /\ Work(w, [worker[w] EXCEPT !.at = "reported"])
  /\ UNCHANGED <<stores, queue, asked, req>>

Acknowledge(w) ==
  /\ Running(w, "reported")
  /\ Work(w, Idle)
  /\ UNCHANGED <<stores, tasks, queue, asked, req>>

\* The broker takes back the message of a task that is not acknowledged.
Return(k) ==
  /\ tasks[k].returned < MaxReturned
  /\ tasks' = [tasks EXCEPT ![k].returned = @ + 1]
  /\ queue' = queue \union {k}

\* The visibility timeout passes or the connection breaks, and the worker goes on.
Redeliver(w) ==
  /\ worker[w] # Idle /\ Return(worker[w].task)
  /\ UNCHANGED <<stores, worker, asked, req>>

\* Mutant: the message was acknowledged when the worker took it.
CrashAcknowledged(w) ==
  /\ worker[w] # Idle
  /\ Work(w, Idle)
  /\ UNCHANGED <<stores, tasks, queue, asked, req>>

\* The worker dies, and this process with it.
Crash(w) ==
  /\ worker[w] # Idle /\ Return(worker[w].task)
  /\ Work(w, Idle)
  /\ UNCHANGED <<stores, asked, req>>

\* One process dies: the worker stores the failure and acknowledges the message.
LoseProcess(w) ==
  /\ worker[w] # Idle
  /\ tasks' = [tasks EXCEPT ![worker[w].task].state = IF @ = "SUCCESS" THEN @ ELSE "FAILURE"]
  /\ Work(w, Idle)
  /\ UNCHANGED <<stores, queue, asked, req>>

-----------------------------------------------------------------------------
Ask(r) ==
  /\ asked < MaxAsked /\ asked' = asked + 1
  /\ \E tenant \in Tenants :
    \/ \E l \in LogIds :
         \/ \E content \in Contents : \/ CreateLog(r, tenant, l, content)
                                      \/ UpdateLog(r, tenant, l, content)
         \/ DeleteLog(r, tenant, l)
         \/ \E format \in Format : ExportLog(r, tenant, l, format)
    \/ \E units \in (SUBSET Units) \ {{}}, format \in Format : ExportSalary(r, tenant, units, format)
    \/ \E k \in Tasks, kind \in {"consultation", "work_log"}, ids \in SUBSET LogIds,
          format \in Format : Delay(r, k, kind, tenant, ids, format)

Proceed(r) ==
  \/ CommitUpdateLog(r)
  \/ CommitDeleteLog(r)
  \/ Upload(r)
  \/ UploadFails(r)
  \/ CommitExport(r)
  \/ CommitWithoutFile(r)
  \/ Abort(r)

Run(w) ==
  \/ \E k \in Tasks : Take(w, k)
  \/ SelectLogs(w)
  \/ \E second \in Clock : UploadBulk(w, second)
  \/ TaskFails(w)
  \/ Record(w)
  \/ Report(w)
  \/ Acknowledge(w)

Next ==
  \/ \E r \in Requests : Ask(r) \/ Proceed(r)
  \/ \E w \in Workers : Run(w) \/ Redeliver(w) \/ Crash(w) \/ LoseProcess(w)

Spec == Init /\ [][Next]_vars

\* A worker takes what waits and goes on with what it took.
FairSpec == Spec /\ \A w \in Workers : WF_vars(Run(w))

-----------------------------------------------------------------------------
(* Properties.                                                             *)

\* Rows, files, tasks and requests in flight have the shape of their stores.
TypeOK ==
  /\ DOMAIN logs \subseteq LogIds /\ logs \in [DOMAIN logs -> Log]
  /\ audited \subseteq Entry
  /\ DOMAIN objects \subseteq Path /\ objects \in [DOMAIN objects -> SUBSET Line]
  /\ snapshots \subseteq Snapshot
  /\ files \subseteq File
  /\ DOMAIN tasks \subseteq Tasks /\ tasks \in [DOMAIN tasks -> Task]
  /\ queue \subseteq DOMAIN tasks
  /\ worker \in [Workers -> Job \union {Idle}]
  /\ asked \in 0..MaxAsked
  /\ req \in [Requests -> Request \union {NoRequest}]

\* A row of generated_files names a file that is in the object store, although
\* no transaction spans both, and its lines are in document_snapshots.
RecordedFilesAreStored ==
  \A f \in files :
    /\ f.path \in DOMAIN objects /\ f.path.tenant = f.tenant
    /\ [tenant |-> f.tenant, lines |-> f.lines] \in snapshots

\* Whatever is exported of a log, at once or by a task, by snapshot or in the
\* object store, belongs to the tenant and was written to the log on record.
ExportsAreOnRecord ==
  /\ \A s \in snapshots : \A line \in s.lines \intersect [log : LogIds, content : Contents] :
       [tenant |-> s.tenant, log |-> line.log, content |-> line.content] \in audited
  /\ \A p \in DOMAIN objects :
       \A line \in objects[p] \intersect [log : LogIds, content : Contents] :
         [tenant |-> p.tenant, log |-> line.log, content |-> line.content] \in audited

\* routers/tasks.py:30, "SUCCESS" is 완료, completed: the link of a task with that status leads
\* to a stored file of its tenant, and the row of the file it made is on record,
\* if it showed any log: whatever became of the other attempts at the task,
\* before or after this one, and of those that still run.
SuccessIsComplete ==
  \A k \in DOMAIN tasks :
    Status(tasks[k]) = "SUCCESS" =>
      \E p \in tasks[k].url :
        /\ p \in DOMAIN objects /\ p.tenant = tasks[k].tenant
        /\ \/ tasks[k].shown = {}
           \/ \E f \in files : f.task = k /\ f.path = p /\ f.lines = tasks[k].shown

\* A task is recorded at most once for each delivery of its message, and its
\* message is delivered once and once more for each time the broker took it
\* back, however many processes run it at the same time.
RecordedOncePerDelivery ==
  \A f \in files : f.task # NoTask =>
    /\ f.attempt <= 1 + tasks[f.task].returned
    /\ \A g \in files : g.task = f.task /\ g.attempt = f.attempt => g = f

\* A task is brought to an end, whichever workers or processes die while they
\* run it and whoever else runs it.
TasksEnd ==
  \A k \in Tasks :
    (k \in DOMAIN tasks) ~> (k \in DOMAIN tasks /\ Status(tasks[k]) \in {"SUCCESS", "FAILURE"})
=============================================================================
