----------------------------- MODULE ExportsProofs -----------------------------
(***************************************************************************)
(* Proofs about Exports, for any number of logs, tasks, workers, requests  *)
(* and redeliveries.                                                       *)
(***************************************************************************)
EXTENDS Exports, TLAPS

LogLine == [log : LogIds, content : Contents]

\* What the lines say of logs was written to the logs of the tenant.
OnRecord(tenant, lines) ==
  \A line \in lines \intersect LogLine :
    [tenant |-> tenant, log |-> line.log, content |-> line.content] \in audited

LogsOK ==
  \A l \in DOMAIN logs :
    [tenant |-> logs[l].tenant, log |-> l, content |-> logs[l].content] \in audited

\* A request names a log of its tenant, or shows what is on record in a file of
\* the tenant.
RequestOK(q) ==
  /\ q \in UpdateRequest =>
       /\ q.log \in DOMAIN logs /\ logs[q.log].tenant = q.tenant
  /\ q \in DeleteRequest => q.log \in DOMAIN logs
  /\ q \in ExportRequest =>
       /\ OnRecord(q.tenant, q.lines)
       /\ q.path.tenant = q.tenant
       /\ q.at = "uploaded" => q.path \in DOMAIN objects

RequestsOK == \A r \in Requests : RequestOK(req[r])

\* What the task k showed at p is recorded, if it showed any log.
Complete(k, p, lines) ==
  lines = {} \/ \E f \in files : f.task = k /\ f.path = p /\ f.lines = lines

\* A process shows what is on record, in a stored file of the tenant, and ends
\* with SUCCESS when that is recorded.
JobOK(job) ==
  /\ job.task \in DOMAIN tasks
  /\ OnRecord(tasks[job.task].tenant, job.lines)
  /\ \A p \in job.path : p \in DOMAIN objects /\ p.tenant = tasks[job.task].tenant
  /\ \A p, q \in job.path : p = q
  /\ job.result = "SUCCESS" =>
       /\ job.at \in {"ended", "reported"}
       /\ job.path # {} /\ \A p \in job.path : Complete(job.task, p, job.lines)

JobsOK == \A w \in Workers : worker[w] # Idle => JobOK(worker[w])

TaskOK(k) ==
  tasks[k].state = "SUCCESS" =>
    \A p \in tasks[k].url :
      /\ p \in DOMAIN objects /\ p.tenant = tasks[k].tenant
      /\ Complete(k, p, tasks[k].shown)

TasksOK == \A k \in DOMAIN tasks : TaskOK(k)

\* A message is delivered once, and once more for each time it was taken back;
\* who runs the task, and what it recorded, has a number given out before.
DeliveriesOK ==
  /\ \A k \in DOMAIN tasks :
       tasks[k].attempt <= IF k \in queue THEN tasks[k].returned ELSE tasks[k].returned + 1
  /\ \A w \in Workers :
       worker[w] # Idle => worker[w].attempt <= tasks[worker[w].task].attempt
  /\ \A f \in files :
       f.task # NoTask => f.task \in DOMAIN tasks /\ f.attempt <= tasks[f.task].attempt

Ending == {"ended", "reported"}

\* Processes that run one task run different deliveries, and one that is not at
\* its end has recorded nothing.
OnceOK ==
  /\ \A v, w \in Workers :
       v # w /\ worker[v] # Idle /\ worker[w] # Idle /\ worker[v].task = worker[w].task =>
         worker[v].attempt # worker[w].attempt
  /\ \A w \in Workers, f \in files :
       worker[w] # Idle /\ worker[w].at \notin Ending =>
         ~(f.task = worker[w].task /\ f.attempt = worker[w].attempt)
  /\ \A f, g \in files :
       f.task # NoTask /\ g.task = f.task /\ g.attempt = f.attempt => g = f

Recorded == RecordedFilesAreStored /\ ExportsAreOnRecord

IInv == /\ TypeOK /\ LogsOK /\ RequestsOK /\ Recorded
        /\ JobsOK /\ TasksOK /\ DeliveriesOK /\ OnceOK

-----------------------------------------------------------------------------
(* Rows stay.                                                              *)

RowsKept ==
  /\ DOMAIN logs \subseteq DOMAIN logs'
  /\ \A l \in DOMAIN logs : logs'[l].tenant = logs[l].tenant
  /\ audited \subseteq audited'
  /\ DOMAIN objects \subseteq DOMAIN objects'

\* Tasks and the rows of files stay, and a task its tenant's.
TasksKept ==
  /\ DOMAIN tasks \subseteq DOMAIN tasks'
  /\ \A k \in DOMAIN tasks : tasks'[k].tenant = tasks[k].tenant
  /\ files \subseteq files'

LEMMA OnRecordKept ==
  ASSUME audited \subseteq audited', NEW tenant, NEW lines, OnRecord(tenant, lines)
  PROVE  OnRecord(tenant, lines)'
BY DEF OnRecord

LEMMA RequestKept ==
  ASSUME RowsKept, NEW q, RequestOK(q)
  PROVE  RequestOK(q)'
<1>1. q \in ExportRequest => OnRecord(q.tenant, q.lines)'
  BY OnRecordKept DEF RequestOK, RowsKept
<1> QED BY <1>1 DEF RequestOK, RowsKept

LEMMA NoRequestOK == RequestOK(NoRequest) /\ RequestOK(NoRequest)'
<1>1. NoRequest \notin Request
  BY NullAssumption
<1> QED BY <1>1 DEF RequestOK, Request

\* A step that keeps the rows and changes one slot need only be right about it.
LEMMA OneSlot ==
  ASSUME TypeOK, RequestsOK, RowsKept, NEW r \in Requests, NEW q, Set(r, q), RequestOK(q)'
  PROVE  RequestsOK'
<1> SUFFICES ASSUME NEW s \in Requests PROVE RequestOK(req[s])'
  BY DEF RequestsOK
<1>1. req' = [req EXCEPT ![r] = q] /\ req \in [Requests -> Request \union {NoRequest}]
  BY DEF Set, TypeOK
<1>2. CASE s = r
  <2>1. req'[s] = q
    BY <1>1, <1>2
  <2> QED BY <2>1 DEF RequestOK
<1>3. CASE s # r
  <2>1. req'[s] = req[s]
    BY <1>1, <1>3
  <2>2. RequestOK(req[s])'
    <3>1. RequestOK(req[s])
      BY DEF RequestsOK
    <3> QED BY <2>1, <3>1, RequestKept DEF RequestOK
  <2> QED BY <2>2
<1> QED BY <1>2, <1>3

LEMMA SameRequests ==
  ASSUME RequestsOK, RowsKept, UNCHANGED req
  PROVE  RequestsOK'
<1> SUFFICES ASSUME NEW s \in Requests PROVE RequestOK(req[s])'
  BY DEF RequestsOK
<1>1. RequestOK(req[s])
  BY DEF RequestsOK
<1> QED BY <1>1, RequestKept DEF RequestOK

\* A job goes on being right whatever is written beside it.
LEMMA JobKept ==
  ASSUME RowsKept, TasksKept, NEW job, JobOK(job)
  PROVE  JobOK(job)'
<1>1. job.task \in DOMAIN tasks /\ job.task \in DOMAIN tasks'
      /\ tasks'[job.task].tenant = tasks[job.task].tenant
  BY DEF JobOK, TasksKept
<1>2. OnRecord(tasks[job.task].tenant, job.lines)'
  BY <1>1, OnRecordKept DEF JobOK, RowsKept, OnRecord
<1>3. \A p \in job.path : p \in DOMAIN objects' /\ p.tenant = tasks'[job.task].tenant
  BY <1>1 DEF JobOK, RowsKept
<1>4. \A p : Complete(job.task, p, job.lines) => Complete(job.task, p, job.lines)'
  BY DEF Complete, TasksKept
<1> QED BY <1>1, <1>2, <1>3, <1>4 DEF JobOK

LEMMA SameJobs ==
  ASSUME JobsOK, RowsKept, TasksKept, UNCHANGED worker
  PROVE  JobsOK'
<1> SUFFICES ASSUME NEW w \in Workers, NEW job, job = worker[w], job # Idle PROVE JobOK(job)'
  BY DEF JobsOK, JobOK
<1>1. JobOK(job)
  BY DEF JobsOK
<1> QED BY <1>1, JobKept

\* A step that changes one worker need only be right about it.
LEMMA OneWorker ==
  ASSUME TypeOK, JobsOK, RowsKept, TasksKept, NEW w \in Workers, NEW job, Work(w, job),
         job # Idle => JobOK(job)'
  PROVE  JobsOK'
<1>1. worker' = [worker EXCEPT ![w] = job] /\ worker \in [Workers -> Job \union {Idle}]
  BY DEF Work, TypeOK
<1>2. worker'[w] = job /\ \A v \in Workers \ {w} : worker'[v] = worker[v]
  BY <1>1
<1>3. ASSUME NEW v \in Workers \ {w}, NEW other, other = worker[v], other # Idle
      PROVE  JobOK(other)'
  <2>1. JobOK(other)
    BY <1>3 DEF JobsOK
  <2> QED BY <2>1, JobKept
<1>4. ASSUME NEW v \in Workers, NEW other, other = worker'[v], other # Idle
      PROVE  JobOK(other)'
  BY <1>2, <1>3, <1>4
<1> QED BY <1>4 DEF JobsOK, JobOK

\* A task goes on being right while its result stays what it was, if it has one.
LEMMA TasksStay ==
  ASSUME TasksOK, RowsKept, TasksKept,
         \A k \in DOMAIN tasks' :
           tasks'[k].state = "SUCCESS" =>
             /\ k \in DOMAIN tasks /\ tasks[k].state = "SUCCESS"
             /\ tasks'[k].url = tasks[k].url /\ tasks'[k].shown = tasks[k].shown
  PROVE  TasksOK'
<1> SUFFICES ASSUME NEW k \in DOMAIN tasks', tasks'[k].state = "SUCCESS", NEW p \in tasks'[k].url
             PROVE  /\ p \in DOMAIN objects' /\ p.tenant = tasks'[k].tenant
                    /\ Complete(k, p, tasks[k].shown)'
  BY DEF TasksOK, TaskOK
<1>1. /\ k \in DOMAIN tasks /\ tasks[k].state = "SUCCESS" /\ p \in tasks[k].url
      /\ tasks'[k].shown = tasks[k].shown /\ tasks'[k].tenant = tasks[k].tenant
  BY DEF TasksKept
<1>2. p \in DOMAIN objects /\ p.tenant = tasks[k].tenant /\ Complete(k, p, tasks[k].shown)
  BY <1>1 DEF TasksOK, TaskOK
<1> QED BY <1>1, <1>2 DEF Complete, RowsKept, TasksKept

\* Steps that deliver nothing and record nothing of a task.
Undelivered ==
  /\ UNCHANGED queue /\ DOMAIN tasks' = DOMAIN tasks
  /\ \A k \in DOMAIN tasks : /\ tasks'[k].attempt = tasks[k].attempt
                             /\ tasks'[k].returned = tasks[k].returned
  /\ files \subseteq files' /\ \A f \in files' \ files : f.task = NoTask
  /\ \A w \in Workers :
       worker'[w] # Idle =>
         /\ worker[w] # Idle
         /\ worker'[w].task = worker[w].task /\ worker'[w].attempt = worker[w].attempt
         /\ worker[w].at \in Ending => worker'[w].at \in Ending

LEMMA DeliveriesKept ==
  ASSUME TypeOK, JobsOK, DeliveriesOK, OnceOK, Undelivered
  PROVE  DeliveriesOK' /\ OnceOK'
<1>1. \A w \in Workers : worker[w] # Idle => worker[w].task \in DOMAIN tasks /\ worker[w].task # NoTask
  BY NullAssumption DEF JobsOK, JobOK, TypeOK, Job
<1>2. DeliveriesOK'
  BY <1>1 DEF DeliveriesOK, Undelivered
<1>3. OnceOK'
  <2>1. \A v, w \in Workers :
          v # w /\ worker'[v] # Idle /\ worker'[w] # Idle /\ worker'[v].task = worker'[w].task =>
            worker'[v].attempt # worker'[w].attempt
    BY DEF OnceOK, Undelivered
  <2>2. \A w \in Workers, f \in files' :
          worker'[w] # Idle /\ worker'[w].at \notin Ending =>
            ~(f.task = worker'[w].task /\ f.attempt = worker'[w].attempt)
    BY <1>1 DEF OnceOK, Undelivered
  <2>3. \A f, g \in files' :
          f.task # NoTask /\ g.task = f.task /\ g.attempt = f.attempt => g = f
    BY DEF OnceOK, Undelivered
  <2> QED BY <2>1, <2>2, <2>3 DEF OnceOK
<1> QED BY <1>2, <1>3

\* What a request does to the stores does not concern the tasks.
LEMMA BesideTasks ==
  ASSUME IInv, UNCHANGED broker, RowsKept, files \subseteq files',
         \A f \in files' \ files : f.task = NoTask
  PROVE  JobsOK' /\ TasksOK' /\ DeliveriesOK' /\ OnceOK'
<1>1. TasksKept /\ UNCHANGED <<tasks, queue, worker>> /\ Undelivered
  BY DEF broker, TasksKept, Undelivered
<1>2. JobsOK' /\ TasksOK'
  BY <1>1, SameJobs, TasksStay DEF IInv
<1> QED BY <1>1, <1>2, DeliveriesKept DEF IInv

-----------------------------------------------------------------------------
(* Requests.                                                               *)

LEMMA Starts == Init => IInv
<1> SUFFICES ASSUME Init PROVE IInv
  OBVIOUS
<1>1. TypeOK
  BY BoundAssumption DEF Init, TypeOK
<1>2. LogsOK /\ Recorded /\ TasksOK /\ DeliveriesOK /\ OnceOK
  BY DEF Init, LogsOK, Recorded, RecordedFilesAreStored, ExportsAreOnRecord, TasksOK, DeliveriesOK,
         OnceOK
<1>3. RequestsOK
  BY NoRequestOK DEF Init, RequestsOK
<1>4. JobsOK
  BY DEF Init, JobsOK
<1> QED BY <1>1, <1>2, <1>3, <1>4 DEF IInv

\* What is on record stays on record.
LEMMA RecordedKept ==
  ASSUME Recorded, audited \subseteq audited', UNCHANGED <<objects, snapshots, files>>
  PROVE  Recorded'
<1>1. RecordedFilesAreStored'
  BY DEF Recorded, RecordedFilesAreStored
<1>2. ExportsAreOnRecord'
  BY DEF Recorded, ExportsAreOnRecord
<1> QED BY <1>1, <1>2 DEF Recorded

\* A step that touches the stores of no file, and what it must be right about.
LEMMA NoFileTouched ==
  ASSUME IInv, TypeOK', LogsOK', RequestsOK', RowsKept, UNCHANGED <<objects, snapshots, files>>,
         UNCHANGED broker
  PROVE  IInv'
<1>1. JobsOK' /\ TasksOK' /\ DeliveriesOK' /\ OnceOK'
  BY BesideTasks
<1>2. Recorded'
  BY RecordedKept DEF IInv, RowsKept
<1> QED BY <1>1, <1>2 DEF IInv

\* The only change is that of a slot.
LEMMA OnlySlot ==
  ASSUME IInv, NEW r \in Requests, NEW q \in Request \union {NoRequest}, Set(r, q), RequestOK(q),
         UNCHANGED <<stores, broker>>, asked' \in 0..MaxAsked
  PROVE  IInv'
<1>1. RowsKept
  BY DEF stores, RowsKept
<1>2. TypeOK'
  BY DEF IInv, TypeOK, Set, stores, broker
<1>3. LogsOK' /\ UNCHANGED <<objects, snapshots, files>> /\ UNCHANGED broker
  BY DEF IInv, LogsOK, stores
<1>4. RequestsOK'
  BY <1>1, OneSlot, RequestKept DEF IInv
<1> QED BY <1>1, <1>2, <1>3, <1>4, NoFileTouched

\* The operations of different requests.
LEMMA Kinds ==
  ASSUME NEW q
  PROVE  /\ q \in UpdateRequest => q.op = "update" /\ q \in Request
         /\ q \in DeleteRequest => q.op = "delete" /\ q \in Request
         /\ q \in ExportRequest => q.op = "export" /\ q \in Request
BY DEF UpdateRequest, DeleteRequest, ExportRequest, Request

LEMMA LogSteps ==
  ASSUME IInv, NEW r \in Requests, NEW tenant \in Tenants, NEW l \in LogIds, NEW content \in Contents,
         asked' \in 0..MaxAsked
  PROVE  /\ CreateLog(r, tenant, l, content) => IInv'
         /\ UpdateLog(r, tenant, l, content) => IInv'
         /\ DeleteLog(r, tenant, l) => IInv'
<1>1. ASSUME CreateLog(r, tenant, l, content) PROVE IInv'
  <2>1. /\ [tenant |-> tenant, content |-> content, deleted |-> FALSE] \in Log
        /\ [tenant |-> tenant, log |-> l, content |-> content] \in Entry
    BY DEF Log, Entry
  <2>2. /\ DOMAIN logs' = DOMAIN logs \union {l} /\ l \notin DOMAIN logs
        /\ logs'[l] = [tenant |-> tenant, content |-> content, deleted |-> FALSE]
        /\ \A i \in DOMAIN logs : logs'[i] = logs[i]
        /\ audited' = audited \union {[tenant |-> tenant, log |-> l, content |-> content]}
        /\ UNCHANGED <<objects, snapshots, files>> /\ UNCHANGED broker /\ UNCHANGED req
    BY <1>1 DEF CreateLog, With, Audit
  <2>3. RowsKept
    BY <2>2 DEF RowsKept
  <2>4. logs' \in [DOMAIN logs' -> Log]
    BY <1>1, <2>1 DEF CreateLog, With, IInv, TypeOK
  <2>5. TypeOK'
    BY <2>1, <2>2, <2>4 DEF IInv, TypeOK, broker
  <2>6. LogsOK'
    BY <2>2 DEF IInv, LogsOK
  <2>7. RequestsOK'
    BY <2>2, <2>3, SameRequests DEF IInv
  <2> QED BY <2>2, <2>3, <2>5, <2>6, <2>7, NoFileTouched
<1>2. ASSUME UpdateLog(r, tenant, l, content) PROVE IInv'
  <2> DEFINE q == [op |-> "update", tenant |-> tenant, log |-> l, sent |-> content,
                   set |-> IF content = logs[l].content THEN {} ELSE {content}]
  <2>1. q \in UpdateRequest /\ q.log = l /\ q.tenant = tenant /\ q.op = "update"
    BY DEF UpdateRequest
  <2>2. Set(r, q) /\ LogFound(tenant, l) /\ UNCHANGED <<stores, broker>>
    BY <1>2 DEF UpdateLog
  <2> HIDE DEF q
  <2>3. RequestOK(q)
    BY <2>1, <2>2, Kinds DEF RequestOK, LogFound
  <2> QED BY <2>1, <2>2, <2>3, Kinds, OnlySlot
<1>3. ASSUME DeleteLog(r, tenant, l) PROVE IInv'
  <2> DEFINE q == [op |-> "delete", tenant |-> tenant, log |-> l, content |-> logs[l].content]
  <2>1. Set(r, q) /\ LogFound(tenant, l) /\ UNCHANGED <<stores, broker>>
    BY <1>3 DEF DeleteLog
  <2>2. q \in DeleteRequest /\ q.log = l
    BY <2>1 DEF DeleteRequest, LogFound, IInv, TypeOK, Log
  <2> HIDE DEF q
  <2>3. RequestOK(q)
    BY <2>1, <2>2, Kinds DEF RequestOK, LogFound
  <2> QED BY <2>1, <2>2, <2>3, Kinds, OnlySlot
<1> QED BY <1>1, <1>2, <1>3

LEMMA CommitUpdateKept ==
  ASSUME IInv, NEW r \in Requests, CommitUpdateLog(r)
  PROVE  IInv'
<1> DEFINE q == req[r]
<1> DEFINE row == logs[q.log]
<1>1. /\ q \in UpdateRequest /\ q.log \in DOMAIN logs /\ row.tenant = q.tenant
      /\ q.tenant \in Tenants /\ q.log \in LogIds /\ q.sent \in Contents
  BY DEF CommitUpdateLog, IInv, RequestsOK, RequestOK, UpdateRequest
<1>2. row \in Log
  BY <1>1 DEF IInv, TypeOK
<1>3. PICK new \in {row.content, q.sent} : logs' = [logs EXCEPT ![q.log].content = new]
  BY DEF CommitUpdateLog
<1>4. /\ audited' = audited \union {[tenant |-> q.tenant, log |-> q.log, content |-> q.sent]}
      /\ Set(r, NoRequest) /\ UNCHANGED <<objects, snapshots, files>>
      /\ UNCHANGED broker /\ UNCHANGED asked
  BY DEF CommitUpdateLog, Audit, Done
<1> HIDE DEF q, row
<1>5. /\ DOMAIN logs' = DOMAIN logs
      /\ \A l \in DOMAIN logs : l # q.log => logs'[l] = logs[l]
      /\ logs'[q.log] = [row EXCEPT !.content = new]
  BY <1>1, <1>3 DEF row
<1>6. [row EXCEPT !.content = new] \in Log /\ [row EXCEPT !.content = new].tenant = row.tenant
      /\ [row EXCEPT !.content = new].content = new
  BY <1>1, <1>2 DEF Log
<1>7. RowsKept
  BY <1>4, <1>5, <1>6 DEF RowsKept, row
<1>8. TypeOK'
  <2>1. logs' \in [DOMAIN logs' -> Log]
    BY <1>3, <1>5, <1>6 DEF IInv, TypeOK
  <2>2. audited' \subseteq Entry
    BY <1>1, <1>4 DEF IInv, TypeOK, Entry
  <2> QED BY <1>4, <1>5, <2>1, <2>2 DEF IInv, TypeOK, Set, broker
<1>9. LogsOK'
  <2>1. LogsOK /\ [tenant |-> row.tenant, log |-> q.log, content |-> row.content] \in audited
    BY <1>1 DEF IInv, LogsOK, row
  <2>2. [tenant |-> row.tenant, log |-> q.log, content |-> new] \in audited'
    BY <1>1, <1>4, <2>1
  <2> QED BY <1>4, <1>5, <1>6, <2>1, <2>2 DEF LogsOK
<1>10. RequestsOK'
  BY <1>4, <1>7, OneSlot, NoRequestOK DEF IInv
<1> QED BY <1>4, <1>7, <1>8, <1>9, <1>10, NoFileTouched

LEMMA CommitDeleteKept ==
  ASSUME IInv, NEW r \in Requests, CommitDeleteLog(r)
  PROVE  IInv'
<1> DEFINE q == req[r]
<1> DEFINE row == logs[q.log]
<1>1. q \in DeleteRequest /\ q.log \in DOMAIN logs
  BY DEF CommitDeleteLog, IInv, RequestsOK, RequestOK
<1>2. row \in Log
  BY <1>1 DEF IInv, TypeOK
<1>3. /\ logs' = [logs EXCEPT ![q.log].deleted = TRUE]
      /\ Set(r, NoRequest) /\ UNCHANGED <<audited, objects, snapshots, files>>
      /\ UNCHANGED broker /\ UNCHANGED asked
  BY DEF CommitDeleteLog, Done
<1> HIDE DEF q, row
<1>4. /\ DOMAIN logs' = DOMAIN logs
      /\ \A l \in DOMAIN logs : l # q.log => logs'[l] = logs[l]
      /\ logs'[q.log] = [row EXCEPT !.deleted = TRUE]
  BY <1>1, <1>3 DEF row
<1>5. /\ [row EXCEPT !.deleted = TRUE] \in Log
      /\ [row EXCEPT !.deleted = TRUE].tenant = row.tenant
      /\ [row EXCEPT !.deleted = TRUE].content = row.content
  BY <1>2 DEF Log
<1>6. RowsKept
  BY <1>3, <1>4, <1>5 DEF RowsKept, row
<1>7. TypeOK'
  <2>1. logs' \in [DOMAIN logs' -> Log]
    BY <1>3, <1>4, <1>5 DEF IInv, TypeOK
  <2> QED BY <1>3, <1>4, <2>1 DEF IInv, TypeOK, Set, broker
<1>8. LogsOK'
  BY <1>1, <1>3, <1>4, <1>5 DEF IInv, LogsOK, row
<1>9. RequestsOK'
  BY <1>3, <1>6, OneSlot, NoRequestOK DEF IInv
<1> QED BY <1>3, <1>6, <1>7, <1>8, <1>9, NoFileTouched

\* An export that starts shows what is on record.
LEMMA ExportStarts ==
  ASSUME NEW tenant \in Tenants, NEW format \in Format, NEW lines \in SUBSET Line,
         NEW salary \in BOOLEAN,
         NEW name \in {<<"log", l>> : l \in LogIds} \union {<<"salary">>},
         OnRecord(tenant, lines)
  PROVE  /\ ExportOf(tenant, format, name, lines, salary) \in Request
         /\ RequestOK(ExportOf(tenant, format, name, lines, salary))
<1> DEFINE q == ExportOf(tenant, format, name, lines, salary)
<1>1. q \in ExportRequest
  BY DEF ExportRequest, ExportOf, Path
<1>2. q.tenant = tenant /\ q.lines = lines /\ q.path.tenant = tenant
      /\ q.at = "fetched"
  BY DEF ExportOf
<1> HIDE DEF q
<1>3. q \in Request /\ RequestOK(q)
  BY <1>1, <1>2, Kinds DEF RequestOK
<1> QED BY <1>3 DEF q

LEMMA ExportSteps ==
  ASSUME IInv, NEW r \in Requests, NEW tenant \in Tenants, NEW format \in Format,
         asked' \in 0..MaxAsked
  PROVE  /\ \A l \in LogIds : ExportLog(r, tenant, l, format) => IInv'
         /\ \A units \in SUBSET Units : ExportSalary(r, tenant, units, format) => IInv'
<1>1. ASSUME NEW l \in LogIds, ExportLog(r, tenant, l, format) PROVE IInv'
  <2>1. LogFound(tenant, l) /\ UNCHANGED <<stores, broker>>
        /\ Set(r, ExportOf(tenant, format, <<"log", l>>, {LineOf(l)}, FALSE))
    BY <1>1 DEF ExportLog
  <2>2. {LineOf(l)} \in SUBSET Line /\ OnRecord(tenant, {LineOf(l)})
    BY <2>1 DEF LogFound, LineOf, Line, OnRecord, IInv, TypeOK, Log, LogsOK
  <2> QED BY <2>1, <2>2, ExportStarts, OnlySlot
<1>2. ASSUME NEW units \in SUBSET Units, ExportSalary(r, tenant, units, format) PROVE IInv'
  <2>1. UNCHANGED <<stores, broker>>
        /\ Set(r, ExportOf(tenant, format, <<"salary">>, [unit : units], TRUE))
    BY <1>2 DEF ExportSalary
  <2>2. [unit : units] \in SUBSET Line
    BY DEF Line
  <2>3. OnRecord(tenant, [unit : units])
    BY DEF OnRecord, LogLine
  <2> QED BY <2>1, <2>2, <2>3, ExportStarts, OnlySlot
<1> QED BY <1>1, <1>2

\* A request that is given up, and an upload that fails.
LEMMA NothingStored ==
  ASSUME IInv, NEW r \in Requests, Abort(r) \/ UploadFails(r)
  PROVE  IInv'
<1>1. CASE Abort(r)
  <2>1. Set(r, NoRequest) /\ UNCHANGED <<stores, broker>> /\ asked' \in 0..MaxAsked
    BY <1>1 DEF Abort, Done, IInv, TypeOK
  <2> QED BY <2>1, NoRequestOK, OnlySlot
<1>2. CASE UploadFails(r)
  <2> DEFINE q == [req[r] EXCEPT !.at = "not uploaded"]
  <2>1. /\ req[r] \in ExportRequest /\ RequestOK(req[r])
        /\ Set(r, q) /\ UNCHANGED <<stores, broker>> /\ asked' \in 0..MaxAsked
    BY <1>2 DEF UploadFails, IInv, TypeOK, RequestsOK
  <2>2. q \in ExportRequest /\ q.at = "not uploaded" /\ q.tenant = req[r].tenant
        /\ q.lines = req[r].lines /\ q.path = req[r].path
    BY <2>1 DEF ExportRequest
  <2> HIDE DEF q
  <2>3. RequestOK(q)
    BY <2>1, <2>2, Kinds DEF RequestOK
  <2> QED BY <2>1, <2>2, <2>3, Kinds, OnlySlot
<1> QED BY <1>1, <1>2

LEMMA UploadKept ==
  ASSUME IInv, NEW r \in Requests, Upload(r)
  PROVE  IInv'
<1> PICK q : q = req[r]
  OBVIOUS
<1> PICK done : done = [q EXCEPT !.at = "uploaded"]
  OBVIOUS
<1>1. /\ q \in ExportRequest /\ RequestOK(q) /\ Set(r, done)
      /\ objects' = With(objects, q.path, q.lines)
      /\ UNCHANGED <<logs, audited, snapshots, files, asked>> /\ UNCHANGED broker
  BY DEF Upload, IInv, RequestsOK
<1>2. /\ q.path \in Path /\ q.lines \in SUBSET Line /\ q.path.tenant = q.tenant
      /\ OnRecord(q.tenant, q.lines)
  BY <1>1 DEF ExportRequest, RequestOK
<1>3. /\ done \in ExportRequest /\ done.tenant = q.tenant
      /\ done.lines = q.lines /\ done.path = q.path
  BY <1>1 DEF ExportRequest
<1>4. /\ DOMAIN objects' = DOMAIN objects \union {q.path}
      /\ objects'[q.path] = q.lines
      /\ \A p \in DOMAIN objects : p # q.path => objects'[p] = objects[p]
      /\ objects' \in [DOMAIN objects' -> SUBSET Line]
  BY <1>1, <1>2 DEF With, IInv, TypeOK
<1>5. RowsKept
  BY <1>1, <1>4 DEF RowsKept
<1>6. TypeOK'
  BY <1>1, <1>2, <1>3, <1>4, Kinds DEF IInv, TypeOK, Set, broker
<1>7. LogsOK'
  BY <1>1 DEF IInv, LogsOK
<1>8. RequestsOK'
  <2>1. RequestOK(done)'
    BY <1>1, <1>2, <1>3, <1>4, Kinds, OnRecordKept DEF RequestOK, OnRecord
  <2> QED BY <1>1, <1>5, <2>1, OneSlot DEF IInv
<1>9. Recorded'
  <2>1. RecordedFilesAreStored'
    BY <1>1, <1>4 DEF IInv, Recorded, RecordedFilesAreStored
  <2>2. ExportsAreOnRecord'
    BY <1>1, <1>2, <1>4 DEF IInv, Recorded, ExportsAreOnRecord, OnRecord, LogLine
  <2> QED BY <2>1, <2>2 DEF Recorded
<1>10. JobsOK' /\ TasksOK' /\ DeliveriesOK' /\ OnceOK'
  BY <1>1, <1>5, BesideTasks
<1> QED BY <1>6, <1>7, <1>8, <1>9, <1>10 DEF IInv

\* Rows that a request commits are of a document it uploaded or, if they are
\* snapshots only, that is on record.
LEMMA CommitExportKept ==
  ASSUME IInv, NEW r \in Requests, CommitExport(r) \/ CommitWithoutFile(r)
  PROVE  IInv'
<1> DEFINE q == req[r]
<1>1. /\ q \in ExportRequest /\ RequestOK(q) /\ Set(r, NoRequest)
      /\ UNCHANGED <<logs, audited, objects, asked>> /\ UNCHANGED broker
  BY DEF CommitExport, CommitWithoutFile, Done, IInv, RequestsOK
<1>2. /\ q.path \in Path /\ q.lines \in SUBSET Line /\ q.path.tenant = q.tenant
      /\ q.tenant \in Tenants /\ OnRecord(q.tenant, q.lines)
      /\ q.at = "uploaded" => q.path \in DOMAIN objects
  BY <1>1 DEF ExportRequest, RequestOK
<1>3. /\ snapshots' = snapshots \/ snapshots' = snapshots \union {SnapshotOf(q)}
      /\ \/ files' = files
         \/ /\ q.at = "uploaded" /\ files' = files \union {FileOf(q)}
            /\ SnapshotOf(q) \in snapshots'
  BY DEF CommitExport, CommitWithoutFile
<1> HIDE DEF q
<1>4. SnapshotOf(q) \in Snapshot /\ FileOf(q) \in File /\ FileOf(q).task = NoTask
  BY <1>2, BoundAssumption DEF SnapshotOf, FileOf, Snapshot, File
<1>5. RowsKept
  BY <1>1 DEF RowsKept
<1>6. TypeOK'
  BY <1>1, <1>3, <1>4 DEF IInv, TypeOK, Set, broker
<1>7. LogsOK'
  BY <1>1 DEF IInv, LogsOK
<1>8. RequestsOK'
  BY <1>1, <1>5, OneSlot, NoRequestOK DEF IInv
<1>9. Recorded'
  <2>1. RecordedFilesAreStored'
    <3>1. /\ FileOf(q).tenant = q.tenant /\ FileOf(q).path = q.path /\ FileOf(q).lines = q.lines
          /\ SnapshotOf(q) = [tenant |-> q.tenant, lines |-> q.lines]
      BY DEF FileOf, SnapshotOf
    <3>2. RecordedFilesAreStored /\ snapshots \subseteq snapshots' /\ UNCHANGED objects
      BY <1>1, <1>3 DEF IInv, Recorded
    <3> QED BY <1>2, <1>3, <3>1, <3>2 DEF RecordedFilesAreStored
  <2>2. ExportsAreOnRecord'
    BY <1>1, <1>2, <1>3 DEF IInv, Recorded, ExportsAreOnRecord, OnRecord, LogLine, SnapshotOf
  <2> QED BY <2>1, <2>2 DEF Recorded
<1>10. JobsOK' /\ TasksOK' /\ DeliveriesOK' /\ OnceOK'
  BY <1>1, <1>3, <1>4, <1>5, BesideTasks
<1> QED BY <1>6, <1>7, <1>8, <1>9, <1>10 DEF IInv

\* A new task is right, and so are the rest.
LEMMA DelayKept ==
  ASSUME IInv, NEW r \in Requests, NEW k \in Tasks, NEW kind \in {"consultation", "work_log"},
         NEW tenant \in Tenants, NEW ids \in SUBSET LogIds, NEW format \in Format,
         Delay(r, k, kind, tenant, ids, format), asked' \in 0..MaxAsked
  PROVE  IInv'
<1> PICK task : task = [kind |-> kind, tenant |-> tenant,
                        ids |-> IF kind = "work_log" THEN {} ELSE ids,
                        format |-> IF kind = "work_log" THEN "excel" ELSE format,
                        attempt |-> 0, returned |-> 0,
                        state |-> "PENDING", url |-> {}, shown |-> {}]
  OBVIOUS
<1>1. /\ k \notin DOMAIN tasks /\ tasks' = With(tasks, k, task) /\ queue' = queue \union {k}
      /\ UNCHANGED <<logs, audited, objects, snapshots, files>> /\ UNCHANGED <<worker, req>>
  BY DEF Delay, stores
<1>2. task \in Task /\ task.attempt = 0 /\ task.returned = 0 /\ task.state = "PENDING"
  BY BoundAssumption DEF Task, Format
<1>3. /\ DOMAIN tasks' = DOMAIN tasks \union {k} /\ tasks'[k] = task
      /\ \A i \in DOMAIN tasks : tasks'[i] = tasks[i]
      /\ tasks' \in [DOMAIN tasks' -> Task]
  BY <1>1, <1>2 DEF With, IInv, TypeOK
<1>4. RowsKept /\ TasksKept
  BY <1>1, <1>3 DEF RowsKept, TasksKept
<1>5. TypeOK'
  <2>1. DOMAIN tasks' \subseteq Tasks /\ queue' \subseteq DOMAIN tasks'
    BY <1>1, <1>3 DEF IInv, TypeOK
  <2>2. /\ tasks' \in [DOMAIN tasks' -> Task]
        /\ worker' = worker /\ req' = req /\ logs' = logs
        /\ audited' = audited /\ objects' = objects /\ snapshots' = snapshots /\ files' = files
    BY <1>1, <1>3
  <2>3. TypeOK
    BY DEF IInv
  <2> QED BY <2>1, <2>2, <2>3 DEF TypeOK
<1>6. LogsOK' /\ RequestsOK' /\ Recorded'
  BY <1>1, <1>4, SameRequests, RecordedKept DEF IInv, LogsOK
<1>7. JobsOK' /\ TasksOK'
  BY <1>1, <1>2, <1>3, <1>4, SameJobs, TasksStay DEF IInv
<1>8. DeliveriesOK'
  <2>1. \A i \in DOMAIN tasks' :
          tasks'[i].attempt <= IF i \in queue' THEN tasks'[i].returned ELSE tasks'[i].returned + 1
    <3>1. ASSUME NEW i \in DOMAIN tasks
          PROVE  tasks'[i].attempt <= IF i \in queue' THEN tasks'[i].returned ELSE tasks'[i].returned + 1
      BY <1>1, <1>3 DEF IInv, DeliveriesOK
    <3>2. k \in queue' /\ tasks'[k].attempt <= tasks'[k].returned
      BY <1>1, <1>2, <1>3
    <3> QED BY <1>3, <3>1, <3>2
  <2>2. \A w \in Workers : worker[w] # Idle => worker[w].task \in DOMAIN tasks
    BY DEF IInv, JobsOK, JobOK
  <2> QED BY <1>1, <1>3, <2>1, <2>2 DEF IInv, DeliveriesOK
<1>9. OnceOK'
  BY <1>1 DEF IInv, OnceOK
<1> QED BY <1>5, <1>6, <1>7, <1>8, <1>9 DEF IInv

-----------------------------------------------------------------------------
(* Workers.                                                                *)

\* What no worker changes.
LEMMA Beside ==
  ASSUME IInv, RowsKept, UNCHANGED <<logs, audited, req>>
  PROVE  /\ LogsOK' /\ RequestsOK'
         /\ UNCHANGED <<objects, snapshots, files>> => Recorded'
<1>1. LogsOK' /\ RequestsOK'
  BY SameRequests DEF IInv, LogsOK
<1>2. UNCHANGED <<objects, snapshots, files>> => Recorded'
  BY RecordedKept DEF IInv
<1> QED BY <1>1, <1>2

\* The next delivery has a number of its own, that no file and no process has.
LEMMA TakeKept ==
  ASSUME IInv, NEW w \in Workers, NEW k \in Tasks, Take(w, k)
  PROVE  IInv'
<1> PICK job : job = Started(k)
  OBVIOUS
<1> PICK task : task = [tasks[k] EXCEPT !.state = IF @ = "SUCCESS" THEN @ ELSE "STARTED",
                                        !.attempt = @ + 1]
  OBVIOUS
<1>1. /\ worker[w] = Idle /\ k \in queue /\ k \in DOMAIN tasks /\ queue' = queue \ {k}
      /\ tasks' = [tasks EXCEPT ![k].state = IF @ = "SUCCESS" THEN @ ELSE "STARTED",
                                ![k].attempt = @ + 1]
      /\ Work(w, job)
      /\ UNCHANGED <<logs, audited, objects, snapshots, files>> /\ UNCHANGED <<asked, req>>
  BY DEF Take, stores, IInv, TypeOK
<1>2. /\ DOMAIN tasks' = DOMAIN tasks /\ tasks'[k] = task
      /\ \A i \in DOMAIN tasks : i # k => tasks'[i] = tasks[i]
  BY <1>1
<1>3. /\ tasks[k] \in Task /\ tasks[k].attempt <= tasks[k].returned
      /\ tasks[k].attempt \in Nat /\ tasks[k].returned \in 0..MaxReturned
  BY <1>1, BoundAssumption DEF IInv, DeliveriesOK, TypeOK, Task
<1>4. /\ task.state \in {tasks[k].state, "STARTED"} /\ task.attempt = tasks[k].attempt + 1
      /\ task.returned = tasks[k].returned /\ task.tenant = tasks[k].tenant
      /\ task.url = tasks[k].url /\ task.shown = tasks[k].shown
  BY <1>3 DEF Task
<1>5. task \in Task
  <2>1. tasks[k].attempt + 1 \in 0..(MaxReturned + 1)
    BY <1>3, BoundAssumption
  <2> QED BY <1>3, <2>1 DEF Task
<1>6. /\ job.task = k /\ job.attempt = tasks[k].attempt + 1 /\ job.at = "started"
      /\ job.lines = {} /\ job.path = {} /\ job.result = "FAILURE" /\ job \in Job
  <2>1. tasks[k].attempt + 1 \in 1..(MaxReturned + 1)
    BY <1>3, BoundAssumption
  <2> QED BY <2>1 DEF Started, Job
<1>7. RowsKept /\ TasksKept
  BY <1>1, <1>2, <1>4 DEF RowsKept, TasksKept
<1>8. /\ worker'[w] = job /\ \A v \in Workers : v # w => worker'[v] = worker[v]
      /\ worker' \in [Workers -> Job \union {Idle}]
  BY <1>1, <1>6 DEF IInv, TypeOK, Work
<1>9. TypeOK'
  <2>1. tasks' \in [DOMAIN tasks' -> Task]
    BY <1>1, <1>2, <1>5 DEF IInv, TypeOK
  <2>2. DOMAIN tasks' \subseteq Tasks /\ queue' \subseteq DOMAIN tasks'
    BY <1>1, <1>2 DEF IInv, TypeOK
  <2> QED BY <1>1, <1>8, <2>1, <2>2 DEF IInv, TypeOK
<1>10. LogsOK' /\ RequestsOK' /\ Recorded'
  BY <1>1, <1>7, Beside
<1>11. JobsOK'
  <2>1. JobOK(job)'
    BY <1>1, <1>2, <1>6 DEF JobOK, OnRecord
  <2> QED BY <1>1, <1>7, <2>1, OneWorker DEF IInv
<1>12. TasksOK'
  BY <1>2, <1>4, <1>7, TasksStay DEF IInv
<1>13. /\ \A v \in Workers : worker[v] # Idle => worker[v].attempt <= tasks[worker[v].task].attempt
       /\ \A f \in files : f.task # NoTask => f.attempt <= tasks[f.task].attempt
       /\ \A v \in Workers : worker[v] # Idle => worker[v].attempt \in Int
       /\ \A f \in files : f.attempt \in Int
  BY DEF IInv, DeliveriesOK, TypeOK, Job, File
<1>14. DeliveriesOK'
  <2>1. \A i \in DOMAIN tasks' :
          tasks'[i].attempt <= IF i \in queue' THEN tasks'[i].returned ELSE tasks'[i].returned + 1
    BY <1>1, <1>2, <1>3, <1>4 DEF IInv, DeliveriesOK
  <2>2. ASSUME NEW i, NEW n \in Int, n <= tasks[i].attempt, i \in DOMAIN tasks
        PROVE  n <= tasks'[i].attempt
    <3>1. CASE i = k
      <4>1. tasks'[i].attempt = tasks[k].attempt + 1 /\ n <= tasks[k].attempt
        BY <1>2, <1>4, <2>2, <3>1
      <4> QED BY <1>3, <4>1
    <3>2. CASE i # k
      BY <1>2, <2>2, <3>2
    <3> QED BY <3>1, <3>2
  <2>3. \A v \in Workers : worker'[v] # Idle => worker'[v].attempt <= tasks'[worker'[v].task].attempt
    <3>1. \A v \in Workers : worker[v] # Idle => worker[v].task \in DOMAIN tasks
      BY DEF IInv, JobsOK, JobOK
    <3>2. ASSUME NEW v \in Workers, worker'[v] # Idle, v # w
          PROVE  worker'[v].attempt <= tasks'[worker'[v].task].attempt
      BY <1>8, <1>13, <2>2, <3>1, <3>2
    <3>3. job.attempt <= tasks'[k].attempt
      BY <1>2, <1>3, <1>4, <1>6
    <3> QED BY <1>6, <1>8, <3>2, <3>3
  <2>4. \A f \in files' : f.task # NoTask => f.task \in DOMAIN tasks' /\ f.attempt <= tasks'[f.task].attempt
    BY <1>1, <1>2, <1>13, <2>2 DEF IInv, DeliveriesOK
  <2> QED BY <2>1, <2>3, <2>4 DEF DeliveriesOK
<1>15. OnceOK'
  <2>1. \A v \in Workers : worker[v] # Idle /\ worker[v].task = k => worker[v].attempt # job.attempt
    BY <1>3, <1>6, <1>13
  <2>2. \A f \in files : f.task = k => f.attempt # job.attempt
    BY <1>3, <1>6, <1>13, NullAssumption
  <2>3. \A v, u \in Workers :
          v # u /\ worker'[v] # Idle /\ worker'[u] # Idle /\ worker'[v].task = worker'[u].task =>
            worker'[v].attempt # worker'[u].attempt
    BY <1>6, <1>8, <2>1 DEF IInv, OnceOK
  <2>4. \A v \in Workers, f \in files' :
          worker'[v] # Idle /\ worker'[v].at \notin Ending =>
            ~(f.task = worker'[v].task /\ f.attempt = worker'[v].attempt)
    BY <1>1, <1>6, <1>8, <2>2 DEF IInv, OnceOK
  <2> QED BY <1>1, <2>3, <2>4 DEF IInv, OnceOK
<1> QED BY <1>9, <1>10, <1>11, <1>12, <1>14, <1>15 DEF IInv

\* A process that ends, or goes on with the delivery it has, delivers nothing.
LEMMA SameDelivery ==
  ASSUME IInv, NEW w \in Workers, worker[w] # Idle, NEW job, Work(w, job),
         UNCHANGED <<files, queue>>, DOMAIN tasks' = DOMAIN tasks,
         \A k \in DOMAIN tasks : /\ tasks'[k].attempt = tasks[k].attempt
                                 /\ tasks'[k].returned = tasks[k].returned,
         job # Idle => /\ job.task = worker[w].task /\ job.attempt = worker[w].attempt
                       /\ worker[w].at \in Ending => job.at \in Ending
  PROVE  DeliveriesOK' /\ OnceOK'
<1>1. worker' = [worker EXCEPT ![w] = job] /\ worker \in [Workers -> Job \union {Idle}]
  BY DEF Work, IInv, TypeOK
<1>2. worker'[w] = job /\ \A v \in Workers : v # w => worker'[v] = worker[v]
  BY <1>1
<1>3. Undelivered
  BY <1>2 DEF Undelivered
<1> QED BY <1>3, DeliveriesKept DEF IInv

\* A step of a worker that changes no store of others.
LEMMA OnlyWorker ==
  ASSUME IInv, NEW w \in Workers, worker[w] # Idle, NEW job \in Job \union {Idle}, Work(w, job),
         UNCHANGED <<stores, tasks, queue, asked, req>>,
         job # Idle => /\ JobOK(job)
                       /\ job.task = worker[w].task /\ job.attempt = worker[w].attempt
                       /\ worker[w].at \in Ending => job.at \in Ending
  PROVE  IInv'
<1>1. /\ UNCHANGED <<logs, audited, objects, snapshots, files>>
      /\ UNCHANGED <<tasks, queue, asked, req>>
      /\ RowsKept /\ TasksKept
  BY DEF stores, RowsKept, TasksKept
<1>2. TypeOK'
  BY <1>1 DEF IInv, TypeOK, Work
<1>3. LogsOK' /\ RequestsOK' /\ Recorded'
  BY <1>1, Beside
<1>4. JobsOK' /\ TasksOK'
  BY <1>1, JobKept, OneWorker, TasksStay DEF IInv
<1>5. DeliveriesOK' /\ OnceOK'
  BY <1>1, SameDelivery
<1> QED BY <1>2, <1>3, <1>4, <1>5 DEF IInv

\* The lines a task selects are on record, and its failure is no success.
LEMMA JobSteps ==
  ASSUME IInv, NEW w \in Workers, SelectLogs(w) \/ TaskFails(w) \/ Acknowledge(w)
  PROVE  IInv'
<1> PICK job : job = worker[w]
  OBVIOUS
<1>1. worker[w] # Idle /\ job \in Job /\ JobOK(job)
  BY DEF SelectLogs, TaskFails, Acknowledge, Running, IInv, TypeOK, JobsOK
<1>2. CASE SelectLogs(w)
  <2> PICK lines : lines = IF TaskOf(w).kind = "work_log" THEN {}
                           ELSE {LineOf(l) : l \in {i \in TaskOf(w).ids : LogFound(TaskOf(w).tenant, i)}}
    OBVIOUS
  <2> PICK next : next = [job EXCEPT !.at = "selected", !.lines = lines]
    OBVIOUS
  <2>1. /\ job.at = "started" /\ Work(w, next)
        /\ UNCHANGED <<stores, tasks, queue, asked, req>>
    BY <1>2 DEF SelectLogs, Running
  <2>2. lines \in SUBSET Line
    BY DEF LineOf, LogFound, Line, IInv, TypeOK, Log
  <2>3. OnRecord(tasks[job.task].tenant, lines)
    BY DEF OnRecord, LogsOK, IInv, LineOf, LogFound, TaskOf
  <2>4. /\ next \in Job /\ next.task = job.task /\ next.attempt = job.attempt
        /\ next.at = "selected" /\ next.lines = lines
        /\ next.path = job.path /\ next.result = job.result
    BY <1>1, <2>2 DEF Job
  <2>5. JobOK(next)
    BY <1>1, <2>1, <2>3, <2>4 DEF JobOK
  <2> QED BY <1>1, <2>1, <2>4, <2>5, OnlyWorker DEF Ending
<1>3. CASE TaskFails(w)
  <2> PICK next : next = [job EXCEPT !.at = "ended"]
    OBVIOUS
  <2>1. /\ job.at \in {"started", "selected", "uploaded"} /\ Work(w, next)
        /\ UNCHANGED <<stores, tasks, queue, asked, req>>
    BY <1>3 DEF TaskFails, Running
  <2>2. /\ next \in Job /\ next.task = job.task /\ next.attempt = job.attempt
        /\ next.at = "ended" /\ next.lines = job.lines
        /\ next.path = job.path /\ next.result = job.result
    BY <1>1 DEF Job
  <2>3. JobOK(next)
    BY <1>1, <2>1, <2>2 DEF JobOK
  <2> QED BY <1>1, <2>1, <2>2, <2>3, OnlyWorker DEF Ending
<1>4. CASE Acknowledge(w)
  BY <1>1, <1>4, OnlyWorker DEF Acknowledge
<1> QED BY <1>2, <1>3, <1>4

\* What is overwritten at its path was as much on record as what is written.
LEMMA UploadBulkKept ==
  ASSUME IInv, NEW w \in Workers, NEW second \in Clock, UploadBulk(w, second)
  PROVE  IInv'
<1> PICK job : job = worker[w]
  OBVIOUS
<1> PICK k : k = job.task
  OBVIOUS
<1> PICK path : path = BulkPath(tasks[k], second)
  OBVIOUS
<1> PICK next : next = [job EXCEPT !.at = "uploaded", !.path = {path}]
  OBVIOUS
<1>1. /\ worker[w] # Idle /\ job \in Job /\ JobOK(job) /\ job.at = "selected" /\ Work(w, next)
      /\ objects' = With(objects, path, job.lines)
      /\ UNCHANGED <<logs, audited, snapshots, files>> /\ UNCHANGED <<tasks, queue, asked, req>>
  BY DEF UploadBulk, Running, TaskOf, IInv, TypeOK, JobsOK
<1>2. k \in DOMAIN tasks /\ tasks[k] \in Task
  BY <1>1 DEF JobOK, IInv, TypeOK
<1>3. path \in Path /\ path.tenant = tasks[k].tenant
  BY <1>2 DEF BulkPath, Path, Task
<1>4. /\ next \in Job /\ next.task = k /\ next.attempt = job.attempt /\ next.at = "uploaded"
      /\ next.lines = job.lines /\ next.path = {path} /\ next.result = job.result
  BY <1>1, <1>3 DEF Job
<1>5. /\ DOMAIN objects' = DOMAIN objects \union {path} /\ objects'[path] = job.lines
      /\ \A p \in DOMAIN objects : p # path => objects'[p] = objects[p]
      /\ objects' \in [DOMAIN objects' -> SUBSET Line]
  BY <1>1, <1>3 DEF With, IInv, TypeOK, Job
<1>6. RowsKept /\ TasksKept
  BY <1>1, <1>5 DEF RowsKept, TasksKept
<1>7. TypeOK'
  <2>1. worker' \in [Workers -> Job \union {Idle}]
    BY <1>1, <1>4 DEF IInv, TypeOK, Work
  <2>2. DOMAIN objects' \subseteq Path
    BY <1>3, <1>5 DEF IInv, TypeOK
  <2> QED BY <1>1, <1>5, <2>1, <2>2 DEF IInv, TypeOK
<1>8. LogsOK' /\ RequestsOK'
  BY <1>1, <1>6, Beside
<1>9. Recorded'
  <2>1. RecordedFilesAreStored'
    BY <1>1, <1>5 DEF IInv, Recorded, RecordedFilesAreStored
  <2>2. OnRecord(path.tenant, job.lines)
    BY <1>1, <1>3 DEF JobOK
  <2>3. ExportsAreOnRecord'
    BY <1>1, <1>5, <2>2 DEF IInv, Recorded, ExportsAreOnRecord, OnRecord, LogLine
  <2> QED BY <2>1, <2>3 DEF Recorded
<1>10. JobsOK'
  <2>1. OnRecord(tasks[k].tenant, job.lines)'
    BY <1>1 DEF JobOK, OnRecord
  <2>2. job.result # "SUCCESS"
    BY <1>1 DEF JobOK
  <2>3. JobOK(next)'
    BY <1>1, <1>2, <1>3, <1>4, <1>5, <2>1, <2>2 DEF JobOK
  <2> QED BY <1>1, <1>6, <2>3, OneWorker DEF IInv
<1>11. TasksOK'
  BY <1>1, <1>6, TasksStay DEF IInv
<1>12. DeliveriesOK' /\ OnceOK'
  BY <1>1, <1>4, SameDelivery DEF Ending
<1> QED BY <1>7, <1>8, <1>9, <1>10, <1>11, <1>12 DEF IInv

\* A file is recorded under the number of its delivery, which nothing else has.
LEMMA RecordKept ==
  ASSUME IInv, NEW w \in Workers, Record(w)
  PROVE  IInv'
<1> PICK job : job = worker[w]
  OBVIOUS
<1> PICK k : k = job.task
  OBVIOUS
<1> PICK next : next = [job EXCEPT !.at = "ended", !.result = "SUCCESS"]
  OBVIOUS
<1>1. /\ worker[w] # Idle /\ job \in Job /\ JobOK(job) /\ job.at = "uploaded" /\ Work(w, next)
      /\ UNCHANGED <<logs, audited, objects>> /\ UNCHANGED <<tasks, queue, asked, req>>
  BY DEF Record, Running, IInv, TypeOK, JobsOK
<1>2. k \in DOMAIN tasks /\ k \in Tasks /\ tasks[k] \in Task
  BY <1>1 DEF JobOK, IInv, TypeOK
<1>3. PICK path \in job.path :
        IF job.lines # {}
          THEN /\ files' = files \union {BulkFileOf(w, path)}
               /\ snapshots' = snapshots \union {[tenant |-> tasks[k].tenant, lines |-> job.lines]}
          ELSE UNCHANGED <<files, snapshots>>
  BY DEF Record, TaskOf
<1> PICK file : file = BulkFileOf(w, path)
  OBVIOUS
<1> PICK snapshot : snapshot = [tenant |-> tasks[k].tenant, lines |-> job.lines]
  OBVIOUS
<1>4. /\ file = [tenant |-> tasks[k].tenant, path |-> path, lines |-> job.lines,
                 task |-> k, attempt |-> job.attempt]
      /\ files \subseteq files' /\ snapshots \subseteq snapshots'
      /\ \A f \in files' \ files : f = file /\ snapshot \in snapshots' /\ job.lines # {}
      /\ \A s \in snapshots' \ snapshots : s = snapshot
      /\ job.lines # {} => file \in files'
  BY <1>3 DEF BulkFileOf, TaskOf
<1>5. path \in DOMAIN objects /\ path \in Path /\ path.tenant = tasks[k].tenant
      /\ \A p \in job.path : p = path
  BY <1>1, <1>3 DEF JobOK, Job
<1>6. /\ next \in Job /\ next.task = k /\ next.attempt = job.attempt /\ next.at = "ended"
      /\ next.lines = job.lines /\ next.path = job.path /\ next.result = "SUCCESS"
  BY <1>1 DEF Job
<1>7. RowsKept /\ TasksKept
  BY <1>1, <1>4 DEF RowsKept, TasksKept
<1>8. TypeOK'
  <2>1. file \in File /\ snapshot \in Snapshot
    <3>1. job.attempt \in 0..(MaxReturned + 1)
      BY <1>1, BoundAssumption DEF Job
    <3> QED BY <1>1, <1>2, <1>4, <1>5, <3>1 DEF File, Snapshot, Task, Job
  <2>2. files' \subseteq File /\ snapshots' \subseteq Snapshot
    BY <1>4, <2>1 DEF IInv, TypeOK
  <2>3. worker' \in [Workers -> Job \union {Idle}]
    BY <1>1, <1>6 DEF IInv, TypeOK, Work
  <2> QED BY <1>1, <2>2, <2>3 DEF IInv, TypeOK
<1>9. LogsOK' /\ RequestsOK'
  BY <1>1, <1>7, Beside
<1>10. Recorded'
  <2>1. RecordedFilesAreStored'
    <3>1. RecordedFilesAreStored
      BY DEF IInv, Recorded
    <3>2. ASSUME NEW f \in files' \ files
          PROVE  /\ f.path \in DOMAIN objects /\ f.path.tenant = f.tenant
                 /\ [tenant |-> f.tenant, lines |-> f.lines] \in snapshots'
      <4>1. f = file /\ snapshot \in snapshots'
        BY <1>4
      <4>2. file.path = path /\ file.tenant = tasks[k].tenant /\ file.lines = job.lines
        BY <1>4
      <4> QED BY <1>5, <4>1, <4>2
    <3> QED BY <1>1, <1>4, <3>1, <3>2 DEF RecordedFilesAreStored
  <2>2. OnRecord(snapshot.tenant, snapshot.lines)
    BY <1>1 DEF JobOK
  <2>3. ExportsAreOnRecord'
    BY <1>1, <1>4, <2>2 DEF IInv, Recorded, ExportsAreOnRecord, OnRecord, LogLine
  <2> QED BY <2>1, <2>3 DEF Recorded
<1>11. JobsOK'
  <2>1. Complete(k, path, job.lines)'
    <3>1. job.lines # {} => file \in files' /\ file.task = k /\ file.path = path /\ file.lines = job.lines
      BY <1>4
    <3> QED BY <3>1 DEF Complete
  <2>2. OnRecord(tasks[k].tenant, job.lines)'
    BY <1>1 DEF JobOK, OnRecord
  <2>3. JobOK(next)'
    BY <1>1, <1>2, <1>3, <1>5, <1>6, <2>1, <2>2 DEF JobOK
  <2> QED BY <1>1, <1>7, <2>3, OneWorker DEF IInv
<1>12. TasksOK'
  BY <1>1, <1>7, TasksStay DEF IInv
<1>13. worker'[w] = next /\ \A v \in Workers : v # w => worker'[v] = worker[v]
  BY <1>1 DEF Work, IInv, TypeOK
<1>14. \A f \in files' \ files : f.task = k /\ f.attempt = job.attempt
  BY <1>4
<1>15. DeliveriesOK'
  <2>1. DeliveriesOK /\ tasks' = tasks /\ queue' = queue /\ job.attempt <= tasks[k].attempt
    BY <1>1 DEF IInv, DeliveriesOK
  <2> QED BY <1>2, <1>6, <1>13, <1>14, <2>1 DEF DeliveriesOK
<1>16. OnceOK'
  <2>1. OnceOK /\ \A f \in files : ~(f.task = k /\ f.attempt = job.attempt)
    BY <1>1 DEF IInv, OnceOK, Ending
  <2>2. \A v \in Workers : v # w /\ worker[v] # Idle /\ worker[v].task = k =>
          worker[v].attempt # job.attempt
    BY <1>1, <2>1 DEF OnceOK
  <2>3. \A v, u \in Workers :
          v # u /\ worker'[v] # Idle /\ worker'[u] # Idle /\ worker'[v].task = worker'[u].task =>
            worker'[v].attempt # worker'[u].attempt
    <3> SUFFICES ASSUME NEW v \in Workers, NEW u \in Workers, v # u,
                        worker'[v] # Idle, worker'[u] # Idle, worker'[v].task = worker'[u].task
                 PROVE  worker'[v].attempt # worker'[u].attempt
      OBVIOUS
    <3>1. CASE v = w
      <4>1. worker'[v] = next /\ worker'[u] = worker[u] /\ u # w
        BY <1>13, <3>1
      <4>2. worker[u] # Idle /\ worker[u].task = k
        BY <1>6, <4>1
      <4>3. worker[u].attempt # job.attempt
        BY <2>2, <4>1, <4>2
      <4> QED BY <1>6, <4>1, <4>3
    <3>2. CASE u = w
      <4>1. worker'[u] = next /\ worker'[v] = worker[v] /\ v # w
        BY <1>13, <3>2
      <4>2. worker[v] # Idle /\ worker[v].task = k
        BY <1>6, <4>1
      <4>3. worker[v].attempt # job.attempt
        BY <2>2, <4>1, <4>2
      <4> QED BY <1>6, <4>1, <4>3
    <3>3. CASE v # w /\ u # w
      BY <1>13, <2>1, <3>3 DEF OnceOK
    <3> QED BY <3>1, <3>2, <3>3
  <2>4. \A v \in Workers, f \in files' :
          worker'[v] # Idle /\ worker'[v].at \notin Ending =>
            ~(f.task = worker'[v].task /\ f.attempt = worker'[v].attempt)
    <3> SUFFICES ASSUME NEW v \in Workers, NEW f \in files',
                        worker'[v] # Idle, worker'[v].at \notin Ending
                 PROVE  ~(f.task = worker'[v].task /\ f.attempt = worker'[v].attempt)
      OBVIOUS
    <3>1. v # w /\ worker'[v] = worker[v]
      BY <1>6, <1>13 DEF Ending
    <3>2. CASE f \in files
      BY <2>1, <3>1, <3>2 DEF OnceOK
    <3>3. CASE f \notin files
      BY <1>14, <2>2, <3>1, <3>3
    <3> QED BY <3>2, <3>3
  <2>5. \A f, g \in files' :
          f.task # NoTask /\ g.task = f.task /\ g.attempt = f.attempt => g = f
    BY <1>4, <1>14, <2>1 DEF OnceOK
  <2> QED BY <2>3, <2>4, <2>5 DEF OnceOK
<1> QED BY <1>8, <1>9, <1>10, <1>11, <1>12, <1>15, <1>16 DEF IInv

\* The first result with a link stays, and it is that of a recorded file.
LEMMA ReportKept ==
  ASSUME IInv, NEW w \in Workers, Report(w)
  PROVE  IInv'
<1> PICK job : job = worker[w]
  OBVIOUS
<1> PICK k : k = job.task
  OBVIOUS
<1> PICK url : url = IF job.result = "SUCCESS" THEN job.path ELSE {}
  OBVIOUS
<1> PICK next : next = [job EXCEPT !.at = "reported"]
  OBVIOUS
<1> PICK task : task = IF tasks[k].state = "SUCCESS" THEN tasks[k]
                       ELSE [tasks[k] EXCEPT !.state = "SUCCESS", !.url = url, !.shown = job.lines]
  OBVIOUS
<1>1. /\ worker[w] # Idle /\ job \in Job /\ JobOK(job) /\ job.at = "ended" /\ Work(w, next)
      /\ IF tasks[k].state = "SUCCESS" THEN UNCHANGED tasks
         ELSE tasks' = [tasks EXCEPT ![k].state = "SUCCESS", ![k].url = url, ![k].shown = job.lines]
      /\ UNCHANGED <<logs, audited, objects, snapshots, files>> /\ UNCHANGED <<queue, asked, req>>
  BY DEF Report, TaskOf, Running, stores, IInv, TypeOK, JobsOK
<1>2. k \in DOMAIN tasks /\ tasks[k] \in Task
  BY <1>1 DEF JobOK, IInv, TypeOK
<1>3. /\ DOMAIN tasks' = DOMAIN tasks /\ tasks'[k] = task
      /\ \A i \in DOMAIN tasks : i # k => tasks'[i] = tasks[i]
      /\ tasks' = [i \in DOMAIN tasks' |-> tasks'[i]]
  <2>1. tasks = [i \in DOMAIN tasks |-> tasks[i]]
    BY DEF IInv, TypeOK
  <2>2. CASE tasks[k].state = "SUCCESS"
    BY <1>1, <2>1, <2>2
  <2>3. CASE tasks[k].state # "SUCCESS"
    BY <1>1, <1>2, <2>3
  <2> QED BY <2>2, <2>3
<1>4. /\ task.attempt = tasks[k].attempt /\ task.returned = tasks[k].returned
      /\ task.tenant = tasks[k].tenant /\ task \in Task
  <2>1. url \in SUBSET Path /\ job.lines \in SUBSET Line
    BY <1>1 DEF Job
  <2> QED BY <1>2, <2>1 DEF Task
<1>5. tasks[k].state # "SUCCESS" => task.state = "SUCCESS" /\ task.url = url /\ task.shown = job.lines
  BY <1>2 DEF Task
<1>6. /\ next \in Job /\ next.task = k /\ next.attempt = job.attempt /\ next.at = "reported"
      /\ next.lines = job.lines /\ next.path = job.path /\ next.result = job.result
  BY <1>1 DEF Job
<1>7. RowsKept /\ TasksKept
  BY <1>1, <1>3, <1>4 DEF RowsKept, TasksKept
<1>8. TypeOK'
  <2>1. tasks' \in [DOMAIN tasks' -> Task]
    BY <1>3, <1>4 DEF IInv, TypeOK
  <2>2. worker' \in [Workers -> Job \union {Idle}]
    BY <1>1, <1>6 DEF IInv, TypeOK, Work
  <2>3. DOMAIN tasks' \subseteq Tasks /\ queue' \subseteq DOMAIN tasks'
    BY <1>1, <1>3 DEF IInv, TypeOK
  <2> QED BY <1>1, <2>1, <2>2, <2>3 DEF IInv, TypeOK
<1>9. LogsOK' /\ RequestsOK' /\ Recorded'
  BY <1>1, <1>7, Beside
<1>10. JobsOK'
  <2>1. JobOK(next)
    BY <1>1, <1>6 DEF JobOK
  <2>2. JobOK(next)'
    BY <1>7, <2>1, JobKept
  <2> QED BY <1>1, <1>7, <2>2, OneWorker DEF IInv
<1>11. TasksOK'
  <2>1. CASE tasks[k].state = "SUCCESS"
    BY <1>1, <1>7, <2>1, TasksStay DEF IInv
  <2>2. CASE tasks[k].state # "SUCCESS"
    <3> SUFFICES ASSUME NEW i \in DOMAIN tasks, tasks'[i].state = "SUCCESS", NEW p \in tasks'[i].url
                 PROVE  /\ p \in DOMAIN objects' /\ p.tenant = tasks'[i].tenant
                        /\ Complete(i, p, tasks[i].shown)'
      BY <1>3 DEF TasksOK, TaskOK
    <3>1. CASE i = k
      <4>1. p \in job.path /\ job.result = "SUCCESS" /\ tasks'[i].shown = job.lines
        BY <1>3, <1>5, <2>2, <3>1
      <4>2. p \in DOMAIN objects /\ p.tenant = tasks[k].tenant /\ Complete(k, p, job.lines)
        BY <1>1, <4>1 DEF JobOK
      <4>3. /\ objects' = objects /\ files' = files
            /\ tasks'[i].tenant = tasks[k].tenant /\ tasks'[i].shown = job.lines
        BY <1>1, <1>3, <1>4, <3>1, <4>1
      <4>4. Complete(i, p, tasks[i].shown)' <=> Complete(k, p, job.lines)
        BY <3>1, <4>3 DEF Complete
      <4> QED BY <4>2, <4>3, <4>4
    <3>2. CASE i # k
      <4>1. tasks'[i] = tasks[i] /\ TaskOK(i)
        BY <1>3, <3>2 DEF IInv, TasksOK
      <4> QED BY <1>1, <4>1 DEF TaskOK, Complete
    <3> QED BY <3>1, <3>2
  <2> QED BY <2>1, <2>2
<1>12. DeliveriesOK' /\ OnceOK'
  <2>1. \A i \in DOMAIN tasks : /\ tasks'[i].attempt = tasks[i].attempt
                                /\ tasks'[i].returned = tasks[i].returned
    BY <1>3, <1>4
  <2>2. next \in Job /\ next.task = worker[w].task /\ next.attempt = worker[w].attempt
        /\ next.at \in Ending
    BY <1>6 DEF Ending
  <2> QED BY <1>1, <1>3, <2>1, <2>2, SameDelivery
<1> QED BY <1>8, <1>9, <1>10, <1>11, <1>12 DEF IInv

\* What the death of one process leaves.
LEMMA LoseProcessKept ==
  ASSUME IInv, NEW w \in Workers, LoseProcess(w)
  PROVE  IInv'
<1> PICK k : k = worker[w].task
  OBVIOUS
<1> PICK task : task = [tasks[k] EXCEPT !.state = IF @ = "SUCCESS" THEN @ ELSE "FAILURE"]
  OBVIOUS
<1>1. /\ worker[w] # Idle /\ JobOK(worker[w]) /\ Work(w, Idle)
      /\ tasks' = [tasks EXCEPT ![k].state = IF @ = "SUCCESS" THEN @ ELSE "FAILURE"]
      /\ UNCHANGED <<logs, audited, objects, snapshots, files>> /\ UNCHANGED <<queue, asked, req>>
  BY DEF LoseProcess, stores, IInv, JobsOK
<1>2. k \in DOMAIN tasks /\ tasks[k] \in Task
  BY <1>1 DEF JobOK, IInv, TypeOK
<1>3. /\ DOMAIN tasks' = DOMAIN tasks /\ tasks'[k] = task
      /\ \A i \in DOMAIN tasks : i # k => tasks'[i] = tasks[i]
      /\ tasks' = [i \in DOMAIN tasks' |-> tasks'[i]]
  BY <1>1, <1>2
<1>4. /\ task.attempt = tasks[k].attempt /\ task.returned = tasks[k].returned
      /\ task.tenant = tasks[k].tenant /\ task.url = tasks[k].url /\ task.shown = tasks[k].shown
      /\ task.state \in {tasks[k].state, "FAILURE"} /\ task \in Task
  BY <1>2 DEF Task
<1>5. RowsKept /\ TasksKept
  BY <1>1, <1>3, <1>4 DEF RowsKept, TasksKept
<1>6. TypeOK'
  <2>1. tasks' \in [DOMAIN tasks' -> Task]
    BY <1>3, <1>4 DEF IInv, TypeOK
  <2>2. worker' \in [Workers -> Job \union {Idle}]
    BY <1>1 DEF IInv, TypeOK, Work
  <2> QED BY <1>1, <1>3, <2>1, <2>2 DEF IInv, TypeOK
<1>7. LogsOK' /\ RequestsOK' /\ Recorded'
  BY <1>1, <1>5, Beside
<1>8. JobsOK' /\ TasksOK'
  BY <1>1, <1>3, <1>4, <1>5, OneWorker, TasksStay DEF IInv
<1>9. DeliveriesOK' /\ OnceOK'
  BY <1>1, <1>3, <1>4, SameDelivery
<1> QED BY <1>6, <1>7, <1>8, <1>9 DEF IInv

\* A message taken back allows one delivery more, whether the process that had
\* it goes on or dies.
LEMMA ReturnKept ==
  ASSUME IInv, NEW w \in Workers, worker[w] # Idle, Return(worker[w].task),
         worker' = worker \/ Work(w, Idle), UNCHANGED <<stores, asked, req>>
  PROVE  IInv'
<1> PICK k : k = worker[w].task
  OBVIOUS
<1> PICK task : task = [tasks[k] EXCEPT !.returned = @ + 1]
  OBVIOUS
<1>1. /\ JobOK(worker[w]) /\ tasks[k].returned < MaxReturned
      /\ tasks' = [tasks EXCEPT ![k].returned = @ + 1] /\ queue' = queue \union {k}
      /\ UNCHANGED <<logs, audited, objects, snapshots, files>> /\ UNCHANGED <<asked, req>>
  BY DEF Return, stores, IInv, JobsOK
<1>2. k \in DOMAIN tasks /\ tasks[k] \in Task
  BY <1>1 DEF JobOK, IInv, TypeOK
<1>3. tasks[k].attempt \in Nat /\ tasks[k].returned \in Nat
  BY <1>2, BoundAssumption DEF Task
<1>4. /\ DOMAIN tasks' = DOMAIN tasks /\ tasks'[k] = task
      /\ \A i \in DOMAIN tasks : i # k => tasks'[i] = tasks[i]
      /\ tasks' = [i \in DOMAIN tasks' |-> tasks'[i]]
  BY <1>1, <1>2
<1>5. /\ task.attempt = tasks[k].attempt /\ task.returned = tasks[k].returned + 1
      /\ task.tenant = tasks[k].tenant /\ task.url = tasks[k].url /\ task.shown = tasks[k].shown
      /\ task.state = tasks[k].state
  BY <1>2 DEF Task
<1>6. task \in Task
  <2>1. tasks[k].returned + 1 \in 0..MaxReturned
    BY <1>1, <1>3, BoundAssumption
  <2> QED BY <1>2, <2>1 DEF Task
<1>7. /\ worker' \in [Workers -> Job \union {Idle}]
      /\ \A v \in Workers : worker'[v] # Idle => worker'[v] = worker[v]
  BY DEF IInv, TypeOK, Work
<1>8. RowsKept /\ TasksKept
  BY <1>1, <1>4, <1>5 DEF RowsKept, TasksKept
<1>9. TypeOK'
  <2>1. tasks' \in [DOMAIN tasks' -> Task]
    BY <1>4, <1>6 DEF IInv, TypeOK
  <2>2. DOMAIN tasks' \subseteq Tasks /\ queue' \subseteq DOMAIN tasks'
    BY <1>1, <1>2, <1>4 DEF IInv, TypeOK
  <2> QED BY <1>1, <1>7, <2>1, <2>2 DEF IInv, TypeOK
<1>10. LogsOK' /\ RequestsOK' /\ Recorded'
  BY <1>1, <1>8, Beside
<1>11. JobsOK' /\ TasksOK'
  BY <1>4, <1>5, <1>8, SameJobs, OneWorker, TasksStay DEF IInv
<1>12. DeliveriesOK'
  <2>1. \A i \in DOMAIN tasks :
          tasks[i].attempt <= IF i \in queue THEN tasks[i].returned ELSE tasks[i].returned + 1
    BY DEF IInv, DeliveriesOK
  <2>2. tasks[k].attempt <= tasks[k].returned + 1
    BY <1>2, <1>3, <2>1
  <2>3. \A i \in DOMAIN tasks' :
          tasks'[i].attempt <= IF i \in queue' THEN tasks'[i].returned ELSE tasks'[i].returned + 1
    BY <1>1, <1>4, <1>5, <2>1, <2>2
  <2>4. \A i \in DOMAIN tasks : tasks'[i].attempt = tasks[i].attempt
    BY <1>4, <1>5
  <2>5. \A v \in Workers : worker[v] # Idle => worker[v].task \in DOMAIN tasks
    BY DEF IInv, JobsOK, JobOK
  <2> QED BY <1>1, <1>4, <1>7, <2>3, <2>4, <2>5 DEF IInv, DeliveriesOK
<1>13. OnceOK'
  BY <1>1, <1>7 DEF IInv, OnceOK
<1> QED BY <1>9, <1>10, <1>11, <1>12, <1>13 DEF IInv

-----------------------------------------------------------------------------
LEMMA Invariant == Spec => []IInv
<1>1. IInv /\ [Next]_vars => IInv'
  <2> SUFFICES ASSUME IInv, [Next]_vars PROVE IInv'
    OBVIOUS
  <2>1. ASSUME NEW r \in Requests, Ask(r) PROVE IInv'
    <3>1. asked' \in 0..MaxAsked
      BY <2>1, BoundAssumption DEF Ask, IInv, TypeOK
    <3>2. PICK tenant \in Tenants :
            \/ \E l \in LogIds :
                 \/ \E content \in Contents : \/ CreateLog(r, tenant, l, content)
                                              \/ UpdateLog(r, tenant, l, content)
                 \/ DeleteLog(r, tenant, l)
                 \/ \E format \in Format : ExportLog(r, tenant, l, format)
            \/ \E units \in SUBSET Units, format \in Format :
                 ExportSalary(r, tenant, units, format)
            \/ \E k \in Tasks, kind \in {"consultation", "work_log"}, ids \in SUBSET LogIds,
                  format \in Format : Delay(r, k, kind, tenant, ids, format)
      BY <2>1 DEF Ask
    <3>3. ASSUME NEW l \in LogIds, NEW content \in Contents,
                 CreateLog(r, tenant, l, content) \/ UpdateLog(r, tenant, l, content)
          PROVE  IInv'
      BY <3>1, <3>3, LogSteps
    <3>4. ASSUME NEW l \in LogIds, DeleteLog(r, tenant, l) PROVE IInv'
      <4>1. PICK content \in Contents : TRUE
        BY <3>4 DEF DeleteLog, LogFound, IInv, TypeOK, Log
      <4> QED BY <3>1, <3>4, <4>1, LogSteps
    <3>5. ASSUME NEW format \in Format,
                 \/ \E l \in LogIds : ExportLog(r, tenant, l, format)
                 \/ \E units \in SUBSET Units : ExportSalary(r, tenant, units, format)
          PROVE  IInv'
      BY <3>1, <3>5, ExportSteps
    <3>6. ASSUME NEW k \in Tasks, NEW kind \in {"consultation", "work_log"},
                 NEW ids \in SUBSET LogIds, NEW format \in Format,
                 Delay(r, k, kind, tenant, ids, format)
          PROVE  IInv'
      BY <3>1, <3>6, DelayKept
    <3> QED BY <3>2, <3>3, <3>4, <3>5, <3>6
  <2>2. ASSUME NEW r \in Requests, Proceed(r) PROVE IInv'
    BY <2>2, CommitUpdateKept, CommitDeleteKept, UploadKept, NothingStored, CommitExportKept
       DEF Proceed
  <2>3. ASSUME NEW w \in Workers, Run(w) PROVE IInv'
    BY <2>3, TakeKept, JobSteps, UploadBulkKept, RecordKept, ReportKept DEF Run
  <2>4. CASE UNCHANGED vars
    <3>1. /\ UNCHANGED <<stores, broker>> /\ UNCHANGED <<objects, snapshots, files>>
          /\ UNCHANGED req /\ UNCHANGED broker /\ RowsKept
      BY <2>4 DEF vars, stores, broker, RowsKept
    <3>2. TypeOK' /\ LogsOK' /\ RequestsOK'
      BY <2>4, <3>1, SameRequests DEF vars, IInv, TypeOK, LogsOK
    <3> QED BY <3>1, <3>2, NoFileTouched
  <2>5. ASSUME NEW w \in Workers, Redeliver(w) \/ Crash(w) PROVE IInv'
    BY <2>5, ReturnKept DEF Redeliver, Crash
  <2> QED BY <2>1, <2>2, <2>3, <2>4, <2>5, LoseProcessKept DEF Next
<1> QED BY Starts, <1>1, PTL DEF Spec

\* Rows, files, tasks and requests in flight have the shape of their stores.
THEOREM TypeCorrect == Spec => []TypeOK
<1>1. IInv => TypeOK
  BY DEF IInv
<1> QED BY Invariant, <1>1, PTL

\* Although no transaction spans both, a row of generated_files names a file that
\* is in the object store, and its lines are in document_snapshots.
THEOREM RecordedIsStored == Spec => []RecordedFilesAreStored
<1>1. IInv => RecordedFilesAreStored
  BY DEF IInv, Recorded
<1> QED BY Invariant, <1>1, PTL

\* What is exported of a log was written to it on record, in the same tenant.
THEOREM ExportedIsOnRecord == Spec => []ExportsAreOnRecord
<1>1. IInv => ExportsAreOnRecord
  BY DEF IInv, Recorded
<1> QED BY Invariant, <1>1, PTL

\* The link of a task with status SUCCESS leads to a stored file of its tenant
\* with its row on record, whichever process reported it and whatever the other
\* deliveries of the task did before or do after.
THEOREM SuccessMeansComplete == Spec => []SuccessIsComplete
<1>1. ASSUME TasksOK, NEW k \in DOMAIN tasks, Status(tasks[k]) = "SUCCESS"
      PROVE  \E p \in tasks[k].url :
               /\ p \in DOMAIN objects /\ p.tenant = tasks[k].tenant
               /\ Complete(k, p, tasks[k].shown)
  <2>1. tasks[k].state = "SUCCESS" /\ tasks[k].url # {}
    BY <1>1 DEF Status
  <2> QED BY <1>1, <2>1 DEF TasksOK, TaskOK
<1>2. IInv => SuccessIsComplete
  BY <1>1 DEF IInv, SuccessIsComplete, Complete
<1> QED BY Invariant, <1>2, PTL

\* However often the message of a task is delivered, and however many processes
\* run it at the same time, each delivery records it at most once.
THEOREM OncePerDelivery == Spec => []RecordedOncePerDelivery
<1>1. ASSUME IInv, NEW f \in files, f.task # NoTask
      PROVE  /\ f.attempt <= 1 + tasks[f.task].returned
             /\ \A g \in files : g.task = f.task /\ g.attempt = f.attempt => g = f
  <2>1. f.task \in DOMAIN tasks /\ f.attempt <= tasks[f.task].attempt
    BY <1>1 DEF IInv, DeliveriesOK
  <2>2. tasks[f.task] \in Task /\ f.attempt \in Int
    BY <1>1, <2>1 DEF IInv, TypeOK, File
  <2>3. /\ tasks[f.task].attempt \in Int /\ tasks[f.task].returned \in Int
        /\ tasks[f.task].attempt <= tasks[f.task].returned + 1
    <3>1. tasks[f.task].attempt \in Int /\ tasks[f.task].returned \in Int
      BY <2>2 DEF Task
    <3>2. tasks[f.task].attempt <=
            IF f.task \in queue THEN tasks[f.task].returned ELSE tasks[f.task].returned + 1
      BY <1>1, <2>1 DEF IInv, DeliveriesOK
    <3> QED BY <3>1, <3>2
  <2>4. f.attempt <= 1 + tasks[f.task].returned
    BY <2>1, <2>2, <2>3
  <2> QED BY <1>1, <2>4 DEF IInv, OnceOK
<1>2. IInv => RecordedOncePerDelivery
  BY <1>1 DEF RecordedOncePerDelivery
<1> QED BY Invariant, <1>2, PTL
================================================================================
