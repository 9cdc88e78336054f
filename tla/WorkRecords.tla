----------------------------- MODULE WorkRecords -----------------------------
(***************************************************************************)
(* The monthly work record service: services/work_record_service.py behind *)
(* routers/work_records.py, with the rows of monthly_work_records, the     *)
(* soft deletion of seniors that hides rows from the payroll, and the      *)
(* audit log written in the same transaction.                              *)
(*                                                                         *)
(* A request is two steps.  Its first step is the SELECT of the handler    *)
(* and the checks on what it returned: a failed check answers 4xx and      *)
(* changes nothing.  Its second step is the flush and the commit: the ORM  *)
(* writes the columns that the handler set to something else than what was *)
(* SELECTed, whatever the row holds by then, and inserts the audit row.    *)
(* Between the two any other request may commit: no query locks the row    *)
(* and no column is a version.  Flush and commit are one step because the  *)
(* row lock of the flush makes other writers of that row wait and READ     *)
(* COMMITTED shows nobody the uncommitted row.                             *)
(***************************************************************************)
EXTENDS Integers, Sequences, FiniteSets

CONSTANTS
  Tenants, Users, Seniors, RecordIds,
  Months,        \* the (year, month) pairs of the records
  Requests,      \* slots for requests in flight at the same time
  UserTenant,    \* tenant_id of a user's token
  SeniorTenant,  \* tenant_id of a senior
  Editors,       \* users whose role has EDIT_WORK_RECORD
  Approvers,     \* users whose role has APPROVE_RECORD
  SeniorKeepers, \* users whose role has DELETE_SENIOR
  Hours,         \* worked_hours a client may send, in tenths of an hour
  Amounts,       \* amount_paid a client may send
  ReasonSent,    \* whether a client may send an overtime_reason: subset of BOOLEAN
  NoUser,        \* approved_by of a row nobody approved
  NoRequest,     \* an empty slot
  MaxTrail       \* bound: number of commits

VARIABLES
  records,       \* monthly_work_records: id -> row, for the ids ever inserted
  departed,      \* seniors with deleted_at set
  req,           \* slot -> the request between its SELECT and its commit
  trail          \* audit_logs, in commit order

vars == <<records, departed, req, trail>>

MONTHLY_MAX_HARD == 430
MONTHLY_MAX_SOFT == 420
CHECK_MAX_HOURS  == 420   \* CHECK (worked_hours <= 42) of the table

Status == {"DRAFT", "SUBMITTED", "APPROVED", "REJECTED"}
RowOps == {"update", "submit", "approve", "reject", "delete"}

\* overtime and reject are the presence of overtime_reason and reject_reason.
Row == [tenant : Tenants, senior : Seniors, month : Months,
        hours : Hours, amount : Amounts, overtime : BOOLEAN, status : Status,
        approved_by : Users \union {NoUser}, reject : BOOLEAN, deleted : BOOLEAN]

\* found is the row as SELECTed, set the ORM object after the handler's
\* assignments.
CreateRequest == [op : {"create"}, user : Users, set : Row]
RowRequest    == [op : RowOps, user : Users, id : RecordIds, found : Row, set : Row]
SeniorRequest == [op : {"delete_senior"}, user : Users, senior : Seniors]
Request       == CreateRequest \union RowRequest \union SeniorRequest

\* id is target_id: of a record, or of a senior when a senior was deleted.
AuditEntry ==
  [op : RowOps \union {"create"}, user : Users, id : RecordIds]
    \union [op : {"delete_senior"}, user : Users, id : Seniors]

ASSUME TenancyAssumption ==
  /\ UserTenant \in [Users -> Tenants]
  /\ SeniorTenant \in [Seniors -> Tenants]
ASSUME RolesAssumption ==
  /\ Editors \subseteq Users
  /\ Approvers \subseteq Users
  /\ SeniorKeepers \subseteq Users
ASSUME IdsAssumption == RecordIds \intersect Seniors = {}
ASSUME NullsAssumption == NoUser \notin Users /\ NoRequest \notin Request
ASSUME DataAssumption ==
  Hours \subseteq Int /\ ReasonSent \subseteq BOOLEAN /\ MaxTrail \in Nat

-----------------------------------------------------------------------------
(* What the database checks and what the ORM writes.                       *)

Live(id) == id \in DOMAIN records /\ ~records[id].deleted

\* Mutant: the index covers drafts only.
SlotTakenByDraft(senior, month) ==
  \E id \in DOMAIN records :
    /\ ~records[id].deleted
    /\ records[id].status = "DRAFT"
    /\ records[id].senior = senior
    /\ records[id].month = month

\* The partial unique index uq_work_record_active would refuse (senior, month).
SlotTaken(senior, month) ==
  \E id \in DOMAIN records :
    /\ ~records[id].deleted
    /\ records[id].senior = senior
    /\ records[id].month = month

WithinCheck(hours) == hours <= CHECK_MAX_HOURS

\* Mutant: the UPDATE carries every column of the ORM object.
WrittenWhole(found, set, stored) == set

\* A column goes into the UPDATE only when the handler changed it.
Written(found, set, stored) == IF set # found THEN set ELSE stored

Flushed(stored, found, set) ==
  [stored EXCEPT
     !.hours       = Written(found.hours, set.hours, @),
     !.amount      = Written(found.amount, set.amount, @),
     !.overtime    = Written(found.overtime, set.overtime, @),
     !.status      = Written(found.status, set.status, @),
     !.approved_by = Written(found.approved_by, set.approved_by, @),
     !.reject      = Written(found.reject, set.reject, @),
     !.deleted     = Written(found.deleted, set.deleted, @)]

-----------------------------------------------------------------------------
Init ==
  /\ records = [id \in {} |-> {}]
  /\ departed = {}
  /\ req = [r \in Requests |-> NoRequest]
  /\ trail = <<>>

(* First steps: SELECT, checks, assignments to the ORM object.             *)

Start(r, q) ==
  /\ req[r] = NoRequest
  /\ req' = [req EXCEPT ![r] = q]
  /\ UNCHANGED <<records, departed, trail>>

\* Mutant: get_work_record without its tenant filter.
FoundAnywhere(u, id) == Live(id)

\* get_work_record: by id and tenant, soft-deleted rows filtered out.
Found(u, id) == Live(id) /\ records[id].tenant = UserTenant[u]

\* The senior as create_work_record and get_senior look it up.
SeniorFound(u, s) == s \notin departed /\ SeniorTenant[s] = UserTenant[u]

HoursAccepted(hours, explained) ==
  /\ hours <= MONTHLY_MAX_HARD
  /\ hours > MONTHLY_MAX_SOFT => explained

Create(r, u, s, m, hours, amount, overtime) ==
  /\ u \in Editors
  /\ SeniorFound(u, s)
  /\ HoursAccepted(hours, overtime)
  /\ Start(r, [op |-> "create", user |-> u,
               set |-> [tenant |-> UserTenant[u], senior |-> s, month |-> m,
                        hours |-> hours, amount |-> amount, overtime |-> overtime,
                        status |-> "DRAFT", approved_by |-> NoUser,
                        reject |-> FALSE, deleted |-> FALSE]])

StartRow(r, op, u, id, set) ==
  Start(r, [op |-> op, user |-> u, id |-> id, found |-> records[id], set |-> set])

\* Mutant: a submitted record can be edited too.
EditAllowedWhilePending(row) == row.status \in {"DRAFT", "SUBMITTED"}

EditAllowed(row) == row.status = "DRAFT"

\* A field the client leaves out is the one it found.
Update(r, u, id, hours, amount, overtime) ==
  /\ u \in Editors
  /\ Found(u, id)
  /\ EditAllowed(records[id])
  /\ HoursAccepted(hours, overtime \/ records[id].overtime)
  /\ StartRow(r, "update", u, id,
              [records[id] EXCEPT !.hours = hours, !.amount = amount, !.overtime = overtime])

Submit(r, u, id) ==
  /\ u \in Editors
  /\ Found(u, id)
  /\ records[id].status = "DRAFT"
  /\ StartRow(r, "submit", u, id, [records[id] EXCEPT !.status = "SUBMITTED"])

\* Mutant: approved_by takes the record's id.
ApproveSwapped(r, u, id) ==
  /\ u \in Approvers
  /\ Found(u, id)
  /\ records[id].status = "SUBMITTED"
  /\ StartRow(r, "approve", u, id,
              [records[id] EXCEPT !.status = "APPROVED", !.approved_by = id])

\* Mutant: a draft can be approved.
ApproveUnsubmitted(r, u, id) ==
  /\ u \in Approvers
  /\ Found(u, id)
  /\ records[id].status \in {"DRAFT", "SUBMITTED"}
  /\ StartRow(r, "approve", u, id,
              [records[id] EXCEPT !.status = "APPROVED", !.approved_by = u])

Approve(r, u, id) ==
  /\ u \in Approvers
  /\ Found(u, id)
  /\ records[id].status = "SUBMITTED"
  /\ StartRow(r, "approve", u, id,
              [records[id] EXCEPT !.status = "APPROVED", !.approved_by = u])

\* Mutant: a rejection stores its reason and not the status.
RejectReasonOnly(r, u, id) ==
  /\ u \in Approvers
  /\ Found(u, id)
  /\ records[id].status = "SUBMITTED"
  /\ StartRow(r, "reject", u, id, [records[id] EXCEPT !.reject = TRUE])

Reject(r, u, id) ==
  /\ u \in Approvers
  /\ Found(u, id)
  /\ records[id].status = "SUBMITTED"
  /\ StartRow(r, "reject", u, id,
              [records[id] EXCEPT !.status = "REJECTED", !.reject = TRUE])

SoftDelete(r, u, id) ==
  /\ u \in Editors
  /\ Found(u, id)
  /\ StartRow(r, "delete", u, id, [records[id] EXCEPT !.deleted = TRUE])

DeleteSenior(r, u, s) ==
  /\ u \in SeniorKeepers
  /\ SeniorFound(u, s)
  /\ Start(r, [op |-> "delete_senior", user |-> u, senior |-> s])

-----------------------------------------------------------------------------
(* Second steps: flush and commit, or a rollback.                          *)

Done(r) == req' = [req EXCEPT ![r] = NoRequest]

Audit(r, id) ==
  /\ Len(trail) < MaxTrail
  /\ trail' = Append(trail, [op |-> req[r].op, user |-> req[r].user, id |-> id])

InsertFits(q) == ~SlotTaken(q.set.senior, q.set.month) /\ WithinCheck(q.set.hours)

CommitCreate(r, id) ==
  /\ req[r] \in CreateRequest
  /\ InsertFits(req[r])
  /\ id \notin DOMAIN records
  /\ records' = [i \in DOMAIN records \union {id} |->
                   IF i = id THEN req[r].set ELSE records[i]]
  /\ Audit(r, id)
  /\ Done(r)
  /\ UNCHANGED departed

\* IntegrityError, whichever constraint raised it: rollback and 409.
RefuseCreate(r) ==
  /\ req[r] \in CreateRequest
  /\ ~InsertFits(req[r])
  /\ Done(r)
  /\ UNCHANGED <<records, departed, trail>>

FlushedRow(q) == Flushed(records[q.id], q.found, q.set)

CommitRow(r) ==
  /\ req[r] \in RowRequest
  /\ WithinCheck(FlushedRow(req[r]).hours)
  /\ records' = [records EXCEPT ![req[r].id] = FlushedRow(req[r])]
  /\ Audit(r, req[r].id)
  /\ Done(r)
  /\ UNCHANGED departed

\* The CHECK fails an UPDATE: nobody catches it, get_db rolls back, 500.
RefuseRow(r) ==
  /\ req[r] \in RowRequest
  /\ ~WithinCheck(FlushedRow(req[r]).hours)
  /\ Done(r)
  /\ UNCHANGED <<records, departed, trail>>

CommitDeleteSenior(r) ==
  /\ req[r] \in SeniorRequest
  /\ departed' = departed \union {req[r].senior}
  /\ Audit(r, req[r].senior)
  /\ Done(r)
  /\ UNCHANGED records

\* The process dies or the connection breaks before the commit.
Abort(r) ==
  /\ req[r] # NoRequest
  /\ Done(r)
  /\ UNCHANGED <<records, departed, trail>>

-----------------------------------------------------------------------------
Ask(r) ==
  \E u \in Users :
    \/ \E s \in Seniors, m \in Months, h \in Hours, a \in Amounts, o \in ReasonSent :
         Create(r, u, s, m, h, a, o)
    \/ \E s \in Seniors : DeleteSenior(r, u, s)
    \/ \E id \in RecordIds :
         \/ \E h \in Hours, a \in Amounts, o \in ReasonSent : Update(r, u, id, h, a, o)
         \/ Submit(r, u, id)
         \/ Approve(r, u, id)
         \/ Reject(r, u, id)
         \/ SoftDelete(r, u, id)

Answer(r) ==
  \/ \E id \in RecordIds : CommitCreate(r, id)
  \/ RefuseCreate(r)
  \/ CommitRow(r)
  \/ RefuseRow(r)
  \/ CommitDeleteSenior(r)
  \/ Abort(r)

Next == \E r \in Requests : Ask(r) \/ Answer(r)

Spec == Init /\ [][Next]_vars
-----------------------------------------------------------------------------
(* Properties.                                                             *)

\* Rows, pending requests and audit entries have the shape of their tables.
TypeOK ==
  /\ DOMAIN records \subseteq RecordIds
  /\ records \in [DOMAIN records -> Row]
  /\ departed \subseteq Seniors
  /\ req \in [Requests -> Request \union {NoRequest}]
  /\ trail \in Seq(AuditEntry)

\* A senior has at most one record of a month that is not deleted, however
\* create, delete and create again interleave: the handler does not look for
\* an existing record, only the partial unique index does.  So a senior is on
\* the salary statement of a month once.
OneLiveRecordPerMonth ==
  \A i, j \in DOMAIN records :
    /\ ~records[i].deleted /\ ~records[j].deleted
    /\ records[i].senior = records[j].senior
    /\ records[i].month = records[j].month
    => i = j

Decided(log, id, op, i, j) ==
  /\ i < j
  /\ log[i].op = "submit" /\ log[i].id = id
  /\ log[j].op = op /\ log[j].id = id

\* Whatever races it went through, a record with an approver was submitted and
\* then approved by that user, who may approve, and one with a reject reason
\* was submitted and then rejected: audit_logs holds both rows, in that order.
DecisionsFollowSubmission ==
  \A id \in DOMAIN records :
    /\ records[id].approved_by # NoUser =>
         /\ records[id].approved_by \in Approvers
         /\ \E i, j \in DOMAIN trail :
              /\ Decided(trail, id, "approve", i, j)
              /\ trail[j].user = records[id].approved_by
    /\ records[id].reject => \E i, j \in DOMAIN trail : Decided(trail, id, "reject", i, j)

StatusAfter(op) ==
  CASE op = "create"  -> "DRAFT"
    [] op = "submit"  -> "SUBMITTED"
    [] op = "approve" -> "APPROVED"
    [] op = "reject"  -> "REJECTED"

LastMove(log, id, status, i) ==
  /\ log[i].id = id
  /\ log[i].op \notin {"update", "delete"}
  /\ status = StatusAfter(log[i].op)
  /\ \A j \in DOMAIN log : j > i /\ log[j].id = id => log[j].op \in {"update", "delete"}

\* The status of a record is the one the last audited transition of it wrote:
\* an update or a delete that SELECTed the row before a transition and commits
\* after it does not put the old status back.
StatusIsTheLastAudited ==
  \A id \in DOMAIN records :
    \E i \in DOMAIN trail : LastMove(trail, id, records[id].status, i)

OwnTarget(e) ==
  IF e.op = "delete_senior"
    THEN UserTenant[e.user] = SeniorTenant[e.id]
    ELSE e.id \in DOMAIN records /\ UserTenant[e.user] = records[e.id].tenant

\* Nobody changes another tenant's record or senior: the user of every audit
\* entry and the record or senior it names are of one tenant, and a record and
\* its senior are.
TenantsStayApart ==
  /\ \A i \in DOMAIN trail : OwnTarget(trail[i])
  /\ \A id \in DOMAIN records :
       SeniorTenant[records[id].senior] = records[id].tenant

\* A row is never hard-deleted, a deleted row stays deleted and an approver is
\* never erased, even by a request that SELECTed the row before the deletion or
\* the approval was committed and writes it after.
NothingIsUndone ==
  [][\A id \in DOMAIN records :
       /\ id \in DOMAIN records'
       /\ records[id].deleted => records'[id].deleted
       /\ records[id].approved_by # NoUser => records'[id].approved_by # NoUser
    ]_records

Pay(row) == <<row.hours, row.amount>>

Book ==
  [id \in DOMAIN records |->
     [status |-> records[id].status, pay |-> Pay(records[id]), live |-> ~records[id].deleted]]

\* Between its SELECT and its commit a request holds the operation it was
\* granted on the row.
Granted ==
  [r \in {p \in Requests : req[p] \in RowRequest} |-> [op |-> req[r].op, id |-> req[r].id]]

Workflow == INSTANCE WorkRecordWorkflow
              WITH Pays <- Hours \X Amounts, book <- Book, granted <- Granted

\* However requests overlap, the service implements the workflow: an operation
\* starts only on a record whose status permits it, and what it writes at its
\* commit is what it is about and no more: a late edit moves no record, a late
\* move edits none, and neither brings a deleted one back.
ImplementsWorkflow == Workflow!Spec

(* What the documentation says and the code does not keep.                 *)

\* routers/work_records.py:110, "DRAFT 상태에서만 수정 가능": hours and amount of
\* a record change only while it is a draft.
OnlyDraftsAreEdited ==
  [][\A id \in DOMAIN records :
       Pay(records'[id]) # Pay(records[id]) => records[id].status = "DRAFT"]_records
=============================================================================
