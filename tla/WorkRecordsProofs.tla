-------------------------- MODULE WorkRecordsProofs --------------------------
(***************************************************************************)
(* Proofs about the monthly work record service, for any number of         *)
(* requests in flight, tenants, users, seniors and records.                *)
(***************************************************************************)
EXTENDS WorkRecords, TLAPS

(***************************************************************************)
(* The inductive invariant.  Its heart is what a request in flight still   *)
(* knows about a row that may have changed since it was SELECTed: only     *)
(* what no other request can undo.                                         *)
(***************************************************************************)
Logged(id, op) == \E i \in DOMAIN trail : trail[i].id = id /\ trail[i].op = op

\* What the handler of each operation assigns.
Assigned(q) ==
  /\ q.op = "update" =>
       /\ q.found.status = "DRAFT"
       /\ q.set.status = q.found.status /\ q.set.approved_by = q.found.approved_by
       /\ q.set.reject = q.found.reject /\ q.set.deleted = q.found.deleted
  /\ q.op = "submit" =>
       /\ q.found.status = "DRAFT"
       /\ q.set = [q.found EXCEPT !.status = "SUBMITTED"]
  /\ q.op = "approve" =>
       /\ q.found.status = "SUBMITTED"
       /\ q.user \in Approvers
       /\ q.set = [q.found EXCEPT !.status = "APPROVED", !.approved_by = q.user]
  /\ q.op = "reject" =>
       /\ q.found.status = "SUBMITTED"
       /\ q.set = [q.found EXCEPT !.status = "REJECTED", !.reject = TRUE]
  /\ q.op = "delete" =>
       q.set = [q.found EXCEPT !.deleted = TRUE]

RowRequestOK(q) ==
  /\ q.id \in DOMAIN records
  /\ records[q.id].tenant = UserTenant[q.user]
  /\ ~q.found.deleted
  /\ Assigned(q)
  /\ q.found.status = "SUBMITTED" => Logged(q.id, "submit")

CreateRequestOK(q) ==
  /\ q.set.status = "DRAFT" /\ q.set.approved_by = NoUser
  /\ ~q.set.reject /\ ~q.set.deleted
  /\ q.set.tenant = UserTenant[q.user]
  /\ q.set.tenant = SeniorTenant[q.set.senior]

SeniorRequestOK(q) == SeniorTenant[q.senior] = UserTenant[q.user]

RequestOK(q) ==
  /\ q \in RowRequest => RowRequestOK(q)
  /\ q \in CreateRequest => CreateRequestOK(q)
  /\ q \in SeniorRequest => SeniorRequestOK(q)

RequestsOK == \A r \in Requests : RequestOK(req[r])

SubmissionsLogged ==
  \A id \in DOMAIN records :
    records[id].status # "DRAFT" => Logged(id, "submit")

IInv == TypeOK /\ RequestsOK /\ SubmissionsLogged

-----------------------------------------------------------------------------
(* Operators.                                                              *)

LEMMA WrittenIn ==
  ASSUME NEW S, NEW found \in S, NEW set \in S, NEW stored \in S
  PROVE  Written(found, set, stored) \in S
BY DEF Written

LEMMA RowColumns ==
  ASSUME NEW row \in Row
  PROVE  /\ row.tenant \in Tenants /\ row.senior \in Seniors /\ row.month \in Months
         /\ row.hours \in Hours /\ row.amount \in Amounts /\ row.overtime \in BOOLEAN
         /\ row.status \in Status /\ row.approved_by \in Users \union {NoUser}
         /\ row.reject \in BOOLEAN /\ row.deleted \in BOOLEAN
BY DEF Row

\* An UPDATE leaves a row of the table, of the same senior and month.
LEMMA FlushedIsRow ==
  ASSUME NEW stored \in Row, NEW found \in Row, NEW set \in Row
  PROVE  /\ Flushed(stored, found, set) \in Row
         /\ Flushed(stored, found, set).tenant = stored.tenant
         /\ Flushed(stored, found, set).senior = stored.senior
         /\ Flushed(stored, found, set).month = stored.month
<1>1. /\ Written(found.hours, set.hours, stored.hours) \in Hours
      /\ Written(found.amount, set.amount, stored.amount) \in Amounts
      /\ Written(found.overtime, set.overtime, stored.overtime) \in BOOLEAN
      /\ Written(found.status, set.status, stored.status) \in Status
      /\ Written(found.approved_by, set.approved_by, stored.approved_by) \in Users \union {NoUser}
      /\ Written(found.reject, set.reject, stored.reject) \in BOOLEAN
      /\ Written(found.deleted, set.deleted, stored.deleted) \in BOOLEAN
  BY RowColumns, WrittenIn
<1> QED
  BY <1>1 DEF Flushed, Row

\* Each column of an UPDATE is the one the handler changed or the stored one.
LEMMA FlushedColumns ==
  ASSUME NEW stored \in Row, NEW found \in Row, NEW set \in Row
  PROVE  LET new == Flushed(stored, found, set)
         IN  /\ new.status = IF set.status # found.status THEN set.status ELSE stored.status
             /\ new.approved_by = IF set.approved_by # found.approved_by
                                   THEN set.approved_by ELSE stored.approved_by
             /\ new.reject = IF set.reject # found.reject THEN set.reject ELSE stored.reject
             /\ new.deleted = IF set.deleted # found.deleted THEN set.deleted ELSE stored.deleted
             /\ new.hours = IF set.hours # found.hours THEN set.hours ELSE stored.hours
             /\ new.amount = IF set.amount # found.amount THEN set.amount ELSE stored.amount
BY DEF Flushed, Written, Row

-----------------------------------------------------------------------------
(* The steps.                                                              *)

LEMMA InitIInv == Init => IInv
BY NullsAssumption DEF Init, RequestOK, IInv, TypeOK, RequestsOK, SubmissionsLogged,
     RowRequest, CreateRequest, SeniorRequest, Request

JustRead(q) == q \in RowRequest => records[q.id] = q.found

\* What a request knows when its SELECT and checks are done.
LEMMA AskStarts ==
  ASSUME IInv, NEW r \in Requests, Ask(r)
  PROVE  \E q \in Request : Start(r, q) /\ RequestOK(q) /\ JustRead(q)
<1> USE DEF IInv
<1> PICK u \in Users :
      \/ \E s \in Seniors, m \in Months, h \in Hours, a \in Amounts, o \in ReasonSent :
           Create(r, u, s, m, h, a, o)
      \/ \E s \in Seniors : DeleteSenior(r, u, s)
      \/ \E id \in RecordIds :
           \/ \E h \in Hours, a \in Amounts, o \in ReasonSent : Update(r, u, id, h, a, o)
           \/ Submit(r, u, id)
           \/ Approve(r, u, id)
           \/ Reject(r, u, id)
           \/ SoftDelete(r, u, id)
  BY DEF Ask
<1>1. CASE \E s \in Seniors, m \in Months, h \in Hours, a \in Amounts, o \in ReasonSent :
             Create(r, u, s, m, h, a, o)
  <2> PICK s \in Seniors, m \in Months, h \in Hours, a \in Amounts, o \in ReasonSent :
        Create(r, u, s, m, h, a, o)
    BY <1>1
  <2> DEFINE set == [tenant |-> UserTenant[u], senior |-> s, month |-> m,
                     hours |-> h, amount |-> a, overtime |-> o,
                     status |-> "DRAFT", approved_by |-> NoUser,
                     reject |-> FALSE, deleted |-> FALSE]
             q == [op |-> "create", user |-> u, set |-> set]
  <2>1. set \in Row
    BY TenancyAssumption, DataAssumption DEF Row, Status
  <2>2. q \in CreateRequest /\ q \notin RowRequest /\ q \notin SeniorRequest
    BY <2>1 DEF CreateRequest, RowRequest, RowOps, SeniorRequest
  <2>3. CreateRequestOK(q)
    BY DEF Create, SeniorFound, CreateRequestOK
  <2> QED
    BY <2>2, <2>3 DEF Create, Request, RequestOK, JustRead
<1>2. CASE \E s \in Seniors : DeleteSenior(r, u, s)
  <2> PICK s \in Seniors : DeleteSenior(r, u, s)
    BY <1>2
  <2> DEFINE q == [op |-> "delete_senior", user |-> u, senior |-> s]
  <2>1. q \in SeniorRequest /\ q \notin RowRequest /\ q \notin CreateRequest
    BY DEF SeniorRequest, RowRequest, RowOps, CreateRequest
  <2>2. SeniorRequestOK(q)
    BY DEF DeleteSenior, SeniorFound, SeniorRequestOK
  <2> QED
    BY <2>1, <2>2 DEF DeleteSenior, Request, RequestOK, JustRead
<1>3. ASSUME NEW id \in RecordIds, NEW op \in RowOps, NEW set \in Row,
             Found(u, id), StartRow(r, op, u, id, set),
             Assigned([op |-> op, user |-> u, id |-> id, found |-> records[id], set |-> set])
      PROVE  \E q \in Request : Start(r, q) /\ RequestOK(q) /\ JustRead(q)
  <2> DEFINE q == [op |-> op, user |-> u, id |-> id, found |-> records[id], set |-> set]
  <2>1. records[id] \in Row
    BY <1>3 DEF TypeOK, Found, Live
  <2>2. q \in RowRequest /\ q \notin CreateRequest /\ q \notin SeniorRequest
    BY <2>1, <1>3 DEF RowRequest, RowOps, CreateRequest, SeniorRequest
  <2>3. RowRequestOK(q)
    BY <1>3 DEF RowRequestOK, Found, Live, SubmissionsLogged
  <2> QED
    BY <2>2, <2>3, <1>3 DEF StartRow, Request, RequestOK, JustRead
<1>4. ASSUME NEW id \in RecordIds, Found(u, id)
      PROVE  records[id] \in Row
  BY <1>4 DEF TypeOK, Found, Live
<1>5. ASSUME NEW id \in RecordIds, NEW h \in Hours, NEW a \in Amounts, NEW o \in ReasonSent,
             Update(r, u, id, h, a, o)
      PROVE  \E q \in Request : Start(r, q) /\ RequestOK(q) /\ JustRead(q)
  <2> DEFINE set == [records[id] EXCEPT !.hours = h, !.amount = a, !.overtime = o]
  <2>1. records[id] \in Row
    BY <1>4, <1>5 DEF Update
  <2>2. set \in Row
    BY <2>1, DataAssumption DEF Row
  <2>3. Assigned([op |-> "update", user |-> u, id |-> id, found |-> records[id], set |-> set])
    BY <2>1, <1>5 DEF Assigned, Row, Update, EditAllowed
  <2> QED
    BY <1>3, <1>5, <2>2, <2>3 DEF Update, RowOps
<1>6. ASSUME NEW id \in RecordIds, Submit(r, u, id)
      PROVE  \E q \in Request : Start(r, q) /\ RequestOK(q) /\ JustRead(q)
  <2> DEFINE set == [records[id] EXCEPT !.status = "SUBMITTED"]
  <2>1. set \in Row
    BY <1>4, <1>6 DEF Submit, Row, Status
  <2>2. Assigned([op |-> "submit", user |-> u, id |-> id, found |-> records[id], set |-> set])
    BY <1>6 DEF Assigned, Submit
  <2> QED
    BY <1>3, <1>6, <2>1, <2>2 DEF Submit, RowOps
<1>7. ASSUME NEW id \in RecordIds, Approve(r, u, id)
      PROVE  \E q \in Request : Start(r, q) /\ RequestOK(q) /\ JustRead(q)
  <2> DEFINE set == [records[id] EXCEPT !.status = "APPROVED", !.approved_by = u]
  <2>1. set \in Row
    BY <1>4, <1>7 DEF Approve, Row, Status
  <2>2. Assigned([op |-> "approve", user |-> u, id |-> id, found |-> records[id], set |-> set])
    BY <1>7 DEF Assigned, Approve
  <2> QED
    BY <1>3, <1>7, <2>1, <2>2 DEF Approve, RowOps
<1>8. ASSUME NEW id \in RecordIds, Reject(r, u, id)
      PROVE  \E q \in Request : Start(r, q) /\ RequestOK(q) /\ JustRead(q)
  <2> DEFINE set == [records[id] EXCEPT !.status = "REJECTED", !.reject = TRUE]
  <2>1. set \in Row
    BY <1>4, <1>8 DEF Reject, Row, Status
  <2>2. Assigned([op |-> "reject", user |-> u, id |-> id, found |-> records[id], set |-> set])
    BY <1>8 DEF Assigned, Reject
  <2> QED
    BY <1>3, <1>8, <2>1, <2>2 DEF Reject, RowOps
<1>9. ASSUME NEW id \in RecordIds, SoftDelete(r, u, id)
      PROVE  \E q \in Request : Start(r, q) /\ RequestOK(q) /\ JustRead(q)
  <2> DEFINE set == [records[id] EXCEPT !.deleted = TRUE]
  <2>1. set \in Row
    BY <1>4, <1>9 DEF SoftDelete, Row
  <2>2. Assigned([op |-> "delete", user |-> u, id |-> id, found |-> records[id], set |-> set])
    BY <1>9 DEF Assigned, SoftDelete
  <2> QED
    BY <1>3, <1>9, <2>1, <2>2 DEF SoftDelete, RowOps
<1> QED
  BY <1>1, <1>2, <1>5, <1>6, <1>7, <1>8, <1>9

LEMMA NoRequestOK == RequestOK(NoRequest)
BY NullsAssumption DEF RequestOK, Request

\* A request stays right about its row while rows keep their tenant and the
\* audit log only grows.
LEMMA RequestOKStable ==
  ASSUME NEW q, RequestOK(q), trail \in Seq(AuditEntry),
         \A id \in DOMAIN records :
           id \in DOMAIN records' /\ records'[id].tenant = records[id].tenant,
         UNCHANGED trail \/ \E e \in AuditEntry : trail' = Append(trail, e)
  PROVE  RequestOK(q)'
<1>1. \A id \in RecordIds : Logged(id, "submit") => Logged(id, "submit")'
  BY DEF Logged
<1>2. CASE q \in RowRequest
  <2>1. q.id \in RecordIds
    BY <1>2 DEF RowRequest
  <2> QED
    BY <1>1, <1>2, <2>1 DEF RequestOK, RowRequestOK, CreateRequestOK, SeniorRequestOK, Assigned
<1>3. CASE q \notin RowRequest
  BY <1>3 DEF RequestOK, CreateRequestOK, SeniorRequestOK
<1> QED
  BY <1>2, <1>3

LEMMA StartIInv ==
  ASSUME IInv, NEW r \in Requests, NEW q \in Request, Start(r, q), RequestOK(q)
  PROVE  IInv'
<1> USE DEF IInv
<1>1. TypeOK'
  BY DEF Start, TypeOK
<1>2. RequestsOK'
  <2>1. \A p : RequestOK(p) => RequestOK(p)'
    BY DEF Start, RequestOK, RowRequestOK, CreateRequestOK, SeniorRequestOK, Assigned, Logged
  <2> QED
    BY <2>1 DEF Start, RequestsOK, TypeOK
<1>3. SubmissionsLogged'
  BY DEF Start, SubmissionsLogged, Logged
<1> QED
  BY <1>1, <1>2, <1>3

\* The steps that end a request without touching the records or the log.
LEMMA EndIInv ==
  ASSUME IInv, NEW r \in Requests, Done(r), UNCHANGED <<records, departed, trail>>
  PROVE  IInv'
<1> USE DEF IInv
<1>1. TypeOK'
  BY DEF Done, TypeOK
<1>2. RequestsOK'
  <2>1. \A p : RequestOK(p) => RequestOK(p)'
    BY DEF RequestOK, RowRequestOK, CreateRequestOK, SeniorRequestOK, Assigned, Logged
  <2> QED
    BY <2>1, NoRequestOK DEF Done, RequestsOK, TypeOK
<1>3. SubmissionsLogged'
  BY DEF SubmissionsLogged, Logged
<1> QED
  BY <1>1, <1>2, <1>3

LEMMA CommitCreateIInv ==
  ASSUME IInv, NEW r \in Requests, NEW id \in RecordIds, CommitCreate(r, id)
  PROVE  IInv'
<1> USE DEF IInv
<1> DEFINE e == [op |-> req[r].op, user |-> req[r].user, id |-> id]
<1>1. e \in AuditEntry /\ trail' = Append(trail, e) /\ req[r].set \in Row
  BY DEF CommitCreate, CreateRequest, Audit, AuditEntry
<1>2. TypeOK'
  <2>1. records' \in [DOMAIN records' -> Row] /\ DOMAIN records' \subseteq RecordIds
    BY <1>1 DEF CommitCreate, TypeOK
  <2>2. trail' \in Seq(AuditEntry)
    BY <1>1 DEF TypeOK
  <2> QED
    BY <2>1, <2>2 DEF CommitCreate, Done, TypeOK
<1>3. \A i \in DOMAIN records : i \in DOMAIN records' /\ records'[i] = records[i]
  BY DEF CommitCreate
<1>4. RequestsOK'
  BY <1>1, <1>3, RequestOKStable, NoRequestOK DEF RequestsOK, CommitCreate, Done, TypeOK
<1>5. SubmissionsLogged'
  <2> SUFFICES ASSUME NEW i \in DOMAIN records', records'[i].status # "DRAFT"
               PROVE  Logged(i, "submit")'
    BY DEF SubmissionsLogged
  <2>1. i \in DOMAIN records /\ records'[i] = records[i]
    BY DEF CommitCreate, RequestsOK, RequestOK, CreateRequestOK
  <2> QED
    BY <1>1, <2>1 DEF SubmissionsLogged, Logged, TypeOK
<1> QED
  BY <1>2, <1>4, <1>5

LEMMA CommitDeleteSeniorIInv ==
  ASSUME IInv, NEW r \in Requests, CommitDeleteSenior(r)
  PROVE  IInv'
<1> USE DEF IInv
<1> DEFINE q == req[r]
           e == [op |-> q.op, user |-> q.user, id |-> q.senior]
<1>1. q \in SeniorRequest /\ q.op = "delete_senior" /\ q.user \in Users /\ q.senior \in Seniors
  BY DEF CommitDeleteSenior, SeniorRequest
<1>2. e \in AuditEntry /\ trail' = Append(trail, e)
  BY <1>1 DEF CommitDeleteSenior, Audit, AuditEntry
<1>3. TypeOK'
  <2>1. trail' \in Seq(AuditEntry)
    BY <1>2 DEF TypeOK
  <2> QED
    BY <1>1, <2>1 DEF CommitDeleteSenior, Done, TypeOK
<1>4. RequestsOK'
  <2>1. \A i \in DOMAIN records : i \in DOMAIN records' /\ records'[i].tenant = records[i].tenant
    BY DEF CommitDeleteSenior
  <2> QED
    BY <1>2, <2>1, RequestOKStable, NoRequestOK DEF RequestsOK, CommitDeleteSenior, Done, TypeOK
<1>5. SubmissionsLogged'
  BY <1>2 DEF CommitDeleteSenior, SubmissionsLogged, Logged, TypeOK
<1> QED
  BY <1>3, <1>4, <1>5

LEMMA CommitRowIInv ==
  ASSUME IInv, NEW r \in Requests, CommitRow(r)
  PROVE  IInv'
<1> USE DEF IInv
<1> DEFINE q == req[r]
           e == [op |-> q.op, user |-> q.user, id |-> q.id]
<1>1. /\ q \in RowRequest /\ RowRequestOK(q)
      /\ q.id \in DOMAIN records /\ records[q.id] \in Row
  BY DEF CommitRow, RequestsOK, RequestOK, RowRequestOK, TypeOK
<1>2. /\ q.op \in RowOps /\ q.user \in Users /\ q.id \in RecordIds
      /\ q.found \in Row /\ q.set \in Row
  BY <1>1 DEF RowRequest
<1>3. e \in AuditEntry /\ trail' = Append(trail, e)
  BY <1>2 DEF CommitRow, Audit, AuditEntry
<1>4. /\ FlushedRow(q) \in Row
      /\ FlushedRow(q).tenant = records[q.id].tenant
      /\ FlushedRow(q).status = IF q.set.status # q.found.status
                                THEN q.set.status ELSE records[q.id].status
  BY <1>1, <1>2, FlushedIsRow, FlushedColumns DEF FlushedRow
<1>5. /\ DOMAIN records' = DOMAIN records
      /\ records'[q.id] = FlushedRow(q)
      /\ \A i \in DOMAIN records : i # q.id => records'[i] = records[i]
  BY <1>1 DEF CommitRow, TypeOK
<1>6. TypeOK'
  <2>1. records' \in [DOMAIN records' -> Row]
    BY <1>4, <1>1 DEF CommitRow, TypeOK
  <2>2. trail' \in Seq(AuditEntry)
    BY <1>3 DEF TypeOK
  <2> QED
    BY <1>5, <2>1, <2>2 DEF CommitRow, Done, TypeOK
<1>7. RequestsOK'
  <2>1. \A i \in DOMAIN records : i \in DOMAIN records' /\ records'[i].tenant = records[i].tenant
    BY <1>4, <1>5
  <2> QED
    BY <1>3, <2>1, RequestOKStable, NoRequestOK DEF RequestsOK, CommitRow, Done, TypeOK
<1>8. SubmissionsLogged'
  <2> SUFFICES ASSUME NEW i \in DOMAIN records', records'[i].status # "DRAFT"
               PROVE  Logged(i, "submit")'
    BY DEF SubmissionsLogged
  <2>1. Logged(i, "submit") => Logged(i, "submit")'
    BY <1>3 DEF Logged, TypeOK
  <2>2. CASE i # q.id
    BY <2>1, <2>2, <1>5 DEF SubmissionsLogged
  <2>3. CASE i = q.id /\ q.op = "submit"
    <3>1. Len(trail) + 1 \in DOMAIN trail' /\ trail'[Len(trail) + 1] = e
      BY <1>3 DEF TypeOK
    <3> QED
      BY <2>3, <3>1 DEF Logged
  <2>4. CASE i = q.id /\ q.op \in {"approve", "reject"}
    BY <2>1, <2>4, <1>1 DEF RowRequestOK, Assigned
  <2>5. CASE i = q.id /\ q.op \in {"update", "delete"}
    <3>1. q.set.status = q.found.status
      BY <2>5, <1>1, <1>2 DEF RowRequestOK, Assigned, Row
    <3> QED
      BY <2>1, <2>5, <3>1, <1>4, <1>5 DEF SubmissionsLogged
  <2> QED
    BY <1>2, <2>2, <2>3, <2>4, <2>5 DEF RowOps
<1> QED
  BY <1>6, <1>7, <1>8

LEMMA NextIInv == IInv /\ [Next]_vars => IInv'
<1> SUFFICES ASSUME IInv, [Next]_vars PROVE IInv'
  OBVIOUS
<1>1. CASE UNCHANGED vars
  BY <1>1 DEF vars, IInv, TypeOK, RequestsOK, RequestOK, RowRequestOK, CreateRequestOK,
     SeniorRequestOK, Assigned, SubmissionsLogged, Logged
<1>2. ASSUME NEW r \in Requests, Ask(r) PROVE IInv'
  BY <1>2, AskStarts, StartIInv
<1>3. ASSUME NEW r \in Requests, Answer(r) PROVE IInv'
  <2>1. ASSUME NEW id \in RecordIds, CommitCreate(r, id) PROVE IInv'
    BY <2>1, CommitCreateIInv
  <2>2. CASE CommitRow(r)
    BY <2>2, CommitRowIInv
  <2>3. CASE RefuseCreate(r) \/ RefuseRow(r) \/ Abort(r)
    BY <2>3, EndIInv DEF RefuseCreate, RefuseRow, Abort, IInv, TypeOK
  <2>4. CASE CommitDeleteSenior(r)
    BY <2>4, CommitDeleteSeniorIInv
  <2> QED
    BY <1>3, <2>1, <2>2, <2>3, <2>4 DEF Answer
<1> QED
  BY <1>1, <1>2, <1>3 DEF Next

THEOREM Invariance == Spec => []IInv
BY InitIInv, NextIInv, PTL DEF Spec

\* Rows, requests in flight and audit entries keep the shape of their tables.
THEOREM TypeCorrect == Spec => []TypeOK
<1>1. IInv => TypeOK
  BY DEF IInv
<1> QED
  BY <1>1, Invariance, PTL

-----------------------------------------------------------------------------
(* What a commit may change, used by the theorems below.                   *)

Moves == {"submit", "approve", "reject"}

LEMMA RowEffect ==
  ASSUME IInv, NEW r \in Requests, CommitRow(r)
  PROVE  LET q   == req[r]
             old == records[q.id]
             new == records'[q.id]
         IN  /\ q \in RowRequest /\ RowRequestOK(q) /\ q.id \in DOMAIN records
             /\ q.op \in RowOps /\ q.user \in Users
             /\ old \in Row
             /\ DOMAIN records' = DOMAIN records
             /\ \A i \in DOMAIN records : i # q.id => records'[i] = records[i]
             /\ trail' = Append(trail, [op |-> q.op, user |-> q.user, id |-> q.id])
             /\ new.tenant = old.tenant /\ new.senior = old.senior /\ new.month = old.month
             /\ old.deleted => new.deleted
             /\ new.status = IF q.op \in Moves THEN StatusAfter(q.op) ELSE old.status
             /\ \/ new.approved_by = old.approved_by
                \/ q.op = "approve" /\ q.user \in Approvers /\ new.approved_by = q.user
             /\ new.reject => old.reject \/ q.op = "reject"
             /\ new \in Row
             /\ new.deleted = (old.deleted \/ q.op = "delete")
             /\ q.op # "update" => new.hours = old.hours /\ new.amount = old.amount
<1> DEFINE q   == req[r]
           old == records[q.id]
           new == FlushedRow(q)
<1>1. /\ q \in RowRequest /\ RowRequestOK(q)
      /\ q.id \in DOMAIN records /\ old \in Row
  BY DEF CommitRow, IInv, RequestsOK, RequestOK, RowRequestOK, TypeOK
<1>2. /\ q.op \in RowOps /\ q.user \in Users /\ q.id \in RecordIds
      /\ q.found \in Row /\ q.set \in Row
  BY <1>1 DEF RowRequest
<1>3. /\ DOMAIN records' = DOMAIN records
      /\ records'[q.id] = new
      /\ \A i \in DOMAIN records : i # q.id => records'[i] = records[i]
      /\ trail' = Append(trail, [op |-> q.op, user |-> q.user, id |-> q.id])
  BY <1>1 DEF CommitRow, Audit, IInv, TypeOK
<1>4. new \in Row /\ new.tenant = old.tenant /\ new.senior = old.senior /\ new.month = old.month
  BY <1>1, <1>2, FlushedIsRow DEF FlushedRow
<1>5. /\ new.status = IF q.set.status # q.found.status THEN q.set.status ELSE old.status
      /\ new.approved_by = IF q.set.approved_by # q.found.approved_by
                            THEN q.set.approved_by ELSE old.approved_by
      /\ new.reject = IF q.set.reject # q.found.reject THEN q.set.reject ELSE old.reject
      /\ new.deleted = IF q.set.deleted # q.found.deleted THEN q.set.deleted ELSE old.deleted
      /\ new.hours = IF q.set.hours # q.found.hours THEN q.set.hours ELSE old.hours
      /\ new.amount = IF q.set.amount # q.found.amount THEN q.set.amount ELSE old.amount
      /\ old.deleted \in BOOLEAN /\ ~q.found.deleted
  BY <1>1, <1>2, FlushedColumns, RowColumns DEF FlushedRow, RowRequestOK
<1>6. CASE q.op = "update"
  BY <1>1, <1>2, <1>3, <1>4, <1>5, <1>6 DEF RowRequestOK, Assigned, Moves
<1>7. CASE q.op = "submit"
  <2>1. /\ q.set.hours = q.found.hours /\ q.set.amount = q.found.amount
        /\ q.set.status = "SUBMITTED" /\ q.found.status = "DRAFT"
        /\ q.set.approved_by = q.found.approved_by
        /\ q.set.reject = q.found.reject /\ q.set.deleted = q.found.deleted
    BY <1>1, <1>2, <1>7 DEF RowRequestOK, Assigned, Row
  <2> QED
    BY <2>1, <1>1, <1>2, <1>3, <1>4, <1>5, <1>7 DEF Moves, StatusAfter
<1>8. CASE q.op = "approve"
  <2>1. /\ q.set.hours = q.found.hours /\ q.set.amount = q.found.amount
        /\ q.set.status = "APPROVED" /\ q.found.status = "SUBMITTED"
        /\ q.set.approved_by = q.user /\ q.user \in Approvers
        /\ q.set.reject = q.found.reject /\ q.set.deleted = q.found.deleted
    BY <1>1, <1>2, <1>8 DEF RowRequestOK, Assigned, Row
  <2> QED
    BY <2>1, <1>1, <1>2, <1>3, <1>4, <1>5, <1>8 DEF Moves, StatusAfter
<1>9. CASE q.op = "reject"
  <2>1. /\ q.set.hours = q.found.hours /\ q.set.amount = q.found.amount
        /\ q.set.status = "REJECTED" /\ q.found.status = "SUBMITTED"
        /\ q.set.approved_by = q.found.approved_by
        /\ q.set.deleted = q.found.deleted
    BY <1>1, <1>2, <1>9 DEF RowRequestOK, Assigned, Row
  <2> QED
    BY <2>1, <1>1, <1>2, <1>3, <1>4, <1>5, <1>9 DEF Moves, StatusAfter
<1>10. CASE q.op = "delete"
  <2>1. /\ q.set.hours = q.found.hours /\ q.set.amount = q.found.amount
        /\ q.set.status = q.found.status
        /\ q.set.approved_by = q.found.approved_by
        /\ q.set.reject = q.found.reject /\ q.set.deleted
    BY <1>1, <1>2, <1>10 DEF RowRequestOK, Assigned, Row
  <2> QED
    BY <2>1, <1>1, <1>2, <1>3, <1>4, <1>5, <1>10 DEF Moves
<1> QED
  BY <1>2, <1>6, <1>7, <1>8, <1>9, <1>10 DEF RowOps

LEMMA CreateEffect ==
  ASSUME IInv, NEW r \in Requests, NEW id \in RecordIds, CommitCreate(r, id)
  PROVE  LET q == req[r]
         IN  /\ CreateRequestOK(q) /\ q.op = "create" /\ q.user \in Users /\ q.set \in Row
             /\ ~SlotTaken(q.set.senior, q.set.month)
             /\ id \notin DOMAIN records /\ DOMAIN records' = DOMAIN records \union {id}
             /\ records'[id] = q.set
             /\ \A i \in DOMAIN records : records'[i] = records[i]
             /\ trail' = Append(trail, [op |-> "create", user |-> q.user, id |-> id])
BY DEF IInv, RequestsOK, RequestOK, CommitCreate, CreateRequest, InsertFits, Audit

LEMMA DeleteSeniorEffect ==
  ASSUME IInv, NEW r \in Requests, CommitDeleteSenior(r)
  PROVE  LET q == req[r]
         IN  /\ SeniorTenant[q.senior] = UserTenant[q.user]
             /\ q.senior \in Seniors /\ q.user \in Users
             /\ UNCHANGED records
             /\ trail' = Append(trail, [op |-> "delete_senior", user |-> q.user, id |-> q.senior])
BY DEF IInv, RequestsOK, RequestOK, SeniorRequestOK, CommitDeleteSenior, SeniorRequest, Audit

\* Every step creates a record, writes one, audits a deleted senior,
\* or leaves records and log alone.
LEMMA StepCases ==
  ASSUME [Next]_vars
  PROVE  \/ \E r \in Requests, id \in RecordIds : CommitCreate(r, id)
         \/ \E r \in Requests : CommitRow(r)
         \/ \E r \in Requests : CommitDeleteSenior(r)
         \/ UNCHANGED <<records, trail>>
<1>1. ASSUME NEW r \in Requests, Ask(r) PROVE UNCHANGED <<records, trail>>
  <2>1. ASSUME NEW q, Start(r, q) PROVE UNCHANGED <<records, trail>>
    BY <2>1 DEF Start
  <2>2. ASSUME NEW u, NEW s PROVE DeleteSenior(r, u, s) => UNCHANGED <<records, trail>>
    BY <2>1 DEF DeleteSenior
  <2>3. ASSUME NEW u, NEW s, NEW m, NEW h, NEW a, NEW o
        PROVE  Create(r, u, s, m, h, a, o) => UNCHANGED <<records, trail>>
    BY <2>1 DEF Create
  <2>4. ASSUME NEW u, NEW id, NEW h, NEW a, NEW o
        PROVE  Update(r, u, id, h, a, o) => UNCHANGED <<records, trail>>
    BY <2>1 DEF Update, StartRow
  <2>5. ASSUME NEW u, NEW id
        PROVE  Submit(r, u, id) \/ Approve(r, u, id) \/ Reject(r, u, id) \/ SoftDelete(r, u, id)
                 => UNCHANGED <<records, trail>>
    BY <2>1 DEF Submit, Approve, Reject, SoftDelete, StartRow
  <2> QED
    BY <1>1, <2>2, <2>3, <2>4, <2>5 DEF Ask
<1> QED
  BY <1>1 DEF Next, Answer, RefuseCreate, RefuseRow, Abort, vars

-----------------------------------------------------------------------------
\* A senior has at most one live record of a month, for any number of requests
\* in flight: the index is checked where the row is inserted, and no UPDATE
\* moves a row to another senior or month or brings a deleted one back.
THEOREM AtMostOneLiveRecord == Spec => []OneLiveRecordPerMonth
<1>1. Init => OneLiveRecordPerMonth
  BY DEF Init, OneLiveRecordPerMonth
<1>2. ASSUME IInv, OneLiveRecordPerMonth, [Next]_vars
      PROVE  OneLiveRecordPerMonth'
  <2>1. ASSUME NEW r \in Requests, NEW id \in RecordIds, CommitCreate(r, id)
        PROVE  OneLiveRecordPerMonth'
    <3> DEFINE new == req[r].set
    <3>1. /\ ~SlotTaken(new.senior, new.month)
          /\ DOMAIN records' = DOMAIN records \union {id}
          /\ records'[id] = new
          /\ \A i \in DOMAIN records : records'[i] = records[i]
      BY <1>2, <2>1, CreateEffect
    <3> HIDE DEF new
    <3> SUFFICES ASSUME NEW i \in DOMAIN records', NEW j \in DOMAIN records', i # j,
                        ~records'[i].deleted, ~records'[j].deleted,
                        records'[i].senior = records'[j].senior,
                        records'[i].month = records'[j].month
                 PROVE  FALSE
      BY DEF OneLiveRecordPerMonth
    <3>2. CASE i \in DOMAIN records /\ j \in DOMAIN records
      BY <1>2, <3>1, <3>2 DEF OneLiveRecordPerMonth
    <3>3. CASE i = id \/ j = id
      BY <3>1, <3>3 DEF SlotTaken
    <3> QED
      BY <3>1, <3>2, <3>3
  <2>2. ASSUME NEW r \in Requests, CommitRow(r)
        PROVE  OneLiveRecordPerMonth'
    <3>1. \A i \in DOMAIN records :
            /\ records'[i].senior = records[i].senior
            /\ records'[i].month = records[i].month
            /\ records[i].deleted => records'[i].deleted
      BY <1>2, <2>2, RowEffect
    <3>2. DOMAIN records' = DOMAIN records
      BY <1>2, <2>2, RowEffect
    <3> QED
      BY <1>2, <3>1, <3>2 DEF OneLiveRecordPerMonth
  <2>3. CASE UNCHANGED records
    BY <1>2, <2>3 DEF OneLiveRecordPerMonth
  <2> QED
    BY <1>2, <2>1, <2>2, <2>3, StepCases DEF CommitDeleteSenior
<1> QED
  BY <1>1, <1>2, Invariance, PTL DEF Spec

\* What a stale request cannot undo: rows, deletions and approvals, for any
\* number of requests in flight.
THEOREM NoStepUndoes == Spec => NothingIsUndone
<1> DEFINE KeptRow(id) ==
              /\ id \in DOMAIN records'
              /\ records[id].deleted => records'[id].deleted
              /\ records[id].approved_by # NoUser => records'[id].approved_by # NoUser
           Kept == \A id \in DOMAIN records : KeptRow(id)
<1>1. ASSUME IInv, [Next]_vars PROVE Kept
  <2>1. ASSUME NEW r \in Requests, NEW id \in RecordIds, CommitCreate(r, id) PROVE Kept
    BY <1>1, <2>1, CreateEffect
  <2>2. ASSUME NEW r \in Requests, CommitRow(r) PROVE Kept
    <3> SUFFICES ASSUME NEW id \in DOMAIN records PROVE KeptRow(id)
      OBVIOUS
    <3>1. CASE id # req[r].id
      BY <1>1, <2>2, <3>1, RowEffect
    <3>2. CASE id = req[r].id
      BY <1>1, <2>2, <3>2, RowEffect, NullsAssumption
    <3> QED
      BY <3>1, <3>2
  <2>3. CASE UNCHANGED records
    BY <2>3
  <2> QED
    BY <1>1, <2>1, <2>2, <2>3, StepCases DEF CommitDeleteSenior
<1>2. IInv /\ [Next]_vars => [Kept]_records
  BY <1>1
<1> QED
  BY <1>2, Invariance, PTL DEF Spec, NothingIsUndone

LEMMA AppendKeeps ==
  ASSUME NEW S, NEW log \in Seq(S), NEW e
  PROVE  /\ DOMAIN Append(log, e) = DOMAIN log \union {Len(log) + 1}
         /\ Append(log, e)[Len(log) + 1] = e
         /\ \A i \in DOMAIN log : i < Len(log) + 1 /\ Append(log, e)[i] = log[i]
OBVIOUS

\* The user of every audit entry, its record and the record's senior share a
\* tenant, for any number of tenants.
THEOREM TenantIsolation == Spec => []TenantsStayApart
<1>1. Init => TenantsStayApart
  BY DEF Init, TenantsStayApart
<1>2. ASSUME IInv, TenantsStayApart, [Next]_vars
      PROVE  TenantsStayApart'
  <2>1. ASSUME NEW r \in Requests, NEW id \in RecordIds, CommitCreate(r, id)
        PROVE  TenantsStayApart'
    <3> DEFINE q == req[r]
    <3>1. /\ CreateRequestOK(q) /\ q.user \in Users
          /\ id \notin DOMAIN records /\ DOMAIN records' = DOMAIN records \union {id}
          /\ records'[id] = q.set
          /\ \A i \in DOMAIN records : records'[i] = records[i]
          /\ trail' = Append(trail, [op |-> "create", user |-> q.user, id |-> id])
      BY <1>2, <2>1, CreateEffect
    <3>2. \A i \in DOMAIN trail' :
            \/ i \in DOMAIN trail /\ trail'[i] = trail[i]
            \/ trail'[i] = [op |-> "create", user |-> q.user, id |-> id]
      BY <1>2, <3>1, AppendKeeps DEF IInv, TypeOK
    <3>3. /\ records'[id].tenant = UserTenant[q.user]
          /\ SeniorTenant[records'[id].senior] = records'[id].tenant
      BY <3>1 DEF CreateRequestOK
    <3>4. \A i \in DOMAIN trail' : OwnTarget(trail[i])'
      BY <1>2, <3>1, <3>2, <3>3 DEF TenantsStayApart, OwnTarget
    <3>5. \A i \in DOMAIN records' : SeniorTenant[records'[i].senior] = records'[i].tenant
      BY <1>2, <3>1, <3>3 DEF TenantsStayApart
    <3> QED
      BY <3>4, <3>5 DEF TenantsStayApart
  <2>2. ASSUME NEW r \in Requests, CommitRow(r)
        PROVE  TenantsStayApart'
    <3> DEFINE q == req[r]
    <3>1. /\ RowRequestOK(q) /\ q.op \in RowOps /\ q.id \in DOMAIN records /\ DOMAIN records' = DOMAIN records
          /\ \A i \in DOMAIN records : /\ records'[i].tenant = records[i].tenant
                                       /\ records'[i].senior = records[i].senior
          /\ trail' = Append(trail, [op |-> q.op, user |-> q.user, id |-> q.id])
      BY <1>2, <2>2, RowEffect
    <3>2. \A i \in DOMAIN trail' :
            \/ i \in DOMAIN trail /\ trail'[i] = trail[i]
            \/ trail'[i] = [op |-> q.op, user |-> q.user, id |-> q.id]
      BY <1>2, <3>1, AppendKeeps DEF IInv, TypeOK
    <3> QED
      BY <1>2, <3>1, <3>2 DEF TenantsStayApart, OwnTarget, RowRequestOK, RowOps
  <2>3. ASSUME NEW r \in Requests, CommitDeleteSenior(r)
        PROVE  TenantsStayApart'
    <3> DEFINE q == req[r]
    <3>1. /\ SeniorTenant[q.senior] = UserTenant[q.user] /\ UNCHANGED records
          /\ trail' = Append(trail, [op |-> "delete_senior", user |-> q.user, id |-> q.senior])
      BY <1>2, <2>3, DeleteSeniorEffect
    <3>2. \A i \in DOMAIN trail' :
            \/ i \in DOMAIN trail /\ trail'[i] = trail[i]
            \/ trail'[i] = [op |-> "delete_senior", user |-> q.user, id |-> q.senior]
      BY <1>2, <3>1, AppendKeeps DEF IInv, TypeOK
    <3> QED
      BY <1>2, <3>1, <3>2 DEF TenantsStayApart, OwnTarget
  <2>4. CASE UNCHANGED <<records, trail>>
    BY <1>2, <2>4 DEF TenantsStayApart, OwnTarget
  <2> QED
    BY <1>2, <2>1, <2>2, <2>3, <2>4, StepCases
<1> QED
  BY <1>1, <1>2, Invariance, PTL DEF Spec

\* The status of a row is the one its last audited transition wrote, whatever
\* raced with that transition.
THEOREM StatusMatchesTheLog == Spec => []StatusIsTheLastAudited
<1>1. Init => StatusIsTheLastAudited
  BY DEF Init, StatusIsTheLastAudited
<1>2. ASSUME IInv, StatusIsTheLastAudited, [Next]_vars
      PROVE  StatusIsTheLastAudited'
  <2>0. ASSUME NEW op, NEW user, NEW id, NEW status,
               trail' = Append(trail, [op |-> op, user |-> user, id |-> id])
        PROVE  /\ \A id2, i : /\ i \in DOMAIN trail
                              /\ LastMove(trail, id2, status, i)
                              /\ id2 # id \/ op \in {"update", "delete"}
                              => i \in DOMAIN trail' /\ LastMove(trail', id2, status, i)
               /\ op \notin {"update", "delete"} /\ status = StatusAfter(op)
                    => \E i \in DOMAIN trail' : LastMove(trail', id, status, i)
    <3> DEFINE n == Len(trail) + 1
    <3>1. /\ DOMAIN trail' = DOMAIN trail \union {n}
          /\ trail'[n] = [op |-> op, user |-> user, id |-> id]
          /\ \A i \in DOMAIN trail : trail'[i] = trail[i] /\ i < n
      BY <1>2, <2>0, AppendKeeps DEF IInv, TypeOK
    <3>2. \A i \in DOMAIN trail' : ~(i > n)
      BY <1>2, <3>1 DEF IInv, TypeOK
    <3> HIDE DEF n
    <3>3. ASSUME NEW id2, NEW i \in DOMAIN trail, LastMove(trail, id2, status, i),
                 id2 # id \/ op \in {"update", "delete"}
          PROVE  i \in DOMAIN trail' /\ LastMove(trail', id2, status, i)
      BY <3>1, <3>3 DEF LastMove
    <3>4. ASSUME op \notin {"update", "delete"}, status = StatusAfter(op)
          PROVE  n \in DOMAIN trail' /\ LastMove(trail', id, status, n)
      BY <3>1, <3>2, <3>4 DEF LastMove
    <3> QED
      BY <3>3, <3>4
  <2>1. ASSUME NEW r \in Requests, NEW id \in RecordIds, CommitCreate(r, id)
        PROVE  StatusIsTheLastAudited'
    <3> DEFINE q == req[r]
    <3>1. /\ q.set.status = "DRAFT"
          /\ id \notin DOMAIN records /\ DOMAIN records' = DOMAIN records \union {id}
          /\ records'[id] = q.set
          /\ \A i \in DOMAIN records : records'[i] = records[i]
          /\ trail' = Append(trail, [op |-> "create", user |-> q.user, id |-> id])
      BY <1>2, <2>1, CreateEffect DEF CreateRequestOK
    <3> SUFFICES ASSUME NEW id2 \in DOMAIN records'
                 PROVE  \E i \in DOMAIN trail' : LastMove(trail', id2, records'[id2].status, i)
      BY DEF StatusIsTheLastAudited
    <3>2. CASE id2 = id
      BY <3>1, <3>2, <2>0 DEF StatusAfter
    <3>3. CASE id2 # id
      <4>1. id2 \in DOMAIN records /\ records'[id2] = records[id2]
        BY <3>1, <3>3
      <4>2. PICK i \in DOMAIN trail : LastMove(trail, id2, records'[id2].status, i)
        BY <1>2, <4>1 DEF StatusIsTheLastAudited
      <4> QED
        BY <3>1, <3>3, <4>2, <2>0
    <3> QED
      BY <3>2, <3>3
  <2>2. ASSUME NEW r \in Requests, CommitRow(r)
        PROVE  StatusIsTheLastAudited'
    <3> DEFINE q == req[r]
    <3>1. /\ q.op \in RowOps /\ DOMAIN records' = DOMAIN records
          /\ \A i \in DOMAIN records : i # q.id => records'[i] = records[i]
          /\ records'[q.id].status = IF q.op \in Moves THEN StatusAfter(q.op)
                                                       ELSE records[q.id].status
          /\ trail' = Append(trail, [op |-> q.op, user |-> q.user, id |-> q.id])
      BY <1>2, <2>2, RowEffect
    <3> HIDE DEF q
    <3> SUFFICES ASSUME NEW id2 \in DOMAIN records
                 PROVE  \E i \in DOMAIN trail' : LastMove(trail', id2, records'[id2].status, i)
      BY <3>1 DEF StatusIsTheLastAudited
    <3>2. CASE id2 = q.id /\ q.op \in Moves
      BY <3>1, <3>2, <2>0 DEF Moves
    <3>3. CASE id2 # q.id \/ q.op \notin Moves
      <4>1. records'[id2].status = records[id2].status
        BY <3>1, <3>3
      <4>2. PICK i \in DOMAIN trail : LastMove(trail, id2, records'[id2].status, i)
        BY <1>2, <4>1 DEF StatusIsTheLastAudited
      <4>3. id2 # q.id \/ q.op \in {"update", "delete"}
        BY <3>1, <3>3 DEF Moves, RowOps
      <4> QED
        BY <3>1, <4>2, <4>3, <2>0
    <3> QED
      BY <3>2, <3>3
  <2>3. ASSUME NEW r \in Requests, CommitDeleteSenior(r)
        PROVE  StatusIsTheLastAudited'
    <3>1. /\ req[r].senior \in Seniors /\ UNCHANGED records
          /\ trail' = Append(trail, [op |-> "delete_senior", user |-> req[r].user,
                                     id |-> req[r].senior])
      BY <1>2, <2>3, DeleteSeniorEffect
    <3> SUFFICES ASSUME NEW id2 \in DOMAIN records
                 PROVE  \E i \in DOMAIN trail' : LastMove(trail', id2, records'[id2].status, i)
      BY <3>1 DEF StatusIsTheLastAudited
    <3>2. PICK i \in DOMAIN trail : LastMove(trail, id2, records'[id2].status, i)
      BY <1>2, <3>1 DEF StatusIsTheLastAudited
    <3>3. id2 # req[r].senior
      BY <1>2, <3>1, IdsAssumption DEF IInv, TypeOK
    <3> QED
      BY <2>0, <3>1, <3>2, <3>3
  <2>4. CASE UNCHANGED <<records, trail>>
    BY <1>2, <2>4 DEF StatusIsTheLastAudited
  <2> QED
    BY <1>2, <2>1, <2>2, <2>3, <2>4, StepCases
<1> QED
  BY <1>1, <1>2, Invariance, PTL DEF Spec

\* An approver or a reject reason on a row is backed by a submission and then
\* that decision in the audit log, whatever raced with them.
THEOREM DecisionsAreBacked == Spec => []DecisionsFollowSubmission
<1>1. Init => DecisionsFollowSubmission
  BY DEF Init, DecisionsFollowSubmission
<1>2. ASSUME IInv, DecisionsFollowSubmission, [Next]_vars
      PROVE  DecisionsFollowSubmission'
  <2>0. ASSUME NEW e, trail' = Append(trail, e)
        PROVE  /\ \A i \in DOMAIN trail : /\ i \in DOMAIN trail'
                                          /\ trail'[i] = trail[i]
                                          /\ i < Len(trail) + 1
               /\ Len(trail) + 1 \in DOMAIN trail'
               /\ trail'[Len(trail) + 1] = e
    BY <1>2, <2>0, AppendKeeps DEF IInv, TypeOK
  <2>1. ASSUME NEW r \in Requests, NEW id \in RecordIds, CommitCreate(r, id)
        PROVE  DecisionsFollowSubmission'
    <3>1. /\ CreateRequestOK(req[r])
          /\ DOMAIN records' = DOMAIN records \union {id}
          /\ records'[id] = req[r].set
          /\ \A i \in DOMAIN records : records'[i] = records[i]
      BY <1>2, <2>1, CreateEffect
    <3>2. \A i \in DOMAIN trail : i \in DOMAIN trail' /\ trail'[i] = trail[i]
      BY <1>2, <2>1, <2>0, CreateEffect
    <3>3. \A id2, op, i, j : i \in DOMAIN trail /\ j \in DOMAIN trail /\ Decided(trail, id2, op, i, j)
                             => Decided(trail', id2, op, i, j) /\ trail'[j].user = trail[j].user
      BY <3>2 DEF Decided
    <3> QED
      BY <1>2, <3>1, <3>2, <3>3 DEF DecisionsFollowSubmission, CreateRequestOK
  <2>2. ASSUME NEW r \in Requests, CommitRow(r)
        PROVE  DecisionsFollowSubmission'
    <3> DEFINE q == req[r]
               n == Len(trail) + 1
    <3>1. /\ RowRequestOK(q) /\ q.id \in DOMAIN records /\ DOMAIN records' = DOMAIN records
          /\ \A i \in DOMAIN records : i # q.id => records'[i] = records[i]
          /\ \/ records'[q.id].approved_by = records[q.id].approved_by
             \/ q.op = "approve" /\ q.user \in Approvers /\ records'[q.id].approved_by = q.user
          /\ records'[q.id].reject => records[q.id].reject \/ q.op = "reject"
          /\ trail' = Append(trail, [op |-> q.op, user |-> q.user, id |-> q.id])
      BY <1>2, <2>2, RowEffect
    <3>2. /\ \A i \in DOMAIN trail : i \in DOMAIN trail' /\ trail'[i] = trail[i] /\ i < n
          /\ n \in DOMAIN trail'
          /\ trail'[n] = [op |-> q.op, user |-> q.user, id |-> q.id]
      BY <2>0, <3>1
    <3> HIDE DEF n
    <3>3. \A id, op, i, j : i \in DOMAIN trail /\ j \in DOMAIN trail /\ Decided(trail, id, op, i, j)
                            => Decided(trail', id, op, i, j) /\ trail'[j].user = trail[j].user
      BY <3>2 DEF Decided
    <3>4. ASSUME q.op \in {"approve", "reject"}
          PROVE  \E i \in DOMAIN trail : Decided(trail', q.id, q.op, i, n)
      <4>1. PICK i \in DOMAIN trail : trail[i].id = q.id /\ trail[i].op = "submit"
        BY <3>1, <3>4 DEF RowRequestOK, Assigned, Logged
      <4> QED
        BY <3>2, <4>1 DEF Decided
    <3> SUFFICES ASSUME NEW id \in DOMAIN records
                 PROVE  /\ records'[id].approved_by # NoUser =>
                             /\ records'[id].approved_by \in Approvers
                             /\ \E i, j \in DOMAIN trail' :
                                  /\ Decided(trail', id, "approve", i, j)
                                  /\ trail'[j].user = records'[id].approved_by
                        /\ records'[id].reject =>
                             \E i, j \in DOMAIN trail' : Decided(trail', id, "reject", i, j)
      BY <3>1 DEF DecisionsFollowSubmission
    <3>5. ASSUME records'[id].approved_by # NoUser
          PROVE  /\ records'[id].approved_by \in Approvers
                 /\ \E i, j \in DOMAIN trail' :
                      /\ Decided(trail', id, "approve", i, j)
                      /\ trail'[j].user = records'[id].approved_by
      <4>1. CASE records'[id].approved_by = records[id].approved_by
        <5>1. PICK i \in DOMAIN trail, j \in DOMAIN trail :
                /\ Decided(trail, id, "approve", i, j)
                /\ trail[j].user = records[id].approved_by
          BY <1>2, <3>5, <4>1 DEF DecisionsFollowSubmission
        <5> QED
          BY <1>2, <3>2, <3>3, <3>5, <4>1, <5>1 DEF DecisionsFollowSubmission
      <4>2. CASE /\ id = q.id /\ q.op = "approve" /\ q.user \in Approvers
                 /\ records'[q.id].approved_by = q.user
        BY <3>2, <3>4, <4>2
      <4> QED
        BY <3>1, <4>1, <4>2
    <3>6. ASSUME records'[id].reject
          PROVE  \E i, j \in DOMAIN trail' : Decided(trail', id, "reject", i, j)
      <4>1. CASE records[id].reject
        <5>1. PICK i \in DOMAIN trail, j \in DOMAIN trail : Decided(trail, id, "reject", i, j)
          BY <1>2, <4>1 DEF DecisionsFollowSubmission
        <5> QED
          BY <3>2, <3>3, <5>1
      <4>2. CASE id = q.id /\ q.op = "reject"
        BY <3>2, <3>4, <4>2
      <4> QED
        BY <3>1, <3>6, <4>1, <4>2
    <3> QED
      BY <3>5, <3>6
  <2>3. ASSUME NEW r \in Requests, CommitDeleteSenior(r)
        PROVE  DecisionsFollowSubmission'
    <3>1. /\ UNCHANGED records
          /\ trail' = Append(trail, [op |-> "delete_senior", user |-> req[r].user,
                                     id |-> req[r].senior])
      BY <1>2, <2>3, DeleteSeniorEffect
    <3>2. \A i \in DOMAIN trail : i \in DOMAIN trail' /\ trail'[i] = trail[i]
      BY <2>0, <3>1
    <3>3. \A id2, op, i, j : i \in DOMAIN trail /\ j \in DOMAIN trail /\ Decided(trail, id2, op, i, j)
                             => Decided(trail', id2, op, i, j) /\ trail'[j].user = trail[j].user
      BY <3>2 DEF Decided
    <3> QED
      BY <1>2, <3>1, <3>2, <3>3 DEF DecisionsFollowSubmission
  <2>4. CASE UNCHANGED <<records, trail>>
    BY <1>2, <2>4 DEF DecisionsFollowSubmission, Decided
  <2> QED
    BY <1>2, <2>1, <2>2, <2>3, <2>4, StepCases
<1> QED
  BY <1>1, <1>2, Invariance, PTL DEF Spec

-----------------------------------------------------------------------------

-----------------------------------------------------------------------------
(***************************************************************************)
(* The service implements the workflow, for any number of requests: what a *)
(* request was granted is its op and id from its SELECT to its commit.     *)
(***************************************************************************)
LEMMA GrantedAt ==
  \A r \in Requests :
    /\ r \in DOMAIN Granted <=> req[r] \in RowRequest
    /\ req[r] \in RowRequest => Granted[r] = [op |-> req[r].op, id |-> req[r].id]
BY DEF Granted

\* A request that ends holds nothing any more.
LEMMA EndReleases ==
  ASSUME TypeOK, NEW r \in Requests, Done(r)
  PROVE  Workflow!Release(r) /\ (req[r] \notin RowRequest => UNCHANGED Granted)
<1>1. \A p \in Requests : req'[p] = IF p = r THEN NoRequest ELSE req[p]
  BY DEF Done, TypeOK
<1>2. NoRequest \notin RowRequest
  BY NullsAssumption DEF Request
<1>3. {p \in Requests : req'[p] \in RowRequest} = {p \in Requests : req[p] \in RowRequest} \ {r}
  BY <1>1, <1>2
<1>4. Granted' = [p \in {p \in Requests : req[p] \in RowRequest} \ {r} |->
                    [op |-> req[p].op, id |-> req[p].id]]
  BY <1>1, <1>3 DEF Granted
<1> QED
  BY <1>4 DEF Granted, Workflow!Release

LEMMA EndIsAWorkflowStep ==
  ASSUME TypeOK, NEW r \in Requests, Done(r), UNCHANGED records
  PROVE  [Workflow!Next]_(Workflow!vars)
<1>1. UNCHANGED Book
  BY DEF Book
<1>2. CASE req[r] \in RowRequest
  <2>1. Workflow!Renounce(r)
    BY <1>1, <1>2, EndReleases, GrantedAt DEF Workflow!Renounce
  <2> QED
    BY <2>1 DEF Workflow!Next
<1>3. CASE req[r] \notin RowRequest
  BY <1>1, <1>3, EndReleases DEF Workflow!vars
<1> QED
  BY <1>2, <1>3

LEMMA StartIsAWorkflowStep ==
  ASSUME IInv, NEW r \in Requests, NEW q \in Request, Start(r, q), RequestOK(q), JustRead(q)
  PROVE  [Workflow!Next]_(Workflow!vars)
<1>1. /\ req[r] = NoRequest
      /\ \A p \in Requests : req'[p] = IF p = r THEN q ELSE req[p]
      /\ UNCHANGED Book
  BY DEF Start, IInv, TypeOK, Book
<1>2. NoRequest \notin RowRequest
  BY NullsAssumption DEF Request
<1>3. CASE q \notin RowRequest
  <2>1. {p \in Requests : req'[p] \in RowRequest} = {p \in Requests : req[p] \in RowRequest}
    BY <1>1, <1>2, <1>3
  <2>2. UNCHANGED Granted
    BY <1>1, <1>2, <2>1 DEF Granted
  <2> QED
    BY <1>1, <2>2 DEF Workflow!vars
<1>4. CASE q \in RowRequest
  <2>1. /\ q.op \in RowOps /\ q.id \in RecordIds /\ q.id \in DOMAIN records
        /\ q.found \in Row /\ q.found = records[q.id] /\ ~records[q.id].deleted
        /\ Assigned(q)
    BY <1>4 DEF RowRequest, RequestOK, RowRequestOK, JustRead
  <2>2. {p \in Requests : req'[p] \in RowRequest}
          = {p \in Requests : req[p] \in RowRequest} \union {r}
    BY <1>1, <1>4
  <2>3. Granted' = [p \in DOMAIN Granted \union {r} |->
                      IF p = r THEN [op |-> q.op, id |-> q.id] ELSE Granted[p]]
    BY <1>1, <1>2, <2>2 DEF Granted
  <2>4. r \notin DOMAIN Granted
    BY <1>1, <1>2, GrantedAt
  <2>5. /\ q.id \in DOMAIN Book
        /\ Book[q.id].live
        /\ Book[q.id].status = q.found.status
    BY <2>1 DEF Book
  <2>6. q.found.status \in Workflow!Permitted(q.op)
    BY <2>1, RowColumns DEF RowOps, Assigned, Workflow!Permitted, Workflow!Status, Status
  <2>7. Workflow!Grant(r, q.op, q.id)
    BY <1>1, <2>3, <2>4, <2>5, <2>6 DEF Workflow!Grant
  <2>8. q.op \in Workflow!Ops
    BY <2>1 DEF RowOps, Workflow!Ops
  <2> QED
    BY <2>1, <2>7, <2>8 DEF Workflow!Next
<1> QED
  BY <1>3, <1>4

LEMMA CommitRowIsAWorkflowStep ==
  ASSUME IInv, NEW r \in Requests, CommitRow(r)
  PROVE  [Workflow!Next]_(Workflow!vars)
<1> DEFINE q   == req[r]
           old == Book[q.id]
           new == Book'[q.id]
<1>1. /\ q \in RowRequest /\ q.op \in RowOps /\ q.id \in DOMAIN records
      /\ DOMAIN records' = DOMAIN records
      /\ \A i \in DOMAIN records : i # q.id => records'[i] = records[i]
  BY RowEffect
<1>2. /\ records[q.id] \in Row /\ records'[q.id] \in Row
      /\ records'[q.id].status = IF q.op \in Moves THEN StatusAfter(q.op) ELSE records[q.id].status
      /\ records'[q.id].deleted = (records[q.id].deleted \/ q.op = "delete")
      /\ q.op # "update" => /\ records'[q.id].hours = records[q.id].hours
                            /\ records'[q.id].amount = records[q.id].amount
  BY RowEffect
<1>3. /\ DOMAIN Book' = DOMAIN Book /\ q.id \in DOMAIN Book
      /\ \A i \in DOMAIN Book \ {q.id} : Book'[i] = Book[i]
  BY <1>1 DEF Book
<1>4. /\ old = [status |-> records[q.id].status, pay |-> Pay(records[q.id]),
                live |-> ~records[q.id].deleted]
      /\ new = [status |-> records'[q.id].status, pay |-> Pay(records'[q.id]),
                live |-> ~records'[q.id].deleted]
  BY <1>1 DEF Book, Pay
<1>5. Workflow!Effect(q.op, old, new)
  <2>1. CASE q.op = "update"
    <3>1. records'[q.id].status = records[q.id].status
      BY <1>2, <2>1 DEF Moves
    <3>2. (~records'[q.id].deleted) = (~records[q.id].deleted)
      BY <1>2, <2>1, RowColumns
    <3>3. Pay(records'[q.id]) \in Hours \X Amounts
      BY <1>2, RowColumns DEF Pay
    <3>4. new = [old EXCEPT !.pay = Pay(records'[q.id])]
      BY <1>4, <3>1, <3>2
    <3> QED
      BY <2>1, <3>3, <3>4 DEF Workflow!Effect
  <2>2. CASE q.op \in Moves
    <3>1. records'[q.id].status = StatusAfter(q.op)
      BY <1>2, <2>2
    <3>2. (~records'[q.id].deleted) = (~records[q.id].deleted)
      BY <1>2, <2>2, RowColumns DEF Moves
    <3>3. Pay(records'[q.id]) = Pay(records[q.id])
      BY <1>2, <2>2 DEF Pay, Moves
    <3>4. new = [old EXCEPT !.status = StatusAfter(q.op)]
      BY <1>4, <3>1, <3>2, <3>3
    <3> QED
      BY <2>2, <3>4 DEF Workflow!Effect, Moves, StatusAfter
  <2>3. CASE q.op = "delete"
    <3>1. records'[q.id].status = records[q.id].status
      BY <1>2, <2>3 DEF Moves
    <3>2. (~records'[q.id].deleted) = FALSE
      BY <1>2, <2>3
    <3>3. Pay(records'[q.id]) = Pay(records[q.id])
      BY <1>2, <2>3 DEF Pay
    <3>4. new = [status |-> records[q.id].status, pay |-> Pay(records[q.id]), live |-> FALSE]
      BY <1>4, <3>1, <3>2, <3>3, Zenon
    <3>5. old.status = records[q.id].status /\ old.pay = Pay(records[q.id])
      BY <1>4
    <3> QED
      BY <2>3, <3>4, <3>5 DEF Workflow!Effect
  <2> QED
    BY <1>1, <2>1, <2>2, <2>3 DEF RowOps, Moves
<1>6. /\ r \in DOMAIN Granted
      /\ Granted[r].op = q.op /\ Granted[r].id = q.id
  <2>1. r \in DOMAIN Granted /\ Granted[r] = [op |-> q.op, id |-> q.id]
    BY <1>1, GrantedAt
  <2> QED
    BY <2>1
<1>7. Workflow!Release(r)
  BY EndReleases DEF CommitRow, IInv
<1>8. Workflow!CarryOut(r)
  BY <1>3, <1>5, <1>6, <1>7 DEF Workflow!CarryOut
<1> QED
  BY <1>8 DEF Workflow!Next

LEMMA CommitCreateIsAWorkflowStep ==
  ASSUME IInv, NEW r \in Requests, NEW id \in RecordIds, CommitCreate(r, id)
  PROVE  [Workflow!Next]_(Workflow!vars)
<1> DEFINE set == req[r].set
<1>1. /\ set \in Row /\ set.status = "DRAFT" /\ ~set.deleted
      /\ id \notin DOMAIN records /\ DOMAIN records' = DOMAIN records \union {id}
      /\ records'[id] = set
      /\ \A i \in DOMAIN records : records'[i] = records[i]
  BY CreateEffect DEF CreateRequestOK
<1>2. Pay(set) \in Hours \X Amounts
  BY <1>1, RowColumns DEF Pay
<1>3. UNCHANGED Granted
  <2>1. req[r] \notin RowRequest
    BY DEF CommitCreate, CreateRequest, RowRequest, RowOps
  <2> QED
    BY <2>1, EndReleases DEF CommitCreate, IInv
<1>4. Workflow!Draft(id, Pay(set))
  BY <1>1, <1>3 DEF Workflow!Draft, Book, Pay
<1> QED
  BY <1>2, <1>4 DEF Workflow!Next

\* The service implements the workflow, however many requests overlap.
THEOREM ServiceImplementsTheWorkflow == Spec => ImplementsWorkflow
<1>1. Init => Workflow!Init
  BY NullsAssumption DEF Init, Workflow!Init, Book, Granted, Request
<1>2. ASSUME IInv, [Next]_vars PROVE [Workflow!Next]_(Workflow!vars)
  <2>1. ASSUME NEW r \in Requests, Ask(r) PROVE [Workflow!Next]_(Workflow!vars)
    BY <1>2, <2>1, AskStarts, StartIsAWorkflowStep
  <2>2. ASSUME NEW r \in Requests, Answer(r) PROVE [Workflow!Next]_(Workflow!vars)
    <3>1. ASSUME NEW id \in RecordIds, CommitCreate(r, id)
          PROVE  [Workflow!Next]_(Workflow!vars)
      BY <1>2, <3>1, CommitCreateIsAWorkflowStep
    <3>2. CASE CommitRow(r)
      BY <1>2, <3>2, CommitRowIsAWorkflowStep
    <3>3. CASE RefuseCreate(r) \/ RefuseRow(r) \/ CommitDeleteSenior(r) \/ Abort(r)
      BY <1>2, <3>3, EndIsAWorkflowStep
         DEF RefuseCreate, RefuseRow, CommitDeleteSenior, Abort, IInv
    <3> QED
      BY <2>2, <3>1, <3>2, <3>3 DEF Answer
  <2>3. CASE UNCHANGED vars
    BY <2>3 DEF vars, Book, Granted, Workflow!vars
  <2> QED
    BY <1>2, <2>1, <2>2, <2>3 DEF Next
<1> QED
  BY <1>1, <1>2, Invariance, PTL DEF Spec, ImplementsWorkflow, Workflow!Spec
=============================================================================
