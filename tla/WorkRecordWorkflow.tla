------------------------- MODULE WorkRecordWorkflow -------------------------
(***************************************************************************)
(* What the monthly work record workflow promises to requests that         *)
(* overlap.  A request first asks for an operation, and is granted it only *)
(* when the status of the record permits the operation at that moment;     *)
(* later it carries the operation out, on whatever the record has become,  *)
(* or forgets it.  Carrying it out changes what the operation is about and *)
(* nothing else: an edit the pay, a move the status, a withdrawal (soft    *)
(* deletion) the liveness, and withdrawn records never come back.          *)
(*                                                                         *)
(* The permissions are those of the documentation: a draft is edited and   *)
(* submitted, and so is a rejected record (routers/work_records.py:244);   *)
(* a submitted record gets a decision.                                     *)
(***************************************************************************)
CONSTANTS RecordIds, Pays, Requests

VARIABLES
  book,    \* id of a record ever created -> [status, pay, live]
  granted  \* request -> the operation it was granted, for those that hold one

vars == <<book, granted>>

Status == {"DRAFT", "SUBMITTED", "APPROVED", "REJECTED"}
Ops    == {"update", "submit", "approve", "reject", "delete"}

Permitted(op) ==
  CASE op \in {"update", "submit"}  -> {"DRAFT", "REJECTED"}
    [] op \in {"approve", "reject"} -> {"SUBMITTED"}
    [] op = "delete"                -> Status

Effect(op, old, new) ==
  CASE op = "update"  -> \E pay \in Pays : new = [old EXCEPT !.pay = pay]
    [] op = "submit"  -> new = [old EXCEPT !.status = "SUBMITTED"]
    [] op = "approve" -> new = [old EXCEPT !.status = "APPROVED"]
    [] op = "reject"  -> new = [old EXCEPT !.status = "REJECTED"]
    [] op = "delete"  -> new = [status |-> old.status, pay |-> old.pay, live |-> FALSE]

Release(r) == granted' = [p \in DOMAIN granted \ {r} |-> granted[p]]

Init ==
  /\ book = [id \in {} |-> {}]
  /\ granted = [r \in {} |-> {}]

Draft(id, pay) ==
  /\ id \notin DOMAIN book
  /\ book' = [i \in DOMAIN book \union {id} |->
                IF i = id THEN [status |-> "DRAFT", pay |-> pay, live |-> TRUE]
                          ELSE book[i]]
  /\ UNCHANGED granted

Grant(r, op, id) ==
  /\ r \notin DOMAIN granted
  /\ id \in DOMAIN book
  /\ book[id].live
  /\ book[id].status \in Permitted(op)
  /\ granted' = [p \in DOMAIN granted \union {r} |->
                   IF p = r THEN [op |-> op, id |-> id] ELSE granted[p]]
  /\ UNCHANGED book

CarryOut(r) ==
  /\ r \in DOMAIN granted
  /\ LET id == granted[r].id
     IN  /\ DOMAIN book' = DOMAIN book
         /\ Effect(granted[r].op, book[id], book'[id])
         /\ \A i \in DOMAIN book \ {id} : book'[i] = book[i]
  /\ Release(r)

Renounce(r) ==
  /\ r \in DOMAIN granted
  /\ Release(r)
  /\ UNCHANGED book

Next ==
  \/ \E id \in RecordIds, pay \in Pays : Draft(id, pay)
  \/ \E r \in Requests :
       \/ \E op \in Ops, id \in RecordIds : Grant(r, op, id)
       \/ CarryOut(r)
       \/ Renounce(r)

Spec == Init /\ [][Next]_vars
=============================================================================
