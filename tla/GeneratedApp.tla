------------------------------ MODULE GeneratedApp ------------------------------
(***************************************************************************)
(* The backend the engineer agent writes (the templates of                 *)
(* agents/backend_agent.py): accounts, and items that belong to them.  A   *)
(* call is one HTTP request; each runs in a database session of its own,   *)
(* and two calls interleave between their queries (READ COMMITTED).        *)
(*                                                                         *)
(* The database starts with one account and one item of it.                *)
(***************************************************************************)
EXTENDS Naturals, FiniteSets

CONSTANTS
  Call,      \* the requests
  Email,     \* addresses
  Status,    \* values of an item's field
  FirstItem  \* the id of the first account, and of the first item

ASSUME AppAssumption == FirstItem \notin Call /\ Email # {} /\ Status # {}

VARIABLES
  accounts,  \* rows of users
  items,     \* items[i]: the row with id i, {} if there is none
  op,        \* op[c]: what c asks for
  pc,        \* pc[c]: its next query
  loaded,    \* loaded[c]: the status c's session read
  answer     \* answer[c]: the status code, 0 before

appVars == <<accounts, items, op, pc, loaded, answer>>

Id == Call \union {FirstItem}       \* a row's id is the call that inserted it
NoStatus == "none"
Row == [owner : Id, status : Status]

OfAccounts == [kind : {"register", "login"}, email : Email]
OfItems ==
  [kind : {"create", "update"}, user : Id, item : Id, status : Status]
    \union [kind : {"get", "delete", "list"}, user : Id, item : Id]
NoOp == [kind |-> "none"]

Running == {"check", "insert", "login", "auth", "create", "load", "list", "commit", "refresh"}

AppTypeOK ==
  /\ accounts \subseteq [id : Id, email : Email]
  /\ items \in [Id -> SUBSET Row] /\ \A i \in Id : Cardinality(items[i]) <= 1
  /\ op \in [Call -> OfAccounts \union OfItems \union {NoOp}]
  /\ pc \in [Call -> {"idle", "done"} \union Running]
  /\ loaded \in [Call -> Status \union {NoStatus}]
  /\ answer \in [Call -> {0, 200, 201, 204, 400, 401, 404, 500}]
  /\ \A c \in Call : pc[c] = "done" <=> answer[c] # 0
  /\ \A i \in Id : \A row \in items[i] : \E a \in accounts : a.id = row.owner

AppInit ==
  /\ \E e \in Email, s \in Status :
       /\ accounts = {[id |-> FirstItem, email |-> e]}
       /\ items = [i \in Id |-> IF i = FirstItem THEN {[owner |-> FirstItem, status |-> s]} ELSE {}]
  /\ op = [c \in Call |-> NoOp]
  /\ pc = [c \in Call |-> "idle"]
  /\ loaded = [c \in Call |-> NoStatus]
  /\ answer = [c \in Call |-> 0]

Goto(c, from, to) == pc[c] = from /\ pc' = [pc EXCEPT ![c] = to] /\ UNCHANGED answer
Answer(c, from, code) ==
  pc[c] = from /\ pc' = [pc EXCEPT ![c] = "done"] /\ answer' = [answer EXCEPT ![c] = code]

--------------------------------------------------------------------------------
(***************************************************************************)
(* A request comes.  What is about items carries the token of an account,  *)
(* for an item whose id the client has seen or not.                        *)
(***************************************************************************)
Begin(c) ==
  /\ \/ \E o \in OfAccounts :
           /\ op' = [op EXCEPT ![c] = o]
           /\ Goto(c, "idle", IF o.kind = "register" THEN "check" ELSE "login")
     \/ \E o \in OfItems :
           /\ \E a \in accounts : a.id = o.user
           /\ o.kind \in {"create", "list"} => o.item = FirstItem     \* they name no item
           /\ op' = [op EXCEPT ![c] = o]
           /\ Goto(c, "idle", "auth")
  /\ UNCHANGED <<accounts, items, loaded>>

Registered(e) == \E a \in accounts : a.email = e

(***************************************************************************)
(* register: one query looks for the address, a later one inserts the row; *)
(* a row that came between is found by the unique index, which nothing in  *)
(* the router catches: 500.                                                *)
(***************************************************************************)
CheckEmail(c) ==
  /\ pc[c] = "check"
  /\ IF Registered(op[c].email) THEN Answer(c, "check", 400) ELSE Goto(c, "check", "insert")
  /\ UNCHANGED <<accounts, items, loaded, op>>

\* Mutant of InsertUser: the column is not unique.
InsertUnchecked(c) ==
  /\ Goto(c, "insert", "refresh")
  /\ accounts' = accounts \union {[id |-> c, email |-> op[c].email]}
  /\ UNCHANGED <<items, loaded, op>>

InsertUser(c) ==
  /\ pc[c] = "insert"
  /\ \/ /\ Registered(op[c].email)
        /\ Answer(c, "insert", 500)
        /\ UNCHANGED accounts
     \/ /\ ~Registered(op[c].email)
        /\ Goto(c, "insert", "refresh")
        /\ accounts' = accounts \union {[id |-> c, email |-> op[c].email]}
  /\ UNCHANGED <<items, loaded, op>>

(***************************************************************************)
(* login: 401 for an unknown address and for a wrong password alike.       *)
(***************************************************************************)
Login(c) ==
  /\ pc[c] = "login"
  /\ \/ Registered(op[c].email) /\ Answer(c, "login", 200)
     \/ Answer(c, "login", 401)
  /\ UNCHANGED <<accounts, items, loaded, op>>

\* The row an item's request is about, as a set: the id's, if the caller owns it.
Own(c) == {row \in items[op[c].item] : row.owner = op[c].user}

(***************************************************************************)
(* get_current_user: an account is never removed nor made inactive, so     *)
(* only a token that has expired is refused.  The account's items are      *)
(* loaded with it into the request's session, which keeps them: the later  *)
(* query of an item finds this copy of it, whatever the row is by then.    *)
(***************************************************************************)
Authenticate(c) ==
  /\ pc[c] = "auth"
  /\ \/ /\ op[c].kind \in {"create", "list"}
        /\ Goto(c, "auth", op[c].kind)
        /\ UNCHANGED loaded
     \/ /\ op[c].kind \in {"get", "update", "delete"}
        /\ Goto(c, "auth", "load")
        /\ \/ Own(c) = {} /\ UNCHANGED loaded
           \/ \E row \in Own(c) : loaded' = [loaded EXCEPT ![c] = row.status]
     \/ Answer(c, "auth", 401) /\ UNCHANGED loaded
  /\ UNCHANGED <<accounts, items, op>>

Create(c) ==
  /\ Goto(c, "create", "refresh")
  /\ items' = [items EXCEPT ![c] = {[owner |-> op[c].user, status |-> op[c].status]}]
  /\ UNCHANGED <<accounts, loaded, op>>

(***************************************************************************)
(* list_items answers with the caller's rows; it changes nothing.          *)
(***************************************************************************)
List(c) ==
  /\ Answer(c, "list", 200)
  /\ UNCHANGED <<accounts, items, loaded, op>>

(***************************************************************************)
(* get_item, update_item, delete_item: the row with the id and the owner.  *)
(***************************************************************************)
Load(c) ==
  /\ pc[c] = "load"
  /\ \/ Own(c) = {} /\ Answer(c, "load", 404) /\ UNCHANGED loaded
     \/ \E row \in Own(c) :
          /\ IF op[c].kind = "get" THEN Answer(c, "load", 200) ELSE Goto(c, "load", "commit")
          /\ loaded' = IF loaded[c] = NoStatus THEN [loaded EXCEPT ![c] = row.status] ELSE loaded
  /\ UNCHANGED <<accounts, items, op>>

\* Mutant of CommitUpdate: a row that is gone is inserted again.
CommitMerge(c) ==
  LET i == op[c].item IN
  /\ op[c].kind = "update"
  /\ Goto(c, "commit", "refresh")
  /\ items' = [items EXCEPT ![i] = {[owner |-> op[c].user, status |-> op[c].status]}]
  /\ UNCHANGED <<accounts, op, loaded>>

(***************************************************************************)
(* The session writes what differs from what it read, so that an update to *)
(* the value it read writes nothing.  If the row is gone the session       *)
(* raises.                                                                 *)
(***************************************************************************)
CommitUpdate(c) ==
  LET i == op[c].item IN
  /\ op[c].kind = "update"
  /\ \/ /\ op[c].status = loaded[c]
        /\ Goto(c, "commit", "refresh")
        /\ UNCHANGED items
     \/ /\ op[c].status # loaded[c] /\ items[i] = {}
        /\ Answer(c, "commit", 500)
        /\ UNCHANGED items
     \/ /\ op[c].status # loaded[c] /\ items[i] # {}
        /\ Goto(c, "commit", "refresh")
        /\ items' = [items EXCEPT ![i] = {[row EXCEPT !.status = op[c].status] : row \in @}]
  /\ UNCHANGED <<accounts, op, loaded>>

(***************************************************************************)
(* A row another call deleted meanwhile is only a warning.                 *)
(***************************************************************************)
CommitDelete(c) ==
  /\ op[c].kind = "delete"
  /\ Answer(c, "commit", 204)
  /\ items' = [items EXCEPT ![op[c].item] = {}]
  /\ UNCHANGED <<accounts, loaded, op>>

(***************************************************************************)
(* After the commit the row is read again for the answer, and may be gone. *)
(***************************************************************************)
Refresh(c) ==
  LET i == IF op[c].kind = "create" THEN c ELSE op[c].item IN
  /\ pc[c] = "refresh"
  /\ \/ op[c].kind = "register" /\ Answer(c, "refresh", 201)
     \/ op[c].kind # "register" /\ items[i] = {} /\ Answer(c, "refresh", 500)
     \/ op[c].kind = "create" /\ items[i] # {} /\ Answer(c, "refresh", 201)
     \/ op[c].kind = "update" /\ items[i] # {} /\ Answer(c, "refresh", 200)
  /\ UNCHANGED <<accounts, items, op, loaded>>

(***************************************************************************)
(* A query or the commit fails: the session rolls back.                    *)
(***************************************************************************)
QueryFails(c) ==
  /\ \E from \in Running : Answer(c, from, 500)
  /\ UNCHANGED <<accounts, items, loaded, op>>

AppNext == \E c \in Call :
  \/ Begin(c) \/ CheckEmail(c) \/ InsertUser(c) \/ Login(c) \/ Authenticate(c) \/ Create(c)
  \/ List(c) \/ Load(c) \/ CommitUpdate(c) \/ CommitDelete(c) \/ Refresh(c) \/ QueryFails(c)

AppSpec == AppInit /\ [][AppNext]_appVars

--------------------------------------------------------------------------------
(***************************************************************************)
(* An address has one account, and of the registrations of one address at  *)
(* most one is answered 201, however their queries interleave.             *)
(***************************************************************************)
OneAccountPerEmail ==
  /\ \A a, b \in accounts : a.email = b.email => a = b
  /\ \A c, d \in Call :
       op[c].kind = "register" /\ op[d].kind = "register" /\ answer[c] = 201 /\ answer[d] = 201
         => c = d \/ op[c].email # op[d].email

(***************************************************************************)
(* An item whose deletion was answered 204 does not come back, though an   *)
(* update that had read it commits afterwards.                             *)
(***************************************************************************)
DeletedStays ==
  \A c \in Call : op[c].kind = "delete" /\ answer[c] = 204 => items[op[c].item] = {}
================================================================================
