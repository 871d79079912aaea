------------------------------- MODULE Catalog -------------------------------
(***************************************************************************)
(* The configuration tables and their nine services: validate, search for  *)
(* a duplicate, save, all over HTTP and with an await between every two of *)
(* these. The services have one shape and differ in what they check, so    *)
(* one module models them, with the kind of the table chosen in Init:      *)
(*   "plain"     environment_type and state_type, which refer to nothing   *)
(*   "keyed"     portfolio_type, lawyer_data and data_bases                *)
(*   and amount_type, company_type, holiday, portfolio_city_config.        *)
(* attention_schedule, with checks of its own, is AttentionSchedule.       *)
(*                                                                         *)
(* A row is its unique key, the key its service searches for, and the row  *)
(* of another table it refers to. The tables are InnoDB: a statement       *)
(* breaking a unique or a foreign key is refused.                          *)
(***************************************************************************)
EXTENDS Integers

CONSTANTS
    Kinds,    \* the kinds of table considered
    Keys,     \* values of a key
    Parents,  \* ids of the table referred to (state_type, portfolio_type, ...)
    Ids,      \* ids of the table: AUTO_INCREMENT, never used twice
    Callers,  \* HTTP calls in progress at once
    None      \* no row, no reference

AllKinds == {"plain", "keyed", "amount_type", "company_type", "holiday",
             "portfolio_city_config"}

ASSUME CatalogAssumption ==
    /\ Kinds \subseteq AllKinds
    /\ Ids \subseteq Nat \ {0}
    /\ None \notin Parents /\ None \notin Callers

\* company_type searches for portfolio, format and document number, while its
\* unique key is the type and number of the document; elsewhere the two agree.
RowsOf(k) ==
    {r \in [key : Keys, searched : Keys, ref : Parents \cup {None}] :
        /\ k # "company_type" => r.searched = r.key
        /\ k = "plain" <=> r.ref = None}

Rows == UNION {RowsOf(k) : k \in Kinds}

ASSUME NoneAssumption == None \notin Rows

\* The checks of each service.
SearchesOnCreate(k) == k # "holiday"
SearchesOnUpdate(k) == k \in {"amount_type", "portfolio_city_config"}
RefersOnUpdate(k)   == k = "portfolio_city_config"
RereadsState(k)     == k = "portfolio_city_config"

\* The body of a POST may carry an id, and these spread the body into what they
\* save. (Of the kind "plain" state_type does, of "keyed" portfolio_type and
\* lawyer_data.)
TakesId(k) == k # "portfolio_city_config"

VARIABLES
    kind,     \* the kind of the table; never changes
    table,    \* its rows
    lastId,   \* AUTO_INCREMENT
    parents,  \* the rows that may be referred to
    at,       \* where each call is
    op,       \* its method: "create", "update" or "delete"
    id,       \* the id in its URL, or in the body of a POST
    req,      \* the row its body describes
    changed,  \* hasChanges: its body differs from the row it found
    answer,   \* how the service ended, until the caller calls again
    raced     \* history: another call wrote while this one was in progress

body == <<id, req, changed>>
data == <<table, lastId, parents>>
vars == <<kind, table, lastId, parents, at, op, id, req, changed, answer, raced>>

At      == {"idle", "find", "refs", "search", "save", "reread", "delete"}
Answers == {"none", "ok", "400", "404", "409", "500"}

Present == {i \in Ids : table[i] # None}

Goto(c, p) == at' = [at EXCEPT ![c] = p]

Reply(c, a) ==
    /\ Goto(c, "idle")
    /\ id' = [id EXCEPT ![c] = 0]
    /\ req' = [req EXCEPT ![c] = None]
    /\ changed' = [changed EXCEPT ![c] = FALSE]
    /\ answer' = [answer EXCEPT ![c] = a]

\* The call goes on to its next await.
Await(c, p) == Goto(c, p) /\ UNCHANGED <<body, answer>>

\* A write of c (or of another table's service, c = None) is a race for every
\* other call in progress.
Race(c) == raced' = [d \in Callers |-> raced[d] \/ (d # c /\ at[d] # "idle")]

Init ==
    /\ kind \in Kinds
    /\ table = [i \in Ids |-> None]
    /\ lastId = 0
    /\ parents \in SUBSET Parents
    /\ at = [c \in Callers |-> "idle"]
    /\ op = [c \in Callers |-> "create"]
    /\ id = [c \in Callers |-> 0]
    /\ req = [c \in Callers |-> None]
    /\ changed = [c \in Callers |-> FALSE]
    /\ answer = [c \in Callers |-> "none"]
    /\ raced = [c \in Callers |-> FALSE]

----------------------------------------------------------------------------
Request(c, o, i, r, p) ==
    /\ at[c] = "idle"
    /\ op' = [op EXCEPT ![c] = o]
    /\ id' = [id EXCEPT ![c] = i]
    /\ req' = [req EXCEPT ![c] = r]
    /\ changed' = [changed EXCEPT ![c] = FALSE]
    /\ answer' = [answer EXCEPT ![c] = "none"]
    /\ raced' = [raced EXCEPT ![c] = FALSE]
    /\ Goto(c, p)
    /\ UNCHANGED <<kind, data>>

Post(c) ==
    \E r \in RowsOf(kind), i \in (IF TakesId(kind) THEN Ids ELSE {}) \cup {0} :
       Request(c, "create", i, r, "refs")

Put(c)    == \E r \in RowsOf(kind), i \in Ids : Request(c, "update", i, r, "find")
Remove(c) == \E i \in Ids : Request(c, "delete", i, None, "find")

\* Mutant: update saves without looking for the row.
FindBlindly(c) ==
    /\ at[c] = "find"
    /\ \/ id[c] \notin Present /\ op[c] = "delete" /\ Reply(c, "404")
       \/ id[c] \in Present /\ op[c] = "delete" /\ Await(c, "delete")
       \/ op[c] = "update" /\ Await(c, "save")
    /\ UNCHANGED <<kind, data, op, raced>>

\* The row that an update finds decides, without another await, whether there
\* is anything to change (here, or in a column that is no key: "other") and
\* whether amount_type searches for its key; portfolio_city_config tests the
\* change only after its search.
FoundForUpdate(c) ==
    \E other \in BOOLEAN :
       LET differs == other \/ table[id[c]] # req[c]
           rekeyed == table[id[c]].key # req[c].key
       IN  \/ /\ RefersOnUpdate(kind)
              /\ Goto(c, "refs")
              /\ changed' = [changed EXCEPT ![c] = differs]
              /\ UNCHANGED <<id, req, answer>>
           \/ ~RefersOnUpdate(kind) /\ ~differs /\ Reply(c, "400")
           \/ /\ ~RefersOnUpdate(kind) /\ differs
              /\ Goto(c, IF SearchesOnUpdate(kind) /\ rekeyed THEN "search" ELSE "save")
              /\ changed' = [changed EXCEPT ![c] = TRUE]
              /\ UNCHANGED <<id, req, answer>>

\* findById of update and delete.
Find(c) ==
    /\ at[c] = "find"
    /\ \/ id[c] \notin Present /\ Reply(c, "404")
       \/ id[c] \in Present /\ op[c] = "delete" /\ Await(c, "delete")
       \/ id[c] \in Present /\ op[c] = "update" /\ FoundForUpdate(c)
    /\ UNCHANGED <<kind, data, op, raced>>

\* The rows referred to are read, one after the other; one read stands for all,
\* and for none where a table refers to nothing.
Refs(c) ==
    /\ at[c] = "refs"
    /\ IF req[c].ref \in parents \cup {None}
         THEN Await(c, IF op[c] = "create" /\ ~SearchesOnCreate(kind)
                         THEN "save" ELSE "search")
         ELSE Reply(c, "404")
    /\ UNCHANGED <<kind, data, op, raced>>

Duplicate(c) ==
    \E j \in Present :
       table[j].searched = req[c].searched /\ (op[c] = "update" => j # id[c])

\* Mutant: create does not search.
SearchNothing(c) ==
    /\ at[c] = "search"
    /\ \/ op[c] = "create" /\ Await(c, "save")
       \/ op[c] = "update" /\ Duplicate(c) /\ Reply(c, "409")
       \/ op[c] = "update" /\ ~Duplicate(c) /\ ~changed[c] /\ Reply(c, "400")
       \/ op[c] = "update" /\ ~Duplicate(c) /\ changed[c] /\ Await(c, "save")
    /\ UNCHANGED <<kind, data, op, raced>>

\* findByDuplicate, findByDataBasesAndCityViews or findAll().find.
Search(c) ==
    /\ at[c] = "search"
    /\ \/ Duplicate(c) /\ Reply(c, "409")
       \/ ~Duplicate(c) /\ op[c] = "update" /\ ~changed[c] /\ Reply(c, "400")
       \/ ~Duplicate(c) /\ (op[c] = "create" \/ changed[c]) /\ Await(c, "save")
    /\ UNCHANGED <<kind, data, op, raced>>

----------------------------------------------------------------------------
(* The statements that write, and the database's refusal of them. *)

\* The keys of the migrations: row r may be stored under id i.
Accepts(r, i) ==
    /\ \A j \in Present \ {i} : table[j].key # r.key
    /\ r.ref \in parents \cup {None}

Saved(c) ==
    /\ IF RereadsState(kind) THEN Await(c, "reread") ELSE Reply(c, "ok")
    /\ Race(c)
    /\ UNCHANGED <<kind, parents, op>>

\* The id of the row that is saved; a POST without one gets the next.
Target(c) == IF op[c] = "create" /\ id[c] = 0 THEN lastId + 1 ELSE id[c]

\* repo.save of a POST: with an id it writes over the row that has it, or inserts
\* one with that id, a deleted row's too, and AUTO_INCREMENT goes on from there.
Insert(c) ==
    /\ at[c] = "save" /\ op[c] = "create"
    /\ Target(c) \in Ids
    /\ Accepts(req[c], Target(c))
    /\ lastId' = IF Target(c) > lastId THEN Target(c) ELSE lastId
    /\ table' = [table EXCEPT ![Target(c)] = req[c]]
    /\ Saved(c)

\* repo.save of the whole row: a row deleted meanwhile is inserted again with
\* its id.
SaveRow(c) ==
    /\ at[c] = "save" /\ op[c] = "update"
    /\ Accepts(req[c], id[c])
    /\ table' = [table EXCEPT ![id[c]] = req[c]]
    /\ Saved(c)
    /\ UNCHANGED lastId

\* A refused statement is answered as an internal error.
Refused(c) ==
    /\ at[c] = "save"
    /\ ~Accepts(req[c], Target(c))
    /\ Reply(c, "500")
    /\ UNCHANGED <<kind, data, op, raced>>

\* portfolio_city_config reads the state of the row it saved for its answer.
Reread(c) ==
    /\ at[c] = "reread"
    /\ Reply(c, IF req[c].ref \in parents THEN "ok" ELSE "500")
    /\ UNCHANGED <<kind, data, op, raced>>

DeleteRow(c) ==
    /\ at[c] = "delete"
    /\ table' = [table EXCEPT ![id[c]] = None]
    /\ Reply(c, "ok")
    /\ Race(c)
    /\ UNCHANGED <<kind, lastId, parents, op>>

\* A row of these tables may be referred to by others, which the model does not
\* hold.
DeleteRefused(c) ==
    /\ at[c] = "delete"
    /\ kind \in {"plain", "keyed"}
    /\ id[c] \in Present
    /\ Reply(c, "500")
    /\ UNCHANGED <<kind, data, op, raced>>

\* The services of the other tables add rows and delete those nothing refers to.
OtherTables(p) ==
    /\ \/ p \notin parents /\ parents' = parents \cup {p}
       \/ /\ p \in parents
          /\ \A i \in Present : table[i].ref # p
          /\ parents' = parents \ {p}
    /\ Race(None)
    /\ UNCHANGED <<kind, table, lastId, at, op, body, answer>>

Step(c) ==
    \/ Post(c) \/ Put(c) \/ Remove(c) \/ Find(c) \/ Refs(c) \/ Search(c)
    \/ Insert(c) \/ SaveRow(c) \/ Refused(c) \/ Reread(c)
    \/ DeleteRow(c) \/ DeleteRefused(c)

Next ==
    \/ \E c \in Callers : Step(c)
    \/ \E p \in Parents : OtherTables(p)

Spec == Init /\ [][Next]_vars

----------------------------------------------------------------------------
TypeOK ==
    /\ kind \in Kinds
    /\ table \in [Ids -> RowsOf(kind) \cup {None}]
    /\ lastId \in Nat
    /\ parents \in SUBSET Parents
    /\ at \in [Callers -> At]
    /\ op \in [Callers -> {"create", "update", "delete"}]
    /\ id \in [Callers -> Ids \cup {0}]
    /\ req \in [Callers -> RowsOf(kind) \cup {None}]
    /\ changed \in [Callers -> BOOLEAN]
    /\ answer \in [Callers -> Answers]
    /\ raced \in [Callers -> BOOLEAN]
    /\ \A c \in Callers :
          /\ at[c] # "idle" /\ op[c] # "create" => id[c] \in Ids
          /\ at[c] # "idle" /\ op[c] # "delete" => req[c] # None
          /\ at[c] \in {"refs", "search", "save", "reread"} => op[c] # "delete"
          /\ at[c] = "find" => op[c] # "create"
          /\ at[c] = "delete" => op[c] = "delete"
          /\ at[c] = "reread" => RereadsState(kind)

\* The services check so much beforehand that an internal error (of a database
\* that answers, for values that fit their columns: neither is modelled) needs
\* another call that wrote meanwhile - except where they check less than the
\* database:
\* the create of holiday and company_type, every update but that of
\* portfolio_city_config, and the delete of rows others refer to.
RefusalsAreRaces ==
    \A c \in Callers :
       answer[c] = "500" /\ ~raced[c] =>
          \/ op[c] = "create" /\ kind \in {"holiday", "company_type"}
          \/ op[c] = "update" /\ kind # "portfolio_city_config"
          \/ op[c] = "delete" /\ kind \in {"plain", "keyed"}

\* A PUT never makes a row where there was none, and a deleted row comes back only
\* by a PUT that had found it before the DELETE, or by a POST that gave its id,
\* which the documentation of the API leaves to the database.
ReturnsOnlyByRace ==
    [][\A i \in Ids :
          i \notin Present /\ table'[i] # None
             => \/ i = lastId + 1 /\ lastId' = i
                \/ \E c \in Callers :
                      /\ at[c] = "save" /\ id[c] = i
                      /\ \/ op[c] = "create" /\ TakesId(kind)
                         \/ op[c] = "update" /\ raced[c]]_vars
=============================================================================
