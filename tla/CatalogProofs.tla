---------------------------- MODULE CatalogProofs ----------------------------
(***************************************************************************)
(* The configuration tables for any number of rows, keys and overlapping   *)
(* calls: what the checks of a call established still holds when it saves, *)
(* unless another call wrote meanwhile.                                    *)
(***************************************************************************)
EXTENDS Catalog, TLAPS

\* What a call knows at each await while nothing has raced it: the row it
\* updates is there, what it refers to is there, its key is free.
Found(c) ==
    at[c] \in {"refs", "search", "save"} /\ op[c] = "update" /\ ~raced[c]
       => id[c] \in Present

Referable(c) ==
    \/ at[c] \in {"search", "save"} /\ (op[c] = "create" \/ RefersOnUpdate(kind))
    \/ at[c] = "reread"

RefThere(c) == Referable(c) /\ ~raced[c] => req[c].ref \in parents \cup {None}

Searched(c) ==
    /\ at[c] = "save"
    /\ kind \notin {"holiday", "company_type"}
    /\ op[c] = "create" \/ RefersOnUpdate(kind)

KeyFree(c) ==
    Searched(c) /\ ~raced[c] =>
       \A j \in Present :
          (op[c] = "update" => j # id[c]) => table[j].key # req[c].key

RefusalExplained(c) ==
    answer[c] = "500" /\ ~raced[c] =>
       \/ op[c] = "create" /\ kind \in {"holiday", "company_type"}
       \/ op[c] = "update" /\ kind # "portfolio_city_config"
       \/ op[c] = "delete" /\ kind \in {"plain", "keyed"}

CallInv(c) == Found(c) /\ RefThere(c) /\ KeyFree(c) /\ RefusalExplained(c)

\* An id in a POST is one its service passes on.
IdGiven(c) ==
    at[c] # "idle" /\ op[c] = "create" => id[c] = 0 \/ TakesId(kind)

IInv == TypeOK /\ \A c \in Callers : CallInv(c) /\ IdGiven(c)

LEMMA NoneIsNoRow == \A k \in Kinds : None \notin RowsOf(k)
  BY NoneAssumption DEF Rows

LEMMA RowFields ==
    \A k \in Kinds : \A r \in RowsOf(k) :
       /\ r.key \in Keys
       /\ r.ref \in Parents \cup {None}
       /\ k # "company_type" => r.searched = r.key
  BY DEF RowsOf

----------------------------------------------------------------------------
LEMMA InitType == Init => TypeOK
  BY CatalogAssumption DEF Init, TypeOK, At, Answers

LEMMA RequestType ==
    ASSUME TypeOK, NEW c \in Callers, Post(c) \/ Put(c) \/ Remove(c)
    PROVE  TypeOK'
<1>1. CASE Post(c)
  BY <1>1, NoneIsNoRow DEF TypeOK, Post, Request, data, Goto, At, Answers
<1>2. CASE Put(c)
  BY <1>2, NoneIsNoRow DEF TypeOK, Put, Request, data, Goto, At, Answers
<1>3. CASE Remove(c)
  BY <1>3 DEF TypeOK, Remove, Request, data, Goto, At, Answers
<1> QED BY <1>1, <1>2, <1>3

\* A call that only reads: it waits somewhere else, or is answered.
LEMMA ReadType ==
    ASSUME TypeOK, NEW c \in Callers, Find(c) \/ Refs(c) \/ Search(c) \/ Refused(c)
                                      \/ Reread(c) \/ DeleteRefused(c)
    PROVE  TypeOK'
<1>1. CASE Find(c)
  <2>1. CASE id[c] \notin Present /\ Reply(c, "404")
    BY <1>1, <2>1 DEF TypeOK, Find, Reply, data, Goto, At, Answers
  <2>2. CASE op[c] = "delete" /\ Await(c, "delete")
    BY <1>1, <2>2 DEF TypeOK, Find, Await, body, data, Goto, At, Answers
  <2>3. CASE op[c] = "update" /\ FoundForUpdate(c)
    <3>1. CASE Reply(c, "400")
      BY <1>1, <3>1 DEF TypeOK, Find, Reply, data, Goto, At, Answers
    <3>2. CASE /\ \E p \in {"refs", "search", "save"} : Goto(c, p)
               /\ \E b \in BOOLEAN : changed' = [changed EXCEPT ![c] = b]
               /\ UNCHANGED <<id, req, answer>>
      BY <1>1, <2>3, <3>2 DEF TypeOK, Find, data, Goto, At, Answers
    <3> QED BY <2>3, <3>1, <3>2 DEF FoundForUpdate
  <2> QED BY <1>1, <2>1, <2>2, <2>3 DEF Find
<1>2. CASE Refs(c)
  <2>1. CASE Await(c, "search") \/ Await(c, "save")
    BY <1>2, <2>1 DEF TypeOK, Refs, Await, body, data, Goto, At
  <2>2. CASE Reply(c, "404")
    BY <1>2, <2>2 DEF TypeOK, Refs, Reply, data, Goto, At, Answers
  <2> QED BY <1>2, <2>1, <2>2 DEF Refs
<1>3. CASE Search(c)
  BY <1>3 DEF TypeOK, Search, Await, Reply, body, data, Goto, At, Answers
<1>4. CASE Refused(c) \/ Reread(c) \/ DeleteRefused(c)
  BY <1>4 DEF TypeOK, Refused, Reread, DeleteRefused, Reply, data, Goto, At, Answers
<1> QED BY <1>1, <1>2, <1>3, <1>4

LEMMA SavedType ==
    ASSUME TypeOK, NEW c \in Callers, at[c] = "save", op[c] # "delete", Saved(c),
           table' \in [Ids -> RowsOf(kind) \cup {None}], lastId' \in Nat
    PROVE  TypeOK'
<1>1. raced' \in [Callers -> BOOLEAN]
  BY DEF Saved, Race
<1>2. CASE RereadsState(kind) /\ Await(c, "reread")
  BY <1>1, <1>2 DEF TypeOK, Saved, Await, body, Goto, At, RereadsState
<1>3. CASE Reply(c, "ok")
  BY <1>1, <1>3 DEF TypeOK, Saved, Reply, Goto, At, Answers, RereadsState
<1> QED BY <1>2, <1>3 DEF Saved

LEMMA WriteType ==
    ASSUME TypeOK, NEW c \in Callers, Insert(c) \/ SaveRow(c) \/ DeleteRow(c)
    PROVE  TypeOK'
<1>1. CASE Insert(c)
  BY <1>1, SavedType, CatalogAssumption DEF TypeOK, Insert
<1>2. CASE SaveRow(c)
  BY <1>2, SavedType DEF TypeOK, SaveRow
<1>3. CASE DeleteRow(c)
  BY <1>3 DEF TypeOK, DeleteRow, Reply, Race, Goto, At, Answers
<1> QED BY <1>1, <1>2, <1>3

LEMMA StepType == ASSUME TypeOK, NEW c \in Callers, Step(c) PROVE TypeOK'
  BY RequestType, ReadType, WriteType DEF Step

LEMMA OthersType ==
    ASSUME TypeOK, NEW p \in Parents, OtherTables(p) PROVE TypeOK'
  BY DEF TypeOK, OtherTables, Race, body

\* Types, and what a call at each await has been given: an id, a body.
THEOREM CatalogTypeCorrect == Spec => []TypeOK
<1>1. TypeOK /\ [Next]_vars => TypeOK'
  <2> SUFFICES ASSUME TypeOK, [Next]_vars PROVE TypeOK'
    OBVIOUS
  <2>1. CASE UNCHANGED vars
    BY <2>1 DEF TypeOK, vars
  <2> QED BY <2>1, StepType, OthersType DEF Next
<1> QED BY <1>1, InitType, PTL DEF Spec

----------------------------------------------------------------------------
\* What a step of c leaves to another call d: all that d remembers, and either
\* the tables as they were or the knowledge that it was raced.
LEMMA Frame ==
    ASSUME TypeOK, NEW c \in Callers, Step(c), NEW d \in Callers, d # c
    PROVE  /\ kind' = kind
           /\ at'[d] = at[d] /\ op'[d] = op[d] /\ id'[d] = id[d]
           /\ req'[d] = req[d] /\ answer'[d] = answer[d]
           /\ raced[d] => raced'[d]
           /\ \/ table' = table /\ parents' = parents
              \/ at[d] = "idle" \/ raced'[d]
<1>1. CASE Post(c) \/ Put(c) \/ Remove(c)
  BY <1>1 DEF TypeOK, Post, Put, Remove, Request, Goto, data
<1>2. CASE Find(c)
  BY <1>2 DEF TypeOK, Find, FoundForUpdate, Await, Reply, Goto, data, body
<1>3. CASE Refs(c) \/ Search(c) \/ Refused(c) \/ Reread(c) \/ DeleteRefused(c)
  BY <1>3 DEF TypeOK, Refs, Search, Refused, Reread, DeleteRefused, Await, Reply, Goto,
              data, body
<1>4. CASE Insert(c) \/ SaveRow(c) \/ DeleteRow(c)
  <2>1. raced[d] => raced'[d]
    BY <1>4 DEF Insert, SaveRow, DeleteRow, Saved, Race
  <2>2. at[d] = "idle" \/ raced'[d]
    BY <1>4 DEF Insert, SaveRow, DeleteRow, Saved, Race
  <2> QED
    BY <1>4, <2>1, <2>2 DEF TypeOK, Insert, SaveRow, DeleteRow, Saved, Await, Reply, Goto, body
<1> QED BY <1>1, <1>2, <1>3, <1>4 DEF Step

\* A call keeps what it knows while other calls step.
LEMMA OthersKeep ==
    ASSUME TypeOK, NEW c \in Callers, Step(c), NEW d \in Callers, d # c, CallInv(d)
    PROVE  CallInv(d)'
<1>1. /\ kind' = kind
      /\ at'[d] = at[d] /\ op'[d] = op[d] /\ id'[d] = id[d]
      /\ req'[d] = req[d] /\ answer'[d] = answer[d]
      /\ raced[d] => raced'[d]
      /\ \/ table' = table /\ parents' = parents
         \/ at[d] = "idle" \/ raced'[d]
  BY Frame
<1>2. RefusalExplained(d)'
  BY <1>1 DEF CallInv, RefusalExplained
<1>3. CASE table' = table /\ parents' = parents
  <2>1. Found(d)'
    BY <1>1, <1>3 DEF CallInv, Found, Present
  <2>2. RefThere(d)'
    BY <1>1, <1>3 DEF CallInv, RefThere, Referable, RefersOnUpdate
  <2>3. KeyFree(d)'
    BY <1>1, <1>3 DEF CallInv, KeyFree, Searched, RefersOnUpdate, Present
  <2> QED BY <1>2, <2>1, <2>2, <2>3 DEF CallInv
<1>4. CASE at[d] = "idle" \/ raced'[d]
  <2>1. ~Referable(d)' \/ raced'[d]
    BY <1>1, <1>4 DEF Referable
  <2>2. ~Searched(d)' \/ raced'[d]
    BY <1>1, <1>4 DEF Searched
  <2>3. Found(d)'
    BY <1>1, <1>4 DEF Found
  <2> QED BY <1>2, <2>1, <2>2, <2>3 DEF CallInv, RefThere, KeyFree
<1> QED BY <1>1, <1>3, <1>4

LEMMA OtherTablesKeep ==
    ASSUME TypeOK, NEW p \in Parents, OtherTables(p), NEW d \in Callers, CallInv(d)
    PROVE  CallInv(d)'
<1>1. /\ kind' = kind /\ table' = table
      /\ at'[d] = at[d] /\ op'[d] = op[d] /\ id'[d] = id[d]
      /\ req'[d] = req[d] /\ answer'[d] = answer[d]
  BY DEF OtherTables, body
<1>2. raced[d] => raced'[d]
  BY DEF OtherTables, Race
<1>3. at[d] = "idle" \/ raced'[d]
  BY CatalogAssumption DEF OtherTables, Race
<1>4. ~Referable(d)' \/ raced'[d]
  BY <1>1, <1>3 DEF Referable
<1>5. Found(d)' /\ KeyFree(d)' /\ RefusalExplained(d)'
  BY <1>1, <1>2 DEF CallInv, Found, KeyFree, Searched, RefusalExplained, Present
<1> QED BY <1>4, <1>5 DEF CallInv, RefThere

\* The steps of c itself: reads establish what it knows, writes end it.
LEMMA ReadsKnow ==
    ASSUME TypeOK, NEW c \in Callers, CallInv(c),
           Post(c) \/ Put(c) \/ Remove(c) \/ Find(c) \/ Refs(c) \/ Search(c)
    PROVE  CallInv(c)'
<1>1. CASE Post(c) \/ Put(c) \/ Remove(c)
  <2>1. at'[c] \in {"find", "refs"} /\ answer'[c] = "none"
    BY <1>1 DEF TypeOK, Post, Put, Remove, Request, Goto
  <2>2. at'[c] = "refs" => op'[c] = "create"
    BY <1>1 DEF TypeOK, Post, Put, Remove, Request, Goto
  <2> QED BY <2>1, <2>2 DEF CallInv, Found, RefThere, Referable, KeyFree, Searched,
                            RefusalExplained
<1>2. CASE at'[c] = "idle" /\ answer'[c] \in {"400", "404", "409"}
  BY <1>2 DEF CallInv, Found, RefThere, Referable, KeyFree, Searched, RefusalExplained
<1>3. CASE Find(c) /\ at'[c] # "idle"
  <2>1. /\ kind' = kind /\ table' = table /\ op' = op /\ id' = id /\ raced' = raced
        /\ answer' = answer /\ id[c] \in Present
        /\ op[c] # "create"
        /\ at'[c] = "delete" \/ at'[c] = "refs" \/ ~RefersOnUpdate(kind)
    BY <1>3 DEF TypeOK, Find, FoundForUpdate, Await, Reply, Goto, body, data
  <2>2. at'[c] \in {"delete", "refs", "search", "save"}
    BY <1>3 DEF TypeOK, Find, FoundForUpdate, Await, Reply, Goto
  <2> QED BY <2>1, <2>2 DEF CallInv, Found, RefThere, Referable, KeyFree, Searched,
                            RefusalExplained, Present, RefersOnUpdate
<1>4. CASE Refs(c) /\ at'[c] # "idle"
  <2>1. /\ kind' = kind /\ table' = table /\ op' = op /\ id' = id /\ raced' = raced
        /\ answer' = answer /\ req' = req /\ parents' = parents
        /\ req[c].ref \in parents \cup {None}
        /\ at[c] = "refs"
    BY <1>4 DEF TypeOK, Refs, Await, Reply, Goto, body, data
  <2>2. \/ at'[c] = "search"
        \/ at'[c] = "save" /\ kind = "holiday"
    BY <1>4 DEF TypeOK, Refs, Await, Reply, Goto, SearchesOnCreate
  <2> QED BY <2>1, <2>2 DEF CallInv, Found, RefThere, Referable, KeyFree, Searched,
                            RefusalExplained, Present, RefersOnUpdate
<1>5. CASE Search(c) /\ at'[c] # "idle"
  <2>1. /\ kind' = kind /\ table' = table /\ op' = op /\ id' = id /\ raced' = raced
        /\ answer' = answer /\ req' = req /\ parents' = parents
        /\ ~Duplicate(c)
        /\ at[c] = "search" /\ at'[c] = "save"
    BY <1>5 DEF TypeOK, Search, Await, Reply, Goto, body, data
  <2>2. KeyFree(c)'
    <3>1. SUFFICES ASSUME kind # "company_type", NEW j \in Present,
                          op[c] = "update" => j # id[c]
                   PROVE  table[j].key # req[c].key
      BY <2>1 DEF KeyFree, Searched, Present
    <3>2. table[j].searched # req[c].searched
      BY <2>1, <3>1 DEF Duplicate
    <3>3. table[j] \in RowsOf(kind) /\ req[c] \in RowsOf(kind)
      BY <2>1, <3>1 DEF TypeOK, Present
    <3> QED BY <3>1, <3>2, <3>3, RowFields DEF TypeOK
  <2> QED BY <2>1, <2>2 DEF CallInv, Found, RefThere, Referable,
                            RefusalExplained, Present, RefersOnUpdate
<1>6. Find(c) \/ Refs(c) \/ Search(c) => at'[c] # "idle" \/ answer'[c] \in {"400", "404", "409"}
  BY DEF TypeOK, Find, FoundForUpdate, Refs, Search, Await, Reply, Goto
<1> QED BY <1>1, <1>2, <1>3, <1>4, <1>5, <1>6

\* The database refuses a row only where the service had not checked as much,
\* or was raced.
LEMMA RefusedExplained ==
    ASSUME TypeOK, NEW c \in Callers, CallInv(c), Refused(c)
    PROVE  RefusalExplained(c)'
<1>1. /\ kind' = kind /\ op' = op /\ raced' = raced
      /\ at[c] = "save" /\ op[c] \in {"create", "update"}
  BY DEF TypeOK, Refused
<1>2. CASE op[c] = "create" /\ kind \in {"holiday", "company_type"}
  BY <1>1, <1>2 DEF RefusalExplained
<1>3. CASE op[c] = "update" /\ kind # "portfolio_city_config"
  BY <1>1, <1>3 DEF RefusalExplained
<1>4. CASE /\ op[c] = "create" => kind \notin {"holiday", "company_type"}
           /\ op[c] = "update" => kind = "portfolio_city_config"
  <2>1. SUFFICES ASSUME ~raced[c] PROVE FALSE
    BY <1>1 DEF RefusalExplained
  <2>2. req[c].ref \in parents \cup {None}
    BY <1>1, <1>4, <2>1 DEF CallInv, RefThere, Referable, RefersOnUpdate
  <2>3. \A j \in Present : (op[c] = "update" => j # id[c]) => table[j].key # req[c].key
    BY <1>1, <1>4, <2>1 DEF CallInv, KeyFree, Searched, RefersOnUpdate
  <2>4. Accepts(req[c], Target(c))
    BY <1>1, <2>2, <2>3 DEF Accepts, Target
  <2> QED BY <2>4 DEF Refused
<1> QED BY <1>1, <1>2, <1>3, <1>4

LEMMA WritesKnow ==
    ASSUME TypeOK, NEW c \in Callers, CallInv(c),
           Insert(c) \/ SaveRow(c) \/ Refused(c) \/ Reread(c) \/ DeleteRow(c) \/ DeleteRefused(c)
    PROVE  CallInv(c)'
<1>1. CASE Insert(c) \/ SaveRow(c)
  <2>1. /\ kind' = kind /\ parents' = parents
        /\ req[c].ref \in parents \cup {None}
    BY <1>1 DEF Insert, SaveRow, Saved, Accepts
  <2>2. \/ at'[c] = "idle" /\ answer'[c] = "ok"
        \/ /\ at'[c] = "reread" /\ req'[c] = req[c] /\ answer'[c] = answer[c]
           /\ op'[c] = op[c]
    BY <1>1 DEF TypeOK, Insert, SaveRow, Saved, Await, Reply, Goto, body
  <2>3. raced'[c] = raced[c]
    BY <1>1 DEF TypeOK, Insert, SaveRow, Saved, Race
  <2> QED BY <2>1, <2>2, <2>3 DEF CallInv, Found, RefThere, Referable, KeyFree, Searched,
                                  RefusalExplained
<1>2. CASE Refused(c)
  <2>1. at'[c] = "idle"
    BY <1>2 DEF TypeOK, Refused, Reply, Goto
  <2>2. RefusalExplained(c)'
    BY <1>2, RefusedExplained
  <2> QED BY <2>1, <2>2 DEF CallInv, Found, RefThere, Referable, KeyFree, Searched
<1>3. CASE Reread(c)
  <2>1. /\ at'[c] = "idle" /\ kind' = kind /\ op' = op /\ raced' = raced
        /\ answer'[c] = IF req[c].ref \in parents THEN "ok" ELSE "500"
    BY <1>3 DEF TypeOK, Reread, Reply, Goto
  <2>2. raced[c] \/ req[c].ref \in parents \cup {None}
    BY <1>3 DEF CallInv, RefThere, Referable, Reread
  <2>3. kind = "portfolio_city_config" /\ req[c] \in RowsOf(kind)
    BY <1>3 DEF TypeOK, Reread, RereadsState
  <2>4. req[c].ref # None
    BY <2>3 DEF RowsOf
  <2>5. answer'[c] = "500" => raced'[c]
    BY <2>1, <2>2, <2>4
  <2> QED BY <2>1, <2>5 DEF CallInv, Found, RefThere, Referable, KeyFree, Searched,
                            RefusalExplained
<1>4. CASE DeleteRow(c) \/ DeleteRefused(c)
  <2>1. /\ at'[c] = "idle" /\ kind' = kind /\ op' = op /\ op[c] = "delete"
        /\ answer'[c] = "ok" \/ kind \in {"plain", "keyed"}
    BY <1>4 DEF TypeOK, DeleteRow, DeleteRefused, Reply, Goto
  <2> QED BY <2>1 DEF CallInv, Found, RefThere, Referable, KeyFree, Searched, RefusalExplained
<1> QED BY <1>1, <1>2, <1>3, <1>4

\* An id in a body was there from the beginning of its call.
LEMMA IdsKeep ==
    ASSUME TypeOK, NEW c \in Callers, Step(c), NEW d \in Callers, IdGiven(d)
    PROVE  IdGiven(d)'
<1>1. CASE d # c
  <2>1. kind' = kind /\ at'[d] = at[d] /\ op'[d] = op[d] /\ id'[d] = id[d]
    BY <1>1, Frame
  <2> QED BY <2>1 DEF IdGiven, TakesId
<1>2. CASE d = c
  <2>1. CASE Post(c)
    <3>1. /\ kind' = kind /\ id'[c] \in (IF TakesId(kind) THEN Ids ELSE {}) \cup {0}
      BY <2>1 DEF TypeOK, Post, Request
    <3> QED BY <1>2, <3>1 DEF IdGiven, TakesId
  <2>2. CASE Put(c) \/ Remove(c)
    <3>1. op'[c] # "create"
      BY <2>2 DEF TypeOK, Put, Remove, Request
    <3> QED BY <1>2, <3>1 DEF IdGiven
  <2>3. CASE ~(Post(c) \/ Put(c) \/ Remove(c))
    <3>1. kind' = kind /\ op' = op
      BY <2>3 DEF Step, Find, Refs, Search, Insert, SaveRow, Saved, Refused, Reread, DeleteRow,
                  DeleteRefused
    <3>2. at'[c] = "idle" \/ (at[c] # "idle" /\ id'[c] = id[c])
      BY <2>3 DEF TypeOK, Step, Find, FoundForUpdate, Refs, Search, Insert, SaveRow, Saved, Refused,
                  Reread, DeleteRow, DeleteRefused, Await, Reply, Goto, body
    <3> QED BY <1>2, <3>1, <3>2 DEF IdGiven, TakesId
  <2> QED BY <2>1, <2>2, <2>3
<1> QED BY <1>1, <1>2

\* The invariant: types, what each call knows, and who gave it an id.
THEOREM CatalogInductive == Spec => []IInv
<1>1. Init => IInv
  <2> SUFFICES ASSUME Init PROVE IInv
    OBVIOUS
  <2>1. TypeOK
    BY InitType
  <2>2. \A c \in Callers : CallInv(c) /\ IdGiven(c)
    BY DEF Init, CallInv, Found, RefThere, Referable, KeyFree, Searched, RefusalExplained, IdGiven
  <2> QED BY <2>1, <2>2 DEF IInv
<1>2. IInv /\ [Next]_vars => IInv'
  <2> SUFFICES ASSUME IInv, [Next]_vars PROVE IInv'
    OBVIOUS
  <2>1. TypeOK /\ \A c \in Callers : CallInv(c) /\ IdGiven(c)
    BY DEF IInv
  <2>2. ASSUME NEW c \in Callers, Step(c) PROVE IInv'
    <3>1. CallInv(c)'
      BY <2>1, <2>2, ReadsKnow, WritesKnow DEF Step
    <3>2. \A d \in Callers \ {c} : CallInv(d)'
      BY <2>1, <2>2, OthersKeep
    <3>3. \A d \in Callers : IdGiven(d)'
      BY <2>1, <2>2, IdsKeep
    <3> QED BY <2>1, <2>2, <3>1, <3>2, <3>3, StepType DEF IInv
  <2>3. ASSUME NEW p \in Parents, OtherTables(p) PROVE IInv'
    <3>1. \A c \in Callers : IdGiven(c)'
      BY <2>1, <2>3 DEF OtherTables, body, IdGiven, TakesId
    <3> QED BY <2>1, <2>3, <3>1, OthersType, OtherTablesKeep DEF IInv
  <2>4. CASE UNCHANGED vars
    <3>1. TypeOK'
      BY <2>1, <2>4 DEF TypeOK, vars
    <3>2. \A c \in Callers : CallInv(c)' /\ IdGiven(c)'
      BY <2>1, <2>4 DEF vars, CallInv, Found, RefThere, Referable, KeyFree, Searched,
                        RefusalExplained, Present, IdGiven, TakesId
    <3> QED BY <3>1, <3>2 DEF IInv
  <2> QED BY <2>2, <2>3, <2>4 DEF Next
<1> QED BY <1>1, <1>2, PTL DEF Spec

\* The checks before a save are complete, but for the kinds of table named in
\* RefusalsAreRaces: elsewhere an internal error needs another call's write.
THEOREM CatalogRefusals == Spec => []RefusalsAreRaces
<1>1. IInv => RefusalsAreRaces
  BY DEF IInv, CallInv, RefusalExplained, RefusalsAreRaces
<1> QED BY <1>1, CatalogInductive, PTL

\* A row appears under a new id, under the id a POST gave, or by a PUT that was
\* raced by a DELETE.
THEOREM CatalogReturns == Spec => ReturnsOnlyByRace
<1> DEFINE Named(c, i) ==
              /\ at[c] = "save" /\ id[c] = i
              /\ \/ op[c] = "create" /\ TakesId(kind)
                 \/ op[c] = "update" /\ raced[c]
<1>1. IInv /\ [Next]_vars =>
        [\A i \in Ids :
           i \notin Present /\ table'[i] # None
              => \/ i = lastId + 1 /\ lastId' = i
                 \/ \E c \in Callers : Named(c, i)]_vars
  <2> SUFFICES ASSUME IInv, Next, NEW i \in Ids, i \notin Present, table'[i] # None
               PROVE  \/ i = lastId + 1 /\ lastId' = i
                      \/ \E c \in Callers : Named(c, i)
    OBVIOUS
  <2>1. table'[i] # table[i]
    BY DEF Present
  <2>2. PICK c \in Callers : Insert(c) \/ SaveRow(c) \/ DeleteRow(c)
    BY <2>1 DEF Next, OtherTables, Step, Post, Put, Remove, Request, Find, Refs, Search,
                Refused, Reread, DeleteRefused, data
  <2>3. CASE Insert(c)
    <3>1. Target(c) = i /\ lastId' = IF i > lastId THEN i ELSE lastId
      BY <2>1, <2>3 DEF Insert, IInv, TypeOK
    <3>2. CASE id[c] = 0
      BY <2>3, <3>1, <3>2, CatalogAssumption DEF Target, Insert, IInv, TypeOK
    <3>3. CASE id[c] # 0
      <4>1. id[c] = i /\ at[c] = "save" /\ op[c] = "create"
        BY <2>3, <3>1, <3>3 DEF Target, Insert
      <4>2. TakesId(kind)
        BY <3>3, <4>1 DEF IInv, IdGiven
      <4> QED BY <4>1, <4>2
    <3> QED BY <3>2, <3>3
  <2>4. CASE SaveRow(c)
    <3>1. id[c] = i
      BY <2>1, <2>4 DEF SaveRow, IInv, TypeOK
    <3>2. at[c] = "save" /\ op[c] = "update"
      BY <2>4 DEF SaveRow
    <3>3. raced[c]
      BY <3>1, <3>2 DEF IInv, CallInv, Found
    <3> QED BY <3>1, <3>2, <3>3
  <2>5. CASE DeleteRow(c)
    BY <2>1, <2>5 DEF DeleteRow, IInv, TypeOK
  <2> QED BY <2>2, <2>3, <2>4, <2>5
<1> QED BY <1>1, CatalogInductive, PTL DEF Spec, ReturnsOnlyByRace
=============================================================================
