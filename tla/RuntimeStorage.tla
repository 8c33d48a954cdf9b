--------------------------- MODULE RuntimeStorage ---------------------------
(* The record store under the facets: src/RuntimeStorage.ts and its three   *)
(* adapters, the Map of RuntimeStorage.ts, storage/sqlite/service.ts and    *)
(* storage/redis/service.ts.                                                *)
(*                                                                          *)
(* Clients are fibers that call one service. Memory runs a call in one      *)
(* turn, except that create and upsert look at the Map when the effect is   *)
(* made and write when it runs. SQLite and Redis run a call as statements   *)
(* or commands, and another client's may come between two of them. A row    *)
(* is a value, for the fields a patch changes and a query reads, and the    *)
(* readonly flag. Left out: order, windows and the columns beyond these.    *)
EXTENDS Naturals, FiniteSets

CONSTANTS
    Clients,
    Ids,           \* ids of records
    Values,
    Flags,         \* readonly: a subset of {"unset", "false", "true"}
    NewRows,       \* rows that clients create and upsert
    Queries,       \* predicates: the values and the flags that match
    StartMaps,     \* what earlier runs may have left in the store
    Adapters,      \* a subset of {"memory", "sqlite", "redis"}
    NoRow, NoClient,
    MaxCalls, MaxTransactions, MaxFaults

Rows == [value : Values, readonly : Flags \cup {"unset"}]
Maps == [Ids -> Rows \cup {NoRow}]

ASSUME StorageAssumption ==
    /\ IsFiniteSet(Ids)
    /\ NewRows \subseteq Rows
    /\ Queries \subseteq [values : SUBSET Values, flags : SUBSET Flags]
    /\ StartMaps \subseteq Maps
    /\ Adapters \subseteq {"memory", "sqlite", "redis"}
    /\ NoRow \notin Rows
    /\ NoClient \notin Clients

VARIABLES
    adapter,
    rows,      \* the Map, the table, or the record keys
    index,     \* Redis: the set of ids
    holder,    \* SQLite: the client whose transaction has the connection
    pc, call,  \* where each client is, and in which call
    todo,      \* what its call has still to write
    togo,      \* Redis: ids it has still to get
    got,       \* Redis: the records it got
    tx,        \* is the client in a transaction
    copy,      \* the records of a transaction in memory
    before,    \* the records when the transaction began
    answer,    \* what the last call said
    calls, transactions, faults,
    seen,      \* for the properties: what the client saw when it called
    serial,    \* for the properties: no overlap and no error so far
    raced,     \* for the properties: clients whose call met a delete
    acked      \* for the properties: ids whose write was acknowledged

vars == <<adapter, rows, index, holder, pc, call, todo, togo, got, tx, copy,
          before, answer, calls, transactions, faults, seen, serial, raced, acked>>

----------------------------------------------------------------------------
(* The contract, as the Map of RuntimeStorage.ts computes it.               *)
Empty == [i \in Ids |-> NoRow]
Present(m) == {i \in Ids : m[i] # NoRow}
Readonly(m, i) == m[i] # NoRow /\ m[i].readonly = "true"

Matches(row, q) == row.value \in q.values /\ row.readonly \in q.flags
Selected(m, q) == {i \in Present(m) : Matches(m[i], q)}
(* includesReadonlyTrue: a query for readonly rows may delete them.         *)
OptsIn(q) == q.flags = {"true"}
Patched(m, q) == {i \in Selected(m, q) : ~Readonly(m, i)}
Deletable(m, q) == {i \in Selected(m, q) : Readonly(m, i) => OptsIn(q)}

Creates == [do : {"create"}, id : Ids, row : NewRows]
Upserts == [do : {"upsert"}, id : Ids, row : NewRows]
Updates == [do : {"update"}, q : Queries, value : Values]
Deletes == [do : {"delete"}, q : Queries]
Reads == [do : {"read"}, q : Queries]
Operations == Creates \cup Upserts \cup Updates \cup Deletes \cup Reads

Refused(o, m) ==
    \/ o.do = "create" /\ m[o.id] # NoRow
    \/ o.do = "upsert" /\ Readonly(m, o.id)

Answer(o, m) ==
    CASE o.do = "create" /\ Refused(o, m) -> [tag |-> "duplicate"]
      [] o.do = "upsert" /\ Refused(o, m) -> [tag |-> "readonly"]
      [] o.do = "update" -> [tag |-> "updated",
                             matched |-> Cardinality(Selected(m, o.q)),
                             updated |-> Cardinality(Patched(m, o.q))]
      [] o.do = "delete" -> [tag |-> "deleted",
                             deleted |-> Cardinality(Deletable(m, o.q))]
      [] o.do = "read" -> [tag |-> "rows",
                           rows |-> [i \in Selected(m, o.q) |-> m[i]]]
      [] OTHER -> [tag |-> "done"]

Stored(o, m) ==
    CASE o.do \in {"create", "upsert"} -> [m EXCEPT ![o.id] = o.row]
      [] o.do = "update" ->
            [i \in Ids |-> IF i \in Patched(m, o.q)
                           THEN [m[i] EXCEPT !.value = o.value] ELSE m[i]]
      [] o.do = "delete" ->
            [i \in Ids |-> IF i \in Deletable(m, o.q) THEN NoRow ELSE m[i]]
      [] OTHER -> m

Applied(o, m) == IF Refused(o, m) THEN m ELSE Stored(o, m)

----------------------------------------------------------------------------
(* The codec of Redis keeps readonly only when it is true.                  *)
Decoded(row) ==
    IF row = NoRow \/ row.readonly = "true" THEN row
    ELSE [row EXCEPT !.readonly = "unset"]

(* What a read finds. Redis goes by the set of ids.                         *)
Visible ==
    IF adapter = "redis"
    THEN [i \in Ids |-> IF i \in index THEN Decoded(rows[i]) ELSE NoRow]
    ELSE rows

(* The transactions of memory and Redis run on a copy.                      *)
OnCopy(c) == tx[c] /\ adapter # "sqlite"
SeenBy(c) == IF OnCopy(c) THEN copy[c] ELSE Visible

Active(c) == pc[c] # "idle" \/ tx[c]
Alone(c) == \A d \in Clients \ {c} : ~Active(d)

(* SQLite: a statement waits for the connection while a transaction of      *)
(* another client has it.                                                   *)
Connected(c) == holder \in {NoClient, c}

(* What a call has still to write: the ids to delete and then the rows to   *)
(* put, and at Redis the command for the set that goes with the last one.    *)
Nothing == [drop |-> {}, put |-> Empty, after |-> {}]

(* The commands that carry a call out, from the records it has read. Each    *)
(* record is a statement at SQLite, a command and one for the set of ids at  *)
(* Redis; the ids come in the order of SMEMBERS, which is any.               *)
Commands(o, m) ==
    CASE o.do \in {"create", "upsert"} -> [Nothing EXCEPT !.put[o.id] = o.row]
      [] o.do = "update" ->
            [Nothing EXCEPT !.put = [i \in Ids |-> IF i \in Patched(m, o.q)
                                                   THEN [m[i] EXCEPT !.value = o.value]
                                                   ELSE NoRow]]
      [] o.do = "delete" -> [Nothing EXCEPT !.drop = Deletable(m, o.q)]
      [] OTHER -> Nothing

Init ==
    /\ adapter \in Adapters
    /\ rows \in IF adapter = "memory" THEN {Empty} ELSE StartMaps
    /\ index = IF adapter = "redis" THEN Present(rows) ELSE {}
    /\ holder = NoClient
    /\ pc = [c \in Clients |-> "idle"]
    /\ call = [c \in Clients |-> [do |-> "none"]]
    /\ todo = [c \in Clients |-> Nothing]
    /\ togo = [c \in Clients |-> {}]
    /\ got = [c \in Clients |-> Empty]
    /\ tx = [c \in Clients |-> FALSE]
    /\ copy = [c \in Clients |-> Empty]
    /\ before = [c \in Clients |-> Empty]
    /\ answer = [c \in Clients |-> [tag |-> "none"]]
    /\ calls = MaxCalls
    /\ transactions = MaxTransactions
    /\ faults = MaxFaults
    /\ seen = [c \in Clients |-> Empty]
    /\ serial = TRUE
    /\ raced = {}
    /\ acked = {}

----------------------------------------------------------------------------
(* Writes that were acknowledged, that no delete and no transaction met, and *)
(* that no delete was called after.                                         *)
MayDelete(c) == tx[c] \/ (pc[c] # "idle" /\ call[c].do \in {"delete", "begin"})
Acknowledged(c, o, said) ==
    acked' = IF o.do \in {"create", "upsert"} /\ said = [tag |-> "done"] /\ c \notin raced
             THEN acked \cup {o.id} ELSE acked
Meets(c, deletes) ==
    raced' = IF deletes THEN raced \cup {d \in Clients : d = c \/ Active(d)}
             ELSE IF \E d \in Clients : MayDelete(d) THEN raced \cup {c} ELSE raced \ {c}

Finish(c, said) ==
    /\ pc' = [pc EXCEPT ![c] = "idle"]
    /\ answer' = [answer EXCEPT ![c] = said]
    /\ Acknowledged(c, call[c], said)

(* A call. On a copy it is done at once. Memory takes its decision now and  *)
(* acts on it when the effect runs; create at SQLite has nothing to read.   *)
Call(c) ==
    /\ pc[c] = "idle"
    /\ calls > 0
    /\ calls' = calls - 1
    /\ \E o \in Operations :
          /\ call' = [call EXCEPT ![c] = o]
          /\ seen' = [seen EXCEPT ![c] = SeenBy(c)]
          /\ acked' = IF o.do = "delete" THEN {} ELSE acked
          /\ Meets(c, o.do = "delete")
          /\ \/ /\ OnCopy(c)
                /\ copy' = [copy EXCEPT ![c] = Applied(o, @)]
                /\ answer' = [answer EXCEPT ![c] = Answer(o, copy[c])]
                /\ UNCHANGED <<pc, todo>>
             \/ /\ ~OnCopy(c) /\ adapter = "memory"
                /\ pc' = [pc EXCEPT ![c] = IF Refused(o, rows) THEN "refuse" ELSE "run"]
                /\ UNCHANGED <<copy, answer, todo>>
             \/ /\ adapter = "sqlite" /\ o.do = "create"
                /\ pc' = [pc EXCEPT ![c] = "write"]
                /\ todo' = [todo EXCEPT ![c] = Commands(o, rows)]
                /\ UNCHANGED <<copy, answer>>
             \/ /\ ~OnCopy(c) /\ adapter # "memory"
                /\ adapter = "sqlite" => o.do # "create"
                /\ pc' = [pc EXCEPT ![c] = "look"]
                /\ UNCHANGED <<copy, answer, todo>>
    /\ serial' = (serial /\ Alone(c))
    /\ UNCHANGED <<adapter, rows, index, holder, togo, got, tx, before,
                   transactions, faults>>

(* Memory: the effect runs.                                                 *)
Run(c) ==
    /\ pc[c] \in {"run", "refuse"}
    /\ IF pc[c] = "refuse"
       THEN Finish(c, Answer(call[c], seen[c])) /\ UNCHANGED rows
       ELSE /\ rows' = Stored(call[c], rows)
            /\ Finish(c, IF call[c].do \in {"create", "upsert"} THEN [tag |-> "done"]
                         ELSE Answer(call[c], rows))
    /\ UNCHANGED <<adapter, index, holder, call, todo, togo, got, tx, copy, before,
                   calls, transactions, faults, seen, serial, raced>>

----------------------------------------------------------------------------
(* The call has read m: it is refused, it is done, or it writes.            *)
Decide(c, m) ==
    LET o == call[c] IN
    IF Refused(o, m) \/ Commands(o, m) = Nothing
    THEN Finish(c, Answer(o, m)) /\ UNCHANGED todo
    ELSE /\ pc' = [pc EXCEPT ![c] = "write"]
         /\ todo' = [todo EXCEPT ![c] = Commands(o, m)]
         /\ answer' = [answer EXCEPT ![c] = Answer(o, m)]
         /\ UNCHANGED acked

(* SQLite: the SELECT of a call.                                            *)
Select(c) ==
    /\ pc[c] = "look" /\ adapter = "sqlite" /\ Connected(c)
    /\ Decide(c, rows)
    /\ UNCHANGED <<adapter, rows, index, holder, call, togo, got, tx, copy, before,
                   calls, transactions, faults, seen, serial, raced>>

(* The transaction begins with what loadAllRecords has got.                 *)
Open(c, m) ==
    /\ pc' = [pc EXCEPT ![c] = "idle"]
    /\ tx' = [tx EXCEPT ![c] = TRUE]
    /\ copy' = [copy EXCEPT ![c] = m]
    /\ before' = [before EXCEPT ![c] = m]
    /\ UNCHANGED <<todo, answer, acked>>

Loaded(c, m) ==
    IF call[c].do = "begin" THEN Open(c, m)
    ELSE Decide(c, m) /\ UNCHANGED <<tx, copy, before>>

(* Redis: EXISTS or GET of one key, or SMEMBERS.                            *)
Look(c) ==
    /\ pc[c] = "look" /\ adapter = "redis"
    /\ IF call[c].do \in {"create", "upsert"}
       THEN /\ Decide(c, [i \in Ids |-> Decoded(rows[i])])
            /\ UNCHANGED <<togo, got, tx, copy, before>>
       ELSE /\ got' = [got EXCEPT ![c] = Empty]
            /\ togo' = [togo EXCEPT ![c] = index]
            /\ IF index = {} THEN Loaded(c, Empty)
               ELSE /\ pc' = [pc EXCEPT ![c] = "get"]
                    /\ UNCHANGED <<todo, answer, acked, tx, copy, before>>
    /\ UNCHANGED <<adapter, rows, index, holder, call, calls, transactions, faults,
                   seen, serial, raced>>

(* Redis: GET of the next id. An id without a record is passed over.        *)
Get(c) ==
    /\ pc[c] = "get"
    /\ \E i \in togo[c] :
          LET m == [got[c] EXCEPT ![i] = Decoded(rows[i])]
          IN  /\ got' = [got EXCEPT ![c] = m]
              /\ togo' = [togo EXCEPT ![c] = @ \ {i}]
              /\ IF togo[c] = {i} THEN Loaded(c, m)
                 ELSE UNCHANGED <<pc, todo, answer, acked, tx, copy, before>>
    /\ UNCHANGED <<adapter, rows, index, holder, call, calls, transactions, faults,
                   seen, serial, raced>>

(* A write goes on with t, or is done.                                      *)
Writing(c) == pc[c] = "write" /\ (adapter = "sqlite" => Connected(c))
Left(c, t) ==
    /\ todo' = [todo EXCEPT ![c] = t]
    /\ IF t # Nothing THEN UNCHANGED <<pc, answer, acked, tx>>
       ELSE /\ Finish(c, IF call[c].do = "create" THEN [tag |-> "done"] ELSE answer[c])
            /\ tx' = IF call[c].do = "commit" THEN [tx EXCEPT ![c] = FALSE] ELSE tx

(* Mutant: a record is written and its id is not put in the set.            *)
RowOnly(cmd, i) ==
    IF adapter = "redis" /\ cmd = "srem" THEN {[cmd |-> cmd, id |-> i]} ELSE {}
ForIndex(cmd, i) == IF adapter = "redis" THEN {[cmd |-> cmd, id |-> i]} ELSE {}

(* INSERT and SET NX refuse an id that is there.                            *)
SetRow(c) ==
    /\ Writing(c) /\ todo[c].after = {} /\ todo[c].drop = {}
    /\ \E i \in Present(todo[c].put) :
          IF call[c].do = "create" /\ rows[i] # NoRow
          THEN /\ Finish(c, [tag |-> "duplicate"])
               /\ todo' = [todo EXCEPT ![c] = Nothing]
               /\ UNCHANGED <<rows, tx>>
          ELSE /\ rows' = [rows EXCEPT ![i] = todo[c].put[i]]
               /\ Left(c, [drop |-> {}, put |-> [todo[c].put EXCEPT ![i] = NoRow],
                           after |-> ForIndex("sadd", i)])
    /\ UNCHANGED <<adapter, index, holder, call, togo, got, copy, before, calls,
                   transactions, faults, seen, serial, raced>>

DelRow(c) ==
    /\ Writing(c) /\ todo[c].after = {}
    /\ \E i \in todo[c].drop :
          /\ rows' = [rows EXCEPT ![i] = NoRow]
          /\ Left(c, [drop |-> todo[c].drop \ {i}, put |-> todo[c].put,
                      after |-> ForIndex("srem", i)])
    /\ UNCHANGED <<adapter, index, holder, call, togo, got, copy, before, calls,
                   transactions, faults, seen, serial, raced>>

(* Redis: SADD or SREM.                                                     *)
SetIndex(c) ==
    /\ Writing(c)
    /\ \E w \in todo[c].after :
          index' = IF w.cmd = "sadd" THEN index \cup {w.id} ELSE index \ {w.id}
    /\ Left(c, [drop |-> todo[c].drop, put |-> todo[c].put, after |-> {}])
    /\ UNCHANGED <<adapter, rows, holder, call, togo, got, copy, before, calls,
                   transactions, faults, seen, serial, raced>>

(* A statement or a command fails: the call fails, and a commit with it.    *)
Fault(c) ==
    /\ pc[c] \in {"look", "get", "write"}
    /\ adapter = "sqlite" => Connected(c)
    /\ faults > 0
    /\ faults' = faults - 1
    /\ pc' = [pc EXCEPT ![c] = "idle"]
    /\ answer' = [answer EXCEPT ![c] = [tag |-> "error"]]
    /\ todo' = [todo EXCEPT ![c] = Nothing]
    /\ togo' = [togo EXCEPT ![c] = {}]
    /\ tx' = IF call[c].do = "commit" THEN [tx EXCEPT ![c] = FALSE] ELSE tx
    /\ serial' = FALSE
    /\ UNCHANGED <<adapter, rows, index, holder, call, got, copy, before, calls,
                   transactions, seen, raced, acked>>

----------------------------------------------------------------------------
(* transaction: memory copies the Map, SQLite takes the connection, Redis   *)
(* loads every record first.                                                *)
Begin(c) ==
    /\ pc[c] = "idle" /\ ~tx[c]
    /\ transactions > 0
    /\ transactions' = transactions - 1
    /\ call' = [call EXCEPT ![c] = [do |-> "begin"]]
    /\ \/ adapter = "memory" /\ Open(c, rows) /\ UNCHANGED holder
       \/ adapter = "sqlite" /\ holder = NoClient /\ holder' = c /\ Open(c, rows)
       \/ /\ adapter = "redis"
          /\ pc' = [pc EXCEPT ![c] = "look"]
          /\ UNCHANGED <<tx, copy, before, todo, answer, acked, holder>>
    /\ serial' = (serial /\ Alone(c))
    /\ Meets(c, TRUE)
    /\ UNCHANGED <<adapter, rows, index, togo, got, calls, faults, seen>>

(* Mutant: the commit writes what there is and deletes nothing.             *)
CommitWrites(c) == [drop |-> {}, put |-> copy[c], after |-> {}]

(* commitRecords: delete what the transaction deleted, write all the rest.  *)
CommitCommands(c) ==
    [drop |-> Present(before[c]) \ Present(copy[c]), put |-> copy[c], after |-> {}]

Commit(c) ==
    /\ pc[c] = "idle" /\ tx[c]
    /\ call' = [call EXCEPT ![c] = [do |-> "commit"]]
    /\ answer' = [answer EXCEPT ![c] = [tag |-> "done"]]
    /\ IF adapter = "redis" /\ CommitCommands(c) # Nothing
       THEN /\ pc' = [pc EXCEPT ![c] = "write"]
            /\ todo' = [todo EXCEPT ![c] = CommitCommands(c)]
            /\ UNCHANGED <<tx, rows, holder>>
       ELSE /\ tx' = [tx EXCEPT ![c] = FALSE]
            /\ rows' = IF adapter = "memory" THEN copy[c] ELSE rows
            /\ holder' = IF adapter = "sqlite" THEN NoClient ELSE holder
            /\ UNCHANGED <<pc, todo>>
    /\ UNCHANGED <<adapter, index, togo, got, copy, before, calls, transactions,
                   faults, seen, serial, raced, acked>>

(* The effect of the transaction fails. SQLite rolls back.                  *)
Abort(c) ==
    /\ pc[c] = "idle" /\ tx[c]
    /\ call' = [call EXCEPT ![c] = [do |-> "abort"]]
    /\ tx' = [tx EXCEPT ![c] = FALSE]
    /\ rows' = IF adapter = "sqlite" THEN before[c] ELSE rows
    /\ holder' = IF adapter = "sqlite" THEN NoClient ELSE holder
    /\ UNCHANGED <<adapter, index, pc, todo, togo, got, copy, before, answer, calls,
                   transactions, faults, seen, serial, raced, acked>>

Step(c) ==
    Run(c) \/ Select(c) \/ Look(c) \/ Get(c) \/ SetRow(c) \/ DelRow(c) \/ SetIndex(c)
AtRest == (\A c \in Clients : ~Active(c)) /\ calls = 0 /\ UNCHANGED vars
Next ==
    \/ \E c \in Clients :
          Call(c) \/ Step(c) \/ Fault(c) \/ Begin(c) \/ Commit(c) \/ Abort(c)
    \/ AtRest

Spec == Init /\ [][Next]_vars

----------------------------------------------------------------------------
(* Used by one client at a time and without errors, every adapter answers   *)
(* and stores what the Map would: the conformance tests of the adapters,    *)
(* for every sequence of calls and transactions.                            *)
Ends(c) == pc[c] # "idle" /\ pc'[c] = "idle"
Conforms ==
    [][\A c \in Clients : serial' =>
          /\ Ends(c) /\ call[c] \in Operations =>
                /\ answer'[c] = Answer(call[c], seen[c])
                /\ Visible' = Applied(call[c], seen[c])
          /\ tx[c] /\ ~tx'[c] =>
                Visible' = IF call'[c].do = "abort" THEN before[c] ELSE SeenBy(c)]_vars

(* An acknowledged create or upsert that met no delete and no transaction   *)
(* stays visible until somebody deletes, whatever else overlaps with it and *)
(* fails. Memory is the exception: its commit puts the copy in the place of *)
(* the Map.                                                                 *)
AckedVisible ==
    adapter # "memory" => \A i \in acked : Visible[i] # NoRow
=============================================================================
