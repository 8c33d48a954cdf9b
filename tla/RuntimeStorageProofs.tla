----------------------- MODULE RuntimeStorageProofs -----------------------
(* For any clients, ids, rows and queries: an acknowledged write that met   *)
(* no delete stays visible; and, when no row holds a flag that the codec of *)
(* Redis forgets, calls that do not overlap and meet no error answer and    *)
(* store what the Map would.                                                *)
EXTENDS RuntimeStorage, TLAPS

Commanded == [cmd : {"sadd", "srem"}, id : Ids]
Todos == [drop : SUBSET Ids, put : Maps, after : SUBSET Commanded]
Calls == Operations \cup [do : {"none", "begin", "commit", "abort"}]

Typed ==
    /\ adapter \in Adapters
    /\ rows \in Maps /\ index \subseteq Ids
    /\ pc \in [Clients -> {"idle", "run", "refuse", "look", "get", "write"}]
    /\ call \in [Clients -> Calls]
    /\ todo \in [Clients -> Todos]
    /\ togo \in [Clients -> SUBSET Ids]
    /\ got \in [Clients -> Maps] /\ copy \in [Clients -> Maps]
    /\ before \in [Clients -> Maps] /\ seen \in [Clients -> Maps]
    /\ tx \in [Clients -> BOOLEAN]
    /\ answer = [c \in Clients |-> answer[c]]
    /\ raced \subseteq Clients /\ acked \subseteq Ids

(* Where a client may be in which call, and what it may have to write there. *)
Writes(c, o) == pc[c] # "idle" /\ call[c].do = o
Creating(c) == pc[c] # "idle" /\ call[c].do \in {"create", "upsert"}
Placed(c) ==
    /\ pc[c] # "write" => todo[c] = Nothing
    /\ pc[c] \in {"run", "refuse"} =>
          adapter = "memory" /\ call[c] \in Operations /\ ~tx[c]
    /\ pc[c] \in {"look", "get", "write"} => adapter # "memory"
    /\ pc[c] = "get" => adapter = "redis"
    /\ pc[c] \in {"look", "get"} =>
          \/ call[c] \in Operations /\ ~OnCopy(c)
          \/ call[c].do = "begin" /\ ~tx[c] /\ adapter = "redis"
    /\ pc[c] = "get" => call[c].do \notin {"create", "upsert"}
    /\ pc[c] = "write" =>
          \/ call[c] \in Operations /\ call[c].do # "read" /\ ~OnCopy(c)
          \/ call[c].do = "commit" /\ tx[c] /\ adapter = "redis"
    /\ adapter # "redis" => todo[c].after = {}
Tidy(c) ==
    /\ todo[c].drop # {} => call[c].do \in {"delete", "commit"}
    /\ \A w \in todo[c].after : w.cmd = "srem" => call[c].do \in {"delete", "commit"}
    /\ \A v, w \in todo[c].after : v = w
    /\ Creating(c) => /\ \A i \in Ids : i # call[c].id => todo[c].put[i] = NoRow
                      /\ \A w \in todo[c].after : w.id = call[c].id
Shaped == \A c \in Clients : Placed(c) /\ Tidy(c)

(* The acknowledged ids are in the store, and nobody is about to take one   *)
(* out of it.                                                               *)
InStore == \A i \in acked : rows[i] # NoRow /\ (adapter = "redis" => i \in index)
Undisturbed ==
    \A c \in Clients : Creating(c) /\ c \notin raced =>
        /\ \A d \in Clients : ~MayDelete(d)
        /\ pc[c] = "write" /\ todo[c].put[call[c].id] = NoRow => rows[call[c].id] # NoRow
NotDoomed ==
    \A c \in Clients, i \in acked :
        /\ i \notin todo[c].drop
        /\ \A w \in todo[c].after : w.cmd = "srem" => w.id # i
        /\ ~Writes(c, "delete")
(* What a transaction puts in the place of the rows holds them too.         *)
Carried ==
    \A c \in Clients, i \in acked : tx[c] =>
        /\ adapter = "redis" /\ before[c][i] # NoRow => copy[c][i] # NoRow
        /\ adapter = "sqlite" => before[c][i] # NoRow
Kept == adapter # "memory" => InStore /\ Undisturbed /\ NotDoomed /\ Carried

----------------------------------------------------------------------------
(* What the operators of the contract return.                               *)
LEMMA RowsOfMaps ==
    /\ NoRow \notin Rows
    /\ Empty \in Maps /\ Nothing \in Todos
    /\ \A m \in Maps : \A i \in Ids : m[i] \in Rows \cup {NoRow}
    /\ \A m \in Maps : \A i \in Ids : \A r \in Rows \cup {NoRow} : [m EXCEPT ![i] = r] \in Maps
<1>1. NoRow \notin Rows
  BY StorageAssumption
<1>2. Empty \in Maps
  BY DEF Empty, Maps
<1> QED
  BY <1>1, <1>2 DEF Nothing, Todos, Maps

LEMMA DecodedRow ==
    ASSUME NEW r \in Rows \cup {NoRow}
    PROVE  Decoded(r) \in Rows \cup {NoRow} /\ (Decoded(r) = NoRow <=> r = NoRow)
<1>1. CASE r = NoRow \/ r.readonly = "true"
  BY <1>1 DEF Decoded
<1>2. CASE r # NoRow /\ r.readonly # "true"
  <2>1. Decoded(r) = [r EXCEPT !.readonly = "unset"] /\ r \in Rows
    BY <1>2 DEF Decoded
  <2>2. Decoded(r) \in Rows
    BY <2>1 DEF Rows
  <2> QED
    BY <1>2, <2>2, RowsOfMaps
<1> QED
  BY <1>1, <1>2

LEMMA PatchedRow ==
    ASSUME NEW r \in Rows, NEW v \in Values
    PROVE  [r EXCEPT !.value = v] \in Rows /\ [r EXCEPT !.value = v] # NoRow
<1>1. [r EXCEPT !.value = v] \in Rows
  BY DEF Rows
<1> QED
  BY <1>1, RowsOfMaps

LEMMA Kinds ==
    ASSUME NEW o \in Operations
    PROVE  /\ o.do \in {"create", "upsert", "update", "delete", "read"}
           /\ o.do \in {"create", "upsert"} => o.id \in Ids /\ o.row \in Rows /\ o.row # NoRow
           /\ o.do \in {"update", "delete", "read"} => o.q \in Queries
           /\ o.do = "update" => o.value \in Values
<1>1. NewRows \subseteq Rows /\ NoRow \notin Rows
  BY StorageAssumption
<1>2. CASE o \in Creates
  BY <1>1, <1>2 DEF Creates
<1>3. CASE o \in Upserts
  BY <1>1, <1>3 DEF Upserts
<1>4. CASE o \in Updates
  BY <1>4 DEF Updates
<1>5. CASE o \in Deletes
  BY <1>5 DEF Deletes
<1>6. CASE o \in Reads
  BY <1>6 DEF Reads
<1> QED
  BY <1>2, <1>3, <1>4, <1>5, <1>6 DEF Operations

(* The commands of a call lead from the records it has read to what the Map *)
(* would hold, and only those of a delete take a record away.               *)
LEMMA CommandsLead ==
    ASSUME NEW o \in Operations, NEW m \in Maps
    PROVE  LET t == Commands(o, m)
           IN  /\ t \in Todos /\ t.after = {}
               /\ t.drop # {} => o.do = "delete"
               /\ o.do = "read" => t = Nothing
               /\ o.do \in {"create", "upsert"} =>
                     /\ t # Nothing
                     /\ t.put[o.id] # NoRow
                     /\ \A i \in Ids : i # o.id => t.put[i] = NoRow
               /\ Stored(o, m) = [i \in Ids |-> IF i \in t.drop THEN NoRow
                                                ELSE IF t.put[i] # NoRow THEN t.put[i]
                                                ELSE m[i]]
<1> DEFINE t == Commands(o, m)
<1>1. CASE o.do \in {"create", "upsert"}
  <2>1. t = [drop |-> {}, put |-> [Empty EXCEPT ![o.id] = o.row], after |-> {}]
    BY <1>1 DEF Commands, Nothing
  <2>2. o.id \in Ids /\ o.row \in Rows /\ o.row # NoRow
    BY <1>1, Kinds
  <2>3. t.put \in Maps /\ t.put[o.id] = o.row /\ \A i \in Ids : i # o.id => t.put[i] = NoRow
    BY <2>1, <2>2, RowsOfMaps DEF Empty, Maps
  <2>4. t # Nothing
    <3>1. Nothing.put[o.id] = NoRow
      BY <2>2 DEF Nothing, Empty
    <3> QED
      BY <2>2, <2>3, <3>1
  <2>5. t \in Todos
    BY <2>1, <2>3 DEF Todos
  <2>6. Stored(o, m) = [m EXCEPT ![o.id] = o.row]
    BY <1>1 DEF Stored
  <2>7. Stored(o, m) = [i \in Ids |-> IF t.put[i] # NoRow THEN t.put[i] ELSE m[i]]
    BY <2>2, <2>3, <2>6 DEF Maps
  <2>8. t.drop = {} /\ t.after = {}
    BY <2>1
  <2> QED
    BY <1>1, <2>3, <2>4, <2>5, <2>7, <2>8, <2>2
<1>2. CASE o.do = "update"
  <2> DEFINE put == [i \in Ids |-> IF i \in Patched(m, o.q)
                                   THEN [m[i] EXCEPT !.value = o.value] ELSE NoRow]
  <2>1. t = [drop |-> {}, put |-> put, after |-> {}]
    BY <1>2 DEF Commands, Nothing
  <2>2. \A i \in Patched(m, o.q) : i \in Ids /\ m[i] \in Rows
    BY RowsOfMaps DEF Patched, Selected, Present
  <2>3. o.value \in Values
    BY <1>2, Kinds
  <2>4. \A i \in Patched(m, o.q) : [m[i] EXCEPT !.value = o.value] \in Rows \ {NoRow}
    BY <2>2, <2>3, PatchedRow
  <2>5. put \in Maps
    BY <2>4 DEF Maps
  <2>6. t \in Todos /\ t.drop = {} /\ t.after = {} /\ t.put = put
    BY <2>1, <2>5 DEF Todos
  <2>7. Stored(o, m) = [i \in Ids |-> IF i \in Patched(m, o.q)
                                      THEN [m[i] EXCEPT !.value = o.value] ELSE m[i]]
    BY <1>2 DEF Stored
  <2>8. Stored(o, m) = [i \in Ids |-> IF put[i] # NoRow THEN put[i] ELSE m[i]]
    BY <2>4, <2>7
  <2> QED
    BY <1>2, <2>6, <2>8
<1>3. CASE o.do = "delete"
  <2>1. t = [drop |-> Deletable(m, o.q), put |-> Empty, after |-> {}]
    BY <1>3 DEF Commands, Nothing
  <2>2. t \in Todos /\ t.after = {} /\ t.drop = Deletable(m, o.q)
    BY <2>1, RowsOfMaps DEF Todos, Deletable, Selected, Present
  <2>3. \A i \in Ids : t.put[i] = NoRow
    BY <2>1 DEF Empty
  <2>4. Stored(o, m) = [i \in Ids |-> IF i \in Deletable(m, o.q) THEN NoRow ELSE m[i]]
    BY <1>3 DEF Stored
  <2> QED
    BY <1>3, <2>2, <2>3, <2>4
<1>4. CASE o.do = "read"
  <2>1. t = Nothing /\ t.drop = {} /\ t.after = {} /\ \A i \in Ids : t.put[i] = NoRow
    BY <1>4 DEF Commands, Nothing, Empty
  <2>2. Stored(o, m) = m
    BY <1>4 DEF Stored
  <2>3. m = [i \in Ids |-> m[i]]
    BY DEF Maps
  <2> QED
    BY <1>4, <2>1, <2>2, <2>3, RowsOfMaps
<1> QED
  BY <1>1, <1>2, <1>3, <1>4, Kinds

LEMMA StoredMap ==
    ASSUME NEW o \in Operations, NEW m \in Maps
    PROVE  Stored(o, m) \in Maps /\ Applied(o, m) \in Maps
<1> DEFINE t == Commands(o, m)
<1>1. t.put \in Maps /\ Stored(o, m) = [i \in Ids |-> IF i \in t.drop THEN NoRow
                                                ELSE IF t.put[i] # NoRow THEN t.put[i]
                                                ELSE m[i]]
  BY CommandsLead DEF Todos
<1>2. Stored(o, m) \in Maps
  BY <1>1, RowsOfMaps DEF Maps
<1> QED
  BY <1>2 DEF Applied

----------------------------------------------------------------------------
(* What the handlers do to the clients.                                     *)
LEMMA Decides ==
    ASSUME Typed, NEW c \in Clients, call[c] \in Operations, NEW m \in Maps,
           todo[c] = Nothing, Decide(c, m)
    PROVE  /\ acked' = acked
           /\ answer' = [answer EXCEPT ![c] = Answer(call[c], m)]
           /\ \/ /\ pc' = [pc EXCEPT ![c] = "idle"] /\ todo' = todo
                 /\ Refused(call[c], m) \/ Commands(call[c], m) = Nothing
              \/ /\ pc' = [pc EXCEPT ![c] = "write"]
                 /\ todo' = [todo EXCEPT ![c] = Commands(call[c], m)]
                 /\ ~Refused(call[c], m) /\ Commands(call[c], m) # Nothing
<1> DEFINE o == call[c]
<1>1. CASE Refused(o, m) \/ Commands(o, m) = Nothing
  <2>1. Finish(c, Answer(o, m)) /\ UNCHANGED todo
    BY <1>1 DEF Decide
  <2>2. ASSUME o.do \in {"create", "upsert"}
        PROVE  Answer(o, m) # [tag |-> "done"]
    <3>1. Refused(o, m)
      BY <1>1, <2>2, CommandsLead
    <3>2. CASE o.do = "create"
      <4>1. Answer(o, m) = [tag |-> "duplicate"]
        BY <3>1, <3>2 DEF Answer
      <4> QED
        BY <4>1
    <3>3. CASE o.do = "upsert"
      <4>1. Answer(o, m) = [tag |-> "readonly"]
        BY <3>1, <3>3 DEF Answer
      <4> QED
        BY <4>1
    <3> QED
      BY <2>2, <3>2, <3>3
  <2>3. acked' = acked
    BY <2>1, <2>2 DEF Finish, Acknowledged
  <2> QED
    BY <1>1, <2>1, <2>3 DEF Finish
<1>2. CASE ~(Refused(o, m) \/ Commands(o, m) = Nothing)
  BY <1>2 DEF Decide
<1> QED
  BY <1>1, <1>2

(* What is asked of a client is about its own variables.                    *)
LEMMA Apart ==
    ASSUME Shaped, NEW c \in Clients, adapter' = adapter,
           \A d \in Clients \ {c} : /\ pc'[d] = pc[d] /\ call'[d] = call[d]
                                    /\ todo'[d] = todo[d] /\ tx'[d] = tx[d],
           Placed(c)', Tidy(c)'
    PROVE  Shaped'
<1>1. ASSUME NEW d \in Clients, d # c
      PROVE  Placed(d)' /\ Tidy(d)'
  <2>1. Placed(d) /\ Tidy(d)
    BY DEF Shaped
  <2>2. pc'[d] = pc[d] /\ call'[d] = call[d] /\ todo'[d] = todo[d] /\ tx'[d] = tx[d]
    BY <1>1
  <2>3. Placed(d)'
    BY <2>1, <2>2 DEF Placed, OnCopy
  <2>4. Tidy(d)'
    BY <2>1, <2>2 DEF Tidy, Creating
  <2> QED
    BY <2>3, <2>4
<1> QED
  BY <1>1 DEF Shaped

(* A step in a call, or a commit: it calls for no delete, and it takes no   *)
(* record away that is acknowledged.                                        *)
Going(c) ==
    /\ adapter' = adapter /\ raced' = raced
    /\ \A d \in Clients \ {c} : /\ pc'[d] = pc[d] /\ call'[d] = call[d]
                                /\ todo'[d] = todo[d] /\ tx'[d] = tx[d]
                                /\ copy'[d] = copy[d] /\ before'[d] = before[d]
    /\ MayDelete(c)' => MayDelete(c)
    /\ Creating(c)' => Creating(c) /\ call'[c] = call[c]
    /\ Writes(c, "delete")' => Writes(c, "delete")
Spares ==
    /\ \A i \in Ids : rows[i] # NoRow /\ rows'[i] = NoRow =>
          i \notin acked /\ \E d \in Clients : MayDelete(d)
    /\ adapter = "redis" => \A i \in acked : i \in index => i \in index'

LEMMA GoesOn ==
    ASSUME Typed, Shaped, Kept, NEW c \in Clients, Going(c), Spares, adapter # "memory",
           acked' = acked \/ /\ Creating(c) /\ acked' = acked \cup {call[c].id}
                             /\ c \notin raced /\ ~Creating(c)'
                             /\ rows'[call[c].id] # NoRow
                             /\ adapter = "redis" => call[c].id \in index',
           Creating(c)' /\ pc'[c] = "write" /\ todo'[c].put[call[c].id] = NoRow
              /\ c \notin raced
              => rows'[call[c].id] # NoRow,
           \A i \in acked : /\ i \notin todo'[c].drop
                            /\ \A w \in todo'[c].after : w.cmd = "srem" => w.id # i
                            /\ tx'[c] =>
                                 /\ adapter = "redis" /\ before'[c][i] # NoRow => copy'[c][i] # NoRow
                                 /\ adapter = "sqlite" => before'[c][i] # NoRow,
           todo'[c].drop # {} => MayDelete(c),
           \A w \in todo'[c].after : w.cmd = "srem" => MayDelete(c)
    PROVE  Kept'
<1> USE DEF Going
<1>1. InStore /\ Undisturbed /\ NotDoomed /\ Carried
  BY DEF Kept
<1>2. \A d \in Clients : MayDelete(d)' => MayDelete(d)
  BY DEF MayDelete
<1>3. \A d \in Clients : Creating(d)' => Creating(d) /\ call'[d] = call[d]
  BY DEF Creating
<1>4. acked \subseteq Ids /\ acked' \subseteq Ids
  <2>1. Creating(c) => call[c].id \in Ids
    BY Kinds DEF Creating, Typed, Calls
  <2> QED
    BY <2>1 DEF Typed
<1>5. InStore'
  <2>1. \A i \in acked : rows'[i] # NoRow /\ (adapter = "redis" => i \in index')
    BY <1>1, <1>4 DEF InStore, Spares
  <2> QED
    BY <2>1 DEF InStore
<1>6. Undisturbed'
  <2> SUFFICES ASSUME NEW d \in Clients, Creating(d)', d \notin raced'
               PROVE  /\ \A e \in Clients : ~MayDelete(e)'
                      /\ pc'[d] = "write" /\ todo'[d].put[call'[d].id] = NoRow
                            => rows'[call'[d].id] # NoRow
    BY DEF Undisturbed
  <2>1. Creating(d) /\ call'[d] = call[d] /\ d \notin raced
    BY <1>3
  <2>2. \A e \in Clients : ~MayDelete(e)
    BY <1>1, <2>1 DEF Undisturbed
  <2>3. call[d].id \in Ids
    BY <2>1, Kinds DEF Creating, Typed, Calls
  <2>4. \A i \in Ids : rows[i] # NoRow => rows'[i] # NoRow
    BY <2>2 DEF Spares
  <2>5. ASSUME d # c, pc'[d] = "write", todo'[d].put[call'[d].id] = NoRow
        PROVE  rows'[call'[d].id] # NoRow
    <3>1. rows[call[d].id] # NoRow
      BY <1>1, <2>1, <2>5 DEF Undisturbed
    <3> QED
      BY <2>1, <2>3, <2>4, <3>1
  <2> QED
    BY <1>2, <2>1, <2>2, <2>5
<1>7. ASSUME acked' # acked
      PROVE  \A d \in Clients : ~MayDelete(d)
  BY <1>1, <1>7 DEF Undisturbed
<1>8. NotDoomed'
  <2> SUFFICES ASSUME NEW d \in Clients, NEW i \in acked'
               PROVE  /\ i \notin todo'[d].drop
                      /\ \A w \in todo'[d].after : w.cmd = "srem" => w.id # i
                      /\ ~Writes(d, "delete")'
    BY DEF NotDoomed
  <2>1. Writes(d, "delete")' => Writes(d, "delete")
    BY DEF Writes
  <2>2. CASE i \in acked
    <3>1. ~Writes(d, "delete")
      BY <1>1, <2>2 DEF NotDoomed
    <3>2. d # c => todo'[d] = todo[d]
      OBVIOUS
    <3>3. d # c => i \notin todo[d].drop /\ \A w \in todo[d].after : w.cmd = "srem" => w.id # i
      BY <1>1, <2>2 DEF NotDoomed
    <3> QED
      BY <2>1, <2>2, <3>1, <3>2, <3>3
  <2>3. CASE i \notin acked
    <3>1. \A e \in Clients : ~MayDelete(e)
      BY <1>7, <2>3
    <3>2. ~Writes(d, "delete")
      BY <3>1 DEF MayDelete, Writes
    <3>3. d # c => /\ todo'[d] = todo[d]
                   /\ todo[d].drop # {} => MayDelete(d)
                   /\ \A w \in todo[d].after : w.cmd = "srem" => MayDelete(d)
      <4>1. d # c => todo'[d] = todo[d]
        OBVIOUS
      <4>2. Tidy(d) /\ Placed(d)
        BY DEF Shaped
      <4>3. pc[d] # "write" => todo[d].drop = {} /\ todo[d].after = {}
        BY <4>2 DEF Placed, Nothing
      <4>4. call[d].do = "commit" /\ pc[d] = "write" => tx[d]
        BY <4>2, Kinds DEF Placed
      <4> QED
        BY <4>1, <4>2, <4>3, <4>4 DEF Tidy, MayDelete
    <3> QED
      BY <2>1, <3>1, <3>2, <3>3
  <2> QED
    BY <2>2, <2>3
<1>9. Carried'
  <2> SUFFICES ASSUME NEW d \in Clients, NEW i \in acked', tx'[d]
               PROVE  /\ adapter = "redis" /\ before'[d][i] # NoRow => copy'[d][i] # NoRow
                      /\ adapter = "sqlite" => before'[d][i] # NoRow
    BY DEF Carried
  <2>1. i \in acked
    <3>1. MayDelete(d)'
      BY DEF MayDelete
    <3> QED
      BY <1>2, <1>7, <3>1
  <2>2. CASE d = c
    BY <2>1, <2>2
  <2>3. CASE d # c
    <3>1. tx[d] /\ before'[d] = before[d] /\ copy'[d] = copy[d]
      BY <2>3
    <3> QED
      BY <1>1, <2>1, <3>1 DEF Carried
  <2> QED
    BY <2>2, <2>3
<1> QED
  BY <1>5, <1>6, <1>8, <1>9 DEF Kept

LEMMA Shown ==
    ASSUME Typed, NEW c \in Clients
    PROVE  Visible \in Maps /\ SeenBy(c) \in Maps
<1>1. \A i \in Ids : rows[i] \in Rows \cup {NoRow} /\ Decoded(rows[i]) \in Rows \cup {NoRow}
  BY RowsOfMaps, DecodedRow DEF Typed
<1>2. Visible \in Maps
  <2>1. rows \in Maps
    BY DEF Typed
  <2>2. [i \in Ids |-> IF i \in index THEN Decoded(rows[i]) ELSE NoRow] \in Maps
    BY <1>1 DEF Maps
  <2> QED
    BY <2>1, <2>2 DEF Visible
<1> QED
  BY <1>2 DEF SeenBy, Typed

LEMMA CallStep ==
    ASSUME Typed, Shaped, NEW c \in Clients, Call(c)
    PROVE  Typed' /\ Shaped' /\ (Kept => Kept')
<1> USE DEF Call
<1>1. PICK o \in Operations :
          /\ call' = [call EXCEPT ![c] = o]
          /\ seen' = [seen EXCEPT ![c] = SeenBy(c)]
          /\ acked' = IF o.do = "delete" THEN {} ELSE acked
          /\ Meets(c, o.do = "delete")
          /\ \/ /\ OnCopy(c)
                /\ copy' = [copy EXCEPT ![c] = Applied(o, @)]
                /\ answer' = [answer EXCEPT ![c] = Answer(o, copy[c])]
                /\ UNCHANGED <<pc, todo>>
             \/ /\ ~OnCopy(c) /\ adapter = "memory"
                /\ pc' = [pc EXCEPT ![c] = IF Refused(o, rows) THEN "refuse" ELSE "run"]
                /\ UNCHANGED <<copy, answer, todo>>
             \/ /\ adapter = "sqlite" /\ o.do = "create"
                /\ pc' = [pc EXCEPT ![c] = "write"]
                /\ todo' = [todo EXCEPT ![c] = Commands(o, rows)]
                /\ UNCHANGED <<copy, answer>>
             \/ /\ ~OnCopy(c) /\ adapter # "memory"
                /\ adapter = "sqlite" => o.do # "create"
                /\ pc' = [pc EXCEPT ![c] = "look"]
                /\ UNCHANGED <<copy, answer, todo>>
  OBVIOUS
<1>2. /\ pc[c] = "idle" /\ todo[c] = Nothing
      /\ UNCHANGED <<adapter, rows, index, holder, togo, got, tx, before>>
  BY DEF Shaped, Placed
<1>3. rows \in Maps /\ copy[c] \in Maps /\ Applied(o, copy[c]) \in Maps
  BY StoredMap DEF Typed
<1>4. /\ Commands(o, rows) \in Todos /\ Commands(o, rows).after = {}
      /\ o.do = "create" => /\ Commands(o, rows).drop = {}
                            /\ Commands(o, rows).put[o.id] # NoRow
                            /\ \A i \in Ids : i # o.id => Commands(o, rows).put[i] = NoRow
  BY <1>3, CommandsLead
<1>5. todo[c].drop = {} /\ todo[c].after = {} /\ \A i \in Ids : todo[c].put[i] = NoRow
  BY <1>2 DEF Nothing, Empty
<1>6. /\ pc' = [pc EXCEPT ![c] = pc'[c]]
      /\ \/ pc'[c] = "idle" /\ OnCopy(c) /\ todo' = todo
         \/ /\ pc'[c] \in {"run", "refuse"} /\ adapter = "memory" /\ ~OnCopy(c)
            /\ todo' = todo /\ copy' = copy
         \/ /\ pc'[c] = "look" /\ adapter # "memory" /\ ~OnCopy(c)
            /\ todo' = todo /\ copy' = copy
         \/ /\ pc'[c] = "write" /\ adapter = "sqlite" /\ o.do = "create" /\ copy' = copy
            /\ todo' = [todo EXCEPT ![c] = Commands(o, rows)]
  BY <1>1 DEF Typed
<1>7. Typed'
  <2>1. copy' \in [Clients -> Maps] /\ seen' \in [Clients -> Maps] /\ call' \in [Clients -> Calls]
    BY <1>1, <1>3, Shown DEF Typed, Calls
  <2>2. todo' \in [Clients -> Todos]
    BY <1>1, <1>4 DEF Typed
  <2>3. pc' \in [Clients -> {"idle", "run", "refuse", "look", "get", "write"}]
    BY <1>1 DEF Typed
  <2>4. answer' = [d \in Clients |-> answer'[d]]
    BY <1>1 DEF Typed
  <2>5. raced' \subseteq Clients /\ acked' \subseteq Ids
    BY <1>1 DEF Typed, Meets
  <2> QED
    BY <1>2, <2>1, <2>2, <2>3, <2>4, <2>5 DEF Typed
<1>8. Shaped'
  <2>1. call'[c] = o /\ tx'[c] = tx[c] /\ o.do \notin {"commit", "begin"}
    BY <1>1, <1>2, Kinds DEF Typed
  <2>2. Placed(c)'
    <3>1. pc'[c] = "write" => todo'[c] = Commands(o, rows)
      BY <1>6 DEF Typed
    <3>2. pc'[c] # "write" => todo'[c] = Nothing
      BY <1>2, <1>6
    <3>3. adapter' = adapter /\ (OnCopy(c)' <=> OnCopy(c))
      BY <1>2 DEF OnCopy
    <3>4. todo'[c].after = {}
      BY <1>4, <3>1, <3>2, <1>5, <1>2
    <3>5. /\ adapter = "sqlite" => ~OnCopy(c)
          /\ adapter = "memory" /\ ~OnCopy(c) => ~tx[c]
      BY DEF OnCopy
    <3> QED
      BY <1>6, <2>1, <3>2, <3>3, <3>4, <3>5 DEF Placed
  <2>3. Tidy(c)'
    <3>1. todo'[c] = todo[c] \/ (o.do = "create" /\ todo'[c] = Commands(o, rows))
      BY <1>6 DEF Typed
    <3> QED
      BY <1>4, <1>5, <2>1, <3>1 DEF Tidy, Creating
  <2>4. \A d \in Clients \ {c} : /\ pc'[d] = pc[d] /\ call'[d] = call[d]
                                 /\ todo'[d] = todo[d] /\ tx'[d] = tx[d]
    BY <1>1, <1>2, <1>6 DEF Typed
  <2> QED
    BY <1>2, <2>2, <2>3, <2>4, Apart
<1>9. ASSUME Kept
      PROVE  Kept'
  <2> SUFFICES ASSUME adapter # "memory"
               PROVE  InStore' /\ Undisturbed' /\ NotDoomed' /\ Carried'
    BY <1>2 DEF Kept
  <2>1. InStore /\ Undisturbed /\ NotDoomed /\ Carried
    BY <1>9 DEF Kept
  <2>2. call'[c] = o /\ o.do # "begin"
    BY <1>1, Kinds DEF Typed
  <2>3. \A d \in Clients \ {c} : /\ pc'[d] = pc[d] /\ call'[d] = call[d]
                                 /\ todo'[d] = todo[d] /\ copy'[d] = copy[d]
    BY <1>1, <1>6 DEF Typed
  <2>4. InStore'
    BY <1>1, <1>2, <2>1 DEF InStore
  <2>5. Undisturbed'
    <3> SUFFICES ASSUME NEW d \in Clients, Creating(d)', d \notin raced'
                 PROVE  /\ \A e \in Clients : ~MayDelete(e)'
                        /\ pc'[d] = "write" /\ todo'[d].put[call'[d].id] = NoRow
                              => rows'[call'[d].id] # NoRow
      BY DEF Undisturbed
    <3>1. o.do # "delete"
      <4>1. CASE d = c
        BY <4>1, <2>2 DEF Creating
      <4>2. CASE d # c
        <5>1. Active(d)
          BY <2>3, <4>2 DEF Creating, Active
        <5> QED
          BY <1>1, <5>1 DEF Meets
      <4> QED
        BY <4>1, <4>2
    <3>2. \A e \in Clients : MayDelete(e)' => MayDelete(e)
      BY <1>2, <2>2, <2>3, <3>1 DEF MayDelete
    <3>3. CASE d = c
      <4>1. \A e \in Clients : ~MayDelete(e)
        BY <1>1, <3>1, <3>3 DEF Meets
      <4>2. pc'[c] = "write" => todo'[c].put[o.id] # NoRow
        BY <1>4, <1>6 DEF Typed
      <4> QED
        BY <2>2, <3>2, <3>3, <4>1, <4>2
    <3>4. CASE d # c
      <4>1. Creating(d) /\ d \notin raced
        BY <1>1, <2>3, <3>1, <3>4 DEF Creating, Meets
      <4> QED
        BY <1>2, <2>1, <2>3, <3>2, <3>4, <4>1 DEF Undisturbed
    <3> QED
      BY <3>3, <3>4
  <2>6. NotDoomed'
    <3> SUFFICES ASSUME NEW d \in Clients, NEW i \in acked'
                 PROVE  /\ i \notin todo'[d].drop
                        /\ \A w \in todo'[d].after : w.cmd = "srem" => w.id # i
                        /\ ~Writes(d, "delete")'
      BY DEF NotDoomed
    <3>1. i \in acked /\ o.do # "delete"
      BY <1>1
    <3>2. CASE d = c
      <4>1. todo'[c].drop = {} /\ todo'[c].after = {}
        BY <1>4, <1>5, <1>6 DEF Typed
      <4> QED
        BY <2>2, <3>1, <3>2, <4>1 DEF Writes
    <3>3. CASE d # c
      BY <2>1, <2>3, <3>1, <3>3 DEF NotDoomed, Writes
    <3> QED
      BY <3>2, <3>3
  <2>7. Carried'
    <3> SUFFICES ASSUME NEW d \in Clients, NEW i \in acked', tx'[d]
                 PROVE  /\ adapter = "redis" /\ before[d][i] # NoRow => copy'[d][i] # NoRow
                        /\ adapter = "sqlite" => before[d][i] # NoRow
      BY <1>2 DEF Carried
    <3>1. i \in acked /\ o.do # "delete" /\ tx[d] /\ i \in Ids
      BY <1>1, <1>2 DEF Typed
    <3>2. copy[d][i] # NoRow => copy'[d][i] # NoRow
      <4>1. CASE copy'[d] = copy[d]
        BY <4>1
      <4>2. CASE d = c /\ copy'[c] = Applied(o, copy[c])
        <5>1. Applied(o, copy[c])[i] # NoRow \/ copy[c][i] = NoRow
          BY <1>3, <3>1, CommandsLead DEF Applied
        <5> QED
          BY <4>2, <5>1
      <4>3. copy'[d] = copy[d] \/ (d = c /\ copy'[c] = Applied(o, copy[c]))
        BY <1>1, <2>3 DEF Typed
      <4> QED
        BY <4>1, <4>2, <4>3
    <3> QED
      BY <2>1, <3>1, <3>2 DEF Carried
  <2> QED
    BY <2>4, <2>5, <2>6, <2>7
<1> QED
  BY <1>7, <1>8, <1>9

LEMMA RunStep ==
    ASSUME Typed, Shaped, NEW c \in Clients, Run(c)
    PROVE  Typed' /\ Shaped' /\ (Kept => Kept')
<1>1. adapter = "memory" /\ call[c] \in Operations /\ todo[c] = Nothing
  BY DEF Run, Shaped, Placed
<1>2. /\ pc' = [pc EXCEPT ![c] = "idle"]
      /\ rows' \in Maps
      /\ acked' = acked \/ (call[c].do \in {"create", "upsert"} /\ acked' = acked \cup {call[c].id})
      /\ UNCHANGED <<adapter, index, call, todo, togo, got, tx, copy, before, seen, raced>>
      /\ answer' = [answer EXCEPT ![c] = answer'[c]]
  <2>1. rows \in Maps /\ Stored(call[c], rows) \in Maps
    BY <1>1, StoredMap DEF Typed
  <2>2. CASE pc[c] = "refuse"
    BY <2>1, <2>2 DEF Run, Finish, Acknowledged, Typed
  <2>3. CASE pc[c] # "refuse"
    BY <2>1, <2>3 DEF Run, Finish, Acknowledged, Typed
  <2> QED
    BY <2>2, <2>3
<1>3. Typed'
  <2>1. acked' \subseteq Ids
    BY <1>1, <1>2, Kinds DEF Typed
  <2>2. answer' = [d \in Clients |-> answer'[d]]
    BY <1>2 DEF Typed
  <2> QED
    BY <1>2, <2>1, <2>2 DEF Typed
<1>4. Shaped'
  <2>1. pc'[c] = "idle" /\ todo'[c] = Nothing /\ adapter' = adapter
    BY <1>1, <1>2 DEF Typed
  <2>2. Placed(c)' /\ Tidy(c)'
    BY <2>1 DEF Placed, Tidy, Creating, Nothing, Empty
  <2>3. \A d \in Clients \ {c} : /\ pc'[d] = pc[d] /\ call'[d] = call[d]
                                 /\ todo'[d] = todo[d] /\ tx'[d] = tx[d]
    BY <1>2 DEF Typed
  <2> QED
    BY <2>1, <2>2, <2>3, Apart
<1>5. Kept'
  BY <1>1, <1>2 DEF Kept
<1> QED
  BY <1>3, <1>4, <1>5

(* The reads of a call and what it decides from them.                       *)
LEMMA DecideStep ==
    ASSUME Typed, Shaped, NEW c \in Clients, NEW m \in Maps, pc[c] \in {"look", "get"},
           call[c] \in Operations, Decide(c, m),
           togo' \in [Clients -> SUBSET Ids], got' \in [Clients -> Maps],
           UNCHANGED <<adapter, rows, index, call, tx, copy, before, seen, raced>>
    PROVE  Typed' /\ Shaped' /\ (Kept => Kept')
<1> DEFINE o == call[c]
           t == Commands(o, m)
<1>1. todo[c] = Nothing /\ ~OnCopy(c) /\ adapter # "memory"
  BY Kinds DEF Shaped, Placed
<1>2. /\ acked' = acked
      /\ answer' = [answer EXCEPT ![c] = Answer(call[c], m)]
      /\ \/ /\ pc' = [pc EXCEPT ![c] = "idle"] /\ todo' = todo
            /\ Refused(call[c], m) \/ Commands(call[c], m) = Nothing
         \/ /\ pc' = [pc EXCEPT ![c] = "write"]
            /\ todo' = [todo EXCEPT ![c] = Commands(call[c], m)]
            /\ ~Refused(call[c], m) /\ Commands(call[c], m) # Nothing
  BY <1>1, Decides
<1>3. /\ t \in Todos /\ t.after = {}
      /\ t.drop # {} => o.do = "delete"
      /\ o.do = "read" => t = Nothing
      /\ o.do \in {"create", "upsert"} =>
            /\ t.put[o.id] # NoRow
            /\ \A i \in Ids : i # o.id => t.put[i] = NoRow
  BY CommandsLead
<1> HIDE DEF t
<1>4. /\ pc' = [pc EXCEPT ![c] = pc'[c]] /\ todo' = [todo EXCEPT ![c] = todo'[c]]
      /\ \/ pc'[c] = "idle" /\ todo'[c] = Nothing
         \/ pc'[c] = "write" /\ todo'[c] = t /\ t # Nothing
  BY <1>1, <1>2 DEF Typed, t
<1>5. Typed'
  <2>1. todo' \in [Clients -> Todos]
    BY <1>3, <1>4, RowsOfMaps DEF Typed
  <2>2. answer' = [d \in Clients |-> answer'[d]]
    BY <1>2 DEF Typed
  <2>3. pc' \in [Clients -> {"idle", "run", "refuse", "look", "get", "write"}]
    BY <1>4 DEF Typed
  <2> QED
    BY <1>2, <2>1, <2>2, <2>3 DEF Typed
<1>6. Nothing.drop = {} /\ Nothing.after = {} /\ \A i \in Ids : Nothing.put[i] = NoRow
  BY DEF Nothing, Empty
<1>7. Shaped'
  <2>1. Placed(c)'
    BY <1>1, <1>3, <1>4, <1>6 DEF Placed, OnCopy
  <2>2. Tidy(c)'
    BY <1>3, <1>4, <1>6 DEF Tidy, Creating
  <2>3. \A d \in Clients \ {c} : /\ pc'[d] = pc[d] /\ call'[d] = call[d]
                                 /\ todo'[d] = todo[d] /\ tx'[d] = tx[d]
    BY <1>4 DEF Typed
  <2> QED
    BY <2>1, <2>2, <2>3, Apart
<1>8. ASSUME Kept
      PROVE  Kept'
  <2>1. InStore /\ NotDoomed /\ Carried
    BY <1>1, <1>8 DEF Kept
  <2>2. Going(c)
    <3>1. \A d \in Clients \ {c} : /\ pc'[d] = pc[d] /\ call'[d] = call[d]
                                   /\ todo'[d] = todo[d] /\ tx'[d] = tx[d]
      BY <1>4 DEF Typed
    <3> QED
      BY <3>1 DEF Going, MayDelete, Creating, Writes
  <2>3. Spares
    BY DEF Spares
  <2>4. Creating(c)' /\ pc'[c] = "write" => todo'[c].put[call[c].id] # NoRow
    BY <1>3, <1>4 DEF Creating
  <2>5. \A i \in acked : /\ i \notin todo'[c].drop
                         /\ \A w \in todo'[c].after : w.cmd = "srem" => w.id # i
                         /\ tx'[c] =>
                              /\ adapter = "redis" /\ before'[c][i] # NoRow => copy'[c][i] # NoRow
                              /\ adapter = "sqlite" => before'[c][i] # NoRow
    <3>1. acked # {} => o.do # "delete"
      BY <2>1 DEF NotDoomed, Writes
    <3>2. \A i \in acked : i \notin todo'[c].drop /\ todo'[c].after = {}
      BY <1>3, <1>4, <1>6, <3>1
    <3> QED
      BY <2>1, <3>2 DEF Carried
  <2>6. todo'[c].drop # {} => MayDelete(c)
    BY <1>3, <1>4, <1>6 DEF MayDelete
  <2>7. todo'[c].after = {}
    BY <1>3, <1>4, <1>6
  <2> QED
    BY <1>1, <1>2, <1>8, <2>2, <2>3, <2>4, <2>5, <2>6, <2>7, GoesOn
<1> QED
  BY <1>5, <1>7, <1>8

LEMMA LoadedStep ==
    ASSUME Typed, Shaped, NEW c \in Clients, NEW m \in Maps, pc[c] \in {"look", "get"},
           adapter = "redis", Loaded(c, m),
           togo' \in [Clients -> SUBSET Ids], got' \in [Clients -> Maps],
           UNCHANGED <<adapter, rows, index, call, seen, raced>>
    PROVE  Typed' /\ Shaped' /\ (Kept => Kept')
<1>1. todo[c] = Nothing /\ \/ call[c] \in Operations /\ call[c].do # "begin"
                           \/ call[c].do = "begin" /\ ~tx[c]
  BY Kinds DEF Shaped, Placed
<1>2. CASE call[c].do # "begin"
  BY <1>1, <1>2, DecideStep DEF Loaded
<1>3. CASE call[c].do = "begin"
  <2>1. /\ pc' = [pc EXCEPT ![c] = "idle"] /\ tx' = [tx EXCEPT ![c] = TRUE]
        /\ copy' = [copy EXCEPT ![c] = m] /\ before' = [before EXCEPT ![c] = m]
        /\ UNCHANGED <<todo, answer, acked>>
    BY <1>3 DEF Loaded, Open
  <2>2. Typed'
    BY <2>1 DEF Typed
  <2>3. \A d \in Clients \ {c} : /\ pc'[d] = pc[d] /\ call'[d] = call[d]
                                 /\ todo'[d] = todo[d] /\ tx'[d] = tx[d]
                                 /\ copy'[d] = copy[d] /\ before'[d] = before[d]
    BY <2>1 DEF Typed
  <2>4. pc'[c] = "idle" /\ todo'[c] = Nothing /\ copy'[c] = m /\ before'[c] = m
    BY <1>1, <2>1 DEF Typed
  <2>5. Nothing.drop = {} /\ Nothing.after = {} /\ \A i \in Ids : Nothing.put[i] = NoRow
    BY DEF Nothing, Empty
  <2>6. Shaped'
    <3>1. Placed(c)' /\ Tidy(c)'
      BY <2>4, <2>5 DEF Placed, Tidy, Creating
    <3> QED
      BY <2>3, <3>1, Apart
  <2>7. ASSUME Kept
        PROVE  Kept'
    <3>1. Going(c)
      BY <1>3, <2>3, <2>4 DEF Going, MayDelete, Creating, Writes
    <3>2. Spares
      BY DEF Spares
    <3>3. ~Creating(c)' /\ todo'[c].drop = {} /\ todo'[c].after = {}
      BY <2>4, <2>5 DEF Creating
    <3> QED
      BY <2>1, <2>4, <2>7, <3>1, <3>2, <3>3, GoesOn
  <2> QED
    BY <2>2, <2>6, <2>7
<1> QED
  BY <1>2, <1>3

LEMMA SelectStep ==
    ASSUME Typed, Shaped, NEW c \in Clients, Select(c)
    PROVE  Typed' /\ Shaped' /\ (Kept => Kept')
<1>1. call[c] \in Operations /\ rows \in Maps
  BY DEF Select, Shaped, Placed, Typed
<1> QED
  BY <1>1, DecideStep DEF Select, Typed

(* A call that goes on to the records one by one.                           *)
LEMMA Fetches ==
    ASSUME Typed, Shaped, NEW c \in Clients, pc[c] \in {"look", "get"}, adapter = "redis",
           call[c].do \notin {"create", "upsert"},
           pc' = [pc EXCEPT ![c] = "get"],
           togo' \in [Clients -> SUBSET Ids], got' \in [Clients -> Maps],
           UNCHANGED <<adapter, rows, index, call, todo, tx, copy, before, answer, seen,
                       raced, acked>>
    PROVE  Typed' /\ Shaped' /\ (Kept => Kept')
<1>1. \A d \in Clients \ {c} : pc'[d] = pc[d]
  BY DEF Typed
<1>2. pc'[c] = "get" /\ todo[c] = Nothing
  BY DEF Typed, Shaped, Placed
<1>3. Nothing.drop = {} /\ Nothing.after = {} /\ \A i \in Ids : Nothing.put[i] = NoRow
  BY DEF Nothing, Empty
<1>4. Shaped'
  <2>1. Placed(c) /\ Tidy(c)
    BY DEF Shaped
  <2>2. Placed(c)'
    BY <1>2, <2>1 DEF Placed, OnCopy
  <2>3. Tidy(c)'
    BY <1>2, <1>3, <2>1 DEF Tidy, Creating
  <2> QED
    BY <1>1, <2>2, <2>3, Apart
<1>5. ASSUME Kept
      PROVE  Kept'
  <2>1. Going(c)
    BY <1>1, <1>2 DEF Going, MayDelete, Creating, Writes
  <2>2. Spares
    BY DEF Spares
  <2>3. ~Creating(c)'
    BY DEF Creating
  <2>4. todo'[c].drop = {} /\ todo'[c].after = {}
    BY <1>2, <1>3
  <2>5. \A i \in acked : tx'[c] =>
            /\ adapter = "redis" /\ before'[c][i] # NoRow => copy'[c][i] # NoRow
            /\ adapter = "sqlite" => before'[c][i] # NoRow
    BY <1>5 DEF Kept, Carried
  <2> QED
    BY <1>5, <2>1, <2>2, <2>3, <2>4, <2>5, GoesOn
<1>6. Typed'
  BY DEF Typed
<1> QED
  BY <1>4, <1>5, <1>6

LEMMA LookStep ==
    ASSUME Typed, Shaped, NEW c \in Clients, Look(c)
    PROVE  Typed' /\ Shaped' /\ (Kept => Kept')
<1> USE DEF Look
<1>1. CASE call[c].do \in {"create", "upsert"}
  <2>1. call[c] \in Operations
    BY <1>1 DEF Shaped, Placed
  <2>2. [i \in Ids |-> Decoded(rows[i])] \in Maps
    BY RowsOfMaps, DecodedRow DEF Typed, Maps
  <2>3. togo' \in [Clients -> SUBSET Ids] /\ got' \in [Clients -> Maps]
    BY <1>1 DEF Typed
  <2> QED
    BY <1>1, <2>1, <2>2, <2>3, DecideStep
<1>2. CASE call[c].do \notin {"create", "upsert"}
  <2>1. togo' \in [Clients -> SUBSET Ids] /\ got' \in [Clients -> Maps]
    BY <1>2, RowsOfMaps DEF Typed
  <2>2. CASE index = {}
    BY <1>2, <2>1, <2>2, RowsOfMaps, LoadedStep
  <2>3. CASE index # {}
    BY <1>2, <2>1, <2>3, Fetches
  <2> QED
    BY <2>2, <2>3
<1> QED
  BY <1>1, <1>2

LEMMA GetStep ==
    ASSUME Typed, Shaped, NEW c \in Clients, Get(c)
    PROVE  Typed' /\ Shaped' /\ (Kept => Kept')
<1>1. PICK i \in togo[c] :
          LET m == [got[c] EXCEPT ![i] = Decoded(rows[i])]
          IN  /\ got' = [got EXCEPT ![c] = m]
              /\ togo' = [togo EXCEPT ![c] = @ \ {i}]
              /\ IF togo[c] = {i} THEN Loaded(c, m)
                 ELSE UNCHANGED <<pc, todo, answer, acked, tx, copy, before>>
  BY DEF Get
<1> DEFINE m == [got[c] EXCEPT ![i] = Decoded(rows[i])]
<1>2. m \in Maps
  BY RowsOfMaps, DecodedRow DEF Typed
<1>3. togo' \in [Clients -> SUBSET Ids] /\ got' \in [Clients -> Maps]
  BY <1>1, <1>2 DEF Typed
<1>4. pc[c] = "get" /\ adapter = "redis" /\ call[c].do \notin {"create", "upsert"}
  BY DEF Get, Shaped, Placed
<1>5. UNCHANGED <<adapter, rows, index, call, seen, raced>>
  BY DEF Get
<1>6. CASE togo[c] = {i}
  BY <1>1, <1>2, <1>3, <1>4, <1>5, <1>6, LoadedStep
<1>7. CASE togo[c] # {i}
  <2>1. pc' = [pc EXCEPT ![c] = "get"]
    BY <1>1, <1>4, <1>7 DEF Typed
  <2> QED
    BY <1>1, <1>3, <1>4, <1>5, <1>7, <2>1, Fetches
<1> QED
  BY <1>6, <1>7

TxOver(c) == [tx EXCEPT ![c] = FALSE]

(* A call that writes goes on, ends or fails. What is left of it is less.   *)
Less(c, t) ==
    /\ t \in Todos /\ t.drop \subseteq todo[c].drop
    /\ \A i \in Ids : t.put[i] # NoRow => todo[c].put[i] # NoRow
    /\ adapter # "redis" => t.after = {}
    /\ \A w \in t.after : \/ w.cmd = "srem" /\ w.id \in todo[c].drop
                          \/ w.cmd = "sadd" /\ todo[c].put[w.id] # NoRow
    /\ \A v, w \in t.after : v = w
Falls(c, t) ==
    /\ pc' = [pc EXCEPT ![c] = pc'[c]] /\ todo' = [todo EXCEPT ![c] = t]
    /\ (pc'[c] = "idle" /\ t = Nothing) \/ (pc'[c] = "write" /\ pc[c] = "write")
    /\ tx' = tx \/ (pc'[c] = "idle" /\ tx' = TxOver(c))
    /\ answer' = [answer EXCEPT ![c] = answer'[c]]
    /\ acked' = acked \/ /\ Creating(c) /\ acked' = acked \cup {call[c].id}
                         /\ c \notin raced /\ pc'[c] = "idle"

LEMMA GoesDown ==
    ASSUME Typed, Shaped, NEW c \in Clients, NEW t, Less(c, t), Falls(c, t),
           pc[c] \in {"look", "get", "write"},
           rows' \in Maps, index' \subseteq Ids, togo' \in [Clients -> SUBSET Ids],
           UNCHANGED <<adapter, call, got, copy, before, seen, raced>>,
           Kept => Spares,
           Kept /\ acked' # acked =>
              /\ rows'[call[c].id] # NoRow
              /\ adapter = "redis" => call[c].id \in index',
           Creating(c) /\ pc'[c] = "write" /\ t.put[call[c].id] = NoRow
              => rows'[call[c].id] # NoRow
    PROVE  Typed' /\ Shaped' /\ (Kept => Kept')
<1> USE DEF Less, Falls
<1>1. Placed(c) /\ Tidy(c)
  BY DEF Shaped
<1>2. /\ tx' \in [Clients -> BOOLEAN] /\ \A d \in Clients \ {c} : tx'[d] = tx[d]
      /\ tx'[c] => tx[c]
      /\ tx'[c] = tx[c] \/ pc'[c] = "idle"
  <2>1. CASE tx' = tx
    BY <2>1 DEF Typed
  <2>2. CASE pc'[c] = "idle" /\ tx' = TxOver(c)
    BY <2>2 DEF Typed, TxOver
  <2> QED
    BY <2>1, <2>2
<1>3. /\ adapter # "memory"
      /\ pc[c] = "write" =>
            \/ call[c] \in Operations /\ call[c].do # "commit" /\ call[c].do # "read" /\ ~OnCopy(c)
            \/ call[c].do = "commit" /\ tx[c] /\ adapter = "redis"
  BY <1>1, Kinds DEF Placed
<1>4. pc'[c] # "idle" => pc[c] = "write"
  OBVIOUS
<1>5. todo'[c] = t /\ \A d \in Clients \ {c} : /\ pc'[d] = pc[d] /\ call'[d] = call[d]
                                               /\ todo'[d] = todo[d] /\ tx'[d] = tx[d]
  BY <1>2 DEF Typed
<1>6. todo[c].drop # {} \/ (\E w \in t.after : w.cmd = "srem") => MayDelete(c)
  <2>1. todo[c].drop # {} => call[c].do \in {"delete", "commit"} /\ pc[c] = "write"
    BY <1>1 DEF Tidy, Placed, Nothing
  <2> QED
    BY <1>3, <2>1 DEF MayDelete
<1>7. Creating(c) => call[c].id \in Ids
  BY <1>1, Kinds DEF Typed, Calls, Creating
<1>8. Typed'
  <2>1. acked' \subseteq Ids
    BY <1>7 DEF Typed
  <2>2. todo' \in [Clients -> Todos] /\ tx' \in [Clients -> BOOLEAN]
    BY <1>2 DEF Typed
  <2>3. answer' = [d \in Clients |-> answer'[d]]
    BY DEF Typed
  <2>4. pc' \in [Clients -> {"idle", "run", "refuse", "look", "get", "write"}]
    BY DEF Typed
  <2> QED
    BY <2>1, <2>2, <2>3, <2>4 DEF Typed
<1>9. Nothing.drop = {} /\ Nothing.after = {} /\ \A i \in Ids : Nothing.put[i] = NoRow
  BY DEF Nothing, Empty
<1>10. Shaped'
  <2>1. tx'[c] = tx[c] \/ pc'[c] = "idle"
    BY <1>2
  <2>2. Placed(c)'
    BY <1>1, <1>3, <1>5, <1>9, <2>1 DEF Placed, OnCopy
  <2>3. Tidy(c)'
    <3>1. Creating(c)' => Creating(c)
      BY <1>4 DEF Creating
    <3>2. Creating(c) => todo[c].drop = {}
      BY <1>1 DEF Tidy, Creating
    <3>3. \A w \in t.after : w \in Commanded
      BY DEF Todos
    <3>4. Creating(c)' => /\ \A i \in Ids : i # call[c].id => t.put[i] = NoRow
                          /\ \A w \in t.after : w.id = call[c].id
      BY <1>1, <3>1, <3>2, <3>3 DEF Tidy, Commanded
    <3>5. t.drop # {} => call[c].do \in {"delete", "commit"}
      BY <1>1 DEF Tidy
    <3>6. \A w \in t.after : w.cmd = "srem" => call[c].do \in {"delete", "commit"}
      BY <1>1 DEF Tidy
    <3> QED
      BY <1>5, <3>4, <3>5, <3>6 DEF Tidy
  <2> QED
    BY <1>5, <2>2, <2>3, Apart
<1>11. ASSUME Kept
       PROVE  Kept'
  <2>1. NotDoomed /\ Carried
    BY <1>3, <1>11 DEF Kept
  <2>2. Going(c)
    BY <1>2, <1>4, <1>5 DEF Going, MayDelete, Creating, Writes
  <2>3. \A i \in acked : /\ i \notin todo'[c].drop
                         /\ \A w \in todo'[c].after : w.cmd = "srem" => w.id # i
                         /\ tx'[c] =>
                              /\ adapter = "redis" /\ before'[c][i] # NoRow => copy'[c][i] # NoRow
                              /\ adapter = "sqlite" => before'[c][i] # NoRow
    <3>1. tx'[c] => tx[c]
      BY <1>2
    <3> QED
      BY <1>5, <2>1, <3>1 DEF NotDoomed, Carried
  <2>4. acked' # acked => /\ Creating(c) /\ acked' = acked \cup {call[c].id}
                          /\ c \notin raced /\ pc'[c] = "idle"
    OBVIOUS
  <2>5. acked' # acked => /\ rows'[call[c].id] # NoRow
                          /\ adapter = "redis" => call[c].id \in index'
    BY <1>11
  <2>6. acked' = acked \/ /\ Creating(c) /\ acked' = acked \cup {call[c].id}
                          /\ c \notin raced /\ ~Creating(c)'
                          /\ rows'[call[c].id] # NoRow
                          /\ adapter = "redis" => call[c].id \in index'
    BY <2>4, <2>5 DEF Creating
  <2>7. /\ todo'[c].drop # {} => MayDelete(c)
        /\ \A w \in todo'[c].after : w.cmd = "srem" => MayDelete(c)
    BY <1>5, <1>6
  <2>8. Creating(c)' /\ pc'[c] = "write" /\ todo'[c].put[call[c].id] = NoRow
           => rows'[call[c].id] # NoRow
    BY <1>4, <1>5 DEF Creating
  <2>9. Spares
    BY <1>11
  <2> QED
    BY <1>3, <1>11, <2>2, <2>3, <2>6, <2>7, <2>8, <2>9, GoesOn
<1> QED
  BY <1>8, <1>10, <1>11

LEMMA Moves ==
    ASSUME Typed, NEW c \in Clients, NEW t \in Todos, pc[c] = "write", Left(c, t)
    PROVE  /\ pc' = [pc EXCEPT ![c] = pc'[c]] /\ todo' = [todo EXCEPT ![c] = t]
           /\ (pc'[c] = "idle" /\ t = Nothing) \/ (pc'[c] = "write" /\ t # Nothing)
           /\ \/ tx' = tx
              \/ call[c].do = "commit" /\ pc'[c] = "idle" /\ tx' = TxOver(c)
           /\ pc'[c] # "idle" => tx' = tx
           /\ pc'[c] = "idle" /\ call[c].do = "commit" => tx' = TxOver(c)
           /\ answer' = [answer EXCEPT ![c] = answer'[c]]
           /\ answer'[c] = IF pc'[c] = "idle" /\ call[c].do = "create"
                           THEN [tag |-> "done"] ELSE answer[c]
           /\ acked' = acked \/ /\ Creating(c) /\ acked' = acked \cup {call[c].id}
                                /\ c \notin raced /\ pc'[c] = "idle"
<1>1. CASE t # Nothing
  <2>1. todo' = [todo EXCEPT ![c] = t] /\ UNCHANGED <<pc, answer, acked, tx>>
    BY <1>1 DEF Left
  <2>2. pc = [pc EXCEPT ![c] = pc[c]] /\ answer = [answer EXCEPT ![c] = answer[c]]
    BY DEF Typed
  <2> QED
    BY <1>1, <2>1, <2>2
<1>2. CASE t = Nothing
  <2>1. /\ Finish(c, IF call[c].do = "create" THEN [tag |-> "done"] ELSE answer[c])
        /\ tx' = IF call[c].do = "commit" THEN TxOver(c) ELSE tx
        /\ todo' = [todo EXCEPT ![c] = t]
    BY <1>2 DEF Left, TxOver
  <2>2. acked' = acked \/ /\ Creating(c) /\ acked' = acked \cup {call[c].id} /\ c \notin raced
    BY <2>1 DEF Finish, Acknowledged, Creating
  <2>3. answer' = [answer EXCEPT ![c] = IF call[c].do = "create" THEN [tag |-> "done"]
                                        ELSE answer[c]]
    BY <2>1 DEF Finish
  <2>4. answer'[c] = IF call[c].do = "create" THEN [tag |-> "done"] ELSE answer[c]
    BY <2>3 DEF Typed
  <2>5. pc' = [pc EXCEPT ![c] = "idle"] /\ pc'[c] = "idle"
    BY <2>1 DEF Finish, Typed
  <2>6. answer' = [answer EXCEPT ![c] = answer'[c]]
    BY <2>3, <2>4
  <2>7. tx' = tx \/ (call[c].do = "commit" /\ tx' = TxOver(c))
    BY <2>1
  <2> QED
    BY <1>2, <2>1, <2>2, <2>4, <2>5, <2>6, <2>7
<1> QED
  BY <1>1, <1>2

LEMMA IndexCommand ==
    ASSUME NEW cmd \in {"sadd", "srem"}, NEW i \in Ids
    PROVE  /\ ForIndex(cmd, i) \in SUBSET Commanded
           /\ \A w \in ForIndex(cmd, i) : w = [cmd |-> cmd, id |-> i]
           /\ ForIndex(cmd, i) = {} <=> adapter # "redis"
<1>1. [cmd |-> cmd, id |-> i] \in Commanded
  BY DEF Commanded
<1> DEFINE one == [cmd |-> cmd, id |-> i]
<1> HIDE DEF one
<1>2. ForIndex(cmd, i) = IF adapter = "redis" THEN {one} ELSE {}
  BY DEF ForIndex, one
<1>3. one \in Commanded
  BY <1>1 DEF one
<1> QED
  BY <1>2, <1>3 DEF one

LEMMA SetRowStep ==
    ASSUME Typed, Shaped, NEW c \in Clients, SetRow(c)
    PROVE  Typed' /\ Shaped' /\ (Kept => Kept')
<1>1. /\ pc[c] = "write" /\ todo[c].after = {} /\ todo[c].drop = {}
      /\ UNCHANGED <<adapter, index, call, togo, got, copy, before, seen, raced>>
  BY DEF SetRow, Writing
<1>2. PICK i \in Present(todo[c].put) :
          IF call[c].do = "create" /\ rows[i] # NoRow
          THEN /\ Finish(c, [tag |-> "duplicate"])
               /\ todo' = [todo EXCEPT ![c] = Nothing]
               /\ UNCHANGED <<rows, tx>>
          ELSE /\ rows' = [rows EXCEPT ![i] = todo[c].put[i]]
               /\ Left(c, [drop |-> {}, put |-> [todo[c].put EXCEPT ![i] = NoRow],
                           after |-> ForIndex("sadd", i)])
  BY DEF SetRow
<1>3. i \in Ids /\ todo[c].put[i] # NoRow /\ todo[c].put[i] \in Rows
  BY RowsOfMaps DEF Present, Typed, Todos
<1>4. /\ Nothing \in Todos /\ Nothing.drop = {} /\ Nothing.after = {}
      /\ \A j \in Ids : Nothing.put[j] = NoRow
  BY RowsOfMaps DEF Nothing, Empty
<1>5. Creating(c) => call[c].id = i
  BY <1>3 DEF Shaped, Tidy
<1>6. CASE call[c].do = "create" /\ rows[i] # NoRow
  <2>1. /\ pc' = [pc EXCEPT ![c] = "idle"] /\ todo' = [todo EXCEPT ![c] = Nothing]
        /\ answer' = [answer EXCEPT ![c] = [tag |-> "duplicate"]]
        /\ rows' = rows /\ tx' = tx
    BY <1>2, <1>6 DEF Finish
  <2>2. acked' = acked
    BY <1>2, <1>6 DEF Finish, Acknowledged
  <2>3. Spares
    BY <1>1, <2>1 DEF Spares
  <2>4. /\ pc' = [pc EXCEPT ![c] = pc'[c]] /\ pc'[c] = "idle"
        /\ answer' = [answer EXCEPT ![c] = answer'[c]]
        /\ rows' \in Maps /\ index' \subseteq Ids /\ togo' \in [Clients -> SUBSET Ids]
    BY <1>1, <2>1 DEF Typed
  <2> QED
    <3>1. Less(c, Nothing)
      BY <1>4 DEF Less
    <3>2. Falls(c, Nothing) /\ pc'[c] # "write"
      BY <2>1, <2>2, <2>4 DEF Falls
    <3> QED
      BY <1>1, <2>1, <2>2, <2>3, <2>4, <3>1, <3>2, GoesDown
<1>7. CASE ~(call[c].do = "create" /\ rows[i] # NoRow)
  <2> DEFINE put == [todo[c].put EXCEPT ![i] = NoRow]
             t == [drop |-> {}, put |-> put, after |-> ForIndex("sadd", i)]
  <2>1. rows' = [rows EXCEPT ![i] = todo[c].put[i]] /\ Left(c, t)
    BY <1>2, <1>7
  <2>2. /\ t \in Todos /\ t.drop = {} /\ t.after = ForIndex("sadd", i)
        /\ t.put[i] = NoRow /\ \A j \in Ids : j # i => t.put[j] = todo[c].put[j]
    <3>1. put \in Maps /\ put[i] = NoRow /\ \A j \in Ids : j # i => put[j] = todo[c].put[j]
      <4>1. todo[c].put \in Maps
        BY DEF Typed, Todos
      <4> QED
        BY <1>3, <4>1 DEF Maps
    <3> HIDE DEF put
    <3> QED
      BY <1>3, <3>1, IndexCommand DEF Todos
  <2> HIDE DEF t
  <2>3. /\ pc' = [pc EXCEPT ![c] = pc'[c]] /\ todo' = [todo EXCEPT ![c] = t]
        /\ (pc'[c] = "idle" /\ t = Nothing) \/ (pc'[c] = "write" /\ t # Nothing)
        /\ tx' = tx \/ (pc'[c] = "idle" /\ tx' = TxOver(c))
        /\ answer' = [answer EXCEPT ![c] = answer'[c]]
        /\ acked' = acked \/ /\ Creating(c) /\ acked' = acked \cup {call[c].id}
                             /\ c \notin raced /\ pc'[c] = "idle"
    BY <1>1, <2>1, <2>2, Moves
  <2>4. rows' \in Maps /\ rows'[i] # NoRow /\ \A j \in Ids : rows[j] # NoRow => rows'[j] # NoRow
    BY <1>3, <2>1, RowsOfMaps DEF Typed, Maps
  <2>5. Spares
    BY <1>1, <2>4 DEF Spares
  <2>6. pc'[c] = "idle" => adapter # "redis"
    BY <1>3, <1>4, <2>2, <2>3, IndexCommand
  <2>7. /\ adapter # "redis" => t.after = {}
        /\ \A w \in t.after : \/ w.cmd = "srem" /\ w.id \in todo[c].drop
                              \/ w.cmd = "sadd" /\ todo[c].put[w.id] # NoRow
        /\ \A v, w \in t.after : v = w
    BY <1>3, <2>2, IndexCommand
  <2>8. index' \subseteq Ids /\ togo' \in [Clients -> SUBSET Ids]
    BY <1>1 DEF Typed
  <2>9. Less(c, t)
    BY <2>2, <2>7 DEF Less
  <2>10. Falls(c, t)
    BY <1>1, <2>3 DEF Falls
  <2>11. acked' # acked => /\ rows'[call[c].id] # NoRow
                           /\ adapter = "redis" => call[c].id \in index'
    BY <1>5, <2>3, <2>4, <2>6
  <2>12. Creating(c) /\ pc'[c] = "write" /\ t.put[call[c].id] = NoRow
            => rows'[call[c].id] # NoRow
    BY <1>5, <2>4
  <2> QED
    BY <1>1, <2>4, <2>5, <2>8, <2>9, <2>10, <2>11, <2>12, GoesDown
<1> QED
  BY <1>6, <1>7

LEMMA DelRowStep ==
    ASSUME Typed, Shaped, NEW c \in Clients, DelRow(c)
    PROVE  Typed' /\ Shaped' /\ (Kept => Kept')
<1>1. /\ pc[c] = "write" /\ todo[c].after = {}
      /\ UNCHANGED <<adapter, index, call, togo, got, copy, before, seen, raced>>
  BY DEF DelRow, Writing
<1>2. PICK i \in todo[c].drop :
          /\ rows' = [rows EXCEPT ![i] = NoRow]
          /\ Left(c, [drop |-> todo[c].drop \ {i}, put |-> todo[c].put,
                      after |-> ForIndex("srem", i)])
  BY DEF DelRow
<1>3. i \in Ids
  BY DEF Typed, Todos
<1> DEFINE t == [drop |-> todo[c].drop \ {i}, put |-> todo[c].put,
                 after |-> ForIndex("srem", i)]
<1>4. Left(c, t)
  BY <1>2
<1>5. /\ t \in Todos /\ t.put = todo[c].put /\ t.after = ForIndex("srem", i)
      /\ t.drop = todo[c].drop \ {i}
  <2>1. todo[c] \in Todos
    BY DEF Typed
  <2> QED
    BY <1>3, <2>1, IndexCommand DEF Todos
<1> HIDE DEF t
<1>6. /\ pc' = [pc EXCEPT ![c] = pc'[c]] /\ todo' = [todo EXCEPT ![c] = t]
      /\ (pc'[c] = "idle" /\ t = Nothing) \/ (pc'[c] = "write" /\ t # Nothing)
      /\ tx' = tx \/ (pc'[c] = "idle" /\ tx' = TxOver(c))
      /\ answer' = [answer EXCEPT ![c] = answer'[c]]
      /\ acked' = acked \/ Creating(c)
  BY <1>1, <1>4, <1>5, Moves
<1>7. Tidy(c) /\ Placed(c)
  BY DEF Shaped
<1>8. ~Creating(c) /\ MayDelete(c)
  <2>1. call[c].do \in {"delete", "commit"}
    BY <1>2, <1>7 DEF Tidy
  <2>2. call[c].do = "commit" => tx[c]
    BY <1>1, <1>7, Kinds DEF Placed
  <2> QED
    BY <1>1, <2>1, <2>2 DEF Creating, MayDelete
<1>9. rows' \in Maps /\ \A j \in Ids : j # i => rows'[j] = rows[j]
  BY <1>2, <1>3, RowsOfMaps DEF Typed, Maps
<1>10. ASSUME Kept
       PROVE  Spares
  <2>1. i \notin acked
    <3>1. NotDoomed
      BY <1>7, <1>1, <1>10 DEF Placed, Kept
    <3> QED
      BY <1>2, <3>1 DEF NotDoomed
  <2> QED
    BY <1>1, <1>8, <1>9, <2>1 DEF Spares
<1>11. /\ adapter # "redis" => t.after = {}
       /\ \A w \in t.after : \/ w.cmd = "srem" /\ w.id \in todo[c].drop
                             \/ w.cmd = "sadd" /\ todo[c].put[w.id] # NoRow
       /\ \A v, w \in t.after : v = w
  BY <1>2, <1>3, <1>5, IndexCommand
<1>12. index' \subseteq Ids /\ togo' \in [Clients -> SUBSET Ids]
  BY <1>1 DEF Typed
<1>13. Less(c, t)
  BY <1>5, <1>11 DEF Less
<1>14. acked' = acked
  BY <1>6, <1>8
<1>15. Falls(c, t)
  BY <1>1, <1>6, <1>14 DEF Falls
<1> QED
  BY <1>1, <1>8, <1>9, <1>10, <1>12, <1>13, <1>14, <1>15, GoesDown

LEMMA SetIndexStep ==
    ASSUME Typed, Shaped, NEW c \in Clients, SetIndex(c)
    PROVE  Typed' /\ Shaped' /\ (Kept => Kept')
<1>1. /\ pc[c] = "write"
      /\ UNCHANGED <<adapter, rows, call, togo, got, copy, before, seen, raced>>
  BY DEF SetIndex, Writing
<1>2. PICK w \in todo[c].after :
          index' = IF w.cmd = "sadd" THEN index \cup {w.id} ELSE index \ {w.id}
  BY DEF SetIndex
<1>3. Tidy(c) /\ Placed(c)
  BY DEF Shaped
<1>4. w \in Commanded /\ w.id \in Ids /\ w.cmd \in {"sadd", "srem"} /\ adapter = "redis"
  BY <1>3 DEF Typed, Todos, Commanded, Placed
<1> DEFINE t == [drop |-> todo[c].drop, put |-> todo[c].put, after |-> {}]
<1>5. t \in Todos /\ t.put = todo[c].put /\ t.after = {} /\ t.drop = todo[c].drop
  BY DEF Typed, Todos
<1>6. Left(c, t)
  BY DEF SetIndex
<1>7. /\ Nothing = [drop |-> {}, put |-> Empty, after |-> {}]
      /\ Nothing.drop = {} /\ \A i \in Ids : Nothing.put[i] = NoRow
  BY DEF Nothing, Empty
<1>8. Creating(c) /\ t.put[call[c].id] = NoRow => t = Nothing
  <2> SUFFICES ASSUME Creating(c), t.put[call[c].id] = NoRow
               PROVE  t = Nothing
    OBVIOUS
  <2>1. \A i \in Ids : todo[c].put[i] = NoRow
    BY <1>3 DEF Tidy
  <2>2. todo[c].put = Empty
    BY <2>1 DEF Typed, Todos, Maps, Empty
  <2>3. todo[c].drop = {}
    BY <1>3 DEF Tidy, Creating
  <2> QED
    BY <1>7, <2>2, <2>3
<1>9. Creating(c) => w.id = call[c].id /\ w.cmd = "sadd"
  BY <1>3, <1>4 DEF Tidy, Creating
<1> HIDE DEF t
<1>10. /\ pc' = [pc EXCEPT ![c] = pc'[c]] /\ todo' = [todo EXCEPT ![c] = t]
       /\ (pc'[c] = "idle" /\ t = Nothing) \/ (pc'[c] = "write" /\ t # Nothing)
       /\ tx' = tx \/ (pc'[c] = "idle" /\ tx' = TxOver(c))
       /\ answer' = [answer EXCEPT ![c] = answer'[c]]
       /\ acked' = acked \/ /\ Creating(c) /\ acked' = acked \cup {call[c].id}
                            /\ c \notin raced /\ pc'[c] = "idle"
  BY <1>1, <1>5, <1>6, Moves
<1>11. ASSUME Kept
       PROVE  Spares
  <2>1. \A i \in acked : i \in index => i \in index'
    <3>1. w.cmd = "srem" => w.id \notin acked
      BY <1>2, <1>4, <1>11 DEF Kept, NotDoomed
    <3> QED
      BY <1>2, <1>4, <3>1
  <2> QED
    BY <1>1, <2>1 DEF Spares
<1>12. Kept /\ acked' # acked => /\ rows'[call[c].id] # NoRow
                                 /\ adapter = "redis" => call[c].id \in index'
  <2> SUFFICES ASSUME Kept, acked' # acked
               PROVE  rows'[call[c].id] # NoRow /\ call[c].id \in index'
    OBVIOUS
  <2>1. Creating(c) /\ c \notin raced /\ t = Nothing
    BY <1>10
  <2>2. call[c].id \in index'
    BY <1>2, <1>9, <2>1
  <2>3. todo[c].put[call[c].id] = NoRow
    BY <1>4, <1>5, <1>7, <1>9, <2>1
  <2>4. rows[call[c].id] # NoRow
    BY <1>1, <1>4, <2>1, <2>3 DEF Kept, Undisturbed
  <2> QED
    BY <1>1, <2>2, <2>4
<1>13. rows' \in Maps /\ index' \subseteq Ids /\ togo' \in [Clients -> SUBSET Ids]
  BY <1>1, <1>2, <1>4 DEF Typed
<1>14. Less(c, t)
  BY <1>5 DEF Less
<1>15. Falls(c, t)
  BY <1>1, <1>10 DEF Falls
<1>16. Creating(c) /\ pc'[c] = "write" /\ t.put[call[c].id] = NoRow
          => rows'[call[c].id] # NoRow
  BY <1>8, <1>10
<1> QED
  BY <1>1, <1>11, <1>12, <1>13, <1>14, <1>15, <1>16, GoesDown

LEMMA FaultStep ==
    ASSUME Typed, Shaped, NEW c \in Clients, Fault(c)
    PROVE  Typed' /\ Shaped' /\ (Kept => Kept')
<1>1. /\ pc[c] \in {"look", "get", "write"}
      /\ pc' = [pc EXCEPT ![c] = "idle"] /\ todo' = [todo EXCEPT ![c] = Nothing]
      /\ answer' = [answer EXCEPT ![c] = [tag |-> "error"]]
      /\ togo' = [togo EXCEPT ![c] = {}]
      /\ UNCHANGED <<adapter, rows, index, call, got, copy, before, seen, raced, acked>>
  BY DEF Fault
<1>2. tx' = tx \/ tx' = TxOver(c)
  <2>1. tx' = IF call[c].do = "commit" THEN TxOver(c) ELSE tx
    BY DEF Fault, TxOver
  <2> QED
    BY <2>1
<1>3. /\ Nothing \in Todos /\ Nothing.drop = {} /\ Nothing.after = {}
      /\ \A j \in Ids : Nothing.put[j] = NoRow
  BY RowsOfMaps DEF Nothing, Empty
<1>4. /\ pc' = [pc EXCEPT ![c] = pc'[c]] /\ pc'[c] = "idle"
      /\ answer' = [answer EXCEPT ![c] = answer'[c]]
      /\ rows' \in Maps /\ index' \subseteq Ids /\ togo' \in [Clients -> SUBSET Ids]
  BY <1>1 DEF Typed
<1>5. tx' = tx \/ (pc'[c] = "idle" /\ tx' = TxOver(c))
  BY <1>2, <1>4
<1>6. Spares
  BY <1>1 DEF Spares
<1>7. Less(c, Nothing)
  BY <1>3 DEF Less
<1>8. Falls(c, Nothing) /\ pc'[c] # "write" /\ acked' = acked
  BY <1>1, <1>4, <1>5 DEF Falls
<1> QED
  BY <1>1, <1>4, <1>6, <1>7, <1>8, GoesDown

(* A transaction begins: every call under way has met it.                   *)
LEMMA BeginStep ==
    ASSUME Typed, Shaped, NEW c \in Clients, Begin(c)
    PROVE  Typed' /\ Shaped' /\ (Kept => Kept')
<1>1. /\ pc[c] = "idle" /\ todo[c] = Nothing /\ ~tx[c]
      /\ call' = [call EXCEPT ![c] = [do |-> "begin"]]
      /\ raced' = raced \cup {d \in Clients : d = c \/ Active(d)}
      /\ UNCHANGED <<adapter, rows, index, togo, got, seen>>
  BY DEF Begin, Meets, Shaped, Placed
<1>2. /\ todo' = todo /\ answer' = answer /\ acked' = acked
      /\ pc' = [pc EXCEPT ![c] = pc'[c]]
      /\ \/ /\ adapter # "redis" /\ pc'[c] = "idle"
            /\ tx' = [tx EXCEPT ![c] = TRUE]
            /\ copy' = [copy EXCEPT ![c] = rows] /\ before' = [before EXCEPT ![c] = rows]
         \/ adapter = "redis" /\ pc'[c] = "look" /\ UNCHANGED <<tx, copy, before>>
  <2>1. CASE adapter # "redis"
    BY <2>1 DEF Begin, Open, Typed
  <2>2. CASE adapter = "redis"
    BY <2>2 DEF Begin, Open, Typed
  <2> QED
    BY <2>1, <2>2
<1>3. Typed'
  <2>1. call' \in [Clients -> Calls]
    BY <1>1 DEF Typed, Calls
  <2>2. rows \in Maps
    BY DEF Typed
  <2>3. copy' \in [Clients -> Maps] /\ before' \in [Clients -> Maps]
    BY <1>2, <2>2 DEF Typed
  <2>4. tx' \in [Clients -> BOOLEAN]
    BY <1>2 DEF Typed
  <2>5. pc' \in [Clients -> {"idle", "run", "refuse", "look", "get", "write"}]
    BY <1>2 DEF Typed
  <2> QED
    BY <1>1, <1>2, <2>1, <2>3, <2>4, <2>5 DEF Typed
<1>4. \A d \in Clients \ {c} : /\ pc'[d] = pc[d] /\ call'[d] = call[d]
                               /\ todo'[d] = todo[d] /\ tx'[d] = tx[d]
                               /\ copy'[d] = copy[d] /\ before'[d] = before[d]
  BY <1>1, <1>2 DEF Typed
<1>5. call'[c] = [do |-> "begin"] /\ todo'[c] = Nothing
  BY <1>1, <1>2 DEF Typed
<1>6. Nothing.drop = {} /\ Nothing.after = {} /\ \A i \in Ids : Nothing.put[i] = NoRow
  BY DEF Nothing, Empty
<1>7. Shaped'
  <2>1. pc'[c] = "idle" \/ (pc'[c] = "look" /\ adapter = "redis" /\ ~tx'[c])
    BY <1>1, <1>2
  <2>2. Placed(c)' /\ Tidy(c)'
    BY <1>1, <1>5, <1>6, <2>1 DEF Placed, Tidy, Creating
  <2>3. adapter' = adapter
    BY <1>1
  <2> QED
    BY <1>4, <2>2, <2>3, Apart
<1>8. ASSUME Kept, adapter # "memory"
      PROVE  InStore' /\ Undisturbed' /\ NotDoomed' /\ Carried'
  <2>1. InStore /\ Undisturbed /\ NotDoomed /\ Carried
    BY <1>8 DEF Kept
  <2>2. InStore'
    BY <1>1, <1>2, <2>1 DEF InStore
  <2>3. Undisturbed'
    <3>1. ASSUME NEW d \in Clients, Creating(d)'
          PROVE  d \in raced'
      <4>1. d # c
        BY <1>5, <3>1 DEF Creating
      <4>2. Active(d)
        BY <1>4, <3>1, <4>1 DEF Creating, Active
      <4> QED
        BY <1>1, <4>2
    <3> QED
      BY <3>1 DEF Undisturbed
  <2>4. NotDoomed'
    BY <1>2, <1>4, <1>5, <2>1 DEF NotDoomed, Writes
  <2>5. Carried'
    <3> SUFFICES ASSUME NEW d \in Clients, NEW i \in acked, tx'[d]
                 PROVE  /\ adapter = "redis" /\ before'[d][i] # NoRow => copy'[d][i] # NoRow
                        /\ adapter = "sqlite" => before'[d][i] # NoRow
      BY <1>1, <1>2 DEF Carried
    <3>1. CASE d # c \/ adapter = "redis"
      <4>1. tx[d] /\ before'[d] = before[d] /\ copy'[d] = copy[d]
        BY <1>2, <1>4, <3>1
      <4> QED
        BY <2>1, <4>1 DEF Carried
    <3>2. CASE d = c /\ adapter # "redis"
      <4>1. before'[c] = rows
        BY <1>2, <3>2 DEF Typed
      <4> QED
        BY <2>1, <3>2, <4>1 DEF InStore
    <3> QED
      BY <3>1, <3>2
  <2> QED
    BY <2>2, <2>3, <2>4, <2>5
<1>9. adapter' = adapter
  BY <1>1
<1> QED
  BY <1>3, <1>7, <1>8, <1>9 DEF Kept

LEMMA CommandsOfCommit ==
    ASSUME Typed, NEW c \in Clients
    PROVE  /\ CommitCommands(c) \in Todos /\ CommitCommands(c).after = {}
           /\ CommitCommands(c).put = copy[c]
           /\ \A i \in Ids : i \in CommitCommands(c).drop
                                <=> before[c][i] # NoRow /\ copy[c][i] = NoRow
BY DEF Typed, CommitCommands, Todos, Present

LEMMA CommitStep ==
    ASSUME Typed, Shaped, NEW c \in Clients, Commit(c)
    PROVE  Typed' /\ Shaped' /\ (Kept => Kept')
<1> DEFINE t == CommitCommands(c)
<1>1. /\ pc[c] = "idle" /\ tx[c] /\ todo[c] = Nothing
      /\ call' = [call EXCEPT ![c] = [do |-> "commit"]]
      /\ answer' = [answer EXCEPT ![c] = [tag |-> "done"]]
      /\ UNCHANGED <<adapter, index, togo, got, copy, before, seen, raced, acked>>
  BY DEF Commit, Shaped, Placed
<1>2. \/ /\ adapter = "redis" /\ pc' = [pc EXCEPT ![c] = "write"]
         /\ todo' = [todo EXCEPT ![c] = t] /\ tx' = tx /\ rows' = rows
      \/ /\ tx' = TxOver(c) /\ pc' = pc /\ todo' = todo
         /\ rows' = IF adapter = "memory" THEN copy[c] ELSE rows
  <2>1. CASE adapter = "redis" /\ CommitCommands(c) # Nothing
    BY <2>1 DEF Commit
  <2>2. CASE ~(adapter = "redis" /\ CommitCommands(c) # Nothing)
    BY <2>2 DEF Commit, TxOver
  <2> QED
    BY <2>1, <2>2
<1>3. /\ t \in Todos /\ t.after = {}
      /\ \A i \in Ids : i \in t.drop <=> before[c][i] # NoRow /\ copy[c][i] = NoRow
  BY CommandsOfCommit
<1> HIDE DEF t
<1>4. /\ tx' \in [Clients -> BOOLEAN]
      /\ \A d \in Clients \ {c} : tx'[d] = tx[d]
      /\ tx'[c] => /\ adapter = "redis" /\ pc'[c] = "write" /\ todo'[c] = t
      /\ ~tx'[c] => pc'[c] = "idle" /\ todo'[c] = Nothing
  <2>1. CASE tx' = TxOver(c)
    <3>1. ~tx'[c] /\ \A d \in Clients \ {c} : tx'[d] = tx[d]
      BY <2>1 DEF TxOver, Typed
    <3>2. tx' \in [Clients -> BOOLEAN]
      BY <2>1 DEF TxOver, Typed
    <3>3. (pc'[c] = "idle" /\ todo'[c] = Nothing) \/ tx' = tx
      BY <1>1, <1>2
    <3> QED
      BY <1>1, <3>1, <3>2, <3>3
  <2>2. CASE tx' # TxOver(c)
    <3>1. /\ adapter = "redis" /\ pc' = [pc EXCEPT ![c] = "write"]
          /\ todo' = [todo EXCEPT ![c] = t] /\ tx' = tx
      BY <1>2, <2>2
    <3> QED
      BY <1>1, <3>1 DEF Typed
  <2> QED
    BY <2>1, <2>2
<1>5. /\ call'[c] = [do |-> "commit"]
      /\ \A d \in Clients \ {c} : /\ pc'[d] = pc[d] /\ call'[d] = call[d]
                                  /\ todo'[d] = todo[d] /\ tx'[d] = tx[d]
                                  /\ copy'[d] = copy[d] /\ before'[d] = before[d]
  BY <1>1, <1>2, <1>4 DEF Typed
<1>6. Nothing.drop = {} /\ Nothing.after = {} /\ \A i \in Ids : Nothing.put[i] = NoRow
  BY DEF Nothing, Empty
<1>7. Typed'
  <2>1. call' \in [Clients -> Calls]
    BY <1>1 DEF Typed, Calls
  <2>2. rows' \in Maps /\ todo' \in [Clients -> Todos]
    BY <1>2, <1>3 DEF Typed
  <2>3. pc' \in [Clients -> {"idle", "run", "refuse", "look", "get", "write"}]
    BY <1>2 DEF Typed
  <2>4. answer' = [d \in Clients |-> answer'[d]]
    BY <1>1 DEF Typed
  <2> QED
    BY <1>1, <1>4, <2>1, <2>2, <2>3, <2>4 DEF Typed
<1>8. Shaped'
  <2>1. \/ pc'[c] = "idle" /\ todo'[c] = Nothing
        \/ adapter = "redis" /\ pc'[c] = "write" /\ todo'[c] = t /\ tx'[c]
    BY <1>4
  <2>2. Placed(c)' /\ Tidy(c)'
    BY <1>1, <1>3, <1>5, <1>6, <2>1 DEF Placed, Tidy, Creating
  <2>3. adapter' = adapter
    BY <1>1
  <2> QED
    BY <1>5, <2>2, <2>3, Apart
<1>9. ASSUME Kept, adapter # "memory"
      PROVE  Kept'
  <2>1. Carried
    BY <1>9 DEF Kept
  <2>2. MayDelete(c) /\ adapter' = adapter /\ raced' = raced
    BY <1>1 DEF MayDelete
  <2>3. Going(c)
    BY <1>5, <2>2 DEF Going, Creating, Writes
  <2>4. Spares
    BY <1>1, <1>2, <1>9 DEF Spares
  <2>5. ~Creating(c)'
    BY <1>5 DEF Creating
  <2>6. \A i \in acked : i \notin todo'[c].drop /\ todo'[c].after = {}
    <3>1. \A i \in acked : adapter = "redis" => i \notin t.drop
      BY <1>1, <1>3, <2>1 DEF Carried, Typed
    <3>2. todo'[c] = Nothing \/ (todo'[c] = t /\ adapter = "redis")
      BY <1>4
    <3> QED
      BY <1>3, <1>6, <3>1, <3>2
  <2>7. \A i \in acked : tx'[c] =>
            /\ adapter = "redis" /\ before'[c][i] # NoRow => copy'[c][i] # NoRow
            /\ adapter = "sqlite" => before'[c][i] # NoRow
    BY <1>1, <2>1 DEF Carried
  <2>8. \A i \in acked : /\ i \notin todo'[c].drop
                         /\ \A w \in todo'[c].after : w.cmd = "srem" => w.id # i
                         /\ tx'[c] =>
                              /\ adapter = "redis" /\ before'[c][i] # NoRow => copy'[c][i] # NoRow
                              /\ adapter = "sqlite" => before'[c][i] # NoRow
    BY <2>6, <2>7
  <2>9. /\ todo'[c].drop # {} => MayDelete(c)
        /\ \A w \in todo'[c].after : w.cmd = "srem" => MayDelete(c)
    BY <2>2
  <2>10. acked' = acked
    BY <1>1
  <2> QED
    BY <1>9, <2>3, <2>4, <2>5, <2>8, <2>9, <2>10, GoesOn
<1>10. Kept => Kept'
  <2>1. adapter = "memory" => Kept'
    BY <1>1 DEF Kept
  <2> QED
    BY <1>9, <2>1
<1> QED
  BY <1>7, <1>8, <1>10

LEMMA AbortStep ==
    ASSUME Typed, Shaped, NEW c \in Clients, Abort(c)
    PROVE  Typed' /\ Shaped' /\ (Kept => Kept')
<1>1. /\ pc[c] = "idle" /\ tx[c] /\ todo[c] = Nothing
      /\ call' = [call EXCEPT ![c] = [do |-> "abort"]]
      /\ rows' = IF adapter = "sqlite" THEN before[c] ELSE rows
      /\ tx' = TxOver(c)
      /\ UNCHANGED <<adapter, index, pc, todo, togo, got, copy, before, answer, seen, raced,
                     acked>>
  BY DEF Abort, Shaped, Placed, TxOver
<1>2. /\ tx' \in [Clients -> BOOLEAN] /\ ~tx'[c]
      /\ \A d \in Clients \ {c} : tx'[d] = tx[d]
  BY <1>1 DEF TxOver, Typed
<1>3. /\ call'[c] = [do |-> "abort"]
      /\ \A d \in Clients \ {c} : call'[d] = call[d]
  BY <1>1 DEF Typed
<1>4. Nothing.drop = {} /\ Nothing.after = {} /\ \A i \in Ids : Nothing.put[i] = NoRow
  BY DEF Nothing, Empty
<1>5. Typed'
  <2>1. call' \in [Clients -> Calls] /\ rows' \in Maps
    BY <1>1 DEF Typed, Calls
  <2> QED
    BY <1>1, <1>2, <2>1 DEF Typed
<1>6. Shaped'
  <2>1. Placed(c)' /\ Tidy(c)'
    BY <1>1, <1>3, <1>4 DEF Placed, Tidy, Creating
  <2> QED
    BY <1>1, <1>2, <1>3, <2>1, Apart
<1>7. ASSUME Kept, adapter # "memory"
      PROVE  Kept'
  <2>1. Carried
    BY <1>7 DEF Kept
  <2>2. MayDelete(c)
    BY <1>1 DEF MayDelete
  <2>3. Going(c)
    BY <1>1, <1>2, <1>3, <2>2 DEF Going, Creating, Writes
  <2>4. Spares
    <3>1. \A i \in acked : adapter = "sqlite" => before[c][i] # NoRow
      BY <1>1, <2>1 DEF Carried
    <3>2. \A i \in Ids : rows[i] # NoRow /\ rows'[i] = NoRow => i \notin acked
      BY <1>1, <3>1
    <3> QED
      BY <1>1, <2>2, <3>2 DEF Spares
  <2>5. ~Creating(c)' /\ todo'[c].drop = {} /\ todo'[c].after = {} /\ acked' = acked
    BY <1>1, <1>3, <1>4 DEF Creating
  <2> QED
    BY <1>2, <1>7, <2>3, <2>4, <2>5, GoesOn
<1>8. Kept => Kept'
  <2>1. adapter = "memory" => Kept'
    BY <1>1 DEF Kept
  <2> QED
    BY <1>7, <2>1
<1> QED
  BY <1>5, <1>6, <1>8

LEMMA Begins == Init => Typed /\ Shaped /\ Kept
<1> SUFFICES ASSUME Init
             PROVE  Typed /\ Shaped /\ Kept
  OBVIOUS
<1> USE DEF Init
<1>1. Typed
  <2>1. rows \in Maps
    BY StorageAssumption, RowsOfMaps
  <2>2. Empty \in Maps /\ Nothing \in Todos
    BY RowsOfMaps
  <2>3. index \subseteq Ids
    BY DEF Present
  <2> QED
    BY <2>1, <2>2, <2>3 DEF Typed, Calls
<1>2. Shaped
  <2>1. Nothing.drop = {} /\ Nothing.after = {} /\ \A i \in Ids : Nothing.put[i] = NoRow
    BY DEF Nothing, Empty
  <2> QED
    BY <2>1 DEF Shaped, Placed, Tidy, Creating
<1>3. Kept
  BY DEF Kept, InStore, Undisturbed, NotDoomed, Carried, Creating
<1> QED
  BY <1>1, <1>2, <1>3

LEMMA Goes ==
    ASSUME Typed, Shaped, [Next]_vars
    PROVE  Typed' /\ Shaped' /\ (Kept => Kept')
<1>1. ASSUME NEW c \in Clients,
             Call(c) \/ Step(c) \/ Fault(c) \/ Begin(c) \/ Commit(c) \/ Abort(c)
      PROVE  Typed' /\ Shaped' /\ (Kept => Kept')
  BY <1>1, CallStep, RunStep, SelectStep, LookStep, GetStep, SetRowStep, DelRowStep,
     SetIndexStep, FaultStep, BeginStep, CommitStep, AbortStep DEF Step
<1>2. CASE UNCHANGED vars
  <2>1. Typed'
    BY <1>2 DEF Typed, vars
  <2>2. Shaped'
    BY <1>2 DEF Shaped, Placed, Tidy, OnCopy, Creating, vars
  <2>3. Kept => Kept'
    BY <1>2 DEF Kept, InStore, Undisturbed, NotDoomed, Carried, Creating, MayDelete, Writes, vars
  <2> QED
    BY <2>1, <2>2, <2>3
<1> QED
  BY <1>1, <1>2 DEF Next, AtRest

LEMMA Invariance == Spec => [](Typed /\ Shaped /\ Kept)
<1>1. Typed /\ Shaped /\ Kept /\ [Next]_vars => (Typed /\ Shaped /\ Kept)'
  BY Goes
<1> QED
  BY <1>1, Begins, PTL DEF Spec

(* At SQLite and Redis an acknowledged create or upsert that met no delete  *)
(* and no transaction stays visible until somebody deletes, whatever else   *)
(* overlaps with it and fails.                                              *)
THEOREM AcknowledgedStays == Spec => []AckedVisible
<1>1. Typed /\ Shaped /\ Kept => AckedVisible
  <2> SUFFICES ASSUME Typed, Kept, adapter # "memory", NEW i \in acked
               PROVE  Visible[i] # NoRow
    BY DEF AckedVisible
  <2>1. i \in Ids /\ rows[i] # NoRow /\ rows[i] \in Rows /\ (adapter = "redis" => i \in index)
    BY RowsOfMaps DEF Typed, Kept, InStore
  <2>2. CASE adapter = "redis"
    <3>1. Visible = [j \in Ids |-> IF j \in index THEN Decoded(rows[j]) ELSE NoRow]
      BY <2>2 DEF Visible
    <3>2. Visible[i] = Decoded(rows[i])
      BY <2>1, <2>2, <3>1
    <3> QED
      BY <2>1, <3>2, DecodedRow
  <2>3. CASE adapter # "redis"
    BY <2>1, <2>3 DEF Visible
  <2> QED
    BY <2>2, <2>3
<1> QED
  BY <1>1, Invariance, PTL

----------------------------------------------------------------------------
(* A client by itself.                                                      *)
Lone(c) == \A d \in Clients \ {c} : pc[d] = "idle" /\ ~tx[d] /\ todo[d] = Nothing
(* Redis: the ids are those of the records, but for the one command to come. *)
Indexed(c) ==
    adapter = "redis" =>
        \A i \in Ids :
            /\ (\A w \in todo[c].after : w.id # i) => (i \in index <=> rows[i] # NoRow)
            /\ \A w \in todo[c].after : w.id = i => (w.cmd = "sadd" <=> rows[i] # NoRow)
(* It reads what it saw when it called ...                                  *)
Reading(c) ==
    /\ pc[c] \in {"run", "refuse", "look"} /\ call[c] \in Operations => rows = seen[c]
    /\ pc[c] = "run" => ~Refused(call[c], seen[c])
    /\ pc[c] = "refuse" => Refused(call[c], seen[c])
    /\ pc[c] = "get" =>
          /\ call[c] \in Operations => rows = seen[c]
          /\ togo[c] \subseteq index
          /\ \A i \in Ids \ togo[c] : got[c][i] = rows[i]
(* ... and what it writes leads from there to what the Map would hold.      *)
Reaches(m, t) ==
    \A i \in Ids : m[i] = IF i \in t.drop THEN NoRow
                          ELSE IF t.put[i] # NoRow THEN t.put[i] ELSE rows[i]
Writer(c) ==
    pc[c] = "write" =>
        /\ \A i \in todo[c].drop : todo[c].put[i] = NoRow
        /\ call[c].do = "commit" => Reaches(copy[c], todo[c])
        /\ call[c] \in Operations =>
              /\ ~Refused(call[c], seen[c]) => Reaches(Stored(call[c], seen[c]), todo[c])
              /\ call[c].do # "create" =>
                    /\ ~Refused(call[c], seen[c])
                    /\ answer[c] = Answer(call[c], seen[c])
              /\ call[c].do = "create" =>
                    IF todo[c].put[call[c].id] # NoRow
                    THEN rows = seen[c] /\ todo[c].after = {}
                    ELSE ~Refused(call[c], seen[c])
(* A transaction on a copy leaves the store as it found it.                 *)
Untouched(c) ==
    OnCopy(c) /\ pc[c] = "idle" => rows = before[c]
Alike(c) == Lone(c) /\ Indexed(c) /\ Reading(c) /\ Writer(c) /\ Untouched(c)
(* With no overlap and no error so far, that is so of whoever is active, and *)
(* of everybody when nobody is.                                             *)
InSeries == serial => \A c \in Clients : (Active(c) \/ Alone(c)) => Alike(c)
(* The codec of Redis forgets no flag of these rows.                        *)
FlagsKept == "redis" \in Adapters => Flags \subseteq {"unset", "true"}

(* What a step does to Conforms.                                            *)
Agrees(c) ==
    /\ Ends(c) /\ call[c] \in Operations =>
          /\ answer'[c] = Answer(call[c], seen[c])
          /\ Visible' = Applied(call[c], seen[c])
    /\ tx[c] /\ ~tx'[c] =>
          Visible' = IF call'[c].do = "abort" THEN before[c] ELSE SeenBy(c)

(* The step of a client that is alone: it is about its own variables.       *)
LEMMA OnlyOne ==
    ASSUME Shaped', NEW c \in Clients, Lone(c), adapter' = adapter,
           \A d \in Clients \ {c} : /\ pc'[d] = pc[d] /\ tx'[d] = tx[d] /\ todo'[d] = todo[d],
           Indexed(c)', Reading(c)', Writer(c)', Untouched(c)', Agrees(c)
    PROVE  (\A d \in Clients : (Active(d) \/ Alone(d)) => Alike(d))' /\ \A d \in Clients : Agrees(d)
<1>1. Lone(c)'
  BY DEF Lone
<1>2. Alike(c)'
  BY <1>1 DEF Alike
<1>3. ASSUME NEW d \in Clients \ {c}
      PROVE  (Active(d) \/ Alone(d) => Alike(d))' /\ Agrees(d)
  <2>1. pc[d] = "idle" /\ ~tx[d] /\ pc'[d] = "idle" /\ ~tx'[d] /\ todo'[d] = Nothing
    BY DEF Lone
  <2>2. Agrees(d)
    BY <2>1 DEF Agrees, Ends
  <2>3. ASSUME Alone(d)'
        PROVE  Alike(d)'
    <3>1. pc'[c] = "idle" /\ ~tx'[c]
      BY <2>3 DEF Alone, Active
    <3>2. Lone(d)' /\ Indexed(d)'
      <4>1. Nothing.after = {}
        BY DEF Nothing
      <4>2. todo'[c] = Nothing
        BY <3>1 DEF Shaped, Placed
      <4> QED
        BY <1>1, <2>1, <3>1, <4>1, <4>2 DEF Lone, Indexed
    <3>3. Reading(d)' /\ Writer(d)' /\ Untouched(d)'
      BY <2>1 DEF Reading, Writer, Untouched, OnCopy
    <3> QED
      BY <3>2, <3>3 DEF Alike
  <2>4. ~Active(d)'
    BY <2>1 DEF Active
  <2> QED
    BY <2>2, <2>3, <2>4
<1> QED
  BY <1>2, <1>3

(* Between two commands what a read finds is the rows.                      *)
LEMMA AllShown ==
    ASSUME FlagsKept, "redis" \in Adapters, NEW r \in Maps, NEW x,
           \A i \in Ids : i \in x <=> r[i] # NoRow
    PROVE  [i \in Ids |-> IF i \in x THEN Decoded(r[i]) ELSE NoRow] = r
<1>1. ASSUME NEW i \in Ids
      PROVE  Decoded(r[i]) = r[i]
  <2>1. Flags \subseteq {"unset", "true"}
    BY DEF FlagsKept
  <2>2. CASE r[i] = NoRow
    BY <2>2 DEF Decoded
  <2>3. CASE r[i] \in Rows /\ r[i].readonly = "true"
    BY <2>3 DEF Decoded
  <2>4. CASE r[i] \in Rows /\ r[i].readonly = "unset" /\ r[i] # NoRow
    <3>1. Decoded(r[i]) = [r[i] EXCEPT !.readonly = "unset"]
      BY <2>4 DEF Decoded
    <3> QED
      BY <2>4, <3>1 DEF Rows
  <2>5. r[i] \in Rows => r[i].readonly \in {"unset", "true"}
    BY <2>1 DEF Rows
  <2> QED
    BY <2>2, <2>3, <2>4, <2>5, RowsOfMaps
<1>2. [i \in Ids |-> IF i \in x THEN Decoded(r[i]) ELSE NoRow] = [i \in Ids |-> r[i]]
  BY <1>1
<1> QED
  BY <1>2 DEF Maps

LEMMA Settled ==
    ASSUME Typed, FlagsKept, NEW c \in Clients, Indexed(c), todo[c].after = {}
    PROVE  /\ Visible = rows
           /\ adapter = "redis" => \A i \in Ids : i \in index <=> rows[i] # NoRow
<1>1. CASE adapter = "redis"
  <2>1. \A i \in Ids : i \in index <=> rows[i] # NoRow
    BY <1>1 DEF Indexed
  <2>2. Visible = [i \in Ids |-> IF i \in index THEN Decoded(rows[i]) ELSE NoRow]
    BY <1>1 DEF Visible
  <2> QED
    BY <1>1, <2>1, <2>2, AllShown DEF Typed
<1>2. CASE adapter # "redis"
  BY <1>2 DEF Visible
<1> QED
  BY <1>1, <1>2

LEMMA SettledNext ==
    ASSUME Typed', FlagsKept, NEW c \in Clients, Indexed(c)', todo'[c].after = {}
    PROVE  Visible' = rows'
<1>1. CASE adapter' = "redis"
  <2>1. \A i \in Ids : i \in index' <=> rows'[i] # NoRow
    BY <1>1 DEF Indexed
  <2>2. Visible' = [i \in Ids |-> IF i \in index' THEN Decoded(rows'[i]) ELSE NoRow]
    BY <1>1 DEF Visible
  <2>3. "redis" \in Adapters /\ rows' \in Maps
    BY <1>1 DEF Typed
  <2> QED
    BY <2>1, <2>2, <2>3, AllShown
<1>2. CASE adapter' # "redis"
  BY <1>2 DEF Visible
<1> QED
  BY <1>1, <1>2

(* The same records are the same Map.                                       *)
LEMMA SameMap ==
    ASSUME NEW m \in Maps, NEW n \in Maps, \A i \in Ids : m[i] = n[i]
    PROVE  m = n
BY DEF Maps

LEMMA Whole ==
    ASSUME NEW o \in Operations, NEW m \in Maps,
           Refused(o, m) \/ Commands(o, m) = Nothing
    PROVE  Applied(o, m) = m
<1>1. CASE Refused(o, m)
  BY <1>1 DEF Applied
<1>2. CASE ~Refused(o, m)
  <2>1. Commands(o, m) = Nothing /\ Applied(o, m) = Stored(o, m)
    BY <1>2 DEF Applied
  <2>2. Nothing.drop = {} /\ \A i \in Ids : Nothing.put[i] = NoRow
    BY DEF Nothing, Empty
  <2>3. \A i \in Ids : Stored(o, m)[i] = m[i]
    BY <2>1, <2>2, CommandsLead
  <2> QED
    BY <2>1, <2>3, StoredMap, SameMap
<1> QED
  BY <1>1, <1>2

LEMMA LeadsTo ==
    ASSUME NEW o \in Operations, NEW m \in Maps
    PROVE  /\ Commands(o, m) \in Todos /\ Commands(o, m).after = {}
           /\ o.do = "create" => Commands(o, m).put[o.id] # NoRow /\ Commands(o, m).drop = {}
           /\ \A i \in Commands(o, m).drop : Commands(o, m).put[i] = NoRow
           /\ \A i \in Ids : Stored(o, m)[i] =
                 IF i \in Commands(o, m).drop THEN NoRow
                 ELSE IF Commands(o, m).put[i] # NoRow THEN Commands(o, m).put[i] ELSE m[i]
<1> DEFINE t == Commands(o, m)
<1>1. /\ t \in Todos /\ t.after = {}
      /\ t.drop # {} => o.do = "delete"
      /\ o.do = "create" => t.put[o.id] # NoRow
      /\ Stored(o, m) = [i \in Ids |-> IF i \in t.drop THEN NoRow
                                       ELSE IF t.put[i] # NoRow THEN t.put[i] ELSE m[i]]
  BY CommandsLead
<1>2. ASSUME NEW i \in t.drop
      PROVE  t.put[i] = NoRow
  <2>1. o.do = "delete" /\ i \in Ids
    BY <1>1 DEF Todos
  <2>2. t = [drop |-> Deletable(m, o.q), put |-> Empty, after |-> {}]
    BY <2>1 DEF Commands, Nothing
  <2> QED
    BY <2>1, <2>2 DEF Empty
<1> HIDE DEF t
<1>3. t.put \in Maps
  BY <1>1 DEF Todos
<1> QED
  BY <1>1, <1>2, <1>3 DEF t

LEMMA Done ==
    ASSUME NEW o \in Operations, o.do \in {"create", "upsert"}, NEW m \in Maps
    PROVE  /\ ~Refused(o, m) => Answer(o, m) = [tag |-> "done"]
           /\ o.do = "create" => /\ Refused(o, m) <=> m[o.id] # NoRow
                                 /\ Refused(o, m) => Answer(o, m) = [tag |-> "duplicate"]
<1>1. CASE o.do = "create"
  BY <1>1 DEF Answer, Refused
<1>2. CASE o.do = "upsert"
  BY <1>2 DEF Answer, Refused
<1> QED
  BY <1>1, <1>2

(* The steps of a client that is alone, handler by handler.                 *)
LEMMA CallAlike ==
    ASSUME Typed, Typed', Shaped, FlagsKept, NEW c \in Clients, Alike(c), Call(c)
    PROVE  Indexed(c)' /\ Reading(c)' /\ Writer(c)' /\ Untouched(c)' /\ Agrees(c)
<1>1. PICK o \in Operations :
          /\ call' = [call EXCEPT ![c] = o]
          /\ seen' = [seen EXCEPT ![c] = SeenBy(c)]
          /\ acked' = IF o.do = "delete" THEN {} ELSE acked
          /\ Meets(c, o.do = "delete")
          /\ \/ /\ OnCopy(c)
                /\ copy' = [copy EXCEPT ![c] = Applied(o, @)]
                /\ answer' = [answer EXCEPT ![c] = Answer(o, copy[c])]
                /\ UNCHANGED <<pc, todo>>
             \/ /\ ~OnCopy(c) /\ adapter = "memory"
                /\ pc' = [pc EXCEPT ![c] = IF Refused(o, rows) THEN "refuse" ELSE "run"]
                /\ UNCHANGED <<copy, answer, todo>>
             \/ /\ adapter = "sqlite" /\ o.do = "create"
                /\ pc' = [pc EXCEPT ![c] = "write"]
                /\ todo' = [todo EXCEPT ![c] = Commands(o, rows)]
                /\ UNCHANGED <<copy, answer>>
             \/ /\ ~OnCopy(c) /\ adapter # "memory"
                /\ adapter = "sqlite" => o.do # "create"
                /\ pc' = [pc EXCEPT ![c] = "look"]
                /\ UNCHANGED <<copy, answer, todo>>
  BY DEF Call
<1>2. /\ pc[c] = "idle" /\ todo[c] = Nothing
      /\ UNCHANGED <<adapter, rows, index, holder, togo, got, tx, before>>
  BY DEF Call, Shaped, Placed
<1>3. rows \in Maps
  BY DEF Typed
<1>4. Nothing.after = {}
  BY DEF Nothing
<1>5. Visible = rows
  BY <1>2, <1>4, Settled DEF Alike
<1>6. call'[c] = o /\ seen'[c] = SeenBy(c) /\ (~OnCopy(c) => SeenBy(c) = rows)
  BY <1>1, <1>5 DEF Typed, SeenBy
<1>7. /\ Commands(o, rows) \in Todos /\ Commands(o, rows).after = {}
      /\ o.do = "create" => /\ Commands(o, rows).put[o.id] # NoRow
                            /\ Commands(o, rows).drop = {}
      /\ \A i \in Ids : Stored(o, rows)[i] =
                           IF i \in Commands(o, rows).drop THEN NoRow
                           ELSE IF Commands(o, rows).put[i] # NoRow THEN Commands(o, rows).put[i]
                           ELSE rows[i]
  BY <1>3, LeadsTo
<1>8. \/ pc'[c] = "idle" /\ OnCopy(c) /\ todo'[c] = Nothing
      \/ /\ pc'[c] = (IF Refused(o, rows) THEN "refuse" ELSE "run") /\ ~OnCopy(c)
         /\ todo'[c] = Nothing
      \/ pc'[c] = "look" /\ ~OnCopy(c) /\ todo'[c] = Nothing
      \/ /\ pc'[c] = "write" /\ adapter = "sqlite" /\ o.do = "create"
         /\ todo'[c] = Commands(o, rows)
  BY <1>1, <1>2 DEF Typed
<1>9. Indexed(c)'
  <2>1. todo'[c].after = {}
    BY <1>4, <1>7, <1>8
  <2> QED
    BY <1>2, <1>4, <2>1 DEF Alike, Indexed
<1>10. Reading(c)'
  BY <1>2, <1>6, <1>8 DEF Reading
<1>11. Writer(c)'
  <2> SUFFICES ASSUME pc'[c] = "write"
               PROVE  Writer(c)'
    BY DEF Writer
  <2>1. adapter = "sqlite" /\ o.do = "create" /\ todo'[c] = Commands(o, rows)
    BY <1>8
  <2>2. rows' = rows /\ seen'[c] = rows
    BY <1>2, <1>6, <2>1 DEF OnCopy
  <2>3. Reaches(Stored(o, rows), Commands(o, rows))'
    BY <1>7, <2>1, <2>2 DEF Reaches
  <2> QED
    BY <1>6, <1>7, <2>1, <2>2, <2>3 DEF Writer
<1>12. Untouched(c)'
  BY <1>2, <1>8 DEF Alike, Untouched, OnCopy
<1>13. Agrees(c)
  BY <1>2 DEF Agrees, Ends
<1> QED
  BY <1>9, <1>10, <1>11, <1>12, <1>13

LEMMA RunAlike ==
    ASSUME Typed, Typed', Shaped, FlagsKept, NEW c \in Clients, Alike(c), Run(c)
    PROVE  Indexed(c)' /\ Reading(c)' /\ Writer(c)' /\ Untouched(c)' /\ Agrees(c)
<1>1. /\ adapter = "memory" /\ call[c] \in Operations /\ ~tx[c]
      /\ UNCHANGED <<adapter, tx>>
      /\ rows = seen[c] /\ rows \in Maps
  BY DEF Run, Shaped, Placed, Alike, Reading, Typed
<1>2. pc'[c] = "idle"
  BY DEF Run, Finish, Typed
<1>3. Visible' = rows'
  BY <1>1 DEF Visible
<1>4. answer'[c] = Answer(call[c], seen[c]) /\ rows' = Applied(call[c], seen[c])
  <2>1. CASE pc[c] = "refuse"
    <3>1. Refused(call[c], seen[c])
      BY <2>1 DEF Alike, Reading
    <3> QED
      BY <1>1, <2>1, <3>1 DEF Run, Finish, Typed, Applied
  <2>2. CASE pc[c] = "run"
    <3>1. ~Refused(call[c], seen[c])
      BY <2>2 DEF Alike, Reading
    <3>2. rows' = Applied(call[c], seen[c])
      BY <1>1, <2>2, <3>1 DEF Run, Applied
    <3>3. answer'[c] = IF call[c].do \in {"create", "upsert"} THEN [tag |-> "done"]
                       ELSE Answer(call[c], rows)
      BY <2>2 DEF Run, Finish, Typed
    <3>4. call[c].do \in {"create", "upsert"} => Answer(call[c], rows) = [tag |-> "done"]
      BY <1>1, <3>1, Done
    <3> QED
      BY <1>1, <3>2, <3>3, <3>4
  <2> QED
    BY <2>1, <2>2 DEF Run
<1>5. Indexed(c)' /\ Reading(c)' /\ Writer(c)' /\ Untouched(c)'
  BY <1>1, <1>2 DEF Indexed, Reading, Writer, Untouched, OnCopy
<1>6. Agrees(c)
  BY <1>1, <1>3, <1>4 DEF Agrees
<1> QED
  BY <1>5, <1>6

LEMMA DecideAlike ==
    ASSUME Typed, Typed', Shaped, FlagsKept, NEW c \in Clients, Alike(c),
           pc[c] \in {"look", "get"}, call[c] \in Operations, Decide(c, rows),
           UNCHANGED <<adapter, rows, index, call, tx, copy, before, seen>>
    PROVE  Indexed(c)' /\ Reading(c)' /\ Writer(c)' /\ Untouched(c)' /\ Agrees(c)
<1> DEFINE o == call[c]
<1>1. todo[c] = Nothing /\ ~OnCopy(c) /\ rows \in Maps /\ rows = seen[c]
  BY Kinds DEF Shaped, Placed, Typed, Alike, Reading
<1>2. Nothing.after = {}
  BY DEF Nothing
<1>3. Visible = rows
  BY <1>1, <1>2, Settled DEF Alike
<1>4. /\ answer' = [answer EXCEPT ![c] = Answer(o, rows)]
      /\ \/ /\ pc' = [pc EXCEPT ![c] = "idle"] /\ todo' = todo
            /\ Refused(o, rows) \/ Commands(o, rows) = Nothing
         \/ /\ pc' = [pc EXCEPT ![c] = "write"]
            /\ todo' = [todo EXCEPT ![c] = Commands(o, rows)]
            /\ ~Refused(o, rows) /\ Commands(o, rows) # Nothing
  BY <1>1, Decides
<1>5. /\ answer'[c] = Answer(o, seen[c])
      /\ \/ /\ pc'[c] = "idle" /\ todo'[c] = Nothing
            /\ Refused(o, rows) \/ Commands(o, rows) = Nothing
         \/ /\ pc'[c] = "write" /\ todo'[c] = Commands(o, rows)
            /\ ~Refused(o, rows)
  BY <1>1, <1>4 DEF Typed
<1>6. /\ Commands(o, rows).after = {}
      /\ o.do = "create" => Commands(o, rows).put[o.id] # NoRow
      /\ \A i \in Commands(o, rows).drop : Commands(o, rows).put[i] = NoRow
      /\ \A i \in Ids : Stored(o, rows)[i] =
            IF i \in Commands(o, rows).drop THEN NoRow
            ELSE IF Commands(o, rows).put[i] # NoRow THEN Commands(o, rows).put[i] ELSE rows[i]
  BY <1>1, LeadsTo
<1>7. Indexed(c)'
  <2>1. todo'[c].after = {}
    BY <1>2, <1>5, <1>6
  <2> QED
    BY <1>1, <1>2, <2>1 DEF Alike, Indexed
<1>8. Reading(c)' /\ Untouched(c)'
  BY <1>1, <1>5 DEF Reading, Untouched, OnCopy
<1>9. Writer(c)'
  <2> SUFFICES ASSUME pc'[c] = "write"
               PROVE  Writer(c)'
    BY DEF Writer
  <2>1. todo'[c] = Commands(o, rows) /\ ~Refused(o, rows)
    BY <1>5
  <2>2. Reaches(Stored(o, rows), Commands(o, rows))'
    BY <1>6 DEF Reaches
  <2>3. o.do # "commit"
    BY Kinds
  <2> QED
    BY <1>1, <1>5, <1>6, <2>1, <2>2, <2>3 DEF Writer
<1>10. Agrees(c)
  <2>1. Visible' = rows
    BY <1>3 DEF Visible
  <2>2. pc'[c] = "idle" => Applied(o, rows) = rows
    BY <1>1, <1>5, Whole
  <2> QED
    BY <1>1, <1>5, <2>1, <2>2 DEF Agrees, Ends
<1> QED
  BY <1>7, <1>8, <1>9, <1>10

LEMMA LoadedAlike ==
    ASSUME Typed, Typed', Shaped, FlagsKept, NEW c \in Clients, Alike(c),
           pc[c] \in {"look", "get"}, Loaded(c, rows),
           UNCHANGED <<adapter, rows, index, call, seen>>
    PROVE  Indexed(c)' /\ Reading(c)' /\ Writer(c)' /\ Untouched(c)' /\ Agrees(c)
<1>1. \/ call[c] \in Operations /\ call[c].do # "begin"
      \/ call[c].do = "begin" /\ ~tx[c]
  BY Kinds DEF Shaped, Placed
<1>2. CASE call[c].do # "begin"
  BY <1>1, <1>2, DecideAlike DEF Loaded
<1>3. CASE call[c].do = "begin"
  <2>1. pc'[c] = "idle" /\ before'[c] = rows /\ todo' = todo
    BY <1>3 DEF Loaded, Open, Typed
  <2>2. call[c] \notin Operations
    BY <1>3, Kinds
  <2> QED
    BY <1>1, <1>3, <2>1, <2>2
       DEF Alike, Indexed, Reading, Writer, Untouched, Agrees
<1> QED
  BY <1>2, <1>3

LEMMA SelectAlike ==
    ASSUME Typed, Typed', Shaped, FlagsKept, NEW c \in Clients, Alike(c), Select(c)
    PROVE  Indexed(c)' /\ Reading(c)' /\ Writer(c)' /\ Untouched(c)' /\ Agrees(c)
<1>1. call[c] \in Operations
  BY DEF Select, Shaped, Placed
<1> QED
  BY <1>1, DecideAlike DEF Select

LEMMA LookAlike ==
    ASSUME Typed, Typed', Shaped, FlagsKept, NEW c \in Clients, Alike(c), Look(c)
    PROVE  Indexed(c)' /\ Reading(c)' /\ Writer(c)' /\ Untouched(c)' /\ Agrees(c)
<1>1. /\ pc[c] = "look" /\ adapter = "redis" /\ todo[c] = Nothing
      /\ UNCHANGED <<adapter, rows, index, call, seen>>
  BY DEF Look, Shaped, Placed
<1>2. Nothing.after = {}
  BY DEF Nothing
<1>3. Visible = rows /\ \A i \in Ids : i \in index <=> rows[i] # NoRow
  BY <1>1, <1>2, Settled DEF Alike
<1>4. rows \in Maps /\ Empty \in Maps
  BY RowsOfMaps DEF Typed
<1>5. CASE call[c].do \in {"create", "upsert"}
  <2> DEFINE m == [i \in Ids |-> Decoded(rows[i])]
  <2>1. call[c] \in Operations
    BY <1>1, <1>5 DEF Shaped, Placed
  <2>2. m \in Maps
    BY RowsOfMaps, DecodedRow DEF Typed, Maps
  <2>3. Decide(c, m) /\ UNCHANGED <<tx, copy, before>>
    BY <1>5 DEF Look
  <2>4. \A i \in Ids : m[i] = rows[i]
    <3>1. rows = [i \in Ids |-> IF i \in index THEN Decoded(rows[i]) ELSE NoRow]
      BY <1>1, <1>3 DEF Visible
    <3>2. \A i \in Ids : rows[i] = NoRow => Decoded(rows[i]) = NoRow
      BY DEF Decoded
    <3> QED
      BY <1>3, <3>1, <3>2
  <2> HIDE DEF m
  <2>5. m = rows
    BY <1>4, <2>2, <2>4, SameMap
  <2> QED
    BY <1>1, <2>1, <2>3, <2>5, DecideAlike
<1>6. CASE call[c].do \notin {"create", "upsert"} /\ index = {}
  <2>1. Loaded(c, Empty)
    BY <1>6 DEF Look
  <2>2. Empty = rows
    BY <1>3, <1>4, <1>6, SameMap DEF Empty
  <2> QED
    BY <1>1, <2>1, <2>2, LoadedAlike
<1>7. CASE call[c].do \notin {"create", "upsert"} /\ index # {}
  <2>1. /\ pc'[c] = "get" /\ togo'[c] = index /\ got'[c] = Empty
        /\ UNCHANGED <<todo, answer, acked, tx, copy, before>>
    BY <1>7 DEF Look, Typed
  <2>2. Indexed(c)' /\ Writer(c)' /\ Untouched(c)' /\ Agrees(c)
    BY <1>1, <2>1 DEF Alike, Indexed, Writer, Untouched, Agrees, Ends
  <2>3. \A i \in Ids \ index : Empty[i] = rows[i]
    BY <1>3 DEF Empty
  <2>4. Reading(c)'
    BY <1>1, <2>1, <2>3 DEF Alike, Reading
  <2> QED
    BY <2>2, <2>4
<1> QED
  BY <1>5, <1>6, <1>7

LEMMA GetAlike ==
    ASSUME Typed, Typed', Shaped, FlagsKept, NEW c \in Clients, Alike(c), Get(c)
    PROVE  Indexed(c)' /\ Reading(c)' /\ Writer(c)' /\ Untouched(c)' /\ Agrees(c)
<1>1. PICK i \in togo[c] :
          LET m == [got[c] EXCEPT ![i] = Decoded(rows[i])]
          IN  /\ got' = [got EXCEPT ![c] = m]
              /\ togo' = [togo EXCEPT ![c] = @ \ {i}]
              /\ IF togo[c] = {i} THEN Loaded(c, m)
                 ELSE UNCHANGED <<pc, todo, answer, acked, tx, copy, before>>
  BY DEF Get
<1> DEFINE m == [got[c] EXCEPT ![i] = Decoded(rows[i])]
<1>2. /\ pc[c] = "get" /\ adapter = "redis" /\ todo[c] = Nothing
      /\ UNCHANGED <<adapter, rows, index, call, seen>>
  BY DEF Get, Shaped, Placed
<1>3. Nothing.after = {}
  BY DEF Nothing
<1>4. Visible = rows /\ i \in index
  BY <1>2, <1>3, Settled DEF Alike, Reading
<1>5. i \in Ids /\ rows \in Maps /\ got[c] \in Maps
  BY DEF Typed
<1>6. Decoded(rows[i]) = rows[i]
  <2>1. Visible = [j \in Ids |-> IF j \in index THEN Decoded(rows[j]) ELSE NoRow]
    BY <1>2 DEF Visible
  <2>2. Visible[i] = Decoded(rows[i])
    BY <1>4, <1>5, <2>1
  <2> QED
    BY <1>4, <2>2
<1>7. m \in Maps /\ \A j \in Ids \ (togo[c] \ {i}) : m[j] = rows[j]
  <2>1. \A j \in Ids \ togo[c] : got[c][j] = rows[j]
    BY <1>2 DEF Alike, Reading
  <2>2. m \in Maps
    BY <1>5, <1>6, RowsOfMaps
  <2> QED
    BY <1>5, <1>6, <2>1, <2>2 DEF Maps
<1> HIDE DEF m
<1>8. CASE togo[c] = {i}
  <2>1. Loaded(c, m)
    BY <1>1, <1>8 DEF m
  <2>2. m = rows
    BY <1>5, <1>7, <1>8, SameMap
  <2> QED
    BY <1>2, <2>1, <2>2, LoadedAlike
<1>9. CASE togo[c] # {i}
  <2>1. UNCHANGED <<pc, todo, answer, acked, tx, copy, before>>
    BY <1>1, <1>9
  <2>2. got'[c] = m /\ togo'[c] = togo[c] \ {i}
    BY <1>1 DEF Typed, m
  <2>3. Indexed(c)' /\ Writer(c)' /\ Untouched(c)' /\ Agrees(c)
    BY <1>2, <2>1 DEF Alike, Indexed, Writer, Untouched, Agrees, Ends
  <2>4. Reading(c)'
    BY <1>2, <1>7, <2>1, <2>2 DEF Alike, Reading
  <2> QED
    BY <2>3, <2>4
<1> QED
  BY <1>8, <1>9

(* A write goes on towards what the Map would hold, or has got there.       *)
LEMMA WriteAlike ==
    ASSUME Typed, Typed', Shaped, FlagsKept, NEW c \in Clients, Alike(c), pc[c] = "write",
           NEW t \in Todos, Left(c, t),
           UNCHANGED <<adapter, call, copy, before, seen>>, Indexed(c)',
           \A m \in Maps : Reaches(m, todo[c]) =>
               \A i \in Ids : m[i] = IF i \in t.drop THEN NoRow
                                     ELSE IF t.put[i] # NoRow THEN t.put[i] ELSE rows'[i],
           \A i \in t.drop : t.put[i] = NoRow,
           call[c] \in Operations /\ call[c].do = "create" =>
               t.put[call[c].id] = NoRow /\ ~Refused(call[c], seen[c])
    PROVE  Indexed(c)' /\ Reading(c)' /\ Writer(c)' /\ Untouched(c)' /\ Agrees(c)
<1> DEFINE o == call[c]
<1>1. /\ pc' = [pc EXCEPT ![c] = pc'[c]] /\ todo' = [todo EXCEPT ![c] = t]
      /\ (pc'[c] = "idle" /\ t = Nothing) \/ (pc'[c] = "write" /\ t # Nothing)
      /\ pc'[c] # "idle" => tx' = tx
      /\ tx' = tx \/ (o.do = "commit" /\ pc'[c] = "idle" /\ tx' = TxOver(c))
      /\ pc'[c] = "idle" /\ o.do = "commit" => tx' = TxOver(c)
      /\ answer'[c] = IF pc'[c] = "idle" /\ o.do = "create"
                      THEN [tag |-> "done"] ELSE answer[c]
  BY Moves
<1>2. todo'[c] = t /\ (tx' = TxOver(c) => ~tx'[c])
  BY <1>1 DEF Typed, TxOver
<1>3. \/ o \in Operations /\ o.do # "commit" /\ ~OnCopy(c)
      \/ o.do = "commit" /\ o \notin Operations /\ OnCopy(c) /\ tx[c] /\ adapter = "redis"
  BY Kinds DEF Shaped, Placed, OnCopy
<1>4. /\ o.do = "commit" => Reaches(copy[c], todo[c])
      /\ o \in Operations =>
            /\ ~Refused(o, seen[c]) => Reaches(Stored(o, seen[c]), todo[c])
            /\ o.do # "create" =>
                  ~Refused(o, seen[c]) /\ answer[c] = Answer(o, seen[c])
  BY DEF Alike, Writer
<1>5. copy[c] \in Maps /\ seen[c] \in Maps /\ rows' \in Maps
  BY DEF Typed
<1>6. o \in Operations =>
         ~Refused(o, seen[c]) /\ Stored(o, seen[c]) \in Maps /\ Applied(o, seen[c]) = Stored(o, seen[c])
  BY <1>4, <1>5, StoredMap DEF Applied
<1>7. /\ o.do = "commit" => \A i \in Ids : copy[c][i] =
               IF i \in t.drop THEN NoRow ELSE IF t.put[i] # NoRow THEN t.put[i] ELSE rows'[i]
      /\ o \in Operations => \A i \in Ids : Stored(o, seen[c])[i] =
               IF i \in t.drop THEN NoRow ELSE IF t.put[i] # NoRow THEN t.put[i] ELSE rows'[i]
  BY <1>4, <1>5, <1>6
<1>8. Writer(c)'
  <2> SUFFICES ASSUME pc'[c] = "write"
               PROVE  Writer(c)'
    BY DEF Writer
  <2>1. answer'[c] = answer[c]
    BY <1>1
  <2>2. o.do = "commit" => Reaches(copy[c], t)'
    BY <1>7 DEF Reaches
  <2>3. o \in Operations => Reaches(Stored(o, seen[c]), t)'
    BY <1>7 DEF Reaches
  <2> QED
    BY <1>2, <1>4, <1>6, <2>1, <2>2, <2>3 DEF Writer
<1>9. Reading(c)'
  BY <1>1 DEF Reading
<1>10. Untouched(c)'
  <2> SUFFICES ASSUME OnCopy(c)', pc'[c] = "idle"
               PROVE  FALSE
    BY DEF Untouched
  <2>1. tx'[c] /\ adapter # "sqlite"
    BY DEF OnCopy
  <2>2. o.do # "commit" /\ tx' = tx
    BY <1>1, <1>2, <2>1
  <2> QED
    BY <1>3, <2>1, <2>2 DEF OnCopy
<1>11. ASSUME pc'[c] = "idle"
       PROVE  /\ o \in Operations => Visible' = Applied(o, seen[c])
              /\ o.do = "commit" => Visible' = copy[c]
  <2>1. t.drop = {} /\ t.after = {} /\ \A i \in Ids : t.put[i] = NoRow
    BY <1>1, <1>11 DEF Nothing, Empty
  <2>2. Visible' = rows'
    BY <1>2, <2>1, SettledNext
  <2>3. o \in Operations => Stored(o, seen[c]) = rows'
    BY <1>5, <1>6, <1>7, <2>1, SameMap
  <2>4. o.do = "commit" => copy[c] = rows'
    BY <1>5, <1>7, <2>1, SameMap
  <2> QED
    BY <1>6, <2>2, <2>3, <2>4
<1>12. Agrees(c)
  <2>1. ASSUME Ends(c), o \in Operations
        PROVE  answer'[c] = Answer(o, seen[c]) /\ Visible' = Applied(o, seen[c])
    <3>1. pc'[c] = "idle"
      BY <2>1 DEF Ends
    <3>2. o.do = "create" => Answer(o, seen[c]) = [tag |-> "done"]
      BY <1>5, <1>6, <2>1, Done
    <3> QED
      BY <1>1, <1>4, <1>11, <2>1, <3>1, <3>2
  <2>2. ASSUME tx[c], ~tx'[c]
        PROVE  Visible' = IF call'[c].do = "abort" THEN before[c] ELSE SeenBy(c)
    <3>1. tx' # tx
      BY <2>2
    <3>2. o.do = "commit" /\ pc'[c] = "idle" /\ call'[c] = o
      BY <1>1, <3>1
    <3>3. SeenBy(c) = copy[c]
      BY <1>3, <3>2 DEF SeenBy
    <3> QED
      BY <1>11, <3>2, <3>3
  <2> QED
    BY <2>1, <2>2 DEF Agrees
<1> QED
  BY <1>8, <1>9, <1>10, <1>12

LEMMA SetRowAlike ==
    ASSUME Typed, Typed', Shaped, FlagsKept, NEW c \in Clients, Alike(c), SetRow(c)
    PROVE  Indexed(c)' /\ Reading(c)' /\ Writer(c)' /\ Untouched(c)' /\ Agrees(c)
<1>1. /\ pc[c] = "write" /\ todo[c].after = {} /\ todo[c].drop = {}
      /\ UNCHANGED <<adapter, index, call, togo, got, copy, before, seen, raced>>
  BY DEF SetRow, Writing
<1>2. PICK i \in Present(todo[c].put) :
          IF call[c].do = "create" /\ rows[i] # NoRow
          THEN /\ Finish(c, [tag |-> "duplicate"])
               /\ todo' = [todo EXCEPT ![c] = Nothing]
               /\ UNCHANGED <<rows, tx>>
          ELSE /\ rows' = [rows EXCEPT ![i] = todo[c].put[i]]
               /\ Left(c, [drop |-> {}, put |-> [todo[c].put EXCEPT ![i] = NoRow],
                           after |-> ForIndex("sadd", i)])
  BY DEF SetRow
<1>3. i \in Ids /\ todo[c].put[i] # NoRow /\ todo[c].put[i] \in Rows
  BY RowsOfMaps DEF Present, Typed, Todos
<1>4. Visible = rows /\ (adapter = "redis" => \A j \in Ids : j \in index <=> rows[j] # NoRow)
  BY <1>1, Settled DEF Alike
<1>5. Creating(c) => call[c].id = i
  BY <1>3 DEF Shaped, Tidy
<1>6. call[c].do = "create" => Creating(c) /\ call[c] \in Operations /\ ~OnCopy(c)
  BY <1>1 DEF Shaped, Placed, Creating
<1>7. call[c].do = "create" => rows = seen[c] /\ rows \in Maps
  BY <1>1, <1>3, <1>5, <1>6 DEF Alike, Writer, Typed
<1>8. CASE call[c].do = "create" /\ rows[i] # NoRow
  <2>1. /\ pc'[c] = "idle" /\ todo'[c] = Nothing /\ answer'[c] = [tag |-> "duplicate"]
        /\ rows' = rows /\ tx' = tx
    BY <1>2, <1>8 DEF Finish, Typed
  <2>2. /\ Refused(call[c], seen[c]) /\ Answer(call[c], seen[c]) = [tag |-> "duplicate"]
        /\ Applied(call[c], seen[c]) = seen[c]
    BY <1>5, <1>6, <1>7, <1>8, Done DEF Applied
  <2>3. Visible' = rows
    BY <1>1, <1>4, <2>1 DEF Visible
  <2>4. Agrees(c)
    BY <1>7, <1>8, <2>1, <2>2, <2>3 DEF Agrees
  <2>5. Nothing.after = {}
    BY DEF Nothing
  <2>6. Indexed(c)' /\ Reading(c)' /\ Writer(c)' /\ Untouched(c)'
    BY <1>1, <1>4, <1>6, <1>8, <2>1, <2>5
       DEF Indexed, Reading, Writer, Untouched, OnCopy
  <2> QED
    BY <2>4, <2>6
<1>9. CASE ~(call[c].do = "create" /\ rows[i] # NoRow)
  <2> DEFINE put == [todo[c].put EXCEPT ![i] = NoRow]
  <2>1. /\ rows' = [rows EXCEPT ![i] = todo[c].put[i]]
        /\ Left(c, [drop |-> {}, put |-> put, after |-> ForIndex("sadd", i)])
    BY <1>2, <1>9
  <2>2. put \in Maps /\ put[i] = NoRow /\ \A j \in Ids : j # i => put[j] = todo[c].put[j]
    <3>1. todo[c].put \in Maps
      BY DEF Typed, Todos
    <3> QED
      BY <1>3, <3>1 DEF Maps
  <2> HIDE DEF put
  <2>3. PICK t : t = [drop |-> {}, put |-> put, after |-> ForIndex("sadd", i)]
    OBVIOUS
  <2>4. /\ t \in Todos /\ t.drop = {} /\ t.put = put /\ t.after = ForIndex("sadd", i)
        /\ Left(c, t)
    BY <1>3, <2>1, <2>2, <2>3, IndexCommand DEF Todos
  <2>5. todo'[c] = t
    BY <1>1, <2>4, Moves DEF Typed
  <2>6. rows'[i] # NoRow /\ rows'[i] = todo[c].put[i] /\ \A j \in Ids : j # i => rows'[j] = rows[j]
    BY <1>3, <2>1, RowsOfMaps DEF Typed, Maps
  <2>7. Indexed(c)'
    <3> SUFFICES ASSUME adapter = "redis"
                 PROVE  Indexed(c)'
      BY <1>1 DEF Indexed
    <3>1. t.after = {[cmd |-> "sadd", id |-> i]}
      BY <2>4 DEF ForIndex
    <3> QED
      BY <1>1, <1>4, <2>5, <2>6, <3>1 DEF Indexed
  <2>8. \A m \in Maps : Reaches(m, todo[c]) =>
            \A j \in Ids : m[j] = IF j \in t.drop THEN NoRow
                                  ELSE IF t.put[j] # NoRow THEN t.put[j] ELSE rows'[j]
    <3> SUFFICES ASSUME NEW m \in Maps, Reaches(m, todo[c]), NEW j \in Ids
                 PROVE  m[j] = IF t.put[j] # NoRow THEN t.put[j] ELSE rows'[j]
      BY <2>4
    <3>1. m[j] = IF todo[c].put[j] # NoRow THEN todo[c].put[j] ELSE rows[j]
      BY <1>1 DEF Reaches
    <3> QED
      BY <1>3, <2>2, <2>4, <2>6, <3>1
  <2>9. call[c] \in Operations /\ call[c].do = "create" =>
            t.put[call[c].id] = NoRow /\ ~Refused(call[c], seen[c])
    BY <1>5, <1>6, <1>7, <1>9, <2>2, <2>4, Done
  <2>10. \A j \in t.drop : t.put[j] = NoRow
    BY <2>4
  <2> QED
    BY <1>1, <2>4, <2>7, <2>8, <2>9, <2>10, WriteAlike
<1> QED
  BY <1>8, <1>9

LEMMA DelRowAlike ==
    ASSUME Typed, Typed', Shaped, FlagsKept, NEW c \in Clients, Alike(c), DelRow(c)
    PROVE  Indexed(c)' /\ Reading(c)' /\ Writer(c)' /\ Untouched(c)' /\ Agrees(c)
<1>1. /\ pc[c] = "write" /\ todo[c].after = {}
      /\ UNCHANGED <<adapter, index, call, togo, got, copy, before, seen, raced>>
  BY DEF DelRow, Writing
<1>2. PICK i \in todo[c].drop :
          /\ rows' = [rows EXCEPT ![i] = NoRow]
          /\ Left(c, [drop |-> todo[c].drop \ {i}, put |-> todo[c].put,
                      after |-> ForIndex("srem", i)])
  BY DEF DelRow
<1>3. i \in Ids /\ todo[c] \in Todos
  BY DEF Typed, Todos
<1>4. adapter = "redis" => \A j \in Ids : j \in index <=> rows[j] # NoRow
  BY <1>1, Settled DEF Alike
<1>5. \A j \in todo[c].drop : todo[c].put[j] = NoRow
  BY <1>1 DEF Alike, Writer
<1>6. PICK t : t = [drop |-> todo[c].drop \ {i}, put |-> todo[c].put,
                    after |-> ForIndex("srem", i)]
  OBVIOUS
<1>7. /\ t \in Todos /\ t.drop = todo[c].drop \ {i} /\ t.put = todo[c].put
      /\ t.after = ForIndex("srem", i) /\ Left(c, t)
  BY <1>2, <1>3, <1>6, IndexCommand DEF Todos
<1>8. todo'[c] = t
  BY <1>1, <1>7, Moves DEF Typed
<1>9. rows'[i] = NoRow /\ \A j \in Ids : j # i => rows'[j] = rows[j]
  BY <1>2, <1>3 DEF Typed, Maps
<1>10. Indexed(c)'
  <2> SUFFICES ASSUME adapter = "redis"
               PROVE  Indexed(c)'
    BY <1>1 DEF Indexed
  <2>1. t.after = {[cmd |-> "srem", id |-> i]}
    BY <1>7 DEF ForIndex
  <2> QED
    BY <1>1, <1>4, <1>8, <1>9, <2>1 DEF Indexed
<1>11. \A m \in Maps : Reaches(m, todo[c]) =>
            \A j \in Ids : m[j] = IF j \in t.drop THEN NoRow
                                  ELSE IF t.put[j] # NoRow THEN t.put[j] ELSE rows'[j]
  <2> SUFFICES ASSUME NEW m \in Maps, Reaches(m, todo[c]), NEW j \in Ids
               PROVE  m[j] = IF j \in t.drop THEN NoRow
                             ELSE IF t.put[j] # NoRow THEN t.put[j] ELSE rows'[j]
    OBVIOUS
  <2>1. m[j] = IF j \in todo[c].drop THEN NoRow
               ELSE IF todo[c].put[j] # NoRow THEN todo[c].put[j] ELSE rows[j]
    BY DEF Reaches
  <2> QED
    BY <1>2, <1>5, <1>7, <1>9, <2>1
<1>12. call[c].do # "create"
  BY <1>2 DEF Shaped, Tidy
<1>13. \A j \in t.drop : t.put[j] = NoRow
  BY <1>5, <1>7
<1> QED
  BY <1>1, <1>7, <1>10, <1>11, <1>12, <1>13, WriteAlike

LEMMA SetIndexAlike ==
    ASSUME Typed, Typed', Shaped, FlagsKept, NEW c \in Clients, Alike(c), SetIndex(c)
    PROVE  Indexed(c)' /\ Reading(c)' /\ Writer(c)' /\ Untouched(c)' /\ Agrees(c)
<1>1. /\ pc[c] = "write"
      /\ UNCHANGED <<adapter, rows, call, togo, got, copy, before, seen, raced>>
  BY DEF SetIndex, Writing
<1>2. PICK w \in todo[c].after :
          index' = IF w.cmd = "sadd" THEN index \cup {w.id} ELSE index \ {w.id}
  BY DEF SetIndex
<1>3. /\ todo[c] \in Todos /\ w.id \in Ids /\ adapter = "redis"
      /\ \A v \in todo[c].after : v = w
  BY DEF Typed, Todos, Commanded, Shaped, Placed, Tidy
<1>4. PICK t : t = [drop |-> todo[c].drop, put |-> todo[c].put, after |-> {}]
  OBVIOUS
<1>5. /\ t \in Todos /\ t.drop = todo[c].drop /\ t.put = todo[c].put /\ t.after = {}
      /\ Left(c, t)
  BY <1>3, <1>4 DEF SetIndex, Todos
<1>6. todo'[c] = t
  BY <1>1, <1>5, Moves DEF Typed
<1>7. Indexed(c)'
  <2>1. /\ w.cmd = "sadd" <=> rows[w.id] # NoRow
        /\ \A i \in Ids : i # w.id => (i \in index <=> rows[i] # NoRow)
    BY <1>3 DEF Alike, Indexed
  <2>2. \A i \in Ids : i \in index' <=> rows'[i] # NoRow
    BY <1>1, <1>2, <1>3, <2>1
  <2> QED
    BY <1>5, <1>6, <2>2 DEF Indexed
<1>8. \A m \in Maps : Reaches(m, todo[c]) =>
            \A i \in Ids : m[i] = IF i \in t.drop THEN NoRow
                                  ELSE IF t.put[i] # NoRow THEN t.put[i] ELSE rows'[i]
  BY <1>1, <1>5 DEF Reaches
<1>9. call[c] \in Operations /\ call[c].do = "create" =>
          t.put[call[c].id] = NoRow /\ ~Refused(call[c], seen[c])
  BY <1>1, <1>2, <1>5 DEF Alike, Writer
<1>10. \A i \in t.drop : t.put[i] = NoRow
  BY <1>1, <1>5 DEF Alike, Writer
<1> QED
  BY <1>1, <1>5, <1>7, <1>8, <1>9, <1>10, WriteAlike

LEMMA BeginAlike ==
    ASSUME Typed, Typed', Shaped, FlagsKept, NEW c \in Clients, Alike(c), Begin(c)
    PROVE  Indexed(c)' /\ Reading(c)' /\ Writer(c)' /\ Untouched(c)' /\ Agrees(c)
<1>1. /\ pc[c] = "idle" /\ todo[c] = Nothing /\ ~tx[c]
      /\ call'[c] = [do |-> "begin"]
      /\ UNCHANGED <<adapter, rows, index, togo, got, seen>>
  BY DEF Begin, Shaped, Placed, Typed
<1>2. call'[c].do = "begin" /\ call'[c] \notin Operations
  BY <1>1, Kinds
<1>3. \/ pc'[c] = "idle" /\ todo' = todo /\ before'[c] = rows
      \/ pc'[c] = "look" /\ todo' = todo /\ adapter = "redis"
  <2>1. CASE adapter = "redis"
    BY <2>1 DEF Begin, Typed
  <2>2. CASE adapter # "redis"
    BY <2>2 DEF Begin, Open, Typed
  <2> QED
    BY <2>1, <2>2
<1>4. Indexed(c)'
  BY <1>1, <1>3 DEF Alike, Indexed
<1>5. Reading(c)' /\ Writer(c)' /\ Untouched(c)'
  BY <1>1, <1>2, <1>3 DEF Reading, Writer, Untouched
<1>6. Agrees(c)
  BY <1>1 DEF Agrees, Ends
<1> QED
  BY <1>4, <1>5, <1>6

LEMMA CommitAlike ==
    ASSUME Typed, Typed', Shaped, FlagsKept, NEW c \in Clients, Alike(c), Commit(c)
    PROVE  Indexed(c)' /\ Reading(c)' /\ Writer(c)' /\ Untouched(c)' /\ Agrees(c)
<1>1. PICK t : t = CommitCommands(c)
  OBVIOUS
<1>2. /\ pc[c] = "idle" /\ tx[c] /\ todo[c] = Nothing
      /\ call'[c] = [do |-> "commit"] /\ call'[c].do = "commit"
      /\ UNCHANGED <<adapter, index, togo, got, copy, before, seen>>
  BY DEF Commit, Shaped, Placed, Typed
<1>3. call'[c] \notin Operations
  BY <1>2, Kinds
<1>4. /\ Nothing.after = {} /\ Nothing.drop = {} /\ \A i \in Ids : Nothing.put[i] = NoRow
  BY DEF Nothing, Empty
<1>5. Visible = rows /\ (adapter = "redis" => \A i \in Ids : i \in index <=> rows[i] # NoRow)
  BY <1>2, <1>4, Settled DEF Alike
<1>6. adapter # "sqlite" => rows = before[c]
  BY <1>2 DEF Alike, Untouched, OnCopy
<1>7. /\ t \in Todos /\ t.after = {} /\ t.put = copy[c]
      /\ \A i \in Ids : i \in t.drop <=> before[c][i] # NoRow /\ copy[c][i] = NoRow
  BY <1>1, CommandsOfCommit
<1>8. \/ /\ adapter = "redis" /\ pc'[c] = "write"
         /\ todo'[c] = t /\ tx' = tx /\ rows' = rows
      \/ /\ tx' = TxOver(c) /\ pc'[c] = "idle" /\ todo'[c] = Nothing
         /\ rows' = IF adapter = "memory" THEN copy[c] ELSE rows
         /\ adapter = "redis" => t = Nothing
  <2>1. CASE adapter = "redis" /\ CommitCommands(c) # Nothing
    BY <1>1, <1>2, <2>1 DEF Commit, Typed
  <2>2. CASE ~(adapter = "redis" /\ CommitCommands(c) # Nothing)
    BY <1>1, <1>2, <2>2 DEF Commit, TxOver
  <2> QED
    BY <2>1, <2>2
<1>9. Indexed(c)'
  <2>1. todo'[c].after = {}
    BY <1>4, <1>7, <1>8
  <2>2. adapter = "redis" => rows' = rows
    BY <1>8
  <2> QED
    BY <1>2, <1>5, <2>1, <2>2 DEF Indexed
<1>10. Writer(c)'
  <2> SUFFICES ASSUME pc'[c] = "write"
               PROVE  Writer(c)'
    BY DEF Writer
  <2>1. adapter = "redis" /\ todo'[c] = t /\ rows' = rows
    BY <1>8
  <2>2. Reaches(copy[c], t)'
    BY <1>2, <1>6, <1>7, <2>1 DEF Reaches
  <2>3. \A i \in t.drop : t.put[i] = NoRow
    BY <1>7 DEF Todos
  <2> QED
    BY <1>2, <1>3, <2>1, <2>2, <2>3 DEF Writer
<1>11. Reading(c)'
  BY <1>3, <1>8 DEF Reading
<1>12. tx' = TxOver(c) => ~tx'[c]
  BY DEF Typed, TxOver
<1>13. Untouched(c)'
  BY <1>8, <1>12 DEF Untouched, OnCopy
<1>14. Agrees(c)
  <2> SUFFICES ASSUME ~tx'[c]
               PROVE  Visible' = SeenBy(c)
    BY <1>2 DEF Agrees, Ends
  <2>1. /\ rows' = IF adapter = "memory" THEN copy[c] ELSE rows
        /\ adapter = "redis" => t = Nothing
    BY <1>2, <1>8
  <2>2. CASE adapter = "memory"
    BY <1>2, <2>1, <2>2 DEF Visible, SeenBy, OnCopy
  <2>3. CASE adapter = "sqlite"
    BY <1>2, <2>1, <2>3 DEF Visible, SeenBy, OnCopy
  <2>4. CASE adapter = "redis"
    <3>1. \A i \in Ids : copy[c][i] = rows[i]
      BY <1>4, <1>6, <1>7, <2>1, <2>4
    <3>2. copy[c] = rows
      BY <3>1, SameMap DEF Typed
    <3>3. Visible' = Visible
      BY <1>2, <2>1, <2>4 DEF Visible
    <3> QED
      BY <1>2, <1>5, <2>4, <3>2, <3>3 DEF SeenBy, OnCopy
  <2> QED
    BY <2>2, <2>3, <2>4, StorageAssumption DEF Typed
<1> QED
  BY <1>9, <1>10, <1>11, <1>13, <1>14

LEMMA AbortAlike ==
    ASSUME Typed, Typed', Shaped, FlagsKept, NEW c \in Clients, Alike(c), Abort(c)
    PROVE  Indexed(c)' /\ Reading(c)' /\ Writer(c)' /\ Untouched(c)' /\ Agrees(c)
<1>1. /\ pc[c] = "idle" /\ tx[c] /\ todo[c] = Nothing
      /\ call'[c].do = "abort"
      /\ rows' = IF adapter = "sqlite" THEN before[c] ELSE rows
      /\ tx' = TxOver(c)
      /\ UNCHANGED <<adapter, index, pc, todo, togo, got, copy, before, answer, seen>>
  BY DEF Abort, Shaped, Placed, TxOver, Typed
<1>2. ~tx'[c]
  BY <1>1 DEF TxOver, Typed
<1>3. Indexed(c)'
  BY <1>1 DEF Alike, Indexed
<1>4. Reading(c)' /\ Writer(c)' /\ Untouched(c)'
  BY <1>1, <1>2 DEF Reading, Writer, Untouched, OnCopy
<1>5. Nothing.after = {}
  BY DEF Nothing
<1>6. Visible' = before[c]
  <2>1. CASE adapter = "sqlite"
    BY <1>1, <2>1 DEF Visible
  <2>2. CASE adapter # "sqlite"
    <3>1. Visible = rows /\ rows = before[c]
      BY <1>1, <1>5, <2>2, Settled DEF Alike, Untouched, OnCopy
    <3>2. Visible' = Visible
      BY <1>1, <2>2 DEF Visible
    <3> QED
      BY <3>1, <3>2
  <2> QED
    BY <2>1, <2>2
<1>7. Agrees(c)
  BY <1>1, <1>6 DEF Agrees, Ends
<1> QED
  BY <1>3, <1>4, <1>7

LEMMA BeginsAlike == FlagsKept /\ Init => InSeries
<1> SUFFICES ASSUME Init, NEW c \in Clients
             PROVE  Alike(c)
  BY DEF InSeries
<1> USE DEF Init
<1>1. Lone(c) /\ Reading(c) /\ Writer(c) /\ Untouched(c)
  BY DEF Lone, Reading, Writer, Untouched, OnCopy
<1>2. Indexed(c)
  <2>1. Nothing.after = {}
    BY DEF Nothing
  <2>2. adapter = "redis" => \A i \in Ids : i \in index <=> rows[i] # NoRow
    BY DEF Present
  <2> QED
    BY <2>1, <2>2 DEF Indexed
<1> QED
  BY <1>1, <1>2 DEF Alike

(* A step of a client leaves the others where they are.                     *)
LEMMA OwnVariables ==
    ASSUME Typed, NEW c \in Clients,
           Call(c) \/ Step(c) \/ Begin(c) \/ Commit(c) \/ Abort(c)
    PROVE  /\ adapter' = adapter
           /\ \A d \in Clients \ {c} : pc'[d] = pc[d] /\ tx'[d] = tx[d] /\ todo'[d] = todo[d]
<1>1. CASE Call(c)
  BY <1>1 DEF Call, Typed
<1>2. CASE Run(c)
  BY <1>2 DEF Run, Finish, Typed
<1>3. CASE Select(c)
  BY <1>3 DEF Select, Decide, Finish, Typed
<1>4. CASE Look(c)
  BY <1>4 DEF Look, Loaded, Open, Decide, Finish, Typed
<1>5. CASE Get(c)
  BY <1>5 DEF Get, Loaded, Open, Decide, Finish, Typed
<1>6. CASE SetRow(c)
  BY <1>6 DEF SetRow, Left, Finish, Typed
<1>7. CASE DelRow(c)
  BY <1>7 DEF DelRow, Left, Finish, Typed
<1>8. CASE SetIndex(c)
  BY <1>8 DEF SetIndex, Left, Finish, Typed
<1>9. CASE Begin(c)
  BY <1>9 DEF Begin, Open, Typed
<1>10. CASE Commit(c)
  BY <1>10 DEF Commit, Typed
<1>11. CASE Abort(c)
  BY <1>11 DEF Abort, Typed
<1> QED
  BY <1>1, <1>2, <1>3, <1>4, <1>5, <1>6, <1>7, <1>8, <1>9, <1>10, <1>11 DEF Step

Agreed == \A c \in Clients : serial' => Agrees(c)

LEMMA GoesAlike ==
    ASSUME Typed, Shaped, FlagsKept, InSeries, [Next]_vars
    PROVE  InSeries' /\ (Agreed \/ UNCHANGED vars)
<1>1. Typed' /\ Shaped'
  BY Goes
<1>2. ASSUME NEW c \in Clients,
             Call(c) \/ Step(c) \/ Fault(c) \/ Begin(c) \/ Commit(c) \/ Abort(c)
      PROVE  InSeries' /\ Agreed
  <2> SUFFICES ASSUME serial'
               PROVE  InSeries' /\ Agreed
    BY DEF InSeries, Agreed
  <2>1. ~Fault(c)
    BY DEF Fault
  <2>2. serial /\ (Active(c) \/ Alone(c))
    <3>1. CASE Call(c) \/ Begin(c)
      BY <3>1 DEF Call, Begin
    <3>2. CASE Step(c)
      BY <3>2 DEF Step, Run, Select, Look, Get, SetRow, DelRow, SetIndex, Writing, Active
    <3>3. CASE Commit(c) \/ Abort(c)
      BY <3>3 DEF Commit, Abort, Active
    <3> QED
      BY <1>2, <2>1, <3>1, <3>2, <3>3
  <2>3. Alike(c)
    BY <2>2 DEF InSeries
  <2>4. Indexed(c)' /\ Reading(c)' /\ Writer(c)' /\ Untouched(c)' /\ Agrees(c)
    BY <1>1, <1>2, <2>1, <2>3, CallAlike, RunAlike, SelectAlike, LookAlike, GetAlike,
       SetRowAlike, DelRowAlike, SetIndexAlike, BeginAlike, CommitAlike, AbortAlike DEF Step
  <2>5. /\ adapter' = adapter
        /\ \A d \in Clients \ {c} : pc'[d] = pc[d] /\ tx'[d] = tx[d] /\ todo'[d] = todo[d]
    BY <1>2, <2>1, OwnVariables
  <2>6. (\A d \in Clients : (Active(d) \/ Alone(d)) => Alike(d))' /\ \A d \in Clients : Agrees(d)
    BY <1>1, <2>3, <2>4, <2>5, OnlyOne DEF Alike
  <2> QED
    BY <2>6 DEF InSeries, Agreed
<1>3. CASE UNCHANGED vars
  <2>1. InSeries'
    BY <1>3 DEF InSeries, Active, Alone, Alike, Lone, Indexed, Reading, Writer, Reaches,
                Untouched, OnCopy, vars
  <2> QED
    BY <1>3, <2>1
<1> QED
  BY <1>2, <1>3 DEF Next, AtRest

(* Used by one client at a time and without errors, every adapter answers   *)
(* and stores what the Map would, transactions included, if no row holds a  *)
(* flag that the codec of Redis forgets.                                    *)
THEOREM AdaptersAgree == FlagsKept /\ Spec => Conforms
<1> SUFFICES ASSUME FlagsKept
             PROVE  Spec => Conforms
  OBVIOUS
<1>1. Typed /\ Shaped /\ InSeries /\ [Next]_vars => InSeries' /\ [Agreed]_vars
  BY GoesAlike
<1>2. Init => InSeries
  BY BeginsAlike
<1>3. Spec => [][Agreed]_vars
  BY <1>1, <1>2, Invariance, PTL DEF Spec
<1>4. Conforms <=> [][Agreed]_vars
  BY DEF Conforms, Agreed, Agrees
<1> QED
  BY <1>3, <1>4
=============================================================================
