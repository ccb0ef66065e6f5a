------------------------------ MODULE Storage -------------------------------
(***************************************************************************)
(* The demo site's IndexedDB store (site/src/runtime/storage.ts), shared   *)
(* by the tabs of an Origin: each operation opens the database, repairs or *)
(* upgrades it, and does its work in one transaction that also removes     *)
(* what fails validation.                                                  *)
(*                                                                         *)
(* Anything of the Origin may write to the store, an older release of the  *)
(* page included: "Foreign" steps leave records and schemas that this code *)
(* did not write.  A record is its timestamp, its bytes and whether it is  *)
(* valid; the store is a set of records with distinct keys.                *)
(***************************************************************************)
EXTENDS Naturals, FiniteSets, Functions

CONSTANTS
    Tabs,            \* that use the store
    Keys,            \* a set of numbers, in the order of localeCompare
    Times,           \* timestamps; a clock may step back
    Sizes,           \* bytes of a record
    MaxEntryBytes,   \* MAX_STORAGE_VALUE_BYTES, and the longest key
    MaxStored,      \* MAX_STORAGE_ENTRIES
    MaxTotalBytes,   \* MAX_STORAGE_TOTAL_BYTES
    MaxScanEntries,  \* MAX_STORAGE_SCAN_ENTRIES
    MaxScanBytes,    \* MAX_STORAGE_SCAN_BYTES
    MaxForeign       \* bound of the model: steps of others

VARIABLES
    schema,    \* "none", "older" or "keyless": below the version; "current"; "broken"
    records,   \* of the object store
    held,      \* an older page keeps a connection open
    pending,   \* what the blocked request will do once it does not
    op,        \* what each tab is doing
    foreign    \* steps of others so far

\* An entry by itself is within the store's limits.
ASSUME StorageAssumption ==
    /\ Keys \subseteq Nat /\ Times \subseteq Nat /\ Sizes \subseteq Nat
    /\ MaxStored \in Nat \ {0} /\ MaxTotalBytes \in Nat
    /\ MaxEntryBytes \in Nat /\ MaxEntryBytes <= MaxTotalBytes

storeState == <<schema, records, held, pending, foreign>>
databaseVars == <<storeState, op>>

Schemas == {"none", "older", "keyless", "current", "broken"}
Record(key, at, size, valid) == [key |-> key, at |-> at, size |-> size, valid |-> valid]
Of(rs, key) == {r \in rs : r.key = key}
BytesOf(rs) == FoldFunctionOnSet(LAMBDA x, y : x + y, 0, [r \in rs |-> r.size], rs)

NoOp == [kind |-> "none", phase |-> "idle", key |-> 0, at |-> 0, size |-> 0]
Does(t, kind, key, at, size) ==
    op' = [op EXCEPT ![t] = [kind |-> kind, phase |-> "opening", key |-> key, at |-> at, size |-> size]]
Proceeds(t, phase) == op' = [op EXCEPT ![t].phase = phase]
Settles(t) == op' = [op EXCEPT ![t] = NoOp]

DatabaseInit ==
    /\ schema \in Schemas /\ records = {} /\ held \in BOOLEAN /\ pending = "nothing"
    /\ op = [t \in Tabs |-> NoOp] /\ foreign = 0

-----------------------------------------------------------------------------
(* Operations.  A key or a value that is refused is refused here, before     *)
(* the database is opened: such a call changes nothing.                      *)

\* putStoredValue takes its timestamp before it opens the database.
Put(t, key, at, size) ==
    op[t] = NoOp /\ size <= MaxEntryBytes /\ Does(t, "put", key, at, size) /\ UNCHANGED storeState
Get(t, key) == op[t] = NoOp /\ Does(t, "get", key, 0, 0) /\ UNCHANGED storeState
Delete(t, key) == op[t] = NoOp /\ Does(t, "delete", key, 0, 0) /\ UNCHANGED storeState
Usage(t) == op[t] = NoOp /\ Does(t, "usage", 0, 0, 0) /\ UNCHANGED storeState

\* onupgradeneeded: the records of another version or shape are dropped.
Upgraded == schema' = "current" /\ records' = {}

\* openDatabase; a blocked request is rejected, and carried out all the same.
Open(t) ==
    /\ op[t].phase = "opening" /\ pending = "nothing"
    /\ CASE schema = "current" -> Proceeds(t, "open") /\ UNCHANGED <<schema, records, pending>>
         [] schema = "broken" /\ ~held ->
              schema' = "none" /\ records' = {} /\ UNCHANGED <<op, pending>>
         [] schema = "broken" /\ held ->
              Settles(t) /\ pending' = "removal" /\ UNCHANGED <<schema, records>>
         [] ~held -> Upgraded /\ Proceeds(t, "open") /\ UNCHANGED pending
         [] OTHER -> Settles(t) /\ pending' = "upgrade" /\ UNCHANGED <<schema, records>>
    /\ UNCHANGED <<held, foreign>>

\* scanStorage: the store after it and its valid entries, or nothing at all when
\* there is too much to look at.
OverScan(rs) == Cardinality(rs) > MaxScanEntries \/ BytesOf(rs) > MaxScanBytes
Valid(rs) == {r \in rs : r.valid}
Scanned(rs) == IF OverScan(rs) THEN {} ELSE Valid(rs)

Older(r, s) == r.at < s.at \/ (r.at = s.at /\ r.key < s.key)
Fits(rs) == Cardinality(rs) <= MaxStored /\ BytesOf(rs) <= MaxTotalBytes

Entry(t) == Record(op[t].key, op[t].at, op[t].size, TRUE)

\* The entries that stay beside the new one: the longest tail of them, the
\* oldest first, that fits with it.
Others_All(key) == Scanned(records)
Others(key) == {r \in Scanned(records) : r.key # key}
NewerThan(others, n) == {r \in others : Cardinality({s \in others : Older(s, r)}) >= n}
Kept(others, entry) ==
    LET fitting == {n \in 0 .. Cardinality(others) : Fits(NewerThan(others, n) \cup {entry})}
    IN  NewerThan(others, CHOOSE n \in fitting : \A m \in fitting : n <= m)

\* The answer's evictedKeys.
EvictedKeys(t) ==
    LET others == Others(op[t].key)
    IN  {r.key : r \in others \ Kept(others, Entry(t))}

\* It fits with none beside it: the transaction is not aborted for its sake.
PutCommits(t) ==
    /\ op[t].phase = "open" /\ op[t].kind = "put"
    /\ records' = IF OverScan(records) THEN {}
                  ELSE {r \in Kept(Others(op[t].key), Entry(t)) : r.key # op[t].key} \cup {Entry(t)}
    /\ Settles(t)
    /\ UNCHANGED <<schema, held, pending, foreign>>

\* getStoredValue removes the record it refuses; deleteStoredValue any.
GetCommits(t) ==
    /\ op[t].phase = "open" /\ op[t].kind \in {"get", "delete"}
    /\ records' = {r \in records : r.key # op[t].key \/ (op[t].kind = "get" /\ r.valid)}
    /\ Settles(t)
    /\ UNCHANGED <<schema, held, pending, foreign>>

UsageCommits(t) ==
    /\ op[t].phase = "open" /\ op[t].kind = "usage"
    /\ records' = Scanned(records)
    /\ Settles(t)
    /\ UNCHANGED <<schema, held, pending, foreign>>

\* The browser may fail a request or a transaction: nothing is changed.
Fails(t) == op[t] # NoOp /\ Settles(t) /\ UNCHANGED storeState

-----------------------------------------------------------------------------
(* Others of the Origin.                                                    *)

\* A record of any size, valid or not, under any key; and a schema, when no
\* connection of this code is open.
Foreign ==
    /\ foreign < MaxForeign /\ foreign' = foreign + 1
    /\ \/ /\ schema \in {"current", "older"}
          /\ \E key \in Keys, at \in Times, size \in Sizes, valid \in BOOLEAN :
                /\ valid => size <= MaxEntryBytes
                /\ records' = (records \ Of(records, key)) \cup {Record(key, at, size, valid)}
          /\ UNCHANGED schema
       \/ /\ \A t \in Tabs : op[t].phase # "open"
          /\ ~held /\ schema' \in {"none", "keyless", "broken"} /\ records' = {}
    /\ UNCHANGED <<held, pending, op>>

OlderPage ==
    /\ schema \in {"older", "keyless", "broken"} /\ pending = "nothing"
    /\ ~held /\ held' = TRUE
    /\ UNCHANGED <<schema, records, pending, op, foreign>>

\* Its connection closes, and what it blocked goes on.
OlderPageLeaves ==
    /\ held /\ held' = FALSE /\ pending' = "nothing"
    /\ CASE pending = "nothing" -> UNCHANGED <<schema, records>>
         [] pending = "upgrade" -> Upgraded
         [] pending = "removal" -> schema' = "none" /\ records' = {}
    /\ UNCHANGED <<op, foreign>>

DatabaseNext ==
    \/ \E t \in Tabs :
         \/ \E key \in Keys, at \in Times, size \in Sizes : Put(t, key, at, size)
         \/ \E key \in Keys : Get(t, key) \/ Delete(t, key)
         \/ Usage(t) \/ Open(t) \/ PutCommits(t) \/ GetCommits(t) \/ UsageCommits(t) \/ Fails(t)
    \/ Foreign \/ OlderPage \/ OlderPageLeaves

DatabaseSpec == DatabaseInit /\ [][DatabaseNext]_databaseVars

-----------------------------------------------------------------------------
(* Properties.                                                              *)

\* A write that resolves leaves its entry and, of the others, as many of the newest
\* as fit: the store as a whole is within its limits and valid, whatever was written
\* to it before; nothing that stays is older than something evicted; the newest of
\* those evicted would not have fitted; and the caller is told of each of them and of
\* no other.
PutKeepsQuota ==
    [][\A t \in Tabs :
          (PutCommits(t) /\ ~OverScan(records)) =>
            LET entry == Entry(t)
                gone == {r \in Valid(records) : r.key # entry.key} \ records'
            IN  /\ entry \in records' /\ Fits(records') /\ Valid(records') = records'
                /\ Cardinality({r.key : r \in records'}) = Cardinality(records')
                /\ EvictedKeys(t) = {r.key : r \in gone}
                /\ \A r \in gone, s \in records' \ {entry} : Older(r, s)
                /\ \A r \in gone : (\A s \in gone : s = r \/ Older(s, r)) => ~Fits(records' \cup {r})]_databaseVars
=============================================================================
