----------------------------- MODULE SiteProofs -----------------------------
(***************************************************************************)
(* Proofs about the demo site's two stateful parts, for every value of     *)
(* their constants.                                                        *)
(*                                                                         *)
(* Storage: of the entries by age, a write keeps the longest tail that     *)
(* fits beside the new one, so nothing about the quota depends on what was *)
(* in the store before.                                                    *)
(*                                                                         *)
(* Cube: the moves still to come are one line, the active move at its      *)
(* head.  Whatever a handler does is a step on a line in which each call   *)
(* has exactly the moves it waits for, and in which a call that expects a  *)
(* revision comes before all others: moves at the head are committed,      *)
(* moves are appended at the end, the moves of one call are taken out.     *)
(***************************************************************************)
EXTENDS Storage, Cube, Sums, FiniteSetTheorems, SequenceTheorems, TLAPS

-----------------------------------------------------------------------------
(* The entries by age. *)

Records == [key : Keys, at : Times, size : Sizes, valid : BOOLEAN]
OneEach(rs) == \A r, s \in rs : r.key = s.key => r = s

LEMMA OlderIsOrder ==
    ASSUME NEW rs \in SUBSET Records, OneEach(rs)
    PROVE  /\ \A r, s \in rs : r = s \/ Older(r, s) \/ Older(s, r)
           /\ \A r, s \in rs : ~(Older(r, s) /\ Older(s, r))
           /\ \A r, s, u \in rs : Older(r, s) /\ Older(s, u) => Older(r, u)
<1>1. \A r \in rs : r.key \in Nat /\ r.at \in Nat
  BY StorageAssumption DEF Records, StorageAssumption
<1>. QED  BY <1>1 DEF Older, OneEach

\* How many of rs are older than r.
Age(rs, r) == Cardinality({s \in rs : Older(s, r)})

LEMMA AgeType ==
    ASSUME NEW rs \in SUBSET Records, IsFiniteSet(rs), OneEach(rs), NEW r \in rs
    PROVE  Age(rs, r) \in Nat /\ Age(rs, r) < Cardinality(rs)
<1> DEFINE before == {s \in rs : Older(s, r)}
<1>1. before \in SUBSET rs /\ r \notin before
  BY OlderIsOrder
<1>. HIDE DEF before
<1>2. /\ IsFiniteSet(before) /\ Cardinality(before) <= Cardinality(rs)
      /\ Cardinality(rs) = Cardinality(before) => rs = before
  BY <1>1, FS_Subset
<1>3. Cardinality(before) \in Nat /\ Cardinality(rs) \in Nat
  BY <1>2, FS_CardinalityType
<1>4. Cardinality(rs) # Cardinality(before)
  BY <1>1, <1>2
<1>. QED  BY <1>2, <1>3, <1>4 DEF Age, before

LEMMA OlderIsFewer ==
    ASSUME NEW rs \in SUBSET Records, IsFiniteSet(rs), OneEach(rs), NEW r \in rs, NEW s \in rs,
           Older(r, s)
    PROVE  Age(rs, r) < Age(rs, s)
<1> DEFINE less == {x \in rs : Older(x, r)}
           more == {x \in rs : Older(x, s)}
<1>1. less \in SUBSET more /\ r \in more /\ r \notin less /\ more \in SUBSET rs
  BY OlderIsOrder
<1>. HIDE DEF less, more
<1>2. IsFiniteSet(more)
  BY <1>1, FS_Subset
<1>3. /\ IsFiniteSet(less) /\ Cardinality(less) <= Cardinality(more)
      /\ Cardinality(more) = Cardinality(less) => more = less
  BY <1>1, <1>2, FS_Subset
<1>4. Cardinality(less) \in Nat /\ Cardinality(more) \in Nat
  BY <1>2, <1>3, FS_CardinalityType
<1>5. Cardinality(more) # Cardinality(less)
  BY <1>1, <1>3
<1>. QED  BY <1>3, <1>4, <1>5 DEF Age, less, more

\* What is not older is newer.
LEMMA FewerIsOlder ==
    ASSUME NEW rs \in SUBSET Records, IsFiniteSet(rs), OneEach(rs), NEW r \in rs, NEW s \in rs,
           Age(rs, r) < Age(rs, s)
    PROVE  Older(r, s)
<1>1. Age(rs, r) \in Nat /\ Age(rs, s) \in Nat
  BY AgeType
<1>2. r # s
  BY <1>1
<1>3. ~Older(s, r)
  BY <1>1, OlderIsFewer
<1>. QED  BY <1>2, <1>3, OlderIsOrder

-----------------------------------------------------------------------------
(* What a write keeps. *)

LEMMA OneFits ==
    ASSUME NEW entry \in Records, entry.size <= MaxEntryBytes
    PROVE  Fits({entry})
<1> DEFINE size == [r \in {entry} |-> r.size]
<1>1. entry.size \in Nat
  BY StorageAssumption DEF Records, StorageAssumption
<1>2. IsFiniteSet({entry}) /\ Cardinality({entry}) = 1 /\ {entry} \ {entry} = {}
  BY FS_Singleton
<1>3. size[entry] = entry.size
  OBVIOUS
<1>. HIDE DEF size
<1>4. SumOver(size, {entry}) = size[entry] + SumOver(size, {entry} \ {entry})
  <2>1. \A x \in {entry} : size[x] \in Nat
    BY <1>1, <1>3
  <2>. QED  BY <1>2, <2>1, SumAny
<1>5. SumOver(size, {entry}) = entry.size
  BY <1>1, <1>2, <1>3, <1>4, SumEmpty
<1>6. BytesOf({entry}) = entry.size
  BY <1>5 DEF BytesOf, SumOver, size
<1>. QED  BY <1>1, <1>2, <1>6, StorageAssumption DEF Fits, StorageAssumption

LEMMA KeptIs ==
    ASSUME NEW others \in SUBSET Records, IsFiniteSet(others), OneEach(others),
           NEW entry \in Records, entry.size <= MaxEntryBytes
    PROVE  LET kept == Kept(others, entry)
           IN  /\ kept \subseteq others /\ Fits(kept \cup {entry})
               /\ \A r \in others \ kept, s \in kept : Older(r, s)
               /\ \A r \in others \ kept :
                    (\A s \in others \ kept : s = r \/ Older(s, r)) => ~Fits(kept \cup {entry} \cup {r})
<1> DEFINE fitting == {n \in 0 .. Cardinality(others) : Fits(NewerThan(others, n) \cup {entry})}
           least == CHOOSE n \in fitting : \A m \in fitting : n <= m
           kept == NewerThan(others, least)
<1>1. Cardinality(others) \in Nat
  BY FS_CardinalityType
<1>2. \A r \in others : Age(others, r) \in Nat /\ Age(others, r) < Cardinality(others)
  BY AgeType
<1>3. \A n : NewerThan(others, n) = {r \in others : Age(others, r) >= n}
  BY DEF NewerThan, Age
<1>4. fitting # {}
  <2>1. NewerThan(others, Cardinality(others)) = {}
    BY <1>1, <1>2, <1>3
  <2>2. NewerThan(others, Cardinality(others)) \cup {entry} = {entry}
    BY <2>1
  <2>3. Fits({entry})
    BY OneFits
  <2>. QED  BY <1>1, <2>2, <2>3
<1>5. least \in fitting /\ \A m \in fitting : least <= m
  <2>1. fitting \in SUBSET Nat
    BY <1>1
  <2>. HIDE DEF fitting
  <2>2. \E n \in fitting : \A m \in fitting : n <= m
    BY <1>4, <2>1, Smallest
  <2>. QED  BY <2>2
<1>6. Kept(others, entry) = kept
  BY DEF Kept
<1>7. least \in 0 .. Cardinality(others) /\ Fits(kept \cup {entry})
  BY <1>5
<1>. HIDE DEF least
<1>8. kept = {r \in others : Age(others, r) >= least} /\ kept \subseteq others
  BY <1>3
<1>9. ASSUME NEW r \in others \ kept, NEW s \in kept PROVE Older(r, s)
  <2>1. r \in others /\ s \in others /\ Age(others, s) >= least /\ ~(Age(others, r) >= least)
    BY <1>8
  <2>2. Age(others, r) < Age(others, s)
    BY <1>1, <1>2, <1>7, <2>1
  <2>. QED  BY <2>1, <2>2, FewerIsOlder
<1>10. ASSUME NEW r \in others \ kept, \A s \in others \ kept : s = r \/ Older(s, r),
              Fits(kept \cup {entry} \cup {r})
       PROVE  FALSE
  <2> DEFINE m == Age(others, r)
  <2>1. m \in Nat /\ m < least /\ m \in 0 .. Cardinality(others) /\ r \in others
    BY <1>1, <1>2, <1>7, <1>8
  <2>2. NewerThan(others, m) = kept \cup {r}
    <3>1. ASSUME NEW s \in others PROVE Age(others, s) >= m <=> s \in kept \/ s = r
      <4>1. CASE s \in kept
        BY <1>1, <1>2, <1>7, <1>8, <2>1, <4>1
      <4>2. CASE s = r
        BY <2>1, <4>2
      <4>3. CASE s \notin kept /\ s # r
        <5>1. Older(s, r)
          BY <1>10, <4>3
        <5>2. Age(others, s) < m
          BY <2>1, <5>1, OlderIsFewer
        <5>. QED  BY <1>2, <2>1, <4>3, <5>2
      <4>. QED  BY <4>1, <4>2, <4>3
    <3>. HIDE DEF m
    <3>. QED  BY <1>3, <1>8, <2>1, <3>1
  <2>3. kept \cup {entry} \cup {r} = (kept \cup {r}) \cup {entry}
    OBVIOUS
  <2>4. Fits(NewerThan(others, m) \cup {entry})
    BY <1>10, <2>2, <2>3
  <2>5. m \in fitting
    BY <2>1, <2>4
  <2>. HIDE DEF m, fitting
  <2>6. least <= m
    BY <1>5, <2>5
  <2>. QED  BY <1>1, <1>7, <2>1, <2>6
<1>. HIDE DEF kept
<1>. QED  BY <1>6, <1>7, <1>8, <1>9, <1>10

-----------------------------------------------------------------------------
(* The invariant: one record of a key, and writes of sizes that were let in.  *)

Operations ==
    [kind : {"none", "put", "get", "delete", "usage"}, phase : {"idle", "opening", "open"},
     key : Keys \cup {0}, at : Times \cup {0}, size : Sizes \cup {0}]
Writes(o) ==
    o.kind = "put" => o.key \in Keys /\ o.at \in Times /\ o.size \in Sizes /\ o.size <= MaxEntryBytes

StoreInv ==
    /\ records \in SUBSET Records /\ IsFiniteSet(records) /\ OneEach(records)
    /\ op \in [Tabs -> Operations] /\ \A t \in Tabs : Writes(op[t])
    /\ pending \in {"nothing", "upgrade", "removal"}

LEMMA OpChanges ==
    ASSUME op \in [Tabs -> Operations], \A t \in Tabs : Writes(op[t]), NEW t \in Tabs
    PROVE  LET kept == op' \in [Tabs -> Operations] /\ \A u \in Tabs : Writes(op'[u])
           IN  /\ \A kind \in {"get", "delete", "usage"}, key \in Keys \cup {0} :
                    Does(t, kind, key, 0, 0) => kept
               /\ \A key \in Keys, at \in Times, size \in Sizes :
                    size <= MaxEntryBytes /\ Does(t, "put", key, at, size) => kept
               /\ \A phase \in {"opening", "open"} : Proceeds(t, phase) => kept
               /\ Settles(t) => kept
<1> DEFINE kept == op' \in [Tabs -> Operations] /\ \A u \in Tabs : Writes(op'[u])
<1>1. ASSUME NEW o \in Operations, Writes(o), op' = [op EXCEPT ![t] = o] PROVE kept
  BY <1>1
<1>. HIDE DEF kept
<1>2. ASSUME NEW kind \in {"get", "delete", "usage"}, NEW key \in Keys \cup {0}, Does(t, kind, key, 0, 0)
      PROVE  kept
  <2> DEFINE o == [kind |-> kind, phase |-> "opening", key |-> key, at |-> 0, size |-> 0]
  <2>1. o \in Operations /\ Writes(o)
    BY DEF Operations, Writes
  <2>. QED  BY <1>1, <1>2, <2>1 DEF Does
<1>3. ASSUME NEW key \in Keys, NEW at \in Times, NEW size \in Sizes, size <= MaxEntryBytes,
             Does(t, "put", key, at, size)
      PROVE  kept
  <2> DEFINE o == [kind |-> "put", phase |-> "opening", key |-> key, at |-> at, size |-> size]
  <2>1. o \in Operations /\ Writes(o)
    BY <1>3 DEF Operations, Writes
  <2>. QED  BY <1>1, <1>3, <2>1 DEF Does
<1>4. ASSUME NEW phase \in {"opening", "open"}, Proceeds(t, phase) PROVE kept
  <2> DEFINE o == [op[t] EXCEPT !.phase = phase]
  <2>1. o \in Operations /\ Writes(o)
    BY DEF Operations, Writes
  <2>2. op' = [op EXCEPT ![t] = o]
    BY <1>4 DEF Proceeds
  <2>. HIDE DEF o
  <2>. QED  BY <1>1, <2>1, <2>2
<1>5. ASSUME Settles(t) PROVE kept
  <2>1. NoOp \in Operations /\ Writes(NoOp)
    BY DEF NoOp, Operations, Writes
  <2>. QED  BY <1>1, <1>5, <2>1 DEF Settles
<1>. QED  BY <1>2, <1>3, <1>4, <1>5 DEF kept

\* A part of the records, with one of a key that is not among them.
LEMMA RecordsChange ==
    ASSUME NEW rs \in SUBSET Records, IsFiniteSet(rs), OneEach(rs),
           NEW part \in SUBSET rs, NEW r \in Records, \A s \in part : s.key # r.key
    PROVE  /\ part \in SUBSET Records /\ IsFiniteSet(part) /\ OneEach(part)
           /\ part \cup {r} \in SUBSET Records /\ IsFiniteSet(part \cup {r}) /\ OneEach(part \cup {r})
<1>1. IsFiniteSet(part)
  BY FS_Subset
<1>2. IsFiniteSet(part \cup {r})
  BY <1>1, FS_AddElement
<1>. QED  BY <1>1, <1>2 DEF OneEach

LEMMA PartOfRecords ==
    ASSUME NEW rs \in SUBSET Records, IsFiniteSet(rs), OneEach(rs), NEW part \in SUBSET rs
    PROVE  part \in SUBSET Records /\ IsFiniteSet(part) /\ OneEach(part)
  BY FS_Subset DEF OneEach

\* The write: what it keeps of the others is what KeptIs says.
LEMMA EntryType ==
    ASSUME StoreInv, NEW t \in Tabs, op[t].kind = "put"
    PROVE  /\ Entry(t) \in Records /\ Entry(t).size <= MaxEntryBytes
           /\ Entry(t).key = op[t].key /\ Entry(t).valid
  BY DEF StoreInv, Writes, Entry, Record, Records

LEMMA OthersType ==
    ASSUME StoreInv, NEW key
    PROVE  /\ Others(key) \in SUBSET records /\ Others(key) \in SUBSET Records
           /\ IsFiniteSet(Others(key)) /\ OneEach(Others(key))
           /\ \A r \in Others(key) : r.key # key
<1>1. Others(key) \in SUBSET records /\ \A r \in Others(key) : r.key # key
  BY DEF Others, Scanned, Valid
<1>. QED  BY <1>1, PartOfRecords DEF StoreInv

LEMMA PutIs ==
    ASSUME StoreInv, NEW t \in Tabs, PutCommits(t), ~OverScan(records)
    PROVE  LET kept == Kept(Others(op[t].key), Entry(t))
           IN  kept \subseteq Others(op[t].key) /\ records' = kept \cup {Entry(t)}
<1> DEFINE others == Others(op[t].key)
           kept == Kept(others, Entry(t))
<1>1. Entry(t) \in Records /\ Entry(t).size <= MaxEntryBytes
  BY EntryType DEF PutCommits
<1>2. kept \subseteq others
  <2>1. others \in SUBSET Records /\ IsFiniteSet(others) /\ OneEach(others)
    BY OthersType
  <2>. HIDE DEF others
  <2>. QED  BY <1>1, <2>1, KeptIs
<1>3. {r \in kept : r.key # op[t].key} = kept
  BY <1>2, OthersType
<1>. QED  BY <1>2, <1>3 DEF PutCommits

LEMMA PutKeepsInv ==
    ASSUME StoreInv, NEW t \in Tabs, PutCommits(t)
    PROVE  records' \in SUBSET Records /\ IsFiniteSet(records') /\ OneEach(records')
<1>1. CASE OverScan(records)
  BY <1>1, FS_EmptySet DEF PutCommits, OneEach
<1>2. CASE ~OverScan(records)
  <2> DEFINE kept == Kept(Others(op[t].key), Entry(t))
             entry == Entry(t)
  <2>1. kept \subseteq Others(op[t].key) /\ records' = kept \cup {entry}
    BY <1>2, PutIs
  <2>2. entry \in Records /\ entry.key = op[t].key
    BY EntryType DEF PutCommits
  <2>. HIDE DEF kept, entry
  <2>3. kept \in SUBSET records /\ \A r \in kept : r.key # entry.key
    BY <2>1, <2>2, OthersType
  <2>. QED  BY <2>1, <2>2, <2>3, RecordsChange DEF StoreInv
<1>. QED  BY <1>1, <1>2

LEMMA StoreInvariance == DatabaseSpec => []StoreInv
<1>1. DatabaseInit => StoreInv
  <2>1. NoOp \in Operations /\ Writes(NoOp)
    BY DEF NoOp, Operations, Writes
  <2>. QED  BY <2>1, FS_EmptySet DEF DatabaseInit, StoreInv, OneEach
<1>2. StoreInv /\ [DatabaseNext]_databaseVars => StoreInv'
  <2>. SUFFICES ASSUME StoreInv, [DatabaseNext]_databaseVars PROVE StoreInv'
    OBVIOUS
  <2> DEFINE RecordsKept == records' \in SUBSET Records /\ IsFiniteSet(records') /\ OneEach(records')
             OpKept == op' \in [Tabs -> Operations] /\ \A u \in Tabs : Writes(op'[u])
  <2>0. pending' \in {"nothing", "upgrade", "removal"}
    <3>1. ASSUME NEW t \in Tabs, Open(t) PROVE pending' \in {pending, "upgrade", "removal"}
      BY <3>1 DEF Open
    <3>. QED
      BY <3>1 DEF StoreInv, DatabaseNext, databaseVars, storeState, Put, Get, Delete, Usage, PutCommits,
                  GetCommits, UsageCommits, Fails, Foreign, OlderPage, OlderPageLeaves
  <2>1. RecordsKept /\ OpKept => StoreInv'
    BY <2>0 DEF StoreInv
  <2>2. records' = records => RecordsKept
    BY DEF StoreInv
  <2>3. records' \in SUBSET records => RecordsKept
    BY PartOfRecords DEF StoreInv
  <2>4. op' = op => OpKept
    BY DEF StoreInv
  <2>5. ASSUME NEW t \in Tabs
        PROVE  /\ \A kind \in {"get", "delete", "usage"}, key \in Keys \cup {0} :
                    Does(t, kind, key, 0, 0) => OpKept
               /\ \A key \in Keys, at \in Times, size \in Sizes :
                    size <= MaxEntryBytes /\ Does(t, "put", key, at, size) => OpKept
               /\ \A phase \in {"opening", "open"} : Proceeds(t, phase) => OpKept
               /\ Settles(t) => OpKept
    BY OpChanges DEF StoreInv
  <2>. HIDE DEF RecordsKept, OpKept
  <2>6. ASSUME NEW t \in Tabs, NEW key \in Keys, NEW at \in Times, NEW size \in Sizes, Put(t, key, at, size)
        PROVE  StoreInv'
    BY <2>1, <2>2, <2>5, <2>6 DEF Put, storeState
  <2>7. ASSUME NEW t \in Tabs, NEW key \in Keys, Get(t, key) \/ Delete(t, key) PROVE StoreInv'
    BY <2>1, <2>2, <2>5, <2>7 DEF Get, Delete, storeState
  <2>8. ASSUME NEW t \in Tabs, Usage(t) PROVE StoreInv'
    BY <2>1, <2>2, <2>5, <2>8 DEF Usage, storeState
  <2>9. ASSUME NEW t \in Tabs, Open(t) PROVE StoreInv'
    <3>1. records' = records \/ records' = {}
      BY <2>9 DEF Open, Upgraded
    <3>2. op' = op \/ Proceeds(t, "open") \/ Settles(t)
      BY <2>9 DEF Open
    <3>. QED  BY <2>1, <2>3, <2>4, <2>5, <3>1, <3>2
  <2>10. ASSUME NEW t \in Tabs, PutCommits(t) PROVE StoreInv'
    <3>1. RecordsKept
      BY <2>10, PutKeepsInv DEF RecordsKept
    <3>. QED  BY <2>1, <2>5, <2>10, <3>1 DEF PutCommits
  <2>11. ASSUME NEW t \in Tabs, GetCommits(t) PROVE StoreInv'
    BY <2>1, <2>3, <2>5, <2>11 DEF GetCommits
  <2>12. ASSUME NEW t \in Tabs, UsageCommits(t) PROVE StoreInv'
    BY <2>1, <2>3, <2>5, <2>12 DEF UsageCommits, Scanned, Valid
  <2>13. ASSUME NEW t \in Tabs, Fails(t) PROVE StoreInv'
    BY <2>1, <2>2, <2>5, <2>13 DEF Fails, storeState
  <2>14. ASSUME Foreign PROVE StoreInv'
    <3>1. CASE records' = {}
      BY <2>1, <2>3, <2>4, <2>14, <3>1 DEF Foreign
    <3>2. ASSUME NEW key \in Keys, NEW at \in Times, NEW size \in Sizes, NEW valid \in BOOLEAN,
                 records' = (records \ Of(records, key)) \cup {Record(key, at, size, valid)}
          PROVE  RecordsKept
      <4> DEFINE part == records \ Of(records, key)
                 r == Record(key, at, size, valid)
      <4>1. r \in Records /\ r.key = key /\ part \in SUBSET records /\ \A s \in part : s.key # key
        BY DEF Record, Records, Of
      <4>. HIDE DEF part, r
      <4>2. part \cup {r} \in SUBSET Records /\ IsFiniteSet(part \cup {r}) /\ OneEach(part \cup {r})
        BY <4>1, RecordsChange DEF StoreInv
      <4>. QED  BY <3>2, <4>2 DEF RecordsKept, part, r
    <3>. QED  BY <2>1, <2>4, <2>14, <3>1, <3>2 DEF Foreign
  <2>15. ASSUME OlderPage \/ OlderPageLeaves \/ UNCHANGED databaseVars PROVE StoreInv'
    <3>1. op' = op
      BY <2>15 DEF OlderPage, OlderPageLeaves, databaseVars
    <3>2. OlderPageLeaves => records' = records \/ records' = {}
      BY DEF OlderPageLeaves, Upgraded, StoreInv
    <3>3. records' = records \/ records' = {}
      BY <2>15, <3>2 DEF OlderPage, databaseVars, storeState
    <3>. QED  BY <2>1, <2>3, <2>4, <3>1, <3>3
  <2>. QED
    BY <2>6, <2>7, <2>8, <2>9, <2>10, <2>11, <2>12, <2>13, <2>14, <2>15 DEF DatabaseNext
<1>. QED  BY <1>1, <1>2, PTL DEF DatabaseSpec

LEMMA PutKeeps ==
    ASSUME StoreInv, NEW t \in Tabs, PutCommits(t), ~OverScan(records)
    PROVE  LET entry == Entry(t)
               gone == {r \in Valid(records) : r.key # entry.key} \ records'
           IN  /\ entry \in records' /\ Fits(records') /\ Valid(records') = records'
               /\ Cardinality({r.key : r \in records'}) = Cardinality(records')
               /\ EvictedKeys(t) = {r.key : r \in gone}
               /\ \A r \in gone, s \in records' \ {entry} : Older(r, s)
               /\ \A r \in gone : (\A s \in gone : s = r \/ Older(s, r)) => ~Fits(records' \cup {r})
<1> DEFINE entry == Entry(t)
           others == Others(op[t].key)
           kept == Kept(others, entry)
           gone == {r \in Valid(records) : r.key # entry.key} \ records'
<1>1. entry \in Records /\ entry.size <= MaxEntryBytes /\ entry.key = op[t].key /\ entry.valid
  BY EntryType DEF PutCommits
<1>2. /\ others \in SUBSET Records /\ IsFiniteSet(others) /\ OneEach(others)
      /\ \A r \in others : r.key # entry.key /\ r.valid
  <2>1. \A r \in others : r.valid
    BY DEF Others, Scanned, Valid
  <2>2. /\ others \in SUBSET Records /\ IsFiniteSet(others) /\ OneEach(others)
        /\ \A r \in others : r.key # op[t].key
    BY OthersType
  <2>. HIDE DEF others, entry
  <2>. QED  BY <1>1, <2>1, <2>2
<1>3. kept \subseteq others /\ records' = kept \cup {entry}
  BY PutIs
<1>4. {r \in Valid(records) : r.key # entry.key} = others
  BY <1>1 DEF Others, Scanned
<1>5. EvictedKeys(t) = {r.key : r \in others \ kept}
  BY DEF EvictedKeys
<1>. HIDE DEF others, entry
<1>6. /\ Fits(kept \cup {entry})
      /\ \A r \in others \ kept, s \in kept : Older(r, s)
      /\ \A r \in others \ kept :
           (\A s \in others \ kept : s = r \/ Older(s, r)) => ~Fits(kept \cup {entry} \cup {r})
  BY <1>1, <1>2, KeptIs
<1>. HIDE DEF kept
<1>7. gone = others \ kept
  BY <1>2, <1>3, <1>4
<1>8. entry \notin kept /\ records' \ {entry} = kept
  BY <1>2, <1>3
<1>9. Valid(records') = records'
  BY <1>1, <1>2, <1>3 DEF Valid
<1>10. Cardinality({r.key : r \in records'}) = Cardinality(records')
  <2> DEFINE keys == {r.key : r \in records'}
             key == [r \in records' |-> r.key]
  <2>1. IsFiniteSet(records') /\ OneEach(records')
    BY PutKeepsInv
  <2>2. key \in Bijection(records', keys)
    BY <2>1 DEF OneEach, Bijection, Injection, Surjection, IsInjective
  <2>3. ExistsBijection(records', keys)
    BY <2>2 DEF ExistsBijection
  <2>. HIDE DEF keys
  <2>. QED  BY <2>1, <2>3, FS_Bijection DEF keys
<1>. HIDE DEF gone
<1>11. \A r \in gone : (\A s \in gone : s = r \/ Older(s, r)) => ~Fits(records' \cup {r})
  BY <1>3, <1>6, <1>7
<1>12. /\ entry \in records' /\ Fits(records') /\ EvictedKeys(t) = {r.key : r \in gone}
       /\ \A r \in gone, s \in records' \ {entry} : Older(r, s)
  BY <1>3, <1>5, <1>6, <1>7, <1>8
<1>. QED  BY <1>9, <1>10, <1>11, <1>12 DEF gone, entry

\* Whatever others of the Origin wrote to the store, and whatever the clocks say, a
\* write that is done leaves the store within its limits, by evicting the oldest and no
\* more than it has to.
THEOREM WritesKeepTheQuota == DatabaseSpec => PutKeepsQuota
<1> DEFINE Keeps ==
          \A t \in Tabs :
          (PutCommits(t) /\ ~OverScan(records)) =>
            LET entry == Entry(t)
                gone == {r \in Valid(records) : r.key # entry.key} \ records'
            IN  /\ entry \in records' /\ Fits(records') /\ Valid(records') = records'
                /\ Cardinality({r.key : r \in records'}) = Cardinality(records')
                /\ EvictedKeys(t) = {r.key : r \in gone}
                /\ \A r \in gone, s \in records' \ {entry} : Older(r, s)
                /\ \A r \in gone : (\A s \in gone : s = r \/ Older(s, r)) => ~Fits(records' \cup {r})
<1>1. StoreInv => Keeps
  BY PutKeeps
<1>2. DatabaseSpec => [][Keeps]_databaseVars
  <2>. HIDE DEF Keeps
  <2>. QED  BY <1>1, StoreInvariance, PTL DEF DatabaseSpec
<1>. QED  BY <1>2, PTL DEF PutKeepsQuota

-----------------------------------------------------------------------------
(* Recursion along a sequence. *)

\* g is what n steps make of base.
Runs(g, B, base, n, step) ==
    g \in [0..n -> B] /\ g[0] = base /\ \A i \in 1..n : g[i] = step[<<g[i - 1], i>>]

LEMMA Recursion ==
    ASSUME NEW B, NEW base \in B, NEW n \in Nat, NEW step \in [B \X (1..n) -> B]
    PROVE  \E g : Runs(g, B, base, n, step)
<1> DEFINE Upto(m) == \E g \in [0..m -> B] : g[0] = base /\ \A i \in 1..m : g[i] = step[<<g[i - 1], i>>]
           O == {m \in 0..n : ~Upto(m)}
<1>1. Upto(0)
  <2> DEFINE g == [i \in 0..0 |-> base]
  <2>1. g \in [0..0 -> B] /\ g[0] = base /\ \A i \in 1..0 : g[i] = step[<<g[i - 1], i>>]
    OBVIOUS
  <2>. QED  BY <2>1
<1>2. ASSUME NEW m \in 1..n, Upto(m - 1) PROVE Upto(m)
  <2>1. PICK g \in [0..m - 1 -> B] : g[0] = base /\ \A i \in 1..m - 1 : g[i] = step[<<g[i - 1], i>>]
    BY <1>2
  <2> DEFINE h == [i \in 0..m |-> IF i = m THEN step[<<g[m - 1], m>>] ELSE g[i]]
  <2>2. g[m - 1] \in B /\ \A i \in 0..m - 1 : g[i] \in B
    BY <2>1
  <2>3. step[<<g[m - 1], m>>] \in B
    BY <2>2
  <2>4. h \in [0..m -> B]
    BY <2>2, <2>3
  <2>5. h[m] = step[<<g[m - 1], m>>] /\ \A i \in 0..m - 1 : h[i] = g[i]
    OBVIOUS
  <2>. HIDE DEF h
  <2>6. ASSUME NEW i \in 1..m PROVE h[i] = step[<<h[i - 1], i>>]
    <3>1. i - 1 \in 0..m - 1
      OBVIOUS
    <3>2. h[i - 1] = g[i - 1]
      BY <2>5, <3>1
    <3>3. CASE i = m
      BY <2>5, <3>2, <3>3
    <3>4. CASE i # m
      <4>1. i \in 1..m - 1 /\ i \in 0..m - 1
        BY <3>4
      <4>. QED  BY <2>1, <2>5, <3>2, <4>1
    <3>. QED  BY <3>3, <3>4
  <2>7. h[0] = base
    BY <2>1, <2>5
  <2>. QED  BY <2>4, <2>6, <2>7
<1>. HIDE DEF Upto
<1>3. ASSUME O # {} PROVE FALSE
  <2>1. O \in SUBSET Nat
    OBVIOUS
  <2>2. PICK m \in O : \A x \in O : m <= x
    <3>. HIDE DEF O
    <3>. QED  BY <1>3, <2>1, Smallest
  <2>3. m \in 0..n /\ ~Upto(m)
    OBVIOUS
  <2>4. m \in 1..n
    BY <1>1, <2>3
  <2>5. m - 1 \in 0..n /\ m - 1 \notin O
    BY <2>2, <2>4
  <2>. QED  BY <1>2, <2>3, <2>4, <2>5
<1>4. Upto(n)
  BY <1>3
<1>. QED  BY <1>4 DEF Upto, Runs

-----------------------------------------------------------------------------
(* Moves that are committed. *)

Move == [call : Calls \cup {Nobody}, animated : BOOLEAN]
Call == [phase : {"new", "waiting", "resolved", "rejected"}, left : Int, next : SUBSET Nat,
         exact : BOOLEAN]
CubeState == [revision : Nat, queue : Seq(Move), active : Move \cup {NoEntry},
              calls : [Calls -> Call]]

\* The places after i of a line of moves that are a call's.
Places(line, i, c) == {j \in (i + 1)..Len(line) : line[j].call = c}

\* A call is ahead in a line when nothing comes before a move of it.
Ahead(line, i, c) == \A j \in Places(line, i, c) : \A m \in (i + 1)..j : line[m].call = c

\* A call has all its moves in the rest of the line, or none and nothing to wait for;
\* a call that expects a revision is first in line, and expects this one.
CallSound(call, revision, line, i, c) ==
    /\ call.phase = "waiting" =>
         call.left = Cardinality(Places(line, i, c)) /\ Places(line, i, c) # {}
    /\ call.phase # "waiting" => Places(line, i, c) = {} /\ call.next = {}
    /\ call.exact
    /\ call.next \subseteq {revision}
    /\ call.next # {} => Ahead(line, i, c)

LineSound(k, line, i) == \A c \in Calls : CallSound(k.calls[c], k.revision, line, i, c)

LEMMA SettledCall ==
    ASSUME NEW call \in Call, NEW phase \in {"resolved", "rejected"}
    PROVE  /\ Settled(call, phase) \in Call
           /\ Settled(call, phase).phase = phase /\ Settled(call, phase).next = {}
           /\ Settled(call, phase).exact = call.exact
<1> DEFINE one == [call EXCEPT !.phase = phase]
           two == [one EXCEPT !.left = 0]
<1>1. one \in Call /\ one.phase = phase /\ one.exact = call.exact
  BY DEF Call
<1>2. Settled(call, phase) = [two EXCEPT !.next = {}]
  BY DEF Settled
<1>. HIDE DEF one
<1>3. two \in Call /\ two.phase = phase /\ two.exact = call.exact
  BY <1>1 DEF Call
<1>. HIDE DEF two
<1>. QED  BY <1>2, <1>3 DEF Call

LEMMA CountedCall ==
    ASSUME NEW call \in Call, NEW revision \in Nat
    PROVE  LET counted == Counted(call, revision)
               exact == call.exact /\ call.next \subseteq {revision}
           IN  /\ counted \in Call /\ counted.exact = exact
               /\ call.left = 1 => counted.phase = "resolved" /\ counted.next = {}
               /\ call.left # 1 => /\ counted.phase = call.phase /\ counted.left = call.left - 1
                                   /\ counted.next = {r + 1 : r \in call.next}
<1> DEFINE exact == call.exact /\ call.next \subseteq {revision}
           next == {r + 1 : r \in call.next}
           one == [call EXCEPT !.left = @ - 1]
           two == [one EXCEPT !.next = next]
           counted == [two EXCEPT !.exact = exact]
<1>1. call.left \in Int /\ call.next \in SUBSET Nat /\ exact \in BOOLEAN /\ next \in SUBSET Nat
  BY DEF Call
<1>2. [call EXCEPT !.left = @ - 1, !.next = {r + 1 : r \in @},
                   !.exact = @ /\ call.next \subseteq {revision}] = counted
  OBVIOUS
<1>. HIDE DEF exact, next
<1>3. one \in Call /\ one.phase = call.phase /\ one.left = call.left - 1
  BY <1>1 DEF Call
<1>. HIDE DEF one
<1>4. two \in Call /\ two.phase = call.phase /\ two.left = call.left - 1 /\ two.next = next
  BY <1>1, <1>3 DEF Call
<1>. HIDE DEF two
<1>5. /\ counted \in Call /\ counted.phase = call.phase /\ counted.left = call.left - 1
      /\ counted.next = next /\ counted.exact = exact
  BY <1>1, <1>4 DEF Call
<1>6. Counted(call, revision) = IF counted.left = 0 THEN Settled(counted, "resolved") ELSE counted
  BY <1>2 DEF Counted
<1>. HIDE DEF counted
<1>7. counted.left = 0 <=> call.left = 1
  BY <1>1, <1>5
<1>. QED  BY <1>5, <1>6, <1>7, SettledCall DEF exact, next

LEMMA CommittedType ==
    ASSUME NEW k \in CubeState, NEW e \in Move
    PROVE  /\ Committed(k, e) \in CubeState
           /\ Committed(k, e).queue = k.queue /\ Committed(k, e).active = k.active
           /\ Committed(k, e).revision = k.revision + 1
           /\ \A c \in Calls : Committed(k, e).calls[c] =
                                 IF c = e.call THEN Counted(k.calls[c], k.revision) ELSE k.calls[c]
<1> DEFINE calls == [c \in Calls |-> IF c = e.call THEN Counted(k.calls[c], k.revision) ELSE k.calls[c]]
           one == [k EXCEPT !.revision = @ + 1]
<1>1. k.calls \in [Calls -> Call] /\ k.revision \in Nat
  BY DEF CubeState
<1>2. calls \in [Calls -> Call]
  BY <1>1, CountedCall
<1>3. Committed(k, e) = [one EXCEPT !.calls = calls]
  BY DEF Committed
<1>. HIDE DEF calls
<1>4. /\ one \in CubeState /\ one.revision = k.revision + 1
      /\ one.queue = k.queue /\ one.active = k.active
  BY DEF CubeState
<1>. HIDE DEF one
<1>5. /\ Committed(k, e) \in CubeState
      /\ Committed(k, e).queue = k.queue /\ Committed(k, e).active = k.active
      /\ Committed(k, e).revision = k.revision + 1 /\ Committed(k, e).calls = calls
  BY <1>2, <1>3, <1>4 DEF CubeState
<1>. QED  BY <1>5 DEF calls

\* The rest of the line without its first place.
LEMMA PlacesStep ==
    ASSUME NEW line \in Seq(Move), NEW i \in Nat, i < Len(line), NEW c
    PROVE  /\ line[i + 1].call = c => /\ Places(line, i, c) = Places(line, i + 1, c) \cup {i + 1}
                                      /\ i + 1 \notin Places(line, i + 1, c)
           /\ line[i + 1].call # c => Places(line, i, c) = Places(line, i + 1, c)
<1>1. Len(line) \in Nat
  OBVIOUS
<1>2. (i + 1)..Len(line) = ((i + 1 + 1)..Len(line)) \cup {i + 1} /\ i + 1 \notin (i + 1 + 1)..Len(line)
  BY <1>1
<1>. QED  BY <1>2 DEF Places

LEMMA PlacesFinite ==
    ASSUME NEW line \in Seq(Move), NEW i \in Nat, NEW c
    PROVE  IsFiniteSet(Places(line, i, c)) /\ Cardinality(Places(line, i, c)) \in Nat
<1>1. i + 1 \in Int /\ Len(line) \in Int
  OBVIOUS
<1>2. IsFiniteSet((i + 1)..Len(line))
  BY <1>1, FS_Interval
<1>3. Places(line, i, c) \in SUBSET ((i + 1)..Len(line))
  BY DEF Places
<1>. QED  BY <1>2, <1>3, FS_Subset, FS_CardinalityType

\* The move at the head of the line is committed: it finds the revision that its call
\* expects, and the others expect none.
LEMMA CommitHead ==
    ASSUME NEW k \in CubeState, NEW line \in Seq(Move), NEW i \in Nat, i < Len(line),
           LineSound(k, line, i)
    PROVE  LineSound(Committed(k, line[i + 1]), line, i + 1)
<1> DEFINE e == line[i + 1]
           after == Committed(k, e)
<1>1. e \in Move /\ i + 1 \in Nat /\ k.revision \in Nat /\ k.calls \in [Calls -> Call]
  BY DEF CubeState
<1>2. after.revision = k.revision + 1
  BY <1>1, CommittedType
<1>. SUFFICES ASSUME NEW c \in Calls
              PROVE  CallSound(after.calls[c], k.revision + 1, line, i + 1, c)
  BY <1>2 DEF LineSound
<1> DEFINE call == k.calls[c]
           rest == Places(line, i + 1, c)
<1>3. CallSound(call, k.revision, line, i, c) /\ call \in Call
  BY <1>1 DEF LineSound
<1>4. CASE e.call # c
  <2>1. after.calls[c] = call
    BY <1>1, <1>4, CommittedType
  <2>2. Places(line, i, c) = rest
    BY <1>4, PlacesStep
  <2>3. call.next = {}
    <3>1. SUFFICES ASSUME call.next # {} PROVE FALSE
      OBVIOUS
    <3>2. PICK j \in Places(line, i, c) : \A m \in (i + 1)..j : line[m].call = c
      BY <1>3, <3>1 DEF CallSound, Call, Ahead
    <3>3. i + 1 \in (i + 1)..j
      BY <3>2 DEF Places
    <3>. QED  BY <1>4, <3>2, <3>3
  <2>4. CallSound(call, k.revision, line, i, c)
    BY <1>3
  <2>5. rest = Places(line, i + 1, c)
    OBVIOUS
  <2>. HIDE DEF call, rest, after
  <2>. QED  BY <2>1, <2>2, <2>3, <2>4, <2>5 DEF CallSound
<1>5. CASE e.call = c
  <2> DEFINE counted == Counted(call, k.revision)
  <2>1. after.calls[c] = counted
    BY <1>1, <1>5, CommittedType
  <2>2. /\ Places(line, i, c) = rest \cup {i + 1} /\ i + 1 \notin rest
        /\ IsFiniteSet(rest) /\ Cardinality(rest) \in Nat
    <3>1. IsFiniteSet(rest) /\ Cardinality(rest) \in Nat
      BY <1>1, PlacesFinite
    <3>2. line[i + 1].call = c
      BY <1>5
    <3>. HIDE DEF rest
    <3>3. /\ Places(line, i, c) = Places(line, i + 1, c) \cup {i + 1}
          /\ i + 1 \notin Places(line, i + 1, c)
      BY <3>2, PlacesStep
    <3>. QED  BY <3>1, <3>3 DEF rest
  <2>3. call.phase = "waiting" /\ call.left = Cardinality(rest) + 1 /\ call.exact
    <3>1. Cardinality(rest \cup {i + 1}) = Cardinality(rest) + 1
      BY <2>2, FS_AddElement
    <3>. QED  BY <1>3, <2>2, <3>1 DEF CallSound
  <2>4. call.next \subseteq {k.revision}
    BY <1>3 DEF CallSound
  <2>5. /\ counted.exact
        /\ call.left = 1 => counted.phase = "resolved" /\ counted.next = {}
        /\ call.left # 1 => /\ counted.phase = "waiting" /\ counted.left = call.left - 1
                            /\ counted.next = {r + 1 : r \in call.next}
    BY <1>1, <1>3, <2>3, <2>4, CountedCall
  <2>6. {r + 1 : r \in call.next} \subseteq {k.revision + 1}
    BY <2>4
  <2>7. call.next # {} => Ahead(line, i + 1, c)
    <3>1. SUFFICES ASSUME call.next # {}, NEW j \in rest, NEW m \in (i + 1 + 1)..j
                   PROVE  line[m].call = c
      BY DEF Ahead
    <3>2. j \in Places(line, i, c) /\ m \in (i + 1)..j
      BY <2>2, <3>1 DEF Places
    <3>. QED  BY <1>3, <3>1, <3>2 DEF CallSound, Ahead
  <2>8. rest = {} <=> Cardinality(rest) = 0
    BY <2>2, FS_EmptySet
  <2>9. rest = Places(line, i + 1, c)
    OBVIOUS
  <2>. HIDE DEF counted, rest, call, after
  <2>10. CASE call.left = 1
    BY <2>1, <2>2, <2>3, <2>5, <2>8, <2>9, <2>10 DEF CallSound
  <2>11. CASE call.left # 1
    <3>1. rest # {} /\ counted.left = Cardinality(rest) /\ counted.phase = "waiting"
      BY <2>2, <2>3, <2>5, <2>8, <2>11
    <3>2. counted.next \subseteq {k.revision + 1} /\ (counted.next # {} => call.next # {})
      BY <2>5, <2>6, <2>11
    <3>. QED  BY <2>1, <2>5, <2>7, <2>9, <3>1, <3>2 DEF CallSound
  <2>. QED  BY <2>10, <2>11
<1>. QED  BY <1>4, <1>5

\* commitMove of the places of a line one after the other.
LEMMA CommitsSound ==
    ASSUME NEW k \in CubeState, NEW line \in Seq(Move), LineSound(k, line, 0),
           NEW entries \in Seq(Move), Len(entries) <= Len(line),
           \A j \in 1..Len(entries) : entries[j] = line[j]
    PROVE  LET after == CommitAll(k, entries)
           IN  /\ after \in CubeState /\ LineSound(after, line, Len(entries))
               /\ after.queue = k.queue /\ after.active = k.active
<1> DEFINE n == Len(entries)
           step == [p \in CubeState \X (1..n) |-> Committed(p[1], entries[p[2]])]
           Follows(g) == g = [i \in 0..n |-> IF i = 0 THEN k ELSE Committed(g[i - 1], entries[i])]
           after == CHOOSE g : Follows(g)
<1>0. n \in Nat /\ Len(line) \in Nat /\ n <= Len(line) /\ \A i \in 1..n : entries[i] \in Move
  OBVIOUS
<1>. HIDE DEF n
<1>1. step \in [CubeState \X (1..n) -> CubeState]
  BY <1>0, CommittedType
<1>2. \A p \in CubeState, i \in 1..n : step[<<p, i>>] = Committed(p, entries[i])
  OBVIOUS
<1>. HIDE DEF step
<1>3. PICK g : g \in [0..n -> CubeState] /\ g[0] = k /\ \A i \in 1..n : g[i] = step[<<g[i - 1], i>>]
  <2>1. \E g : Runs(g, CubeState, k, n, step)
    BY <1>0, <1>1, Recursion
  <2>. QED  BY <2>1 DEF Runs
<1>4. Follows(g)
  <2>1. \A i \in 1..n : i - 1 \in 0..n /\ g[i - 1] \in CubeState
    BY <1>0, <1>3
  <2>2. \A i \in 0..n : g[i] = IF i = 0 THEN k ELSE Committed(g[i - 1], entries[i])
    <3>1. ASSUME NEW i \in 1..n PROVE g[i] = Committed(g[i - 1], entries[i])
      <4>1. g[i] = step[<<g[i - 1], i>>]
        BY <1>3
      <4>. QED  BY <1>2, <2>1, <4>1
    <3>. QED  BY <1>0, <1>3, <3>1
  <2>3. g = [i \in 0..n |-> g[i]]
    BY <1>3
  <2>. QED  BY <2>2, <2>3
<1>5. Follows(after)
  BY <1>4
<1>6. CommitAll(k, entries) = after[n]
  BY DEF CommitAll, n
<1>. HIDE DEF after
<1>7. after[0] = k /\ \A i \in 1..n : after[i] = Committed(after[i - 1], entries[i])
  BY <1>0, <1>5
<1> DEFINE Holds(i) == /\ after[i] \in CubeState /\ LineSound(after[i], line, i)
                       /\ after[i].queue = k.queue /\ after[i].active = k.active
<1>8. Holds(0)
  BY <1>7
<1>9. ASSUME NEW i \in 1..n, Holds(i - 1) PROVE Holds(i)
  <2>1. i - 1 \in Nat /\ i - 1 < Len(line) /\ (i - 1) + 1 = i /\ entries[i] = line[i] /\ entries[i] \in Move
    BY <1>0 DEF n
  <2> DEFINE before == after[i - 1]
             now == Committed(before, line[i])
  <2>2. before \in CubeState /\ LineSound(before, line, i - 1)
    BY <1>9
  <2>3. after[i] = now
    BY <1>7, <2>1
  <2>4. LineSound(now, line, i)
    <3> DEFINE p == i - 1
    <3>1. p \in Nat /\ p < Len(line) /\ p + 1 = i /\ LineSound(before, line, p)
      BY <2>1, <2>2
    <3>. HIDE DEF p, before
    <3>2. LineSound(Committed(before, line[p + 1]), line, p + 1)
      BY <2>2, <3>1, CommitHead
    <3>. QED  BY <3>1, <3>2
  <2>5. now \in CubeState /\ now.queue = before.queue /\ now.active = before.active
    BY <2>1, <2>2, CommittedType
  <2>6. before.queue = k.queue /\ before.active = k.active
    BY <1>9
  <2>. HIDE DEF now, before
  <2>. QED  BY <2>3, <2>4, <2>5, <2>6
<1>. HIDE DEF Holds
<1>10. Holds(n)
  <2> DEFINE O == {i \in 0..n : ~Holds(i)}
  <2>. SUFFICES ASSUME O # {} PROVE FALSE
    BY <1>0
  <2>1. O \in SUBSET Nat
    OBVIOUS
  <2>2. PICK m \in O : \A x \in O : m <= x
    <3>. HIDE DEF O
    <3>. QED  BY <2>1, Smallest
  <2>3. m \in 1..n /\ m - 1 \in 0..n /\ m - 1 \notin O
    BY <1>0, <1>8, <2>2
  <2>. QED  BY <1>9, <2>2, <2>3
<1>. QED  BY <1>6, <1>10 DEF Holds, n

\* A line and the rest of it as a line of its own.
LEMMA RestPlaces ==
    ASSUME NEW line \in Seq(Move), NEW i \in Nat, i <= Len(line),
           NEW rest \in Seq(Move), Len(rest) = Len(line) - i,
           \A j \in 1..Len(rest) : rest[j] = line[i + j], NEW c
    PROVE  /\ Cardinality(Places(line, i, c)) = Cardinality(Places(rest, 0, c))
           /\ Places(line, i, c) = {} <=> Places(rest, 0, c) = {}
           /\ Ahead(line, i, c) <=> Ahead(rest, 0, c)
<1> DEFINE old == Places(line, i, c)
           new == Places(rest, 0, c)
           shift == [j \in new |-> i + j]
<1>0. Len(rest) \in Nat /\ Len(line) \in Nat
  OBVIOUS
<1>1. /\ \A j \in new : j \in Nat /\ i + j \in old
      /\ \A j \in old : j - i \in new /\ i + (j - i) = j
  <2>1. ASSUME NEW j \in new PROVE j \in Nat /\ i + j \in old
    <3>1. j \in 1..Len(rest) /\ rest[j].call = c
      BY DEF Places
    <3>2. i + j \in (i + 1)..Len(line) /\ rest[j] = line[i + j]
      BY <1>0, <3>1
    <3>. QED  BY <3>1, <3>2 DEF Places
  <2>2. ASSUME NEW j \in old PROVE j - i \in new /\ i + (j - i) = j
    <3>1. j \in (i + 1)..Len(line) /\ line[j].call = c
      BY DEF Places
    <3>2. j - i \in 1..Len(rest) /\ i + (j - i) = j
      BY <1>0, <3>1
    <3>3. rest[j - i] = line[j]
      BY <3>2
    <3>. QED  BY <3>1, <3>2, <3>3 DEF Places
  <2>. QED  BY <2>1, <2>2
<1>2. shift \in Bijection(new, old)
  <2>1. shift \in [new -> old]
    BY <1>1
  <2>2. \A a, b \in new : shift[a] = shift[b] => a = b
    BY <1>1
  <2>3. \A j \in old : \E a \in new : shift[a] = j
    BY <1>1
  <2>. HIDE DEF shift, new, old
  <2>. QED  BY <2>1, <2>2, <2>3 DEF Bijection, Injection, Surjection, IsInjective
<1>3. Cardinality(old) = Cardinality(new)
  <2>1. IsFiniteSet(new)
    BY PlacesFinite
  <2>2. ExistsBijection(new, old)
    BY <1>2 DEF ExistsBijection
  <2>. HIDE DEF new, old
  <2>. QED  BY <2>1, <2>2, FS_Bijection
<1>4. old = {} <=> new = {}
  BY <1>1
<1>5. ASSUME Ahead(line, i, c) PROVE Ahead(rest, 0, c)
  <2>1. SUFFICES ASSUME NEW j \in new, NEW m \in 1..j PROVE rest[m].call = c
    BY DEF Ahead
  <2>2. i + j \in old /\ i + m \in (i + 1)..(i + j) /\ m \in 1..Len(rest)
    BY <1>0, <1>1 DEF Places
  <2>3. line[i + m].call = c
    BY <1>5, <2>2 DEF Ahead
  <2>. QED  BY <2>2, <2>3
<1>6. ASSUME Ahead(rest, 0, c) PROVE Ahead(line, i, c)
  <2>1. SUFFICES ASSUME NEW j \in old, NEW m \in (i + 1)..j PROVE line[m].call = c
    BY DEF Ahead
  <2>2. j - i \in new /\ m - i \in (0 + 1)..(j - i) /\ m - i \in 1..Len(rest) /\ i + (m - i) = m
    BY <1>0, <1>1 DEF Places
  <2>3. rest[m - i].call = c
    BY <1>6, <2>2 DEF Ahead
  <2>. QED  BY <2>2, <2>3
<1>. QED  BY <1>3, <1>4, <1>5, <1>6

LEMMA RestOfLine ==
    ASSUME NEW k, NEW line \in Seq(Move), NEW i \in Nat, i <= Len(line),
           NEW rest \in Seq(Move), Len(rest) = Len(line) - i,
           \A j \in 1..Len(rest) : rest[j] = line[i + j],
           LineSound(k, line, i)
    PROVE  LineSound(k, rest, 0)
<1>. SUFFICES ASSUME NEW c \in Calls PROVE CallSound(k.calls[c], k.revision, rest, 0, c)
  BY DEF LineSound
<1>1. CallSound(k.calls[c], k.revision, line, i, c)
  BY DEF LineSound
<1>2. /\ Cardinality(Places(line, i, c)) = Cardinality(Places(rest, 0, c))
      /\ Places(line, i, c) = {} <=> Places(rest, 0, c) = {}
      /\ Ahead(line, i, c) => Ahead(rest, 0, c)
  BY RestPlaces
<1>. QED  BY <1>1, <1>2 DEF CallSound

-----------------------------------------------------------------------------
(* The line of moves. *)

\* The moves still to come, the one under way first.
Line(k) == IF k.active = NoEntry THEN k.queue ELSE <<k.active>> \o k.queue

Lined(k) ==
    /\ k \in CubeState
    /\ LineSound(k, Line(k), 0)
    /\ k.active = NoEntry => k.queue = <<>>

LEMMA NoEntryIsNone == NoEntry \notin Move
  BY CubeAssumption DEF NoEntry, Move, Nobody, CubeAssumption

LEMMA LineType ==
    ASSUME NEW k \in CubeState
    PROVE  /\ Line(k) \in Seq(Move)
           /\ k.active = NoEntry => Line(k) = k.queue
           /\ k.active # NoEntry =>
                /\ k.active \in Move /\ Len(Line(k)) = Len(k.queue) + 1 /\ Line(k)[1] = k.active
                /\ \A j \in 1..Len(k.queue) : Line(k)[j + 1] = k.queue[j]
<1>1. k.queue \in Seq(Move) /\ k.active \in Move \cup {NoEntry}
  BY DEF CubeState
<1>. QED  BY <1>1 DEF Line

\* What the line is asked for is about the calls and the revision.
LEMMA SameCalls ==
    ASSUME NEW k, NEW q, k.calls = q.calls, k.revision = q.revision, NEW line, NEW i
    PROVE  LineSound(k, line, i) <=> LineSound(q, line, i)
  BY DEF LineSound

\* A new active move and a new queue.
Arranged(k, active, queue) == [k EXCEPT !.active = active, !.queue = queue]

IsArranged(q, k, active, queue) ==
    /\ q \in CubeState /\ q.active = active /\ q.queue = queue
    /\ q.calls = k.calls /\ q.revision = k.revision

LEMMA Rearranged ==
    ASSUME NEW k \in CubeState, NEW active \in Move \cup {NoEntry}, NEW queue \in Seq(Move)
    PROVE  IsArranged(Arranged(k, active, queue), k, active, queue)
<1> DEFINE one == [k EXCEPT !.active = active]
<1>1. one \in CubeState /\ one.active = active /\ one.calls = k.calls /\ one.revision = k.revision
  BY DEF CubeState
<1>. HIDE DEF one
<1>2. LET q == [one EXCEPT !.queue = queue]
      IN  /\ q \in CubeState /\ q.active = active /\ q.queue = queue
          /\ q.calls = k.calls /\ q.revision = k.revision
  BY <1>1 DEF CubeState
<1>. QED  BY <1>2 DEF one, Arranged, IsArranged

LEMMA StartNextLined ==
    ASSUME NEW k \in CubeState, k.active = NoEntry, LineSound(k, k.queue, 0)
    PROVE  Lined(StartNext(k))
<1> DEFINE queue == k.queue
           glides == {i \in DOMAIN queue : queue[i].animated}
           first == IF glides = {} THEN Len(queue) + 1 ELSE CHOOSE i \in glides : \A j \in glides : i <= j
           entries == SubSeq(queue, 1, first - 1)
           after == CommitAll(k, entries)
           active == IF glides = {} THEN NoEntry ELSE queue[first]
           left == SubSeq(queue, first + 1, Len(queue))
           result == Arranged(after, active, left)
<1>1. queue \in Seq(Move) /\ Len(queue) \in Nat
  BY DEF CubeState
<1>2. StartNext(k) = result
  BY DEF StartNext, Arranged
<1>3. /\ first \in 1..(Len(queue) + 1)
      /\ glides = {} => first = Len(queue) + 1
      /\ glides # {} => first \in 1..Len(queue)
  <2>1. CASE glides = {}
    BY <1>1, <2>1
  <2>2. CASE glides # {}
    <3>1. glides \subseteq 1..Len(queue) /\ glides \in SUBSET Nat
      BY <1>1
    <3>2. \E i \in glides : \A j \in glides : i <= j
      <4>. HIDE DEF glides
      <4>. QED  BY <2>2, <3>1, Smallest
    <3>3. first \in glides
      BY <2>2, <3>2
    <3>4. first \in 1..Len(queue)
      <4>. HIDE DEF first, glides
      <4>. QED  BY <3>1, <3>3
    <3>. HIDE DEF first
    <3>. QED  BY <1>1, <2>2, <3>4
  <2>. QED  BY <2>1, <2>2
<1>. HIDE DEF first, glides
<1>4. /\ entries \in Seq(Move) /\ Len(entries) = first - 1 /\ Len(entries) <= Len(queue)
      /\ \A j \in 1..Len(entries) : entries[j] = queue[j]
  BY <1>1, <1>3
<1>5. LineSound(k, queue, 0)
  OBVIOUS
<1>. HIDE DEF entries
<1>6. after \in CubeState /\ LineSound(after, queue, first - 1)
  <2>. HIDE DEF queue
  <2>. QED  BY <1>1, <1>4, <1>5, CommitsSound
<1>7. /\ left \in Seq(Move) /\ Len(left) = IF glides = {} THEN 0 ELSE Len(queue) - first
      /\ \A j \in 1..Len(left) : left[j] = queue[first + j]
  BY <1>1, <1>3
<1>8. active \in Move \cup {NoEntry} /\ (active = NoEntry <=> glides = {})
  BY <1>1, <1>3, NoEntryIsNone
<1>. HIDE DEF left, after
<1>9. /\ result \in CubeState /\ result.active = active /\ result.queue = left
      /\ result.calls = after.calls /\ result.revision = after.revision
  <2>1. after \in CubeState /\ active \in Move \cup {NoEntry} /\ left \in Seq(Move)
    BY <1>6, <1>7, <1>8
  <2>. HIDE DEF active
  <2>2. IsArranged(Arranged(after, active, left), after, active, left)
    BY <2>1, Rearranged
  <2>. QED  BY <2>2 DEF IsArranged
<1>10. LineSound(result, queue, first - 1)
  <2>. HIDE DEF result, queue
  <2>. QED  BY <1>6, <1>9, SameCalls
<1>. HIDE DEF result
<1> DEFINE line == Line(result)
<1>11. /\ line \in Seq(Move) /\ Len(line) = Len(queue) - (first - 1)
       /\ \A j \in 1..Len(line) : line[j] = queue[(first - 1) + j]
  <2>1. line \in Seq(Move) /\ Len(line) \in Nat
    BY <1>9, LineType
  <2>2. CASE glides = {}
    <3>1. line = left
      BY <1>8, <1>9, <2>2, LineType
    <3>. QED  BY <1>1, <1>3, <1>7, <2>2, <3>1
  <2>3. CASE glides # {}
    <3>1. /\ Len(line) = Len(left) + 1 /\ line[1] = queue[first]
          /\ \A j \in 1..Len(left) : line[j + 1] = left[j]
      BY <1>8, <1>9, <2>3, LineType
    <3>2. Len(line) = Len(queue) - (first - 1)
      BY <1>1, <1>3, <1>7, <2>3, <3>1
    <3>3. ASSUME NEW j \in 1..Len(line) PROVE line[j] = queue[(first - 1) + j]
      <4>1. CASE j = 1
        BY <1>3, <3>1, <4>1
      <4>2. CASE j # 1
        <5>1. j - 1 \in 1..Len(left) /\ (j - 1) + 1 = j
          BY <2>1, <3>1, <4>2, <1>7
        <5>2. line[j] = left[j - 1] /\ left[j - 1] = queue[first + (j - 1)]
          BY <1>7, <3>1, <5>1
        <5>3. first + (j - 1) = (first - 1) + j
          BY <1>1, <1>3, <2>1
        <5>. QED  BY <5>2, <5>3
      <4>. QED  BY <4>1, <4>2
    <3>. QED  BY <2>1, <3>2, <3>3
  <2>. QED  BY <2>2, <2>3
<1>12. LineSound(result, line, 0)
  <2>1. first - 1 \in Nat /\ first - 1 <= Len(queue)
    BY <1>1, <1>3
  <2>. HIDE DEF line, queue
  <2>. QED  BY <1>1, <1>10, <1>11, <2>1, RestOfLine
<1>13. result.active = NoEntry => result.queue = <<>>
  BY <1>1, <1>7, <1>8, <1>9
<1>. QED  BY <1>2, <1>9, <1>12, <1>13 DEF Lined

-----------------------------------------------------------------------------
(* The line as the active move and the queue. *)

\* The moves of a call that are to come.
Count(k, c) == Cardinality(Places(k.queue, 0, c)) + IF k.active.call = c THEN 1 ELSE 0

\* A call that is ahead in the queue, and in the line.
First(k, c) ==
    /\ Ahead(k.queue, 0, c)
    /\ k.active # NoEntry /\ Places(k.queue, 0, c) # {} => k.active.call = c

Placed(k, c) ==
    LET call == k.calls[c]
    IN  /\ call.phase = "waiting" => call.left = Count(k, c) /\ Count(k, c) # 0
        /\ call.phase # "waiting" => Count(k, c) = 0 /\ call.next = {}
        /\ call.exact
        /\ call.next \subseteq {k.revision}
        /\ call.next # {} => First(k, c)

AllPlaced(k) == \A c \in Calls : Placed(k, c)

LEMMA CountType ==
    ASSUME NEW k \in CubeState, NEW c \in Calls
    PROVE  /\ Count(k, c) \in Nat
           /\ Count(k, c) = 0 <=> Places(k.queue, 0, c) = {} /\ k.active.call # c
<1>1. k.queue \in Seq(Move) /\ 0 \in Nat
  BY DEF CubeState
<1>2. IsFiniteSet(Places(k.queue, 0, c)) /\ Cardinality(Places(k.queue, 0, c)) \in Nat
  BY <1>1, PlacesFinite
<1>3. Cardinality(Places(k.queue, 0, c)) = 0 <=> Places(k.queue, 0, c) = {}
  BY <1>2, FS_EmptySet
<1>. QED  BY <1>2, <1>3 DEF Count

LEMMA LinePlaces ==
    ASSUME NEW k \in CubeState, NEW c \in Calls
    PROVE  /\ Cardinality(Places(Line(k), 0, c)) = Count(k, c)
           /\ Places(Line(k), 0, c) = {} <=> Count(k, c) = 0
           /\ Ahead(Line(k), 0, c) <=> First(k, c)
<1> DEFINE line == Line(k)
           queue == k.queue
<1>1. line \in Seq(Move) /\ queue \in Seq(Move) /\ Len(line) \in Nat /\ Len(queue) \in Nat
  BY LineType DEF CubeState
<1>2. /\ Count(k, c) \in Nat
      /\ Count(k, c) = 0 <=> Places(queue, 0, c) = {} /\ k.active.call # c
  BY CountType
<1>3. CASE k.active = NoEntry
  <2>1. line = queue /\ k.active.call # c
    BY <1>3, CubeAssumption DEF Line, NoEntry, CubeAssumption
  <2>2. Cardinality(Places(queue, 0, c)) \in Nat
    BY <1>1, PlacesFinite
  <2>. QED  BY <1>2, <1>3, <2>1, <2>2 DEF Count, First
<1>4. CASE k.active # NoEntry
  <2>1. /\ Len(line) = Len(queue) + 1 /\ line[1] = k.active
        /\ \A j \in 1..Len(queue) : line[j + 1] = queue[j]
    BY <1>4, LineType
  <2>2. /\ Cardinality(Places(line, 1, c)) = Cardinality(Places(queue, 0, c))
        /\ Places(line, 1, c) = {} <=> Places(queue, 0, c) = {}
        /\ Ahead(line, 1, c) <=> Ahead(queue, 0, c)
    <3>1. /\ 1 \in Nat /\ 1 <= Len(line) /\ Len(queue) = Len(line) - 1
          /\ \A j \in 1..Len(queue) : queue[j] = line[1 + j]
      <4>1. \A j \in 1..Len(queue) : 1 + j = j + 1
        OBVIOUS
      <4>. HIDE DEF line, queue
      <4>. QED  BY <1>1, <2>1, <4>1
    <3>. HIDE DEF line, queue
    <3>. QED  BY <1>1, <3>1, RestPlaces
  <2>3. /\ line[1].call = c => /\ Places(line, 0, c) = Places(line, 1, c) \cup {1}
                               /\ 1 \notin Places(line, 1, c)
        /\ line[1].call # c => Places(line, 0, c) = Places(line, 1, c)
    <3>1. 0 \in Nat /\ 0 < Len(line) /\ 0 + 1 = 1
      BY <1>1, <2>1
    <3>. HIDE DEF line
    <3>. QED  BY <1>1, <3>1, PlacesStep
  <2>4. IsFiniteSet(Places(line, 1, c)) /\ Cardinality(Places(line, 1, c)) \in Nat
    BY <1>1, PlacesFinite
  <2>5. Cardinality(Places(line, 0, c)) = Count(k, c)
    <3>1. CASE k.active.call = c
      <4>1. Cardinality(Places(line, 1, c) \cup {1}) = Cardinality(Places(line, 1, c)) + 1
        BY <2>1, <2>3, <2>4, <3>1, FS_AddElement
      <4>. QED  BY <2>1, <2>2, <2>3, <3>1, <4>1 DEF Count
    <3>2. CASE k.active.call # c
      BY <2>1, <2>2, <2>3, <2>4, <3>2 DEF Count
    <3>. QED  BY <3>1, <3>2
  <2>6. Places(line, 0, c) = {} <=> Count(k, c) = 0
    BY <1>2, <2>1, <2>2, <2>3
  <2>7. Ahead(line, 0, c) <=> First(k, c)
    <3>1. ASSUME Ahead(line, 0, c) PROVE First(k, c)
      <4>1. ASSUME NEW j \in Places(line, 1, c), NEW m \in 1..j PROVE line[m].call = c
        <5>1. j \in Places(line, 0, c)
          BY <2>3
        <5>. QED  BY <3>1, <5>1 DEF Ahead
      <4>2. Ahead(line, 1, c)
        <5>1. \A j \in Places(line, 1, c) : \A m \in 2..j : m \in 1..j
          OBVIOUS
        <5>. QED  BY <4>1, <5>1 DEF Ahead
      <4>3. Places(line, 1, c) # {} => line[1].call = c
        <5>1. \A j \in Places(line, 1, c) : 1 \in 1..j
          BY DEF Places
        <5>. QED  BY <4>1, <5>1
      <4>. QED  BY <2>1, <2>2, <4>2, <4>3 DEF First
    <3>2. ASSUME First(k, c) PROVE Ahead(line, 0, c)
      <4>1. Ahead(line, 1, c) /\ (Places(line, 1, c) # {} => line[1].call = c)
        BY <1>4, <2>1, <2>2, <3>2 DEF First
      <4>2. SUFFICES ASSUME NEW j \in Places(line, 0, c), NEW m \in 1..j PROVE line[m].call = c
        BY DEF Ahead
      <4>3. CASE m = 1
        <5>1. CASE j = 1
          BY <4>3, <5>1 DEF Places
        <5>2. CASE j # 1
          <6>1. j \in Places(line, 1, c)
            BY <2>3, <5>2
          <6>. QED  BY <4>1, <4>3, <6>1
        <5>. QED  BY <5>1, <5>2
      <4>4. CASE m # 1
        <5>1. m \in 2..j /\ j # 1 /\ j \in Nat
          BY <4>4 DEF Places
        <5>2. j \in Places(line, 1, c)
          BY <2>3, <5>1
        <5>. QED  BY <4>1, <5>1, <5>2 DEF Ahead
      <4>. QED  BY <4>3, <4>4
    <3>. QED  BY <3>1, <3>2
  <2>. QED  BY <2>5, <2>6, <2>7
<1>. QED  BY <1>3, <1>4

LEMMA PlacedIsSound ==
    ASSUME NEW k \in CubeState
    PROVE  AllPlaced(k) <=> LineSound(k, Line(k), 0)
<1>1. ASSUME NEW c \in Calls
      PROVE  Placed(k, c) <=> CallSound(k.calls[c], k.revision, Line(k), 0, c)
  <2>1. /\ Cardinality(Places(Line(k), 0, c)) = Count(k, c)
        /\ Places(Line(k), 0, c) = {} <=> Count(k, c) = 0
        /\ Ahead(Line(k), 0, c) <=> First(k, c)
    BY LinePlaces
  <2>. QED  BY <2>1 DEF Placed, CallSound
<1>. QED  BY <1>1 DEF AllPlaced, LineSound

\* The calls are placed, with the queue that starts by itself.
LEMMA Started ==
    ASSUME NEW k \in CubeState, k.active = NoEntry, AllPlaced(k)
    PROVE  Lined(StartNext(k))
<1>1. LineSound(k, Line(k), 0) /\ Line(k) = k.queue
  BY PlacedIsSound, LineType
<1>. QED  BY <1>1, StartNextLined

LEMMA LinedIs ==
    ASSUME NEW k
    PROVE  Lined(k) <=> /\ k \in CubeState /\ AllPlaced(k)
                        /\ k.active = NoEntry => k.queue = <<>>
  BY PlacedIsSound DEF Lined

-----------------------------------------------------------------------------
(* The queue without the moves of a call. *)

\* What has been kept of the first n of the queue.
KeptOf(queue, c, kept, n) ==
    /\ kept \in Seq(Move) /\ Len(kept) <= n
    /\ \A j \in 1..Len(kept) : kept[j].call # c /\ \E m \in 1..n : kept[j] = queue[m]
    /\ \A d \in Calls \ {c} :
        /\ Cardinality(Places(kept, 0, d)) = Cardinality({j \in 1..n : queue[j].call = d})
        /\ Places(kept, 0, d) = {} <=> {j \in 1..n : queue[j].call = d} = {}
        /\ Ahead(queue, 0, d) => Ahead(kept, 0, d)

LEMMA KeptNext ==
    ASSUME NEW queue \in Seq(Move), NEW c \in Calls, NEW n \in 1..Len(queue), NEW kept,
           KeptOf(queue, c, kept, n - 1)
    PROVE  KeptOf(queue, c, IF queue[n].call = c THEN kept ELSE Append(kept, queue[n]), n)
<1> DEFINE e == queue[n]
           Upto(m, d) == {j \in 1..m : queue[j].call = d}
           old == n - 1
<1>0. /\ kept \in Seq(Move) /\ Len(kept) \in Nat /\ Len(kept) <= old /\ e \in Move
      /\ n \in Nat /\ old \in Nat /\ n \in 1..Len(queue) /\ n = old + 1
  BY DEF KeptOf
<1>1. \A d : /\ e.call = d => Upto(n, d) = Upto(old, d) \cup {n}
             /\ e.call # d => Upto(n, d) = Upto(old, d)
             /\ n \notin Upto(old, d)
  BY <1>0
<1>2. ASSUME NEW d \in Calls \ {c}
      PROVE  /\ Cardinality(Places(kept, 0, d)) = Cardinality(Upto(old, d))
             /\ Places(kept, 0, d) = {} <=> Upto(old, d) = {}
             /\ Ahead(queue, 0, d) => Ahead(kept, 0, d)
  BY DEF KeptOf
<1>3. \A j \in 1..Len(kept) : kept[j].call # c /\ \E m \in 1..old : kept[j] = queue[m]
  BY DEF KeptOf
<1>4. CASE e.call = c
  <2>1. Len(kept) <= n
    BY <1>0
  <2>2. \A j \in 1..Len(kept) : kept[j].call # c /\ \E m \in 1..n : kept[j] = queue[m]
    BY <1>0, <1>3
  <2>3. \A d \in Calls \ {c} : Upto(n, d) = Upto(old, d)
    BY <1>1, <1>4
  <2>4. ASSUME NEW d \in Calls \ {c}
        PROVE  /\ Cardinality(Places(kept, 0, d)) = Cardinality(Upto(n, d))
               /\ Places(kept, 0, d) = {} <=> Upto(n, d) = {}
               /\ Ahead(queue, 0, d) => Ahead(kept, 0, d)
    <3>. HIDE DEF Upto
    <3>. QED  BY <1>2, <2>3
  <2>. QED  BY <1>0, <1>4, <2>1, <2>2, <2>4 DEF KeptOf
<1>5. CASE e.call # c
  <2> DEFINE now == Append(kept, e)
             last == Len(kept) + 1
  <2>1. /\ now \in Seq(Move) /\ Len(now) = last /\ now[last] = e
        /\ \A j \in 1..Len(kept) : now[j] = kept[j]
    BY <1>0
  <2>. HIDE DEF now
  <2>2. Len(now) <= n
    BY <1>0, <2>1
  <2>3. ASSUME NEW j \in 1..Len(now) PROVE now[j].call # c /\ \E m \in 1..n : now[j] = queue[m]
    <3>1. CASE j = last
      BY <1>0, <1>5, <2>1, <3>1
    <3>2. CASE j # last
      <4>1. j \in 1..Len(kept) /\ now[j] = kept[j]
        BY <1>0, <2>1, <3>2
      <4>. QED  BY <1>0, <1>3, <4>1
    <3>. QED  BY <3>1, <3>2
  <2>4. ASSUME NEW d \in Calls \ {c}
        PROVE  /\ Cardinality(Places(now, 0, d)) = Cardinality(Upto(n, d))
               /\ Places(now, 0, d) = {} <=> Upto(n, d) = {}
               /\ Ahead(queue, 0, d) => Ahead(now, 0, d)
    <3>1. /\ e.call = d => Places(now, 0, d) = Places(kept, 0, d) \cup {last}
          /\ e.call # d => Places(now, 0, d) = Places(kept, 0, d)
          /\ last \notin Places(kept, 0, d)
      <4>1. 1..Len(now) = (1..Len(kept)) \cup {last} /\ last \notin 1..Len(kept)
        BY <1>0, <2>1
      <4>2. 0 + 1 = 1
        OBVIOUS
      <4>. QED  BY <2>1, <4>1, <4>2 DEF Places
    <3>2. IsFiniteSet(Places(kept, 0, d)) /\ Cardinality(Places(kept, 0, d)) \in Nat
      BY <1>0, PlacesFinite
    <3>3. IsFiniteSet(Upto(old, d))
      <4>1. IsFiniteSet(1..old) /\ Upto(old, d) \in SUBSET (1..old)
        BY <1>0, FS_Interval
      <4>. QED  BY <4>1, FS_Subset
    <3>4. /\ e.call = d => Upto(n, d) = Upto(old, d) \cup {n}
          /\ e.call # d => Upto(n, d) = Upto(old, d)
          /\ n \notin Upto(old, d)
      BY <1>1
    <3>. HIDE DEF Upto
    <3>5. /\ Cardinality(Places(now, 0, d)) = Cardinality(Upto(n, d))
          /\ Places(now, 0, d) = {} <=> Upto(n, d) = {}
      <4>1. CASE e.call = d
        <5>1. Cardinality(Places(kept, 0, d) \cup {last}) = Cardinality(Places(kept, 0, d)) + 1
          BY <3>1, <3>2, FS_AddElement
        <5>2. Cardinality(Upto(old, d) \cup {n}) = Cardinality(Upto(old, d)) + 1
          BY <3>3, <3>4, FS_AddElement
        <5>. QED  BY <1>2, <3>1, <3>4, <4>1, <5>1, <5>2
      <4>2. CASE e.call # d
        BY <1>2, <3>1, <3>4, <4>2
      <4>. QED  BY <4>1, <4>2
    <3>6. ASSUME Ahead(queue, 0, d) PROVE Ahead(now, 0, d)
      <4>1. Ahead(kept, 0, d)
        BY <1>2, <3>6
      <4>2. SUFFICES ASSUME NEW j \in Places(now, 0, d), NEW m \in 1..j PROVE now[m].call = d
        BY DEF Ahead
      <4>3. CASE j \in Places(kept, 0, d)
        <5>1. kept[m].call = d /\ m \in 1..Len(kept)
          BY <4>1, <4>3, <1>0 DEF Ahead, Places
        <5>. QED  BY <2>1, <5>1
      <4>4. CASE j \notin Places(kept, 0, d)
        <5>1. j = last /\ e.call = d
          BY <3>1, <4>4
        <5>2. \A i \in 1..n : queue[i].call = d
          <6>1. n \in Places(queue, 0, d)
            BY <1>0, <5>1 DEF Places
          <6>. QED  BY <3>6, <6>1 DEF Ahead
        <5>3. CASE m = last
          BY <2>1, <5>1, <5>3
        <5>4. CASE m # last
          <6>1. m \in 1..Len(kept) /\ now[m] = kept[m]
            BY <1>0, <2>1, <5>1, <5>4
          <6>2. PICK i \in 1..old : kept[m] = queue[i]
            BY <1>3, <6>1
          <6>3. i \in 1..n
            BY <1>0
          <6>. QED  BY <5>2, <6>1, <6>2, <6>3
        <5>. QED  BY <5>3, <5>4
      <4>. QED  BY <4>3, <4>4
    <3>. QED  BY <3>5, <3>6
  <2>5. KeptOf(queue, c, now, n)
    BY <2>1, <2>2, <2>3, <2>4 DEF KeptOf
  <2>. QED  BY <1>5, <2>5 DEF now
<1>. QED  BY <1>4, <1>5

LEMMA WithoutKeeps ==
    ASSUME NEW queue \in Seq(Move), NEW c \in Calls
    PROVE  KeptOf(queue, c, Without(queue, c), Len(queue))
<1> DEFINE n == Len(queue)
           Next_(kept, i) == IF queue[i].call = c THEN kept ELSE Append(kept, queue[i])
           step == [p \in Seq(Move) \X (1..n) |-> Next_(p[1], p[2])]
           Follows(g) == g = [i \in 0..n |-> IF i = 0 THEN <<>>
                                             ELSE IF queue[i].call = c THEN g[i - 1]
                                             ELSE Append(g[i - 1], queue[i])]
           kept == CHOOSE g : Follows(g)
<1>0. n \in Nat /\ \A i \in 1..n : queue[i] \in Move
  OBVIOUS
<1>. HIDE DEF n
<1>1. step \in [Seq(Move) \X (1..n) -> Seq(Move)]
  <2>1. \A p \in Seq(Move) \X (1..n) : Next_(p[1], p[2]) \in Seq(Move)
    BY <1>0
  <2>. QED  BY <2>1
<1>2. \A q \in Seq(Move), i \in 1..n : step[<<q, i>>] = Next_(q, i)
  OBVIOUS
<1>. HIDE DEF step
<1>3. PICK g : g \in [0..n -> Seq(Move)] /\ g[0] = <<>> /\ \A i \in 1..n : g[i] = step[<<g[i - 1], i>>]
  <2>0. <<>> \in Seq(Move)
    OBVIOUS
  <2>1. \E g : Runs(g, Seq(Move), <<>>, n, step)
    BY <1>0, <1>1, <2>0, Recursion
  <2>. QED  BY <2>1 DEF Runs
<1>4. Follows(g)
  <2>1. \A i \in 1..n : i - 1 \in 0..n /\ g[i - 1] \in Seq(Move)
    BY <1>0, <1>3
  <2>2. ASSUME NEW i \in 1..n PROVE g[i] = Next_(g[i - 1], i)
    <3>1. g[i] = step[<<g[i - 1], i>>]
      BY <1>3
    <3>. HIDE DEF Next_
    <3>. QED  BY <1>2, <2>1, <3>1
  <2>3. ASSUME NEW i \in 0..n
        PROVE  g[i] = IF i = 0 THEN <<>> ELSE IF queue[i].call = c THEN g[i - 1]
                                         ELSE Append(g[i - 1], queue[i])
    <3>1. CASE i = 0
      BY <1>3, <3>1
    <3>2. CASE i # 0
      <4>1. i \in 1..n
        BY <1>0, <3>2
      <4>2. g[i] = Next_(g[i - 1], i)
        <5>. HIDE DEF Next_
        <5>. QED  BY <2>2, <4>1
      <4>. QED  BY <3>2, <4>2
    <3>. QED  BY <3>1, <3>2
  <2>4. g = [i \in 0..n |-> g[i]]
    BY <1>3
  <2>. QED  BY <2>3, <2>4
<1>5. Follows(kept)
  BY <1>4
<1>6. Without(queue, c) = kept[n]
  BY DEF Without, n
<1>. HIDE DEF kept
<1>7. kept[0] = <<>> /\ \A i \in 1..n : kept[i] = Next_(kept[i - 1], i)
  <2>1. ASSUME NEW i \in 0..n
        PROVE  kept[i] = IF i = 0 THEN <<>> ELSE IF queue[i].call = c THEN kept[i - 1]
                                            ELSE Append(kept[i - 1], queue[i])
    BY <1>5
  <2>2. kept[0] = <<>>
    <3>1. 0 \in 0..n
      BY <1>0
    <3>. QED  BY <2>1, <3>1
  <2>3. ASSUME NEW i \in 1..n PROVE kept[i] = Next_(kept[i - 1], i)
    <3>1. i \in 0..n /\ i # 0
      BY <1>0
    <3>. QED  BY <2>1, <3>1
  <2>. QED  BY <2>2, <2>3
<1> DEFINE Holds(i) == KeptOf(queue, c, kept[i], i)
<1>8. Holds(0)
  <2>1. /\ <<>> \in Seq(Move) /\ Len(<<>>) = 0 /\ 1..0 = {} /\ Len(<<>>) <= 0
    OBVIOUS
  <2>2. \A d : {j \in 1..0 : queue[j].call = d} = {}
    OBVIOUS
  <2>3. \A d : Places(<<>>, 0, d) = {}
    BY <2>1 DEF Places
  <2>4. \A d : Ahead(<<>>, 0, d)
    BY <2>3 DEF Ahead
  <2>5. KeptOf(queue, c, <<>>, 0)
    <3>1. \A d : Places(<<>>, 0, d) = {j \in 1..0 : queue[j].call = d}
      BY <2>2, <2>3
    <3>2. \A j \in 1..Len(<<>>) : FALSE
      BY <2>1
    <3>. QED  BY <2>1, <2>4, <3>1, <3>2, Zenon DEF KeptOf
  <2>. QED  BY <1>7, <2>5
<1>9. ASSUME NEW i \in 1..n, Holds(i - 1) PROVE Holds(i)
  <2>1. kept[i] = Next_(kept[i - 1], i) /\ i \in 1..Len(queue)
    BY <1>7 DEF n
  <2>2. KeptOf(queue, c, Next_(kept[i - 1], i), i)
    BY <1>9, <2>1, KeptNext
  <2>. QED  BY <2>1, <2>2
<1>. HIDE DEF Holds
<1>10. Holds(n)
  <2> DEFINE O == {i \in 0..n : ~Holds(i)}
  <2>. SUFFICES ASSUME O # {} PROVE FALSE
    BY <1>0
  <2>1. O \in SUBSET Nat
    OBVIOUS
  <2>2. PICK m \in O : \A x \in O : m <= x
    <3>. HIDE DEF O
    <3>. QED  BY <2>1, Smallest
  <2>3. m \in 1..n /\ m - 1 \in 0..n /\ m - 1 \notin O
    BY <1>0, <1>8, <2>2
  <2>. QED  BY <1>9, <2>2, <2>3
<1>. QED  BY <1>6, <1>10 DEF Holds, n

-----------------------------------------------------------------------------
(* Calls that are rejected. *)

LEMMA RejectedIs ==
    ASSUME NEW k \in CubeState, NEW cs
    PROVE  LET q == Rejected(k, cs)
           IN  /\ q \in CubeState /\ q.queue = k.queue /\ q.active = k.active
               /\ q.revision = k.revision
               /\ \A c \in Calls : q.calls[c] = IF c \in cs /\ k.calls[c].phase = "waiting"
                                                THEN Settled(k.calls[c], "rejected") ELSE k.calls[c]
<1> DEFINE calls == [c \in Calls |-> IF c \in cs /\ k.calls[c].phase = "waiting"
                                     THEN Settled(k.calls[c], "rejected") ELSE k.calls[c]]
<1>1. k.calls \in [Calls -> Call]
  BY DEF CubeState
<1>2. calls \in [Calls -> Call]
  BY <1>1, SettledCall
<1>3. Rejected(k, cs) = [k EXCEPT !.calls = calls]
  BY DEF Rejected
<1>4. \A c \in Calls : calls[c] = IF c \in cs /\ k.calls[c].phase = "waiting"
                                  THEN Settled(k.calls[c], "rejected") ELSE k.calls[c]
  OBVIOUS
<1>. HIDE DEF calls
<1>5. LET q == [k EXCEPT !.calls = calls]
      IN  /\ q \in CubeState /\ q.queue = k.queue /\ q.active = k.active
          /\ q.revision = k.revision /\ q.calls = calls
  BY <1>2 DEF CubeState
<1>. QED  BY <1>3, <1>4, <1>5

\* No call waits and no move is to come; calls that were not made are still to be made.
Quiet(k, q) ==
    /\ q \in CubeState /\ q.active = NoEntry /\ q.queue = <<>>
    /\ \A c \in Calls : /\ q.calls[c].phase # "waiting" /\ q.calls[c].next = {} /\ q.calls[c].exact
                        /\ k.calls[c].phase = "new" => q.calls[c].phase = "new"

LEMMA CancelledIs ==
    ASSUME NEW k \in CubeState, AllPlaced(k)
    PROVE  Quiet(k, Cancelled(k))
<1> DEFINE bare == Arranged(k, NoEntry, <<>>)
           q == Rejected(bare, Calls)
<1>1. Cancelled(k) = q
  BY DEF Cancelled, Arranged
<1>2. <<>> \in Seq(Move)
  OBVIOUS
<1>3. bare \in CubeState /\ bare.active = NoEntry /\ bare.queue = <<>> /\ bare.calls = k.calls
  <2> DEFINE none == NoEntry
             empty == <<>>
  <2>1. none \in Move \cup {NoEntry} /\ empty \in Seq(Move)
    BY <1>2
  <2>. HIDE DEF none, empty
  <2>2. IsArranged(Arranged(k, none, empty), k, none, empty)
    BY <2>1, Rearranged
  <2>. QED  BY <2>2 DEF IsArranged, none, empty
<1>. HIDE DEF bare
<1>4. /\ q \in CubeState /\ q.active = NoEntry /\ q.queue = <<>>
      /\ \A c \in Calls : q.calls[c] = IF k.calls[c].phase = "waiting"
                                       THEN Settled(k.calls[c], "rejected") ELSE k.calls[c]
  BY <1>3, RejectedIs
<1>. HIDE DEF q
<1>5. ASSUME NEW c \in Calls
      PROVE  /\ q.calls[c].phase # "waiting" /\ q.calls[c].next = {} /\ q.calls[c].exact
             /\ k.calls[c].phase = "new" => q.calls[c].phase = "new"
  <2>1. k.calls[c] \in Call
    BY DEF CubeState
  <2>2. k.calls[c].exact /\ (k.calls[c].phase # "waiting" => k.calls[c].next = {})
    BY DEF AllPlaced, Placed
  <2>3. CASE k.calls[c].phase = "waiting"
    BY <1>4, <2>1, <2>2, <2>3, SettledCall
  <2>4. CASE k.calls[c].phase # "waiting"
    BY <1>4, <2>2, <2>4
  <2>. QED  BY <2>3, <2>4
<1>. QED  BY <1>1, <1>4, <1>5 DEF Quiet

LEMMA SolvedIs ==
    ASSUME NEW k \in CubeState, AllPlaced(k)
    PROVE  Quiet(k, Solved(k))
<1> DEFINE was == Cancelled(k)
           q == [was EXCEPT !.revision = @ + 1]
<1>1. Quiet(k, was)
  BY CancelledIs
<1>2. Solved(k) = q
  BY DEF Solved
<1>. HIDE DEF was
<1>3. q \in CubeState /\ q.active = was.active /\ q.queue = was.queue /\ q.calls = was.calls
  BY <1>1 DEF CubeState, Quiet
<1>. HIDE DEF q
<1>. QED  BY <1>1, <1>2, <1>3 DEF Quiet

LEMMA QuietIsPlaced ==
    ASSUME NEW k, NEW q, Quiet(k, q), NEW c \in Calls
    PROVE  Placed(q, c) /\ Count(q, c) = 0
<1>1. q \in CubeState /\ q.active = NoEntry /\ q.queue = <<>>
  BY DEF Quiet
<1>2. Places(q.queue, 0, c) = {} /\ q.active.call # c
  <2>1. Len(q.queue) = 0
    BY <1>1
  <2>2. Places(q.queue, 0, c) = {}
    BY <2>1 DEF Places
  <2>. QED  BY <1>1, <2>2, CubeAssumption DEF NoEntry, CubeAssumption
<1>3. Count(q, c) = 0
  BY <1>1, <1>2, CountType
<1>4. q.calls[c].phase # "waiting" /\ q.calls[c].next = {} /\ q.calls[c].exact
  BY DEF Quiet
<1>. QED  BY <1>3, <1>4 DEF Placed

-----------------------------------------------------------------------------
(* The moves of a call at the end of the queue. *)

\* A call that may wait for n moves, none of which is in the line yet.
Waits(k, c, n) ==
    /\ Count(k, c) = 0 /\ n # 0
    /\ k.calls[c].phase = "waiting" /\ k.calls[c].left = n /\ k.calls[c].exact
    /\ k.calls[c].next \subseteq {k.revision}
    /\ k.calls[c].next # {} => Idle(k)

Awaited(k, c, n) ==
    /\ k \in CubeState
    /\ k.active = NoEntry => k.queue = <<>>
    /\ \A d \in Calls \ {c} : Placed(k, d)
    /\ c \in Calls => Waits(k, c, n)

Appended(k, c, n, animated) == [k EXCEPT !.queue = @ \o Entries(c, n, animated)]

LEMMA EntriesType ==
    ASSUME NEW c \in Calls \cup {Nobody}, NEW n \in Nat, NEW animated \in BOOLEAN
    PROVE  /\ Entries(c, n, animated) \in Seq(Move) /\ Len(Entries(c, n, animated)) = n
           /\ \A i \in 1..n : Entries(c, n, animated)[i].call = c
<1>1. [call |-> c, animated |-> animated] \in Move
  BY DEF Move
<1>. QED  BY <1>1 DEF Entries

LEMMA AppendedPlaces ==
    ASSUME NEW queue \in Seq(Move), NEW more \in Seq(Move), NEW c, \A i \in 1..Len(more) : more[i].call = c
    PROVE  LET all == queue \o more
           IN  /\ \A d : d # c => Places(all, 0, d) = Places(queue, 0, d)
               /\ \A d : d # c /\ Ahead(queue, 0, d) => Ahead(all, 0, d)
               /\ Places(queue, 0, c) = {} => Cardinality(Places(all, 0, c)) = Len(more)
               /\ queue = <<>> => Ahead(all, 0, c)
<1> DEFINE all == queue \o more
           a == Len(queue)
           b == Len(more)
<1>1. /\ a \in Nat /\ b \in Nat /\ Len(all) = a + b /\ all \in Seq(Move)
      /\ \A i \in 1..a : all[i] = queue[i]
      /\ \A i \in (a + 1)..(a + b) : all[i] = more[i - a] /\ i - a \in 1..b
  OBVIOUS
<1>. HIDE DEF all
<1>2. \A i \in (a + 1)..(a + b) : all[i].call = c
  BY <1>1
<1>3. ASSUME NEW d, d # c PROVE Places(all, 0, d) = Places(queue, 0, d)
  <2>1. ASSUME NEW i PROVE i \in Places(all, 0, d) <=> i \in Places(queue, 0, d)
    <3>1. i \in 1..(a + b) <=> i \in 1..a \/ i \in (a + 1)..(a + b)
      BY <1>1
    <3>. QED  BY <1>1, <1>2, <1>3, <3>1 DEF Places
  <2>. QED  BY <2>1
<1>4. ASSUME NEW d, d # c, Ahead(queue, 0, d) PROVE Ahead(all, 0, d)
  <2>1. SUFFICES ASSUME NEW j \in Places(all, 0, d), NEW m \in 1..j PROVE all[m].call = d
    BY DEF Ahead
  <2>2. j \in Places(queue, 0, d)
    BY <1>3, <1>4
  <2>3. queue[m].call = d /\ m \in 1..a
    BY <1>1, <1>4, <2>2 DEF Ahead, Places
  <2>. QED  BY <1>1, <2>3
<1>5. ASSUME Places(queue, 0, c) = {} PROVE Cardinality(Places(all, 0, c)) = b
  <2>1. ASSUME NEW i PROVE i \in Places(all, 0, c) <=> i \in (a + 1)..(a + b)
    <3>1. i \in 1..(a + b) <=> i \in 1..a \/ i \in (a + 1)..(a + b)
      BY <1>1
    <3>2. i \in 1..a => queue[i].call # c /\ all[i] = queue[i]
      BY <1>1, <1>5 DEF Places
    <3>3. i \in Places(all, 0, c) <=> i \in 1..(a + b) /\ all[i].call = c
      BY <1>1 DEF Places
    <3>. QED  BY <1>2, <3>1, <3>2, <3>3
  <2>2. Places(all, 0, c) = (a + 1)..(a + b)
    BY <2>1
  <2>3. Cardinality((a + 1)..(a + b)) = b
    <3>1. a + 1 \in Int /\ a + b \in Int
      BY <1>1
    <3>2. Cardinality((a + 1)..(a + b)) = IF a + 1 > a + b THEN 0 ELSE (a + b) - (a + 1) + 1
      BY <3>1, FS_Interval
    <3>. QED  BY <1>1, <3>2
  <2>. QED  BY <2>2, <2>3
<1>6. ASSUME queue = <<>> PROVE Ahead(all, 0, c)
  <2>1. a = 0
    BY <1>6
  <2>2. \A i \in 1..b : all[i].call = c
    BY <1>1, <1>2, <2>1
  <2>3. \A j \in Places(all, 0, c) : \A m \in 1..j : m \in 1..b
    BY <1>1, <2>1 DEF Places
  <2>. QED  BY <2>2, <2>3 DEF Ahead
<1>. QED  BY <1>3, <1>4, <1>5, <1>6 DEF all

LEMMA AppendedPlaced ==
    ASSUME NEW k, NEW c \in Calls \cup {Nobody}, NEW n \in Nat, NEW animated \in BOOLEAN,
           Awaited(k, c, n)
    PROVE  LET q == Appended(k, c, n, animated)
           IN  /\ q \in CubeState /\ AllPlaced(q) /\ q.active = k.active
               /\ q.calls = k.calls /\ q.revision = k.revision
               /\ q.queue = k.queue \o Entries(c, n, animated)
<1> DEFINE more == Entries(c, n, animated)
           queue == k.queue
           all == queue \o more
           q == Appended(k, c, n, animated)
<1>1. /\ more \in Seq(Move) /\ Len(more) = n /\ \A i \in 1..n : more[i].call = c
  BY EntriesType
<1>. HIDE DEF more
<1>2. k \in CubeState /\ queue \in Seq(Move) /\ all \in Seq(Move)
  BY <1>1 DEF Awaited, CubeState
<1>3. /\ \A d : d # c => Places(all, 0, d) = Places(queue, 0, d)
      /\ \A d : d # c /\ Ahead(queue, 0, d) => Ahead(all, 0, d)
      /\ Places(queue, 0, c) = {} => Cardinality(Places(all, 0, c)) = n
      /\ queue = <<>> => Ahead(all, 0, c)
  <2>1. \A i \in 1..Len(more) : more[i].call = c
    BY <1>1
  <2>. HIDE DEF queue
  <2>. QED  BY <1>1, <1>2, <2>1, AppendedPlaces
<1>4. q = [k EXCEPT !.queue = all]
  BY DEF Appended, more
<1>. HIDE DEF all
<1>5. /\ q \in CubeState /\ q.active = k.active /\ q.calls = k.calls
      /\ q.revision = k.revision /\ q.queue = all
  BY <1>2, <1>4 DEF CubeState
<1>. HIDE DEF q
<1>6. ASSUME NEW d \in Calls, d # c PROVE Placed(q, d)
  <2>1. Placed(k, d)
    BY <1>6 DEF Awaited
  <2>2. Count(q, d) = Count(k, d) /\ (First(k, d) => First(q, d))
    BY <1>3, <1>5, <1>6 DEF Count, First
  <2>. QED  BY <1>5, <2>1, <2>2 DEF Placed
<1>7. ASSUME c \in Calls PROVE Placed(q, c)
  <2>1. Waits(k, c, n)
    BY <1>7 DEF Awaited
  <2>2. Places(queue, 0, c) = {} /\ k.active.call # c
    BY <1>2, <1>7, <2>1, CountType DEF Waits
  <2>3. Count(q, c) = n
    BY <1>3, <1>5, <2>2 DEF Count
  <2>4. Idle(k) => First(q, c)
    BY <1>3, <1>5 DEF Idle, First
  <2>. QED  BY <1>5, <2>1, <2>3, <2>4 DEF Waits, Placed
<1>8. AllPlaced(q)
  BY <1>6, <1>7 DEF AllPlaced
<1>. QED  BY <1>5, <1>8 DEF all, more, q

LEMMA EnqueuedLined ==
    ASSUME NEW k, NEW c \in Calls \cup {Nobody}, NEW n \in Nat, NEW animated \in BOOLEAN,
           Awaited(k, c, n)
    PROVE  Lined(Enqueued(k, Entries(c, n, animated)))
<1> DEFINE q == Appended(k, c, n, animated)
<1>1. Enqueued(k, Entries(c, n, animated)) = IF k.active = NoEntry THEN StartNext(q) ELSE q
  BY DEF Enqueued, Appended
<1>2. q \in CubeState /\ AllPlaced(q) /\ q.active = k.active
  BY AppendedPlaced
<1>. HIDE DEF q
<1>3. CASE k.active = NoEntry
  BY <1>1, <1>2, <1>3, Started
<1>4. CASE k.active # NoEntry
  BY <1>1, <1>2, <1>4, LinedIs
<1>. QED  BY <1>3, <1>4

LEMMA CommittedLined ==
    ASSUME NEW k, NEW c \in Calls \cup {Nobody}, NEW n \in Nat, Awaited(k, c, n), Idle(k)
    PROVE  Lined(CommitAll(k, Entries(c, n, FALSE)))
<1> DEFINE more == Entries(c, n, FALSE)
           q == Appended(k, c, n, FALSE)
           after == CommitAll(k, more)
<1>1. /\ q \in CubeState /\ AllPlaced(q) /\ q.active = k.active
      /\ q.calls = k.calls /\ q.revision = k.revision /\ q.queue = k.queue \o more
  BY AppendedPlaced
<1>2. more \in Seq(Move) /\ Len(more) \in Nat
  BY EntriesType
<1>. HIDE DEF q, more
<1>3. k \in CubeState /\ k.active = NoEntry /\ k.queue = <<>>
  BY DEF Awaited, Idle
<1>4. q.queue = more
  BY <1>1, <1>2, <1>3
<1>5. LineSound(q, more, 0)
  BY <1>1, <1>3, <1>4, PlacedIsSound, LineType
<1>6. LineSound(k, more, 0)
  BY <1>1, <1>5, SameCalls
<1>7. /\ after \in CubeState /\ LineSound(after, more, Len(more))
      /\ after.queue = k.queue /\ after.active = k.active
  <2>1. Len(more) <= Len(more) /\ \A j \in 1..Len(more) : more[j] = more[j]
    BY <1>2
  <2>. QED  BY <1>2, <1>3, <1>6, <2>1, CommitsSound
<1>. HIDE DEF after
<1>8. LineSound(after, <<>>, 0)
  <2> DEFINE rest == <<>>
             i == Len(more)
  <2>1. rest \in Seq(Move) /\ Len(rest) = Len(more) - i /\ i \in Nat /\ i <= Len(more)
    BY <1>2
  <2>2. \A j \in 1..Len(rest) : rest[j] = more[i + j]
    OBVIOUS
  <2>3. LineSound(after, more, i)
    BY <1>7
  <2>. HIDE DEF rest, i
  <2>4. LineSound(after, rest, 0)
    BY <1>2, <2>1, <2>2, <2>3, RestOfLine
  <2>. QED  BY <2>4 DEF rest
<1>9. Line(after) = <<>>
  BY <1>3, <1>7 DEF Line
<1>. QED  BY <1>3, <1>7, <1>8, <1>9 DEF Lined, after, more

\* Moves of a call, or of nobody, leave a line, whether they are queued or made at once.
LEMMA MovedLined ==
    ASSUME NEW k, NEW c \in Calls \cup {Nobody}, NEW n \in Nat, NEW animated \in BOOLEAN,
           Awaited(k, c, n), reduced \in BOOLEAN
    PROVE  Lined(Moved(k, c, n, animated))
<1>1. (animated /\ ~reduced) \in BOOLEAN
  OBVIOUS
<1>2. Lined(Enqueued(k, Entries(c, n, animated /\ ~reduced)))
  BY <1>1, EnqueuedLined
<1>3. Idle(k) => Lined(CommitAll(k, Entries(c, n, FALSE)))
  BY CommittedLined
<1>. QED  BY <1>2, <1>3 DEF Moved

-----------------------------------------------------------------------------
(* What the handlers make of a line. *)

LEMMA NewCalls ==
    ASSUME NEW k, Lined(k), NEW c \in Calls, k.calls[c].phase = "new"
    PROVE  Count(k, c) = 0 /\ k.calls[c].exact /\ k.calls[c] \in Call
  BY LinedIs DEF AllPlaced, Placed, CubeState

\* One call changes.
LEMMA CallChanged ==
    ASSUME NEW k \in CubeState, NEW c \in Calls, NEW call \in Call
    PROVE  LET q == [k EXCEPT !.calls[c] = call]
           IN  /\ q \in CubeState /\ q.queue = k.queue /\ q.active = k.active
               /\ q.revision = k.revision /\ q.calls[c] = call
               /\ \A d \in Calls : d # c => q.calls[d] = k.calls[d]
<1>1. k.calls \in [Calls -> Call]
  BY DEF CubeState
<1> DEFINE calls == [k.calls EXCEPT ![c] = call]
<1>2. /\ calls \in [Calls -> Call] /\ calls[c] = call
      /\ \A d \in Calls : d # c => calls[d] = k.calls[d]
  BY <1>1
<1>3. [k EXCEPT !.calls[c] = call] = [k EXCEPT !.calls = calls]
  BY DEF CubeState
<1>. HIDE DEF calls
<1>4. LET q == [k EXCEPT !.calls = calls]
      IN  /\ q \in CubeState /\ q.queue = k.queue /\ q.active = k.active
          /\ q.revision = k.revision /\ q.calls = calls
  BY <1>2 DEF CubeState
<1>. QED  BY <1>2, <1>3, <1>4

LEMMA AcceptedAwaited ==
    ASSUME NEW k \in CubeState, NEW c \in Calls, NEW n \in Nat, n # 0, NEW revision \in SUBSET Nat,
           AllPlaced(k), k.active = NoEntry => k.queue = <<>>, Count(k, c) = 0,
           revision \subseteq {k.revision}, revision # {} => Idle(k)
    PROVE  Awaited(Accepted(k, c, n, revision), c, n)
<1> DEFINE old == k.calls[c]
           one == [old EXCEPT !.phase = "waiting"]
           two == [one EXCEPT !.left = n]
           call == [two EXCEPT !.next = revision]
           q == [k EXCEPT !.calls[c] = call]
<1>1. k.calls \in [Calls -> Call] /\ old \in Call /\ old.exact
  BY DEF CubeState, AllPlaced, Placed
<1>2. Accepted(k, c, n, revision) = q
  <2>1. [k EXCEPT !.calls[c] = [@ EXCEPT !.phase = "waiting", !.left = n, !.next = revision]] = q
    BY <1>1 DEF CubeState
  <2>. QED  BY <2>1 DEF Accepted
<1>. HIDE DEF old
<1>3. one \in Call /\ one.phase = "waiting" /\ one.exact
  BY <1>1 DEF Call
<1>. HIDE DEF one
<1>4. two \in Call /\ two.phase = "waiting" /\ two.left = n /\ two.exact
  BY <1>3 DEF Call
<1>. HIDE DEF two
<1>5. /\ call \in Call /\ call.phase = "waiting" /\ call.left = n /\ call.exact
      /\ call.next = revision
  BY <1>4 DEF Call
<1>. HIDE DEF call
<1>6. /\ q \in CubeState /\ q.queue = k.queue /\ q.active = k.active
      /\ q.revision = k.revision /\ q.calls[c] = call
      /\ \A d \in Calls : d # c => q.calls[d] = k.calls[d]
  BY <1>5, CallChanged
<1>. HIDE DEF q
<1>7. \A d \in Calls \ {c} : Placed(q, d)
  <2>1. ASSUME NEW d \in Calls \ {c} PROVE Placed(q, d)
    <3>1. Placed(k, d) /\ q.calls[d] = k.calls[d]
      BY <1>6 DEF AllPlaced
    <3>2. Count(q, d) = Count(k, d) /\ (First(k, d) <=> First(q, d))
      BY <1>6 DEF Count, First
    <3>. QED  BY <1>6, <3>1, <3>2 DEF Placed
  <2>. QED  BY <2>1
<1>8. Waits(q, c, n)
  <2>1. Count(q, c) = Count(k, c) /\ (Idle(k) <=> Idle(q))
    BY <1>6 DEF Count, Idle
  <2>. QED  BY <1>5, <1>6, <2>1 DEF Waits
<1>. QED  BY <1>2, <1>6, <1>7, <1>8 DEF Awaited

LEMMA RefusedLined ==
    ASSUME NEW k, Lined(k), NEW c \in Calls, k.calls[c].phase = "new"
    PROVE  LET q == [k EXCEPT !.calls[c] = Settled(@, "rejected")]
           IN  Lined(q) /\ q.active = k.active /\ q.queue = k.queue
<1> DEFINE call == Settled(k.calls[c], "rejected")
           q == [k EXCEPT !.calls[c] = call]
<1>1. k \in CubeState /\ AllPlaced(k) /\ (k.active = NoEntry => k.queue = <<>>)
  BY LinedIs
<1>2. /\ call \in Call /\ call.phase = "rejected" /\ call.next = {} /\ call.exact
      /\ Count(k, c) = 0
  BY NewCalls, SettledCall
<1>3. [k EXCEPT !.calls[c] = Settled(@, "rejected")] = q
  BY <1>1 DEF CubeState
<1>. HIDE DEF call
<1>4. /\ q \in CubeState /\ q.queue = k.queue /\ q.active = k.active
      /\ q.revision = k.revision /\ q.calls[c] = call
      /\ \A d \in Calls : d # c => q.calls[d] = k.calls[d]
  BY <1>1, <1>2, CallChanged
<1>. HIDE DEF q
<1>5. ASSUME NEW d \in Calls PROVE Placed(q, d)
  <2>1. Count(q, d) = Count(k, d) /\ (First(k, d) <=> First(q, d))
    BY <1>4 DEF Count, First
  <2>2. CASE d = c
    BY <1>2, <1>4, <2>1, <2>2 DEF Placed
  <2>3. CASE d # c
    <3>1. Placed(k, d)
      BY <1>1 DEF AllPlaced
    <3>. QED  BY <1>4, <2>1, <2>3, <3>1 DEF Placed
  <2>. QED  BY <2>2, <2>3
<1>6. Lined(q)
  BY <1>1, <1>4, <1>5, LinedIs DEF AllPlaced
<1>. QED  BY <1>3, <1>4, <1>6

LEMMA FinishedLined ==
    ASSUME NEW k, Lined(k), k.active # NoEntry
    PROVE  Lined(Finished(k))
<1> DEFINE line == Line(k)
           bare == Arranged(k, NoEntry, k.queue)
           after == Committed(bare, k.active)
           queue == k.queue
<1>1. k \in CubeState /\ LineSound(k, line, 0) /\ queue \in Seq(Move)
  BY DEF Lined, CubeState
<1>2. /\ k.active \in Move /\ line \in Seq(Move) /\ Len(queue) \in Nat
      /\ Len(line) = Len(queue) + 1 /\ line[1] = k.active
      /\ \A j \in 1..Len(queue) : line[j + 1] = queue[j]
  BY <1>1, LineType
<1>3. /\ bare \in CubeState /\ bare.active = NoEntry /\ bare.queue = queue
      /\ bare.calls = k.calls /\ bare.revision = k.revision
  <2> DEFINE none == NoEntry
  <2>1. none \in Move \cup {NoEntry}
    OBVIOUS
  <2>. HIDE DEF none, queue
  <2>2. IsArranged(Arranged(k, none, queue), k, none, queue)
    BY <1>1, <2>1, Rearranged
  <2>. QED  BY <2>2 DEF IsArranged, none, queue
<1>4. Finished(k) = StartNext(after)
  <2>1. [k EXCEPT !.active = NoEntry] = bare
    BY <1>1 DEF Arranged, CubeState
  <2>. QED  BY <2>1 DEF Finished
<1>. HIDE DEF bare, line
<1>5. LineSound(bare, line, 0)
  BY <1>1, <1>3, SameCalls
<1>6. LineSound(after, line, 1)
  <2>1. 0 \in Nat /\ 0 < Len(line) /\ 0 + 1 = 1
    BY <1>2
  <2>2. LineSound(Committed(bare, line[0 + 1]), line, 0 + 1)
    BY <1>2, <1>3, <1>5, <2>1, CommitHead
  <2>. QED  BY <1>2, <2>1, <2>2
<1>7. after \in CubeState /\ after.queue = queue /\ after.active = NoEntry
  BY <1>2, <1>3, CommittedType
<1>. HIDE DEF after
<1>8. LineSound(after, queue, 0)
  <2>1. 1 \in Nat /\ 1 <= Len(line) /\ Len(queue) = Len(line) - 1
    BY <1>2
  <2>2. \A j \in 1..Len(queue) : queue[j] = line[1 + j]
    <3>1. \A j \in 1..Len(queue) : 1 + j = j + 1
      BY <1>2
    <3>. HIDE DEF queue
    <3>. QED  BY <1>2, <3>1
  <2>. HIDE DEF queue
  <2>. QED  BY <1>1, <1>2, <1>6, <2>1, <2>2, RestOfLine
<1>. QED  BY <1>4, <1>7, <1>8, StartNextLined

LEMMA AbortedLined ==
    ASSUME NEW k, Lined(k), NEW c \in Calls, k.calls[c].phase = "waiting"
    PROVE  /\ Lined(Aborted(k, c))
           /\ k.active.call # c => Aborted(k, c).active = k.active
<1> DEFINE queue == k.queue
           kept == Without(queue, c)
           bare == Arranged(k, k.active, kept)
           q == Rejected(bare, {c})
           done == Arranged(q, NoEntry, kept)
<1>1. k \in CubeState /\ AllPlaced(k) /\ (k.active = NoEntry => queue = <<>>) /\ queue \in Seq(Move)
  BY LinedIs DEF CubeState
<1>2. KeptOf(queue, c, kept, Len(queue)) /\ Len(queue) \in Nat
  BY <1>1, WithoutKeeps
<1>3. /\ kept \in Seq(Move) /\ Len(kept) \in Nat /\ Len(kept) <= Len(queue)
      /\ Places(kept, 0, c) = {}
      /\ \A d \in Calls \ {c} : /\ Cardinality(Places(kept, 0, d)) = Cardinality(Places(queue, 0, d))
                                /\ Places(kept, 0, d) = {} <=> Places(queue, 0, d) = {}
                                /\ Ahead(queue, 0, d) => Ahead(kept, 0, d)
  <2>. HIDE DEF kept
  <2>1. \A d : Places(queue, 0, d) = {j \in 1..Len(queue) : queue[j].call = d}
    <3>1. 0 + 1 = 1
      OBVIOUS
    <3>. QED  BY <3>1 DEF Places
  <2>2. kept \in Seq(Move) /\ Len(kept) <= Len(queue) /\ \A j \in 1..Len(kept) : kept[j].call # c
    BY <1>2 DEF KeptOf
  <2>3. Places(kept, 0, c) = {}
    BY <2>2 DEF Places
  <2>4. ASSUME NEW d \in Calls \ {c}
        PROVE  /\ Cardinality(Places(kept, 0, d)) = Cardinality({j \in 1..Len(queue) : queue[j].call = d})
               /\ Places(kept, 0, d) = {} <=> {j \in 1..Len(queue) : queue[j].call = d} = {}
               /\ Ahead(queue, 0, d) => Ahead(kept, 0, d)
    BY <1>2 DEF KeptOf
  <2>5. ASSUME NEW d \in Calls \ {c}
        PROVE  /\ Cardinality(Places(kept, 0, d)) = Cardinality(Places(queue, 0, d))
               /\ Places(kept, 0, d) = {} <=> Places(queue, 0, d) = {}
               /\ Ahead(queue, 0, d) => Ahead(kept, 0, d)
    <3>1. Places(queue, 0, d) = {j \in 1..Len(queue) : queue[j].call = d}
      BY <2>1
    <3>. HIDE DEF queue
    <3>. QED  BY <2>4, <3>1
  <2>6. Len(kept) \in Nat
    BY <2>2
  <2>. HIDE DEF queue
  <2>. QED  BY <2>2, <2>3, <2>5, <2>6
<1>. HIDE DEF kept
<1>4. /\ bare \in CubeState /\ bare.active = k.active /\ bare.queue = kept
      /\ bare.calls = k.calls /\ bare.revision = k.revision
  <2>1. k.active \in Move \cup {NoEntry}
    BY <1>1 DEF CubeState
  <2>2. IsArranged(bare, k, k.active, kept)
    BY <1>1, <1>3, <2>1, Rearranged
  <2>. HIDE DEF bare
  <2>. QED  BY <2>2 DEF IsArranged
<1>5. Aborted(k, c) = IF k.active.call = c THEN StartNext(done) ELSE q
  <2>1. bare = [k EXCEPT !.queue = Without(@, c)]
    BY <1>1 DEF Arranged, CubeState, kept
  <2>2. Rejected([k EXCEPT !.queue = Without(@, c)], {c}) = q
    BY <2>1
  <2>3. q \in CubeState /\ q.queue = kept
    BY <1>4, RejectedIs
  <2>. HIDE DEF q
  <2>4. [q EXCEPT !.active = NoEntry] = done
    BY <2>3 DEF Arranged, CubeState
  <2>. QED  BY <2>2, <2>4 DEF Aborted
<1>. HIDE DEF bare
<1>6. /\ q \in CubeState /\ q.queue = kept /\ q.active = k.active /\ q.revision = k.revision
      /\ q.calls[c] = Settled(k.calls[c], "rejected")
      /\ \A d \in Calls : d # c => q.calls[d] = k.calls[d]
  BY <1>4, RejectedIs
<1>. HIDE DEF q
<1>7. q.calls[c].phase = "rejected" /\ q.calls[c].next = {} /\ q.calls[c].exact
  <2>1. k.calls[c] \in Call /\ k.calls[c].exact
    BY <1>1 DEF CubeState, AllPlaced, Placed
  <2>. QED  BY <1>6, <2>1, SettledCall
<1>8. ASSUME NEW p \in CubeState, p.queue = kept, p.calls = q.calls, p.revision = k.revision,
             p.active = k.active \/ (p.active = NoEntry /\ k.active.call = c), p.active.call # c
      PROVE  AllPlaced(p)
  <2>0. NoEntry.call \notin Calls
    BY CubeAssumption DEF NoEntry, CubeAssumption
  <2>1. ASSUME NEW d \in Calls, d # c PROVE Placed(p, d)
    <3>1. Placed(k, d) /\ p.calls[d] = k.calls[d]
      BY <1>1, <1>6, <1>8, <2>1 DEF AllPlaced
    <3>2. p.active.call = d <=> k.active.call = d
      BY <1>8, <2>0, <2>1
    <3>3. Count(p, d) = Count(k, d)
      BY <1>3, <1>8, <2>1, <3>2 DEF Count
    <3>4. First(k, d) => First(p, d)
      BY <1>3, <1>8, <2>1, <3>2 DEF First
    <3>. QED  BY <1>8, <3>1, <3>3, <3>4 DEF Placed
  <2>2. Placed(p, c)
    <3>1. Count(p, c) = 0
      BY <1>3, <1>8, CountType
    <3>. QED  BY <1>7, <1>8, <3>1 DEF Placed
  <2>. QED  BY <2>1, <2>2 DEF AllPlaced
<1>9. CASE k.active.call = c
  <2>1. /\ done \in CubeState /\ done.active = NoEntry /\ done.queue = kept
        /\ done.calls = q.calls /\ done.revision = k.revision
    <3> DEFINE none == NoEntry
    <3>1. none \in Move \cup {NoEntry}
      OBVIOUS
    <3>. HIDE DEF none
    <3>2. IsArranged(Arranged(q, none, kept), q, none, kept)
      BY <1>3, <1>6, <3>1, Rearranged
    <3>. QED  BY <1>6, <3>2 DEF IsArranged, none
  <2>2. done.active.call # c
    BY <2>1, CubeAssumption DEF NoEntry, CubeAssumption
  <2>. HIDE DEF done
  <2>3. AllPlaced(done)
    BY <1>8, <1>9, <2>1, <2>2
  <2>. QED  BY <1>5, <1>9, <2>1, <2>3, Started
<1>10. CASE k.active.call # c
  <2>1. AllPlaced(q)
    BY <1>6, <1>8, <1>10
  <2>2. q.active = NoEntry => q.queue = <<>>
    <3>1. SUFFICES ASSUME k.active = NoEntry PROVE kept = <<>>
      BY <1>6
    <3>2. Len(kept) = 0
      <4>1. Len(queue) = 0
        BY <1>1, <3>1
      <4>. QED  BY <1>3, <4>1
    <3>3. kept \in Seq(Move)
      BY <1>3
    <3>. QED  BY <3>2, <3>3
  <2>. QED  BY <1>5, <1>6, <1>10, <2>1, <2>2, LinedIs
<1>. QED  BY <1>9, <1>10

-----------------------------------------------------------------------------
(* The invariant. *)

CubeInv ==
    /\ Lined(cube)
    /\ enabled \in BOOLEAN /\ reduced \in BOOLEAN /\ autoplay \in BOOLEAN /\ views \in Nat
    /\ stopped \in BOOLEAN
    /\ Plays => autoplay \/ cube.active # NoEntry \/ stopped
    /\ autoplay => Plays /\ Idle(cube)
    /\ stopped => ~autoplay /\ Idle(cube)

LEMMA InitInv == CubeInit => CubeInv
<1>. SUFFICES ASSUME CubeInit PROVE CubeInv
  OBVIOUS
<1> DEFINE calls == [c \in Calls |-> NewCall]
<1>1. /\ cube = [revision |-> 0, queue |-> <<>>, active |-> NoEntry, calls |-> calls]
      /\ autoplay = FALSE /\ enabled = TRUE /\ views = 0 /\ reduced = FALSE /\ stopped = FALSE
  BY DEF CubeInit
<1>2. NewCall \in Call
  BY DEF NewCall, Call
<1>3. cube \in CubeState
  <2>1. calls \in [Calls -> Call] /\ <<>> \in Seq(Move)
    BY <1>2
  <2>. HIDE DEF calls
  <2>. QED  BY <1>1, <2>1 DEF CubeState
<1>4. Quiet(cube, cube)
  BY <1>1, <1>3 DEF Quiet, NewCall
<1>5. Lined(cube)
  BY <1>1, <1>3, <1>4, QuietIsPlaced, LinedIs DEF AllPlaced
<1>6. ~Plays
  BY <1>1 DEF Plays
<1>. QED  BY <1>1, <1>5, <1>6 DEF CubeInv

\* scheduleAutoplay after what a handler made of the cube.
LEMMA ScheduledInv ==
    ASSUME Lined(cube'), Schedules,
           enabled' \in BOOLEAN, reduced' \in BOOLEAN, views' \in Nat
    PROVE  CubeInv'
  BY DEF CubeInv, Schedules, Lined, Plays, Idle

\* The same of what ends with the cube replaced, and nothing scheduled.
LEMMA LeftInv ==
    ASSUME CubeInv, Lined(cube'), Idle(cube'), Leaves, UNCHANGED <<enabled, views, reduced>>
    PROVE  CubeInv'
<1>1. autoplay' = autoplay /\ stopped' = (stopped \/ cube.active # NoEntry)
  BY DEF Leaves
<1>2. Plays' <=> Plays
  BY DEF Plays
<1>3. stopped' => ~autoplay
  BY <1>1 DEF CubeInv, Idle
<1>. QED  BY <1>1, <1>2, <1>3 DEF CubeInv, Idle

\* And of what is refused with nothing changed but its call.
LEMMA RefusedInv ==
    ASSUME CubeInv, NEW c \in Calls, cube.calls[c].phase = "new", cube' = Refused(cube, c),
           UNCHANGED <<autoplay, enabled, views, reduced, stopped>>
    PROVE  CubeInv'
<1>1. Lined(cube') /\ cube'.active = cube.active /\ cube'.queue = cube.queue
  BY RefusedLined DEF CubeInv, Refused
<1>. QED  BY <1>1 DEF CubeInv, Plays, Idle

LEMMA ApplyMovesInv ==
    ASSUME CubeInv, NEW c \in Calls, NEW n \in 0..MaxMoves, NEW animated \in BOOLEAN,
           NEW aborted \in BOOLEAN, NEW revision \in SUBSET Nat,
           ApplyMoves(c, n, animated, revision, aborted)
    PROVE  CubeInv'
<1>1. /\ Lined(cube) /\ cube \in CubeState /\ AllPlaced(cube)
      /\ cube.active = NoEntry => cube.queue = <<>>
  BY LinedIs DEF CubeInv
<1>2. cube.calls[c].phase = "new" /\ UNCHANGED <<enabled, views, reduced>>
  BY DEF ApplyMoves
<1>3. CASE ~MayMove(cube, n, revision, aborted)
  BY <1>2, <1>3, RefusedInv DEF ApplyMoves
<1>4. CASE MayMove(cube, n, revision, aborted)
  <2> DEFINE k == Accepted(cube, c, n, revision)
  <2>1. cube' = Moved(k, c, n, animated) /\ Schedules
    BY <1>4 DEF ApplyMoves
  <2>2. n \in Nat /\ n # 0
    BY <1>4, CubeAssumption DEF MayMove, CubeAssumption
  <2>3. revision \subseteq {cube.revision} /\ (revision # {} => Idle(cube))
    BY <1>4 DEF MayMove, Unexpected
  <2>4. Count(cube, c) = 0
    BY <1>1, <1>2, NewCalls
  <2>5. Awaited(k, c, n)
    BY <1>1, <2>2, <2>3, <2>4, AcceptedAwaited
  <2>. HIDE DEF k
  <2>6. Lined(Moved(k, c, n, animated))
    BY <2>2, <2>5, MovedLined DEF CubeInv
  <2>. QED  BY <1>2, <2>1, <2>6, ScheduledInv DEF CubeInv
<1>. QED  BY <1>3, <1>4

\* Of a replaced state nothing is in the line, whoever waited was told, and a new call
\* is new still.
LEMMA SolvedLined ==
    ASSUME CubeInv
    PROVE  /\ Lined(Solved(cube)) /\ Idle(Solved(cube)) /\ AllPlaced(Solved(cube))
           /\ \A c \in Calls : cube.calls[c].phase = "new" => Solved(cube).calls[c].phase = "new"
<1> DEFINE solved == Solved(cube)
<1>1. Quiet(cube, solved)
  BY LinedIs, SolvedIs DEF CubeInv
<1>. HIDE DEF solved
<1>2. solved \in CubeState /\ AllPlaced(solved) /\ Idle(solved)
  BY <1>1, QuietIsPlaced DEF Quiet, AllPlaced, Idle
<1>3. Lined(solved)
  BY <1>2, LinedIs DEF Idle
<1>. QED  BY <1>1, <1>2, <1>3 DEF Quiet, solved

LEMMA ScrambleInv ==
    ASSUME CubeInv, NEW c \in Calls, NEW n \in 0..MaxMoves, NEW animated \in BOOLEAN,
           NEW aborted \in BOOLEAN, NEW revision \in SUBSET Nat,
           Scramble(c, n, animated, revision, aborted)
    PROVE  CubeInv'
<1> DEFINE solved == Solved(cube)
           k == Accepted(solved, c, n, revision)
<1>1. cube.calls[c].phase = "new" /\ UNCHANGED <<enabled, views, reduced>>
  BY DEF Scramble
<1>2. /\ Lined(solved) /\ Idle(solved) /\ AllPlaced(solved) /\ solved.calls[c].phase = "new"
      /\ solved \in CubeState
  BY <1>1, SolvedLined, LinedIs
<1>3. CASE n = 0
  BY <1>1, <1>3, RefusedInv DEF Scramble
<1>4. CASE n # 0 /\ ~MayMove(solved, n, revision, aborted)
  <2>1. cube' = Refused(solved, c) /\ Leaves
    BY <1>4 DEF Scramble
  <2>. HIDE DEF solved
  <2>2. Lined(cube') /\ Idle(cube')
    BY <1>2, <2>1, RefusedLined DEF Refused, Idle
  <2>. QED  BY <1>1, <2>1, <2>2, LeftInv
<1>5. CASE n # 0 /\ MayMove(solved, n, revision, aborted)
  <2>1. cube' = Moved(k, c, n, animated) /\ Schedules
    BY <1>5 DEF Scramble
  <2>. HIDE DEF solved
  <2>2. n \in Nat
    BY CubeAssumption DEF CubeAssumption
  <2>3. revision \subseteq {solved.revision}
    BY <1>5 DEF MayMove, Unexpected
  <2>4. Count(solved, c) = 0
    BY <1>2, NewCalls
  <2>5. Awaited(k, c, n)
    BY <1>2, <1>5, <2>2, <2>3, <2>4, AcceptedAwaited DEF Idle
  <2>. HIDE DEF k
  <2>6. Lined(Moved(k, c, n, animated))
    BY <2>2, <2>5, MovedLined DEF CubeInv
  <2>. QED  BY <1>1, <2>1, <2>6, ScheduledInv DEF CubeInv
<1>. QED  BY <1>3, <1>4, <1>5

LEMMA ResetInv ==
    ASSUME CubeInv, NEW mode, NEW n \in 0..MaxMoves, Reset(mode, n)
    PROVE  CubeInv'
<1> DEFINE solved == Solved(cube)
           moves == IF mode = "solved" THEN 0 ELSE n
<1>1. UNCHANGED <<enabled, views, reduced>>
  BY DEF Reset
<1>2. Lined(solved) /\ Idle(solved) /\ AllPlaced(solved) /\ solved \in CubeState
  BY SolvedLined, LinedIs
<1>3. CASE mode = "scrambled" /\ n = 0
  <2>1. cube' = solved /\ Leaves
    BY <1>3 DEF Reset
  <2>. QED  BY <1>1, <1>2, <2>1, LeftInv
<1>4. CASE ~(mode = "scrambled" /\ n = 0)
  <2>1. cube' = CommitAll(solved, Entries(Nobody, moves, FALSE)) /\ Schedules
    BY <1>4 DEF Reset
  <2>. HIDE DEF solved
  <2>2. Awaited(solved, Nobody, moves)
    <3>1. Nobody \notin Calls
      BY CubeAssumption DEF CubeAssumption, Nobody
    <3>. QED  BY <1>2, <3>1 DEF Awaited, AllPlaced, Idle
  <2>3. moves \in Nat
    BY CubeAssumption DEF CubeAssumption
  <2>. HIDE DEF moves
  <2>4. Lined(CommitAll(solved, Entries(Nobody, moves, FALSE)))
    BY <1>2, <2>2, <2>3, CommittedLined
  <2>. QED  BY <1>1, <2>1, <2>4, ScheduledInv DEF CubeInv
<1>. QED  BY <1>3, <1>4

LEMMA AutoplayTimerInv ==
    ASSUME CubeInv, AutoplayTimer
    PROVE  CubeInv'
<1>1. /\ cube' = Moved(cube, Nobody, 1, TRUE) /\ Schedules
      /\ UNCHANGED <<enabled, views, reduced>>
  BY DEF AutoplayTimer
<1>2. Awaited(cube, Nobody, 1)
  <2>1. Nobody \notin Calls
    BY CubeAssumption DEF CubeAssumption, Nobody
  <2>. QED  BY <2>1, LinedIs DEF CubeInv, Awaited, AllPlaced
<1>3. Lined(Moved(cube, Nobody, 1, TRUE))
  BY <1>2, MovedLined DEF CubeInv
<1>. QED  BY <1>1, <1>3, ScheduledInv DEF CubeInv

LEMMA CallAbortedInv ==
    ASSUME CubeInv, NEW c \in Calls, CallAborted(c)
    PROVE  CubeInv'
<1>1. /\ cube.calls[c].phase = "waiting" /\ cube' = Aborted(cube, c)
      /\ UNCHANGED <<enabled, views, reduced>>
      /\ IF cube.active.call = c THEN Schedules ELSE UNCHANGED <<autoplay, stopped>>
  BY DEF CallAborted
<1>2. Lined(cube') /\ (cube.active.call # c => cube'.active = cube.active)
  BY <1>1, AbortedLined DEF CubeInv
<1>3. CASE cube.active.call = c
  BY <1>1, <1>2, <1>3, ScheduledInv DEF CubeInv
<1>4. CASE cube.active.call # c
  <2>1. ~Idle(cube)
    <3>1. Count(cube, c) # 0 /\ cube \in CubeState
      BY <1>1, LinedIs DEF CubeInv, AllPlaced, Placed
    <3>2. cube.queue # <<>>
      <4>1. Places(cube.queue, 0, c) # {}
        BY <1>4, <3>1, CountType
      <4>2. Places(<<>>, 0, c) = {}
        <5>1. Len(<<>>) = 0
          OBVIOUS
        <5>. QED  BY <5>1 DEF Places
      <4>. QED  BY <4>1, <4>2
    <3>. QED  BY <3>2 DEF Idle
  <2>2. ~autoplay /\ ~autoplay' /\ ~stopped /\ ~stopped'
    BY <1>1, <1>4, <2>1 DEF CubeInv
  <2>. QED  BY <1>1, <1>2, <1>4, <2>2 DEF CubeInv, Plays
<1>. QED  BY <1>3, <1>4

LEMMA NextInv == CubeInv /\ [CubeNext]_cubeVars => CubeInv'
<1>. SUFFICES ASSUME CubeInv, [CubeNext]_cubeVars PROVE CubeInv'
  OBVIOUS
<1>0. {{}, {0}, {cube.revision}, {cube.revision + 1}} \subseteq SUBSET Nat
  BY LinedIs DEF CubeInv, CubeState
<1>1. ASSUME NEW c \in Calls, NEW n \in 0..MaxMoves, NEW animated \in BOOLEAN,
             NEW aborted \in BOOLEAN, NEW revision \in SUBSET Nat,
             Scramble(c, n, animated, revision, aborted)
      PROVE  CubeInv'
  BY <1>1, ScrambleInv
<1>2. ASSUME NEW c \in Calls, NEW n \in 0..MaxMoves, NEW animated \in BOOLEAN,
             NEW aborted \in BOOLEAN, NEW revision \in SUBSET Nat,
             ApplyMoves(c, n, animated, revision, aborted)
      PROVE  CubeInv'
  BY <1>2, ApplyMovesInv
<1>3. ASSUME NEW c \in Calls, CallAborted(c) PROVE CubeInv'
  BY <1>3, CallAbortedInv
<1>4. ASSUME NEW mode \in {"solved", "scrambled"}, NEW n \in 0..MaxMoves, Reset(mode, n)
      PROVE  CubeInv'
  BY <1>4, ResetInv
<1>5. ASSUME NEW on \in BOOLEAN, SetAutoplay(on) PROVE CubeInv'
  <2>1. enabled' = on /\ cube' = cube /\ views' = views /\ reduced' = reduced
    BY <1>5 DEF SetAutoplay
  <2>2. Lined(cube')
    BY <2>1 DEF CubeInv
  <2>3. CASE on
    BY <1>5, <2>1, <2>2, <2>3, ScheduledInv DEF SetAutoplay, CubeInv
  <2>4. CASE ~on
    <3>0. on = FALSE
      BY <2>4
    <3>1. enabled' = FALSE /\ autoplay' = FALSE /\ stopped' = stopped
      BY <1>5, <2>1, <3>0 DEF SetAutoplay
    <3>2. ~Plays'
      BY <3>1 DEF Plays
    <3>. QED  BY <2>1, <2>2, <3>1, <3>2 DEF CubeInv
  <2>. QED  BY <2>3, <2>4
<1>6. ASSUME NEW on \in BOOLEAN, AcquireView(on) PROVE CubeInv'
  <2>1. views' = views + 1 /\ reduced' = on /\ cube' = cube /\ enabled' = enabled /\ Schedules
    BY <1>6 DEF AcquireView
  <2>2. Lined(cube')
    BY <2>1 DEF CubeInv
  <2>. QED  BY <2>1, <2>2, ScheduledInv DEF CubeInv
<1>7. ASSUME ReleaseView PROVE CubeInv'
  <2>1. /\ views > 0 /\ views' = views - 1 /\ autoplay' = (autoplay /\ views' > 0)
        /\ cube' = cube /\ enabled' = enabled /\ reduced' = reduced /\ stopped' = stopped
    BY <1>7 DEF ReleaseView
  <2>. QED  BY <2>1 DEF CubeInv, Plays, Idle
<1>8. ASSUME AnimationTimer PROVE CubeInv'
  <2>1. /\ cube.active # NoEntry /\ cube' = Finished(cube) /\ Schedules
        /\ UNCHANGED <<enabled, views, reduced>>
    BY <1>8 DEF AnimationTimer
  <2>2. Lined(cube')
    BY <2>1, FinishedLined DEF CubeInv
  <2>. QED  BY <2>1, <2>2, ScheduledInv DEF CubeInv
<1>9. ASSUME AutoplayTimer PROVE CubeInv'
  BY <1>9, AutoplayTimerInv
<1>10. ASSUME UNCHANGED cubeVars PROVE CubeInv'
  <2>1. UNCHANGED <<cube, autoplay, enabled, views, reduced, stopped>>
    BY <1>10 DEF cubeVars
  <2>. QED  BY <2>1 DEF CubeInv, Plays, Idle
<1>. QED  BY <1>0, <1>1, <1>2, <1>3, <1>4, <1>5, <1>6, <1>7, <1>8, <1>9, <1>10 DEF CubeNext

LEMMA InvSound == CubeInv => QueueSound
<1>. SUFFICES ASSUME CubeInv PROVE QueueSound
  OBVIOUS
<1>1. cube \in CubeState /\ AllPlaced(cube)
  BY LinedIs DEF CubeInv
<1>2. ASSUME NEW c \in Calls
      PROVE  LET call == cube.calls[c]
             IN  /\ call.phase \in {"resolved", "rejected"} => ~Concerns(cube, c)
                 /\ call.phase = "waiting" =>
                      call.left = Cardinality({i \in DOMAIN cube.queue : cube.queue[i].call = c})
                                  + IF cube.active.call = c THEN 1 ELSE 0
                 /\ call.exact
  <2>1. {i \in DOMAIN cube.queue : cube.queue[i].call = c} = Places(cube.queue, 0, c)
    <3>1. DOMAIN cube.queue = 1..Len(cube.queue) /\ 0 + 1 = 1
      BY <1>1 DEF CubeState
    <3>. QED  BY <3>1 DEF Places
  <2>2. Placed(cube, c)
    BY <1>1 DEF AllPlaced
  <2>3. Count(cube, c) = 0 => ~Concerns(cube, c)
    BY <1>1, <2>1, CountType DEF Concerns
  <2>. QED  BY <2>1, <2>2, <2>3 DEF Placed, Count
<1>3. Plays => (stopped <=> ~autoplay /\ cube.active = NoEntry)
  BY DEF CubeInv, Idle
<1>. QED  BY <1>2, <1>3 DEF QueueSound, CubeInv

\* However calls, resets, aborts, timers and views interleave, every call waits for
\* exactly the moves of its that are in the line, an answered one has none left,
\* expectedRevision is kept for each of its moves, and while it is watched the cube
\* plays on unless a scramble or a reset cancelled a move and was then refused.
THEOREM CallsWaitForTheirMoves == CubeSpec => []QueueSound
<1>1. CubeInit => CubeInv
  BY InitInv
<1>2. CubeInv /\ [CubeNext]_cubeVars => CubeInv'
  BY NextInv
<1>3. CubeInv => QueueSound
  BY InvSound
<1>. QED  BY <1>1, <1>2, <1>3, PTL DEF CubeSpec
=============================================================================
