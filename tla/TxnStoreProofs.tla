--------------------------- MODULE TxnStoreProofs ---------------------------
(***************************************************************************)
(* Transactions over one store, for every set of keys and transactions and *)
(* every history: what is in the store was committed, no update is lost,   *)
(* and the history of a serializable store has a serial order.             *)
(***************************************************************************)
EXTENDS TxnStore, SequenceTheorems, FiniteSetTheorems, TLAPS

Fates == {"none", "active", "committed", "conflict", "discarded"}

TxnRecords == [state : Fates, readonly : BOOLEAN, level : Levels \cup {"none"},
               view : [Keys -> Nat], got : SUBSET Keys, walked : SUBSET Keys,
               buf : SUBSET Keys, ops : 0..MaxOps]

Entries == [by : Txns \cup {"direct"}, reads : SUBSET Keys, view : [Keys -> Nat],
            writes : SUBSET Keys]

(* f is the last write of every key among the first n entries of l.        *)
IsLatest(l, n, f) == \A k \in Keys :
  /\ f[k] \in 0..n
  /\ \A i \in f[k] + 1..n : k \notin l[i].writes

StoreTypes ==
  /\ store \in Levels \cup {"none", "refused"}
  /\ txn \in [Txns -> TxnRecords]
  /\ latest \in [Keys -> Nat]
  /\ log \in Seq(Entries) /\ Len(log) <= MaxLog

(* Nothing happens before a store is open, and every transaction of it is  *)
(* at its level; a read-only one buffers nothing.                          *)
AtStoreLevel ==
  /\ store \notin Levels => log = <<>> /\ \A t \in Txns : txn[t].state = "none"
  /\ \A t \in Txns : /\ txn[t].state = "active" => txn[t].level = store
                     /\ txn[t].readonly => txn[t].buf = {}

(* latest is the present, and every view is the past of some moment.       *)
ViewsArePast ==
  /\ IsLatest(log, Len(log), latest)
  /\ \A t \in Txns : txn[t].state = "active" =>
       \E n \in 0..Len(log) : IsLatest(log, n, txn[t].view)
  /\ \A i \in 1..Len(log) : \E n \in 0..i - 1 : IsLatest(log, n, log[i].view)

(* A writer saw the last write, before its own, of each key it read.       *)
WritersReadTheLast ==
  store \in {"Serializable", "RepeatableRead"} =>
    \A j \in 1..Len(log) : log[j].writes # {} =>
      \A k \in log[j].reads : \A i \in log[j].view[k] + 1..j - 1 : k \notin log[i].writes

StoreInv ==
  /\ StoreTypes
  /\ AtStoreLevel
  /\ ViewsArePast
  /\ OnlyCommittedWrites
  /\ NoLostUpdate
  /\ WritersReadTheLast
-----------------------------------------------------------------------------
Fields == NumFields \cup EnumFields

(* An option value says nothing or one number.                             *)
OneAtMost(v) == v = {} \/ \E n \in Nat : v = {n}

(* The header and the engine half number the fields alike, each its own.   *)
LEMMA BitsAgree ==
  ASSUME NEW f \in Fields, NEW g \in Fields
  PROVE  HeaderBit[f] = RustBit[g] <=> f = g
  <1>1. f \in {"write_buffer_size", "block_cache_size", "max_background_compactions",
               "transaction_keys_inline", "compression", "durability", "isolation"}
    BY DEF Fields, NumFields, EnumFields
  <1>2. g \in {"write_buffer_size", "block_cache_size", "max_background_compactions",
               "transaction_keys_inline", "compression", "durability", "isolation"}
    BY DEF Fields, NumFields, EnumFields
  <1>3. HeaderBit = RustBit
    BY DEF HeaderBit, RustBit
  <1>4. QED
    BY <1>1, <1>2, <1>3 DEF RustBit

(* The Go names of an enumeration are the engine's variants, one value up. *)
LEMMA NamesAgree ==
  ASSUME NEW f \in EnumFields, NEW v \in Nat, v # 0, v <= Len(GoNames[f])
  PROVE  /\ HeaderValue[f][GoNames[f][v]] = v - 1
         /\ v - 1 < Len(RustVariant[f])
         /\ RustVariant[f][v] = GoNames[f][v]
  <1>1. CASE f = "compression"
    <2>1. v \in {1, 2, 3}
      BY <1>1 DEF GoNames
    <2>2. QED
      BY <1>1, <2>1 DEF GoNames, HeaderValue, RustVariant
  <1>2. CASE f = "durability"
    <2>1. v \in {1, 2}
      BY <1>2 DEF GoNames
    <2>2. QED
      BY <1>2, <2>1 DEF GoNames, HeaderValue, RustVariant
  <1>3. CASE f = "isolation"
    <2>1. v \in {1, 2, 3, 4}
      BY <1>3 DEF GoNames
    <2>2. QED
      BY <1>3, <2>1 DEF GoNames, HeaderValue, RustVariant
  <1>4. QED
    BY <1>1, <1>2, <1>3 DEF EnumFields

(* What the Go half can be asked for.                                      *)
LEMMA GoFields ==
  ASSUME NEW o \in GoOptions
  PROVE  /\ \A f \in NumFields : OneAtMost(o.num[f])
         /\ \A f \in EnumFields : o.enum[f] \in Nat
  <1>1. o.num \in [NumFields -> {{}} \cup {{v} : v \in NumValues}] /\ o.enum \in [EnumFields -> EnumValues]
    BY DEF GoOptions
  <1>2. \A f \in NumFields : OneAtMost(o.num[f])
    <2> SUFFICES ASSUME NEW f \in NumFields PROVE OneAtMost(o.num[f])
      OBVIOUS
    <2>1. o.num[f] \in {{}} \cup {{v} : v \in NumValues}
      BY <1>1
    <2>2. QED
      BY <2>1, OptionsAssumption DEF OneAtMost
  <1>3. \A f \in EnumFields : o.enum[f] \in Nat
    BY <1>1, OptionsAssumption
  <1>4. QED
    BY <1>2, <1>3

(* A field is marked present exactly when it was asked for.                *)
LEMMA AskedIsSet ==
  ASSUME NEW o \in GoOptions
  PROVE  /\ \A f \in NumFields : IsSet(ToC(o), f) <=> o.num[f] # {}
         /\ \A f \in EnumFields : IsSet(ToC(o), f) <=> o.enum[f] # 0
         /\ \A b \in ToC(o).present : \E f \in Fields : RustBit[f] = b
  <1> DEFINE nums  == {g \in NumFields : o.num[g] # {}}
             enums == {g \in EnumFields : o.enum[g] # 0}
  <1>1. ToC(o).present = {HeaderBit[f] : f \in nums} \cup {HeaderBit[f] : f \in enums}
    BY DEF ToC
  <1>2. nums \subseteq Fields /\ enums \subseteq Fields
    BY DEF Fields
  <1>3. \A f \in Fields : IsSet(ToC(o), f) <=> f \in nums \cup enums
    <2> HIDE DEF nums, enums
    <2> SUFFICES ASSUME NEW f \in Fields PROVE IsSet(ToC(o), f) <=> f \in nums \cup enums
      OBVIOUS
    <2>1. ASSUME NEW g \in nums \cup enums PROVE HeaderBit[g] = RustBit[f] <=> g = f
      BY <1>2, BitsAgree
    <2>2. IsSet(ToC(o), f) <=> \E g \in nums \cup enums : RustBit[f] = HeaderBit[g]
      BY <1>1 DEF IsSet
    <2>3. QED
      BY <2>1, <2>2
  <1>4. NumFields \cap EnumFields = {}
    BY DEF NumFields, EnumFields
  <1>5. \A b \in ToC(o).present : \E f \in Fields : RustBit[f] = b
    <2> HIDE DEF nums, enums
    <2> SUFFICES ASSUME NEW b \in ToC(o).present PROVE \E f \in Fields : RustBit[f] = b
      OBVIOUS
    <2>1. PICK g \in nums \cup enums : b = HeaderBit[g]
      BY <1>1
    <2>2. g \in Fields
      BY <1>2
    <2>3. HeaderBit[g] = RustBit[g]
      BY <2>2, BitsAgree
    <2>4. QED
      BY <2>1, <2>2, <2>3
  <1>6. QED
    BY <1>3, <1>4, <1>5 DEF Fields

(* What the flat struct holds in the fields it marks.                      *)
LEMMA CarriedValues ==
  ASSUME NEW o \in GoOptions, Named(o)
  PROVE  /\ \A f \in NumFields : o.num[f] # {} => ToC(o).num[f] \in Nat /\ o.num[f] = {ToC(o).num[f]}
         /\ \A f \in EnumFields : o.enum[f] # 0 =>
              /\ ToC(o).enum[f] = o.enum[f] - 1
              /\ ToC(o).enum[f] < Len(RustVariant[f])
              /\ RustVariant[f][ToC(o).enum[f] + 1] = GoNames[f][o.enum[f]]
  <1>1. ASSUME NEW f \in NumFields, o.num[f] # {}
        PROVE  ToC(o).num[f] \in Nat /\ o.num[f] = {ToC(o).num[f]}
    <2>1. PICK n \in Nat : o.num[f] = {n}
      BY <1>1, GoFields DEF OneAtMost
    <2>2. ToC(o).num[f] = NumToC(o.num[f])
      BY DEF ToC
    <2>3. NumToC({n}) = n
      BY DEF NumToC
    <2>4. QED
      BY <2>1, <2>2, <2>3
  <1>2. ASSUME NEW f \in EnumFields, o.enum[f] # 0
        PROVE  /\ ToC(o).enum[f] = o.enum[f] - 1
               /\ ToC(o).enum[f] < Len(RustVariant[f])
               /\ RustVariant[f][ToC(o).enum[f] + 1] = GoNames[f][o.enum[f]]
    <2>1. o.enum[f] \in Nat /\ o.enum[f] <= Len(GoNames[f])
      BY GoFields DEF Named
    <2>2. ToC(o).enum[f] = HeaderValue[f][GoNames[f][o.enum[f]]]
      BY <1>2 DEF ToC
    <2>3. /\ HeaderValue[f][GoNames[f][o.enum[f]]] = o.enum[f] - 1
          /\ o.enum[f] - 1 < Len(RustVariant[f])
          /\ RustVariant[f][o.enum[f]] = GoNames[f][o.enum[f]]
      BY <1>2, <2>1, NamesAgree
    <2>4. (o.enum[f] - 1) + 1 = o.enum[f]
      BY <2>1
    <2>5. QED
      BY <2>2, <2>3, <2>4
  <1>3. QED
    BY <1>1, <1>2

(* The engine half refuses what does not fit its numbers, and nothing      *)
(* else; the rest it resolves to what was asked for.                       *)
LEMMA OptionsArrive ==
  ASSUME NEW o \in GoOptions, Named(o)
  PROVE  /\ Rejected(ToC(o)) <=> \E f \in NumFields : \E v \in o.num[f] : v > MaxUsize
         /\ Resolved(ToC(o)) = Wanted(o)
  <1>1. /\ \A f \in NumFields : IsSet(ToC(o), f) <=> o.num[f] # {}
        /\ \A f \in EnumFields : IsSet(ToC(o), f) <=> o.enum[f] # 0
        /\ \A b \in ToC(o).present : \E f \in Fields : RustBit[f] = b
    BY AskedIsSet
  <1>2. /\ \A f \in NumFields : o.num[f] # {} => ToC(o).num[f] \in Nat /\ o.num[f] = {ToC(o).num[f]}
        /\ \A f \in EnumFields : o.enum[f] # 0 =>
             /\ ToC(o).enum[f] = o.enum[f] - 1
             /\ ToC(o).enum[f] < Len(RustVariant[f])
             /\ RustVariant[f][ToC(o).enum[f] + 1] = GoNames[f][o.enum[f]]
    BY CarriedValues
  <1>3. \A f \in EnumFields : Len(RustVariant[f]) \in Nat /\ o.enum[f] \in Nat
    BY GoFields DEF EnumFields, RustVariant
  <1>4. Rejected(ToC(o)) <=> \E f \in NumFields : IsSet(ToC(o), f) /\ ToC(o).num[f] > MaxUsize
    <2>1. ~ \E b \in ToC(o).present : \A f \in NumFields \cup EnumFields : RustBit[f] # b
      BY <1>1 DEF Fields
    <2>2. ASSUME NEW f \in EnumFields, IsSet(ToC(o), f), ToC(o).enum[f] >= Len(RustVariant[f])
          PROVE  FALSE
      BY <1>1, <1>2, <1>3, <2>2
    <2>3. QED
      BY <2>1, <2>2 DEF Rejected
  <1>5. ASSUME NEW f \in NumFields
        PROVE  (IsSet(ToC(o), f) /\ ToC(o).num[f] > MaxUsize) <=> \E v \in o.num[f] : v > MaxUsize
    <2>1. CASE o.num[f] = {}
      BY <1>1, <2>1
    <2>2. CASE o.num[f] # {}
      <3>1. IsSet(ToC(o), f) /\ o.num[f] = {ToC(o).num[f]}
        BY <1>1, <1>2, <2>2
      <3>2. QED
        BY <3>1
    <2>3. QED
      BY <2>1, <2>2
  <1>6. ASSUME NEW f \in NumFields \cup EnumFields
        PROVE  Resolved(ToC(o))[f] = Wanted(o)[f]
    <2>1. NumFields \cap EnumFields = {}
      BY DEF NumFields, EnumFields
    <2>2. CASE f \in NumFields
      <3>1. Resolved(ToC(o))[f] = IF ~IsSet(ToC(o), f) THEN {} ELSE {ToC(o).num[f]}
        BY <2>2 DEF Resolved
      <3>2. Wanted(o)[f] = o.num[f]
        BY <2>2 DEF Wanted
      <3>3. QED
        BY <1>1, <1>2, <2>2, <3>1, <3>2
    <2>3. CASE f \in EnumFields
      <3>1. f \notin NumFields
        BY <2>1, <2>3
      <3>2. Resolved(ToC(o))[f] = IF ~IsSet(ToC(o), f) THEN {} ELSE {RustVariant[f][ToC(o).enum[f] + 1]}
        BY <2>3, <3>1 DEF Resolved
      <3>3. Wanted(o)[f] = IF o.enum[f] = 0 THEN {} ELSE {GoNames[f][o.enum[f]]}
        BY <2>3, <3>1 DEF Wanted
      <3>4. QED
        BY <1>1, <1>2, <2>3, <3>2, <3>3
    <2>4. QED
      BY <2>2, <2>3
  <1>7. /\ Resolved(ToC(o)) = [f \in NumFields \cup EnumFields |-> Resolved(ToC(o))[f]]
        /\ Wanted(o) = [f \in NumFields \cup EnumFields |-> Wanted(o)[f]]
    BY DEF Resolved, Wanted
  <1>8. Resolved(ToC(o)) = Wanted(o)
    BY <1>6, <1>7
  <1>9. QED
    BY <1>4, <1>5, <1>8

(* An open is refused for an option exactly when the option is invalid.    *)
LEMMA RefusedIsInvalid ==
  ASSUME NEW o \in GoOptions
  PROVE  /\ Invalid(o) <=> (~Named(o) \/ Rejected(ToC(o)) \/ ~EngineAccepts(Resolved(ToC(o))))
         /\ ~Invalid(o) => Resolved(ToC(o)) = Wanted(o) /\ Wanted(o)["isolation"] \subseteq Levels
  <1>1. CASE ~Named(o)
    BY <1>1 DEF Invalid
  <1>2. CASE Named(o)
    <2>1. /\ Rejected(ToC(o)) <=> \E f \in NumFields : \E v \in o.num[f] : v > MaxUsize
          /\ Resolved(ToC(o)) = Wanted(o)
      BY <1>2, OptionsArrive
    <2>2. Wanted(o)["write_buffer_size"] = o.num["write_buffer_size"]
      BY DEF Wanted, NumFields
    <2>3. EngineAccepts(Resolved(ToC(o))) <=> o.num["write_buffer_size"] # {0}
      BY <2>1, <2>2 DEF EngineAccepts
    <2>4. "isolation" \in EnumFields /\ "isolation" \notin NumFields
      BY DEF EnumFields, NumFields
    <2>5. Wanted(o)["isolation"] = IF o.enum["isolation"] = 0 THEN {} ELSE {GoNames["isolation"][o.enum["isolation"]]}
      BY <2>4 DEF Wanted
    <2>6. o.enum["isolation"] \in Nat /\ o.enum["isolation"] <= 4
      <3>1. Len(GoNames["isolation"]) = 4
        BY DEF GoNames
      <3>2. QED
        BY <1>2, <2>4, <3>1, GoFields DEF Named
    <2>7. o.enum["isolation"] # 0 => GoNames["isolation"][o.enum["isolation"]] \in Levels
      BY <2>6 DEF GoNames, Levels
    <2>8. QED
      BY <1>2, <2>1, <2>3, <2>5, <2>7 DEF Invalid
  <1>3. QED
    BY <1>1, <1>2
-----------------------------------------------------------------------------
(* Entries a log keeps, and what a new one is.                             *)
LEMMA AppendedEntries ==
  ASSUME NEW l \in Seq(Entries), NEW e \in Entries
  PROVE  /\ Append(l, e) \in Seq(Entries)
         /\ Len(l) \in Nat /\ Len(Append(l, e)) = Len(l) + 1
         /\ \A i \in 1..Len(l) : l[i] \in Entries /\ Append(l, e)[i] = l[i]
         /\ Append(l, e)[Len(l) + 1] = e
  OBVIOUS

(* A moment that is past stays as it was.                                  *)
LEMMA PastStays ==
  ASSUME NEW l \in Seq(Entries), NEW e \in Entries, NEW n \in 0..Len(l), NEW f, IsLatest(l, n, f)
  PROVE  IsLatest(Append(l, e), n, f)
  <1>1. \A i \in 1..Len(l) : Append(l, e)[i] = l[i]
    BY AppendedEntries
  <1>2. Len(l) \in Nat
    BY AppendedEntries
  <1>3. \A k \in Keys : \A i \in f[k] + 1..n : i \in 1..Len(l)
    BY <1>2 DEF IsLatest
  <1>4. QED
    BY <1>1, <1>3 DEF IsLatest

(* A commit moves the present by its own writes.                           *)
LEMMA PresentMoves ==
  ASSUME NEW l \in Seq(Entries), NEW e \in Entries, NEW f, NEW g, IsLatest(l, Len(l), f),
         g = [k \in Keys |-> IF k \in e.writes THEN Len(l) + 1 ELSE f[k]]
  PROVE  IsLatest(Append(l, e), Len(l) + 1, g)
  <1>1. /\ Len(l) \in Nat
        /\ \A i \in 1..Len(l) : Append(l, e)[i] = l[i]
        /\ Append(l, e)[Len(l) + 1] = e
    BY AppendedEntries
  <1> SUFFICES ASSUME NEW k \in Keys
               PROVE  /\ g[k] \in 0..Len(l) + 1
                      /\ \A i \in g[k] + 1..Len(l) + 1 : k \notin Append(l, e)[i].writes
    BY DEF IsLatest
  <1>2. f[k] \in 0..Len(l) /\ \A i \in f[k] + 1..Len(l) : k \notin l[i].writes
    BY DEF IsLatest
  <1>3. CASE k \in e.writes
    <2>1. g[k] = Len(l) + 1
      BY <1>3
    <2>2. QED
      BY <1>1, <2>1
  <1>4. CASE k \notin e.writes
    <2>1. g[k] = f[k]
      BY <1>4
    <2>2. ASSUME NEW i \in f[k] + 1..Len(l) + 1
          PROVE  k \notin Append(l, e)[i].writes
      <3>1. CASE i = Len(l) + 1
        BY <1>1, <1>4, <3>1
      <3>2. CASE i # Len(l) + 1
        <4>1. i \in f[k] + 1..Len(l) /\ i \in 1..Len(l)
          BY <1>1, <1>2, <3>2
        <4>2. QED
          BY <1>1, <1>2, <4>1
      <3>3. QED
        BY <3>1, <3>2
    <2>3. QED
      BY <1>1, <1>2, <2>1, <2>2
  <1>5. QED
    BY <1>3, <1>4

(* The fields of a transaction.                                            *)
LEMMA TxnFields ==
  ASSUME NEW r \in TxnRecords
  PROVE  /\ r.state \in Fates /\ r.readonly \in BOOLEAN /\ r.level \in Levels \cup {"none"}
         /\ r.view \in [Keys -> Nat] /\ r.got \subseteq Keys /\ r.walked \subseteq Keys
         /\ r.buf \subseteq Keys /\ r.ops \in 0..MaxOps
  BY DEF TxnRecords

(* A transaction before it begins.                                         *)
LEMMA NoTxnType == /\ NoTxn \in TxnRecords
                   /\ NoTxn.state = "none" /\ NoTxn.readonly = FALSE /\ NoTxn.buf = {}
  <1>1. 0 \in 0..MaxOps
    BY TxnStoreAssumption
  <1>2. [k \in Keys |-> 0] \in [Keys -> Nat]
    OBVIOUS
  <1>3. QED
    BY <1>1, <1>2 DEF NoTxn, TxnRecords, Fates

(* A transaction once it is resolved.                                      *)
LEMMA TakenIs ==
  ASSUME StoreTypes, NEW t \in Txns, NEW fate \in {"committed", "conflict", "discarded"}
  PROVE  /\ Taken(t, fate) \in TxnRecords
         /\ Taken(t, fate).state = fate
         /\ Taken(t, fate).readonly = txn[t].readonly
         /\ Taken(t, fate).buf = IF fate = "committed" THEN txn[t].buf ELSE {}
  <1>1. txn[t] \in TxnRecords
    BY DEF StoreTypes
  <1>2. txn[t].readonly \in BOOLEAN /\ txn[t].buf \subseteq Keys
    BY <1>1, TxnFields
  <1>3. fate \in Fates
    BY DEF Fates
  <1>4. 0 \in 0..MaxOps
    BY TxnStoreAssumption
  <1>5. [k \in Keys |-> 0] \in [Keys -> Nat]
    OBVIOUS
  <1>6. QED
    BY <1>2, <1>3, <1>4, <1>5 DEF Taken, NoTxn, TxnRecords

(* Before the store is opened.                                             *)
LEMMA StoreInit == Init => StoreInv
  <1> SUFFICES ASSUME Init PROVE StoreInv
    OBVIOUS
  <1>1. log = <<>> /\ Len(log) = 0 /\ txn = [t \in Txns |-> NoTxn] /\ store = "none"
    BY DEF Init
  <1>2. latest \in [Keys -> Nat] /\ \A k \in Keys : latest[k] = 0
    BY DEF Init
  <1>3. log \in Seq(Entries) /\ 0 <= MaxLog
    BY <1>1, TxnStoreAssumption
  <1>4. StoreTypes
    BY <1>1, <1>2, <1>3, NoTxnType DEF StoreTypes
  <1>5. AtStoreLevel
    BY <1>1, NoTxnType DEF AtStoreLevel
  <1>6. IsLatest(log, Len(log), latest)
    BY <1>1, <1>2 DEF IsLatest
  <1>7. ViewsArePast
    BY <1>1, <1>6, NoTxnType DEF ViewsArePast
  <1>8. QED
    BY <1>1, <1>4, <1>5, <1>7 DEF StoreInv, OnlyCommittedWrites, NoLostUpdate, WritersReadTheLast
-----------------------------------------------------------------------------
(* A step of one transaction that writes nothing to the store: what it     *)
(* must keep for the invariant to hold.                                    *)
Quiet(t, r) ==
  /\ r \in TxnRecords
  /\ txn' = [txn EXCEPT ![t] = r]
  /\ txn[t].state \in {"none", "active"} /\ r.state # "committed"
  /\ r.readonly => r.buf = {}
  /\ r.state = "active" => /\ store \in Levels /\ r.level = store
                           /\ \E n \in 0..Len(log) : IsLatest(log, n, r.view)
  /\ store \notin Levels => r.state = "none"
  /\ UNCHANGED <<store, latest, log>>

(* Such a step keeps the invariant: what committed stays as it was.        *)
LEMMA QuietKeeps ==
  ASSUME StoreInv, NEW t \in Txns, NEW r, Quiet(t, r)
  PROVE  StoreInv'
  <1>1. /\ txn' = [txn EXCEPT ![t] = r] /\ r \in TxnRecords
        /\ store' = store /\ latest' = latest /\ log' = log
    BY DEF Quiet
  <1>2. StoreTypes /\ txn \in [Txns -> TxnRecords]
    BY DEF StoreInv, StoreTypes
  <1>3. txn'[t] = r /\ \A u \in Txns \ {t} : txn'[u] = txn[u]
    BY <1>1, <1>2
  <1>4. StoreTypes'
    BY <1>1, <1>2 DEF StoreTypes
  <1>5. AtStoreLevel'
    BY <1>1, <1>3 DEF StoreInv, AtStoreLevel, Quiet
  <1>6. ViewsArePast'
    <2>1. \A i \in 1..Len(log) : \E n \in 0..i - 1 : IsLatest(log, n, log[i].view)
      BY DEF StoreInv, ViewsArePast
    <2>2. IsLatest(log, Len(log), latest)
      BY DEF StoreInv, ViewsArePast
    <2>3. \A u \in Txns : txn'[u].state = "active" => \E n \in 0..Len(log) : IsLatest(log, n, txn'[u].view)
      BY <1>3 DEF StoreInv, ViewsArePast, Quiet
    <2>4. QED
      BY <1>1, <2>1, <2>2, <2>3 DEF ViewsArePast, IsLatest
  <1>7. OnlyCommittedWrites'
    <2> SUFFICES ASSUME NEW i \in 1..Len(log), log[i].by # "direct", log[i].writes # {}
                 PROVE  /\ txn'[log[i].by].state = "committed" /\ ~txn'[log[i].by].readonly
                        /\ log[i].writes = txn'[log[i].by].buf
      BY <1>1 DEF OnlyCommittedWrites
    <2>1. /\ txn[log[i].by].state = "committed" /\ ~txn[log[i].by].readonly
          /\ log[i].writes = txn[log[i].by].buf
      BY DEF StoreInv, OnlyCommittedWrites
    <2>2. log[i] \in Entries
      BY <1>2 DEF StoreTypes
    <2>3. log[i].by \in Txns
      BY <2>2 DEF Entries
    <2>4. log[i].by # t
      BY <2>1 DEF Quiet
    <2>5. QED
      BY <1>3, <2>1, <2>3, <2>4
  <1>8. NoLostUpdate' /\ WritersReadTheLast'
    BY <1>1 DEF StoreInv, NoLostUpdate, WritersReadTheLast
  <1>9. QED
    BY <1>4, <1>5, <1>6, <1>7, <1>8 DEF StoreInv

(* Opening: nothing has happened, and the level is one of the four.        *)
LEMMA OpenKeeps == StoreInv /\ OpenWith => StoreInv'
  <1> SUFFICES ASSUME StoreInv, OpenWith PROVE StoreInv'
    OBVIOUS
  <1>1. store = "none" /\ txn' = txn /\ latest' = latest /\ log' = log
    BY DEF OpenWith
  <1>2. store' \in Levels \cup {"refused"}
    <2>1. PICK o \in GoOptions, cannot \in BOOLEAN :
            IF cannot \/ ~Named(o) \/ Rejected(ToC(o)) \/ ~EngineAccepts(Resolved(ToC(o)))
              THEN store' = "refused"
              ELSE store' \in IF Resolved(ToC(o))["isolation"] = {} THEN {DefaultIsolation}
                              ELSE Resolved(ToC(o))["isolation"]
      BY DEF OpenWith
    <2>2. CASE Invalid(o) \/ cannot
      BY <2>1, <2>2, RefusedIsInvalid
    <2>3. CASE ~(Invalid(o) \/ cannot)
      <3>1. Resolved(ToC(o)) = Wanted(o) /\ Wanted(o)["isolation"] \subseteq Levels
        BY <2>3, RefusedIsInvalid
      <3>2. DefaultIsolation \in Levels
        BY DEF DefaultIsolation, Levels
      <3>3. store' \in IF Wanted(o)["isolation"] = {} THEN {DefaultIsolation} ELSE Wanted(o)["isolation"]
        BY <2>1, <2>3, <3>1, RefusedIsInvalid
      <3>4. QED
        BY <3>1, <3>2, <3>3
    <2>4. QED
      BY <2>2, <2>3
  <1>3. store \notin Levels
    BY <1>1 DEF Levels
  <1>4. log = <<>> /\ Len(log) = 0 /\ \A t \in Txns : txn[t].state = "none"
    BY <1>3 DEF StoreInv, AtStoreLevel
  <1>5. StoreTypes'
    BY <1>1, <1>2 DEF StoreInv, StoreTypes
  <1>6. AtStoreLevel'
    BY <1>1, <1>4 DEF StoreInv, AtStoreLevel
  <1>7. ViewsArePast'
    BY <1>1 DEF StoreInv, ViewsArePast, IsLatest
  <1>8. OnlyCommittedWrites' /\ NoLostUpdate'
    BY <1>1, <1>4 DEF OnlyCommittedWrites, NoLostUpdate
  <1>9. WritersReadTheLast'
    BY <1>1, <1>4 DEF WritersReadTheLast
  <1>10. QED
    BY <1>5, <1>6, <1>7, <1>8, <1>9 DEF StoreInv

(* A new entry of the log: no later than the present it reads, over        *)
(* nothing it has not seen if it is a transaction's, and at the levels     *)
(* that validate reads having read the last of everything if it writes.    *)
Logged(e) ==
  /\ e \in Entries /\ store \in Levels /\ Len(log) < MaxLog
  /\ \E n \in 0..Len(log) : IsLatest(log, n, e.view)
  /\ e.by # "direct" =>
       \A k \in e.writes : \A i \in e.view[k] + 1..Len(log) : k \notin log[i].writes
  /\ store \in {"Serializable", "RepeatableRead"} /\ e.writes # {} =>
       \A k \in e.reads : \A i \in e.view[k] + 1..Len(log) : k \notin log[i].writes
  /\ log' = Append(log, e)
  /\ latest' = [k \in Keys |-> IF k \in e.writes THEN Len(log) + 1 ELSE latest[k]]
  /\ store' = store

(* Such an entry keeps what is said of the log, if the transactions still  *)
(* active are as they were.                                                *)
LEMMA LoggedKeeps ==
  ASSUME StoreInv, NEW e, Logged(e),
         txn' \in [Txns -> TxnRecords],
         \A t \in Txns : txn'[t].state = "active" => txn'[t] = txn[t]
  PROVE  StoreTypes' /\ ViewsArePast' /\ NoLostUpdate' /\ WritersReadTheLast'
  <1>1. /\ e \in Entries /\ log \in Seq(Entries) /\ latest \in [Keys -> Nat]
        /\ log' = Append(log, e) /\ store' = store /\ store \in Levels
        /\ Len(log) < MaxLog
    BY DEF Logged, StoreInv, StoreTypes
  <1>2. /\ log' \in Seq(Entries) /\ Len(log) \in Nat /\ Len(log') = Len(log) + 1
        /\ \A i \in 1..Len(log) : log[i] \in Entries /\ log'[i] = log[i]
        /\ log'[Len(log) + 1] = e
    BY <1>1, AppendedEntries
  <1>3. StoreTypes'
    <2>1. latest' \in [Keys -> Nat]
      BY <1>1, <1>2 DEF Logged
    <2>2. QED
      BY <1>1, <1>2, <2>1, TxnStoreAssumption DEF StoreTypes
  <1>4. ViewsArePast'
    <2>1. IsLatest(log', Len(log'), latest')
      <3>1. IsLatest(log, Len(log), latest)
        BY DEF StoreInv, ViewsArePast
      <3>2. latest' = [k \in Keys |-> IF k \in e.writes THEN Len(log) + 1 ELSE latest[k]]
        BY DEF Logged
      <3>3. IsLatest(Append(log, e), Len(log) + 1, latest')
        BY <1>1, <3>1, <3>2, PresentMoves
      <3>4. QED
        BY <1>1, <1>2, <3>3
    <2>2. ASSUME NEW t \in Txns, txn'[t].state = "active"
          PROVE  \E n \in 0..Len(log') : IsLatest(log', n, txn'[t].view)
      <3>1. txn'[t] = txn[t]
        BY <2>2
      <3>2. PICK n \in 0..Len(log) : IsLatest(log, n, txn[t].view)
        BY <2>2, <3>1 DEF StoreInv, ViewsArePast
      <3>3. IsLatest(log', n, txn[t].view)
        BY <1>1, <3>2, PastStays
      <3>4. n \in 0..Len(log')
        BY <1>2
      <3>5. QED
        BY <3>1, <3>3, <3>4
    <2>3. ASSUME NEW i \in 1..Len(log')
          PROVE  \E n \in 0..i - 1 : IsLatest(log', n, log'[i].view)
      <3>1. CASE i = Len(log) + 1
        <4>1. PICK n \in 0..Len(log) : IsLatest(log, n, e.view)
          BY DEF Logged
        <4>2. IsLatest(log', n, e.view)
          BY <1>1, <4>1, PastStays
        <4>3. n \in 0..i - 1 /\ log'[i] = e
          BY <1>2, <3>1
        <4>4. QED
          BY <4>2, <4>3
      <3>2. CASE i # Len(log) + 1
        <4>1. i \in 1..Len(log) /\ log'[i] = log[i]
          BY <1>2, <3>2
        <4>2. PICK n \in 0..i - 1 : IsLatest(log, n, log[i].view)
          BY <4>1 DEF StoreInv, ViewsArePast
        <4>3. n \in 0..Len(log)
          BY <1>2, <4>1
        <4>4. IsLatest(log', n, log[i].view)
          BY <1>1, <4>2, <4>3, PastStays
        <4>5. QED
          BY <4>1, <4>4
      <3>3. QED
        BY <3>1, <3>2
    <2>4. QED
      BY <2>1, <2>2, <2>3 DEF ViewsArePast
  <1>5. NoLostUpdate'
    <2> SUFFICES ASSUME NEW j \in 1..Len(log'), NEW k \in log'[j].writes, log'[j].by # "direct",
                        NEW i \in log'[j].view[k] + 1..j - 1
                 PROVE  k \notin log'[i].writes
      BY DEF NoLostUpdate
    <2>1. CASE j = Len(log) + 1
      <3>1. log'[j] = e /\ j - 1 = Len(log)
        BY <1>2, <2>1
      <3>2. k \in Keys /\ e.view[k] \in Nat
        BY <1>1, <3>1 DEF Entries
      <3>3. i \in e.view[k] + 1..Len(log) /\ i \in 1..Len(log)
        BY <1>2, <3>1, <3>2
      <3>4. QED
        BY <1>2, <3>1, <3>3 DEF Logged
    <2>2. CASE j # Len(log) + 1
      <3>1. j \in 1..Len(log) /\ log'[j] = log[j] /\ log[j] \in Entries
        BY <1>2, <2>2
      <3>2. k \in Keys /\ log[j].view[k] \in Nat
        BY <3>1 DEF Entries
      <3>3. i \in 1..Len(log) /\ i \in log[j].view[k] + 1..j - 1
        BY <1>2, <3>1, <3>2
      <3>4. QED
        BY <1>2, <3>1, <3>3 DEF StoreInv, NoLostUpdate
    <2>3. QED
      BY <2>1, <2>2
  <1>6. WritersReadTheLast'
    <2> SUFFICES ASSUME store \in {"Serializable", "RepeatableRead"},
                        NEW j \in 1..Len(log'), log'[j].writes # {}, NEW k \in log'[j].reads,
                        NEW i \in log'[j].view[k] + 1..j - 1
                 PROVE  k \notin log'[i].writes
      BY <1>1 DEF WritersReadTheLast
    <2>1. CASE j = Len(log) + 1
      <3>1. log'[j] = e /\ j - 1 = Len(log)
        BY <1>2, <2>1
      <3>2. k \in Keys /\ e.view[k] \in Nat
        BY <1>1, <3>1 DEF Entries
      <3>3. i \in e.view[k] + 1..Len(log) /\ i \in 1..Len(log)
        BY <1>2, <3>1, <3>2
      <3>4. QED
        BY <1>2, <3>1, <3>3 DEF Logged
    <2>2. CASE j # Len(log) + 1
      <3>1. j \in 1..Len(log) /\ log'[j] = log[j] /\ log[j] \in Entries
        BY <1>2, <2>2
      <3>2. k \in Keys /\ log[j].view[k] \in Nat
        BY <3>1 DEF Entries
      <3>3. i \in 1..Len(log) /\ i \in log[j].view[k] + 1..j - 1
        BY <1>2, <3>1, <3>2
      <3>4. QED
        BY <1>2, <3>1, <3>3 DEF StoreInv, WritersReadTheLast
    <2>3. QED
      BY <2>1, <2>2
  <1>7. QED
    BY <1>3, <1>4, <1>5, <1>6

(* A write outside of any transaction.                                     *)
LEMMA DirectKeeps ==
  ASSUME StoreInv, NEW ks \in SUBSET Keys, DirectWrite(ks)
  PROVE  StoreInv'
  <1> DEFINE e == [by |-> "direct", reads |-> {}, view |-> latest, writes |-> ks]
  <1>1. /\ log \in Seq(Entries) /\ latest \in [Keys -> Nat] /\ txn \in [Txns -> TxnRecords]
        /\ IsLatest(log, Len(log), latest)
    BY DEF StoreInv, StoreTypes, ViewsArePast
  <1>2. e \in Entries /\ e.by = "direct" /\ e.reads = {} /\ e.view = latest /\ e.writes = ks
    BY <1>1 DEF Entries
  <1>3. /\ log' = Append(log, e) /\ txn' = txn /\ store' = store /\ store \in Levels
        /\ latest' = [k \in Keys |-> IF k \in ks THEN Len(log) + 1 ELSE latest[k]]
        /\ Len(log) < MaxLog
    BY DEF DirectWrite
  <1> HIDE DEF e
  <1>4. Len(log) \in 0..Len(log)
    BY <1>1
  <1>5. Logged(e)
    BY <1>1, <1>2, <1>3, <1>4 DEF Logged
  <1>6. StoreTypes' /\ ViewsArePast' /\ NoLostUpdate' /\ WritersReadTheLast'
    BY <1>1, <1>3, <1>5, LoggedKeeps
  <1>7. /\ Len(log) \in Nat /\ Len(log') = Len(log) + 1
        /\ \A i \in 1..Len(log) : log'[i] = log[i]
        /\ log'[Len(log) + 1] = e
    BY <1>1, <1>2, <1>3, AppendedEntries
  <1>8. AtStoreLevel'
    BY <1>3 DEF StoreInv, AtStoreLevel
  <1>9. OnlyCommittedWrites'
    <2> SUFFICES ASSUME NEW i \in 1..Len(log'), log'[i].by # "direct", log'[i].writes # {}
                 PROVE  /\ txn[log'[i].by].state = "committed" /\ ~txn[log'[i].by].readonly
                        /\ log'[i].writes = txn[log'[i].by].buf
      BY <1>3 DEF OnlyCommittedWrites
    <2>1. i \in 1..Len(log) /\ log'[i] = log[i]
      BY <1>2, <1>7
    <2>2. QED
      BY <2>1 DEF StoreInv, OnlyCommittedWrites
  <1>10. QED
    BY <1>6, <1>8, <1>9 DEF StoreInv

(* What an active transaction is.                                          *)
LEMMA ActiveIs ==
  ASSUME StoreInv, NEW t \in Txns, Active(t)
  PROVE  /\ store \in Levels /\ txn[t] \in TxnRecords /\ txn[t].level = store
         /\ txn[t].readonly => txn[t].buf = {}
         /\ \E n \in 0..Len(log) : IsLatest(log, n, txn[t].view)
  <1>1. txn[t].state = "active"
    BY DEF Active
  <1>2. store \in Levels
    BY <1>1 DEF StoreInv, AtStoreLevel
  <1>3. QED
    BY <1>1, <1>2 DEF StoreInv, AtStoreLevel, StoreTypes, ViewsArePast

(* A transaction that passes validation has seen the last of everything    *)
(* it writes, and at the levels that promise it of everything it reads.    *)
LEMMA ValidatedIsLast ==
  ASSUME StoreInv, NEW t \in Txns, Active(t), ~Conflicts(t)
  PROVE  /\ \A k \in txn[t].buf : \A i \in txn[t].view[k] + 1..Len(log) : k \notin log[i].writes
         /\ store \in {"Serializable", "RepeatableRead"} =>
              \A k \in ReadsOf(t) : \A i \in txn[t].view[k] + 1..Len(log) : k \notin log[i].writes
  <1>1. txn[t].level = store /\ txn[t] \in TxnRecords
    BY ActiveIs
  <1>2. txn[t].got \subseteq Keys /\ txn[t].walked \subseteq Keys /\ txn[t].buf \subseteq Keys
    BY <1>1, TxnFields
  <1>3. \A k \in Validated(t) : latest[k] = txn[t].view[k]
    BY DEF Conflicts
  <1>4. \A k \in Keys : \A i \in latest[k] + 1..Len(log) : k \notin log[i].writes
    BY DEF StoreInv, ViewsArePast, IsLatest
  <1>5. txn[t].buf \subseteq Validated(t)
    BY DEF Validated
  <1>6. store \in {"Serializable", "RepeatableRead"} => ReadsOf(t) \subseteq Validated(t)
    BY <1>1 DEF Validated, ReadsOf
  <1>7. ReadsOf(t) \subseteq Keys
    BY <1>2 DEF ReadsOf
  <1>8. QED
    BY <1>2, <1>3, <1>4, <1>5, <1>6, <1>7

(* A commit that is let through.                                           *)
LEMMA CommitKeeps ==
  ASSUME StoreInv, NEW t \in Txns, Active(t), ~Conflicts(t) \/ txn[t].buf = {}, Apply(t),
         txn' = [txn EXCEPT ![t] = Taken(t, "committed")], store' = store
  PROVE  StoreInv'
  <1> DEFINE e == [by |-> t, reads |-> ReadsOf(t), view |-> txn[t].view, writes |-> txn[t].buf]
  <1>1. log \in Seq(Entries) /\ txn \in [Txns -> TxnRecords] /\ StoreTypes
    BY DEF StoreInv, StoreTypes
  <1>2. /\ store \in Levels /\ txn[t] \in TxnRecords /\ txn[t].level = store
        /\ txn[t].readonly => txn[t].buf = {}
        /\ \E n \in 0..Len(log) : IsLatest(log, n, txn[t].view)
    BY ActiveIs
  <1>3. e \in Entries /\ e.by = t /\ e.reads = ReadsOf(t) /\ e.view = txn[t].view /\ e.writes = txn[t].buf
    <2>1. /\ txn[t].view \in [Keys -> Nat] /\ txn[t].got \subseteq Keys /\ txn[t].walked \subseteq Keys
          /\ txn[t].buf \subseteq Keys
      BY <1>2, TxnFields
    <2>2. ReadsOf(t) \subseteq Keys
      BY <2>1 DEF ReadsOf
    <2>3. QED
      BY <2>1, <2>2 DEF Entries
  <1>4. /\ log' = Append(log, e) /\ Len(log) < MaxLog
        /\ latest' = [k \in Keys |-> IF k \in txn[t].buf THEN Len(log) + 1 ELSE latest[k]]
    BY DEF Apply
  <1> HIDE DEF e
  <1>5. Logged(e)
    <2>1. txn[t].buf # {} => ~Conflicts(t)
      OBVIOUS
    <2>2. \A k \in e.writes : \A i \in e.view[k] + 1..Len(log) : k \notin log[i].writes
      BY <1>3, <2>1, ValidatedIsLast
    <2>3. store \in {"Serializable", "RepeatableRead"} /\ e.writes # {} =>
            \A k \in e.reads : \A i \in e.view[k] + 1..Len(log) : k \notin log[i].writes
      BY <1>3, <2>1, ValidatedIsLast
    <2>4. QED
      BY <1>2, <1>3, <1>4, <2>2, <2>3 DEF Logged
  <1>6. /\ Taken(t, "committed") \in TxnRecords /\ Taken(t, "committed").state = "committed"
        /\ Taken(t, "committed").readonly = txn[t].readonly
        /\ Taken(t, "committed").buf = txn[t].buf
    BY <1>1, TakenIs
  <1>7. /\ txn' \in [Txns -> TxnRecords]
        /\ txn'[t] = Taken(t, "committed")
        /\ \A u \in Txns \ {t} : txn'[u] = txn[u]
    BY <1>1, <1>6
  <1>8. StoreTypes' /\ ViewsArePast' /\ NoLostUpdate' /\ WritersReadTheLast'
    BY <1>5, <1>6, <1>7, LoggedKeeps
  <1>9. /\ Len(log) \in Nat /\ Len(log') = Len(log) + 1
        /\ \A i \in 1..Len(log) : log[i] \in Entries /\ log'[i] = log[i]
        /\ log'[Len(log) + 1] = e
    BY <1>1, <1>3, <1>4, AppendedEntries
  <1>10. AtStoreLevel'
    BY <1>2, <1>6, <1>7 DEF StoreInv, AtStoreLevel
  <1>11. OnlyCommittedWrites'
    <2> SUFFICES ASSUME NEW i \in 1..Len(log'), log'[i].by # "direct", log'[i].writes # {}
                 PROVE  /\ txn'[log'[i].by].state = "committed" /\ ~txn'[log'[i].by].readonly
                        /\ log'[i].writes = txn'[log'[i].by].buf
      BY DEF OnlyCommittedWrites
    <2>1. CASE i = Len(log) + 1
      BY <1>2, <1>3, <1>6, <1>7, <1>9, <2>1
    <2>2. CASE i # Len(log) + 1
      <3>1. i \in 1..Len(log) /\ log'[i] = log[i] /\ log[i] \in Entries
        BY <1>9, <2>2
      <3>2. /\ txn[log[i].by].state = "committed" /\ ~txn[log[i].by].readonly
            /\ log[i].writes = txn[log[i].by].buf
        BY <3>1 DEF StoreInv, OnlyCommittedWrites
      <3>3. log[i].by \in Txns \ {t}
        BY <3>1, <3>2 DEF Entries, Active
      <3>4. QED
        BY <1>7, <3>1, <3>2, <3>3
    <2>3. QED
      BY <2>1, <2>2
  <1>12. QED
    BY <1>8, <1>10, <1>11 DEF StoreInv

(* Beginning, reading, scanning, writing, discarding, and a commit that    *)
(* answers ErrConflict are quiet.                                          *)
LEMMA BeginIsQuiet ==
  ASSUME StoreInv, NEW t \in Txns, NEW readOnly \in BOOLEAN, Begin(t, readOnly)
  PROVE  \E r : Quiet(t, r)
  <1> DEFINE r == [NoTxn EXCEPT !.state = "active", !.readonly = readOnly,
                                !.level = store, !.view = latest]
  <1>1. latest \in [Keys -> Nat] /\ log \in Seq(Entries) /\ IsLatest(log, Len(log), latest)
    BY DEF StoreInv, StoreTypes, ViewsArePast
  <1>2. store \in Levels /\ txn[t].state = "none" /\ txn' = [txn EXCEPT ![t] = r]
        /\ UNCHANGED <<store, latest, log>>
    BY DEF Begin
  <1>3. /\ r \in TxnRecords /\ r.state = "active" /\ r.level = store /\ r.view = latest
        /\ r.buf = {}
    BY <1>1, <1>2, NoTxnType DEF NoTxn, TxnRecords, Fates
  <1> HIDE DEF r
  <1>4. Len(log) \in 0..Len(log)
    BY <1>1
  <1>5. Quiet(t, r)
    BY <1>1, <1>2, <1>3, <1>4 DEF Quiet
  <1>6. QED
    BY <1>5

LEMMA OperationIsQuiet ==
  ASSUME StoreInv, NEW t \in Txns, Busy(t), Keep, NEW r \in TxnRecords,
         r.state = txn[t].state, r.level = txn[t].level, r.view = txn[t].view,
         r.readonly => r.buf = {},
         txn' = [txn EXCEPT ![t] = r]
  PROVE  Quiet(t, r)
  <1>1. Active(t)
    BY DEF Busy
  <1>2. /\ store \in Levels /\ txn[t].level = store
        /\ \E n \in 0..Len(log) : IsLatest(log, n, txn[t].view)
    BY <1>1, ActiveIs
  <1>3. QED
    BY <1>1, <1>2 DEF Quiet, Keep, Active

LEMMA ResolvedIsQuiet ==
  ASSUME StoreInv, NEW t \in Txns, Active(t), NEW fate \in {"conflict", "discarded"},
         txn' = [txn EXCEPT ![t] = Taken(t, fate)], UNCHANGED <<store, latest, log>>
  PROVE  \E r : Quiet(t, r)
  <1> DEFINE r == Taken(t, fate)
  <1>1. r \in TxnRecords /\ r.state = fate /\ r.buf = {}
    BY TakenIs DEF StoreInv
  <1>2. store \in Levels
    BY ActiveIs
  <1> HIDE DEF r
  <1>3. txn' = [txn EXCEPT ![t] = r]
    BY DEF r
  <1>4. Quiet(t, r)
    BY <1>1, <1>2, <1>3 DEF Quiet, Active
  <1>5. QED
    BY <1>4

(* Every step keeps the invariant.                                         *)
LEMMA StoreStep == StoreInv /\ [Next]_vars => StoreInv'
  <1> SUFFICES ASSUME StoreInv, [Next]_vars PROVE StoreInv'
    OBVIOUS
  <1>1. CASE OpenWith
    BY <1>1, OpenKeeps
  <1>2. ASSUME NEW ks \in SUBSET Keys, DirectWrite(ks) PROVE StoreInv'
    BY <1>2, DirectKeeps
  <1>3. ASSUME NEW t \in Txns, NEW readOnly \in BOOLEAN, Begin(t, readOnly) PROVE StoreInv'
    BY <1>3, BeginIsQuiet, QuietKeeps
  <1>4. ASSUME NEW t \in Txns
        PROVE  /\ txn[t] \in TxnRecords /\ txn \in [Txns -> TxnRecords]
               /\ txn[t].readonly => txn[t].buf = {}
               /\ Busy(t) => txn[t].ops + 1 \in 0..MaxOps
    <2>1. txn[t] \in TxnRecords /\ txn \in [Txns -> TxnRecords]
      BY DEF StoreInv, StoreTypes
    <2>2. txn[t].ops \in 0..MaxOps
      BY <2>1, TxnFields
    <2>3. QED
      BY <2>1, <2>2, TxnStoreAssumption DEF StoreInv, AtStoreLevel, Busy
  <1>5. ASSUME NEW t \in Txns, NEW k \in Keys, TxnGet(t, k) PROVE StoreInv'
    <2> DEFINE got == txn[t].got \cup ({k} \ txn[t].buf)
               r == [txn[t] EXCEPT !.got = got, !.ops = @ + 1]
    <2>1. Busy(t) /\ Keep /\ txn' = [txn EXCEPT ![t] = r]
      BY <1>4, <1>5 DEF TxnGet
    <2>2. txn[t] \in TxnRecords /\ txn[t].ops + 1 \in 0..MaxOps /\ (txn[t].readonly => txn[t].buf = {})
      BY <1>4, <2>1
    <2>3. got \in SUBSET Keys
      BY <2>2, TxnFields
    <2>4. /\ r \in TxnRecords
          /\ r.state = txn[t].state /\ r.level = txn[t].level /\ r.view = txn[t].view
          /\ r.readonly => r.buf = {}
      <3> HIDE DEF got
      <3>1. QED
        BY <2>2, <2>3 DEF TxnRecords
    <2> HIDE DEF r
    <2>5. QED
      BY <2>1, <2>4, OperationIsQuiet, QuietKeeps
  <1>6. ASSUME NEW t \in Txns, NEW k \in Keys, TxnWrite(t, k) PROVE StoreInv'
    <2> DEFINE buf == IF txn[t].readonly THEN txn[t].buf ELSE txn[t].buf \cup {k}
               r == [txn[t] EXCEPT !.buf = buf, !.ops = @ + 1]
    <2>1. Busy(t) /\ Keep /\ txn' = [txn EXCEPT ![t] = r]
      BY <1>4, <1>6 DEF TxnWrite
    <2>2. txn[t] \in TxnRecords /\ txn[t].ops + 1 \in 0..MaxOps /\ (txn[t].readonly => txn[t].buf = {})
      BY <1>4, <2>1
    <2>3. buf \in SUBSET Keys /\ (txn[t].readonly => buf = {})
      BY <2>2, TxnFields
    <2>4. /\ r \in TxnRecords
          /\ r.state = txn[t].state /\ r.level = txn[t].level /\ r.view = txn[t].view
          /\ r.readonly => r.buf = {}
      <3> HIDE DEF buf
      <3>1. QED
        BY <2>2, <2>3 DEF TxnRecords
    <2> HIDE DEF r
    <2>5. QED
      BY <2>1, <2>4, OperationIsQuiet, QuietKeeps
  <1>7. ASSUME NEW t \in Txns, NEW ks \in SUBSET Keys, TxnWalk(t, ks) PROVE StoreInv'
    <2> DEFINE walked == txn[t].walked \cup (ks \ txn[t].buf)
               r == [txn[t] EXCEPT !.walked = walked, !.ops = @ + 1]
    <2>1. Busy(t) /\ Keep /\ txn' = [txn EXCEPT ![t] = r]
      BY <1>4, <1>7 DEF TxnWalk
    <2>2. txn[t] \in TxnRecords /\ txn[t].ops + 1 \in 0..MaxOps /\ (txn[t].readonly => txn[t].buf = {})
      BY <1>4, <2>1
    <2>3. walked \in SUBSET Keys
      BY <2>2, TxnFields
    <2>4. /\ r \in TxnRecords
          /\ r.state = txn[t].state /\ r.level = txn[t].level /\ r.view = txn[t].view
          /\ r.readonly => r.buf = {}
      <3> HIDE DEF walked
      <3>1. QED
        BY <2>2, <2>3 DEF TxnRecords
    <2> HIDE DEF r
    <2>5. QED
      BY <2>1, <2>4, OperationIsQuiet, QuietKeeps
  <1>8. ASSUME NEW t \in Txns, Commit(t) PROVE StoreInv'
    <2>1. Active(t) /\ UNCHANGED <<store, opened>>
      BY <1>8 DEF Commit
    <2>2. CASE /\ ~Conflicts(t) \/ txn[t].buf = {}
               /\ Apply(t)
               /\ txn' = [txn EXCEPT ![t] = Taken(t, "committed")]
      BY <2>1, <2>2, CommitKeeps
    <2>3. CASE /\ txn' = [txn EXCEPT ![t] = Taken(t, "conflict")]
               /\ UNCHANGED <<latest, log>>
      BY <2>1, <2>3, ResolvedIsQuiet, QuietKeeps
    <2>4. QED
      BY <1>8, <2>2, <2>3 DEF Commit
  <1>9. ASSUME NEW t \in Txns, Discard(t) PROVE StoreInv'
    BY <1>9, ResolvedIsQuiet, QuietKeeps DEF Discard, Keep
  <1>10. CASE UNCHANGED vars
    <2>1. /\ store' = store /\ txn' = txn /\ latest' = latest /\ log' = log
      BY <1>10 DEF vars
    <2>2. StoreTypes' /\ AtStoreLevel' /\ ViewsArePast'
      BY <2>1 DEF StoreInv, StoreTypes, AtStoreLevel, ViewsArePast, IsLatest
    <2>3. OnlyCommittedWrites' /\ NoLostUpdate' /\ WritersReadTheLast'
      BY <2>1 DEF StoreInv, OnlyCommittedWrites, NoLostUpdate, WritersReadTheLast
    <2>4. QED
      BY <2>2, <2>3 DEF StoreInv
  <1>11. QED
    BY <1>1, <1>2, <1>3, <1>5, <1>6, <1>7, <1>8, <1>9, <1>10 DEF Next

(* In every reachable state transactions run at the level of their store,  *)
(* every view is the past of some moment, and what validation promises     *)
(* holds of every entry of the log (options.go:103-139, db.rs:94-95).      *)
THEOREM StoreInvariant == Spec => []StoreInv
  <1>1. Init => StoreInv
    BY StoreInit
  <1>2. StoreInv /\ [Next]_vars => StoreInv'
    BY StoreStep
  <1>3. QED
    BY <1>1, <1>2, PTL DEF Spec

(* The types, for every set of keys and transactions.                      *)
THEOREM StoreTypeCorrect == Spec => []TypeOK
  <1>1. StoreInv => TypeOK
    <2> SUFFICES ASSUME StoreInv PROVE TypeOK
      OBVIOUS
    <2>1. StoreTypes /\ AtStoreLevel /\ IsLatest(log, Len(log), latest)
      BY DEF StoreInv, ViewsArePast
    <2>2. ASSUME NEW t \in Txns
          PROVE  /\ txn[t].state \in {"none", "active", "committed", "conflict", "discarded"}
                 /\ txn[t].got \subseteq Keys /\ txn[t].walked \subseteq Keys
                 /\ txn[t].buf \subseteq IF txn[t].readonly THEN {} ELSE Keys
                 /\ txn[t].ops \in 0..MaxOps
      <3>1. txn[t] \in TxnRecords
        BY <2>1 DEF StoreTypes
      <3>2. QED
        BY <2>1, <3>1, TxnFields DEF Fates, AtStoreLevel
    <2>3. latest \in [Keys -> 0..Len(log)]
      BY <2>1 DEF StoreTypes, IsLatest
    <2>4. QED
      BY <2>1, <2>2, <2>3 DEF StoreTypes, TypeOK
  <1>2. QED
    BY <1>1, StoreInvariant, PTL

(* A commit that answered ErrConflict, a discard and a read-only           *)
(* transaction leave nothing in the store (txn.rs:152-198, 243-311).       *)
THEOREM OnlyCommitsWrite == Spec => []OnlyCommittedWrites
  <1>1. StoreInv => OnlyCommittedWrites
    BY DEF StoreInv
  <1>2. QED
    BY <1>1, StoreInvariant, PTL

(* First committer wins at every level (options.go:111-119).               *)
THEOREM UpdatesAreNotLost == Spec => []NoLostUpdate
  <1>1. StoreInv => NoLostUpdate
    BY DEF StoreInv
  <1>2. QED
    BY <1>1, StoreInvariant, PTL

(* The history variable of the open says what became of the options.       *)
LEMMA OpenedStep == SettingsArrive /\ [Next]_vars => SettingsArrive'
  <1> SUFFICES ASSUME SettingsArrive, [Next]_vars PROVE SettingsArrive'
    OBVIOUS
  <1>1. CASE OpenWith
    <2>1. PICK o \in GoOptions, cannot \in BOOLEAN :
            opened' = IF cannot \/ ~Named(o) \/ Rejected(ToC(o)) \/ ~EngineAccepts(Resolved(ToC(o)))
                        THEN {[wanted |-> o, settings |-> {}, failed |-> cannot]}
                        ELSE {[wanted |-> o, settings |-> {Resolved(ToC(o))}, failed |-> FALSE]}
      BY <1>1 DEF OpenWith
    <2>2. CASE cannot \/ Invalid(o)
      <3>1. opened' = {[wanted |-> o, settings |-> {}, failed |-> cannot]}
        BY <2>1, <2>2, RefusedIsInvalid
      <3>2. QED
        BY <2>2, <3>1 DEF SettingsArrive
    <2>3. CASE ~(cannot \/ Invalid(o))
      <3>1. opened' = {[wanted |-> o, settings |-> {Wanted(o)}, failed |-> FALSE]}
        BY <2>1, <2>3, RefusedIsInvalid
      <3>2. QED
        BY <2>3, <3>1 DEF SettingsArrive
    <2>4. QED
      BY <2>2, <2>3
  <1>2. CASE opened' = {}
    BY <1>2 DEF SettingsArrive
  <1>3. CASE opened' = opened
    BY <1>3 DEF SettingsArrive
  <1>4. OpenWith \/ opened' = {} \/ opened' = opened
    BY DEF Next, DirectWrite, Begin, TxnGet, TxnWrite, TxnWalk, Commit, Discard, Keep, vars
  <1>5. QED
    BY <1>1, <1>2, <1>3, <1>4

(* Every option asked for reaches the engine, and no other, for every      *)
(* number and every width of usize (options.go:169-238, options.rs:50-98). *)
THEOREM OptionsReachTheEngine == Spec => []SettingsArrive
  <1>1. Init => SettingsArrive
    BY DEF Init, SettingsArrive
  <1>2. QED
    BY <1>1, OpenedStep, PTL DEF Spec
-----------------------------------------------------------------------------
(* Those up to i in an order R of the first N numbers.                     *)
UpTo(N, R, i) == {j \in 1..N : j = i \/ <<j, i>> \in R}

(* A strict total order of the first N numbers, counted out: the place of  *)
(* each is the number of those up to it.                                   *)
LEMMA Ranking ==
  ASSUME NEW N \in Nat, NEW R,
         \A i \in 1..N : <<i, i>> \notin R,
         \A i, j \in 1..N : i # j => <<i, j>> \in R \/ <<j, i>> \in R,
         \A i, j, m \in 1..N : <<i, j>> \in R /\ <<j, m>> \in R => <<i, m>> \in R
  PROVE  \E place \in [1..N -> 1..N] :
           \A i, j \in 1..N : place[i] < place[j] <=> <<i, j>> \in R
  <1> DEFINE place == [i \in 1..N |-> Cardinality(UpTo(N, R, i))]
             S     == 1..N
  <1>1. IsFiniteSet(S) /\ Cardinality(S) = N
    BY FS_Interval
  <1>2. \A i \in 1..N : UpTo(N, R, i) \in SUBSET S /\ i \in UpTo(N, R, i)
    BY DEF UpTo
  <1> HIDE DEF S
  <1>3. ASSUME NEW i \in 1..N
        PROVE  IsFiniteSet(UpTo(N, R, i)) /\ Cardinality(UpTo(N, R, i)) \in 1..N
    <2>1. UpTo(N, R, i) \in SUBSET S /\ i \in UpTo(N, R, i)
      BY <1>2
    <2>2. IsFiniteSet(UpTo(N, R, i)) /\ Cardinality(UpTo(N, R, i)) <= N
      BY <1>1, <2>1, FS_Subset
    <2>3. Cardinality(UpTo(N, R, i)) \in Nat
      BY <2>2, FS_CardinalityType
    <2>4. Cardinality(UpTo(N, R, i)) # 0
      BY <2>1, <2>2, FS_EmptySet
    <2>5. QED
      BY <2>2, <2>3, <2>4
  <1>4. ASSUME NEW i \in 1..N, NEW j \in 1..N, <<i, j>> \in R
        PROVE  place[i] < place[j]
    <2> DEFINE U == UpTo(N, R, i)
               V == UpTo(N, R, j)
    <2>1. U \in SUBSET V
      BY <1>4 DEF UpTo
    <2>2. j \in V /\ j \notin U
      <3>1. <<j, i>> \notin R /\ i # j
        BY <1>4
      <3>2. QED
        BY <3>1 DEF UpTo
    <2>3. IsFiniteSet(U) /\ IsFiniteSet(V) /\ Cardinality(U) \in Nat /\ Cardinality(V) \in Nat
      BY <1>3
    <2>4. place[i] = Cardinality(U) /\ place[j] = Cardinality(V)
      OBVIOUS
    <2> HIDE DEF U, V, place
    <2>5. Cardinality(U) <= Cardinality(V) /\ (Cardinality(V) = Cardinality(U) => V = U)
      BY <2>1, <2>3, FS_Subset
    <2>6. Cardinality(U) < Cardinality(V)
      BY <2>2, <2>3, <2>5
    <2>7. QED
      BY <2>4, <2>6
  <1>5. place \in [1..N -> 1..N]
    BY <1>3
  <1> HIDE DEF place
  <1>6. ASSUME NEW i \in 1..N, NEW j \in 1..N, place[i] < place[j]
        PROVE  <<i, j>> \in R
    <2>1. i # j
      BY <1>5, <1>6
    <2>2. ~ (place[j] < place[i])
      BY <1>5, <1>6
    <2>3. QED
      BY <1>4, <2>1, <2>2
  <1>7. QED
    BY <1>4, <1>5, <1>6

(* The serial order: a writer counts when it commits, a reader when the    *)
(* last of what it saw was written; of two at one place, the one that      *)
(* committed first is first.                                               *)
Seen(i) == CHOOSE n \in 0..i - 1 : IsLatest(log, n, log[i].view)

Counts(i) == IF log[i].writes = {} THEN Seen(i) ELSE i

SerialOrder ==
  {p \in (1..Len(log)) \X (1..Len(log)) :
     Counts(p[1]) < Counts(p[2]) \/ (Counts(p[1]) = Counts(p[2]) /\ p[1] < p[2])}

LEMMA SeenIs ==
  ASSUME StoreInv, NEW i \in 1..Len(log)
  PROVE  Seen(i) \in 0..i - 1 /\ IsLatest(log, Seen(i), log[i].view)
  BY DEF StoreInv, ViewsArePast, Seen

(* What a reader saw is what was written up to the moment it counts at;    *)
(* what a writer saw, what was written before it.                          *)
LEMMA SawWhatWasBefore ==
  ASSUME StoreInv, store \in {"Serializable", "RepeatableRead"},
         NEW i \in 1..Len(log), NEW k \in log[i].reads,
         NEW j \in 1..Len(log) \ {i}, k \in log[j].writes
  PROVE  <<j, i>> \in SerialOrder <=> j <= log[i].view[k]
  <1> DEFINE n == Seen(i)
  <1>1. n \in 0..i - 1 /\ IsLatest(log, n, log[i].view)
    BY SeenIs
  <1>2. k \in Keys /\ log \in Seq(Entries) /\ Len(log) \in Nat
    <2>1. log \in Seq(Entries)
      BY DEF StoreInv, StoreTypes
    <2>2. log[i] \in Entries
      BY <2>1
    <2>3. QED
      BY <2>1, <2>2 DEF Entries
  <1>3. log[i].view[k] \in 0..n /\ \A m \in log[i].view[k] + 1..n : k \notin log[m].writes
    BY <1>1, <1>2 DEF IsLatest
  <1>4. Counts(j) = j
    BY DEF Counts
  <1>5. <<j, i>> \in SerialOrder <=> (j < Counts(i) \/ (j = Counts(i) /\ j < i))
    <2>1. <<j, i>> \in (1..Len(log)) \X (1..Len(log))
      OBVIOUS
    <2>2. QED
      BY <1>4, <2>1 DEF SerialOrder
  <1>6. CASE log[i].writes = {}
    <2>1. Counts(i) = n
      BY <1>6 DEF Counts
    <2> HIDE DEF n
    <2>2. <<j, i>> \in SerialOrder <=> j <= n
      BY <1>1, <1>5, <2>1
    <2>3. j <= n => j <= log[i].view[k]
      BY <1>1, <1>3
    <2>4. QED
      BY <1>1, <1>3, <2>2, <2>3
  <1>7. CASE log[i].writes # {}
    <2>1. Counts(i) = i
      BY <1>7 DEF Counts
    <2> HIDE DEF n
    <2>2. \A m \in log[i].view[k] + 1..i - 1 : k \notin log[m].writes
      BY <1>7 DEF StoreInv, WritersReadTheLast
    <2>3. <<j, i>> \in SerialOrder <=> j < i
      BY <1>5, <2>1
    <2>4. j < i => j <= log[i].view[k]
      BY <1>1, <1>3, <2>2
    <2>5. QED
      BY <1>1, <1>3, <2>3, <2>4
  <1>8. QED
    BY <1>6, <1>7

(* The order explains the history.                                         *)
LEMMA SerialOrderExplains ==
  ASSUME StoreInv, store \in {"Serializable", "RepeatableRead"}
  PROVE  \E place \in Orders : Explains(place)
  <1> DEFINE N == Len(log)
             c == [i \in 1..N |-> Counts(i)]
  <1>1. log \in Seq(Entries) /\ N \in Nat
    BY DEF StoreInv, StoreTypes
  <1>2. \A i \in 1..N : c[i] = Counts(i) /\ c[i] \in 0..N
    <2> SUFFICES ASSUME NEW i \in 1..N PROVE Counts(i) \in 0..N
      OBVIOUS
    <2>1. Seen(i) \in 0..i - 1
      BY SeenIs
    <2>2. QED
      BY <1>1, <2>1 DEF Counts
  <1>3. \A i, j \in 1..N : <<i, j>> \in SerialOrder <=> (c[i] < c[j] \/ (c[i] = c[j] /\ i < j))
    BY <1>2 DEF SerialOrder
  <1> HIDE DEF c, N
  <1>4. \A i \in 1..N : <<i, i>> \notin SerialOrder
    BY <1>2, <1>3
  <1>5. \A i, j \in 1..N : i # j => <<i, j>> \in SerialOrder \/ <<j, i>> \in SerialOrder
    BY <1>1, <1>2, <1>3
  <1>6. \A i, j, m \in 1..N : <<i, j>> \in SerialOrder /\ <<j, m>> \in SerialOrder => <<i, m>> \in SerialOrder
    BY <1>1, <1>2, <1>3
  <1>7. PICK place \in [1..N -> 1..N] :
          \A i, j \in 1..N : place[i] < place[j] <=> <<i, j>> \in SerialOrder
    BY <1>1, <1>4, <1>5, <1>6, Ranking
  <1>8. place \in Orders
    <2>1. ASSUME NEW i \in 1..N, NEW j \in 1..N, place[i] = place[j] PROVE i = j
      <3>1. place[i] \in 1..N /\ place[j] \in 1..N
        BY <1>7
      <3>2. ~(place[i] < place[j]) /\ ~(place[j] < place[i])
        BY <1>1, <2>1, <3>1
      <3>3. <<i, j>> \notin SerialOrder /\ <<j, i>> \notin SerialOrder
        BY <1>7, <3>2
      <3>4. QED
        BY <1>5, <3>3
    <2>2. QED
      BY <1>7, <2>1 DEF Orders, N
  <1>9. ASSUME NEW i \in 1..N, NEW j \in 1..i - 1, log[i].writes \cap log[j].writes # {}
        PROVE  place[j] < place[i]
    <2>1. j \in 1..N /\ j < i /\ log[i].writes # {} /\ log[j].writes # {}
      <3>1. j \in 1..N /\ j < i
        BY <1>1
      <3>2. log[i].writes # {} /\ log[j].writes # {}
        BY <1>9
      <3>3. QED
        BY <3>1, <3>2
    <2>2. Counts(i) = i /\ Counts(j) = j
      BY <2>1 DEF Counts
    <2>3. j \in 1..N /\ c[i] = i /\ c[j] = j /\ j < i
      BY <1>2, <2>1, <2>2
    <2>4. <<j, i>> \in SerialOrder
      BY <1>3, <2>3
    <2>5. QED
      BY <1>7, <2>3, <2>4
  <1>10. ASSUME NEW i \in 1..N, NEW k \in log[i].reads, NEW j \in 1..N \ {i}, k \in log[j].writes
         PROVE  place[j] < place[i] <=> j <= log[i].view[k]
    <2>1. <<j, i>> \in SerialOrder <=> j <= log[i].view[k]
      BY <1>10, SawWhatWasBefore DEF N
    <2>2. QED
      BY <1>7, <2>1
  <1>11. Explains(place)
    BY <1>9, <1>10 DEF Explains, N
  <1>12. QED
    BY <1>8, <1>11

(* What committed in a serializable store is serializable, its read-only   *)
(* transactions included; with repeatable read, as far as point reads go   *)
(* (options.go:121-138): for every number of keys, transactions and        *)
(* commits.                                                                *)
THEOREM HistoryIsSerializable == Spec => []SerializableHistory
  <1>1. StoreInv => SerializableHistory
    BY SerialOrderExplains DEF SerializableHistory
  <1>2. QED
    BY <1>1, StoreInvariant, PTL
=============================================================================
