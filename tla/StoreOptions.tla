---------------------------- MODULE StoreOptions ----------------------------
(***************************************************************************)
(* Engine options on their way from Go (Options and toC of options.go)     *)
(* through the flat C struct to what the store is opened with              *)
(* (options_from of ffi/src/options.rs).                                   *)
(*                                                                         *)
(* A value that may be absent is a set of at most one value.               *)
(***************************************************************************)
EXTENDS Integers, Sequences

CONSTANTS MaxUsize,   \* the host's largest usize
          NumValues,  \* numbers to try in the numeric fields
          EnumValues  \* numbers to try in the enumerated fields

ASSUME OptionsAssumption == MaxUsize \in Nat /\ NumValues \subseteq Nat /\ EnumValues \subseteq Nat

NumFields  == {"write_buffer_size", "block_cache_size", "max_background_compactions",
               "transaction_keys_inline"}
EnumFields == {"compression", "durability", "isolation"}

(* Pointers to numbers, and Go enumerations, whose zero is Default.        *)
GoOptions == [num  : [NumFields -> {{}} \cup {{v} : v \in NumValues}],
              enum : [EnumFields -> EnumValues]]

(* The Go constants: the i-th name after Default has value i.              *)
GoNames == [compression |-> <<"None", "Snappy", "Lz4">>,
            durability  |-> <<"Immediate", "Eventual">>,
            isolation   |-> <<"ReadCommitted", "SnapshotIsolation", "Serializable", "RepeatableRead">>]

Named(o) == \A f \in EnumFields : o.enum[f] <= Len(GoNames[f])

(* The REGOLITH_ macros of the header, which the Go half reads.            *)
HeaderBit == [write_buffer_size |-> 0, block_cache_size |-> 1, max_background_compactions |-> 2,
              transaction_keys_inline |-> 3, compression |-> 4, durability |-> 5, isolation |-> 6]

HeaderValue ==
  [compression |-> [None |-> 0, Snappy |-> 1, Lz4 |-> 2],
   durability  |-> [Immediate |-> 0, Eventual |-> 1],
   isolation   |-> [ReadCommitted |-> 0, SnapshotIsolation |-> 1, Serializable |-> 2,
                    RepeatableRead |-> 3]]

(* The constants of options.rs.                                            *)
RustBit == [write_buffer_size |-> 0, block_cache_size |-> 1, max_background_compactions |-> 2,
            transaction_keys_inline |-> 3, compression |-> 4, durability |-> 5, isolation |-> 6]

RustVariant ==
  [compression |-> <<"None", "Snappy", "Lz4">>,
   durability  |-> <<"Immediate", "Eventual">>,
   isolation   |-> <<"ReadCommitted", "SnapshotIsolation", "Serializable", "RepeatableRead">>]

(* A field nobody sets stays zero.                                         *)
NumToC(v) == IF v = {} THEN 0 ELSE CHOOSE n \in v : TRUE

(* Mutant: an explicit zero is taken for an unset field.                   *)
ToCZeroUnset(o) ==
  [present |-> {HeaderBit[f] : f \in {g \in NumFields : NumToC(o.num[g]) # 0}}
               \cup {HeaderBit[f] : f \in {g \in EnumFields : o.enum[g] # 0}},
   num  |-> [f \in NumFields |-> NumToC(o.num[f])],
   enum |-> [f \in EnumFields |-> IF o.enum[f] = 0 THEN 0 ELSE HeaderValue[f][GoNames[f][o.enum[f]]]]]

(* toC, for options with every enumeration named.                          *)
ToC(o) ==
  [present |-> {HeaderBit[f] : f \in {g \in NumFields : o.num[g] # {}}}
               \cup {HeaderBit[f] : f \in {g \in EnumFields : o.enum[g] # 0}},
   num  |-> [f \in NumFields |-> NumToC(o.num[f])],
   enum |-> [f \in EnumFields |-> IF o.enum[f] = 0 THEN 0 ELSE HeaderValue[f][GoNames[f][o.enum[f]]]]]

IsSet(c, f) == RustBit[f] \in c.present

(* What options_from refuses: a bit it does not know, a number too wide for *)
(* a usize (as_usize), an enumeration without that value.                  *)
Rejected(c) ==
  \/ \E b \in c.present : \A f \in NumFields \cup EnumFields : RustBit[f] # b
  \/ \E f \in NumFields : IsSet(c, f) /\ c.num[f] > MaxUsize
  \/ \E f \in EnumFields : IsSet(c, f) /\ c.enum[f] >= Len(RustVariant[f])

(* What it resolves the others to: a field is read only when its bit is set, *)
(* and is the engine's default otherwise.                                  *)
Resolved(c) ==
  [f \in NumFields \cup EnumFields |->
     IF ~IsSet(c, f) THEN {}
     ELSE IF f \in NumFields THEN {c.num[f]} ELSE {RustVariant[f][c.enum[f] + 1]}]

(* Options::validate of the engine.                                        *)
EngineAccepts(settings) == settings["write_buffer_size"] # {0}

DefaultIsolation == "SnapshotIsolation"
-----------------------------------------------------------------------------
(* What the Options type documents (options.go:26-62): a field asks for the *)
(* value it holds, or for nothing.                                         *)
Wanted(o) ==
  [f \in NumFields \cup EnumFields |->
     IF f \in NumFields THEN o.num[f]
     ELSE IF o.enum[f] = 0 THEN {} ELSE {GoNames[f][o.enum[f]]}]

(* and what must be refused, never clamped (options.go:30-31).  *)
Invalid(o) ==
  \/ ~Named(o)
  \/ o.num["write_buffer_size"] = {0}
  \/ \E f \in NumFields : \E v \in o.num[f] : v > MaxUsize
=============================================================================
