-------------------------------- MODULE Hpack --------------------------------
(***************************************************************************)
(* src/http2/hpack_decoder.cpp: the decoder of header blocks and its       *)
(* dynamic table.                                                          *)
(*                                                                         *)
(* Of a header only the sizes of its name and value matter here, for the   *)
(* table; a block is decoded one field at a time, and may turn out to be   *)
(* wrong at any of them.  DecodeInteger is modelled on bytes.              *)
(***************************************************************************)
EXTENDS Integers, Sequences, FiniteSets, SequencesExt

CONSTANTS InitialTableSize,  \* max_dynamic_table_size of the constructor
          NameSizes,         \* sizes of names
          ValueSizes,        \* sizes of values
          TableSizes,        \* arguments of dynamic table size updates
          MaxEntries         \* bound: entries of the dynamic table

ASSUME HpackAssumption ==
  /\ InitialTableSize \in Nat /\ MaxEntries \in Nat
  /\ NameSizes \subseteq Nat /\ ValueSizes \subseteq Nat /\ TableSizes \subseteq Nat

VARIABLES
  max_dynamic_table_size_,
  dynamic_table_size_,   \* number of entries
  dynamic_table_usage_,  \* their sizes added up
  dynamic_table_,        \* sizes of its entries, the latest first
  decoding,              \* inside Decode
  pending_update         \* a size update has been read and no field after it

hpackVars == <<max_dynamic_table_size_, dynamic_table_size_, dynamic_table_usage_,
               dynamic_table_, decoding, pending_update>>

EntryOverhead == 32

HpackTypeOK ==
  /\ max_dynamic_table_size_ \in 0 .. InitialTableSize
  /\ dynamic_table_size_ \in 0 .. MaxEntries
  /\ dynamic_table_usage_ \in Nat
  /\ dynamic_table_ \in Seq(Nat)
  /\ decoding \in BOOLEAN
  /\ pending_update \in BOOLEAN

HpackInit ==
  /\ max_dynamic_table_size_ = InitialTableSize
  /\ dynamic_table_size_ = 0
  /\ dynamic_table_usage_ = 0
  /\ dynamic_table_ = <<>>
  /\ decoding = FALSE
  /\ pending_update = FALSE
-------------------------------------------------------------------------------
(* DecodeInteger. *)

\* One continuation byte: seven bits, from the lowest on.
Continue(acc, byte) ==
  IF ~acc.more \/ ~acc.ok THEN acc
  ELSE [value |-> acc.value + (byte % 128) * 2 ^ acc.shift, shift |-> acc.shift + 7,
        more |-> byte >= 128, ok |-> acc.shift + 7 <= 28]

\* The integer at the head of bytes, or ok = FALSE: incomplete, or with more
\* than four continuation bytes.
DecodeInteger(bytes, prefix_bits) ==
  LET mask == 2 ^ prefix_bits - 1
      first == bytes[1] % 2 ^ prefix_bits
      rest == FoldLeft(Continue, [value |-> mask, shift |-> 0, more |-> TRUE, ok |-> TRUE],
                       Tail(bytes))
  IN  IF first < mask THEN [ok |-> TRUE, value |-> first]
      ELSE [ok |-> rest.ok /\ ~rest.more, value |-> rest.value]

\* RFC 7541, 5.1: the encoding, with n continuation bytes after the prefix.
Encode(value, prefix_bits) ==
  LET mask == 2 ^ prefix_bits - 1
      left == value - mask
      n == 1 + Cardinality({k \in 1 .. 4 : left >= 2 ^ (7 * k)})
  IN  IF value < mask THEN <<value>>
      ELSE <<mask>> \o [k \in 1 .. n |-> ((left \div 2 ^ (7 * (k - 1))) % 128)
                                           + (IF k < n THEN 128 ELSE 0)]

\* DecodeInteger inverts the encoding of RFC 7541, 5.1, up to the largest
\* integer of four continuation bytes, and refuses what is larger.
IntegersDecoded ==
  \A prefix_bits \in {5, 6, 7} :
    LET mask == 2 ^ prefix_bits - 1
        largest == mask + 2 ^ 28 - 1
        samples == 0 .. 400 \cup {mask + 2 ^ k + d : k \in {14, 21, 27}, d \in {-1, 0, 1}}
                            \cup {largest}
    IN  /\ \A n \in samples : DecodeInteger(Encode(n, prefix_bits), prefix_bits)
                                = [ok |-> TRUE, value |-> n]
        /\ ~DecodeInteger(Encode(largest + 1, prefix_bits), prefix_bits).ok

ASSUME IntegersAssumption == IntegersDecoded
-------------------------------------------------------------------------------
(* The dynamic table, as a record that the loops work on. *)

Table == [entries |-> dynamic_table_, usage |-> dynamic_table_usage_,
          count |-> dynamic_table_size_]

TableBecomes(t) == /\ dynamic_table_' = t.entries
                   /\ dynamic_table_usage_' = t.usage
                   /\ dynamic_table_size_' = t.count

\* The sizes of entries m to n added up: the number of their bytes.
SizesOf(entries, m, n) == Cardinality(UNION {{k} \X (1 .. entries[k]) : k \in m .. n})

\* Mutant: the usage is not reduced.
EvictOldestUncounted(t, k) ==
  [t EXCEPT !.entries = SubSeq(@, 1, Len(@) - k), !.count = @ - k]

\* EvictDynamicTable called k times, with k entries in the table at least.
EvictOldest(t, k) ==
  LET left == Len(t.entries) - k
  IN  [entries |-> SubSeq(t.entries, 1, left),
       usage   |-> t.usage - SizesOf(t.entries, left + 1, Len(t.entries)),
       count   |-> t.count - k]

\* EvictDynamicTable: the oldest entry goes, if there is one.
EvictDynamicTable(t) == IF t.entries = <<>> THEN t ELSE EvictOldest(t, 1)

Insert(t, entry_size) == [entries |-> <<entry_size>> \o t.entries,
                     usage   |-> t.usage + entry_size,
                     count   |-> t.count + 1]

\* The entries that go before one of size bytes comes: as many as make room
\* for it, or all.
Evictions(t, size) ==
  LET all == Len(t.entries)
  IN  Min({k \in 0 .. all : k = all \/ EvictOldest(t, k).usage + size <= max_dynamic_table_size_})

EvictFor(t, size) == EvictOldest(t, Evictions(t, size))

\* Mutant: one entry makes room.
AddToDynamicTableOnce(t, entry_size) ==
  IF entry_size > max_dynamic_table_size_ THEN t
  ELSE Insert(IF t.usage + entry_size > max_dynamic_table_size_
              THEN EvictDynamicTable(t) ELSE t, entry_size)

AddToDynamicTable(t, entry_size) ==
  IF entry_size > max_dynamic_table_size_ THEN t
  ELSE Insert(EvictFor(t, entry_size), entry_size)
-------------------------------------------------------------------------------
(* Decode, one field of the block at a time. *)

\* Decode returns: a field could not be decoded.  What earlier fields did to
\* the table stays.
DecodeFails ==
  /\ decoding
  /\ decoding' = FALSE
  /\ pending_update' = FALSE
  /\ UNCHANGED <<max_dynamic_table_size_, dynamic_table_size_, dynamic_table_usage_,
                 dynamic_table_>>

\* Decode is called with a block that is not empty.
DecodeBegin ==
  /\ ~decoding
  /\ decoding' = TRUE
  /\ UNCHANGED <<max_dynamic_table_size_, dynamic_table_size_, dynamic_table_usage_,
                 dynamic_table_, pending_update>>

\* The block ends.  It may not end with a size update.
DecodeEnd ==
  /\ decoding
  /\ ~pending_update
  /\ decoding' = FALSE
  /\ UNCHANGED <<max_dynamic_table_size_, dynamic_table_size_, dynamic_table_usage_,
                 dynamic_table_, pending_update>>

\* An indexed field does not change the table.
IndexedField ==
  /\ decoding
  /\ pending_update' = FALSE
  /\ UNCHANGED <<max_dynamic_table_size_, dynamic_table_size_, dynamic_table_usage_,
                 dynamic_table_, decoding>>

\* A literal, with the name of a table entry or with a name of its own, is
\* entered in the table.
LiteralField(name, value) ==
  /\ decoding
  /\ Len(dynamic_table_) < MaxEntries
  /\ TableBecomes(AddToDynamicTable(Table, name + value + EntryOverhead))
  /\ pending_update' = FALSE
  /\ UNCHANGED <<max_dynamic_table_size_, decoding>>

\* UpdateDynamicTableSize lowers the limit and drops one entry, no more.  A
\* size above the limit makes the block fail.
UpdateDynamicTableSize(new_size) ==
  /\ decoding
  /\ new_size <= max_dynamic_table_size_
  /\ max_dynamic_table_size_' = new_size
  /\ TableBecomes(EvictDynamicTable(Table))
  /\ pending_update' = TRUE
  /\ UNCHANGED decoding

\* Reset, and ClearDynamicTable with it.  The lowered limit stays.
Reset ==
  /\ ~decoding
  /\ TableBecomes([entries |-> <<>>, usage |-> 0, count |-> 0])
  /\ UNCHANGED <<max_dynamic_table_size_, decoding, pending_update>>

HpackNext ==
  \/ DecodeBegin
  \/ IndexedField
  \/ \E name \in NameSizes, value \in ValueSizes : LiteralField(name, value)
  \/ \E new_size \in TableSizes : UpdateDynamicTableSize(new_size)
  \/ DecodeFails
  \/ DecodeEnd
  \/ Reset

HpackSpec == HpackInit /\ [][HpackNext]_hpackVars
-------------------------------------------------------------------------------
\* The unsigned counters that decide about eviction tell the truth, whatever
\* blocks failed half way: they are the number and the sizes of the entries.
TableUsageExact ==
  /\ HpackTypeOK
  /\ dynamic_table_size_ = Len(dynamic_table_)
  /\ dynamic_table_usage_ = SizesOf(dynamic_table_, 1, Len(dynamic_table_))

\* An entry that is not larger than the limit is added within it, even when the
\* limit was lowered before and one eviction was not enough
\* (AddToDynamicTable, UpdateDynamicTableSize).
InsertFits ==
  [][\A name \in NameSizes, value \in ValueSizes :
       LiteralField(name, value) /\ name + value + EntryOverhead <= max_dynamic_table_size_
         => dynamic_table_usage_' <= max_dynamic_table_size_']_hpackVars
===============================================================================
