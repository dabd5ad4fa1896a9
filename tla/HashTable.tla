------------------------------ MODULE HashTable ------------------------------
(***************************************************************************)
(* The hash table of a plugin's settings and of its CSS (hashtable.c):     *)
(* open addressing, where the place of a key is looked for at the hash of  *)
(* the key and then at up to LOOKUP_ATTEMPTS hashes of the key and the     *)
(* place before.  A key that finds no place there makes the table grow and *)
(* all entries be placed anew, in the order of the old table, until the    *)
(* places of all are found.  Nothing is ever taken out.                    *)
(*                                                                         *)
(* Allocations succeed.                                                    *)
(***************************************************************************)
EXTENDS Integers, Sequences, SequencesExt

CONSTANTS Keys,
          Hash(_, _, _),  \* hash1 of a key, a size and the place before
          NoEntry,        \* NULL in the table
          MaxGrowths      \* bound: times a table grows for one entry

ASSUME GrowthsAssumption == MaxGrowths \in Nat

NoPlace == -1             \* HashTable_getEntry returns NULL

(* GROWTH_RATE; a table of four places or less would not grow. *)
GrowSize(size) == size + (size * 21) \div 100

Entry(key, value) == [key |-> key, value |-> value]
NewTable(size) == [size |-> size, count |-> 0,
                   entries |-> [p \in 0 .. size - 1 |-> NoEntry]]

(* The places that are looked at for a key: at first, and after each of    *)
(* LOOKUP_ATTEMPTS attempts.                                               *)
Places(size, key) ==
  LET Next(place, attempt) == Hash(key, size, place + 2 * attempt)
      p0 == Hash(key, size, 0)
      p1 == Next(p0, 0)
      p2 == Next(p1, 1)
      p3 == Next(p2, 2)
      p4 == Next(p3, 3) IN
    <<p0, p1, p2, p3, p4, Next(p4, 4)>>

(* A place that is free or the key's own. *)
Fits(table, key, place) ==
  table.entries[place] # NoEntry => table.entries[place].key = key

(* Definitions named Fault... are faulty variants of the definition that   *)
(* follows them, each with one plausible mistake; no behaviour uses them.  *)
FaultGetEntry(table, key) ==
  LET places == Places(table.size, key)
      fitting == {i \in DOMAIN places : Fits(table, key, places[i])} IN
    places[IF fitting = {} THEN Len(places) ELSE Min(fitting)]

(* HashTable_getEntry: the first of them that fits. *)
GetEntry(table, key) ==
  LET places == Places(table.size, key)
      fitting == {i \in DOMAIN places : Fits(table, key, places[i])} IN
    IF fitting = {} THEN NoPlace ELSE places[Min(fitting)]

(* The entries in the order of their places, as HashTable_print shows them. *)
ListedEntries(table) ==
  LET listed[p \in 0 .. table.size] ==
        IF p = 0 THEN <<>>
        ELSE IF table.entries[p - 1] = NoEntry THEN listed[p - 1]
        ELSE Append(listed[p - 1], table.entries[p - 1]) IN
    listed[table.size]

Put(table, place, entry) ==
  [table EXCEPT !.entries[place] = entry,
                !.count = IF table.entries[place] = NoEntry THEN @ + 1 ELSE @]

(* HashTable_copy, to a new table of the size; NoEntry if it fails. *)
Copy(to, entry) ==
  IF to = NoEntry THEN NoEntry
  ELSE LET p == GetEntry(to, entry.key) IN
         IF p = NoPlace THEN NoEntry
         ELSE IF to.entries[p] # NoEntry THEN NoEntry ELSE Put(to, p, entry)
Copied(table, size) ==
  LET copied[p \in 0 .. table.size] ==
        IF p = 0 THEN NewTable(size)
        ELSE IF table.entries[p - 1] = NoEntry THEN copied[p - 1]
        ELSE Copy(copied[p - 1], table.entries[p - 1]) IN
    copied[table.size]

(* HashTable_resize: larger, and larger again until all can be copied. *)
Resize(table) ==
  LET size[i \in 0 .. MaxGrowths] ==
        IF i = 0 THEN GrowSize(table.size)
        ELSE LET tried == size[i - 1] IN
               IF Copied(table, tried) = NoEntry THEN GrowSize(tried) ELSE tried IN
    Copied(table, size[MaxGrowths])

(* HashTable_add makes the table grow if it is full, or if the key finds   *)
(* no place, and tries again; the key's old value goes.                    *)
HasRoom(table, key) == table.count < table.size /\ GetEntry(table, key) # NoPlace
WithRoom(table, key) ==
  LET grown[i \in 0 .. MaxGrowths] ==
        IF i = 0 THEN table
        ELSE LET tried == grown[i - 1] IN
               IF HasRoom(tried, key) THEN tried ELSE Resize(tried) IN
    grown[MaxGrowths]
Add(table, entry) ==
  LET room == WithRoom(table, entry.key) IN Put(room, GetEntry(room, entry.key), entry)

(* HashTable_find *)
FindEntry(table, key) ==
  LET p == GetEntry(table, key) IN
    IF p = NoPlace THEN NoEntry ELSE table.entries[p]
=============================================================================
