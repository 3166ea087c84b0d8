--------------------------------- MODULE Mmc ---------------------------------
(***************************************************************************)
(* thttpd's cache of mapped files (mmc.c).  A connection asks for a file   *)
(* by what stat() said of it, is given an address and gives it back when   *)
(* it is closed; maps nobody uses are kept for a while, found again with a *)
(* hash table and unmapped by a timer or when address space runs out.      *)
(*                                                                         *)
(* thttpd has one thread, so a call of mmc.c is one step, except that      *)
(* mmc_map() rehashes the maps one by one.  Lists of Map structs are sets: *)
(* where the code takes the first entry of one, the model takes any.       *)
(***************************************************************************)
EXTENDS Integers, FiniteSets, FiniteSetsExt

CONSTANTS
    Conns,          \* connections
    Keys,           \* what stat() may say: inode, device, size and ctime
    SizeOf,         \* the size in each key
    Mix,            \* hash() before it is masked
    MapIds,         \* Map structs malloc() can provide
    Addrs,          \* addresses mmap() can provide
    NoMap,          \* the null pointer
    One,            \* (void*) 1, the address of every empty file
    InitialHashSize, DefaultExpireAge,
    DesiredMaxMappedFiles, DesiredMaxMappedBytes, DesiredFreeCount,
    MaxTime, Tick,  \* bound: the clock stops, and how it advances
    MaxRefs         \* bound: a reference count, which never comes down when lost

ASSUME MmcAssumption ==
    /\ Keys # {}
    /\ SizeOf \in [Keys -> Nat]
    /\ Mix \in [Keys -> Nat]
    /\ NoMap \notin MapIds \cup Addrs \cup Conns
    /\ One \notin Addrs \cup {NoMap}
    /\ InitialHashSize \in Nat \ {0}
    /\ DefaultExpireAge \in Nat
    /\ DesiredMaxMappedFiles \in Nat /\ DesiredMaxMappedBytes \in Nat /\ DesiredFreeCount \in Nat
    /\ MaxTime \in Nat /\ Tick \in Nat /\ MaxRefs \in Nat

ASSUME MmcFinite == IsFiniteSet(Conns)

VARIABLES
    now,            \* the time in seconds
    maps,           \* the active list
    free_maps,      \* the free list
    key, refcount, reftime, addr, hash_idx,     \* the fields of a Map
    hash_table, hash_size,
    map_count, free_count, alloc_count, mapped_bytes, expire_age,
    calling,        \* mmc_map() is running for this connection, or NoMap
    torehash,       \* the maps check_hash_size() still has to rehash
    sb,             \* hc->sb of each connection: the key it asked for
    file_address,   \* hc->file_address, or NoMap
    memory,         \* the addresses mapped now
    over            \* mmc_term() has been called

fields == <<key, refcount, reftime, addr, hash_idx>>
counters == <<map_count, free_count, alloc_count, mapped_bytes>>
hash == <<hash_table, hash_size>>
conns == <<sb, file_address>>
vars == <<now, maps, free_maps, fields, hash, counters, expire_age, calling, torehash,
          conns, memory, over>>

-----------------------------------------------------------------------------
(* The hash table: open addressing, a search ends at the first hole.        *)

\* The entries from the place k hashes to on.
Probe(k, d) == (Mix[k] + d) % hash_size

\* find_hash(): the map found, if any.
FindHash(k) ==
    LET Here(d) == hash_table[Probe(k, d)] IN
    {Here(d) : d \in {x \in 0..(hash_size - 1) :
        /\ Here(x) # NoMap /\ key[Here(x)] = k
        /\ \A e \in 0..(x - 1) : Here(e) # NoMap /\ key[Here(e)] # k}}

\* add_hash(): the first hole.  Without one it fails, which HasRoom excludes.
HoleFor(k, table) ==
    {Probe(k, d) : d \in {x \in 0..(hash_size - 1) :
        /\ table[Probe(k, x)] = NoMap
        /\ \A e \in 0..(x - 1) : table[Probe(k, e)] # NoMap}}

\* Mutant: the entries stay.
WithoutNothing(table, gone) == table

\* really_unmap() clears the entries of the maps it takes away, which leaves
\* holes that end other searches.
Without(table, gone) ==
    [i \in DOMAIN table |-> IF \E m \in gone : hash_idx[m] = i THEN NoMap ELSE table[i]]

Bytes(ms) == MapThenSumSet(LAMBDA m : SizeOf[key[m]], ms)

Unreferenced == {m \in maps : refcount[m] = 0}

-----------------------------------------------------------------------------

Init ==
    /\ now = 0
    /\ maps = {} /\ free_maps = {}
    /\ key = [m \in MapIds |-> CHOOSE k \in Keys : TRUE]
    /\ refcount = [m \in MapIds |-> 0]
    /\ reftime = [m \in MapIds |-> 0]
    /\ addr = [m \in MapIds |-> One]
    /\ hash_idx = [m \in MapIds |-> 0]
    /\ hash_table = [i \in {} |-> NoMap] /\ hash_size = 0
    /\ map_count = 0 /\ free_count = 0 /\ alloc_count = 0 /\ mapped_bytes = 0
    /\ expire_age = DefaultExpireAge
    /\ calling = NoMap /\ torehash = {}
    /\ sb = [c \in Conns |-> CHOOSE k \in Keys : TRUE]
    /\ file_address = [c \in Conns |-> NoMap]
    /\ memory = {}
    /\ over = FALSE

(* mmc_map().                                                               *)

\* check_hash_size(): at least three entries for each map, or a new table, the
\* first doubling that has six.
NewSize ==
    IF hash_size = 0 THEN {InitialHashSize}
    ELSE {n \in {hash_size * 2^e : e \in 1..(map_count + 3)} :
            /\ n \in Nat /\ n >= map_count * 6
            /\ n = hash_size * 2 \/ n \div 2 < map_count * 6}

\* Mutant: the table never grows.
BigEnoughOnce == hash_size # 0

BigEnough == hash_size # 0 /\ hash_size >= map_count * 3

mmc_map(c, k) ==
    /\ calling = NoMap /\ ~over /\ file_address[c] = NoMap
    /\ calling' = c /\ sb' = [sb EXCEPT ![c] = k]
    /\ \/ BigEnough /\ UNCHANGED <<hash, torehash>>
       \/ /\ ~BigEnough
          /\ hash_size' \in NewSize
          /\ hash_table' = [i \in 0..(hash_size' - 1) |-> NoMap]
          /\ torehash' = maps
    /\ UNCHANGED <<now, maps, free_maps, fields, counters, expire_age, file_address,
                   memory, over>>

Rehash(m) ==
    /\ m \in torehash
    /\ torehash' = torehash \ {m}
    /\ \E i \in HoleFor(key[m], hash_table) :
       /\ hash_table' = [hash_table EXCEPT ![i] = m]
       /\ hash_idx' = [hash_idx EXCEPT ![m] = i]
    /\ UNCHANGED <<now, maps, free_maps, key, refcount, reftime, addr, hash_size, counters,
                   expire_age, calling, conns, memory, over>>

Ready == calling # NoMap /\ torehash = {}

\* It is mapped already.
MapHit ==
    /\ Ready
    /\ \E m \in FindHash(sb[calling]) :
          /\ refcount[m] < MaxRefs
          /\ refcount' = [refcount EXCEPT ![m] = @ + 1]
          /\ reftime' = [reftime EXCEPT ![m] = now]
          /\ file_address' = [file_address EXCEPT ![calling] = addr[m]]
    /\ calling' = NoMap
    /\ UNCHANGED <<now, maps, free_maps, key, addr, hash_idx, hash, counters, expire_age,
                   torehash, sb, memory, over>>

\* It cannot be opened, or there is no memory for a Map.
MapFails ==
    /\ Ready /\ FindHash(sb[calling]) = {}
    /\ calling' = NoMap
    /\ UNCHANGED <<now, maps, free_maps, fields, hash, counters, expire_age, torehash,
                   conns, memory, over>>

\* The Map mmc_map() fills in: a free one, or a new one.
Spare == IF free_maps # {} THEN free_maps ELSE MapIds \ (maps \cup free_maps)

\* Mutant: munmap() is not called.
UnmappedLeak(gone) == [from_memory |-> {}, bytes |-> Bytes(gone), count |-> Cardinality(gone)]

\* Mutant: the total byte count is not updated.
UnmappedBytes(gone) == [from_memory |-> {addr[m] : m \in {x \in gone : SizeOf[key[x]] # 0}},
                        bytes |-> 0, count |-> Cardinality(gone)]

\* What really_unmap() does to every map of gone.
Unmapped(gone) == [from_memory |-> {addr[m] : m \in {x \in gone : SizeOf[key[x]] # 0}},
                   bytes |-> Bytes(gone), count |-> Cardinality(gone)]

\* A new map at address a, after panic() has unmapped the maps of gone.
MapAt(m, a, gone) ==
    LET k == sb[calling]
        lost == Unmapped(gone)
        reused == IF free_maps # {} THEN 1 ELSE 0
    IN  /\ key' = [key EXCEPT ![m] = k]
        /\ refcount' = [refcount EXCEPT ![m] = 1]
        /\ reftime' = [reftime EXCEPT ![m] = now]
        /\ addr' = [addr EXCEPT ![m] = a]
        /\ \E i \in HoleFor(k, Without(hash_table, gone)) :
              /\ hash_idx' = [hash_idx EXCEPT ![m] = i]
              /\ hash_table' = [Without(hash_table, gone) EXCEPT ![i] = m]
        /\ maps' = (maps \ gone) \cup {m}
        /\ free_maps' = (free_maps \cup gone) \ {m}
        /\ map_count' = map_count - lost.count + 1
        /\ free_count' = free_count + lost.count - reused
        /\ alloc_count' = alloc_count + 1 - reused
        /\ mapped_bytes' = mapped_bytes - lost.bytes + SizeOf[k]
        /\ memory' = (memory \ lost.from_memory) \cup ({a} \ {One})
        /\ file_address' = [file_address EXCEPT ![calling] = a]

\* It is mapped.  When mmap() says ENOMEM, panic() throws away the maps nobody
\* uses and mmap() is tried again; that may happen before every address is
\* taken, because files differ in size.
MapMiss ==
    /\ Ready /\ FindHash(sb[calling]) = {}
    /\ \E m \in Spare :
          \/ SizeOf[sb[calling]] = 0 /\ MapAt(m, One, {})
          \/ /\ SizeOf[sb[calling]] # 0
             /\ \E gone \in {{}, Unreferenced} :
                   \E a \in Addrs \ (memory \ Unmapped(gone).from_memory) : MapAt(m, a, gone)
    /\ calling' = NoMap
    /\ UNCHANGED <<now, hash_size, expire_age, torehash, sb, over>>

\* mmap() fails, with another error or also after panic(); the Map is given
\* back to malloc().
MapNoSpace ==
    /\ Ready /\ FindHash(sb[calling]) = {} /\ SizeOf[sb[calling]] # 0
    /\ \E m \in Spare, gone \in {{}, Unreferenced} :
          LET lost == Unmapped(gone)
              reused == IF free_maps # {} THEN 1 ELSE 0
          IN  /\ maps' = maps \ gone
              /\ free_maps' = (free_maps \cup gone) \ {m}
              /\ free_count' = free_count + lost.count - reused
              /\ alloc_count' = alloc_count - reused
              /\ map_count' = map_count - lost.count
              /\ mapped_bytes' = mapped_bytes - lost.bytes
              /\ memory' = memory \ lost.from_memory
              /\ hash_table' = Without(hash_table, gone)
    /\ calling' = NoMap
    /\ UNCHANGED <<now, fields, hash_size, expire_age, torehash, conns, over>>

-----------------------------------------------------------------------------

\* Mutant: the map that was found is not compared with the address.
MapOfKey(c) ==
    IF FindHash(sb[c]) # {} THEN FindHash(sb[c])
    ELSE {m \in maps : addr[m] = file_address[c]}

\* mmc_unmap(), called by httpd_close_conn(): the map the hash table finds, if
\* it has the right address, or any map with that address.
MapOf(c) ==
    LET At == {m \in maps : addr[m] = file_address[c]}
    IN  IF FindHash(sb[c]) \cap At # {} THEN FindHash(sb[c]) \cap At ELSE At

mmc_unmap(c) ==
    /\ calling = NoMap /\ file_address[c] # NoMap
    /\ \/ /\ MapOf(c) = {} \/ \E m \in MapOf(c) : refcount[m] = 0
          /\ UNCHANGED <<refcount, reftime>>
       \/ \E m \in MapOf(c) :
             /\ refcount[m] > 0
             /\ refcount' = [refcount EXCEPT ![m] = @ - 1]
             /\ reftime' = [reftime EXCEPT ![m] = now]
    /\ file_address' = [file_address EXCEPT ![c] = NoMap]
    /\ UNCHANGED <<now, maps, free_maps, key, addr, hash_idx, hash, counters, expire_age,
                   calling, torehash, sb, memory, over>>

\* Mutant: the reference count is not looked at.
ExpiredInUse == {m \in maps : now - reftime[m] >= expire_age}

\* mmc_cleanup(): which maps are too old.
Expired == {m \in Unreferenced : now - reftime[m] >= expire_age}

\* Mutant: the age grows without a limit.
NewAgeUncapped(bytes, files) ==
    IF bytes > DesiredMaxMappedBytes \/ files > DesiredMaxMappedFiles
    THEN (expire_age * 2) \div 3 ELSE (expire_age * 5) \div 4

NewAge(bytes, files) ==
    CASE bytes > DesiredMaxMappedBytes \/ files > DesiredMaxMappedFiles ->
            Max({(expire_age * 2) \div 3, DefaultExpireAge \div 10})
      [] bytes <= DesiredMaxMappedBytes /\ files < DesiredMaxMappedFiles \div 2 ->
            Min({(expire_age * 5) \div 4, DefaultExpireAge * 3})
      [] OTHER -> expire_age

mmc_cleanup ==
    /\ calling = NoMap /\ ~over
    /\ LET gone == Expired
           lost == Unmapped(gone)
           excess == Max({0, free_count + lost.count - DesiredFreeCount})
       IN  /\ maps' = maps \ gone
           /\ map_count' = map_count - lost.count
           /\ mapped_bytes' = mapped_bytes - lost.bytes
           /\ memory' = memory \ lost.from_memory
           /\ hash_table' = Without(hash_table, gone)
           /\ expire_age' = NewAge(mapped_bytes', map_count')
           /\ \E freed \in SUBSET (free_maps \cup gone) :
                 /\ Cardinality(freed) = excess
                 /\ free_maps' = (free_maps \cup gone) \ freed
           /\ free_count' = free_count + lost.count - excess
           /\ alloc_count' = alloc_count - excess
    /\ UNCHANGED <<now, fields, hash_size, calling, torehash, conns, over>>

\* mmc_term(), called by shut_down() when it has closed every connection.
mmc_term ==
    /\ calling = NoMap /\ ~over
    /\ \A c \in Conns : file_address[c] = NoMap
    /\ over' = TRUE
    /\ LET lost == Unmapped(maps) IN
       /\ maps' = {} /\ free_maps' = {}
       /\ map_count' = map_count - lost.count
       /\ mapped_bytes' = mapped_bytes - lost.bytes
       /\ alloc_count' = alloc_count - (free_count + lost.count)
       /\ free_count' = 0
       /\ memory' = memory \ lost.from_memory
       /\ hash_table' = Without(hash_table, maps)
    /\ UNCHANGED <<now, fields, hash_size, expire_age, calling, torehash, conns>>

Clock ==
    /\ now + Tick <= MaxTime /\ calling = NoMap
    /\ now' = now + Tick
    /\ UNCHANGED <<maps, free_maps, fields, hash, counters, expire_age, calling, torehash,
                   conns, memory, over>>

Next ==
    \/ \E c \in Conns, k \in Keys : mmc_map(c, k)
    \/ \E m \in MapIds : Rehash(m)
    \/ MapHit \/ MapFails \/ MapMiss \/ MapNoSpace
    \/ \E c \in Conns : mmc_unmap(c)
    \/ mmc_cleanup \/ mmc_term \/ Clock

Spec == Init /\ [][Next]_vars

-----------------------------------------------------------------------------

TypeOK ==
    /\ now \in 0..MaxTime
    /\ maps \subseteq MapIds /\ free_maps \subseteq MapIds
    /\ key \in [MapIds -> Keys]
    /\ refcount \in [MapIds -> Nat] /\ reftime \in [MapIds -> 0..MaxTime]
    /\ addr \in [MapIds -> Addrs \cup {One}] /\ hash_idx \in [MapIds -> Nat]
    /\ hash_size \in Nat /\ hash_table \in [0..(hash_size - 1) -> MapIds \cup {NoMap}]
    /\ map_count \in Nat /\ free_count \in Nat /\ alloc_count \in Nat
    /\ mapped_bytes \in Nat
    /\ expire_age \in (DefaultExpireAge \div 10)..(DefaultExpireAge * 3)
    /\ calling \in Conns \cup {NoMap} /\ torehash \subseteq maps
    /\ sb \in [Conns -> Keys]
    /\ file_address \in [Conns -> Addrs \cup {One, NoMap}]
    /\ memory \subseteq Addrs /\ over \in BOOLEAN

\* The connections that have the address of m.
Users(m) == {c \in Conns : file_address[c] = addr[m]}

\* A mapped file's reference count is the number of connections that were given
\* its address and have not returned it, although mmc_unmap() looks the map up
\* again, in a table with broken chains and perhaps two maps of one file.
RefsExact ==
    \A m \in maps : SizeOf[key[m]] # 0 => refcount[m] = Cardinality(Users(m))

\* What a connection sends from (hc->file_address) stays mapped, to the file it
\* asked for, whatever mmc_cleanup() and panic() throw away meanwhile.
NoDangling ==
    \A c \in Conns :
       file_address[c] \in Addrs =>
          /\ file_address[c] \in memory
          /\ \E m \in maps : addr[m] = file_address[c] /\ key[m] = sb[c]

\* Every entry of the hash table is an active map that knows its place, and a
\* map the table does not know is one check_hash_size() is about to add: no
\* search follows a freed Map, and really_unmap() clears no other map's entry.
TableSound ==
    /\ \A i \in DOMAIN hash_table :
          hash_table[i] # NoMap =>
             hash_table[i] \in maps \ torehash /\ hash_idx[hash_table[i]] = i
    /\ \A m \in maps \ torehash :
          hash_idx[m] \in DOMAIN hash_table /\ hash_table[hash_idx[m]] = m

\* add_hash() finds a hole, so mmc_map() never gets "add_hash() failure", which
\* would leave the file mapped at an address nobody knows.
HasRoom ==
    /\ Ready => \E i \in DOMAIN hash_table : hash_table[i] = NoMap
    /\ torehash # {} => \E i \in DOMAIN hash_table : hash_table[i] = NoMap

\* Of the maps in use no two have one address, and the addresses mapped are
\* theirs: really_unmap() takes no other map's memory, and none is left behind.
MemoryExact ==
    /\ memory = {addr[m] : m \in {x \in maps : SizeOf[key[x]] # 0}}
    /\ \A m, n \in maps : addr[m] = addr[n] => m = n \/ addr[m] = One

\* The counters that decide when to expire maps and to free Map structs agree
\* with the lists, and no Map is on both.
Counts ==
    /\ maps \cap free_maps = {}
    /\ map_count = Cardinality(maps) /\ free_count = Cardinality(free_maps)
    /\ alloc_count = map_count + free_count
    /\ mapped_bytes = Bytes(maps)

\* What really_unmap()'s comment calls harmless: a search that misses a map ends
\* up at another one with the same address, and all empty files have the address
\* 1.  Still, when no connection has a file the cache may expire every map.
NothingHeldForever ==
    (\A c \in Conns : file_address[c] = NoMap) => \A m \in maps : refcount[m] = 0

=============================================================================
