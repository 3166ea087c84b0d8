------------------------------ MODULE MmcProofs ------------------------------
(***************************************************************************)
(* For every number of connections, files and maps: a connection's address *)
(* stays mapped to its file, reference counts are exact, the four counters *)
(* are what they count, and a Map being added finds a slot in the table.   *)
(***************************************************************************)
EXTENDS Mmc, SumProofs

Shape ==
    /\ maps \subseteq MapIds /\ free_maps \subseteq MapIds /\ maps \cap free_maps = {}
    /\ key \in [MapIds -> Keys] /\ refcount \in [MapIds -> Nat]
    /\ addr \in [MapIds -> Addrs \cup {One}] /\ hash_idx \in [MapIds -> Nat]
    /\ hash_size \in Nat /\ hash_table \in [0..(hash_size - 1) -> MapIds \cup {NoMap}]
    /\ calling \in Conns \cup {NoMap} /\ torehash \subseteq maps
    /\ sb \in [Conns -> Keys]
    /\ file_address \in [Conns -> Addrs \cup {One, NoMap}]

\* A call in progress is for a connection without a file, and only a call
\* rehashes.
Calls ==
    /\ calling = NoMap => torehash = {}
    /\ calling # NoMap => file_address[calling] = NoMap

\* The empty files are the ones at address 1.
Empties == \A m \in maps : addr[m] = One <=> SizeOf[key[m]] = 0

IInv == Shape /\ Calls /\ Empties /\ TableSound /\ MemoryExact /\ NoDangling /\ RefsExact

-----------------------------------------------------------------------------

\* What find_hash() finds is an active map of the file asked for.
LEMMA FoundIsActive ==
    ASSUME Shape, TableSound, NEW k \in Keys, NEW m \in FindHash(k)
    PROVE  m \in maps /\ key[m] = k
<1>1. PICK d \in 0..(hash_size - 1) :
          m = hash_table[Probe(k, d)] /\ m # NoMap /\ key[m] = k
  BY DEF FindHash
<1>2. Probe(k, d) \in 0..(hash_size - 1)
  <2>1. hash_size \in Nat /\ hash_size > 0 /\ Mix[k] \in Nat /\ d \in Nat
    BY MmcAssumption DEF Shape
  <2>. QED BY <2>1 DEF Probe
<1>. QED BY <1>1, <1>2 DEF TableSound, Shape

\* add_hash() puts a map where there is none.
LEMMA HoleIsFree ==
    ASSUME hash_size \in Nat, NEW k \in Keys, NEW table, NEW i \in HoleFor(k, table)
    PROVE  i \in 0..(hash_size - 1) /\ table[i] = NoMap
<1>1. PICK d \in 0..(hash_size - 1) : i = Probe(k, d) /\ table[Probe(k, d)] = NoMap
  BY DEF HoleFor
<1>2. hash_size > 0 /\ Mix[k] \in Nat /\ d \in Nat
  BY MmcAssumption
<1>3. Probe(k, d) \in 0..(hash_size - 1)
  BY <1>2 DEF Probe
<1>. QED BY <1>1, <1>3

\* A set of connections is finite; one more or one less changes its size by one.
LEMMA ConnSets ==
    ASSUME NEW S \in SUBSET Conns, NEW c \in Conns
    PROVE  /\ IsFiniteSet(S) /\ Cardinality(S) \in Nat
           /\ Cardinality(S) = 0 <=> S = {}
           /\ c \notin S => Cardinality(S \cup {c}) = Cardinality(S) + 1
           /\ c \in S => Cardinality(S \ {c}) = Cardinality(S) - 1
<1>1. IsFiniteSet(S)
  BY MmcFinite, FS_Subset
<1>. QED BY <1>1, FS_CardinalityType, FS_EmptySet, FS_AddElement, FS_RemoveElement

\* A map that panic() or mmc_cleanup() may take away has no user.
LEMMA NoUsers ==
    ASSUME IInv, NEW m \in maps, refcount[m] = 0, SizeOf[key[m]] # 0
    PROVE  \A c \in Conns : file_address[c] # addr[m]
<1>1. Users(m) \in SUBSET Conns
  BY DEF Users
<1>2. Cardinality(Users(m)) = 0
  BY DEF IInv, RefsExact
<1>. QED BY <1>1, <1>2, ConnSets DEF Users

\* Throwing away maps that nobody uses leaves the others as they are.
LEMMA Forgetting ==
    ASSUME IInv, NEW gone \in SUBSET maps, \A m \in gone : refcount[m] = 0,
           maps' = maps \ gone, memory' = memory \ Unmapped(gone).from_memory,
           hash_table' = Without(hash_table, gone),
           free_maps' \subseteq free_maps \cup gone,
           UNCHANGED <<key, refcount, addr, hash_idx, hash_size, conns>>,
           torehash' = torehash, torehash = {},
           calling' \in {NoMap}
    PROVE  IInv'
<1>. USE DEF conns
<1>1. Unmapped(gone).from_memory = {addr[m] : m \in {x \in gone : SizeOf[key[x]] # 0}}
  BY DEF Unmapped
<1>2. Shape'
  BY DEF IInv, Shape, Without
<1>3. Calls' /\ Empties'
  BY DEF IInv, Shape, Calls, Empties
<1>4. TableSound'
  <2>1. \A m \in maps : hash_idx[m] \in DOMAIN hash_table /\ hash_table[hash_idx[m]] = m
    BY DEF IInv, TableSound
  <2>2. DOMAIN hash_table' = DOMAIN hash_table
    BY DEF Without
  <2>3. ASSUME NEW i \in DOMAIN hash_table', hash_table'[i] # NoMap
        PROVE  hash_table'[i] \in maps' \ torehash' /\ hash_idx'[hash_table'[i]] = i
    <3>1. hash_table'[i] = hash_table[i] /\ \A m \in gone : hash_idx[m] # i
      BY <2>2, <2>3 DEF Without
    <3>. QED BY <2>2, <2>3, <3>1 DEF IInv, TableSound
  <2>4. ASSUME NEW m \in maps' \ torehash'
        PROVE  hash_idx'[m] \in DOMAIN hash_table' /\ hash_table'[hash_idx'[m]] = m
    <3>1. \A x \in gone : hash_idx[x] # hash_idx[m]
      BY <2>1
    <3>. QED BY <2>1, <2>2, <3>1 DEF Without
  <2>. QED BY <2>3, <2>4 DEF TableSound
<1>5. MemoryExact'
  <2>1. \A m, n \in maps : addr[m] = addr[n] => m = n \/ addr[m] = One
    BY DEF IInv, MemoryExact
  <2>2. \A m \in maps : addr[m] = One <=> SizeOf[key[m]] = 0
    BY DEF IInv, Empties
  <2>3. memory = {addr[m] : m \in {x \in maps : SizeOf[key[x]] # 0}}
    BY DEF IInv, MemoryExact
  <2>4. memory' = {addr[m] : m \in {x \in maps \ gone : SizeOf[key[x]] # 0}}
    BY <1>1, <2>1, <2>2, <2>3
  <2>. QED BY <2>1, <2>4 DEF MemoryExact
<1>6. NoDangling'
  <2>. SUFFICES ASSUME NEW c \in Conns, file_address[c] \in Addrs
                PROVE  /\ file_address[c] \in memory'
                       /\ \E m \in maps' : addr[m] = file_address[c] /\ key[m] = sb[c]
    BY DEF NoDangling
  <2>1. file_address[c] \in memory
    BY DEF IInv, NoDangling
  <2>2. PICK m \in maps : addr[m] = file_address[c] /\ key[m] = sb[c]
    BY DEF IInv, NoDangling
  <2>3. SizeOf[key[m]] # 0
    BY <2>2, MmcAssumption DEF IInv, Empties
  <2>4. m \notin gone
    BY <2>2, <2>3, NoUsers
  <2>5. \A x \in gone : SizeOf[key[x]] # 0 => addr[x] # file_address[c]
    BY NoUsers
  <2>. QED BY <1>1, <2>1, <2>2, <2>4, <2>5
<1>7. RefsExact'
  BY DEF IInv, RefsExact, Users
<1>. QED BY <1>2, <1>3, <1>4, <1>5, <1>6, <1>7 DEF IInv

\* A new map, at an address that is free once the maps of gone are unmapped.
LEMMA Adding ==
    ASSUME IInv, NEW gone \in SUBSET maps, \A m \in gone : refcount[m] = 0,
           NEW m \in MapIds \ maps, m \notin gone,
           NEW a \in Addrs \cup {One}, MapAt(m, a, gone),
           SizeOf[sb[calling]] = 0 <=> a = One,
           a \in Addrs => a \notin memory \ Unmapped(gone).from_memory,
           calling \in Conns, torehash = {}, calling' = NoMap,
           UNCHANGED <<hash_size, torehash, sb>>
    PROVE  IInv'
<1>. DEFINE c == calling
            lost == {addr[x] : x \in {y \in gone : SizeOf[key[y]] # 0}}
<1>1. Unmapped(gone).from_memory = lost
  BY DEF Unmapped
<1>2. /\ key' = [key EXCEPT ![m] = sb[c]] /\ refcount' = [refcount EXCEPT ![m] = 1]
      /\ addr' = [addr EXCEPT ![m] = a] /\ maps' = (maps \ gone) \cup {m}
      /\ free_maps' = (free_maps \cup gone) \ {m}
      /\ memory' = (memory \ lost) \cup ({a} \ {One})
      /\ file_address' = [file_address EXCEPT ![c] = a]
  BY <1>1 DEF MapAt
<1>3. sb[c] \in Keys /\ hash_size \in Nat /\ file_address[c] = NoMap
  BY MmcAssumption DEF IInv, Shape, Calls
<1>4. PICK i \in HoleFor(sb[c], Without(hash_table, gone)) :
          /\ hash_idx' = [hash_idx EXCEPT ![m] = i]
          /\ hash_table' = [Without(hash_table, gone) EXCEPT ![i] = m]
  BY DEF MapAt
<1>5. i \in 0..(hash_size - 1) /\ Without(hash_table, gone)[i] = NoMap
  BY <1>3, HoleIsFree
<1>6. Without(hash_table, gone) \in [0..(hash_size - 1) -> MapIds \cup {NoMap}]
  BY DEF IInv, Shape, Without
<1>7. Shape'
  <2>1. /\ key' \in [MapIds -> Keys] /\ refcount' \in [MapIds -> Nat]
        /\ addr' \in [MapIds -> Addrs \cup {One}]
        /\ file_address' \in [Conns -> Addrs \cup {One, NoMap}]
    BY <1>2, <1>3 DEF IInv, Shape
  <2>2. hash_idx' \in [MapIds -> Nat] /\ hash_table' \in [0..(hash_size - 1) -> MapIds \cup {NoMap}]
    BY <1>4, <1>5, <1>6 DEF IInv, Shape
  <2>3. maps' \subseteq MapIds /\ free_maps' \subseteq MapIds /\ maps' \cap free_maps' = {}
    BY <1>2 DEF IInv, Shape
  <2>. QED BY <2>1, <2>2, <2>3 DEF IInv, Shape
<1>8. Calls'
  BY DEF Calls
<1>9. m \in MapIds /\ key'[m] = sb[c] /\ addr'[m] = a /\ refcount'[m] = 1
  BY <1>2 DEF IInv, Shape
<1>10. \A x \in maps : key'[x] = key[x] /\ addr'[x] = addr[x] /\ refcount'[x] = refcount[x]
  BY <1>2 DEF IInv, Shape
<1>11. Empties'
  BY <1>2, <1>9, <1>10 DEF IInv, Empties
<1>12. TableSound'
  <2>1. \A x \in maps : hash_idx[x] \in DOMAIN hash_table /\ hash_table[hash_idx[x]] = x
    BY DEF IInv, TableSound
  <2>2. DOMAIN hash_table' = 0..(hash_size - 1) /\ DOMAIN hash_table = 0..(hash_size - 1)
    BY <1>4, <1>6 DEF IInv, Shape
  <2>3. hash_table'[i] = m /\ hash_idx'[m] = i
    BY <1>4, <1>5, <1>6 DEF IInv, Shape
  <2>4. ASSUME NEW j \in DOMAIN hash_table', hash_table'[j] # NoMap
        PROVE  hash_table'[j] \in maps' \ torehash' /\ hash_idx'[hash_table'[j]] = j
    <3>1. CASE j = i
      BY <3>1, <2>3, <1>2
    <3>2. CASE j # i
      <4>1. hash_table'[j] = Without(hash_table, gone)[j]
        BY <3>2, <1>4, <1>6, <2>2
      <4>2. hash_table'[j] = hash_table[j] /\ \A x \in gone : hash_idx[x] # j
        BY <4>1, <2>2, <2>4 DEF Without
      <4>3. hash_table[j] \in maps /\ hash_idx[hash_table[j]] = j
        BY <2>2, <2>4, <4>2 DEF IInv, TableSound
      <4>4. hash_idx'[hash_table[j]] = hash_idx[hash_table[j]]
        BY <4>3, <1>4 DEF IInv, Shape
      <4>. QED BY <4>2, <4>3, <4>4, <1>2
    <3>. QED BY <3>1, <3>2
  <2>5. ASSUME NEW x \in maps'
        PROVE  hash_idx'[x] \in DOMAIN hash_table' /\ hash_table'[hash_idx'[x]] = x
    <3>1. CASE x = m
      BY <3>1, <2>2, <2>3, <1>5
    <3>2. CASE x # m
      <4>1. x \in maps /\ x \notin gone /\ hash_idx'[x] = hash_idx[x]
        BY <3>2, <1>2, <1>4 DEF IInv, Shape
      <4>2. \A y \in gone : hash_idx[y] # hash_idx[x]
        BY <4>1, <2>1
      <4>3. Without(hash_table, gone)[hash_idx[x]] = x
        BY <4>1, <4>2, <2>1 DEF Without
      <4>4. x # NoMap
        BY <4>1, MmcAssumption DEF IInv, Shape
      <4>5. hash_idx[x] # i
        BY <4>3, <4>4, <1>5
      <4>. QED BY <4>1, <4>3, <4>5, <2>1, <2>2, <1>4, <1>6
    <3>. QED BY <3>1, <3>2
  <2>. QED BY <2>4, <2>5 DEF TableSound
<1>13. MemoryExact'
  <2>1. \A x, y \in maps : addr[x] = addr[y] => x = y \/ addr[x] = One
    BY DEF IInv, MemoryExact
  <2>2. \A x \in maps : addr[x] = One <=> SizeOf[key[x]] = 0
    BY DEF IInv, Empties
  <2>3. memory = {addr[x] : x \in {y \in maps : SizeOf[key[y]] # 0}}
    BY DEF IInv, MemoryExact
  <2>4. memory \ lost = {addr[x] : x \in {y \in maps \ gone : SizeOf[key[y]] # 0}}
    BY <2>1, <2>2, <2>3
  <2>5. memory' = {addr'[x] : x \in {y \in maps' : SizeOf[key'[y]] # 0}}
    BY <2>4, <1>2, <1>9, <1>10, SMTT(30)
  <2>6. \A x \in maps \ gone : addr[x] = a => a = One
    BY <1>1, <2>2, <2>4
  <2>7. \A x, y \in maps' : addr'[x] = addr'[y] => x = y \/ addr'[x] = One
    BY <2>1, <2>6, <1>2, <1>9, <1>10
  <2>. QED BY <2>5, <2>7 DEF MemoryExact
<1>14. NoDangling'
  <2>. SUFFICES ASSUME NEW d \in Conns, file_address'[d] \in Addrs
                PROVE  /\ file_address'[d] \in memory'
                       /\ \E x \in maps' : addr'[x] = file_address'[d] /\ key'[x] = sb[d]
    BY DEF NoDangling
  <2>1. CASE d = c
    <3>1. file_address'[d] = a
      BY <2>1, <1>2 DEF IInv, Shape
    <3>2. a # One
      BY <3>1, MmcAssumption
    <3>. QED BY <2>1, <3>1, <3>2, <1>2, <1>9
  <2>2. CASE d # c
    <3>1. file_address'[d] = file_address[d]
      BY <2>2, <1>2 DEF IInv, Shape
    <3>2. file_address[d] \in memory
      BY <3>1 DEF IInv, NoDangling
    <3>3. PICK x \in maps : addr[x] = file_address[d] /\ key[x] = sb[d]
      BY <3>1 DEF IInv, NoDangling
    <3>4. SizeOf[key[x]] # 0
      BY <3>1, <3>3, MmcAssumption DEF IInv, Empties
    <3>5. x \notin gone
      BY <3>3, <3>4, NoUsers
    <3>6. \A y \in gone : SizeOf[key[y]] # 0 => addr[y] # file_address[d]
      BY NoUsers
    <3>. QED BY <3>1, <3>2, <3>3, <3>5, <3>6, <1>2, <1>10
  <2>. QED BY <2>1, <2>2
<1>15. RefsExact'
  <2>. SUFFICES ASSUME NEW x \in maps', SizeOf[key'[x]] # 0
                PROVE  refcount'[x] = Cardinality(Users(x)')
    BY DEF RefsExact
  <2>1. CASE x = m
    <3>1. a \in Addrs /\ a # NoMap
      BY <2>1, <1>9, MmcAssumption
    <3>2. \A d \in Conns : file_address[d] # a
      <4>1. SUFFICES ASSUME NEW d \in Conns, file_address[d] = a PROVE FALSE
        OBVIOUS
      <4>2. a \in memory
        BY <3>1, <4>1 DEF IInv, NoDangling
      <4>3. PICK y \in gone : SizeOf[key[y]] # 0 /\ addr[y] = a
        BY <4>2, <3>1, <1>1
      <4>. QED BY <4>1, <4>3, NoUsers
    <3>3. Users(x)' = {c}
      BY <3>2, <2>1, <1>2, <1>9 DEF Users, IInv, Shape
    <3>4. Cardinality({c}) = 1
      BY FS_Singleton
    <3>. QED BY <3>3, <3>4, <2>1, <1>9
  <2>2. CASE x # m
    <3>1. x \in maps \ gone
      BY <2>2, <1>2
    <3>2. addr[x] # a /\ addr[x] # NoMap
      <4>1. addr[x] \in Addrs /\ addr[x] # One
        <5>1. SizeOf[key[x]] # 0 /\ addr[x] \in Addrs \cup {One}
          BY <3>1, <1>10 DEF IInv, Shape
        <5>. QED BY <5>1, <3>1 DEF IInv, Empties
      <4>2. addr'[x] # addr'[m] \/ addr'[x] = One
        BY <1>13, <1>2, <2>2 DEF MemoryExact
      <4>. QED BY <4>1, <4>2, <3>1, <1>9, <1>10, MmcAssumption
    <3>3. Users(x)' = Users(x)
      BY <3>1, <3>2, <1>2, <1>3, <1>10 DEF Users, IInv, Shape
    <3>. QED BY <3>1, <3>3, <1>10 DEF IInv, RefsExact
  <2>. QED BY <2>1, <2>2
<1>. QED BY <1>7, <1>8, <1>11, <1>12, <1>13, <1>14, <1>15 DEF IInv

\* A connection is given a map that was there.
LEMMA Sharing ==
    ASSUME IInv, MapHit
    PROVE  IInv'
<1>. DEFINE c == calling
<1>1. c \in Conns /\ torehash = {} /\ file_address[c] = NoMap /\ sb[c] \in Keys
  BY MmcAssumption DEF IInv, Shape, Calls, MapHit, Ready
<1>2. PICK m \in FindHash(sb[c]) :
          /\ refcount' = [refcount EXCEPT ![m] = @ + 1]
          /\ file_address' = [file_address EXCEPT ![c] = addr[m]]
  BY DEF MapHit
<1>3. m \in maps /\ m \in MapIds /\ key[m] = sb[c]
  BY <1>1, FoundIsActive DEF IInv, Shape
<1>4. UNCHANGED <<maps, free_maps, key, addr, hash_idx, hash_table, hash_size, torehash,
                  sb, memory>> /\ calling' = NoMap
  BY DEF MapHit, hash
<1>5. addr[m] \in Addrs \cup {One} /\ addr[m] # NoMap
  BY <1>3, MmcAssumption DEF IInv, Shape
<1>6. Shape'
  <2>1. refcount' \in [MapIds -> Nat] /\ file_address' \in [Conns -> Addrs \cup {One, NoMap}]
    BY <1>1, <1>2, <1>3, <1>5 DEF IInv, Shape
  <2>. QED BY <2>1, <1>4 DEF IInv, Shape
<1>7. Calls' /\ Empties' /\ TableSound' /\ MemoryExact'
  BY <1>1, <1>4 DEF IInv, Calls, Empties, TableSound, MemoryExact
<1>8. \A d \in Conns : file_address'[d] = IF d = c THEN addr[m] ELSE file_address[d]
  BY <1>1, <1>2 DEF IInv, Shape
<1>9. NoDangling'
  <2>1. addr[m] \in Addrs => addr[m] \in memory
    BY <1>3, MmcAssumption DEF IInv, MemoryExact, Empties
  <2>. QED BY <2>1, <1>3, <1>4, <1>8 DEF IInv, NoDangling
<1>10. RefsExact'
  <2>. SUFFICES ASSUME NEW x \in maps, SizeOf[key[x]] # 0
                PROVE  refcount'[x] = Cardinality(Users(x)')
    BY <1>4 DEF RefsExact
  <2>1. refcount[x] = Cardinality(Users(x)) /\ x \in MapIds /\ addr[x] # NoMap
    BY MmcAssumption DEF IInv, RefsExact, Shape
  <2>2. CASE x = m
    <3>1. Users(x)' = Users(x) \cup {c} /\ c \notin Users(x) /\ Users(x) \in SUBSET Conns
      BY <2>1, <2>2, <1>1, <1>4, <1>8 DEF Users
    <3>2. Cardinality(Users(x)') = Cardinality(Users(x)) + 1
      BY <3>1, <1>1, ConnSets
    <3>3. refcount'[x] = refcount[x] + 1
      BY <2>1, <2>2, <1>2 DEF IInv, Shape
    <3>. QED BY <3>2, <3>3, <2>1
  <2>3. CASE x # m
    <3>1. addr[x] # addr[m]
      BY <2>3, <1>3 DEF IInv, MemoryExact, Empties
    <3>2. Users(x)' = Users(x)
      BY <3>1, <2>1, <1>1, <1>4, <1>8 DEF Users
    <3>3. refcount'[x] = refcount[x]
      BY <2>1, <2>3, <1>2 DEF IInv, Shape
    <3>. QED BY <3>2, <3>3, <2>1
  <2>. QED BY <2>2, <2>3
<1>. QED BY <1>6, <1>7, <1>9, <1>10 DEF IInv

\* A connection gives its address back.  The map whose count goes down is the
\* one with that address; only for empty files may it be another.
LEMMA Returning ==
    ASSUME IInv, NEW c \in Conns, mmc_unmap(c)
    PROVE  IInv'
<1>1. UNCHANGED <<maps, free_maps, key, addr, hash_idx, hash_table, hash_size, calling,
                  torehash, sb, memory>>
  BY DEF mmc_unmap, hash
<1>2. file_address' = [file_address EXCEPT ![c] = NoMap] /\ file_address[c] # NoMap
      /\ calling = NoMap
  BY DEF mmc_unmap
<1>3. \A m \in MapOf(c) : m \in maps /\ m \in MapIds /\ addr[m] = file_address[c]
  BY DEF MapOf, IInv, Shape
<1>4. \A d \in Conns : file_address'[d] = IF d = c THEN NoMap ELSE file_address[d]
  BY <1>2 DEF IInv, Shape
<1>5. refcount' \in [MapIds -> Nat]
  <2>1. CASE refcount' = refcount
    BY <2>1 DEF IInv, Shape
  <2>2. CASE \E m \in MapOf(c) : refcount[m] > 0 /\ refcount' = [refcount EXCEPT ![m] = @ - 1]
    BY <2>2, <1>3 DEF IInv, Shape
  <2>. QED BY <2>1, <2>2 DEF mmc_unmap
<1>6. Shape' /\ Calls' /\ Empties' /\ TableSound' /\ MemoryExact'
  <2>1. file_address' \in [Conns -> Addrs \cup {One, NoMap}]
    BY <1>2 DEF IInv, Shape
  <2>2. Shape'
    BY <2>1, <1>1, <1>5 DEF IInv, Shape
  <2>. QED BY <2>2, <1>1, <1>2 DEF IInv, Calls, Empties, TableSound, MemoryExact
<1>7. NoDangling'
  BY <1>1, <1>4, MmcAssumption DEF IInv, NoDangling
<1>8. RefsExact'
  <2>. SUFFICES ASSUME NEW x \in maps, SizeOf[key[x]] # 0
                PROVE  refcount'[x] = Cardinality(Users(x)')
    BY <1>1 DEF RefsExact
  <2>1. /\ refcount[x] = Cardinality(Users(x)) /\ x \in MapIds
        /\ addr[x] # NoMap /\ addr[x] # One /\ Users(x) \in SUBSET Conns
    BY MmcAssumption DEF IInv, RefsExact, Shape, Empties, Users
  <2>2. CASE addr[x] = file_address[c]
    <3>1. \A m \in MapOf(c) : m = x
      BY <2>1, <2>2, <1>3 DEF IInv, MemoryExact
    <3>2. MapOf(c) # {}
      BY <2>2 DEF MapOf
    <3>3. c \in Users(x) /\ Users(x)' = Users(x) \ {c}
      BY <2>1, <2>2, <1>1, <1>4 DEF Users
    <3>4. refcount[x] # 0 /\ Cardinality(Users(x)') = refcount[x] - 1
      BY <2>1, <3>3, ConnSets
    <3>5. refcount' = [refcount EXCEPT ![x] = @ - 1]
      BY <3>1, <3>2, <3>4 DEF mmc_unmap
    <3>. QED BY <3>4, <3>5, <2>1 DEF IInv, Shape
  <2>3. CASE addr[x] # file_address[c]
    <3>1. x \notin MapOf(c)
      BY <2>3, <1>3
    <3>2. refcount'[x] = refcount[x]
      <4>1. CASE refcount' = refcount
        BY <4>1
      <4>2. CASE \E m \in MapOf(c) : refcount' = [refcount EXCEPT ![m] = @ - 1]
        BY <4>2, <3>1, <2>1 DEF IInv, Shape
      <4>. QED BY <4>1, <4>2 DEF mmc_unmap
    <3>3. Users(x)' = Users(x)
      BY <2>1, <2>3, <1>1, <1>4 DEF Users
    <3>. QED BY <3>2, <3>3, <2>1
  <2>. QED BY <2>2, <2>3
<1>. QED BY <1>6, <1>7, <1>8 DEF IInv

-----------------------------------------------------------------------------

LEMMA Initially == Init => IInv
<1>. SUFFICES ASSUME Init PROVE IInv
  OBVIOUS
<1>1. Shape
  <2>1. hash_table \in [0..(hash_size - 1) -> MapIds \cup {NoMap}]
    BY DEF Init
  <2>2. (CHOOSE k \in Keys : TRUE) \in Keys
    BY MmcAssumption
  <2>. QED BY <2>1, <2>2 DEF Init, Shape
<1>2. Calls /\ Empties /\ TableSound /\ MemoryExact /\ RefsExact
  BY DEF Init, Calls, Empties, TableSound, MemoryExact, RefsExact
<1>3. NoDangling
  BY MmcAssumption DEF Init, NoDangling
<1>. QED BY <1>1, <1>2, <1>3 DEF IInv

LEMMA EveryStep == IInv /\ [Next]_vars => IInv'
<1>. SUFFICES ASSUME IInv, [Next]_vars PROVE IInv'
  OBVIOUS
<1>1. ASSUME NEW c \in Conns, NEW k \in Keys, mmc_map(c, k) PROVE IInv'
  <2>1. /\ UNCHANGED <<maps, free_maps, key, refcount, addr, hash_idx, file_address, memory>>
        /\ calling' = c /\ sb' = [sb EXCEPT ![c] = k] /\ file_address[c] = NoMap
        /\ calling = NoMap
    BY <1>1 DEF mmc_map, fields
  <2>2. \A d \in Conns : file_address[d] \in Addrs => sb'[d] = sb[d]
    BY <2>1, MmcAssumption DEF IInv, Shape
  <2>3. sb' \in [Conns -> Keys] /\ c # NoMap
    BY <2>1, MmcAssumption DEF IInv, Shape
  <2>4. Calls' /\ Empties' /\ MemoryExact' /\ RefsExact'
    BY <2>1, <2>3 DEF IInv, Calls, Empties, MemoryExact, RefsExact, Users
  <2>5. NoDangling'
    BY <2>1, <2>2 DEF IInv, NoDangling
  <2>6. CASE UNCHANGED <<hash, torehash>>
    <3>1. Shape' /\ TableSound'
      BY <2>1, <2>3, <2>6 DEF IInv, Shape, TableSound, hash
    <3>. QED BY <3>1, <2>4, <2>5 DEF IInv
  <2>7. CASE /\ hash_size' \in NewSize /\ torehash' = maps
             /\ hash_table' = [i \in 0..(hash_size' - 1) |-> NoMap]
    <3>1. hash_size' \in Nat
      BY <2>7, MmcAssumption DEF NewSize
    <3>2. Shape'
      BY <3>1, <2>1, <2>3, <2>7 DEF IInv, Shape
    <3>3. TableSound'
      BY <2>1, <2>7 DEF TableSound
    <3>. QED BY <3>2, <3>3, <2>4, <2>5 DEF IInv
  <2>. QED BY <1>1, <2>6, <2>7 DEF mmc_map
<1>2. ASSUME NEW m \in MapIds, Rehash(m) PROVE IInv'
  <2>1. /\ UNCHANGED <<maps, free_maps, key, refcount, addr, hash_size, sb, file_address,
                       memory, calling>>
        /\ m \in torehash /\ torehash' = torehash \ {m}
    BY <1>2 DEF Rehash, conns
  <2>2. PICK i \in HoleFor(key[m], hash_table) :
            hash_table' = [hash_table EXCEPT ![i] = m] /\ hash_idx' = [hash_idx EXCEPT ![m] = i]
    BY <1>2 DEF Rehash
  <2>3. i \in 0..(hash_size - 1) /\ hash_table[i] = NoMap
    BY HoleIsFree DEF IInv, Shape
  <2>4. Shape'
    <3>1. hash_table' \in [0..(hash_size - 1) -> MapIds \cup {NoMap}]
          /\ hash_idx' \in [MapIds -> Nat]
      BY <2>2, <2>3 DEF IInv, Shape
    <3>. QED BY <3>1, <2>1 DEF IInv, Shape
  <2>5. Calls' /\ Empties' /\ MemoryExact' /\ RefsExact' /\ NoDangling'
    BY <2>1 DEF IInv, Calls, Empties, MemoryExact, RefsExact, Users, NoDangling
  <2>6. TableSound'
    <3>1. \A x \in MapIds : hash_idx'[x] = IF x = m THEN i ELSE hash_idx[x]
      BY <2>2 DEF IInv, Shape
    <3>2. DOMAIN hash_table = 0..(hash_size - 1) /\ DOMAIN hash_table' = 0..(hash_size - 1)
      BY <2>2 DEF IInv, Shape
    <3>3. \A j \in 0..(hash_size - 1) : hash_table'[j] = IF j = i THEN m ELSE hash_table[j]
      BY <2>2, <3>2
    <3>4. m \in maps /\ maps \subseteq MapIds /\ NoMap \notin MapIds
      BY <2>1, MmcAssumption DEF IInv, Shape
    <3>5. ASSUME NEW j \in DOMAIN hash_table', hash_table'[j] # NoMap
          PROVE  hash_table'[j] \in maps' \ torehash' /\ hash_idx'[hash_table'[j]] = j
      <4>1. CASE j = i
        BY <4>1, <3>1, <3>2, <3>3, <3>4, <2>1
      <4>2. CASE j # i
        <5>1. hash_table'[j] = hash_table[j]
          BY <4>2, <3>2, <3>3
        <5>2. hash_table[j] \in maps /\ hash_idx[hash_table[j]] = j
          BY <5>1, <3>2, <3>5 DEF IInv, TableSound
        <5>3. hash_table[j] \notin torehash
          BY <5>1, <3>2, <3>5 DEF IInv, TableSound
        <5>. QED BY <5>1, <5>2, <5>3, <3>1, <3>4, <2>1
      <4>. QED BY <4>1, <4>2
    <3>6. ASSUME NEW x \in maps' \ torehash'
          PROVE  hash_idx'[x] \in DOMAIN hash_table' /\ hash_table'[hash_idx'[x]] = x
      BY <3>1, <3>2, <3>3, <3>4, <2>1, <2>3 DEF IInv, TableSound
    <3>. QED BY <3>5, <3>6 DEF TableSound
  <2>. QED BY <2>4, <2>5, <2>6 DEF IInv
<1>3. CASE MapHit
  BY <1>3, Sharing
<1>4. CASE MapFails
  <2>1. /\ UNCHANGED <<maps, free_maps, key, refcount, addr, hash_idx, hash_table, hash_size,
                       torehash, sb, file_address, memory>>
        /\ calling' = NoMap /\ torehash = {}
    BY <1>4 DEF MapFails, Ready, fields, hash, conns
  <2>. QED BY <2>1 DEF IInv, Shape, Calls, Empties, TableSound, MemoryExact, NoDangling,
                       RefsExact, Users
<1>5. CASE MapMiss
  <2>1. /\ calling \in Conns /\ torehash = {} /\ calling' = NoMap
        /\ UNCHANGED <<hash_size, torehash, sb>>
    BY <1>5 DEF MapMiss, Ready, IInv, Shape
  <2>2. PICK m \in Spare :
          \/ SizeOf[sb[calling]] = 0 /\ MapAt(m, One, {})
          \/ /\ SizeOf[sb[calling]] # 0
             /\ \E gone \in {{}, Unreferenced} :
                   \E a \in Addrs \ (memory \ Unmapped(gone).from_memory) : MapAt(m, a, gone)
    BY <1>5 DEF MapMiss
  <2>3. m \in MapIds \ maps
    BY DEF Spare, IInv, Shape
  <2>4. CASE SizeOf[sb[calling]] = 0 /\ MapAt(m, One, {})
    BY <2>1, <2>3, <2>4, Adding, MmcAssumption
  <2>5. CASE SizeOf[sb[calling]] # 0
    <3>1. PICK gone \in {{}, Unreferenced} :
            \E a \in Addrs \ (memory \ Unmapped(gone).from_memory) : MapAt(m, a, gone)
      BY <2>2, <2>5
    <3>2. PICK a \in Addrs \ (memory \ Unmapped(gone).from_memory) : MapAt(m, a, gone)
      BY <3>1
    <3>3. gone \in SUBSET maps /\ \A x \in gone : refcount[x] = 0
      BY DEF Unreferenced
    <3>4. a # One
      BY MmcAssumption
    <3>. QED BY <2>1, <2>3, <2>5, <3>2, <3>3, <3>4, Adding
  <2>. QED BY <2>2, <2>4, <2>5
<1>6. CASE MapNoSpace
  <2>1. torehash = {} /\ torehash' = torehash /\ calling' \in {NoMap}
        /\ UNCHANGED <<key, refcount, addr, hash_idx, hash_size, conns>>
    BY <1>6 DEF MapNoSpace, Ready, fields
  <2>2. PICK m \in Spare, gone \in {{}, Unreferenced} :
          /\ maps' = maps \ gone /\ free_maps' = (free_maps \cup gone) \ {m}
          /\ memory' = memory \ Unmapped(gone).from_memory
          /\ hash_table' = Without(hash_table, gone)
    BY <1>6 DEF MapNoSpace
  <2>3. gone \in SUBSET maps /\ (\A x \in gone : refcount[x] = 0)
        /\ free_maps' \subseteq free_maps \cup gone
    BY <2>2 DEF Unreferenced
  <2>. QED BY <2>1, <2>2, <2>3, Forgetting
<1>7. ASSUME NEW c \in Conns, mmc_unmap(c) PROVE IInv'
  BY <1>7, Returning
<1>8. CASE mmc_cleanup
  <2>1. /\ UNCHANGED <<key, refcount, addr, hash_idx, hash_size, conns>>
        /\ torehash' = torehash /\ calling' = calling /\ calling = NoMap
    BY <1>8 DEF mmc_cleanup, fields
  <2>2. /\ maps' = maps \ Expired /\ memory' = memory \ Unmapped(Expired).from_memory
        /\ hash_table' = Without(hash_table, Expired)
        /\ free_maps' \subseteq free_maps \cup Expired
    BY <1>8 DEF mmc_cleanup
  <2>3. Expired \in SUBSET maps /\ \A x \in Expired : refcount[x] = 0
    BY DEF Expired, Unreferenced
  <2>4. torehash = {}
    BY <2>1 DEF IInv, Calls
  <2>. QED BY <2>1, <2>2, <2>3, <2>4, Forgetting
<1>9. CASE mmc_term
  <2>1. /\ UNCHANGED <<key, refcount, addr, hash_idx, hash_size, sb, file_address>>
        /\ torehash' = torehash /\ calling' = calling /\ calling = NoMap
        /\ \A c \in Conns : file_address[c] = NoMap
        /\ maps' = {} /\ free_maps' = {} /\ memory' = memory \ Unmapped(maps).from_memory
        /\ hash_table' = Without(hash_table, maps)
    BY <1>9 DEF mmc_term, fields, conns
  <2>2. torehash = {}
    BY <2>1 DEF IInv, Calls
  <2>3. Shape' /\ Calls' /\ Empties' /\ RefsExact'
    BY <2>1, <2>2 DEF IInv, Shape, Calls, Empties, RefsExact, Without
  <2>4. NoDangling'
    BY <2>1, MmcAssumption DEF NoDangling
  <2>5. MemoryExact'
    <3>1. Unmapped(maps).from_memory = {addr[m] : m \in {x \in maps : SizeOf[key[x]] # 0}}
      BY DEF Unmapped
    <3>2. memory' = {}
      BY <3>1, <2>1 DEF IInv, MemoryExact
    <3>. QED BY <3>2, <2>1 DEF MemoryExact
  <2>6. TableSound'
    <3>1. DOMAIN hash_table' = DOMAIN hash_table
      BY <2>1 DEF Without
    <3>2. \A i \in DOMAIN hash_table : hash_table'[i] = NoMap
      BY <2>1 DEF Without, IInv, TableSound
    <3>. QED BY <3>1, <3>2, <2>1 DEF TableSound
  <2>. QED BY <2>3, <2>4, <2>5, <2>6 DEF IInv
<1>10. CASE Clock \/ UNCHANGED vars
  <2>1. UNCHANGED <<maps, free_maps, key, refcount, addr, hash_idx, hash_table, hash_size,
                    torehash, calling, sb, file_address, memory>>
    BY <1>10 DEF Clock, vars, fields, hash, conns
  <2>. QED BY <2>1 DEF IInv, Shape, Calls, Empties, TableSound, MemoryExact, NoDangling,
                       RefsExact, Users
<1>. QED BY <1>1, <1>2, <1>3, <1>4, <1>5, <1>6, <1>7, <1>8, <1>9, <1>10 DEF Next

LEMMA Inductive == Spec => []IInv
BY Initially, EveryStep, PTL DEF Spec

\* The address a connection sends from stays mapped to the file it asked for,
\* for every number of connections, maps and addresses (mmc_cleanup(), panic()).
THEOREM AddressesStayMapped == Spec => []NoDangling
BY Inductive, PTL DEF IInv

\* The reference count of a mapped file is the number of connections that have
\* its address, whichever way mmc_unmap() finds the map.
THEOREM CountsAreExact == Spec => []RefsExact
BY Inductive, PTL DEF IInv

\* The hash table refers to active maps only and knows all of them, except the
\* ones check_hash_size() has not come to yet.
THEOREM TableIsSound == Spec => []TableSound
BY Inductive, PTL DEF IInv

\* What is mapped is what the active list says, each address once.
THEOREM MemoryIsExact == Spec => []MemoryExact
BY Inductive, PTL DEF IInv

-----------------------------------------------------------------------------
(* The counters, the room in the hash table, and the rest of the types.     *)

Clocks ==
    /\ now \in 0..MaxTime /\ reftime \in [MapIds -> 0..MaxTime] /\ over \in BOOLEAN
    /\ expire_age \in (DefaultExpireAge \div 10)..(DefaultExpireAge * 3)

\* The size of the file of each Map.
MapSizes == [m \in MapIds |-> SizeOf[key[m]]]

Counted ==
    /\ IsFiniteSet(maps) /\ IsFiniteSet(free_maps)
    /\ map_count = Cardinality(maps) /\ free_count = Cardinality(free_maps)
    /\ alloc_count = map_count + free_count
    /\ mapped_bytes = Sum(MapSizes, maps)

\* check_hash_size() has looked at the table before it is used.
Roomy == calling # NoMap => hash_size > 0 /\ hash_size >= map_count * 3

MInv == IInv /\ Clocks /\ Counted /\ Roomy

\* Bytes() is the sum of the sizes.
LEMMA BytesAre ==
    ASSUME Shape, NEW ms \in SUBSET MapIds, IsFiniteSet(ms)
    PROVE  /\ \A m \in ms : MapSizes[m] = SizeOf[key[m]] /\ MapSizes[m] \in Nat
           /\ Sum(MapSizes, ms) \in Nat /\ Bytes(ms) = Sum(MapSizes, ms)
<1>. DEFINE g == CHOOSE h : h = [s \in SUBSET ms |->
                      IF s = {} THEN 0 ELSE SizeOf[key[First(s)]] + h[s \ {First(s)}]]
<1>1. \A m \in ms : MapSizes[m] = SizeOf[key[m]] /\ MapSizes[m] \in Nat
  BY MmcAssumption DEF Shape, MapSizes
<1>2. Sum(MapSizes, ms) \in Nat
  BY <1>1, SumNat
<1>3. PICK f \in [SUBSET ms -> Int] : Folds(f, MapSizes, ms) /\ Sum(MapSizes, ms) = f[ms]
  <2>1. \A m \in ms : MapSizes[m] \in Int
    BY <1>1
  <2>. QED BY <2>1, SumFolds
<1>4. \A s \in SUBSET ms : s # {} => MapSizes[First(s)] = SizeOf[key[First(s)]]
  BY <1>1, FirstIs
<1>5. f = [s \in SUBSET ms |-> IF s = {} THEN 0 ELSE SizeOf[key[First(s)]] + f[s \ {First(s)}]]
  BY <1>3, <1>4 DEF Folds
<1>6. g = [s \in SUBSET ms |-> IF s = {} THEN 0 ELSE SizeOf[key[First(s)]] + g[s \ {First(s)}]]
  BY <1>5
<1>7. Folds(g, MapSizes, ms)
  <2>. HIDE DEF g
  <2>. QED BY <1>4, <1>6 DEF Folds
<1>8. g = f
  <2>. HIDE DEF g
  <2>. QED BY <1>3, <1>7, FoldUnique
<1>9. Bytes(ms) = g[ms]
  BY DEF Bytes, MapThenSumSet, MapThenFoldSet, First
<1>. QED BY <1>1, <1>2, <1>3, <1>8, <1>9

LEMMA MaxOfTwo ==
    ASSUME NEW a \in Int, NEW b \in Int
    PROVE  Max({a, b}) = (IF a >= b THEN a ELSE b) /\ Min({a, b}) = (IF a <= b THEN a ELSE b)
<1>1. \E x \in {a, b} : \A y \in {a, b} : x >= y
  OBVIOUS
<1>2. Max({a, b}) \in {a, b} /\ \A y \in {a, b} : Max({a, b}) >= y
  BY <1>1 DEF Max
<1>3. \E x \in {a, b} : \A y \in {a, b} : x <= y
  OBVIOUS
<1>4. Min({a, b}) \in {a, b} /\ \A y \in {a, b} : Min({a, b}) <= y
  BY <1>3 DEF Min
<1>. QED BY <1>2, <1>4

\* The maps of gone leave the active list.
LEMMA Leaving ==
    ASSUME IInv, Counted, NEW gone \in SUBSET maps
    PROVE  /\ IsFiniteSet(gone) /\ IsFiniteSet(maps \ gone) /\ IsFiniteSet(free_maps \cup gone)
           /\ Unmapped(gone).count = Cardinality(gone) /\ Cardinality(gone) \in Nat
           /\ Cardinality(maps \ gone) = map_count - Cardinality(gone)
           /\ Cardinality(free_maps \cup gone) = free_count + Cardinality(gone)
           /\ Unmapped(gone).bytes = Sum(MapSizes, gone)
           /\ Sum(MapSizes, maps \ gone) = mapped_bytes - Sum(MapSizes, gone)
           /\ map_count \in Nat /\ free_count \in Nat /\ mapped_bytes \in Nat
           /\ Sum(MapSizes, gone) \in Nat
<1>. USE DEF Counted
<1>1. IsFiniteSet(gone) /\ IsFiniteSet(maps \ gone)
  BY FS_Subset
<1>2. /\ gone \in SUBSET MapIds /\ gone \cap free_maps = {} /\ maps \in SUBSET MapIds
      /\ maps \ gone \in SUBSET MapIds
  BY DEF IInv, Shape
<1>3. Cardinality(gone) \in Nat /\ map_count \in Nat /\ free_count \in Nat
  BY <1>1, FS_CardinalityType
<1>4. Cardinality(maps \ gone) = map_count - Cardinality(gone)
  <2>1. maps \cap gone = gone
    OBVIOUS
  <2>. QED BY <1>1, <2>1, FS_Difference
<1>5. IsFiniteSet(free_maps \cup gone) /\ Cardinality(free_maps \cup gone) = free_count + Cardinality(gone)
  <2>1. Cardinality(free_maps \cap gone) = 0
    <3>1. free_maps \cap gone = {}
      BY <1>2
    <3>. QED BY <3>1, FS_EmptySet
  <2>2. /\ IsFiniteSet(free_maps \cup gone)
        /\ Cardinality(free_maps \cup gone)
             = Cardinality(free_maps) + Cardinality(gone) - Cardinality(free_maps \cap gone)
    BY <1>1, FS_Union
  <2>. QED BY <1>3, <2>1, <2>2
<1>6. /\ Bytes(gone) = Sum(MapSizes, gone) /\ Sum(MapSizes, gone) \in Nat /\ mapped_bytes \in Nat
      /\ \A m \in maps : MapSizes[m] \in Int
  <2>1. Shape
    BY DEF IInv
  <2>2. \A m \in maps : MapSizes[m] \in Nat
    BY <1>2, <2>1, BytesAre
  <2>. QED BY <1>1, <1>2, <2>1, <2>2, BytesAre
<1>7. Sum(MapSizes, maps \ gone) = Sum(MapSizes, maps) - Sum(MapSizes, gone)
  BY <1>6, SumPart
<1>8. Unmapped(gone).count = Cardinality(gone) /\ Unmapped(gone).bytes = Bytes(gone)
  BY DEF Unmapped
<1>. QED BY <1>1, <1>3, <1>4, <1>5, <1>6, <1>7, <1>8

\* A step that leaves the lists as they are.
LEMMA ListsStay ==
    ASSUME MInv, UNCHANGED <<maps, free_maps, key, counters>>
    PROVE  Counted'
<1>1. MapSizes' = MapSizes
  BY DEF MapSizes
<1>. QED BY <1>1 DEF MInv, Counted, counters

\* mmc_map() adds a map, perhaps after panic().
LEMMA CountAdded ==
    ASSUME MInv, NEW gone \in SUBSET maps, NEW m \in Spare, NEW a, MapAt(m, a, gone),
           calling \in Conns
    PROVE  Counted'
<1>. DEFINE n == Cardinality(gone)
            k == sb[calling]
            reused == IF free_maps # {} THEN 1 ELSE 0
<1>0. m \in MapIds \ maps /\ k \in Keys /\ SizeOf[k] \in Nat /\ maps \in SUBSET MapIds
  BY MmcAssumption DEF Spare, MInv, IInv, Shape
<1>1. /\ IsFiniteSet(gone) /\ IsFiniteSet(maps \ gone) /\ IsFiniteSet(free_maps \cup gone)
      /\ Unmapped(gone).count = n /\ n \in Nat
      /\ Cardinality(maps \ gone) = map_count - n
      /\ Cardinality(free_maps \cup gone) = free_count + n
      /\ Unmapped(gone).bytes = Sum(MapSizes, gone)
      /\ Sum(MapSizes, maps \ gone) = mapped_bytes - Sum(MapSizes, gone)
      /\ map_count \in Nat /\ free_count \in Nat /\ mapped_bytes \in Nat
      /\ Sum(MapSizes, gone) \in Nat
  BY Leaving DEF MInv
<1>2. /\ key' = [key EXCEPT ![m] = k]
      /\ maps' = (maps \ gone) \cup {m} /\ free_maps' = (free_maps \cup gone) \ {m}
      /\ map_count' = map_count - n + 1 /\ free_count' = free_count + n - reused
      /\ alloc_count' = alloc_count + 1 - reused
      /\ mapped_bytes' = mapped_bytes - Sum(MapSizes, gone) + SizeOf[k]
  BY <1>1 DEF MapAt
<1>3. IsFiniteSet(maps') /\ Cardinality(maps') = map_count'
  BY <1>0, <1>1, <1>2, FS_AddElement
<1>4. IsFiniteSet(free_maps') /\ Cardinality(free_maps') = free_count'
  <2>1. IsFiniteSet(free_maps')
    BY <1>1, <1>2, FS_Subset
  <2>2. CASE free_maps # {}
    <3>1. m \in free_maps \cup gone /\ reused = 1
      BY <2>2 DEF Spare
    <3>2. Cardinality(free_maps') = Cardinality(free_maps \cup gone) - 1
      BY <1>1, <1>2, <3>1, FS_RemoveElement
    <3>. QED BY <1>1, <1>2, <2>1, <3>1, <3>2
  <2>3. CASE free_maps = {}
    <3>1. free_maps' = free_maps \cup gone
      BY <1>0, <1>2, <2>3
    <3>2. Cardinality(free_maps') = free_count + n
      BY <1>1, <3>1
    <3>3. free_count' = free_count + n
      BY <1>1, <1>2, <2>3
    <3>. QED BY <2>1, <3>2, <3>3
  <2>. QED BY <2>2, <2>3
<1>5. alloc_count' = map_count' + free_count'
  <2>1. reused \in {0, 1} /\ alloc_count = map_count + free_count
    BY DEF MInv, Counted
  <2>. HIDE DEF reused, n
  <2>. QED BY <1>1, <1>2, <2>1
<1>6. mapped_bytes' = Sum(MapSizes, maps)'
  <2>1. MapSizes'[m] = SizeOf[k] /\ \A x \in MapIds \ {m} : MapSizes'[x] = MapSizes[x]
    BY <1>0, <1>2 DEF MapSizes, MInv, IInv, Shape
  <2>2. \A x \in maps \ gone : MapSizes[x] \in Int /\ MapSizes'[x] = MapSizes[x]
    <3>1. \A x \in maps \ gone : MapSizes[x] \in Nat
      BY <1>0, <1>1, BytesAre DEF MInv, IInv
    <3>. QED BY <1>0, <2>1, <3>1
  <2>3. Sum(MapSizes', maps \ gone) = Sum(MapSizes, maps \ gone)
    BY <1>1, <2>2, SumSame
  <2>4. \A x \in (maps \ gone) \cup {m} : MapSizes'[x] \in Int
    BY <1>0, <2>1, <2>2
  <2>5. Sum(MapSizes', (maps \ gone) \cup {m}) = Sum(MapSizes', maps \ gone) + MapSizes'[m]
    <3>. DEFINE S == maps \ gone
                f == MapSizes'
    <3>1. m \notin S /\ IsFiniteSet(S) /\ \A x \in S \cup {m} : f[x] \in Int
      BY <1>0, <1>1, <2>4
    <3>. HIDE DEF S, f
    <3>2. Sum(f, S \cup {m}) = Sum(f, S) + f[m]
      BY <3>1, SumAdd
    <3>. QED BY <3>2 DEF S, f
  <2>6. Sum(MapSizes, maps)' = Sum(MapSizes', (maps \ gone) \cup {m})
    BY <1>2
  <2>. QED BY <1>1, <1>2, <2>1, <2>3, <2>5, <2>6
<1>. QED BY <1>3, <1>4, <1>5, <1>6 DEF Counted

\* mmc_map() gives a Map back to malloc().
LEMMA CountFailed ==
    ASSUME MInv, MapNoSpace
    PROVE  Counted'
<1>1. PICK m \in Spare, gone \in {{}, Unreferenced} :
          /\ maps' = maps \ gone
          /\ free_maps' = (free_maps \cup gone) \ {m}
          /\ free_count' = free_count + Unmapped(gone).count - (IF free_maps # {} THEN 1 ELSE 0)
          /\ alloc_count' = alloc_count - (IF free_maps # {} THEN 1 ELSE 0)
          /\ map_count' = map_count - Unmapped(gone).count
          /\ mapped_bytes' = mapped_bytes - Unmapped(gone).bytes
  BY DEF MapNoSpace
<1>. DEFINE n == Cardinality(gone)
            reused == IF free_maps # {} THEN 1 ELSE 0
<1>2. gone \in SUBSET maps /\ m \in MapIds \ maps /\ MapSizes' = MapSizes
  BY DEF Unreferenced, Spare, MInv, IInv, Shape, MapNoSpace, fields, MapSizes
<1>3. /\ IsFiniteSet(maps \ gone) /\ IsFiniteSet(free_maps \cup gone)
      /\ Unmapped(gone).count = n /\ n \in Nat
      /\ Cardinality(maps \ gone) = map_count - n
      /\ Cardinality(free_maps \cup gone) = free_count + n
      /\ Unmapped(gone).bytes = Sum(MapSizes, gone)
      /\ Sum(MapSizes, maps \ gone) = mapped_bytes - Sum(MapSizes, gone)
      /\ map_count \in Nat /\ free_count \in Nat
  BY <1>2, Leaving DEF MInv
<1>4. IsFiniteSet(free_maps') /\ Cardinality(free_maps') = free_count'
  <2>1. IsFiniteSet(free_maps')
    BY <1>1, <1>3, FS_Subset
  <2>2. CASE free_maps # {}
    <3>1. m \in free_maps \cup gone /\ reused = 1
      BY <2>2 DEF Spare
    <3>2. Cardinality(free_maps') = Cardinality(free_maps \cup gone) - 1
      BY <1>1, <1>3, <3>1, FS_RemoveElement
    <3>. QED BY <1>1, <1>3, <2>1, <3>1, <3>2
  <2>3. CASE free_maps = {}
    <3>1. free_maps' = free_maps \cup gone
      BY <1>1, <1>2, <2>3
    <3>2. Cardinality(free_maps') = free_count + n
      BY <1>3, <3>1
    <3>3. free_count' = free_count + n
      BY <1>1, <1>3, <2>3
    <3>. QED BY <2>1, <3>2, <3>3
  <2>. QED BY <2>2, <2>3
<1>5. alloc_count' = map_count' + free_count'
  <2>1. /\ reused \in {0, 1} /\ alloc_count = map_count + free_count
        /\ map_count' = map_count - n /\ free_count' = free_count + n - reused
        /\ alloc_count' = alloc_count - reused
    BY <1>1, <1>3 DEF MInv, Counted
  <2>. HIDE DEF reused, n
  <2>. QED BY <1>3, <2>1
<1>. QED BY <1>1, <1>2, <1>3, <1>4, <1>5 DEF Counted

\* mmc_cleanup() unmaps the old ones and frees what is too much on the free list.
LEMMA CountCleaned ==
    ASSUME MInv, mmc_cleanup
    PROVE  Counted'
<1>. DEFINE n == Cardinality(Expired)
            excess == Max({0, free_count + Unmapped(Expired).count - DesiredFreeCount})
<1>1. /\ maps' = maps \ Expired
      /\ map_count' = map_count - Unmapped(Expired).count
      /\ mapped_bytes' = mapped_bytes - Unmapped(Expired).bytes
      /\ free_count' = free_count + Unmapped(Expired).count - excess
      /\ alloc_count' = alloc_count - excess
  BY DEF mmc_cleanup
<1>2. PICK freed \in SUBSET (free_maps \cup Expired) :
          Cardinality(freed) = excess /\ free_maps' = (free_maps \cup Expired) \ freed
  BY DEF mmc_cleanup
<1>3. Expired \in SUBSET maps /\ MapSizes' = MapSizes
  BY DEF Expired, Unreferenced, mmc_cleanup, fields, MapSizes
<1>4. /\ IsFiniteSet(maps \ Expired) /\ IsFiniteSet(free_maps \cup Expired)
      /\ Unmapped(Expired).count = n /\ n \in Nat
      /\ Cardinality(maps \ Expired) = map_count - n
      /\ Cardinality(free_maps \cup Expired) = free_count + n
      /\ Unmapped(Expired).bytes = Sum(MapSizes, Expired)
      /\ Sum(MapSizes, maps \ Expired) = mapped_bytes - Sum(MapSizes, Expired)
      /\ map_count \in Nat /\ free_count \in Nat
  BY <1>3, Leaving DEF MInv
<1>5. IsFiniteSet(free_maps') /\ Cardinality(free_maps') = free_count + n - Cardinality(freed)
  <2>1. (free_maps \cup Expired) \cap freed = freed
    OBVIOUS
  <2>2. /\ IsFiniteSet((free_maps \cup Expired) \ freed)
        /\ Cardinality((free_maps \cup Expired) \ freed)
             = Cardinality(free_maps \cup Expired) - Cardinality((free_maps \cup Expired) \cap freed)
    BY <1>4, FS_Difference
  <2>3. Cardinality((free_maps \cup Expired) \cap freed) = Cardinality(freed)
    BY <2>1
  <2>4. /\ IsFiniteSet(free_maps')
        /\ Cardinality(free_maps') = Cardinality(free_maps \cup Expired) - Cardinality(freed)
    BY <1>2, <2>2, <2>3
  <2>5. Cardinality(free_maps \cup Expired) = free_count + n
    BY <1>4
  <2>6. Cardinality(freed) \in Nat
    BY <1>4, SubsetSizes
  <2>. QED BY <1>4, <2>4, <2>5, <2>6
<1>6. Cardinality(freed) \in Nat
  <2>1. IsFiniteSet(freed)
    BY <1>4, FS_Subset
  <2>. QED BY <2>1, FS_CardinalityType
<1>7. alloc_count = map_count + free_count
  BY DEF MInv, Counted
<1>8. /\ map_count' = map_count - n /\ free_count' = free_count + n - Cardinality(freed)
      /\ alloc_count' = alloc_count - Cardinality(freed)
      /\ mapped_bytes' = Sum(MapSizes, maps')
  BY <1>1, <1>2, <1>4
<1>9. alloc_count' = map_count' + free_count'
  <2>. HIDE DEF n
  <2>. QED BY <1>4, <1>6, <1>7, <1>8
<1>10. IsFiniteSet(maps') /\ Cardinality(maps') = map_count' /\ Cardinality(free_maps') = free_count'
  BY <1>1, <1>4, <1>5, <1>8
<1>. QED BY <1>3, <1>5, <1>8, <1>9, <1>10 DEF Counted

\* mmc_term() leaves nothing.
LEMMA CountEnded ==
    ASSUME MInv, mmc_term
    PROVE  Counted'
<1>1. /\ maps' = {} /\ free_maps' = {}
      /\ map_count' = map_count - Unmapped(maps).count
      /\ mapped_bytes' = mapped_bytes - Unmapped(maps).bytes
      /\ alloc_count' = alloc_count - (free_count + Unmapped(maps).count)
      /\ free_count' = 0
  BY DEF mmc_term
<1>2. /\ Unmapped(maps).count = map_count /\ map_count \in Nat /\ free_count \in Nat
      /\ Unmapped(maps).bytes = mapped_bytes /\ mapped_bytes \in Nat
      /\ alloc_count = map_count + free_count
  BY Leaving DEF MInv, Counted
<1>3. map_count' = 0 /\ mapped_bytes' = 0 /\ alloc_count' = 0
  BY <1>1, <1>2
<1>4. Sum(MapSizes', {}) = 0 /\ IsFiniteSet({}) /\ Cardinality({}) = 0
  BY SumEmpty, FS_EmptySet
<1>. QED BY <1>1, <1>3, <1>4 DEF Counted

\* After check_hash_size() the table is larger than the number of maps, and stays
\* so until the call ends.
LEMMA RoomKept ==
    ASSUME MInv, [Next]_vars
    PROVE  Roomy'
<1>. USE DEF Roomy
<1>1. map_count \in Nat /\ hash_size \in Nat
  BY FS_CardinalityType DEF MInv, IInv, Shape, Counted
<1>2. ASSUME NEW c \in Conns, NEW k \in Keys, mmc_map(c, k) PROVE Roomy'
  <2>1. map_count' = map_count /\ calling = NoMap
    BY <1>2 DEF mmc_map, counters
  <2>2. CASE BigEnough /\ UNCHANGED <<hash, torehash>>
    BY <1>1, <2>1, <2>2 DEF BigEnough, hash
  <2>3. CASE ~BigEnough /\ hash_size' \in NewSize
    <3>1. CASE hash_size = 0
      <4>1. torehash = {}
        BY <2>1 DEF MInv, IInv, Calls
      <4>2. DOMAIN hash_table = {}
        BY <3>1 DEF MInv, IInv, Shape
      <4>3. maps = {}
        BY <4>1, <4>2 DEF MInv, IInv, TableSound
      <4>4. map_count = 0
        BY <4>3, FS_EmptySet DEF MInv, Counted
      <4>5. hash_size' = InitialHashSize
        BY <2>3, <3>1 DEF NewSize
      <4>. QED BY <2>1, <4>4, <4>5, MmcAssumption
    <3>2. CASE hash_size # 0
      <4>1. hash_size' \in Nat /\ hash_size' >= map_count * 6
        BY <2>3, <3>2 DEF NewSize
      <4>2. map_count > 0
        BY <1>1, <2>3, <3>2 DEF BigEnough
      <4>. QED BY <1>1, <2>1, <4>1, <4>2
    <3>. QED BY <3>1, <3>2
  <2>. QED BY <1>2, <2>2, <2>3 DEF mmc_map
<1>3. ASSUME NEW m \in MapIds, Rehash(m) PROVE Roomy'
  BY <1>3 DEF Rehash, counters, MInv
<1>4. CASE MapHit \/ MapFails \/ MapMiss \/ MapNoSpace
  <2>1. calling' = NoMap
    BY <1>4 DEF MapHit, MapFails, MapMiss, MapNoSpace
  <2>. QED BY <2>1
<1>5. ASSUME NEW c \in Conns, mmc_unmap(c) PROVE Roomy'
  BY <1>5 DEF mmc_unmap
<1>6. CASE mmc_cleanup \/ mmc_term \/ Clock
  BY <1>6 DEF mmc_cleanup, mmc_term, Clock
<1>7. CASE UNCHANGED vars
  BY <1>7 DEF vars, hash, counters, MInv
<1>. QED BY <1>2, <1>3, <1>4, <1>5, <1>6, <1>7 DEF Next

\* mmc_cleanup() keeps the age between a tenth and three times of what it was.
LEMMA AgeKept ==
    ASSUME MInv, NEW b, NEW f
    PROVE  NewAge(b, f) \in (DefaultExpireAge \div 10)..(DefaultExpireAge * 3)
<1>. DEFINE D == DefaultExpireAge
            e == expire_age
            less == Max({(e * 2) \div 3, D \div 10})
            more == Min({(e * 5) \div 4, D * 3})
<1>1. D \in Nat /\ e \in Int /\ e >= D \div 10 /\ e <= D * 3 /\ D \div 10 \in Nat /\ D * 3 \in Nat
  BY MmcAssumption DEF MInv, Clocks
<1>2. (e * 2) \div 3 \in Nat /\ (e * 2) \div 3 <= e /\ (e * 5) \div 4 \in Nat /\ (e * 5) \div 4 >= e
  <2>1. e \in Nat
    BY <1>1
  <2>. HIDE DEF e
  <2>. QED BY <2>1
<1>3. /\ less = IF (e * 2) \div 3 >= D \div 10 THEN (e * 2) \div 3 ELSE D \div 10
      /\ more = IF (e * 5) \div 4 <= D * 3 THEN (e * 5) \div 4 ELSE D * 3
  <2>. DEFINE p == (e * 2) \div 3
              q == D \div 10
              r == (e * 5) \div 4
              t == D * 3
  <2>1. p \in Int /\ q \in Int /\ r \in Int /\ t \in Int
    <3>1. p \in Nat /\ q \in Nat /\ r \in Nat /\ t \in Nat
      BY <1>1, <1>2
    <3>. HIDE DEF p, q, r, t
    <3>. QED BY <3>1
  <2>2. less = Max({p, q}) /\ more = Min({r, t})
    BY Zenon
  <2>. HIDE DEF p, q, r, t
  <2>3. /\ Max({p, q}) = (IF p >= q THEN p ELSE q)
        /\ Min({r, t}) = (IF r <= t THEN r ELSE t)
    BY <2>1, MaxOfTwo
  <2>4. less = (IF p >= q THEN p ELSE q) /\ more = (IF r <= t THEN r ELSE t)
    BY <2>2, <2>3, Zenon
  <2>. QED BY <2>4, Zenon DEF p, q, r, t
<1>4. D \div 10 <= D * 3
  BY <1>1
<1>5. less \in (D \div 10)..(D * 3) /\ more \in (D \div 10)..(D * 3) /\ e \in (D \div 10)..(D * 3)
  <2>. HIDE DEF D, e, less, more
  <2>. QED BY <1>1, <1>2, <1>3, <1>4
<1>6. \/ NewAge(b, f) = less \/ NewAge(b, f) = more \/ NewAge(b, f) = e
  BY DEF NewAge
<1>. QED BY <1>5, <1>6

LEMMA ClocksKept ==
    ASSUME MInv, [Next]_vars
    PROVE  Clocks'
<1>. USE DEF Clocks
<1>0. Clocks
  BY DEF MInv
<1>1. ASSUME NEW c \in Conns, NEW k \in Keys, mmc_map(c, k) PROVE Clocks'
  BY <1>0, <1>1 DEF mmc_map, fields
<1>2. ASSUME NEW m \in MapIds, Rehash(m) PROVE Clocks'
  BY <1>0, <1>2 DEF Rehash
<1>3. CASE MapHit
  <2>1. UNCHANGED <<now, over, expire_age>> /\ \E m : reftime' = [reftime EXCEPT ![m] = now]
    BY <1>3 DEF MapHit
  <2>. QED BY <1>0, <2>1
<1>4. CASE MapFails \/ MapNoSpace
  BY <1>0, <1>4 DEF MapFails, MapNoSpace, fields
<1>5. CASE MapMiss
  <2>1. UNCHANGED <<now, over, expire_age>> /\ \E m : reftime' = [reftime EXCEPT ![m] = now]
    BY <1>5 DEF MapMiss, MapAt
  <2>. QED BY <1>0, <2>1
<1>6. ASSUME NEW c \in Conns, mmc_unmap(c) PROVE Clocks'
  <2>1. /\ UNCHANGED <<now, over, expire_age>>
        /\ reftime' = reftime \/ \E m : reftime' = [reftime EXCEPT ![m] = now]
    BY <1>6 DEF mmc_unmap
  <2>. QED BY <1>0, <2>1
<1>7. CASE mmc_cleanup
  <2>1. UNCHANGED <<now, over, reftime>> /\ expire_age' = NewAge(mapped_bytes', map_count')
    BY <1>7 DEF mmc_cleanup, fields
  <2>2. expire_age' \in (DefaultExpireAge \div 10)..(DefaultExpireAge * 3)
    BY <2>1, AgeKept
  <2>. QED BY <1>0, <2>1, <2>2
<1>8. CASE mmc_term
  BY <1>0, <1>8 DEF mmc_term, fields
<1>9. CASE Clock
  <2>1. /\ now + Tick <= MaxTime /\ now' = now + Tick /\ UNCHANGED <<over, reftime, expire_age>>
    BY <1>9 DEF Clock, fields
  <2>. QED BY <1>0, <2>1, MmcAssumption
<1>10. CASE UNCHANGED vars
  BY <1>0, <1>10 DEF vars, fields
<1>. QED BY <1>1, <1>2, <1>3, <1>4, <1>5, <1>6, <1>7, <1>8, <1>9, <1>10 DEF Next

LEMMA CountsKept ==
    ASSUME MInv, [Next]_vars
    PROVE  Counted'
<1>1. ASSUME NEW c \in Conns, NEW k \in Keys, mmc_map(c, k) PROVE Counted'
  BY <1>1, ListsStay DEF mmc_map, fields
<1>2. ASSUME NEW m \in MapIds, Rehash(m) PROVE Counted'
  BY <1>2, ListsStay DEF Rehash
<1>3. CASE MapHit \/ MapFails
  BY <1>3, ListsStay DEF MapHit, MapFails, fields
<1>4. CASE MapMiss
  <2>1. calling \in Conns
    BY <1>4 DEF MapMiss, Ready, MInv, IInv, Shape
  <2>2. PICK m \in Spare :
          \/ SizeOf[sb[calling]] = 0 /\ MapAt(m, One, {})
          \/ /\ SizeOf[sb[calling]] # 0
             /\ \E gone \in {{}, Unreferenced} :
                   \E a \in Addrs \ (memory \ Unmapped(gone).from_memory) : MapAt(m, a, gone)
    BY <1>4 DEF MapMiss
  <2>3. PICK gone \in {{}, Unreferenced}, a \in Addrs \cup {One} : MapAt(m, a, gone)
    BY <2>2
  <2>4. gone \in SUBSET maps
    BY DEF Unreferenced
  <2>. QED BY <2>1, <2>3, <2>4, CountAdded
<1>5. CASE MapNoSpace
  BY <1>5, CountFailed
<1>6. ASSUME NEW c \in Conns, mmc_unmap(c) PROVE Counted'
  BY <1>6, ListsStay DEF mmc_unmap
<1>7. CASE mmc_cleanup
  BY <1>7, CountCleaned
<1>8. CASE mmc_term
  BY <1>8, CountEnded
<1>9. CASE Clock \/ UNCHANGED vars
  BY <1>9, ListsStay DEF Clock, vars, fields
<1>. QED BY <1>1, <1>2, <1>3, <1>4, <1>5, <1>6, <1>7, <1>8, <1>9 DEF Next

LEMMA CountersInitially == Init => MInv
<1>. SUFFICES ASSUME Init PROVE MInv
  OBVIOUS
<1>1. IInv
  BY Initially
<1>2. Clocks
  <2>1. DefaultExpireAge \in (DefaultExpireAge \div 10)..(DefaultExpireAge * 3)
    BY MmcAssumption
  <2>2. now = 0 /\ reftime = [m \in MapIds |-> 0] /\ over = FALSE /\ expire_age = DefaultExpireAge
    BY DEF Init
  <2>3. 0 \in 0..MaxTime
    BY MmcAssumption
  <2>4. reftime \in [MapIds -> 0..MaxTime]
    BY <2>2, <2>3
  <2>5. expire_age \in (DefaultExpireAge \div 10)..(DefaultExpireAge * 3)
    BY <2>1, <2>2, Zenon
  <2>. QED BY <2>2, <2>3, <2>4, <2>5, Zenon DEF Clocks
<1>3. Counted
  <2>1. Sum(MapSizes, {}) = 0 /\ IsFiniteSet({}) /\ Cardinality({}) = 0
    BY SumEmpty, FS_EmptySet
  <2>. QED BY <2>1 DEF Init, Counted
<1>4. Roomy
  BY DEF Init, Roomy
<1>. QED BY <1>1, <1>2, <1>3, <1>4 DEF MInv

LEMMA CountersInductive == Spec => []MInv
<1>1. MInv /\ [Next]_vars => MInv'
  BY EveryStep, ClocksKept, CountsKept, RoomKept DEF MInv
<1>. QED BY <1>1, CountersInitially, PTL DEF Spec

\* The counters mmc_cleanup() and check_hash_size() decide with are the lengths
\* of the lists and the bytes that are mapped, whichever way maps come and go.
THEOREM CountersAreRight == Spec => []Counts
<1>1. MInv => Counts
  <2>. SUFFICES ASSUME MInv PROVE Counts
    OBVIOUS
  <2>1. maps \in SUBSET MapIds /\ maps \cap free_maps = {} /\ IsFiniteSet(maps)
    BY DEF MInv, IInv, Shape, Counted
  <2>2. Bytes(maps) = Sum(MapSizes, maps)
    BY <2>1, BytesAre DEF MInv, IInv
  <2>. QED BY <2>1, <2>2 DEF MInv, Counted, Counts
<1>. QED BY <1>1, CountersInductive, PTL

\* add_hash() always finds a hole: its failure, which would leave a file mapped
\* that no Map knows of, cannot happen, for any number of files and any hash.
THEOREM AddHashSucceeds == Spec => []HasRoom
<1>1. MInv => HasRoom
  <2>. SUFFICES ASSUME MInv, calling # NoMap
                PROVE  \E i \in DOMAIN hash_table : hash_table[i] = NoMap
    BY DEF HasRoom, Ready, MInv, IInv, Calls
  <2>. DEFINE S == 0..(hash_size - 1)
  <2>1. /\ hash_size \in Nat /\ hash_size > 0 /\ hash_size >= map_count * 3
        /\ hash_table \in [S -> MapIds \cup {NoMap}]
        /\ IsFiniteSet(maps) /\ map_count = Cardinality(maps) /\ map_count \in Nat
    BY FS_CardinalityType DEF MInv, IInv, Shape, Roomy, Counted
  <2>2. SUFFICES ASSUME \A i \in S : hash_table[i] # NoMap PROVE FALSE
    BY <2>1
  <2>3. \A i \in S : hash_table[i] \in maps /\ hash_idx[hash_table[i]] = i
    BY <2>1, <2>2 DEF MInv, IInv, TableSound
  <2>4. hash_table \in Injection(S, maps)
    BY <2>1, <2>3 DEF Injection, IsInjective
  <2>5. Cardinality(S) = hash_size
    BY <2>1, FS_Interval
  <2>6. Cardinality(S) <= Cardinality(maps)
    BY <2>1, <2>4, FS_Injection
  <2>. QED BY <2>1, <2>5, <2>6
<1>. QED BY <1>1, CountersInductive, PTL

\* All variables have their types: no counter goes below zero, the expire age
\* stays between its limits, and what is mapped are addresses mmap() gave.
THEOREM TypesKept == Spec => []TypeOK
<1>1. MInv => TypeOK
  <2>. SUFFICES ASSUME MInv PROVE TypeOK
    OBVIOUS
  <2>1. /\ map_count \in Nat /\ free_count \in Nat /\ mapped_bytes \in Nat
    BY Leaving DEF MInv
  <2>2. alloc_count \in Nat
    BY <2>1 DEF MInv, Counted
  <2>3. memory \subseteq Addrs
    <3>1. \A m \in maps : SizeOf[key[m]] # 0 => addr[m] \in Addrs
      BY DEF MInv, IInv, Shape, Empties
    <3>. QED BY <3>1 DEF MInv, IInv, MemoryExact
  <2>. QED BY <2>1, <2>2, <2>3 DEF TypeOK, MInv, IInv, Shape, Clocks
<1>. QED BY <1>1, CountersInductive, PTL

=============================================================================
