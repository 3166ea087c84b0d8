------------------------------- MODULE MC_Mmc -------------------------------
(***************************************************************************)
(* The mmap cache on small tables.                                         *)
(***************************************************************************)
EXTENDS Mmc, TLC

CONSTANTS c1, c2, k1, k2, k3, m1, m2, m3, a1, a2

TwoConns == {c1, c2}
ThreeFiles == {k1, k2, k3}

\* An empty file, two others; all of them hash to one place.
Sizes == (k1 :> 0) @@ (k2 :> 1) @@ (k3 :> 2)

\* Two empty files.
TwoEmpty == (k1 :> 0) @@ (k2 :> 1) @@ (k3 :> 0)
SameHash == [k \in ThreeFiles |-> 1]

Interchangeable == Permutations({c1, c2}) \cup Permutations({m1, m2, m3})
                   \cup Permutations({a1, a2})

\* What a Map holds while it is on the free list is never read, nor is what a
\* connection without a file once asked for.
Live ==
    <<now, maps, free_maps, [m \in maps |-> <<key[m], refcount[m], reftime[m], addr[m], hash_idx[m]>>],
      hash, counters, expire_age, calling, torehash, file_address, memory, over,
      [c \in {x \in Conns : file_address[x] # NoMap \/ calling = x} |-> sb[c]]>>
=============================================================================
