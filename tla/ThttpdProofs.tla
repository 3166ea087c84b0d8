---------------------------- MODULE ThttpdProofs ----------------------------
(***************************************************************************)
(* For every number of slots, listeners and throttles and every time       *)
(* limit: slots, timers, watched descriptors and throttle counts agree.    *)
(***************************************************************************)
EXTENDS Thttpd, FiniteSetTheorems, WellFoundedInduction, TLAPS

\* The types of what belongs to the connections.
Shape ==
    /\ conn_state \in [Conns -> {"FREE", "READING", "SENDING", "PAUSING", "LINGERING"}]
    /\ conn_fd \in [Conns -> Fds \cup {Nobody}]
    /\ should_linger \in [Conns -> BOOLEAN]
    /\ tnums \in [Conns -> SUBSET Throttles]
    /\ wakeup_timer \in [Conns -> BOOLEAN] /\ linger_timer \in [Conns -> BOOLEAN]
    /\ free_connects \in Seq(Conns)
    /\ num_connects \in Int
    /\ num_sending \in [Throttles -> Int]
    /\ fd_rw \in [Fds -> {"none", "read", "write"}]
    /\ fd_data \in [Fds -> Conns \cup {Nobody}]
    /\ wakeup_left \in [Conns -> Int] /\ linger_left \in [Conns -> Int]

\* A slot has a descriptor while it is taken, no throttle before a request has
\* been read, and is on the free list at most once; a descriptor that is not
\* watched leads to nobody.
Slots ==
    /\ \A c \in Conns : conn_state[c] = "FREE" <=> conn_fd[c] = Nobody
    /\ \A c \in Conns : conn_state[c] = "READING" => tnums[c] = {}
    /\ \A i, j \in 1..Len(free_connects) : free_connects[i] = free_connects[j] => i = j
    /\ \A fd \in Fds : fd_rw[fd] = "none" => fd_data[fd] = Nobody

CoreInv == Shape /\ Slots /\ TimersMatch /\ WatchMatches /\ ThrottlesExact /\ FreeListSound
           /\ TimersFreedOnce

\* Where the main loop is.  A timer that tmr_run() has taken ahead is never a
\* wakeup timer when none hashes to the bucket of the idle timer.
Loop ==
    /\ ready \subseteq Fds
    /\ cnum \in Nat \ {0} /\ next = Nobody /\ freed \in Seq(Conns)

IInv == CoreInv /\ Loop

core == <<conn_state, conn_fd, should_linger, tnums, pointers, slots, num_sending, fdwatch, lefts,
          corrupt>>

\* The connections throttle t counts, but for c.
Others(t, c) == {d \in Open \ {c} : t \in tnums[d]}

-----------------------------------------------------------------------------

\* Sets of connections are finite; one more or one less changes the size by one.
LEMMA ConnSets ==
    ASSUME NEW S \in SUBSET Conns, NEW c \in Conns
    PROVE  /\ IsFiniteSet(S) /\ Cardinality(S) \in Int /\ Cardinality(S) \in 0..MaxConnects
           /\ c \notin S => Cardinality(S \cup {c}) = Cardinality(S) + 1
           /\ c \in S => Cardinality(S \ {c}) = Cardinality(S) - 1
<1>1. IsFiniteSet(Conns) /\ Cardinality(Conns) = MaxConnects
  BY ThttpdAssumption, FS_Interval DEF Conns
<1>2. IsFiniteSet(S) /\ Cardinality(S) <= MaxConnects
  BY <1>1, FS_Subset
<1>. QED BY <1>2, FS_CardinalityType, FS_AddElement, FS_RemoveElement, ThttpdAssumption

\* A throttle's count, with and without one connection.
LEMMA Counting ==
    ASSUME CoreInv, NEW t \in Throttles, NEW c \in Conns
    PROVE  /\ Cardinality(Others(t, c)) \in Int
           /\ num_sending[t] = Cardinality(Others(t, c))
                                  + (IF c \in Open /\ t \in tnums[c] THEN 1 ELSE 0)
<1>. DEFINE U == {d \in Open : t \in tnums[d]}
<1>1. U \in SUBSET Conns /\ Others(t, c) \in SUBSET Conns
  BY DEF Open, Others
<1>2. num_sending[t] = Cardinality(U)
  BY DEF CoreInv, ThrottlesExact
<1>3. Cardinality(Others(t, c)) \in Int
  BY <1>1, ConnSets
<1>4. CASE c \in Open /\ t \in tnums[c]
  <2>1. Others(t, c) = U \ {c} /\ c \in U
    BY <1>4 DEF Others
  <2>. QED BY <2>1, <1>1, <1>2, <1>3, <1>4, ConnSets
<1>5. CASE ~(c \in Open /\ t \in tnums[c])
  <2>1. Others(t, c) = U
    BY <1>5 DEF Others
  <2>. QED BY <2>1, <1>1, <1>2, <1>3, <1>5
<1>. QED BY <1>4, <1>5

\* A step that touches the throttles of one connection only and counts it.
LEMMA CountsKept ==
    ASSUME CoreInv, NEW c \in Conns, Shape',
           \A d \in Conns \ {c} : conn_state'[d] = conn_state[d] /\ tnums'[d] = tnums[d],
           \A t \in Throttles : num_sending'[t] = Cardinality(Others(t, c))
                                   + (IF conn_state'[c] # "FREE" /\ t \in tnums'[c] THEN 1 ELSE 0)
    PROVE  ThrottlesExact'
<1>. SUFFICES ASSUME NEW t \in Throttles
              PROVE  num_sending'[t] = Cardinality({d \in Open' : t \in tnums'[d]})
  BY DEF ThrottlesExact
<1>. DEFINE V == {d \in Open' : t \in tnums'[d]}
<1>1. Others(t, c) \in SUBSET Conns /\ c \notin Others(t, c)
  BY DEF Open, Others
<1>2. CASE conn_state'[c] # "FREE" /\ t \in tnums'[c]
  <2>1. V = Others(t, c) \cup {c}
    BY <1>2 DEF Open, Others
  <2>. QED BY <2>1, <1>1, <1>2, ConnSets
<1>3. CASE ~(conn_state'[c] # "FREE" /\ t \in tnums'[c])
  <2>1. V = Others(t, c)
    BY <1>3 DEF Open, Others
  <2>2. Cardinality(Others(t, c)) \in Int
    BY <1>1, ConnSets
  <2>3. num_sending'[t] = Cardinality(Others(t, c)) + 0
    BY <1>3
  <2>4. num_sending'[t] = Cardinality(Others(t, c))
    BY <2>2, <2>3
  <2>. QED BY <2>1, <2>4, Zenon
<1>. QED BY <1>2, <1>3

\* A step that neither takes nor frees a slot leaves the free list sound.
LEMMA ListKept ==
    ASSUME FreeListSound, Open' = Open, UNCHANGED slots
    PROVE  FreeListSound'
BY DEF FreeListSound, slots

\* really_clear_connection() puts the slot on the free list.
LEMMA ListGrows ==
    ASSUME CoreInv, NEW c \in Open, Open' = Open \ {c},
           free_connects' = <<c>> \o free_connects, num_connects' = num_connects - 1
    PROVE  /\ FreeListSound'
           /\ free_connects' \in Seq(Conns)
           /\ \A i, j \in 1..Len(free_connects') : free_connects'[i] = free_connects'[j] => i = j
<1>. DEFINE n == Len(free_connects)
<1>1. free_connects \in Seq(Conns) /\ n \in Nat /\ c \in Conns /\ num_connects \in Int
  BY DEF CoreInv, Shape, Open
<1>2. /\ Len(free_connects') = n + 1 /\ free_connects' \in Seq(Conns)
      /\ free_connects'[1] = c
      /\ \A i \in 2..(n + 1) : free_connects'[i] = free_connects[i - 1]
  BY <1>1
<1>3. \A i \in 1..n : free_connects[i] \notin Open
  <2>1. ASSUME NEW i \in 1..n PROVE free_connects[i] \in {free_connects[k] : k \in DOMAIN free_connects}
    BY <1>1
  <2>. QED BY <2>1 DEF CoreInv, FreeListSound
<1>4. {free_connects'[i] : i \in DOMAIN free_connects'} = {free_connects[i] : i \in DOMAIN free_connects} \cup {c}
  <2>1. DOMAIN free_connects' = 1..(n + 1) /\ DOMAIN free_connects = 1..n
    BY <1>1, <1>2
  <2>2. ASSUME NEW i \in 1..(n + 1)
        PROVE  free_connects'[i] \in {free_connects[k] : k \in 1..n} \cup {c}
    <3>1. CASE i = 1
      BY <3>1, <1>2
    <3>2. CASE i # 1
      <4>1. i - 1 \in 1..n /\ free_connects'[i] = free_connects[i - 1]
        BY <3>2, <1>1, <1>2
      <4>. QED BY <4>1
    <3>. QED BY <3>1, <3>2
  <2>3. ASSUME NEW k \in 1..n
        PROVE  \E i \in 1..(n + 1) : free_connects'[i] = free_connects[k]
    <3>1. k + 1 \in 2..(n + 1) /\ k + 1 \in 1..(n + 1) /\ (k + 1) - 1 = k
      BY <1>1
    <3>2. free_connects'[k + 1] = free_connects[k]
      BY <1>2, <3>1
    <3>. QED BY <3>1, <3>2
  <2>4. \E i \in 1..(n + 1) : free_connects'[i] = c
    <3>1. 1 \in 1..(n + 1)
      BY <1>1
    <3>. QED BY <3>1, <1>2
  <2>5. {free_connects'[i] : i \in 1..(n + 1)} \subseteq {free_connects[k] : k \in 1..n} \cup {c}
    BY <2>2
  <2>6. {free_connects[k] : k \in 1..n} \cup {c} \subseteq {free_connects'[i] : i \in 1..(n + 1)}
    BY <2>3, <2>4
  <2>. QED BY <2>1, <2>5, <2>6
<1>5. Cardinality(Open') = Cardinality(Open) - 1
  BY <1>1, ConnSets DEF Open
<1>6. FreeListSound'
  <2>1. num_connects' = Cardinality(Open')
    BY <1>5 DEF CoreInv, FreeListSound
  <2>2. Len(free_connects') = MaxConnects - num_connects'
    BY <1>1, <1>2, ThttpdAssumption DEF CoreInv, FreeListSound
  <2>3. {free_connects'[i] : i \in DOMAIN free_connects'} = Conns \ Open'
    BY <1>1, <1>4 DEF CoreInv, FreeListSound, Open
  <2>. QED BY <2>1, <2>2, <2>3 DEF FreeListSound
<1>7. ASSUME NEW i \in 1..(n + 1), NEW j \in 1..(n + 1), free_connects'[i] = free_connects'[j]
      PROVE  i = j
  <2>1. CASE i # 1 /\ j # 1
    BY <2>1, <1>1, <1>2, <1>7, SMTT(30) DEF CoreInv, Slots
  <2>2. CASE i = 1 /\ j # 1
    <3>1. j - 1 \in 1..n /\ free_connects'[j] = free_connects[j - 1]
      BY <2>2, <1>1, <1>2
    <3>. QED BY <3>1, <2>2, <1>2, <1>3, <1>7
  <2>3. CASE i # 1 /\ j = 1
    <3>1. i - 1 \in 1..n /\ free_connects'[i] = free_connects[i - 1]
      BY <2>3, <1>1, <1>2
    <3>. QED BY <3>1, <2>3, <1>2, <1>3, <1>7
  <2>. QED BY <2>1, <2>2, <2>3
<1>. QED BY <1>2, <1>6, <1>7

\* handle_newconnect() takes the first slot of the list.
LEMMA ListShrinks ==
    ASSUME CoreInv, num_connects < MaxConnects, Open' = Open \cup {Head(free_connects)},
           free_connects' = Tail(free_connects), num_connects' = num_connects + 1
    PROVE  /\ FreeListSound'
           /\ free_connects' \in Seq(Conns)
           /\ \A i, j \in 1..Len(free_connects') : free_connects'[i] = free_connects'[j] => i = j
<1>. DEFINE n == Len(free_connects)
            c == Head(free_connects)
<1>1. free_connects \in Seq(Conns) /\ n \in Nat /\ n > 0 /\ num_connects \in Int
  BY ThttpdAssumption DEF CoreInv, Shape, FreeListSound
<1>2. /\ Len(free_connects') = n - 1 /\ free_connects' \in Seq(Conns)
      /\ c = free_connects[1] /\ 1 \in 1..n
      /\ \A i \in 1..(n - 1) : free_connects'[i] = free_connects[i + 1]
  BY <1>1
<1>3. c \in Conns /\ c \notin Open
  <2>1. c \in {free_connects[i] : i \in DOMAIN free_connects}
    BY <1>1, <1>2
  <2>. QED BY <2>1 DEF CoreInv, FreeListSound
<1>4. {free_connects'[i] : i \in DOMAIN free_connects'} = {free_connects[i] : i \in DOMAIN free_connects} \ {c}
  <2>1. DOMAIN free_connects' = 1..(n - 1) /\ DOMAIN free_connects = 1..n
    BY <1>1, <1>2
  <2>2. ASSUME NEW i \in 1..(n - 1)
        PROVE  \E k \in 1..n : free_connects'[i] = free_connects[k] /\ free_connects[k] # c
    <3>1. i + 1 \in 1..n /\ i + 1 # 1
      BY <1>1
    <3>2. free_connects[i + 1] # c
      BY <3>1, <1>2 DEF CoreInv, Slots
    <3>. QED BY <3>1, <3>2, <1>2
  <2>3. ASSUME NEW k \in 1..n, free_connects[k] # c
        PROVE  \E i \in 1..(n - 1) : free_connects'[i] = free_connects[k]
    <3>1. k - 1 \in 1..(n - 1) /\ (k - 1) + 1 = k
      BY <1>1, <1>2, <2>3
    <3>. QED BY <3>1, <1>2
  <2>4. {free_connects'[i] : i \in 1..(n - 1)} \subseteq {free_connects[k] : k \in 1..n} \ {c}
    BY <2>2
  <2>5. {free_connects[k] : k \in 1..n} \ {c} \subseteq {free_connects'[i] : i \in 1..(n - 1)}
    BY <2>3
  <2>. QED BY <2>1, <2>4, <2>5
<1>5. Cardinality(Open') = Cardinality(Open) + 1
  BY <1>3, ConnSets DEF Open
<1>6. FreeListSound'
  <2>1. num_connects' = Cardinality(Open')
    BY <1>5 DEF CoreInv, FreeListSound
  <2>2. Len(free_connects') = MaxConnects - num_connects'
    BY <1>1, <1>2, ThttpdAssumption DEF CoreInv, FreeListSound
  <2>3. {free_connects'[i] : i \in DOMAIN free_connects'} = Conns \ Open'
    BY <1>3, <1>4 DEF CoreInv, FreeListSound
  <2>. QED BY <2>1, <2>2, <2>3 DEF FreeListSound
<1>7. ASSUME NEW i \in 1..(n - 1), NEW j \in 1..(n - 1), free_connects'[i] = free_connects'[j]
      PROVE  i = j
  BY <1>1, <1>2, <1>7 DEF CoreInv, Slots
<1>. QED BY <1>2, <1>6, <1>7


-----------------------------------------------------------------------------

\* A connection's throttles are counted once it has left the others alone.
Counted(c, ts, sending) ==
    \A t \in Throttles : sending[t] = Cardinality(Others(t, c)) + (IF t \in ts THEN 1 ELSE 0)

\* Only the timers of c change, to these.
Timers(c, wakes, wakeup, lingers, linger) ==
    /\ wakeup_timer' = [wakeup_timer EXCEPT ![c] = wakes]
    /\ wakeup_left' = [wakeup_left EXCEPT ![c] = wakeup]
    /\ linger_timer' = [linger_timer EXCEPT ![c] = lingers]
    /\ linger_left' = [linger_left EXCEPT ![c] = linger]

\* A slot is freed, on whatever way.
LEMMA Freeing ==
    ASSUME CoreInv, NEW c \in Open, NEW ts \in SUBSET Throttles,
           NEW sending \in [Throttles -> Int], Counted(c, ts, sending),
           really_clear_connection(c, ts, sending),
           tnums' = [tnums EXCEPT ![c] = ts], should_linger' \in [Conns -> BOOLEAN],
           Timers(c, FALSE, Off, FALSE, Off), corrupt' = FALSE
    PROVE  CoreInv'
<1>. USE DEF CoreInv
<1>1. c \in Conns /\ conn_state[c] # "FREE"
  BY DEF Open
<1>2. /\ conn_state' = [conn_state EXCEPT ![c] = "FREE"]
      /\ conn_fd' = [conn_fd EXCEPT ![c] = Nobody]
      /\ free_connects' = <<c>> \o free_connects /\ num_connects' = num_connects - 1
      /\ num_sending' = clear_throttles(ts, sending)
  BY DEF really_clear_connection
<1>3. Open' = Open \ {c}
  BY <1>1, <1>2 DEF Open, Shape
<1>5. /\ fd_rw' = IF conn_state[c] = "PAUSING" THEN fd_rw ELSE [fd_rw EXCEPT ![conn_fd[c]] = "none"]
      /\ fd_data' = IF conn_state[c] = "PAUSING" THEN fd_data ELSE [fd_data EXCEPT ![conn_fd[c]] = Nobody]
  BY DEF really_clear_connection, Watching, Unwatched, Watch, fdwatch_del_fd
<1>6. FreeListSound' /\ free_connects' \in Seq(Conns)
      /\ \A i, j \in 1..Len(free_connects') : free_connects'[i] = free_connects'[j] => i = j
  BY <1>2, <1>3, ListGrows
<1>7. Shape'
  <2>1. num_sending' \in [Throttles -> Int]
    BY <1>2 DEF clear_throttles
  <2>2. fd_rw' \in [Fds -> {"none", "read", "write"}] /\ fd_data' \in [Fds -> Conns \cup {Nobody}]
    <3>1. CASE conn_state[c] = "PAUSING"
      BY <3>1, <1>5 DEF Shape
    <3>2. CASE conn_state[c] # "PAUSING"
      BY <3>2, <1>5 DEF Shape
    <3>. QED BY <3>1, <3>2
  <2>5. conn_fd' \in [Conns -> Fds \cup {Nobody}] /\ num_connects' \in Int
    BY <1>1, <1>2 DEF Shape
  <2>3. /\ wakeup_timer' \in [Conns -> BOOLEAN] /\ linger_timer' \in [Conns -> BOOLEAN]
        /\ wakeup_left' \in [Conns -> Int] /\ linger_left' \in [Conns -> Int]
    BY <1>1 DEF Shape, Timers, Off
  <2>4. /\ conn_state' \in [Conns -> {"FREE", "READING", "SENDING", "PAUSING", "LINGERING"}]
        /\ tnums' \in [Conns -> SUBSET Throttles]
    BY <1>2 DEF Shape
  <2>. QED BY <1>6, <2>1, <2>2, <2>3, <2>4, <2>5 DEF Shape
<1>8. Slots'
  BY <1>1, <1>2, <1>5, <1>6 DEF Shape, Slots
<1>9. TimersMatch'
  BY <1>1, <1>2 DEF Shape, TimersMatch, Timers
<1>10. WatchMatches'
  BY <1>1, <1>2, <1>3, <1>5 DEF Shape, WatchMatches, Watched, Open, Nobody, Fds
<1>11. ThrottlesExact'
  <2>1. ASSUME NEW t \in Throttles PROVE num_sending'[t] = Cardinality(Others(t, c)) + 0
    <3>1. Cardinality(Others(t, c)) \in Int
      BY <1>1, Counting
    <3>. QED BY <3>1, <1>2 DEF Counted, clear_throttles
  <2>2. conn_state'[c] = "FREE"
    BY <1>1, <1>2 DEF Shape
  <2>3. \A d \in Conns \ {c} : conn_state'[d] = conn_state[d] /\ tnums'[d] = tnums[d]
    BY <1>1, <1>2 DEF Shape
  <2>. QED BY <1>1, <1>7, <2>1, <2>2, <2>3, CountsKept
<1>. QED BY <1>6, <1>7, <1>8, <1>9, <1>10, <1>11 DEF TimersFreedOnce

\* A connection starts to linger.
LEMMA Lingering ==
    ASSUME CoreInv, NEW c \in Open, NEW ts \in SUBSET Throttles, conn_state[c] # "LINGERING",
           NEW sending \in [Throttles -> Int], Counted(c, ts, sending),
           LingeringClose(c, sending),
           tnums' = [tnums EXCEPT ![c] = ts], should_linger' \in [Conns -> BOOLEAN],
           Timers(c, FALSE, Off, TRUE, LingerTime), corrupt' = FALSE
    PROVE  CoreInv'
<1>. USE DEF CoreInv
<1>1. c \in Conns /\ conn_state[c] # "FREE" /\ conn_fd[c] \in Fds
  BY DEF Open, Shape, WatchMatches
<1>2. /\ conn_state' = [conn_state EXCEPT ![c] = "LINGERING"]
      /\ UNCHANGED <<conn_fd, free_connects, num_connects>> /\ num_sending' = sending
  BY DEF LingeringClose, slots
<1>3. Open' = Open
  BY <1>1, <1>2 DEF Open, Shape
<1>4. fd_rw' = [fd_rw EXCEPT ![conn_fd[c]] = "read"] /\ fd_data' = [fd_data EXCEPT ![conn_fd[c]] = c]
  <2>1. /\ fd_rw' = fdwatch_add_fd(conn_fd[c], c, "read", Unwatched(c)).rw
        /\ fd_data' = fdwatch_add_fd(conn_fd[c], c, "read", Unwatched(c)).data
    BY DEF LingeringClose, Watching
  <2>2. CASE conn_state[c] = "PAUSING"
    <3>1. fd_rw[conn_fd[c]] = "none"
      BY <2>2 DEF WatchMatches
    <3>2. Unwatched(c) = [rw |-> fd_rw, data |-> fd_data]
      BY <2>2 DEF Unwatched, Watch
    <3>. QED BY <2>1, <3>1, <3>2 DEF fdwatch_add_fd
  <2>3. CASE conn_state[c] # "PAUSING"
    <3>1. Unwatched(c) = [rw |-> [fd_rw EXCEPT ![conn_fd[c]] = "none"],
                          data |-> [fd_data EXCEPT ![conn_fd[c]] = Nobody]]
      BY <2>3 DEF Unwatched, Watch, fdwatch_del_fd
    <3>. QED BY <1>1, <2>1, <3>1 DEF fdwatch_add_fd, Shape
  <2>. QED BY <2>2, <2>3
<1>6. FreeListSound'
  BY <1>2, <1>3, ListKept DEF slots
<1>7. Shape'
  BY <1>1, <1>2, <1>4, ThttpdAssumption DEF Shape, Timers, Off
<1>8. Slots'
  BY <1>1, <1>2, <1>4 DEF Shape, Slots
<1>9. TimersMatch'
  <2>1. LingerTime # Off
    BY ThttpdAssumption DEF Off
  <2>. QED BY <1>1, <1>2, <2>1 DEF Shape, TimersMatch, Timers
<1>10. WatchMatches'
  BY <1>1, <1>2, <1>3, <1>4 DEF Shape, WatchMatches, Watched, Open, Nobody, Fds
<1>11. ThrottlesExact'
  <2>1. conn_state'[c] # "FREE" /\ tnums'[c] = ts
    BY <1>1, <1>2 DEF Shape
  <2>2. \A t \in Throttles : num_sending'[t] = Cardinality(Others(t, c)) + (IF t \in ts THEN 1 ELSE 0)
    BY <1>2 DEF Counted
  <2>3. \A d \in Conns \ {c} : conn_state'[d] = conn_state[d] /\ tnums'[d] = tnums[d]
    BY <1>1, <1>2 DEF Shape
  <2>. QED BY <1>1, <1>7, <2>1, <2>2, <2>3, CountsKept
<1>. QED BY <1>6, <1>7, <1>8, <1>9, <1>10, <1>11 DEF TimersFreedOnce

\* clear_connection() and finish_connection() of an open connection.
LEMMA Clearing ==
    ASSUME CoreInv, NEW c \in Open, NEW lingers \in BOOLEAN, NEW ts \in SUBSET Throttles,
           NEW sending \in [Throttles -> Int], Counted(c, ts, sending),
           clear_connection(c, lingers, ts, sending)
    PROVE  CoreInv'
<1>1. c \in Conns /\ conn_state[c] # "FREE"
  BY DEF Open
<1>2. corrupt' = FALSE
  BY <1>1 DEF clear_connection, CancelsTwice, CoreInv, TimersMatch, TimersFreedOnce
<1>3. wakeup_timer' = [wakeup_timer EXCEPT ![c] = FALSE] /\ wakeup_left' = [wakeup_left EXCEPT ![c] = Off]
  <2>1. CASE wakeup_timer[c]
    BY <2>1 DEF clear_connection
  <2>2. CASE ~wakeup_timer[c]
    <3>1. wakeup_left[c] = Off
      BY <2>2, <1>1 DEF CoreInv, TimersMatch
    <3>. QED BY <2>2, <3>1, <1>1 DEF clear_connection, CoreInv, Shape
  <2>. QED BY <2>1, <2>2
<1>4. tnums' = [tnums EXCEPT ![c] = ts] /\ should_linger' \in [Conns -> BOOLEAN]
  BY <1>1 DEF clear_connection, CoreInv, Shape
<1>5. CASE lingers /\ conn_state[c] # "LINGERING"
  <2>1. LingeringClose(c, sending)
    BY <1>5 DEF clear_connection
  <2>2. Timers(c, FALSE, Off, TRUE, LingerTime)
    BY <2>1, <1>3 DEF LingeringClose, Timers
  <2>. QED BY <1>2, <1>4, <1>5, <2>1, <2>2, Lingering
<1>6. CASE ~(lingers /\ conn_state[c] # "LINGERING")
  <2>1. really_clear_connection(c, ts, sending)
    BY <1>6 DEF clear_connection
  <2>2. Timers(c, FALSE, Off, FALSE, Off)
    BY <2>1, <1>3 DEF really_clear_connection, Timers
  <2>. QED BY <1>2, <1>4, <2>1, <2>2, Freeing
<1>. QED BY <1>5, <1>6

\* The throttles of an open connection are counted.
LEMMA AsItStands ==
    ASSUME CoreInv, NEW c \in Open
    PROVE  /\ c \in Conns /\ tnums[c] \in SUBSET Throttles /\ should_linger[c] \in BOOLEAN
           /\ num_sending \in [Throttles -> Int]
           /\ Counted(c, tnums[c], num_sending)
<1>1. c \in Conns
  BY DEF Open
<1>2. ASSUME NEW t \in Throttles
      PROVE  num_sending[t] = Cardinality(Others(t, c)) + (IF t \in tnums[c] THEN 1 ELSE 0)
  <2>1. num_sending[t] = Cardinality(Others(t, c)) + (IF c \in Open /\ t \in tnums[c] THEN 1 ELSE 0)
    BY <1>1, Counting
  <2>. QED BY <2>1
<1>. QED BY <1>1, <1>2 DEF Counted, CoreInv, Shape

LEMMA ClearedAsItStands ==
    ASSUME CoreInv, NEW c \in Open, Cleared(c)
    PROVE  CoreInv'
BY AsItStands, Clearing DEF Cleared

\* check_throttles() counts a connection under the throttles it joins.
LEMMA Joining ==
    ASSUME CoreInv, NEW c \in Open, conn_state[c] = "READING", NEW ts \in check_throttles
    PROVE  ts \in SUBSET Throttles /\ Joined(ts) \in [Throttles -> Int] /\ Counted(c, ts, Joined(ts))
<1>1. c \in Conns /\ tnums[c] = {}
  BY DEF Open, CoreInv, Slots
<1>2. ASSUME NEW t \in Throttles
      PROVE  Joined(ts)[t] = Cardinality(Others(t, c)) + (IF t \in ts THEN 1 ELSE 0)
  <2>1. /\ Cardinality(Others(t, c)) \in Int
        /\ num_sending[t] = Cardinality(Others(t, c)) + (IF c \in Open /\ t \in tnums[c] THEN 1 ELSE 0)
    BY <1>1, Counting
  <2>2. num_sending[t] = Cardinality(Others(t, c))
    BY <2>1, <1>1
  <2>. QED BY <2>2 DEF Joined
<1>3. Joined(ts) \in [Throttles -> Int]
  BY DEF Joined, CoreInv, Shape
<1>. QED BY <1>2, <1>3 DEF Counted, check_throttles

\* A connection that was reading begins to send.
LEMMA Sending ==
    ASSUME CoreInv, NEW c \in Open, conn_state[c] = "READING", StartsSending(c)
    PROVE  CoreInv'
<1>. USE DEF CoreInv
<1>1. c \in Conns /\ conn_fd[c] \in Fds
  BY DEF Open, Shape, WatchMatches
<1>2. PICK ts \in check_throttles : tnums' = [tnums EXCEPT ![c] = ts] /\ num_sending' = Joined(ts)
  BY DEF StartsSending
<1>3. ts \in SUBSET Throttles /\ Joined(ts) \in [Throttles -> Int] /\ Counted(c, ts, Joined(ts))
  BY Joining
<1>4. /\ conn_state' = [conn_state EXCEPT ![c] = "SENDING"]
      /\ UNCHANGED <<conn_fd, free_connects, num_connects, wakeup_timer, linger_timer,
                     wakeup_left, linger_left, corrupt>>
      /\ should_linger' \in [Conns -> BOOLEAN]
  BY <1>1 DEF StartsSending, slots, pointers, lefts, Shape
<1>5. fd_rw' = [fd_rw EXCEPT ![conn_fd[c]] = "write"] /\ fd_data' = [fd_data EXCEPT ![conn_fd[c]] = c]
  <2>1. fdwatch_del_fd(conn_fd[c], Watch) = [rw |-> [fd_rw EXCEPT ![conn_fd[c]] = "none"],
                                             data |-> [fd_data EXCEPT ![conn_fd[c]] = Nobody]]
    BY DEF fdwatch_del_fd, Watch
  <2>. QED BY <1>1, <2>1 DEF StartsSending, Watching, fdwatch_add_fd, Shape
<1>6. Open' = Open
  BY <1>1, <1>4 DEF Open, Shape
<1>7. FreeListSound'
  BY <1>4, <1>6, ListKept DEF slots
<1>8. Shape'
  BY <1>1, <1>2, <1>3, <1>4, <1>5 DEF Shape
<1>9. Slots'
  BY <1>1, <1>2, <1>4, <1>5 DEF Shape, Slots
<1>10. TimersMatch'
  BY <1>1, <1>4 DEF Shape, TimersMatch
<1>11. WatchMatches'
  BY <1>1, <1>4, <1>5, <1>6 DEF Shape, WatchMatches, Watched, Open, Nobody, Fds
<1>12. ThrottlesExact'
  <2>1. conn_state'[c] # "FREE" /\ tnums'[c] = ts
    BY <1>1, <1>2, <1>4 DEF Shape
  <2>2. \A t \in Throttles : num_sending'[t] = Cardinality(Others(t, c)) + (IF t \in ts THEN 1 ELSE 0)
    BY <1>2, <1>3 DEF Counted
  <2>3. \A d \in Conns \ {c} : conn_state'[d] = conn_state[d] /\ tnums'[d] = tnums[d]
    BY <1>1, <1>2, <1>4 DEF Shape
  <2>. QED BY <1>1, <1>8, <2>1, <2>2, <2>3, CountsKept
<1>. QED BY <1>4, <1>7, <1>8, <1>9, <1>10, <1>11, <1>12 DEF TimersFreedOnce

\* A step that leaves the open connections and their throttles alone.
LEMMA SameThrottles ==
    ASSUME ThrottlesExact, Open' = Open, UNCHANGED <<tnums, num_sending>>
    PROVE  ThrottlesExact'
BY DEF ThrottlesExact

\* A connection that was sending pauses.
LEMMA Pausing ==
    ASSUME CoreInv, NEW c \in Open, conn_state[c] = "SENDING", Pauses(c)
    PROVE  CoreInv'
<1>. USE DEF CoreInv
<1>1. c \in Conns /\ conn_fd[c] \in Fds
  BY DEF Open, Shape, WatchMatches
<1>2. PICK d \in 1..MaxPause : wakeup_left' = [wakeup_left EXCEPT ![c] = d]
  BY DEF Pauses
<1>3. d \in Int /\ d # Off
  BY ThttpdAssumption DEF Off
<1>4. /\ conn_state' = [conn_state EXCEPT ![c] = "PAUSING"]
      /\ wakeup_timer' = [wakeup_timer EXCEPT ![c] = TRUE]
      /\ UNCHANGED <<conn_fd, free_connects, num_connects, linger_timer, linger_left, corrupt,
                     should_linger, tnums, num_sending>>
      /\ fd_rw' = [fd_rw EXCEPT ![conn_fd[c]] = "none"]
      /\ fd_data' = [fd_data EXCEPT ![conn_fd[c]] = Nobody]
  BY DEF Pauses, slots, Watching, fdwatch_del_fd, Watch
<1>5. Open' = Open
  BY <1>1, <1>4 DEF Open, Shape
<1>6. FreeListSound' /\ ThrottlesExact'
  BY <1>4, <1>5, ListKept, SameThrottles DEF slots
<1>7. Shape'
  BY <1>1, <1>2, <1>3, <1>4 DEF Shape
<1>8. Slots'
  BY <1>1, <1>4 DEF Shape, Slots
<1>9. TimersMatch'
  BY <1>1, <1>2, <1>3, <1>4 DEF Shape, TimersMatch
<1>10. WatchMatches'
  BY <1>1, <1>4, <1>5 DEF Shape, WatchMatches, Watched, Open, Nobody, Fds
<1>. QED BY <1>4, <1>6, <1>7, <1>8, <1>9, <1>10 DEF TimersFreedOnce

\* A paused connection is woken up by its timer.
LEMMA Waking ==
    ASSUME CoreInv, NEW c \in Conns, RunWakeup(c)
    PROVE  CoreInv'
<1>. USE DEF CoreInv
<1>1. wakeup_left[c] # Off
  BY DEF RunWakeup, DueWakeups, Off
<1>2. conn_state[c] = "PAUSING" /\ c \in Open /\ conn_fd[c] \in Fds
  BY <1>1 DEF TimersMatch, Open, Shape, WatchMatches
<1>3. fd_rw[conn_fd[c]] = "none"
  BY <1>2 DEF WatchMatches
<1>4. /\ conn_state' = [conn_state EXCEPT ![c] = "SENDING"]
      /\ wakeup_timer' = [wakeup_timer EXCEPT ![c] = FALSE]
      /\ wakeup_left' = [wakeup_left EXCEPT ![c] = Off]
      /\ UNCHANGED <<conn_fd, free_connects, num_connects, linger_timer, linger_left, corrupt,
                     should_linger, tnums, num_sending>>
      /\ fd_rw' = [fd_rw EXCEPT ![conn_fd[c]] = "write"]
      /\ fd_data' = [fd_data EXCEPT ![conn_fd[c]] = c]
  BY <1>2, <1>3 DEF RunWakeup, wakeup_connection, slots, Watching, fdwatch_add_fd, Watch
<1>5. Open' = Open
  BY <1>2, <1>4 DEF Open, Shape
<1>6. FreeListSound' /\ ThrottlesExact'
  BY <1>4, <1>5, ListKept, SameThrottles DEF slots
<1>7. Shape'
  BY <1>2, <1>4 DEF Shape, Off
<1>8. Slots'
  BY <1>2, <1>4 DEF Shape, Slots
<1>9. TimersMatch'
  BY <1>2, <1>4 DEF Shape, TimersMatch
<1>10. WatchMatches'
  BY <1>2, <1>4, <1>5 DEF Shape, WatchMatches, Watched, Open, Nobody, Fds
<1>. QED BY <1>4, <1>6, <1>7, <1>8, <1>9, <1>10 DEF TimersFreedOnce

\* The lingering close ends, by its timer or by the client.
LEMMA LingeringEnds ==
    ASSUME CoreInv, NEW c \in Open, conn_state[c] = "LINGERING",
           really_clear_connection(c, tnums[c], num_sending),
           UNCHANGED <<should_linger, tnums, wakeup_timer, wakeup_left>>, corrupt' = FALSE
    PROVE  CoreInv'
<1>1. /\ c \in Conns /\ tnums[c] \in SUBSET Throttles
      /\ num_sending \in [Throttles -> Int] /\ Counted(c, tnums[c], num_sending)
  BY AsItStands
<1>2. wakeup_timer[c] = FALSE /\ wakeup_left[c] = Off
  BY <1>1 DEF CoreInv, TimersMatch, Shape
<1>3. Timers(c, FALSE, Off, FALSE, Off)
  BY <1>1, <1>2 DEF Timers, really_clear_connection, CoreInv, Shape
<1>4. tnums' = [tnums EXCEPT ![c] = tnums[c]] /\ should_linger' \in [Conns -> BOOLEAN]
  BY <1>1 DEF CoreInv, Shape
<1>. QED BY <1>1, <1>3, <1>4, Freeing

\* While a slot is free there is a descriptor accept() can give, and it is
\* nobody's.
LEMMA NewFdIsFree ==
    ASSUME CoreInv, num_connects < MaxConnects
    PROVE  NewFd \in Fds /\ \A c \in Conns : conn_fd[c] # NewFd
<1>. DEFINE Unused == {fd \in Fds : \A c \in Conns : conn_fd[c] # fd}
<1>1. Unused # {}
  <2>1. SUFFICES ASSUME Unused = {} PROVE FALSE
    OBVIOUS
  <2>2. ASSUME NEW fd \in Fds PROVE \E c \in Open : conn_fd[c] = fd
    <3>1. PICK c \in Conns : conn_fd[c] = fd
      BY <2>1
    <3>2. fd # Nobody
      BY ThttpdAssumption DEF Fds, Nobody
    <3>. QED BY <3>1, <3>2 DEF CoreInv, Slots, Open
  <2>. DEFINE f == [fd \in Fds |-> CHOOSE c \in Open : conn_fd[c] = fd]
  <2>3. \A fd \in Fds : f[fd] \in Open /\ conn_fd[f[fd]] = fd
    BY <2>2
  <2>4. f \in [Fds -> Open]
    BY <2>3
  <2>5. IsFiniteSet(Fds) /\ Cardinality(Fds) = MaxConnects
    BY ThttpdAssumption, FS_Interval DEF Fds
  <2>6. IsFiniteSet(Open) /\ Cardinality(Open) < Cardinality(Fds)
    <3>1. Open \in SUBSET Conns /\ 1 \in Conns
      BY ThttpdAssumption DEF Open, Conns
    <3>. QED BY <3>1, <2>5, ConnSets DEF CoreInv, FreeListSound
  <2>. HIDE DEF f
  <2>7. \E x, y \in Fds : x # y /\ f[x] = f[y]
    BY <2>4, <2>5, <2>6, FS_PigeonHole
  <2>. QED BY <2>3, <2>7
<1>2. PICK low \in Unused : \A fd \in Unused : ~(<<fd, low>> \in OpToRel(<, Nat))
  <2>1. Unused \subseteq Nat
    BY ThttpdAssumption DEF Fds
  <2>. QED BY <1>1, <2>1, WFMin, NatLessThanWellFounded
<1>3. \A fd \in Unused : ~(fd < low)
  <2>1. ASSUME NEW fd \in Unused, fd < low PROVE <<fd, low>> \in OpToRel(<, Nat)
    <3>1. fd \in Nat /\ low \in Nat
      BY ThttpdAssumption DEF Fds
    <3>. QED BY <2>1, <3>1 DEF OpToRel
  <2>. QED BY <1>2, <2>1
<1>4. \A lower \in 1..(low - 1) : \E c \in Conns : conn_fd[c] = lower
  <2>1. low \in Nat /\ low <= MaxConnects
    BY ThttpdAssumption DEF Fds
  <2>2. ASSUME NEW lower \in 1..(low - 1) PROVE lower \in Fds /\ lower < low
    BY <2>1, ThttpdAssumption DEF Fds
  <2>. QED BY <1>3, <2>2
<1>. QED BY <1>4 DEF NewFd

\* A connection is accepted into the first free slot.
LEMMA Accepting ==
    ASSUME CoreInv, Accepts
    PROVE  CoreInv'
<1>. USE DEF CoreInv
<1>. DEFINE c == Head(free_connects)
            fd == NewFd
<1>1. num_connects < MaxConnects /\ conn_state[c] = "FREE"
  BY DEF Accepts
<1>2. c \in Conns
  <2>1. free_connects \in Seq(Conns) /\ Len(free_connects) > 0
    BY <1>1, ThttpdAssumption DEF Shape, FreeListSound
  <2>. QED BY <2>1
<1>3. fd \in Fds /\ \A d \in Conns : conn_fd[d] # fd
  BY <1>1, NewFdIsFree
<1>4. fd_rw[fd] = "none"
  BY <1>3 DEF WatchMatches, Watched, Open
<1>5. /\ conn_state' = [conn_state EXCEPT ![c] = "READING"]
      /\ free_connects' = Tail(free_connects) /\ num_connects' = num_connects + 1
      /\ wakeup_timer' = [wakeup_timer EXCEPT ![c] = FALSE]
      /\ linger_timer' = [linger_timer EXCEPT ![c] = FALSE]
      /\ should_linger' = [should_linger EXCEPT ![c] = FALSE]
      /\ tnums' = [tnums EXCEPT ![c] = {}]
      /\ conn_fd' = [conn_fd EXCEPT ![c] = fd]
      /\ UNCHANGED <<num_sending, wakeup_left, linger_left, corrupt>>
  BY DEF Accepts, lefts
<1>6. fd_rw' = [fd_rw EXCEPT ![fd] = "read"] /\ fd_data' = [fd_data EXCEPT ![fd] = c]
  BY <1>4 DEF Accepts, Watching, fdwatch_add_fd, Watch
<1>7. Open' = Open \cup {c}
  BY <1>2, <1>5 DEF Open, Shape
<1>8. /\ FreeListSound' /\ free_connects' \in Seq(Conns)
      /\ \A i, j \in 1..Len(free_connects') : free_connects'[i] = free_connects'[j] => i = j
  BY <1>1, <1>5, <1>7, ListShrinks
<1>9. Shape'
  <2>1. /\ conn_state' \in [Conns -> {"FREE", "READING", "SENDING", "PAUSING", "LINGERING"}]
        /\ conn_fd' \in [Conns -> Fds \cup {Nobody}] /\ tnums' \in [Conns -> SUBSET Throttles]
        /\ num_connects' \in Int
    BY <1>2, <1>3, <1>5 DEF Shape
  <2>2. /\ should_linger' \in [Conns -> BOOLEAN]
        /\ wakeup_timer' \in [Conns -> BOOLEAN] /\ linger_timer' \in [Conns -> BOOLEAN]
    BY <1>2, <1>5 DEF Shape
  <2>3. fd_rw' \in [Fds -> {"none", "read", "write"}] /\ fd_data' \in [Fds -> Conns \cup {Nobody}]
    BY <1>2, <1>3, <1>6 DEF Shape
  <2>. QED BY <1>5, <1>8, <2>1, <2>2, <2>3 DEF Shape
<1>10. Slots'
  BY <1>2, <1>3, <1>5, <1>6, <1>8, ThttpdAssumption DEF Shape, Slots, Fds, Nobody
<1>11. TimersMatch'
  <2>1. wakeup_timer[c] = FALSE /\ linger_timer[c] = FALSE /\ wakeup_left[c] = Off /\ linger_left[c] = Off
    BY <1>1, <1>2 DEF TimersMatch, Shape
  <2>. QED BY <1>2, <1>5, <2>1 DEF Shape, TimersMatch
<1>12. WatchMatches'
  <2>1. fd # Nobody /\ c \notin Open
    BY <1>1, <1>3, ThttpdAssumption DEF Fds, Nobody, Open
  <2>2. /\ conn_state'[c] = "READING" /\ conn_fd'[c] = fd /\ fd_rw'[fd] = "read" /\ fd_data'[fd] = c
        /\ \A d \in Conns \ {c} : conn_state'[d] = conn_state[d] /\ conn_fd'[d] = conn_fd[d]
        /\ \A e \in Fds \ {fd} : fd_rw'[e] = fd_rw[e] /\ fd_data'[e] = fd_data[e]
    BY <1>2, <1>3, <1>5, <1>6 DEF Shape
  <2>3. ASSUME NEW d \in Open
        PROVE  d \in Conns \ {c} /\ conn_fd[d] \in Fds \ {fd}
    BY <1>3, <2>1 DEF Open, Shape, WatchMatches
  <2>4. ASSUME NEW d \in Open'
        PROVE  /\ conn_fd'[d] # Nobody /\ \A e \in Conns \ {d} : conn_fd'[e] # conn_fd'[d]
               /\ fd_rw'[conn_fd'[d]] = CASE conn_state'[d] \in {"READING", "LINGERING"} -> "read"
                                          [] conn_state'[d] = "SENDING" -> "write"
                                          [] OTHER -> "none"
               /\ fd_data'[conn_fd'[d]] = IF conn_state'[d] = "PAUSING" THEN Nobody ELSE d
    <3>1. CASE d = c
      BY <3>1, <1>3, <2>1, <2>2
    <3>2. CASE d # c
      <4>1. d \in Open
        BY <3>2, <1>7
      <4>. QED BY <4>1, <1>3, <2>2, <2>3 DEF WatchMatches
    <3>. QED BY <3>1, <3>2
  <2>5. ASSUME NEW e \in Watched' PROVE \E d \in Open' : conn_fd'[d] = e
    <3>1. CASE e = fd
      BY <3>1, <1>7, <2>2
    <3>2. CASE e # fd
      <4>1. e \in Watched
        BY <3>2, <2>2 DEF Watched
      <4>. QED BY <4>1, <1>7, <2>2, <2>3 DEF WatchMatches
    <3>. QED BY <3>1, <3>2
  <2>. QED BY <2>4, <2>5 DEF WatchMatches
<1>13. ThrottlesExact'
  <2>1. tnums'[c] = {} /\ c \notin Open
    BY <1>1, <1>2, <1>5 DEF Shape, Open
  <2>2. ASSUME NEW t \in Throttles PROVE num_sending'[t] = Cardinality(Others(t, c)) + 0
    <3>1. num_sending[t] = Cardinality(Others(t, c)) + (IF c \in Open /\ t \in tnums[c] THEN 1 ELSE 0)
      BY <1>2, Counting
    <3>. QED BY <3>1, <2>1, <1>5
  <2>3. \A d \in Conns \ {c} : conn_state'[d] = conn_state[d] /\ tnums'[d] = tnums[d]
    BY <1>2, <1>5 DEF Shape
  <2>. QED BY <1>2, <1>9, <2>1, <2>2, <2>3, CountsKept
<1>. QED BY <1>5, <1>8, <1>9, <1>10, <1>11, <1>12, <1>13 DEF TimersFreedOnce

\* Time passes: no timer that is scheduled is not afterwards.
LEMMA Ticking ==
    ASSUME CoreInv, Tick
    PROVE  CoreInv'
<1>. USE DEF CoreInv
<1>1. /\ wakeup_left' = Sooner(wakeup_left) /\ linger_left' = Sooner(linger_left)
      /\ UNCHANGED <<conn_state, conn_fd, should_linger, tnums, wakeup_timer, linger_timer,
                     free_connects, num_connects, num_sending, fd_rw, fd_data, corrupt>>
  BY DEF Tick, pointers, slots, fdwatch
<1>2. \A c \in Conns : wakeup_left[c] # 0 /\ linger_left[c] # 0
  BY DEF Tick, NothingDue, DueWakeups, DueLingers
<1>3. /\ wakeup_left' \in [Conns -> Int] /\ linger_left' \in [Conns -> Int]
      /\ \A c \in Conns : /\ wakeup_left'[c] = Off <=> wakeup_left[c] = Off
                          /\ linger_left'[c] = Off <=> linger_left[c] = Off
  BY <1>1, <1>2 DEF Sooner, Off, Shape
<1>4. Shape' /\ Slots' /\ TimersMatch'
  BY <1>1, <1>3 DEF Shape, Slots, TimersMatch
<1>5. Open' = Open /\ FreeListSound' /\ ThrottlesExact' /\ WatchMatches'
  BY <1>1 DEF Open, FreeListSound, ThrottlesExact, WatchMatches, Watched
<1>. QED BY <1>1, <1>4, <1>5 DEF TimersFreedOnce

\* A step that leaves the connections alone.
LEMMA NoConnection ==
    ASSUME CoreInv, UNCHANGED core
    PROVE  CoreInv'
<1>1. UNCHANGED <<conn_state, conn_fd, should_linger, tnums, wakeup_timer, linger_timer,
                   free_connects, num_connects, num_sending, fd_rw, fd_data, wakeup_left,
                   linger_left, corrupt>>
  BY DEF core, pointers, slots, fdwatch, lefts
<1>2. Shape' /\ Slots' /\ TimersMatch' /\ TimersFreedOnce'
  BY <1>1 DEF CoreInv, Shape, Slots, TimersMatch, TimersFreedOnce
<1>3. WatchMatches'
  BY <1>1 DEF CoreInv, WatchMatches, Watched, Open
<1>4. Open' = Open
  BY <1>1 DEF Open
<1>5. ThrottlesExact' /\ FreeListSound'
  BY <1>1, <1>4, SameThrottles, ListKept DEF CoreInv, slots
<1>. QED BY <1>2, <1>3, <1>5 DEF CoreInv

\* A descriptor leads to the open connection it belongs to, or to nobody.
LEMMA ReportedIsOpen ==
    ASSUME CoreInv, NEW fd \in Fds, fd_data[fd] # Nobody
    PROVE  fd_data[fd] \in Open
<1>1. fd \in Watched
  BY DEF CoreInv, Slots, Watched
<1>2. PICK c \in Open : conn_fd[c] = fd
  BY <1>1 DEF CoreInv, WatchMatches
<1>. QED BY <1>2 DEF CoreInv, WatchMatches

-----------------------------------------------------------------------------

LEMMA Initially == Init => IInv
<1>. SUFFICES ASSUME Init PROVE IInv
  OBVIOUS
<1>. USE DEF Init
<1>1. Open = {}
  BY DEF Open
<1>2. free_connects \in Seq(Conns) /\ Len(free_connects) = MaxConnects
  BY ThttpdAssumption DEF Conns
<1>8. Shape
  BY <1>2 DEF Shape, Off
<1>3. Slots /\ TimersMatch /\ TimersFreedOnce
  <2>1. Slots
    BY <1>2 DEF Slots, Conns
  <2>. QED BY <2>1 DEF TimersMatch, TimersFreedOnce
<1>4. WatchMatches
  BY <1>1 DEF WatchMatches, Watched
<1>5. ThrottlesExact
  BY <1>1, FS_EmptySet DEF ThrottlesExact
<1>6. FreeListSound
  <2>1. Len(free_connects) = MaxConnects /\ DOMAIN free_connects = Conns
    BY ThttpdAssumption DEF Conns
  <2>. QED BY <1>1, <2>1, FS_EmptySet, ThttpdAssumption DEF FreeListSound, Conns
<1>7. Loop
  BY DEF Loop
<1>. QED BY <1>3, <1>4, <1>5, <1>6, <1>7, <1>8 DEF IInv, CoreInv

\* The handlers of a connection that fdwatch reported.
LEMMA Handling ==
    ASSUME CoreInv, NEW c \in Open,
           \/ Trouble(c)
           \/ conn_state[c] = "READING" /\ handle_read(c)
           \/ conn_state[c] = "SENDING" /\ handle_send(c)
           \/ conn_state[c] = "LINGERING" /\ handle_linger(c)
    PROVE  CoreInv'
<1>1. c \in Conns
  BY DEF Open
<1>2. CASE Again
  BY <1>2, NoConnection DEF Again, connects, core
<1>3. CASE Trouble(c)
  BY <1>3, ClearedAsItStands DEF Trouble
<1>4. CASE conn_state[c] = "READING" /\ handle_read(c)
  <2>1. CASE ReadEnds(c)
    <3>1. tnums[c] = {}
      BY <1>1, <1>4 DEF CoreInv, Slots
    <3>2. clear_connection(c, FALSE, {}, num_sending)
      BY <2>1 DEF ReadEnds
    <3>3. num_sending \in [Throttles -> Int] /\ Counted(c, {}, num_sending)
      BY <3>1, AsItStands
    <3>. QED BY <3>2, <3>3, Clearing
  <2>2. CASE ReadsOn(c)
    BY <2>2, NoConnection DEF ReadsOn, core
  <2>3. CASE Answers(c)
    <3>1. PICK ts \in check_throttles, lingers \in BOOLEAN : clear_connection(c, lingers, ts, Joined(ts))
      BY <2>3 DEF Answers
    <3>2. ts \in SUBSET Throttles /\ Joined(ts) \in [Throttles -> Int] /\ Counted(c, ts, Joined(ts))
      BY <1>4, Joining
    <3>. QED BY <3>1, <3>2, Clearing
  <2>4. CASE StartsSending(c)
    BY <1>4, <2>4, Sending
  <2>. QED BY <1>2, <1>4, <2>1, <2>2, <2>3, <2>4 DEF handle_read
<1>5. CASE conn_state[c] = "SENDING" /\ handle_send(c)
  <2>1. CASE WouldBlock(c)
    BY <1>5, <2>1, Pausing DEF WouldBlock
  <2>2. CASE WriteFails(c)
    BY <2>2, ClearedAsItStands DEF WriteFails
  <2>3. CASE Sends(c)
    <3>1. CASE Cleared(c)
      BY <3>1, ClearedAsItStands
    <3>2. CASE Pauses(c)
      BY <1>5, <3>2, Pausing
    <3>3. CASE UNCHANGED <<conn_state, conn_fd, should_linger, tnums, pointers, slots, num_sending,
                           fdwatch, lefts, corrupt>>
      BY <3>3, NoConnection DEF core
    <3>. QED BY <2>3, <3>1, <3>2, <3>3 DEF Sends
  <2>. QED BY <1>2, <1>5, <2>1, <2>2, <2>3 DEF handle_send
<1>6. CASE conn_state[c] = "LINGERING" /\ handle_linger(c)
  <2>1. CASE Again
    BY <2>1, <1>2
  <2>2. CASE ~Again
    <3>1. /\ really_clear_connection(c, tnums[c], num_sending)
          /\ corrupt' = (corrupt \/ (linger_timer[c] /\ linger_left[c] = Off))
          /\ UNCHANGED <<should_linger, tnums, wakeup_timer, wakeup_left>>
      BY <1>6, <2>2 DEF handle_linger
    <3>2. corrupt' = FALSE
      BY <1>1, <3>1 DEF CoreInv, TimersMatch, TimersFreedOnce
    <3>. QED BY <1>6, <3>1, <3>2, LingeringEnds
  <2>. QED BY <2>1, <2>2
<1>. QED BY <1>3, <1>4, <1>5, <1>6

\* Every step keeps the connections consistent.
LEMMA CoreStep ==
    ASSUME IInv, [Next]_vars
    PROVE  CoreInv'
<1>. USE DEF IInv
<1>1. CASE UNCHANGED core
  BY <1>1, NoConnection
<1>2. CASE TimesOut \/ Ends \/ AcceptsNone \/ NoMore \/ Served
  BY <1>1, <1>2 DEF TimesOut, Ends, AcceptsNone, NoMore, Served, core, connects
<1>3. CASE RunIdle \/ TimersDone \/ CheckUsr1 \/ Reports \/ handle_usr1
  BY <1>1, <1>3 DEF RunIdle, TimersDone, CheckUsr1, Reports, handle_usr1, core, connects
<1>4. CASE Accepts
  BY <1>4, Accepting
<1>5. CASE Serve
  <2>1. PICK fd \in ready :
            LET c == fd_data[fd] IN
            \/ c = Nobody /\ Again
            \/ c # Nobody /\ Trouble(c)
            \/ c # Nobody /\ conn_state[c] = "READING" /\ handle_read(c)
            \/ c # Nobody /\ conn_state[c] = "SENDING" /\ handle_send(c)
            \/ c # Nobody /\ conn_state[c] = "LINGERING" /\ handle_linger(c)
    BY <1>5 DEF Serve
  <2>2. CASE fd_data[fd] = Nobody
    BY <2>1, <2>2, <1>1 DEF Again, connects, core
  <2>3. CASE fd_data[fd] # Nobody
    <3>1. fd \in Fds
      BY DEF Loop
    <3>2. fd_data[fd] \in Open
      BY <2>3, <3>1, ReportedIsOpen
    <3>. QED BY <2>1, <2>3, <3>2, Handling
  <2>. QED BY <2>2, <2>3
<1>6. ASSUME NEW c \in Conns, RunWakeup(c) PROVE CoreInv'
  BY <1>6, Waking
<1>7. ASSUME NEW c \in Conns, RunLinger(c) PROVE CoreInv'
  <2>1. linger_left[c] # Off
    BY <1>7 DEF RunLinger, DueLingers, Off
  <2>2. conn_state[c] = "LINGERING" /\ c \in Open /\ corrupt' = FALSE
    BY <1>7, <2>1 DEF CoreInv, TimersMatch, Open, RunLinger, TimersFreedOnce
  <2>. QED BY <1>7, <2>2, LingeringEnds DEF RunLinger
<1>8. CASE IdleSlot
  <2>1. CASE TimedOut(cnum)
    <3>1. cnum \in Conns
      BY <1>8, ThttpdAssumption DEF IdleSlot, Loop, Conns
    <3>2. cnum \in Open
      BY <2>1, <3>1 DEF TimedOut, Open
    <3>. QED BY <1>8, <2>1, <3>2, ClearedAsItStands DEF IdleSlot
  <2>2. CASE ~TimedOut(cnum)
    BY <1>8, <2>2, <1>1 DEF IdleSlot, core
  <2>. QED BY <2>1, <2>2
<1>9. CASE IdleDone
  <2>1. ~\E i \in DOMAIN freed : freed[i] = next
    BY ThttpdAssumption DEF Loop, Conns, Nobody
  <2>. QED BY <1>9, <2>1, <1>1 DEF IdleDone, core, pointers
<1>10. CASE Tick
  BY <1>10, Ticking
<1>11. CASE UNCHANGED vars
  BY <1>11, <1>1 DEF vars, core, connects
<1>. QED BY <1>2, <1>3, <1>4, <1>5, <1>6, <1>7, <1>8, <1>9, <1>10, <1>11 DEF Next, Server

LEMMA LoopStep ==
    ASSUME ~Collisions, IInv, [Next]_vars
    PROVE  Loop'
<1>. USE DEF IInv, Loop
<1>1. CASE UNCHANGED <<ready, scan>>
  BY <1>1 DEF scan
<1>2. CASE TimesOut \/ Ends \/ Served \/ TimersDone \/ CheckUsr1 \/ handle_usr1 \/ Tick
  BY <1>1, <1>2 DEF TimesOut, Ends, Served, TimersDone, CheckUsr1, handle_usr1, Tick, found, scan
<1>3. CASE AcceptsNone \/ Accepts
  BY <1>1, <1>3 DEF AcceptsNone, Accepts
<1>4. CASE NoMore
  BY <1>4 DEF NoMore, scan
<1>5. CASE Reports
  BY <1>5 DEF Reports, scan, Watched
<1>6. CASE Serve
  BY <1>6 DEF Serve, scan
<1>7. ASSUME NEW c \in Conns, RunWakeup(c) \/ RunLinger(c) PROVE Loop'
  BY <1>7, <1>1 DEF RunWakeup, RunLinger, found, scan
<1>8. CASE RunIdle
  BY <1>8 DEF RunIdle, found
<1>9. CASE IdleSlot
  <2>1. cnum \in Conns
    BY <1>9, ThttpdAssumption DEF IdleSlot, Conns
  <2>2. Freed(cnum) \in Seq(Conns)
    BY <2>1 DEF Freed
  <2>. QED BY <1>9, <2>2 DEF IdleSlot, found
<1>10. CASE IdleDone
  BY <1>10 DEF IdleDone, found
<1>11. CASE UNCHANGED vars
  BY <1>11, <1>1 DEF vars, found
<1>. QED BY <1>2, <1>3, <1>4, <1>5, <1>6, <1>7, <1>8, <1>9, <1>10, <1>11 DEF Next, Server

LEMMA Inductive == ~Collisions => (Spec => []IInv)
<1>. SUFFICES ASSUME ~Collisions PROVE Spec => []IInv
  OBVIOUS
<1>1. IInv /\ [Next]_vars => IInv'
  BY CoreStep, LoopStep DEF IInv
<1>. QED BY <1>1, Initially, PTL DEF Spec

\* In every order of requests, pauses, closes and timeouts, a connection pauses
\* exactly while a wakeup timer is scheduled for it and lingers exactly while a
\* linger timer is (handle_send(), clear_connection() and the timer procedures).
THEOREM TimersAreTheirs == ~Collisions => (Spec => []TimersMatch)
<1>1. IInv => TimersMatch
  BY DEF IInv, CoreInv
<1>. QED BY <1>1, Inductive, PTL

\* However descriptors are reused, each one fdwatch watches belongs to the open
\* connection it leads to, which waits for just that.
THEOREM DescriptorsAreTheirs == ~Collisions => (Spec => []WatchMatches)
<1>1. IInv => WatchMatches
  BY DEF IInv, CoreInv
<1>. QED BY <1>1, Inductive, PTL

\* Whatever way a connection ends, the throttles count the ones that are open:
\* check_throttles() and clear_throttles() are called once each.
THEOREM ThrottlesAreExact == ~Collisions => (Spec => []ThrottlesExact)
<1>1. IInv => ThrottlesExact
  BY DEF IInv, CoreInv
<1>. QED BY <1>1, Inductive, PTL

\* No slot is lost or on the free list twice (really_clear_connection() and
\* handle_newconnect()).
THEOREM FreeListIsSound == ~Collisions => (Spec => []FreeListSound)
<1>1. IInv => FreeListSound
  BY DEF IInv, CoreInv
<1>. QED BY <1>1, Inductive, PTL

\* If no timer follows the idle timer in its hash bucket, tmr_cancel() is never
\* called for a timer that is on the free list.
THEOREM NoTimerFreedTwice == ~Collisions => (Spec => []TimersFreedOnce)
<1>1. IInv => TimersFreedOnce
  BY DEF IInv, CoreInv
<1>. QED BY <1>1, Inductive, PTL

-----------------------------------------------------------------------------
(* What remains of the types: the clocks, and the main loop's own variables. *)

Limits ==
    /\ age \in [Conns -> 0..MaxAge]
    /\ wakeup_left \in [Conns -> Off..MaxPause] /\ linger_left \in [Conns -> Off..LingerTime]

Places ==
    /\ idle_left \in 0..IdleEvery
    /\ pc \in {"watch", "accept", "serve", "timers", "idle", "usr1", "exit"}
    /\ after \in {"watch", "accept", "serve", "usr1"}
    /\ lready \subseteq 1..Listeners /\ fresh \in BOOLEAN
    /\ cnum <= MaxConnects + 1
    /\ got_usr1 \in BOOLEAN /\ terminate \in BOOLEAN

LEMMA Bounds ==
    /\ MaxAge \in Nat /\ 0 \in 0..MaxAge
    /\ Off \in Off..MaxPause /\ Off \in Off..LingerTime /\ LingerTime \in Off..LingerTime
    /\ \A d \in 1..MaxPause : d \in Off..MaxPause
BY ThttpdAssumption DEF MaxAge, Off

\* However a connection ends, its timers are off or a linger timer is set.
LEMMA EndLimits ==
    ASSUME Limits, NEW c \in Conns, NEW lingers, NEW ts, NEW sending,
           \/ clear_connection(c, lingers, ts, sending)
           \/ really_clear_connection(c, ts, sending) /\ UNCHANGED wakeup_left
    PROVE  wakeup_left' \in [Conns -> Off..MaxPause] /\ linger_left' \in [Conns -> Off..LingerTime]
<1>1. \/ wakeup_left' = wakeup_left
      \/ wakeup_left' = [wakeup_left EXCEPT ![c] = Off]
  BY DEF clear_connection
<1>2. \/ linger_left' = [linger_left EXCEPT ![c] = Off]
      \/ linger_left' = [linger_left EXCEPT ![c] = LingerTime]
  BY DEF clear_connection, really_clear_connection, LingeringClose
<1>. QED BY <1>1, <1>2, Bounds DEF Limits

LEMMA TouchLimits ==
    ASSUME Limits, NEW c \in Conns, Touch(c) \/ UNCHANGED age
    PROVE  age' \in [Conns -> 0..MaxAge]
BY Bounds DEF Touch, Limits

\* The handlers of a connection that fdwatch reported.
LEMMA HandlingLimits ==
    ASSUME Limits, NEW c \in Conns,
           \/ Trouble(c)
           \/ handle_read(c)
           \/ handle_send(c)
           \/ handle_linger(c)
    PROVE  Limits'
<1>1. CASE Again
  BY <1>1 DEF Again, connects, lefts, Limits
<1>2. CASE Trouble(c) \/ WriteFails(c) \/ ReadEnds(c)
  BY <1>2, EndLimits, TouchLimits DEF Trouble, WriteFails, ReadEnds, Cleared, Limits
<1>3. CASE Answers(c)
  <2>1. PICK ts \in check_throttles, lingers \in BOOLEAN : clear_connection(c, lingers, ts, Joined(ts))
    BY <1>3 DEF Answers
  <2>. QED BY <1>3, <2>1, EndLimits, TouchLimits DEF Answers, Limits
<1>4. CASE ReadsOn(c) \/ StartsSending(c)
  BY <1>4, TouchLimits DEF ReadsOn, StartsSending, lefts, Limits
<1>5. ASSUME Pauses(c), Touch(c) \/ UNCHANGED age PROVE Limits'
  BY <1>5, Bounds, TouchLimits DEF Pauses, Limits
<1>6. CASE WouldBlock(c)
  BY <1>5, <1>6 DEF WouldBlock
<1>7. CASE Sends(c)
  <2>1. CASE Cleared(c)
    BY <1>7, <2>1, EndLimits, TouchLimits DEF Sends, Cleared, Limits
  <2>2. CASE Pauses(c)
    BY <1>5, <1>7, <2>2 DEF Sends
  <2>3. CASE UNCHANGED <<conn_state, conn_fd, should_linger, tnums, pointers, slots, num_sending,
                         fdwatch, lefts, corrupt>>
    BY <1>7, <2>3, TouchLimits DEF Sends, lefts, Limits
  <2>. QED BY <1>7, <2>1, <2>2, <2>3 DEF Sends
<1>8. CASE handle_linger(c) /\ ~Again
  BY <1>8, EndLimits, TouchLimits DEF handle_linger, Limits
<1>. QED BY <1>1, <1>2, <1>3, <1>4, <1>6, <1>7, <1>8 DEF handle_read, handle_send, handle_linger

LEMMA TickLimits ==
    ASSUME Limits, Shape, Tick
    PROVE  Limits'
<1>1. ASSUME NEW c \in Conns PROVE age'[c] \in 0..MaxAge
  <2>1. age[c] \in 0..MaxAge
    BY DEF Limits
  <2>2. age'[c] \in {0, age[c]} \/ (age[c] < MaxAge /\ age'[c] = age[c] + 1)
    BY DEF Tick
  <2>. QED BY <2>1, <2>2, Bounds
<1>2. ASSUME NEW c \in Conns
      PROVE  Sooner(wakeup_left)[c] \in Off..MaxPause /\ Sooner(linger_left)[c] \in Off..LingerTime
  <2>1. wakeup_left[c] # 0 /\ linger_left[c] # 0
    BY DEF Tick, NothingDue, DueWakeups, DueLingers
  <2>2. wakeup_left[c] \in Off..MaxPause /\ linger_left[c] \in Off..LingerTime
    BY DEF Limits
  <2>. QED BY <2>1, <2>2, ThttpdAssumption DEF Sooner, Off
<1>3. age' \in [Conns -> 0..MaxAge]
  BY <1>1 DEF Tick
<1>4. wakeup_left' \in [Conns -> Off..MaxPause] /\ linger_left' \in [Conns -> Off..LingerTime]
  BY <1>2 DEF Tick, Sooner
<1>. QED BY <1>3, <1>4 DEF Limits

LEMMA LimitsStep ==
    ASSUME IInv, Limits, [Next]_vars
    PROVE  Limits'
<1>1. CASE UNCHANGED <<age, lefts>>
  BY <1>1 DEF lefts, Limits
<1>2. CASE TimesOut \/ Ends \/ AcceptsNone \/ NoMore \/ Served
  BY <1>1, <1>2 DEF TimesOut, Ends, AcceptsNone, NoMore, Served, connects
<1>3. CASE RunIdle \/ TimersDone \/ CheckUsr1 \/ Reports \/ handle_usr1
  BY <1>1, <1>3 DEF RunIdle, TimersDone, CheckUsr1, Reports, handle_usr1, connects
<1>4. CASE Accepts
  <2>1. age' = [age EXCEPT ![Head(free_connects)] = 0] /\ UNCHANGED lefts
    BY <1>4 DEF Accepts, Touch
  <2>. QED BY <2>1, Bounds DEF Limits, lefts
<1>5. CASE Serve
  <2>1. PICK fd \in ready :
            LET c == fd_data[fd] IN
            \/ c = Nobody /\ Again
            \/ c # Nobody /\ Trouble(c)
            \/ c # Nobody /\ conn_state[c] = "READING" /\ handle_read(c)
            \/ c # Nobody /\ conn_state[c] = "SENDING" /\ handle_send(c)
            \/ c # Nobody /\ conn_state[c] = "LINGERING" /\ handle_linger(c)
    BY <1>5 DEF Serve
  <2>2. CASE fd_data[fd] = Nobody
    BY <2>1, <2>2, <1>1 DEF Again, connects
  <2>3. CASE fd_data[fd] # Nobody
    <3>1. fd_data[fd] \in Conns
      BY <2>3 DEF IInv, CoreInv, Shape, Loop
    <3>. QED BY <2>1, <2>3, <3>1, HandlingLimits
  <2>. QED BY <2>2, <2>3
<1>6. ASSUME NEW c \in Conns, RunWakeup(c) PROVE Limits'
  BY <1>6, Bounds DEF RunWakeup, Limits
<1>7. ASSUME NEW c \in Conns, RunLinger(c) PROVE Limits'
  BY <1>7, EndLimits DEF RunLinger, Limits
<1>8. CASE IdleSlot
  <2>1. CASE TimedOut(cnum)
    <3>1. cnum \in Conns
      BY <1>8, ThttpdAssumption DEF IdleSlot, IInv, Loop, Conns
    <3>. QED BY <1>8, <2>1, <3>1, EndLimits DEF IdleSlot, Cleared, Limits
  <2>2. CASE ~TimedOut(cnum)
    BY <1>8, <2>2, <1>1 DEF IdleSlot
  <2>. QED BY <2>1, <2>2
<1>9. CASE IdleDone
  BY <1>9, <1>1 DEF IdleDone
<1>10. CASE Tick
  BY <1>10, TickLimits DEF IInv, CoreInv
<1>11. CASE UNCHANGED vars
  BY <1>11, <1>1 DEF vars, connects
<1>. QED BY <1>2, <1>3, <1>4, <1>5, <1>6, <1>7, <1>8, <1>9, <1>10, <1>11 DEF Next, Server

\* The flag for a timer that is cancelled twice is one.
LEMMA FlagStep ==
    ASSUME corrupt \in BOOLEAN, [Next]_vars
    PROVE  corrupt' \in BOOLEAN
<1>1. \A c, lingers, ts, sending : clear_connection(c, lingers, ts, sending) => corrupt' \in BOOLEAN
  BY Zenon DEF clear_connection
<1>2. CASE UNCHANGED corrupt
  BY <1>2
<1>3. CASE TimesOut \/ Ends \/ AcceptsNone \/ NoMore \/ Served
  BY <1>2, <1>3 DEF TimesOut, Ends, AcceptsNone, NoMore, Served
<1>4. CASE RunIdle \/ TimersDone \/ CheckUsr1 \/ Reports \/ handle_usr1 \/ Tick \/ Accepts
  BY <1>2, <1>4 DEF RunIdle, TimersDone, CheckUsr1, Reports, handle_usr1, Tick, Accepts
<1>5. CASE Serve
  <2>1. PICK fd \in ready :
            \/ Again \/ Trouble(fd_data[fd]) \/ handle_read(fd_data[fd])
            \/ handle_send(fd_data[fd]) \/ handle_linger(fd_data[fd])
    BY <1>5 DEF Serve
  <2>2. CASE Again
    BY <1>2, <2>2 DEF Again
  <2>3. CASE handle_linger(fd_data[fd])
    BY <1>2, <2>2, <2>3, Zenon DEF handle_linger
  <2>4. CASE handle_read(fd_data[fd])
    BY <1>1, <1>2, <2>2, <2>4 DEF handle_read, ReadEnds, ReadsOn, Answers, StartsSending
  <2>5. CASE Trouble(fd_data[fd]) \/ handle_send(fd_data[fd])
    BY <1>1, <1>2, <2>2, <2>5
    DEF Trouble, handle_send, WouldBlock, WriteFails, Sends, Pauses, Cleared
  <2>. QED BY <2>1, <2>2, <2>3, <2>4, <2>5
<1>6. ASSUME NEW c \in Conns, RunWakeup(c) \/ RunLinger(c) PROVE corrupt' \in BOOLEAN
  BY <1>2, <1>6 DEF RunWakeup, RunLinger
<1>7. CASE IdleSlot
  BY <1>1, <1>2, <1>7 DEF IdleSlot, Cleared
<1>8. CASE IdleDone
  BY <1>2, <1>8 DEF IdleDone
<1>9. CASE UNCHANGED vars
  BY <1>2, <1>9 DEF vars
<1>. QED BY <1>3, <1>4, <1>5, <1>6, <1>7, <1>8, <1>9 DEF Next, Server

LEMMA PlacesStep ==
    ASSUME IInv, Places, [Next]_vars
    PROVE  Places'
<1>. USE DEF Places
<1>1. CASE TimesOut \/ Ends \/ Served \/ TimersDone
  BY <1>1 DEF TimesOut, Ends, Served, TimersDone, found, scan, signals
<1>2. CASE handle_usr1
  BY <1>2 DEF handle_usr1, found, scan
<1>3. CASE CheckUsr1
  BY <1>3 DEF CheckUsr1, found, scan
<1>4. CASE AcceptsNone
  BY <1>4 DEF AcceptsNone, ReturnsZero, scan, signals
<1>5. CASE Accepts \/ NoMore
  BY <1>5 DEF Accepts, NoMore, scan, signals
<1>6. CASE Reports
  BY <1>6 DEF Reports, scan, signals
<1>7. CASE Serve
  BY <1>7 DEF Serve, scan, signals
<1>8. ASSUME NEW c \in Conns, RunWakeup(c) \/ RunLinger(c) PROVE Places'
  BY <1>8 DEF RunWakeup, RunLinger, found, scan, signals
<1>9. CASE RunIdle
  <2>1. 1 <= MaxConnects + 1
    BY ThttpdAssumption
  <2>. QED BY <1>9, <2>1 DEF RunIdle, found, signals
<1>10. CASE IdleSlot
  <2>1. cnum' <= MaxConnects + 1
    BY <1>10, ThttpdAssumption DEF IdleSlot, IInv, Loop
  <2>. QED BY <1>10, <2>1 DEF IdleSlot, found, signals
<1>11. CASE IdleDone
  <2>1. 1 <= MaxConnects + 1 /\ IdleEvery \in 0..IdleEvery
    BY ThttpdAssumption
  <2>. QED BY <1>11, <2>1 DEF IdleDone, found, signals
<1>12. CASE Tick
  <2>1. idle_left' \in 0..IdleEvery
    BY <1>12, ThttpdAssumption DEF Tick, NothingDue
  <2>. QED BY <1>12, <2>1 DEF Tick, found, scan, signals
<1>13. CASE UNCHANGED vars
  BY <1>13 DEF vars, found, scan, signals
<1>. QED BY <1>1, <1>2, <1>3, <1>4, <1>5, <1>6, <1>7, <1>8, <1>9, <1>10, <1>11, <1>12, <1>13
     DEF Next, Server

\* No count of connects or of a throttle leaves 0..max_connects, no timer is
\* set beyond its period, and the main loop is at one of its places.
THEOREM TypesKept == ~Collisions => (Spec => []TypeOK)
<1>. SUFFICES ASSUME ~Collisions PROVE Spec => []TypeOK
  OBVIOUS
<1>. DEFINE Flag == corrupt \in BOOLEAN
<1>1. Init => Limits /\ Places /\ Flag
  <2>. SUFFICES ASSUME Init PROVE Limits /\ Places /\ Flag
    OBVIOUS
  <2>1. Limits
    BY Bounds DEF Init, Limits
  <2>2. 1 <= MaxConnects + 1 /\ IdleEvery \in 0..IdleEvery
    BY ThttpdAssumption
  <2>3. Places
    <3>1. cnum <= MaxConnects + 1 /\ idle_left \in 0..IdleEvery
      BY <2>2 DEF Init
    <3>. QED BY <3>1, Zenon DEF Init, Places
  <2>4. Flag
    BY DEF Init
  <2>. QED BY <2>1, <2>3, <2>4
<1>2. IInv /\ Limits /\ Places /\ Flag /\ [Next]_vars => Limits' /\ Places' /\ Flag'
  BY LimitsStep, PlacesStep, FlagStep
<1>3. IInv /\ Limits /\ Places /\ Flag => TypeOK
  <2>. SUFFICES ASSUME IInv, Limits, Places, Flag PROVE TypeOK
    OBVIOUS
  <2>1. num_connects \in 0..MaxConnects
    <3>1. Open \in SUBSET Conns /\ 1 \in Conns
      BY ThttpdAssumption DEF Open, Conns
    <3>. QED BY <3>1, ConnSets DEF IInv, CoreInv, FreeListSound
  <2>2. num_sending \in [Throttles -> 0..MaxConnects]
    <3>1. ASSUME NEW t \in Throttles PROVE num_sending[t] \in 0..MaxConnects
      <4>1. {c \in Open : t \in tnums[c]} \in SUBSET Conns /\ 1 \in Conns
        BY ThttpdAssumption DEF Open, Conns
      <4>. QED BY <4>1, ConnSets DEF IInv, CoreInv, ThrottlesExact
    <3>. QED BY <3>1 DEF IInv, CoreInv, Shape
  <2>3. cnum \in 1..(MaxConnects + 1)
    BY ThttpdAssumption DEF IInv, Loop, Places
  <2>4. ready \subseteq Fds /\ next \in Conns \cup {Nobody} /\ freed \in Seq(Conns)
    BY DEF IInv, Loop
  <2>. QED BY <2>1, <2>2, <2>3, <2>4, Zenon DEF IInv, CoreInv, Shape, Limits, Places, TypeOK
<1>. QED BY <1>1, <1>2, <1>3, Inductive, PTL DEF Spec

=============================================================================
