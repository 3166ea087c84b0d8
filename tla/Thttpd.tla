------------------------------- MODULE Thttpd -------------------------------
(***************************************************************************)
(* thttpd's connection engine (thttpd.c, with timers.c, fdwatch.c and what *)
(* it needs of libhttpd.c).  One thread waits in fdwatch(), accepts        *)
(* connections into a table of slots, serves the ones that are ready and   *)
(* runs timers; a timer may close a connection between the moment it was   *)
(* reported ready and the moment it is served, and its file descriptor may *)
(* be another connection's by then.                                        *)
(*                                                                         *)
(* A handler is one step, idle() one per slot it looks at.  Time is kept   *)
(* relative: left[t] is how long until a timer is due, age[c] how long ago *)
(* c->active_at was.  It passes while the server waits.                    *)
(***************************************************************************)
EXTENDS Integers, Sequences, FiniteSets

CONSTANTS
    MaxConnects,        \* max_connects
    NumThrottles, MaxThrottleNums,
    Listeners,          \* the listening sockets, in the order they are tried
    IdleEvery,          \* period of the idle timer
    LingerTime, IdleReadTimeLimit, IdleSendTimeLimit,
    MaxPause,           \* bound: the longest delay of a wakeup timer
    Collisions          \* may a wakeup timer follow the idle timer in its hash bucket?

ASSUME ThttpdAssumption ==
    /\ MaxConnects \in Nat \ {0}
    /\ NumThrottles \in Nat /\ MaxThrottleNums \in Nat
    /\ Listeners \in Nat
    /\ IdleEvery \in Nat \ {0} /\ LingerTime \in Nat \ {0} /\ MaxPause \in Nat \ {0}
    /\ IdleReadTimeLimit \in Nat /\ IdleSendTimeLimit \in Nat
    /\ Collisions \in BOOLEAN

Conns == 1..MaxConnects
Throttles == 1..NumThrottles
Fds == 1..MaxConnects       \* accept() gives the lowest number not in use

\* The oldest age that is told from younger ones.
MaxAge == IF IdleReadTimeLimit > IdleSendTimeLimit THEN IdleReadTimeLimit ELSE IdleSendTimeLimit

VARIABLES
    conn_state, conn_fd, should_linger, tnums, age, wakeup_timer, linger_timer,
    free_connects,              \* first_free_connect and next_free_connect
    num_connects, num_sending,
    fd_rw, fd_data,             \* what fdwatch watches each descriptor for, and for whom
    idle_left, wakeup_left, linger_left,    \* time until a timer is due, or Off
    pc, after,                  \* where the main loop is, and where tmr_run() returns to
    ready, lready,              \* the descriptors and listeners reported and not yet seen to
    fresh,                      \* the first accept() on this listener is still to come
    cnum, next, freed,          \* idle()'s loop, tmr_run()'s next, the timers idle() freed
    corrupt,                    \* a timer has been cancelled twice
    got_usr1, terminate

connects == <<conn_state, conn_fd, should_linger, tnums, age>>
pointers == <<wakeup_timer, linger_timer>>
slots == <<free_connects, num_connects>>
fdwatch == <<fd_rw, fd_data>>
lefts == <<wakeup_left, linger_left>>
scan == <<cnum, next, freed>>
found == <<ready, lready, fresh>>
signals == <<got_usr1, terminate>>
vars == <<connects, pointers, slots, num_sending, fdwatch, idle_left, lefts, pc, after, found,
          scan, corrupt, signals>>

Off == -1
Nobody == 0

-----------------------------------------------------------------------------
(* fdwatch.c, for one descriptor: a bad call is logged and does nothing.    *)

fdwatch_add_fd(fd, c, rw, watch) ==
    IF watch.rw[fd] # "none" THEN watch
    ELSE [rw |-> [watch.rw EXCEPT ![fd] = rw], data |-> [watch.data EXCEPT ![fd] = c]]

fdwatch_del_fd(fd, watch) ==
    [rw |-> [watch.rw EXCEPT ![fd] = "none"], data |-> [watch.data EXCEPT ![fd] = Nobody]]

Watch == [rw |-> fd_rw, data |-> fd_data]
Watching(watch) == fd_rw' = watch.rw /\ fd_data' = watch.data

-----------------------------------------------------------------------------
Init ==
    /\ conn_state = [c \in Conns |-> "FREE"]
    /\ conn_fd = [c \in Conns |-> Nobody]
    /\ should_linger = [c \in Conns |-> FALSE]
    /\ tnums = [c \in Conns |-> {}]
    /\ age = [c \in Conns |-> 0]
    /\ wakeup_timer = [c \in Conns |-> FALSE]
    /\ linger_timer = [c \in Conns |-> FALSE]
    /\ free_connects = [c \in Conns |-> c]
    /\ num_connects = 0
    /\ num_sending = [t \in Throttles |-> 0]
    /\ fd_rw = [fd \in Fds |-> "none"]
    /\ fd_data = [fd \in Fds |-> Nobody]
    /\ idle_left = IdleEvery
    /\ wakeup_left = [c \in Conns |-> Off]
    /\ linger_left = [c \in Conns |-> Off]
    /\ pc = "watch" /\ after = "watch"
    /\ ready = {} /\ lready = {} /\ fresh = FALSE
    /\ cnum = 1 /\ next = Nobody /\ freed = <<>>
    /\ corrupt = FALSE
    /\ got_usr1 = FALSE /\ terminate = FALSE

-----------------------------------------------------------------------------
(* The ways a connection ends.                                              *)

\* Mutant: ++num_sending is missing.
JoinedNot(ts) == num_sending

\* Mutant: nothing is counted down.
clear_throttles_none(ts, sending) == sending

\* The throttle counts with a connection under the throttles ts, and without it.
Joined(ts) == [t \in Throttles |-> num_sending[t] + (IF t \in ts THEN 1 ELSE 0)]

clear_throttles(ts, sending) == [t \in Throttles |-> sending[t] - (IF t \in ts THEN 1 ELSE 0)]

\* Mutant: a lingering connection stays watched.
UnwatchedButLingering(c) ==
    IF conn_state[c] \in {"READING", "SENDING"} THEN fdwatch_del_fd(conn_fd[c], Watch) ELSE Watch

\* What fdwatch knows when c no longer sends or reads.
Unwatched(c) == IF conn_state[c] # "PAUSING" THEN fdwatch_del_fd(conn_fd[c], Watch) ELSE Watch

\* really_clear_connection(): the slot is free again.  ts are c->tnums by now
\* and sending the throttle counts; a linger timer still set is cancelled.
really_clear_connection(c, ts, sending) ==
    /\ Watching(Unwatched(c))
    /\ conn_fd' = [conn_fd EXCEPT ![c] = Nobody]
    /\ num_sending' = clear_throttles(ts, sending)
    /\ conn_state' = [conn_state EXCEPT ![c] = "FREE"]
    /\ free_connects' = <<c>> \o free_connects
    /\ num_connects' = num_connects - 1
    /\ linger_timer' = [linger_timer EXCEPT ![c] = FALSE]
    /\ linger_left' = [linger_left EXCEPT ![c] = Off]

\* The lingering close: stop sending, and read until the timer ends it.
LingeringClose(c, sending) ==
    /\ conn_state' = [conn_state EXCEPT ![c] = "LINGERING"]
    /\ Watching(fdwatch_add_fd(conn_fd[c], c, "read", Unwatched(c)))
    /\ linger_timer' = [linger_timer EXCEPT ![c] = TRUE]
    /\ linger_left' = [linger_left EXCEPT ![c] = LingerTime]
    /\ num_sending' = sending
    /\ UNCHANGED <<conn_fd, slots>>

\* Cancelling a timer that is not scheduled frees it twice.
CancelsTwice(c) == \/ wakeup_timer[c] /\ wakeup_left[c] = Off
                   \/ linger_timer[c] /\ linger_left[c] = Off

\* Mutant: the wakeup timer is not cancelled.
clear_connection_awake(c, lingers, ts, sending) ==
    /\ UNCHANGED <<wakeup_timer, wakeup_left>>
    /\ corrupt' = (corrupt \/ CancelsTwice(c))
    /\ tnums' = [tnums EXCEPT ![c] = ts]
    /\ should_linger' = [should_linger EXCEPT ![c] = lingers]
    /\ IF lingers /\ conn_state[c] # "LINGERING" THEN LingeringClose(c, sending)
       ELSE really_clear_connection(c, ts, sending)

\* clear_connection(), and finish_connection() once the response is written.
\* lingers is hc->should_linger by now.
clear_connection(c, lingers, ts, sending) ==
    /\ wakeup_timer' = [wakeup_timer EXCEPT ![c] = FALSE]
    /\ wakeup_left' = IF wakeup_timer[c] THEN [wakeup_left EXCEPT ![c] = Off] ELSE wakeup_left
    /\ corrupt' = (corrupt \/ CancelsTwice(c))
    /\ tnums' = [tnums EXCEPT ![c] = ts]
    /\ IF lingers /\ conn_state[c] # "LINGERING"
       THEN /\ should_linger' = [should_linger EXCEPT ![c] = TRUE]
            /\ LingeringClose(c, sending)
       ELSE /\ should_linger' = [should_linger EXCEPT ![c] = FALSE]
            /\ really_clear_connection(c, ts, sending)

\* It is cleared as it stands.
Cleared(c) == clear_connection(c, should_linger[c], tnums[c], num_sending)

Touch(c) == age' = [age EXCEPT ![c] = 0]

-----------------------------------------------------------------------------
(* The main loop waits.                                                     *)

\* Timers that are due.
DueWakeups == {c \in Conns : wakeup_left[c] = 0}
DueLingers == {c \in Conns : linger_left[c] = 0}
NothingDue == idle_left # 0 /\ DueWakeups = {} /\ DueLingers = {}

Waits == pc = "watch" /\ (~terminate \/ num_connects > 0)

Watched == {fd \in Fds : fd_rw[fd] # "none"}

\* fdwatch() reports some descriptors.
Reports ==
    /\ Waits
    /\ \E r \in SUBSET Watched, l \in SUBSET (IF terminate THEN {} ELSE 1..Listeners) :
        /\ r \cup l # {}
        /\ ready' = r /\ lready' = l
        /\ fresh' = (l # {})
        /\ pc' = IF l = {} THEN "serve" ELSE "accept"
    /\ UNCHANGED <<connects, pointers, slots, num_sending, fdwatch, idle_left, lefts, after, scan,
                   corrupt, signals>>

\* fdwatch() times out: the timers are run and the loop goes round at once.
TimesOut ==
    /\ Waits /\ ~NothingDue
    /\ pc' = "timers" /\ after' = "watch"
    /\ UNCHANGED <<connects, pointers, slots, num_sending, fdwatch, idle_left, lefts, found, scan,
                   corrupt, signals>>

\* Time passes in fdwatch(), which does not sleep past the first timer.
Sooner(left) == [c \in Conns |-> IF left[c] = Off THEN Off ELSE left[c] - 1]

Tick ==
    /\ Waits /\ NothingDue
    /\ idle_left' = idle_left - 1
    /\ wakeup_left' = Sooner(wakeup_left) /\ linger_left' = Sooner(linger_left)
    /\ age' = [c \in Conns |-> CASE conn_state[c] = "FREE" -> 0
                                 [] conn_state[c] # "FREE" /\ age[c] < MaxAge -> age[c] + 1
                                 [] OTHER -> age[c]]
    /\ UNCHANGED <<conn_state, conn_fd, should_linger, tnums, pointers, slots, num_sending, fdwatch,
                   pc, after, found, scan, corrupt, signals>>

\* The loop ends and main() shuts down.
Ends ==
    /\ pc = "watch" /\ ~Waits
    /\ pc' = "exit"
    /\ UNCHANGED <<connects, pointers, slots, num_sending, fdwatch, idle_left, lefts, after, found,
                   scan, corrupt, signals>>

-----------------------------------------------------------------------------
(* handle_newconnect(), for the first listener reported.                    *)

TheListener == CHOOSE l \in lready : \A m \in lready : l <= m

\* It returns 0: the next listener, then the connections.
ReturnsZero ==
    LET others == lready \ {TheListener} IN
    /\ lready' = others
    /\ fresh' = (others # {})
    /\ pc' = "timers"
    /\ after' = IF others = {} THEN "serve" ELSE "accept"

\* No room in the table, or accept() fails: run the timers first.
AcceptsNone ==
    /\ pc = "accept"
    /\ ReturnsZero
    /\ UNCHANGED <<connects, pointers, slots, num_sending, fdwatch, idle_left, lefts, ready, scan,
                   corrupt, signals>>

\* The descriptor accept() gives: the lowest not in use.
NewFd == CHOOSE fd \in Fds :
    /\ \A c \in Conns : conn_fd[c] # fd
    /\ \A lower \in 1..(fd - 1) : \E c \in Conns : conn_fd[c] = lower

\* A connection takes the first free slot.
Accepts ==
    /\ pc = "accept"
    /\ num_connects < MaxConnects
    /\ LET c == Head(free_connects) IN
        /\ conn_state[c] = "FREE"
        /\ conn_state' = [conn_state EXCEPT ![c] = "READING"]
        /\ free_connects' = Tail(free_connects)
        /\ num_connects' = num_connects + 1
        /\ Touch(c)
        /\ wakeup_timer' = [wakeup_timer EXCEPT ![c] = FALSE]
        /\ linger_timer' = [linger_timer EXCEPT ![c] = FALSE]
        /\ should_linger' = [should_linger EXCEPT ![c] = FALSE]
        /\ tnums' = [tnums EXCEPT ![c] = {}]
        /\ conn_fd' = [conn_fd EXCEPT ![c] = NewFd]
        /\ Watching(fdwatch_add_fd(NewFd, c, "read", Watch))
    /\ fresh' = FALSE
    /\ UNCHANGED <<num_sending, idle_left, lefts, pc, after, ready, lready, scan, corrupt, signals>>

\* Nobody is left to accept: the loop goes round, past the timers.  A listener
\* that was reported has somebody at first.
NoMore ==
    /\ pc = "accept" /\ ~fresh
    /\ num_connects < MaxConnects
    /\ ready' = {} /\ lready' = {}
    /\ pc' = "watch"
    /\ UNCHANGED <<connects, pointers, slots, num_sending, fdwatch, idle_left, lefts, after, fresh,
                   scan, corrupt, signals>>

-----------------------------------------------------------------------------
(* The connections that are ready.                                          *)

\* The connection is left as it is: EINTR, EAGAIN.
Again == UNCHANGED <<connects, pointers, slots, num_sending, fdwatch, lefts, corrupt>>

\* check_throttles(): the throttles that match, up to the first that refuses.
check_throttles == {ts \in SUBSET Throttles : Cardinality(ts) <= MaxThrottleNums}

\* The buffer is full, the client has hung up or read() fails.
ReadEnds(c) == clear_connection(c, FALSE, {}, num_sending) /\ UNCHANGED age

\* Bytes were read, but no whole request.
ReadsOn(c) ==
    /\ Touch(c)
    /\ UNCHANGED <<conn_state, conn_fd, should_linger, tnums, pointers, slots, num_sending, fdwatch,
                   lefts, corrupt>>

\* A request that ends the connection at once: it is bad, a throttle refuses
\* it, it fails, a child handles it or there is nothing to send.
Answers(c) ==
    /\ Touch(c)
    /\ \E ts \in check_throttles, lingers \in BOOLEAN : clear_connection(c, lingers, ts, Joined(ts))

\* A file is to be sent.
StartsSending(c) ==
    /\ Touch(c)
    /\ conn_state' = [conn_state EXCEPT ![c] = "SENDING"]
    /\ \E ts \in check_throttles :
        /\ tnums' = [tnums EXCEPT ![c] = ts]
        /\ num_sending' = Joined(ts)
    /\ \E lingers \in BOOLEAN : should_linger' = [should_linger EXCEPT ![c] = lingers]
    /\ Watching(fdwatch_add_fd(conn_fd[c], c, "write", fdwatch_del_fd(conn_fd[c], Watch)))
    /\ UNCHANGED <<conn_fd, pointers, slots, lefts, corrupt>>

handle_read(c) == Again \/ ReadEnds(c) \/ ReadsOn(c) \/ Answers(c) \/ StartsSending(c)

\* The connection waits for a wakeup timer.
Pauses(c) ==
    /\ conn_state' = [conn_state EXCEPT ![c] = "PAUSING"]
    /\ Watching(fdwatch_del_fd(conn_fd[c], Watch))
    /\ wakeup_timer' = [wakeup_timer EXCEPT ![c] = TRUE]
    /\ \E d \in 1..MaxPause : wakeup_left' = [wakeup_left EXCEPT ![c] = d]
    /\ UNCHANGED <<conn_fd, should_linger, tnums, linger_timer, linger_left, slots, num_sending,
                   corrupt>>

\* The write would block, or the throttle allows no byte.
WouldBlock(c) == Pauses(c) /\ UNCHANGED age

WriteFails(c) == Cleared(c) /\ UNCHANGED age

\* Something was sent: all of it, more than the throttle allows, or neither.
Sends(c) ==
    /\ Touch(c)
    /\ \/ Cleared(c)
       \/ tnums[c] # {} /\ Pauses(c)
       \/ UNCHANGED <<conn_state, conn_fd, should_linger, tnums, pointers, slots, num_sending,
                      fdwatch, lefts, corrupt>>

handle_send(c) == Again \/ WouldBlock(c) \/ WriteFails(c) \/ Sends(c)

\* Bytes are read and ignored; the end of them ends the connection.
handle_linger(c) ==
    \/ Again
    \/ /\ really_clear_connection(c, tnums[c], num_sending)
       /\ corrupt' = (corrupt \/ (linger_timer[c] /\ linger_left[c] = Off))
       /\ UNCHANGED <<should_linger, tnums, age, wakeup_timer, wakeup_left>>

\* A descriptor that is not ready for what it is watched for is in trouble.
Trouble(c) == Cleared(c) /\ UNCHANGED age

\* The loop over the ready descriptors.  One whose connection was closed in the
\* meantime is passed over; one that is another's by now is served as his.
Serve ==
    /\ pc = "serve"
    /\ \E fd \in ready :
        /\ ready' = ready \ {fd}
        /\ LET c == fd_data[fd] IN
            \/ c = Nobody /\ Again
            \/ c # Nobody /\ Trouble(c)
            \/ c # Nobody /\ conn_state[c] = "READING" /\ handle_read(c)
            \/ c # Nobody /\ conn_state[c] = "SENDING" /\ handle_send(c)
            \/ c # Nobody /\ conn_state[c] = "LINGERING" /\ handle_linger(c)
    /\ UNCHANGED <<idle_left, pc, after, lready, fresh, scan, signals>>

Served ==
    /\ pc = "serve" /\ ready = {}
    /\ pc' = "timers" /\ after' = "usr1"
    /\ UNCHANGED <<connects, pointers, slots, num_sending, fdwatch, idle_left, lefts, found, scan,
                   corrupt, signals>>

-----------------------------------------------------------------------------
(* tmr_run().                                                               *)

\* Mutant: the pointer to the timer is kept.
wakeup_connection_dangling(c) ==
    /\ conn_state' = [conn_state EXCEPT ![c] = "SENDING"]
    /\ Watching(fdwatch_add_fd(conn_fd[c], c, "write", Watch))
    /\ UNCHANGED wakeup_timer

wakeup_connection(c) ==
    /\ wakeup_timer' = [wakeup_timer EXCEPT ![c] = FALSE]
    /\ IF conn_state[c] = "PAUSING"
       THEN /\ conn_state' = [conn_state EXCEPT ![c] = "SENDING"]
            /\ Watching(fdwatch_add_fd(conn_fd[c], c, "write", Watch))
       ELSE UNCHANGED <<conn_state, fdwatch>>

\* A wakeup timer runs and is cancelled.
RunWakeup(c) ==
    /\ pc = "timers" /\ c \in DueWakeups
    /\ wakeup_connection(c)
    /\ wakeup_left' = [wakeup_left EXCEPT ![c] = Off]
    /\ UNCHANGED <<conn_fd, should_linger, tnums, age, linger_timer, linger_left, slots, num_sending,
                   idle_left, pc, after, found, scan, corrupt, signals>>

\* linger_clear_connection(), and the timer is cancelled.
RunLinger(c) ==
    /\ pc = "timers" /\ c \in DueLingers
    /\ really_clear_connection(c, tnums[c], num_sending)
    /\ UNCHANGED <<should_linger, tnums, age, wakeup_timer, wakeup_left, idle_left, pc, after, found,
                   scan, corrupt, signals>>

\* idle() starts.  tmr_run() has taken the next timer of the bucket already: a
\* wakeup timer that is due too, when it hashes to that bucket.
RunIdle ==
    /\ pc = "timers" /\ idle_left = 0
    /\ pc' = "idle" /\ cnum' = 1 /\ freed' = <<>>
    /\ next' \in {Nobody} \cup (IF Collisions THEN DueWakeups ELSE {})
    /\ UNCHANGED <<connects, pointers, slots, num_sending, fdwatch, idle_left, lefts, after, found,
                   corrupt, signals>>

\* Mutant: the state of the slot does not matter.
TimedOutAnyState(c) == age[c] >= IdleReadTimeLimit

\* Mutant: paused connections are not looked at.
TimedOutUnpaused(c) ==
    \/ conn_state[c] = "READING" /\ age[c] >= IdleReadTimeLimit
    \/ conn_state[c] = "SENDING" /\ age[c] >= IdleSendTimeLimit

\* Has the client been silent for too long?
TimedOut(c) ==
    \/ conn_state[c] = "READING" /\ age[c] >= IdleReadTimeLimit
    \/ conn_state[c] \in {"SENDING", "PAUSING"} /\ age[c] >= IdleSendTimeLimit

\* free_timers after c is cleared: its wakeup timer is put on it, and a linger
\* timer is made of the first.
Freed(c) ==
    LET f == IF wakeup_timer[c] THEN <<c>> \o freed ELSE freed IN
    IF should_linger[c] /\ f # <<>> THEN Tail(f) ELSE f

\* idle() looks at one slot.
IdleSlot ==
    /\ pc = "idle" /\ cnum <= MaxConnects
    /\ cnum' = cnum + 1
    /\ IF TimedOut(cnum)
       THEN Cleared(cnum) /\ freed' = Freed(cnum)
       ELSE UNCHANGED <<conn_state, conn_fd, should_linger, tnums, pointers, slots, num_sending,
                        fdwatch, lefts, corrupt, freed>>
    /\ UNCHANGED <<age, idle_left, pc, after, found, next, signals>>

\* idle() is done and its timer rescheduled.  If the next timer of the bucket
\* was freed meanwhile, it is run, and cancelled, all the same.
IdleDone ==
    /\ pc = "idle" /\ cnum > MaxConnects
    /\ idle_left' = IdleEvery
    /\ pc' = "timers"
    /\ cnum' = 1 /\ next' = Nobody /\ freed' = <<>>
    /\ IF \E i \in DOMAIN freed : freed[i] = next
       THEN corrupt' = TRUE /\ wakeup_connection(next)
       ELSE UNCHANGED <<corrupt, wakeup_timer, conn_state, fdwatch>>
    /\ UNCHANGED <<conn_fd, should_linger, tnums, age, linger_timer, slots, num_sending, lefts, after,
                   found, signals>>

TimersDone ==
    /\ pc = "timers" /\ NothingDue
    /\ pc' = after /\ after' = "watch"
    /\ UNCHANGED <<connects, pointers, slots, num_sending, fdwatch, idle_left, lefts, found, scan,
                   corrupt, signals>>

-----------------------------------------------------------------------------
(* SIGUSR1.                                                                 *)

\* The handler exits when there is no connection, else leaves a flag.
handle_usr1 ==
    /\ pc # "exit" /\ ~got_usr1
    /\ got_usr1' = TRUE
    /\ pc' = IF num_connects = 0 THEN "exit" ELSE pc
    /\ UNCHANGED <<connects, pointers, slots, num_sending, fdwatch, idle_left, lefts, after, found,
                   scan, corrupt, terminate>>

\* The flag is looked at, at the end of the loop's body.
CheckUsr1 ==
    /\ pc = "usr1"
    /\ terminate' = (terminate \/ got_usr1)
    /\ pc' = "watch"
    /\ UNCHANGED <<connects, pointers, slots, num_sending, fdwatch, idle_left, lefts, after, found,
                   scan, corrupt, got_usr1>>

-----------------------------------------------------------------------------
\* What the server does once it is awake.
Server ==
    \/ TimesOut \/ Ends
    \/ AcceptsNone \/ Accepts \/ NoMore
    \/ Serve \/ Served
    \/ \E c \in Conns : RunWakeup(c) \/ RunLinger(c)
    \/ RunIdle \/ IdleSlot \/ IdleDone \/ TimersDone
    \/ CheckUsr1

Next == Server \/ Reports \/ Tick \/ handle_usr1

Spec == Init /\ [][Next]_vars

\* The process is scheduled, and time does not stand still.
FairSpec == Spec /\ WF_vars(Server) /\ SF_vars(Tick)

-----------------------------------------------------------------------------
TypeOK ==
    /\ conn_state \in [Conns -> {"FREE", "READING", "SENDING", "PAUSING", "LINGERING"}]
    /\ conn_fd \in [Conns -> Fds \cup {Nobody}]
    /\ should_linger \in [Conns -> BOOLEAN]
    /\ tnums \in [Conns -> SUBSET Throttles]
    /\ age \in [Conns -> 0..MaxAge]
    /\ wakeup_timer \in [Conns -> BOOLEAN] /\ linger_timer \in [Conns -> BOOLEAN]
    /\ free_connects \in Seq(Conns)
    /\ num_connects \in 0..MaxConnects
    /\ num_sending \in [Throttles -> 0..MaxConnects]
    /\ fd_rw \in [Fds -> {"none", "read", "write"}]
    /\ fd_data \in [Fds -> Conns \cup {Nobody}]
    /\ idle_left \in 0..IdleEvery
    /\ wakeup_left \in [Conns -> Off..MaxPause] /\ linger_left \in [Conns -> Off..LingerTime]
    /\ pc \in {"watch", "accept", "serve", "timers", "idle", "usr1", "exit"}
    /\ after \in {"watch", "accept", "serve", "usr1"}
    /\ ready \subseteq Fds /\ lready \subseteq 1..Listeners
    /\ fresh \in BOOLEAN
    /\ cnum \in 1..(MaxConnects + 1) /\ next \in Conns \cup {Nobody} /\ freed \in Seq(Conns)
    /\ corrupt \in BOOLEAN
    /\ got_usr1 \in BOOLEAN /\ terminate \in BOOLEAN

Open == {c \in Conns : conn_state[c] # "FREE"}

\* The timer pointers tell the truth and match the states: a connection pauses
\* exactly while a wakeup timer is scheduled for it and lingers exactly while a
\* linger timer is.  Otherwise a timer outlives its connection and wakes or
\* closes the one that has its slot by then, or a connection waits for a timer
\* that will never come.
TimersMatch ==
    \A c \in Conns :
        /\ (conn_state[c] = "PAUSING") = wakeup_timer[c] /\ wakeup_timer[c] = (wakeup_left[c] # Off)
        /\ (conn_state[c] = "LINGERING") = linger_timer[c] /\ linger_timer[c] = (linger_left[c] # Off)

\* fdwatch never sees a bad descriptor: each open connection has one of its own,
\* watched for it and for what its state waits for, and no other is watched.
WatchMatches ==
    /\ \A c \in Open :
        /\ conn_fd[c] # Nobody /\ \A d \in Conns \ {c} : conn_fd[d] # conn_fd[c]
        /\ fd_rw[conn_fd[c]] = CASE conn_state[c] \in {"READING", "LINGERING"} -> "read"
                                 [] conn_state[c] = "SENDING" -> "write"
                                 [] OTHER -> "none"
        /\ fd_data[conn_fd[c]] = IF conn_state[c] = "PAUSING" THEN Nobody ELSE c
    /\ \A fd \in Watched : \E c \in Open : conn_fd[c] = fd

\* A throttle counts exactly the open connections under it: the count is not
\* zero for any of them, by which update_throttles() divides.
ThrottlesExact ==
    \A t \in Throttles : num_sending[t] = Cardinality({c \in Open : t \in tnums[c]})

\* The free list holds every free slot once and num_connects the others: "the
\* connects free list is messed up" never happens.
FreeListSound ==
    /\ num_connects = Cardinality(Open)
    /\ Len(free_connects) = MaxConnects - num_connects
    /\ {free_connects[i] : i \in DOMAIN free_connects} = Conns \ Open

\* No timer is cancelled, and so put on the free list, twice.
TimersFreedOnce == ~corrupt

\* A slot comes free again and again unless its client makes progress again and
\* again: neither a silent client, a pause nor a lingering close holds one.
SlotsComeBack ==
    \A c \in Conns : []<>(conn_state[c] = "FREE") \/ []<><<age'[c] < age[c]>>_vars

-----------------------------------------------------------------------------
(* What the manual says, and the code does not do.                          *)

\* thttpd.8: SIGUSR1 "tells thttpd to shut down as soon as it's done servicing
\* all current requests."
UsrOneEnds == (got_usr1 /\ num_connects = 0) ~> (pc = "exit" \/ num_connects > 0)
=============================================================================
