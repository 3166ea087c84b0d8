# A verification of programs in the LiteBSD ports tree

LiteBSD-Ports is a tree of about a hundred programs that are built and packaged
for LiteBSD. The tree itself is Makefiles; the logic is in the programs. This
project models the ones whose correctness depends on several parties, on failures
and on the order of events, and that are small enough to be modelled whole:

* two file transfers over an unreliable serial line, **E-Kermit** and **ZMODEM**;
* the web server **thttpd**: its connection engine with its timers, and its cache
  of mapped files;
* **GNU make's job server**, which shares tokens among processes.

All paths are relative to the repository; modules are in this directory.
`PROJECT.json` maps every definition to the lines it models and lists hazards,
findings, runs, mutants and theorems.

## 1. Inventory

| component | state it keeps | operations | interaction | hard behaviour |
|---|---|---|---|---|
| **E-Kermit engine** `comms/ekermit/kermit.c` | `struct k_data`: protocol state, `s_seq`/`r_seq`, last packet `opktbuf`, receive slots with retry counters, output buffer, cancellation code | `kermit(K_INIT, K_SEND, K_RUN, K_ERROR)`; inside it `spkt`, `ack`, `nak`, `resend`, `sdata`, `decode` | called for every packet; calls back `txd`, `openf`, `writef`, `closef` | damaged, lost, duplicated packets; wrap of sequence numbers; slots and retry counters; failing callbacks; cancellation between any two packets |
| **E-Kermit control program and i/o** `main.c`, `unixio.c` | the loop's status, open files | read a packet, call `kermit()`, exit | serial line, file system | reads that fail or are cut short; what happens to the peer when a side exits |
| **ZMODEM** `comms/zmtx-zmrx` | zmtx: file and position; zmrx: open file, its date, the directory | contact, offer, stream, ZRPOS/ZNAK recovery, ZEOF, ZFIN, cleanup | serial line; files that outlive the session | stale answers, hasty timers, CRC errors inside a frame, a session that is aborted and resumed |
| **thttpd connection engine** `www/thttpd/thttpd.c`, `timers.c`, `fdwatch.c` | connection table and free list, timers, watched descriptors, throttles | `handle_newconnect/read/send/linger`, `idle`, `wakeup_connection`, `linger_clear_connection`, `tmr_run` | one event loop over sockets | timers that cancel one another, descriptors reused while events for them are pending, many ways to close a connection |
| **thttpd map cache** `www/thttpd/mmc.c` | maps with reference counts, a hash table, a free list, counters | `mmc_map`, `mmc_unmap`, `mmc_cleanup`, `mmc_term`, `panic` | called by connections and a timer | broken hash chains, rehashing, failing `mmap`, expiry of maps in use |
| **GNU make job control** `devel/gmake/job.c`, `main.c`, `remake.c`, `commands.c` | children, waiting jobs, tokens held, a duplicated descriptor | `new_job`, `start_waiting_jobs`, `reap_children`, `free_child`, `die` | a pipe shared by all makes; SIGCHLD, SIGTERM | a signal between the check and the read, tokens lost or returned twice, failure that must reach the top |
| **G-Kermit** `comms/gkermit` | generated state table | as E-Kermit | serial line | as E-Kermit |

`PROJECT.json` lists the remaining parts of the tree (archivers, compilers,
editors, games, interpreters, clients, terminal programs) and says for each why
it is not modelled.

What makes the parts correct:

* a transfer never loses, repeats or misplaces data; a side that reports success is
  right; what was interrupted can be resumed; nobody waits forever;
* every slot, timer, descriptor, throttle count, map and token has exactly one
  owner, on every one of the many paths on which it is given back;
* an address a connection sends from stays mapped;
* no more than `-j` commands run, a build ends, and its status is the truth.

## 2. Plan

Done: E-Kermit, ZMODEM, thttpd's cache and connection engine, the job server; an
abstract file transfer that E-Kermit implements; proofs about all of them.

Proved of all of them: every safety property the passing runs check (section 7).

Left, in this order:

1. proofs under weaker hypotheses: E-Kermit's `InOrder` and `InStep` when `txd()` fails
   too, which the run `write` checks, and ZMODEM's `Integrity` with files that are there
   before, as long as none is refused;
2. E-Kermit's codec (`encode`, `getpkt`'s leftovers, `decode`) as operators over
   short byte sequences, and the negotiated lengths;
3. thttpd's signal handlers and CGI children, which end requests from outside the
   event loop;
4. mk's scheduler (`devel/9cc/mk/run.c`), as a second job server; G-Kermit as
   E-Kermit's peer.

## 3. E-Kermit

| module | what it models |
|---|---|
| `EKermitLine` | packets, sequence numbers, receive slots, retry limit, `txd`, and the faults of the line |
| `EKermitSend` | `kermit()` as a sender and `main()`'s loop around it |
| `EKermitRecv` | `kermit()` as a receiver, the output functions of `unixio.c`, `main()`'s loop |
| `EKermit` | both at the ends of one line, all properties, fairness |
| `FileTransfer` | the abstract transfer: units arrive one by one, files finish, verdicts |
| `EKermitProofs`, `EKermitLinkProofs`, `EKermitOrderProofs` | theorems: types, the link, the transfer |
| `MC_EKermit` | files for TLC |

One action is one turn of `main()`'s loop: `getrslot`, `rxd`, and `kermit(K_RUN)`
with everything it calls. The branches of `kermit()` are the disjuncts of `SRun`
and `RRun`, in the order of the code: packet too short, echo (receiver), block
check, Error packet, sequence number, then the state switcher. A turn that ends
the process leaves its `k_data` alone, because nobody reads it again.

Abstractions, and why they keep what matters:

* **Packets** are records of type, number, data, cancellation text and block check
  type. A damaged packet (`"bad"`) matches no block check; a read of nothing is
  `"null"`, one of 1 to 3 bytes `"short"`. That a damaged packet could pass its
  block check is left out. A packet whose type byte is damaged into Y or N is
  dropped by the receiver without an answer: in the model that is a loss.
* **Data**: one D packet carries one unit `<<file, index>>`, and `obuf` holds
  `ObufLen` units, so packets end on the buffer's boundary or between. When `writef`
  fails, `decode()` goes on with the rest of the packet (`kermit.c:1201`, 1229): up to
  `PktRest` further units are counted in `r_pos`; which they are does not matter, as the
  process ends without reading `obuf` again (`EKermitOverrun.cfg`, section 8). Text mode's
  removal of CR is left out (units contain neither CR nor NUL), its reading up to
  the first NUL is not: `TextLen`.
* **Slots**: a slot's length is either 0 or not; retry counters stop at a value
  above every limit (`RtrMax`), beyond which all behave alike.
* **Negotiation** is symmetric: both sides run with the same `-b`, so the block
  check type `Bct` is a constant; type 1 is used for S and its ACK and for Error
  packets. `-b 5` is not modelled.
* **The line** keeps the order of packets. Faults hit the oldest packet under way,
  which is no restriction, since every packet becomes the oldest.
* **Timeouts** are not in `unixio.c` (its `readpkt` blocks) but `kermit()` handles
  a read of 0 bytes, and `main.c` says "unless readpkt times out": `TimesOut`
  names the sides whose `rxd` does. `LineCap` bounds how many packets may be in
  flight when a timer fires.
* **Control program**: `SCancel`, `RCancel`, `SAbort`, `RAbort` are what `main.c`
  documents: setting `k.cancel`, and calling `kermit(K_ERROR)`, between two turns.
* Not modelled: partial writes to the line, file names that collide, the status
  report (`k_response` apart from the name), parity, debug code.

Runs. Four sequence numbers (64 in the code; the link uses three neighbours at a
time, and `timeouts` goes down to 3, the least for which they differ), 2 slots
(31), retry limit 1 (10), `obuf` of 2 units, files of 1 and 2 units, so that a
file ends with a full, a partly full and an empty `obuf`.

* **noise** (1,566,187 states): two faults of every kind, failing `open` and
  `close`, all cancellations and aborts by either side. `TypeOK`; `Link`, the
  stop-and-wait link; `InOrder`; `InStep`; `Agreement`; `DoneComplete`;
  `DoneStays`; `ImplementsTransfer`, the refinement of `FileTransfer`. Deadlock is
  not checked: without timeouts a lost packet stops both sides, which is what
  `readpkt` does.
* **timeouts** (fair): both sides' timers fire at any moment, packets are damaged
  and lost. `Link`, `InOrder`, and `ReceiverEnds`.
* **write** (1,551,096 states): `txd` and all file calls fail. `InOrder` and `InStep` hold
  although
  `sdata`'s and the A packet's results are ignored; `Link` does not, and is not
  claimed there: after an A packet whose ACK could not be written the receiver
  holds an ACK for a packet it has not counted.
* **live** (fair): any one fault but loss; `ReceiverFinishes`.
* **write_error** (violation): the last buffer is lost, both sides report success.

Fairness: weak fairness of each side's turn (a process blocked in `read` gets a
packet that is there), of its timer where there is one, and of the line
discarding what is sent to a process that has gone. No fairness is assumed of
the control programs or of the line's faults.

The passing runs avoid the cases of section 8 by their constants (binary files
that are not empty; no failing `write` where success is claimed) and never by the
specification.

## 4. ZMODEM

| module | what it models |
|---|---|
| `ZmLine` | headers, subpackets, the line and its faults, `rx_purge`, `rx_raw`'s timer (`zmdm.c`) |
| `Zmtx` | `main()`, `send_file()` and `send_from()` of zmtx |
| `Zmrx` | `main()`, `receive_file()`, `receive_file_data()` and `cleanup()` of zmrx, and the directory it writes to |
| `Zmodem` | both on one line, sessions that are aborted and run again, properties |
| `ZmodemProofs` | theorems |
| `MC_Zmodem` | files and circumstances |

Between two steps a program waits in `rx_header()` or `rx_data()`, or zmtx is about
to read the next block. One subpacket carries one block `<<file, index>>`, and a
position counts blocks. What a fault leaves of a header is an invalid one or mere
noise; a subpacket's CRC no longer matches and, if its end is lost, it runs on into
what follows. `Zmrx` keeps for each file what is in it and how its date stands to the
one zmtx sends, because that date alone decides whether the next session resumes the
file or truncates it. `send_file()` has two `return;` without a value (`zmtx.c:205`
and 361), and the management options of zmrx are read uninitialised when they are not
given (`zmrx.c:163`): both are nondeterministic choices. `fp` may point to a closed
`FILE` (`rfp = "closed"`), so `cleanup()` may or may not get past `fclose()`. Between
two blocks zmtx compares what it heard with `ACK`, whose number is that of ZNAK
(`zmtx.c:156`, `zmodem.h:19` and 61): there a ZNAK is ignored (`SPoll`), and only after
the last block does it restart `send_from()` (`SAck`).

`rx_raw()` waits two seconds whatever it is asked (`zmdm.c:580-597`): a timeout
happens when nothing is under way and the peer waits too, and `scene.slow` bounds
timeouts that come earlier. `scene` puts together the circumstances of a behaviour:
faults, hasty timers, aborts, files that exist or cannot be opened.

Runs. **zmodem** (250,887 states; two files of 2 and 1 blocks, so that a file has a
continued and a last block; two faults, or one fault, a hasty timer and an aborted
session): `TypeOK`; `Integrity`; `SentIsThere`; `Resumable`; `NothingLost`;
`BothEnd`. Fairness: both programs run, the line drains what is sent to a program
that has gone, and the user runs an aborted session again. The programs end, so
deadlock is not checked. **zm_skip** (violation): a stale ZRINIT makes zmtx offer a
file twice, it is skipped twice, the second ZSKIP is taken for the next file, and
file 3's blocks are written under file 2's name, on a perfect line. What a
skipped file and a spoilt last ZACK do is in section 8 (`ZmodemProtect`, `ZmodemAck`);
on account of the latter `BothEnd` claims nothing after a fault.

Left out: the ZDLE encoding and the CRC arithmetic; bytes lost exactly from the end of
one item to the end of another, which no CRC spans; a kill without `cleanup()`; ZABORT
and ZFERR, which zmrx never sends; writes that fail: zmrx looks neither at `fwrite()`
(`zmrx.c:127`) nor at `fclose()` (328), so `SentIsThere` and the rest speak of a disk
that takes what it is given.

## 5. thttpd

### Connection engine: `Thttpd`, `MC_Thttpd`, `ThttpdProofs`

A handler is one step, because thttpd has one thread: it runs from `fdwatch()`'s
report to the next with the descriptors reported (`ready`) still to be handled.
`idle()` closes one connection per step, and `tmr_run()` remembers the next timer of
the bucket before it calls one (`next`, `freed`). Descriptors are allocated as the
kernel does, the lowest that is free, so a connection accepted in a round gets the
descriptor closed in it. Time is what timers have left; it passes only in
`fdwatch()`, and never past a timer that is due. A connection is throttled if it has a
throttle; byte rates are abstracted to a pause of at most `MaxPause`.

**thttpd** (704,115 states; two slots, two listeners, one throttle): `TypeOK`;
`TimersMatch`; `WatchMatches`; `ThrottlesExact`; `FreeListSound`; `TimersFreedOnce`;
`SlotsComeBack`. Two slots are enough for a slot and a descriptor to change hands while
the other connection's event is pending. Fairness: the server goes on, and time
passes again and again. The strong fairness of `Tick` is needed because a busy server
leaves `fdwatch()` at once and time goes by in between; the assumption says that the
clock does not stand still. The server ends after SIGUSR1, so deadlock is not
checked. **th_timers** (violation): with `Collisions`, a wakeup timer that follows the
idle timer in its hash bucket is cancelled by `idle()` and then run and cancelled
again by `tmr_run()`. `thttpd` and the theorems assume `~Collisions`, as the timers'
buckets depend on the microseconds at which they were made.

Left out: SIGTERM, SIGHUP, SIGCHLD and SIGALRM; CGI children and their kill timers;
requests and responses as bytes; the poll and select arrays. A listener that is reported
gives a connection or an error on the first `accept()` (`fresh`), so a round of the loop
that ends in `GC_NO_MORE`, without running timers, has taken a slot; reports that turn
out to be spurious are left out.

### Map cache: `Mmc`, `MC_Mmc`, `MmcProofs` (with `SumProofs`)

A call of `mmc.c` is one step, but for the loop that rehashes. Lists are sets: where
the code takes the first entry, the model takes any. Hash chains are modelled as they
are (`Probe`, `FindHash`, `HoleFor`, `Without`), since removing a map breaks them and
a file may then be mapped twice. **mmc** (184,600 states; two connections, three files
with one hash value, one of them empty, three Map structs, two addresses, a table of 2
that has to grow): `TypeOK`; `RefsExact`; `NoDangling`; `TableSound`; `HasRoom`;
`MemoryExact`; `Counts`. `MaxTime` and `MaxRefs` bound the clock and a count that is
never brought down; connections, maps and addresses are interchangeable, and the view
leaves out what a free Map holds, which the code never reads. `mmc_term()` ends the
program, so deadlock is not checked. Left out: a failing `malloc` of the hash table,
and builds without `mmap()` (where `mmc.c:236-243` leaks).

## 6. GNU make: `Jobserver`, `MC_Jobserver`, `JobserverProofs` (with `SumProofs`)

Each make is a process; its steps end where a signal or another process can make a
difference: between reaping and `read()`, between `read()` and counting the token,
before a job is started, and inside the `free_child()` of `start_waiting_job()`, which
writes the token (`WriteToken`, `job.c:1034`) and then counts it (`CountDown`, 1043) with
fatal signals unblocked; the one in `reap_children()` is one step, because there they are
blocked (`job.c:969-983`). `job_rfd` is the descriptor the SIGCHLD handler closes so
that `read()` fails instead of sleeping. Which targets need to be made, and their
prerequisites, are constants; their recipes have lines, may fail, may be prefixed by
"-", and may be one line that runs a submake. Without `-k`, a target that failed hides the
prerequisites after it and its goal is given up, while `update_goal_chain()` goes on with
other goals (`GivesUp`): as the goals are not modelled, the make may go on with any target
that is ready, wait for its children, or end with status 2.

* **make** (1,260,494 states; a make with three targets, one of which runs a submake with
  two, one with two lines; 3 slots, load limit, failing commands in both makes, a
  submake that may be killed): `TypeOK`; `TokensKept`; `AtMostSlots`; `NoInternalError`;
  `SuccessMeansBuilt`. As long as no make is killed the tokens are exactly `Slots - 1` and
  at most `Slots` commands run. A killed make may take tokens with it, and may leave one
  too many: when SIGTERM comes between `WriteToken` and `CountDown`, the handler reaps the
  children with a count that is one too high. `TokensKept` and `AtMostSlots` say that it
  is never more than one for each killed make; `JobserverLimit.cfg` (section 8) shows that
  it happens.
* **make_ends** (74,111 states, fair; prerequisites, an empty recipe, a "-" prefix, 2
  slots): `BuildEnds`. Fairness: a make that can go on or has a signal to handle does
  so, and commands end.

Deadlock is checked: only a top-level make that has exited may stand still.

Left out: a fatal signal between `wait()` and the end of `reap_children()`'s turn, or inside
the loop of `clean_jobserver()` (either could only lose tokens of a make that is killed);
the re-execution after makefiles are remade, remote jobs, `$(shell)`, `-jN` in a submake, a
second SIGTERM for the same make (the bound `Killable`).

## 7. Proofs

The theorems hold for every value of the constants the named assumptions allow; the
hypotheses of single theorems are named below, with the reason for each. Each module of
proofs begins with its inductive invariant, whose parts are named, and goes the same way:
one lemma says of which kinds the steps of a program are, one lemma per kind that it
keeps the invariant. TLC has checked each inductive invariant on instances like those of
the runs.

### E-Kermit

* **Types** (`EKermitProofs`, `TypeCorrect`): `TypeOK` is inductive as it
  stands. Its parts that are not types in the usual sense are needed for that: a
  running receiver has room in `obuf` for the next byte, one that ends because a write
  failed is past its end by at most `PktRest` (`EKermitOverrun.cfg` shows that it may be), an
  F packet names a file, and in the states in which a file is opened, written or
  closed there is a name.
* **The link** (`EKermitLinkProofs`, `LinkCorrect`): if `txd()` does not fail,
  `Spec => []Link`. `Numbers` alone is not inductive, because a late duplicate could be
  taken for the current packet or its ACK; `DataOrder` and `AckOrder` say what may
  still be on the lines, and `Silent` covers the time before the S packet. The steps
  fall into four kinds (the sender repeats or advances, the receiver repeats or
  accepts) and faults of the line; `SRunKind` and `RRunKind` show that every branch of
  `kermit()` is of one of them. The heart is `RAcceptLink`: a good packet with the number
  wanted can only be the sender's current one; and `SAdvanceLink`: an ACK of the current
  number proves acceptance. The hypothesis is needed: `kermit()` ignores the result of
  the ACK to an A packet.
* **The transfer** (`EKermitOrderProofs`). The link says which packet is accepted; on top
  of it the sender's packet `s_opkt` tells where the receiver is, before it or after it
  (`Phase`), which files it has closed (`Received`) and who has reported success
  (`Verdicts`). From these parts, `Steps`, follow `KeepInStep` (`InStep`) and
  `ReceivedStays` (`DoneStays`), for every file list and cancellation, if `txd()` does not
  fail. `Contents` adds the disk: what is on it and in `obuf` is what the receiver has
  been given (`Counted`), and gives `ArrivesInOrder` (`InOrder`) if no file is announced as
  text (`BinaryOnly`: in text mode stale bytes of `obuf` are written, section 8). `Whole`
  adds what holds as long as nobody cancels, and gives `ClosedIsComplete` (`DoneComplete`)
  and `SuccessIsAgreed` (`Agreement`), if no write fails either (`Faithful`; the run
  `write_error` shows that this is needed). `TransferImplemented` is the refinement of
  `FileTransfer`: a step that accepts a D packet is the arrival of a unit, one that accepts
  a Z packet the end of a file, and every other one a verdict or a stutter.

### ZMODEM

* **What survives a session** (`ZmodemProofs`: `TypesKept`, `InterruptedIsResumable`,
  `ReceivedIsKept`). `Resumable` speaks of the end only; `Dated` strengthens it to every
  state: a file that was written to has zmtx's date or is the one that is open, and zmrx
  has a file open exactly in the three states of `receive_file_data()` (`RecvShape`). That
  a block is appended to an existing file, and the file zmrx opens is one of the list,
  rests on `GoodItems`: every undamaged subpacket on the line is about a file, whatever
  the line and the sender have done.
* **What was sent** (`ReceivedIsWhatWasSent`, `ReportedIsThere`: `Integrity`,
  `SentIsThere`). zmrx compares a position only at the head of a frame; that later blocks
  of the frame are the next ones rests on the line alone. `WInv` therefore says of
  everything on the line what it stands behind: a name behind a ZFILE, a block behind its
  ZDATA or the block before it, unless something ruined is in between, which makes zmrx
  start over (`Fits`, `Linked`, `Chained`). It also says which items may be on the lines
  and in which order (`Without`, `Behind`): while zmrx has no file open (`Before`), and
  while it has one and zmtx offers it, streams it or has sent its ZEOF (`Offering`,
  `Streaming`, `Finishing`). A fault, a purge or a program that takes an item leaves fewer
  items in the same order, and ruined ones (`Less`): that is all these parts depend on.
  The hypothesis `Welcome` says that zmrx has no reason to refuse a file, because none is
  there before and all may be written: a ZSKIP can be taken for the answer to the next
  offer, and `Integrity` then fails (`zm_skip`). Resumed sessions are covered; files an
  aborted session left behind are not refused, they have zmtx's date.

### thttpd

* **Map cache** (`MmcProofs`: `AddressesStayMapped`, `CountsAreExact`,
  `TableIsSound`, `MemoryIsExact`). The four invariants are inductive only together,
  with the types, `Calls` (only a call in progress rehashes) and `Empties` (address 1
  is that of the empty files). `Forgetting` is the lemma for everything that unmaps:
  what has no users by its count has none in fact, so nobody's address goes. On top of
  them `Counted` and `Roomy` (the table is three times as large as the list while a call
  is in progress) give `CountersAreRight`, `AddHashSucceeds` and `TypesKept`: a table with
  more slots than maps has a hole.
* **Connection engine** (`ThttpdProofs`: `TimersAreTheirs`, `DescriptorsAreTheirs`,
  `ThrottlesAreExact`, `FreeListIsSound`, `NoTimerFreedTwice`, `TypesKept`), if no wakeup
  timer shares the idle timer's bucket (`th_timers` shows what happens otherwise).
  `CoreInv` joins the five properties with `Slots` (a slot has a descriptor exactly while
  it is taken); `Loop` says where the main loop is, `Limits` and `Places` what remains of
  the types. One lemma per kind of step: `Freeing`, `Lingering`, `Clearing`, `Joining`,
  `Sending`, `Pausing`, `Waking`, `Accepting`, `Ticking`; that `accept()` finds a
  descriptor is a pigeonhole argument.

### GNU make

`JobserverProofs`, for every tree of makes in which a submake is run by one line
(`SubmakesOnce`).

* **Status** (`NeverInternal`, `SuccessIsReal`). `NoInternalError` needs that `new_job()` is
  called for a target that was not started (`Cursor`), that a make that has not been
  started has no children (`Asleep`) and that the status of a dying make is settled
  (`Verdicts`); `SuccessMeansBuilt` that a submake is started once and its job is good only
  after it exited with success (`Submakes`). The steps that change a job are of three
  kinds, `Forking`, `Finishing` and `Waiting`, each from a dead child, a waiting job or a
  new one; all others are `Moving`.
* **Tokens** (`TokensConserved`, `NeverMoreThanSlots`, `TypesKept`). `Kept` is the sum of
  the pipe and what every make holds, and each step moves a token between two of its
  terms. A killed make still waits for its children, so it must keep one for each
  (`Covered`), and a submake that runs is a command its parent waits for (`Parents`):
  that is why it may run a job without a token of its own. The signal inside `free_child()`
  is why both theorems allow one token, and one command, for each killed make: the make
  holds its token twice, once in the pipe and once in its count, until `CountDown`, and
  `Held` stops making up for that when the handler takes over. `NeverMoreThanSlots` adds up
  over all makes that each runs at most as many commands as it holds tokens, plus one
  that its parent's token pays for, minus its submakes.

`SumProofs` has what both modules need of sums over finite sets: what
`MapThenSumSet` computes when an element is added, changed or taken away. The library's
induction theorems take an operator as a parameter and cannot be used; `SubsetInduction`
takes the set of the subsets for which a claim holds instead, and follows from the
existence of a smallest set that is not among them.

Only model-checked is liveness (`ReceiverFinishes`, `ReceiverEnds`, `BothEnd`,
`BuildEnds`, `SlotsComeBack`), for which the prover has no rule, and what the hypotheses
above exclude: `InOrder` and `InStep` when `txd()` fails (run `write`), `Integrity` and
`SentIsThere` when the last file of the list is there before (run `zmodem`).

## 8. Where the code and its documents disagree

Three runs expect a violation, with quotations under "findings": `write_error`,
`zm_skip`, `th_timers`. Further configurations show disagreements in the same way and
are kept for whoever works on that code; TLC finds each property violated:

| configuration (module) | property | what happens |
|---|---|---|
| `EKermitNakForgets` (`MC_EKermit`) | `FewFaultsSurvived` | `nak()` overwrites the ACK that has to be repeated; two damaged packets end the transfer |
| `EKermitEmptyFile` | `CleanSucceeds` | the receiver acknowledges an empty file and exits with a failure |
| `EKermitSlots` | `CleanSucceeds` | each cancelled file costs the sender a slot |
| `EKermitText` | `InOrder` | in text mode stale bytes of `obuf` are written after a shorter file |
| `EKermitOverrun` | `NoOverrun` | when a full `obuf` cannot be written, `break` (`kermit.c:1229`) leaves only the repeat loop, and the rest of the packet is stored past `obuflen`, the "Length of output file buffer" (`kermit.h:371`; the array has eight bytes more) |
| `EKermitGivesUp` | `BothEnd` | the sender's retransmissions after timeouts are not counted: it never ends |
| `ZmodemResume` (`MC_Zmodem`) | `Recovers` | an aborted session whose file was complete is resumed for ever: zmrx waits for ZEOF without asking for it (`zmrx.c:309-322`), though "Crash recovery now supported" (`release.notes:3`) |
| `ZmodemProtect` | `Protected` | with `-p`, "protect (don't overwrite if exists)" (`zmrx.c:383`), a file that is there is skipped, but `fp` still points to it (`zmrx.c:246`, 267): `cleanup()` gives it zmtx's date, and the next session appends to it |
| `ZmodemAck` | `AckWaitEnds` | one spoilt ZACK leaves zmtx waiting for it (`zmtx.c:129-134`) and zmrx for ZEOF (`zmrx.c:320-322`), for ever, where the transmitter should "abort the program if no headers are received for an extended period of time, say one minute" (`zmodem.doc:217-218`) |
| `MmcEmpty` (`MC_Mmc`) | `NothingHeldForever` | two empty files share address 1, and the reference of one is taken from the other; the comment at `mmc.c:390-392` says "that's harmless" |
| `JobserverKilled` (`MC_Jobserver`) | `Sane` | a submake killed by SIGTERM never calls `clean_jobserver()` (`commands.c:487-605`), so the sanity check of the top-level make finds tokens missing |
| `JobserverLimit` | `JobsLimit` | SIGTERM between the write of a token and its count, in the `free_child()` of `start_waiting_job()` (`job.c:1751`, 1034, 1043), puts one token too many into the pipe, though "there are only N jobs running at the same time between them all" (`doc/make.texi:4705-4706`) |
| `ThttpdUsr1` (`MC_Thttpd`) | `UsrOneEnds` | after SIGUSR1 the server goes on: `continue` at `thttpd.c:766-771` skips the check at 814, though `thttpd.8:546-548` says it shuts down when done |

Seen while modelling, without a configuration: in E-Kermit, `k->cancel` is never
reset, so `I_FILE`, "to interrupt only the current file" (`main.c:392`), interrupts
every later file too; a cancelling sender's Z packet carries no `D`, so `closefile`
keeps the file without `-k`; `-B` sets `ftype` to `BINARY`, 0, which `fileinfo` and
`sattr` take for text; a sender that cannot open its next file exits without an Error
packet; `kermit(K_ERROR)` returns `X_DONE`, where `main.c:394` says that both return an
error status. In ZMODEM, an empty file is offered for ever; zmrx gives up
after counting ZRQINITs (`zmrx.c:480-491`) while zmtx, once it has heard a ZRINIT, never
does. The passing runs leave these cases to the circumstances they name (`BothEnd`
claims nothing after a fault) and never to the specification.

## 9. Not modelled

The rest of the tree is about a million lines, most of them vendored programs that
are sequential functions of long inputs: generated tables (`www/links/font_inc.c`,
`lang/cbmbasic`, test vectors of blake2), compilers and interpreters, codecs, editors
and games bound to a terminal. Their correctness is a matter of bytes and of an input
language, which neither small instances nor an invariant over a few variables reach.
Of the six components above, what is left out is named in sections 3 to 6. The parts
that would repay a model next are in section 2.
