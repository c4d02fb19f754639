# Verification of the FPGA miner

The repository is a mining client for AWS F1 instances. A C program
(`src/fpga_miner_aws`, a descendant of cpuminer) talks the stratum protocol to
a pool, builds block headers, writes them into the registers of up to eight
FPGAs, polls the FPGAs for nonces, checks every nonce on the CPU and submits
the good ones as shares. The directories `grs`, `myr_grs`, `phi1612`, `skunk`
and `tribus` hold the Verilog of the bitstreams.

This directory holds TLA+ models of the parts of that program whose
correctness depends on the order of steps or on arithmetic at its edges, the
TLC configurations that check them, and proofs for TLAPS. Paths below are
relative to `src/fpga_miner_aws` unless they name another directory.

Contents: 1 the system, 2 the modules and how they correspond to the code,
3 the runs and their bounds, 4 fairness, 5 the proofs, 6 what was found,
7 what is not modelled, 8 the plan.

## 1. The system

### 1.1 Threads and what they share

| thread | started in | waits for | writes |
|---|---|---|---|
| `stratum_thread` (one) | `main` | its queue (once, for the url), then the socket | `stratum` (session and job), `g_work`, `g_work_time`, all restart flags |
| `aws_miner_thread` (one per FPGA) | `main` | `g_work_time`, then the result register of its FPGA | its own `work`, `stratum.job.xnonce2`, its restart flag, the queue of `workio_thread` |
| `workio_thread` (one) | `main` | its queue | the socket |
| `api_thread` (optional) | `main` | a client | `rpc_user`, `rpc_pass`, `rpc_url`, `stratum_need_reset`; ends the process |
| `key_monitor_thread` (one) | `main` | the keyboard | logging flags |
| main | | the end of `workio_thread` | ends the process |

A job goes from the pool's line through `stratum_notify` into `stratum.job`,
from there into `g_work` (which only marks what is current, and how old it is)
and, independently, into the `work` of each FPGA thread, which builds its own
header with an extranonce2 of its own. A nonce goes from the FPGA's result
register through the check on the CPU to `submit_work`, through the queue to
`workio_thread`, and onto the socket that `stratum_thread` reads the answer
from. `work_lock` protects the job while a header is built; `g_work`,
`g_work_time`, the restart flags, the target's difficulty, the url and the
state of the connection are read without a lock.

### 1.2 Components, their state and operations, and what makes them correct

| component | code | state | operations | correct if |
|---|---|---|---|---|
| thread queue | `util.c` `tq_*` | linked list, `frozen`, mutex, condition | push, pop (with or without timeout), freeze by the popper that leaves its loop | entries leave once, in their order, no sleeper misses one, and a popper stops only when told to |
| work distribution | `stratum_thread`, `stratum_notify`, `stratum_gen_work`, outer loop of `aws_miner_thread` | `stratum`, `g_work`, `g_work_time`, works, restart flags | connect, retry, notify, set_difficulty, set_extranonce, publish, restart, generate, reset by the API | no two FPGAs search the same header, no header without a job, the target belongs to it, everyone moves on to new jobs |
| share flow | `submit_work`, `workio_thread`, `submit_upstream_work` | queue, command in hand, retry counter | queue a share, discard a stale one, send, retry, give up, stop | until `workio_thread` leaves its loop no share is lost, sent twice or overtaken; only stale ones are discarded; the process ends when the pool is gone for good |
| FPGA scan | inner loop of `aws_miner_thread`, `miner_top.v`, `miner.v` | block registers, nonce counter, result register, `old_value`, `ret` | poke, trigger, hit, peek, evaluate, time out | no share is submitted twice; what is read and not submitted is a leftover; every scan ends |
| share check | `diff_to_target`, `fulltest`, the checks in `aws_miner_thread` | none | 256-bit comparison, difficulty to target | what is submitted meets the difficulty, and what meets it is submitted |
| stratum session | `stratum_subscribe`, `stratum_authorize`, `stratum_handle_method`, `stratum_handle_response` | session id, place in the handshake, lines under way, counters | handshake, methods of the server, answers | no notify is lost, a session has an authorized user unless one of four things disturbed the handshake, no share is counted twice, each question is answered once or its reply was not taken |
| connection and line buffer | `stratum_connect`, `stratum_recv_line`, `send_line` | `sockbuf` and its size, the lock of the socket | connect, wait, receive, cut a line, send, disconnect | every line comes out once and whole, writers do not mix, the buffer has room |
| hash contexts | `sha3/*.c`, used by `calc_hash` and `calc_midstate` | buffer, pointer, counter, chaining value | init, update, close | the digest is that of the message, however it was cut and whatever the context held |
| payload | `calc_midstate`, the pokes in `aws_miner_thread`, `miner_top.v` and `miner.v` of each bitstream | `send_buf`, block registers | midstate, pack, poke, search, check | what the FPGA hashes is the header that the host hashes, for the target of the work |
| API server | `api.c`, `parse_arg` | `bye`, the url and user it replaces | queries, seturl, quit | seturl takes effect, with url and account together; quit ends the process |

### 1.3 Where it is hard

* Interleavings: the FPGA threads, `stratum_thread` and `workio_thread` share
  the job, `g_work`, the flags and the socket, mostly without locks.
* Not atomic: `seturl` replaces the user, the url and the flag one after the
  other; a line is written to a socket in parts.
* Stale values: `g_work` lags behind the job; the difficulty is read after the
  unlock; the result register of the FPGA is never cleared; the job survives a
  disconnect.
* Order: handshake answers, notifies, questions of the pool and answers to
  shares share one stream, which is read in its order and not in the order of
  the requests.
* Failure: connections break anywhere, sends fail while the connection lives,
  reads of the FPGA fail, a pool forgets its sessions or sends malformed lines,
  retries are limited or not, a line stops in the middle.
* Agreement of parts that are only tested together on the hardware: order of
  words and bytes, padding and midstate of five bitstreams; thirteen hash
  functions whose block boundaries a header of 80 bytes hardly exercises.
* Edges: an extranonce2 of two bytes overflows; difficulties below 1; the byte
  order of the hardware-error check.

The list of hazards, each at its line, with the properties that cover it, is
in `PROJECT.json`.

## 2. The modules

| module | models | uses |
|---|---|---|
| `FifoChannel` | what a queue promises: entries leave in the order of entering | |
| `ThreadQueue` | the thread queue of `util.c` | |
| `WorkDistribution` | from the pool's job to the work of each FPGA thread | |
| `ShareLife` | what the way of a share promises | |
| `ShareFlow` | from the nonce to the socket | EXTENDS `WorkDistribution` |
| `NonceScan` | one FPGA and its thread | |
| `ShareCheck` | the arithmetic of the checks | |
| `StratumSession` | the dialogue with the pool, in lines | |
| `StratumLine` | the same connection, in bytes | |
| `HashStream` | the contexts of thirteen hash functions | |
| `FpgaPayload` | a header on its way into the FPGA and back | EXTENDS `HashStream` |
| `ApiServer` | the API thread | EXTENDS `WorkDistribution` |

`<M>Props` states the properties of module `M`, `MC<M>` gives TLC its instances
(`MCFpgaPayload` for `HashStream` too), `<M>Proofs` proves theorems about it;
those about `WorkDistribution`, `ApiServer` and `ShareFlow`, which build on
each other, are together in `WorkAndShareProofs`. `PROJECT.json` maps every
definition to its lines. A definition that a comment introduces as a mutant of
another one is a plausible mistake in the code; each property is violated by
one.

**ThreadQueue.** `q` is the linked list, `pc` says of each popper whether it
is in its loop outside `tq_pop`, asleep on the condition, woken and waiting for
the mutex, or done; a popper that is `absent` does not exist, so that the runs
include a queue with one popper, which is what the program has. Everything under
the mutex is one action; `pthread_cond_wait` splits `tq_pop` into `PopReady` or
`PopWait`, and `PopResume`. `Signalled` says whom a signal may wake.
`SpuriousWake` is allowed by POSIX. The loop around `tq_pop` is part of the
module, as `workio_thread` has it: a popper that gets NULL, pushed (`Take`) or
for want of an entry (`GiveNull`), or whose command fails (`Fail`), leaves its
loop, and its last act is `tq_freeze` (`Leave`). Nothing calls `tq_thaw`.
`accepted` and `delivered` are histories, and by them the queue implements
`FifoChannel`.

**WorkDistribution.** `stratum` is the place of `stratum_thread` in its loop:
`Reset`, `TakeUrl` and `Top` are the head of the loop (the flag is lowered and
the connection dropped before the url is compared and copied), `ZeroTime` the
head of the connection loop, `Connect`, `Authorize` and `ConnectionFails` the
attempt, `NothingNew`, `Publish`, `StampTime` and `RestartThreads` the
publishing of `g_work`, and `Notify`, `SetDifficulty`, `SetExtranonce`,
`OtherLine` and `Disconnect` the outcomes of waiting for a line (the first
three also while `stratum_authorize` waits). An FPGA thread passes the gate
(`FindFresh`), generates its header under `work_lock` (`Generate`), computes
its target after the unlock (`SetTarget`), clears its restart flag
(`ClearRestart`) and mines until `LeaveOnRestart` or `LeaveOnTimeout`. A header
is the job, extranonce1 and extranonce2 that went into it; `Key` is what makes
its search space. `g_work_time` has three values: zero, less than 120 seconds
old, older. `issued`, `wrapped`, `pairs` and `diffs` are histories. `SetUrl`
and `RaiseReset` are the last two steps of the API's `seturl`.

Assumed of the pool: within one extranonce1 it does not use a job id again for
another job, and announces nothing before it has answered the subscription. A job
that is announced again under its id may be for another previous block. `g_work`
stays on the first one then, in the code (which compares ids) as in the model;
the ghost `moved` remembers that it happened, and is the exception in
`PublishedIsCurrent` and `FreshShareLostOnlyBeforePublication`.

**ShareFlow** adds to `WorkDistribution` the queue of `workio_thread` (as the
FIFO channel that `ThreadQueue` implements) and that thread. `Find` is
`submit_work`; `PopShare` and `PopStop` take a share or the NULL that
`stratum_thread` sends when it gives up; `Discard` and `PassCheck` are the
stale check, which reads `g_work` without a lock: while it is rewritten
(`Rewriting`) the comparison can have any outcome that the old, the zeroed and
the new bytes give. `SendWorks` and `SendFails` are `stratum_send_line`,
`Resume` the retry after the pause. When the retries are used up, the share in
hand is freed (`lost`), and behind the loop `Freeze` is `tq_freeze`: what is still
queued by then, or is found between the two, is never popped. The refinement
mapping to `ShareLife` forgets the threads and keeps the numbers of the shares;
the end of the loop is `ShareLife`'s `End`, with which all that is pending is
dropped.

**NonceScan.** The nonce counter starts `Offset` positions early (`miner.v`),
because the first hashes that leave the pipeline belong to the previous block;
`Label` gives the nonce that a position is reported as. `Hit` stores a label
in the result register: a leftover's, one found while the registers are being
rewritten, or a solution of the current work. The thread draws a work, pokes
it, triggers the search with the last poke, and then peeks: ten reads that
find something new, nothing new, or fail altogether. `solves` says which work
a nonce solves; solutions by coincidence are left out. The history `inherited` is
what stood in the register when the search began.

**ShareCheck** has the hash and the target as arrays of `Words` words of
`Bytes` digits of base `Radix`, the least significant word first, as the code
has, and a difficulty as a fraction. `Dividend` is the double that
`diff_to_target` converts to a 64-bit integer; when it does not fit (`TooBig`),
the conversion is undefined in C, and `Quotient` is the zero that the usual build
for x86-64 gives (the instruction yields 2^63, the correction for unsigned adds
2^63). No such difficulty has been divided, and the target becomes all ones
(`Ones`, `util.c:938`). `Evaluate` takes any hash: hash
functions can return anything.

**StratumSession** has two channels of lines between the client and an
external pool, which answers requests in their order, with a good result, a bad
one or none; it may have forgotten a session, refuse the user, ignore the
extranonce request, send notifies, ask questions with or without an id, send
malformed lines (a method without the parameters it needs, or no JSON), and send
the miner elsewhere. `place` says which line `stratum_thread` is waiting for.
`SendShare` is `workio_thread`, which writes to the socket whenever it is open.
Closing a connection empties both channels. A request that fails to be sent is a
lost connection (`Drop`); a reply to the pool that a full socket does not take is
dropped while the connection lives (`ReplyFails`).

`stratum_authorize` reads on while `stratum_handle_method` returns true
(`util.c:1392`). It returns false for a line that is no method, for an unknown
method without an id, for known ones with bad parameters, and when the reply
could not be sent; each of these (`EndsWait`, `ReplyFails`) is taken for the
answer to the authorization, and is a refusal only if it has the id of that
request and no good result (`Refuses`, `ReplyRefuses`). Requests of the pool
have id 0 (none), 2 (the number of the authorization) or 3 (that of the
extranonce request): no other number is treated in a way of its own.

**StratumLine.** A byte is a number that names its line and its place.
`StartRead` is `stratum_socket_full` and the look at what is already buffered,
`Receive` one `recv` with `stratum_buffer_append`, `Tokenise` the `strtok` and
`memmove` at the end of `stratum_recv_line`, whose arithmetic is `Remainder`.
`BeginSend`, `SendSome` and `SendDone` or `SendFails` are `stratum_send_line`
under the socket's lock. The model keeps the code's reaction to a newline in
front of a line, after which `memmove` leaves too little (`skipped`): it comes
from an empty line of the pool, or from a read that gave up after 60 seconds
with the newline still on its way. `LinesArriveWhole` says what holds
otherwise, and that nothing else makes `strtok` skip one.

**HashStream.** A compression function is opaque: the chaining value is the
sequence of bytes that went in, with the counter or tweak of each call. What
is modelled is everything around it: the buffer with what earlier messages
left in it, the counters, the loop of each core function (`Chunk`,
`SkeinChunk`, `Sha256Fill`, `Sha256Direct`, `Sha256Tail`, `FugueWord`,
`UpdateGost`), and the padding of each `close`. `HashStreamProps` defines the
padded message of each function by one formula over the whole message, and
compares.

**FpgaPayload** adds to one such context an algorithm: `Prepare` takes the
midstate from the unfinished context and packs it with the rest of the header
and the target into words, `Poke` writes them to the registers, `Hit` finds
the nonce, `Peek` reads it, and then the context hashes the whole header.
`GroestlMiner`, `SkeinMiner` and `JhMiner` are the wiring of the bitstreams,
with their constants for the padding and the tweaks. No step is taken for
equal to its counterpart on the other side: `FpgaHashesTheHeader` compares
them byte by byte.

**ApiServer** composes the API thread with the distribution of work. `api` is
its place. `ReplaceUser` is the first part of `parse_arg` for `-o`, after which
an unknown protocol ends the process (`RejectUrl`); the second and third are
the distribution's `SetUrl` and `RaiseReset`, tied to the place of the API
thread by `SetUrlPart`. `sessionUser` is what `stratum_authorize` was given.
`Quit` and `Leave` are the quit command and what follows the loop.

## 3. The runs

| run | instance | states | shows |
|---|---|---|---|
| `thread_queue` | up to 3 poppers, 1 of them with a timeout, 2 kinds of entries, 3 pushes, spurious wakeups | 183 k | nothing lost, doubled or overtaken; no lost wakeup; every entry is popped while a popper is left; one that is alone stops only when told to or when its wait returns without a signal; `FifoChannel` is implemented |
| `work_distribution` | 2 FPGA threads, 2 extranonce1, 2 ids, 2 notifies, 2 values of extranonce2, 1 reset by the API | 1.19 M | no two threads search one header before the overflow, which is reached; none is built twice, none without a job |
| `share_flow` | 1 FPGA thread, 3 shares, 2 jobs for 2 blocks under one id or two, one retry; with a changed difficulty 1 share | 2.1 M | `ShareLife` is implemented; `g_work` follows the job; fresh shares are only discarded before publication; the target's difficulty is never a past or future one |
| `share_live` | 1 FPGA thread, 1 share, 2 jobs, one retry | 113 k | giving up ends the process; every share is settled if the connection holds; the thread reaches later jobs |
| `api_server` | 2 pools, 2 accounts, 3 seturl requests, quit | 12 k | url and account of an open session are those set last; a url that was set is used; quit ends the process |
| `api_seturl_down` | 1 request, the first pool unreachable | violation | finding 1 |
| `nonce_scan` | 5 nonces, 2 leftovers, 3 works, one evaluation after failed reads | 190 k | no share twice, only leftovers count as hardware errors, every scan ends |
| `share_check` | 3 words of 2 digits of base 3, 12 difficulties | 9 k | submitted shares meet the difficulty, the target is tight, no share is a hardware error |
| `share_check_easy` | 2 difficulties below the limit added | violation | finding 2 |
| `stratum_session` | 2 notifies, 1 question, 2 shares, 2 faults, 3 of all these together | 269 k | the properties of the session |
| `stratum_line` | 2 connections with 3 lines of 0 or 2 bytes and 2 sends each, a buffer growing by 6 bytes, 5 bytes per `recv`, 1 byte of room in the kernel | 318 k | lines come out as they went in, the buffer has room, writers take turns, sent means seen, every line is read |
| `fpga_hash` | 13 hash functions, their real blocks and paddings, messages of 23 lengths in calls of 8 lengths, 6 algorithms | 76 k | the digest is that of the message; the FPGA hashes the host's header for the work's target |

Why the bounds are enough. The threads of `work_distribution` only meet in the
job's extranonce2: two threads and one publisher are all the parties to a
collision, and two values let them differ before the overflow and repeat after
it; the theorem covers the rest. Two notifies give a job and its successor, or
a job announced again, and with two extranonces all combinations of a new or an
old id in a new or an old session. A reset by the API ends a session like a
lost connection does; `OneJobAfterReset` follows it with one job only, the
second one being covered without it. Three shares are one that is retried or
given up and two that wait behind it, in their order; two jobs make one of them
stale. The difficulty only matters to the thread that reads it after the
unlock, so that once it has changed one share is enough
(`FewSharesWhenDiffChanges`). For the liveness of `share_live` one share is
enough: the NULL comes before it, behind it, or finds the thread at work on it.
Three seturl requests let one be half done while the one before is being taken
up, and return to the first url; jobs play no part in it. Three works let a
result of the first survive two replacements, five nonces with a pipeline of
two leave three real ones, zero included, which the code cannot report. The
words of `ShareCheck` have a high and a low byte, so that byte order matters,
and three words let `Shifts` take both of its values; the difficulties include
the ones at which it changes, and one whose quotient does not fit two words. In
`stratum_session` a fault is a lost connection, a redirection, a malformed line
or an unsent reply. Any three of the notifies (of which two have an order), the
question, the shares (two for the two answers that a failing subscription
needs) and the faults come together, which is more than any one of the
exceptions that the properties name takes; notifies and questions start anew
with each connection. In `stratum_line` two lines of two bytes and their
newlines cross the end of the buffer, a packet of five bytes holds the end of
one line, the whole next one and the beginning of a third, or the newline that
an earlier read did not wait for with a line behind it (smaller packets and two
lines only would hide what `memmove` drops then), and a second connection meets
the leftovers and the grown buffer of the first; the client's lines are longer
than the room that the kernel has. The lengths in `fpga_hash` are those on both
sides of every boundary that some function has (a partial word, the place of
the length in the last block, a whole block, one byte more), and 80; the bytes
of the message are all different.

Deadlock is checked where the system cannot stop (`work_distribution`, which
retries for ever, and the runs of `ShareCheck`). It is not checked where it can:
a popper of the queue ends, `stratum_thread` exits and `workio_thread` stops after
their retries, the API's quit ends the
process, a miner whose pool sends no more work, a message that is hashed or a
check that is done has no next step, and with the bounds on pushes, shares,
works, lines and connections used up neither has a system that waits.

## 4. Fairness

* `ThreadQueue`: a popper in its loop calls `tq_pop` again, one that has left it
  freezes the queue and ends, and the scheduler runs both. Nobody has to push,
  and no command has to fail; what a popper that has ended leaves in the queue
  stays there, as in the program.
* `WorkDistribution`: each thread runs. `stratum_thread`'s wait for a line
  ends by `opt_timeout` at the latest, so its steps are weakly fair, whichever
  line or timeout ends the wait; a pool that accepts connections at all
  accepts one in the end (strong fairness of `Connect` and `Authorize`,
  because every failure takes the thread elsewhere for a pause). The pool
  never has to send a job, and `LeaveOnTimeout` is a step of the thread itself
  because `opt_scantime` passes.
* `ShareFlow`: besides, a socket that is open again and again takes a line in
  the end. `EveryShareIsSettled` assumes in its statement that the connection
  holds; nothing makes it hold. `EveryThreadMovesOn` needs the FPGA threads to
  run, which are fair each.
* `ApiServer`: the threads run, and a `seturl` that has begun goes on. A client
  need not connect or send anything: `recv` waits without limit, so neither
  `Accept` nor a command is fair. Connections are as in `WorkDistribution`.
* `StratumLine`: `stratum_thread` runs, and what has arrived is read
  rather than timed out; a call of `send_line` that has begun goes on. The pool
  need neither send nor read.
* `NonceScan`: the thread runs; rounds of reads do not fail for ever; the time
  passes, so that a loop that looks at it again and again sees it passed.
  Hits and restarts are owed to nobody.
* `StratumSession`: both ends run, and the pool answers each request but
  possibly the one for extranonces.

## 5. The proofs

All theorems hold for every value of the constants, under the named assumptions
in the modules that declare them: `QueueAssumption` (finitely many poppers);
`WorkAssumption` (the first url and difficulty are among those of the model,
the extranonce2 has at least one value), `NoValueAssumption` (the absent job
and header differ from real ones); `NoShareAssumption` (so do NULL and the
absent share); `ScanAssumption` (the pipeline is shorter than the nonce space);
`SessionAssumption` (bounds are numbers); `LineAssumption` (a free lock is no
thread, a `recv` asks for less than the buffer grows by, as `RECVSIZE` is
`RBUFSIZE - 4` in the code); `StreamAssumption` (the hash functions are the
thirteen, the message is one of numbers); `PayloadAssumption` (the algorithms
are the six, and the message has the 80 bytes of a header); `CheckAssumption`
(a byte has two values at least, a word two bytes, a hash three words).
`ApiAssumption` is used by the runs only.

Of the theorems about types, `WorkTypes` and `ScanTypes` state invariants that
the runs check too; `QueueTypes`, `FlowTypes`, `SessionTypes` and `LineTypes`
are proved only.

`ThreadQueueProofs`. `QueueInv` (the types, and accepted = delivered followed
by the list) is inductive. `QueueTypes`, `QueueIsFifo`, and
`QueueImplementsChannel`: each step of the queue is a step of `FifoChannel` or
leaves it alone. `NoWakeupIsLost` needs besides that only the poppers of the
set sleep or are woken, which is finite: a push adds an entry and wakes one
sleeper, or none sleeps; a popper that takes an entry was awake.
`LonePopperStopsOnlyWhenAsked`: while one popper alone pops the queue, a signal
that wakes it comes from a push that has linked an entry, since nobody else can
have frozen the queue, and nobody else takes that entry (`Loner`); nobody who was
there becomes absent, so who is alone has been so from the start.

`WorkAndShareProofs`, of `WorkDistribution`. The types are not inductive alone:
`SetTarget` reads the difficulty of a job that must exist. `Base` adds that the
current job is in `pairs`, and the gate (`JobBeforeWork`, and that an open gate
and a published header mean a job), from which `WorkTypes` and
`JobAlwaysBeforeWork` follow. On top of it:

* `Unique`: of the current job, only extranonce2 values below the current one
  have been issued, unless it has overflowed; each thread's header has been
  issued; no two threads hold the same one. It gives `FpgasNeverShareWork`,
  and with `GenerateIsNew` (the key of the next header is not in `issued`) the
  action property `WorkIsAlwaysNew`. The argument needs that a job with
  another id is new to its extranonce1, which is the assumption on the pool in
  `JobLine`.
* `Published`: what `g_work` holds in each place of `stratum_thread`, while no id
  was announced for two previous blocks (`moved`). It gives `GWorkIsCurrent`.
* `Targets`: the history of difficulties is as long as the number of the
  current job, works are not newer than the job, and a target is of a job
  between the two. It gives `TargetIsOfSomeJobSince`.

`NonceScanProofs`. `ScanInv` is the types, that labels of leftovers solve
nothing, and, while no nonce was evaluated again after failed reads: the
counter is past the result register and the nonce under evaluation if they
solve the current work (`Known`); it is past everything that was submitted for
the current work, and if the register still shows such a nonce, so does
`old_value` (`Behind`); the nonce under evaluation is in no submission of this
work (`FreshNonce`); submissions are distinct. The second and third are why
`NoShareTwice` holds: the register can only change to a position that the
counter has not reached, and only a change is evaluated. It gives `ScanTypes`
and `SharesAreSubmittedOnce`. `OnlyLeftoversAreHwErrors` needs the origin of what
is read (`Sourced`): the register and the nonce under evaluation are
a leftover's label, what the register held when the search began, or a solution
of the current work under its own number; so that what fails the check on the CPU
is one of the former two.

`WorkAndShareProofs`, of `ShareFlow`. `FlowInv` is `Typed` (the invariant
`Base` of the distribution, that a busy thread has a header, and `FlowTypeOK`)
and `Ordered`: the numbers in the queue increase, the share in hand is older
than all of them, and none is above `found`. `Ordered` is what makes the share
in hand the oldest one under way, and its number one that no other pending
share has, so that taking it off takes off nothing else. It gives `FlowTypes`
and `WayImplementsShareLife`, in which the step out of the loop, with its share
or at the NULL, is the end of the way, and every later find is a loss.
`FreshSharesAreSafeOncePublished` takes `Published` over from the distribution,
and adds `JobFirst`: where there is a share there is a job, and `stratum.job`
is never taken back.

`WorkAndShareProofs`, of `ApiServer`. The property speaks of the time after the
handshake; what makes it true happened before. `UrlIsSet` says that outside the
reset (between lowering the flag and copying the url) the url is the one set
last, unless a request is under way, which raises the flag in the end;
`UserIsSet` carries the account from the call of `stratum_authorize` through
every turn of the loop while the connection is open. It matters that the flag
is lowered before the url is copied, and raised after both were replaced. From
the two, `SessionAlwaysMatches`.

`ShareCheckProofs`. The invariant `Judged` only says that the target is the
difficulty's and the outcome what the checks said; the work is in the
arithmetic, for words of any size:

* A number is a sum over its words, the value of a word or its swapping one over
  its bytes: recursive functions, whose existence and types are proved by
  induction (`RecursionExists`, `InductionUpTo`), after which they are sums like
  any other (`NumberIsSum`, `SwabIsSwapped`).
* `FulltestComparesNumbers`: the words below a place are worth less than one at
  the place (`LowWordsAreSmall`), so the highest word that differs decides.
* `DividendBounds` and `QuotientBounds`: after the divisions of the difficulty the
  quotient fits two words (this needs the loop's condition for every division that
  was made), unless there was none to make and the difficulty is tiny (`TooBig`);
  so nothing is cut off, and `NumberHeld` with `WeightsMultiply` puts it in its
  place. In the other case the target is all ones, and every
  hash meets so small a difficulty (`AnyHashMeets`). From these and the first,
  `SharesMeetTheDifficulty` and `TargetsAreTight`.
* `NoShareIsAnHwError` has a hypothesis, that the top word of no target has more
  than one byte; `TopWordFits` says which difficulties fulfil it, and
  `share_check_easy` that it is needed. Then swapped bytes keep the order of the
  top words (`SwabKeepsOrder`).

`StratumSessionProofs`. A connection begins with both channels empty
(`Closed`), and until the client has read the answer to its subscription every
method is behind a good one (`MethodsFollow`): the handshake, which skips what
it does not know, reads no method there. From these,

* `NotifiesAreRead`: the notifies after the last one that was read are under
  way in their order (`UnderWay`), for every way of taking a line from one end
  of a channel and putting one to the other.
* `SharesAreCountedOnce`: before the handshake is over no answer to a share is
  under way unless one was sent early (`NoEarlyShare`); answers are counted by
  their result, and those without one not at all.
* `RequestsAreAnsweredOnce`: the requests with a given number that are not on
  the way to a reply (`Missing`) are those whose reply the socket did not take,
  and at most one that was taken for the answer to the extranonce request.
* `SessionsAreAuthorized`: what can be under way in each place of the handshake
  (`Opening`, `Subscribing`, `Authorizing`), so that the only line that ends
  `stratum_authorize`'s wait is the answer to its question, while no share was
  sent early and the pool sent neither a malformed line nor a request without
  an id, nor one whose reply got stuck.

`StratumLineProofs`. `BufferNeverOverflows`: `BufferFits` with the types is
inductive, because the buffer grows past what a `recv` has made necessary, at
its last byte too. `LinesAreNotMixed`: the bytes on the wire
are `Parts`, the beginnings of the lines in their order, and while the lock is
held that of the current one (`Begun`). `SuccessMeansSent` counts newlines in
them: each whole line has one, at its end (`Unreported` is the one that has been
written before `send_line` returns). `LinesAreReturnedWhole` rests on `Arriving`:
`delivered`, each line with its newline, followed by the buffer and the socket,
are the pool's lines with theirs, while no line was cut; the bytes without the
newlines agree while none was skipped. That two sequences of lines with the same
bytes agree as far as they go (`Decodes`) is an induction, which the library's
theorem with an operator as a parameter cannot give here; it is done with the
least counterexample in a set of naturals (`LeastNat`, from the library's
`WFMin`). The attempt showed that an earlier form of `LinesArriveWhole`, which
only excluded empty lines, was false: a read that gave up just before a newline
leaves one in front of the next line (section 6).

`HashStreamProofs`. `StreamInv` is the types of a context, what `ptr`, `rest`
and `stage` can be for each kind of core function (`Places`: the eager ones keep
less than a block between calls, skein and fugue up to a block), and that what
was compressed, buffered and not yet looked at is the message so far (`Kept`).
It holds for every message, every cutting into calls and all thirteen functions,
with what earlier messages left in the buffer, and gives `StreamLosesNothing`.

`DigestsAreOfMessages` needs besides what a function knows of the message other
than its bytes. `DigestInv` has a part for each stage:

* `Running`: in and between calls, `n` whole blocks have been compressed, the
  counter is the one after `n` blocks (of each function in its unit: 1, 512 or
  1024 per block, bytes for sha256, bits for fugue), and the tweaks are those
  that blocks 1 to `n` have in every message that goes on (`RunTweak`): a tweak
  must not depend on the end, which is not known yet.
* `Ending`: what `close` has laid out and the core function has still to
  compress is the rest of the padded message, by one more call or, for blake,
  perhaps two; the counter of blake is such that the increment which follows
  gives the bits of the message in the block, and zero for a block of padding.
* `Finished` and `Closed`: what has been compressed is the padded message with
  its tweaks, and then the digest is that, and the context is as `init` leaves
  it. `Gosted`: gost pads and compresses everything in one call, from the end
  of the message. `NoPads`: blocks of padding wait only in a close.

For each function a lemma shows that the padding which its `close` computes from
`ptr` and the counter is the one that the definition computes from the length
of the message, wherever in a block the message ends.

`FpgaPayloadProofs`. The contexts of `FpgaPayload` are only used between the
steps of the thread (`HostWaits`), so that both results hold in the system
(`BytesAreNotLost`, `DigestsAreOfHeaders`).
`HeaderSent` says of the way into the FPGA that the midstate is the chaining
value of the first block of the header (`MidIs`: 64 of the 80 bytes, with one
tweak, wherever the header was cut), that the words which are in the registers
are the first of what was packed and poking leaves them as they are, that the
search starts with the last, and that the result is the nonce or nothing. From
it:

* `TargetArrives`: what was packed ends with the word of the target, in the
  order that the wiring undoes, for each algorithm (`PayloadEndsRight`).
* `SearchIsForTheHeader`: the registers side by side are what was packed
  (`WordsJoin`, an induction over the number of words by the set of those for
  which it holds); the parts of it that each bitstream looks at are those of the
  header and of the chaining value, after the host's conversions of words and
  the wiring's (`GroestlSees`, `SkeinSees`, `JhSees`); and with the padding and
  the tweaks that are constants in the Verilog they are the digest of the 80
  bytes as the definition gives it (`MinerHashes`), which by
  `DigestsAreOfHeaders` is the one that the host gets.

What TLAPS cannot reach and stays with TLC: every liveness property
(`EveryEntryDelivered`, `EveryThreadMovesOn`, `EveryShareIsSettled`,
`EveryScanEnds`, `LinesAreRead`, `HandshakeEnds` and the others that name
`~>`). Every safety property of the passing runs is the statement of a theorem.

## 6. What was found

1. `api_seturl_down`: the API's `seturl` ("Change pool url", `api.c:156`) has
   no effect while the current pool is unreachable. `stratum_thread` looks at
   `stratum_need_reset` in its outer loop only (`fpga-miner.c:2744`), not in
   the loop that retries the connection (2756).
2. `share_check_easy`: the check against hardware errors (`fpga-miner.c:3718`,
   "Check If Hash < Target Sent To FPGA") compares top words with their bytes
   swapped, and rejects valid shares once the top word of the target has more
   than one byte, that is for difficulties below about 1/256 (which pools for
   Groestl, whose difficulties are divided by 256, reach below 1).

Behaviour that the models show and that no doc of the repository contradicts;
most of it is among the hazards:

* The stale check (`fpga-miner.c:1176`) can discard a share of the pool's
  current block: `g_work` follows the job with a delay and is zeroed while it
  is rewritten. `FreshShareLostOnlyBeforePublication` says that this is the
  only way.
* A spurious wakeup of `tq_pop` in `workio_thread` ends the process
  (`StopsOnlyWhenAsked` names it).
* When `workio_thread` ends, the share it has given up on and all that are queued
  are lost (`ShareLife`).
* A pool that announces one job id for two previous blocks leaves `g_work` on the
  first, and shares of the second are discarded as stale.
* Ten failed reads after a nonce submit that nonce again.
* Four things can be taken for the answer to the authorization and let any user
  in: the answer to a share sent early, a request without an id that the client
  does not know, a malformed line, and a request whose reply the socket does not
  take. `SessionIsAuthorized` says that nothing else is.
* A reply to the pool that a full socket does not take is dropped, and the
  connection goes on.
* A line of which only a part could be written is continued by the next one that
  is sent, and reaches the pool as one line with it.
* A pool that uses one job id for more than two minutes idles the FPGAs that
  finish a scan.
* After an empty line of the pool, or after a read that gave up just before a
  newline, what follows the next line in the buffer is lost (`util.c:1109`).
* A closed connection leaves its descriptor's number in `sctx->sock`, and a
  share may be written to it before the next one (`util.c:1017`).
* The bitstream of `myr-gr` is sent no target and searches with the word of
  the nonce in its place, which is zero: it finds shares of difficulty one and
  above only.
* Between `seturl` and the reset a share goes out under the new account on the
  old session (`fpga-miner.c:1271` reads `rpc_user`), and a url that is not one
  of stratum clears `have_stratum` (3154), after which the FPGA threads end.
* An API client whose address is not allowed is never answered, nor its
  descriptor closed (`api.c:601-675`); an error of `accept` ends the API for
  good (593), and the process goes on without it.

## 7. What is not modelled

* Getwork, GBT, longpoll, JSON-RPC 2.0 and the CPU miner: `aws_miner_thread`
  refuses to run without stratum (`fpga-miner.c:3569`), `miner_thread` is
  never started. With them goes `scanhash_X` of every `algo/*.c`.
* The compression functions of `sha3/`, which are opaque in `HashStream`
  (they make up most of the lines of that directory: unrolled rounds and
  tables), the output sizes that nothing calls, and `addbits` with a part of a
  byte. The rounds of the Verilog hash modules: what matters to the scan is the
  depth of the pipeline (`NonceScan`), to the payload what goes in and comes
  out (`FpgaPayload`); that the depth in the source is that of the pipeline
  would need every register.
* The key monitor, option parsing other than `-o`, logging, statistics: no
  part of mining. Start-up is in the initial states.
* Of the API: parsing of the access list, the text of the replies, the
  websocket handshake.
* Failing allocations; undefined behaviour of C strings (`rpc_url` freed
  while it is compared); memory management.
* Rounding of doubles in `diff_to_target` (their overflow is modelled); `tq_thaw`,
  which nothing calls, and `tq_free`; a change of the size of
  extranonce2; coincidences of hashing and the wrap of the nonce counter.
* `hex2bin`, `bin2hex` and the JSON library's values; proxies and keep-alive of
  the connection; the AXI handshake, clocks and reset of the FPGA.
* Vendored libraries (`compat/`) and the sample API clients (`api/`).

The share of the repository's lines that the models stand for is small for
these reasons: it is dominated by hash rounds, and by the CPU, getwork and
JSON-RPC 2.0 paths of the miner that this one descends from, which do not run.

## 8. Plan

Done: the modules of section 2; proofs of every safety property of every module.

Next:

* Conversions on which the header depends (`hex2bin`, `le32dec`, the assembly in
  `stratum_gen_work`), against reference definitions.
