# Verification of ipc-bench

TLA+ specifications of the inter-process communication benchmarks in
`src/source`, their model-checking configurations, and machine-checked proofs.

## The system

Seven benchmarks, each a `server.c` and a `client.c`, time the same ping-pong
over different transports. In a round the server fills a block with the byte
0xAA (STC, server to client) and passes the turn; the client copies the block,
fills it with 0x55 (CTS) and passes the turn back; the server copies that and
takes a time sample. `-c` gives the rounds, `-b` the block size, and with `-D`
a process validates every block it has filled or copied and exits at the first
wrong byte.

| part | state it keeps | operations | carried by |
|---|---|---|---|
| `ivshmem-shm` | region and guard word in shared device memory | clear, greet, wait, notify, fill, copy | the guard word, spun upon |
| `ivshmem-uio` | the same, one pending interrupt per device | the same, read/look/self-ring, doorbell, reset | guard word and UIO interrupts |
| `ivshmem-usernet` | region, a bound and connected port | bind, clear, connect, signal, wait | driver signals only |
| `socket-tcp` | one connection | accept/connect, transfer loops | the byte stream |
| `socket-udp` | one socket | greeting, transfer loops | datagrams |
| `socket-tcp-shm` | a region, in a SysV segment or the device, and a connection | attach, one-byte tokens, remove | tokens on TCP |
| `socket-udp-shm` | the same, and a socket | attach, greeting, empty datagrams, remove | tokens on UDP |
| `common/ivshmem` | options | the waits and notifications of the first three, option parsing | |
| `common/sockets` | options | transfer loops, option parsing | |
| `common/common` | | validation | |
| `common/benchmarks` | extremes and sums of the samples | the clock, samples, the report | |
| `common/signals`, `common/process`, `common/arguments`, `common/utility` | | helpers that no program here links, apart from types | |

The two processes of a benchmark are started by hand, in either order. They
share memory or a channel and nothing else: no lock, no parent, no restart.
Several benchmarks may use one device at a time, told apart by `-i` only.
What is hard about them:

* the start: a greeting may be made before the other side listens, and the
  server clears the memory the greeting may already be in;
* leftovers: memory and interrupts survive the processes that made them, and
  the server of an earlier run may still have its segment to remove;
* the turn: nothing but the order of a few stores, interrupts or packets keeps
  one process out of the block while the other is at work in it;
* wakeups: an interrupt may come early, late, merged with another, or not at
  all, and says nothing about why it was sent;
* the network: a datagram that is the turn may be lost or come twice;
* places: where a region lies is arithmetic on `-i` and `-b` that nothing checks;
* ends: each side counts its rounds itself, and a side that stops early leaves
  the other waiting.

What makes a variant correct: no process touches the region while it is the
other's turn; every copy is one whole block, the one of its round; no wakeup is
lost; both processes finish when their counts allow it; and each variant
implements the same alternation of messages and replies. Beside that, no
benchmark writes into the region of another one, and the report's numbers are
what they are said to be.

## Modules

| module | models |
|---|---|
| `PingPong` | the abstract exchange: counters of messages sent, taken, replied and received, and their alternation |
| `Exchange` | what the shared-memory programs have in common: the two loops, `memset`, `memcpy` and `debug_validate` cell by cell, `evaluate` |
| `ShmGuard` | `ivshmem-shm`: `Exchange` with the guard word, `userspace_shm_wait`, `userspace_shm_notify` |
| `Uio` | `ivshmem-uio`: `Exchange` with the guard word and interrupts, `uio_wait`, `uio_notify`, `-R` |
| `Usernet` | `ivshmem-usernet`: `Exchange` with ports and signals, `usernet_intr_wait`, `usernet_intr_notify` |
| `SocketTcp` | `socket-tcp`: both programs over a byte stream, `socket_tcp_read_data`, `socket_tcp_write_data` |
| `SocketUdp` | `socket-udp`: both programs over a network of datagrams, `socket_udp_read_data`, `socket_udp_write_data` |
| `TokenShm` | what `socket-tcp-shm` and `socket-udp-shm` have in common: `Exchange` with a region each process attaches, segments that are made and removed, and tokens on their way |
| `TcpShm` | `socket-tcp-shm`: `TokenShm` with the connection and one byte as the token |
| `UdpShm` | `socket-udp-shm`: `TokenShm` with the greeting and empty datagrams, lost and duplicated, as the token |
| `ShmLayout` | where `main()` of each program places its region, `ivshmem_parse_args`, `ftok` |
| `Benchmarks` | `common/benchmarks`: `now`, `setup_benchmarks`, `benchmark`, `evaluate` |
| `MC*` | the instances TLC checks |
| `*Proofs` | the proofs about the module of that name; `CommonProofs`, about `Benchmarks` and `ShmLayout`; `SocketTcpProofs`, also about `PingPong` |

`ShmGuard`, `Uio` and `Usernet` each extend `Exchange`, so that the part of
`communicate()` that is the same in every variant is written once; what differs,
the launch, the greeting, the wait and the notification, is written out in each
module from its own `server.c` and `client.c`. `TcpShm` and `UdpShm` extend it
through `TokenShm`. The plain socket programs share no memory, and their buffers
are private: a block is the token, and what can go wrong is in the transfer
loops, so `SocketTcp` and `SocketUdp` stand alone. `ShmLayout` and `Benchmarks`
are about other questions than the exchange and stand alone too.

**State.** `pc[p]` is where process `p` is: `off`, then for the server `clear`
(main's `memset`), `meet` (the wait for the greeting), and in its loop `fill`,
`check`, `wait`, `copy`; `evaluate`, then `done` or `aborted` (the assertion of
`evaluate`). The client goes from `hello` to `wait`, `copy`, `fill`, `check` and
`done`. `mismatch` and `torn` are the two ways `debug_validate` ends a process,
on its buffer and on the region; `exited` is every failure before the greeting,
`broken` a socket call that fails in the loop. `message` is the server's loop
variable, `left` the client's `args->count`. `todo[p]` holds the cells the
current `memset`, `memcpy` or validation has not touched yet: each of those is
as many steps as there are cells, in any order, so the processes can be seen
inside the region together if the protocol lets them. A cell holds a byte and,
as history, the round that wrote it, so that a stale block differs from a due
one although their bytes are equal. `skew` is history too: 1 when the client's
greeting came before the server's (in `Usernet`, before the server cleared its
port).

**Steps.** A wait is one step that is enabled when its condition holds; a
notification is the store (and in `Uio` a second step, the doorbell). The
region is cleared while anything may be in it: `Init` allows any leftover
letter, byte and interrupt. The failures of `open`, `stat`, `ioctl`, `mmap` and
`malloc` are the actions `LaunchFails` and `MallocFails`.

**Devices.** The ivshmem device and the `usernet_ivshmem` driver are outside
the repository. They are modelled from their use: an interrupt travels
(`rung`, `coming`) and then is pending (`irq`, `pending`); UIO interrupts
coalesce; one that arrives for a device that is not open, or a port that is not
bound, may be lost. `ivshmem.h` says what the driver's calls do.

**Sockets.** In `SocketTcp`, `wire[p]` is what the kernel holds for `p`, at most
`Capacity` bytes; each `send()` and `recv()` moves any number of bytes that fits.
`left_size[p]` is what the transfer has still to move, with its `-1` subtracted
when a call returns EAGAIN (`Again`), after which the transfer starts before the
buffer. There it finds `Room` bytes of the process's memory, part of `buf[p]`,
which it overwrites (`Received`, `Overrun`), and beyond them none: a call that has
anything to move fails with EFAULT and the process exits (`InReach`, `Faults`).
The socket that `accept()` returns does not inherit `O_NONBLOCK`, so of the TCP
processes only the client can meet EAGAIN. Between the connection and the loop
`communicate()` calls `malloc()`: `ClientConnects` and `ServerAccepts` lead to
`begin`, from where a process goes into its loop (`ServerBegins`, `ClientBegins`)
or exits with the connection made (`failed`, by `Fails`); `accept()` may fail too.
A peer that has gone with bytes unread, or without accepting, resets the connection
(`Reset`; `norecv` and `nosend` are where a failed call leaves a process) or has
ended the stream, where `recv()` returns 0 and the loop goes round for ever: no
step. In `SocketUdp`, `net[p]` holds datagrams in any order; `Lose` and `Duplicate`
are the network's, with budgets; a read takes one datagram per call and drops what
is too long. A datagram that the kernel cannot copy is gone all the same. The
one-byte buffer of the handshake is on the stack, and a process that has written
before it may end at once (`Faults`); one that has written to the heap before its
block may be aborted by `free()` (`ClientLoop`, `ServerEvaluates`).
What a port nobody has bound is sent is gone. `-w` (MSG_WAITALL), `-d`, `-C`,
`-r` and `-s` change only how a stream is cut.

**Segments.** Without `-M`, `socket-tcp-shm` and `socket-udp-shm` work in the
System V segment that a key made of `-i` names. In `TokenShm`, `key` is the
segment the key names now, `made` the newest one, and `attached[p]` what `p` has
attached. `Attach` makes a segment if the key names none, so that its contents
are zeros, and attaches the one of an earlier run otherwise, with what is left in
it; `ServerRemoves` is the IPC_RMID at the end of this run and `EarlierRemoves`
that of the earlier run, whose server may still be about to do it while this
run's processes attach. After such a removal the two processes are `Apart`: the
server works in `region`, the client in `own`, which is otherwise not used
(`Own` is `Exchange` with the client's region). With `-M` (`isBackend`) there is
one region and nothing to remove. A server that aborts, or exits at a failed
call, leaves its segment behind.

**Tokens.** `tokens[p]` are the bytes or datagrams on their way to `p`. One byte
cannot be cut up, but the client's read with `-N` may ask for two (`Again`) and
swallow the one that comes (`Swallows`), which lands before `dummy_message` on the
stack and may as well end the process (`Strays`). The server's `accept()` is a step
of its own (`ServerAccepts`), before the `malloc()` that may fail: a connection that
was never accepted is reset when the server exits, one that was has ended. The reads of `socket-udp-shm` ask for no
bytes, so any datagram completes them, a second greeting too (`Waits`); with `-N`
one that meets EAGAIN goes on to ask for a byte at the address before NULL,
which is EFAULT and ends the process (`Faults`). `Lose` and `Duplicate` are the
network's and count in `lost` and `duplicated`.

**Layout.** `ShmLayout` has a process pair as one benchmark. `Product` is the
distance of its region from the end of the device; where the source has no
`sizeof` in it, it is an `int`, and one that does not fit is the value as it is or
the value wrapped, as the compiler likes. `intruders[b]` collects who has
written into `b`'s region since `b` last filled it.

**Times.** In `Benchmarks` a time is a number of clock units, a `bench_t` wraps
at `Word`, and a reading is rounded to a multiple of `Grain`, half to even, as
the conversion to `double` in `now()` does. The clock may be set back between any
two readings.

**Memory** is sequentially consistent. The programs include `x86gprintrin.h`
and build for x86 only, where a process's stores are seen in their order.

## Runs

| run | instance | shows |
|---|---|---|
| `ShmGuard` | 2 cells, counts -1 to 3 | in every order of starting, after every leftover: never both in the region (`NoDataRace`), every copy whole and due (`Agreement`), and what `-D` rejects, among it no fill just made (`Rejections`); implements `PingPong`; both processes finish |
| `ShmGuardRejects` | 1 cell, counts 1, 2 | expected violation, see Findings |
| `Uio` | 1 cell, counts 0 to 2 | implements `ShmGuard`, so nothing shown of it is lost; no lost wakeup; with `-R` every interrupt is a due one; both finish if the server greeted first, and a client that greets first is never served |
| `Usernet` | 2 cells, counts 0, 1, 3 | one token, never lost or doubled; never both in the region; every copy whole and due; implements `PingPong`; a greeting after the clear is heard and both finish; one before it is lost for good |
| `SocketTcp` | blocks of 3 bytes, 1 byte of memory before them, 2 in the kernel, up to 2 retries, counts 0 to 3 | without `-N` at the client blocks arrive whole and in their round, one at a time, `PingPong` is implemented and both finish; with it, once a read has asked for too much or written before its buffer, its round is never completed |
| `SocketTcpHangs` | blocks of 2 bytes, 1 byte before them, 1 retry, count 1 | expected violation, see Findings |
| `SocketUdp` | blocks of 2 bytes, 1 byte of memory before them, up to 2 retries, counts 0 to 3, a network that delivers | blocks arrive whole; implements `PingPong`; both finish once the greeting is heard; a client that greets first is never heard; with `-N` a read that met EAGAIN is never completed: it reads on or its call fails |
| `SocketUdpLossy` | blocks of 2 bytes, 1 byte before them, one retry, counts 1 and 2; one datagram lost, two of each kind duplicated | how far a side gets ahead, what `-D` can notice, stalls are final |
| `TcpShm` | 1 cell, counts 0 to 2, 1 retry | one token, which only `-N` loses; in one segment every copy is due, in two each process copies its own bytes and `-D` finds out by the client's second copy; implements `PingPong` either way; both finish and leave no segment behind |
| `UdpShm` | 1 cell, counts 1, 2; one datagram lost, one duplicated, 1 retry | tokens are one more than the duplicates at most; without a duplicate never both in the region and every copy due; without either both finish |
| `ShmLayout` | 2 benchmarks, a device of 24 bytes, sizes 2, 4, 8, indices -2 to 4, `INT_MAX` 15, 4 values of `-i` that `ftok` tells apart | which benchmarks never write into each other's regions or leave the device |
| `Benchmarks` | counts -1, 1, 3; words of 64, a grain of 4, `INT32_MAX` 5, a clock that gets to 14 | the extremes are of the samples, the variance is not negative, the rounds do not add up to more than the total |

Blocks of 2 or 3 bytes with 2 in the kernel are enough for every transfer to be
cut at each place, and for a retry's extra byte to be one the peer has not sent.
One byte of memory before the buffer (`Room`) and two retries are enough for both
things a retried read may do, to overwrite that memory and to fault beyond it. In
`SocketTcpHangs`, with one retry, it cannot fault: what hangs there does so by the
count of bytes alone.
With two duplicated greetings and blocks of 2 bytes, greetings alone are worth a
whole reply.

Two cells are enough for a block to be torn: a copy that mixes two blocks, or a
fill that is seen half done, needs one cell of each. Where there is one cell a
filling or copying process is still seen before and after its step, so that two
processes in the region are seen there together; for larger regions there are
the proofs, which hold for any. Three rounds are enough for a late token or
interrupt of one round to be taken for that of the next or of the one after it;
equal, smaller and larger counts on either side cover the ways the loops can
end. `Counts` includes 0 (and in `ShmGuard` -1), for which the server aborts in
`evaluate`. Two benchmarks are enough to intrude on each other, since
`Intact` speaks of pairs; in the small `ShmLayout` products that leave the
device, that exceed `INT_MAX` and that wrap into it again all occur, and in
`Benchmarks` samples above `INT32_MAX`, sums that wrap, and clocks that are set
back below a start.

`CHECK_DEADLOCK FALSE` is set in every run of the programs: they end, and with
unequal counts one of them really is left waiting; where they must not stop is
what the liveness properties say. `ShmLayout`, whose benchmarks may be started
again and again, is checked for deadlock.

**Fairness.** Each process that runs keeps taking steps (weak fairness of
`ServerStep` and of `ClientStep`): both spin or sleep in calls the kernel
returns from. Nothing makes a user start a process, so launches are not fair;
neither are failures, losses, duplicates, nor the end of the earlier run. An
interrupt on its way arrives (weak fairness of `Deliver` and `Arrive`). The
liveness properties are conditional on what the code needs: both have greeted or,
with TCP, have got past their `malloc()` (`BothBegan`, `Finishing`), the client has at least the server's rounds for the server to
finish, at most the server's for the client to; and in `TcpShm` and `UdpShm` that
no `-N`, and in separate segments no `-D`, ends a process before.

## Findings

`ShmGuardRejects`. In `ivshmem-shm` a client that is started before the server
stores `'s'`, has it overwritten by the server's `memset` or greeting, and takes
the greeting `'c'` for its first message. With `-D` its validation fails at
once ("Validation failed after recv()!", `common/common.c:9`); without it both
run on, the client one round ahead, and copies zeros as its first message.
`ShmGuard` shows that this is all that happens: the region is still never
shared, every later copy is whole and exactly one round behind, and the server
never rejects anything. In `ivshmem-uio` the same start ends in a stall
(`ClientFirstStalls`), and so does the corresponding one in `ivshmem-usernet`
(`LostForGood`).

`SocketTcpHangs`. `sockets.c:209` lets EAGAIN pass so that the call is repeated,
and `-N: Non-block mode` is offered by the usage text, but `left_size - ret` with
`ret == -1` makes `left_size` grow. From then on the client asks for more bytes
than the block has, and writes the first of them before the buffer; the server
sends nothing more until it has its reply. The read goes on for ever, unless after
more retries it stands beyond the heap when bytes come: then `recv()` fails with
EFAULT and the client exits. Either way the round is lost, and so is the server,
which is never done with it (`OverdrawnForGood`). That also covers a client that
has already overwritten what `malloc()` keeps before its buffer: it never gets to
the `free()` that would notice. The UDP loops do the same (`RetryStalls`).

What follows is not a run of its own, for no text of the repository says
otherwise, but a reader of the models should know it.

* There is no file `shmem` in the repository, so that `ftok("shmem", -i)`
  returns -1 unless the user makes one, and every `-i` then names the same
  segment: `ShmLayout` calls two such benchmarks compatible only if there is the
  file and their keys differ.
* The usage of `common/sockets` offers `-f`, the one of `common/ivshmem` `-S`,
  to force a size; neither letter is in the string given to `getopt`, so that a
  program given one prints its usage and exits. No model has a forced size.
* A duplicated token in `socket-udp-shm` lets both processes into the region
  (`UdpShm`'s `OneToken` is an inequality for that reason). A lost one is never
  sent again.
* Around the end of an earlier run, the processes of the two `-shm` programs may
  attach different segments. The exchange then goes on as if nothing were wrong:
  each process copies what it has itself written, and only `-D` notices.

## Proofs

Everything in this section holds for every region, all counts and any number of
retries, interrupts and datagrams. Every invariant is shown the same way: a
strengthening `IInv` that the initial states satisfy (`InitInv`) and every step
preserves, one lemma per action (`...Inv`) with one step per part of `IInv`,
combined in `NextInv`. Each module's `TypeCorrect` follows from it; `IInv` has the
type invariant among its parts.

`PingPong` is no run of its own: the other runs check that it is implemented, and
`SocketTcpProofs` ends with the alternation for any number of rounds
(`Alternates`): with the fact that nothing is counted before the meeting it is
inductive.

`ShmGuardProofs` proves `TypeCorrect`, `RaceFree`, `Agreed`, `Accepted` and
`Implements` (the invariants and the refinement of the run `ShmGuard`). None of
the invariants is inductive as it stands: that the processes are never in the
region together rests on whose turn the guard says it is, and that in turn on
what each process has done so far. `IInv` adds

* `TurnInv`: which letters and which positions of the peer go with each
  position. An active client implies the letter `c` and a passive server, an
  active server implies `s` and a waiting client; a client that has greeted a
  server that has not finds anything but `c`, which is why the start is safe
  after every leftover;
* `CountInv`: once both have greeted, the client's replies are the server's
  messages plus `skew`, less one while the letter is `c`;
* `TodoInv`, `RegionInv`, `BufInv`: what the region and the buffers hold in each
  position, cell by cell while a process is at work.

The refinement needs `IInv` in both states: `RefinesNext` maps each step to
`Meet`, `Send`, `Take`, `Reply`, `Get` or a stutter.

`UioProofs` proves that `Uio` implements `ShmGuard`: every step is the step of
the same name there, or one with interrupts, which leaves the region, the guard
and the program counters alone. No invariant is needed. `RaceFree` and `Agreed`
follow for `ivshmem-uio` from `ShmGuardProofs`, which is instantiated there. What
`ivshmem-uio` adds are the interrupts, and `NoneLost`, `AllForMe` and `FirstStalls`
(the run's `NoLostWakeup`, `EveryInterruptIsForMe` and `ClientFirstStalls`) are
about them. They rest on an invariant of their own, `IntrInv`, beside the one that
is inherited (`GuardInv` says what of it is used):

* `WakeInv`: a process whose letter is in the guard, unless it is just looking
  at it, has an interrupt pending or travelling, or its peer stands before the
  `write()` that rings. The client's first wait is the exception, for nobody rings
  for the server's greeting;
* `FreshInv`: before anybody has rung for a process, what its device holds is an
  earlier run's, and with `-R` only until the reset;
* `DueInv`: with nothing left over and the server first, an interrupt exists only
  where the letter is the one its process waits for, and there is one, so that
  `uio_wait()` never rings its own process;
* `StallInv`: a client that was first sleeps, and the server waits for it.

`UsernetProofs` proves `RaceFree`, `OneTokenAlways`, `Agreed` and `Implements`
for `ivshmem-usernet`, where no word in memory confirms an interrupt. What
carries the invariant is a count, `Total`: the interrupts coming or pending at
either port, the client in the region, the server in it or past it. `TurnInv`
says that it is at most 1 once the client has greeted and the server is
connected, and 0 only if the client has finished or its greeting was cleared
away. To get there, `PortInv` says how far each port is at each label,
`BeforeInv` that what an earlier run left is gone from a port that was cleared
before anybody has sent anything, and `EarlyInv` follows a greeting that is sent
before the server's port is ready, which `IOCTL_CLEAR` drops or keeps. `Lost`
(`LostForGood`) is the other side of it: with a greeting cleared away the state
has no step that sends anything.

`SocketTcpProofs` proves `OneBlockAtATime`, `BlocksArriveWhole`, `Implements` and
`Overdraws` (the run's `OneBlock`, `WholeBlocks`, `PingPongSpec` and
`OverdrawnForGood`) for blocks and kernel buffers of any size. While no call
returns EAGAIN, `TurnInv` accounts for one block: whose turn it is, the other
direction is empty, and what the reader still wants is what is on the connection
and what the writer has left (`Sending`, `Passed`, `Replying`, `Answered`).
`BlockInv` says that the bytes on the connection and the part of the buffer already
read are the block that is due. `Appended` and `Removed` are the lemmas about the
sequences that `send()` and `recv()` work on. With EAGAIN none of this holds: a
retried read wants too much, and a retried write may send a byte too many.
`RetryInv` keeps what is left of it, that a read never wants less than what is still
to come, in four cases: the client is due a message, or replies, or is due the next
while the server still reads, or, where the kernel's buffer is smaller than the block
(`Slack`), has got away with a reply too early (`Excess`). `Overdraws` follows. It
is about two things that last: a read that wants more than is still to come, and a
heap that has been overwritten, which only such a read does. From either the client
can read on, fail with EFAULT or be reset (`RoundLost`), and whatever it does the
server has its reply to wait for; no step completes the round.

`SocketUdpProofs` is about a network that loses and reorders datagrams, any number,
and duplicates up to `MaxDuplicated` of each kind. Proved for every
`MaxDuplicated` are `LeadsBounded`, `Rejections`, `Stalls` and `FirstStalls`
(`LeadBounded`, `RejectionsNeedGreetings`, `StalledForGood`, `ClientFirstStalls`).
`LeadBounded` is not inductive, for it says nothing of what is still on its way.
`LeadInv` counts that too: messages received and travelling were sent or
duplicated, and for the server, whose loop counts bytes and takes a late greeting
for the first byte of a reply, so were the bytes of the replies counted, of the one
being read (`Brought`) and of what travels (`Weight`). `DataInv` says what
datagrams there are, `GreetInv` that only a second greeting can put a byte into a
reply that is none. `Grown`, `Shrunk` and the lemmas about `Tally` say what sending
and removing a datagram at any place does to a stream and to the number of its
datagrams of a kind. `Stalls` needs no invariant, `FirstStalls` only that what has
become `Unheard` stays so.

With `MaxDuplicated = 0`, as in the run that checks them, it proves
`BlocksArriveWhole`, `Implements` and `RetriesStall` (`WholeBlocks`,
`PingPongSpec`, `RetryStalls`), with anything lost. They do not hold otherwise:
a duplicate completes a read that is due something else, or that has met EAGAIN.
`TurnInv` says that the datagrams on their way and the processes about to send are
one (`Total`), or none once the token is lost or a read has met EAGAIN. What
`RetriesStall` shows to last is `Stuck`: a read that wants more than its block, or
one that has swallowed the only datagram, which a fault may turn into `Failed` but
nothing that still comes into a complete one.

`TcpShmProofs` proves `OneTokenAlways`, `Agreed` and `Implements` for
`socket-tcp-shm`, and `UdpShmProofs` `OneTokenAlways`, `Apartness`, `Agreed` and
`Implements` for `socket-udp-shm`, the last for every behaviour in which nothing is
duplicated. Besides the turns and counts, `IInv` there says that the key
names a segment of this run from the moment one is made to the server's report
(`SegmentInv`), so that there is one such segment and two processes are apart
only if one of them has an earlier run's; and it describes both regions,
the server's and the client's own, for the case that they are (`RegionInv`,
`OwnInv`). In `UdpShmProofs` the tokens come first: `TokenInv` bounds them by the
duplicates whatever else goes wrong, and needs only that nothing is sent before
the client's greeting (`Fresh`). The rest of `IInv` is conditional on
`duplicated = 0`, under which `Holding` says that whoever has the token is alone.

`CommonProofs` is about the two modules of `common/`. Of `ShmLayout` it proves
`NeverDisturbed` (the run's `Intact`) for any number of benchmarks, sizes, indices
and devices: `Placed` says that a running benchmark has its region where its
product says, and `ProductsGrow` that regions counted back from the end do not
overlap when no farther one is smaller. The module
extends both, which is why the names of `ShmLayout`'s specification are its own
(`LayoutSpec`).

Of `Benchmarks` it proves `ExtremesRight`, `Variance` and `TotalRight` (the run's
`MinMax`, `SigmaReal` and `RoundsWithinTotal`) for any word, grain and counts.
`Sums` keeps `exact * exact <= message * squares`, the inequality of Cauchy and
Schwarz one sample at a time; `Timed` keeps the exact sum below the rounded time
passed since the start while the clock has not been set back, for which it is
needed that rounding is monotone.

The assumptions are those the modules state: `Counts` are integers, the guard word
is no cell of the region, the segments of `TokenShm` are not empty (a size of 0
fails in `shmget` and `mmap`), sizes and the kernel's buffers are positive, the
memory before a buffer (`Room`) is any number of bytes, words
and grains are numbers, and the clock does not get to the end of a word. The only
hypothesis beyond them is `MaxDuplicated = 0` where it is said above.

Model-checked only: liveness, that is `BothFinish` of the seven variants, which
rests on fairness that no prover here can use. Every invariant, action property
and refinement that a run checks is a theorem as well. The two properties that runs
refute, `Validated` and `NonblockFinishes`, are of course none.

## Plan

1. The seven variants, `ShmLayout` and `Benchmarks` (done), with proofs of the
   safety of all of them (done).
2. The `errno` that `uio_wait()` tests, with the calls before it that set it.
3. A pair whose two processes were given different `-b`, in one module with
   `ShmLayout`.

## Not modelled

* A block size of 0, and a pair of processes with different `-b` or `-i`.
* Data lost inside a TCP connection, or a host that fails; a process that is
  killed, or started again while the other still runs an earlier exchange. Of an
  earlier run only what it leaves and its last step, the removal, are modelled.
* The square root and the divisions of doubles in `evaluate()`, and its wording:
  what is checked is that they are of numbers that make sense.
* The `errno` that the loop of `uio_wait()` tests after a successful `read()`:
  the loop is taken to go on, which it does as long as nothing before it has
  left another error.
* `common/signals`, `common/process`, `common/parent`, `common/utility`, the
  helpers at the head of `common/sockets`, and the parsing in
  `common/arguments`: no program of this tree calls them, so nothing says how
  they are meant to be used together.

See `PROJECT.json` for every component and every hazard, covered or not.
