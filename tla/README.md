# Verification of tdcreader

tdcreader reads a TDC over TCP and records it to files that each hold the same
number of spills.  This directory holds TLA+ models of its concurrent and
stateful parts, TLC configurations that check them on small instances, and
TLAPS proofs for every value of the constants.

`tlc -config X.cfg M` checks a run, `tlapm M.tla` a module with proofs.
`PROJECT.json` lists the runs, for each property a mutant of the model that
violates it, and the source lines every definition stands for.

## 1. The system

| Part | Files | State | Operations |
|---|---|---|---|
| run control | `dtmain.cxx`, `daqtask.cxx` | the static `c_state`; `m_is_done`, `m_is_good` of each task; the threads | start, clear flags, wait, decide, `run` / `idle` / `end` from the console, join |
| data path | `dtavant.cxx`, `dtrear.cxx` | `g_avant_depth`, the PUSH and PULL sockets, the buffers in flight | allocate, read, send; receive, write; open and close with the state |
| splitting into files | `be.cxx`, `benb.cxx`, `thtdcreader.cxx`, `dtrear.cxx`, `dtrearhul.cxx`, `fctreader.cxx` (six copies, four forms) | the open file, spill count, the unwritten rest of a block | find a marker, stamp it, change file, write the rest |
| two process variant | `fe.cxx`, `be.cxx`, `benb.cxx` | a ZeroMQ connection over IPC or TCP | read and send; receive and split |
| two thread variant | `thtdcreader.cxx` | `g_state`, `g_avant_depth`; two sockets and the connection, which live in `main` | as the data path, without the task classes; connect again, delete the connection, join |
| single thread variant | `fctreader.cxx` | the connection and the file | read and split |
| thread controller | `kol/kolthread.cpp` | `m_running`, `m_threadid`, `m_mutex`; `m_threadid` and `m_delthreadid` of each thread object | post, done, delthread, destroy |
| TCP stream | `kol/koltcp.cpp` | the two buffers, `m_gcount`, `m_iostate` | get, read, ignore, getline, put, write, flush, close |
| sockets | `kol/kolsocket.cpp` | the descriptor | wrappers that throw; copies duplicate the descriptor |
| register access | `rbcp/udpreg.c` | the request counter, a UDP socket with a timeout of 3 s | read, write, a sequence of 128 writes |
| small things | `kol/koluri.cpp`, `filename.cxx`, `dtfilename.cxx`, `zportname.cxx`, `mstopwatch.cxx`, `dummy*.cxx`, `fctcheck.cxx`, `unused/` | - | parsing, formatting, clocks, test programs |

How they interact.  `main` of dtmain makes one DTavant and one DTrear, starts a
thread for each, and steers both through `c_state`, which everybody reads
without a lock.  Each thread runs `state_machine()`: it switches on `c_state`,
calls `st_init`, `st_idle` or `st_running`, and looks at `c_state` again.
DTavant's `st_running` allocates a buffer, counts it in `g_avant_depth`, fills
it with `TcpBuffer::read` and gives it to a ZeroMQ message; the buffer is freed,
and the counter decremented, when the last user of the message drops it
(`buf_free`), which may be DTrear's next `recv` or ZeroMQ itself.  DTrear's
`st_running` receives and calls `write_data`, and leaves only when the state has
changed and the counter is zero.

What is hard to get right by testing: the start (threads run before their flags
are cleared), the stop (two tests in each thread, in opposite orders), failures
that leave a buffer counted, sockets that are opened again next to the remains
of the last run, the splitting loop that changes the pointers it iterates over,
deletion of a thread object by a thread which that object created, a stream
with two ways past its buffer, descriptor numbers that are copied and used
again, and answers that come after their timeout.  `PROJECT.json`, "hazards",
lists these with their lines and the properties that cover them.

## 2. The modules

    BlockRecorder   what a recorder promises               (abstract)
      ^ implement
    Pipeline        DTavant, DTrear, their sockets and main's commands
    FrontBack       fe processes and be or benb, killed and started again

    Tasks           the tasks in main's vector
    TaskControl     main and state_machine(), the start in detail
      ^ implements
    Dtmain          the program: TaskControl around Pipeline

    ReaderThreads   the two threads and main of thtdcreader
    SpillWriter     one block after another is split into files
    ThreadController, TcpBuffer, Descriptors      the kol classes with a protocol
    Rbcp            udpreg, the network and the device

### TaskControl

One variable for each shared variable of the code, `pc[t]` for where the thread
of task t is in `state_machine()`, `main` and `k` for the statement and the
loop index of `main`.  Each access to a shared variable is a step of its own:
the variables are plain `int` and `bool`, so no two accesses are atomic
together.  (Formally they are data races; the model takes each access to be
atomic and in order, which the compilers' treatment of the calls in between
gives, and does not cover a compiler that keeps `c_state` in a register.)
`m_is_good` starts with any value, as the constructor leaves it.  `st_running` is
only time here: it may end at any moment, and Dtmain says when it does.

- `InitQuiescent`: the wait of `main` is a barrier, although a task may
  initialise twice because its flag is cleared after it has been set.
- `OutcomeIsFinal`: the connection that `main` saw is the one the run uses.
  `RunsAfterInit`, `RunsOnlyIfGood` (proved): nothing runs that has not been in
  `st_init`, or after a verdict that is not good.
- `NoFalseAlarm`: "Initialization fail!" is only said of a real failure, also
  when the flag was never initialised or an early `st_init` was overtaken.
- `StartIsDecided` (liveness): `main` gets to its console or returns.
- `FailureNoticed` is what the branch at `dtmain.cxx:89` is for.  The code does
  not provide it: run `control_noticed` shows a connection failure before
  `clear_is_good()` and a run that starts without a connection.  TaskControl's
  other properties are checked where they have to hold, in Dtmain.

### Pipeline and BlockRecorder

A block is `[run, seg]`: the socket it was sent through and its number.  The
buffers that exist are in exactly one of `buf` (DTavant's hands), `queue`,
`held` (DTrear's message object, which keeps its buffer until the next `recv`)
and `leaked`; `g_avant_depth` is a variable of its own, changed where the code
changes it.  The pipes of all PUSH sockets are the set `queue`, ordered by
`seg` within a run; `peer[r]` says whether the pipe of socket r waits for a
receiver, has one, or lost it.  The two operands of the test at
`dtrear.cxx:145` are two steps.  Failures (`MaxFaults` of them): allocation,
read, send, and a `recv` of DTrear that throws (`RearRecvFail`): DTrear goes around its
loop whether or not messages wait, with or without the last one in its hands.

Assumed of libzmq, and marked external in the map: a sender that connects
before the receiver binds keeps its messages and is attached by the bind; a
closed receiver's name is free again at once (optimistic, see section 5); messages that wait in a closed
receiver's pipes are destroyed with it; a sender whose receiver has closed may
still put messages into a pipe that is being torn down, or blocks; messages of
a closed sender stay until they are received (linger).

- `DepthAccounting`: the counter is the number of existing buffers, in every
  state.
- `DrainedBeforeLeaving`: DTrear's decision to leave, made by a test read after
  the other one, is taken only in a state without buffers.
- `OneFate`: every block begun is on its way, stored once, dropped or leaked.
- `Implements`: the data path implements `BlockRecorder` under
  `accepted <- segs, transit <- Transit`, `recorded` being the same variable.
  That the blocks of a run are stored in order, `InOrderOfRun`, follows from it
  (theorem `RunsInOrder`).
Run `pipeline_read_error` shows what the code does not provide: a failed read
leaks a counted buffer and the program never ends.

Two more things the model contains, and the properties leave room for.
DTavant, past its test of `c_state` (`dtavant.cxx:131`) but not yet counting
(`:141`), is invisible to DTrear: DTrear may close its socket, and the block
DTavant then reads is dropped (`lost` in `OneFate`), or waits in a send that
nobody serves (`Stranded`).  And after an `idle` and `run` that both fall within
one of DTrear's polls, the blocks of two runs wait in two pipes and are received
in turn, so the order is promised for each run, not across runs.

### Dtmain

The composition.  Pipeline's variables are Dtmain's; TaskControl is an instance
that shares `c_state`, `k` and the tasks' flags, and whose `main` is `start` until
the run begins and Pipeline's `main` after that.  A thread that is in `st_running`
is at Pipeline's `avant` or `rear`; outside of it at TaskControl's `pc`, and each of
the two reads of `c_state` in `state_machine()` is one step of both.  `connected`
is DTavant's pointer `tcp`, which its constructor does not initialise
(`dtavant.cxx:57`); `crashed` says that it was used all the same.

- `ImplementsControl`: whatever the data path does, the program implements
  TaskControl, so `st_running` begins and ends where the run control says.
- `Implements`, `DepthAccounting`, `DrainedBeforeLeaving`, `OneFate`: Pipeline's
  properties, now with starts that fail, states that a thread sleeps through in
  `state_machine()`, and an `st_idle` between two runs.
- `InitQuiescent`, `NoFalseAlarm`, `OutcomeIsFinal`, `StartIsDecided`: TaskControl's.
- `WildOnlyIfOverlooked`: the pointer is used without a connection only after the
  failure that `clear_is_good()` wiped out (finding of `control_noticed`), although
  `st_init` may run twice and assign it in one of the two.
- `ProgramEnds` (liveness): after an end command, or a start that failed, both
  threads end and `main` returns, unless a buffer was leaked, DTavant is in a send
  that no receiver will serve, or the program has crashed.

A second `st_init` of DTavant leaves the first connection open (`dtavant.cxx:78`
overwrites the pointer).  The device would have to accept two; the model lets
the second one fail or succeed.

### FrontBack

The two program form: any number of `fe` processes, one at a time for each
detector, and one back end at a time, `be` or `benb`.  A block is
`[run, seg]`, its process and its number.  `pipe` holds the messages in the
sending sockets, `wire` those the kernel or the receiving socket has; `HandOver`
moves the oldest of a sender from one to the other while a back end is bound.
A process that ends takes what is on its side with it, and it may end anywhere:
neither `be` nor `benb` has another end than a signal or a crash, and `fe` only
after a failed allocation or read.  `recv` may throw: `benb` tries again, `be` goes on
with what is in its message object, the last block or nothing, and the latter
wraps `message.size() - 4` around (`back = "wild"`).

- `Implements`: BlockRecorder again, `transit` being everything on its way: nothing
  is written twice and the blocks of a process in order, through all restarts.  The
  one exception is the step in which `be`, after a `recv` that throws, writes the last
  block of the files again (`WrittenAgain`).
- `GapOnlyAtRestart`: what one back end writes of one `fe` process has no hole.
- `Delivered` (liveness): while there is a back end, every block is written or goes
  with its process.
- `FrontEnds` (liveness): an `fe` that has left its loop ends, unless no back end is
  there; it then waits without a limit, as a ZeroMQ context with the default
  linger does.

Seen on the way, and outside of the properties: the committed `benb.cxx:16-20`
writes to `/dev/null`; `zportname()` names `tcp://*:port` above 1024, which `fe` cannot
connect to (`fe.cxx:50`), so FrontBack has the Unix domain socket only; `fe`
derives its id from the default address before `-h` is read (`fe.cxx:105-107`).

### SpillWriter

A position is a byte of the stream; pointers are positions, and a write is an
interval of them.  `Init` chooses the form of the loop and where the markers are,
`Receive` where each block ends, so the runs see every stream and every division,
with any number of markers in a block.  `be`, `benb` and `thtdcreader` have one form,
`fctreader` a second (word by word, one pass), `dtrear` and `dtrearhul` one each.  The marker
is looked for in the words of a block, in dtrearhul at every byte; `whole` collects
the markers that can be found so, and leaves out those a block's end divides and
those that lie across the words of a block whose beginning does.
The variable `i` is the index of the `for` loop, which goes on while `data`
moves: that is the delicate part.

- `Contiguous`: the plain forms (be, fct) write exactly the stream, in order and
  once.
- `AllWritten`: between blocks every byte received lies in some write, in all four
  forms; `dtrear` and `dtrearhul` write some twice, but leave none out.
- `OnlyShortSpillsMissed`: every marker that can be found is stamped, with one
  exception, which is what the index that goes on amounts to: the marker lies in
  a stamped write right behind another one, and ends a spill no longer than the
  one before it.  `fctreader`, which counts anew, has no exception.
- `ClosedFiles`: a closed file has exactly `nspill` stamps, and with `fctreader` exactly
  `nspill` markers.
- `LoopEnds` (liveness): the loop comes to the end of each block.

Three things the loop does not do, which the properties leave out or a run shows:
- `FilesHoldNSpill` fails (`spill_overfull`): a block of `be` with three markers, the second
  of them passed over, gives a file of three spills where nspill is two.
- `StreamKept`, of which `Contiguous` is the part that holds, is false of `dtrear` and
  `dtrearhul`: after a marker inside a block the one writes the first bytes of the
  block again, the other the rest, which its next pass writes once more
  (`LeftoverWrite`; `dtrear.cxx:281-284`, `dtrearhul.cxx:315-318`).
- A marker that is not in `whole` gets no time: the loop looks at one block at a time.
  For `dtrear` that is every marker that lies across the words of its block, and `-b` takes
  any number of bytes as the size of a block (`dtmain.cxx:44-46`).  Such blocks are
  in the runs.

### ThreadController

The owner posts `Thread` objects; each runs, creates its deleter and notes its
id; the deleter joins the previous deleter and the thread, and deletes the
object under `m_mutex`.  The owner is the only one who posts.  The thread id
of an object is stored by `pthread_create` before the thread runs, as glibc
does.  Thread creations may fail.

- `NoUseAfterDelete`, `NoUseAfterDestroy`, `AllDeleted` (proved): objects and
  controller outlive their users.  `JoinedOnce`: no thread id is joined twice; a deleter
  whose id is noted too late is joined by nobody.  `CountExact`: the count,
  which is incremented after the thread may already be deleted, is right
  whenever the owner is not between the two.
- `DestructorEnds` (liveness): it returns, unless a creation failed.

### TcpBuffer

Bytes are named by position in the user's or the peer's stream.  A `recv` or
`send` that throws, a `send` that gives up, a closed socket and the
destructor are included; a call that throws leaves the buffers as the code
leaves them.  The loops of `read`, `ignore`, `getline` and `recv_all` take a step for each
byte or piece and count in a variable of their own, as in the code.  One thread
uses the object, as everywhere in the repository.

- `OutputInOrder`, `AcceptedNotLost`: `put` and `write` mixed keep their order;
  an exception loses nothing that had been accepted (it may repeat it).
- `InputInOrder`, `GcountExact`, `EofIsTheEnd`: `read` past the buffer and
  through it, `get`, `ignore` and `getline` see one stream; what the loops have
  counted is how far the stream has moved since the call began (history
  variable `before`), although every `get` inside them sets `m_gcount` too; the
  end is exact.

One observation has no run: `while(tcp.read(...))` at `fctreader.cxx:121` does not
end with the stream, because `read` sets only `eofbit` (`koltcp.cpp:90`) and the
conversion looks at `failbit` and `badbit` (`koltcp.h:45`).

### ReaderThreads

thtdcreader is the older sibling of the data path, and differs where it matters:
there is one PUSH and one PULL socket, both owned by `main`; `avant_run()`
connects again each time it is entered (one more pipe), `rear_run()` binds; the
threads test `g_state` in a chain of `if`s, each test a new read; `main` runs a fixed
sequence (IDLE, RUNNING, IDLE, END), closes and deletes the connection and then
joins.

- `DepthAccounting`: as in Pipeline, with any number of pipes.
- `BindsOnce`: the second bind, which would throw and end the program, never
  comes, because `main` sets RUNNING once and rear leaves only after that.
- `InOrder`: while there is one pipe; after a failure `avant_run()` adds another.
- `AtMostOneLate`: when rear has ended, at most one block is left behind.
- `MainEnds` (liveness): `main` ends, unless a buffer leaked or rear slept through
  the run.
- `ConnectionExists` fails (`reader_end`): the connection may be deleted while
  avant reads from it, without any failure.

### Descriptors

The descriptor a `kol::Socket` owns, through construction, copies (`dup`),
`accept`, assignment, `create`, `close` and destruction, for objects of different
threads.  The kernel's table is a variable; a number that is free may be given to
any object at once, and the step between `::close` and the next value of `m_sd`
is there.  Each object is used by one thread at a time and the source of a copy
stays alone while it is copied: the code has no lock, so this is the caller's
duty, and the model takes it as kept.

- `OwnConnection`: what `m_sd` refers to is the object's own connection.
- `OneOwner` (proved): no two objects hold one descriptor.
- `NoLeak`: every open descriptor has an object that will close it, also when
  calls fail on the way.

`operator=` leaves an invalid object when `dup` fails, and does not tell.  Names
such as `SdInit` and `SdSpec` tell the module's from ThreadController's in KolProofs.

### Rbcp

Requests are numbered; the network may lose, delay and reorder them and their
answers.  The program takes the next datagram for the answer.

- `InStep`: until a receive fails, every answer is the request's own.
- `FewLate`: there are never more late answers about than receives that failed.
- `TakenOnce` (proved): no answer is taken for two requests.
- `IdsTell` (proved): a wrong answer carries another id than its request, so the
  comparison that the program does not make would find it.
- `ProgramEnds` (liveness): because of the timeout, whatever the network does.

## 3. Runs, bounds, fairness

| Run | Bounds | Why they are enough |
|---|---|---|
| `dtmain` | the two tasks, 3 blocks, queue of 2, 2 console commands, 1 failure in the data path; failures of `st_init` have no bound | a full queue, a third block behind it, up to four sockets on each side, and every interleaving of the start |
| `control_noticed` | the two tasks of dtmain, no other bound | the state space is complete |
| `front_back` | 2 detectors, 3 blocks, a pipe and a wire of 1 message, 3 starts of `fe`, 1 kill, 1 failing call; back ends are started whenever there is none | a full pipe behind a full wire, an `fe` after another for one detector beside a third, a back end after another that was killed and one that crashed |
| `pipeline_read_error` | 2 blocks, queue of 1, 1 failure | the smallest that shows the behaviour |
| `reader`, `reader_end` | 3 blocks, pipes of 2, 2 failures (none in `reader_end`) | `avant_run()` is entered three times, pipes fill, a block is late |
| `spill` | streams of 8 bytes, words and markers of 2, nspill 2, blocks of every length | a block with three or four markers, or two and a rest; a third file; markers that a block divides or that lie across its words |
| `spill_overfull` | the same stream, be with blocks of 6 bytes | the smallest that shows the behaviour |
| `controller` | 3 threads, 1 failed creation | a deleter that joins a deleter that joins a deleter |
| `tcp` | buffers of 2, streams of 5 and 4, 1 failure | a buffer that fills, is used up and refilled, and a rest |
| `rbcp` | up to 5 requests, 5 ids | a read, a write and a sequence of three, with as many late answers |
| `descriptors` | 3 objects, descriptors and files, symmetric | a copy of a copy, and numbers that run out |

`CHECK_DEADLOCK FALSE` stands where the program or the input really ends.

Fairness is weak fairness of each thread: the operating system runs a thread
that can run.  In Dtmain it covers `main` but not the console, and DTavant's read,
so `ProgramEnds` assumes a detector that sends (or `--dummy`); DTavant waits in that
read without a timeout (`dtavant.cxx:150`).  Failures, the loss of a message and
the user's commands are never forced.  In FrontBack it covers the steps of every
process that exists, its detector and the connection while both ends are there;
nobody has to start a program.
In SpillWriter it covers the loop, not
the arrival of blocks.  In ReaderThreads it covers both threads and `main`, and
avant's read as in Pipeline.  In Rbcp it covers the program and its timeout, and
expects nothing of the network and the device.  TcpBuffer and Descriptors need
none.  In ThreadController it covers threads and the owner's
waits, not its decision to destroy, and assumes that `run()` of an object ends.

## 4. Proofs

For every value of the constants:

| Module | Theorems | Inductive invariant and why it is needed |
|---|---|---|
| `TaskControlProofs` | `InitQuiescent`, `RunsAfterInit`, `NoFalseAlarm`, `OutcomeIsFinal`, `RunsOnlyIfGood`, types | A set flag means an initialisation that is over and not being repeated (`DoneMeansInitialised`); what `main` has seen stays set (`SeenMeansDone`); once `main` has set `m_is_good`, only a failure that is the last word resets it (`BadMeansFailed`); the verdict is made of the flags collected so far (`GoodVerdict`) |
| `PipelineProofs` | of the data path: `DepthAccounting`, `DrainedBeforeLeaving`, `OneFate`, `Implements`, `InOrderOfRun`, types; of the whole program: the same, `ImplementsControl`, `InitQuiescent`, `NoFalseAlarm`, `OutcomeIsFinal`, `RunsOnlyIfGood`, `WildOnlyIfOverlooked` | Where each buffer is (`Hands`), that it has one owner (`OneOwner`) and that there are finitely many, so that the counter is a cardinality; the held message is older than its successors (`HeldIsOldest`); what is lost is finite and no longer on its way (`FateInv`); an initialisation that returned 0 made the connection (`ConnectionMade`) |
| `ReaderThreadsProofs` | `DepthAccounting`, `BindsOnce`, `InOrder`, `AtMostOneLate`, types | One owner of each buffer, with pipes that are sequences (`Tidy`: each in order, no block in two); where main is tells what `g_state` was and can still become (`Phases`), hence what rear saw of it holds when it reads the counter (`Left`); written, held, waiting and new blocks are in this order while there is one pipe (`Order`) |
| `FrontBackProofs` | `Implements`, `GapOnlyAtRestart`, types | Written, held, in the wire, in the pipe and in the buffer: of one process each stage is older than the next (`Fifo`), so what is written next is the oldest; a process has a number of its own while its socket exists (`OneRunEach`); while an `fe` is there, what is lost of it is older than what is not (`LostBefore`), for it loses blocks only by ending and a back end only those handed over to it; hence nothing lost is between two blocks that have arrived (`NoGap`); the message object of a back end has the last block of the files unless it is about to write a new one (`BackHolds`) |
| `SpillWriterProofs` | `Contiguous`, `AllWritten`, `OnlyShortSpillsMissed`, `ClosedFiles`, types | `data` and `data_size` are always what is not yet written of the block, and every byte up to `data` is (`RestIsUnwritten`); every marker up to `data` is stamped or passed over, and the index is never further than the stamped write behind it is long (`FoundBehind`, `StampInv`); the markers of earlier blocks lie before this one (`Divided`); the open file has the stamps since the last change of files, and with fctreader as many markers (`CountInv`) |
| `KolProofs`, on ThreadController | `NoUseAfterDelete`, `AllDeleted`, `NoUseAfterDestroy`, `JoinedOnce`, `CountExact` | Stages of a thread and its deleter go together, the mutex holder is the one in the critical section, the count is posted minus deleted, and `m_threadid` names a deleter not yet joined |
| `KolProofs`, on Descriptors | `OwnConnection`, `OneOwner`, `NoLeak` | The three together, types, and that an object which is not in use owns nothing (`NothingOwned`): a number is only given out when it is free, so it is nobody's |
| `TcpBufferProofs` | `OutputInOrder`, `AcceptedNotLost`, `InputInOrder`, `GcountExact`, `EofIsTheEnd`, types | The equations between sequences are inductive themselves; besides, the buffer is empty between the halves of `write` (`FlushedBeforeWrite`), what a loop has counted, or the last one has left in `m_gcount`, is how far the stream has moved (`CountOfLast`), which needs that `recv_all` runs only while `m_rbuf` is empty (`LoopStates`), and after `eof` there is nothing to get and nothing unread (`EofMeansAll`) |
| `RbcpProofs` | `InStep`, `FewLate`, `TakenOnce`, `IdsTell` | Each answer that was asked for is in one place (`OnePlace`), comes from a request that was carried out (`FromDevice`), and while nothing failed only the current one is about (`OnlyCurrent`); `FewLate` is inductive next to these: a failed receive makes room for one more late answer, a taken one is one less |

The theorems of the whole program rest on those of its parts.  Pipeline's `IInv` and
`FateInv` are kept by every step of Dtmain (`DtNextIInv`): a step is one of Pipeline's or
leaves its variables alone.  The refinement of TaskControl is proved step by step
(`MainMaps`, `ThreadMaps`): a step of `st_running` that does not return is a stutter, one
that returns is `StRunning`.  What TaskControlProofs proves then holds of Dtmain through
the refinement (`DtControlled`).  `WildIfOverlooked` takes three of these results
together with `ConnectionMade`, which is about the one variable neither part has.
That the blocks of a run are stored in order is proved of `BlockRecorder` (what is in
transit is newer than what is stored, `RecorderNextIInv`) and carried over by the
refinement.

Each `IInv` includes the types of the variables; `IInv` and its parts were found with
TLC on the instances above before they were proved.  The runs check the other
properties only.

The assumptions are the named ones in the modules: constants are numbers,
`NSpill`, the marker length and the pipes are positive, the ids are at least as
many as the requests, and the model values for "no thread", "no descriptor" and
"no file" are none of those.  No theorem has a hypothesis besides these.

Only model-checked: all liveness properties, which are out of the prover's reach
(`ENABLED` and fairness), and what the runs that expect a violation show.

## 5. Not modelled

The TEST_MAIN program of `daqtask.cxx`; the `--dummy` mode of thtdcreader; `shutdown`
and the options of kol's sockets; `cancel` of kol's threads; `kol::URI`, file
names, port names, the stop watch, generators, checkers and `unused/`.
Throughout: option parsing, printing, and the contents of the data beyond what
tells a marker.  The reasons are in "components".

Also outside of the models: the memory that the high water mark allows (`-q`,
libzmq keeps it); a `bind` to a name that is still taken: DTrear closes its socket and
binds the name again at the next run, and the models let this succeed at once,
while libzmq forgets the name only when its own thread has closed the socket, so a very
quick `idle` and `run` might see it fail; and the end of `std::cin`, after which
`main` reads nothing for ever (`dtmain.cxx:97`).

## 6. Plan

Done, in the order of their importance for what ends up in the files:
BlockRecorder, TaskControl, Pipeline, SpillWriter, ThreadController, TcpBuffer,
ReaderThreads, Descriptors, Rbcp, then Dtmain and FrontBack.

Proved: the safety properties of all of these.

Next:
1. ReaderThreads as a further implementation of BlockRecorder, with its pipes as
   the runs of a block.  A block is accepted before its pipe is known, so this
   needs a prophecy of the pipe.
2. Pipeline with SpillWriter, so that what DTrear stores is what the files
   contain.
