# Verification of the tools in this repository

TLA+ models, TLC runs and TLAPS proofs for the stateful parts of the
repository, kept beside the C/C++ code they describe.

## The system

The repository is a collection of programs for an attendance terminal and of
the exercises around them. What it holds:

| part | where | state and operations | what is hard about it |
|---|---|---|---|
| record queue | `tools/recordLib/eventQueue.cpp` | linked nodes behind a dummy head, a photo block per node, a counter; InitQueue, EnQueue, DeQueue, ClearQueue, DestroyQueue, QueueLength, GetQueueElemNum | a counter kept apart from the list; ownership of photo blocks; `rear` after the last element goes |
| record library | `tools/recordLib/recordLib.cpp` | queue, flag, total, two mutexes, a photo and an index file per day; addRecord, saveRecordThread, delOldRecordFile, searchRecord, searchRecordsNum, searchRecordTotal, getOneRecordPhoto, initRecordLib, deinitRecordLib | one saver thread against any number of callers; addresses computed before the write; failed and partial writes; power loss; clean-up; the handshake over one flag |
| older record library | `tools/rcdLib` | an earlier copy of the above | |
| log library | `tools/logLib/logLib.cpp` | two queues (system and management logs), two saver threads, day files, deletion by marking | deletion and search while a thread appends; an exit that its threads do not see |
| calendar helpers | `tools/logLib/publicLib.cpp` | conversions between seconds and days | day boundaries |
| stream logger | `tools/log` | one mutex held while a message object lives | order of lines; nested messages |
| thread pool | `tools/thread_pool_test/thread.cpp` | task list, mutex, condition variable, shutdown flag | lost wake-ups at shutdown |
| memory tracker | `tools/memlibcplusplus`, `tools/memlibc` | a list of live blocks | list and heap must agree |
| DHCP clients | `tools/network/mrj_dhclient`, `tools/network/dhcp_client`, `tools/dhcp_client` | lease with renew, rebind and expiry times; discover, offer, request, ack | lost, late and foreign answers; retry counts |
| DNS clients | `tools/network/mrj_dnsclient`, `tools/network/dns_client` | query and answer | timeouts and retries |
| GPS receiver | `tools/gps_ubx_nmea` | ring buffer between two threads, configuration handshake | positions shared without a lock |
| platform client | `tools/network/client_33310` | a connection per round, eight requests with their answers, CTRL+C | late answers under random indexes, a connection that ends anywhere, SIGPIPE |
| HTTP clients | `tools/network/http*`, `mrj_net_pf`, `pqhttp` | one request at a time | parsing, little state |
| copies of libraries | jsoncpp, cJSON, tinyxml, libjpeg, md5, xlslib, wpa_cli, wireless tools, curl headers, nmealib | | not written here |
| exercises, device tests, images | `base`, `interview`, `deviceTest`, `image`, `tools/qt_v4l2` | one main function each | no state, or a driver |

The core is the record library: the only part in which threads, persistent
files, crashes and a shutdown protocol all meet, and the part whose failures
lose data. Around it six other programs are modelled; apart from the queue,
which the record library is built on, no two of them talk to each other, so
every module is checked by itself. `PROJECT.json` lists every part with its
status, and the hazards that matter most with the line where each bites.

## The modules

**`LinkedList`** has what the two linked queues of the repository share: the node
that n links lead to (`Follow`), and that a sequence lists the nodes of a list.

**`FifoQueue`** is what users of the queue rely on: a sequence with `Put`,
`Take` and `Empty`.

**`EventQueue`** is `eventQueue.cpp` itself on an explicit heap: `front`,
`rear`, `next`, `data`, the set of `live` nodes, the set of nodes that own a
photo block, and `queueNum`. Each C function is one action (the caller holds
`g_queueMutex`). `malloc` returns any free node or fails; EnQueue then returns
without telling anybody. It is shown to implement `FifoQueue`
(`Contents`, the data along the links, is the refinement mapping).
`cleared` is history. EnQueue's allocation of the
photo block and those of InitQueue are taken to succeed: EnQueue does not test its
result (the process would die), and without InitQueue there is no queue.

**`RecordLib`** models `recordLib.cpp` over that FIFO queue. State:

| variable | code |
|---|---|
| `queue`, `flag`, `total` | `g_operateQueue`, `g_recordFlag`, the total behind Get/SetRecordTotal |
| `writeMutex` | `g_writeMutex`; `g_queueMutex` sections are single steps |
| `pc`, `recordFlag`, `todo`, `bufs`, `wr`, `errorNum`, `count`, `elapsed` | locals of saveRecordThread: place, sampled flag, records left to dequeue, `recordBuffer`, buffer being written, failed batches, rounds since the capacity check, "more than recordSaveInterval since the last save" |
| `pic`, `index` | the day files: a photo file is its length and the complete photos at their real positions, an index file its entries (number, record, address, size), whether a write tore, and what is unreadable behind the tear |
| `today`, `nextId`, `app`, `startup`, `search` | clock, next record, life of the library, how far the application has come in counting the records and assigning `gRecordTotal`, a search under way |
| `faults`, `crashes`, `inits` | how many bounded events have happened |
| `evicted`, `owed`, `undeleted` | history: records deleted with their day, records accepted before deinit, failed deletions |

One round of `saveRecordThread` is: `LoopTop` (round counter, lock for the
capacity check), `CheckCapacity` (SD card, then flash: check, delete oldest
photo file, delete oldest index file, recount; `DelOldFails` when a directory
cannot be read or a file not be unlinked), `Stall` at capacity or
`ReadFlag`, `CountQueue`, `FillOne` per record (or `FillFails`), `BeginWrite`,
`WritePic` and `WriteIndex` per day buffer (or their failures: nothing or any
proper prefix is stored), `EndWrite`, `EndRound` (exit, or reset of the flag);
`BatchError` is the `error:` label, `SaverExit` the end of the thread. Callers:
`AddRecord`; `SearchBegin`, `SearchDay` per index file, `SearchEnd`;
`DeinitBegin`, `DeinitEnd`, `InitRecordLib`; `CountAtStart` and `SetAtStart` are
`recordLibTest.cpp:26-29`, which starts the saver first and assigns the total after
that. searchRecordTotal does not count entries of users that have been removed, nor
those marked, so a recount gives any number up to what is in the files. Environment: `IntervalPasses`,
`Midnight`, `Crash` (power loss between any two steps; files and clock survive).

Data are abstracted to what the properties tell apart: a record is an id, a day
and a size; sizes are small naturals; dates are day numbers. Callers stamp
records with the current day and the clock is not set back.

**`WorkPool`** is what a thread pool promises: tasks begun one by one in the
order they were accepted, each once; closing drops what was not begun.
**`ThreadPool`** is `CThreadPool`: `m_WorkQueueFront`, `m_WorkQueueRear`,
`m_WorkQueueSize` and the nodes' links, `m_Mutex`, `m_Shutdown`. The owner does
`Create` (or `CreateFails`), `DestroyFlag`, `DestroyBroadcast`, `DestroyFree`; a caller of Add
`AddFail` or `AddLink` and then `AddSignal`, because the signal comes after the
unlock; a worker `Lock`, `Test`, `Sleep`, `Spurious`, `Quit`, `Take`, `Finish`.
Destroy sets and broadcasts the flag without the mutex, so every read of it is a
step of its own. The loop test at `thread.cpp:417` is written with `=`, which no
compiler accepts there; the model reads `==`. The join of a thread that was not
started reads an uninitialised `m_ThreadId`: it returns or it does not. `missed` is
history, and so is `freed`, which counts how often each node was freed.

**`UbxConfig`** is the exchange of the configuration thread with the receiver
(`ublox.cxx`, `ubx.cxx`): `OpenDevice`, `CfgStart`, and for each command `Reset`
of `resResult`, `Send` or `SendFails`, then `Confirmed`, `TimedOut` or
`Exhausted`; `StdSend` and `StdDone` for the commands nobody waits for;
`Toggle` for the switch between NMEA and UBX. `Receive` and `Parse` are the other
two threads. The receiver (`Execute`, `Refuse`) and the line (`LoseCommand`,
`LoseAnswer`) are external. An answer carries what the code can see of it: class,
id and verdict, not the command it answers.

**`NmeaRing`** is the buffer between the receive and the parse thread, with
`Receive(n)`, one read that never goes past the end of the buffer, and `Parse`,
one look of `nmea_parse_packet`: find a header, find the end mark, hand on, keep
the beginning of an incomplete sentence, or skip. A byte is the sentence it
belongs to (seen by the properties only) and its place in it. What the receiver
sends is given by a layout: the number of bytes, and where the sentences start.

**`DhcpClient`** is `mrj_dhclient.cpp`, one process per attempt: `Start` (read the
lease files, renew or discover), `Send`, `Receive`, `OtherPacket`, `ShortPacket`,
`SelectTimesOut`, `ParseOffer`, `ParseAck`, `SetIp`, `SetGwMask`, `OpenFile`,
`CloseFile`; `Fail` goes from a failed renewal to discovery and from there to the
end, as `dhclient_perform` does. `Kill` ends it between any two steps. Servers
offer and grant, packets stay under way as long as they like, may be read twice
or never. Time is relative (age of a lease, lag of an acknowledgement, rest of
the wait), so no clock bounds the behaviours. A packet of less than 60 bytes is
not checked and can end the second wait; what dhclient_parse_ack then finds behind
the zeroed `recv_buf` are the client's own options, of which `server_ident_flag`
reads as a mask option: the mask is overwritten, and set_if_mask fails (`MaskRefused`). A save
is skipped when the copy in memory already has the lease, which it has after a
save that failed (`Copy`).

**`LogLib`** is the manager log of `logLib.cpp`: `addManLog`, the saving thread
(`Count`, `Take`, `OpenIndex`, `WriteIndex`, and `OpenFails`, `ShortWrite` with the
error count and the reboot), deletion by time and by user number (`DelOpen`
of the oldest file left, `DelEntry` entry by entry), of everything (`delAllManLog`, `Unlink` file by file),
and the search as `SearchManLogAll` of the test program drives it (`SearchStart`,
`SearchDay`, `SearchRead`, `SearchPage`). The calls of deletions and searches fail
too, mostly without telling the caller: `DelOpenFails`, `DelEntryFails`, `UnlinkFails`,
`SearchFails`. Marks are written without O_SYNC, so `Crash` may take back any of
them. Files are inodes, because the saving
thread goes on writing to a file it opened after somebody unlinked it.

**`Client33310`** is `client_33310.cpp`: `main` (`MainCreates`, `MainSeesFlag`,
`MainJoins`), the signal handler `Quit`, and `ClientThread`: `Top` and `Loop` are
the two tests of `g_exitFlag`, `Connect` is CreateTcpClient, then for each of the
eight requests `Send`, `RecvHead`, `RecvData` or `RecvFails`, `Check`; `RoundOver`
closes the socket, `Exit` is the code behind the loops. The device answers,
refuses, sends what nobody asked for, closes or breaks off the connection. The
connection has the states that decide what `send` does: open, closed by the
device (the first send still succeeds), reset by that send (the next raises
SIGPIPE), aborted (send fails). `executed` is history.

**`MC...`** modules instantiate these for TLC. **`...Proofs`** hold the proofs.

## The runs

Runs that pass:

| run | checks | shows |
|---|---|---|
| `queue` | `HeapIsList`, `FifoSpec` | no leak, no dangling `rear`, photo blocks owned by exactly the queued nodes; the batch size the saver reads is the length of the list; the list is a FIFO queue |
| `save` | `LockMatchesPlace`, `TodayPhotosIntact`, `IndexedPhotoIsOwn`, `SavedOnceInOrder`, `NothingLost`, `FilesOnlyGrow` | saving and cleaning up over three days, with one failing write or deletion and one power loss at any point |
| `deinit` | `DeinitSavesAccepted`, `SearchFindsSaved`, `QueuedIsSaved`, `StopWithoutSearch` | searches and shutdown interleaved with saving: what was accepted before deinitRecordLib is on disk when it returns; a search finds once what was saved when it began; every queued record is saved in the end although searches race with the reset of the flag; shutdown returns if no search meets it |
| `capacity` | `StallEnds` | the total may be wrong: advanced for batches that failed, assigned late by the application, recounted without removed users. A saver that stands still because of it goes on again, through failing deletions, the reboot and a second initialisation, unless today's records alone fill the device |
| `pool` | `NodesAccounted`, `PoolSpec`, `QueuedIsStarted`, `DestroyReturns` | the pool implements `WorkPool`; an accepted node is in the queue, with one worker or freed, and freed once; signalling after the unlock loses no task; Destroy of a pool whose threads all started returns unless its broadcast falls between a worker's test and its wait (then it does not) |
| `ubx` | `NavEnabled`, `SwitchIsReal`, `AgreementReturns` | a start-up without timeouts that reports success has switched the messages on; no left-over answer confirms a protocol switch; after faults both sides agree again and again, in a mode in which positions are parsed |
| `ring` | `PartIsHeader`, `InOrder`, `SeenComesOut`, `CatchesUp` | sentences come out once and in order, also those cut by a read or by the end of the buffer; only one whose header itself was cut may be lost |
| `dhcp` | `AddressGranted`, `LeaseLag`, `SavedIsInUse`, `SuccessMeansGranted`, `PerformEnds` | addresses and leases were granted although the two exchanges of a process share their xid; a lease outlives the server's by three waits at most; success is reported only with a granted address on the interface, although a short packet can end the wait with MRJE_OK, and the file then names no other; every process ends |
| `log` | `SavedIsKept`, `SearchComplete`, `SearchSound`, `DeletedIsGone`, `EntriesStay`, `SearchEnds` | saving, a paged search and a deletion at the same time, without common locks, do each other no harm; what fails in a deletion or a search costs no more than the rest of that file, or that one entry |
| `client` | `AnswerIsOwn`, `SuccessIsComplete`, `NoBrokenPipe`, `SocketsClosed`, `QuitEnds` | an accepted answer belongs to the request just made; a round counted as a success was acknowledged completely; no SIGPIPE, no socket left; CTRL+C ends the program whatever the device does |

Type invariants have no run of their own where they are proved (in `RecordLib`,
`DhcpClient` and `Client33310`, and in the proofs of `ThreadPool`, `UbxConfig` and
`LogLib`); those of `EventQueue` and `NmeaRing` are conjuncts of `HeapIsList` and
`PartIsHeader`.

Runs in which the code departs from what a line of the repository says of it
(the quotations are in `PROJECT.json`):

| run | property | what happens |
|---|---|---|
| `stop_race` | `StopLeadsToExit` | a forced save under way resets the flag after deinitRecordLib set it to 2; the join never returns |
| `foreign_photo` | `NoForeignPhoto` | power loss between the two deletions of a clean-up leaves the directories out of step; later an old entry leads to another record's photo |

Smaller disagreements, decided by one line of code and so without a run:

* `ClearQueue` leaves `queueNum` as it was (`HeapIsList` speaks of the
  counter up to the first call; `recordLib.cpp` makes none).
* At capacity the saver does not read the flag (`recordLib.cpp:189`): with only
  today's files on the device nothing is deleted and deinitRecordLib waits for ever.
* `searchRecord` does not wait for the save it asks for (`recordLib.cpp:726`).
* A batch takes the whole queue, however long (`recordLib.cpp:230`,
  `logLib.cpp:2124`), into buffers made for MAX_OPERATE_QUEUE.
* The seek for the last index number goes behind the end of the file: the number
  is 1 in every entry (`recordLib.cpp:92`; the same in `logLib.cpp`).
* deinitLogLib joins threads that have no way out (`logLib.cpp:2569`).
* delManLogsByUserNo passes the user number as a time (`logLib.cpp:799`);
  delManLogUserNo, which would use it, has no caller.
* delAllLog does not delete the second kind when deleting the first has failed
  (`logLib.cpp:440`).
* The loop test of the thread pool is an assignment (`thread.cpp:417`).

**Bounds.**

* `queue`: four heap nodes let the queue be empty, have one, and have several
  elements with a node free or none (the dummy head takes one); `MaxCount` bounds
  the counter, which ClearQueue lets run away.
* `save`: three records with a batch size of two give a full and a partial batch
  and a batch over two days; three days give an old day to delete, a day between
  and today; `RecordMax = 4` with a reserve of two makes the capacity test fire
  after two records, and `CheckPeriod = 2` makes the clean-up fall before and
  after a batch. Photo size 2 gives a proper prefix that is neither empty nor a
  whole photo. The reboot after repeated errors is reached by `capacity`; for the
  properties of this run it is power loss with the errors before it, and they are
  all proved for any number of faults.
* `deinit`: two records over two days, one search and one initialisation. One
  search is enough for the races with the flag. No faults or crashes: the run is
  about scheduling. `RecordMax = 9` keeps the saver from standing still at capacity.
  Its two invariants are proved for every number of records.
* `capacity`: two records over two days, `RecordMax = 3` with a reserve of one: the
  total reaches the limit by two records, or by one and a batch that failed. Two
  faults reach the reboot (`ErrorLimit = 2`); the second initialisation starts with
  the stale flag value 3 and the old total.
* `pool`: two workers and three tasks, one thread that may not start, two Creates.
  A worker can be between test and wait while the other runs a task and a third
  task is queued.
* `ubx`: three attempts per command instead of five, three unconfirmed commands
  instead of six, five faults: enough to exhaust a command and to have answers of
  two earlier attempts under way.
* `ring`: a buffer of 11 bytes with sentences of 5, headers of 3 and a saved part
  of at most 4: the end of the buffer cuts sentences at every place. All streams
  of up to six items (a sentence or a foreign byte), read in all ways. The proper
  assumption is `Lag`: the parser is never a whole buffer behind (2048 bytes are
  two seconds at 9600 baud; the parser looks every 0.1 s).
* `dhcp`: two interfaces sharing a lease file, two servers, one of which omits the
  router, lease 5 s and wait 2 s, so that rebinding (3 s), expiry and the three
  waits of a process fall apart. The number of processes is not bounded.
* `log`: three logs over two days with the clock set back in between, pages of
  one, one search, one deletion of any kind, two faults of any of the three.
* `client`: two indexes (those of two requests are equal or differ), one unasked
  packet under way, any number of rounds and connections.

Runs do not check for deadlock where the model stops when its bounds are used up
or the program ends.

**Fairness.** Always weak, of a thread as a whole, because every loop only sleeps,
polls with a timeout, or takes mutexes that others hold for a few assignments;
never of callers, users, servers, midnight or faults.

* `RecordLib`: the saver; the clock (`IntervalPasses`); a search once begun;
  `DeinitEnd`, which a returning join enables.
* `ThreadPool`: each worker, strong for `Lock` (pthread gives every thread that
  keeps asking its turn); an Add once begun; the end of a Destroy of a pool whose
  threads were all started; tasks return.
* `UbxConfig`: the three threads, and that the receiver answers what reaches it
  (faults are bounded). `NmeaRing`: the parse thread.
* `DhcpClient`: the process and the clock. `LogLib`: the saving thread, a search
  and a deletion once begun.
* `Client33310`: the client thread (select, send and sleep end by a timeout) and
  main.

## The proofs

All for every value of the constants that satisfies the assumption named in the
module: `LibAssumption` (capacity and bounds are naturals, the batch size is
between 1 and MAX_OPERATE_QUEUE, as initRecordLib enforces from above, photo sizes
are positive), `QueueAssumption` and `PoolAssumption` (finitely many nodes or tasks,
a null pointer that is none of them), `LogAssumption` (times and page sizes are
naturals, a log's time is not 0, user numbers are below any time), `UbxAssumption`,
`DhcpAssumption`, `ClientAssumption`, `RingAssumption` (a header is shorter than a
sentence, the saved part has room for all of a sentence but its last byte, the parser
is less than a whole buffer behind) and `LayoutAssumption` (sentences lie whole in the
stream, one behind the other). TLC evaluates each of them on the runs of its module.
Every proof follows the same plan: an inductive invariant, one lemma that a step keeps
it with one step per action, and the theorems as its consequences.

**`EventQueueProofs`**: `HeapCorrect` (`[]HeapIsList`) and `ImplementsFifo`
(`Spec => FifoSpec`). `HeapHolds(s)` describes the heap by the sequence `s` of its
nodes: the links lead from one to the next, nothing else is allocated, all but the
first own a photo block, `rear` is the last. The invariant is that some `s` exists
(or the queue was destroyed), and each C function changes `s` in one way. What the
model reads along the links (`Follow` of `LinkedList`, a recursive function, used by
`QueueLength` and the refinement mapping `Contents`) is shown equal to `s` by
induction on the number of links, with the hypothesis as a set.

**`ThreadPoolProofs`**: `OneWorkerInside`, `DestroyedIsQuiet`
(`[]NoWorkerAfterDestroy`), `NoNodeLost`
(`[]NodesAccounted`), `ImplementsPool` (`Spec => PoolSpec`). `PoolInv` is the mutex
discipline: it belongs to the one worker inside, and none is left when Destroy has
freed the list. `Ledger(s)` adds who has each node: `s` in the queue, the others
running with one worker or freed once, never two of these; and `TakerSawWork`: a worker about to take a
node has seen one under the mutex it still holds.

**`RecordProofs`**:

* `TypeCorrect` (`[]TypeOK`) carries that `todo` is within the queue and `wr` within
  the buffers. `LockDiscipline` (`[]LockMatchesPlace`) needs that the library is down
  only when the saver has gone.
* `SavedInOrder` (`[]SavedOnceInOrder`). Appending a batch keeps a file in order only
  if the batch is younger than the file. `OrderInv` follows a record on its whole
  way: the queue is in order and below the record counter; every buffer is in order
  and before the queue; every file is in order and before the queue; the file of a
  buffer still to be written is before the buffer; no two buffers have the same day.
  Crashes, failed writes and clean-ups only drop a part of this chain.
* `NoRecordLost` (`[]NothingLost`) and `DeinitSaves` (`[]DeinitSavesAccepted`), about
  behaviours without failed writes, power loss and second initialisation. `KeptInv`
  adds how far the write loop has come (what it has passed is stored), that the exit
  flag comes from deinitRecordLib only, and that a batch counted after the flag was
  sampled holds all that is owed: the order of sample and count makes it true.
* `TodayHasPhotos` (`[]TodayPhotosIntact`), `OwnPhotos` (`[]IndexedPhotoIsOwn`),
  `FilesGrow` (`FilesOnlyGrow`). An index entry is made from the length the photo file
  had when the batch was begun. `PhotoInv` keeps that length equal to the file's until
  the buffer is written, the place of each photo in its buffer, and, for days before
  today, how far the clean-up has come between the two directories. `IndexedPhotoIsOwn`
  speaks of behaviours without power loss and without a failed deletion: either leaves
  the two directories out of step.
* `SearchFinds` (`[]SearchFindsSaved`). That nothing is found twice needs that files,
  batch, queue and what the search has found have no record in common (`ApartInv`);
  that nothing is missed needs that no record is stored under a day that has not come
  (`DayCame`) and that what was saved is found, deleted or still ahead (`AheadInv`).

**`LogLibProofs`**: `SavedLogsStay` (`[]SavedIsKept`), `SearchIsComplete`,
`SearchIsSound`, `DeletionWorks` (`[]DeletedIsGone`), `OnlyAppended` (`EntriesStay`).
They rest on two facts. `OnceInv`: a log is in the queue, or in one buffer, or
settled, and no two entries of the disk are of the same log. `OwnerInv`: an inode has
logs of one day only, also after it was unlinked and the day has another one; without
it a search or a deletion that still has the old inode open could meet entries it has
no business with. `DelInv` says that what is left of a deletion's task lies ahead of
it or in a file it has given up, `KeptInv` that the saving thread writes recent logs to the file that has a name,
`SoundInv` that what a search has found lies behind it, `CompleteInv` that what it
has still to find lies ahead.

**`UbxConfigProofs`**: `NavCorrect` (`[]NavEnabled`), `SwitchCorrect` (`SwitchIsReal`). An
answer carries neither the message nor the attempt it is for. Before the first
timeout at most one command is under way, and its answer is the only one (`NavInv`).
After a timeout there may be several, but a switch begins with an empty line and
repeats one command, so that every answer is to that command (`TogInv`).

**`NmeaRingProofs`**: `PartStartsSentence` (`[]PartIsHeader`), `SentencesInOrder`
(`[]InOrder`), `NoneLost` (`[]SeenComesOut`). `RingInv` says that the saved part and
the unread bytes behind it are one stretch of the stream, without a gap, across the
end of the buffer (`RingOK`, `PartOK`). So a header in a look is the start of a
sentence of the stream, the first end mark behind it is the end of that sentence, and
the next header is a whole sentence away (`HeadersApart`). `OutOK` puts what has come
out before the part, `SeenOK` puts a header that was seen, and has not come out, into
the next look: these two make order and completeness inductive.

**`DhcpProofs`**: `TypeCorrect`, `OnlyGranted` (`[]AddressGranted`), `LagBounded`
(`[]LeaseLag`), `FileAgrees` (`[]SavedIsInUse`), `SuccessIsReal`
(`[]SuccessMeansGranted`). `DhcpInv` follows an acknowledged
address from the network over the packet and the handle to interface and file, and
bounds the lag of every acknowledgement by the time since the process sent its first
packet (`Elapsed`), which is what makes a late answer to the renewal harmless. `HeldInv`
adds what the file holds while a process runs: during a renewal no other address than
the one renewed, and after a save that failed no other than the one copied; so a save
that is skipped has nothing to correct.

**`Client33310Proofs`**: `TypeCorrect`, `OwnAnswer` (`[]AnswerIsOwn`), `SuccessComplete`,
`NoSigpipe`, `NoSocketLeft`. That an accepted answer is the client's own does not
follow from its index. `ClientInv` says what can be under way: before a request
nothing but unasked packets; after it the request, or one answer to it; in a
connection that was reset no answer at all. So an accepted answer leaves nothing
behind for the next request to take for its own.

Only model-checked: liveness (`QueuedIsSaved`, `StopWithoutSearch`, `StallEnds`, `QueuedIsStarted`,
`DestroyReturns`, `AgreementReturns`, `CatchesUp`, `PerformEnds`, `SearchEnds`,
`QuitEnds`), which needs fairness and ENABLED, beyond the prover. Every invariant and
every action property of a passing run is proved.

## Not modelled

Of the modelled parts:

* Record library: filters and paging of searchRecord, searchRecordsNum as an
  operation of its own (its sum is `Readable`), getOneRecordPhoto,
  `curOperateStatus`; the clock being set back and records stamped with another
  day; the bytes of records. An index write that tears an entry makes what follows
  unreadable: it is counted, not decoded. A batch longer than MAX_OPERATE_QUEUE is
  outside the arrays the code reserves; the model goes on as if there were room.
  The allocations of a search succeed (`recordLib.cpp:846` would drop a record
  silently). When EnQueue runs out of memory addRecord still reports success; such a record gets
  no id.
* Log library: the system log (the same text with Sys for Man), the counts beside
  the files, filters other than time, saveAccessLogThread (it does not compile).
  Directory changes are durable at once. A directory that cannot be read makes a
  deletion return -1 without effect and is no step. Of a file with a cut write only
  the entries in front of the cut are followed; what readers make of the bytes
  behind it (a header completed by the next log's bytes passes for an entry) is not.
* GPS: the UBX side of the parser, the decoding of fields; a read that returns -1,
  which the code adds to the head as it is. DHCP: routing table entries, the release
  message, which is empty in the code; the 100 us slept after each foreign packet,
  which make a wait on a busy net longer than select counts; what other options the
  walk over the client's own bytes could chance upon after the mask.
* Platform client: `g_reConnectFlag`, which nothing sets; printed counters; what
  the answers say; the repetition of a send that would block, since no more than
  some forty bytes are ever under way; a device that closes and then resets the
  connection without having been sent anything, where the first send would raise
  SIGPIPE.
* Thread pool: Add after Destroy has joined the workers, against which the class
  has no guard.

The parts without a module, and why. The models stand for a small share of the
lines of the repository, because most of those lines are not a system:

* copies of libraries (jsoncpp, cJSON, tinyxml, libjpeg, md5, xlslib, curl headers,
  wpa_cli, wireless tools, nmealib) are by far the largest part. They are
  sequential, were not written here and are used as they are;
* exercises (`base`, `interview`) are programs of one main function that try one
  call; they keep no state between two operations;
* device tests, camera and image programs are input and output through drivers, or
  arithmetic on pixels;
* `rcdLib`, `gps_ubx_nmea_bak`, the older DHCP clients and `base/eventQueue.cpp` are
  earlier copies of what is modelled;
* the HTTP and DNS clients and the network platform make one request, wait and
  parse text; nothing is kept from one call to the next and nothing runs beside
  them;
* the stream logger and the memory tracker do everything under one mutex: a model
  would restate the mutex.

## What could follow

searchRecord with filters and paging against files that grow and disappear, in
the manner of `LogLib`'s search; an abstract record store (accepted records become
readable once, in order, until their day is deleted) that `RecordLib` implements;
the UBX side of the ring.
