------------------------------ MODULE RecordLib ------------------------------
(***************************************************************************)
(* The attendance record library, tools/recordLib/recordLib.cpp: callers   *)
(* queue records (addRecord), one saver thread (saveRecordThread) appends  *)
(* them in batches to a photo file and an index file per day and deletes   *)
(* the oldest day when storage runs short, searches (searchRecord) ask for *)
(* a forced save and then read the index files, and deinitRecordLib asks   *)
(* the saver to exit and joins it.                                         *)
(*                                                                         *)
(* A critical section of g_queueMutex is one step.  g_writeMutex is held   *)
(* across steps by the saver only; setRecordFlag takes it for a single     *)
(* assignment, so for the other threads it is a guard.                     *)
(***************************************************************************)
EXTENDS Integers, Sequences, FiniteSets

CONSTANTS
    RecordMax,        \* GetDeviceAttrRecordMax(): capacity of the device
    MaxBufNum,        \* g_record_lib.recordMaxBufNum, clamped by initRecordLib
    MaxOperateQueue,  \* MAX_OPERATE_QUEUE, 30
    CheckPeriod,      \* rounds between two capacity checks, 100
    ErrorLimit,       \* failed batches before the device reboots, 3
    Sizes,            \* sizes of a stored photo record (flags, index, photo)
    MaxDay, MaxRecord, MaxSearch, MaxFault, MaxCrash, MaxInit \* model bounds

ASSUME LibAssumption ==
    /\ {RecordMax, MaxOperateQueue, MaxSearch, MaxFault, MaxCrash} \subseteq Nat
    /\ {CheckPeriod, ErrorLimit, MaxDay, MaxRecord, MaxInit} \subseteq Nat \ {0}
    /\ MaxBufNum \in 1..MaxOperateQueue
    /\ Sizes \subseteq Nat \ {0}

Days == 1..MaxDay
Ids  == 1..MaxRecord

VARIABLES
    \* shared memory
    queue,      \* g_operateQueue, as the FIFO queue EventQueue implements
    flag,       \* g_recordFlag: 0 normal, 1 save now, 2 exit, 3 exited
    total,      \* GetRecordTotal()
    writeMutex, \* who holds g_writeMutex: "free" or "saver"
    \* locals of the saver thread
    pc, recordFlag, todo, bufs, wr, errorNum, count,
    elapsed,    \* abs(new_tt - old_tt) > recordSaveInterval
    \* the two directories of day files
    pic, index,
    \* callers and environment
    today, nextId, app, startup, search, faults, crashes, inits,
    \* history: records deleted with their day, records accepted before deinit,
    \* how many deletions of a clean-up failed
    evicted, owed, undeleted

shared   == <<queue, flag, total, writeMutex>>
locals   == <<recordFlag, todo, bufs, wr, errorNum, count, elapsed>>
files    == <<pic, index>>
callers  == <<today, nextId, app, startup, search>>
budget   == <<faults, crashes, inits>>
history  == <<evicted, owed, undeleted>>
vars == <<shared, pc, locals, files, callers, budget, history>>
-----------------------------------------------------------------------------
Record == [id : Ids, day : Days, size : Sizes]
Entry  == [no : Nat, id : Ids, addr : Nat, size : Sizes]

NoPic   == [present |-> FALSE, len |-> 0, recs |-> {}]
NoIndex == [present |-> FALSE, entries |-> <<>>, torn |-> FALSE, junk |-> 0]
Recount  == [step |-> "count", num |-> 0]
Started  == [step |-> "done", num |-> 0]
NoSearch == [day |-> 0, end |-> 0, found |-> <<>>, saved |-> {}, num |-> 0]

IdsOf(es)  == {es[i].id : i \in DOMAIN es}
InQueue    == IdsOf(queue)
InBuffers  == UNION {IdsOf(bufs[j].entries) : j \in DOMAIN bufs}
OnDisk     == UNION {IdsOf(index[d].entries) : d \in Days}

\* Both threads' start state: the saver runs, the application has yet to recount.
Init ==
    /\ queue = <<>> /\ flag = 0 /\ total = 0 /\ writeMutex = "free"
    /\ pc = "top" /\ recordFlag = 0 /\ todo = 0 /\ bufs = <<>> /\ wr = 0
    /\ errorNum = 0 /\ count = 0 /\ elapsed = FALSE
    /\ pic = [d \in Days |-> NoPic] /\ index = [d \in Days |-> NoIndex]
    /\ today = 1 /\ nextId = 1 /\ app = "up" /\ startup = Recount
    /\ search = NoSearch
    /\ faults = 0 /\ crashes = 0 /\ inits = 1
    /\ evicted = {} /\ owed = {} /\ undeleted = 0
-----------------------------------------------------------------------------
(* Files.                                                                  *)

\* stat() of the photo file, 0 when there is none.
PicSize(d) == IF pic[d].present THEN pic[d].len ELSE 0

\* lseek(fd, sizeof(file_index_t), SEEK_END) leaves one entry's gap behind the
\* last entry, and the read that follows asks for the entry behind that gap.
LastFileIndexNo(d) ==
    LET pos == Len(index[d].entries) + 2
    IN  IF pos \in DOMAIN index[d].entries THEN index[d].entries[pos].no ELSE 0

\* Append the first n bytes of buffer b to a photo file: the photos that end
\* within them are complete, at the position where they really land.
AppendPic(file, b, n) ==
    LET placed == {[p EXCEPT !.addr = file.len + @] : p \in b.photos}
    IN  [present |-> TRUE, len |-> file.len + n,
         recs |-> file.recs \cup {p \in placed : p.addr + p.size <= file.len + n}]

\* Append the first n entries of buffer b to an index file, and then, when
\* `partial', a fragment of the next.  What lies behind a fragment is
\* misaligned for every reader: it is only counted, as junk.
AppendIndex(file, b, n, partial) ==
    [present |-> TRUE,
     entries |-> IF file.torn THEN file.entries
                 ELSE file.entries \o SubSeq(b.entries, 1, n),
     torn    |-> file.torn \/ partial,
     junk    |-> file.junk + (IF file.torn THEN n ELSE 0) + (IF partial THEN 1 ELSE 0)]

\* How many entries a reader finds in the index files, and how many fragments.
Readable(ix)   == Cardinality(UNION {{d} \X DOMAIN ix[d].entries : d \in Days})
Misaligned(ix) == Cardinality(UNION {{d} \X (1..ix[d].junk) : d \in Days})

\* Mutation: the total is left as it is.
TotalKept(ix) == {total}

\* searchRecordTotal: the entries from the oldest index file up to now whose
\* user (of a library outside) still exists.  A misaligned entry counts when
\* the bytes read as its time are in range.
SearchRecordTotal(ix) == 0..(Readable(ix) + Misaligned(ix))

\* Mutation: the comparison of the names is the wrong way round.
Newest(dir) == {d \in Days : dir[d].present /\ \A e \in Days : dir[e].present => e <= d}

\* The least file name of the directory, if there is a file.
Oldest(dir) == {d \in Days : dir[d].present /\ \A e \in Days : dir[e].present => d <= e}

\* Mutation: the file of the current day may go as well.
TodayToo(d) == d <= today

\* memcmp(oldFileName, curFileName) < 0: only a day before today is deleted.
OldEnough(d) == d < today

\* The file that delOldRecordFile unlinks, if any.
OldFile(dir) == {d \in Oldest(dir) : OldEnough(d)}
-----------------------------------------------------------------------------
(* saveRecordThread: the capacity check, every CheckPeriod-th round.       *)

At(here, there) == pc = here /\ pc' = there

\* The total is within one batch of the capacity.
Full == total >= RecordMax - MaxBufNum

LoopTop ==
    /\ \/ /\ (count + 1) % CheckPeriod = 0
          /\ writeMutex = "free"
          /\ At("top", "sdCheck")
          /\ count' = 0
          /\ writeMutex' = "saver"
       \/ /\ (count + 1) % CheckPeriod # 0
          /\ At("top", "guard")
          /\ count' = count + 1
          /\ UNCHANGED writeMutex
    /\ UNCHANGED <<queue, flag, total, recordFlag, todo, bufs, wr, errorNum, elapsed,
                   files, callers, budget, history>>

\* checkStorageCapacity of a storage device that other programs fill too.
CheckStorage(here, del, done) ==
    /\ \E over \in BOOLEAN :
          \/ /\ over \/ Full
             /\ At(here, del)
             /\ UNCHANGED writeMutex
          \/ /\ ~(over \/ Full)
             /\ At(here, done)
             /\ writeMutex' = IF done = "guard" THEN "free" ELSE writeMutex
    /\ UNCHANGED <<queue, flag, total, locals, files, callers, budget, history>>

\* delOldRecordFile(recordPicPath)
DelOldPic(here, there) ==
    /\ At(here, there)
    /\ \/ \E d \in OldFile(pic) :
             /\ pic' = [pic EXCEPT ![d] = NoPic]
             /\ total' \in SearchRecordTotal(index)
       \/ OldFile(pic) = {} /\ UNCHANGED <<pic, total>>
    /\ UNCHANGED <<queue, flag, writeMutex, locals, index, callers, budget, history>>

\* delOldRecordFile(recordIndexPath)
DelOldIndex(here, there) ==
    /\ At(here, there)
    /\ \/ \E d \in OldFile(index) :
             /\ index' = [index EXCEPT ![d] = NoIndex]
             /\ total' \in SearchRecordTotal(index')
             /\ evicted' = evicted \cup IdsOf(index[d].entries)
       \/ OldFile(index) = {} /\ UNCHANGED <<index, total, evicted>>
    /\ writeMutex' = IF there = "guard" THEN "free" ELSE writeMutex
    /\ UNCHANGED <<queue, flag, locals, pic, callers, budget, owed, undeleted>>

\* delOldRecordFile of either directory when opendir fails, or unlink, whose
\* result is not looked at: the total may be recounted, the file stays.
DelOldFails(here, there) ==
    /\ faults < MaxFault
    /\ At(here, there)
    /\ total' \in {total} \cup SearchRecordTotal(index)
    /\ writeMutex' = IF there = "guard" THEN "free" ELSE writeMutex
    /\ faults' = faults + 1
    /\ undeleted' = undeleted + 1
    /\ UNCHANGED <<queue, flag, locals, files, callers, crashes, inits, evicted, owed>>

CheckCapacity ==
    \/ CheckStorage("sdCheck", "sdDelPic", "flashCheck")
    \/ DelOldPic("sdDelPic", "sdDelIndex")
    \/ DelOldIndex("sdDelIndex", "flashCheck")
    \/ CheckStorage("flashCheck", "flashDelPic", "guard")
    \/ DelOldPic("flashDelPic", "flashDelIndex")
    \/ DelOldIndex("flashDelIndex", "guard")
    \/ DelOldFails("sdDelPic", "sdDelIndex") \/ DelOldFails("sdDelIndex", "flashCheck")
    \/ DelOldFails("flashDelPic", "flashDelIndex") \/ DelOldFails("flashDelIndex", "guard")
-----------------------------------------------------------------------------
(* saveRecordThread: one batch.                                            *)

\* At capacity the round ends here, before the flag and the queue are looked at.
Stall ==
    /\ Full
    /\ At("guard", "top")
    /\ UNCHANGED <<shared, locals, files, callers, budget, history>>

ReadFlag ==
    /\ ~Full
    /\ At("guard", "count")
    /\ recordFlag' = flag
    /\ UNCHANGED <<shared, todo, bufs, wr, errorNum, count, elapsed,
                   files, callers, budget, history>>

\* Mutation: the interval no longer triggers a save.
FullOnly(n) == n >= MaxBufNum \/ (recordFlag > 0 /\ n > 0)

\* Interval over, buffer full, or a forced save.
SaveDue(n) ==
    \/ elapsed /\ n > 0
    \/ n >= MaxBufNum
    \/ recordFlag > 0 /\ n > 0

CountQueue ==
    /\ \/ /\ SaveDue(Len(queue))
          /\ At("count", "fill")
          /\ todo' = Len(queue)
          /\ elapsed' = FALSE
       \/ /\ ~SaveDue(Len(queue))
          /\ At("count", "after")
          /\ UNCHANGED <<todo, elapsed>>
    /\ UNCHANGED <<shared, recordFlag, bufs, wr, errorNum, count,
                   files, callers, budget, history>>

NewBuffer(d) ==
    [day |-> d, startAddr |-> PicSize(d), no |-> LastFileIndexNo(d) + 1, off |-> 0,
     photos |-> {}, entries |-> <<>>]

\* Mutation: addresses inside a batch do not advance.
AddrOfBatch(b) == b.startAddr

AddrOfNext(b) == b.startAddr + b.off

\* The photo of record r goes to offset off of buffer b, its entry behind the others.
AddTo(b, r) ==
    [b EXCEPT !.off = @ + r.size,
              !.photos = @ \cup {[id |-> r.id, addr |-> b.off, size |-> r.size]},
              !.entries = Append(@, [no |-> b.no, id |-> r.id, addr |-> AddrOfNext(b), size |-> r.size])]

\* The buffers after record r went into the one of its day, a new one if need be.
Buffered(r) ==
    LET same == {j \in DOMAIN bufs : bufs[j].day = r.day}
    IN  IF same = {} THEN Append(bufs, AddTo(NewBuffer(r.day), r))
        ELSE [bufs EXCEPT ![CHOOSE j \in same : TRUE] = AddTo(@, r)]

\* Mutation: the record is read but stays at the head.
QueueKept == queue

\* DeQueue
QueueAfterTake == Tail(queue)

\* One turn of the dequeue loop.  The record counts as stored before it is.
FillOne ==
    /\ pc = "fill" /\ todo > 0
    /\ writeMutex = "free"
    /\ queue' = QueueAfterTake
    /\ bufs' = Buffered(Head(queue))
    /\ todo' = todo - 1
    /\ total' = total + 1
    /\ UNCHANGED <<flag, writeMutex, pc, recordFlag, wr, errorNum, count, elapsed,
                   files, callers, budget, history>>

\* realloc returns NULL: the record just dequeued and the batch are given up.
FillFails ==
    /\ todo > 0 /\ faults < MaxFault
    /\ At("fill", "error")
    /\ queue' = QueueAfterTake
    /\ todo' = 0
    /\ faults' = faults + 1
    /\ UNCHANGED <<flag, total, writeMutex, recordFlag, bufs, wr, errorNum, count, elapsed,
                   files, callers, crashes, inits, history>>

BeginWrite ==
    /\ todo = 0 /\ writeMutex = "free"
    /\ At("fill", "pic")
    /\ wr' = 1
    /\ writeMutex' = "saver"
    /\ UNCHANGED <<queue, flag, total, recordFlag, todo, bufs, errorNum, count, elapsed,
                   files, callers, budget, history>>

\* Append the photos of buffer wr to its day's photo file.
WritePic ==
    /\ wr <= Len(bufs)
    /\ At("pic", "index")
    /\ pic' = [pic EXCEPT ![bufs[wr].day] = AppendPic(@, bufs[wr], bufs[wr].off)]
    /\ UNCHANGED <<shared, locals, index, callers, budget, history>>

\* Mutation: the error path keeps g_writeMutex.
KeepLock == "saver"

ReleaseOnError == "free"

\* open fails, or write stores a proper prefix: the rest of the batch is dropped.
WritePicFails ==
    /\ wr <= Len(bufs) /\ faults < MaxFault
    /\ At("pic", "error")
    /\ \/ UNCHANGED pic
       \/ \E n \in 0..(bufs[wr].off - 1) :
             pic' = [pic EXCEPT ![bufs[wr].day] = AppendPic(@, bufs[wr], n)]
    /\ writeMutex' = ReleaseOnError
    /\ faults' = faults + 1
    /\ UNCHANGED <<queue, flag, total, locals, index, callers, crashes, inits, history>>

\* Mutation: the last entry of the buffer is left out.
IndexOffsetShort(b) == Len(b.entries) - 1

\* indexOffset, in entries.
IndexOffset(b) == Len(b.entries)

WriteIndex ==
    /\ At("index", "pic")
    /\ index' = [index EXCEPT ![bufs[wr].day] =
                    AppendIndex(@, bufs[wr], IndexOffset(bufs[wr]), FALSE)]
    /\ wr' = wr + 1
    /\ UNCHANGED <<shared, recordFlag, todo, bufs, errorNum, count, elapsed,
                   pic, callers, budget, history>>

WriteIndexFails ==
    /\ faults < MaxFault
    /\ At("index", "error")
    /\ \/ UNCHANGED index
       \/ \E n \in 0..(IndexOffset(bufs[wr]) - 1), partial \in BOOLEAN :
             index' = [index EXCEPT ![bufs[wr].day] = AppendIndex(@, bufs[wr], n, partial)]
    /\ writeMutex' = ReleaseOnError
    /\ faults' = faults + 1
    /\ UNCHANGED <<queue, flag, total, locals, pic, callers, crashes, inits, history>>

EndWrite ==
    /\ wr > Len(bufs)
    /\ At("pic", "after")
    /\ writeMutex' = "free"
    /\ bufs' = <<>> /\ wr' = 0
    /\ UNCHANGED <<queue, flag, total, recordFlag, todo, errorNum, count, elapsed,
                   files, callers, budget, history>>
-----------------------------------------------------------------------------
(* saveRecordThread: the end of a round, the error path, and the exit.     *)

\* Mutation: the exit test looks at the shared flag instead of the sample.
ExitRequestedNow == flag = 2

\* Mutation: an off-by-one in the test.
ExitRequestedLate == recordFlag > 2

ExitRequested == recordFlag = 2

\* setRecordFlag(0) after a forced save, whatever the flag says by now.
ClearForced ==
    /\ writeMutex = "free"
    /\ flag' = IF recordFlag = 1 THEN 0 ELSE flag

EndRound ==
    /\ \/ /\ ExitRequested
          /\ At("after", "exit")
          /\ UNCHANGED <<flag, recordFlag>>
       \/ /\ ~ExitRequested
          /\ At("after", "top")
          /\ ClearForced
          /\ recordFlag' = 0
    /\ UNCHANGED <<queue, total, writeMutex, todo, bufs, wr, errorNum, count, elapsed,
                   files, callers, budget, history>>

\* What is left of a thread's memory when it starts again: nothing.
FreshSaver ==
    /\ pc' = "top" /\ recordFlag' = 0 /\ todo' = 0 /\ bufs' = <<>> /\ wr' = 0
    /\ errorNum' = 0 /\ count' = 0 /\ elapsed' = FALSE

\* The device starts again: only the files and the clock survive.  The total is
\* 0 until the application has recounted.
Restart ==
    /\ FreshSaver
    /\ queue' = <<>> /\ flag' = 0 /\ writeMutex' = "free"
    /\ total' = 0 /\ startup' = Recount
    /\ app' = "up" /\ search' = [NoSearch EXCEPT !.num = search.num] /\ owed' = {}
    /\ UNCHANGED <<files, today, nextId, faults, inits, evicted, undeleted>>

\* The batch is dropped; after ErrorLimit failures, never reset, the device reboots.
BatchError ==
    /\ pc = "error"
    /\ \/ /\ ExitRequested
          /\ At("error", "exit")
          /\ bufs' = <<>> /\ wr' = 0
          /\ UNCHANGED <<shared, recordFlag, todo, errorNum, count, elapsed,
                         files, callers, budget, history>>
       \/ /\ ~ExitRequested
          /\ errorNum + 1 < ErrorLimit
          /\ At("error", "top")
          /\ ClearForced
          /\ bufs' = <<>> /\ wr' = 0 /\ recordFlag' = 0
          /\ errorNum' = errorNum + 1
          /\ UNCHANGED <<queue, total, writeMutex, todo, count, elapsed,
                         files, callers, budget, history>>
       \/ /\ ~ExitRequested
          /\ errorNum + 1 >= ErrorLimit
          /\ Restart
          /\ UNCHANGED crashes

SaverExit ==
    /\ At("exit", "gone")
    /\ writeMutex = "free"
    /\ flag' = 3
    /\ UNCHANGED <<queue, total, writeMutex, locals, files, callers, budget, history>>

Saver ==
    \/ LoopTop \/ CheckCapacity \/ Stall \/ ReadFlag \/ CountQueue
    \/ FillOne \/ FillFails \/ BeginWrite
    \/ WritePic \/ WritePicFails \/ WriteIndex \/ WriteIndexFails \/ EndWrite
    \/ EndRound \/ BatchError \/ SaverExit
-----------------------------------------------------------------------------
(* The callers.                                                            *)

\* The application's InitRecordLib behind initRecordLib: gRecordTotal =
\* searchRecordTotal(), while the saver runs already; the count is read ...
CountAtStart ==
    /\ startup.step = "count"
    /\ \E n \in SearchRecordTotal(index) : startup' = [step |-> "set", num |-> n]
    /\ UNCHANGED <<shared, pc, locals, files, today, nextId, app, search, budget, history>>

\* ... and assigned, whatever the saver did in between; the assignment is lost
\* when it falls between the saver's GetRecordTotal and SetRecordTotal.
SetAtStart ==
    /\ startup.step = "set"
    /\ startup' = Started
    /\ \/ total' = startup.num
       \/ pc = "fill" /\ todo > 0 /\ total' = total
    /\ UNCHANGED <<queue, flag, writeMutex, pc, locals, files, today, nextId, app, search,
                   budget, history>>

\* addRecord: a record of today, from any thread, as long as the queue exists.
AddRecord(size) ==
    /\ app # "down" /\ nextId <= MaxRecord
    /\ queue' = Append(queue, [id |-> nextId, day |-> today, size |-> size])
    /\ nextId' = nextId + 1
    /\ UNCHANGED <<flag, total, writeMutex, pc, locals, files, today, app, startup, search,
                   budget, history>>

\* searchRecord, first step: ask for a forced save.  Nothing waits for it.
SearchBegin ==
    /\ app # "down" /\ search.day = 0 /\ search.num < MaxSearch
    /\ writeMutex = "free"
    /\ flag' = 1
    /\ search' = [day |-> 1, end |-> today, found |-> <<>>, saved |-> OnDisk,
                  num |-> search.num + 1]
    /\ UNCHANGED <<queue, total, writeMutex, pc, locals, files, today, nextId, app, startup,
                   budget, history>>

\* Mutation: TimeToNextDay is skipped when the day had a file.
SameDay == IF index[search.day].present THEN search.day ELSE search.day + 1

TimeToNextDay == search.day + 1

\* searchRecord, one day's index file, read without a lock.
SearchDay ==
    /\ search.day \in 1..search.end
    /\ search' = [search EXCEPT !.day = TimeToNextDay, !.found = @ \o index[search.day].entries]
    /\ UNCHANGED <<shared, pc, locals, files, today, nextId, app, startup, budget, history>>

SearchEnd ==
    /\ search.day > search.end
    /\ search' = [NoSearch EXCEPT !.num = search.num]
    /\ UNCHANGED <<shared, pc, locals, files, today, nextId, app, startup, budget, history>>

\* deinitRecordLib up to pthread_join.
DeinitBegin ==
    /\ app = "up" /\ startup = Started /\ writeMutex = "free"
    /\ app' = "stopping"
    /\ flag' = 2
    /\ owed' = 1..(nextId - 1)
    /\ UNCHANGED <<queue, total, writeMutex, pc, locals, files, today, nextId, startup, search, budget,
                   evicted, undeleted>>

\* deinitRecordLib from the join on: the queue is destroyed.
DeinitEnd ==
    /\ app = "stopping" /\ pc = "gone"
    /\ app' = "down"
    /\ queue' = <<>>
    /\ UNCHANGED <<flag, total, writeMutex, pc, locals, files, today, nextId, startup, search,
                   budget, history>>

\* initRecordLib again: a new queue and thread, but g_recordFlag is not reset.
InitRecordLib ==
    /\ app = "down" /\ inits < MaxInit /\ search.day = 0
    /\ app' = "up" /\ startup' = Recount /\ inits' = inits + 1 /\ owed' = {}
    /\ FreshSaver
    /\ UNCHANGED <<shared, files, today, nextId, search, faults, crashes, evicted, undeleted>>
-----------------------------------------------------------------------------
(* The environment.                                                        *)

\* recordSaveInterval passes.
IntervalPasses ==
    /\ ~elapsed
    /\ elapsed' = TRUE
    /\ UNCHANGED <<shared, pc, recordFlag, todo, bufs, wr, errorNum, count,
                   files, callers, budget, history>>

Midnight ==
    /\ today < MaxDay
    /\ today' = today + 1
    /\ UNCHANGED <<shared, pc, locals, files, nextId, app, startup, search, budget, history>>

\* Power loss between any two steps.
Crash ==
    /\ crashes < MaxCrash
    /\ crashes' = crashes + 1
    /\ Restart

Next ==
    \/ Saver
    \/ CountAtStart \/ SetAtStart
    \/ \E size \in Sizes : AddRecord(size)
    \/ SearchBegin \/ SearchDay \/ SearchEnd
    \/ DeinitBegin \/ DeinitEnd \/ InitRecordLib
    \/ IntervalPasses \/ Midnight \/ Crash

Spec == Init /\ [][Next]_vars

\* The saver and a started search or deinit keep running; time passes.
Fairness ==
    /\ WF_vars(Saver)
    /\ WF_vars(IntervalPasses)
    /\ WF_vars(SearchDay \/ SearchEnd)
    /\ WF_vars(DeinitEnd)

FairSpec == Spec /\ Fairness
-----------------------------------------------------------------------------
Photo     == [id : Ids, addr : Nat, size : Sizes]
PicFile   == [present : BOOLEAN, len : Nat,
              recs : SUBSET Photo]
IndexFile == [present : BOOLEAN, entries : Seq(Entry), torn : BOOLEAN, junk : Nat]
Buffer    == [day : Days, startAddr : Nat, no : Nat, off : Nat, photos : SUBSET Photo,
              entries : Seq(Entry)]
Places    == {"top", "sdCheck", "sdDelPic", "sdDelIndex", "flashCheck", "flashDelPic",
              "flashDelIndex", "guard", "count", "fill", "pic", "index", "after", "error",
              "exit", "gone"}
LockedPlaces == {"sdCheck", "sdDelPic", "sdDelIndex", "flashCheck", "flashDelPic",
                 "flashDelIndex", "pic", "index"}

SharedOK ==
    /\ queue \in Seq(Record) /\ flag \in 0..3 /\ total \in Int /\ writeMutex \in {"free", "saver"}
SaverOK ==
    /\ pc \in Places /\ recordFlag \in 0..3 /\ todo \in 0..Len(queue) /\ (pc # "fill" => todo = 0)
    /\ bufs \in Seq(Buffer) /\ wr \in 0..(Len(bufs) + 1)
    /\ (pc \in {"pic", "index"} => wr > 0) /\ (pc = "index" => wr <= Len(bufs))
    /\ errorNum \in 0..(ErrorLimit - 1) /\ count \in 0..(CheckPeriod - 1) /\ elapsed \in BOOLEAN
FilesOK ==
    /\ pic \in [Days -> PicFile] /\ index \in [Days -> IndexFile]
CallersOK ==
    /\ today \in Days /\ nextId \in 1..(MaxRecord + 1) /\ app \in {"up", "stopping", "down"}
    /\ startup \in [step : {"count", "set", "done"}, num : Nat]
    /\ search \in [day : 0..(MaxDay + 1), end : 0..MaxDay, found : Seq(Entry),
                   saved : SUBSET Ids, num : 0..MaxSearch]
    /\ faults \in 0..MaxFault /\ crashes \in 0..MaxCrash /\ inits \in 1..MaxInit
    /\ evicted \subseteq Ids /\ owed \subseteq Ids /\ undeleted \in Nat

(* The values of the variables; the loop index of the write phase stays    *)
(* within the buffers, and the dequeue loop within the queue.              *)
TypeOK == SharedOK /\ SaverOK /\ FilesOK /\ CallersOK

(* The saver holds g_writeMutex exactly in the sections of                 *)
(* saveRecordThread that lock it, on every path in and out, the error      *)
(* paths included: no setRecordFlag, the saver's own calls included, ever  *)
(* waits for a lock that nobody will release.                              *)
LockMatchesPlace == writeMutex = IF pc \in LockedPlaces THEN "saver" ELSE "free"

(* Without power loss or a failed deletion, the photo an index entry       *)
(* points at is there and is the photo of that record: startAddr, computed *)
(* from stat() when the batch is filled, is where the photo lands when the *)
(* batch is written, failed and partial writes of earlier batches          *)
(* included, and the clean-up removes a day's photos only together with    *)
(* its index. In between the two deletions only the oldest index file may  *)
(* be ahead of its photos.                                                 *)
IndexedPhotoIsOwn ==
    (crashes = 0 /\ undeleted = 0) =>
        \A d \in Days : \A i \in DOMAIN index[d].entries :
            LET e == index[d].entries[i]
            IN  \/ [id |-> e.id, addr |-> e.addr, size |-> e.size] \in pic[d].recs
                \/ /\ pc \in {"sdDelIndex", "flashDelIndex"}
                   /\ \A x \in Days : index[x].present => d <= x

(* A reader that follows an index entry never gets the photo of another    *)
(* record (getOneRecordPhoto: startAddr is "the start address of this      *)
(* record's photo data").                                                  *)
NoForeignPhoto ==
    \A d \in Days : \A i \in DOMAIN index[d].entries : \A p \in pic[d].recs :
        p.addr = index[d].entries[i].addr => p.id = index[d].entries[i].id

(* Power loss included, every record in the index of the current day has   *)
(* its own photo: the photo is written before the index entry, and the     *)
(* files of the current day are never deleted.                             *)
TodayPhotosIntact ==
    \A i \in DOMAIN index[today].entries :
        LET e == index[today].entries[i]
        IN  [id |-> e.id, addr |-> e.addr, size |-> e.size] \in pic[today].recs

(* Each day's index lists records in the order addRecord accepted them,    *)
(* none of them twice, whatever fails or restarts in between: a failed     *)
(* batch is dropped and never written again.                               *)
SavedOnceInOrder ==
    \A d \in Days : \A i, j \in DOMAIN index[d].entries :
        i < j => index[d].entries[i].id < index[d].entries[j].id

(* Until a write fails, power is lost or the queue is destroyed, every     *)
(* accepted record is queued, being saved, in an index file, or deleted    *)
(* with its day.                                                           *)
NothingLost ==
    (faults = 0 /\ crashes = 0 /\ inits = 1 /\ app # "down") =>
        1..(nextId - 1) = InQueue \cup InBuffers \cup OnDisk \cup evicted

(* When deinitRecordLib has joined the saver, every record accepted before *)
(* it was called has been saved (or deleted with its day): the exit flag   *)
(* is sampled before the queue is counted, and acted on after the save.    *)
DeinitSavesAccepted ==
    (faults = 0 /\ crashes = 0 /\ inits = 1 /\ pc = "gone") => owed \subseteq OnDisk \cup evicted

\* The index file of day d is extended, or deleted as a whole; its photos too.
IndexGrows(d) ==
    \/ \E n \in 0..Len(index'[d].entries) : index[d].entries = SubSeq(index'[d].entries, 1, n)
    \/ d < today /\ index'[d] = NoIndex
PicGrows(d) ==
    \/ pic[d].recs \subseteq pic'[d].recs /\ pic[d].len <= pic'[d].len
    \/ d < today /\ pic'[d] = NoPic

(* Files only grow, except that the clean-up may delete a day before today *)
(* as a whole; the records of the current day are never deleted.           *)
FilesOnlyGrow == [][\A d \in Days : IndexGrows(d) /\ PicGrows(d)]_vars

(* Every record in the queue is eventually saved unless deinitRecordLib    *)
(* is called: no race of searches with the saver's reset of the flag       *)
(* leaves a record in the queue for good.                                  *)
QueuedIsSaved == \A r \in Ids : r \in InQueue ~> (r \in OnDisk \cup evicted \/ app # "up")

\* A file that the clean-up may delete, and a day's file that alone fills the device.
OldDay    == \E d \in Days : d < today /\ index[d].present
TodayFull == Len(index[today].entries) + index[today].junk >= RecordMax - MaxBufNum

(* At capacity the saver saves nothing, and does not even look at the flag *)
(* or the queue; it comes out of that state as long as there are earlier   *)
(* days to delete, unless the records of the current day alone fill the    *)
(* device.  The total that put it there may be wrong by failed batches,    *)
(* removed users or the application's late assignment.                     *)
StallEnds ==
    (Full /\ OldDay /\ pc # "gone") ~> (~Full \/ TodayFull \/ pc = "gone")

(* deinitRecordLib returns: flag value 2 makes the saver thread exit.      *)
StopLeadsToExit == app = "stopping" ~> app = "down"

(* deinitRecordLib returns when no search runs into it: only a forced save *)
(* resets the flag, and below the capacity the saver comes to read it.     *)
StopWithoutSearch ==
    (app = "stopping" /\ search.num = 0) ~> (app = "down" \/ search.num > 0)

(* A finished search returns every record that was on disk when it began   *)
(* and has not been deleted since, none of them twice, although it reads   *)
(* the index files without a lock while the saver appends and deletes.     *)
SearchFindsSaved ==
    /\ search.day > search.end => search.saved \subseteq IdsOf(search.found) \cup evicted
    /\ \A i, j \in DOMAIN search.found : i # j => search.found[i].id # search.found[j].id
=============================================================================
