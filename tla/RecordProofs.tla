---------------------------- MODULE RecordProofs ----------------------------
(***************************************************************************)
(* The safety properties of RecordLib for every value of its constants.    *)
(*                                                                         *)
(* First the types (TypeOK and the operators it rests on), then one part   *)
(* per property, each with the inductive invariant it needs: the order of  *)
(* the records (OrderInv), that none is lost (KeptInv), what a search      *)
(* returns (SearchInv), and the photos (PhotoInv).                         *)
(***************************************************************************)
EXTENDS RecordLib, TLAPS

(* A leaf is Zenon's unless it names other provers.                        *)
USE Zenon

\* A clean-up that could not delete the file.
CleanUpFails ==
    \/ DelOldFails("sdDelPic", "sdDelIndex") \/ DelOldFails("sdDelIndex", "flashCheck")
    \/ DelOldFails("flashDelPic", "flashDelIndex") \/ DelOldFails("flashDelIndex", "guard")

\* The steps of callers and environment that leave queue, batch and files alone.
QuietCallers ==
    \/ CountAtStart \/ SetAtStart \/ SearchBegin \/ SearchDay \/ SearchEnd \/ DeinitBegin
    \/ IntervalPasses \/ Midnight

(* What LibAssumption says of each constant, one by one, for the           *)
(* arithmetic of the steps below.                                          *)
LEMMA Constants ==
    /\ RecordMax \in Nat /\ MaxOperateQueue \in Nat /\ MaxSearch \in Nat
    /\ MaxFault \in Nat /\ MaxCrash \in Nat
    /\ CheckPeriod \in Nat /\ CheckPeriod > 0 /\ ErrorLimit \in Nat /\ ErrorLimit > 0
    /\ MaxDay \in Nat /\ MaxDay > 0 /\ MaxRecord \in Nat /\ MaxRecord > 0
    /\ MaxInit \in Nat /\ MaxInit > 0 /\ MaxBufNum \in Nat
    /\ \A s \in Sizes : s \in Nat /\ s > 0
BY LibAssumption, SMTT(30), Z3T(30)

(* A day without files (the state delOldRecordFile leaves) is of the file  *)
(* types.                                                                  *)
LEMMA NoFileTypes == NoPic \in PicFile /\ NoIndex \in IndexFile
<1>1. NoPic \in PicFile
  BY DEF NoPic, PicFile
<1>2. NoIndex \in IndexFile
  <2>1. <<>> \in Seq(Entry)
    BY SMTT(30), Z3T(30)
  <2> QED BY <2>1 DEF NoIndex, IndexFile
<1> QED BY <1>1, <1>2

(* The file that is deleted is there, is the oldest and is not today's.    *)
LEMMA OldFileFacts ==
    ASSUME NEW dir, NEW o \in OldFile(dir)
    PROVE  o \in Days /\ o < today /\ dir[o].present /\ \A d \in Days : dir[d].present => o <= d
BY DEF OldFile, Oldest, OldEnough

(* The buffer that the dequeue loop opens for a day is of the buffer type: *)
(* stat() and getLastFileIndexNo yield naturals.                           *)
LEMMA NewBufferType == ASSUME FilesOK, NEW d \in Days PROVE NewBuffer(d) \in Buffer
<1>1. pic[d] \in PicFile /\ index[d] \in IndexFile
  BY DEF FilesOK
<1>2. PicSize(d) \in Nat
  BY <1>1 DEF PicSize, PicFile
<1>3. LastFileIndexNo(d) \in Nat
  BY <1>1, SMTT(30), Z3T(30) DEF LastFileIndexNo, IndexFile, Entry
<1>4. <<>> \in Seq(Entry)
  BY SMTT(30), Z3T(30)
<1> QED BY <1>2, <1>3, <1>4, SMTT(30), Z3T(30) DEF NewBuffer, Buffer

(* The start state of saveRecordThread is of the declared types.           *)
LEMMA TypeInit == Init => TypeOK
<1> SUFFICES ASSUME Init PROVE TypeOK
  OBVIOUS
<1>1. SharedOK
  BY SMTT(30), Z3T(30) DEF Init, SharedOK
<1>2. SaverOK
  <2>1. <<>> \in Seq(Buffer) /\ Len(<<>>) = 0
    BY SMTT(30), Z3T(30)
  <2>2. elapsed \in BOOLEAN
    BY DEF Init
  <2> QED BY <2>1, <2>2, Constants, SMTT(30), Z3T(30) DEF Init, SaverOK, Places
<1>3. FilesOK
  BY NoFileTypes DEF Init, FilesOK
<1>4. CallersOK
  BY Constants, SMTT(30), Z3T(30) DEF Init, CallersOK, NoSearch, Recount, Days, Ids
<1> QED BY <1>1, <1>2, <1>3, <1>4 DEF TypeOK

(* Every step of every thread keeps the types.                             *)
LEMMA TypeNext == TypeOK /\ [Next]_vars => TypeOK'
  (* searchRecordTotal yields an integer.                                    *)
<1>TotalIsInteger. \A ix : SearchRecordTotal(ix) \subseteq Int /\ SearchRecordTotal(ix) \subseteq Nat
  BY SMTT(30), Z3T(30) DEF SearchRecordTotal
  (* Appending any prefix of a buffer to a photo file gives a photo file.    *)
<1>AppendPicType. ASSUME NEW f \in PicFile, NEW b \in Buffer, NEW n \in Nat
                  PROVE  AppendPic(f, b, n) \in PicFile
  <2> USE <1>AppendPicType
  <2> DEFINE placed == {[p EXCEPT !.addr = f.len + @] : p \in b.photos}
  <2>1. placed \subseteq Photo
    <3> SUFFICES ASSUME NEW p \in Photo PROVE [p EXCEPT !.addr = f.len + @] \in Photo
      BY DEF Buffer
    <3> QED BY SMTT(30), Z3T(30) DEF Photo, PicFile
  <2> QED BY <2>1, SMTT(30), Z3T(30) DEF AppendPic, PicFile
  (* Appending any prefix of a buffer to an index file, with or without a    *)
  (* fragment, gives an index file.                                          *)
<1>AppendIndexType. ASSUME NEW f \in IndexFile, NEW b \in Buffer, NEW n \in 0..Len(b.entries), NEW partial \in BOOLEAN
                    PROVE  AppendIndex(f, b, n, partial) \in IndexFile
  <2> USE <1>AppendIndexType
  <2>1. b.entries \in Seq(Entry) /\ f.entries \in Seq(Entry)
    BY DEF Buffer, IndexFile
  <2>2. SubSeq(b.entries, 1, n) \in Seq(Entry)
    BY <2>1, SMTT(30), Z3T(30)
  <2>3. f.entries \o SubSeq(b.entries, 1, n) \in Seq(Entry)
    BY <2>1, <2>2, SMTT(30), Z3T(30)
  <2>4. n \in Nat /\ f.junk \in Nat
    BY <2>1, SMTT(30), Z3T(30) DEF IndexFile
  <2> QED BY <2>1, <2>3, <2>4, SMTT(30), Z3T(30) DEF AppendIndex, IndexFile
  (* Adding a record to a buffer keeps the buffer type.                      *)
<1>AddToType. ASSUME NEW b \in Buffer, NEW r \in Record PROVE AddTo(b, r) \in Buffer
  <2> USE <1>AddToType
  <2> DEFINE e == [no |-> b.no, id |-> r.id, addr |-> AddrOfNext(b), size |-> r.size]
  <2>1. e \in Entry
    BY SMTT(30), Z3T(30) DEF Buffer, Record, Entry, AddrOfNext
  <2>2. b.entries \in Seq(Entry)
    BY DEF Buffer
  <2>3. Append(b.entries, e) \in Seq(Entry)
    BY <2>1, <2>2, SMTT(30), Z3T(30)
  <2>4. b.off + r.size \in Nat
    BY Constants, SMTT(30), Z3T(30) DEF Buffer, Record
  <2>5. b.photos \cup {[id |-> r.id, addr |-> b.off, size |-> r.size]} \subseteq Photo
    BY SMTT(30), Z3T(30) DEF Buffer, Record, Photo
  <2> QED BY <2>3, <2>4, <2>5 DEF AddTo, Buffer
  (* The dequeue loop keeps a sequence of buffers and never drops one.       *)
<1>BufferedType. ASSUME FilesOK, bufs \in Seq(Buffer), NEW r \in Record
                 PROVE  Buffered(r) \in Seq(Buffer) /\ Len(Buffered(r)) >= Len(bufs)
  <2> USE <1>BufferedType
  <2> DEFINE same == {j \in DOMAIN bufs : bufs[j].day = r.day}
             k == CHOOSE j \in same : TRUE
  <2>1. CASE same = {}
    <3>1. AddTo(NewBuffer(r.day), r) \in Buffer
      BY NewBufferType, <1>AddToType DEF Record
    <3> QED BY <2>1, <3>1, SMTT(30), Z3T(30) DEF Buffered
  <2>2. CASE same # {}
    <3>1. k \in same
      BY <2>2
    <3>2. k \in 1..Len(bufs) /\ AddTo(bufs[k], r) \in Buffer
      BY <3>1, <1>AddToType, SMTT(30), Z3T(30)
    <3>3. [bufs EXCEPT ![k] = AddTo(bufs[k], r)] \in Seq(Buffer)
      BY <3>2, SMTT(30), Z3T(30)
    <3>4. Buffered(r) = [bufs EXCEPT ![k] = AddTo(bufs[k], r)]
      BY <2>2 DEF Buffered
    <3> QED BY <3>2, <3>3, <3>4, SMTT(30), Z3T(30)
  <2> QED BY <2>1, <2>2
  (* Steps that leave the shared variables alone keep their types.           *)
<1>FrameShared. ASSUME SharedOK, UNCHANGED <<queue, flag, total, writeMutex>> PROVE SharedOK'
  BY <1>FrameShared DEF SharedOK
  (* Steps that leave both directories alone keep their types.               *)
<1>FrameFiles. ASSUME FilesOK, UNCHANGED files PROVE FilesOK'
  BY <1>FrameFiles DEF FilesOK, files
  (* Steps that leave callers, budgets and history alone keep their types.   *)
<1>FrameCallers. ASSUME CallersOK, UNCHANGED <<callers, budget, history>> PROVE CallersOK'
  BY <1>FrameCallers DEF CallersOK, callers, budget, history
  (* LoopTop keeps the types: the round counter stays below CheckPeriod.     *)
<1>TypeLoopTop. TypeOK /\ LoopTop => TypeOK'
  <2> SUFFICES ASSUME TypeOK, LoopTop PROVE TypeOK'
    OBVIOUS
  <2>1. SharedOK'
    BY DEF LoopTop, TypeOK, SharedOK
  <2>2. SaverOK'
    BY Constants, SMTT(30), Z3T(30) DEF LoopTop, At, TypeOK, SaverOK, Places
  <2>3. FilesOK'
    BY <1>FrameFiles DEF LoopTop, TypeOK
  <2>4. CallersOK'
    BY <1>FrameCallers DEF LoopTop, TypeOK
  <2> QED BY <2>1, <2>2, <2>3, <2>4 DEF TypeOK
  (* Stall, the early end of a round at capacity, keeps the types.           *)
<1>TypeStall. TypeOK /\ Stall => TypeOK'
  <2> SUFFICES ASSUME TypeOK, Stall PROVE TypeOK'
    OBVIOUS
  <2>1. SharedOK'
    BY <1>FrameShared DEF Stall, TypeOK, shared
  <2>2. SaverOK'
    BY Constants DEF Stall, At, TypeOK, SharedOK, SaverOK, Places, locals, shared
  <2>3. FilesOK'
    BY <1>FrameFiles DEF Stall, TypeOK
  <2>4. CallersOK'
    BY <1>FrameCallers DEF Stall, TypeOK
  <2> QED BY <2>1, <2>2, <2>3, <2>4 DEF TypeOK
  (* ReadFlag, the sample of g_recordFlag, keeps the types.                  *)
<1>TypeReadFlag. TypeOK /\ ReadFlag => TypeOK'
  <2> SUFFICES ASSUME TypeOK, ReadFlag PROVE TypeOK'
    OBVIOUS
  <2>1. SharedOK'
    BY <1>FrameShared DEF ReadFlag, TypeOK, shared
  <2>2. SaverOK'
    BY Constants DEF ReadFlag, At, TypeOK, SharedOK, SaverOK, Places, shared
  <2>3. FilesOK'
    BY <1>FrameFiles DEF ReadFlag, TypeOK
  <2>4. CallersOK'
    BY <1>FrameCallers DEF ReadFlag, TypeOK
  <2> QED BY <2>1, <2>2, <2>3, <2>4 DEF TypeOK
  (* CountQueue keeps the types: the number to dequeue is within the queue.  *)
<1>TypeCountQueue. TypeOK /\ CountQueue => TypeOK'
  <2> SUFFICES ASSUME TypeOK, CountQueue PROVE TypeOK'
    OBVIOUS
  <2>1. SharedOK'
    BY <1>FrameShared DEF CountQueue, TypeOK, shared
  <2>2. SaverOK'
    <3>1. elapsed' \in BOOLEAN
      BY DEF CountQueue, TypeOK, SaverOK
    <3>2. Len(queue) \in Nat /\ todo' \in 0..Len(queue')
      BY SMTT(30), Z3T(30) DEF CountQueue, TypeOK, SharedOK, SaverOK, shared
    <3> QED BY <3>1, <3>2 DEF CountQueue, At, TypeOK, SaverOK, Places
  <2>3. FilesOK'
    BY <1>FrameFiles DEF CountQueue, TypeOK
  <2>4. CallersOK'
    BY <1>FrameCallers DEF CountQueue, TypeOK
  <2> QED BY <2>1, <2>2, <2>3, <2>4 DEF TypeOK
  (* One turn of the dequeue loop keeps the types: the number left to        *)
  (* dequeue stays within the shorter queue.                                 *)
<1>TypeFillOne. TypeOK /\ FillOne => TypeOK'
  <2> SUFFICES ASSUME TypeOK, FillOne PROVE TypeOK'
    OBVIOUS
  <2>1. SharedOK'
    <3>1. Head(queue) \in Record /\ Tail(queue) \in Seq(Record)
      BY SMTT(30), Z3T(30) DEF FillOne, TypeOK, SharedOK, SaverOK
    <3> QED BY <3>1, SMTT(30), Z3T(30) DEF FillOne, QueueAfterTake, TypeOK, SharedOK
  <2>2. SaverOK'
    <3>1. Head(queue) \in Record /\ Len(Tail(queue)) = Len(queue) - 1 /\ Len(queue) \in Nat
      BY SMTT(30), Z3T(30) DEF FillOne, TypeOK, SharedOK, SaverOK
    <3>2. bufs' \in Seq(Buffer) /\ Len(bufs') >= Len(bufs)
      BY <3>1, <1>BufferedType DEF FillOne, TypeOK, SaverOK
    <3> QED BY <3>1, <3>2, Constants, SMTT(30), Z3T(30) DEF FillOne, QueueAfterTake, TypeOK, SaverOK
  <2>3. FilesOK'
    BY <1>FrameFiles DEF FillOne, TypeOK
  <2>4. CallersOK'
    BY <1>FrameCallers DEF FillOne, TypeOK
  <2> QED BY <2>1, <2>2, <2>3, <2>4 DEF TypeOK
  (* A failed realloc in the dequeue loop keeps the types.                   *)
<1>TypeFillFails. TypeOK /\ FillFails => TypeOK'
  <2> SUFFICES ASSUME TypeOK, FillFails PROVE TypeOK'
    OBVIOUS
  <2>1. SharedOK'
    <3>1. Tail(queue) \in Seq(Record)
      BY SMTT(30), Z3T(30) DEF FillFails, TypeOK, SharedOK, SaverOK
    <3> QED BY <3>1 DEF FillFails, QueueAfterTake, TypeOK, SharedOK
  <2>2. SaverOK'
    <3>1. Len(Tail(queue)) \in Nat
      BY SMTT(30), Z3T(30) DEF FillFails, TypeOK, SharedOK, SaverOK
    <3> QED BY <3>1, Constants, SMTT(30), Z3T(30) DEF FillFails, QueueAfterTake, At, TypeOK, SaverOK, Places
  <2>3. FilesOK'
    BY <1>FrameFiles DEF FillFails, TypeOK
  <2>4. CallersOK'
    BY Constants, SMTT(30), Z3T(30) DEF FillFails, TypeOK, CallersOK, callers, history
  <2> QED BY <2>1, <2>2, <2>3, <2>4 DEF TypeOK
  (* BeginWrite keeps the types: the write loop starts at the first buffer.  *)
<1>TypeBeginWrite. TypeOK /\ BeginWrite => TypeOK'
  <2> SUFFICES ASSUME TypeOK, BeginWrite PROVE TypeOK'
    OBVIOUS
  <2>1. SharedOK'
    BY Constants DEF BeginWrite, TypeOK, SharedOK
  <2>2. SaverOK'
    BY Constants, SMTT(30), Z3T(30) DEF BeginWrite, At, TypeOK, SharedOK, SaverOK, Places, locals, shared
  <2>3. FilesOK'
    BY <1>FrameFiles DEF BeginWrite, TypeOK
  <2>4. CallersOK'
    BY <1>FrameCallers DEF BeginWrite, TypeOK
  <2> QED BY <2>1, <2>2, <2>3, <2>4 DEF TypeOK
  (* WritePic keeps the types: the loop index is within the buffers.         *)
<1>TypeWritePic. TypeOK /\ WritePic => TypeOK'
  <2> SUFFICES ASSUME TypeOK, WritePic PROVE TypeOK'
    OBVIOUS
  <2>1. SharedOK'
    BY <1>FrameShared DEF WritePic, TypeOK, shared
  <2>2. SaverOK'
    BY Constants DEF WritePic, At, TypeOK, SharedOK, SaverOK, Places, locals, shared
  <2>3. FilesOK'
    <3>1. bufs[wr] \in Buffer
      BY SMTT(30), Z3T(30) DEF WritePic, At, TypeOK, SaverOK
    <3>2. AppendPic(pic[bufs[wr].day], bufs[wr], bufs[wr].off) \in PicFile
      BY <3>1, <1>AppendPicType DEF TypeOK, FilesOK, Buffer
    <3> QED BY <3>2 DEF WritePic, TypeOK, FilesOK
  <2>4. CallersOK'
    BY <1>FrameCallers DEF WritePic, TypeOK
  <2> QED BY <2>1, <2>2, <2>3, <2>4 DEF TypeOK
  (* A failed or partial photo write keeps the types.                        *)
<1>TypeWritePicFails. TypeOK /\ WritePicFails => TypeOK'
  <2> SUFFICES ASSUME TypeOK, WritePicFails PROVE TypeOK'
    OBVIOUS
  <2>1. SharedOK'
    BY DEF WritePicFails, ReleaseOnError, TypeOK, SharedOK
  <2>2. SaverOK'
    BY Constants DEF WritePicFails, At, TypeOK, SharedOK, SaverOK, Places, locals, shared
  <2>3. FilesOK'
    <3>1. bufs[wr] \in Buffer
      BY SMTT(30), Z3T(30) DEF WritePicFails, At, TypeOK, SaverOK
    <3>2. \A n \in 0..(bufs[wr].off - 1) : AppendPic(pic[bufs[wr].day], bufs[wr], n) \in PicFile
      BY <3>1, <1>AppendPicType, SMTT(30), Z3T(30) DEF TypeOK, FilesOK, Buffer
    <3> QED BY <3>2 DEF WritePicFails, TypeOK, FilesOK
  <2>4. CallersOK'
    BY Constants, SMTT(30), Z3T(30) DEF WritePicFails, TypeOK, CallersOK, callers, history
  <2> QED BY <2>1, <2>2, <2>3, <2>4 DEF TypeOK
  (* WriteIndex keeps the types: the loop index goes at most one past the    *)
  (* buffers.                                                                *)
<1>TypeWriteIndex. TypeOK /\ WriteIndex => TypeOK'
  <2> SUFFICES ASSUME TypeOK, WriteIndex PROVE TypeOK'
    OBVIOUS
  <2>1. SharedOK'
    BY <1>FrameShared DEF WriteIndex, TypeOK, shared
  <2>2. SaverOK'
    BY Constants, SMTT(30), Z3T(30) DEF WriteIndex, At, TypeOK, SharedOK, SaverOK, Places, locals, shared
  <2>3. FilesOK'
    <3>1. bufs[wr] \in Buffer
      BY SMTT(30), Z3T(30) DEF WriteIndex, At, TypeOK, SaverOK
    <3>2. bufs[wr].day \in Days /\ IndexOffset(bufs[wr]) \in 0..Len(bufs[wr].entries)
      BY <3>1, SMTT(30), Z3T(30) DEF Buffer, IndexOffset
    <3>3. AppendIndex(index[bufs[wr].day], bufs[wr], IndexOffset(bufs[wr]), FALSE) \in IndexFile
      BY <3>1, <3>2, <1>AppendIndexType DEF TypeOK, FilesOK
    <3> QED BY <3>3 DEF WriteIndex, TypeOK, FilesOK
  <2>4. CallersOK'
    BY <1>FrameCallers DEF WriteIndex, TypeOK
  <2> QED BY <2>1, <2>2, <2>3, <2>4 DEF TypeOK
  (* A failed or partial index write keeps the types.                        *)
<1>TypeWriteIndexFails. TypeOK /\ WriteIndexFails => TypeOK'
  <2> SUFFICES ASSUME TypeOK, WriteIndexFails PROVE TypeOK'
    OBVIOUS
  <2>1. SharedOK'
    BY DEF WriteIndexFails, ReleaseOnError, TypeOK, SharedOK
  <2>2. SaverOK'
    BY Constants DEF WriteIndexFails, At, TypeOK, SharedOK, SaverOK, Places, locals, shared
  <2>3. FilesOK'
    <3>1. bufs[wr] \in Buffer
      BY SMTT(30), Z3T(30) DEF WriteIndexFails, At, TypeOK, SaverOK
    <3>2. bufs[wr].day \in Days /\ bufs[wr].entries \in Seq(Entry)
      BY <3>1 DEF Buffer
    <3>3. index[bufs[wr].day] \in IndexFile
      BY <3>2 DEF TypeOK, FilesOK
    <3>4. \A n \in 0..(Len(bufs[wr].entries) - 1) : n \in 0..Len(bufs[wr].entries)
      BY <3>2, SMTT(30), Z3T(30)
    <3>5. \A n \in 0..(Len(bufs[wr].entries) - 1), partial \in BOOLEAN :
             AppendIndex(index[bufs[wr].day], bufs[wr], n, partial) \in IndexFile
      BY <3>1, <3>3, <3>4, <1>AppendIndexType
    <3> QED BY <3>5, SMTT(30), Z3T(30) DEF WriteIndexFails, IndexOffset, TypeOK, FilesOK
  <2>4. CallersOK'
    BY Constants, SMTT(30), Z3T(30) DEF WriteIndexFails, TypeOK, CallersOK, callers, history
  <2> QED BY <2>1, <2>2, <2>3, <2>4 DEF TypeOK
  (* EndWrite, which frees the buffers, keeps the types.                     *)
<1>TypeEndWrite. TypeOK /\ EndWrite => TypeOK'
  <2> SUFFICES ASSUME TypeOK, EndWrite PROVE TypeOK'
    OBVIOUS
  <2>1. SharedOK'
    BY Constants DEF EndWrite, TypeOK, SharedOK
  <2>2. SaverOK'
    <3>1. <<>> \in Seq(Buffer) /\ Len(<<>>) = 0
      BY SMTT(30), Z3T(30)
    <3> QED BY <3>1, Constants, SMTT(30), Z3T(30) DEF EndWrite, At, TypeOK, SharedOK, SaverOK, Places
  <2>3. FilesOK'
    BY <1>FrameFiles DEF EndWrite, TypeOK
  <2>4. CallersOK'
    BY <1>FrameCallers DEF EndWrite, TypeOK
  <2> QED BY <2>1, <2>2, <2>3, <2>4 DEF TypeOK
  (* EndRound, with its reset of the flag, keeps the types.                  *)
<1>TypeEndRound. TypeOK /\ EndRound => TypeOK'
  <2> SUFFICES ASSUME TypeOK, EndRound PROVE TypeOK'
    OBVIOUS
  <2>1. SharedOK'
    BY SMTT(30), Z3T(30) DEF EndRound, ClearForced, TypeOK, SharedOK
  <2>2. SaverOK'
    BY Constants, SMTT(30), Z3T(30) DEF EndRound, At, TypeOK, SharedOK, SaverOK, Places, locals, shared
  <2>3. FilesOK'
    BY <1>FrameFiles DEF EndRound, TypeOK
  <2>4. CallersOK'
    BY <1>FrameCallers DEF EndRound, TypeOK
  <2> QED BY <2>1, <2>2, <2>3, <2>4 DEF TypeOK
  (* SaverExit keeps the types.                                              *)
<1>TypeSaverExit. TypeOK /\ SaverExit => TypeOK'
  <2> SUFFICES ASSUME TypeOK, SaverExit PROVE TypeOK'
    OBVIOUS
  <2>1. SharedOK'
    BY Constants, SMTT(30), Z3T(30) DEF SaverExit, TypeOK, SharedOK
  <2>2. SaverOK'
    BY Constants DEF SaverExit, At, TypeOK, SharedOK, SaverOK, Places, locals, shared
  <2>3. FilesOK'
    BY <1>FrameFiles DEF SaverExit, TypeOK
  <2>4. CallersOK'
    BY <1>FrameCallers DEF SaverExit, TypeOK
  <2> QED BY <2>1, <2>2, <2>3, <2>4 DEF TypeOK
  (* checkStorageCapacity keeps the types, for each storage device.          *)
<1>TypeCheckStorage.
      ASSUME TypeOK, NEW here \in Places \ {"fill"}, NEW del \in Places \ {"pic", "index"},
             NEW done \in Places \ {"pic", "index"}, CheckStorage(here, del, done)
      PROVE  TypeOK'
  <2> USE <1>TypeCheckStorage
  <2>1. SharedOK'
    BY DEF CheckStorage, TypeOK, SharedOK
  <2>2. SaverOK'
    BY Constants DEF CheckStorage, At, TypeOK, SharedOK, SaverOK, Places, locals, shared
  <2>3. FilesOK'
    BY <1>FrameFiles DEF CheckStorage, TypeOK
  <2>4. CallersOK'
    BY <1>FrameCallers DEF CheckStorage, TypeOK
  <2> QED BY <2>1, <2>2, <2>3, <2>4 DEF TypeOK
  (* delOldRecordFile on the photo directory keeps the types.                *)
<1>TypeDelOldPic.
      ASSUME TypeOK, NEW here \in Places \ {"fill"}, NEW there \in Places \ {"pic", "index"}, DelOldPic(here, there)
      PROVE  TypeOK'
  <2> USE <1>TypeDelOldPic
  <2>1. SharedOK'
    BY <1>TotalIsInteger DEF DelOldPic, TypeOK, SharedOK
  <2>2. SaverOK'
    BY Constants DEF DelOldPic, At, TypeOK, SharedOK, SaverOK, Places, locals, shared
  <2>3. FilesOK'
    BY NoFileTypes DEF DelOldPic, TypeOK, FilesOK
  <2>4. CallersOK'
    BY <1>FrameCallers DEF DelOldPic, TypeOK
  <2> QED BY <2>1, <2>2, <2>3, <2>4 DEF TypeOK
  (* The records of an index file are records that were accepted.            *)
<1>IdsOfIndex. ASSUME FilesOK, NEW d \in Days PROVE IdsOf(index[d].entries) \subseteq Ids
  <2> USE <1>IdsOfIndex
  <2>1. index[d].entries \in Seq(Entry)
    BY DEF FilesOK, IndexFile
  <2>2. \A i \in DOMAIN index[d].entries : index[d].entries[i].id \in Ids
    <3> TAKE i \in DOMAIN index[d].entries
    <3>1. index[d].entries[i] \in Entry
      BY <2>1, SMTT(30), Z3T(30)
    <3> QED BY <3>1 DEF Entry
  <2> QED BY <2>2 DEF IdsOf
  (* delOldRecordFile on the index directory keeps the types.                *)
<1>TypeDelOldIndex.
      ASSUME TypeOK, NEW here \in Places \ {"fill"}, NEW there \in Places \ {"pic", "index"}, DelOldIndex(here, there)
      PROVE  TypeOK'
  <2> USE <1>TypeDelOldIndex
  <2>1. SharedOK'
    BY <1>TotalIsInteger DEF DelOldIndex, TypeOK, SharedOK
  <2>2. SaverOK'
    BY Constants DEF DelOldIndex, At, TypeOK, SharedOK, SaverOK, Places, locals, shared
  <2>3. FilesOK'
    BY NoFileTypes DEF DelOldIndex, TypeOK, FilesOK
  <2>4. CallersOK'
    <3>1. evicted' \subseteq Ids
      BY <1>IdsOfIndex, OldFileFacts DEF DelOldIndex, TypeOK, CallersOK
    <3> QED BY <3>1 DEF DelOldIndex, TypeOK, CallersOK, callers, budget
  <2> QED BY <2>1, <2>2, <2>3, <2>4 DEF TypeOK
  (* delOldRecordFile that could not delete keeps the types.                 *)
<1>TypeDelOldFails.
      ASSUME TypeOK, NEW here \in Places \ {"fill"}, NEW there \in Places \ {"pic", "index"}, DelOldFails(here, there)
      PROVE  TypeOK'
  <2> USE <1>TypeDelOldFails
  <2>1. SharedOK'
    BY <1>TotalIsInteger DEF DelOldFails, TypeOK, SharedOK
  <2>2. SaverOK'
    BY Constants DEF DelOldFails, At, TypeOK, SharedOK, SaverOK, Places, locals, shared
  <2>3. FilesOK'
    BY <1>FrameFiles DEF DelOldFails, TypeOK
  <2>4. CallersOK'
    BY Constants, SMTT(30), Z3T(30) DEF DelOldFails, TypeOK, CallersOK, callers
  <2> QED BY <2>1, <2>2, <2>3, <2>4 DEF TypeOK
  (* A saver that starts afresh has locals of the declared types.            *)
<1>TypeFresh. ASSUME TypeOK, queue' = queue \/ queue' = <<>>, FreshSaver PROVE SaverOK'
  <2> USE <1>TypeFresh
  <2>1. <<>> \in Seq(Buffer) /\ Len(<<>>) = 0 /\ Len(queue') \in Nat
    BY SMTT(30), Z3T(30) DEF TypeOK, SharedOK
  <2>2. elapsed' \in BOOLEAN
    BY DEF FreshSaver
  <2> QED BY <2>1, <2>2, Constants, SMTT(30), Z3T(30) DEF FreshSaver, SaverOK, Places
  (* The state between two searches is of the type of a search.              *)
<1>NoSearchType. ASSUME CallersOK
                 PROVE  [NoSearch EXCEPT !.num = search.num]
                           \in [day : 0..(MaxDay + 1), end : 0..MaxDay, found : Seq(Entry),
                                saved : SUBSET Ids, num : 0..MaxSearch]
  <2> USE <1>NoSearchType
  <2>1. search.num \in 0..MaxSearch
    BY DEF CallersOK
  <2>2. <<>> \in Seq(Entry) /\ 0 \in 0..(MaxDay + 1) /\ 0 \in 0..MaxDay
    BY Constants, SMTT(30), Z3T(30)
  <2> QED BY <2>1, <2>2 DEF NoSearch
  (* The three steps of the application's recount are of its type.           *)
<1>RecountType. /\ Recount \in [step : {"count", "set", "done"}, num : Nat]
                /\ Started \in [step : {"count", "set", "done"}, num : Nat]
  BY SMTT(30), Z3T(30) DEF Recount, Started
  (* A restart of the device keeps the types.                                *)
<1>TypeRestart. ASSUME TypeOK, Restart, crashes' \in 0..MaxCrash PROVE TypeOK'
  <2> USE <1>TypeRestart
  <2>1. SharedOK'
    BY <1>TotalIsInteger, SMTT(30), Z3T(30) DEF Restart, TypeOK, SharedOK
  <2>2. SaverOK'
    BY <1>TypeFresh DEF Restart
  <2>3. FilesOK'
    BY <1>FrameFiles DEF Restart, TypeOK
  <2>4. CallersOK'
    BY <1>NoSearchType, <1>RecountType DEF Restart, TypeOK, CallersOK
  <2> QED BY <2>1, <2>2, <2>3, <2>4 DEF TypeOK
  (* The error path keeps the types: the error counter stays below           *)
  (* ErrorLimit because the device reboots at the limit.                     *)
<1>TypeBatchError. TypeOK /\ BatchError => TypeOK'
  <2> SUFFICES ASSUME TypeOK, BatchError PROVE TypeOK'
    OBVIOUS
  <2>0. <<>> \in Seq(Buffer) /\ Len(<<>>) = 0
    BY SMTT(30), Z3T(30)
  <2>1. CASE Restart /\ crashes' = crashes
    BY <2>1, <1>TypeRestart DEF TypeOK, CallersOK
  <2>2. CASE /\ ExitRequested /\ At("error", "exit") /\ bufs' = <<>> /\ wr' = 0
             /\ UNCHANGED <<shared, recordFlag, todo, errorNum, count, elapsed,
                            files, callers, budget, history>>
    <3>1. SharedOK'
      BY <2>2, <1>FrameShared DEF TypeOK, shared
    <3>2. SaverOK'
      BY <2>0, <2>2, SMTT(30), Z3T(30) DEF At, TypeOK, SaverOK, Places, shared
    <3> QED BY <2>2, <3>1, <3>2, <1>FrameFiles, <1>FrameCallers DEF TypeOK
  <2>3. CASE /\ errorNum + 1 < ErrorLimit /\ At("error", "top") /\ ClearForced
             /\ bufs' = <<>> /\ wr' = 0 /\ recordFlag' = 0 /\ errorNum' = errorNum + 1
             /\ UNCHANGED <<queue, total, writeMutex, todo, count, elapsed,
                            files, callers, budget, history>>
    <3>1. SharedOK'
      BY <2>3, SMTT(30), Z3T(30) DEF ClearForced, TypeOK, SharedOK
    <3>2. SaverOK'
      BY <2>0, <2>3, Constants, SMTT(30), Z3T(30) DEF At, TypeOK, SaverOK, Places
    <3> QED BY <2>3, <3>1, <3>2, <1>FrameFiles, <1>FrameCallers DEF TypeOK
  <2> QED BY <2>1, <2>2, <2>3 DEF BatchError
  (* addRecord keeps the types.                                              *)
<1>TypeAddRecord. ASSUME TypeOK, NEW size \in Sizes, AddRecord(size)
                  PROVE  TypeOK'
  <2> USE <1>TypeAddRecord
  <2>1. SharedOK'
    <3>1. [id |-> nextId, day |-> today, size |-> size] \in Record
      BY Constants, SMTT(30), Z3T(30) DEF AddRecord, TypeOK, CallersOK, Record, Ids
    <3> QED BY <3>1, SMTT(30), Z3T(30) DEF AddRecord, TypeOK, SharedOK
  <2>2. SaverOK'
    BY Constants, SMTT(30), Z3T(30) DEF AddRecord, At, TypeOK, SharedOK, SaverOK, Places, locals, shared
  <2>3. FilesOK'
    BY <1>FrameFiles DEF AddRecord, TypeOK
  <2>4. CallersOK'
    BY Constants, SMTT(30), Z3T(30) DEF AddRecord, TypeOK, CallersOK, budget, history
  <2> QED BY <2>1, <2>2, <2>3, <2>4 DEF TypeOK
  (* The first step of searchRecord keeps the types.                         *)
<1>TypeSearchBegin. TypeOK /\ SearchBegin => TypeOK'
  <2> SUFFICES ASSUME TypeOK, SearchBegin PROVE TypeOK'
    OBVIOUS
  <2>1. SharedOK'
    BY SMTT(30), Z3T(30) DEF SearchBegin, TypeOK, SharedOK
  <2>2. SaverOK'
    BY Constants DEF SearchBegin, At, TypeOK, SharedOK, SaverOK, Places, locals, shared
  <2>3. FilesOK'
    BY <1>FrameFiles DEF SearchBegin, TypeOK
  <2>4. CallersOK'
    <3>1. OnDisk \subseteq Ids
      BY <1>IdsOfIndex DEF OnDisk, TypeOK
    <3>2. InQueue \subseteq Ids
      <4>1. \A i \in DOMAIN queue : queue[i].id \in Ids
        <5> TAKE i \in DOMAIN queue
        <5>1. queue[i] \in Record
          BY SMTT(30), Z3T(30) DEF TypeOK, SharedOK
        <5> QED BY <5>1 DEF Record
      <4> QED BY <4>1 DEF InQueue, IdsOf
    <3>3. <<>> \in Seq(Entry) /\ today \in 0..MaxDay /\ search.num + 1 \in 0..MaxSearch
      BY Constants, SMTT(30), Z3T(30) DEF SearchBegin, TypeOK, CallersOK, Days
    <3>4. search' \in [day : 0..(MaxDay + 1), end : 0..MaxDay, found : Seq(Entry),
                       saved : SUBSET Ids, num : 0..MaxSearch]
      BY <3>1, <3>2, <3>3, Constants, SMTT(30), Z3T(30) DEF SearchBegin
    <3> QED BY <3>4 DEF SearchBegin, TypeOK, CallersOK, budget, history
  <2> QED BY <2>1, <2>2, <2>3, <2>4 DEF TypeOK
  (* searchRecord reading one index file keeps the types: the day goes at    *)
  (* most one past the last.                                                 *)
<1>TypeSearchDay. TypeOK /\ SearchDay => TypeOK'
  <2> SUFFICES ASSUME TypeOK, SearchDay PROVE TypeOK'
    OBVIOUS
  <2>1. SharedOK'
    BY <1>FrameShared DEF SearchDay, TypeOK, shared
  <2>2. SaverOK'
    BY Constants DEF SearchDay, At, TypeOK, SharedOK, SaverOK, Places, locals, shared
  <2>3. FilesOK'
    BY <1>FrameFiles DEF SearchDay, TypeOK
  <2>4. CallersOK'
    <3>1. search.day \in Days /\ search.day + 1 \in 0..(MaxDay + 1)
      <4>1. search.end \in 0..MaxDay /\ search.day \in 1..search.end
        BY DEF SearchDay, TypeOK, CallersOK
      <4> QED BY <4>1, Constants, SMTT(30), Z3T(30) DEF Days
    <3>2. index[search.day].entries \in Seq(Entry) /\ search.found \in Seq(Entry)
      BY <3>1 DEF TypeOK, FilesOK, IndexFile, CallersOK
    <3>3. search.found \o index[search.day].entries \in Seq(Entry)
      BY <3>2, SMTT(30), Z3T(30)
    <3>4. search' \in [day : 0..(MaxDay + 1), end : 0..MaxDay, found : Seq(Entry),
                       saved : SUBSET Ids, num : 0..MaxSearch]
      BY <3>1, <3>3 DEF SearchDay, TimeToNextDay, TypeOK, CallersOK
    <3> QED BY <3>4 DEF SearchDay, TypeOK, CallersOK, budget, history
  <2> QED BY <2>1, <2>2, <2>3, <2>4 DEF TypeOK
  (* The end of searchRecord keeps the types.                                *)
<1>TypeSearchEnd. TypeOK /\ SearchEnd => TypeOK'
  <2> SUFFICES ASSUME TypeOK, SearchEnd PROVE TypeOK'
    OBVIOUS
  <2>1. SharedOK'
    BY <1>FrameShared DEF SearchEnd, TypeOK, shared
  <2>2. SaverOK'
    BY Constants DEF SearchEnd, At, TypeOK, SharedOK, SaverOK, Places, locals, shared
  <2>3. FilesOK'
    BY <1>FrameFiles DEF SearchEnd, TypeOK
  <2>4. CallersOK'
    BY <1>NoSearchType DEF SearchEnd, TypeOK, CallersOK, budget, history
  <2> QED BY <2>1, <2>2, <2>3, <2>4 DEF TypeOK
  (* deinitRecordLib up to the join keeps the types.                         *)
<1>TypeDeinitBegin. TypeOK /\ DeinitBegin => TypeOK'
  <2> SUFFICES ASSUME TypeOK, DeinitBegin PROVE TypeOK'
    OBVIOUS
  <2>1. SharedOK'
    BY SMTT(30), Z3T(30) DEF DeinitBegin, TypeOK, SharedOK
  <2>2. SaverOK'
    BY Constants DEF DeinitBegin, At, TypeOK, SharedOK, SaverOK, Places, locals, shared
  <2>3. FilesOK'
    BY <1>FrameFiles DEF DeinitBegin, TypeOK
  <2>4. CallersOK'
    BY Constants, SMTT(30), Z3T(30) DEF DeinitBegin, TypeOK, CallersOK, budget, Ids
  <2> QED BY <2>1, <2>2, <2>3, <2>4 DEF TypeOK
  (* deinitRecordLib from the join on keeps the types: no dequeue loop is    *)
  (* under way when the queue is destroyed.                                  *)
<1>TypeDeinitEnd. TypeOK /\ DeinitEnd => TypeOK'
  <2> SUFFICES ASSUME TypeOK, DeinitEnd PROVE TypeOK'
    OBVIOUS
  <2>1. SharedOK'
    BY SMTT(30), Z3T(30) DEF DeinitEnd, TypeOK, SharedOK
  <2>2. SaverOK'
    <3>1. todo = 0 /\ Len(<<>>) = 0
      BY DEF DeinitEnd, TypeOK, SaverOK
    <3> QED BY <3>1, SMTT(30), Z3T(30) DEF DeinitEnd, TypeOK, SaverOK, locals
  <2>3. FilesOK'
    BY <1>FrameFiles DEF DeinitEnd, TypeOK
  <2>4. CallersOK'
    BY Constants DEF DeinitEnd, TypeOK, CallersOK, budget, history
  <2> QED BY <2>1, <2>2, <2>3, <2>4 DEF TypeOK
  (* A further initRecordLib keeps the types.                                *)
<1>TypeInitRecordLib. TypeOK /\ InitRecordLib => TypeOK'
  <2> SUFFICES ASSUME TypeOK, InitRecordLib PROVE TypeOK'
    OBVIOUS
  <2>1. SharedOK'
    BY <1>FrameShared DEF InitRecordLib, TypeOK, shared
  <2>2. SaverOK'
    BY <1>TypeFresh DEF InitRecordLib, shared
  <2>3. FilesOK'
    BY <1>FrameFiles DEF InitRecordLib, TypeOK
  <2>4. CallersOK'
    BY <1>RecountType, Constants, SMTT(30), Z3T(30) DEF InitRecordLib, TypeOK, CallersOK
  <2> QED BY <2>1, <2>2, <2>3, <2>4 DEF TypeOK
  (* The passing of recordSaveInterval keeps the types.                      *)
<1>TypeIntervalPasses. TypeOK /\ IntervalPasses => TypeOK'
  <2> SUFFICES ASSUME TypeOK, IntervalPasses PROVE TypeOK'
    OBVIOUS
  <2>1. SharedOK'
    BY <1>FrameShared DEF IntervalPasses, TypeOK, shared
  <2>2. SaverOK'
    <3>1. elapsed' \in BOOLEAN
      BY DEF IntervalPasses
    <3> QED BY <3>1 DEF IntervalPasses, TypeOK, SaverOK, shared
  <2>3. FilesOK'
    BY <1>FrameFiles DEF IntervalPasses, TypeOK
  <2>4. CallersOK'
    BY <1>FrameCallers DEF IntervalPasses, TypeOK
  <2> QED BY <2>1, <2>2, <2>3, <2>4 DEF TypeOK
  (* The change of the day keeps the types.                                  *)
<1>TypeMidnight. TypeOK /\ Midnight => TypeOK'
  <2> SUFFICES ASSUME TypeOK, Midnight PROVE TypeOK'
    OBVIOUS
  <2>1. SharedOK'
    BY <1>FrameShared DEF Midnight, TypeOK, shared
  <2>2. SaverOK'
    BY Constants DEF Midnight, At, TypeOK, SharedOK, SaverOK, Places, locals, shared
  <2>3. FilesOK'
    BY <1>FrameFiles DEF Midnight, TypeOK
  <2>4. CallersOK'
    <3>1. today' \in Days
      BY Constants, SMTT(30), Z3T(30) DEF Midnight, TypeOK, CallersOK, Days
    <3>2. UNCHANGED <<nextId, app, startup, search, faults, crashes, inits, evicted, owed, undeleted>>
      BY DEF Midnight, budget, history
    <3> QED BY <3>1, <3>2 DEF TypeOK, CallersOK
  <2> QED BY <2>1, <2>2, <2>3, <2>4 DEF TypeOK
  (* The application's recount, read and assigned, keeps the types.          *)
<1>TypeAtStart. TypeOK /\ (CountAtStart \/ SetAtStart) => TypeOK'
  <2> SUFFICES ASSUME TypeOK, CountAtStart \/ SetAtStart PROVE TypeOK'
    OBVIOUS
  <2>1. SharedOK'
    <3>1. startup.num \in Int
      BY SMTT(30), Z3T(30) DEF TypeOK, CallersOK
    <3> QED BY <3>1 DEF CountAtStart, SetAtStart, TypeOK, SharedOK, shared
  <2>2. SaverOK'
    BY DEF CountAtStart, SetAtStart, TypeOK, SaverOK, locals, shared
  <2>3. FilesOK'
    BY <1>FrameFiles DEF CountAtStart, SetAtStart, TypeOK
  <2>4. CallersOK'
    <3>1. startup' \in [step : {"count", "set", "done"}, num : Nat]
      <4>1. CASE CountAtStart
        <5>1. PICK n \in SearchRecordTotal(index) : startup' = [step |-> "set", num |-> n]
          BY <4>1 DEF CountAtStart
        <5>2. n \in Nat
          BY <1>TotalIsInteger
        <5> QED BY <5>1, <5>2, SMTT(30), Z3T(30)
      <4>2. CASE SetAtStart
        <5>1. startup' = Started
          BY <4>2 DEF SetAtStart
        <5> QED BY <5>1, <1>RecountType
      <4> QED BY <4>1, <4>2
    <3> QED BY <3>1 DEF CountAtStart, SetAtStart, TypeOK, CallersOK, budget, history
  <2> QED BY <2>1, <2>2, <2>3, <2>4 DEF TypeOK
<1> SUFFICES ASSUME TypeOK, [Next]_vars PROVE TypeOK'
  OBVIOUS
<1>1. CASE CheckCapacity
  BY <1>1, <1>TypeCheckStorage, <1>TypeDelOldPic, <1>TypeDelOldIndex, <1>TypeDelOldFails DEF CheckCapacity, Places
<1>2. CASE Saver
  BY <1>1, <1>2, <1>TypeLoopTop, <1>TypeStall, <1>TypeReadFlag, <1>TypeCountQueue, <1>TypeFillOne, <1>TypeFillFails,
     <1>TypeBeginWrite, <1>TypeWritePic, <1>TypeWritePicFails, <1>TypeWriteIndex, <1>TypeWriteIndexFails,
     <1>TypeEndWrite, <1>TypeEndRound, <1>TypeBatchError, <1>TypeSaverExit DEF Saver
<1>3. CASE \E size \in Sizes : AddRecord(size)
  BY <1>3, <1>TypeAddRecord
<1>4. CASE Crash
  <2>1. crashes' \in 0..MaxCrash
    BY <1>4, Constants, SMTT(30), Z3T(30) DEF Crash, TypeOK, CallersOK
  <2> QED BY <1>4, <2>1, <1>TypeRestart DEF Crash
<1>5. CASE UNCHANGED vars
  BY <1>5, <1>FrameShared, <1>FrameFiles, <1>FrameCallers
     DEF vars, shared, locals, TypeOK, SaverOK
<1> QED BY <1>2, <1>3, <1>4, <1>5, <1>TypeSearchBegin, <1>TypeSearchDay, <1>TypeSearchEnd, <1>TypeDeinitBegin,
           <1>TypeDeinitEnd, <1>TypeInitRecordLib, <1>TypeIntervalPasses, <1>TypeMidnight, <1>TypeAtStart DEF Next

-----------------------------------------------------------------------------
(* g_writeMutex.                                                           *)

\* A new saver starts only where the old one has gone.
LockInv == LockMatchesPlace /\ (app = "down" => pc = "gone")

(* One step of any thread keeps LockInv: every path into a locked section  *)
(* of saveRecordThread locks, and every path out of it unlocks.            *)
LEMMA LockNext == LockInv /\ [Next]_vars => LockInv'
<1> SUFFICES ASSUME LockInv, [Next]_vars PROVE LockInv'
  OBVIOUS
<1> USE DEF LockInv, LockMatchesPlace, LockedPlaces, At
<1>1. CASE UNCHANGED vars
  BY <1>1 DEF vars, shared, callers
<1>2. CASE LoopTop \/ Stall \/ ReadFlag \/ CountQueue
  BY <1>2 DEF LoopTop, Stall, ReadFlag, CountQueue, shared, callers
<1>3. CASE CheckCapacity
  BY <1>3 DEF CheckCapacity, CheckStorage, DelOldPic, DelOldIndex, DelOldFails, callers
<1>4. CASE FillOne \/ FillFails \/ BeginWrite
  BY <1>4 DEF FillOne, FillFails, BeginWrite, callers
<1>5. CASE WritePic \/ WritePicFails \/ WriteIndex \/ WriteIndexFails \/ EndWrite
  BY <1>5 DEF WritePic, WritePicFails, WriteIndex, WriteIndexFails, EndWrite, ReleaseOnError, shared, callers
<1>6. CASE EndRound \/ SaverExit
  BY <1>6 DEF EndRound, SaverExit, callers
<1>7. CASE BatchError
  BY <1>7 DEF BatchError, Restart, FreshSaver, shared, callers
<1>8. CASE \E size \in Sizes : AddRecord(size)
  BY <1>8 DEF AddRecord
<1>9. CASE CountAtStart \/ SetAtStart \/ SearchBegin \/ SearchDay \/ SearchEnd \/ IntervalPasses \/ Midnight
  BY <1>9 DEF CountAtStart, SetAtStart, SearchBegin, SearchDay, SearchEnd, IntervalPasses, Midnight, shared, callers
<1>10. CASE DeinitBegin \/ DeinitEnd \/ InitRecordLib \/ Crash
  BY <1>10 DEF DeinitBegin, DeinitEnd, InitRecordLib, Crash, Restart, FreshSaver, shared
<1> QED BY <1>1, <1>2, <1>3, <1>4, <1>5, <1>6, <1>7, <1>8, <1>9, <1>10 DEF Next, Saver

-----------------------------------------------------------------------------
(***************************************************************************)
(* SavedOnceInOrder for every value of the constants.                      *)
(*                                                                         *)
(* The invariant alone is not inductive: a batch keeps the order of a file *)
(* only because its records are younger than those in the file, and these  *)
(* came out of a queue that is itself in order.  OrderInv says so for the  *)
(* whole way of a record, counter - queue - buffers - files.               *)
(***************************************************************************)

Increasing(es) == \A i, j \in DOMAIN es : i < j => es[i].id < es[j].id
Before(es, fs) == \A i \in DOMAIN es, j \in DOMAIN fs : es[i].id < fs[j].id
Below(es, n)   == \A i \in DOMAIN es : es[i].id < n

\* Buffer j still has to go into its index file.
Pending(j) == pc = "fill" \/ (pc \in {"pic", "index"} /\ j >= wr)

QueueOrder == Increasing(queue) /\ Below(queue, nextId)

BufferOrder ==
    /\ pc \notin {"fill", "pic", "index", "error"} => bufs = <<>>
    /\ \A j \in DOMAIN bufs :
          /\ Increasing(bufs[j].entries)
          /\ Before(bufs[j].entries, queue)
          /\ Below(bufs[j].entries, nextId)
    /\ \A i, j \in DOMAIN bufs : bufs[i].day = bufs[j].day => i = j

FileOrder ==
    \A d \in Days :
        /\ Increasing(index[d].entries)
        /\ Before(index[d].entries, queue)
        /\ Below(index[d].entries, nextId)

BatchOrder ==
    \A j \in DOMAIN bufs : Pending(j) => Before(index[bufs[j].day].entries, bufs[j].entries)

OrderInv == QueueOrder /\ BufferOrder /\ FileOrder /\ BatchOrder
-----------------------------------------------------------------------------
(* Sequences with ids.                                                     *)

(* The empty sequence is in every order.                                   *)
LEMMA EmptyOrder ==
    /\ Increasing(<<>>)
    /\ \A es, n : Before(<<>>, es) /\ Before(es, <<>>) /\ Below(<<>>, n)
BY SMTT(30), Z3T(30) DEF Increasing, Before, Below

(* DeQueue keeps the order, and the record it takes is older than all that *)
(* stay and younger than all that were before the queue.                   *)
LEMMA TailOrder ==
    ASSUME NEW S, NEW es \in Seq(S), es # <<>>, Increasing(es)
    PROVE  /\ Increasing(Tail(es))
           /\ \A i \in DOMAIN Tail(es) : Head(es).id < Tail(es)[i].id
           /\ \A fs : Before(fs, es) => Before(fs, Tail(es)) /\ Below(fs, Head(es).id)
           /\ \A n : Below(es, n) => Below(Tail(es), n) /\ Head(es).id < n
<1>1. /\ DOMAIN Tail(es) = 1..(Len(es) - 1) /\ Len(es) \in Nat /\ Len(es) > 0 /\ DOMAIN es = 1..Len(es)
      /\ Head(es) = es[1]
      /\ \A i \in DOMAIN Tail(es) : Tail(es)[i] = es[i + 1]
  BY SMTT(30), Z3T(30)
<1>2. Increasing(Tail(es))
  BY <1>1, SMTT(30), Z3T(30) DEF Increasing
<1>3. \A i \in DOMAIN Tail(es) : Head(es).id < Tail(es)[i].id
  BY <1>1, SMTT(30), Z3T(30) DEF Increasing
<1>4. \A fs : Before(fs, es) => Before(fs, Tail(es)) /\ Below(fs, Head(es).id)
  BY <1>1, SMTT(30), Z3T(30) DEF Before, Below
<1>5. \A n : Below(es, n) => Below(Tail(es), n) /\ Head(es).id < n
  BY <1>1, SMTT(30), Z3T(30) DEF Below
<1> QED BY <1>2, <1>3, <1>4, <1>5

(* The order invariant holds at the start: queue, buffers and files are    *)
(* empty.                                                                  *)
LEMMA OrderInit == Init => OrderInv
<1> SUFFICES ASSUME Init PROVE OrderInv
  OBVIOUS
<1>1. \A d \in Days : index[d].entries = <<>>
  BY DEF Init, NoIndex
<1>2. queue = <<>> /\ bufs = <<>>
  BY DEF Init
<1>3. QueueOrder
  BY <1>2, EmptyOrder DEF QueueOrder
<1>4. BufferOrder
  BY <1>2, SMTT(30), Z3T(30) DEF BufferOrder
<1>5. FileOrder
  BY <1>1, EmptyOrder DEF FileOrder
<1>6. BatchOrder
  BY <1>2, SMTT(30), Z3T(30) DEF BatchOrder
<1> QED BY <1>3, <1>4, <1>5, <1>6 DEF OrderInv

(* Buffered changes one buffer, that of the record's day, or appends one.  *)
LEMMA BufferedShape ==
    ASSUME TypeOK, NEW r \in Record
    PROVE  \E k \in 1..(Len(bufs) + 1), b \in Buffer :
              /\ DOMAIN Buffered(r) = DOMAIN bufs \cup {k}
              /\ Buffered(r)[k] = AddTo(b, r) /\ b.day = r.day
              /\ \A j \in DOMAIN bufs : j # k => Buffered(r)[j] = bufs[j]
              /\ \/ k \in DOMAIN bufs /\ b = bufs[k]
                 \/ k \notin DOMAIN bufs /\ b = NewBuffer(r.day) /\ \A j \in DOMAIN bufs : bufs[j].day # r.day
<1> DEFINE same == {j \in DOMAIN bufs : bufs[j].day = r.day}
<1>1. bufs \in Seq(Buffer) /\ DOMAIN bufs = 1..Len(bufs) /\ Len(bufs) \in Nat
  BY SMTT(30), Z3T(30) DEF TypeOK, SaverOK
<1>2. CASE same = {}
  <2>1. Buffered(r) = Append(bufs, AddTo(NewBuffer(r.day), r))
    BY <1>2 DEF Buffered
  <2>2. r.day \in Days
    BY DEF Record
  <2>3. NewBuffer(r.day) \in Buffer /\ NewBuffer(r.day).day = r.day
    <3>1. NewBuffer(r.day) \in Buffer
      BY <2>2, NewBufferType DEF TypeOK
    <3>2. NewBuffer(r.day).day = r.day
      BY DEF NewBuffer
    <3> QED BY <3>1, <3>2
  <2>4. DOMAIN Buffered(r) = DOMAIN bufs \cup {Len(bufs) + 1}
    BY <1>1, <2>1, SMTT(30), Z3T(30)
  <2>5. Buffered(r)[Len(bufs) + 1] = AddTo(NewBuffer(r.day), r) /\ \A j \in DOMAIN bufs : Buffered(r)[j] = bufs[j]
    BY <1>1, <2>1, SMTT(30), Z3T(30)
  <2>6. Len(bufs) + 1 \in 1..(Len(bufs) + 1) /\ Len(bufs) + 1 \notin DOMAIN bufs
    BY <1>1, SMTT(30), Z3T(30)
  <2> QED BY <1>2, <2>3, <2>4, <2>5, <2>6
<1>3. CASE same # {}
  <2> DEFINE k == CHOOSE j \in same : TRUE
  <2>1. k \in same
    BY <1>3
  <2>2. Buffered(r) = [bufs EXCEPT ![k] = AddTo(@, r)]
    BY <1>3 DEF Buffered
  <2> HIDE DEF k
  <2>3. k \in DOMAIN bufs /\ bufs[k] \in Buffer /\ bufs[k].day = r.day
    BY <1>1, <2>1, SMTT(30), Z3T(30)
  <2>4. Buffered(r)[k] = AddTo(bufs[k], r) /\ \A j \in DOMAIN bufs : j # k => Buffered(r)[j] = bufs[j]
    BY <2>2, <2>3
  <2>5. DOMAIN Buffered(r) = DOMAIN bufs \cup {k} /\ k \in 1..(Len(bufs) + 1)
    BY <1>1, <2>2, <2>3, SMTT(30), Z3T(30)
  <2> QED BY <2>3, <2>4, <2>5
<1> QED BY <1>2, <1>3

(* Every step of every thread keeps the order invariant.                   *)
LEMMA OrderNext == TypeOK /\ OrderInv /\ [Next]_vars => OrderInv'
  (* Appending a younger record, as EnQueue and the batch do, keeps a        *)
  (* sequence in order.                                                      *)
<1>AppendOrder. ASSUME NEW S, NEW es \in Seq(S), NEW x \in S, Increasing(es), Below(es, x.id)
                PROVE  Increasing(Append(es, x))
  BY <1>AppendOrder, SMTT(30), Z3T(30) DEF Increasing, Below
  (* Writing a prefix of a batch behind a file that is before the batch      *)
  (* keeps the order.                                                        *)
<1>ConcatOrder. ASSUME NEW S, NEW es \in Seq(S), NEW fs \in Seq(S), NEW n \in 0..Len(fs)
                PROVE  /\ Increasing(es) /\ Increasing(fs) /\ Before(es, fs) => Increasing(es \o SubSeq(fs, 1, n))
                       /\ \A gs : Before(es, gs) /\ Before(fs, gs) => Before(es \o SubSeq(fs, 1, n), gs)
                       /\ \A m : Below(es, m) /\ Below(fs, m) => Below(es \o SubSeq(fs, 1, n), m)
  <2> USE <1>ConcatOrder
  <2> DEFINE sub == SubSeq(fs, 1, n)
             cat == es \o sub
  <2>1. sub \in Seq(S) /\ Len(sub) = n /\ \A i \in 1..n : sub[i] = fs[i]
    BY SMTT(30), Z3T(30)
  <2>2. Len(es) \in Nat /\ Len(fs) \in Nat /\ n \in Nat /\ DOMAIN es = 1..Len(es) /\ DOMAIN fs = 1..Len(fs)
    BY SMTT(30), Z3T(30)
  <2>3. DOMAIN cat = 1..(Len(es) + n)
    BY <2>1, <2>2, SMTT(30), Z3T(30)
  <2>4. \A i \in DOMAIN cat : \/ i \in DOMAIN es /\ cat[i] = es[i]
                              \/ i - Len(es) \in DOMAIN fs /\ i > Len(es) /\ cat[i] = fs[i - Len(es)]
    BY <2>1, <2>2, <2>3, SMTT(30), Z3T(30)
  <2> HIDE DEF cat
  <2>5. Increasing(es) /\ Increasing(fs) /\ Before(es, fs) => Increasing(cat)
    <3> SUFFICES ASSUME Increasing(es), Increasing(fs), Before(es, fs),
                        NEW i \in DOMAIN cat, NEW j \in DOMAIN cat, i < j
                 PROVE  cat[i].id < cat[j].id
      BY DEF Increasing
    <3>1. CASE j \in DOMAIN es /\ cat[j] = es[j]
      BY <2>2, <2>3, <2>4, <3>1, SMTT(30), Z3T(30) DEF Increasing
    <3>2. CASE j - Len(es) \in DOMAIN fs /\ j > Len(es) /\ cat[j] = fs[j - Len(es)]
      <4>1. CASE i \in DOMAIN es /\ cat[i] = es[i]
        BY <3>2, <4>1 DEF Before
      <4>2. CASE i - Len(es) \in DOMAIN fs /\ i > Len(es) /\ cat[i] = fs[i - Len(es)]
        <5>1. i - Len(es) < j - Len(es)
          BY <2>2, <2>3, SMTT(30), Z3T(30)
        <5> QED BY <3>2, <4>2, <5>1 DEF Increasing
      <4> QED BY <2>4, <4>1, <4>2
    <3> QED BY <2>4, <3>1, <3>2
  <2>6. \A gs : Before(es, gs) /\ Before(fs, gs) => Before(cat, gs)
    BY <2>4 DEF Before
  <2>7. \A m : Below(es, m) /\ Below(fs, m) => Below(cat, m)
    BY <2>4 DEF Below
  <2> QED BY <2>5, <2>6, <2>7 DEF cat
  (* A step that leaves queue, buffers and files alone and starts no batch.  *)
<1>OrderFrame. ASSUME OrderInv, UNCHANGED <<queue, nextId, bufs, index>>,
                      \A j \in DOMAIN bufs : Pending(j)' => Pending(j),
                      pc' \notin {"fill", "pic", "index", "error"} => bufs = <<>>
               PROVE  OrderInv'
  <2> USE <1>OrderFrame
  <2>1. QueueOrder'
    BY DEF OrderInv, QueueOrder
  <2>2. BufferOrder'
    BY DEF OrderInv, BufferOrder
  <2>3. FileOrder'
    BY DEF OrderInv, FileOrder
  <2>4. BatchOrder'
    BY DEF OrderInv, BatchOrder
  <2> QED BY <2>1, <2>2, <2>3, <2>4 DEF OrderInv
  (* A step that drops the batch and leaves the queue or empties it.         *)
<1>OrderDrop. ASSUME OrderInv, UNCHANGED <<nextId, index>>, bufs' = <<>>, queue' = queue \/ queue' = <<>>
              PROVE  OrderInv'
  <2> USE <1>OrderDrop
  <2>1. QueueOrder'
    BY EmptyOrder DEF OrderInv, QueueOrder
  <2>2. BufferOrder'
    BY SMTT(30), Z3T(30) DEF BufferOrder
  <2>3. FileOrder'
    BY EmptyOrder DEF OrderInv, FileOrder
  <2>4. BatchOrder'
    BY SMTT(30), Z3T(30) DEF BatchOrder
  <2> QED BY <2>1, <2>2, <2>3, <2>4 DEF OrderInv
  (* CountQueue keeps the order: a batch starts with no buffers.             *)
<1>OrderCountQueue. TypeOK /\ OrderInv /\ CountQueue => OrderInv'
  <2> SUFFICES ASSUME TypeOK, OrderInv, CountQueue PROVE OrderInv'
    OBVIOUS
  <2>1. bufs = <<>>
    BY DEF OrderInv, BufferOrder, CountQueue, At
  <2> QED BY <2>1, <1>OrderDrop DEF CountQueue, shared, files, callers
  (* BeginWrite keeps the order: the write loop starts at the first buffer.  *)
<1>OrderBeginWrite. OrderInv /\ BeginWrite => OrderInv'
  <2> SUFFICES ASSUME OrderInv, BeginWrite PROVE OrderInv'
    OBVIOUS
  <2>1. \A j \in DOMAIN bufs : Pending(j)' => Pending(j)
    BY DEF BeginWrite, At, Pending
  <2> QED BY <2>1, <1>OrderFrame DEF BeginWrite, At, files, callers
  (* Photo writes, complete or not, leave the order of the index files       *)
  (* alone.                                                                  *)
<1>OrderWritePic. OrderInv /\ (WritePic \/ WritePicFails) => OrderInv'
  <2> SUFFICES ASSUME OrderInv, WritePic \/ WritePicFails PROVE OrderInv'
    OBVIOUS
  <2>1. \A j \in DOMAIN bufs : Pending(j)' => Pending(j)
    BY DEF WritePic, WritePicFails, At, Pending, locals
  <2> QED BY <2>1, <1>OrderFrame DEF WritePic, WritePicFails, At, locals, shared, callers
  (* addRecord puts the youngest record behind the queue.                    *)
<1>OrderAddRecord. ASSUME TypeOK, OrderInv, NEW size \in Sizes, AddRecord(size)
                   PROVE  OrderInv'
  <2> USE <1>OrderAddRecord
  <2> DEFINE r == [id |-> nextId, day |-> today, size |-> size]
  <2>1. /\ queue' = Append(queue, r) /\ r.id = nextId /\ nextId' = nextId + 1
        /\ UNCHANGED <<pc, wr, bufs, index>>
    BY DEF AddRecord, locals, files
  <2>2. r \in Record /\ queue \in Seq(Record) /\ nextId \in Int
    BY Constants, SMTT(30), Z3T(30) DEF AddRecord, TypeOK, SharedOK, CallersOK, Record, Ids
  <2> HIDE DEF r
  <2>3. \A S : \A es \in Seq(S) : (\A x \in S : x.id \in Int) /\ Below(es, nextId) => Below(es, nextId')
    BY <2>1, <2>2, SMTT(30), Z3T(30) DEF Below
  <2>4. (\A x \in Record : x.id \in Int) /\ (\A x \in Entry : x.id \in Int)
    BY SMTT(30), Z3T(30) DEF Record, Entry, Ids
  <2>5. \A es : Before(es, queue) /\ Below(es, nextId) => Before(es, queue')
    BY <2>1, <2>2, SMTT(30), Z3T(30) DEF Before, Below
  <2>6. QueueOrder'
    <3>1. Increasing(queue')
      BY <2>1, <2>2, <1>AppendOrder DEF OrderInv, QueueOrder
    <3>2. Below(queue', nextId')
      BY <2>1, <2>2, <2>4, SMTT(30), Z3T(30) DEF OrderInv, QueueOrder, Below
    <3> QED BY <3>1, <3>2 DEF QueueOrder
  <2>7. BufferOrder'
    <3>0. \A j \in DOMAIN bufs : bufs[j] \in Buffer
      BY SMTT(30), Z3T(30) DEF TypeOK, SaverOK
    <3>1. \A j \in DOMAIN bufs : bufs[j].entries \in Seq(Entry)
      BY <3>0 DEF Buffer
    <3>2. \A j \in DOMAIN bufs : Below(bufs[j].entries, nextId')
      BY <2>3, <2>4, <3>1 DEF OrderInv, BufferOrder
    <3> QED BY <2>1, <2>5, <3>2 DEF OrderInv, BufferOrder
  <2>8. FileOrder'
    <3>1. \A d \in Days : index[d].entries \in Seq(Entry)
      BY DEF TypeOK, FilesOK, IndexFile
    <3>2. \A d \in Days : Below(index[d].entries, nextId')
      BY <2>3, <2>4, <3>1 DEF OrderInv, FileOrder
    <3> QED BY <2>1, <2>5, <3>2 DEF OrderInv, FileOrder
  <2>9. BatchOrder'
    BY <2>1 DEF OrderInv, BatchOrder, Pending
  <2> QED BY <2>6, <2>7, <2>8, <2>9 DEF OrderInv
  (* Deleting a whole index file keeps the order; the saver has no batch in  *)
  (* hand at that point.                                                     *)
<1>OrderDelOldIndex. ASSUME TypeOK, OrderInv, NEW here, here \notin {"fill", "pic", "index", "error"},
                            NEW there, there \notin {"fill", "pic", "index", "error"}, DelOldIndex(here, there)
                     PROVE  OrderInv'
  <2> USE <1>OrderDelOldIndex
  <2>1. UNCHANGED <<queue, nextId, bufs>> /\ pc = here /\ pc' = there
    BY DEF DelOldIndex, At, locals, callers
  <2>2. bufs = <<>>
    BY <2>1 DEF OrderInv, BufferOrder
  <2>3. \A d \in Days : index'[d] = index[d] \/ index'[d] = NoIndex
    BY DEF DelOldIndex, TypeOK, FilesOK
  <2>4. QueueOrder'
    BY <2>1 DEF OrderInv, QueueOrder
  <2>5. BufferOrder'
    BY <2>1, <2>2, SMTT(30), Z3T(30) DEF BufferOrder
  <2>6. FileOrder'
    BY <2>1, <2>3, EmptyOrder, SMTT(30), Z3T(30) DEF OrderInv, FileOrder, NoIndex
  <2>7. BatchOrder'
    BY <2>1, <2>2, SMTT(30), Z3T(30) DEF BatchOrder
  <2> QED BY <2>4, <2>5, <2>6, <2>7 DEF OrderInv
  (* Adding a record to a buffer: the order statements about its entries.    *)
<1>AddToOrder. ASSUME NEW b \in Buffer, NEW r \in Record
               PROVE  LET es == AddTo(b, r).entries
                      IN  /\ Increasing(b.entries) /\ Below(b.entries, r.id) => Increasing(es)
                          /\ \A fs : Before(fs, b.entries) /\ Below(fs, r.id) => Before(fs, es)
                          /\ \A fs : Before(b.entries, fs) /\ (\A i \in DOMAIN fs : r.id < fs[i].id) => Before(es, fs)
                          /\ \A n : Below(b.entries, n) /\ r.id < n => Below(es, n)
  <2> USE <1>AddToOrder
  <2> DEFINE e == [no |-> b.no, id |-> r.id, addr |-> AddrOfNext(b), size |-> r.size]
  <2>1. AddTo(b, r).entries = Append(b.entries, e) /\ e.id = r.id
    BY DEF AddTo, Buffer
  <2>2. b.entries \in Seq(Entry) /\ e \in Entry
    BY SMTT(30), Z3T(30) DEF Buffer, Record, Entry, AddrOfNext
  <2> HIDE DEF e
  <2>3. Increasing(b.entries) /\ Below(b.entries, r.id) => Increasing(Append(b.entries, e))
    BY <2>1, <2>2, <1>AppendOrder
  <2>4. /\ DOMAIN Append(b.entries, e) = 1..(Len(b.entries) + 1) /\ DOMAIN b.entries = 1..Len(b.entries)
        /\ Len(b.entries) \in Nat
        /\ \A i \in 1..(Len(b.entries) + 1) :
              Append(b.entries, e)[i] = IF i = Len(b.entries) + 1 THEN e ELSE b.entries[i]
    BY <2>2, SMTT(30), Z3T(30)
  <2>5. \A fs : Before(fs, b.entries) /\ Below(fs, r.id) => Before(fs, Append(b.entries, e))
    BY <2>1, <2>4, SMTT(30), Z3T(30) DEF Before, Below
  <2>6. \A fs : Before(b.entries, fs) /\ (\A i \in DOMAIN fs : r.id < fs[i].id)
                => Before(Append(b.entries, e), fs)
    BY <2>1, <2>4, SMTT(30), Z3T(30) DEF Before
  <2>7. \A n : Below(b.entries, n) /\ r.id < n => Below(Append(b.entries, e), n)
    BY <2>1, <2>4, SMTT(30), Z3T(30) DEF Below
  <2> QED BY <2>1, <2>3, <2>5, <2>6, <2>7
  (* One turn of the dequeue loop: the record goes behind the buffer of its  *)
  (* day, which is behind the file of that day.                              *)
<1>OrderFillOne. TypeOK /\ OrderInv /\ FillOne => OrderInv'
  <2> SUFFICES ASSUME TypeOK, OrderInv, FillOne PROVE OrderInv'
    OBVIOUS
  <2> DEFINE r == Head(queue)
  <2>1. /\ pc = "fill" /\ queue' = Tail(queue) /\ bufs' = Buffered(r)
        /\ UNCHANGED <<pc, wr, index, nextId>>
    BY DEF FillOne, QueueAfterTake, files, callers
  <2>2. queue \in Seq(Record) /\ queue # <<>>
    BY SMTT(30), Z3T(30) DEF FillOne, TypeOK, SharedOK, SaverOK
  <2>3. r \in Record /\ r.day \in Days
    <3>1. r \in Record
      BY <2>2, SMTT(30), Z3T(30)
    <3>2. r.day \in Days
      BY <3>1 DEF Record
    <3> QED BY <3>1, <3>2
  <2>4. Increasing(queue) /\ Below(queue, nextId)
    BY DEF OrderInv, QueueOrder
  <2>5. /\ Increasing(queue')
        /\ \A i \in DOMAIN queue' : r.id < queue'[i].id
        /\ \A fs : Before(fs, queue) => Before(fs, queue') /\ Below(fs, r.id)
        /\ \A n : Below(queue, n) => Below(queue', n) /\ r.id < n
    BY <2>1, <2>2, <2>4, TailOrder
  <2>6. PICK k \in 1..(Len(bufs) + 1), b \in Buffer :
                /\ DOMAIN bufs' = DOMAIN bufs \cup {k}
                /\ bufs'[k] = AddTo(b, r) /\ b.day = r.day
                /\ \A j \in DOMAIN bufs : j # k => bufs'[j] = bufs[j]
                /\ \/ k \in DOMAIN bufs /\ b = bufs[k]
                   \/ k \notin DOMAIN bufs /\ b = NewBuffer(r.day) /\ \A j \in DOMAIN bufs : bufs[j].day # r.day
    BY <2>1, <2>3, BufferedShape
  <2> HIDE DEF r
  <2>7. bufs'[k].day = r.day
    BY <2>6 DEF AddTo, Buffer
  <2>8. /\ Increasing(b.entries) /\ Before(b.entries, queue) /\ Below(b.entries, nextId)
        /\ Before(index[r.day].entries, b.entries)
    <3>1. CASE k \in DOMAIN bufs /\ b = bufs[k]
      BY <2>1, <2>6, <3>1 DEF OrderInv, BufferOrder, BatchOrder, Pending
    <3>2. CASE b = NewBuffer(r.day)
      <4>1. b.entries = <<>>
        BY <3>2 DEF NewBuffer
      <4> QED BY <4>1, EmptyOrder
    <3> QED BY <2>6, <3>1, <3>2
  <2>9. Before(index[r.day].entries, queue)
    BY <2>3 DEF OrderInv, FileOrder
  <2>10. /\ Increasing(bufs'[k].entries) /\ Before(bufs'[k].entries, queue')
         /\ Below(bufs'[k].entries, nextId)
         /\ Before(index[r.day].entries, bufs'[k].entries)
    BY <2>3, <2>4, <2>5, <2>6, <2>8, <2>9, <1>AddToOrder
  <2>11. QueueOrder'
    BY <2>1, <2>4, <2>5 DEF QueueOrder
  <2>12. BufferOrder'
    <3>1. \A j \in DOMAIN bufs' : /\ Increasing(bufs'[j].entries) /\ Before(bufs'[j].entries, queue')
                                  /\ Below(bufs'[j].entries, nextId)
      BY <2>5, <2>6, <2>10 DEF OrderInv, BufferOrder
    <3>2. \A i, j \in DOMAIN bufs' : bufs'[i].day = bufs'[j].day => i = j
      BY <2>6, <2>7, ZenonT(60) DEF OrderInv, BufferOrder
    <3> QED BY <2>1, <3>1, <3>2 DEF BufferOrder
  <2>13. FileOrder'
    BY <2>1, <2>5 DEF OrderInv, FileOrder
  <2>14. BatchOrder'
    <3>1. \A j \in DOMAIN bufs' : Before(index[bufs'[j].day].entries, bufs'[j].entries)
      BY <2>1, <2>6, <2>7, <2>10 DEF OrderInv, BatchOrder, Pending
    <3> QED BY <2>1, <3>1 DEF BatchOrder
  <2> QED BY <2>11, <2>12, <2>13, <2>14 DEF OrderInv
  (* The record of a failed step is dequeued, and nothing of it is kept.     *)
<1>OrderFillFails. TypeOK /\ OrderInv /\ FillFails => OrderInv'
  <2> SUFFICES ASSUME TypeOK, OrderInv, FillFails PROVE OrderInv'
    OBVIOUS
  <2>1. /\ pc' = "error" /\ queue' = Tail(queue) /\ UNCHANGED <<bufs, index, nextId>>
    BY DEF FillFails, At, QueueAfterTake, files, callers
  <2>2. queue \in Seq(Record) /\ queue # <<>>
    BY SMTT(30), Z3T(30) DEF FillFails, TypeOK, SharedOK, SaverOK
  <2>3. /\ Increasing(queue')
        /\ \A fs : Before(fs, queue) => Before(fs, queue')
        /\ Below(queue', nextId)
    BY <2>1, <2>2, TailOrder DEF OrderInv, QueueOrder
  <2>4. QueueOrder'
    BY <2>1, <2>3 DEF QueueOrder
  <2>5. BufferOrder'
    BY <2>1, <2>3 DEF OrderInv, BufferOrder
  <2>6. FileOrder'
    BY <2>1, <2>3 DEF OrderInv, FileOrder
  <2>7. BatchOrder'
    BY <2>1 DEF BatchOrder, Pending
  <2> QED BY <2>4, <2>5, <2>6, <2>7 DEF OrderInv
  (* A prefix of buffer wr goes behind the entries of its day's file.        *)
<1>OrderAppendIndex.
      ASSUME TypeOK, OrderInv, pc = "index", NEW n \in 0..Len(bufs[wr].entries), NEW partial \in BOOLEAN,
             index' = [index EXCEPT ![bufs[wr].day] = AppendIndex(@, bufs[wr], n, partial)],
             UNCHANGED <<queue, nextId, bufs>>,
             \/ pc' = "pic" /\ wr' = wr + 1
             \/ pc' = "error"
      PROVE  OrderInv'
  <2> USE <1>OrderAppendIndex
  <2> DEFINE d == bufs[wr].day
             es == index[d].entries
             fs == bufs[wr].entries
  <2>1. wr \in DOMAIN bufs /\ bufs[wr] \in Buffer
    BY SMTT(30), Z3T(30) DEF TypeOK, SaverOK
  <2>2. d \in Days /\ fs \in Seq(Entry)
    BY <2>1 DEF Buffer
  <2>3. index[d] \in IndexFile /\ DOMAIN index = Days
    BY <2>2 DEF TypeOK, FilesOK
  <2>4. es \in Seq(Entry)
    BY <2>3 DEF IndexFile
  <2>5. \A x \in Days \ {d} : index'[x] = index[x]
    BY <2>3
  <2>6. index'[d].entries = es \/ index'[d].entries = es \o SubSeq(fs, 1, n)
    BY <2>2, <2>3 DEF AppendIndex
  <2>7. /\ Increasing(es) /\ Before(es, queue) /\ Below(es, nextId)
    BY <2>2 DEF OrderInv, FileOrder
  <2>8. /\ Increasing(fs) /\ Before(fs, queue) /\ Below(fs, nextId)
    BY <2>1 DEF OrderInv, BufferOrder
  <2>9. wr \in Nat
    BY SMTT(30), Z3T(30) DEF TypeOK, SaverOK
  <2>10. Before(es, fs)
    BY <2>1, <2>9, SMTT(30), Z3T(30) DEF OrderInv, BatchOrder, Pending
  <2> HIDE DEF d, es, fs
  <2>11. n \in 0..Len(fs)
    BY DEF fs
  <2>12. /\ Increasing(index'[d].entries) /\ Before(index'[d].entries, queue) /\ Below(index'[d].entries, nextId)
    BY <2>2, <2>4, <2>6, <2>7, <2>8, <2>10, <2>11, <1>ConcatOrder DEF es
  <2>13. QueueOrder'
    BY DEF OrderInv, QueueOrder
  <2>14. BufferOrder'
    BY DEF OrderInv, BufferOrder
  <2>15. FileOrder'
    BY <2>5, <2>12 DEF OrderInv, FileOrder
  <2>16. BatchOrder'
    <3> SUFFICES ASSUME NEW j \in DOMAIN bufs, Pending(j)'
                 PROVE  Before(index'[bufs[j].day].entries, bufs[j].entries)
      BY DEF BatchOrder
    <3>1. j \in Nat /\ bufs[j] \in Buffer
      BY SMTT(30), Z3T(30) DEF TypeOK, SaverOK
    <3>2. j > wr /\ Pending(j)
      BY <2>9, <3>1, SMTT(30), Z3T(30) DEF Pending
    <3>3. bufs[j].day # d /\ bufs[j].day \in Days
      BY <2>1, <3>1, <3>2, <2>9, SMTT(30), Z3T(30) DEF OrderInv, BufferOrder, d, Buffer
    <3> QED BY <2>5, <3>2, <3>3 DEF OrderInv, BatchOrder
  <2> QED BY <2>13, <2>14, <2>15, <2>16 DEF OrderInv
  (* A complete index write keeps the order, and the buffers still to be     *)
  (* written belong to other days.                                           *)
<1>OrderWriteIndex. TypeOK /\ OrderInv /\ WriteIndex => OrderInv'
  <2> SUFFICES ASSUME TypeOK, OrderInv, WriteIndex PROVE OrderInv'
    OBVIOUS
  <2> DEFINE n == IndexOffset(bufs[wr])
  <2>1. pc = "index" /\ pc' = "pic" /\ wr' = wr + 1 /\ UNCHANGED <<queue, nextId, bufs>>
    BY DEF WriteIndex, At, shared, callers
  <2>2. wr \in DOMAIN bufs /\ bufs[wr] \in Buffer
    BY <2>1, SMTT(30), Z3T(30) DEF TypeOK, SaverOK
  <2>3. n \in 0..Len(bufs[wr].entries)
    BY <2>2, SMTT(30), Z3T(30) DEF Buffer, IndexOffset
  <2>4. index' = [index EXCEPT ![bufs[wr].day] = AppendIndex(@, bufs[wr], n, FALSE)]
    BY DEF WriteIndex
  <2> HIDE DEF n
  <2> QED BY <2>1, <2>3, <2>4, <1>OrderAppendIndex
  (* A failed or partial index write keeps the order; the rest of the batch  *)
  (* is never written.                                                       *)
<1>OrderWriteIndexFails. TypeOK /\ OrderInv /\ WriteIndexFails => OrderInv'
  <2> SUFFICES ASSUME TypeOK, OrderInv, WriteIndexFails PROVE OrderInv'
    OBVIOUS
  <2>1. pc = "index" /\ pc' = "error" /\ UNCHANGED <<queue, nextId, bufs>>
    BY DEF WriteIndexFails, At, locals, callers
  <2>2. CASE UNCHANGED index
    BY <2>1, <2>2, <1>OrderFrame DEF Pending
  <2>3. ASSUME NEW n \in 0..(IndexOffset(bufs[wr]) - 1), NEW partial \in BOOLEAN,
               index' = [index EXCEPT ![bufs[wr].day] = AppendIndex(@, bufs[wr], n, partial)]
        PROVE  OrderInv'
    <3>1. wr \in DOMAIN bufs /\ bufs[wr] \in Buffer
      BY <2>1, SMTT(30), Z3T(30) DEF TypeOK, SaverOK
    <3>2. n \in 0..Len(bufs[wr].entries)
      BY <3>1, SMTT(30), Z3T(30) DEF Buffer, IndexOffset
    <3> QED BY <2>1, <2>3, <3>2, <1>OrderAppendIndex
  <2> QED BY <2>2, <2>3 DEF WriteIndexFails
  (* Steps of the saver that only move its program counter or the flags.     *)
<1>OrderQuietSaver. ASSUME OrderInv,
                           \/ LoopTop \/ Stall \/ ReadFlag \/ EndRound \/ SaverExit
                           \/ CheckStorage("sdCheck", "sdDelPic", "flashCheck")
                           \/ CheckStorage("flashCheck", "flashDelPic", "guard")
                           \/ DelOldPic("sdDelPic", "sdDelIndex") \/ DelOldPic("flashDelPic", "flashDelIndex")
                           \/ CleanUpFails
                    PROVE  OrderInv'
  <2> USE <1>OrderQuietSaver
  <2>1. pc \notin {"fill", "pic", "index", "error"} /\ pc' \notin {"fill", "pic", "index", "error"}
    BY DEF LoopTop, Stall, ReadFlag, EndRound, SaverExit, CheckStorage, DelOldPic, CleanUpFails, DelOldFails, At
  <2>2. UNCHANGED <<queue, nextId, bufs, index>>
    BY DEF LoopTop, Stall, ReadFlag, EndRound, SaverExit, CheckStorage, DelOldPic, CleanUpFails, DelOldFails, shared, locals, files, callers
  <2>3. bufs = <<>>
    BY <2>1 DEF OrderInv, BufferOrder
  <2> QED BY <2>2, <2>3, <1>OrderDrop
  (* Steps that start over with no buffers.                                  *)
<1>OrderStartsOver. ASSUME OrderInv, EndWrite \/ BatchError \/ InitRecordLib \/ Crash
                    PROVE  OrderInv'
  <2> USE <1>OrderStartsOver
  <2>1. bufs' = <<>> /\ UNCHANGED <<nextId, index>> /\ (queue' = queue \/ queue' = <<>>)
    BY DEF EndWrite, BatchError, InitRecordLib, Crash, Restart, FreshSaver, shared, files, callers
  <2> QED BY <2>1, <1>OrderDrop
  (* Steps of the callers and the environment that do not touch the batch.   *)
<1>OrderQuietCallers.
      ASSUME OrderInv, QuietCallers
      PROVE  OrderInv'
  <2> USE <1>OrderQuietCallers
  <2>1. UNCHANGED <<queue, nextId, bufs, index, pc, wr>>
    BY DEF QuietCallers, CountAtStart, SetAtStart, SearchBegin, SearchDay, SearchEnd, DeinitBegin, IntervalPasses, Midnight,
           shared, locals, files, callers
  <2>2. \A j \in DOMAIN bufs : Pending(j)' => Pending(j)
    BY <2>1 DEF Pending
  <2>3. pc' \notin {"fill", "pic", "index", "error"} => bufs = <<>>
    BY <2>1 DEF OrderInv, BufferOrder
  <2> QED BY <2>1, <2>2, <2>3, <1>OrderFrame
  (* Destroying the queue after the join keeps the order: the saver has gone *)
  (* and holds no buffers.                                                   *)
<1>OrderDeinitEnd. OrderInv /\ DeinitEnd => OrderInv'
  <2> SUFFICES ASSUME OrderInv, DeinitEnd PROVE OrderInv'
    OBVIOUS
  <2>1. bufs = <<>> /\ UNCHANGED <<bufs, nextId, index>> /\ queue' = <<>>
    BY DEF DeinitEnd, OrderInv, BufferOrder, locals, files
  <2> QED BY <2>1, <1>OrderDrop
<1> SUFFICES ASSUME TypeOK, OrderInv, [Next]_vars PROVE OrderInv'
  OBVIOUS
<1>1. CASE UNCHANGED vars
  <2>1. UNCHANGED <<queue, nextId, bufs, index, pc, wr>>
    BY <1>1 DEF vars, shared, locals, files, callers
  <2> QED BY <2>1, <1>OrderFrame DEF OrderInv, BufferOrder, Pending
<1>2. CASE Saver
  <2>1. CASE CheckCapacity
    <3>1. CASE DelOldIndex("sdDelIndex", "flashCheck")
      BY <3>1, <1>OrderDelOldIndex
    <3>2. CASE DelOldIndex("flashDelIndex", "guard")
      BY <3>2, <1>OrderDelOldIndex
    <3> QED BY <2>1, <3>1, <3>2, <1>OrderQuietSaver DEF CheckCapacity, CleanUpFails
  <2> QED BY <1>2, <2>1, <1>OrderQuietSaver, <1>OrderStartsOver, <1>OrderCountQueue, <1>OrderFillOne, <1>OrderFillFails,
             <1>OrderBeginWrite, <1>OrderWritePic, <1>OrderWriteIndex, <1>OrderWriteIndexFails DEF Saver
<1>3. CASE \E size \in Sizes : AddRecord(size)
  BY <1>3, <1>OrderAddRecord
<1>4. CASE QuietCallers
  BY <1>4, <1>OrderQuietCallers
<1>5. CASE DeinitEnd
  BY <1>5, <1>OrderDeinitEnd
<1>6. CASE InitRecordLib \/ Crash
  BY <1>6, <1>OrderStartsOver
<1> QED BY <1>1, <1>2, <1>3, <1>4, <1>5, <1>6 DEF Next, QuietCallers

-----------------------------------------------------------------------------
(***************************************************************************)
(* NothingLost and DeinitSavesAccepted for every value of the constants.   *)
(*                                                                         *)
(* Both are about runs without failing writes, power loss and second       *)
(* initialisation (Undisturbed).  Neither is inductive: that a batch is    *)
(* dropped only when it is on disk needs to know how far the write loop    *)
(* has come, and that the exit loses nothing needs the way of the exit     *)
(* flag from deinitRecordLib through the saver's sample of it to the batch *)
(* counted after the sample.                                               *)
(***************************************************************************)

Undisturbed == faults = 0 /\ crashes = 0 /\ inits = 1
Stored      == OnDisk \cup evicted

\* No batch fails, no file is torn, and what the write loop has passed is stored.
BatchStored ==
    /\ pc # "error"
    /\ \A d \in Days : ~index[d].torn
    /\ \A j \in DOMAIN bufs : pc \in {"pic", "index"} /\ j < wr => IdsOf(bufs[j].entries) \subseteq Stored

\* Every accepted record is somewhere.
Complete == app # "down" => 1..(nextId - 1) = InQueue \cup InBuffers \cup Stored

\* The exit flag and the saver's sample of it come from deinitRecordLib.
StopSeen ==
    /\ flag = 2 \/ recordFlag = 2 \/ pc \in {"exit", "gone"} => app # "up"
    /\ pc = "exit" => recordFlag = 2
    /\ app = "down" => pc = "gone"
    /\ owed \subseteq 1..(nextId - 1)

\* A batch counted after the sample holds all that is owed; then it is stored.
OwedStored ==
    /\ recordFlag = 2 /\ pc \in {"fill", "pic", "index"} =>
          \A i \in DOMAIN queue : i > todo => queue[i].id \notin owed
    /\ (recordFlag = 2 /\ pc = "after") \/ pc \in {"exit", "gone"} => owed \subseteq Stored

Kept    == BatchStored /\ Complete /\ StopSeen /\ OwedStored
KeptInv == Undisturbed => Kept
-----------------------------------------------------------------------------
(* Sets of ids.                                                            *)

(* EnQueue adds the id of its record.                                      *)
LEMMA IdsAppend ==
    ASSUME NEW S, NEW es \in Seq(S), NEW x \in S
    PROVE  IdsOf(Append(es, x)) = IdsOf(es) \cup {x.id}
<1>1. /\ DOMAIN Append(es, x) = DOMAIN es \cup {Len(es) + 1}
      /\ Append(es, x)[Len(es) + 1] = x
      /\ \A i \in DOMAIN es : Append(es, x)[i] = es[i]
  BY SMTT(30), Z3T(30)
<1> QED BY <1>1, SMTT(30), Z3T(30) DEF IdsOf

(* A complete write of a buffer adds the ids of the buffer to the file.    *)
LEMMA IdsConcat ==
    ASSUME NEW S, NEW es \in Seq(S), NEW fs \in Seq(S)
    PROVE  IdsOf(es \o SubSeq(fs, 1, Len(fs))) = IdsOf(es) \cup IdsOf(fs)
<1> DEFINE cat == es \o fs
<1>1. SubSeq(fs, 1, Len(fs)) = fs
  BY SMTT(30), Z3T(30)
<1>2. /\ DOMAIN cat = 1..(Len(es) + Len(fs)) /\ DOMAIN es = 1..Len(es) /\ DOMAIN fs = 1..Len(fs)
      /\ Len(es) \in Nat /\ Len(fs) \in Nat
      /\ \A i \in DOMAIN es : cat[i] = es[i]
      /\ \A i \in DOMAIN fs : cat[Len(es) + i] = fs[i]
  BY SMTT(30), Z3T(30)
<1> HIDE DEF cat
<1>3. \A i \in DOMAIN cat : \/ i \in DOMAIN es
                            \/ i - Len(es) \in DOMAIN fs /\ cat[i] = fs[i - Len(es)]
  BY <1>2, SMTT(30), Z3T(30)
<1>4. \A i \in DOMAIN fs : Len(es) + i \in DOMAIN cat
  BY <1>2, SMTT(30), Z3T(30)
<1>5. \A i \in DOMAIN es : i \in DOMAIN cat
  BY <1>2, SMTT(30), Z3T(30)
<1>6. IdsOf(cat) = IdsOf(es) \cup IdsOf(fs)
  BY <1>2, <1>3, <1>4, <1>5, SMTT(30), Z3T(30) DEF IdsOf
<1> QED BY <1>1, <1>6 DEF cat

(* Adding a record to a buffer adds its id.                                *)
LEMMA AddToIds ==
    ASSUME NEW b \in Buffer, NEW r \in Record
    PROVE  IdsOf(AddTo(b, r).entries) = IdsOf(b.entries) \cup {r.id}
<1> DEFINE e == [no |-> b.no, id |-> r.id, addr |-> AddrOfNext(b), size |-> r.size]
<1>1. AddTo(b, r).entries = Append(b.entries, e) /\ e.id = r.id
  BY DEF AddTo, Buffer
<1>2. b.entries \in Seq(Entry) /\ e \in Entry
  BY SMTT(30), Z3T(30) DEF Buffer, Record, Entry, AddrOfNext
<1> HIDE DEF e
<1> QED BY <1>1, <1>2, IdsAppend, SMTT(30), Z3T(30)

(* No buffers, no ids.                                                     *)
LEMMA NoBuffers == bufs = <<>> => InBuffers = {}
BY SMTT(30), Z3T(30) DEF InBuffers

(* At the start nothing was accepted and nothing is owed.                  *)
LEMMA KeptInit == Init => KeptInv
<1> SUFFICES ASSUME Init PROVE Kept
  BY DEF KeptInv
<1>1. \A d \in Days : index[d].entries = <<>> /\ ~index[d].torn
  BY DEF Init, NoIndex
<1>2. queue = <<>> /\ bufs = <<>> /\ nextId = 1 /\ pc = "top" /\ owed = {} /\ evicted = {} /\ app = "up"
      /\ flag = 0 /\ recordFlag = 0
  BY DEF Init
<1>3. BatchStored
  BY <1>1, <1>2 DEF BatchStored
<1>4. Complete
  <2>1. IdsOf(<<>>) = {}
    BY SMTT(30), Z3T(30) DEF IdsOf
  <2>2. InQueue = {} /\ InBuffers = {} /\ Stored = {}
    BY <1>1, <1>2, <2>1, NoBuffers DEF InQueue, OnDisk, Stored
  <2> QED BY <1>2, <2>2, SMTT(30), Z3T(30) DEF Complete
<1>5. StopSeen
  BY <1>2, SMTT(30), Z3T(30) DEF StopSeen
<1>6. OwedStored
  BY <1>2 DEF OwedStored
<1> QED BY <1>3, <1>4, <1>5, <1>6 DEF Kept

(* Every step of an undisturbed run keeps the records.                     *)
LEMMA KeptNext == TypeOK /\ OrderInv /\ KeptInv /\ [Next]_vars => KeptInv'
  (* DeQueue takes away one position, that of the head.                      *)
<1>IdsTail. ASSUME NEW S, NEW es \in Seq(S), es # <<>>
            PROVE  IdsOf(es) = IdsOf(Tail(es)) \cup {Head(es).id}
  <2> USE <1>IdsTail
  <2>1. /\ DOMAIN Tail(es) = 1..(Len(es) - 1) /\ Len(es) \in Nat /\ Len(es) > 0 /\ DOMAIN es = 1..Len(es)
        /\ Head(es) = es[1]
        /\ \A i \in DOMAIN Tail(es) : Tail(es)[i] = es[i + 1]
    BY SMTT(30), Z3T(30)
  <2>2. \A i \in DOMAIN es : i = 1 \/ (i - 1 \in DOMAIN Tail(es) /\ Tail(es)[i - 1] = es[i])
    BY <2>1, SMTT(30), Z3T(30)
  <2>3. \A i \in DOMAIN Tail(es) : i + 1 \in DOMAIN es /\ Tail(es)[i] = es[i + 1]
    BY <2>1, SMTT(30), Z3T(30)
  <2>4. 1 \in DOMAIN es
    BY <2>1, SMTT(30), Z3T(30)
  <2>5. IdsOf(es) \subseteq IdsOf(Tail(es)) \cup {Head(es).id}
    BY <2>1, <2>2, SMTT(30), Z3T(30) DEF IdsOf
  <2>6. IdsOf(Tail(es)) \subseteq IdsOf(es)
    BY <2>3 DEF IdsOf
  <2>7. Head(es).id \in IdsOf(es)
    BY <2>1, <2>4 DEF IdsOf
  <2> QED BY <2>5, <2>6, <2>7
  (* A step that leaves queue, buffers, files and accepted records alone.    *)
<1>KeptFrame. ASSUME Kept, UNCHANGED <<queue, nextId, bufs, index, evicted>>,
                     pc' # "error", app = "down" => app' = "down",
                     \A j \in DOMAIN bufs : pc' \in {"pic", "index"} /\ j < wr' => pc \in {"pic", "index"} /\ j < wr,
                     StopSeen', OwedStored'
              PROVE  Kept'
  <2> USE <1>KeptFrame
  <2>1. BatchStored'
    BY DEF Kept, BatchStored, Stored, OnDisk
  <2>2. Complete'
    BY SMTT(30), Z3T(30) DEF Kept, Complete, InQueue, InBuffers, Stored, OnDisk
  <2> QED BY <2>1, <2>2 DEF Kept
  (* The saver outside its batch: round counter, capacity check, flag.       *)
<1>KeptQuietSaver. ASSUME Kept,
                          \/ LoopTop \/ Stall \/ ReadFlag \/ EndRound \/ SaverExit
                          \/ CheckStorage("sdCheck", "sdDelPic", "flashCheck")
                          \/ CheckStorage("flashCheck", "flashDelPic", "guard")
                          \/ DelOldPic("sdDelPic", "sdDelIndex") \/ DelOldPic("flashDelPic", "flashDelIndex")
                   PROVE  Kept'
  <2> USE <1>KeptQuietSaver
  <2>1. UNCHANGED <<queue, nextId, bufs, index, evicted, app, owed>>
    BY DEF LoopTop, Stall, ReadFlag, EndRound, SaverExit, CheckStorage, DelOldPic, shared, locals, files,
           callers, history
  <2>2. pc' \notin {"fill", "pic", "index", "error"} /\ pc # "gone"
    BY ZenonT(60) DEF LoopTop, Stall, ReadFlag, EndRound, SaverExit, CheckStorage, DelOldPic, At
  <2>3. /\ flag' = 2 => flag = 2
        /\ recordFlag' = 2 => recordFlag = 2 \/ flag = 2
        /\ pc' \in {"exit", "gone"} => (pc = "after" /\ recordFlag = 2) \/ pc = "exit"
        /\ pc' = "exit" => recordFlag' = 2
        /\ pc' # "after"
    BY SMTT(30), Z3T(30) DEF LoopTop, Stall, ReadFlag, EndRound, ExitRequested, ClearForced, SaverExit, CheckStorage, DelOldPic,
           At, shared, locals
  <2>4. StopSeen'
    BY <2>1, <2>2, <2>3 DEF Kept, StopSeen
  <2>5. OwedStored'
    BY <2>1, <2>2, <2>3 DEF Kept, OwedStored, Stored, OnDisk
  <2> QED BY <2>1, <2>2, <2>4, <2>5, <1>KeptFrame
  (* Searches, the clock, and deinitRecordLib up to the join.                *)
<1>KeptCallers. ASSUME Kept, QuietCallers
                PROVE  Kept'
  <2> USE <1>KeptCallers
  <2>1. UNCHANGED <<queue, nextId, bufs, index, evicted, pc, wr, todo, recordFlag>>
    BY DEF QuietCallers, CountAtStart, SetAtStart, SearchBegin, SearchDay, SearchEnd, DeinitBegin, IntervalPasses, Midnight, shared, locals, files,
           callers, history
  <2>2. \/ UNCHANGED <<app, owed>> /\ (flag' = 2 => flag = 2)
        \/ app = "up" /\ app' = "stopping" /\ owed' = 1..(nextId - 1)
    BY SMTT(30), Z3T(30) DEF QuietCallers, CountAtStart, SetAtStart, SearchBegin, SearchDay, SearchEnd, DeinitBegin, IntervalPasses, Midnight, shared, callers, history
  <2>3. StopSeen'
    BY <2>1, <2>2 DEF Kept, StopSeen
  <2>4. OwedStored'
    BY <2>1, <2>2 DEF Kept, StopSeen, OwedStored, Stored, OnDisk
  <2>5. pc' # "error" /\ (app = "down" => app' = "down")
    BY <2>1, <2>2 DEF Kept, BatchStored
  <2> QED BY <2>1, <2>3, <2>4, <2>5, <1>KeptFrame
  (* addRecord: the new record is in the queue, and not owed by a deinit     *)
  (* that came before it.                                                    *)
<1>KeptAddRecord. ASSUME TypeOK, Kept, NEW size \in Sizes, AddRecord(size)
                  PROVE  Kept'
  <2> USE <1>KeptAddRecord
  <2> DEFINE r == [id |-> nextId, day |-> today, size |-> size]
  <2>1. /\ queue' = Append(queue, r) /\ r.id = nextId /\ nextId' = nextId + 1 /\ app # "down"
        /\ UNCHANGED <<pc, wr, bufs, todo, recordFlag, flag, index, app, evicted, owed>>
    BY DEF AddRecord, locals, files, history
  <2>2. r \in Record /\ queue \in Seq(Record) /\ nextId \in Nat /\ nextId > 0 /\ todo \in 0..Len(queue)
    BY Constants, SMTT(30), Z3T(30) DEF AddRecord, TypeOK, SharedOK, SaverOK, CallersOK, Record, Ids
  <2> HIDE DEF r
  <2>3. BatchStored'
    BY <2>1 DEF Kept, BatchStored, Stored, OnDisk
  <2>4. Complete'
    <3>1. InQueue' = InQueue \cup {nextId}
      BY <2>1, <2>2, IdsAppend, SMTT(30), Z3T(30) DEF InQueue
    <3>2. 1..(nextId' - 1) = 1..(nextId - 1) \cup {nextId}
      BY <2>1, <2>2, SMTT(30), Z3T(30)
    <3>3. InBuffers' = InBuffers /\ Stored' = Stored
      BY <2>1 DEF InBuffers, Stored, OnDisk
    <3> QED BY <2>1, <3>1, <3>2, <3>3 DEF Kept, Complete
  <2>5. StopSeen'
    <3>1. 1..(nextId - 1) \subseteq 1..(nextId' - 1)
      BY <2>1, <2>2, SMTT(30), Z3T(30)
    <3> QED BY <2>1, <3>1 DEF Kept, StopSeen
  <2>6. OwedStored'
    <3>1. nextId \notin owed
      BY <2>2, SMTT(30), Z3T(30) DEF Kept, StopSeen
    <3>2. \A i \in DOMAIN queue' : (i \in DOMAIN queue /\ queue'[i] = queue[i]) \/ queue'[i].id = nextId
      BY <2>1, <2>2, SMTT(30), Z3T(30)
    <3> QED BY <2>1, <3>1, <3>2 DEF Kept, OwedStored, Stored, OnDisk
  <2> QED BY <2>3, <2>4, <2>5, <2>6 DEF Kept
  (* A batch is counted after the flag is sampled: with nothing to save all  *)
  (* that is owed is stored, otherwise the batch takes the whole queue.      *)
<1>KeptCountQueue. ASSUME TypeOK, OrderInv, Kept, CountQueue
                   PROVE  Kept'
  <2> USE <1>KeptCountQueue
  <2>1. /\ UNCHANGED <<queue, nextId, bufs, index, evicted, app, owed, flag, recordFlag>> /\ pc = "count"
    BY DEF CountQueue, At, shared, files, callers, history
  <2>2. bufs = <<>>
    BY <2>1 DEF OrderInv, BufferOrder
  <2>3. \/ pc' = "fill" /\ todo' = Len(queue)
        \/ pc' = "after" /\ ~SaveDue(Len(queue))
    BY DEF CountQueue, At
  <2>4. StopSeen'
    BY <2>1, <2>3 DEF Kept, StopSeen
  <2>5. OwedStored'
    <3>1. CASE pc' = "fill" /\ todo' = Len(queue)
      <4>1. \A i \in DOMAIN queue : ~(i > Len(queue))
        BY SMTT(30), Z3T(30) DEF TypeOK, SharedOK
      <4> QED BY <2>1, <3>1, <4>1 DEF OwedStored
    <3>2. CASE pc' = "after" /\ ~SaveDue(Len(queue))
      <4> SUFFICES ASSUME recordFlag = 2 PROVE owed \subseteq Stored
        BY <2>1, <3>2 DEF OwedStored, Stored, OnDisk
      <4>1. queue = <<>>
        BY <3>2, SMTT(30), Z3T(30) DEF SaveDue, TypeOK, SharedOK
      <4>2. InQueue = {} /\ InBuffers = {}
        BY <2>2, <4>1, NoBuffers, SMTT(30), Z3T(30) DEF InQueue, IdsOf
      <4>3. app # "down"
        BY <2>1 DEF Kept, StopSeen
      <4> QED BY <4>2, <4>3 DEF Kept, StopSeen, Complete
    <3> QED BY <2>3, <3>1, <3>2
  <2> QED BY <2>1, <2>2, <2>3, <2>4, <2>5, <1>KeptFrame
  (* One turn of the dequeue loop moves a record from the queue to a buffer. *)
<1>KeptFillOne. ASSUME TypeOK, Kept, FillOne
                PROVE  Kept'
  <2> USE <1>KeptFillOne
  <2> DEFINE r == Head(queue)
  <2>1. /\ pc = "fill" /\ queue' = Tail(queue) /\ bufs' = Buffered(r) /\ todo' = todo - 1
        /\ UNCHANGED <<pc, wr, index, nextId, flag, recordFlag, app, evicted, owed>>
    BY DEF FillOne, QueueAfterTake, files, callers, history
  <2>2. queue \in Seq(Record) /\ queue # <<>> /\ todo \in 0..Len(queue) /\ todo > 0
    BY SMTT(30), Z3T(30) DEF FillOne, TypeOK, SharedOK, SaverOK
  <2>3. r \in Record
    BY <2>2, SMTT(30), Z3T(30)
  <2>4. PICK k \in 1..(Len(bufs) + 1), b \in Buffer :
                /\ DOMAIN bufs' = DOMAIN bufs \cup {k}
                /\ bufs'[k] = AddTo(b, r) /\ b.day = r.day
                /\ \A j \in DOMAIN bufs : j # k => bufs'[j] = bufs[j]
                /\ \/ k \in DOMAIN bufs /\ b = bufs[k]
                   \/ k \notin DOMAIN bufs /\ b = NewBuffer(r.day) /\ \A j \in DOMAIN bufs : bufs[j].day # r.day
    BY <2>1, <2>3, BufferedShape
  <2>5. InQueue = InQueue' \cup {r.id}
    BY <2>1, <2>2, <1>IdsTail DEF InQueue
  <2>6. \A i \in DOMAIN queue' : i + 1 \in DOMAIN queue /\ queue'[i] = queue[i + 1] /\ i \in Nat
    BY <2>1, <2>2, SMTT(30), Z3T(30)
  <2> HIDE DEF r
  <2>7. IdsOf(bufs'[k].entries) = IdsOf(b.entries) \cup {r.id}
    BY <2>3, <2>4, AddToIds
  <2>8. InBuffers' = InBuffers \cup {r.id}
    <3>1. k \in DOMAIN bufs \/ IdsOf(b.entries) = {}
      <4>1. NewBuffer(r.day).entries = <<>>
        BY DEF NewBuffer
      <4>2. IdsOf(<<>>) = {}
        BY SMTT(30), Z3T(30) DEF IdsOf
      <4> QED BY <2>4, <4>1, <4>2
    <3>2. InBuffers' = UNION {IdsOf(bufs'[j].entries) : j \in DOMAIN bufs'}
      BY DEF InBuffers
    <3>3. \A x : x \in InBuffers' <=> \E j \in DOMAIN bufs' : x \in IdsOf(bufs'[j].entries)
      BY <3>2
    <3>4. \A x : x \in InBuffers <=> \E j \in DOMAIN bufs : x \in IdsOf(bufs[j].entries)
      BY DEF InBuffers
    <3>5. ASSUME NEW x \in InBuffers' PROVE x \in InBuffers \cup {r.id}
      BY <2>4, <2>7, <3>1, <3>3, <3>4
    <3>6. ASSUME NEW x \in InBuffers \cup {r.id} PROVE x \in InBuffers'
      BY <2>4, <2>7, <3>1, <3>3, <3>4
    <3> QED BY <3>5, <3>6
  <2>9. Stored' = Stored
    BY <2>1 DEF Stored, OnDisk
  <2>10. BatchStored'
    BY <2>1, <2>9 DEF Kept, BatchStored
  <2>11. Complete'
    BY <2>1, <2>5, <2>8, <2>9 DEF Kept, Complete
  <2>12. StopSeen'
    BY <2>1 DEF Kept, StopSeen
  <2>13. OwedStored'
    <3>1. \A i \in DOMAIN queue' : i > todo' => i + 1 > todo
      BY <2>1, <2>2, <2>6, SMTT(30), Z3T(30)
    <3> QED BY <2>1, <2>6, <2>9, <3>1 DEF Kept, OwedStored
  <2> QED BY <2>10, <2>11, <2>12, <2>13 DEF Kept
  (* The write loop starts with no buffer passed; photos do not matter here. *)
<1>KeptWritePic. ASSUME TypeOK, Kept, BeginWrite \/ WritePic
                 PROVE  Kept'
  <2> USE <1>KeptWritePic
  <2>1. UNCHANGED <<queue, nextId, bufs, index, evicted, app, owed, flag, recordFlag, todo>>
    BY DEF BeginWrite, WritePic, shared, locals, files, callers, history
  <2>2. /\ pc \in {"fill", "pic"} /\ pc' \in {"pic", "index"}
        /\ pc = "fill" => wr' = 1
        /\ pc = "pic" => wr' = wr
    BY DEF BeginWrite, WritePic, At, locals
  <2>3. \A j \in DOMAIN bufs : pc' \in {"pic", "index"} /\ j < wr' => pc \in {"pic", "index"} /\ j < wr
    BY <2>2, SMTT(30), Z3T(30) DEF TypeOK, SaverOK
  <2>4. StopSeen'
    BY <2>1, <2>2 DEF Kept, StopSeen
  <2>5. OwedStored'
    BY <2>1, <2>2 DEF Kept, OwedStored
  <2> QED BY <2>1, <2>2, <2>3, <2>4, <2>5, <1>KeptFrame
  (* A complete index write stores the buffer of the loop.                   *)
<1>KeptWriteIndex. ASSUME TypeOK, Kept, WriteIndex
                   PROVE  Kept'
  <2> USE <1>KeptWriteIndex
  <2> DEFINE d == bufs[wr].day
             es == index[d].entries
             fs == bufs[wr].entries
  <2>1. /\ pc = "index" /\ pc' = "pic" /\ wr' = wr + 1
        /\ index' = [index EXCEPT ![d] = AppendIndex(@, bufs[wr], Len(fs), FALSE)]
        /\ UNCHANGED <<queue, nextId, bufs, evicted, app, owed, flag, recordFlag, todo>>
    BY DEF WriteIndex, IndexOffset, At, shared, callers, history
  <2>2. wr \in DOMAIN bufs /\ bufs[wr] \in Buffer /\ wr \in Nat
    BY <2>1, SMTT(30), Z3T(30) DEF TypeOK, SaverOK
  <2>3. d \in Days /\ fs \in Seq(Entry)
    BY <2>2 DEF Buffer
  <2>4. index[d] \in IndexFile /\ DOMAIN index = Days
    BY <2>3 DEF TypeOK, FilesOK
  <2>5. es \in Seq(Entry)
    BY <2>4 DEF IndexFile
  <2>6. ~index[d].torn
    BY <2>3 DEF Kept, BatchStored
  <2>7. index'[d].entries = es \o SubSeq(fs, 1, Len(fs)) /\ ~index'[d].torn
    BY <2>1, <2>3, <2>4, <2>6 DEF AppendIndex
  <2>8. \A x \in Days \ {d} : index'[x] = index[x]
    BY <2>1, <2>4
  <2> HIDE DEF d, es, fs
  <2>9. IdsOf(index'[d].entries) = IdsOf(es) \cup IdsOf(fs)
    BY <2>3, <2>5, <2>7, IdsConcat, SMTT(30), Z3T(30)
  <2>10. Stored' = Stored \cup IdsOf(fs)
    <3>1. OnDisk' = UNION {IdsOf(index'[x].entries) : x \in Days}
      BY DEF OnDisk
    <3>2. \A y : y \in OnDisk' <=> \E x \in Days : y \in IdsOf(index'[x].entries)
      BY <3>1
    <3>3. \A y : y \in OnDisk <=> \E x \in Days : y \in IdsOf(index[x].entries)
      BY DEF OnDisk
    <3>4. ASSUME NEW y \in OnDisk' PROVE y \in OnDisk \cup IdsOf(fs)
      BY <2>8, <2>9, <3>2, <3>3 DEF es
    <3>5. ASSUME NEW y \in OnDisk \cup IdsOf(fs) PROVE y \in OnDisk'
      BY <2>3, <2>8, <2>9, <3>2, <3>3 DEF es
    <3> QED BY <2>1, <3>4, <3>5 DEF Stored
  <2>11. BatchStored'
    <3>1. \A x \in Days : ~index'[x].torn
      BY <2>7, <2>8 DEF Kept, BatchStored
    <3>2. \A j \in DOMAIN bufs : j < wr + 1 => j < wr \/ j = wr
      BY <2>2, SMTT(30), Z3T(30) DEF TypeOK, SaverOK
    <3> QED BY <2>1, <2>10, <3>1, <3>2 DEF Kept, BatchStored, fs
  <2>12. Complete'
    <3>1. IdsOf(fs) \subseteq InBuffers
      BY <2>2 DEF InBuffers, fs
    <3>2. InBuffers' = InBuffers /\ InQueue' = InQueue
      BY <2>1 DEF InBuffers, InQueue
    <3> QED BY <2>1, <2>10, <3>1, <3>2 DEF Kept, Complete
  <2>13. StopSeen'
    BY <2>1 DEF Kept, StopSeen
  <2>14. OwedStored'
    BY <2>1 DEF Kept, OwedStored
  <2> QED BY <2>11, <2>12, <2>13, <2>14 DEF Kept
  (* The buffers are freed when all of them are stored, and with them what   *)
  (* was owed.                                                               *)
<1>KeptEndWrite. ASSUME TypeOK, Kept, EndWrite
                 PROVE  Kept'
  <2> USE <1>KeptEndWrite
  <2>1. /\ pc = "pic" /\ pc' = "after" /\ wr > Len(bufs) /\ bufs' = <<>>
        /\ UNCHANGED <<queue, nextId, index, evicted, app, owed, flag, recordFlag, todo>>
    BY DEF EndWrite, At, files, callers, history
  <2>2. \A j \in DOMAIN bufs : j < wr
    BY <2>1, SMTT(30), Z3T(30) DEF TypeOK, SaverOK
  <2>3. InBuffers \subseteq Stored
    <3>1. \A j \in DOMAIN bufs : IdsOf(bufs[j].entries) \subseteq Stored
      BY <2>1, <2>2, ZenonT(60) DEF Kept, BatchStored
    <3> QED BY <3>1 DEF InBuffers
  <2>4. InBuffers' = {} /\ InQueue' = InQueue /\ Stored' = Stored
    BY <2>1, SMTT(30), Z3T(30) DEF InBuffers, InQueue, Stored, OnDisk
  <2>5. BatchStored'
    BY <2>1 DEF Kept, BatchStored
  <2>6. Complete'
    BY <2>1, <2>3, <2>4 DEF Kept, Complete
  <2>7. StopSeen'
    BY <2>1 DEF Kept, StopSeen
  <2>8. OwedStored'
    <3> SUFFICES ASSUME recordFlag = 2 PROVE owed \subseteq Stored
      BY <2>1, <2>4 DEF OwedStored
    <3>1. \A i \in DOMAIN queue : i > todo
      BY <2>1, SMTT(30), Z3T(30) DEF TypeOK, SharedOK, SaverOK
    <3>2. \A i \in DOMAIN queue : queue[i].id \notin owed
      BY <2>1, <3>1 DEF Kept, OwedStored
    <3>3. InQueue \cap owed = {}
      BY <3>2 DEF InQueue, IdsOf
    <3>4. app # "down"
      BY <2>1 DEF Kept, StopSeen
    <3> QED BY <2>3, <3>3, <3>4 DEF Kept, StopSeen, Complete
  <2> QED BY <2>5, <2>6, <2>7, <2>8 DEF Kept
  (* The clean-up moves the ids of a file from the disk to the evicted.      *)
<1>KeptDelOldIndex. ASSUME TypeOK, OrderInv, Kept, NEW here, here \in {"sdDelIndex", "flashDelIndex"},
                           NEW there, there \in {"flashCheck", "guard"}, DelOldIndex(here, there)
                    PROVE  Kept'
  <2> USE <1>KeptDelOldIndex
  <2>1. /\ pc = here /\ pc' = there
        /\ UNCHANGED <<queue, nextId, bufs, app, owed, flag, recordFlag, todo>>
    BY DEF DelOldIndex, At, locals, callers
  <2>2. bufs = <<>>
    BY <2>1 DEF OrderInv, BufferOrder
  <2>3. ASSUME NEW o \in OldFile(index), index' = [index EXCEPT ![o] = NoIndex],
               evicted' = evicted \cup IdsOf(index[o].entries)
        PROVE  Stored' = Stored /\ \A x \in Days : ~index'[x].torn
    <3>1. o \in Days
      BY OldFileFacts
    <3>2. index' = [index EXCEPT ![o] = NoIndex] /\ evicted' = evicted \cup IdsOf(index[o].entries)
      BY <2>3
    <3>3. DOMAIN index = Days
      BY DEF TypeOK, FilesOK
    <3>4. index'[o].entries = <<>> /\ ~index'[o].torn /\ \A x \in Days \ {o} : index'[x] = index[x]
      BY <3>1, <3>2, <3>3 DEF NoIndex
    <3>5. IdsOf(<<>>) = {}
      BY SMTT(30), Z3T(30) DEF IdsOf
    <3>6. Stored' = Stored
      <4>1. OnDisk' = UNION {IdsOf(index'[x].entries) : x \in Days}
        BY DEF OnDisk
      <4>2. \A y : y \in OnDisk' <=> \E x \in Days : y \in IdsOf(index'[x].entries)
        BY <4>1
      <4>3. \A y : y \in OnDisk <=> \E x \in Days : y \in IdsOf(index[x].entries)
        BY DEF OnDisk
      <4>4. ASSUME NEW y \in Stored' PROVE y \in Stored
        BY <3>1, <3>2, <3>4, <3>5, <4>2, <4>3 DEF Stored
      <4>5. ASSUME NEW y \in Stored PROVE y \in Stored'
        BY <3>1, <3>2, <3>4, <3>5, <4>2, <4>3 DEF Stored
      <4> QED BY <4>4, <4>5
    <3>7. \A x \in Days : ~index'[x].torn
      BY <3>4 DEF Kept, BatchStored
    <3> QED BY <3>6, <3>7
  <2>4. ASSUME UNCHANGED <<index, evicted>> PROVE Stored' = Stored /\ \A x \in Days : ~index'[x].torn
    BY <2>4 DEF Kept, BatchStored, Stored, OnDisk
  <2>5. Stored' = Stored /\ \A x \in Days : ~index'[x].torn
    BY <2>3, <2>4 DEF DelOldIndex
  <2>6. BatchStored'
    BY <2>1, <2>2, <2>5 DEF BatchStored
  <2>7. Complete'
    BY <2>1, <2>5 DEF Kept, Complete, InQueue, InBuffers
  <2>8. StopSeen'
    BY <2>1 DEF Kept, StopSeen
  <2>9. OwedStored'
    BY <2>1 DEF OwedStored
  <2> QED BY <2>6, <2>7, <2>8, <2>9 DEF Kept
  (* The queue is destroyed after the join.                                  *)
<1>KeptDeinitEnd. ASSUME Kept, DeinitEnd
                  PROVE  Kept'
  <2> USE <1>KeptDeinitEnd
  <2>1. /\ pc = "gone" /\ app' = "down"
        /\ UNCHANGED <<pc, wr, bufs, nextId, index, evicted, owed, flag, recordFlag, todo>>
    BY DEF DeinitEnd, locals, files, history
  <2>2. BatchStored'
    BY <2>1 DEF Kept, BatchStored
  <2>3. StopSeen'
    BY <2>1 DEF Kept, StopSeen
  <2>4. OwedStored'
    BY <2>1 DEF Kept, OwedStored, Stored, OnDisk
  <2> QED BY <2>1, <2>2, <2>3, <2>4 DEF Kept, Complete
<1> SUFFICES ASSUME TypeOK, OrderInv, KeptInv, [Next]_vars, Undisturbed' PROVE Kept'
  BY DEF KeptInv
<1>1. faults \in Nat /\ crashes \in Nat /\ inits \in Nat /\ inits > 0
  BY SMTT(30), Z3T(30) DEF TypeOK, CallersOK
<1>2. ~FillFails /\ ~WritePicFails /\ ~WriteIndexFails /\ ~Crash /\ ~InitRecordLib /\ ~CleanUpFails
  <2>1. FillFails \/ WritePicFails \/ WriteIndexFails \/ CleanUpFails => faults' = faults + 1
    BY DEF FillFails, WritePicFails, WriteIndexFails, CleanUpFails, DelOldFails
  <2>2. Crash => crashes' = crashes + 1
    BY DEF Crash
  <2>3. InitRecordLib => inits' = inits + 1
    BY DEF InitRecordLib
  <2>4. faults' # faults + 1 /\ crashes' # crashes + 1 /\ inits' # inits + 1
    BY <1>1, SMTT(30), Z3T(30) DEF Undisturbed
  <2> QED BY <2>1, <2>2, <2>3, <2>4
<1>3. CASE BatchError
  <2>1. pc = "error" /\ Undisturbed
    BY <1>3 DEF BatchError, Restart, Undisturbed, budget
  <2> QED BY <2>1 DEF KeptInv, Kept, BatchStored
<1>4. CASE UNCHANGED vars
  <2>1. UNCHANGED <<queue, nextId, bufs, index, evicted, app, owed, flag, recordFlag, todo, pc, wr, budget>>
    BY <1>4 DEF vars, shared, locals, files, callers, history
  <2>2. Kept
    BY <2>1 DEF KeptInv, Undisturbed, budget
  <2>3. StopSeen'
    BY <2>1, <2>2 DEF Kept, StopSeen
  <2>4. OwedStored'
    BY <2>1, <2>2 DEF Kept, OwedStored, Stored, OnDisk
  <2>5. pc' # "error"
    BY <2>1, <2>2 DEF Kept, BatchStored
  <2> QED BY <2>1, <2>2, <2>3, <2>4, <2>5, <1>KeptFrame
<1>5. CASE Saver
  <2>1. CASE CheckCapacity
    <3>1. Kept
      BY <1>2, <2>1 DEF CheckCapacity, CleanUpFails, CheckStorage, DelOldPic, DelOldIndex, budget, KeptInv, Undisturbed
    <3>2. CASE DelOldIndex("sdDelIndex", "flashCheck")
      BY <3>1, <3>2, <1>KeptDelOldIndex
    <3>3. CASE DelOldIndex("flashDelIndex", "guard")
      BY <3>1, <3>3, <1>KeptDelOldIndex
    <3> QED BY <1>2, <2>1, <3>1, <3>2, <3>3, <1>KeptQuietSaver DEF CheckCapacity, CleanUpFails
  <2>2. CASE LoopTop \/ Stall \/ ReadFlag \/ EndRound \/ SaverExit
    <3>1. Kept
      BY <2>2 DEF LoopTop, Stall, ReadFlag, EndRound, SaverExit, budget, KeptInv, Undisturbed
    <3> QED BY <2>2, <3>1, <1>KeptQuietSaver
  <2>3. CASE CountQueue \/ FillOne \/ BeginWrite \/ WritePic \/ WriteIndex \/ EndWrite
    <3>1. Kept
      BY <2>3 DEF CountQueue, FillOne, BeginWrite, WritePic, WriteIndex, EndWrite, budget, KeptInv, Undisturbed
    <3> QED BY <2>3, <3>1, <1>KeptCountQueue, <1>KeptFillOne, <1>KeptWritePic, <1>KeptWriteIndex, <1>KeptEndWrite
  <2> QED BY <1>2, <1>3, <1>5, <2>1, <2>2, <2>3 DEF Saver
<1>6. CASE \E size \in Sizes : AddRecord(size)
  <2>1. Kept
    BY <1>6 DEF AddRecord, budget, KeptInv, Undisturbed
  <2> QED BY <1>6, <2>1, <1>KeptAddRecord
<1>7. CASE QuietCallers
  <2>1. Kept
    BY <1>7 DEF QuietCallers, CountAtStart, SetAtStart, SearchBegin, SearchDay, SearchEnd, DeinitBegin, IntervalPasses, Midnight, budget, KeptInv,
                Undisturbed
  <2> QED BY <1>7, <2>1, <1>KeptCallers
<1>8. CASE DeinitEnd
  <2>1. Kept
    BY <1>8 DEF DeinitEnd, budget, KeptInv, Undisturbed
  <2> QED BY <1>8, <2>1, <1>KeptDeinitEnd
<1> QED BY <1>2, <1>4, <1>5, <1>6, <1>7, <1>8 DEF Next, QuietCallers

-----------------------------------------------------------------------------
(***************************************************************************)
(* SearchFindsSaved for every value of the constants: a search reads the   *)
(* index files one after the other while the saver appends to them and     *)
(* deletes them.                                                           *)
(*                                                                         *)
(* That it finds nothing twice is not a matter of the search alone: a      *)
(* record found in one file must not turn up in a file read later.  So     *)
(* ApartInv keeps the files apart from each other, from the batch on its   *)
(* way to them and from what the search has found, and the queue behind    *)
(* all of it.  That it finds everything needs the days: no record is       *)
(* stored under a day the search does not come to.                         *)
(***************************************************************************)

IdsIn(d)    == IdsOf(index[d].entries)
IdsBuf(j)   == IdsOf(bufs[j].entries)
Found       == IdsOf(search.found)
Distinct(es) == \A i, j \in DOMAIN es : i # j => es[i].id # es[j].id

\* No id is in two places.
FilesApart == \A c, d \in Days : c # d => IdsIn(c) \cap IdsIn(d) = {}
BatchApart ==
    /\ \A i, j \in DOMAIN bufs : i # j => IdsBuf(i) \cap IdsBuf(j) = {}
    /\ \A j \in DOMAIN bufs : Pending(j) => /\ IdsBuf(j) \cap Found = {}
                                            /\ \A d \in Days : IdsBuf(j) \cap IdsIn(d) = {}
FoundApart ==
    /\ Distinct(search.found) /\ Before(search.found, queue) /\ Below(search.found, nextId)
    /\ search.day = 0 => search.found = <<>>
    /\ \A d \in Days : d >= search.day => Found \cap IdsIn(d) = {}

ApartInv == FilesApart /\ BatchApart /\ FoundApart

\* Records are stamped with a day that has come.
DayCame ==
    /\ \A i \in DOMAIN queue : queue[i].day <= today
    /\ \A j \in DOMAIN bufs : bufs[j].day <= today
    /\ \A d \in Days : d > today => index[d].entries = <<>>

\* What was saved when the search began is found, deleted, or still ahead.
AheadInv ==
    search.day > 0 =>
        \A x \in search.saved : \/ x \in Found \cup evicted
                                \/ \E d \in Days : d >= search.day /\ d <= search.end /\ x \in IdsIn(d)

SearchInv == ApartInv /\ DayCame /\ AheadInv
(* At the start all is empty.                                              *)
LEMMA SearchInit == Init => SearchInv
<1> SUFFICES ASSUME Init PROVE SearchInv
  OBVIOUS
<1>1. \A d \in Days : index[d].entries = <<>>
  BY DEF Init, NoIndex
<1>2. queue = <<>> /\ bufs = <<>> /\ search.day = 0 /\ search.found = <<>>
  BY DEF Init, NoSearch
<1>3. IdsOf(<<>>) = {} /\ Distinct(<<>>)
  BY SMTT(30), Z3T(30) DEF IdsOf, Distinct
<1>4. FilesApart
  BY <1>1, <1>3 DEF FilesApart, IdsIn
<1>5. BatchApart
  BY <1>2, SMTT(30), Z3T(30) DEF BatchApart
<1>6. FoundApart
  BY <1>2, <1>3, EmptyOrder DEF FoundApart, Found
<1>7. DayCame
  BY <1>1, <1>2, SMTT(30), Z3T(30) DEF DayCame
<1>8. AheadInv
  BY <1>2, SMTT(30), Z3T(30) DEF AheadInv
<1> QED BY <1>4, <1>5, <1>6, <1>7, <1>8 DEF SearchInv, ApartInv

(* The found entries and the ids of a search are of their types.           *)
LEMMA FoundType == TypeOK => /\ search.found \in Seq(Entry) /\ search.day \in 0..(MaxDay + 1)
                             /\ search.end \in 0..MaxDay
BY DEF TypeOK, CallersOK

(* Every step keeps the ids apart and the saved ones ahead.                *)
LEMMA SearchNext == TypeOK /\ OrderInv /\ SearchInv /\ [Next]_vars => SearchInv'
  (* A step that leaves the index files alone and takes nothing out of the   *)
  (* queue one by one.                                                       *)
<1>SearchFrame. ASSUME TypeOK, SearchInv, UNCHANGED <<index, nextId, evicted>>,
                       queue' = queue \/ queue' = <<>>,
                       bufs' = <<>> \/ (bufs' = bufs /\ \A j \in DOMAIN bufs : Pending(j)' => Pending(j)),
                       search' = search \/ (search'.day = 0 /\ search'.found = <<>>),
                       today' \in Days, today <= today'
                PROVE  SearchInv'
  <2> USE <1>SearchFrame
  <2>1. FilesApart'
    BY DEF SearchInv, ApartInv, FilesApart, IdsIn
  <2>2. IdsOf(<<>>) = {} /\ Distinct(<<>>)
    BY SMTT(30), Z3T(30) DEF IdsOf, Distinct
  <2>3. Found' = Found \/ Found' = {}
    BY <2>2 DEF Found
  <2>4. BatchApart'
    <3>1. CASE bufs' = <<>>
      BY <3>1, SMTT(30), Z3T(30) DEF BatchApart
    <3>2. CASE bufs' = bufs /\ \A j \in DOMAIN bufs : Pending(j)' => Pending(j)
      BY <2>3, <3>2 DEF SearchInv, ApartInv, BatchApart, IdsBuf, IdsIn
    <3> QED BY <3>1, <3>2
  <2>5. FoundApart'
    <3>1. CASE search' = search
      BY <3>1, EmptyOrder DEF SearchInv, ApartInv, FoundApart, Found, IdsIn
    <3>2. CASE search'.day = 0 /\ search'.found = <<>>
      BY <2>2, <3>2, EmptyOrder DEF FoundApart, Found
    <3> QED BY <3>1, <3>2
  <2>6. DayCame'
    <3>1. today \in Nat /\ today' \in Nat /\ Days \subseteq Nat
      BY Constants, SMTT(30), Z3T(30) DEF TypeOK, CallersOK, Days
    <3>2. \A d \in Days : d > today' => d > today
      BY <3>1, SMTT(30), Z3T(30)
    <3>3. \A i \in DOMAIN queue : queue[i].day \in Nat
      <4>1. \A i \in DOMAIN queue : queue[i] \in Record
        BY SMTT(30), Z3T(30) DEF TypeOK, SharedOK
      <4> QED BY <3>1, <4>1 DEF Record
    <3>4. \A j \in DOMAIN bufs : bufs[j].day \in Nat
      <4>1. \A j \in DOMAIN bufs : bufs[j] \in Buffer
        BY SMTT(30), Z3T(30) DEF TypeOK, SaverOK
      <4> QED BY <3>1, <4>1 DEF Buffer
    <3>5. \A i \in DOMAIN queue : queue[i].day <= today'
      BY <3>1, <3>3, SMTT(30), Z3T(30) DEF SearchInv, DayCame
    <3>6. \A j \in DOMAIN bufs : bufs[j].day <= today'
      BY <3>1, <3>4, SMTT(30), Z3T(30) DEF SearchInv, DayCame
    <3>7. \A i \in DOMAIN queue' : queue'[i].day <= today'
      BY <3>5, SMTT(30), Z3T(30)
    <3>8. \A j \in DOMAIN bufs' : bufs'[j].day <= today'
      BY <3>6, SMTT(30), Z3T(30)
    <3> QED BY <3>2, <3>7, <3>8 DEF SearchInv, DayCame
  <2>7. AheadInv'
    <3>1. CASE search' = search
      BY <3>1 DEF SearchInv, AheadInv, Found, IdsIn
    <3>2. CASE search'.day = 0
      BY <3>2, SMTT(30), Z3T(30) DEF AheadInv
    <3> QED BY <3>1, <3>2
  <2> QED BY <2>1, <2>4, <2>5, <2>6, <2>7 DEF SearchInv, ApartInv
  (* Steps of the saver that do not touch the index files.                   *)
<1>SearchQuietSaver. ASSUME TypeOK, OrderInv, SearchInv,
                            \/ LoopTop \/ Stall \/ ReadFlag \/ CountQueue \/ EndRound \/ SaverExit
                            \/ CheckStorage("sdCheck", "sdDelPic", "flashCheck")
                            \/ CheckStorage("flashCheck", "flashDelPic", "guard")
                            \/ DelOldPic("sdDelPic", "sdDelIndex") \/ DelOldPic("flashDelPic", "flashDelIndex")
                            \/ CleanUpFails
                     PROVE  SearchInv'
  <2> USE <1>SearchQuietSaver
  <2>1. UNCHANGED <<index, nextId, evicted, queue, bufs, search, today>>
    BY DEF LoopTop, Stall, ReadFlag, CountQueue, EndRound, SaverExit, CheckStorage, DelOldPic, CleanUpFails, DelOldFails, shared, locals,
           files, callers, history
  <2>2. pc \notin {"fill", "pic", "index", "error"}
    BY DEF LoopTop, Stall, ReadFlag, CountQueue, EndRound, SaverExit, CheckStorage, DelOldPic, CleanUpFails, DelOldFails, At
  <2>3. bufs' = <<>>
    BY <2>1, <2>2 DEF OrderInv, BufferOrder
  <2>4. today' \in Days /\ today <= today'
    BY <2>1, SMTT(30), Z3T(30) DEF TypeOK, CallersOK, Days
  <2> QED BY <2>1, <2>3, <2>4, <1>SearchFrame
  (* The write loop around the index writes, and the end of a batch.         *)
<1>SearchBatch. ASSUME TypeOK, SearchInv, BeginWrite \/ WritePic \/ WritePicFails \/ EndWrite \/ BatchError
                PROVE  SearchInv'
  <2> USE <1>SearchBatch
  <2>1. UNCHANGED <<index, nextId, evicted, today>> /\ (queue' = queue \/ queue' = <<>>)
    BY DEF BeginWrite, WritePic, WritePicFails, EndWrite, BatchError, Restart, shared, locals, files, callers,
           history
  <2>2. search' = search \/ (search'.day = 0 /\ search'.found = <<>>)
    BY DEF BeginWrite, WritePic, WritePicFails, EndWrite, BatchError, Restart, NoSearch, callers
  <2>3. bufs' = <<>> \/ (bufs' = bufs /\ \A j \in DOMAIN bufs : Pending(j)' => Pending(j))
    BY DEF BeginWrite, WritePic, WritePicFails, EndWrite, BatchError, Restart, FreshSaver, Pending, At, locals
  <2>4. today' \in Days /\ today <= today'
    BY <2>1, SMTT(30), Z3T(30) DEF TypeOK, CallersOK, Days
  <2> QED BY <2>1, <2>2, <2>3, <2>4, <1>SearchFrame
  (* Callers and environment, but for addRecord and the search itself.       *)
<1>SearchCallers. ASSUME TypeOK, SearchInv,
                         \/ CountAtStart \/ SetAtStart \/ SearchEnd
                         \/ DeinitBegin \/ DeinitEnd \/ InitRecordLib \/ IntervalPasses \/ Midnight \/ Crash
                  PROVE  SearchInv'
  <2> USE <1>SearchCallers
  <2>1. UNCHANGED <<index, nextId, evicted>> /\ (queue' = queue \/ queue' = <<>>)
    BY DEF CountAtStart, SetAtStart, SearchEnd, DeinitBegin, DeinitEnd, InitRecordLib, IntervalPasses, Midnight, Crash, Restart, shared,
           locals, files, callers, history
  <2>2. search' = search \/ (search'.day = 0 /\ search'.found = <<>>)
    BY DEF CountAtStart, SetAtStart, SearchEnd, DeinitBegin, DeinitEnd, InitRecordLib, IntervalPasses, Midnight, Crash, Restart, NoSearch,
           callers
  <2>3. bufs' = <<>> \/ UNCHANGED <<bufs, pc, wr>>
    BY DEF CountAtStart, SetAtStart, SearchEnd, DeinitBegin, DeinitEnd, InitRecordLib, IntervalPasses, Midnight, Crash, Restart, FreshSaver,
           locals
  <2>4. bufs' = <<>> \/ (bufs' = bufs /\ \A j \in DOMAIN bufs : Pending(j)' => Pending(j))
    BY <2>3 DEF Pending
  <2>5. today' = today \/ (today < MaxDay /\ today' = today + 1)
    BY DEF CountAtStart, SetAtStart, SearchEnd, DeinitBegin, DeinitEnd, InitRecordLib, IntervalPasses, Midnight, Crash, Restart, callers
  <2>6. today' \in Days /\ today <= today'
    BY <2>5, Constants, SMTT(30), Z3T(30) DEF TypeOK, CallersOK, Days
  <2> QED BY <2>1, <2>2, <2>4, <2>6, <1>SearchFrame
  (* What is below a number has no id from that number on.                   *)
<1>BelowIds. \A es, n : Below(es, n) => \A x \in IdsOf(es) : x < n
  BY DEF Below, IdsOf
  (* addRecord: the new record is younger than all that was found.           *)
<1>SearchAddRecord. ASSUME TypeOK, SearchInv, NEW size \in Sizes, AddRecord(size)
                    PROVE  SearchInv'
  <2> USE <1>SearchAddRecord
  <2> DEFINE r == [id |-> nextId, day |-> today, size |-> size]
  <2>1. /\ queue' = Append(queue, r) /\ r.id = nextId /\ r.day = today /\ nextId' = nextId + 1
        /\ UNCHANGED <<pc, wr, bufs, index, evicted, search, today>>
    BY DEF AddRecord, locals, files, history
  <2>2. r \in Record /\ queue \in Seq(Record) /\ nextId \in Int /\ today \in Int
    BY Constants, SMTT(30), Z3T(30) DEF AddRecord, TypeOK, SharedOK, CallersOK, Record, Ids, Days
  <2> HIDE DEF r
  <2>3. \A i \in DOMAIN queue' : (i \in DOMAIN queue /\ queue'[i] = queue[i]) \/ queue'[i] = r
    BY <2>1, <2>2, SMTT(30), Z3T(30)
  <2>4. FilesApart'
    BY <2>1 DEF SearchInv, ApartInv, FilesApart, IdsIn
  <2>5. BatchApart'
    BY <2>1 DEF SearchInv, ApartInv, BatchApart, IdsBuf, IdsIn, Found, Pending
  <2>6. FoundApart'
    <3>1. Before(search.found, queue')
      BY <2>1, <2>3 DEF SearchInv, ApartInv, FoundApart, Before, Below
    <3>2. \A i \in DOMAIN search.found : search.found[i].id \in Int
      <4>1. \A i \in DOMAIN search.found : search.found[i] \in Entry
        BY FoundType, SMTT(30), Z3T(30)
      <4> QED BY <4>1, SMTT(30), Z3T(30) DEF Entry, Ids
    <3>3. Below(search.found, nextId')
      BY <2>1, <2>2, <3>2, SMTT(30), Z3T(30) DEF SearchInv, ApartInv, FoundApart, Below
    <3> QED BY <2>1, <3>1, <3>3 DEF SearchInv, ApartInv, FoundApart, Found, IdsIn
  <2>7. DayCame'
    BY <2>1, <2>2, <2>3, SMTT(30), Z3T(30) DEF SearchInv, DayCame
  <2>8. AheadInv'
    BY <2>1 DEF SearchInv, AheadInv, Found, IdsIn
  <2> QED BY <2>4, <2>5, <2>6, <2>7, <2>8 DEF SearchInv, ApartInv
  (* One turn of the dequeue loop: the record is younger than all files, all *)
  (* buffers and all that was found.                                         *)
<1>SearchFillOne. ASSUME TypeOK, OrderInv, SearchInv, FillOne
                  PROVE  SearchInv'
  <2> USE <1>SearchFillOne
  <2> DEFINE r == Head(queue)
  <2>1. /\ pc = "fill" /\ queue' = Tail(queue) /\ bufs' = Buffered(r)
        /\ UNCHANGED <<pc, wr, index, nextId, evicted, search, today>>
    BY DEF FillOne, QueueAfterTake, files, callers, history
  <2>2. queue \in Seq(Record) /\ queue # <<>>
    BY SMTT(30), Z3T(30) DEF FillOne, TypeOK, SharedOK, SaverOK
  <2>3. r \in Record /\ r.day <= today
    BY <2>2, SMTT(30), Z3T(30) DEF SearchInv, DayCame
  <2>4. PICK k \in 1..(Len(bufs) + 1), b \in Buffer :
                /\ DOMAIN bufs' = DOMAIN bufs \cup {k}
                /\ bufs'[k] = AddTo(b, r) /\ b.day = r.day
                /\ \A j \in DOMAIN bufs : j # k => bufs'[j] = bufs[j]
                /\ \/ k \in DOMAIN bufs /\ b = bufs[k]
                   \/ k \notin DOMAIN bufs /\ b = NewBuffer(r.day) /\ \A j \in DOMAIN bufs : bufs[j].day # r.day
    BY <2>1, <2>3, BufferedShape
  <2>5. \A fs : Before(fs, queue) => Before(fs, queue') /\ Below(fs, r.id)
    BY <2>1, <2>2, TailOrder DEF OrderInv, QueueOrder
  <2>6. \A i \in DOMAIN queue' : i + 1 \in DOMAIN queue /\ queue'[i] = queue[i + 1]
    BY <2>1, <2>2, SMTT(30), Z3T(30)
  <2>7. r.id \in Int
    BY <2>3, SMTT(30), Z3T(30) DEF Record, Ids
  <2> HIDE DEF r
  <2>8. IdsOf(bufs'[k].entries) = IdsOf(b.entries) \cup {r.id} /\ bufs'[k].day = r.day
    <3>1. AddTo(b, r).day = b.day
      BY DEF AddTo, Buffer
    <3> QED BY <2>3, <2>4, <3>1, AddToIds
  <2>9. r.id \notin Found
    <3>1. \A x \in Found : x < r.id
      BY <2>5, <1>BelowIds DEF SearchInv, ApartInv, FoundApart, Found
    <3> QED BY <2>7, <3>1, SMTT(30), Z3T(30)
  <2>10. \A d \in Days : r.id \notin IdsIn(d)
    <3>1. \A d \in Days : \A x \in IdsIn(d) : x < r.id
      BY <2>5, <1>BelowIds DEF OrderInv, FileOrder, IdsIn
    <3> QED BY <2>7, <3>1, SMTT(30), Z3T(30)
  <2>11. \A j \in DOMAIN bufs : r.id \notin IdsBuf(j)
    <3>1. \A j \in DOMAIN bufs : \A x \in IdsBuf(j) : x < r.id
      BY <2>5, <1>BelowIds DEF OrderInv, BufferOrder, IdsBuf
    <3> QED BY <2>7, <3>1, SMTT(30), Z3T(30)
  <2>12. (k \in DOMAIN bufs /\ IdsOf(b.entries) = IdsBuf(k)) \/ (k \notin DOMAIN bufs /\ IdsOf(b.entries) = {})
    <3>1. NewBuffer(r.day).entries = <<>> /\ IdsOf(<<>>) = {}
      BY SMTT(30), Z3T(30) DEF NewBuffer, IdsOf
    <3> QED BY <2>4, <3>1, ZenonT(60) DEF IdsBuf
  <2>13. \A j \in DOMAIN bufs : Pending(j)
    BY <2>1 DEF Pending
  <2>14. FilesApart'
    BY <2>1 DEF SearchInv, ApartInv, FilesApart, IdsIn
  <2>15. BatchApart'
    <3>1. \A j \in DOMAIN bufs : j # k => IdsOf(bufs'[j].entries) = IdsBuf(j)
      BY <2>4 DEF IdsBuf
    <3>2. \A i, j \in DOMAIN bufs' : i # j => IdsOf(bufs'[i].entries) \cap IdsOf(bufs'[j].entries) = {}
      <4>1. \A j \in DOMAIN bufs : j # k => IdsOf(bufs'[k].entries) \cap IdsOf(bufs'[j].entries) = {}
        BY <2>8, <2>11, <2>12, <3>1, SMTT(30), Z3T(30) DEF SearchInv, ApartInv, BatchApart
      <4>2. \A i, j \in DOMAIN bufs : i # k /\ j # k /\ i # j
                                      => IdsOf(bufs'[i].entries) \cap IdsOf(bufs'[j].entries) = {}
        BY <3>1 DEF SearchInv, ApartInv, BatchApart
      <4> QED BY <2>4, <4>1, <4>2, ZenonT(60)
    <3>3. /\ IdsOf(bufs'[k].entries) \cap Found = {}
          /\ \A d \in Days : IdsOf(bufs'[k].entries) \cap IdsIn(d) = {}
      BY <2>8, <2>9, <2>10, <2>12, <2>13 DEF SearchInv, ApartInv, BatchApart
    <3>4. \A j \in DOMAIN bufs : j # k => /\ IdsOf(bufs'[j].entries) \cap Found = {}
                                          /\ \A d \in Days : IdsOf(bufs'[j].entries) \cap IdsIn(d) = {}
      BY <2>13, <3>1 DEF SearchInv, ApartInv, BatchApart
    <3>5. Found' = Found /\ \A d \in Days : IdsOf(index'[d].entries) = IdsIn(d)
      BY <2>1 DEF Found, IdsIn
    <3> QED BY <2>4, <3>2, <3>3, <3>4, <3>5 DEF BatchApart, IdsBuf, IdsIn
  <2>16. FoundApart'
    BY <2>1, <2>5 DEF SearchInv, ApartInv, FoundApart, Found, IdsIn
  <2>17. DayCame'
    <3>1. \A j \in DOMAIN bufs' : bufs'[j].day <= today
      BY <2>3, <2>4, <2>8 DEF SearchInv, DayCame
    <3> QED BY <2>1, <2>6, <3>1 DEF SearchInv, DayCame
  <2>18. AheadInv'
    BY <2>1 DEF SearchInv, AheadInv, Found, IdsIn
  <2> QED BY <2>14, <2>15, <2>16, <2>17, <2>18 DEF SearchInv, ApartInv
  (* A failed step takes a record out of the queue; the batch is not written *)
  (* any more.                                                               *)
<1>SearchFillFails. ASSUME TypeOK, OrderInv, SearchInv, FillFails
                    PROVE  SearchInv'
  <2> USE <1>SearchFillFails
  <2>1. /\ pc' = "error" /\ queue' = Tail(queue) /\ UNCHANGED <<bufs, index, nextId, evicted, search, today>>
    BY DEF FillFails, At, QueueAfterTake, files, callers, history
  <2>2. queue \in Seq(Record) /\ queue # <<>>
    BY SMTT(30), Z3T(30) DEF FillFails, TypeOK, SharedOK, SaverOK
  <2>3. \A fs : Before(fs, queue) => Before(fs, queue')
    BY <2>1, <2>2, TailOrder DEF OrderInv, QueueOrder
  <2>4. \A i \in DOMAIN queue' : i + 1 \in DOMAIN queue /\ queue'[i] = queue[i + 1]
    BY <2>1, <2>2, SMTT(30), Z3T(30)
  <2>5. FilesApart'
    BY <2>1 DEF SearchInv, ApartInv, FilesApart, IdsIn
  <2>6. BatchApart'
    BY <2>1 DEF SearchInv, ApartInv, BatchApart, IdsBuf, Pending
  <2>7. FoundApart'
    BY <2>1, <2>3 DEF SearchInv, ApartInv, FoundApart, Found, IdsIn
  <2>8. DayCame'
    BY <2>1, <2>4 DEF SearchInv, DayCame
  <2>9. AheadInv'
    BY <2>1 DEF SearchInv, AheadInv, Found, IdsIn
  <2> QED BY <2>5, <2>6, <2>7, <2>8, <2>9 DEF SearchInv, ApartInv
  (* The ids behind two sequences in a row are the ids of the two.           *)
<1>IdsOfBoth. ASSUME NEW S, NEW es \in Seq(S), NEW fs \in Seq(S)
              PROVE  /\ IdsOf(es \o fs) = IdsOf(es) \cup IdsOf(fs)
                     /\ Distinct(es) /\ Distinct(fs) /\ IdsOf(es) \cap IdsOf(fs) = {} => Distinct(es \o fs)
  <2> USE <1>IdsOfBoth
  <2> DEFINE cat == es \o fs
  <2>1. SubSeq(fs, 1, Len(fs)) = fs
    BY SMTT(30), Z3T(30)
  <2>2. IdsOf(cat) = IdsOf(es) \cup IdsOf(fs)
    <3>1. IdsOf(es \o SubSeq(fs, 1, Len(fs))) = IdsOf(es) \cup IdsOf(fs)
      BY IdsConcat, SMTT(30), Z3T(30)
    <3> QED BY <2>1, <3>1
  <2>3. /\ DOMAIN cat = 1..(Len(es) + Len(fs)) /\ DOMAIN es = 1..Len(es) /\ DOMAIN fs = 1..Len(fs)
        /\ Len(es) \in Nat /\ Len(fs) \in Nat
        /\ \A i \in DOMAIN es : cat[i] = es[i]
        /\ \A i \in DOMAIN fs : cat[Len(es) + i] = fs[i]
    BY SMTT(30), Z3T(30)
  <2> HIDE DEF cat
  <2>4. \A i \in DOMAIN cat : \/ i \in DOMAIN es /\ cat[i] = es[i]
                              \/ i \notin DOMAIN es /\ i - Len(es) \in DOMAIN fs /\ cat[i] = fs[i - Len(es)]
    BY <2>3, SMTT(30), Z3T(30)
  <2>5. ASSUME Distinct(es), Distinct(fs), IdsOf(es) \cap IdsOf(fs) = {} PROVE Distinct(cat)
    <3> SUFFICES ASSUME NEW i \in DOMAIN cat, NEW j \in DOMAIN cat, i # j PROVE cat[i].id # cat[j].id
      BY DEF Distinct
    <3>1. \A x \in DOMAIN es : es[x].id \in IdsOf(es)
      BY DEF IdsOf
    <3>2. \A x \in DOMAIN fs : fs[x].id \in IdsOf(fs)
      BY DEF IdsOf
    <3>3. i - Len(es) # j - Len(es)
      BY <2>3, SMTT(30), Z3T(30)
    <3> QED BY <2>4, <2>5, <3>1, <3>2, <3>3 DEF Distinct
  <2> QED BY <2>2, <2>5 DEF cat
  (* A prefix of a buffer brings no other ids into the file.                 *)
<1>IdsPrefix. ASSUME NEW S, NEW fs \in Seq(S), NEW n \in 0..Len(fs)
              PROVE  SubSeq(fs, 1, n) \in Seq(S) /\ IdsOf(SubSeq(fs, 1, n)) \subseteq IdsOf(fs)
  <2> USE <1>IdsPrefix
  <2>1. SubSeq(fs, 1, n) \in Seq(S)
    BY SMTT(30), Z3T(30)
  <2>2. \A i \in DOMAIN SubSeq(fs, 1, n) : i \in DOMAIN fs /\ SubSeq(fs, 1, n)[i] = fs[i]
    BY SMTT(30), Z3T(30)
  <2> QED BY <2>1, <2>2 DEF IdsOf
  (* A prefix of buffer wr goes behind the entries of its day's file: the    *)
  (* ids leave the batch for the one file they were meant for.               *)
<1>SearchAppendIndex. ASSUME TypeOK, OrderInv, SearchInv, pc = "index",
                             NEW n \in 0..Len(bufs[wr].entries), NEW partial \in BOOLEAN,
                             index' = [index EXCEPT ![bufs[wr].day] = AppendIndex(@, bufs[wr], n, partial)],
                             UNCHANGED <<queue, nextId, bufs, search, today, evicted>>,
                             \/ pc' = "pic" /\ wr' = wr + 1
                             \/ pc' = "error"
                      PROVE  SearchInv'
  <2> USE <1>SearchAppendIndex
  <2> DEFINE d == bufs[wr].day
             es == index[d].entries
             fs == bufs[wr].entries
  <2>1. wr \in DOMAIN bufs /\ bufs[wr] \in Buffer /\ wr \in Nat
    BY SMTT(30), Z3T(30) DEF TypeOK, SaverOK
  <2>2. d \in Days /\ fs \in Seq(Entry)
    BY <2>1 DEF Buffer
  <2>3. index[d] \in IndexFile /\ DOMAIN index = Days
    BY <2>2 DEF TypeOK, FilesOK
  <2>4. es \in Seq(Entry)
    BY <2>3 DEF IndexFile
  <2>5. \A x \in Days \ {d} : index'[x] = index[x]
    BY <2>3
  <2>6. index'[d].entries = es \/ index'[d].entries = es \o SubSeq(fs, 1, n)
    BY <2>2, <2>3, ZenonT(60) DEF AppendIndex
  <2>7. d <= today /\ d \in Int /\ today \in Int
    BY <2>1, <2>2, Constants, SMTT(30), Z3T(30) DEF SearchInv, DayCame, Days, TypeOK, CallersOK
  <2>8. IdsOf(es) = IdsIn(d) /\ IdsOf(fs) = IdsBuf(wr)
    BY DEF IdsIn, IdsBuf
  <2>9. n \in 0..Len(fs)
    OBVIOUS
  <2> HIDE DEF d, es, fs
  <2>10. IdsIn(d) \subseteq IdsOf(index'[d].entries) /\ IdsOf(index'[d].entries) \subseteq IdsIn(d) \cup IdsBuf(wr)
    <3> DEFINE part == SubSeq(fs, 1, n)
    <3>1. part \in Seq(Entry) /\ IdsOf(part) \subseteq IdsOf(fs)
      BY <2>2, <2>9, <1>IdsPrefix
    <3>2. index'[d].entries = es \/ index'[d].entries = es \o part
      BY <2>6
    <3> HIDE DEF part
    <3>3. IdsOf(es \o part) = IdsOf(es) \cup IdsOf(part)
      BY <2>4, <3>1, <1>IdsOfBoth, SMTT(30), Z3T(30)
    <3> QED BY <2>8, <3>1, <3>2, <3>3
  <2>11. \A x \in Days \ {d} : IdsOf(index'[x].entries) = IdsIn(x)
    BY <2>5 DEF IdsIn
  <2>12. Pending(wr) /\ \A j \in DOMAIN bufs : Pending(j)' => Pending(j) /\ j # wr
    <3>1. DOMAIN bufs \subseteq Nat
      BY SMTT(30), Z3T(30) DEF TypeOK, SaverOK
    <3> QED BY <2>1, <3>1, SMTT(30), Z3T(30) DEF Pending
  <2>13. FilesApart'
    <3>1. \A x \in Days : x # d => IdsIn(x) \cap IdsOf(index'[d].entries) = {}
      BY <2>1, <2>2, <2>10, <2>12 DEF SearchInv, ApartInv, FilesApart, BatchApart
    <3>2. \A x, y \in Days : x # y => IdsOf(index'[x].entries) \cap IdsOf(index'[y].entries) = {}
      BY <2>11, <3>1, ZenonT(60) DEF SearchInv, ApartInv, FilesApart
    <3> QED BY <3>2 DEF FilesApart, IdsIn
  <2>14. BatchApart'
    <3>1. \A j \in DOMAIN bufs : Pending(j)' => IdsBuf(j) \cap IdsOf(index'[d].entries) = {}
      BY <2>1, <2>2, <2>10, <2>12 DEF SearchInv, ApartInv, BatchApart
    <3>2. \A j \in DOMAIN bufs : Pending(j)' => \A x \in Days : IdsBuf(j) \cap IdsOf(index'[x].entries) = {}
      BY <2>11, <2>12, <3>1 DEF SearchInv, ApartInv, BatchApart
    <3> QED BY <2>12, <3>2 DEF SearchInv, ApartInv, BatchApart, IdsBuf, IdsIn, Found
  <2>15. FoundApart'
    <3>1. \A x \in Days : x >= search.day => Found \cap IdsOf(index'[x].entries) = {}
      BY <2>1, <2>2, <2>10, <2>11, <2>12, ZenonT(60) DEF SearchInv, ApartInv, FoundApart, BatchApart
    <3> QED BY <3>1 DEF SearchInv, ApartInv, FoundApart, Found, IdsIn
  <2>16. DayCame'
    BY <2>5, <2>7, SMTT(30), Z3T(30) DEF SearchInv, DayCame
  <2>17. AheadInv'
    <3>1. \A x \in Days : IdsIn(x) \subseteq IdsOf(index'[x].entries)
      BY <2>10, <2>11
    <3> QED BY <3>1 DEF SearchInv, AheadInv, Found, IdsIn
  <2> QED BY <2>13, <2>14, <2>15, <2>16, <2>17, ZenonT(60) DEF SearchInv, ApartInv
  (* The two outcomes of an index write.                                     *)
<1>SearchWriteIndex. ASSUME TypeOK, OrderInv, SearchInv, WriteIndex \/ WriteIndexFails
                     PROVE  SearchInv'
  <2> USE <1>SearchWriteIndex
  <2>1. /\ pc = "index" /\ UNCHANGED <<queue, nextId, bufs, search, today, evicted>>
        /\ (pc' = "pic" /\ wr' = wr + 1) \/ pc' = "error"
    BY DEF WriteIndex, WriteIndexFails, At, shared, locals, callers, history
  <2>2. wr \in DOMAIN bufs /\ bufs[wr] \in Buffer
    BY <2>1, SMTT(30), Z3T(30) DEF TypeOK, SaverOK
  <2>3. IndexOffset(bufs[wr]) = Len(bufs[wr].entries) /\ Len(bufs[wr].entries) \in Nat
    BY <2>2, SMTT(30), Z3T(30) DEF Buffer, IndexOffset
  <2>4. CASE UNCHANGED index /\ pc' = "error"
    <3>1. today' \in Days /\ today <= today'
      BY <2>1, SMTT(30), Z3T(30) DEF TypeOK, CallersOK, Days
    <3>2. \A j \in DOMAIN bufs : ~Pending(j)'
      BY <2>4 DEF Pending
    <3> QED BY <2>1, <2>4, <3>1, <3>2, <1>SearchFrame, ZenonT(60)
  <2>5. CASE \E n \in 0..Len(bufs[wr].entries), partial \in BOOLEAN :
                index' = [index EXCEPT ![bufs[wr].day] = AppendIndex(@, bufs[wr], n, partial)]
    BY <2>1, <2>5, <1>SearchAppendIndex
  <2>6. CASE WriteIndex
    <3>1. index' = [index EXCEPT ![bufs[wr].day] = AppendIndex(@, bufs[wr], Len(bufs[wr].entries), FALSE)]
      BY <2>3, <2>6 DEF WriteIndex
    <3>2. Len(bufs[wr].entries) \in 0..Len(bufs[wr].entries)
      BY <2>3, SMTT(30), Z3T(30)
    <3> QED BY <2>5, <3>1, <3>2
  <2>7. CASE WriteIndexFails
    <3>1. pc' = "error"
      BY <2>7 DEF WriteIndexFails, At
    <3>2. \A n : n \in 0..(IndexOffset(bufs[wr]) - 1) => n \in 0..Len(bufs[wr].entries)
      BY <2>3, SMTT(30), Z3T(30)
    <3> QED BY <2>4, <2>5, <2>7, <3>1, <3>2 DEF WriteIndexFails
  <2> QED BY <2>6, <2>7
  (* The clean-up takes the oldest index file away and its ids with it.      *)
<1>SearchDelOldIndex.
      ASSUME TypeOK, OrderInv, SearchInv, NEW here, NEW there, here \in {"sdDelIndex", "flashDelIndex"},
             DelOldIndex(here, there)
      PROVE  SearchInv'
  <2> USE <1>SearchDelOldIndex
  <2>1. pc = here /\ UNCHANGED <<queue, bufs, nextId, search, today>>
    BY DEF DelOldIndex, At, locals, callers
  <2>2. bufs' = <<>>
    BY <2>1 DEF OrderInv, BufferOrder
  <2>3. CASE UNCHANGED <<index, evicted>>
    <3>1. today' \in Days /\ today <= today'
      BY <2>1, SMTT(30), Z3T(30) DEF TypeOK, CallersOK, Days
    <3> QED BY <2>1, <2>2, <2>3, <3>1, <1>SearchFrame
  <2>4. ASSUME NEW o \in OldFile(index), index' = [index EXCEPT ![o] = NoIndex],
               evicted' = evicted \cup IdsOf(index[o].entries)
        PROVE  SearchInv'
    <3>1. o \in Days
      BY OldFileFacts
    <3>2. index' = [index EXCEPT ![o] = NoIndex] /\ evicted' = evicted \cup IdsIn(o)
      BY <2>4 DEF IdsIn
    <3>3. DOMAIN index = Days
      BY DEF TypeOK, FilesOK
    <3>4. index'[o].entries = <<>> /\ \A x \in Days \ {o} : index'[x] = index[x]
      BY <3>1, <3>2, <3>3, ZenonT(60) DEF NoIndex
    <3>5. IdsOf(<<>>) = {}
      BY SMTT(30), Z3T(30) DEF IdsOf
    <3>6. IdsOf(index'[o].entries) = {} /\ \A x \in Days \ {o} : IdsOf(index'[x].entries) = IdsIn(x)
      BY <3>4, <3>5 DEF IdsIn
    <3>7. FilesApart'
      <4>1. \A x, y \in Days : x # y => IdsOf(index'[x].entries) \cap IdsOf(index'[y].entries) = {}
        BY <3>6 DEF SearchInv, ApartInv, FilesApart
      <4> QED BY <4>1 DEF FilesApart, IdsIn
    <3>8. BatchApart'
      BY <2>2, SMTT(30), Z3T(30) DEF BatchApart
    <3>9. FoundApart'
      <4>1. \A x \in Days : x >= search.day => Found \cap IdsOf(index'[x].entries) = {}
        BY <3>6 DEF SearchInv, ApartInv, FoundApart
      <4> QED BY <2>1, <4>1 DEF SearchInv, ApartInv, FoundApart, Found, IdsIn
    <3>10. DayCame'
      BY <2>1, <3>4 DEF SearchInv, DayCame
    <3>11. AheadInv'
      <4> SUFFICES ASSUME search.day > 0, NEW x \in search.saved
                   PROVE  \/ x \in Found \cup evicted'
                          \/ \E d \in Days : d >= search.day /\ d <= search.end /\ x \in IdsOf(index'[d].entries)
        BY <2>1 DEF AheadInv, Found, IdsIn
      <4>1. CASE x \in Found \cup evicted
        BY <3>2, <4>1
      <4>2. CASE \E d \in Days : d >= search.day /\ d <= search.end /\ x \in IdsIn(d)
        BY <3>2, <3>6, <4>2
      <4> QED BY <4>1, <4>2 DEF SearchInv, AheadInv
    <3> QED BY <3>7, <3>8, <3>9, <3>10, <3>11 DEF SearchInv, ApartInv
  <2> QED BY <2>3, <2>4 DEF DelOldIndex
  (* A search begins with nothing found and every file ahead.                *)
<1>SearchBegins. ASSUME TypeOK, SearchInv, SearchBegin
                 PROVE  SearchInv'
  <2> USE <1>SearchBegins
  <2>1. /\ search'.day = 1 /\ search'.end = today /\ search'.found = <<>> /\ search'.saved = OnDisk
        /\ UNCHANGED <<queue, nextId, bufs, index, evicted, today, pc, wr>>
    BY DEF SearchBegin, locals, files, history
  <2>2. IdsOf(<<>>) = {} /\ Distinct(<<>>)
    BY SMTT(30), Z3T(30) DEF IdsOf, Distinct
  <2>3. Days \subseteq Nat \ {0} /\ today \in Nat
    BY Constants, SMTT(30), Z3T(30) DEF Days, TypeOK, CallersOK
  <2>4. FilesApart'
    BY <2>1 DEF SearchInv, ApartInv, FilesApart, IdsIn
  <2>5. BatchApart'
    <3>1. Found' = {}
      BY <2>1, <2>2 DEF Found
    <3> QED BY <2>1, <3>1 DEF SearchInv, ApartInv, BatchApart, IdsBuf, IdsIn, Pending
  <2>6. FoundApart'
    BY <2>1, <2>2, EmptyOrder DEF FoundApart, Found
  <2>7. DayCame'
    BY <2>1 DEF SearchInv, DayCame
  <2>8. AheadInv'
    <3>1. ASSUME NEW x \in OnDisk PROVE \E d \in Days : d >= 1 /\ d <= today /\ x \in IdsIn(d)
      <4>1. PICK d \in Days : x \in IdsIn(d)
        BY DEF OnDisk, IdsIn
      <4>2. ~(d > today)
        BY <2>2, <4>1, ZenonT(60) DEF SearchInv, DayCame, IdsIn
      <4> QED BY <2>3, <4>1, <4>2, SMTT(30), Z3T(30)
    <3> QED BY <2>1, <3>1 DEF AheadInv, IdsIn
  <2> QED BY <2>4, <2>5, <2>6, <2>7, <2>8 DEF SearchInv, ApartInv
  (* One day's file is read: what was ahead in it is found, and it is in no  *)
  (* file still to be read.                                                  *)
<1>SearchReadsDay. ASSUME TypeOK, OrderInv, SearchInv, SearchDay
                   PROVE  SearchInv'
  <2> USE <1>SearchReadsDay
  <2> DEFINE d == search.day
             es == search.found
             fs == index[d].entries
  <2>1. /\ search'.day = d + 1 /\ search'.end = search.end /\ search'.found = es \o fs
        /\ search'.saved = search.saved
        /\ UNCHANGED <<queue, nextId, bufs, index, evicted, today, pc, wr>>
    BY DEF SearchDay, TimeToNextDay, TypeOK, CallersOK, shared, locals, files, history
  <2>2. d \in 1..search.end /\ search.end \in 0..MaxDay /\ es \in Seq(Entry)
    BY FoundType DEF SearchDay
  <2>3. d \in Days /\ Days \subseteq Nat \ {0} /\ search.end \in Nat
    BY <2>2, Constants, SMTT(30), Z3T(30) DEF Days
  <2>4. index[d] \in IndexFile
    BY <2>3 DEF TypeOK, FilesOK
  <2>5. fs \in Seq(Entry) /\ Increasing(fs) /\ Before(fs, queue) /\ Below(fs, nextId)
    BY <2>3, <2>4 DEF IndexFile, OrderInv, FileOrder
  <2>6. /\ Distinct(es) /\ Before(es, queue) /\ Below(es, nextId)
        /\ \A x \in Days : x >= d => Found \cap IdsIn(x) = {}
    BY DEF SearchInv, ApartInv, FoundApart
  <2>7. Found = IdsOf(es) /\ IdsIn(d) = IdsOf(fs) /\ Found' = IdsOf(es \o fs)
    BY <2>1 DEF Found, IdsIn
  <2> HIDE DEF d, es, fs
  <2>8. Found' = Found \cup IdsIn(d)
    BY <2>2, <2>5, <2>7, <1>IdsOfBoth, SMTT(30), Z3T(30)
  <2>9. Distinct(es \o fs)
    <3>1. Distinct(fs)
      <4>1. \A i \in DOMAIN fs : fs[i].id \in Int
        <5>1. \A i \in DOMAIN fs : fs[i] \in Entry
          BY <2>5, SMTT(30), Z3T(30)
        <5> QED BY <5>1, SMTT(30), Z3T(30) DEF Entry, Ids
      <4>2. \A i, j \in DOMAIN fs : i # j => i < j \/ j < i
        BY <2>5, SMTT(30), Z3T(30)
      <4> QED BY <2>5, <4>1, <4>2, SMTT(30), Z3T(30) DEF Distinct, Increasing
    <3>2. IdsOf(es) \cap IdsOf(fs) = {}
      <4>1. d >= d
        BY <2>3, SMTT(30), Z3T(30)
      <4> QED BY <2>3, <2>6, <2>7, <4>1
    <3> QED BY <2>2, <2>5, <2>6, <3>1, <3>2, <1>IdsOfBoth, ZenonT(60)
  <2>10. Before(es \o fs, queue) /\ Below(es \o fs, nextId)
    <3> DEFINE cat == es \o fs
    <3>1. \A i \in DOMAIN cat : \/ i \in DOMAIN es /\ cat[i] = es[i]
                                \/ i - Len(es) \in DOMAIN fs /\ cat[i] = fs[i - Len(es)]
      BY <2>2, <2>5, SMTT(30), Z3T(30)
    <3> HIDE DEF cat
    <3>2. Before(cat, queue) /\ Below(cat, nextId)
      BY <2>5, <2>6, <3>1 DEF Before, Below
    <3> QED BY <3>2 DEF cat
  <2>11. FilesApart'
    BY <2>1 DEF SearchInv, ApartInv, FilesApart, IdsIn
  <2>12. BatchApart'
    <3>1. \A j \in DOMAIN bufs : Pending(j) => IdsBuf(j) \cap Found' = {}
      BY <2>3, <2>8 DEF SearchInv, ApartInv, BatchApart
    <3> QED BY <2>1, <3>1 DEF SearchInv, ApartInv, BatchApart, IdsBuf, IdsIn, Pending
  <2>13. FoundApart'
    <3>1. \A x \in Days : x >= d + 1 => x >= d /\ x # d
      BY <2>3, SMTT(30), Z3T(30)
    <3>2. \A x \in Days : x >= d + 1 => Found' \cap IdsIn(x) = {}
      BY <2>3, <2>6, <2>8, <3>1 DEF SearchInv, ApartInv, FilesApart
    <3>3. d + 1 # 0
      BY <2>3, SMTT(30), Z3T(30)
    <3> QED BY <2>1, <2>9, <2>10, <3>2, <3>3 DEF FoundApart, IdsIn
  <2>14. DayCame'
    BY <2>1 DEF SearchInv, DayCame
  <2>15. AheadInv'
    <3>1. d > 0 /\ \A x \in Days : x >= d => x = d \/ x >= d + 1
      BY <2>3, SMTT(30), Z3T(30)
    <3>2. ASSUME NEW y \in search.saved
          PROVE  \/ y \in Found' \cup evicted
                 \/ \E x \in Days : x >= d + 1 /\ x <= search.end /\ y \in IdsIn(x)
      <4>1. \/ y \in Found \cup evicted
            \/ \E x \in Days : x >= d /\ x <= search.end /\ y \in IdsIn(x)
        BY <3>1 DEF SearchInv, AheadInv, d
      <4> QED BY <2>8, <3>1, <4>1
    <3> QED BY <2>1, <3>2 DEF AheadInv, IdsIn
  <2> QED BY <2>11, <2>12, <2>13, <2>14, <2>15 DEF SearchInv, ApartInv
<1> SUFFICES ASSUME TypeOK, OrderInv, SearchInv, [Next]_vars PROVE SearchInv'
  OBVIOUS
<1>1. CASE UNCHANGED vars
  <2>1. UNCHANGED <<index, nextId, evicted, queue, bufs, pc, wr, search, today>>
    BY <1>1 DEF vars, shared, locals, files, callers, history
  <2>2. today' \in Days /\ today <= today' /\ \A j \in DOMAIN bufs : Pending(j)' => Pending(j)
    BY <2>1, SMTT(30), Z3T(30) DEF TypeOK, CallersOK, Days, Pending
  <2> QED BY <2>1, <2>2, <1>SearchFrame
<1>2. CASE Saver
  <2>1. CASE CheckCapacity
    BY <2>1, <1>SearchQuietSaver, <1>SearchDelOldIndex, SMTT(30), Z3T(30) DEF CheckCapacity, CleanUpFails
  <2> QED BY <1>2, <2>1, <1>SearchQuietSaver, <1>SearchBatch, <1>SearchFillOne, <1>SearchFillFails, <1>SearchWriteIndex DEF Saver
<1>3. CASE \E size \in Sizes : AddRecord(size)
  BY <1>3, <1>SearchAddRecord
<1> QED BY <1>1, <1>2, <1>3, <1>SearchBegins, <1>SearchReadsDay, <1>SearchCallers DEF Next

-----------------------------------------------------------------------------
(***************************************************************************)
(* TodayPhotosIntact, IndexedPhotoIsOwn and FilesOnlyGrow for every value  *)
(* of the constants.                                                       *)
(*                                                                         *)
(* An index entry is made long before its photo is written, from the       *)
(* length the photo file had when the batch was begun.  PhotoInv follows   *)
(* an entry from there: the place of the photo in its buffer, the length   *)
(* of the file until that buffer is written, the photo in the file when    *)
(* the entry follows.  For the days before today it also relates the two   *)
(* directories, which the clean-up visits one after the other.             *)
(***************************************************************************)

PhotoOf(e) == [id |-> e.id, addr |-> e.addr, size |-> e.size]
Covered(es, recs) == \A i \in DOMAIN es : PhotoOf(es[i]) \in recs

\* The photos of buffer j are still to be written.
Unwritten(j) == pc = "fill" \/ (pc = "pic" /\ j >= wr) \/ (pc = "index" /\ j > wr)

\* The entries of a buffer lead to the places of their photos in it.
Placed(b) ==
    \A i \in DOMAIN b.entries : \E p \in b.photos :
        /\ p.id = b.entries[i].id /\ p.size = b.entries[i].size
        /\ b.entries[i].addr = b.startAddr + p.addr
        /\ p.addr + p.size <= b.off

BatchInv ==
    /\ \A j \in DOMAIN bufs : Placed(bufs[j])
    /\ \A j \in DOMAIN bufs : Unwritten(j) => bufs[j].startAddr = pic[bufs[j].day].len
    /\ pc = "index" => /\ pic[bufs[wr].day].present
                       /\ Covered(bufs[wr].entries, pic[bufs[wr].day].recs)

FileShape ==
    \A d \in Days : /\ ~pic[d].present => pic[d].len = 0
                    /\ ~index[d].present => index[d].entries = <<>>

\* Day d has lost its photos and is the next to lose its index.
HalfDeleted(d) ==
    /\ pc \in {"sdDelIndex", "flashDelIndex"} /\ d < today
    /\ \A x \in Days : index[x].present => d <= x

DayInv ==
    /\ \A d \in Days : d >= today => Covered(index[d].entries, pic[d].recs)
    /\ crashes = 0 /\ undeleted = 0 => \A d \in Days : index[d].present =>
          (pic[d].present /\ Covered(index[d].entries, pic[d].recs)) \/ HalfDeleted(d)

PhotoInv == BatchInv /\ FileShape /\ DayInv
-----------------------------------------------------------------------------
(* Buffers and files.                                                      *)

(* Appending to a photo file keeps the photos in it; a complete write at   *)
(* the place the entries were made for puts their photos there.            *)
LEMMA AppendPicCovers ==
    ASSUME NEW f \in PicFile, NEW b \in Buffer, NEW n \in Nat
    PROVE  /\ AppendPic(f, b, n).present /\ f.recs \subseteq AppendPic(f, b, n).recs
           /\ AppendPic(f, b, n).len = f.len + n
           /\ Placed(b) /\ b.startAddr = f.len => Covered(b.entries, AppendPic(f, b, b.off).recs)
<1> DEFINE At0(p) == [p EXCEPT !.addr = f.len + @]
<1>1. AppendPic(f, b, n).present /\ f.recs \subseteq AppendPic(f, b, n).recs /\ AppendPic(f, b, n).len = f.len + n
  BY DEF AppendPic
<1>2. ASSUME Placed(b), b.startAddr = f.len PROVE Covered(b.entries, AppendPic(f, b, b.off).recs)
  <2> SUFFICES ASSUME NEW i \in DOMAIN b.entries
               PROVE  PhotoOf(b.entries[i]) \in AppendPic(f, b, b.off).recs
    BY DEF Covered
  <2>1. PICK p \in b.photos : /\ p.id = b.entries[i].id /\ p.size = b.entries[i].size
                              /\ b.entries[i].addr = b.startAddr + p.addr
                              /\ p.addr + p.size <= b.off
    BY <1>2 DEF Placed
  <2>2. p \in [id : Ids, addr : Nat, size : Sizes] /\ f.len \in Nat /\ b.off \in Nat
    BY DEF Buffer, Photo, PicFile
  <2>3. p.addr \in Nat /\ p.size \in Nat
    BY <2>2, Constants
  <2>4. At0(p) = PhotoOf(b.entries[i])
    BY <1>2, <2>1, <2>2, SMTT(30), Z3T(30) DEF PhotoOf
  <2>5. At0(p).addr = f.len + p.addr /\ At0(p).size = p.size
    BY <2>2
  <2>6. At0(p).addr + At0(p).size <= f.len + b.off
    BY <2>1, <2>2, <2>3, <2>5, SMTT(30), Z3T(30)
  <2>7. At0(p) \in AppendPic(f, b, b.off).recs
    BY <2>6 DEF AppendPic
  <2> QED BY <2>4, <2>7
<1> QED BY <1>1, <1>2

(* At the start there are no files and no buffers.                         *)
LEMMA PhotoInit == Init => PhotoInv
<1> SUFFICES ASSUME Init PROVE PhotoInv
  OBVIOUS
<1>1. \A d \in Days : index[d] = NoIndex /\ pic[d] = NoPic
  BY ZenonT(60) DEF Init
<1>2. \A d \in Days : ~index[d].present /\ index[d].entries = <<>> /\ ~pic[d].present /\ pic[d].len = 0
  BY <1>1, SMTT(30), Z3T(30) DEF NoIndex, NoPic
<1>3. bufs = <<>> /\ pc = "top"
  BY DEF Init
<1>4. BatchInv
  BY <1>3, SMTT(30), Z3T(30) DEF BatchInv
<1>5. FileShape
  BY <1>2, ZenonT(60) DEF FileShape
<1>6. DayInv
  BY <1>2, SMTT(30), Z3T(30) DEF DayInv, Covered
<1> QED BY <1>4, <1>5, <1>6 DEF PhotoInv

(* Every step of every thread keeps the invariant.                         *)
LEMMA PhotoNext == TypeOK /\ LockInv /\ OrderInv /\ PhotoInv /\ [Next]_vars => PhotoInv'
  (* A record added to a buffer lies behind the others, where its entry      *)
  (* says.                                                                   *)
<1>PlacedAddTo. ASSUME NEW b \in Buffer, NEW r \in Record, Placed(b)
                PROVE  Placed(AddTo(b, r)) /\ AddTo(b, r).startAddr = b.startAddr /\ AddTo(b, r).day = b.day
  <2> USE <1>PlacedAddTo
  <2> DEFINE e == [no |-> b.no, id |-> r.id, addr |-> AddrOfNext(b), size |-> r.size]
             q == [id |-> r.id, addr |-> b.off, size |-> r.size]
             c == AddTo(b, r)
  <2>1. /\ c.entries = Append(b.entries, e) /\ c.photos = b.photos \cup {q}
        /\ c.off = b.off + r.size /\ c.startAddr = b.startAddr /\ c.day = b.day
    BY ZenonT(60) DEF AddTo, Buffer
  <2>2. /\ b.entries \in Seq(Entry) /\ e \in Entry /\ b.off \in Nat /\ b.startAddr \in Nat
        /\ b.photos \subseteq Photo /\ r.size \in Nat
    BY Constants, SMTT(30), Z3T(30) DEF Buffer, Record, Entry, AddrOfNext
  <2>3. /\ q.id = e.id /\ q.size = e.size /\ q.addr = b.off /\ q.size = r.size
        /\ e.addr = b.startAddr + b.off
    BY ZenonT(60) DEF AddrOfNext
  <2> HIDE DEF e, q, c
  <2>4. Placed(c)
    <3> SUFFICES ASSUME NEW i \in DOMAIN c.entries
                 PROVE  \E p \in c.photos : /\ p.id = c.entries[i].id /\ p.size = c.entries[i].size
                                            /\ c.entries[i].addr = c.startAddr + p.addr
                                            /\ p.addr + p.size <= c.off
      BY DEF Placed
    <3>1. CASE c.entries[i] = e
      <4>1. q \in c.photos
        BY <2>1, ZenonT(60)
      <4>2. c.entries[i].addr = c.startAddr + q.addr /\ q.addr + q.size <= c.off
        BY <2>1, <2>2, <2>3, <3>1, SMTT(30), Z3T(30)
      <4>3. q.id = c.entries[i].id /\ q.size = c.entries[i].size
        BY <2>3, <3>1
      <4> QED BY <4>1, <4>2, <4>3
    <3>2. CASE i \in DOMAIN b.entries /\ c.entries[i] = b.entries[i]
      <4>1. PICK p \in b.photos : /\ p.id = b.entries[i].id /\ p.size = b.entries[i].size
                                  /\ b.entries[i].addr = b.startAddr + p.addr
                                  /\ p.addr + p.size <= b.off
        BY <3>2 DEF Placed
      <4>2. p.addr \in Nat /\ p.size \in Nat
        BY <2>2, Constants, ZenonT(60) DEF Photo
      <4>3. p \in c.photos /\ p.addr + p.size <= c.off
        BY <2>1, <2>2, <4>1, <4>2, SMTT(30), Z3T(30)
      <4> QED BY <2>1, <3>2, <4>1, <4>3
    <3> QED BY <2>1, <2>2, <3>1, <3>2, SMTT(30), Z3T(30)
  <2> QED BY <2>1, <2>4 DEF c
  (* A prefix of covered entries behind covered entries is covered.          *)
<1>CoveredConcat. ASSUME NEW S, NEW es \in Seq(S), NEW fs \in Seq(S), NEW n \in 0..Len(fs), NEW recs,
                         Covered(es, recs), Covered(fs, recs)
                  PROVE  Covered(es \o SubSeq(fs, 1, n), recs)
  <2> USE <1>CoveredConcat
  <2> DEFINE sub == SubSeq(fs, 1, n)
             cat == es \o sub
  <2>1. sub \in Seq(S) /\ Len(sub) = n /\ \A i \in 1..n : sub[i] = fs[i]
    BY SMTT(30), Z3T(30)
  <2>2. Len(es) \in Nat /\ Len(fs) \in Nat /\ n \in Nat /\ DOMAIN es = 1..Len(es) /\ DOMAIN fs = 1..Len(fs)
    BY SMTT(30), Z3T(30)
  <2>3. DOMAIN cat = 1..(Len(es) + n)
    BY <2>1, <2>2, SMTT(30), Z3T(30)
  <2>4. \A i \in DOMAIN cat : \/ i \in DOMAIN es /\ cat[i] = es[i]
                              \/ i - Len(es) \in DOMAIN fs /\ cat[i] = fs[i - Len(es)]
    BY <2>1, <2>2, <2>3, SMTT(30), Z3T(30)
  <2> HIDE DEF cat
  <2>5. Covered(cat, recs)
    BY <2>4 DEF Covered
  <2> QED BY <2>5 DEF cat
  (* A step that leaves the files alone, and the batch or drops it.          *)
<1>PhotoFrame. ASSUME TypeOK, PhotoInv, UNCHANGED <<pic, index>>,
                      \/ bufs' = <<>> /\ pc' # "index"
                      \/ /\ bufs' = bufs
                         /\ \A j \in DOMAIN bufs : Unwritten(j)' => Unwritten(j)
                         /\ pc' = "index" => pc = "index" /\ wr' = wr,
                      today' \in Days, today <= today',
                      crashes' = 0 /\ undeleted' = 0 =>
                         /\ crashes = 0 /\ undeleted = 0
                         /\ pc \in {"sdDelIndex", "flashDelIndex"} => pc' = pc
               PROVE  PhotoInv'
  <2> USE <1>PhotoFrame
  <2>1. BatchInv'
    <3>1. CASE bufs' = <<>> /\ pc' # "index"
      BY <3>1, SMTT(30), Z3T(30) DEF BatchInv
    <3>2. CASE /\ bufs' = bufs
               /\ \A j \in DOMAIN bufs : Unwritten(j)' => Unwritten(j)
               /\ pc' = "index" => pc = "index" /\ wr' = wr
      BY <3>2, ZenonT(60) DEF PhotoInv, BatchInv, Placed
    <3> QED BY <3>1, <3>2, ZenonT(60)
  <2>2. FileShape'
    BY DEF PhotoInv, FileShape
  <2>3. DayInv'
    <3>1. today \in Nat /\ today' \in Nat /\ Days \subseteq Nat
      BY Constants, SMTT(30), Z3T(30) DEF TypeOK, CallersOK, Days
    <3>2. \A d \in Days : d >= today' => d >= today
      BY <3>1, SMTT(30), Z3T(30)
    <3>3. \A d \in Days : d < today => d < today'
      BY <3>1, SMTT(30), Z3T(30)
    <3>4. crashes' = 0 /\ undeleted' = 0 => \A d \in Days : HalfDeleted(d) => HalfDeleted(d)'
      BY <3>3 DEF HalfDeleted
    <3> QED BY <3>2, <3>4 DEF PhotoInv, DayInv, Covered
  <2> QED BY <2>1, <2>2, <2>3 DEF PhotoInv
  (* The saver outside its batch.                                            *)
<1>PhotoQuietSaver. ASSUME TypeOK, OrderInv, PhotoInv,
                           \/ LoopTop \/ Stall \/ ReadFlag \/ CountQueue \/ EndRound \/ SaverExit
                           \/ CheckStorage("sdCheck", "sdDelPic", "flashCheck")
                           \/ CheckStorage("flashCheck", "flashDelPic", "guard")
                    PROVE  PhotoInv'
  <2> USE <1>PhotoQuietSaver
  <2>1. UNCHANGED <<pic, index, bufs, today, crashes, undeleted>>
    BY DEF LoopTop, Stall, ReadFlag, CountQueue, EndRound, SaverExit, CheckStorage, shared, locals, files,
           callers, budget, history
  <2>2. /\ pc \notin {"fill", "pic", "index", "error", "sdDelIndex", "flashDelIndex"}
        /\ pc' # "index"
    BY DEF LoopTop, Stall, ReadFlag, CountQueue, EndRound, SaverExit, CheckStorage, At
  <2>3. bufs' = <<>>
    BY <2>1, <2>2 DEF OrderInv, BufferOrder
  <2>4. today' \in Days /\ today <= today'
    BY <2>1, SMTT(30), Z3T(30) DEF TypeOK, CallersOK, Days
  <2> QED BY <2>1, <2>2, <2>3, <2>4, <1>PhotoFrame
  (* The batch before its first write, and its end on every path.            *)
<1>PhotoBatchEnds. ASSUME TypeOK, PhotoInv, BeginWrite \/ FillFails \/ EndWrite \/ BatchError
                   PROVE  PhotoInv'
  <2> USE <1>PhotoBatchEnds
  <2>1. UNCHANGED <<pic, index, today, crashes, undeleted>>
    BY DEF BeginWrite, FillFails, EndWrite, BatchError, Restart, files, callers, budget, history
  <2>2. /\ pc \notin {"sdDelIndex", "flashDelIndex"}
        /\ \/ bufs' = <<>> /\ pc' # "index"
           \/ bufs' = bufs /\ pc = "fill" /\ pc' \in {"pic", "error"}
    BY DEF BeginWrite, FillFails, EndWrite, BatchError, Restart, FreshSaver, At
  <2>3. today' \in Days /\ today <= today'
    BY <2>1, SMTT(30), Z3T(30) DEF TypeOK, CallersOK, Days
  <2>4. bufs' = bufs /\ pc = "fill" => \A j \in DOMAIN bufs : Unwritten(j)
    BY DEF Unwritten
  <2> QED BY <2>1, <2>2, <2>3, <2>4, <1>PhotoFrame
  (* Callers and environment.                                                *)
<1>PhotoCallers. ASSUME TypeOK, PhotoInv,
                        \/ \E size \in Sizes : AddRecord(size)
                        \/ CountAtStart \/ SetAtStart \/ SearchBegin \/ SearchDay \/ SearchEnd
                        \/ DeinitBegin \/ DeinitEnd \/ IntervalPasses \/ Midnight
                 PROVE  PhotoInv'
  <2> USE <1>PhotoCallers
  <2>1. UNCHANGED <<pic, index, bufs, pc, wr, crashes, undeleted>>
    BY DEF AddRecord, CountAtStart, SetAtStart, SearchBegin, SearchDay, SearchEnd, DeinitBegin, DeinitEnd, IntervalPasses, Midnight,
           shared, locals, files, budget, history
  <2>2. today' = today \/ (today < MaxDay /\ today' = today + 1)
    BY DEF AddRecord, CountAtStart, SetAtStart, SearchBegin, SearchDay, SearchEnd, DeinitBegin, DeinitEnd, IntervalPasses, Midnight, callers
  <2>3. today' \in Days /\ today <= today'
    BY <2>2, Constants, SMTT(30), Z3T(30) DEF TypeOK, CallersOK, Days
  <2>4. \A j \in DOMAIN bufs : Unwritten(j)' => Unwritten(j)
    BY <2>1 DEF Unwritten
  <2> QED BY <2>1, <2>3, <2>4, <1>PhotoFrame
  (* Power loss, and a second initialisation.                                *)
<1>PhotoRestarts. ASSUME TypeOK, LockInv, PhotoInv, Crash \/ InitRecordLib
                  PROVE  PhotoInv'
  <2> USE <1>PhotoRestarts
  <2>1. UNCHANGED <<pic, index, today>> /\ bufs' = <<>> /\ pc' = "top"
    BY DEF Crash, InitRecordLib, Restart, FreshSaver, files
  <2>2. crashes' = 0 /\ undeleted' = 0 => crashes = 0 /\ undeleted = 0 /\ pc = "gone"
    BY SMTT(30), Z3T(30) DEF Crash, InitRecordLib, LockInv, TypeOK, CallersOK
  <2>3. today' \in Days /\ today <= today'
    BY <2>1, SMTT(30), Z3T(30) DEF TypeOK, CallersOK, Days
  <2> QED BY <2>1, <2>2, <2>3, <1>PhotoFrame
  (* One turn of the dequeue loop: a new buffer is made for the length its   *)
  (* photo file has now.                                                     *)
<1>PhotoFillOne. ASSUME TypeOK, PhotoInv, FillOne
                 PROVE  PhotoInv'
  <2> USE <1>PhotoFillOne
  <2> DEFINE r == Head(queue)
  <2>1. /\ pc = "fill" /\ bufs' = Buffered(r) /\ UNCHANGED <<pc, wr, pic, index, today, crashes, undeleted>>
    BY ZenonT(60) DEF FillOne, files, callers, budget, history
  <2>2. queue \in Seq(Record) /\ queue # <<>>
    BY SMTT(30), Z3T(30) DEF FillOne, TypeOK, SharedOK, SaverOK
  <2>3. r \in Record
    BY <2>2, SMTT(30), Z3T(30)
  <2>4. PICK k \in 1..(Len(bufs) + 1), b \in Buffer :
                /\ DOMAIN bufs' = DOMAIN bufs \cup {k}
                /\ bufs'[k] = AddTo(b, r) /\ b.day = r.day
                /\ \A j \in DOMAIN bufs : j # k => bufs'[j] = bufs[j]
                /\ \/ k \in DOMAIN bufs /\ b = bufs[k]
                   \/ k \notin DOMAIN bufs /\ b = NewBuffer(r.day) /\ \A j \in DOMAIN bufs : bufs[j].day # r.day
    BY <2>1, <2>3, BufferedShape
  <2> HIDE DEF r
  <2>5. Placed(b) /\ b.startAddr = pic[b.day].len
    <3>1. CASE k \in DOMAIN bufs /\ b = bufs[k]
      BY <2>1, <3>1, ZenonT(60) DEF PhotoInv, BatchInv, Unwritten
    <3>2. CASE b = NewBuffer(r.day)
      <4>1. r.day \in Days
        BY <2>3 DEF Record
      <4>2. b.entries = <<>> /\ b.startAddr = PicSize(r.day)
        BY <3>2 DEF NewBuffer
      <4>3. PicSize(r.day) = pic[r.day].len
        BY <4>1 DEF PicSize, PhotoInv, FileShape
      <4> QED BY <2>4, <4>2, <4>3, SMTT(30), Z3T(30) DEF Placed
    <3> QED BY <2>4, <3>1, <3>2
  <2>6. Placed(bufs'[k]) /\ bufs'[k].startAddr = pic[bufs'[k].day].len
    BY <2>3, <2>4, <2>5, <1>PlacedAddTo, ZenonT(60)
  <2>7. \A j \in DOMAIN bufs' : Placed(bufs'[j]) /\ bufs'[j].startAddr = pic[bufs'[j].day].len
    BY <2>1, <2>4, <2>6, ZenonT(60) DEF PhotoInv, BatchInv, Unwritten
  <2>8. BatchInv'
    BY <2>1, <2>7 DEF BatchInv
  <2>9. FileShape'
    BY <2>1 DEF PhotoInv, FileShape
  <2>10. DayInv'
    BY <2>1 DEF PhotoInv, DayInv, Covered, HalfDeleted
  <2> QED BY <2>8, <2>9, <2>10 DEF PhotoInv
  (* A photo file grows, and its index stays behind it.                      *)
<1>PhotoGrows. ASSUME TypeOK, OrderInv, PhotoInv, pc = "pic", wr <= Len(bufs), NEW n \in Nat,
                      pic' = [pic EXCEPT ![bufs[wr].day] = AppendPic(@, bufs[wr], n)],
                      UNCHANGED <<bufs, wr, index, today, crashes, undeleted>>,
                      pc' = "error" \/ (pc' = "index" /\ n = bufs[wr].off)
               PROVE  PhotoInv'
  <2> USE <1>PhotoGrows
  <2> DEFINE b == bufs[wr]
             d == b.day
  <2>1. wr \in DOMAIN bufs /\ b \in Buffer /\ wr \in Nat
    BY SMTT(30), Z3T(30) DEF TypeOK, SaverOK
  <2>2. d \in Days
    BY <2>1 DEF Buffer
  <2>3. pic[d] \in PicFile /\ DOMAIN pic = Days
    BY <2>2 DEF TypeOK, FilesOK
  <2>4. pic'[d] = AppendPic(pic[d], b, n) /\ \A x \in Days \ {d} : pic'[x] = pic[x]
    BY <2>2, <2>3, ZenonT(60)
  <2>5. Placed(b) /\ b.startAddr = pic[d].len
    BY <2>1, SMTT(30), Z3T(30) DEF PhotoInv, BatchInv, Unwritten
  <2>6. \A j \in DOMAIN bufs : bufs[j].day = d => j = wr
    BY <2>1 DEF OrderInv, BufferOrder
  <2>7. \A j \in DOMAIN bufs : bufs[j].day \in Days
    <3>1. \A j \in DOMAIN bufs : bufs[j] \in Buffer
      BY SMTT(30), Z3T(30) DEF TypeOK, SaverOK
    <3> QED BY <3>1, ZenonT(60) DEF Buffer
  <2>8. pic'[d].present /\ pic[d].recs \subseteq pic'[d].recs
    BY <2>1, <2>3, <2>4, AppendPicCovers, ZenonT(60)
  <2>9. n = b.off => Covered(b.entries, pic'[d].recs)
    BY <2>1, <2>3, <2>4, <2>5, AppendPicCovers, ZenonT(60)
  <2> HIDE DEF b, d
  <2>10. BatchInv'
    <3>1. \A j \in DOMAIN bufs : Placed(bufs[j])
      BY DEF PhotoInv, BatchInv
    <3>2. ASSUME NEW j \in DOMAIN bufs, Unwritten(j)' PROVE bufs[j].startAddr = pic'[bufs[j].day].len
      <4>1. j \in Nat /\ j > wr
        BY <3>2, <2>1, SMTT(30), Z3T(30) DEF Unwritten, TypeOK, SaverOK
      <4>2. Unwritten(j) /\ j # wr
        BY <2>1, <4>1, SMTT(30), Z3T(30) DEF Unwritten
      <4> QED BY <2>4, <2>6, <2>7, <4>2, ZenonT(60) DEF PhotoInv, BatchInv
    <3>3. pc' = "index" => pic'[d].present /\ Covered(b.entries, pic'[d].recs)
      BY <2>8, <2>9 DEF b
    <3> QED BY <3>1, <3>2, <3>3 DEF BatchInv, b, d
  <2>11. FileShape'
    BY <2>4, <2>8 DEF PhotoInv, FileShape
  <2>12. \A x \in Days : /\ pic[x].present => pic'[x].present
                         /\ Covered(index[x].entries, pic[x].recs) => Covered(index[x].entries, pic'[x].recs)
    BY <2>4, <2>8 DEF Covered
  <2>13. \A x : ~HalfDeleted(x)
    BY DEF HalfDeleted
  <2>14. DayInv'
    <3>1. \A x \in Days : x >= today => Covered(index[x].entries, pic'[x].recs)
      BY <2>12 DEF PhotoInv, DayInv
    <3>2. crashes = 0 /\ undeleted = 0 => \A x \in Days : index[x].present =>
             pic'[x].present /\ Covered(index[x].entries, pic'[x].recs)
      BY <2>12, <2>13 DEF PhotoInv, DayInv
    <3> QED BY <3>1, <3>2 DEF DayInv, Covered
  <2> QED BY <2>10, <2>11, <2>14, ZenonT(60) DEF PhotoInv
  (* Photo writes, complete or not.                                          *)
<1>PhotoWritePic. ASSUME TypeOK, OrderInv, PhotoInv, WritePic \/ WritePicFails
                  PROVE  PhotoInv'
  <2> USE <1>PhotoWritePic
  <2>1. /\ pc = "pic" /\ wr <= Len(bufs)
        /\ UNCHANGED <<bufs, wr, index, today, crashes, undeleted>>
    BY DEF WritePic, WritePicFails, At, locals, callers, budget, history
  <2>2. bufs[wr].off \in Nat
    <3>1. bufs[wr] \in Buffer
      BY <2>1, SMTT(30), Z3T(30) DEF TypeOK, SaverOK
    <3> QED BY <3>1 DEF Buffer
  <2>3. CASE WritePic
    BY <2>1, <2>2, <2>3, <1>PhotoGrows DEF WritePic, At
  <2>4. CASE WritePicFails
    <3>1. pc' = "error"
      BY <2>4 DEF WritePicFails, At
    <3>2. CASE UNCHANGED pic
      <4>1. \A j \in DOMAIN bufs : ~Unwritten(j)'
        BY <3>1 DEF Unwritten
      <4>2. today' \in Days /\ today <= today'
        BY <2>1, SMTT(30), Z3T(30) DEF TypeOK, CallersOK, Days
      <4> QED BY <2>1, <3>1, <3>2, <4>1, <4>2, <1>PhotoFrame
    <3>3. ASSUME NEW n \in 0..(bufs[wr].off - 1),
                 pic' = [pic EXCEPT ![bufs[wr].day] = AppendPic(@, bufs[wr], n)]
          PROVE  PhotoInv'
      <4>1. n \in Nat
        BY <2>2, SMTT(30), Z3T(30)
      <4> QED BY <2>1, <3>1, <3>3, <4>1, <1>PhotoGrows
    <3> QED BY <2>4, <3>2, <3>3 DEF WritePicFails
  <2> QED BY <2>3, <2>4
  (* An index file grows by entries whose photos are in place.               *)
<1>PhotoIndexGrows.
      ASSUME TypeOK, PhotoInv, pc = "index", NEW n \in 0..Len(bufs[wr].entries), NEW partial \in BOOLEAN,
             index' = [index EXCEPT ![bufs[wr].day] = AppendIndex(@, bufs[wr], n, partial)],
             UNCHANGED <<bufs, pic, today, crashes, undeleted>>,
             \/ pc' = "pic" /\ wr' = wr + 1
             \/ pc' = "error"
      PROVE  PhotoInv'
  <2> USE <1>PhotoIndexGrows
  <2> DEFINE d == bufs[wr].day
             es == index[d].entries
             fs == bufs[wr].entries
  <2>1. wr \in DOMAIN bufs /\ bufs[wr] \in Buffer /\ wr \in Nat
    BY SMTT(30), Z3T(30) DEF TypeOK, SaverOK
  <2>2. d \in Days /\ fs \in Seq(Entry)
    BY <2>1 DEF Buffer
  <2>3. index[d] \in IndexFile /\ DOMAIN index = Days
    BY <2>2 DEF TypeOK, FilesOK
  <2>4. es \in Seq(Entry)
    BY <2>3 DEF IndexFile
  <2>5. \A x \in Days \ {d} : index'[x] = index[x]
    BY <2>3
  <2>6. /\ index'[d].present
        /\ index'[d].entries = es \/ index'[d].entries = es \o SubSeq(fs, 1, n)
    BY <2>2, <2>3 DEF AppendIndex
  <2>7. pic[d].present /\ Covered(fs, pic[d].recs)
    BY DEF PhotoInv, BatchInv
  <2>8. n \in 0..Len(fs)
    OBVIOUS
  <2> HIDE DEF d, es, fs
  <2>9. Covered(es, pic[d].recs) => Covered(index'[d].entries, pic[d].recs)
    BY <2>2, <2>4, <2>6, <2>7, <2>8, <1>CoveredConcat
  <2>10. BatchInv'
    <3>1. \A j \in DOMAIN bufs : Placed(bufs[j])
      BY DEF PhotoInv, BatchInv
    <3>2. \A j \in DOMAIN bufs : Unwritten(j)' => Unwritten(j)
      BY <2>1, SMTT(30), Z3T(30) DEF Unwritten, TypeOK, SaverOK
    <3> QED BY <3>1, <3>2 DEF PhotoInv, BatchInv
  <2>11. FileShape'
    BY <2>5, <2>6 DEF PhotoInv, FileShape
  <2>12. \A x : ~HalfDeleted(x)
    BY DEF HalfDeleted
  <2>13. DayInv'
    <3>1. \A x \in Days : x >= today => Covered(index'[x].entries, pic[x].recs)
      BY <2>5, <2>9 DEF PhotoInv, DayInv, es
    <3>2. index[d].present \/ es = <<>>
      BY <2>2, ZenonT(60) DEF PhotoInv, FileShape, es
    <3>3. Covered(<<>>, pic[d].recs)
      BY SMTT(30), Z3T(30) DEF Covered
    <3>4. crashes = 0 /\ undeleted = 0 => Covered(es, pic[d].recs)
      BY <2>2, <2>12, <3>2, <3>3 DEF PhotoInv, DayInv, es
    <3>5. crashes = 0 /\ undeleted = 0 => \A x \in Days : index'[x].present =>
             pic[x].present /\ Covered(index'[x].entries, pic[x].recs)
      BY <2>5, <2>7, <2>9, <2>12, <3>4 DEF PhotoInv, DayInv
    <3> QED BY <3>1, <3>5 DEF DayInv, Covered
  <2> QED BY <2>10, <2>11, <2>13 DEF PhotoInv
  (* Index writes, complete or not.                                          *)
<1>PhotoWriteIndex. ASSUME TypeOK, PhotoInv, WriteIndex \/ WriteIndexFails
                    PROVE  PhotoInv'
  <2> USE <1>PhotoWriteIndex
  <2>1. /\ pc = "index" /\ UNCHANGED <<bufs, pic, today, crashes, undeleted>>
        /\ \/ pc' = "pic" /\ wr' = wr + 1
           \/ pc' = "error"
    BY DEF WriteIndex, WriteIndexFails, At, locals, callers, budget, history
  <2>2. bufs[wr] \in Buffer
    BY <2>1, SMTT(30), Z3T(30) DEF TypeOK, SaverOK
  <2>3. bufs[wr].entries \in Seq(Entry)
    BY <2>2 DEF Buffer
  <2>4. IndexOffset(bufs[wr]) = Len(bufs[wr].entries) /\ Len(bufs[wr].entries) \in Nat
    BY <2>3, SMTT(30), Z3T(30) DEF IndexOffset
  <2>5. CASE WriteIndex
    <3>1. index' = [index EXCEPT ![bufs[wr].day] = AppendIndex(@, bufs[wr], Len(bufs[wr].entries), FALSE)]
      BY <2>4, <2>5 DEF WriteIndex
    <3>2. Len(bufs[wr].entries) \in 0..Len(bufs[wr].entries)
      BY <2>4, SMTT(30), Z3T(30)
    <3> QED BY <2>1, <3>1, <3>2, <1>PhotoIndexGrows
  <2>6. CASE WriteIndexFails
    <3>1. pc' = "error" /\ wr' = wr
      BY <2>6 DEF WriteIndexFails, At, locals
    <3>2. CASE UNCHANGED index
      <4>1. \A j \in DOMAIN bufs : ~Unwritten(j)'
        BY <3>1 DEF Unwritten
      <4>2. today' \in Days /\ today <= today'
        BY <2>1, SMTT(30), Z3T(30) DEF TypeOK, CallersOK, Days
      <4> QED BY <2>1, <3>1, <3>2, <4>1, <4>2, <1>PhotoFrame
    <3>3. ASSUME NEW n \in 0..(IndexOffset(bufs[wr]) - 1), NEW partial \in BOOLEAN,
                 index' = [index EXCEPT ![bufs[wr].day] = AppendIndex(@, bufs[wr], n, partial)]
          PROVE  PhotoInv'
      <4>1. n \in 0..Len(bufs[wr].entries)
        BY <2>4, SMTT(30), Z3T(30)
      <4> QED BY <2>1, <3>1, <3>3, <4>1, <1>PhotoIndexGrows, ZenonT(60)
    <3> QED BY <2>6, <3>2, <3>3 DEF WriteIndexFails
  <2> QED BY <2>5, <2>6
  (* The clean-up takes the photos of the oldest day first: if that day has  *)
  (* an index, it is the oldest index as well.                               *)
<1>PhotoDelOldPic. ASSUME TypeOK, OrderInv, PhotoInv, NEW here, here \in {"sdDelPic", "flashDelPic"},
                          NEW there, there \in {"sdDelIndex", "flashDelIndex"}, DelOldPic(here, there)
                   PROVE  PhotoInv'
  <2> USE <1>PhotoDelOldPic
  <2>1. pc = here /\ pc' = there /\ UNCHANGED <<bufs, index, today, crashes, undeleted>>
    BY DEF DelOldPic, At, locals, callers, budget, history
  <2>2. bufs = <<>>
    BY <2>1 DEF OrderInv, BufferOrder
  <2>3. CASE UNCHANGED pic
    <3>1. today' \in Days /\ today <= today'
      BY <2>1, SMTT(30), Z3T(30) DEF TypeOK, CallersOK, Days
    <3> QED BY <2>1, <2>2, <2>3, <3>1, <1>PhotoFrame, ZenonT(60)
  <2>4. ASSUME NEW o \in OldFile(pic), pic' = [pic EXCEPT ![o] = NoPic] PROVE PhotoInv'
    <3>1. o \in Days /\ o < today /\ \A x \in Days : pic[x].present => o <= x
      BY OldFileFacts
    <3>2. DOMAIN pic = Days
      BY DEF TypeOK, FilesOK
    <3>3. pic'[o].len = 0 /\ \A x \in Days \ {o} : pic'[x] = pic[x]
      BY <2>4, <3>1, <3>2, ZenonT(60) DEF NoPic
    <3>4. BatchInv'
      BY <2>1, <2>2, SMTT(30), Z3T(30) DEF BatchInv
    <3>5. FileShape'
      BY <2>1, <3>3 DEF PhotoInv, FileShape
    <3>6. DayInv'
      <4>1. \A x : ~HalfDeleted(x)
        BY <2>1 DEF HalfDeleted
      <4>2. today \in Nat /\ Days \subseteq Nat
        BY Constants, SMTT(30), Z3T(30) DEF TypeOK, CallersOK, Days
      <4>3. \A x \in Days : x >= today => x # o
        BY <3>1, <4>2, SMTT(30), Z3T(30)
      <4>4. \A x \in Days : x >= today => Covered(index[x].entries, pic'[x].recs)
        BY <3>3, <4>3 DEF PhotoInv, DayInv
      <4>5. crashes = 0 /\ undeleted = 0 => \A x \in Days : index[x].present => pic[x].present /\ Covered(index[x].entries, pic[x].recs)
        BY <4>1 DEF PhotoInv, DayInv
      <4>6. crashes = 0 /\ undeleted = 0 => \A x \in Days : index[x].present => o <= x
        BY <3>1, <4>5
      <4>7. ASSUME crashes = 0, undeleted = 0, NEW x \in Days, index[x].present
            PROVE  (pic'[x].present /\ Covered(index[x].entries, pic'[x].recs)) \/ HalfDeleted(x)'
        <5>1. CASE x = o
          BY <2>1, <3>1, <4>6, <4>7, <5>1 DEF HalfDeleted
        <5>2. CASE x # o
          BY <3>3, <4>5, <4>7, <5>2
        <5> QED BY <5>1, <5>2
      <4> QED BY <2>1, <4>4, <4>7 DEF DayInv, Covered, HalfDeleted
    <3> QED BY <3>4, <3>5, <3>6 DEF PhotoInv
  <2> QED BY <2>3, <2>4 DEF DelOldPic
  (* Then the index of the oldest day, which is the one without photos if    *)
  (* there is such a day.                                                    *)
<1>PhotoDelOldIndex. ASSUME TypeOK, OrderInv, PhotoInv, NEW here, here \in {"sdDelIndex", "flashDelIndex"},
                            NEW there, there \in {"flashCheck", "guard"}, DelOldIndex(here, there)
                     PROVE  PhotoInv'
  <2> USE <1>PhotoDelOldIndex
  <2>1. pc = here /\ pc' = there /\ UNCHANGED <<bufs, pic, today, crashes, undeleted>>
    BY DEF DelOldIndex, At, locals, callers, budget, history
  <2>2. bufs = <<>>
    BY <2>1 DEF OrderInv, BufferOrder
  <2>3. today \in Nat /\ Days \subseteq Nat /\ DOMAIN index = Days
    BY Constants, SMTT(30), Z3T(30) DEF TypeOK, CallersOK, FilesOK, Days
  <2>4. \/ \E o \in OldFile(index) : index' = [index EXCEPT ![o] = NoIndex]
        \/ OldFile(index) = {} /\ index' = index
    BY DEF DelOldIndex
  <2>5. \A o \in OldFile(index) : o \in Days /\ index[o].present /\ \A x \in Days : index[x].present => o <= x
    BY OldFileFacts
  <2>6. ASSUME NEW x \in Days, index[x].present, HalfDeleted(x) PROVE OldFile(index) = {x}
    <3>1. x \in OldFile(index)
      BY <2>6 DEF HalfDeleted, OldFile, Oldest, OldEnough
    <3>2. \A o \in OldFile(index) : x <= o /\ o <= x
      BY <2>5, <2>6 DEF HalfDeleted
    <3>3. ASSUME NEW o \in OldFile(index) PROVE o = x
      <4>1. o \in Nat /\ x \in Nat
        BY <2>3, <2>5
      <4> QED BY <3>2, <4>1, SMTT(30), Z3T(30)
    <3> QED BY <3>1, <3>3
  <2>7. \A x \in Days : \/ index'[x] = index[x] /\ OldFile(index) # {x}
                        \/ index'[x].entries = <<>> /\ ~index'[x].present
    BY <2>3, <2>4, <2>5, SMTT(30), Z3T(30) DEF NoIndex
  <2>8. BatchInv'
    BY <2>1, <2>2, SMTT(30), Z3T(30) DEF BatchInv
  <2>9. FileShape'
    BY <2>1, <2>7 DEF PhotoInv, FileShape
  <2>10. DayInv'
    <3>1. \A x \in Days : x >= today => Covered(index'[x].entries, pic[x].recs)
      <4> SUFFICES ASSUME NEW x \in Days, x >= today
                   PROVE  Covered(index'[x].entries, pic[x].recs)
        OBVIOUS
      <4>1. Covered(index[x].entries, pic[x].recs)
        BY DEF PhotoInv, DayInv
      <4>2. Covered(<<>>, pic[x].recs)
        BY SMTT(30), Z3T(30) DEF Covered
      <4> QED BY <2>7, <4>1, <4>2
    <3>2. crashes = 0 /\ undeleted = 0 => \A x \in Days : index'[x].present =>
             pic[x].present /\ Covered(index'[x].entries, pic[x].recs)
      BY <2>6, <2>7 DEF PhotoInv, DayInv
    <3> QED BY <2>1, <3>1, <3>2 DEF DayInv, Covered
  <2> QED BY <2>8, <2>9, <2>10 DEF PhotoInv
  (* A deletion that failed leaves the files alone.                          *)
<1>PhotoCleanUpFails. ASSUME TypeOK, OrderInv, PhotoInv, CleanUpFails PROVE PhotoInv'
  <2> USE <1>PhotoCleanUpFails
  <2>1. UNCHANGED <<pic, index, bufs, today>>
    BY DEF CleanUpFails, DelOldFails, locals, files, callers
  <2>2. pc \notin {"fill", "pic", "index", "error"} /\ pc' # "index" /\ undeleted' = undeleted + 1
    BY DEF CleanUpFails, DelOldFails, At
  <2>3. bufs' = <<>>
    BY <2>1, <2>2 DEF OrderInv, BufferOrder
  <2>4. today' \in Days /\ today <= today' /\ undeleted' # 0
    BY <2>1, <2>2, SMTT(30), Z3T(30) DEF TypeOK, CallersOK, Days
  <2> QED BY <2>1, <2>2, <2>3, <2>4, <1>PhotoFrame
<1> SUFFICES ASSUME TypeOK, LockInv, OrderInv, PhotoInv, [Next]_vars PROVE PhotoInv'
  OBVIOUS
<1>1. CASE UNCHANGED vars
  <2>1. UNCHANGED <<pic, index, bufs, pc, wr, today, crashes, undeleted>>
    BY <1>1 DEF vars, locals, files, callers, budget, history
  <2>2. today' \in Days /\ today <= today'
    BY <2>1, SMTT(30), Z3T(30) DEF TypeOK, CallersOK, Days
  <2>3. \A j \in DOMAIN bufs : Unwritten(j)' => Unwritten(j)
    BY <2>1 DEF Unwritten
  <2> QED BY <2>1, <2>2, <2>3, <1>PhotoFrame
<1>2. CASE Saver
  <2>1. CASE CheckCapacity
    <3>1. CASE DelOldPic("sdDelPic", "sdDelIndex") \/ DelOldPic("flashDelPic", "flashDelIndex")
      BY <3>1, <1>PhotoDelOldPic
    <3>2. CASE DelOldIndex("sdDelIndex", "flashCheck") \/ DelOldIndex("flashDelIndex", "guard")
      BY <3>2, <1>PhotoDelOldIndex
    <3>3. CASE CleanUpFails
      BY <3>3, <1>PhotoCleanUpFails
    <3> QED BY <2>1, <3>1, <3>2, <3>3, <1>PhotoQuietSaver DEF CheckCapacity, CleanUpFails
  <2> QED BY <1>2, <2>1, <1>PhotoQuietSaver, <1>PhotoFillOne, <1>PhotoBatchEnds, <1>PhotoWritePic, <1>PhotoWriteIndex DEF Saver
<1> QED BY <1>1, <1>2, <1>PhotoCallers, <1>PhotoRestarts DEF Next

-----------------------------------------------------------------------------
(* What a step may do to the files.                                        *)

(* Every step that touches a file extends it or deletes a day before       *)
(* today.                                                                  *)
LEMMA GrowNext == TypeOK /\ [Next]_vars => [\A d \in Days : IndexGrows(d) /\ PicGrows(d)]_vars
  (* A file that is left alone has grown by nothing.                         *)
<1>SameFiles. ASSUME TypeOK, NEW d \in Days
              PROVE  /\ index'[d] = index[d] => IndexGrows(d)
                     /\ pic'[d] = pic[d] => PicGrows(d)
  <2> USE <1>SameFiles
  <2>1. index[d].entries \in Seq(Entry) /\ pic[d].len \in Nat
    BY DEF TypeOK, FilesOK, IndexFile, PicFile
  <2>2. Len(index[d].entries) \in 0..Len(index[d].entries)
    BY <2>1, SMTT(30), Z3T(30)
  <2>3. index[d].entries = SubSeq(index[d].entries, 1, Len(index[d].entries))
    BY <2>1, SMTT(30), Z3T(30)
  <2> QED BY <2>1, <2>2, <2>3, SMTT(30), Z3T(30) DEF IndexGrows, PicGrows
  (* A write, complete or not, extends one file of each directory at most.   *)
<1>WriteGrows. ASSUME TypeOK, NEW b \in Buffer, NEW d \in Days
               PROVE  /\ \A n \in Nat : pic' = [pic EXCEPT ![b.day] = AppendPic(@, b, n)] => PicGrows(d)
                      /\ \A n \in 0..Len(b.entries), partial \in BOOLEAN :
                            index' = [index EXCEPT ![b.day] = AppendIndex(@, b, n, partial)] => IndexGrows(d)
  <2> USE <1>WriteGrows
  <2>1. b.day \in Days /\ b.entries \in Seq(Entry)
    BY DEF Buffer
  <2>2. /\ pic \in [Days -> PicFile] /\ index \in [Days -> IndexFile]
        /\ pic[d] \in PicFile /\ index[d] \in IndexFile
    BY DEF TypeOK, FilesOK
  <2>3. ASSUME NEW n \in Nat, pic' = [pic EXCEPT ![b.day] = AppendPic(@, b, n)] PROVE PicGrows(d)
    <3>1. CASE d # b.day
      BY <2>2, <2>3, <3>1, <1>SameFiles, ZenonT(60)
    <3>2. CASE d = b.day
      <4>1. pic'[d] = AppendPic(pic[d], b, n)
        BY <2>2, <2>3, <3>2
      <4>2. pic[d].recs \subseteq pic'[d].recs /\ pic'[d].len = pic[d].len + n
        BY <2>2, <4>1, AppendPicCovers, ZenonT(60)
      <4>3. pic[d].len \in Nat
        BY <2>2 DEF PicFile
      <4> QED BY <4>2, <4>3, SMTT(30), Z3T(30) DEF PicGrows
    <3> QED BY <3>1, <3>2
  <2>4. ASSUME NEW n \in 0..Len(b.entries), NEW partial \in BOOLEAN,
               index' = [index EXCEPT ![b.day] = AppendIndex(@, b, n, partial)]
        PROVE  IndexGrows(d)
    <3> DEFINE es == index[d].entries
               sub == SubSeq(b.entries, 1, n)
    <3>1. es \in Seq(Entry) /\ sub \in Seq(Entry)
      BY <2>1, <2>2, SMTT(30), Z3T(30) DEF IndexFile
    <3>2. CASE index'[d].entries = es
      <4>1. Len(es) \in 0..Len(es) /\ es = SubSeq(es, 1, Len(es))
        BY <3>1, SMTT(30), Z3T(30)
      <4> QED BY <3>2, <4>1 DEF IndexGrows
    <3>3. CASE index'[d].entries = es \o sub
      <4> HIDE DEF es, sub
      <4>1. Len(es) \in 0..Len(es \o sub)
        BY <3>1, SMTT(30), Z3T(30)
      <4>2. es = SubSeq(es \o sub, 1, Len(es))
        BY <3>1, SMTT(30), Z3T(30)
      <4> QED BY <3>3, <4>1, <4>2 DEF IndexGrows, es
    <3>4. index'[d].entries = es \/ index'[d].entries = es \o sub
      BY <2>1, <2>2, <2>4 DEF AppendIndex
    <3> QED BY <3>2, <3>3, <3>4
  <2> QED BY <2>3, <2>4
<1> SUFFICES ASSUME TypeOK, Next, NEW d \in Days PROVE IndexGrows(d) /\ PicGrows(d)
  OBVIOUS
<1>1. CASE UNCHANGED <<pic, index>>
  BY <1>1, <1>SameFiles
<1>2. CASE WritePic \/ WritePicFails
  <2>1. pc = "pic" /\ wr <= Len(bufs) /\ UNCHANGED index
    BY <1>2 DEF WritePic, WritePicFails, At
  <2>2. bufs[wr] \in Buffer
    BY <2>1, SMTT(30), Z3T(30) DEF TypeOK, SaverOK
  <2>3. bufs[wr].off \in Nat
    BY <2>2 DEF Buffer
  <2>4. UNCHANGED pic \/ \E n \in Nat : pic' = [pic EXCEPT ![bufs[wr].day] = AppendPic(@, bufs[wr], n)]
    <3>1. \A n \in 0..(bufs[wr].off - 1) : n \in Nat
      BY <2>3, SMTT(30), Z3T(30)
    <3> QED BY <1>2, <2>3, <3>1 DEF WritePic, WritePicFails
  <2> QED BY <2>1, <2>2, <2>4, <1>SameFiles, <1>WriteGrows
<1>3. CASE WriteIndex \/ WriteIndexFails
  <2>1. pc = "index" /\ UNCHANGED pic
    BY <1>3 DEF WriteIndex, WriteIndexFails, At
  <2>2. bufs[wr] \in Buffer
    BY <2>1, SMTT(30), Z3T(30) DEF TypeOK, SaverOK
  <2>3. IndexOffset(bufs[wr]) = Len(bufs[wr].entries) /\ Len(bufs[wr].entries) \in Nat
    BY <2>2, SMTT(30), Z3T(30) DEF Buffer, IndexOffset
  <2>4. \/ UNCHANGED index
        \/ \E n \in 0..Len(bufs[wr].entries), partial \in BOOLEAN :
              index' = [index EXCEPT ![bufs[wr].day] = AppendIndex(@, bufs[wr], n, partial)]
    <3>1. CASE WriteIndex
      <4>1. index' = [index EXCEPT ![bufs[wr].day] = AppendIndex(@, bufs[wr], Len(bufs[wr].entries), FALSE)]
        BY <2>3, <3>1 DEF WriteIndex
      <4>2. Len(bufs[wr].entries) \in 0..Len(bufs[wr].entries)
        BY <2>3, SMTT(30), Z3T(30)
      <4> QED BY <4>1, <4>2
    <3>2. CASE WriteIndexFails
      <4>1. \A n \in 0..(IndexOffset(bufs[wr]) - 1) : n \in 0..Len(bufs[wr].entries)
        BY <2>3, SMTT(30), Z3T(30)
      <4> QED BY <3>2, <4>1 DEF WriteIndexFails
    <3> QED BY <1>3, <3>1, <3>2
  <2> QED BY <2>1, <2>2, <2>4, <1>SameFiles, <1>WriteGrows
<1>4. CASE CheckCapacity
  <2>1. /\ pic' = pic \/ \E o \in OldFile(pic) : pic' = [pic EXCEPT ![o] = NoPic]
        /\ index' = index \/ \E o \in OldFile(index) : index' = [index EXCEPT ![o] = NoIndex]
    BY <1>4 DEF CheckCapacity, CheckStorage, DelOldPic, DelOldIndex, DelOldFails, files
  <2>2. DOMAIN pic = Days /\ DOMAIN index = Days
    BY DEF TypeOK, FilesOK
  <2>3. pic'[d] = pic[d] \/ (d < today /\ pic'[d] = NoPic)
    BY <2>1, <2>2, OldFileFacts, SMTT(30), Z3T(30)
  <2>4. index'[d] = index[d] \/ (d < today /\ index'[d] = NoIndex)
    BY <2>1, <2>2, OldFileFacts, SMTT(30), Z3T(30)
  <2>5. IndexGrows(d)
    BY <2>4, <1>SameFiles DEF IndexGrows
  <2>6. PicGrows(d)
    BY <2>3, <1>SameFiles DEF PicGrows
  <2> QED BY <2>5, <2>6
<1>5. CASE \/ LoopTop \/ Stall \/ ReadFlag \/ CountQueue \/ FillOne \/ FillFails \/ BeginWrite
           \/ EndWrite \/ EndRound \/ BatchError \/ SaverExit
  BY <1>1, <1>5 DEF LoopTop, Stall, ReadFlag, CountQueue, FillOne, FillFails, BeginWrite, EndWrite, EndRound,
                    BatchError, Restart, SaverExit, files
<1>6. CASE \E size \in Sizes : AddRecord(size)
  BY <1>1, <1>6 DEF AddRecord, files
<1>7. CASE \/ CountAtStart \/ SetAtStart \/ SearchBegin \/ SearchDay \/ SearchEnd
           \/ DeinitBegin \/ DeinitEnd \/ InitRecordLib \/ IntervalPasses \/ Midnight \/ Crash
  BY <1>1, <1>7 DEF CountAtStart, SetAtStart, SearchBegin, SearchDay, SearchEnd, DeinitBegin, DeinitEnd, InitRecordLib, IntervalPasses,
                    Midnight, Crash, Restart, files
<1> QED BY <1>2, <1>3, <1>4, <1>5, <1>6, <1>7, ZenonT(60) DEF Next, Saver

-----------------------------------------------------------------------------
(* The theorems.                                                           *)

(* In every reachable state of saveRecordThread and its callers the        *)
(* variables have their types; in particular the dequeue loop never runs   *)
(* past the queue (DeQueue would fail) and the write loop never past the   *)
(* buffers.                                                                *)
THEOREM TypeCorrect == Spec => []TypeOK
BY TypeInit, TypeNext, PTL DEF Spec

(* g_writeMutex is held by the saver exactly in its locked sections, for   *)
(* every capacity, batch size, number of records, failures and restarts.   *)
THEOREM LockDiscipline == Spec => []LockMatchesPlace
<1>1. Init => LockInv
  BY DEF Init, LockInv, LockMatchesPlace, LockedPlaces
<1>2. LockInv => LockMatchesPlace
  BY DEF LockInv
<1> QED BY <1>1, <1>2, LockNext, PTL DEF Spec

(* Whatever the capacity, the batch size and the number of days, failures  *)
(* and restarts, each day's index file lists its records once and in the   *)
(* order addRecord accepted them.                                          *)
THEOREM SavedInOrder == Spec => []SavedOnceInOrder
<1>1. OrderInv => SavedOnceInOrder
  BY DEF OrderInv, FileOrder, Increasing, SavedOnceInOrder
<1> QED BY <1>1, OrderInit, OrderNext, TypeCorrect, PTL DEF Spec

(* Every reachable state satisfies the invariant.                           *)
LEMMA KeptAlways == Spec => []KeptInv
<1>1. Spec => []OrderInv
  BY OrderInit, OrderNext, TypeCorrect, PTL DEF Spec
<1> QED BY <1>1, KeptInit, KeptNext, TypeCorrect, PTL DEF Spec

(* Until a write fails, power is lost or the queue is destroyed, every     *)
(* record addRecord accepted is queued, in a buffer of the saver, in an    *)
(* index file, or deleted with its day: for any number of records, days,   *)
(* callers and clean-ups.                                                  *)
THEOREM NoRecordLost == Spec => []NothingLost
<1>1. KeptInv => NothingLost
  BY DEF KeptInv, Undisturbed, Kept, Complete, Stored, NothingLost
<1> QED BY <1>1, KeptAlways, PTL

(* When the saver has gone, what was accepted before deinitRecordLib is    *)
(* saved, whatever searches and late callers did to flag and queue.        *)
THEOREM DeinitSaves == Spec => []DeinitSavesAccepted
<1>1. KeptInv => DeinitSavesAccepted
  BY DEF KeptInv, Undisturbed, Kept, OwedStored, Stored, DeinitSavesAccepted
<1> QED BY <1>1, KeptAlways, PTL

(* A finished search has every record that was on disk when it began and   *)
(* was not deleted since, none twice, although searchRecord reads the      *)
(* files without a lock: for any number of days, records and clean-ups.    *)
THEOREM SearchFinds == Spec => []SearchFindsSaved
<1>1. Spec => []OrderInv
  BY OrderInit, OrderNext, TypeCorrect, PTL DEF Spec
<1>2. Spec => []SearchInv
  BY <1>1, SearchInit, SearchNext, TypeCorrect, PTL DEF Spec
<1>3. TypeOK /\ SearchInv => SearchFindsSaved
  <2> SUFFICES ASSUME TypeOK, SearchInv PROVE SearchFindsSaved
    OBVIOUS
  <2>1. ASSUME search.day > search.end PROVE search.saved \subseteq Found \cup evicted
    <3>1. search.day \in Nat /\ search.end \in Nat /\ Days \subseteq Nat
      BY FoundType, Constants, SMTT(30), Z3T(30) DEF Days
    <3>2. search.day > 0
      BY <2>1, <3>1, SMTT(30), Z3T(30)
    <3>3. \A d \in Days : ~(d >= search.day /\ d <= search.end)
      BY <2>1, <3>1, SMTT(30), Z3T(30)
    <3> QED BY <3>2, <3>3 DEF SearchInv, AheadInv
  <2>2. Distinct(search.found)
    BY DEF SearchInv, ApartInv, FoundApart
  <2> QED BY <2>1, <2>2 DEF SearchFindsSaved, Found, Distinct
<1> QED BY <1>2, <1>3, TypeCorrect, PTL

(* Every reachable state satisfies the invariant.                          *)
LEMMA PhotoAlways == Spec => []PhotoInv
<1>1. Init => LockInv
  BY DEF Init, LockInv, LockMatchesPlace, LockedPlaces
<1>2. Spec => []LockInv
  BY <1>1, LockNext, PTL DEF Spec
<1>3. Spec => []OrderInv
  BY OrderInit, OrderNext, TypeCorrect, PTL DEF Spec
<1> QED BY <1>2, <1>3, PhotoInit, PhotoNext, TypeCorrect, PTL DEF Spec

(* Every record in the index of the current day has its own photo where    *)
(* the entry says, whatever power losses, failed and partial writes came   *)
(* before.                                                                 *)
THEOREM TodayHasPhotos == Spec => []TodayPhotosIntact
<1>1. TypeOK /\ PhotoInv => TodayPhotosIntact
  <2> SUFFICES ASSUME TypeOK, PhotoInv PROVE TodayPhotosIntact
    OBVIOUS
  <2>1. today \in Days /\ today >= today
    BY SMTT(30), Z3T(30) DEF TypeOK, CallersOK, Days
  <2> QED BY <2>1 DEF PhotoInv, DayInv, Covered, PhotoOf, TodayPhotosIntact
<1> QED BY <1>1, PhotoAlways, TypeCorrect, PTL

(* Without power loss or a failed deletion this holds of every day, but    *)
(* for the day between the two deletions of a clean-up.                    *)
THEOREM OwnPhotos == Spec => []IndexedPhotoIsOwn
<1>1. PhotoInv => IndexedPhotoIsOwn
  <2> SUFFICES ASSUME PhotoInv, crashes = 0, undeleted = 0, NEW d \in Days, NEW i \in DOMAIN index[d].entries
               PROVE  \/ PhotoOf(index[d].entries[i]) \in pic[d].recs
                      \/ /\ pc \in {"sdDelIndex", "flashDelIndex"}
                         /\ \A x \in Days : index[x].present => d <= x
    BY DEF IndexedPhotoIsOwn, PhotoOf
  <2>1. index[d].present
    BY SMTT(30), Z3T(30) DEF PhotoInv, FileShape
  <2> QED BY <2>1 DEF PhotoInv, DayInv, Covered, HalfDeleted
<1> QED BY <1>1, PhotoAlways, PTL

(* No step of any thread, failing or not, and no restart shortens a file   *)
(* or changes what is in it; only a day before today is deleted, and as a  *)
(* whole.                                                                  *)
THEOREM FilesGrow == Spec => FilesOnlyGrow
BY GrowNext, TypeCorrect, PTL DEF Spec, FilesOnlyGrow
=============================================================================
