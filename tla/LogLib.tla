------------------------------- MODULE LogLib -------------------------------
(***************************************************************************)
(* The manager log (tools/logLib): addManLog queues a log, a thread that   *)
(* never ends appends the queued ones to one index file per day, searches  *)
(* read those files page by page, and deletions mark entries in place or   *)
(* unlink the files.  Searches and deletions take no lock: only the queue  *)
(* is protected, and g_manWriteMutex is taken by the saving thread alone.  *)
(* The system log is the same code with Sys for Man.                       *)
(*                                                                         *)
(* A file is known by its inode, because a thread keeps using the one it   *)
(* opened after it has been unlinked.  Entries are all of one size, so an  *)
(* address is an index; a write that stops inside an entry shifts all that *)
(* is appended later ("torn").  The entries of a file are those in front   *)
(* of the cut: whatever a reader makes of the bytes behind it (the header  *)
(* of the cut log, completed by the next one's bytes, passes for an entry) *)
(* never moves or marks one of them, and is not followed here.             *)
(* Left out: logNo, which is 1 in every entry because getLastFileIndexNo   *)
(* seeks beyond the end of the file; gManLogTotal, which only the saving   *)
(* thread reads; the 300 s interval, which is over at any time here.       *)
(***************************************************************************)
EXTENDS Integers, Sequences

CONSTANTS
    N,           \* bound: the application adds logs 1..N, in this order
    Time,        \* Time[l]: uiTime, seconds
    UserNos,     \* user numbers, far below any Time
    DayLen,      \* seconds in a day
    Nodes,       \* bound: inodes, 1..MaxNode
    ErrorLimit,  \* failed saves before the reboot, 3 in the code
    Ranges,      \* <<startTime, endTime>> of the searches
    PageSizes,   \* searchNum of the searches, 0 for all at once
    MaxDelete, MaxSearch,  \* bounds
    MaxFault     \* bound: failed opens, reads, writes and mallocs, power losses

Logs == 1..N
Day(t) == t \div DayLen
Days == {Day(Time[l]) : l \in Logs}

ASSUME LogAssumption ==
    /\ N \in Nat /\ DayLen \in Nat \ {0}
    /\ Time \in [Logs -> Nat \ {0}]        \* a buffer whose time is 0 is free
    /\ UserNos \subseteq Nat /\ \A u \in UserNos, l \in Logs : u < Time[l]
    /\ Ranges \subseteq Nat \X Nat /\ PageSizes \subseteq Nat

VARIABLES
    queue,   \* g_manLogQueue
    added,   \* number of logs added
    node,    \* node[i]: entries of inode i, and whether a write was cut
    used,    \* inodes allocated
    dir,     \* dir[d]: inode of the index file of day d, 0 if none
    saver,   \* saveManLogThread: pc, n, bufs (manLogBuffer), fd, errors
    del,     \* the deletion that is running, or the last one
    srch,    \* the search that is running, or the last one
    saved,   \* history: logs whose write returned their full length
    safe,    \* history: logs added since the last delAllManLog returned
    cut,     \* history: latest time a delManLogsByTime was asked for
    deletes, searches, faults

ghosts == <<saved, safe, cut>>
counts == <<deletes, searches, faults>>
disk == <<node, used, dir>>
vars == <<queue, added, disk, saver, del, srch, ghosts, counts>>

NoSaver == [pc |-> "idle", n |-> 0, bufs |-> <<>>, fd |-> 0, errors |-> 0]
NoDel == [pc |-> "none", bound |-> 0, todo |-> {}, day |-> 0, fd |-> 0,
          addr |-> 0, due |-> {}, failed |-> {}]
NoSearch == [pc |-> "none", from |-> 0, start |-> 0, end |-> 0, addr |-> 0, over |-> 0,
             num |-> 0, page |-> 0, fd |-> 0, got |-> <<>>, want |-> {}, dead |-> {}]

Init ==
    /\ queue = <<>> /\ added = 0
    /\ node = [i \in Nodes |-> [entries |-> <<>>, torn |-> FALSE]] /\ used = 0
    /\ dir = [d \in Days |-> 0]
    /\ saver = NoSaver /\ del = NoDel /\ srch = NoSearch
    /\ saved = {} /\ safe = {} /\ cut = 0
    /\ deletes = 0 /\ searches = 0 /\ faults = 0

\* The logs a reader of day d finds, and those of them not deleted.
OnDisk(d) == IF dir[d] = 0 THEN <<>> ELSE node[dir[d]].entries
Live == UNION {{OnDisk(d)[a].log : a \in {b \in DOMAIN OnDisk(d) : ~OnDisk(d)[b].deleted}} :
               d \in Days}
Dead == saved \ Live

\* Another thread has taken l off the disk: a search need not return it.
Unwanted(s, gone) == [s EXCEPT !.want = @ \ gone]

(***************************************************************************)
(* addManLog and the saving thread                                         *)
(***************************************************************************)
addManLog ==
    /\ added < N /\ added' = added + 1
    /\ queue' = Append(queue, added')
    /\ safe' = IF del.pc = "unlink" THEN safe ELSE safe \cup {added'}
    /\ UNCHANGED <<disk, saver, del, srch, saved, cut, counts>>

\* The interval is over and the queue is not empty.
Due(n) == n > 0

\* The length is read under the queue's mutex, and used after it is released.
Count ==
    /\ saver.pc = "idle" /\ Due(Len(queue))
    /\ saver' = [saver EXCEPT !.pc = "take", !.n = Len(queue)]
    /\ UNCHANGED <<queue, added, disk, del, srch, ghosts, counts>>

\* manLogBuffer after log l went into the buffer of its day, a new one if need be.
Buffered(l) ==
    LET same == {j \in DOMAIN saver.bufs : saver.bufs[j].day = Day(Time[l])}
    IN  IF same = {} THEN Append(saver.bufs, [day |-> Day(Time[l]), logs |-> <<l>>])
        ELSE [saver.bufs EXCEPT ![CHOOSE j \in same : TRUE].logs = Append(@, l)]

\* DeManLogQueue of the next of the n logs, into the buffer of its day.
Take ==
    /\ saver.pc = "take"
    /\ saver' = [saver EXCEPT !.bufs = Buffered(Head(queue)), !.n = @ - 1,
                              !.pc = IF saver.n = 1 THEN "open" ELSE "take"]
    /\ queue' = Tail(queue)
    /\ UNCHANGED <<added, disk, del, srch, ghosts, counts>>

\* The buffer whose turn it is to be written.
Buf == Head(saver.bufs)

\* open(O_APPEND | O_CREAT) of the file of that buffer's day.
OpenIndex ==
    /\ saver.pc = "open"
    /\ LET d == Buf.day IN
       IF dir[d] # 0
       THEN saver' = [saver EXCEPT !.pc = "write", !.fd = dir[d]] /\ UNCHANGED disk
       ELSE /\ used + 1 \in Nodes
            /\ used' = used + 1 /\ dir' = [dir EXCEPT ![d] = used + 1]
            /\ saver' = [saver EXCEPT !.pc = "write", !.fd = used + 1]
            /\ UNCHANGED node
    /\ UNCHANGED <<queue, added, del, srch, ghosts, counts>>

Entries(ls) == [k \in DOMAIN ls |-> [log |-> ls[k], deleted |-> FALSE]]
Extend(f, ls) == IF f.torn THEN f ELSE [f EXCEPT !.entries = @ \o Entries(ls)]

Cut(f, inside) == [f EXCEPT !.torn = @ \/ inside]

\* The file is closed; the loop goes on with the next buffer.
NextBuffer ==
    [saver EXCEPT !.bufs = Tail(@), !.fd = 0, !.pc = IF Len(saver.bufs) = 1 THEN "idle" ELSE "open"]

\* Mutation: write through a descriptor kept from an earlier save of that day.
FirstHandle(fd) ==
    LET mine == {i \in Nodes : \E a \in DOMAIN node[i].entries :
                     Day(Time[node[i].entries[a].log]) = Buf.day}
    IN IF mine = {} THEN fd ELSE CHOOSE i \in mine : \A j \in mine : i <= j
\* The descriptor is the one this save has opened.
Handle(fd) == fd

WriteIndex ==
    /\ saver.pc = "write"
    /\ node' = [node EXCEPT ![Handle(saver.fd)] = Extend(@, Buf.logs)]
    /\ saved' = saved \cup {Buf.logs[k] : k \in DOMAIN Buf.logs}
    /\ saver' = NextBuffer
    /\ UNCHANGED <<queue, added, used, dir, del, srch, safe, cut, counts>>

\* The process is gone: by power loss, or by reboot() from the saving thread.
Restart ==
    /\ queue' = <<>> /\ saver' = NoSaver /\ del' = NoDel /\ srch' = NoSearch

TooManyErrors(n) == n >= ErrorLimit

\* goto error: all the buffers are dropped; at the limit the device reboots.
SaveError ==
    IF TooManyErrors(saver.errors + 1)
    THEN Restart
    ELSE /\ saver' = [NoSaver EXCEPT !.errors = saver.errors + 1]
         /\ UNCHANGED <<queue, del, srch>>

OpenFails ==
    /\ saver.pc = "open" /\ faults < MaxFault
    /\ faults' = faults + 1
    /\ SaveError
    /\ UNCHANGED <<added, disk, ghosts, deletes, searches>>

\* write() stores only some of the buffer, and stops between or inside entries.
ShortWrite ==
    /\ saver.pc = "write" /\ faults < MaxFault
    /\ faults' = faults + 1
    /\ \E k \in 0..(Len(Buf.logs) - 1), inside \in BOOLEAN :
          node' = [node EXCEPT ![saver.fd] = Cut(Extend(@, SubSeq(Buf.logs, 1, k)), inside)]
    /\ SaveError
    /\ UNCHANGED <<added, used, dir, ghosts, deletes, searches>>

\* The deletion marks, which unlike the logs are written without O_SYNC.
Marks == UNION {{i} \X {a \in DOMAIN node[i].entries : node[i].entries[a].deleted} : i \in Nodes}

\* File i without the marks in back.
Unmark(i, back) ==
    [node[i] EXCEPT !.entries = [a \in DOMAIN @ |->
        [log |-> @[a].log, deleted |-> @[a].deleted /\ <<i, a>> \notin back]]]

\* Power loss: any of the marks may not have reached the disk.  (The reboot of
\* the saving thread calls sync first.)
Crash ==
    /\ faults < MaxFault /\ faults' = faults + 1
    /\ Restart
    /\ \E back \in SUBSET Marks : node' = [i \in Nodes |-> Unmark(i, back)]
    /\ UNCHANGED <<added, used, dir, ghosts, deletes, searches>>

(***************************************************************************)
(* Deletions                                                               *)
(***************************************************************************)
Idle(op) == op.pc = "none"
Present == {d \in Days : dir[d] # 0}

\* Mutation: the file of the day of the bound itself is left out.
NamedBefore(d, bound) == d < Day(bound)
\* strcmp of a file's name with the name for the bound.
Named(d, bound) == d <= Day(bound)

\* delManLogsByTime(t): scandir, and every file up to that of t's day.
delManLogsByTime(t) ==
    /\ Idle(del) /\ deletes < MaxDelete /\ deletes' = deletes + 1
    /\ LET files == {d \in Present : Named(d, t)} IN
       del' = [NoDel EXCEPT !.pc = IF files = {} THEN "done" ELSE "open",
                            !.bound = t, !.todo = files,
                            !.due = {l \in Live : Time[l] <= t}]
    /\ cut' = IF t > cut THEN t ELSE cut
    /\ UNCHANGED <<queue, added, disk, saver, srch, saved, safe, searches, faults>>

\* delManLogsByUserNo(u): delManLogTime (not delManLogUserNo, which has no
\* caller) of every file, with u for the time: nothing is that old.
delManLogsByUserNo(u) ==
    /\ Idle(del) /\ deletes < MaxDelete /\ deletes' = deletes + 1
    /\ del' = [NoDel EXCEPT !.pc = IF Present = {} THEN "done" ELSE "open",
                            !.bound = u, !.todo = Present]
    /\ UNCHANGED <<queue, added, disk, saver, srch, ghosts, searches, faults>>

\* The scan is sorted by name: the first of the files left is the next.
NextFile(d) == d \in del.todo /\ \A e \in del.todo : d <= e

\* The file of day d is done with.
DelNextFile(d) ==
    LET rest == del.todo \ {d}
    IN  [del EXCEPT !.day = 0, !.fd = 0, !.addr = 0, !.todo = rest,
                    !.pc = IF rest = {} THEN "done" ELSE "open"]

\* delManLogTime opens the next file of the scan; it may have been unlinked.
DelOpen ==
    /\ del.pc = "open"
    /\ \E d \in Days :
          /\ NextFile(d)
          /\ del' = IF dir[d] = 0 THEN DelNextFile(d)
                    ELSE [del EXCEPT !.pc = "mark", !.day = d, !.fd = dir[d], !.addr = 1]
    /\ UNCHANGED <<queue, added, disk, saver, srch, ghosts, counts>>

\* Day d is given up; delManLogsByTime ignores that delManLogTime failed.
DelGivesUp(d) == [DelNextFile(d) EXCEPT !.failed = @ \cup {d}]

DelOpenFails ==
    /\ del.pc = "open" /\ faults < MaxFault
    /\ faults' = faults + 1
    /\ \E d \in Present : NextFile(d) /\ del' = DelGivesUp(d)
    /\ UNCHANGED <<queue, added, disk, saver, srch, ghosts, deletes, searches>>

\* Mutation: the write is one entry too long and runs over the next.
MarkTwo(f, a) ==
    [f EXCEPT !.entries = [b \in DOMAIN @ |-> IF b \in {a, a + 1}
                                              THEN [@[a] EXCEPT !.deleted = TRUE] ELSE @[b]]]
\* The entry is written back where it was read, with logFileStatus 1.
MarkAt(f, a) == [f EXCEPT !.entries[a].deleted = TRUE]

\* The entry is old enough and not deleted yet.
Hit(e) == Time[e.log] <= del.bound /\ ~e.deleted

\* One round of delManLogTime's loop.  Only deletions write there, and they all
\* write the same, so reading and writing back are one step.
DelEntry ==
    /\ del.pc = "mark"
    /\ LET f == node[del.fd]
       IN IF del.addr > Len(f.entries)
          THEN del' = DelNextFile(del.day) /\ UNCHANGED <<node, srch>>
          ELSE /\ del' = [del EXCEPT !.addr = @ + 1]
               /\ IF Hit(f.entries[del.addr])
                  THEN /\ node' = [node EXCEPT ![del.fd] = MarkAt(@, del.addr)]
                       /\ srch' = Unwanted(srch, {f.entries[del.addr].log})
                  ELSE UNCHANGED <<node, srch>>
    /\ UNCHANGED <<queue, added, used, dir, saver, ghosts, counts>>

\* read or write returns less than an entry: the loop over the file ends.  The
\* part that was written may or may not hold the mark.
DelEntryFails ==
    /\ del.pc = "mark" /\ faults < MaxFault
    /\ faults' = faults + 1
    /\ del' = DelGivesUp(del.day)
    /\ \/ UNCHANGED <<node, srch>>
       \/ /\ del.addr <= Len(node[del.fd].entries) /\ Hit(node[del.fd].entries[del.addr])
          /\ node' = [node EXCEPT ![del.fd] = MarkAt(@, del.addr)]
          /\ srch' = Unwanted(srch, {node[del.fd].entries[del.addr].log})
    /\ UNCHANGED <<queue, added, used, dir, saver, ghosts, deletes, searches>>

\* delAllManLog: readdir and unlink, file by file.  A file made meanwhile may
\* or may not be seen.
delAllManLog ==
    /\ Idle(del) /\ deletes < MaxDelete /\ deletes' = deletes + 1
    /\ del' = [NoDel EXCEPT !.pc = "unlink", !.todo = Present, !.due = Live]
    /\ safe' = {}
    /\ UNCHANGED <<queue, added, disk, saver, srch, saved, cut, searches, faults>>

Unlink(d) ==
    /\ del.pc = "unlink" /\ d \in Present
    /\ dir' = [dir EXCEPT ![d] = 0]
    /\ srch' = Unwanted(srch, {OnDisk(d)[a].log : a \in DOMAIN OnDisk(d)})
    /\ del' = [del EXCEPT !.todo = @ \ {d}]
    /\ UNCHANGED <<queue, added, node, used, saver, ghosts, counts>>

\* stat or unlink fails, and delAllManLog goes on with the next name.
UnlinkFails ==
    /\ del.pc = "unlink" /\ faults < MaxFault
    /\ faults' = faults + 1
    /\ \E d \in del.todo : del' = [del EXCEPT !.todo = @ \ {d}, !.failed = @ \cup {d}]
    /\ UNCHANGED <<queue, added, disk, saver, srch, ghosts, deletes, searches>>

\* The deletion has been through its files.
DelOver == del.pc = "done" \/ (del.pc = "unlink" /\ del.todo = {})

DelReturns ==
    /\ DelOver
    /\ del' = NoDel
    /\ UNCHANGED <<queue, added, disk, saver, srch, ghosts, counts>>

(***************************************************************************)
(* searchManLog, called until a page is not full (SearchManLogAll)         *)
(***************************************************************************)
SearchStart(s, e, num) ==
    /\ Idle(srch) /\ searches < MaxSearch /\ searches' = searches + 1
    /\ srch' = [NoSearch EXCEPT !.pc = "day", !.from = s, !.start = s, !.end = e, !.num = num,
                                !.want = {l \in Live : Time[l] \in s..e}, !.dead = Dead]
    /\ UNCHANGED <<queue, added, disk, saver, del, ghosts, deletes, faults>>

\* Mutation: the same time on the next day.
SameTimeNextDay(t) == t + DayLen
\* Midnight after t.
TimeToNextDay(t) == (Day(t) + 1) * DayLen

\* Mutation: only the address is reset.
StayOnDay(s) == [s EXCEPT !.addr = 0]
\* No file for that day: the next one is tried.
SkipDay(s) == [s EXCEPT !.start = TimeToNextDay(@), !.addr = 0]

\* The file of startTime's day is opened and sought, or the day is skipped; past
\* the last day the page is over.
SearchDay ==
    /\ srch.pc = "day"
    /\ LET d == Day(srch.start) IN
       srch' = IF d > Day(srch.end) THEN [srch EXCEPT !.pc = "page"]
               ELSE IF d \notin Present
               THEN SkipDay(srch)
               ELSE [srch EXCEPT !.pc = "read", !.fd = dir[d], !.over = 0]
    /\ UNCHANGED <<queue, added, disk, saver, del, ghosts, counts>>

\* The entry is in the range and not deleted.
Matches(e) == Time[e.log] \in srch.start..srch.end /\ ~e.deleted

\* Mutation: the offset within this call replaces the address.
OffsetOnly(addr, over) == over
\* Where the next page goes on: startAddr += searchOverAddr.
NextAddr(addr, over) == addr + over

\* The file has been read to its end.
DayRead(s) ==
    [s EXCEPT !.pc = "day", !.start = TimeToNextDay(@), !.addr = 0, !.over = 0, !.fd = 0]

\* read() of one entry: a match is listed, and the page ends when it is full; at
\* the end of the file the next day follows.
SearchRead ==
    /\ srch.pc = "read"
    /\ LET es == node[srch.fd].entries
           at == srch.addr + srch.over + 1
           full == srch.num > 0 /\ srch.page + 1 >= srch.num
       IN srch' =
            IF at > Len(es)
            THEN DayRead(srch)
            ELSE IF ~Matches(es[at]) THEN [srch EXCEPT !.over = @ + 1]
            ELSE IF full
            THEN [srch EXCEPT !.got = Append(@, es[at].log), !.page = @ + 1, !.pc = "page",
                              !.addr = NextAddr(@, srch.over + 1), !.over = 0, !.fd = 0]
            ELSE [srch EXCEPT !.got = Append(@, es[at].log), !.page = @ + 1, !.over = @ + 1]
    /\ UNCHANGED <<queue, added, disk, saver, del, ghosts, counts>>

\* The logs of a file from entry a on.
LogsFrom(i, a) == {node[i].entries[b].log : b \in {c \in DOMAIN node[i].entries : c >= a}}

\* What goes wrong in a search goes unreported: a file that cannot be opened is
\* skipped like a missing one, a failed read ends the file, and a match for
\* which malloc has no memory is left out.
SearchFails ==
    /\ faults < MaxFault
    /\ faults' = faults + 1
    /\ \/ /\ srch.pc = "day" /\ Day(srch.start) \in Present /\ Day(srch.start) <= Day(srch.end)
          /\ srch' = Unwanted(SkipDay(srch), LogsFrom(dir[Day(srch.start)], srch.addr + 1))
       \/ /\ srch.pc = "read"
          /\ srch' = Unwanted(DayRead(srch), LogsFrom(srch.fd, srch.addr + srch.over + 1))
       \/ /\ srch.pc = "read"
          /\ LET es == node[srch.fd].entries
                 at == srch.addr + srch.over + 1
             IN  /\ at <= Len(es) /\ Matches(es[at])
                 /\ srch' = Unwanted([srch EXCEPT !.over = @ + 1], {es[at].log})
    /\ UNCHANGED <<queue, added, disk, saver, del, ghosts, deletes, searches>>

\* The caller asks for another page if this one was full; a page that would
\* start after the end of the range is refused.
LastPage == srch.pc = "page" /\ (srch.num = 0 \/ srch.page < srch.num \/ srch.start > srch.end)

SearchPage ==
    /\ srch.pc = "page"
    /\ srch' = IF LastPage THEN NoSearch ELSE [srch EXCEPT !.pc = "day", !.page = 0]
    /\ UNCHANGED <<queue, added, disk, saver, del, ghosts, counts>>

Times == {Time[l] : l \in Logs}
Save == Count \/ Take \/ OpenIndex \/ WriteIndex
Search == SearchDay \/ SearchRead \/ SearchPage
Delete == DelOpen \/ DelEntry \/ DelReturns \/ \E d \in Days : Unlink(d)
Next ==
    \/ addManLog
    \/ Save \/ OpenFails \/ ShortWrite \/ Crash
    \/ \E t \in Times : delManLogsByTime(t)
    \/ \E u \in UserNos : delManLogsByUserNo(u)
    \/ delAllManLog \/ Delete \/ DelOpenFails \/ DelEntryFails \/ UnlinkFails
    \/ \E r \in Ranges, num \in PageSizes : SearchStart(r[1], r[2], num)
    \/ Search \/ SearchFails

Spec == Init /\ [][Next]_vars

\* The saving thread loops for ever with a sleep; a search and a deletion run in
\* threads of the application that nothing blocks.
FairSpec == Spec /\ WF_vars(Save) /\ WF_vars(Search) /\ WF_vars(Delete)

(***************************************************************************)
(* Properties                                                              *)
(***************************************************************************)
\* A log added after the last delAllManLog returned, and written without error,
\* stays in the file of its day: not deleted unless a deletion by time asked for
\* its time, whatever was marked, appended or unlinked around it.  The one
\* exception is a day whose file a cut write has shifted.
SavedIsKept ==
    \A l \in saved \cap safe :
        \/ l \in Live \/ Time[l] <= cut
        \/ LET i == dir[Day(Time[l])] IN i # 0 /\ node[i].torn

\* A search that is over has returned, over its pages, every log that was on
\* the disk in its range when it began and was not deleted since, although the
\* saving thread appended and deletions marked between the pages.  Only what the
\* search itself could not open, read or allocate is excepted: the entries it
\* had not come to in that file, or the one entry.
SearchComplete ==
    LastPage => \A l \in srch.want : \E k \in DOMAIN srch.got : srch.got[k] = l

\* No log is returned on two pages, none outside the range asked for, and none
\* that had been deleted before the search began.
SearchSound ==
    /\ \A j, k \in DOMAIN srch.got : srch.got[j] = srch.got[k] => j = k
    /\ \A k \in DOMAIN srch.got :
          Time[srch.got[k]] \in srch.from..srch.end /\ srch.got[k] \notin srch.dead

\* When delManLogsByTime or delAllManLog returns, the logs it was asked to delete
\* and found on the disk are gone, for a search that starts now, except those in
\* the files that it could not open, read, write or unlink itself: one failure
\* costs the rest of that file only, although the caller is told 0.
DeletedIsGone == DelOver => \A l \in del.due \cap Live : Day(Time[l]) \in del.failed

\* An inode's entries are only appended to and marked: no step of the saving
\* thread or of a deletion loses, moves or revives an entry of another, failed
\* ones included.  Power loss may undo marks, and nothing else.
EntriesStay ==
    [][\A i \in Nodes : LET old == node[i].entries new == node'[i].entries IN
          /\ Len(old) <= Len(new)
          /\ \A a \in DOMAIN old : new[a].log = old[a].log /\ (old[a].deleted /\ ~new[a].deleted => Crash)]_vars

\* A paged search ends, whichever files are missing or unlinked meanwhile.
SearchEnds == (srch.pc = "day") ~> Idle(srch)
=============================================================================
