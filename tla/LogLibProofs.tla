---------------------------- MODULE LogLibProofs ----------------------------
(***************************************************************************)
(* The safety properties of LogLib for every number of logs, days, files,  *)
(* pages, deletions, searches and faults, and every clock.                 *)
(*                                                                         *)
(* All of them rest on two facts.  The saving thread writes a log once: it *)
(* leaves the queue for one buffer, and the buffer for one file (OnceInv). *)
(* An inode holds logs of one day only, also after it was unlinked and the *)
(* day has another (OwnerInv).                                             *)
(***************************************************************************)
EXTENDS LogLib, TLAPS

(* A leaf is Zenon's unless it names other provers.                        *)
USE Zenon

Entry == [log : Logs, deleted : BOOLEAN]
File == [entries : Seq(Entry), torn : BOOLEAN]
Buffer == [day : Days, logs : Seq(Logs)]
Handles == Nodes \cup {0}

QueueOK ==
    /\ added \in 0..N /\ queue \in Seq(Logs) /\ Len(queue) <= added
    /\ \A p \in 1..Len(queue) : queue[p] = added - Len(queue) + p

DiskOK ==
    /\ node \in [Nodes -> File] /\ used \in Nat
    /\ dir \in [Days -> Handles]
    /\ \A d \in Days : dir[d] # 0 => dir[d] \in 1..used
    /\ \A i \in Nodes : i \notin 1..used => node[i].entries = <<>>

SaverOK ==
    /\ saver \in [pc : {"idle", "take", "open", "write"}, n : Nat, bufs : Seq(Buffer),
                  fd : Handles, errors : Nat]
    /\ saver.pc = "take" => saver.n \in 1..Len(queue)
    /\ saver.pc \in {"open", "write"} => saver.bufs # <<>>
    /\ saver.pc = "write" => saver.fd \in Nodes /\ saver.fd \in 1..used

DelState == [pc : {"none", "open", "mark", "unlink", "done"}, bound : Nat, todo : SUBSET Days, day : Nat,
             fd : Handles, addr : Nat, due : SUBSET Logs, failed : SUBSET Days]

DelOK ==
    /\ del \in DelState
    /\ del.todo \subseteq Present
    /\ del.pc \in {"open", "mark"} => del.todo # {}
    /\ del.pc \in {"none", "done"} => del.todo = {}
    /\ del.pc = "none" => del.due = {}
    /\ del.pc = "mark" => del.day \in del.todo /\ del.fd = dir[del.day] /\ del.addr >= 1

SrchState == [pc : {"none", "day", "read", "page"}, from : Nat, start : Nat, end : Nat, addr : Nat,
              over : Nat, num : Nat, page : Nat, fd : Handles, got : Seq(Logs),
              want : SUBSET Logs, dead : SUBSET Logs]

SrchOK ==
    /\ srch \in SrchState
    /\ srch.pc = "none" => srch.got = <<>> /\ srch.want = {} /\ srch.dead = {}
    /\ srch.pc = "read" => srch.fd \in Nodes /\ srch.fd \in 1..used
    /\ srch.pc # "read" => srch.over = 0

GhostOK == saved \subseteq Logs /\ safe \subseteq Logs /\ cut \in Nat

TypeInv == QueueOK /\ DiskOK /\ SaverOK /\ DelOK /\ SrchOK /\ GhostOK

\* Every log up to this one has left the queue.
Taken == added - Len(queue)

\* Log l is in a buffer.
Buffers(l) == \E j \in DOMAIN saver.bufs : \E p \in DOMAIN saver.bufs[j].logs : saver.bufs[j].logs[p] = l

\* The saving thread is through with these logs: it will not write them again.
Settled == {l \in Logs : l <= Taken /\ ~Buffers(l)}

BufOK(b) ==
    /\ \A p \in DOMAIN b.logs : b.logs[p] <= Taken /\ Day(Time[b.logs[p]]) = b.day
    /\ \A p, q \in DOMAIN b.logs : p < q => b.logs[p] < b.logs[q]

OnceInv ==
    /\ \A j \in DOMAIN saver.bufs : BufOK(saver.bufs[j])
    /\ \A j, k \in DOMAIN saver.bufs : saver.bufs[j].day = saver.bufs[k].day => j = k
    /\ saved \subseteq Settled
    /\ \A i \in Nodes : \A a \in DOMAIN node[i].entries : node[i].entries[a].log \in Settled
    /\ \A i, j \in Nodes : \A a \in DOMAIN node[i].entries, b \in DOMAIN node[j].entries :
          node[i].entries[a].log = node[j].entries[b].log => i = j /\ a = b

\* Inode i was made for day o[i].
Owned(o) ==
    /\ \A d \in Days : dir[d] # 0 => o[dir[d]] = d
    /\ \A i \in Nodes : \A a \in DOMAIN node[i].entries : Day(Time[node[i].entries[a].log]) = o[i]
    /\ saver.pc = "write" => o[saver.fd] = Buf.day
    /\ srch.pc = "read" => o[srch.fd] = Day(srch.start)

OwnerInv == \E o \in [Nodes -> Nat] : Owned(o)

LiveAt(d, a, l) ==
    /\ d \in Days /\ dir[d] # 0 /\ a \in DOMAIN node[dir[d]].entries
    /\ node[dir[d]].entries[a].log = l /\ ~node[dir[d]].entries[a].deleted

\* The deletion has given up day d, or has yet to come to its entry a.
Left(d, a) ==
    \/ d \in del.failed
    \/ d \in del.todo /\ (del.pc = "mark" /\ d = del.day => a >= del.addr)

DelInv ==
    /\ del.due \subseteq Settled
    /\ del.pc \in {"open", "mark"} =>
          /\ \A l \in del.due : Time[l] <= del.bound
          /\ del.bound <= cut \/ \A l \in Logs : del.bound < Time[l]
    /\ \A l \in del.due : \A d \in Days : \A a \in DOMAIN OnDisk(d) : LiveAt(d, a, l) => Left(d, a)

KeptInv ==
    /\ del.pc = "unlink" => safe = {}
    /\ saver.pc = "write" /\ (\E p \in DOMAIN Buf.logs : Buf.logs[p] \in safe) => saver.fd = dir[Buf.day]
    /\ SavedIsKept

\* The inode a search is at, or would open next for the same day.
Current(i) ==
    \/ srch.pc = "read" /\ i = srch.fd
    \/ Day(srch.start) \in Days /\ i = dir[Day(srch.start)]

\* How many of its entries the search has passed.
Passed == srch.addr + srch.over

SoundInv ==
    /\ srch.from <= srch.start
    /\ \A k \in DOMAIN srch.got :
          /\ srch.got[k] \in Settled \ srch.dead
          /\ Time[srch.got[k]] \in srch.from..srch.end
          /\ Day(Time[srch.got[k]]) <= Day(srch.start)
          /\ \A i \in Nodes : \A a \in DOMAIN node[i].entries :
                Current(i) /\ node[i].entries[a].log = srch.got[k] => a <= Passed
    /\ \A j, k \in DOMAIN srch.got : srch.got[j] = srch.got[k] => j = k
    /\ srch.dead \subseteq Settled
    /\ \A i \in Nodes : (\E d \in Days : i = dir[d]) \/ (srch.pc = "read" /\ i = srch.fd) =>
          \A a \in DOMAIN node[i].entries :
              node[i].entries[a].log \in srch.dead => node[i].entries[a].deleted

\* Log l is on the disk where the search will come by.
Ahead(l) ==
    /\ Time[l] \in srch.start..srch.end
    /\ \E a \in DOMAIN OnDisk(Day(Time[l])) :
          /\ LiveAt(Day(Time[l]), a, l)
          /\ Day(Time[l]) = Day(srch.start) =>
                a > Passed /\ (srch.pc = "read" => srch.fd = dir[Day(Time[l])])

(* The order of the natural numbers: addresses and times.                  *)
LEMMA NatOrder ==
    /\ \A a \in Nat : a <= a
    /\ \A a, b \in Nat : a <= b => ~(b < a)
    /\ \A a, b, c \in Nat : a <= b /\ b <= c => a <= c
BY SMT

(* What AddLogToList does to the list of found logs.                       *)
LEMMA AppendFacts ==
    ASSUME NEW S, NEW s \in Seq(S), NEW x \in S, NEW t, t = Append(s, x)
    PROVE  /\ Len(s) \in Nat /\ DOMAIN s = 1..Len(s) /\ Len(s) + 1 \in Nat /\ DOMAIN t = 1..Len(s) + 1
           /\ t[Len(s) + 1] = x
           /\ \A k \in DOMAIN s : t[k] = s[k]
           /\ \A k \in DOMAIN t : k \in DOMAIN s \/ k = Len(s) + 1
BY SMT

(* How far a search has read is a number of entries.                       *)
LEMMA PassedType ==
    \A s \in SrchState : s.addr + s.over \in Nat
BY SMT DEF SrchState

CompleteInv ==
    /\ \A l \in srch.want : Ahead(l) \/ \E k \in DOMAIN srch.got : srch.got[k] = l
    /\ srch.pc = "page" =>
          \/ Day(srch.start) > Day(srch.end)
          \/ srch.num > 0 /\ srch.page >= srch.num /\ srch.start <= srch.end
-----------------------------------------------------------------------------
(* The day of a time, and the midnight after it.                           *)
LEMMA DayFacts ==
    ASSUME NEW t \in Nat
    PROVE  /\ Day(t) \in Nat /\ TimeToNextDay(t) \in Nat
           /\ t < TimeToNextDay(t)
           /\ Day(TimeToNextDay(t)) = Day(t) + 1
           /\ \A u \in Nat : Day(u) > Day(t) => u >= TimeToNextDay(t)
           /\ \A u \in Nat : u <= t => Day(u) <= Day(t)
<1> DEFINE L == DayLen
           q(u) == u \div L
<1>1. L \in Nat /\ L > 0
  BY LogAssumption, SMTT(30), Z3T(30)
<1> HIDE DEF L
<1>2. \A u \in Nat : q(u) \in Nat /\ L * q(u) <= u /\ u < L * q(u) + L
  <2> SUFFICES ASSUME NEW u \in Nat PROVE q(u) \in Nat /\ L * q(u) <= u /\ u < L * q(u) + L
    OBVIOUS
  <2>1. q(u) \in Int /\ q(u) >= 0
    BY <1>1, SMTT(30), Z3T(30)
  <2>2. L * q(u) <= u
    BY <1>1, SMTT(30), Z3T(30)
  <2>3. u < L * q(u) + L
    BY <1>1, SMTT(30), Z3T(30)
  <2> QED BY <2>1, <2>2, <2>3, SMTT(30), Z3T(30)
<1> HIDE DEF q
<1>3. \A a, b \in Nat : a < b => L * a + L <= L * b
  <2> SUFFICES ASSUME NEW a \in Nat, NEW b \in Nat, a < b PROVE L * a + L <= L * b
    OBVIOUS
  <2>1. PICK c \in Nat : b = a + 1 + c
    <3>1. b - a - 1 \in Nat /\ b = a + 1 + (b - a - 1)
      BY SMT
    <3> QED BY <3>1
  <2>2. L * b = L * a + L + L * c
    BY <1>1, <2>1, SMTT(30), Z3T(30)
  <2>3. L * c \in Nat /\ L * a \in Nat
    BY <1>1, SMTT(30), Z3T(30)
  <2> QED BY <1>1, <2>2, <2>3, SMTT(30), Z3T(30)
<1>4. \A a \in Nat : L * a \in Nat /\ (a + 1) * L = L * a + L
  BY <1>1, SMTT(30), Z3T(30)
<1>5. \A u \in Nat : Day(u) = q(u)
  BY DEF Day, q, L
<1>6. TimeToNextDay(t) = (q(t) + 1) * L
  BY <1>5 DEF TimeToNextDay, L
<1>7. TimeToNextDay(t) = L * q(t) + L /\ TimeToNextDay(t) \in Nat
  BY <1>1, <1>2, <1>4, <1>6, SMTT(30), Z3T(30)
<1>8. \A u \in Nat : q(u) > q(t) => u >= TimeToNextDay(t)
  <2> SUFFICES ASSUME NEW u \in Nat, q(u) > q(t) PROVE u >= TimeToNextDay(t)
    OBVIOUS
  <2>1. L * q(t) + L <= L * q(u)
    BY <1>2, <1>3
  <2> QED BY <1>1, <1>2, <1>4, <1>7, <2>1, SMTT(30), Z3T(30)
<1>9. \A u \in Nat : u <= t => q(u) <= q(t)
  <2> SUFFICES ASSUME NEW u \in Nat, u <= t, q(t) < q(u) PROVE FALSE
    BY <1>2, SMTT(30), Z3T(30)
  <2>1. L * q(t) + L <= L * q(u)
    BY <1>2, <1>3
  <2> QED BY <1>1, <1>2, <1>4, <2>1, SMTT(30), Z3T(30)
<1>10. q(TimeToNextDay(t)) = q(t) + 1
  <2> DEFINE m == TimeToNextDay(t)
  <2>1. m \in Nat /\ m = L * q(t) + L /\ L * q(m) <= m /\ m < L * q(m) + L /\ q(m) \in Nat /\ q(t) \in Nat
    BY <1>2, <1>7
  <2> HIDE DEF m
  <2>2. ~(q(m) < q(t) + 1)
    <3> SUFFICES ASSUME q(m) < q(t) + 1 PROVE FALSE
      OBVIOUS
    <3>1. L * q(m) + L <= L * (q(t) + 1)
      BY <1>3, <2>1, SMTT(30), Z3T(30)
    <3>2. L * (q(t) + 1) = L * q(t) + L
      BY <1>1, <2>1, SMTT(30), Z3T(30)
    <3> QED BY <1>1, <1>4, <2>1, <3>1, <3>2, SMTT(30), Z3T(30)
  <2>3. ~(q(t) + 1 < q(m))
    <3> SUFFICES ASSUME q(t) + 1 < q(m) PROVE FALSE
      OBVIOUS
    <3>1. L * (q(t) + 1) + L <= L * q(m)
      BY <1>3, <2>1, SMTT(30), Z3T(30)
    <3>2. L * (q(t) + 1) = L * q(t) + L
      BY <1>1, <2>1, SMTT(30), Z3T(30)
    <3> QED BY <1>1, <1>4, <2>1, <3>1, <3>2, SMTT(30), Z3T(30)
  <2> QED BY <2>1, <2>2, <2>3, SMTT(30), Z3T(30) DEF m
<1> QED BY <1>1, <1>2, <1>5, <1>7, <1>8, <1>9, <1>10

(* Logs have a time and a day.                                             *)
LEMMA TimeFacts ==
    /\ N \in Nat
    /\ \A l \in Logs : l \in Nat /\ Time[l] \in Nat /\ Day(Time[l]) \in Days
    /\ Days \subseteq Nat
<1>1. N \in Nat /\ \A l \in Logs : l \in Nat /\ Time[l] \in Nat
  BY LogAssumption, SMTT(30), Z3T(30) DEF Logs
<1>2. \A l \in Logs : Day(Time[l]) \in Days
  BY DEF Days
<1>3. Days \subseteq Nat
  BY <1>1, DayFacts DEF Days
<1> QED BY <1>1, <1>2, <1>3

\* File g is f with some of the logs ls behind it.
Grown(f, g, ls) ==
    /\ g \in File /\ Len(f.entries) <= Len(g.entries) /\ (f.torn => g.torn)
    /\ \A a \in DOMAIN f.entries : g.entries[a] = f.entries[a]
    /\ \A a \in DOMAIN g.entries : a > Len(f.entries) =>
          /\ a - Len(f.entries) \in DOMAIN ls
          /\ g.entries[a].log = ls[a - Len(f.entries)] /\ ~g.entries[a].deleted

(* write() of a buffer, as a whole.                                        *)
LEMMA ExtendGrows ==
    ASSUME NEW f \in File, NEW ls \in Seq(Logs)
    PROVE  /\ Grown(f, Extend(f, ls), ls)
           /\ ~f.torn => \A p \in DOMAIN ls :
                 LET a == Len(f.entries) + p
                 IN  /\ a \in DOMAIN Extend(f, ls).entries
                     /\ Extend(f, ls).entries[a].log = ls[p] /\ ~Extend(f, ls).entries[a].deleted
<1> DEFINE es == f.entries
           new == Entries(ls)
           g == Extend(f, ls)
<1>1. es \in Seq(Entry) /\ Len(es) \in Nat /\ DOMAIN es = 1..Len(es)
  BY SMTT(30), Z3T(30) DEF File
<1>2. new \in Seq(Entry) /\ Len(new) = Len(ls) /\ DOMAIN new = DOMAIN ls
  <2>1. DOMAIN ls = 1..Len(ls) /\ Len(ls) \in Nat /\ \A p \in DOMAIN ls : ls[p] \in Logs
    BY SMTT(30), Z3T(30)
  <2>2. \A p \in DOMAIN ls : [log |-> ls[p], deleted |-> FALSE] \in Entry
    BY <2>1 DEF Entry
  <2>3. new \in [1..Len(ls) -> Entry]
    BY <2>1, <2>2 DEF Entries
  <2> HIDE DEF new
  <2> QED BY <2>1, <2>3, SMTT(30), Z3T(30)
<1>3. \A p \in DOMAIN ls : new[p].log = ls[p] /\ ~new[p].deleted
  BY DEF Entries
<1>4. CASE f.torn
  BY <1>1, <1>4, SMTT(30), Z3T(30) DEF Extend, Grown
<1>5. CASE ~f.torn
  <2>1. g = [entries |-> es \o new, torn |-> f.torn]
    BY <1>5 DEF Extend, File
  <2>2. g.entries = es \o new /\ g.torn = f.torn
    BY <2>1, SMTT(30), Z3T(30)
  <2>3. es \o new \in Seq(Entry) /\ Len(es \o new) = Len(es) + Len(ls)
    <3> HIDE DEF new
    <3> QED BY <1>1, <1>2, SMTT(30), Z3T(30)
  <2>4. g \in File
    BY <2>1, <2>3, SMTT(30), Z3T(30) DEF File
  <2>5. \A a \in DOMAIN es : (es \o new)[a] = es[a]
    BY <1>1, <1>2, SMTT(30), Z3T(30)
  <2>6. \A p \in DOMAIN ls : Len(es) + p \in DOMAIN (es \o new) /\ (es \o new)[Len(es) + p] = new[p]
    <3> HIDE DEF new, es
    <3> QED BY <1>1, <1>2, <2>3, SMTT(30), Z3T(30)
  <2>7. \A a \in DOMAIN (es \o new) : a > Len(es) =>
            a - Len(es) \in DOMAIN ls /\ (es \o new)[a] = new[a - Len(es)]
    <3> SUFFICES ASSUME NEW a \in DOMAIN (es \o new), a > Len(es)
                 PROVE  a - Len(es) \in DOMAIN ls /\ (es \o new)[a] = new[a - Len(es)]
      OBVIOUS
    <3>1. a - Len(es) \in DOMAIN ls
      BY <1>1, <2>3, SMTT(30), Z3T(30)
    <3> QED BY <1>1, <1>2, <2>3, <3>1, SMTT(30), Z3T(30)
  <2> HIDE DEF es, new, g
  <2>8. Grown(f, g, ls)
    BY <1>1, <1>2, <1>3, <2>2, <2>3, <2>4, <2>5, <2>7, SMTT(30), Z3T(30) DEF Grown, es
  <2>9. \A p \in DOMAIN ls : /\ Len(es) + p \in DOMAIN g.entries
                             /\ g.entries[Len(es) + p].log = ls[p] /\ ~g.entries[Len(es) + p].deleted
    BY <1>3, <2>2, <2>6
  <2> QED BY <2>8, <2>9 DEF es, g
<1> QED BY <1>4, <1>5

(* write() that stops after some of the entries, or inside one.            *)
LEMMA ShortGrows ==
    ASSUME NEW f \in File, NEW ls \in Seq(Logs), NEW n \in 0..(Len(ls) - 1), NEW inside \in BOOLEAN
    PROVE  Grown(f, Cut(Extend(f, SubSeq(ls, 1, n)), inside), ls)
<1> DEFINE some == SubSeq(ls, 1, n)
           e == Extend(f, some)
           g == Cut(e, inside)
<1>1. some \in Seq(Logs) /\ DOMAIN some \subseteq DOMAIN ls /\ \A p \in DOMAIN some : some[p] = ls[p]
  BY SMTT(30), Z3T(30)
<1> HIDE DEF some
<1>2. Grown(f, e, some)
  BY <1>1, ExtendGrows
<1> HIDE DEF e
<1>3. e \in File
  BY <1>2 DEF Grown
<1>4. g.entries = e.entries /\ g.torn = (e.torn \/ inside) /\ g \in File
  BY <1>3 DEF File, Cut
<1> HIDE DEF g
<1>5. Grown(f, g, ls)
  BY <1>1, <1>2, <1>4 DEF Grown
<1> QED BY <1>5 DEF g, e, some

(* A deletion writes one entry back, as deleted.                           *)
LEMMA MarkFacts ==
    ASSUME NEW f \in File, NEW a \in DOMAIN f.entries
    PROVE  /\ MarkAt(f, a) \in File /\ MarkAt(f, a).torn = f.torn
           /\ Len(MarkAt(f, a).entries) = Len(f.entries)
           /\ \A b \in DOMAIN f.entries : b # a => MarkAt(f, a).entries[b] = f.entries[b]
           /\ MarkAt(f, a).entries[a].log = f.entries[a].log /\ MarkAt(f, a).entries[a].deleted
<1> DEFINE m == [f.entries[a] EXCEPT !.deleted = TRUE]
           es == [f.entries EXCEPT ![a] = m]
<1>1. f.entries \in Seq(Entry) /\ f.entries[a] \in Entry
  BY SMTT(30), Z3T(30) DEF File
<1>2. m \in Entry /\ m.log = f.entries[a].log /\ m.deleted
  BY <1>1 DEF Entry
<1> HIDE DEF m
<1>3. es \in Seq(Entry) /\ Len(es) = Len(f.entries) /\ es[a] = m
  BY <1>1, <1>2, SMTT(30), Z3T(30)
<1>4. MarkAt(f, a) = [f EXCEPT !.entries = es]
  BY DEF MarkAt, m
<1>5. MarkAt(f, a).entries = es /\ MarkAt(f, a).torn = f.torn
  BY <1>4 DEF File
<1>6. MarkAt(f, a) \in File
  BY <1>3, <1>4 DEF File
<1> QED BY <1>1, <1>2, <1>3, <1>5, <1>6

-----------------------------------------------------------------------------
(* What the steps that can restart the device do to the queue.             *)
LEMMA RestartQueue ==
    ASSUME OpenFails \/ ShortWrite \/ Crash
    PROVE  /\ queue' = queue \/ queue' = <<>>
           /\ added' = added /\ ghosts' = ghosts
           /\ saver' = NoSaver \/ saver' = [NoSaver EXCEPT !.errors = saver.errors + 1]
           /\ del' = del \/ del' = NoDel
           /\ srch' = srch \/ srch' = NoSearch
BY DEF OpenFails, ShortWrite, Crash, SaveError, Restart

(* The buffer whose turn it is.                                            *)
LEMMA BufType ==
    ASSUME TypeInv, saver.pc \in {"open", "write"}
    PROVE  /\ 1 \in DOMAIN saver.bufs /\ Buf = saver.bufs[1] /\ Buf \in Buffer
           /\ Buf.day \in Days /\ Buf.logs \in Seq(Logs)
<1>1. saver.bufs \in Seq(Buffer) /\ saver.bufs # <<>>
  BY DEF TypeInv, SaverOK
<1>2. 1 \in DOMAIN saver.bufs /\ Buf = saver.bufs[1] /\ Buf \in Buffer
  BY <1>1, SMTT(30), Z3T(30) DEF Buf
<1>3. Buf.day \in Days /\ Buf.logs \in Seq(Logs)
  BY <1>2 DEF Buffer
<1> QED BY <1>2, <1>3

(* The step of the saving thread that writes a buffer.                     *)
LEMMA SaveStep ==
    ASSUME TypeInv, WriteIndex \/ ShortWrite
    PROVE  /\ saver.pc = "write" /\ saver.fd \in Nodes /\ Buf \in Buffer /\ node[saver.fd] \in File
           /\ \E g \in File : node' = [node EXCEPT ![saver.fd] = g] /\ Grown(node[saver.fd], g, Buf.logs)
           /\ UNCHANGED <<used, dir, added>>
<1>1. saver.pc = "write"
  BY DEF WriteIndex, ShortWrite
<1>2. saver.fd \in Nodes /\ saver.bufs \in Seq(Buffer) /\ saver.bufs # <<>> /\ node \in [Nodes -> File]
  BY <1>1 DEF TypeInv, SaverOK, DiskOK
<1>3. Buf \in Buffer /\ node[saver.fd] \in File
  BY <1>2, SMTT(30), Z3T(30) DEF Buf
<1>4. Buf.logs \in Seq(Logs)
  BY <1>3 DEF Buffer
<1>5. CASE WriteIndex
  <2>1. node' = [node EXCEPT ![saver.fd] = Extend(node[saver.fd], Buf.logs)]
    BY <1>5 DEF WriteIndex, Handle
  <2>2. Grown(node[saver.fd], Extend(node[saver.fd], Buf.logs), Buf.logs)
    BY <1>3, <1>4, ExtendGrows
  <2> QED BY <1>1, <1>2, <1>3, <1>5, <2>1, <2>2 DEF WriteIndex, Grown
<1>6. CASE ShortWrite
  <2>1. PICK n \in 0..(Len(Buf.logs) - 1), inside \in BOOLEAN :
            node' = [node EXCEPT ![saver.fd] = Cut(Extend(node[saver.fd], SubSeq(Buf.logs, 1, n)), inside)]
    BY <1>6 DEF ShortWrite
  <2>2. Grown(node[saver.fd], Cut(Extend(node[saver.fd], SubSeq(Buf.logs, 1, n)), inside), Buf.logs)
    BY <1>3, <1>4, ShortGrows
  <2> QED BY <1>1, <1>2, <1>3, <1>6, <2>1, <2>2 DEF ShortWrite, Grown
<1> QED BY <1>5, <1>6

\* A deletion is at an entry, and succeeds or fails.
MarkEntry == DelEntry \/ DelEntryFails

(* The step of a deletion that marks an entry.                             *)
LEMMA MarkStep ==
    ASSUME TypeInv, MarkEntry, node' # node
    PROVE  /\ del.pc = "mark" /\ del.fd \in Nodes /\ del.fd = dir[del.day] /\ node[del.fd] \in File
           /\ del.addr \in DOMAIN node[del.fd].entries
           /\ Time[node[del.fd].entries[del.addr].log] <= del.bound
           /\ node' = [node EXCEPT ![del.fd] = MarkAt(node[del.fd], del.addr)]
           /\ srch' = Unwanted(srch, {node[del.fd].entries[del.addr].log})
<1>1. del.pc = "mark" /\ del.addr >= 1 /\ del.addr \in Nat /\ node \in [Nodes -> File] /\ dir \in [Days -> Handles]
      /\ del.fd = dir[del.day] /\ del.day \in Present
  BY DEF MarkEntry, DelEntry, DelEntryFails, TypeInv, DelOK, DelState, DiskOK
<1>3. del.fd \in Nodes
  BY <1>1 DEF Present, Handles
<1>4. node[del.fd] \in File
  BY <1>1, <1>3
<1>5. node[del.fd].entries \in Seq(Entry)
  BY <1>4 DEF File
<1>6. ~(del.addr > Len(node[del.fd].entries)) \/ del.addr <= Len(node[del.fd].entries)
  BY DEF MarkEntry, DelEntry, DelEntryFails
<1>7. del.addr \in DOMAIN node[del.fd].entries
  BY <1>1, <1>5, <1>6, SMTT(30), Z3T(30)
<1> QED BY <1>1, <1>3, <1>4, <1>7 DEF MarkEntry, DelEntry, DelEntryFails, Hit

(* Power loss leaves the files as they were, but for marks.                *)
LEMMA CrashStep ==
    ASSUME TypeInv, Crash
    PROVE  /\ node' \in [Nodes -> File]
           /\ \A i \in Nodes :
                 /\ DOMAIN node'[i].entries = DOMAIN node[i].entries
                 /\ Len(node'[i].entries) = Len(node[i].entries) /\ node'[i].torn = node[i].torn
                 /\ \A a \in DOMAIN node[i].entries :
                       /\ node'[i].entries[a].log = node[i].entries[a].log
                       /\ node'[i].entries[a].deleted => node[i].entries[a].deleted
<1>1. PICK back : node' = [i \in Nodes |-> Unmark(i, back)]
  BY DEF Crash
<1>2. ASSUME NEW i \in Nodes
      PROVE  LET g == Unmark(i, back)
                 f == node[i]
             IN  /\ g \in File /\ DOMAIN g.entries = DOMAIN f.entries
                 /\ Len(g.entries) = Len(f.entries) /\ g.torn = f.torn
                 /\ \A a \in DOMAIN f.entries :
                       g.entries[a].log = f.entries[a].log /\ (g.entries[a].deleted => f.entries[a].deleted)
  <2> DEFINE f == node[i]
             e(a) == [log |-> f.entries[a].log, deleted |-> f.entries[a].deleted /\ <<i, a>> \notin back]
             es == [a \in DOMAIN f.entries |-> e(a)]
             g == [f EXCEPT !.entries = es]
  <2>1. f \in File /\ f.entries \in Seq(Entry) /\ f.torn \in BOOLEAN
    BY DEF TypeInv, DiskOK, File
  <2>2. Unmark(i, back) = g
    BY DEF Unmark
  <2>3. DOMAIN f.entries = 1..Len(f.entries) /\ Len(f.entries) \in Nat
        /\ \A a \in DOMAIN f.entries : f.entries[a] \in Entry
    BY <2>1, SMTT(30), Z3T(30)
  <2>4. \A a \in DOMAIN f.entries : e(a) \in Entry
    BY <2>3 DEF Entry
  <2>5. es \in [1..Len(f.entries) -> Entry]
    BY <2>3, <2>4
  <2>6. \A a \in DOMAIN f.entries : es[a].log = f.entries[a].log /\ (es[a].deleted => f.entries[a].deleted)
    OBVIOUS
  <2> HIDE DEF f, e, es
  <2>7. es \in Seq(Entry) /\ Len(es) = Len(f.entries) /\ DOMAIN es = DOMAIN f.entries
    BY <2>3, <2>5, SMTT(30), Z3T(30)
  <2>8. g.entries = es /\ g.torn = f.torn /\ g \in File
    BY <2>1, <2>7 DEF File
  <2> HIDE DEF g
  <2> QED BY <2>2, <2>6, <2>7, <2>8 DEF f
<1> QED BY <1>1, <1>2

\* File g is f, with logs of the current buffer added and entries marked, or, by
\* power loss, no longer marked.
Later(f, g) ==
    /\ g \in File /\ Len(f.entries) <= Len(g.entries) /\ (f.torn => g.torn)
    /\ \A a \in DOMAIN f.entries :
          g.entries[a].log = f.entries[a].log /\ (f.entries[a].deleted /\ ~g.entries[a].deleted => Crash)
    /\ \A a \in DOMAIN g.entries \ DOMAIN f.entries :
          /\ \E p \in DOMAIN Buf.logs : g.entries[a].log = Buf.logs[p]
          /\ saver.pc = "write"

(* No step does anything else to a file.                                   *)
LEMMA NodeNext ==
    TypeInv /\ [Next]_vars =>
        /\ node' \in [Nodes -> File]
        /\ \A i \in Nodes : Later(node[i], node'[i]) /\ (i \notin 1..used => node'[i].entries = <<>>)
<1> SUFFICES ASSUME TypeInv, [Next]_vars
             PROVE  /\ node' \in [Nodes -> File]
                    /\ \A i \in Nodes : Later(node[i], node'[i]) /\ (i \notin 1..used => node'[i].entries = <<>>)
  OBVIOUS
<1>1. node \in [Nodes -> File] /\ \A i \in Nodes : node[i].entries \in Seq(Entry)
  BY DEF TypeInv, DiskOK, File
<1>6. \A i \in Nodes : i \notin 1..used => node[i].entries = <<>>
  BY DEF TypeInv, DiskOK
<1>2. \A f \in File : Later(f, f)
  BY SMTT(30), Z3T(30) DEF Later, File
<1>3. CASE WriteIndex \/ ShortWrite
  <2>1. saver.pc = "write" /\ saver.fd \in Nodes
    BY <1>3, SaveStep
  <2>2. PICK g \in File : node' = [node EXCEPT ![saver.fd] = g] /\ Grown(node[saver.fd], g, Buf.logs)
    BY <1>3, SaveStep
  <2>3. Later(node[saver.fd], g)
    <3> DEFINE f == node[saver.fd]
    <3>1. DOMAIN f.entries = 1..Len(f.entries) /\ Len(f.entries) \in Nat
      BY <1>1, <2>1, SMTT(30), Z3T(30)
    <3>2. DOMAIN g.entries = 1..Len(g.entries) /\ Len(g.entries) \in Nat
      BY SMTT(30), Z3T(30) DEF File
    <3> HIDE DEF f
    <3>3. \A a \in DOMAIN g.entries \ DOMAIN f.entries : a > Len(f.entries)
      BY <3>1, <3>2, SMTT(30), Z3T(30)
    <3> QED BY <2>1, <2>2, <3>1, <3>3 DEF Later, Grown, f
  <2>4. saver.fd \in 1..used
    BY <2>1 DEF TypeInv, SaverOK
  <2> QED BY <1>1, <1>2, <1>6, <2>1, <2>2, <2>3, <2>4
<1>4. CASE MarkEntry /\ node' # node
  <2>1. /\ del.fd \in Nodes /\ node[del.fd] \in File /\ del.addr \in DOMAIN node[del.fd].entries
        /\ node' = [node EXCEPT ![del.fd] = MarkAt(node[del.fd], del.addr)]
    BY <1>4, MarkStep
  <2>2. Later(node[del.fd], MarkAt(node[del.fd], del.addr))
    <3> DEFINE f == node[del.fd]
               g == MarkAt(f, del.addr)
    <3>1. /\ g \in File /\ g.torn = f.torn /\ Len(g.entries) = Len(f.entries)
          /\ \A b \in DOMAIN f.entries : b # del.addr => g.entries[b] = f.entries[b]
          /\ g.entries[del.addr].log = f.entries[del.addr].log /\ g.entries[del.addr].deleted
      BY <2>1, MarkFacts, SMTT(30), Z3T(30)
    <3>2. DOMAIN g.entries = DOMAIN f.entries /\ Len(f.entries) \in Nat
      BY <1>1, <2>1, <3>1, SMTT(30), Z3T(30) DEF File
    <3> HIDE DEF f, g
    <3>3. Later(f, g)
      BY <3>1, <3>2, SMTT(30), Z3T(30) DEF Later
    <3> QED BY <3>3 DEF f, g
  <2>3. del.fd \in 1..used
    <3>1. node[del.fd].entries # <<>>
      BY <1>1, <2>1, SMTT(30), Z3T(30)
    <3> QED BY <2>1, <3>1 DEF TypeInv, DiskOK
  <2>4. MarkAt(node[del.fd], del.addr) \in File
    BY <2>2 DEF Later
  <2> QED BY <1>1, <1>2, <1>6, <2>1, <2>2, <2>3, <2>4
<1>5. CASE node' = node
  BY <1>1, <1>2, <1>5, <1>6
<1>7. CASE Crash
  <2> SUFFICES ASSUME NEW i \in Nodes
               PROVE  Later(node[i], node'[i]) /\ (i \notin 1..used => node'[i].entries = <<>>)
    BY <1>7, CrashStep
  <2>1. /\ node'[i] \in File /\ DOMAIN node'[i].entries = DOMAIN node[i].entries
        /\ Len(node'[i].entries) = Len(node[i].entries) /\ node'[i].torn = node[i].torn
        /\ \A a \in DOMAIN node[i].entries : node'[i].entries[a].log = node[i].entries[a].log
    BY <1>7, CrashStep
  <2>2. node'[i].entries \in Seq(Entry) /\ node[i].entries \in Seq(Entry)
    BY <1>1, <2>1 DEF File
  <2>3. Len(node[i].entries) <= Len(node'[i].entries)
    BY <2>1, <2>2, SMTT(30), Z3T(30)
  <2>4. node[i].entries = <<>> => node'[i].entries = <<>>
    BY <2>1, <2>2, SMTT(30), Z3T(30)
  <2> QED BY <1>6, <1>7, <2>1, <2>3, <2>4 DEF Later
<1> QED BY <1>3, <1>4, <1>5, <1>7
    DEF Next, vars, disk, Save, Search, Delete, MarkEntry, addManLog, Count, Take, OpenIndex, OpenFails,
        delManLogsByTime, delManLogsByUserNo, delAllManLog, DelOpen, DelOpenFails, DelReturns, Unlink, UnlinkFails,
        SearchStart, SearchDay, SearchRead, SearchPage, SearchFails

(* The directory changes by a new file or by an unlink.                    *)
LEMMA DirNext ==
    TypeInv /\ [Next]_vars =>
        \/ UNCHANGED <<dir, used>>
        \/ /\ OpenIndex /\ Buf.day \in Days /\ dir[Buf.day] = 0 /\ used + 1 \in Nodes /\ used' = used + 1
           /\ dir' = [dir EXCEPT ![Buf.day] = used + 1] /\ saver' = [saver EXCEPT !.pc = "write", !.fd = used + 1]
           /\ UNCHANGED <<node, del, srch, ghosts>>
        \/ \E d \in Days : Unlink(d)
<1> SUFFICES ASSUME TypeInv, [Next]_vars, ~UNCHANGED <<dir, used>>, ~\E d \in Days : Unlink(d)
             PROVE  /\ OpenIndex /\ Buf.day \in Days /\ dir[Buf.day] = 0 /\ used + 1 \in Nodes /\ used' = used + 1
                    /\ dir' = [dir EXCEPT ![Buf.day] = used + 1]
                    /\ saver' = [saver EXCEPT !.pc = "write", !.fd = used + 1]
                    /\ UNCHANGED <<node, del, srch, ghosts>>
  OBVIOUS
<1>1. OpenIndex
  BY DEF Next, vars, disk, Save, Search, Delete, addManLog, Count, Take, WriteIndex, OpenFails, ShortWrite, Crash,
         delManLogsByTime, delManLogsByUserNo, delAllManLog, DelOpen, DelOpenFails, DelEntry, DelEntryFails, DelReturns,
         UnlinkFails, SearchStart, SearchDay, SearchRead, SearchPage, SearchFails
<1>2. Buf.day \in Days
  BY <1>1, BufType DEF OpenIndex
<1> QED BY <1>1, <1>2 DEF OpenIndex, disk

(* A buffer with other logs.                                               *)
LEMMA BufferWith ==
    ASSUME NEW b \in Buffer, NEW ls \in Seq(Logs)
    PROVE  [b EXCEPT !.logs = ls] = [day |-> b.day, logs |-> ls]
BY SMTT(30), Z3T(30) DEF Buffer

(* A log goes behind the others in the buffer of its day.                  *)
LEMMA BufferedShape ==
    ASSUME TypeInv, NEW l \in Logs
    PROVE  /\ Buffered(l) \in Seq(Buffer) /\ Buffered(l) # <<>>
           /\ \E k \in 1..(Len(saver.bufs) + 1), ls \in Seq(Logs) :
                 /\ DOMAIN Buffered(l) = DOMAIN saver.bufs \cup {k}
                 /\ Buffered(l)[k] = [day |-> Day(Time[l]), logs |-> Append(ls, l)]
                 /\ \A j \in DOMAIN saver.bufs : j # k => Buffered(l)[j] = saver.bufs[j]
                 /\ \/ /\ k \in DOMAIN saver.bufs
                       /\ ls = saver.bufs[k].logs /\ saver.bufs[k].day = Day(Time[l])
                    \/ /\ k \notin DOMAIN saver.bufs
                       /\ ls = <<>> /\ \A j \in DOMAIN saver.bufs : saver.bufs[j].day # Day(Time[l])
<1> DEFINE bs == saver.bufs
           d == Day(Time[l])
           same == {j \in DOMAIN bs : bs[j].day = d}
<1>1. bs \in Seq(Buffer) /\ DOMAIN bs = 1..Len(bs) /\ Len(bs) \in Nat /\ d \in Days
  BY TimeFacts, SMTT(30), Z3T(30) DEF TypeInv, SaverOK
<1>2. CASE same = {}
  <2> DEFINE b == [day |-> d, logs |-> <<l>>]
  <2>1. Buffered(l) = Append(bs, b)
    BY <1>2 DEF Buffered
  <2>2. b \in Buffer
    BY <1>1, SMTT(30), Z3T(30) DEF Buffer
  <2>3. <<l>> = Append(<<>>, l) /\ <<>> \in Seq(Logs)
    BY SMTT(30), Z3T(30)
  <2>4. \A j \in DOMAIN bs : bs[j].day # d
    BY <1>2
  <2> HIDE DEF same, b
  <2>5. /\ Append(bs, b) \in Seq(Buffer) /\ DOMAIN Append(bs, b) = DOMAIN bs \cup {Len(bs) + 1}
        /\ Append(bs, b)[Len(bs) + 1] = b /\ \A j \in DOMAIN bs : Append(bs, b)[j] = bs[j]
        /\ Append(bs, b) # <<>> /\ Len(bs) + 1 \notin DOMAIN bs /\ Len(bs) + 1 \in 1..(Len(bs) + 1)
    BY <1>1, <2>2, SMTT(30), Z3T(30)
  <2>6. b = [day |-> d, logs |-> Append(<<>>, l)]
    BY <2>3 DEF b
  <2> QED BY <2>1, <2>3, <2>4, <2>5, <2>6
<1>3. CASE same # {}
  <2> DEFINE k == CHOOSE j \in same : TRUE
             b == [bs[k] EXCEPT !.logs = Append(bs[k].logs, l)]
  <2>1. k \in same
    BY <1>3
  <2> HIDE DEF k
  <2>2. k \in DOMAIN bs /\ bs[k].day = d /\ bs[k] \in Buffer
    BY <1>1, <2>1, SMTT(30), Z3T(30)
  <2>3. bs[k].logs \in Seq(Logs) /\ Append(bs[k].logs, l) \in Seq(Logs)
    BY <2>2, SMTT(30), Z3T(30) DEF Buffer
  <2>4. Buffered(l) = [bs EXCEPT ![k] = b]
    BY <1>3 DEF Buffered, k
  <2>5. b = [day |-> d, logs |-> Append(bs[k].logs, l)] /\ b \in Buffer
    <3>1. b = [day |-> bs[k].day, logs |-> Append(bs[k].logs, l)]
      BY <2>2, <2>3, BufferWith
    <3>2. [day |-> d, logs |-> Append(bs[k].logs, l)] \in Buffer
      BY <1>1, <2>3 DEF Buffer
    <3> QED BY <2>2, <3>1, <3>2
  <2> HIDE DEF b, same
  <2>6. /\ [bs EXCEPT ![k] = b] \in Seq(Buffer) /\ DOMAIN [bs EXCEPT ![k] = b] = DOMAIN bs \cup {k}
        /\ [bs EXCEPT ![k] = b][k] = b /\ \A j \in DOMAIN bs : j # k => [bs EXCEPT ![k] = b][j] = bs[j]
        /\ [bs EXCEPT ![k] = b] # <<>> /\ k \in 1..(Len(bs) + 1)
    BY <1>1, <2>2, <2>5, SMTT(30), Z3T(30)
  <2> QED BY <2>2, <2>3, <2>4, <2>5, <2>6
<1> QED BY <1>2, <1>3

(* What a reader of a day finds.                                           *)
LEMMA OnDiskFacts ==
    ASSUME TypeInv, NEW d \in Days
    PROVE  /\ OnDisk(d) \in Seq(Entry)
           /\ \A a \in DOMAIN OnDisk(d) :
                 /\ dir[d] # 0 /\ dir[d] \in Nodes /\ OnDisk(d) = node[dir[d]].entries
                 /\ OnDisk(d)[a].log \in Logs /\ OnDisk(d)[a].deleted \in BOOLEAN
<1>1. dir[d] \in Handles /\ node \in [Nodes -> File]
  BY DEF TypeInv, DiskOK
<1>2. CASE dir[d] = 0
  BY <1>2, SMTT(30), Z3T(30) DEF OnDisk
<1>3. CASE dir[d] # 0
  <2>1. dir[d] \in Nodes /\ node[dir[d]] \in File /\ OnDisk(d) = node[dir[d]].entries
    BY <1>1, <1>3 DEF Handles, OnDisk
  <2>2. OnDisk(d) \in Seq(Entry)
    BY <2>1 DEF File
  <2>3. \A a \in DOMAIN OnDisk(d) : OnDisk(d)[a] \in Entry
    BY <2>2, SMTT(30), Z3T(30)
  <2>4. \A e \in Entry : e.log \in Logs /\ e.deleted \in BOOLEAN
    BY DEF Entry
  <2> QED BY <1>3, <2>1, <2>2, <2>3, <2>4
<1> QED BY <1>2, <1>3

(* A log is live where it has an entry that is not deleted.                *)
LEMMA LiveFacts ==
    ASSUME TypeInv
    PROVE  /\ Live \in SUBSET Logs
           /\ \A l : l \in Live <=> \E d \in Days : \E a \in DOMAIN OnDisk(d) : LiveAt(d, a, l)
<1>1. \A d \in Days : \A a \in DOMAIN OnDisk(d) :
          \A l : LiveAt(d, a, l) <=> OnDisk(d)[a].log = l /\ ~OnDisk(d)[a].deleted
  BY OnDiskFacts DEF LiveAt
<1>2. \A l : l \in Live <=> \E d \in Days : \E a \in DOMAIN OnDisk(d) :
                                OnDisk(d)[a].log = l /\ ~OnDisk(d)[a].deleted
  BY SMTT(30), Z3T(30) DEF Live
<1>3. \A l \in Live : l \in Logs
  BY <1>2, OnDiskFacts, SMTT(30), Z3T(30)
<1> QED BY <1>1, <1>2, <1>3, SMTT(30), Z3T(30)

(* What is left of a scan is in the directory.                             *)
LEMMA DelNextFacts ==
    ASSUME TypeInv, NEW d
    PROVE  /\ DelNextFile(d).todo = del.todo \ {d} /\ DelNextFile(d) \in DelState
           /\ DelNextFile(d).pc = (IF del.todo \ {d} = {} THEN "done" ELSE "open")
           /\ DelNextFile(d).due = del.due /\ DelNextFile(d).bound = del.bound
           /\ DelNextFile(d).failed = del.failed
<1> DEFINE rest == del.todo \ {d}
           next == IF rest = {} THEN "done" ELSE "open"
<1>1. del \in DelState /\ rest \in SUBSET Days
  BY DEF TypeInv, DelOK, DelState
<1>2. DelNextFile(d) = [del EXCEPT !.day = 0, !.fd = 0, !.addr = 0, !.todo = rest, !.pc = next]
  BY DEF DelNextFile
<1>3. next \in {"done", "open"} /\ next = (IF rest = {} THEN "done" ELSE "open") /\ 0 \in Handles
  BY DEF Handles
<1> HIDE DEF rest, next
<1>4. DelNextFile(d) = [pc |-> next, bound |-> del.bound, todo |-> rest, day |-> 0, fd |-> 0, addr |-> 0, due |-> del.due,
                        failed |-> del.failed]
  BY <1>1, <1>2 DEF DelState
<1>5. del.bound \in Nat /\ del.due \in SUBSET Logs /\ del.failed \in SUBSET Days
  BY <1>1 DEF DelState
<1>6. DelNextFile(d) \in DelState
  BY <1>1, <1>3, <1>4, <1>5, SMTT(30), Z3T(30) DEF DelState
<1> QED BY <1>3, <1>4, <1>6, SMTT(30), Z3T(30) DEF rest

(* A day that is given up is remembered.                                   *)
LEMMA DelGivesUpFacts ==
    ASSUME TypeInv, NEW d \in Days
    PROVE  /\ DelGivesUp(d).todo = del.todo \ {d} /\ DelGivesUp(d) \in DelState
           /\ DelGivesUp(d).pc = (IF del.todo \ {d} = {} THEN "done" ELSE "open")
           /\ DelGivesUp(d).due = del.due /\ DelGivesUp(d).bound = del.bound
           /\ DelGivesUp(d).failed = del.failed \cup {d}
<1> DEFINE n == DelNextFile(d)
           up == del.failed \cup {d}
<1>1. /\ n \in DelState /\ n.failed = del.failed /\ n.todo = del.todo \ {d} /\ n.due = del.due /\ n.bound = del.bound
      /\ n.pc = (IF del.todo \ {d} = {} THEN "done" ELSE "open")
  BY DelNextFacts
<1> HIDE DEF n
<1>2. DelGivesUp(d) = [n EXCEPT !.failed = up]
  BY <1>1 DEF DelGivesUp, n
<1>3. up \in SUBSET Days
  BY <1>1 DEF DelState
<1> HIDE DEF up
<1>4. /\ DelGivesUp(d) \in DelState /\ DelGivesUp(d).failed = up /\ DelGivesUp(d).todo = n.todo
      /\ DelGivesUp(d).due = n.due /\ DelGivesUp(d).bound = n.bound /\ DelGivesUp(d).pc = n.pc
  BY <1>1, <1>2, <1>3 DEF DelState
<1> QED BY <1>1, <1>4 DEF up

(* What the conditions of a search are after its first step.               *)
LEMMA SearchStartFields ==
    ASSUME TypeInv, NEW r \in Ranges, NEW num \in PageSizes, SearchStart(r[1], r[2], num)
    PROVE  /\ srch' \in SrchState /\ srch'.pc = "day" /\ srch'.from = r[1] /\ srch'.start = r[1]
           /\ srch'.end = r[2] /\ srch'.addr = 0 /\ srch'.over = 0 /\ srch'.got = <<>>
           /\ srch'.want = {l \in Live : Time[l] \in r[1]..r[2]} /\ srch'.dead = Dead
<1> DEFINE w == {l \in Live : Time[l] \in r[1]..r[2]}
           s == r[1]
           e == r[2]
<1>1. s \in Nat /\ e \in Nat /\ num \in Nat
  BY LogAssumption
<1>2. w \in SUBSET Logs /\ Dead \in SUBSET Logs
  BY LiveFacts DEF Dead, TypeInv, GhostOK
<1>3. srch' = [NoSearch EXCEPT !.pc = "day", !.from = s, !.start = s, !.end = e, !.num = num,
                               !.want = w, !.dead = Dead]
  BY DEF SearchStart
<1> HIDE DEF w, s, e
<1>4. NoSearch \in SrchState /\ NoSearch.addr = 0 /\ NoSearch.over = 0 /\ NoSearch.got = <<>>
  BY SMTT(30), Z3T(30) DEF NoSearch, SrchState, Handles
<1>5. srch' \in SrchState
  BY <1>1, <1>2, <1>3, <1>4 DEF SrchState
<1>6. /\ srch'.pc = "day" /\ srch'.from = s /\ srch'.start = s
      /\ srch'.end = e /\ srch'.addr = 0 /\ srch'.over = 0 /\ srch'.got = <<>>
      /\ srch'.want = w /\ srch'.dead = Dead
  BY <1>3, <1>4 DEF SrchState
<1> QED BY <1>5, <1>6 DEF w, s, e

\* What no step of a search in progress changes, and what it still has to find.
SameSearch ==
    /\ srch'.from = srch.from /\ srch'.end = srch.end /\ srch'.num = srch.num
    /\ srch'.want \subseteq srch.want /\ srch'.dead = srch.dead

(* One round of the outer loop of searchManLog.                            *)
LEMMA SearchDayFields ==
    ASSUME TypeInv, SearchDay
    PROVE  /\ srch' \in SrchState /\ srch.pc = "day" /\ SameSearch /\ srch'.over = 0 /\ srch'.got = srch.got
           /\ srch'.page = srch.page
           /\ \/ /\ Day(srch.start) > Day(srch.end)
                 /\ srch'.pc = "page" /\ srch'.start = srch.start /\ srch'.addr = srch.addr
              \/ /\ Day(srch.start) \notin Present
                 /\ srch'.pc = "day" /\ srch'.start = TimeToNextDay(srch.start) /\ srch'.addr = 0
              \/ /\ Day(srch.start) \in Present
                 /\ srch'.pc = "read" /\ srch'.start = srch.start /\ srch'.addr = srch.addr
                 /\ srch'.fd = dir[Day(srch.start)]
<1> DEFINE d == Day(srch.start)
           t == TimeToNextDay(srch.start)
<1>1. srch \in SrchState /\ srch.pc = "day" /\ srch.over = 0
  BY DEF SearchDay, TypeInv, SrchOK
<1>2. srch.start \in Nat /\ t \in Nat
  BY <1>1, DayFacts DEF SrchState
<1>3. d \in Present => dir[d] \in Handles
  BY DEF Present, TypeInv, DiskOK
<1>4. \/ d > Day(srch.end) /\ srch' = [srch EXCEPT !.pc = "page"]
      \/ d \notin Present /\ srch' = [srch EXCEPT !.start = t, !.addr = 0]
      \/ d \in Present /\ srch' = [srch EXCEPT !.pc = "read", !.fd = dir[d], !.over = 0]
  BY DEF SearchDay, SkipDay
<1> HIDE DEF d, t
<1>5. CASE d > Day(srch.end) /\ srch' = [srch EXCEPT !.pc = "page"]
  BY <1>1, <1>5 DEF SrchState, SameSearch, d
<1>6. CASE d \notin Present /\ srch' = [srch EXCEPT !.start = t, !.addr = 0]
  BY <1>1, <1>2, <1>6 DEF SrchState, SameSearch, d, t
<1>7. CASE d \in Present /\ srch' = [srch EXCEPT !.pc = "read", !.fd = dir[d], !.over = 0]
  BY <1>1, <1>3, <1>7 DEF SrchState, SameSearch, d
<1> QED BY <1>4, <1>5, <1>6, <1>7

(* One round of its inner loop.                                            *)
LEMMA SearchReadFields ==
    ASSUME TypeInv, SearchRead
    PROVE  LET es == node[srch.fd].entries
               at == Passed + 1
           IN  /\ srch' \in SrchState /\ srch.pc = "read" /\ SameSearch /\ es \in Seq(Entry) /\ at \in Nat \ {0}
               /\ \/ /\ at > Len(es)
                     /\ srch'.pc = "day" /\ srch'.start = TimeToNextDay(srch.start) /\ srch'.addr = 0
                     /\ srch'.over = 0 /\ srch'.got = srch.got
                  \/ /\ at \in DOMAIN es /\ ~Matches(es[at])
                     /\ srch'.pc = "read" /\ srch'.start = srch.start /\ srch'.addr = srch.addr
                     /\ srch'.over = srch.over + 1 /\ srch'.fd = srch.fd /\ srch'.got = srch.got
                  \/ /\ at \in DOMAIN es /\ Matches(es[at])
                     /\ srch'.start = srch.start /\ srch'.addr + srch'.over = at
                     /\ srch'.got = Append(srch.got, es[at].log)
                     /\ \/ srch'.pc = "read" /\ srch'.fd = srch.fd
                        \/ srch'.pc = "page" /\ srch'.over = 0 /\ srch'.num > 0 /\ srch'.page >= srch'.num
<1> DEFINE es == node[srch.fd].entries
           at == srch.addr + srch.over + 1
           t == TimeToNextDay(srch.start)
           log == es[at].log
           got == Append(srch.got, log)
           over == srch.over + 1
           page == srch.page + 1
           addr == srch.addr + over
<1>1. srch \in SrchState /\ srch.pc = "read" /\ srch.fd \in Nodes /\ node \in [Nodes -> File]
  BY DEF SearchRead, TypeInv, SrchOK, DiskOK
<1>2. /\ srch.start \in Nat /\ t \in Nat /\ srch.addr \in Nat /\ srch.over \in Nat /\ srch.page \in Nat
      /\ srch.num \in Nat /\ srch.got \in Seq(Logs)
  BY <1>1, DayFacts DEF SrchState
<1>3. node[srch.fd] \in File
  BY <1>1
<1>4. es \in Seq(Entry) /\ at \in Nat \ {0} /\ 0 \in Handles
  BY <1>2, <1>3, SMTT(30), Z3T(30) DEF File, Handles
<1>5. at > Len(es) \/ at \in DOMAIN es
  BY <1>4, SMTT(30), Z3T(30)
<1>6. at \in DOMAIN es => got \in Seq(Logs)
  <2> SUFFICES ASSUME at \in DOMAIN es PROVE got \in Seq(Logs)
    OBVIOUS
  <2>1. es[at] \in Entry
    BY <1>4, SMTT(30), Z3T(30)
  <2>2. log \in Logs
    BY <2>1 DEF Entry
  <2> QED BY <1>2, <2>2, SMTT(30), Z3T(30)
<1>7. \/ at > Len(es) /\ srch' = [srch EXCEPT !.pc = "day", !.start = t, !.addr = 0, !.over = 0, !.fd = 0]
      \/ at \in DOMAIN es /\ ~Matches(es[at]) /\ srch' = [srch EXCEPT !.over = over]
      \/ /\ at \in DOMAIN es /\ Matches(es[at]) /\ srch.num > 0 /\ page >= srch.num
         /\ srch' = [srch EXCEPT !.got = got, !.page = page, !.pc = "page",
                                 !.addr = addr, !.over = 0, !.fd = 0]
      \/ /\ at \in DOMAIN es /\ Matches(es[at])
         /\ srch' = [srch EXCEPT !.got = got, !.page = page, !.over = over]
  BY <1>5 DEF SearchRead, NextAddr, DayRead
<1>12. over \in Nat /\ page \in Nat /\ addr \in Nat
  BY <1>2, SMTT(30), Z3T(30)
<1> HIDE DEF es, t, log, got, over, page, addr
<1>8. CASE at > Len(es) /\ srch' = [srch EXCEPT !.pc = "day", !.start = t, !.addr = 0, !.over = 0, !.fd = 0]
  BY <1>1, <1>2, <1>4, <1>8 DEF SrchState, SameSearch, es, t, Passed
<1>9. CASE at \in DOMAIN es /\ ~Matches(es[at]) /\ srch' = [srch EXCEPT !.over = over]
  <2>1. srch' \in SrchState
    BY <1>1, <1>12, <1>9 DEF SrchState
  <2>2. /\ srch'.got = srch.got /\ srch'.pc = "read" /\ srch'.start = srch.start /\ srch'.fd = srch.fd
        /\ srch'.addr = srch.addr /\ srch'.over = over /\ SameSearch
    BY <1>1, <1>9 DEF SrchState, SameSearch
  <2> QED BY <1>1, <1>4, <1>9, <2>1, <2>2 DEF es, over, Passed
<1>10. CASE /\ at \in DOMAIN es /\ Matches(es[at]) /\ srch.num > 0 /\ page >= srch.num
            /\ srch' = [srch EXCEPT !.got = got, !.page = page, !.pc = "page",
                                    !.addr = addr, !.over = 0, !.fd = 0]
  <2>1. srch' \in SrchState
    BY <1>1, <1>12, <1>4, <1>6, <1>10 DEF SrchState
  <2>2. /\ srch'.got = got /\ srch'.page = page /\ srch'.pc = "page" /\ srch'.start = srch.start
        /\ srch'.addr = addr /\ srch'.over = 0 /\ SameSearch
    BY <1>1, <1>10 DEF SrchState, SameSearch
  <2>3. srch'.addr + srch'.over = at
    BY <1>2, <2>2, SMTT(30), Z3T(30) DEF addr, over
  <2> QED BY <1>1, <1>4, <1>10, <2>1, <2>2, <2>3 DEF es, got, log, Passed, SameSearch
<1>11. CASE /\ at \in DOMAIN es /\ Matches(es[at])
            /\ srch' = [srch EXCEPT !.got = got, !.page = page, !.over = over]
  <2>1. srch' \in SrchState
    BY <1>1, <1>12, <1>6, <1>11 DEF SrchState
  <2>2. /\ srch'.got = got /\ srch'.pc = "read" /\ srch'.start = srch.start /\ srch'.fd = srch.fd
        /\ srch'.addr = srch.addr /\ srch'.over = over /\ SameSearch
    BY <1>1, <1>11 DEF SrchState, SameSearch
  <2>3. srch'.addr + srch'.over = at
    BY <1>2, <2>2, SMTT(30), Z3T(30) DEF addr, over
  <2> QED BY <1>1, <1>4, <1>11, <2>1, <2>2, <2>3 DEF es, got, log, Passed
<1> QED BY <1>7, <1>8, <1>9, <1>10, <1>11

(* The next page is asked for.                                             *)
LEMMA SearchPageFields ==
    ASSUME TypeInv, SearchPage
    PROVE  \/ srch' = NoSearch
           \/ /\ srch' \in SrchState /\ srch.pc = "page" /\ ~LastPage
              /\ srch'.pc = "day" /\ srch'.start = srch.start /\ srch'.addr = srch.addr /\ srch'.over = srch.over
              /\ srch'.got = srch.got /\ SameSearch
<1>1. srch \in SrchState /\ srch.pc = "page"
  BY DEF SearchPage, TypeInv, SrchOK
<1>2. CASE srch' = NoSearch
  BY <1>2
<1>3. CASE ~LastPage /\ srch' = [srch EXCEPT !.pc = "day", !.page = 0]
  BY <1>1, <1>3 DEF SrchState, SameSearch
<1> QED BY <1>2, <1>3 DEF SearchPage

(* What the deleting thread does to the conditions of a search.            *)
LEMMA UnwantedFields ==
    ASSUME srch \in SrchState, NEW gone, srch' = Unwanted(srch, gone)
    PROVE  /\ srch' \in SrchState /\ srch'.want = srch.want \ gone
           /\ srch'.pc = srch.pc /\ srch'.from = srch.from /\ srch'.start = srch.start /\ srch'.end = srch.end
           /\ srch'.addr = srch.addr /\ srch'.over = srch.over /\ srch'.num = srch.num /\ srch'.page = srch.page
           /\ srch'.fd = srch.fd /\ srch'.got = srch.got /\ srch'.dead = srch.dead
<1> DEFINE w == srch.want \ gone
<1>1. w \in SUBSET Logs
  BY DEF SrchState
<1>2. srch' = [srch EXCEPT !.want = w]
  BY DEF Unwanted
<1> HIDE DEF w
<1>3. srch' \in SrchState /\ srch'.want = w
  BY <1>1, <1>2 DEF SrchState
<1>4. /\ srch'.pc = srch.pc /\ srch'.from = srch.from /\ srch'.start = srch.start /\ srch'.end = srch.end
      /\ srch'.addr = srch.addr /\ srch'.over = srch.over /\ srch'.num = srch.num /\ srch'.page = srch.page
      /\ srch'.fd = srch.fd /\ srch'.got = srch.got /\ srch'.dead = srch.dead
  BY <1>2 DEF SrchState
<1> QED BY <1>3, <1>4 DEF w

(* What a search loses by a failure it need not find; it goes on.          *)
LEMMA SearchFailsFields ==
    ASSUME TypeInv, SearchFails
    PROVE  LET es == node[srch.fd].entries
               at == Passed + 1
               d == Day(srch.start)
           IN  /\ srch' \in SrchState /\ SameSearch /\ srch'.got = srch.got /\ at \in Nat \ {0}
               /\ \/ /\ srch'.pc = "day" /\ srch'.start = TimeToNextDay(srch.start) /\ srch'.addr = 0 /\ srch'.over = 0
                     /\ \/ srch.pc = "day" /\ d \in Present /\ srch'.want = srch.want \ LogsFrom(dir[d], at)
                        \/ srch.pc = "read" /\ srch'.want = srch.want \ LogsFrom(srch.fd, at)
                  \/ /\ srch.pc = "read" /\ at \in DOMAIN es /\ srch'.pc = "read" /\ srch'.start = srch.start
                     /\ srch'.addr = srch.addr /\ srch'.over = srch.over + 1 /\ srch'.fd = srch.fd
                     /\ srch'.want = srch.want \ {es[at].log}
<1> DEFINE es == node[srch.fd].entries
           at == srch.addr + srch.over + 1
           d == Day(srch.start)
           t == TimeToNextDay(srch.start)
           over == srch.over + 1
           lost == LogsFrom(dir[d], at)
           rest == LogsFrom(srch.fd, at)
           log == es[at].log
<1>1. srch \in SrchState /\ (srch.pc = "day" => srch.over = 0)
  BY DEF TypeInv, SrchOK
<1>2. srch.start \in Nat /\ t \in Nat /\ srch.addr \in Nat /\ srch.over \in Nat /\ srch.want \in SUBSET Logs
  BY <1>1, DayFacts DEF SrchState
<1>3. at \in Nat \ {0} /\ over \in Nat /\ (srch.over = 0 => srch.addr + 1 = at) /\ 0 \in Handles
  BY <1>2, SMTT(30), Z3T(30) DEF Handles
<1>4. ASSUME NEW s \in SrchState, NEW gone
      PROVE  Unwanted(s, gone) = [s EXCEPT !.want = s.want \ gone] /\ s.want \ gone \in SUBSET Logs
  BY DEF Unwanted, SrchState
<1>5. CASE srch.pc = "day" /\ d \in Present /\ srch' = Unwanted(SkipDay(srch), lost)
  <2> DEFINE s == [srch EXCEPT !.start = t, !.addr = 0]
             w == srch.want \ lost
  <2>1. s \in SrchState /\ s.want = srch.want /\ s = SkipDay(srch)
    BY <1>1, <1>2 DEF SrchState, SkipDay
  <2> HIDE DEF s
  <2>2. srch' = [s EXCEPT !.want = w] /\ w \in SUBSET Logs
    BY <1>4, <1>5, <2>1
  <2>3. w \subseteq srch.want
    OBVIOUS
  <2> HIDE DEF w, t
  <2>4. srch' \in SrchState
    BY <2>1, <2>2 DEF SrchState
  <2>5. /\ srch'.pc = "day" /\ srch'.start = t /\ srch'.addr = 0 /\ srch'.over = 0 /\ srch'.got = srch.got
        /\ srch'.want = w /\ SameSearch
    BY <1>1, <1>5, <2>2, <2>3 DEF SrchState, SameSearch, s
  <2> HIDE DEF lost, at, d
  <2> QED BY <1>3, <1>5, <2>4, <2>5 DEF w, t, d, at, lost, Passed
<1>6. CASE srch.pc = "read" /\ srch' = Unwanted(DayRead(srch), rest)
  <2> DEFINE s == [srch EXCEPT !.pc = "day", !.start = t, !.addr = 0, !.over = 0, !.fd = 0]
             w == srch.want \ rest
  <2>1. s \in SrchState /\ s.want = srch.want /\ s = DayRead(srch)
    BY <1>1, <1>2, <1>3 DEF SrchState, DayRead
  <2> HIDE DEF s
  <2>2. srch' = [s EXCEPT !.want = w] /\ w \in SUBSET Logs
    BY <1>4, <1>6, <2>1
  <2>3. w \subseteq srch.want
    OBVIOUS
  <2> HIDE DEF w, t
  <2>4. srch' \in SrchState
    BY <2>1, <2>2 DEF SrchState
  <2>5. /\ srch'.pc = "day" /\ srch'.start = t /\ srch'.addr = 0 /\ srch'.over = 0 /\ srch'.got = srch.got
        /\ srch'.want = w /\ SameSearch
    BY <1>1, <1>6, <2>2, <2>3 DEF SrchState, SameSearch, s
  <2> HIDE DEF rest, at
  <2> QED BY <1>3, <1>6, <2>4, <2>5 DEF w, t, at, rest, Passed
<1>7. CASE /\ srch.pc = "read" /\ at <= Len(es)
           /\ srch' = Unwanted([srch EXCEPT !.over = over], {log})
  <2> DEFINE s == [srch EXCEPT !.over = over]
             w == srch.want \ {log}
  <2>1. at \in DOMAIN es
    <3>1. es \in Seq(Entry)
      BY <1>7 DEF TypeInv, SrchOK, DiskOK, File
    <3> QED BY <1>3, <1>7, <3>1, SMTT(30), Z3T(30)
  <2> HIDE DEF over
  <2>2. s \in SrchState /\ s.want = srch.want /\ s = [srch EXCEPT !.over = over]
    BY <1>1, <1>3 DEF SrchState
  <2> HIDE DEF s
  <2>3. srch' = [s EXCEPT !.want = w] /\ w \in SUBSET Logs
    BY <1>4, <1>7, <2>2
  <2>4. w \subseteq srch.want
    OBVIOUS
  <2> HIDE DEF w
  <2>5. srch' \in SrchState
    BY <2>2, <2>3 DEF SrchState
  <2>6. /\ srch'.pc = "read" /\ srch'.start = srch.start /\ srch'.addr = srch.addr /\ srch'.over = over
        /\ srch'.fd = srch.fd /\ srch'.got = srch.got /\ srch'.want = w /\ SameSearch
    BY <1>1, <1>7, <2>3, <2>4 DEF SrchState, SameSearch, s
  <2> HIDE DEF log, at, es
  <2> QED BY <1>3, <1>7, <2>1, <2>5, <2>6 DEF w, over, log, at, es, Passed
<1>8. \/ srch.pc = "day" /\ d \in Present /\ srch' = Unwanted(SkipDay(srch), LogsFrom(dir[d], srch.addr + 1))
      \/ srch.pc = "read" /\ srch' = Unwanted(DayRead(srch), rest)
      \/ srch.pc = "read" /\ at <= Len(es) /\ srch' = Unwanted([srch EXCEPT !.over = over], {log})
  BY DEF SearchFails
<1>9. srch.pc = "day" => srch.addr + 1 = at
  BY <1>1, <1>3
<1> QED BY <1>5, <1>6, <1>7, <1>8, <1>9

(* The file a deletion is marking.                                         *)
LEMMA MarkFile ==
    ASSUME TypeInv, del.pc = "mark"
    PROVE  /\ del.fd \in Nodes /\ node \in [Nodes -> File] /\ node[del.fd] \in File
           /\ node[del.fd].entries \in Seq(Entry) /\ del.addr \in Nat \ {0}
           /\ del.day \in Present /\ del.day \in Days /\ del.day \in del.todo /\ del.fd = dir[del.day]
<1>1. /\ del.fd = dir[del.day] /\ del.day \in Present /\ del.day \in del.todo
      /\ dir \in [Days -> Handles] /\ node \in [Nodes -> File]
      /\ del.addr >= 1 /\ del.addr \in Nat
  BY DEF TypeInv, DelOK, DelState, DiskOK
<1>3. del.fd \in Nodes
  BY <1>1 DEF Present, Handles
<1>4. node[del.fd] \in File
  BY <1>1, <1>3
<1>5. node[del.fd].entries \in Seq(Entry)
  BY <1>4 DEF File
<1> QED BY <1>1, <1>3, <1>4, <1>5, SMTT(30), Z3T(30) DEF Present

(* What a step can do to a search.                                         *)
LEMMA SearchCases ==
    ASSUME TypeInv, [Next]_vars
    PROVE  \/ srch' = srch \/ srch' = NoSearch
           \/ MarkEntry /\ node' # node
           \/ \E d \in Days : Unlink(d)
           \/ /\ UNCHANGED <<disk, queue, added, saver, del, ghosts>>
              /\ \/ \E r \in Ranges, num \in PageSizes : SearchStart(r[1], r[2], num)
                 \/ SearchDay \/ SearchRead \/ SearchPage \/ SearchFails
<1>1. CASE OpenFails \/ ShortWrite \/ Crash
  BY <1>1, RestartQueue
<1>2. CASE addManLog \/ Save \/ UNCHANGED vars
  BY <1>2 DEF addManLog, Save, Count, Take, OpenIndex, WriteIndex, vars
<1>3. CASE (\E t \in Times : delManLogsByTime(t)) \/ (\E u \in UserNos : delManLogsByUserNo(u)) \/ delAllManLog
  BY <1>3 DEF delManLogsByTime, delManLogsByUserNo, delAllManLog
<1>4. CASE DelOpen \/ DelOpenFails \/ DelReturns \/ UnlinkFails
  BY <1>4 DEF DelOpen, DelOpenFails, DelReturns, UnlinkFails
<1>5. CASE MarkEntry
  <2>1. ASSUME node' = node, srch' # srch PROVE FALSE
    <3> DEFINE f == node[del.fd]
    <3>1. /\ del.fd \in Nodes /\ node \in [Nodes -> File] /\ f \in File
          /\ f.entries \in Seq(Entry) /\ del.addr \in Nat \ {0}
      BY <1>5, MarkFile DEF MarkEntry, DelEntry, DelEntryFails
    <3>2. /\ node' = [node EXCEPT ![del.fd] = MarkAt(f, del.addr)] /\ ~f.entries[del.addr].deleted
          /\ ~(del.addr > Len(f.entries)) \/ del.addr <= Len(f.entries)
      BY <1>5, <2>1 DEF MarkEntry, DelEntry, DelEntryFails, Hit
    <3>3. del.addr \in DOMAIN f.entries
      BY <3>1, <3>2, SMTT(30), Z3T(30)
    <3>4. f = MarkAt(f, del.addr)
      BY <2>1, <3>1, <3>2
    <3>5. MarkAt(f, del.addr).entries[del.addr].deleted
      BY <3>1, <3>3, MarkFacts
    <3> QED BY <3>2, <3>4, <3>5
  <2> QED BY <1>5, <2>1
<1>6. CASE (\E r \in Ranges, num \in PageSizes : SearchStart(r[1], r[2], num)) \/ Search \/ SearchFails
  BY <1>6 DEF SearchStart, Search, SearchDay, SearchRead, SearchPage, SearchFails
<1> QED BY <1>1, <1>2, <1>3, <1>4, <1>5, <1>6 DEF Next, Delete, MarkEntry

LEMMA TypeInit == Init => TypeInv
<1> SUFFICES ASSUME Init PROVE TypeInv
  OBVIOUS
<1>1. QueueOK /\ GhostOK
  BY TimeFacts, SMTT(30), Z3T(30) DEF Init, QueueOK, GhostOK
<1>2. DiskOK
  BY SMTT(30), Z3T(30) DEF Init, DiskOK, File, Handles
<1>3. SaverOK
  BY SMTT(30), Z3T(30) DEF Init, SaverOK, NoSaver, Handles
<1>4. DelOK
  BY DEF Init, DelOK, DelState, NoDel, Handles
<1>5. SrchOK
  BY SMTT(30), Z3T(30) DEF Init, SrchOK, SrchState, NoSearch, Handles
<1> QED BY <1>1, <1>2, <1>3, <1>4, <1>5 DEF TypeInv

LEMMA TypeNext == TypeInv /\ [Next]_vars => TypeInv'
  (* The logs are queued in the order they are added, and the queue is the   *)
  (* tail of that order.                                                     *)
<1>QueueNext. TypeInv /\ [Next]_vars => QueueOK'
  <2> SUFFICES ASSUME TypeInv, [Next]_vars PROVE QueueOK'
    OBVIOUS
  <2>1. /\ added \in 0..N /\ queue \in Seq(Logs) /\ Len(queue) <= added /\ Len(queue) \in Nat /\ N \in Nat
        /\ \A p \in 1..Len(queue) : queue[p] = added - Len(queue) + p
    BY TimeFacts, SMTT(30), Z3T(30) DEF TypeInv, QueueOK
  <2>2. CASE addManLog
    <3>1. added' = added + 1 /\ added' \in 0..N /\ added' \in Logs /\ queue' = Append(queue, added')
      BY <2>1, <2>2, SMTT(30), Z3T(30) DEF addManLog, Logs
    <3>2. queue' \in Seq(Logs) /\ Len(queue') = Len(queue) + 1
      BY <2>1, <3>1, SMTT(30), Z3T(30)
    <3>3. ASSUME NEW p \in 1..Len(queue') PROVE queue'[p] = added' - Len(queue') + p
      <4>1. CASE p = Len(queue) + 1
        BY <2>1, <3>1, <3>2, <4>1, SMTT(30), Z3T(30)
      <4>2. CASE p \in 1..Len(queue)
        <5>1. queue'[p] = queue[p]
          BY <2>1, <3>1, <4>2, SMTT(30), Z3T(30)
        <5> QED BY <2>1, <3>1, <3>2, <4>2, <5>1, SMTT(30), Z3T(30)
      <4> QED BY <2>1, <3>2, <4>1, <4>2, SMTT(30), Z3T(30)
    <3> QED BY <2>1, <3>1, <3>2, <3>3, SMTT(30), Z3T(30) DEF QueueOK
  <2>3. CASE Take
    <3>1. queue' = Tail(queue) /\ added' = added /\ queue # <<>>
      BY <2>3, SMTT(30), Z3T(30) DEF Take, TypeInv, SaverOK
    <3>2. /\ queue' \in Seq(Logs) /\ Len(queue') = Len(queue) - 1
          /\ \A p \in 1..Len(queue') : queue'[p] = queue[p + 1]
      BY <2>1, <3>1, SMTT(30), Z3T(30)
    <3>3. ASSUME NEW p \in 1..Len(queue') PROVE queue'[p] = added' - Len(queue') + p
      <4>1. p + 1 \in 1..Len(queue)
        BY <2>1, <3>2, SMTT(30), Z3T(30)
      <4> QED BY <2>1, <3>1, <3>2, <4>1, SMTT(30), Z3T(30)
    <3> QED BY <2>1, <3>1, <3>2, <3>3, SMTT(30), Z3T(30) DEF QueueOK
  <2>4. CASE OpenFails \/ ShortWrite \/ Crash
    <3>1. added' = added /\ (queue' = queue \/ queue' = <<>>)
      BY <2>4, RestartQueue
    <3>2. CASE queue' = queue
      BY <2>1, <3>1, <3>2 DEF QueueOK
    <3>3. CASE queue' = <<>>
      BY <2>1, <3>1, <3>3, SMTT(30), Z3T(30) DEF QueueOK
    <3> QED BY <3>1, <3>2, <3>3
  <2>5. CASE UNCHANGED <<queue, added>>
    BY <2>1, <2>5 DEF QueueOK
  <2> QED BY <2>2, <2>3, <2>4, <2>5
      DEF Next, vars, Save, Search, Delete, Count, OpenIndex, WriteIndex, delManLogsByTime, delManLogsByUserNo,
          delAllManLog, DelOpen, DelOpenFails, DelEntry, DelEntryFails, DelReturns, Unlink, UnlinkFails,
          SearchStart, SearchDay, SearchRead, SearchPage, SearchFails
  (* The directory names files that were made.                               *)
<1>DiskNext. TypeInv /\ [Next]_vars => DiskOK'
  <2> SUFFICES ASSUME TypeInv, [Next]_vars PROVE DiskOK'
    OBVIOUS
  <2>1. /\ used \in Nat /\ dir \in [Days -> Handles] /\ \A d \in Days : dir[d] # 0 => dir[d] \in 1..used
        /\ \A i \in Nodes : i \notin 1..used => node[i].entries = <<>>
    BY DEF TypeInv, DiskOK
  <2>2. node' \in [Nodes -> File] /\ \A i \in Nodes : i \notin 1..used => node'[i].entries = <<>>
    BY <2>1, NodeNext
  <2>3. CASE UNCHANGED <<dir, used>>
    BY <2>1, <2>2, <2>3 DEF DiskOK
  <2>4. CASE \E d \in Days : Unlink(d)
    BY <2>1, <2>2, <2>4 DEF DiskOK, Unlink, Handles
  <2>5. CASE Buf.day \in Days /\ used + 1 \in Nodes /\ used' = used + 1 /\ dir' = [dir EXCEPT ![Buf.day] = used + 1]
    <3>1. used' \in Nat /\ 1..used \subseteq 1..used' /\ used + 1 \in 1..used'
      BY <2>1, <2>5, SMTT(30), Z3T(30)
    <3> QED BY <2>1, <2>2, <2>5, <3>1 DEF DiskOK, Handles
  <2> QED BY <2>3, <2>4, <2>5, DirNext
  (* The saving thread takes logs that are there, and writes a buffer to the *)
  (* file it has opened.                                                     *)
<1>SaverNext. TypeInv /\ [Next]_vars => SaverOK'
  <2> SUFFICES ASSUME TypeInv, [Next]_vars PROVE SaverOK'
    OBVIOUS
  <2> DEFINE State == [pc : {"idle", "take", "open", "write"}, n : Nat, bufs : Seq(Buffer),
                       fd : Handles, errors : Nat]
  <2>1. /\ saver \in State /\ Len(queue) \in Nat /\ used \in Nat
        /\ saver.pc = "take" => saver.n \in 1..Len(queue)
        /\ saver.pc \in {"open", "write"} => saver.bufs # <<>>
        /\ saver.pc = "write" => saver.fd \in Nodes /\ saver.fd \in 1..used
    BY SMTT(30), Z3T(30) DEF TypeInv, SaverOK, QueueOK, DiskOK
  <2>2. /\ saver.n \in Nat /\ saver.bufs \in Seq(Buffer) /\ saver.fd \in Handles /\ saver.errors \in Nat
        /\ saver.pc \in {"idle", "take", "open", "write"}
    BY <2>1
  <2>3. <<>> \in Seq(Buffer) /\ 0 \in Handles
    BY SMTT(30), Z3T(30) DEF Handles
  <2>4. CASE addManLog
    <3>1. UNCHANGED <<saver, used>> /\ Len(queue') = Len(queue) + 1
      BY <2>4, SMTT(30), Z3T(30) DEF addManLog, disk, TypeInv, QueueOK
    <3> QED BY <2>1, <3>1, SMTT(30), Z3T(30) DEF SaverOK
  <2>5. CASE Count
    <3>1. /\ saver' = [saver EXCEPT !.pc = "take", !.n = Len(queue)] /\ Len(queue) > 0 /\ UNCHANGED <<used, queue>>
      BY <2>5 DEF Count, Due, disk
    <3>2. saver' \in State /\ saver'.pc = "take" /\ saver'.n = Len(queue)
      BY <2>1, <3>1
    <3> QED BY <2>1, <3>1, <3>2, SMTT(30), Z3T(30) DEF SaverOK
  <2>6. CASE Take
    <3>1. saver.n \in 1..Len(queue) /\ queue \in Seq(Logs) /\ queue # <<>>
      BY <2>1, <2>6, SMTT(30), Z3T(30) DEF Take, TypeInv, QueueOK
    <3>2. Head(queue) \in Logs /\ Len(queue') = Len(queue) - 1 /\ UNCHANGED used
      BY <2>6, <3>1, SMTT(30), Z3T(30) DEF Take, disk
    <3> DEFINE bs == Buffered(Head(queue))
    <3>3. bs \in Seq(Buffer) /\ bs # <<>>
      BY <3>2, BufferedShape
    <3> HIDE DEF bs
    <3> DEFINE m == saver.n - 1
               next == IF saver.n = 1 THEN "open" ELSE "take"
    <3>4. saver' = [saver EXCEPT !.bufs = bs, !.n = m, !.pc = next]
      BY <2>6 DEF Take, bs
    <3>5. m \in Nat /\ next \in {"open", "take"} /\ (next = "take" => m \in 1..Len(queue'))
      BY <2>1, <3>1, <3>2, SMTT(30), Z3T(30)
    <3> HIDE DEF m, next
    <3>6. saver'.bufs = bs /\ saver'.n = m /\ saver'.pc = next /\ saver' \in State
      BY <2>1, <3>3, <3>4, <3>5
    <3> QED BY <3>3, <3>5, <3>6 DEF SaverOK
  <2>7. CASE OpenIndex
    <3>1. Buf.day \in Days
      BY <2>7, BufType DEF OpenIndex
    <3>2. \E i \in Nodes : i \in 1..used' /\ saver' = [saver EXCEPT !.pc = "write", !.fd = i]
      <4>1. CASE dir[Buf.day] # 0
        <5>1. dir[Buf.day] \in Nodes /\ dir[Buf.day] \in 1..used
          BY <3>1, <4>1 DEF TypeInv, DiskOK, Handles
        <5> QED BY <2>7, <4>1, <5>1 DEF OpenIndex, disk
      <4>2. CASE dir[Buf.day] = 0
        <5>1. used + 1 \in Nodes /\ used' = used + 1 /\ saver' = [saver EXCEPT !.pc = "write", !.fd = used + 1]
          BY <2>7, <4>2 DEF OpenIndex
        <5>2. used + 1 \in 1..(used + 1)
          BY <2>1, SMTT(30), Z3T(30)
        <5> QED BY <5>1, <5>2
      <4> QED BY <4>1, <4>2
    <3>3. PICK i \in Nodes : i \in 1..used' /\ saver' = [saver EXCEPT !.pc = "write", !.fd = i]
      BY <3>2
    <3>4. saver' \in State /\ saver'.pc = "write" /\ saver'.fd = i /\ saver'.bufs = saver.bufs
      BY <2>1, <3>3 DEF Handles
    <3>5. saver.bufs # <<>>
      BY <2>1, <2>7 DEF OpenIndex
    <3> QED BY <3>3, <3>4, <3>5 DEF SaverOK
  <2>8. CASE WriteIndex
    <3>1. saver.bufs # <<>> /\ UNCHANGED <<used, queue>>
      BY <2>1, <2>8 DEF WriteIndex
    <3>2. Tail(saver.bufs) \in Seq(Buffer) /\ (Len(saver.bufs) # 1 => Tail(saver.bufs) # <<>>)
      <4>1. Tail(saver.bufs) \in Seq(Buffer) /\ Len(Tail(saver.bufs)) = Len(saver.bufs) - 1
        BY <2>2, <3>1, SMTT(30), Z3T(30)
      <4> DEFINE t == Tail(saver.bufs)
      <4>2. Len(saver.bufs) \in Nat /\ t \in Seq(Buffer) /\ Len(t) = Len(saver.bufs) - 1
        BY <2>2, <4>1, SMTT(30), Z3T(30)
      <4> HIDE DEF t
      <4>3. t = <<>> => Len(saver.bufs) = 1
        BY <4>2, SMTT(30), Z3T(30)
      <4> QED BY <4>2, <4>3 DEF t
    <3>3. saver' = [saver EXCEPT !.bufs = Tail(saver.bufs), !.fd = 0,
                                 !.pc = IF Len(saver.bufs) = 1 THEN "idle" ELSE "open"]
      BY <2>8 DEF WriteIndex, NextBuffer
    <3>4. /\ saver' \in State /\ saver'.pc = (IF Len(saver.bufs) = 1 THEN "idle" ELSE "open")
          /\ saver'.bufs = Tail(saver.bufs)
      BY <2>1, <2>3, <3>2, <3>3
    <3> QED BY <3>2, <3>4 DEF SaverOK
  <2>9. CASE OpenFails \/ ShortWrite \/ Crash
    <3>1. NoSaver \in State /\ NoSaver.pc = "idle"
      BY <2>3 DEF NoSaver
    <3> DEFINE e == saver.errors + 1
    <3>2. [NoSaver EXCEPT !.errors = e] \in State /\ [NoSaver EXCEPT !.errors = e].pc = "idle"
      <4>1. e \in Nat
        BY <2>2, SMTT(30), Z3T(30)
      <4> HIDE DEF e
      <4> QED BY <3>1, <4>1
    <3>3. saver' \in State /\ saver'.pc = "idle"
      BY <2>9, <3>1, <3>2, RestartQueue
    <3> QED BY <3>3 DEF SaverOK
  <2>10. CASE UNCHANGED <<saver, used, queue>>
    BY <2>1, <2>10 DEF SaverOK
  <2> QED BY <2>4, <2>5, <2>6, <2>7, <2>8, <2>9, <2>10, ZenonT(60)
      DEF Next, vars, disk, Save, Search, Delete, delManLogsByTime, delManLogsByUserNo, delAllManLog, DelOpen,
          DelOpenFails, DelEntry, DelEntryFails, DelReturns, Unlink, UnlinkFails, SearchStart, SearchDay, SearchRead,
          SearchPage, SearchFails
  (* The ghost variables hold logs.                                          *)
<1>GhostNext. TypeInv /\ [Next]_vars => GhostOK'
  <2> SUFFICES ASSUME TypeInv, [Next]_vars PROVE GhostOK'
    OBVIOUS
  <2>1. saved \subseteq Logs /\ safe \subseteq Logs /\ cut \in Nat /\ added \in 0..N
    BY DEF TypeInv, GhostOK, QueueOK
  <2>2. CASE addManLog
    <3>1. added' \in Logs
      BY <2>1, <2>2, TimeFacts, SMTT(30), Z3T(30) DEF addManLog, Logs
    <3> QED BY <2>1, <2>2, <3>1 DEF addManLog, GhostOK
  <2>3. CASE WriteIndex
    <3>1. \A p \in DOMAIN Buf.logs : Buf.logs[p] \in Logs
      BY <2>3, BufType, SMTT(30), Z3T(30) DEF WriteIndex
    <3> QED BY <2>1, <2>3, <3>1 DEF WriteIndex, GhostOK
  <2>4. CASE OpenFails \/ ShortWrite \/ Crash
    BY <2>1, <2>4, RestartQueue DEF GhostOK, ghosts
  <2>5. ASSUME NEW t \in Times, delManLogsByTime(t) PROVE GhostOK'
    <3>1. t \in Nat
      BY TimeFacts DEF Times
    <3> QED BY <2>1, <2>5, <3>1 DEF delManLogsByTime, GhostOK
  <2>6. CASE delAllManLog
    BY <2>1, <2>6 DEF delAllManLog, GhostOK
  <2>7. CASE UNCHANGED ghosts
    BY <2>1, <2>7 DEF GhostOK, ghosts
  <2> QED BY <2>2, <2>3, <2>4, <2>5, <2>6, <2>7
      DEF Next, vars, Save, Search, Delete, Count, Take, OpenIndex, delManLogsByUserNo, DelOpen, DelOpenFails,
          DelEntry, DelEntryFails, DelReturns, Unlink, UnlinkFails, SearchStart, SearchDay, SearchRead, SearchPage,
          SearchFails
  (* A deletion works on files that are in the directory: only a deletion    *)
  (* takes one out, and only one deletion runs.                              *)
<1>DelNext. TypeInv /\ [Next]_vars => DelOK'
  <2> SUFFICES ASSUME TypeInv, [Next]_vars PROVE DelOK'
    OBVIOUS
  <2>1. /\ del \in DelState /\ del.todo \subseteq Present /\ dir \in [Days -> Handles] /\ del.todo \in SUBSET Days
        /\ del.pc \in {"open", "mark"} => del.todo # {}
        /\ del.pc \in {"none", "done"} => del.todo = {}
        /\ del.pc = "none" => del.due = {}
        /\ del.pc = "mark" => del.day \in del.todo /\ del.fd = dir[del.day] /\ del.addr >= 1
    BY DEF TypeInv, DelOK, DelState, DiskOK
  <2>2. Live \in SUBSET Logs
    BY LiveFacts
  <2>3. NoDel \in DelState /\ NoDel.pc = "none" /\ NoDel.todo = {} /\ NoDel.due = {}
    BY DEF NoDel, DelState, Handles
  <2>4. CASE del' = NoDel
    BY <2>3, <2>4 DEF DelOK
  <2>5. CASE UNCHANGED <<del, dir>>
    <3>1. Present' = Present
      BY <2>5 DEF Present
    <3> QED BY <2>1, <2>5, <3>1 DEF DelOK
  <2>6. CASE OpenIndex
    <3>1. del' = del /\ \A d \in Present : dir'[d] = dir[d]
      BY <2>1, <2>6, DirNext DEF OpenIndex, Present, disk
    <3>2. Present \subseteq Present'
      BY <3>1 DEF Present
    <3> QED BY <2>1, <3>1, <3>2 DEF DelOK
  <2>7. ASSUME NEW t \in Times, delManLogsByTime(t) PROVE DelOK'
    <3> DEFINE files == {d \in Present : Named(d, t)}
               due == {l \in Live : Time[l] <= t}
               next == IF files = {} THEN "done" ELSE "open"
    <3>1. del' = [NoDel EXCEPT !.pc = next, !.bound = t, !.todo = files, !.due = due] /\ UNCHANGED dir
      BY <2>7 DEF delManLogsByTime, disk
    <3>2. /\ t \in Nat /\ files \in SUBSET Days /\ files \subseteq Present /\ due \in SUBSET Logs
          /\ next \in {"done", "open"}
          /\ next = "done" <=> files = {}
      BY <2>2, TimeFacts DEF Times, Present
    <3> HIDE DEF files, due, next
    <3>3. del' \in DelState /\ del'.pc = next /\ del'.todo = files
      BY <2>3, <3>1, <3>2 DEF DelState
    <3>4. Present' = Present
      BY <3>1 DEF Present
    <3> QED BY <3>2, <3>3, <3>4 DEF DelOK
  <2>8. ASSUME NEW u \in UserNos, delManLogsByUserNo(u) PROVE DelOK'
    <3> DEFINE next == IF Present = {} THEN "done" ELSE "open"
    <3>1. del' = [NoDel EXCEPT !.pc = next, !.bound = u, !.todo = Present] /\ UNCHANGED dir
      BY <2>8 DEF delManLogsByUserNo, disk
    <3>2. u \in Nat /\ Present \in SUBSET Days /\ next \in {"done", "open"} /\ (next = "done" <=> Present = {})
      BY LogAssumption DEF Present
    <3> HIDE DEF next
    <3>3. del' \in DelState /\ del'.pc = next /\ del'.todo = Present
      BY <2>3, <3>1, <3>2 DEF DelState
    <3>4. Present' = Present
      BY <3>1 DEF Present
    <3> QED BY <3>2, <3>3, <3>4 DEF DelOK
  <2>9. CASE delAllManLog
    <3>1. del' = [NoDel EXCEPT !.pc = "unlink", !.todo = Present, !.due = Live] /\ UNCHANGED dir
      BY <2>9 DEF delAllManLog, disk
    <3>2. Present \in SUBSET Days
      BY DEF Present
    <3>3. del' \in DelState /\ del'.pc = "unlink" /\ del'.todo = Present
      BY <2>2, <2>3, <3>1, <3>2 DEF DelState
    <3>4. Present' = Present
      BY <3>1 DEF Present
    <3> QED BY <3>3, <3>4 DEF DelOK
  <2>10. ASSUME NEW d, del' = DelNextFile(d), del.pc \in {"open", "mark"}, UNCHANGED dir PROVE DelOK'
    <3>1. /\ del' \in DelState /\ del'.todo = del.todo \ {d}
          /\ del'.pc = (IF del.todo \ {d} = {} THEN "done" ELSE "open")
      BY <2>10, DelNextFacts
    <3>2. Present' = Present
      BY <2>10 DEF Present
    <3> QED BY <2>1, <3>1, <3>2 DEF DelOK
  <2>11. CASE DelOpen
    <3>1. PICK d \in Days : NextFile(d) /\ del' = IF dir[d] = 0 THEN DelNextFile(d)
                             ELSE [del EXCEPT !.pc = "mark", !.day = d, !.fd = dir[d], !.addr = 1]
      BY <2>11 DEF DelOpen
    <3>2. /\ d \in del.todo /\ d \in Nat /\ dir[d] \in Handles /\ dir[d] # 0 /\ Present' = Present
          /\ UNCHANGED dir /\ del.pc = "open"
      BY <2>1, <2>11, <3>1, TimeFacts DEF DelOpen, disk, NextFile, Present
    <3>3. del' \in DelState /\ del'.pc = "mark" /\ del'.day = d /\ del'.fd = dir[d] /\ del'.addr = 1 /\ del'.todo = del.todo
      BY <2>1, <3>1, <3>2 DEF DelState
    <3> QED BY <2>1, <3>2, <3>3, SMTT(30), Z3T(30) DEF DelOK
  <2>12. CASE DelEntry /\ del' # DelNextFile(del.day)
    <3>1. del' = [del EXCEPT !.addr = del.addr + 1] /\ del.pc = "mark" /\ UNCHANGED dir
      BY <2>12 DEF DelEntry
    <3>2. del.addr + 1 \in Nat /\ del.addr + 1 >= 1
      BY <2>1, SMTT(30), Z3T(30) DEF DelState
    <3>3. /\ del' \in DelState /\ del'.pc = del.pc /\ del'.day = del.day /\ del'.fd = del.fd
          /\ del'.addr = del.addr + 1 /\ del'.todo = del.todo
      BY <2>1, <3>1, <3>2 DEF DelState
    <3>4. Present' = Present
      BY <3>1 DEF Present
    <3> QED BY <2>1, <3>1, <3>2, <3>3, <3>4 DEF DelOK
  <2>13. ASSUME NEW d \in Days, Unlink(d) PROVE DelOK'
    <3>1. del' = [del EXCEPT !.todo = del.todo \ {d}] /\ dir' = [dir EXCEPT ![d] = 0] /\ del.pc = "unlink"
      BY <2>13 DEF Unlink
    <3>2. del.todo \ {d} \in SUBSET Days
      BY <2>1
    <3>3. del' \in DelState /\ del'.pc = "unlink" /\ del'.todo = del.todo \ {d}
      BY <2>1, <3>1, <3>2 DEF DelState
    <3>4. Present' = Present \ {d}
      BY <2>1, <3>1 DEF Present
    <3> QED BY <2>1, <3>3, <3>4 DEF DelOK
  <2>15. ASSUME NEW d \in Days, del' = DelGivesUp(d), UNCHANGED dir PROVE DelOK'
    <3>1. /\ del' \in DelState /\ del'.todo = del.todo \ {d}
          /\ del'.pc = (IF del.todo \ {d} = {} THEN "done" ELSE "open")
      BY <2>15, DelGivesUpFacts
    <3>2. Present' = Present
      BY <2>15 DEF Present
    <3> QED BY <2>1, <3>1, <3>2 DEF DelOK
  <2>16. CASE DelOpenFails
    BY <2>15, <2>16 DEF DelOpenFails, Present, disk
  <2>17. CASE DelEntryFails
    BY <2>15, <2>17, MarkFile DEF DelEntryFails
  <2>18. CASE UnlinkFails
    <3>1. PICK d \in del.todo : del' = [del EXCEPT !.todo = del.todo \ {d}, !.failed = del.failed \cup {d}]
      BY <2>18 DEF UnlinkFails
    <3> DEFINE rest == del.todo \ {d}
               up == del.failed \cup {d}
    <3>2. rest \in SUBSET Days /\ up \in SUBSET Days /\ rest \subseteq Present /\ UNCHANGED dir /\ del.pc = "unlink"
      BY <2>1, <2>18 DEF UnlinkFails, DelState, disk
    <3> HIDE DEF rest, up
    <3>3. del' = [del EXCEPT !.todo = rest, !.failed = up]
      BY <3>1 DEF rest, up
    <3>4. del' \in DelState /\ del'.pc = "unlink" /\ del'.todo = rest
      BY <2>1, <3>2, <3>3 DEF DelState
    <3>5. Present' = Present
      BY <3>2 DEF Present
    <3> QED BY <3>2, <3>4, <3>5 DEF DelOK
  <2>14. CASE OpenFails \/ ShortWrite \/ Crash
    <3>1. (del' = del \/ del' = NoDel) /\ UNCHANGED dir
      BY <2>14, RestartQueue DEF OpenFails, ShortWrite, Crash, disk
    <3> QED BY <2>4, <2>5, <3>1
  <2> QED BY <2>4, <2>5, <2>6, <2>7, <2>8, <2>9, <2>10, <2>11, <2>12, <2>13, <2>14, <2>16,
             <2>17, <2>18, ZenonT(60)
      DEF Next, vars, disk, Save, Search, Delete, addManLog, Count, Take, WriteIndex, DelOpen, DelEntry, DelReturns,
          SearchStart, SearchDay, SearchRead, SearchPage, SearchFails
<1>SrchNext. TypeInv /\ [Next]_vars => SrchOK'
  <2> SUFFICES ASSUME TypeInv, [Next]_vars PROVE SrchOK'
    OBVIOUS
  <2>1. SrchOK /\ srch \in SrchState /\ used \in Nat
    BY DEF TypeInv, SrchOK, DiskOK
  <2>2. 1..used \subseteq 1..used'
    <3>1. used' = used \/ used' = used + 1
      BY DirNext DEF Unlink
    <3> QED BY <2>1, <3>1, SMTT(30), Z3T(30)
  <2>3. CASE srch' = srch
    BY <2>1, <2>2, <2>3 DEF SrchOK
  <2>4. CASE srch' = NoSearch
    BY <2>4, SMTT(30), Z3T(30) DEF NoSearch, SrchState, SrchOK, Handles
  <2>5. ASSUME NEW gone, srch' = Unwanted(srch, gone) PROVE SrchOK'
    BY <2>1, <2>2, <2>5, UnwantedFields DEF SrchOK
  <2>6. CASE MarkEntry /\ node' # node
    BY <2>5, <2>6, MarkStep
  <2>7. CASE \E d \in Days : Unlink(d)
    BY <2>5, <2>7 DEF Unlink
  <2>8. CASE /\ UNCHANGED <<disk, queue, added, saver, del, ghosts>>
             /\ \/ \E r \in Ranges, num \in PageSizes : SearchStart(r[1], r[2], num)
                \/ SearchDay \/ SearchRead \/ SearchPage \/ SearchFails
    <3>1. CASE \E r \in Ranges, num \in PageSizes : SearchStart(r[1], r[2], num)
      BY <3>1, SearchStartFields DEF SrchOK
    <3>2. CASE SearchDay
      <4>1. ASSUME srch'.pc = "read" PROVE srch'.fd \in Nodes /\ srch'.fd \in 1..used'
        BY <2>8, <3>2, <4>1, SearchDayFields DEF Present, TypeInv, DiskOK, Handles, disk
      <4> QED BY <3>2, <4>1, SearchDayFields DEF SrchOK
    <3>3. CASE SearchRead
      <4>1. srch.fd \in Nodes /\ srch.fd \in 1..used'
        BY <2>1, <2>2, <3>3 DEF SrchOK, SearchRead
      <4> QED BY <3>3, <4>1, SearchReadFields DEF SrchOK
    <3>4. CASE SearchPage
      BY <2>1, <2>4, <3>4, SearchPageFields DEF SrchOK
    <3>5. CASE SearchFails
      <4>1. srch.pc = "read" => srch.fd \in Nodes /\ srch.fd \in 1..used'
        BY <2>1, <2>2 DEF SrchOK
      <4> QED BY <3>5, <4>1, SearchFailsFields DEF SrchOK
    <3> QED BY <2>8, <3>1, <3>2, <3>3, <3>4, <3>5
  <2> QED BY <2>3, <2>4, <2>6, <2>7, <2>8, SearchCases
<1> QED BY <1>QueueNext, <1>DiskNext, <1>SaverNext, <1>DelNext, <1>SrchNext, <1>GhostNext DEF TypeInv

-----------------------------------------------------------------------------
(* Files grow by what the saving thread writes.                            *)
LEMMA GrowthCases ==
    ASSUME TypeInv, [Next]_vars, ~(WriteIndex \/ ShortWrite)
    PROVE  \A i \in Nodes : DOMAIN node'[i].entries = DOMAIN node[i].entries
<1>1. CASE MarkEntry /\ node' # node
  <2>1. /\ del.fd \in Nodes /\ node[del.fd] \in File /\ del.addr \in DOMAIN node[del.fd].entries
        /\ node' = [node EXCEPT ![del.fd] = MarkAt(node[del.fd], del.addr)]
    BY <1>1, MarkStep
  <2>2. MarkAt(node[del.fd], del.addr) \in File
        /\ Len(MarkAt(node[del.fd], del.addr).entries) = Len(node[del.fd].entries)
    BY <2>1, MarkFacts
  <2>3. DOMAIN MarkAt(node[del.fd], del.addr).entries = DOMAIN node[del.fd].entries
    BY <2>1, <2>2, SMTT(30), Z3T(30) DEF File
  <2> QED BY <2>1, <2>3 DEF TypeInv, DiskOK
<1>2. CASE node' = node
  BY <1>2
<1>3. CASE Crash
  BY <1>3, CrashStep
<1> QED BY <1>1, <1>2, <1>3
    DEF Next, vars, disk, Save, Search, Delete, MarkEntry, addManLog, Count, Take, OpenIndex, OpenFails,
        delManLogsByTime, delManLogsByUserNo, delAllManLog, DelOpen, DelOpenFails, DelReturns, Unlink, UnlinkFails,
        SearchStart, SearchDay, SearchRead, SearchPage, SearchFails

(* What a step can do to the buffers.                                      *)
LEMMA BufferCases ==
    ASSUME TypeInv, [Next]_vars
    PROVE  /\ Taken \in Nat /\ Taken' \in Nat /\ Taken <= Taken'
           /\ \/ saver'.bufs = saver.bufs /\ saved' = saved /\ ~(WriteIndex \/ ShortWrite)
              \/ /\ Taken + 1 \in Logs /\ Taken' = Taken + 1 /\ saver'.bufs = Buffered(Taken + 1)
                 /\ saved' = saved /\ ~(WriteIndex \/ ShortWrite)
              \/ /\ WriteIndex /\ saver.bufs # <<>> /\ saver'.bufs = Tail(saver.bufs)
                 /\ saved' = saved \cup {Buf.logs[k] : k \in DOMAIN Buf.logs}
              \/ saver'.bufs = <<>> /\ saved' = saved
<1>1. /\ added \in Nat /\ queue \in Seq(Logs) /\ Len(queue) \in Nat /\ Len(queue) <= added
      /\ \A p \in 1..Len(queue) : queue[p] = added - Len(queue) + p
  BY TimeFacts, SMTT(30), Z3T(30) DEF TypeInv, QueueOK
<1>2. Taken \in Nat
  BY <1>1, SMTT(30), Z3T(30) DEF Taken
<1>3. saver \in [pc : {"idle", "take", "open", "write"}, n : Nat, bufs : Seq(Buffer), fd : Handles, errors : Nat]
  BY DEF TypeInv, SaverOK
<1>4. CASE UNCHANGED <<queue, added, saver, saved>> /\ ~(WriteIndex \/ ShortWrite)
  BY <1>2, <1>4, SMTT(30), Z3T(30) DEF Taken
<1>5. CASE addManLog
  <2>1. added' = added + 1 /\ queue' = Append(queue, added') /\ saver' = saver /\ saved' = saved
    BY <1>5 DEF addManLog
  <2>2. Len(queue') = Len(queue) + 1
    BY <1>1, <2>1, SMTT(30), Z3T(30)
  <2>3. Taken' = Taken
    BY <1>1, <2>1, <2>2, SMTT(30), Z3T(30) DEF Taken
  <2>4. added' # added
    BY <1>1, <2>1, SMTT(30), Z3T(30)
  <2> QED BY <1>2, <1>5, <2>1, <2>3, <2>4, SMTT(30), Z3T(30) DEF WriteIndex, ShortWrite
<1>6. CASE Count
  <2>1. saver'.bufs = saver.bufs /\ saved' = saved /\ queue' = queue /\ added' = added /\ saver.pc = "idle"
    BY <1>3, <1>6 DEF Count, ghosts
  <2> QED BY <1>2, <2>1, SMTT(30), Z3T(30) DEF Taken, WriteIndex, ShortWrite
<1>7. CASE Take
  <2>1. saver'.bufs = Buffered(Head(queue)) /\ queue' = Tail(queue) /\ saved' = saved /\ added' = added
        /\ saver.pc = "take"
    BY <1>3, <1>7 DEF Take, ghosts
  <2>2. saver.n \in 1..Len(queue)
    BY <2>1 DEF TypeInv, SaverOK
  <2>3. queue # <<>> /\ 1 \in 1..Len(queue)
    BY <1>1, <2>2, SMTT(30), Z3T(30)
  <2>4. Head(queue) = queue[1] /\ queue[1] \in Logs /\ Len(queue') = Len(queue) - 1
    BY <1>1, <2>1, <2>3, SMTT(30), Z3T(30)
  <2>5. queue[1] = Taken + 1 /\ Taken' = Taken + 1
    BY <1>1, <2>1, <2>3, <2>4, SMTT(30), Z3T(30) DEF Taken
  <2> QED BY <1>2, <2>1, <2>4, <2>5, SMTT(30), Z3T(30) DEF WriteIndex, ShortWrite
<1>8. CASE OpenIndex
  <2>1. saver'.bufs = saver.bufs /\ saved' = saved /\ queue' = queue /\ added' = added /\ saver.pc = "open"
    BY <1>3, <1>8 DEF OpenIndex, ghosts
  <2> QED BY <1>2, <2>1, SMTT(30), Z3T(30) DEF Taken, WriteIndex, ShortWrite
<1>9. CASE WriteIndex
  <2>1. /\ saver' = NextBuffer /\ queue' = queue /\ added' = added /\ saver.pc = "write"
        /\ saved' = saved \cup {Buf.logs[k] : k \in DOMAIN Buf.logs}
    BY <1>9 DEF WriteIndex
  <2>2. saver'.bufs = Tail(saver.bufs)
    BY <1>3, <2>1 DEF NextBuffer
  <2>3. saver.bufs # <<>>
    BY <2>1 DEF TypeInv, SaverOK
  <2> QED BY <1>2, <1>9, <2>1, <2>2, <2>3, SMTT(30), Z3T(30) DEF Taken
<1>10. CASE OpenFails \/ ShortWrite \/ Crash
  <2>1. saver'.bufs = <<>> /\ saved' = saved /\ added' = added /\ (queue' = queue \/ queue' = <<>>)
    BY <1>10, RestartQueue, SMTT(30), Z3T(30) DEF NoSaver, ghosts
  <2>2. Len(queue') \in Nat /\ Len(queue') <= Len(queue)
    BY <1>1, <2>1, SMTT(30), Z3T(30)
  <2>3. Taken' \in Nat /\ Taken <= Taken'
    BY <1>1, <2>1, <2>2, SMTT(30), Z3T(30) DEF Taken
  <2> QED BY <1>2, <2>1, <2>3
<1>11. CASE (\E t \in Times : delManLogsByTime(t)) \/ (\E u \in UserNos : delManLogsByUserNo(u)) \/ delAllManLog
  <2>1. UNCHANGED <<queue, added, saver, saved>>
    BY <1>11 DEF delManLogsByTime, delManLogsByUserNo, delAllManLog, ghosts
  <2> QED BY <1>4, <1>9, <1>10, <2>1
<1>12. CASE \/ Delete \/ DelOpenFails \/ DelEntryFails \/ UnlinkFails \/ Search \/ SearchFails \/ UNCHANGED vars
             \/ \E r \in Ranges, num \in PageSizes : SearchStart(r[1], r[2], num)
  <2>1. UNCHANGED <<queue, added, saver, saved>>
    BY <1>12
    DEF Delete, DelOpen, DelOpenFails, DelEntry, DelEntryFails, DelReturns, Unlink, UnlinkFails, SearchStart, Search,
        SearchDay, SearchRead, SearchPage, SearchFails, vars, ghosts
  <2> QED BY <1>4, <1>9, <1>10, <2>1
<1> QED BY <1>5, <1>6, <1>7, <1>8, <1>9, <1>10, <1>11, <1>12 DEF Next, Save

(* Once the saving thread is through with a log, it stays so.              *)
LEMMA SettledNext == TypeInv /\ [Next]_vars => Settled \subseteq Settled'
<1> SUFFICES ASSUME TypeInv, [Next]_vars, NEW l \in Logs, l <= Taken, ~Buffers(l)
             PROVE  l <= Taken' /\ ~Buffers(l)'
  BY DEF Settled
<1>1. l \in Nat /\ Taken \in Nat /\ Taken' \in Nat /\ Taken <= Taken'
  BY TimeFacts, BufferCases
<1>2. l <= Taken'
  BY <1>1, SMTT(30), Z3T(30)
<1>3. saver.bufs \in Seq(Buffer)
  BY DEF TypeInv, SaverOK
<1>4. CASE saver'.bufs = saver.bufs
  BY <1>2, <1>4 DEF Buffers
<1>5. CASE Taken + 1 \in Logs /\ saver'.bufs = Buffered(Taken + 1)
  <2> DEFINE b == Buffered(Taken + 1)
  <2>1. PICK k \in 1..(Len(saver.bufs) + 1), ls \in Seq(Logs) :
                 /\ DOMAIN b = DOMAIN saver.bufs \cup {k}
                 /\ b[k] = [day |-> Day(Time[Taken + 1]), logs |-> Append(ls, Taken + 1)]
                 /\ \A j \in DOMAIN saver.bufs : j # k => b[j] = saver.bufs[j]
                 /\ \/ /\ k \in DOMAIN saver.bufs
                       /\ ls = saver.bufs[k].logs /\ saver.bufs[k].day = Day(Time[Taken + 1])
                    \/ /\ k \notin DOMAIN saver.bufs
                       /\ ls = <<>> /\ \A j \in DOMAIN saver.bufs : saver.bufs[j].day # Day(Time[Taken + 1])
    BY <1>5, BufferedShape
  <2>2. l # Taken + 1
    BY <1>1, SMTT(30), Z3T(30)
  <2>3. ASSUME NEW j \in DOMAIN b, NEW p \in DOMAIN b[j].logs, b[j].logs[p] = l PROVE FALSE
    <3>1. CASE j = k
      <4>1. b[j].logs = Append(ls, Taken + 1)
        BY <2>1, <3>1, SMTT(30), Z3T(30)
      <4>2. p \in DOMAIN ls /\ ls[p] = l
        BY <1>5, <2>2, <2>3, <4>1, SMTT(30), Z3T(30)
      <4> QED BY <2>1, <4>2, SMTT(30), Z3T(30) DEF Buffers
    <3>2. CASE j # k
      BY <2>1, <2>3, <3>2 DEF Buffers
    <3> QED BY <3>1, <3>2
  <2> QED BY <1>2, <1>5, <2>3 DEF Buffers
<1>6. CASE saver.bufs # <<>> /\ saver'.bufs = Tail(saver.bufs)
  <2>1. \A j \in DOMAIN saver'.bufs : j + 1 \in DOMAIN saver.bufs /\ saver'.bufs[j] = saver.bufs[j + 1]
    BY <1>3, <1>6, SMTT(30), Z3T(30)
  <2> QED BY <1>2, <2>1, ZenonT(60) DEF Buffers
<1>7. CASE saver'.bufs = <<>>
  BY <1>2, <1>7, SMTT(30), Z3T(30) DEF Buffers
<1> QED BY <1>4, <1>5, <1>6, <1>7, BufferCases

(* What is written becomes settled with the step that writes it.           *)
LEMMA WrittenSettles ==
    ASSUME TypeInv, OnceInv, [Next]_vars, WriteIndex \/ ShortWrite
    PROVE  \A p \in DOMAIN Buf.logs : Buf.logs[p] \in Settled' /\ Buf.logs[p] \notin Settled
<1> SUFFICES ASSUME NEW p \in DOMAIN Buf.logs, NEW l, l = Buf.logs[p] PROVE l \in Settled' /\ l \notin Settled
  OBVIOUS
<1>1. /\ 1 \in DOMAIN saver.bufs /\ Buf = saver.bufs[1] /\ Buf \in Buffer /\ Buf.logs \in Seq(Logs)
      /\ saver.bufs \in Seq(Buffer) /\ saver.bufs # <<>>
  BY BufType DEF WriteIndex, ShortWrite, TypeInv, SaverOK
<1>2. l \in Logs /\ l <= Taken /\ Day(Time[l]) = Buf.day
  BY <1>1, SMTT(30), Z3T(30) DEF OnceInv, BufOK
<1>3. Buffers(l)
  BY <1>1 DEF Buffers
<1>4. l \in Nat /\ l <= Taken'
  BY <1>2, BufferCases, TimeFacts, SMTT(30), Z3T(30)
<1>5. saver'.bufs = Tail(saver.bufs) \/ saver'.bufs = <<>>
  BY BufferCases
<1>6. ~Buffers(l)'
  <2>1. CASE saver'.bufs = <<>>
    BY <2>1, SMTT(30), Z3T(30) DEF Buffers
  <2>2. CASE saver'.bufs = Tail(saver.bufs)
    <3>1. \A j \in DOMAIN saver'.bufs :
              j \in Nat \ {0} /\ j + 1 \in DOMAIN saver.bufs /\ saver'.bufs[j] = saver.bufs[j + 1]
      BY <1>1, <2>2, SMTT(30), Z3T(30)
    <3>2. ASSUME NEW j \in DOMAIN saver'.bufs, NEW q \in DOMAIN saver'.bufs[j].logs, saver'.bufs[j].logs[q] = l
          PROVE  FALSE
      <4>1. saver.bufs[j + 1].day = Buf.day
        BY <1>2, <3>1, <3>2, SMTT(30), Z3T(30) DEF OnceInv, BufOK
      <4>2. j + 1 = 1
        BY <1>1, <3>1, <4>1 DEF OnceInv
      <4>3. j \in Nat \ {0}
        BY <3>1
      <4> QED BY <4>2, <4>3, SMTT(30), Z3T(30)
    <3> QED BY <3>2 DEF Buffers
  <2> QED BY <1>5, <2>1, <2>2
<1> QED BY <1>2, <1>3, <1>4, <1>6 DEF Settled

(* Every log is written once.                                              *)
LEMMA OnceNext == TypeInv /\ OnceInv /\ [Next]_vars => OnceInv'
  (* The buffers hold the logs of one day each, in the order of the queue.   *)
<1>BuffersNext. TypeInv /\ OnceInv /\ [Next]_vars =>
                    /\ \A j \in DOMAIN saver'.bufs : BufOK(saver.bufs[j])'
                    /\ \A j, k \in DOMAIN saver'.bufs : saver'.bufs[j].day = saver'.bufs[k].day => j = k
  <2> SUFFICES ASSUME TypeInv, OnceInv, [Next]_vars
               PROVE  /\ \A j \in DOMAIN saver'.bufs : BufOK(saver.bufs[j])'
                      /\ \A j, k \in DOMAIN saver'.bufs : saver'.bufs[j].day = saver'.bufs[k].day => j = k
    OBVIOUS
  <2>1. /\ saver.bufs \in Seq(Buffer)
        /\ \A j \in DOMAIN saver.bufs : BufOK(saver.bufs[j])
        /\ \A j, k \in DOMAIN saver.bufs : saver.bufs[j].day = saver.bufs[k].day => j = k
    BY DEF TypeInv, SaverOK, OnceInv
  <2>2. Taken \in Nat /\ Taken' \in Nat /\ Taken <= Taken'
    BY BufferCases
  <2>3. ASSUME NEW j \in DOMAIN saver.bufs, NEW k \in DOMAIN saver'.bufs, saver'.bufs[k] = saver.bufs[j]
        PROVE  BufOK(saver.bufs[k])'
    <3>3. saver.bufs[j] \in Buffer
      BY <2>1, SMTT(30), Z3T(30)
    <3>1. saver.bufs[j].logs \in Seq(Logs)
      BY <3>3 DEF Buffer
    <3>2. \A p \in DOMAIN saver.bufs[j].logs : saver.bufs[j].logs[p] \in Nat /\ saver.bufs[j].logs[p] <= Taken
      BY <2>1, <3>1, TimeFacts, SMTT(30), Z3T(30) DEF BufOK
    <3> QED BY <2>1, <2>2, <2>3, <3>2, SMTT(30), Z3T(30) DEF BufOK
  <2>4. CASE saver'.bufs = saver.bufs
    BY <2>1, <2>3, <2>4
  <2>5. CASE Taken + 1 \in Logs /\ Taken' = Taken + 1 /\ saver'.bufs = Buffered(Taken + 1)
    <3> DEFINE b == Buffered(Taken + 1)
               d == Day(Time[Taken + 1])
    <3>1. PICK k \in 1..(Len(saver.bufs) + 1), ls \in Seq(Logs) :
                   /\ DOMAIN b = DOMAIN saver.bufs \cup {k}
                   /\ b[k] = [day |-> d, logs |-> Append(ls, Taken + 1)]
                   /\ \A j \in DOMAIN saver.bufs : j # k => b[j] = saver.bufs[j]
                   /\ \/ /\ k \in DOMAIN saver.bufs
                         /\ ls = saver.bufs[k].logs /\ saver.bufs[k].day = d
                      \/ /\ k \notin DOMAIN saver.bufs
                         /\ ls = <<>> /\ \A j \in DOMAIN saver.bufs : saver.bufs[j].day # d
      BY <2>5, BufferedShape
    <3> HIDE DEF b, d
    <3>2. BufOK(saver.bufs[k])'
      <4> DEFINE new == Append(ls, Taken + 1)
      <4>1. \A p \in DOMAIN ls : ls[p] \in Nat /\ ls[p] <= Taken /\ Day(Time[ls[p]]) = d
        BY <2>1, <3>1, TimeFacts, SMTT(30), Z3T(30) DEF BufOK
      <4>2. \A p, q \in DOMAIN ls : p < q => ls[p] < ls[q]
        BY <2>1, <3>1, SMTT(30), Z3T(30) DEF BufOK
      <4>3. /\ DOMAIN ls = 1..Len(ls) /\ Len(ls) \in Nat /\ DOMAIN new = 1..(Len(ls) + 1)
            /\ new[Len(ls) + 1] = Taken + 1 /\ \A p \in DOMAIN ls : new[p] = ls[p]
        BY <2>5, SMTT(30), Z3T(30)
      <4> HIDE DEF new
      <4>4. \A p \in DOMAIN new : p \in DOMAIN ls \/ p = Len(ls) + 1
        BY <4>3, SMTT(30), Z3T(30)
      <4>5. \A p \in DOMAIN new : new[p] <= Taken + 1 /\ Day(Time[new[p]]) = d
        BY <2>2, <4>1, <4>3, <4>4, SMTT(30), Z3T(30) DEF d
      <4>6. \A p, q \in DOMAIN new : p < q => new[p] < new[q]
        <5> SUFFICES ASSUME NEW p \in DOMAIN new, NEW q \in DOMAIN new, p < q PROVE new[p] < new[q]
          OBVIOUS
        <5>1. p \in DOMAIN ls
          BY <4>3, SMTT(30), Z3T(30)
        <5>2. CASE q \in DOMAIN ls
          BY <4>2, <4>3, <5>1, <5>2
        <5>3. CASE q = Len(ls) + 1
          BY <2>2, <4>1, <4>3, <5>1, <5>3, SMTT(30), Z3T(30)
        <5> QED BY <4>4, <5>2, <5>3
      <4>7. saver'.bufs[k].logs = new /\ saver'.bufs[k].day = d
        BY <2>5, <3>1, SMTT(30), Z3T(30) DEF b, new
      <4> QED BY <2>5, <4>5, <4>6, <4>7, ZenonT(60) DEF BufOK
    <3>3. \A j \in DOMAIN saver'.bufs : BufOK(saver.bufs[j])'
      BY <2>3, <2>5, <3>1, <3>2, ZenonT(60) DEF b
    <3>4. b[k].day = d
      BY <3>1, SMTT(30), Z3T(30)
    <3>5. \A i, j \in DOMAIN b : b[i].day = b[j].day => i = j
      BY <2>1, <3>1, <3>4, SMTT(30), Z3T(30)
    <3> QED BY <2>5, <3>3, <3>5 DEF b
  <2>6. CASE saver.bufs # <<>> /\ saver'.bufs = Tail(saver.bufs)
    <3>1. \A j \in DOMAIN saver'.bufs : j \in Nat /\ j + 1 \in DOMAIN saver.bufs /\ saver'.bufs[j] = saver.bufs[j + 1]
      BY <2>1, <2>6, SMTT(30), Z3T(30)
    <3>2. \A j \in DOMAIN saver'.bufs : BufOK(saver.bufs[j])'
      BY <2>3, <3>1
    <3>3. \A j, k \in DOMAIN saver'.bufs : saver'.bufs[j].day = saver'.bufs[k].day => j + 1 = k + 1
      BY <2>1, <3>1, SMTT(30), Z3T(30)
    <3> QED BY <3>1, <3>2, <3>3, SMTT(30), Z3T(30)
  <2>7. CASE saver'.bufs = <<>>
    BY <2>7, SMTT(30), Z3T(30)
  <2> QED BY <2>4, <2>5, <2>6, <2>7, BufferCases
<1> SUFFICES ASSUME TypeInv, OnceInv, [Next]_vars PROVE OnceInv'
  OBVIOUS
<1>1. /\ saved \subseteq Settled /\ Settled \subseteq Settled'
      /\ \A i \in Nodes : \A a \in DOMAIN node[i].entries : node[i].entries[a].log \in Settled
      /\ \A i, j \in Nodes : \A a \in DOMAIN node[i].entries, b \in DOMAIN node[j].entries :
            node[i].entries[a].log = node[j].entries[b].log => i = j /\ a = b
  BY SettledNext DEF OnceInv
<1>2. saved' \subseteq Settled'
  <2>1. CASE saved' = saved
    BY <1>1, <2>1
  <2>2. CASE WriteIndex /\ saved' = saved \cup {Buf.logs[k] : k \in DOMAIN Buf.logs}
    BY <1>1, <2>2, WrittenSettles
  <2> QED BY <2>1, <2>2, BufferCases
<1>3. \A i \in Nodes : \A a \in DOMAIN node[i].entries : node'[i].entries[a].log = node[i].entries[a].log
  BY NodeNext DEF Later
<1>4. CASE ~(WriteIndex \/ ShortWrite)
  <2>1. \A i \in Nodes : DOMAIN node'[i].entries = DOMAIN node[i].entries
    BY <1>4, GrowthCases
  <2>2. /\ \A i \in Nodes : \A a \in DOMAIN node'[i].entries : node'[i].entries[a].log \in Settled'
        /\ \A i, j \in Nodes : \A a \in DOMAIN node'[i].entries, b \in DOMAIN node'[j].entries :
              node'[i].entries[a].log = node'[j].entries[b].log => i = j /\ a = b
    BY <1>1, <1>3, <2>1, SMTT(30), Z3T(30)
  <2> QED BY <1>2, <2>2, <1>BuffersNext DEF OnceInv
<1>5. CASE WriteIndex \/ ShortWrite
  <2>1. PICK g \in File : node' = [node EXCEPT ![saver.fd] = g] /\ Grown(node[saver.fd], g, Buf.logs)
    BY <1>5, SaveStep, ZenonT(60)
  <2>2. /\ saver.fd \in Nodes /\ node \in [Nodes -> File] /\ node[saver.fd] \in File /\ saver.pc = "write"
        /\ Buf.logs \in Seq(Logs) /\ BufOK(Buf)
    BY <1>5, SaveStep, BufType, SMTT(30), Z3T(30) DEF TypeInv, DiskOK, OnceInv
  <2> DEFINE f == node[saver.fd]
             Old(i, a) == i \in Nodes /\ a \in DOMAIN node[i].entries
             New(i, a) == i = saver.fd /\ a \in DOMAIN g.entries /\ a > Len(f.entries)
  <2>3. /\ DOMAIN f.entries = 1..Len(f.entries) /\ Len(f.entries) \in Nat
        /\ DOMAIN g.entries = 1..Len(g.entries) /\ Len(g.entries) \in Nat
    <3>1. f.entries \in Seq(Entry) /\ g.entries \in Seq(Entry)
      BY <2>2 DEF File
    <3> QED BY <3>1, SMTT(30), Z3T(30)
  <2>4. ASSUME NEW i \in Nodes, NEW a \in DOMAIN node'[i].entries PROVE Old(i, a) \/ New(i, a)
    <3>1. CASE i = saver.fd
      BY <2>1, <2>2, <2>3, <3>1, SMTT(30), Z3T(30)
    <3>2. CASE i # saver.fd
      BY <2>1, <2>2, <3>2
    <3> QED BY <3>1, <3>2, ZenonT(60)
  <2>5. ASSUME NEW i, NEW a, New(i, a)
        PROVE  LET p == a - Len(f.entries)
               IN  p \in DOMAIN Buf.logs /\ node'[i].entries[a].log = Buf.logs[p]
    BY <2>1, <2>2, <2>5 DEF Grown
  <2>6. ASSUME NEW i, NEW a, New(i, a) PROVE node'[i].entries[a].log \in Settled' \ Settled
    BY <1>5, <2>5, <2>6, WrittenSettles, SMTT(30), Z3T(30)
  <2>7. ASSUME NEW i, NEW a, Old(i, a)
        PROVE  node'[i].entries[a].log = node[i].entries[a].log /\ node'[i].entries[a].log \in Settled \cap Settled'
    BY <1>1, <1>3, <2>7
  <2>8. \A i \in Nodes : \A a \in DOMAIN node'[i].entries : node'[i].entries[a].log \in Settled'
    BY <2>4, <2>6, <2>7
  <2>9. ASSUME NEW a, NEW b, New(saver.fd, a), New(saver.fd, b),
               node'[saver.fd].entries[a].log = node'[saver.fd].entries[b].log
        PROVE  a = b
    <3> DEFINE p == a - Len(f.entries)
               q == b - Len(f.entries)
    <3>1. p \in DOMAIN Buf.logs /\ q \in DOMAIN Buf.logs /\ Buf.logs[p] = Buf.logs[q]
      BY <2>5, <2>9
    <3>6. a \in 1..Len(g.entries) /\ b \in 1..Len(g.entries) /\ Len(f.entries) \in Nat
      BY <2>3, <2>9
    <3> HIDE DEF f
    <3>2. p \in Int /\ q \in Int /\ a \in Nat /\ b \in Nat
      BY <3>6, SMTT(30), Z3T(30)
    <3>3. Buf.logs[p] \in Nat /\ Buf.logs[q] \in Nat
      BY <2>2, <3>1, TimeFacts, SMTT(30), Z3T(30)
    <3>4. (p < q => Buf.logs[p] < Buf.logs[q]) /\ (q < p => Buf.logs[q] < Buf.logs[p])
      BY <2>2, <3>1 DEF BufOK
    <3>5. ~(p < q) /\ ~(q < p)
      BY <3>1, <3>3, <3>4, SMTT(30), Z3T(30)
    <3> QED BY <3>2, <3>5, <3>6, SMTT(30), Z3T(30)
  <2>10. ASSUME NEW i \in Nodes, NEW j \in Nodes, NEW a \in DOMAIN node'[i].entries,
                NEW b \in DOMAIN node'[j].entries, node'[i].entries[a].log = node'[j].entries[b].log
         PROVE  i = j /\ a = b
    <3>1. CASE Old(i, a) /\ Old(j, b)
      BY <1>1, <2>7, <2>10, <3>1, SMTT(30), Z3T(30)
    <3>2. CASE New(i, a) /\ New(j, b)
      BY <2>9, <2>10, <3>2
    <3>3. CASE Old(i, a) /\ New(j, b)
      BY <2>6, <2>7, <2>10, <3>3
    <3>4. CASE New(i, a) /\ Old(j, b)
      BY <2>6, <2>7, <2>10, <3>4, ZenonT(60)
    <3> HIDE DEF Old, New
    <3> QED BY <2>4, <3>1, <3>2, <3>3, <3>4
  <2> QED BY <1>2, <2>8, <2>10, <1>BuffersNext DEF OnceInv
<1> QED BY <1>4, <1>5

LEMMA OnceInit == Init => OnceInv
  BY SMTT(30), Z3T(30) DEF Init, OnceInv, NoSaver

-----------------------------------------------------------------------------
(* The saving thread writes through the file it has just opened.           *)
LEMMA WriteCases ==
    ASSUME TypeInv, [Next]_vars, saver'.pc = "write"
    PROVE  \/ saver' = saver
           \/ /\ saver.pc = "open" /\ saver'.bufs = saver.bufs /\ Buf' = Buf
              /\ saver'.fd = dir'[Buf.day] /\ dir'[Buf.day] # 0
              /\ UNCHANGED <<node, del, srch, ghosts, queue, added>>
<1>1. saver \in [pc : {"idle", "take", "open", "write"}, n : Nat, bufs : Seq(Buffer), fd : Handles, errors : Nat]
  BY DEF TypeInv, SaverOK
<1>2. CASE Count
  BY <1>1, <1>2 DEF Count
<1>3. CASE Take
  <2> DEFINE next == IF saver.n = 1 THEN "open" ELSE "take"
             bs == Buffered(Head(queue))
             n == saver.n - 1
  <2>1. saver' = [saver EXCEPT !.bufs = bs, !.n = n, !.pc = next]
    BY <1>3 DEF Take
  <2>2. next # "write"
    OBVIOUS
  <2> HIDE DEF next, bs, n
  <2>3. saver'.pc = next
    BY <1>1, <2>1
  <2> QED BY <2>2, <2>3
<1>4. CASE OpenIndex
  <2>1. Buf.day \in Days /\ dir \in [Days -> Handles] /\ saver.pc = "open"
    BY <1>4, BufType DEF OpenIndex, TypeInv, DiskOK
  <2>2. saver'.bufs = saver.bufs /\ UNCHANGED <<node, del, srch, ghosts, queue, added>>
    BY <1>1, <1>4 DEF OpenIndex, disk
  <2>3. saver'.fd = dir'[Buf.day] /\ dir'[Buf.day] # 0
    <3>1. CASE dir[Buf.day] # 0
      <4>1. saver' = [saver EXCEPT !.pc = "write", !.fd = dir[Buf.day]] /\ dir' = dir
        BY <1>4, <3>1 DEF OpenIndex, disk
      <4> QED BY <1>1, <3>1, <4>1
    <3>2. CASE dir[Buf.day] = 0
      <4>1. saver' = [saver EXCEPT !.pc = "write", !.fd = used + 1] /\ dir' = [dir EXCEPT ![Buf.day] = used + 1]
        BY <1>4, <3>2 DEF OpenIndex
      <4>2. saver'.fd = used + 1 /\ dir'[Buf.day] = used + 1
        BY <1>1, <2>1, <4>1
      <4>3. used + 1 # 0
        BY SMTT(30), Z3T(30) DEF TypeInv, DiskOK
      <4> QED BY <4>2, <4>3
    <3> QED BY <3>1, <3>2
  <2> QED BY <2>1, <2>2, <2>3 DEF Buf
<1>5. CASE WriteIndex
  <2> DEFINE next == IF Len(saver.bufs) = 1 THEN "idle" ELSE "open"
             bs == Tail(saver.bufs)
  <2>1. saver' = [saver EXCEPT !.bufs = bs, !.fd = 0, !.pc = next]
    BY <1>5 DEF WriteIndex, NextBuffer
  <2>2. next # "write"
    OBVIOUS
  <2> HIDE DEF next, bs
  <2>3. saver'.pc = next
    BY <1>1, <2>1
  <2> QED BY <2>2, <2>3
<1>6. CASE OpenFails \/ ShortWrite \/ Crash
  BY <1>6, RestartQueue, SMTT(30), Z3T(30) DEF NoSaver
<1>7. CASE saver' = saver
  BY <1>7
<1> QED BY <1>2, <1>3, <1>4, <1>5, <1>6, <1>7, ZenonT(60)
    DEF Next, vars, Save, Search, Delete, addManLog, delManLogsByTime, delManLogsByUserNo, delAllManLog, DelOpen,
        DelOpenFails, DelEntry, DelEntryFails, DelReturns, Unlink, UnlinkFails, SearchStart, SearchDay, SearchRead,
        SearchPage, SearchFails

(* An inode holds the logs of the day its file was made for.               *)
LEMMA OwnerNext == TypeInv /\ OnceInv /\ OwnerInv /\ [Next]_vars => OwnerInv'
  (* A search reads the file of its day, or one it has opened before.        *)
<1>ReadCases. ASSUME TypeInv, [Next]_vars, srch'.pc = "read"
              PROVE  /\ srch'.start = srch.start
                     /\ \/ srch.pc = "read" /\ srch'.fd = srch.fd
                        \/ /\ srch.pc = "day" /\ Day(srch.start) \in Present /\ srch'.fd = dir[Day(srch.start)]
                           /\ UNCHANGED <<disk, saver>>
  <2> USE <1>ReadCases
  <2>1. srch \in SrchState
    BY DEF TypeInv, SrchOK
  <2>2. CASE srch' = srch
    BY <2>2
  <2>3. CASE srch' = NoSearch
    BY <2>3 DEF NoSearch
  <2>4. CASE MarkEntry /\ node' # node
    BY <2>1, <2>4, MarkStep, UnwantedFields
  <2>5. CASE \E d \in Days : Unlink(d)
    BY <2>1, <2>5, UnwantedFields DEF Unlink
  <2>6. CASE \E r \in Ranges, num \in PageSizes : SearchStart(r[1], r[2], num)
    BY <2>6, SearchStartFields
  <2>7. CASE SearchDay /\ UNCHANGED <<disk, saver>>
    BY <2>7, SearchDayFields
  <2>8. CASE SearchRead
    BY <2>8, SearchReadFields
  <2>9. CASE SearchPage
    BY <2>3, <2>9, SearchPageFields
  <2>10. CASE SearchFails
    BY <2>10, SearchFailsFields
  <2> QED BY <2>2, <2>3, <2>4, <2>5, <2>6, <2>7, <2>8, <2>9, <2>10, SearchCases
<1> SUFFICES ASSUME TypeInv, OnceInv, OwnerInv, [Next]_vars PROVE OwnerInv'
  OBVIOUS
<1>1. PICK o \in [Nodes -> Nat] : Owned(o)
  BY DEF OwnerInv
<1>2. /\ \A d \in Days : dir[d] # 0 => o[dir[d]] = d
      /\ \A i \in Nodes : \A a \in DOMAIN node[i].entries : Day(Time[node[i].entries[a].log]) = o[i]
      /\ saver.pc = "write" => o[saver.fd] = Buf.day
      /\ srch.pc = "read" => o[srch.fd] = Day(srch.start)
  BY <1>1 DEF Owned
<1>3. /\ node \in [Nodes -> File] /\ used \in Nat /\ dir \in [Days -> Handles]
      /\ \A d \in Days : dir[d] # 0 => dir[d] \in 1..used
      /\ \A i \in Nodes : i \notin 1..used => node[i].entries = <<>>
      /\ srch.pc = "read" => srch.fd \in Nodes /\ srch.fd \in 1..used
  BY DEF TypeInv, DiskOK, SrchOK
<1>4. CASE /\ OpenIndex /\ Buf.day \in Days /\ dir[Buf.day] = 0 /\ used + 1 \in Nodes /\ used' = used + 1
           /\ dir' = [dir EXCEPT ![Buf.day] = used + 1] /\ saver' = [saver EXCEPT !.pc = "write", !.fd = used + 1]
           /\ UNCHANGED <<node, del, srch, ghosts>>
  <2> DEFINE n == used + 1
             oo == [o EXCEPT ![n] = Buf.day]
  <2>1. n \in Nodes /\ n \notin 1..used /\ Buf.day \in Nat
    BY <1>3, <1>4, TimeFacts, SMTT(30), Z3T(30)
  <2>2. oo \in [Nodes -> Nat] /\ oo[n] = Buf.day /\ \A i \in Nodes : i # n => oo[i] = o[i]
    BY <2>1
  <2>3. PICK p : p = oo
    OBVIOUS
  <2>4. \A d \in Days : dir'[d] # 0 => p[dir'[d]] = d
    <3> SUFFICES ASSUME NEW d \in Days, dir'[d] # 0 PROVE p[dir'[d]] = d
      OBVIOUS
    <3>1. CASE d = Buf.day
      <4>1. dir'[d] = n
        BY <1>3, <1>4, <3>1
      <4> QED BY <2>2, <2>3, <3>1, <4>1
    <3>2. CASE d # Buf.day
      <4>1. dir'[d] = dir[d] /\ dir[d] \in 1..used /\ dir[d] \in Nodes
        BY <1>3, <1>4, <3>2 DEF Handles
      <4>2. dir[d] # n
        BY <2>1, <4>1
      <4> QED BY <1>2, <2>2, <2>3, <4>1, <4>2
    <3> QED BY <3>1, <3>2
  <2>5. \A i \in Nodes : \A a \in DOMAIN node'[i].entries : Day(Time[node'[i].entries[a].log]) = p[i]
    BY <1>2, <1>3, <1>4, <2>1, <2>2, <2>3, SMTT(30), Z3T(30)
  <2>6. saver'.pc = "write" => p[saver'.fd] = Buf'.day
    <3>1. saver'.fd = n /\ saver'.bufs = saver.bufs
      BY <1>4 DEF TypeInv, SaverOK
    <3> QED BY <2>2, <2>3, <3>1 DEF Buf
  <2>7. srch'.pc = "read" => p[srch'.fd] = Day(srch'.start)
    BY <1>2, <1>3, <1>4, <2>1, <2>2, <2>3
  <2>8. Owned(p)'
    BY <2>4, <2>5, <2>6, <2>7 DEF Owned
  <2> QED BY <2>2, <2>3, <2>8 DEF OwnerInv
<1>5. CASE UNCHANGED <<dir, used>> \/ \E d \in Days : Unlink(d)
  <2>1. \A d \in Days : dir'[d] # 0 => dir'[d] = dir[d]
    BY <1>3, <1>5 DEF Unlink
  <2>2. \A d \in Days : dir'[d] # 0 => o[dir'[d]] = d
    BY <1>2, <2>1
  <2>3. ASSUME NEW i \in Nodes, NEW a \in DOMAIN node'[i].entries PROVE Day(Time[node'[i].entries[a].log]) = o[i]
    <3>1. CASE a \in DOMAIN node[i].entries
      BY <1>2, <3>1, NodeNext, ZenonT(60) DEF Later
    <3>2. CASE a \notin DOMAIN node[i].entries
      <4>1. WriteIndex \/ ShortWrite
        BY <2>3, <3>2, GrowthCases
      <4>2. i = saver.fd /\ saver.pc = "write"
        BY <1>3, <2>3, <3>2, <4>1, SaveStep
      <4>3. PICK q \in DOMAIN Buf.logs : node'[i].entries[a].log = Buf.logs[q]
        BY <2>3, <3>2, NodeNext DEF Later
      <4>4. BufOK(Buf)
        BY <4>2, BufType, SMTT(30), Z3T(30) DEF OnceInv
      <4> QED BY <1>2, <4>2, <4>3, <4>4 DEF BufOK
    <3> QED BY <3>1, <3>2
  <2>4. saver'.pc = "write" => o[saver'.fd] = Buf'.day
    <3>1. CASE saver' = saver
      BY <1>2, <3>1 DEF Buf
    <3>2. CASE saver.pc = "open" /\ Buf' = Buf /\ saver'.fd = dir'[Buf.day] /\ dir'[Buf.day] # 0
      BY <2>2, <3>2, BufType
    <3> QED BY <3>1, <3>2, WriteCases
  <2>5. srch'.pc = "read" => o[srch'.fd] = Day(srch'.start)
    BY <1>2, <1>ReadCases DEF Present
  <2>6. Owned(o)'
    BY <2>2, <2>3, <2>4, <2>5 DEF Owned
  <2> QED BY <1>1, <2>6 DEF OwnerInv
<1> QED BY <1>4, <1>5, DirNext

LEMMA OwnerInit == Init => OwnerInv
<1> SUFFICES ASSUME Init PROVE OwnerInv
  OBVIOUS
<1>1. Owned([i \in Nodes |-> 0])
  BY SMTT(30), Z3T(30) DEF Init, Owned, NoSaver, NoSearch
<1> QED BY <1>1, ZenonT(60) DEF OwnerInv

-----------------------------------------------------------------------------
(* Where a log can be live.                                                *)
LEMMA LivePlace ==
    ASSUME TypeInv, OnceInv, OwnerInv, NEW d, NEW a, NEW l, LiveAt(d, a, l)
    PROVE  /\ d \in Present /\ d \in Days /\ a \in DOMAIN OnDisk(d) /\ OnDisk(d) = node[dir[d]].entries
           /\ dir[d] \in Nodes /\ a \in Nat \ {0} /\ l \in Logs /\ l \in Settled /\ d = Day(Time[l])
<1>1. d \in Days /\ dir[d] # 0 /\ a \in DOMAIN OnDisk(d) /\ OnDisk(d) = node[dir[d]].entries /\ OnDisk(d)[a].log = l
  BY DEF LiveAt, OnDisk
<1>2. dir[d] \in Nodes /\ l \in Logs /\ OnDisk(d) \in Seq(Entry)
  BY <1>1, OnDiskFacts
<1>3. l \in Settled /\ a \in Nat \ {0}
  BY <1>1, <1>2, SMTT(30), Z3T(30) DEF OnceInv
<1>4. PICK o \in [Nodes -> Nat] : Owned(o)
  BY DEF OwnerInv
<1>5. d = Day(Time[l])
  BY <1>1, <1>2, <1>4, ZenonT(60) DEF Owned
<1> QED BY <1>1, <1>2, <1>3, <1>5 DEF Present

LEMMA DelInit == Init => DelInv
  BY SMTT(30), Z3T(30) DEF Init, DelInv, NoDel

(* A deletion leaves nothing of what it was asked for behind it.           *)
LEMMA DelInvNext == TypeInv /\ OnceInv /\ OwnerInv /\ DelInv /\ [Next]_vars => DelInv'
  (* A log the saving thread is through with comes to life by a crash only.  *)
<1>LiveNext. ASSUME TypeInv, OnceInv, [Next]_vars, ~Crash, NEW d, NEW a, NEW l \in Settled, LiveAt(d, a, l)'
             PROVE  LiveAt(d, a, l) /\ dir'[d] = dir[d] /\ dir[d] \in Nodes
  <2> USE <1>LiveNext
  <2>1. /\ d \in Days /\ dir'[d] # 0 /\ a \in DOMAIN node'[dir'[d]].entries
        /\ node'[dir'[d]].entries[a].log = l /\ ~node'[dir'[d]].entries[a].deleted
    BY DEF LiveAt
  <2>2. dir \in [Days -> Handles] /\ used \in Nat /\ node \in [Nodes -> File]
        /\ \A i \in Nodes : i \notin 1..used => node[i].entries = <<>>
    BY DEF TypeInv, DiskOK
  <2>3. dir'[d] = dir[d]
    <3>1. CASE UNCHANGED <<dir, used>>
      BY <3>1
    <3>2. CASE /\ Buf.day \in Days /\ used + 1 \in Nodes /\ dir' = [dir EXCEPT ![Buf.day] = used + 1]
               /\ node' = node
      <4>1. node[used + 1].entries = <<>>
        BY <2>2, <3>2, SMTT(30), Z3T(30)
      <4>2. dir'[d] # used + 1
        BY <2>1, <3>2, <4>1, SMTT(30), Z3T(30)
      <4> QED BY <2>1, <2>2, <3>2, <4>2
    <3>3. CASE \E e \in Days : Unlink(e)
      BY <2>1, <2>2, <3>3 DEF Unlink
    <3> QED BY <3>1, <3>2, <3>3, DirNext
  <2>4. dir[d] \in Nodes
    BY <2>1, <2>2, <2>3 DEF Handles
  <2>5. Later(node[dir[d]], node'[dir[d]])
    BY <2>4, NodeNext
  <2>6. a \in DOMAIN node[dir[d]].entries
    <3> SUFFICES ASSUME a \notin DOMAIN node[dir[d]].entries PROVE FALSE
      OBVIOUS
    <3>1. WriteIndex \/ ShortWrite
      BY <2>1, <2>3, <2>4, GrowthCases
    <3>2. \E p \in DOMAIN Buf.logs : l = Buf.logs[p]
      BY <2>1, <2>3, <2>5, ZenonT(60) DEF Later
    <3> QED BY <3>1, <3>2, WrittenSettles
  <2> QED BY <2>1, <2>3, <2>4, <2>5, <2>6 DEF LiveAt, Later
<1>7. del' = NoDel => DelInv'
  <2> SUFFICES ASSUME del' = NoDel PROVE DelInv'
    OBVIOUS
  <2>1. del'.due = {} /\ del'.pc = "none"
    BY DEF NoDel
  <2> QED BY <2>1 DEF DelInv
<1> SUFFICES ASSUME TypeInv, OnceInv, OwnerInv, DelInv, [Next]_vars, ~Crash PROVE DelInv'
  BY <1>7 DEF Crash, Restart
<1>1. /\ Settled \subseteq Settled' /\ TypeInv'
      /\ \A d, a, l : d \in Days /\ a \in DOMAIN OnDisk(d)' /\ LiveAt(d, a, l)' /\ l \in Settled => LiveAt(d, a, l)
  BY SettledNext, TypeNext, <1>LiveNext
<1>2. /\ del.due \subseteq Settled
      /\ del.pc \in {"open", "mark"} =>
            /\ \A l \in del.due : Time[l] <= del.bound
            /\ del.bound <= cut \/ \A l \in Logs : del.bound < Time[l]
      /\ \A l \in del.due : \A d, a : LiveAt(d, a, l) => Left(d, a)
  BY LivePlace DEF DelInv
<1>3. /\ del \in DelState
      /\ del.todo \subseteq Present
  BY DEF TypeInv, DelOK
<1>4. Live \subseteq Settled
  BY LiveFacts, LivePlace
<1>5. ASSUME del'.due \subseteq Settled,
             del'.pc \in {"open", "mark"} =>
                /\ \A l \in del'.due : Time[l] <= del'.bound
                /\ del'.bound <= cut' \/ \A l \in Logs : del'.bound < Time[l],
             \A l \in del'.due : \A d, a : LiveAt(d, a, l) /\ LiveAt(d, a, l)' => Left(d, a)'
      PROVE  DelInv'
  <2>1. \A l \in del'.due : \A d \in Days : \A a \in DOMAIN OnDisk(d)' : LiveAt(d, a, l)' => Left(d, a)'
    BY <1>1, <1>5
  <2> QED BY <1>1, <1>5, <2>1 DEF DelInv
<1>6. CASE del' = del
  <2>1. cut \in Nat /\ cut' \in Nat /\ del.bound \in Nat /\ (del.pc \in {"open", "mark"} => cut <= cut')
    <3>1. cut \in Nat /\ cut' \in Nat /\ del.bound \in Nat
      BY <1>1, <1>3 DEF TypeInv, GhostOK, DelOK, DelState
    <3>2. del.pc \in {"open", "mark"} => cut' = cut
      BY RestartQueue, ZenonT(60)
      DEF Next, vars, Save, Search, Delete, addManLog, Count, Take, OpenIndex, WriteIndex, delManLogsByTime,
          delManLogsByUserNo, delAllManLog, DelOpen, DelOpenFails, DelEntry, DelEntryFails, DelReturns, Unlink,
          UnlinkFails, SearchStart, SearchDay, SearchRead, SearchPage, SearchFails, Idle, ghosts
    <3> QED BY <3>1, <3>2, SMTT(30), Z3T(30)
  <2>2. \A d, a : Left(d, a) => Left(d, a)'
    BY <1>6 DEF Left
  <2>3. del.pc \in {"open", "mark"} /\ del.bound <= cut => del.bound <= cut'
    BY <2>1, NatOrder
  <2> QED BY <1>2, <1>5, <1>6, <2>2, <2>3
<1>8. ASSUME NEW t \in Times, delManLogsByTime(t) PROVE DelInv'
  <2> DEFINE files == {d \in Present : Named(d, t)}
             due == {l \in Live : Time[l] <= t}
             next == IF files = {} THEN "done" ELSE "open"
  <2>1. del' = [NoDel EXCEPT !.pc = next, !.bound = t, !.todo = files, !.due = due]
        /\ cut' = (IF t > cut THEN t ELSE cut)
    BY <1>8 DEF delManLogsByTime
  <2>2. next \in {"done", "open"}
    OBVIOUS
  <2>3. t \in Nat /\ cut \in Nat /\ due \subseteq Settled
    BY <1>4, TimeFacts DEF Times, TypeInv, GhostOK
  <2>4. \A l \in due : \A d, a : LiveAt(d, a, l) => d \in files
    <3> SUFFICES ASSUME NEW l \in due, NEW d, NEW a, LiveAt(d, a, l) PROVE d \in files
      OBVIOUS
    <3>1. d \in Present /\ d = Day(Time[l]) /\ l \in Logs
      BY LivePlace
    <3>2. Time[l] \in Nat /\ Time[l] <= t
      BY <3>1, TimeFacts
    <3>3. Day(Time[l]) <= Day(t)
      BY <2>3, <3>2, DayFacts
    <3> QED BY <3>1, <3>3 DEF Named
  <2>5. t <= cut'
    BY <2>1, <2>3, SMTT(30), Z3T(30)
  <2>6. \A l \in due : Time[l] <= t
    OBVIOUS
  <2> HIDE DEF files, due, next
  <2>7. del'.pc = next /\ del'.bound = t /\ del'.todo = files /\ del'.due = due
    BY <2>1 DEF NoDel
  <2> QED BY <1>5, <2>2, <2>3, <2>4, <2>5, <2>6, <2>7 DEF Left
<1>9. ASSUME NEW u \in UserNos, delManLogsByUserNo(u) PROVE DelInv'
  <2>1. del'.bound = u /\ del'.due = {}
    BY <1>9 DEF delManLogsByUserNo, NoDel
  <2>2. \A l \in Logs : u < Time[l]
    BY LogAssumption
  <2> QED BY <1>5, <2>1, <2>2
<1>10. CASE delAllManLog
  <2>1. del'.pc = "unlink" /\ del'.due = Live /\ del'.todo = Present
    BY <1>10 DEF delAllManLog, NoDel
  <2>2. \A l \in Live : \A d, a : LiveAt(d, a, l) => d \in Present
    BY LivePlace
  <2> QED BY <1>4, <1>5, <2>1, <2>2 DEF Left
<1>11. CASE DelOpen
  <2>1. PICK e \in Days : NextFile(e) /\ del' = IF dir[e] = 0 THEN DelNextFile(e)
                           ELSE [del EXCEPT !.pc = "mark", !.day = e, !.fd = dir[e], !.addr = 1]
    BY <1>11 DEF DelOpen
  <2>2. del' = [del EXCEPT !.pc = "mark", !.day = e, !.fd = dir[e], !.addr = 1] /\ del.pc = "open"
    BY <1>3, <1>11, <2>1 DEF DelOpen, NextFile, Present
  <2>3. /\ del'.pc = "mark" /\ del'.addr = 1 /\ del'.due = del.due /\ del'.todo = del.todo
        /\ del'.bound = del.bound /\ del'.failed = del.failed
    BY <1>3, <2>2 DEF DelState
  <2>4. cut' = cut
    BY <1>11 DEF DelOpen, ghosts
  <2>5. \A d, a, l : LiveAt(d, a, l) => a >= 1
    BY LivePlace, SMTT(30), Z3T(30)
  <2>6. \A d, a, l : LiveAt(d, a, l) /\ Left(d, a) => Left(d, a)'
    BY <2>3, <2>5 DEF Left
  <2> QED BY <1>2, <1>5, <2>2, <2>3, <2>4, <2>6
<1>12. CASE DelEntry
  <2> DEFINE f == node[del.fd]
             first == del.day
  <2>1. del.pc = "mark" /\ cut' = cut /\ dir' = dir
    BY <1>12 DEF DelEntry, ghosts
  <2>2. /\ del.fd \in Nodes /\ node \in [Nodes -> File] /\ f \in File /\ f.entries \in Seq(Entry)
        /\ del.addr \in Nat \ {0} /\ first \in Days /\ del.fd = dir[first]
    BY <2>1, MarkFile
  <2>3. \A l \in del.due : \A a : LiveAt(first, a, l) => first \in del.failed \/ (a \in DOMAIN f.entries /\ a >= del.addr)
    BY <1>2, <2>1, <2>2 DEF LiveAt, Left
  <2>4. CASE del.addr > Len(f.entries)
    <3>1. del' = DelNextFile(first)
      BY <1>12, <2>4 DEF DelEntry
    <3>2. /\ del'.todo = del.todo \ {first} /\ del'.pc \in {"done", "open"}
          /\ del'.due = del.due /\ del'.bound = del.bound /\ del'.failed = del.failed
      BY <3>1, DelNextFacts
    <3>3. \A a \in DOMAIN f.entries : ~(a >= del.addr)
      BY <2>2, <2>4, SMTT(30), Z3T(30)
    <3>5. \A l \in del.due : \A a : LiveAt(first, a, l) => first \in del.failed
      BY <2>3, <3>3
    <3> HIDE DEF first
    <3>4. \A l \in del.due : \A d, a : LiveAt(d, a, l) => Left(d, a)'
      BY <1>2, <3>2, <3>5 DEF Left
    <3> QED BY <1>2, <1>5, <2>1, <3>2, <3>4
  <2>5. CASE ~(del.addr > Len(f.entries))
    <3> DEFINE next == del.addr + 1
    <3>1. del.addr \in DOMAIN f.entries
      BY <2>2, <2>5, SMTT(30), Z3T(30)
    <3>2. del' = [del EXCEPT !.addr = next]
      BY <1>12, <2>5 DEF DelEntry
    <3>3. ASSUME NEW l \in del.due, NEW d, NEW a, d = first, a = del.addr, LiveAt(d, a, l), LiveAt(d, a, l)'
          PROVE  FALSE
      <4>1. f.entries[del.addr].log = l /\ ~f.entries[del.addr].deleted
        BY <2>2, <3>3 DEF LiveAt
      <4>2. Time[l] <= del.bound
        BY <1>2, <2>1
      <4>3. node' = [node EXCEPT ![del.fd] = MarkAt(node[del.fd], del.addr)]
        BY <1>12, <2>5, <4>1, <4>2 DEF DelEntry, Hit
      <4>4. MarkAt(f, del.addr).entries[del.addr].deleted
        BY <2>2, <3>1, MarkFacts
      <4>5. node'[del.fd].entries[a].deleted
        BY <2>2, <3>3, <4>3, <4>4
      <4>6. dir'[d] = del.fd
        BY <2>1, <2>2, <3>3
      <4> QED BY <3>3, <4>5, <4>6 DEF LiveAt
    <3>4. next \in Nat
      BY <2>2, SMTT(30), Z3T(30)
    <3> HIDE DEF next, first
    <3>5. /\ del'.addr = next /\ del'.todo = del.todo /\ del'.due = del.due /\ del'.bound = del.bound
          /\ del'.pc = "mark" /\ del'.day = first /\ del'.failed = del.failed
      BY <1>3, <2>1, <3>2, <3>4 DEF DelState, first
    <3>6. ASSUME NEW l \in del.due, NEW d, NEW a, LiveAt(d, a, l), LiveAt(d, a, l)'
          PROVE  Left(d, a)'
      <4>1. d \in del.failed \/ (d \in del.todo /\ (d = first => a >= del.addr))
        BY <1>2, <2>1, <3>6 DEF first, Left
      <4>2. d = first => a # del.addr
        BY <3>3, <3>6
      <4>3. a \in Nat
        BY <3>6, LivePlace
      <4>4. a >= del.addr /\ a # del.addr => a >= next
        BY <2>2, <4>3, SMTT(30), Z3T(30) DEF next
      <4> QED BY <3>5, <4>1, <4>2, <4>4 DEF Left
    <3> QED BY <1>2, <1>5, <2>1, <3>5, <3>6
  <2> QED BY <2>4, <2>5
<1>13. CASE \E d \in Days : Unlink(d)
  <2>1. PICK e \in Days : Unlink(e)
    BY <1>13
  <2>2. /\ del.pc = "unlink" /\ dir' = [dir EXCEPT ![e] = 0] /\ del' = [del EXCEPT !.todo = del.todo \ {e}]
        /\ dir \in [Days -> Handles]
    BY <2>1 DEF Unlink, TypeInv, DiskOK
  <2>3. del'.pc = "unlink" /\ del'.todo = del.todo \ {e} /\ del'.due = del.due /\ del'.failed = del.failed
    BY <1>3, <2>2 DEF DelState
  <2>4. \A d, a, l : LiveAt(d, a, l)' => d # e
    BY <2>2 DEF LiveAt
  <2>5. \A d, a : d # e /\ Left(d, a) => Left(d, a)'
    BY <2>3 DEF Left
  <2> QED BY <1>2, <1>5, <2>3, <2>4, <2>5
<1>14. ASSUME NEW e, del'.todo = del.todo \ {e}, del'.failed = del.failed \cup {e}, del'.due = del.due,
              del'.pc \in {"done", "open", "unlink"}, del'.pc = "open" => del.pc \in {"open", "mark"},
              del'.bound = del.bound, cut' = cut
       PROVE  DelInv'
  <2>1. \A d, a : Left(d, a) => Left(d, a)'
    BY <1>14 DEF Left
  <2> QED BY <1>2, <1>5, <1>14, <2>1
<1>15. CASE DelOpenFails \/ DelEntryFails
  <2>1. PICK e \in Days : del' = DelGivesUp(e) /\ del.pc \in {"open", "mark"}
    BY <1>15, MarkFile DEF DelOpenFails, DelEntryFails, Present
  <2>2. /\ del'.todo = del.todo \ {e} /\ del'.failed = del.failed \cup {e} /\ del'.due = del.due
        /\ del'.bound = del.bound /\ del'.pc \in {"done", "open"}
    BY <2>1, DelGivesUpFacts
  <2>3. cut' = cut
    BY <1>15 DEF DelOpenFails, DelEntryFails, ghosts
  <2> QED BY <1>14, <2>1, <2>2, <2>3
<1>16. CASE UnlinkFails
  <2>1. PICK e : del' = [del EXCEPT !.todo = del.todo \ {e}, !.failed = del.failed \cup {e}] /\ del.pc = "unlink"
    BY <1>16 DEF UnlinkFails
  <2>2. /\ del'.todo = del.todo \ {e} /\ del'.failed = del.failed \cup {e} /\ del'.due = del.due
        /\ del'.bound = del.bound /\ del'.pc = "unlink"
    BY <1>3, <2>1 DEF DelState
  <2>3. cut' = cut
    BY <1>16 DEF UnlinkFails, ghosts
  <2> QED BY <1>14, <2>2, <2>3
<1> QED BY <1>6, <1>7, <1>8, <1>9, <1>10, <1>11, <1>12, <1>13, <1>15, <1>16, RestartQueue
    DEF Next, vars, Save, Search, Delete, addManLog, Count, Take, OpenIndex, WriteIndex, DelReturns, SearchStart,
        SearchDay, SearchRead, SearchPage, SearchFails

-----------------------------------------------------------------------------

(* Only a mark or an unlink takes a log off the disk.                      *)
LEMMA LiveStays ==
    ASSUME TypeInv, OnceInv, OwnerInv, DelInv, [Next]_vars, NEW d, NEW a, NEW l, LiveAt(d, a, l)
    PROVE  \/ LiveAt(d, a, l)' /\ dir'[d] = dir[d]
           \/ Unlink(d) /\ l \in {OnDisk(d)[b].log : b \in DOMAIN OnDisk(d)}
           \/ /\ MarkEntry /\ node' # node /\ l = node[del.fd].entries[del.addr].log
              /\ Time[l] <= cut
<1>1. /\ d \in Days /\ dir[d] # 0 /\ dir[d] \in Nodes /\ l \in Logs
      /\ a \in DOMAIN node[dir[d]].entries /\ node[dir[d]].entries[a].log = l /\ ~node[dir[d]].entries[a].deleted
      /\ OnDisk(d) = node[dir[d]].entries
  BY LivePlace DEF LiveAt
<1>2. dir \in [Days -> Handles] /\ node \in [Nodes -> File]
  BY DEF TypeInv, DiskOK
<1>3. CASE Unlink(d)
  BY <1>1, <1>3
<1>4. CASE ~Unlink(d)
  <2>1. dir'[d] = dir[d]
    <3>1. CASE UNCHANGED <<dir, used>>
      BY <3>1
    <3>2. CASE dir[Buf.day] = 0 /\ dir' = [dir EXCEPT ![Buf.day] = used + 1]
      BY <1>1, <1>2, <3>2
    <3>3. ASSUME NEW e \in Days, Unlink(e) PROVE dir'[d] = dir[d]
      <4>1. e # d
        BY <1>4, <3>3
      <4> QED BY <1>1, <1>2, <3>3, <4>1 DEF Unlink
    <3> QED BY <3>1, <3>2, <3>3, DirNext
  <2>2. Later(node[dir[d]], node'[dir[d]])
    BY <1>1, NodeNext, ZenonT(60)
  <2>3. a \in DOMAIN node'[dir[d]].entries /\ node'[dir[d]].entries[a].log = l
    <3>1. node'[dir[d]].entries \in Seq(Entry) /\ node[dir[d]].entries \in Seq(Entry)
      BY <1>1, <1>2, <2>2 DEF Later, File
    <3> QED BY <1>1, <2>2, <3>1, SMTT(30), Z3T(30) DEF Later
  <2>4. CASE ~node'[dir[d]].entries[a].deleted
    BY <1>1, <2>1, <2>3, <2>4 DEF LiveAt
  <2>5. CASE node'[dir[d]].entries[a].deleted
    <3>1. MarkEntry /\ node' # node
      <4>1. node' # node
        BY <1>1, <2>5
      <4>2. ~(WriteIndex \/ ShortWrite)
        <5> SUFFICES ASSUME WriteIndex \/ ShortWrite PROVE FALSE
          OBVIOUS
        <5>1. PICK g \in File : node' = [node EXCEPT ![saver.fd] = g] /\ Grown(node[saver.fd], g, Buf.logs)
          BY SaveStep
        <5>2. node'[dir[d]].entries[a] = node[dir[d]].entries[a]
          BY <1>1, <1>2, <5>1, SaveStep, ZenonT(60) DEF Grown
        <5> QED BY <1>1, <2>5, <5>2
      <4>3. ~Crash
        BY <1>1, <2>5, CrashStep
      <4> QED BY <4>1, <4>2, <4>3
          DEF Next, vars, disk, Save, Search, Delete, MarkEntry, addManLog, Count, Take, OpenIndex, OpenFails,
              delManLogsByTime, delManLogsByUserNo, delAllManLog, DelOpen, DelOpenFails, DelReturns, Unlink, UnlinkFails,
              SearchStart, SearchDay, SearchRead, SearchPage, SearchFails
    <3>2. /\ del.pc = "mark" /\ del.fd \in Nodes /\ node[del.fd] \in File
          /\ del.addr \in DOMAIN node[del.fd].entries
          /\ Time[node[del.fd].entries[del.addr].log] <= del.bound
          /\ node' = [node EXCEPT ![del.fd] = MarkAt(node[del.fd], del.addr)]
      BY <3>1, MarkStep
    <3>3. dir[d] = del.fd
      BY <1>1, <1>2, <2>5, <3>2
    <3>4. a = del.addr
      <4>1. \A b \in DOMAIN node[del.fd].entries : b # del.addr =>
                MarkAt(node[del.fd], del.addr).entries[b] = node[del.fd].entries[b]
        BY <3>2, MarkFacts
      <4> QED BY <1>1, <1>2, <2>5, <3>2, <3>3, <4>1, ZenonT(60)
    <3>5. l = node[del.fd].entries[del.addr].log /\ Time[l] <= del.bound
      BY <1>1, <3>2, <3>3, <3>4
    <3>6. Time[l] <= cut
      <4>1. Time[l] \in Nat /\ cut \in Nat /\ del.bound \in Nat
        BY <1>1, TimeFacts DEF TypeInv, GhostOK, DelOK, DelState
      <4>2. del.bound <= cut \/ del.bound < Time[l]
        BY <1>1, <3>2 DEF DelInv
      <4> QED BY <3>5, <4>1, <4>2, NatOrder
    <3> QED BY <3>1, <3>5, <3>6, ZenonT(60)
  <2> QED BY <2>4, <2>5
<1> QED BY <1>3, <1>4

LEMMA KeptInit == Init => KeptInv
  BY DEF Init, KeptInv, SavedIsKept, NoDel, NoSaver

(* What was saved since the last delAllManLog stays on the disk.           *)
LEMMA KeptNext == TypeInv /\ OnceInv /\ OwnerInv /\ DelInv /\ KeptInv /\ [Next]_vars => KeptInv'
<1>LiveAfter. ASSUME NEW d, NEW a, NEW l, LiveAt(d, a, l)'
              PROVE  l \in Live'
  <2> USE <1>LiveAfter
  <2>1. /\ d \in Days /\ OnDisk(d)' = node'[dir'[d]].entries /\ a \in DOMAIN OnDisk(d)'
        /\ (OnDisk(d)[a])'.log = l /\ ~(OnDisk(d)[a])'.deleted
    BY ZenonT(60) DEF LiveAt, OnDisk
  <2> QED BY <2>1, SMTT(30), Z3T(30) DEF Live
  (* What the histories say of an earlier step, they say now.                *)
<1>GhostCases.
      ASSUME TypeInv, [Next]_vars
      PROVE  /\ cut \in Nat /\ cut' \in Nat /\ cut <= cut'
             /\ \/ safe' = safe \/ safe' = {}
                \/ saver' = saver /\ saved' = saved /\ dir' = dir /\ del' = del /\ safe' = safe \cup {added + 1}
             /\ del'.pc = "unlink" => del.pc = "unlink" \/ safe' = {}
             /\ del.pc = "unlink" => safe' = safe \/ safe' = {}
  <2> USE <1>GhostCases
  <2>1. cut \in Nat /\ cut' \in Nat
    BY TypeNext DEF TypeInv, GhostOK
  <2>2. del \in DelState
    BY DEF TypeInv, DelOK
  <2>3. CASE addManLog
    BY <2>1, <2>3, SMTT(30), Z3T(30) DEF addManLog, disk
  <2>4. CASE del' = del /\ ghosts' = ghosts
    BY <2>1, <2>4, SMTT(30), Z3T(30) DEF ghosts
  <2>5. CASE WriteIndex
    BY <2>1, <2>5, SMTT(30), Z3T(30) DEF WriteIndex
  <2>6. CASE OpenFails \/ ShortWrite \/ Crash
    BY <2>1, <2>6, RestartQueue, SMTT(30), Z3T(30) DEF ghosts, NoDel
  <2>7. ASSUME NEW t \in Times, delManLogsByTime(t) PROVE cut <= cut' /\ safe' = safe /\ del'.pc # "unlink"
    <3>1. t \in Nat
      BY TimeFacts DEF Times
    <3>2. cut' = (IF t > cut THEN t ELSE cut) /\ safe' = safe /\ del'.pc # "unlink"
      BY <2>7 DEF delManLogsByTime, NoDel
    <3> QED BY <2>1, <3>1, <3>2, SMTT(30), Z3T(30)
  <2>8. CASE \E u \in UserNos : delManLogsByUserNo(u)
    <3>1. ghosts' = ghosts /\ del'.pc # "unlink"
      BY <2>8 DEF delManLogsByUserNo, NoDel
    <3> QED BY <2>1, <3>1, SMTT(30), Z3T(30) DEF ghosts
  <2>9. CASE delAllManLog
    BY <2>1, <2>9, SMTT(30), Z3T(30) DEF delAllManLog
  <2>10. CASE DelOpen \/ DelEntry \/ DelReturns \/ \E d \in Days : Unlink(d)
    <3>1. ghosts' = ghosts
      BY <2>10 DEF DelOpen, DelEntry, DelReturns, Unlink
    <3>2. \A d : DelNextFile(d).pc # "unlink"
      BY <2>2, SMTT(30), Z3T(30) DEF DelNextFile
    <3>3. del'.pc = "unlink" => del.pc = "unlink"
      <4>1. CASE DelOpen
        BY <2>2, <3>2, <4>1, SMTT(30), Z3T(30) DEF DelOpen
      <4>2. CASE DelEntry
        <5>1. del' = DelNextFile(del.day) \/ del' = [del EXCEPT !.addr = del.addr + 1]
          BY <4>2 DEF DelEntry
        <5>2. [del EXCEPT !.addr = del.addr + 1].pc = del.pc
          BY <2>2 DEF DelState
        <5> QED BY <3>2, <5>1, <5>2
      <4>3. CASE DelReturns
        BY <4>3 DEF DelReturns, NoDel
      <4>4. CASE \E d \in Days : Unlink(d)
        BY <4>4 DEF Unlink
      <4> QED BY <2>10, <4>1, <4>2, <4>3, <4>4
    <3> QED BY <2>1, <3>1, <3>3, SMTT(30), Z3T(30) DEF ghosts
  <2>11. CASE DelOpenFails \/ DelEntryFails \/ UnlinkFails
    <3>1. ghosts' = ghosts
      BY <2>11 DEF DelOpenFails, DelEntryFails, UnlinkFails
    <3>2. del'.pc = "unlink" => del.pc = "unlink"
      <4>1. CASE DelOpenFails \/ DelEntryFails
        <5>1. PICK e \in Days : del' = DelGivesUp(e)
          BY <4>1, MarkFile DEF DelOpenFails, DelEntryFails, Present
        <5> QED BY <5>1, DelGivesUpFacts
      <4>2. CASE UnlinkFails
        BY <4>2 DEF UnlinkFails
      <4> QED BY <2>11, <4>1, <4>2
    <3> QED BY <2>1, <3>1, <3>2, SMTT(30), Z3T(30) DEF ghosts
  <2> QED BY <2>1, <2>3, <2>4, <2>5, <2>6, <2>7, <2>8, <2>9, <2>10, <2>11, ZenonT(60)
      DEF Next, vars, Save, Search, Delete, Count, Take, OpenIndex, SearchStart, SearchDay, SearchRead, SearchPage,
          SearchFails
<1> SUFFICES ASSUME TypeInv, OnceInv, OwnerInv, DelInv, KeptInv, [Next]_vars PROVE KeptInv'
  OBVIOUS
<1>1. /\ del.pc = "unlink" => safe = {}
      /\ saver.pc = "write" /\ (\E p \in DOMAIN Buf.logs : Buf.logs[p] \in safe) => saver.fd = dir[Buf.day]
      /\ \A l \in saved \cap safe : \/ l \in Live \/ Time[l] <= cut
                                    \/ dir[Day(Time[l])] # 0 /\ node[dir[Day(Time[l])]].torn
  BY DEF KeptInv, SavedIsKept
<1>2. /\ cut \in Nat /\ cut' \in Nat /\ cut <= cut'
      /\ \/ safe' = safe \/ safe' = {}
         \/ saver' = saver /\ saved' = saved /\ dir' = dir /\ del' = del /\ safe' = safe \cup {added + 1}
      /\ del'.pc = "unlink" => del.pc = "unlink" \/ safe' = {}
      /\ del.pc = "unlink" => safe' = safe \/ safe' = {}
  BY <1>GhostCases
<1>3. del'.pc = "unlink" => safe' = {}
  BY <1>1, <1>2
<1>4. dir \in [Days -> Handles] /\ node \in [Nodes -> File] /\ added \in Nat /\ Taken \in Nat /\ Taken <= added
  BY TimeFacts, BufferCases, SMTT(30), Z3T(30) DEF TypeInv, DiskOK, QueueOK, Taken
<1>5. (\E d \in Days : Unlink(d)) => safe = {} /\ safe' = {}
  BY <1>1, <1>2 DEF Unlink
<1>6. \A l \in Settled : l # added + 1
  BY <1>4, TimeFacts, SMTT(30), Z3T(30) DEF Settled
<1>7. ASSUME saver'.pc = "write", NEW p \in DOMAIN Buf'.logs, Buf'.logs[p] \in safe'
      PROVE  saver'.fd = dir'[Buf'.day]
  <2>1. CASE saver' = saver
    <3>1. Buf' = Buf /\ Buf.day \in Days /\ Buf.logs \in Seq(Logs) /\ BufOK(Buf)
      BY <1>7, <2>1, BufType DEF Buf, OnceInv
    <3>2. Buf.logs[p] # added + 1
      <4>1. Buf.logs[p] <= Taken /\ Buf.logs[p] \in Nat
        BY <1>7, <3>1, TimeFacts, SMTT(30), Z3T(30) DEF BufOK
      <4> QED BY <1>4, <4>1, SMTT(30), Z3T(30)
    <3>3. Buf.logs[p] \in safe
      BY <1>2, <1>7, <3>1, <3>2
    <3>4. saver.fd = dir[Buf.day]
      BY <1>1, <1>7, <2>1, <3>1, <3>3
    <3>5. saver.pc = "write"
      BY <1>7, <2>1
    <3>6. UNCHANGED dir
      BY <1>5, <3>3, <3>5, DirNext DEF OpenIndex
    <3> QED BY <2>1, <3>1, <3>4, <3>6
  <2>2. CASE Buf' = Buf /\ saver'.fd = dir'[Buf.day]
    BY <2>2
  <2> QED BY <1>7, <2>1, <2>2, WriteCases
<1>8. ASSUME NEW l \in saved' \cap safe'
      PROVE  l \in Live' \/ Time[l] <= cut' \/ (dir'[Day(Time[l])] # 0 /\ node'[dir'[Day(Time[l])]].torn)
  <2>1. CASE l \in saved
    <3>1. l \in safe /\ l \in Logs
      BY <1>2, <1>6, <1>8, <2>1 DEF OnceInv, TypeInv, GhostOK
    <3>2. ~\E d \in Days : Unlink(d)
      BY <1>5, <3>1
    <3>3. Time[l] \in Nat /\ Day(Time[l]) \in Days
      BY <3>1, TimeFacts
    <3>4. CASE Time[l] <= cut
      BY <1>2, <3>3, <3>4, SMTT(30), Z3T(30)
    <3>5. CASE l \in Live
      <4>1. PICK d, a : LiveAt(d, a, l)
        BY <3>5, LiveFacts
      <4>2. d \in Days
        BY <4>1 DEF LiveAt
      <4>3. LiveAt(d, a, l)' \/ Time[l] <= cut
        BY <3>2, <4>1, <4>2, LiveStays
      <4> QED BY <3>4, <4>3, <1>LiveAfter
    <3>6. CASE dir[Day(Time[l])] # 0 /\ node[dir[Day(Time[l])]].torn
      <4> DEFINE d == Day(Time[l])
      <4>1. dir'[d] = dir[d]
        <5>1. CASE UNCHANGED <<dir, used>>
          BY <5>1
        <5>2. CASE dir[Buf.day] = 0 /\ dir' = [dir EXCEPT ![Buf.day] = used + 1]
          BY <1>4, <3>3, <3>6, <5>2
        <5> QED BY <3>2, <5>1, <5>2, DirNext
      <4>2. dir[d] \in Nodes
        BY <1>4, <3>3, <3>6 DEF Handles
      <4>3. node'[dir[d]].torn
        BY <3>6, <4>2, NodeNext DEF Later
      <4> QED BY <3>6, <4>1, <4>3
    <3> QED BY <1>1, <2>1, <3>1, <3>4, <3>5, <3>6
  <2>2. CASE l \notin saved
    <3>1. WriteIndex
      BY <1>8, <2>2, BufferCases
    <3>2. PICK p \in DOMAIN Buf.logs : l = Buf.logs[p]
      BY <1>8, <2>2, BufferCases
    <3>3. l \in safe
      BY <1>8, <3>1 DEF WriteIndex
    <3>4. /\ saver.pc = "write" /\ Buf.day \in Days /\ Buf.logs \in Seq(Logs) /\ BufOK(Buf)
          /\ dir' = dir
      BY <3>1, BufType, ZenonT(60) DEF WriteIndex, OnceInv
    <3>5. saver.fd = dir[Buf.day] /\ Buf.day = Day(Time[l]) /\ saver.fd \in Nodes /\ dir[Buf.day] # 0
      <4>1. saver.fd = dir[Buf.day] /\ Buf.day = Day(Time[l])
        BY <1>1, <3>2, <3>3, <3>4 DEF BufOK
      <4>2. saver.fd \in Nodes /\ saver.fd \in 1..used /\ used \in Nat
        BY <3>4 DEF TypeInv, SaverOK, DiskOK
      <4> QED BY <4>1, <4>2, SMTT(30), Z3T(30)
    <3> DEFINE f == node[saver.fd]
               g == Extend(f, Buf.logs)
    <3>6. node'[saver.fd] = g
      BY <1>4, <3>1, <3>5 DEF WriteIndex, Handle
    <3>7. f \in File /\ Grown(f, g, Buf.logs)
      BY <1>4, <3>4, <3>5, ExtendGrows
    <3>8. CASE f.torn
      <4>1. node'[saver.fd].torn
        BY <3>6, <3>7, <3>8 DEF Grown
      <4>2. dir'[Day(Time[l])] = saver.fd /\ dir'[Day(Time[l])] # 0
        BY <3>4, <3>5
      <4> QED BY <4>1, <4>2
    <3>9. CASE ~f.torn
      <4>1. PICK a : a = Len(f.entries) + p
        OBVIOUS
      <4>2. a \in DOMAIN g.entries /\ g.entries[a].log = Buf.logs[p] /\ ~g.entries[a].deleted
        BY <3>4, <3>7, <3>9, <4>1, ExtendGrows
      <4>3. PICK d : d = Buf.day
        OBVIOUS
      <4>4. d \in Days /\ dir'[d] = saver.fd /\ dir'[d] # 0
        BY <3>4, <3>5, <4>3
      <4>5. LiveAt(d, a, l)'
        BY <3>2, <3>6, <4>2, <4>4 DEF LiveAt
      <4> QED BY <4>5, <1>LiveAfter
    <3> QED BY <3>8, <3>9
  <2> QED BY <2>1, <2>2
<1> QED BY <1>3, <1>7, <1>8 DEF KeptInv, SavedIsKept

-----------------------------------------------------------------------------

\* The place of a search, and what it has found, are as before.
SearchStays ==
    /\ srch'.pc = srch.pc /\ srch'.from = srch.from /\ srch'.start = srch.start /\ srch'.end = srch.end
    /\ srch'.addr = srch.addr /\ srch'.over = srch.over /\ srch'.num = srch.num /\ srch'.page = srch.page
    /\ srch'.fd = srch.fd /\ srch'.got = srch.got /\ srch'.dead = srch.dead

LEMMA SoundInit == Init => SoundInv
<1> SUFFICES ASSUME Init PROVE SoundInv
  OBVIOUS
<1>1. srch.from = 0 /\ srch.start = 0 /\ srch.got = <<>> /\ srch.dead = {}
  BY DEF Init, NoSearch
<1> QED BY <1>1, SMTT(30), Z3T(30) DEF SoundInv

(* A search finds each log once, in its range, and none deleted before it. *)
LEMMA SoundNext == TypeInv /\ OnceInv /\ OwnerInv /\ SoundInv /\ [Next]_vars => SoundInv'
  (* An entry with a log that was settled before the step was there before.  *)
<1>EntryOld. ASSUME TypeInv, OnceInv, [Next]_vars, ~Crash, NEW i \in Nodes, NEW a \in DOMAIN node'[i].entries,
                    node'[i].entries[a].log \in Settled
             PROVE  /\ a \in DOMAIN node[i].entries /\ node[i].entries[a].log = node'[i].entries[a].log
                    /\ node[i].entries[a].deleted => node'[i].entries[a].deleted
  <2> USE <1>EntryOld
  <2>1. Later(node[i], node'[i])
    BY NodeNext
  <2>2. a \in DOMAIN node[i].entries
    <3> SUFFICES ASSUME a \notin DOMAIN node[i].entries PROVE FALSE
      OBVIOUS
    <3>1. WriteIndex \/ ShortWrite
      BY GrowthCases
    <3>2. \E p \in DOMAIN Buf.logs : node'[i].entries[a].log = Buf.logs[p]
      BY <2>1 DEF Later
    <3> QED BY <3>1, <3>2, WrittenSettles
  <2> QED BY <2>1, <2>2 DEF Later
  (* A file with entries is found under its name as before.                  *)
<1>FileOld. ASSUME TypeInv, [Next]_vars, NEW d \in Days, dir'[d] \in Nodes, node'[dir'[d]].entries # <<>>
            PROVE  dir'[d] = dir[d]
  <2> USE <1>FileOld
  <2>1. dir \in [Days -> Handles] /\ used \in Nat /\ \A i \in Nodes : i \notin 1..used => node[i].entries = <<>>
    BY DEF TypeInv, DiskOK
  <2>2. CASE UNCHANGED <<dir, used>>
    BY <2>2
  <2>3. CASE /\ Buf.day \in Days /\ used + 1 \in Nodes /\ dir' = [dir EXCEPT ![Buf.day] = used + 1]
             /\ node' = node
    <3>1. node'[used + 1].entries = <<>>
      BY <2>1, <2>3, SMTT(30), Z3T(30)
    <3>2. dir'[d] # used + 1
      BY <3>1
    <3> QED BY <2>1, <2>3, <3>2
  <2>4. ASSUME NEW e \in Days, Unlink(e) PROVE dir'[d] = dir[d]
    <3>1. dir' = [dir EXCEPT ![e] = 0] /\ node' = node
      BY <2>4 DEF Unlink
    <3>2. CASE d = e
      <4>1. dir'[d] = 0
        BY <2>1, <3>1, <3>2
      <4>2. node'[0].entries = <<>>
        BY <2>1, <3>1, <4>1, SMTT(30), Z3T(30)
      <4> QED BY <4>1, <4>2
    <3>3. CASE d # e
      BY <2>1, <3>1, <3>3
    <3> QED BY <3>2, <3>3
  <2> QED BY <2>2, <2>3, <2>4, DirNext
  (* Steps of the other threads.                                             *)
<1>SoundAgainstOthers. ASSUME TypeInv, OnceInv, SoundInv, [Next]_vars, ~Crash, SearchStays
                       PROVE  SoundInv'
  <2> USE <1>SoundAgainstOthers
  <2>1. /\ srch.from <= srch.start
        /\ \A k \in DOMAIN srch.got :
              /\ srch.got[k] \in Settled \ srch.dead
              /\ Time[srch.got[k]] \in srch.from..srch.end
              /\ Day(Time[srch.got[k]]) <= Day(srch.start)
              /\ \A i \in Nodes : \A a \in DOMAIN node[i].entries :
                    Current(i) /\ node[i].entries[a].log = srch.got[k] => a <= Passed
        /\ \A j, k \in DOMAIN srch.got : srch.got[j] = srch.got[k] => j = k
        /\ srch.dead \subseteq Settled
        /\ \A i \in Nodes : (\E d \in Days : i = dir[d]) \/ (srch.pc = "read" /\ i = srch.fd) =>
              \A a \in DOMAIN node[i].entries :
                  node[i].entries[a].log \in srch.dead => node[i].entries[a].deleted
    BY DEF SoundInv
  <2>2. Settled \subseteq Settled' /\ Passed' = Passed /\ node' \in [Nodes -> File]
    BY SettledNext, NodeNext DEF SearchStays, Passed
  <2>3. ASSUME NEW i \in Nodes, NEW a \in DOMAIN node'[i].entries PROVE node'[i].entries # <<>>
    BY <2>2, <2>3, SMTT(30), Z3T(30)
  <2>4. ASSUME NEW k \in DOMAIN srch.got, NEW i \in Nodes, NEW a \in DOMAIN node'[i].entries, Current(i)',
               node'[i].entries[a].log = srch.got[k]
        PROVE  a <= Passed
    <3>1. a \in DOMAIN node[i].entries /\ node[i].entries[a].log = srch.got[k]
      BY <2>1, <2>4, <1>EntryOld
    <3>2. Current(i)
      <4>1. CASE srch'.pc = "read" /\ i = srch'.fd
        BY <4>1 DEF Current, SearchStays
      <4>2. CASE Day(srch'.start) \in Days /\ i = dir'[Day(srch'.start)]
        <5>1. Day(srch.start) \in Days /\ i = dir'[Day(srch.start)]
          BY <4>2 DEF SearchStays
        <5>2. dir'[Day(srch.start)] = dir[Day(srch.start)]
          BY <2>3, <2>4, <5>1, <1>FileOld
        <5> QED BY <5>1, <5>2 DEF Current
      <4> QED BY <2>4, <4>1, <4>2 DEF Current
    <3> QED BY <2>1, <3>1, <3>2
  <2>5. ASSUME NEW i \in Nodes, (\E d \in Days : i = dir'[d]) \/ (srch'.pc = "read" /\ i = srch'.fd),
               NEW a \in DOMAIN node'[i].entries, node'[i].entries[a].log \in srch.dead
        PROVE  node'[i].entries[a].deleted
    <3>1. /\ a \in DOMAIN node[i].entries /\ node[i].entries[a].log \in srch.dead
          /\ node[i].entries[a].deleted => node'[i].entries[a].deleted
      BY <2>1, <2>5, <1>EntryOld
    <3>2. (\E d \in Days : i = dir[d]) \/ (srch.pc = "read" /\ i = srch.fd)
      <4>1. CASE srch'.pc = "read" /\ i = srch'.fd
        BY <4>1 DEF SearchStays
      <4>2. ASSUME NEW d \in Days, i = dir'[d] PROVE i = dir[d]
        BY <2>3, <2>5, <4>2, <1>FileOld
      <4> QED BY <2>5, <4>1, <4>2
    <3> QED BY <2>1, <3>1, <3>2
  <2>6. \A k \in DOMAIN srch'.got :
              /\ srch'.got[k] \in Settled' \ srch'.dead
              /\ Time[srch'.got[k]] \in srch'.from..srch'.end
              /\ Day(Time[srch'.got[k]]) <= Day(srch'.start)
              /\ \A i \in Nodes : \A a \in DOMAIN node'[i].entries :
                    Current(i)' /\ node'[i].entries[a].log = srch'.got[k] => a <= Passed'
    BY <2>1, <2>2, <2>4, ZenonT(60) DEF SearchStays
  <2>7. /\ srch'.from <= srch'.start
        /\ \A j, k \in DOMAIN srch'.got : srch'.got[j] = srch'.got[k] => j = k
        /\ srch'.dead \subseteq Settled'
    BY <2>1, <2>2, ZenonT(60) DEF SearchStays
  <2>8. \A i \in Nodes : (\E d \in Days : i = dir'[d]) \/ (srch'.pc = "read" /\ i = srch'.fd) =>
              \A a \in DOMAIN node'[i].entries :
                  node'[i].entries[a].log \in srch'.dead => node'[i].entries[a].deleted
    BY <2>5 DEF SearchStays
  <2> QED BY <2>6, <2>7, <2>8 DEF SoundInv
  (* The search moves on to another day, or opens the file of its day.       *)
<1>SoundMove. ASSUME TypeInv, OnceInv, OwnerInv, SoundInv, UNCHANGED <<disk, queue, added, saver>>,
                     srch \in SrchState, srch' \in SrchState, SameSearch, srch'.got = srch.got,
                     \/ /\ srch'.pc # "read" /\ srch'.start = srch.start /\ Passed <= Passed'
                     \/ /\ srch'.pc = "read" /\ srch'.start = srch.start /\ Passed <= Passed'
                        /\ \/ Day(srch.start) \in Days /\ srch'.fd = dir[Day(srch.start)]
                           \/ srch.pc = "read" /\ srch'.fd = srch.fd
                     \/ srch'.pc # "read" /\ srch'.start = TimeToNextDay(srch.start)
              PROVE  SoundInv'
  <2> USE <1>SoundMove
  <2>1. /\ srch.from <= srch.start
        /\ \A k \in DOMAIN srch.got :
              /\ srch.got[k] \in Settled \ srch.dead
              /\ Time[srch.got[k]] \in srch.from..srch.end
              /\ Day(Time[srch.got[k]]) <= Day(srch.start)
              /\ \A i \in Nodes : \A a \in DOMAIN node[i].entries :
                    Current(i) /\ node[i].entries[a].log = srch.got[k] => a <= Passed
        /\ \A j, k \in DOMAIN srch.got : srch.got[j] = srch.got[k] => j = k
        /\ srch.dead \subseteq Settled
        /\ \A i \in Nodes : (\E d \in Days : i = dir[d]) \/ (srch.pc = "read" /\ i = srch.fd) =>
              \A a \in DOMAIN node[i].entries :
                  node[i].entries[a].log \in srch.dead => node[i].entries[a].deleted
    BY DEF SoundInv
  <2>2. Settled' = Settled /\ node' = node /\ dir' = dir
    BY DEF Settled, Taken, Buffers, disk
  <2>3. /\ srch.start \in Nat /\ srch.from \in Nat /\ Passed \in Nat /\ Passed' \in Nat /\ srch.got \in Seq(Logs)
        /\ node \in [Nodes -> File]
    <3>1. Passed \in Nat /\ Passed' \in Nat
      BY PassedType DEF Passed
    <3> QED BY <3>1 DEF SrchState, TypeInv, DiskOK
  <2>4. \A i \in Nodes : \A a \in DOMAIN node[i].entries : a \in Nat
    BY <2>3, SMTT(30), Z3T(30) DEF File
  <2>5. \A k \in DOMAIN srch.got : Day(Time[srch.got[k]]) \in Nat
    <3>1. \A k \in DOMAIN srch.got : srch.got[k] \in Logs
      BY <2>3, SMTT(30), Z3T(30)
    <3> QED BY <3>1, TimeFacts
  <2>6. \A i \in Nodes : (\E d \in Days : i = dir'[d]) \/ (srch'.pc = "read" /\ i = srch'.fd) =>
              \A a \in DOMAIN node'[i].entries :
                  node'[i].entries[a].log \in srch'.dead => node'[i].entries[a].deleted
    BY <2>1, <2>2, ZenonT(60) DEF SameSearch
  <2>7. CASE srch'.start = srch.start /\ Passed <= Passed' /\ \A i : Current(i)' => Current(i)
    <3>1. \A k \in DOMAIN srch.got : \A i \in Nodes : \A a \in DOMAIN node[i].entries :
              Current(i)' /\ node[i].entries[a].log = srch.got[k] => a <= Passed'
      BY <2>1, <2>3, <2>4, <2>7, NatOrder
    <3>2. \A k \in DOMAIN srch'.got :
              /\ srch'.got[k] \in Settled' \ srch'.dead
              /\ Time[srch'.got[k]] \in srch'.from..srch'.end
              /\ Day(Time[srch'.got[k]]) <= Day(srch'.start)
              /\ \A i \in Nodes : \A a \in DOMAIN node'[i].entries :
                    Current(i)' /\ node'[i].entries[a].log = srch'.got[k] => a <= Passed'
      BY <2>1, <2>2, <2>7, <3>1, ZenonT(60) DEF SameSearch
    <3>3. /\ srch'.from <= srch'.start
          /\ \A j, k \in DOMAIN srch'.got : srch'.got[j] = srch'.got[k] => j = k
          /\ srch'.dead \subseteq Settled'
      BY <2>1, <2>2, <2>7, ZenonT(60) DEF SameSearch
    <3> QED BY <2>6, <3>2, <3>3 DEF SoundInv
  <2>8. CASE srch'.pc # "read" /\ srch'.start = TimeToNextDay(srch.start)
    <3>1. srch.start < srch'.start /\ Day(srch'.start) = Day(srch.start) + 1 /\ Day(srch.start) \in Nat /\ srch'.start \in Nat
      BY <2>3, <2>8, DayFacts
    <3>2. PICK o \in [Nodes -> Nat] : Owned(o)
      BY DEF OwnerInv
    <3>3. ASSUME NEW k \in DOMAIN srch.got, NEW i \in Nodes, NEW a \in DOMAIN node[i].entries, Current(i)',
                 node[i].entries[a].log = srch.got[k]
          PROVE  FALSE
      <4>1. Day(srch'.start) \in Days /\ i = dir[Day(srch'.start)]
        BY <2>2, <2>8, <3>3 DEF Current
      <4>2. dir[Day(srch'.start)] # 0
        <5>1. node[i].entries # <<>>
          BY <2>3, <3>3, SMTT(30), Z3T(30) DEF File
        <5>2. i \in 1..used /\ used \in Nat
          BY <5>1 DEF TypeInv, DiskOK
        <5> QED BY <4>1, <5>2, SMTT(30), Z3T(30)
      <4>3. o[i] = Day(srch'.start) /\ Day(Time[srch.got[k]]) = o[i]
        BY <3>2, <3>3, <4>1, <4>2 DEF Owned
      <4>4. Day(Time[srch.got[k]]) <= Day(srch.start) /\ Day(Time[srch.got[k]]) \in Nat
        BY <2>1, <2>5
      <4> QED BY <3>1, <4>3, <4>4, SMTT(30), Z3T(30)
    <3>4. ASSUME NEW k \in DOMAIN srch.got PROVE Day(Time[srch.got[k]]) <= Day(srch'.start)
      <4>1. Day(Time[srch.got[k]]) <= Day(srch.start) /\ Day(Time[srch.got[k]]) \in Nat
        BY <2>1, <2>5
      <4> QED BY <3>1, <4>1, SMTT(30), Z3T(30)
    <3>5. \A k \in DOMAIN srch'.got :
              /\ srch'.got[k] \in Settled' \ srch'.dead
              /\ Time[srch'.got[k]] \in srch'.from..srch'.end
              /\ Day(Time[srch'.got[k]]) <= Day(srch'.start)
              /\ \A i \in Nodes : \A a \in DOMAIN node'[i].entries :
                    Current(i)' /\ node'[i].entries[a].log = srch'.got[k] => a <= Passed'
      BY <2>1, <2>2, <3>3, <3>4, ZenonT(60) DEF SameSearch
    <3>6. srch'.from <= srch'.start
      <4>1. srch.from \in Nat /\ srch.start \in Nat /\ srch'.start \in Nat
        BY <2>3, <3>1
      <4>2. srch.from <= srch.start /\ srch.start < srch'.start /\ srch'.from = srch.from
        BY <2>1, <3>1 DEF SameSearch
      <4>3. srch.from <= srch'.start
        BY ONLY <4>1, <4>2, SMTT(30), Z3T(30)
      <4> QED BY <4>2, <4>3
    <3>7. /\ \A j, k \in DOMAIN srch'.got : srch'.got[j] = srch'.got[k] => j = k
          /\ srch'.dead \subseteq Settled'
      BY <2>1, <2>2 DEF SameSearch
    <3> QED BY <2>6, <3>5, <3>6, <3>7 DEF SoundInv
  <2>9. CASE srch'.pc # "read" /\ srch'.start = srch.start /\ Passed <= Passed'
    <3>1. \A i : Current(i)' => Current(i)
      BY <2>2, <2>9 DEF Current
    <3> QED BY <2>7, <2>9, <3>1
  <2>10. CASE /\ srch'.pc = "read" /\ srch'.start = srch.start /\ Passed <= Passed'
              /\ \/ Day(srch.start) \in Days /\ srch'.fd = dir[Day(srch.start)]
                 \/ srch.pc = "read" /\ srch'.fd = srch.fd
    <3>1. \A i : Current(i)' => Current(i)
      BY <2>2, <2>10 DEF Current
    <3> QED BY <2>7, <2>10, <3>1
  <2> QED BY <2>8, <2>9, <2>10
  (* The search lists an entry.                                              *)
<1>SoundFind. ASSUME TypeInv, OnceInv, OwnerInv, SoundInv, UNCHANGED <<disk, queue, added, saver>>,
                     srch \in SrchState, srch' \in SrchState, SameSearch, srch.pc = "read",
                     NEW at \in DOMAIN node[srch.fd].entries, at = Passed + 1, Matches(node[srch.fd].entries[at]),
                     srch'.start = srch.start, Passed' = at,
                     srch'.got = Append(srch.got, node[srch.fd].entries[at].log),
                     srch'.pc = "read" => srch'.fd = srch.fd
              PROVE  SoundInv'
  <2> USE <1>SoundFind
  <2>1. /\ srch.from <= srch.start
        /\ \A k \in DOMAIN srch.got :
              /\ srch.got[k] \in Settled \ srch.dead
              /\ Time[srch.got[k]] \in srch.from..srch.end
              /\ Day(Time[srch.got[k]]) <= Day(srch.start)
              /\ \A i \in Nodes : \A a \in DOMAIN node[i].entries :
                    Current(i) /\ node[i].entries[a].log = srch.got[k] => a <= Passed
        /\ \A j, k \in DOMAIN srch.got : srch.got[j] = srch.got[k] => j = k
        /\ srch.dead \subseteq Settled
        /\ \A i \in Nodes : (\E d \in Days : i = dir[d]) \/ (srch.pc = "read" /\ i = srch.fd) =>
              \A a \in DOMAIN node[i].entries :
                  node[i].entries[a].log \in srch.dead => node[i].entries[a].deleted
    BY DEF SoundInv
  <2>2. Settled' = Settled /\ node' = node /\ dir' = dir
    BY DEF Settled, Taken, Buffers, disk
  <2>3. /\ srch.start \in Nat /\ srch.from \in Nat /\ srch.end \in Nat /\ Passed \in Nat /\ srch.got \in Seq(Logs)
        /\ node \in [Nodes -> File] /\ srch.fd \in Nodes
    <3>1. srch.fd \in Nodes /\ node \in [Nodes -> File]
      BY DEF TypeInv, DiskOK, SrchOK
    <3>2. srch.start \in Nat /\ srch.from \in Nat /\ srch.end \in Nat /\ srch.got \in Seq(Logs)
      BY DEF SrchState
    <3>3. Passed \in Nat
      BY PassedType DEF Passed
    <3> QED BY <3>1, <3>2, <3>3
  <2>4. \A i \in Nodes : \A a \in DOMAIN node[i].entries : a \in Nat
    BY <2>3, SMTT(30), Z3T(30) DEF File
  <2> DEFINE es == node[srch.fd].entries
             log == es[at].log
  <2>5. log \in Settled /\ log \in Logs /\ Time[log] \in Nat
    <3>1. log \in Settled
      BY <2>3 DEF OnceInv
    <3> QED BY <3>1, TimeFacts DEF Settled
  <2>6. Time[log] \in srch.from..srch.end /\ log \notin srch.dead
    <3>1. Time[log] \in srch.start..srch.end /\ ~es[at].deleted
      BY DEF Matches
    <3>2. log \notin srch.dead
      BY <2>1, <2>3, <3>1
    <3>3. Time[log] \in srch.from..srch.end
      <4>1. \A t \in Nat : t \in srch.start..srch.end => t \in srch.from..srch.end
        BY <2>1, <2>3, SMTT(30), Z3T(30)
      <4> QED BY <2>5, <3>1, <4>1, ZenonT(60)
    <3> QED BY <3>2, <3>3
  <2>7. Day(Time[log]) = Day(srch.start) /\ Day(srch.start) \in Nat
    <3>1. PICK o \in [Nodes -> Nat] : Owned(o)
      BY DEF OwnerInv
    <3>2. Day(Time[log]) = Day(srch.start)
      BY <2>3, <3>1, ZenonT(60) DEF Owned
    <3> QED BY <2>3, <3>2, DayFacts
  <2>8. \A i \in Nodes : \A a \in DOMAIN node[i].entries : node[i].entries[a].log = log => a = at
    BY <2>3, SMTT(30), Z3T(30) DEF OnceInv
  <2>9. \A k \in DOMAIN srch.got : srch.got[k] # log
    <3> SUFFICES ASSUME NEW k \in DOMAIN srch.got, srch.got[k] = log PROVE FALSE
      OBVIOUS
    <3>1. Current(srch.fd)
      BY DEF Current
    <3>2. at <= Passed
      BY <2>1, <2>3, <3>1
    <3> QED BY <2>3, <3>2, SMTT(30), Z3T(30)
  <2>10. \A i : Current(i)' => Current(i)
    BY <2>2 DEF Current
  <2> DEFINE n == Len(srch.got) + 1
  <2>11. /\ n \in Nat /\ DOMAIN srch.got = 1..Len(srch.got) /\ Len(srch.got) \in Nat /\ DOMAIN srch'.got = 1..n
         /\ srch'.got[n] = log
         /\ \A k \in DOMAIN srch.got : srch'.got[k] = srch.got[k]
         /\ \A k \in DOMAIN srch'.got : k \in DOMAIN srch.got \/ k = n
    <3>1. srch'.got = Append(srch.got, log)
      OBVIOUS
    <3> HIDE <1>SoundFind DEF log
    <3> QED BY <2>3, <2>5, <3>1, AppendFacts, SMTT(30), Z3T(30)
  <2> HIDE DEF n, log
  <2>12. \A i \in Nodes : (\E d \in Days : i = dir'[d]) \/ (srch'.pc = "read" /\ i = srch'.fd) =>
              \A a \in DOMAIN node'[i].entries :
                  node'[i].entries[a].log \in srch'.dead => node'[i].entries[a].deleted
    BY <2>1, <2>2 DEF SameSearch
  <2>13. \A j, k \in DOMAIN srch'.got : srch'.got[j] = srch'.got[k] => j = k
    <3> SUFFICES ASSUME NEW j \in DOMAIN srch'.got, NEW k \in DOMAIN srch'.got, srch'.got[j] = srch'.got[k]
                 PROVE  j = k
      OBVIOUS
    <3>1. CASE j = n
      BY <2>9, <2>11, <3>1
    <3>2. CASE k = n
      BY <2>9, <2>11, <3>2
    <3>3. CASE j \in DOMAIN srch.got /\ k \in DOMAIN srch.got
      BY <2>1, <2>11, <3>3
    <3> QED BY <2>11, <3>1, <3>2, <3>3
  <2>14. ASSUME NEW k \in DOMAIN srch'.got
         PROVE  /\ srch'.got[k] \in Settled' \ srch'.dead
                /\ Time[srch'.got[k]] \in srch'.from..srch'.end
                /\ Day(Time[srch'.got[k]]) <= Day(srch'.start)
                /\ \A i \in Nodes : \A a \in DOMAIN node'[i].entries :
                      Current(i)' /\ node'[i].entries[a].log = srch'.got[k] => a <= Passed'
    <3>1. CASE k = n
      <4>1. srch'.got[k] = log
        BY <2>11, <3>1
      <4>2. \A i \in Nodes : \A a \in DOMAIN node'[i].entries : node'[i].entries[a].log = log => a <= Passed'
        <5>1. at <= Passed'
          BY <2>3, <2>4, NatOrder
        <5> QED BY <2>2, <2>8, <5>1
      <4>3. Day(Time[log]) <= Day(srch'.start)
        BY <2>7, NatOrder DEF SameSearch
      <4> QED BY <2>2, <2>5, <2>6, <4>1, <4>2, <4>3 DEF SameSearch
    <3>2. CASE k \in DOMAIN srch.got
      <4>1. srch'.got[k] = srch.got[k]
        BY <2>11, <3>2
      <4>2. \A i \in Nodes : \A a \in DOMAIN node[i].entries :
                Current(i)' /\ node[i].entries[a].log = srch.got[k] => a <= at
        <5> SUFFICES ASSUME NEW i \in Nodes, NEW a \in DOMAIN node[i].entries, Current(i)',
                            node[i].entries[a].log = srch.got[k]
                     PROVE  a <= at
          OBVIOUS
        <5>1. a \in Nat /\ a <= Passed
          BY <2>1, <2>4, <2>10, <3>2, ZenonT(60)
        <5>2. Passed <= at /\ at \in Nat
          BY <2>3, SMTT(30), Z3T(30)
        <5> QED BY <2>3, <5>1, <5>2, NatOrder
      <4> QED BY <2>1, <2>2, <3>2, <4>1, <4>2 DEF SameSearch
    <3> QED BY <2>11, <3>1, <3>2
  <2>15. srch'.from <= srch'.start /\ srch'.dead \subseteq Settled'
    BY <2>1, <2>2 DEF SameSearch
  <2> QED BY <2>12, <2>13, <2>14, <2>15 DEF SoundInv
<1>3. srch' = NoSearch => SoundInv'
  <2> SUFFICES ASSUME srch' = NoSearch PROVE SoundInv'
    OBVIOUS
  <2>1. srch'.from = 0 /\ srch'.start = 0 /\ srch'.got = <<>> /\ srch'.dead = {}
    BY DEF NoSearch
  <2> QED BY <2>1, SMTT(30), Z3T(30) DEF SoundInv
<1> SUFFICES ASSUME TypeInv, OnceInv, OwnerInv, SoundInv, [Next]_vars, ~Crash PROVE SoundInv'
  BY <1>3 DEF Crash, Restart
<1>1. srch \in SrchState /\ Passed \in Nat
  BY SMTT(30), Z3T(30) DEF TypeInv, SrchOK, SrchState, Passed
<1>2. CASE srch' = srch
  <2>1. SearchStays
    BY <1>2 DEF SearchStays
  <2> QED BY <2>1, <1>SoundAgainstOthers
<1>4. ASSUME NEW gone, srch' = Unwanted(srch, gone) PROVE SoundInv'
  <2>1. SearchStays
    BY <1>1, <1>4, UnwantedFields DEF SearchStays
  <2> QED BY <2>1, <1>SoundAgainstOthers
<1>5. CASE MarkEntry /\ node' # node
  BY <1>4, <1>5, MarkStep
<1>6. CASE \E d \in Days : Unlink(d)
  BY <1>4, <1>6 DEF Unlink
<1>7. CASE /\ UNCHANGED <<disk, queue, added, saver, del, ghosts>>
           /\ \E r \in Ranges, num \in PageSizes : SearchStart(r[1], r[2], num)
  <2>1. PICK r \in Ranges, num \in PageSizes : SearchStart(r[1], r[2], num)
    BY <1>7
  <2>2. /\ srch' \in SrchState /\ srch'.pc = "day" /\ srch'.from = r[1] /\ srch'.start = r[1]
        /\ srch'.got = <<>> /\ srch'.dead = Dead
    BY <2>1, SearchStartFields
  <2>3. Settled' = Settled /\ node' = node /\ dir' = dir
    BY <1>7 DEF Settled, Taken, Buffers, disk
  <2>4. r[1] \in Nat
    BY LogAssumption
  <2>5. srch'.dead \subseteq Settled'
    BY <2>2, <2>3 DEF Dead, OnceInv
  <2>6. ASSUME NEW i \in Nodes, NEW d \in Days, i = dir[d], NEW a \in DOMAIN node[i].entries,
               node[i].entries[a].log \in Dead
        PROVE  node[i].entries[a].deleted
    <3>1. dir[d] # 0
      <4>1. node[i].entries # <<>>
        BY <2>6, SMTT(30), Z3T(30) DEF TypeInv, DiskOK, File
      <4>2. i \in 1..used /\ used \in Nat
        BY <4>1 DEF TypeInv, DiskOK
      <4> QED BY <2>6, <4>2, SMTT(30), Z3T(30)
    <3>2. ~node[i].entries[a].deleted => LiveAt(d, a, node[i].entries[a].log) /\ a \in DOMAIN OnDisk(d)
      BY <2>6, <3>1 DEF LiveAt, OnDisk
    <3> QED BY <2>6, <3>2, LiveFacts DEF Dead
  <2>7. \A i \in Nodes : (\E d \in Days : i = dir'[d]) \/ (srch'.pc = "read" /\ i = srch'.fd) =>
            \A a \in DOMAIN node'[i].entries :
                node'[i].entries[a].log \in srch'.dead => node'[i].entries[a].deleted
    BY <2>2, <2>3, <2>6
  <2>8. DOMAIN srch'.got = {}
    BY <2>2, SMTT(30), Z3T(30)
  <2>9. srch'.from <= srch'.start
    BY <2>2, <2>4, NatOrder
  <2> QED BY <2>5, <2>7, <2>8, <2>9 DEF SoundInv
<1>8. CASE SearchDay /\ UNCHANGED <<disk, queue, added, saver, del, ghosts>>
  <2>1. /\ srch' \in SrchState /\ SameSearch /\ srch'.over = 0 /\ srch'.got = srch.got /\ srch.pc = "day"
    BY <1>8, SearchDayFields
  <2>2. srch.over = 0
    BY <2>1 DEF TypeInv, SrchOK
  <2>3. \/ srch'.pc = "page" /\ srch'.start = srch.start /\ srch'.addr = srch.addr
        \/ srch'.pc = "day" /\ srch'.start = TimeToNextDay(srch.start)
        \/ /\ Day(srch.start) \in Days /\ srch'.pc = "read" /\ srch'.start = srch.start /\ srch'.addr = srch.addr
           /\ srch'.fd = dir[Day(srch.start)]
    BY <1>8, SearchDayFields DEF Present
  <2>4. srch'.addr = srch.addr => Passed <= Passed'
    BY <1>1, <2>1, <2>2, SMTT(30), Z3T(30) DEF Passed
  <2> QED BY <1>1, <1>8, <2>1, <2>3, <2>4, <1>SoundMove
<1>9. CASE SearchRead /\ UNCHANGED <<disk, queue, added, saver, del, ghosts>>
  <2> DEFINE es == node[srch.fd].entries
  <2>1. PICK at : at = Passed + 1
    OBVIOUS
  <2>2. srch' \in SrchState /\ srch.pc = "read" /\ SameSearch
    BY <1>9, SearchReadFields
  <2>3. \/ /\ srch'.pc = "day" /\ srch'.start = TimeToNextDay(srch.start) /\ srch'.got = srch.got
        \/ /\ srch'.pc = "read" /\ srch'.start = srch.start /\ srch'.addr = srch.addr
           /\ srch'.over = srch.over + 1 /\ srch'.fd = srch.fd /\ srch'.got = srch.got
        \/ /\ at \in DOMAIN es /\ Matches(es[at])
           /\ srch'.start = srch.start /\ srch'.addr + srch'.over = at
           /\ srch'.got = Append(srch.got, es[at].log)
           /\ srch'.pc = "read" => srch'.fd = srch.fd
    BY <1>9, <2>1, SearchReadFields
  <2>4. CASE srch'.pc = "day" /\ srch'.start = TimeToNextDay(srch.start) /\ srch'.got = srch.got
    BY <1>1, <1>9, <2>2, <2>4, <1>SoundMove
  <2>5. CASE /\ srch'.pc = "read" /\ srch'.start = srch.start /\ srch'.addr = srch.addr
             /\ srch'.over = srch.over + 1 /\ srch'.fd = srch.fd /\ srch'.got = srch.got
    <3>1. srch.addr \in Nat /\ srch.over \in Nat
      BY <1>1 DEF SrchState
    <3>2. Passed <= Passed'
      BY <2>5, <3>1, SMTT(30), Z3T(30) DEF Passed
    <3> QED BY <1>1, <1>9, <2>2, <2>5, <3>2, <1>SoundMove
  <2>6. CASE /\ at \in DOMAIN es /\ Matches(es[at])
             /\ srch'.start = srch.start /\ srch'.addr + srch'.over = at
             /\ srch'.got = Append(srch.got, es[at].log)
             /\ srch'.pc = "read" => srch'.fd = srch.fd
    <3>1. Passed' = at
      BY <2>6 DEF Passed
    <3> QED BY <1>1, <1>9, <2>1, <2>2, <2>6, <3>1, <1>SoundFind
  <2> QED BY <2>3, <2>4, <2>5, <2>6
<1>10. CASE SearchPage /\ UNCHANGED <<disk, queue, added, saver, del, ghosts>>
  <2>1. CASE /\ srch' \in SrchState /\ srch'.pc = "day" /\ srch'.start = srch.start /\ srch'.addr = srch.addr
             /\ srch'.over = srch.over /\ srch'.got = srch.got /\ SameSearch
    <3>1. Passed <= Passed'
      BY <1>1, <2>1, SMTT(30), Z3T(30) DEF Passed
    <3> QED BY <1>1, <1>10, <2>1, <3>1, <1>SoundMove
  <2> QED BY <1>3, <1>10, <2>1, SearchPageFields
<1>11. CASE SearchFails /\ UNCHANGED <<disk, queue, added, saver, del, ghosts>>
  <2>1. srch' \in SrchState /\ SameSearch /\ srch'.got = srch.got
    BY <1>11, SearchFailsFields
  <2>2. CASE srch'.pc = "day" /\ srch'.start = TimeToNextDay(srch.start)
    BY <1>1, <1>11, <2>1, <2>2, <1>SoundMove
  <2>3. CASE /\ srch.pc = "read" /\ srch'.pc = "read" /\ srch'.start = srch.start /\ srch'.addr = srch.addr
             /\ srch'.over = srch.over + 1 /\ srch'.fd = srch.fd
    <3>1. srch.addr \in Nat /\ srch.over \in Nat
      BY <1>1 DEF SrchState
    <3>2. Passed <= Passed'
      BY <2>3, <3>1, SMTT(30), Z3T(30) DEF Passed
    <3> QED BY <1>1, <1>11, <2>1, <2>3, <3>2, <1>SoundMove
  <2> QED BY <1>11, <2>2, <2>3, SearchFailsFields
<1> QED BY <1>2, <1>3, <1>5, <1>6, <1>7, <1>8, <1>9, <1>10, <1>11, SearchCases

-----------------------------------------------------------------------------
LEMMA CompleteInit == Init => CompleteInv
  BY SMTT(30), Z3T(30) DEF Init, CompleteInv, NoSearch

(* A search returns what was there when it began and is there still.       *)
LEMMA CompleteNext == TypeInv /\ OnceInv /\ OwnerInv /\ DelInv /\ CompleteInv /\ [Next]_vars => CompleteInv'
  (* A log ahead of the search, in the terms of LiveAt.                      *)
<1>AheadFacts. ASSUME TypeInv, OnceInv, OwnerInv, NEW l, Ahead(l)
               PROVE  \E a \in Nat \ {0} :
                         /\ LiveAt(Day(Time[l]), a, l)
                         /\ Day(Time[l]) = Day(srch.start) =>
                               a > Passed /\ (srch.pc = "read" => srch.fd = dir[Day(Time[l])])
  <2> USE <1>AheadFacts
  <2>1. PICK a : /\ LiveAt(Day(Time[l]), a, l)
                 /\ Day(Time[l]) = Day(srch.start) =>
                       a > Passed /\ (srch.pc = "read" => srch.fd = dir[Day(Time[l])])
    BY DEF Ahead
  <2>2. a \in Nat \ {0}
    BY <2>1, LivePlace
  <2> QED BY <2>1, <2>2
<1>AheadAfter.
      ASSUME NEW l, NEW a, Time[l] \in srch'.start..srch'.end, LiveAt(Day(Time[l]), a, l)',
             Day(Time[l]) = Day(srch'.start) => a > Passed' /\ (srch'.pc = "read" => srch'.fd = dir'[Day(Time[l])])
      PROVE  Ahead(l)'
  <2> USE <1>AheadAfter
  <2>1. a \in DOMAIN OnDisk(Day(Time[l]))'
    BY DEF LiveAt, OnDisk
  <2> QED BY <2>1 DEF Ahead
  (* Steps of the other threads: what they take off the disk is not wanted.  *)
<1>CompleteAgainstOthers.
      ASSUME TypeInv, OnceInv, OwnerInv, DelInv, CompleteInv, [Next]_vars, SearchStays, srch'.want \subseteq srch.want
      PROVE  CompleteInv'
  <2> USE <1>CompleteAgainstOthers
  <2>1. ASSUME NEW l \in srch'.want PROVE Ahead(l)' \/ \E k \in DOMAIN srch'.got : srch'.got[k] = l
    <3>1. CASE \E k \in DOMAIN srch.got : srch.got[k] = l
      BY <3>1, ZenonT(60) DEF SearchStays
    <3>2. CASE Ahead(l)
      <4>1. PICK a \in Nat \ {0} :
                /\ LiveAt(Day(Time[l]), a, l)
                /\ Day(Time[l]) = Day(srch.start) =>
                      a > Passed /\ (srch.pc = "read" => srch.fd = dir[Day(Time[l])])
        BY <3>2, <1>AheadFacts
      <4>2. PICK d : d = Day(Time[l])
        OBVIOUS
      <4>3. srch \in SrchState
        BY DEF TypeInv, SrchOK
      <4>4. CASE LiveAt(d, a, l)' /\ dir'[d] = dir[d]
        <5>1. Passed' = Passed /\ Time[l] \in srch'.start..srch'.end
          BY <3>2 DEF Passed, SearchStays, Ahead
        <5>2. LiveAt(Day(Time[l]), a, l)'
          BY <4>2, <4>4
        <5>3. Day(Time[l]) = Day(srch'.start) => a > Passed' /\ (srch'.pc = "read" => srch'.fd = dir'[Day(Time[l])])
          BY <4>1, <4>2, <4>4, <5>1 DEF SearchStays
        <5> QED BY <5>1, <5>2, <5>3, <1>AheadAfter
      <4>5. CASE Unlink(d) /\ l \in {OnDisk(d)[b].log : b \in DOMAIN OnDisk(d)}
        <5>1. srch' = Unwanted(srch, {OnDisk(d)[b].log : b \in DOMAIN OnDisk(d)})
          BY <4>5 DEF Unlink
        <5>2. srch'.want = srch.want \ {OnDisk(d)[b].log : b \in DOMAIN OnDisk(d)}
          BY <4>3, <5>1, UnwantedFields
        <5> QED BY <2>1, <4>5, <5>2
      <4>6. CASE MarkEntry /\ node' # node /\ l = node[del.fd].entries[del.addr].log
        <5>1. srch' = Unwanted(srch, {node[del.fd].entries[del.addr].log})
          BY <4>6, MarkStep
        <5>2. srch'.want = srch.want \ {node[del.fd].entries[del.addr].log}
          BY <4>3, <5>1, UnwantedFields
        <5> QED BY <2>1, <4>6, <5>2
      <4>7. LiveAt(d, a, l)
        BY <4>1, <4>2
      <4> QED BY <4>4, <4>5, <4>6, <4>7, LiveStays, SMTT(30), Z3T(30)
    <3> QED BY <3>1, <3>2 DEF CompleteInv
  <2>2. srch'.pc = "page" => \/ Day(srch'.start) > Day(srch'.end)
                             \/ srch'.num > 0 /\ srch'.page >= srch'.num /\ srch'.start <= srch'.end
    BY DEF CompleteInv, SearchStays
  <2> QED BY <2>1, <2>2 DEF CompleteInv
  (* Steps of the search: each wanted log is listed now or is still ahead.   *)
<1>CompleteOwn. ASSUME TypeInv, OnceInv, OwnerInv, CompleteInv, UNCHANGED <<disk, queue, added, saver, del, ghosts>>,
                       SearchDay \/ SearchRead \/ SearchPage \/ SearchFails, NEW l \in srch'.want
                PROVE  Ahead(l)' \/ \E k \in DOMAIN srch'.got : srch'.got[k] = l
  <2> USE <1>CompleteOwn
  <2>1. srch \in SrchState /\ node' = node /\ dir' = dir
    BY DEF TypeInv, SrchOK, disk
  <2>2. /\ srch.start \in Nat /\ srch.end \in Nat /\ srch.addr \in Nat /\ srch.over \in Nat /\ srch.got \in Seq(Logs)
        /\ Passed \in Nat /\ srch.want \subseteq Logs
    BY <2>1, SMTT(30), Z3T(30) DEF SrchState, Passed
  <2>3. CASE srch' = NoSearch
    BY <2>3 DEF NoSearch
  <2>4. CASE srch' # NoSearch /\ \E k \in DOMAIN srch.got : srch.got[k] = l
    <3>1. srch'.got = srch.got \/ \E x : srch'.got = Append(srch.got, x)
      BY <2>4, SearchDayFields, SearchReadFields, SearchPageFields, SearchFailsFields
    <3>2. \A k \in DOMAIN srch.got : k \in DOMAIN srch'.got /\ srch'.got[k] = srch.got[k]
      BY <2>2, <3>1, SMTT(30), Z3T(30)
    <3> QED BY <2>4, <3>2
  <2>5. CASE srch' # NoSearch /\ Ahead(l)
    <3>1. PICK a \in Nat \ {0} :
                /\ LiveAt(Day(Time[l]), a, l)
                /\ Day(Time[l]) = Day(srch.start) =>
                      a > Passed /\ (srch.pc = "read" => srch.fd = dir[Day(Time[l])])
      BY <2>5, <1>AheadFacts
    <3>2. PICK d : d = Day(Time[l])
      OBVIOUS
    <3>3. /\ l \in Logs /\ Time[l] \in Nat /\ Time[l] >= srch.start /\ Time[l] <= srch.end /\ d \in Present /\ d \in Days
          /\ d \in Nat /\ Day(srch.start) \in Nat /\ dir[d] \in Nodes
      <4>1. d \in Present /\ d \in Days /\ l \in Logs /\ dir[d] \in Nodes
        BY <3>1, <3>2, LivePlace
      <4>2. Time[l] \in srch.start..srch.end
        BY <2>5 DEF Ahead
      <4>3. Time[l] \in Nat /\ d \in Nat
        BY <4>1, TimeFacts
      <4>4. Time[l] >= srch.start /\ Time[l] <= srch.end
        BY <2>2, <4>2, <4>3, SMTT(30), Z3T(30)
      <4>5. Day(srch.start) \in Nat
        BY <2>2, DayFacts
      <4> QED BY <4>1, <4>3, <4>4, <4>5
    <3>4. LiveAt(Day(Time[l]), a, l)'
      BY <2>1, <3>1 DEF LiveAt
    <3>5. d >= Day(srch.start)
      BY <2>2, <3>2, <3>3, DayFacts
    <3>6. ASSUME d # Day(srch.start), SameSearch, srch'.start = TimeToNextDay(srch.start), Passed' = 0, srch'.pc # "read"
          PROVE  Ahead(l)'
      <4>1. Time[l] >= TimeToNextDay(srch.start) /\ TimeToNextDay(srch.start) \in Nat
        <5>1. Day(Time[l]) > Day(srch.start)
          BY <3>2, <3>3, <3>5, <3>6, SMTT(30), Z3T(30)
        <5> QED BY <2>2, <3>3, <5>1, DayFacts, ZenonT(60)
      <4>2. Time[l] \in srch'.start..srch'.end
        BY <2>2, <3>3, <3>6, <4>1, SMTT(30), Z3T(30) DEF SameSearch
      <4> QED BY <3>4, <3>6, <4>2, <1>AheadAfter, SMTT(30), Z3T(30)
    <3>7. ASSUME SameSearch, srch'.start = srch.start,
                 d = Day(srch.start) => a > Passed' /\ (srch'.pc = "read" => srch'.fd = dir[d])
          PROVE  Ahead(l)'
      <4>1. Time[l] \in srch'.start..srch'.end
        BY <2>2, <3>3, <3>7, SMTT(30), Z3T(30) DEF SameSearch
      <4> QED BY <2>1, <3>2, <3>4, <3>7, <4>1, <1>AheadAfter, SMTT(30), Z3T(30)
    <3>8. CASE SearchDay
      <4>1. SameSearch /\ srch'.over = 0 /\ srch.over = 0 /\ srch.pc = "day"
        BY <3>8, SearchDayFields DEF TypeInv, SrchOK
      <4>2. srch'.addr = srch.addr => Passed' = Passed
        BY <4>1 DEF Passed
      <4>3. srch'.addr = 0 => Passed' = 0
        BY <4>1, SMTT(30), Z3T(30) DEF Passed
      <4>4. CASE Day(srch.start) \notin Present /\ srch'.pc = "day" /\ srch'.start = TimeToNextDay(srch.start) /\ srch'.addr = 0
        BY <3>3, <3>6, <4>1, <4>3, <4>4
      <4>5. CASE /\ srch'.start = srch.start /\ srch'.addr = srch.addr
                 /\ srch'.pc = "page" \/ (srch'.pc = "read" /\ srch'.fd = dir[Day(srch.start)])
        BY <3>1, <3>2, <3>7, <4>1, <4>2, <4>5
      <4> QED BY <3>8, <4>4, <4>5, SearchDayFields
    <3>9. CASE SearchRead
      <4> DEFINE es == node[srch.fd].entries
      <4>1. PICK at : at = Passed + 1
        OBVIOUS
      <4>2. SameSearch /\ srch.pc = "read" /\ es \in Seq(Entry) /\ at \in Nat
        BY <3>9, <4>1, SearchReadFields, ZenonT(60)
      <4>3. d = Day(srch.start) => /\ a >= at /\ srch.fd = dir[d] /\ a \in DOMAIN es /\ es[a].log = l /\ ~es[a].deleted
        BY <2>2, <3>1, <3>2, <4>1, <4>2, SMTT(30), Z3T(30) DEF LiveAt
      <4>4. \/ /\ at > Len(es) /\ srch'.pc = "day" /\ srch'.start = TimeToNextDay(srch.start) /\ srch'.addr = 0
               /\ srch'.over = 0
            \/ /\ at \in DOMAIN es /\ ~Matches(es[at])
               /\ srch'.pc = "read" /\ srch'.start = srch.start /\ srch'.addr = srch.addr
               /\ srch'.over = srch.over + 1 /\ srch'.fd = srch.fd
            \/ /\ at \in DOMAIN es
               /\ srch'.start = srch.start /\ srch'.addr + srch'.over = at
               /\ srch'.got = Append(srch.got, es[at].log) /\ (srch'.pc = "read" => srch'.fd = srch.fd)
        BY <3>9, <4>1, SearchReadFields
      <4>5. CASE /\ at > Len(es) /\ srch'.pc = "day" /\ srch'.start = TimeToNextDay(srch.start) /\ srch'.addr = 0
                 /\ srch'.over = 0
        <5>1. d # Day(srch.start)
          BY <4>2, <4>3, <4>5, SMTT(30), Z3T(30)
        <5>2. Passed' = 0
          BY <4>5, SMTT(30), Z3T(30) DEF Passed
        <5> QED BY <3>6, <4>2, <4>5, <5>1, <5>2, ZenonT(60)
      <4>6. CASE /\ at \in DOMAIN es /\ ~Matches(es[at])
                 /\ srch'.pc = "read" /\ srch'.start = srch.start /\ srch'.addr = srch.addr
                 /\ srch'.over = srch.over + 1 /\ srch'.fd = srch.fd
        <5>1. Passed' = at
          BY <2>2, <4>1, <4>6, SMTT(30), Z3T(30) DEF Passed
        <5>2. Time[l] \in srch.start..srch.end
          BY <2>5 DEF Ahead
        <5>3. d = Day(srch.start) => a # at
          BY <4>3, <4>6, <5>2, ZenonT(60) DEF Matches
        <5>4. d = Day(srch.start) => a > Passed' /\ srch'.fd = dir[d]
          BY <4>2, <4>3, <4>6, <5>1, <5>3, SMTT(30), Z3T(30)
        <5> QED BY <3>7, <4>2, <4>6, <5>4
      <4>7. CASE /\ at \in DOMAIN es
                 /\ srch'.start = srch.start /\ srch'.addr + srch'.over = at
                 /\ srch'.got = Append(srch.got, es[at].log) /\ (srch'.pc = "read" => srch'.fd = srch.fd)
        <5>1. Passed' = at
          BY <4>7 DEF Passed
        <5>2. CASE d = Day(srch.start) /\ a = at
          <6>1. es[at].log = l
            BY <4>3, <5>2
          <6>2. Len(srch.got) + 1 \in DOMAIN srch'.got /\ srch'.got[Len(srch.got) + 1] = es[at].log
            BY <2>2, <4>7, SMTT(30), Z3T(30)
          <6> QED BY <6>1, <6>2
        <5>3. CASE ~(d = Day(srch.start) /\ a = at)
          <6>1. d = Day(srch.start) => a > Passed' /\ (srch'.pc = "read" => srch'.fd = dir[d])
            BY <4>2, <4>3, <4>7, <5>1, <5>3, SMTT(30), Z3T(30)
          <6> QED BY <3>7, <4>2, <4>7, <6>1, ZenonT(60)
        <5> QED BY <5>2, <5>3
      <4> QED BY <4>4, <4>5, <4>6, <4>7
    <3>10. CASE SearchPage
      <4>1. SameSearch /\ srch'.start = srch.start /\ srch'.addr = srch.addr /\ srch'.over = srch.over /\ srch'.pc = "day"
        BY <2>5, <3>10, SearchPageFields
      <4>2. Passed' = Passed
        BY <4>1 DEF Passed
      <4> QED BY <3>1, <3>2, <3>7, <4>1, <4>2
    <3>11. CASE SearchFails
      <4> DEFINE es == node[srch.fd].entries
      <4>1. PICK at : at = Passed + 1
        OBVIOUS
      <4>2. SameSearch /\ at \in Nat
        BY <3>11, <4>1, SearchFailsFields
      <4>3. d = Day(srch.start) => a \in DOMAIN node[dir[d]].entries /\ node[dir[d]].entries[a].log = l /\ a >= at
        <5>1. a \in DOMAIN node[dir[d]].entries /\ node[dir[d]].entries[a].log = l
          BY <3>1, <3>2 DEF LiveAt
        <5>2. a > Passed => a >= at
          BY <2>2, <4>1, SMTT(30), Z3T(30)
        <5> QED BY <3>1, <3>2, <5>1, <5>2
      <4>4. d = Day(srch.start) => l \in LogsFrom(dir[d], at)
        BY <4>3 DEF LogsFrom
      <4>5. d = Day(srch.start) /\ srch.pc = "read" => srch.fd = dir[d]
        BY <3>1, <3>2
      <4>6. \/ /\ srch'.pc = "day" /\ srch'.start = TimeToNextDay(srch.start) /\ srch'.addr = 0 /\ srch'.over = 0
               /\ \/ srch'.want = srch.want \ LogsFrom(dir[Day(srch.start)], at)
                  \/ srch.pc = "read" /\ srch'.want = srch.want \ LogsFrom(srch.fd, at)
            \/ /\ srch.pc = "read" /\ srch'.pc = "read" /\ srch'.start = srch.start
               /\ srch'.addr = srch.addr /\ srch'.over = srch.over + 1 /\ srch'.fd = srch.fd
               /\ srch'.want = srch.want \ {es[at].log}
        BY <3>11, <4>1, SearchFailsFields
      <4>7. CASE /\ srch'.pc = "day" /\ srch'.start = TimeToNextDay(srch.start) /\ srch'.addr = 0 /\ srch'.over = 0
                 /\ \/ srch'.want = srch.want \ LogsFrom(dir[Day(srch.start)], at)
                    \/ srch.pc = "read" /\ srch'.want = srch.want \ LogsFrom(srch.fd, at)
        <5>1. d # Day(srch.start)
          BY <4>4, <4>5, <4>7
        <5>2. Passed' = 0
          BY <4>7, SMTT(30), Z3T(30) DEF Passed
        <5> QED BY <3>6, <4>2, <4>7, <5>1, <5>2
      <4>8. CASE /\ srch.pc = "read" /\ srch'.pc = "read" /\ srch'.start = srch.start
                 /\ srch'.addr = srch.addr /\ srch'.over = srch.over + 1 /\ srch'.fd = srch.fd
                 /\ srch'.want = srch.want \ {es[at].log}
        <5>1. Passed' = at
          BY <2>2, <4>1, <4>8, SMTT(30), Z3T(30) DEF Passed
        <5>2. d = Day(srch.start) => a # at
          BY <4>3, <4>5, <4>8
        <5>3. a >= at /\ a # at => a > at
          BY <4>2, SMTT(30), Z3T(30)
        <5>4. d = Day(srch.start) => a > Passed' /\ srch'.fd = dir[d]
          BY <4>3, <4>5, <4>8, <5>1, <5>2, <5>3
        <5> QED BY <3>7, <4>2, <4>8, <5>4
      <4> QED BY <4>6, <4>7, <4>8
    <3> QED BY <3>8, <3>9, <3>10, <3>11
  <2>6. srch' # NoSearch => srch'.want \subseteq srch.want
    BY SearchDayFields, SearchReadFields, SearchPageFields, SearchFailsFields DEF SameSearch
  <2> QED BY <2>3, <2>4, <2>5, <2>6 DEF CompleteInv
<1> SUFFICES ASSUME TypeInv, OnceInv, OwnerInv, DelInv, CompleteInv, [Next]_vars PROVE CompleteInv'
  OBVIOUS
<1>1. srch \in SrchState
  BY DEF TypeInv, SrchOK
<1>2. CASE srch' = srch
  <2>1. SearchStays /\ srch'.want \subseteq srch.want
    BY <1>2 DEF SearchStays
  <2> QED BY <2>1, <1>CompleteAgainstOthers
<1>3. CASE srch' = NoSearch
  <2>1. srch'.want = {} /\ srch'.pc = "none"
    BY <1>3 DEF NoSearch
  <2> QED BY <2>1 DEF CompleteInv
<1>4. ASSUME NEW gone, srch' = Unwanted(srch, gone) PROVE CompleteInv'
  <2>1. SearchStays /\ srch'.want \subseteq srch.want
    BY <1>1, <1>4, UnwantedFields DEF SearchStays
  <2> QED BY <2>1, <1>CompleteAgainstOthers
<1>5. CASE MarkEntry /\ node' # node
  BY <1>4, <1>5, MarkStep
<1>6. CASE \E d \in Days : Unlink(d)
  BY <1>4, <1>6 DEF Unlink
<1>7. CASE /\ UNCHANGED <<disk, queue, added, saver, del, ghosts>>
           /\ \E r \in Ranges, num \in PageSizes : SearchStart(r[1], r[2], num)
  <2>1. PICK r \in Ranges, num \in PageSizes : SearchStart(r[1], r[2], num)
    BY <1>7
  <2>2. /\ srch'.pc = "day" /\ srch'.start = r[1] /\ srch'.end = r[2] /\ srch'.addr = 0 /\ srch'.over = 0
        /\ srch'.want = {l \in Live : Time[l] \in r[1]..r[2]}
    BY <2>1, SearchStartFields
  <2>3. Passed' = 0
    BY <2>2, SMTT(30), Z3T(30) DEF Passed
  <2>4. ASSUME NEW l \in srch'.want PROVE Ahead(l)'
    <3>1. l \in Live /\ Time[l] \in srch'.start..srch'.end
      BY <2>2, <2>4
    <3>2. PICK d, a : LiveAt(d, a, l)
      BY <3>1, LiveFacts
    <3>3. d = Day(Time[l]) /\ a \in Nat \ {0}
      BY <3>2, LivePlace
    <3>4. LiveAt(Day(Time[l]), a, l)'
      BY <1>7, <3>2, <3>3 DEF LiveAt, disk
    <3> QED BY <2>2, <2>3, <3>1, <3>3, <3>4, <1>AheadAfter, SMTT(30), Z3T(30)
  <2> QED BY <2>2, <2>4 DEF CompleteInv
<1>8. CASE /\ UNCHANGED <<disk, queue, added, saver, del, ghosts>>
           /\ SearchDay \/ SearchRead \/ SearchPage \/ SearchFails
  <2>1. ASSUME srch'.pc = "page"
        PROVE  \/ Day(srch'.start) > Day(srch'.end)
               \/ srch'.num > 0 /\ srch'.page >= srch'.num /\ srch'.start <= srch'.end
    <3>1. CASE SearchDay
      BY <2>1, <3>1, SearchDayFields DEF SameSearch
    <3>2. CASE SearchPage
      BY <2>1, <3>2, SearchPageFields, SMTT(30), Z3T(30) DEF NoSearch
    <3>3. CASE SearchRead
      <4> DEFINE e == node[srch.fd].entries[Passed + 1]
      <4>1. Matches(e) /\ srch'.start = srch.start /\ srch'.num > 0 /\ srch'.page >= srch'.num /\ SameSearch
        BY <2>1, <3>3, SearchReadFields
      <4>2. Time[e.log] \in srch.start..srch.end
        BY <4>1 DEF Matches
      <4>3. srch.start \in Nat /\ srch.end \in Nat
        BY <1>1 DEF SrchState
      <4> HIDE DEF e
      <4>4. srch.start <= srch.end
        BY <4>2, <4>3, SMTT(30), Z3T(30)
      <4> QED BY <4>1, <4>4 DEF SameSearch
    <3>4. CASE SearchFails
      BY <2>1, <3>4, SearchFailsFields
    <3> QED BY <1>8, <3>1, <3>2, <3>3, <3>4
  <2>2. \A l \in srch'.want : Ahead(l)' \/ \E k \in DOMAIN srch'.got : srch'.got[k] = l
    BY <1>8, <1>CompleteOwn
  <2> QED BY <2>1, <2>2 DEF CompleteInv
<1> QED BY <1>2, <1>3, <1>5, <1>6, <1>7, <1>8, SearchCases

-----------------------------------------------------------------------------
(* The theorems.                                                           *)

(* An inode's entries are only appended to and marked; power loss may undo *)
(* marks.                                                                  *)
THEOREM OnlyAppended == Spec => EntriesStay
<1>1. TypeInv /\ [Next]_vars =>
        [\A i \in Nodes : LET old == node[i].entries new == node'[i].entries IN
          /\ Len(old) <= Len(new)
          /\ \A a \in DOMAIN old : new[a].log = old[a].log /\ (old[a].deleted /\ ~new[a].deleted => Crash)]_vars
  BY NodeNext DEF Later
<1> QED BY <1>1, TypeInit, TypeNext, PTL DEF Spec, EntriesStay

LEMMA LogInvariant == Spec => [](TypeInv /\ OnceInv /\ OwnerInv /\ DelInv)
  BY TypeInit, TypeNext, OnceInit, OnceNext, OwnerInit, OwnerNext, DelInit, DelInvNext, PTL DEF Spec

(* When a deletion returns, what it was asked for is gone, but for what is *)
(* left of the files it failed at.                                         *)
THEOREM DeletionWorks == Spec => []DeletedIsGone
<1>1. TypeInv /\ OnceInv /\ OwnerInv /\ DelInv => DeletedIsGone
  <2> SUFFICES ASSUME TypeInv, OnceInv, OwnerInv, DelInv, DelOver, NEW l \in del.due, l \in Live
               PROVE  Day(Time[l]) \in del.failed
    BY DEF DeletedIsGone
  <2>1. del.todo = {}
    BY DEF DelOver, TypeInv, DelOK
  <2>2. PICK d \in Days : \E a \in DOMAIN OnDisk(d) : LiveAt(d, a, l)
    BY LiveFacts
  <2>3. d = Day(Time[l])
    BY <2>2, LivePlace
  <2> QED BY <2>1, <2>2, <2>3 DEF DelInv, Left
<1> QED BY <1>1, LogInvariant, PTL

(* A saved log stays in the file of its day until a deletion asks for it.  *)
THEOREM SavedLogsStay == Spec => []SavedIsKept
<1>1. Spec => []KeptInv
  BY LogInvariant, KeptInit, KeptNext, PTL DEF Spec
<1>2. KeptInv => SavedIsKept
  BY DEF KeptInv
<1> QED BY <1>1, <1>2, PTL

(* No log is returned twice, outside the range, or after it was deleted.   *)
THEOREM SearchIsSound == Spec => []SearchSound
<1>1. Spec => []SoundInv
  BY LogInvariant, SoundInit, SoundNext, PTL DEF Spec
<1>2. SoundInv => SearchSound
  BY DEF SoundInv, SearchSound
<1> QED BY <1>1, <1>2, PTL

(* A search that is over has returned every log it had to.                 *)
THEOREM SearchIsComplete == Spec => []SearchComplete
<1>1. Spec => []CompleteInv
  BY LogInvariant, CompleteInit, CompleteNext, PTL DEF Spec
<1>2. TypeInv /\ CompleteInv => SearchComplete
  <2> SUFFICES ASSUME TypeInv, CompleteInv, LastPage, NEW l \in srch.want, Ahead(l) PROVE FALSE
    BY DEF SearchComplete, CompleteInv
  <2>1. /\ srch.start \in Nat /\ srch.end \in Nat /\ srch.num \in Nat /\ srch.page \in Nat /\ l \in Logs
    BY DEF TypeInv, SrchOK, SrchState
  <2>2. Day(srch.start) > Day(srch.end)
    BY <2>1, SMTT(30), Z3T(30) DEF LastPage, CompleteInv
  <2>3. srch.start <= srch.end
    <3>1. Time[l] \in srch.start..srch.end
      BY DEF Ahead
    <3> QED BY <2>1, <3>1, SMTT(30), Z3T(30)
  <2>4. Day(srch.start) <= Day(srch.end) /\ Day(srch.start) \in Nat /\ Day(srch.end) \in Nat
    BY <2>1, <2>3, DayFacts
  <2> QED BY <2>2, <2>4, SMTT(30), Z3T(30)
<1> QED BY <1>1, <1>2, LogInvariant, PTL
=============================================================================
