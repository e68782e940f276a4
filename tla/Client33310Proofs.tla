------------------------- MODULE Client33310Proofs --------------------------
(***************************************************************************)
(* The safety properties of the platform client for every set of indexes   *)
(* and any number of unasked packets.                                      *)
(*                                                                         *)
(* That an accepted answer is the client's own does not follow from the    *)
(* index, which may be that of an earlier request.  It follows from what   *)
(* can be under way: before a request nothing but unasked packets, after   *)
(* it the request or one answer to it, and in a connection that has been   *)
(* reset no answer at all.                                                 *)
(***************************************************************************)
EXTENDS Client33310, TLAPS

Traps(q) == \A i \in DOMAIN q : q[i].type = "trap"
Done(n)  == SubSeq(Script, 1, n)

\* A socket is open exactly while there is a connection.
SocketInv ==
    /\ fds = IF link = "none" THEN 0 ELSE 1
    /\ pc \in {"none", "start", "connect", "gone"} => link = "none"
    /\ pc \in {"loop", "send", "head", "data", "check", "complete", "failed"} => link # "none"
    /\ pc = "top" /\ ~exitFlag => link = "none"
    /\ pc = "exit" => exitFlag
    /\ main = "create" => pc = "none"

\* A packet is unasked, or the only answer to the present request.
Fits(p) == p.type # "trap" => /\ p.of = step /\ up = <<>>
                              /\ p.type = "ack" => executed = Done(step)

\* Between two requests nothing is under way but unasked packets.
Ready ==
    /\ pc = "loop" => up = <<>> /\ Traps(down) /\ executed = <<>> /\ link # "reset"
    /\ pc = "send" => up = <<>> /\ Traps(down) /\ executed = Done(step - 1) /\ link # "reset" /\ step > 0
    /\ pc = "complete" => up = <<>> /\ executed = Script

Exchange ==
    pc \in {"head", "data", "check"} =>
        /\ step > 0
        /\ up # <<>> => Traps(down) /\ executed = Done(step - 1) /\ up[1].of = step
        /\ \A i \in DOMAIN down : Fits(down[i])
        /\ \A i, j \in DOMAIN down : i # j => down[i].type = "trap" \/ down[j].type = "trap"
        /\ pc = "data" => /\ Fits(pack) /\ (down # <<>> => pack = down[1])
                          /\ link = "open" => down # <<>>
        /\ pc = "check" => Fits(pack) /\ (pack.type # "trap" => Traps(down))
        /\ link = "reset" => Traps(down) /\ (pc # "head" => pack.type = "trap")

ClientInv == SocketInv /\ Ready /\ Exchange /\ NoBrokenPipe
-----------------------------------------------------------------------------
(* The script.                                                             *)

(* The script is a sequence of eight requests.                             *)
LEMMA ScriptType == Len(Script) = 8 /\ DOMAIN Script = 1..8 /\ Script \in Seq(Kinds)
BY DEF Script, Kinds

(* Its requests are of the kinds there are.                                *)
LEMMA ScriptKinds == \A n \in 1..8 : Script[n] \in Kinds
BY DEF Script, Kinds

(* One more acknowledged request.                                          *)
LEMMA DoneNext ==
    ASSUME NEW n \in 1..Len(Script)
    PROVE  Append(Done(n - 1), Script[n]) = Done(n)
BY ScriptType DEF Done

(* None and all of them.                                                   *)
LEMMA DoneEnds == Done(0) = <<>> /\ Done(Len(Script)) = Script
BY ScriptType DEF Done
-----------------------------------------------------------------------------
(* Types.                                                                  *)

(* No packet has been received yet.                                        *)
LEMMA NoPackType == NoPack \in Packets
<1>1. (CHOOSE i \in Indexes : TRUE) \in Indexes
  BY ClientAssumption
<1> QED BY <1>1, ScriptType DEF NoPack, Packets, Types

(* The first state has the types.                                          *)
LEMMA TypeInit == Init => TypeOK
<1>1. NoPack.index \in Indexes
  BY NoPackType DEF Packets
<1> SUFFICES ASSUME Init PROVE TypeOK
  OBVIOUS
<1>2. up \in Seq(Requests) /\ down \in Seq(Packets) /\ executed \in Seq(Kinds)
  BY DEF Init
<1>3. Len(up) <= 1
  BY DEF Init
<1>4. step \in 0..Len(Script) /\ index \in Indexes /\ pack \in Packets
  BY <1>1, NoPackType, ScriptType DEF Init
<1>5. /\ main \in {"create", "poll", "join", "done", "killed"} /\ exitFlag \in BOOLEAN
      /\ pc \in Places /\ fds \in Nat /\ link \in {"none", "open", "closed", "aborted", "reset"}
  BY DEF Init, Places
<1> QED BY <1>2, <1>3, <1>4, <1>5 DEF TypeOK

(* Steps of main, of the loops and of the end of a round.                  *)
LEMMA TypeLoops ==
    ASSUME TypeOK, SocketInv,
           \/ MainCreates \/ Quit \/ MainSeesFlag \/ MainJoins
           \/ Start \/ Top \/ Connect \/ Loop \/ RoundOver \/ Exit
    PROVE  TypeOK'
<1>1. fds' \in Nat
  BY DEF TypeOK, SocketInv, MainCreates, Quit, MainSeesFlag, MainJoins, Start, Top, Connect, Loop, RoundOver,
         SocketsAfter, Exit
<1>2. /\ main' \in {"create", "poll", "join", "done", "killed"} /\ exitFlag' \in BOOLEAN
      /\ pc' \in Places /\ link' \in {"none", "open", "closed", "aborted", "reset"}
  BY DEF TypeOK, MainCreates, Quit, MainSeesFlag, MainJoins, Start, Top, Connect, Loop, RoundOver, Exit, thread,
         Places
<1>3. step' = step \/ step' = 1
  BY DEF MainCreates, Quit, MainSeesFlag, MainJoins, Start, Top, Connect, Loop, RoundOver, Exit, thread
<1>4. UNCHANGED <<index, pack>>
  BY DEF MainCreates, Quit, MainSeesFlag, MainJoins, Start, Top, Connect, Loop, RoundOver, Exit, thread
<1>5. (up' = <<>> /\ down' = <<>> /\ executed' = <<>>) \/ UNCHANGED stream
  BY DEF MainCreates, Quit, MainSeesFlag, MainJoins, Start, Top, Connect, Loop, RoundOver, Exit
<1>6. step' \in 0..Len(Script)
  BY <1>3, ScriptType DEF TypeOK
<1>7. up' \in Seq(Requests) /\ Len(up') <= 1 /\ down' \in Seq(Packets) /\ executed' \in Seq(Kinds)
  <2>1. CASE UNCHANGED stream
    BY <2>1 DEF TypeOK, stream
  <2>2. CASE up' = <<>> /\ down' = <<>> /\ executed' = <<>>
    <3>1. Len(<<>>) <= 1
      OBVIOUS
    <3>2. \A S : <<>> \in Seq(S)
      OBVIOUS
    <3> QED BY <2>2, <3>1, <3>2
  <2> QED BY <1>5, <2>1, <2>2
<1> QED BY <1>1, <1>2, <1>4, <1>6, <1>7 DEF TypeOK

(* A request and its answer.                                               *)
LEMMA TypeRequest ==
    ASSUME TypeOK, Ready, Exchange, Send \/ RecvHead \/ RecvData \/ RecvFails \/ Check
    PROVE  TypeOK'
<1>1. UNCHANGED <<exitFlag, fds, executed>>
  BY DEF Send, RecvHead, RecvData, RecvFails, Check, stream
<1>2. main' \in {"create", "poll", "join", "done", "killed"} /\ link' \in {"none", "open", "closed", "aborted", "reset"}
  BY DEF TypeOK, Send, RecvHead, RecvData, RecvFails, Check
<1>3. pc' \in Places /\ index' \in Indexes
  BY DEF TypeOK, Send, RecvHead, RecvData, RecvFails, Check, AfterFailure, Places
<1>4. step' \in 0..Len(Script)
  BY ScriptType DEF TypeOK, Send, RecvHead, RecvData, RecvFails, Check, AfterFailure, NextRequest, Last
<1>5. pack' \in Packets /\ down' \in Seq(Packets)
  <2>1. pack' = pack \/ (down # <<>> /\ pack' = Head(down))
    BY DEF Send, RecvHead, RecvData, RecvFails, Check
  <2>2. down' = down \/ (down # <<>> /\ down' = Tail(down))
    BY DEF Send, RecvHead, RecvData, RecvFails, Check, stream
  <2>3. down # <<>> => Head(down) \in Packets /\ Tail(down) \in Seq(Packets)
    BY DEF TypeOK
  <2> QED BY <2>1, <2>2, <2>3 DEF TypeOK
<1>6. up' \in Seq(Requests) /\ Len(up') <= 1
  <2>1. CASE Send
    <3>1. up = <<>> /\ step \in 1..Len(Script) /\ index' \in Indexes
      BY <2>1, ScriptType DEF TypeOK, Ready, Send
    <3>2. up' = up \/ up' = Append(up, [of |-> step, index |-> index'])
      BY <2>1 DEF Send
    <3>3. [of |-> step, index |-> index'] \in Requests
      BY <3>1 DEF Requests
    <3>4. \A q \in Requests : Append(<<>>, q) \in Seq(Requests) /\ Len(Append(<<>>, q)) = 1
      OBVIOUS
    <3>5. CASE up' = Append(<<>>, [of |-> step, index |-> index'])
      BY <3>3, <3>4, <3>5
    <3>6. CASE up' = up
      BY <3>6 DEF TypeOK
    <3> QED BY <3>1, <3>2, <3>5, <3>6
  <2>2. CASE RecvHead \/ RecvData \/ RecvFails \/ Check
    BY <2>2 DEF TypeOK, RecvHead, RecvData, RecvFails, Check, stream
  <2> QED BY <2>1, <2>2
<1> QED BY <1>1, <1>2, <1>3, <1>4, <1>5, <1>6 DEF TypeOK

(* The device.                                                             *)
LEMMA TypeDevice == ASSUME TypeOK, Device PROVE TypeOK'
<1>1. UNCHANGED <<main, exitFlag, pc, step, index, pack, fds>>
  BY DEF Device, DeviceAnswers, DeviceTraps, DeviceCloses, thread
<1>2. link' \in {"none", "open", "closed", "aborted", "reset"}
  BY DEF TypeOK, Device, DeviceAnswers, DeviceTraps, DeviceCloses
<1>3. up' \in Seq(Requests) /\ Len(up') <= 1
  <2>1. up' = up \/ up' = <<>> \/ (up # <<>> /\ up' = Tail(up))
    BY DEF Device, DeviceAnswers, DeviceTraps, DeviceCloses
  <2>2. up # <<>> => Tail(up) \in Seq(Requests) /\ Len(Tail(up)) <= 1
    BY DEF TypeOK
  <2>3. <<>> \in Seq(Requests) /\ Len(<<>>) <= 1
    OBVIOUS
  <2> QED BY <2>1, <2>2, <2>3 DEF TypeOK
<1>4. down' \in Seq(Packets) /\ executed' \in Seq(Kinds)
  <2>1. CASE DeviceAnswers
    <3>1. Head(up) \in Requests
      BY <2>1 DEF TypeOK, DeviceAnswers
    <3>2. PICK type \in {"ack", "nak"}, size \in {"none", "short", "full"} :
             /\ down' = Append(down, [of |-> Head(up).of, index |-> Head(up).index, type |-> type, size |-> size])
             /\ executed' = IF type = "ack" THEN Append(executed, Script[Head(up).of]) ELSE executed
      BY <2>1 DEF DeviceAnswers
    <3>3. [of |-> Head(up).of, index |-> Head(up).index, type |-> type, size |-> size] \in Packets
      BY <3>1, ScriptType DEF Packets, Types, Requests
    <3>4. Script[Head(up).of] \in Kinds
      BY <3>1, ScriptKinds, ScriptType DEF Requests
    <3> QED BY <3>2, <3>3, <3>4 DEF TypeOK
  <2>2. CASE DeviceTraps
    <3>1. PICK i \in Indexes, size \in {"none", "short"} :
             down' = Append(down, [of |-> 0, index |-> i, type |-> "trap", size |-> size])
      BY <2>2 DEF DeviceTraps
    <3>2. [of |-> 0, index |-> i, type |-> "trap", size |-> size] \in Packets
      BY ScriptType DEF Packets, Types
    <3> QED BY <2>2, <3>1, <3>2 DEF TypeOK, DeviceTraps
  <2>3. CASE DeviceCloses
    BY <2>3 DEF TypeOK, DeviceCloses
  <2> QED BY <2>1, <2>2, <2>3 DEF Device
<1> QED BY <1>1, <1>2, <1>3, <1>4 DEF TypeOK
-----------------------------------------------------------------------------
(* The socket.                                                             *)

(* A socket is open exactly while there is a connection.                   *)
LEMMA SocketKeeps == ASSUME TypeOK, SocketInv, Ready, Next PROVE SocketInv'
<1>1. CASE MainCreates \/ Quit \/ MainSeesFlag \/ MainJoins
  BY <1>1 DEF SocketInv, MainCreates, Quit, MainSeesFlag, MainJoins, thread
<1>2. CASE Start \/ Top \/ Connect \/ Loop
  BY <1>2 DEF SocketInv, Start, Top, Ends, Connect, Loop
<1>3. CASE RoundOver \/ Exit
  BY <1>3 DEF SocketInv, RoundOver, SocketsAfter, Exit
<1>4. CASE Send
  BY <1>4 DEF SocketInv, Ready, Send
<1>5. CASE RecvHead \/ RecvData \/ RecvFails \/ Check
  BY <1>5 DEF SocketInv, RecvHead, RecvData, RecvFails, Check, AfterFailure
<1>6. CASE Device
  BY <1>6 DEF SocketInv, Device, DeviceAnswers, DeviceTraps, DeviceCloses, thread
<1> QED BY <1>1, <1>2, <1>3, <1>4, <1>5, <1>6 DEF Next, ClientThread
-----------------------------------------------------------------------------
(* The exchange of requests and answers.                                   *)

(* What steps outside a request do to it: nothing, or they begin anew.     *)
LEMMA ExchangeLoops ==
    ASSUME TypeOK, ClientInv,
           \/ MainCreates \/ Quit \/ MainSeesFlag \/ MainJoins
           \/ Start \/ Top \/ Connect \/ Loop \/ RoundOver \/ Exit
    PROVE  (Ready /\ Exchange /\ NoBrokenPipe)'
<1>1. NoBrokenPipe'
  BY DEF ClientInv, NoBrokenPipe, MainCreates, Quit, MainSeesFlag, MainJoins, Start, Top, Connect, Loop, RoundOver,
         Exit
<1>2. CASE Quit \/ MainSeesFlag \/ MainJoins
  BY <1>1, <1>2 DEF ClientInv, Ready, Exchange, Fits, Traps, Quit, MainSeesFlag, MainJoins, thread, stream
<1>3. CASE MainCreates \/ Start \/ Top \/ RoundOver \/ Exit
  <2>1. pc' \in {"none", "start", "top", "gone", "connect", "exit"}
    BY <1>3 DEF ClientInv, SocketInv, MainCreates, Start, Top, RoundOver, Exit
  <2> QED BY <1>1, <2>1 DEF Ready, Exchange
<1>4. CASE Connect
  <2>1. pc' = "top" \/ (pc' = "loop" /\ up' = <<>> /\ down' = <<>> /\ executed' = <<>> /\ link' = "open")
    BY <1>4 DEF Connect
  <2>2. down' = <<>> => Traps(down)'
    BY DEF Traps
  <2> QED BY <1>1, <2>1, <2>2 DEF Ready, Exchange
<1>5. CASE Loop
  <2>1. pc' = "top" \/ (pc' = "send" /\ step' = 1)
    BY <1>5 DEF Loop
  <2>2. up = <<>> /\ Traps(down) /\ executed = Done(0) /\ link # "reset"
    BY <1>5, DoneEnds DEF Loop, ClientInv, Ready
  <2>3. UNCHANGED <<up, down, executed, link>>
    BY <1>5 DEF Loop, stream
  <2>4. Traps(down)'
    BY <2>2, <2>3 DEF Traps
  <2>5. step' = 1 => step' - 1 = 0
    OBVIOUS
  <2> QED BY <1>1, <2>1, <2>2, <2>3, <2>4, <2>5 DEF Ready, Exchange
<1> QED BY <1>2, <1>3, <1>4, <1>5

(* A request is sent when nothing is under way; no second one is sent into *)
(* a connection that has been reset.                                       *)
LEMMA ExchangeSend ==
    ASSUME TypeOK, ClientInv, Send
    PROVE  (Ready /\ Exchange /\ NoBrokenPipe)'
<1>1. /\ up = <<>> /\ Traps(down) /\ executed = Done(step - 1) /\ link # "reset" /\ step > 0
  BY DEF Send, ClientInv, Ready
<1>2. UNCHANGED <<step, down, executed>> /\ pc' \in {"head", "failed"}
  BY <1>1 DEF Send
<1>3. NoBrokenPipe'
  BY <1>1 DEF Send, ClientInv, NoBrokenPipe
<1>4. Ready'
  BY <1>2 DEF Ready
<1>5. up' = <<>> \/ up' = Append(<<>>, [of |-> step, index |-> index'])
  BY <1>1 DEF Send
<1>6. up' # <<>> => up'[1].of = step
  BY <1>5
<1>7. Traps(down)'
  BY <1>1, <1>2 DEF Traps
<1>8. \A i \in DOMAIN down' : down'[i].type = "trap"
  BY <1>7 DEF Traps
<1>9. Exchange'
  BY <1>1, <1>2, <1>6, <1>7, <1>8 DEF Exchange, Fits
<1> QED BY <1>3, <1>4, <1>9

(* Taking the first packet: at most one of those under way is an answer.   *)
LEMMA ExchangeTake ==
    ASSUME TypeOK, ClientInv, RecvHead \/ RecvData
    PROVE  (Ready /\ Exchange /\ NoBrokenPipe)'
<1>1. pc \in {"head", "data"} /\ pc' \in {"data", "check"} /\ UNCHANGED <<main, step, up, executed, link>> /\ down # <<>>
  BY DEF RecvHead, RecvData
<1>2. NoBrokenPipe' /\ Ready'
  BY <1>1 DEF ClientInv, NoBrokenPipe, Ready
<1>3. pack' = down[1]
  BY DEF RecvHead, RecvData, ClientInv, Exchange, TypeOK
<1>4. /\ step > 0
      /\ up # <<>> => Traps(down) /\ executed = Done(step - 1) /\ up[1].of = step
      /\ \A i \in DOMAIN down : Fits(down[i])
      /\ \A i, j \in DOMAIN down : i # j => down[i].type = "trap" \/ down[j].type = "trap"
      /\ link = "reset" => Traps(down)
  BY <1>1 DEF ClientInv, Exchange
<1>5. 1 \in DOMAIN down
  BY <1>1 DEF TypeOK
<1>6. Fits(pack)'
  BY <1>1, <1>3, <1>4, <1>5 DEF Fits
<1>7. link = "reset" => pack'.type = "trap"
  BY <1>3, <1>4, <1>5 DEF Traps
<1>8. CASE pc' = "data"
  <2>1. down' = down
    BY <1>8 DEF RecvHead, RecvData
  <2>2. \A i \in DOMAIN down' : Fits(down[i])'
    BY <1>1, <1>4, <2>1 DEF Fits
  <2>3. Traps(down) => Traps(down)'
    BY <2>1 DEF Traps
  <2>4. Exchange'
    BY <1>1, <1>3, <1>4, <1>6, <1>7, <1>8, <2>1, <2>2, <2>3 DEF Exchange
  <2> QED BY <1>2, <2>4
<1>9. CASE pc' = "check"
  <2>1. down' = Tail(down)
    BY <1>9 DEF RecvHead, RecvData
  <2>2. \A i \in DOMAIN down' : i + 1 \in DOMAIN down /\ i + 1 # 1 /\ down'[i] = down[i + 1]
    BY <1>1, <2>1 DEF TypeOK
  <2>3. \A i \in DOMAIN down' : Fits(down[i])'
    BY <1>1, <1>4, <2>2 DEF Fits
  <2>4. \A i, j \in DOMAIN down' : i # j => down'[i].type = "trap" \/ down'[j].type = "trap"
    <3> TAKE i, j \in DOMAIN down'
    <3> HAVE i # j
    <3>1. i \in Int /\ j \in Int
      BY <1>1, <2>1 DEF TypeOK
    <3>2. i + 1 # j + 1
      BY <3>1
    <3> QED BY <1>4, <2>2, <3>2
  <2>5. Traps(down) => Traps(down)'
    BY <2>2 DEF Traps
  <2>6. pack'.type # "trap" => Traps(down)'
    BY <1>3, <1>4, <1>5, <2>2 DEF Traps
  <2>7. Exchange'
    BY <1>1, <1>4, <1>6, <1>7, <1>9, <2>3, <2>4, <2>5, <2>6 DEF Exchange
  <2> QED BY <1>2, <2>7
<1> QED BY <1>1, <1>8, <1>9

(* The test of the answer: an accepted one is the only one and the         *)
(* client's own, so the next request begins with nothing under way.        *)
LEMMA ExchangeCheck ==
    ASSUME TypeOK, ClientInv, RecvFails \/ Check
    PROVE  (Ready /\ Exchange /\ NoBrokenPipe)'
<1>1. NoBrokenPipe'
  BY DEF RecvFails, Check, ClientInv, NoBrokenPipe
<1>2. CASE pc' = "failed"
  BY <1>1, <1>2 DEF Ready, Exchange
<1>3. CASE pc' # "failed"
  <2>1. /\ pc = "check" /\ pack.type = "ack" /\ UNCHANGED <<link, up, down, executed>>
        /\ pc' = IF Last(step) THEN "complete" ELSE "send"
        /\ step' = IF pc' = "send" THEN step + 1 ELSE step
    BY <1>3 DEF RecvFails, Check, AfterFailure, Accepted, NextRequest, stream
  <2>2. step > 0 /\ up = <<>> /\ executed = Done(step) /\ Traps(down) /\ link # "reset"
    BY <2>1 DEF ClientInv, Exchange, Fits
  <2>3. Traps(down)'
    BY <2>1, <2>2 DEF Traps
  <2>4. CASE Last(step)
    BY <1>1, <2>1, <2>2, <2>4, DoneEnds DEF Ready, Exchange, Last
  <2>5. CASE ~Last(step)
    <3>1. pc' = "send" /\ step' = step + 1 /\ step \in Int
      BY <2>1, <2>5, ScriptType DEF TypeOK
    <3>2. step' - 1 = step /\ step' > 0
      BY <2>2, <3>1
    <3> QED BY <1>1, <2>1, <2>2, <2>3, <3>1, <3>2 DEF Ready, Exchange
  <2> QED BY <2>4, <2>5
<1> QED BY <1>2, <1>3
(* The device answers the request under way, which is the present one.     *)
LEMMA ExchangeAnswer ==
    ASSUME TypeOK, ClientInv, DeviceAnswers
    PROVE  (Ready /\ Exchange /\ NoBrokenPipe)'
<1>1. up # <<>> /\ link = "open" /\ up' = Tail(up) /\ UNCHANGED <<main, pc, step, pack, link>>
  BY DEF DeviceAnswers, thread
<1>2. NoBrokenPipe' /\ Ready'
  BY <1>1 DEF ClientInv, NoBrokenPipe, Ready
<1>3. CASE pc \notin {"head", "data", "check"}
  BY <1>1, <1>2, <1>3 DEF Exchange
<1>4. CASE pc \in {"head", "data", "check"}
  <2>1. /\ step > 0 /\ Traps(down) /\ executed = Done(step - 1) /\ up[1].of = step
        /\ pc = "data" => Fits(pack) /\ down # <<>> /\ pack = down[1]
        /\ pc = "check" => Fits(pack)
    BY <1>1, <1>4 DEF ClientInv, Exchange
  <2>2. up' = <<>> /\ Head(up) = up[1]
    BY <1>1 DEF TypeOK
  <2>3. PICK type \in {"ack", "nak"}, size \in {"none", "short", "full"} :
           /\ down' = Append(down, [of |-> Head(up).of, index |-> Head(up).index, type |-> type, size |-> size])
           /\ executed' = IF type = "ack" THEN Append(executed, Script[Head(up).of]) ELSE executed
    BY DEF DeviceAnswers
  <2> DEFINE a == [of |-> Head(up).of, index |-> Head(up).index, type |-> type, size |-> size]
  <2>4. a.of = step /\ a.type = type /\ down' = Append(down, a)
    BY <2>1, <2>2, <2>3
  <2>5. type = "ack" => executed' = Done(step)
    <3>1. step \in 1..Len(Script)
      BY <2>1, ScriptType DEF TypeOK
    <3> QED BY <2>1, <2>2, <2>3, <3>1, DoneNext
  <2> HIDE DEF a
  <2>6. /\ DOMAIN down' = 1..(Len(down) + 1) /\ DOMAIN down = 1..Len(down) /\ Len(down) \in Nat
        /\ down'[Len(down) + 1] = a
        /\ \A i \in 1..Len(down) : down'[i] = down[i]
    BY <2>4 DEF TypeOK
  <2>7. \A i \in DOMAIN down' : down'[i].type # "trap" => i = Len(down) + 1
    BY <2>1, <2>6 DEF Traps
  <2>8. \A i \in DOMAIN down' : Fits(down[i])'
    BY <1>1, <2>2, <2>4, <2>5, <2>6, <2>7 DEF Fits
  <2>9. \A i, j \in DOMAIN down' : i # j => down'[i].type = "trap" \/ down'[j].type = "trap"
    BY <2>7
  <2>10. pc \in {"data", "check"} => pack.type = "trap"
    BY <1>1, <1>4, <2>1 DEF Fits
  <2>11. pc = "data" => down' # <<>> /\ pack' = down'[1]
    <3>1. down # <<>> => 1 \in 1..Len(down)
      BY <2>6 DEF TypeOK
    <3>2. 1 \in DOMAIN down'
      BY <2>6
    <3> QED BY <1>1, <2>1, <2>6, <3>1, <3>2
  <2>12. Exchange'
    BY <1>1, <1>4, <2>1, <2>2, <2>8, <2>9, <2>10, <2>11 DEF Exchange, Fits
  <2> QED BY <1>2, <2>12
<1> QED BY <1>3, <1>4

(* A packet that was not asked for.                                        *)
LEMMA ExchangeTrap ==
    ASSUME TypeOK, ClientInv, DeviceTraps
    PROVE  (Ready /\ Exchange /\ NoBrokenPipe)'
<1>1. link = "open" /\ UNCHANGED <<main, pc, step, pack, link, up, executed>>
  BY DEF DeviceTraps, thread
<1>2. PICK i \in Indexes, size \in {"none", "short"} :
         down' = Append(down, [of |-> 0, index |-> i, type |-> "trap", size |-> size])
  BY DEF DeviceTraps
<1> DEFINE a == [of |-> 0, index |-> i, type |-> "trap", size |-> size]
<1>3. a.type = "trap" /\ down' = Append(down, a)
  BY <1>2
<1> HIDE DEF a
<1>4. /\ DOMAIN down' = 1..(Len(down) + 1) /\ DOMAIN down = 1..Len(down) /\ Len(down) \in Nat
      /\ down'[Len(down) + 1].type = "trap"
      /\ \A k \in 1..Len(down) : down'[k] = down[k]
  BY <1>3 DEF TypeOK
<1>5. \A k \in DOMAIN down' : down'[k].type = "trap" \/ (k \in DOMAIN down /\ down'[k] = down[k])
  BY <1>4
<1>6. Traps(down) => Traps(down)'
  BY <1>5 DEF Traps
<1>7. NoBrokenPipe' /\ Ready'
  BY <1>1, <1>6 DEF ClientInv, NoBrokenPipe, Ready
<1>8. CASE pc \notin {"head", "data", "check"}
  BY <1>1, <1>7, <1>8 DEF Exchange
<1>9. CASE pc \in {"head", "data", "check"}
  <2>1. /\ \A k \in DOMAIN down : Fits(down[k])
        /\ \A k, j \in DOMAIN down : k # j => down[k].type = "trap" \/ down[j].type = "trap"
        /\ pc = "data" => down # <<>> /\ pack = down[1]
    BY <1>1, <1>9 DEF ClientInv, Exchange
  <2>2. \A k \in DOMAIN down' : Fits(down[k])'
    BY <1>1, <1>5, <2>1 DEF Fits
  <2>3. \A k, j \in DOMAIN down' : k # j => down'[k].type = "trap" \/ down'[j].type = "trap"
    BY <1>5, <2>1
  <2>4. pc = "data" => down' # <<>> /\ pack' = down'[1]
    <3>1. down # <<>> => 1 \in 1..Len(down)
      BY <1>4 DEF TypeOK
    <3>2. 1 \in DOMAIN down'
      BY <1>4
    <3> QED BY <1>1, <1>4, <2>1, <3>1, <3>2
  <2>5. Fits(pack) => Fits(pack)'
    BY <1>1 DEF Fits
  <2>6. Exchange'
    BY <1>1, <1>6, <1>9, <2>2, <2>3, <2>4, <2>5 DEF ClientInv, Exchange
  <2> QED BY <1>7, <2>6
<1> QED BY <1>8, <1>9

(* The device ends the connection: a prefix of what was under way is left. *)
LEMMA ExchangeClose ==
    ASSUME TypeOK, ClientInv, DeviceCloses
    PROVE  (Ready /\ Exchange /\ NoBrokenPipe)'
<1>1. up' = <<>> /\ link' \in {"closed", "aborted"} /\ UNCHANGED <<main, pc, step, pack, executed>>
  BY DEF DeviceCloses, thread
<1>2. /\ \A k \in DOMAIN down' : k \in DOMAIN down /\ down'[k] = down[k]
      /\ down' # <<>> => down # <<>> /\ 1 \in DOMAIN down'
  BY DEF TypeOK, DeviceCloses
<1>3. Traps(down) => Traps(down)'
  BY <1>2 DEF Traps
<1>4. NoBrokenPipe' /\ Ready'
  BY <1>1, <1>3 DEF ClientInv, NoBrokenPipe, Ready
<1>5. Exchange'
  BY <1>1, <1>2, <1>3 DEF ClientInv, Exchange, Fits
<1> QED BY <1>4, <1>5
-----------------------------------------------------------------------------
(* The properties.                                                         *)

(* The invariant holds when the program starts.                            *)
LEMMA ClientInit == Init => ClientInv
BY DEF Init, ClientInv, SocketInv, Ready, Exchange, NoBrokenPipe

(* Every step keeps it.                                                    *)
LEMMA ClientNext == ASSUME TypeOK, ClientInv, [Next]_vars PROVE TypeOK' /\ ClientInv'
<1>1. CASE UNCHANGED vars
  <2>1. TypeOK'
    BY <1>1 DEF TypeOK, vars, thread, stream
  <2>2. ClientInv'
    BY <1>1 DEF ClientInv, SocketInv, Ready, Exchange, NoBrokenPipe, Fits, Traps, vars, thread, stream
  <2> QED BY <2>1, <2>2
<1>2. CASE Next
  <2>1. SocketInv'
    BY <1>2, SocketKeeps DEF ClientInv
  <2>2. TypeOK'
    BY <1>2, TypeLoops, TypeRequest, TypeDevice DEF ClientInv, Next, ClientThread
  <2>3. (Ready /\ Exchange /\ NoBrokenPipe)'
    BY <1>2, ExchangeLoops, ExchangeSend, ExchangeTake, ExchangeCheck, ExchangeAnswer, ExchangeTrap, ExchangeClose
       DEF Next, ClientThread, Device
  <2> QED BY <2>1, <2>2, <2>3 DEF ClientInv
<1> QED BY <1>1, <1>2

(* The invariant is one.                                                   *)
LEMMA ClientAlways == Spec => [](TypeOK /\ ClientInv)
BY TypeInit, ClientInit, ClientNext, PTL DEF Spec

(* The variables of ClientThread keep their types: no request behind the   *)
(* last of the script, at most one under way.                              *)
THEOREM TypeCorrect == Spec => []TypeOK
BY ClientAlways, PTL

(* An answer that a Deal function accepts answers the request it has just  *)
(* sent, whatever indexes Rand() draws.                                    *)
THEOREM OwnAnswer == Spec => []AnswerIsOwn
<1>1. ClientInv => AnswerIsOwn
  BY DEF ClientInv, Exchange, Fits, AnswerIsOwn, Accepted
<1> QED BY <1>1, ClientAlways, PTL

(* A round that ClientThread counts as a success was acknowledged request  *)
(* by request, in the order of the script, over one connection.            *)
THEOREM SuccessComplete == Spec => []SuccessIsComplete
<1>1. ClientInv => SuccessIsComplete
  BY DEF ClientInv, Ready, SuccessIsComplete
<1> QED BY <1>1, ClientAlways, PTL

(* TcpSendMsg never sends into a connection that has been reset.           *)
THEOREM NoSigpipe == Spec => []NoBrokenPipe
<1>1. ClientInv => NoBrokenPipe
  BY DEF ClientInv
<1> QED BY <1>1, ClientAlways, PTL

(* ClientThread has at most one socket, and none when it ends.             *)
THEOREM NoSocketLeft == Spec => []SocketsClosed
<1>1. ClientInv => SocketsClosed
  BY DEF ClientInv, SocketInv, SocketsClosed
<1> QED BY <1>1, ClientAlways, PTL
=============================================================================
