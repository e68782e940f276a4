---------------------------- MODULE Client33310 -----------------------------
(***************************************************************************)
(* The platform client (tools/network/client_33310): a thread connects to  *)
(* a device, makes eight requests one after the other over the connection, *)
(* closes it and begins again, until CTRL+C.  Every request waits for its  *)
(* answer; after any failure the connection is given up.                   *)
(*                                                                         *)
(* A packet is read in two parts, head and data, between which the stream  *)
(* may end.  An answer is known by a random 16-bit index, so two requests  *)
(* may have the same; `of', the number of the request that a packet        *)
(* answers, is seen by the properties only.                                *)
(* Left out: g_reConnectFlag, which nothing sets; the counters, which are  *)
(* only printed; the repetition of a send that would block, since no more  *)
(* than one request of some forty bytes is ever under way.                 *)
(***************************************************************************)
EXTENDS Integers, Sequences

CONSTANTS
    Indexes,   \* Rand() % 65535
    MaxTraps   \* bound: packets under way when the device sends one unasked

ASSUME ClientAssumption == Indexes # {} /\ MaxTraps \in Nat

Kinds == {"heartbeat", "logger", "version", "auth", "sn", "dns"}

\* The order in which ClientThread makes its requests.
Script == <<"heartbeat", "logger", "version", "heartbeat", "auth", "sn", "dns", "heartbeat">>

\* Answers whose data are copied into a structure are tested for its size.
Sized == {"logger", "version", "sn"}

VARIABLES
    main,      \* place of main
    exitFlag,  \* g_exitFlag
    pc,        \* place of ClientThread
    step,      \* number of the request, in Script
    index,     \* index of the request
    pack,      \* *pRecv
    fds,       \* open sockets
    link,      \* the connection, as the client's kernel knows it
    up, down,  \* requests and answers under way
    executed   \* history: requests acknowledged over this connection

thread == <<pc, step, index, pack>>
stream == <<up, down, executed>>
vars == <<main, exitFlag, thread, fds, link, stream>>

Types == {"ack", "nak", "trap"}
Packets == [of : 0..Len(Script), index : Indexes, type : Types, size : {"none", "short", "full"}]
Requests == [of : 1..Len(Script), index : Indexes]
NoPack == [of |-> 0, index |-> CHOOSE i \in Indexes : TRUE, type |-> "trap", size |-> "none"]

Init ==
    /\ main = "create" /\ exitFlag = FALSE
    /\ pc = "none" /\ step = 0 /\ index = NoPack.index /\ pack = NoPack
    /\ fds = 0 /\ link = "none"
    /\ up = <<>> /\ down = <<>> /\ executed = <<>>
-----------------------------------------------------------------------------
(* main and the signal handler.                                            *)

MainCreates ==
    /\ main = "create"
    /\ \/ main' = "poll" /\ pc' = "start"
       \/ main' = "done" /\ UNCHANGED pc
    /\ UNCHANGED <<exitFlag, step, index, pack, fds, link, stream>>

\* The handler is there before the thread.
Quit ==
    /\ main \in {"create", "poll"}
    /\ exitFlag' = TRUE
    /\ UNCHANGED <<main, thread, fds, link, stream>>

MainSeesFlag ==
    /\ main = "poll" /\ exitFlag
    /\ main' = "join"
    /\ UNCHANGED <<exitFlag, thread, fds, link, stream>>

MainJoins ==
    /\ main = "join" /\ pc = "gone"
    /\ main' = "done"
    /\ UNCHANGED <<exitFlag, thread, fds, link, stream>>
-----------------------------------------------------------------------------
(* ClientThread: the two loops.                                            *)

\* Without memory for a packet the thread ends at once.
Start ==
    /\ pc = "start"
    /\ pc' \in {"top", "gone"}
    /\ UNCHANGED <<main, exitFlag, step, index, pack, fds, link, stream>>

\* Mutation: only the inner loop looks at the flag.
NeverEnds == FALSE
Ends == exitFlag

Top ==
    /\ pc = "top"
    /\ pc' = IF Ends THEN "exit" ELSE "connect"
    /\ UNCHANGED <<main, exitFlag, step, index, pack, fds, link, stream>>

\* CreateTcpClient closes its socket again when connect fails.
Connect ==
    /\ pc = "connect"
    /\ \/ /\ pc' = "loop" /\ fds' = fds + 1 /\ link' = "open"
          /\ up' = <<>> /\ down' = <<>> /\ executed' = <<>>
       \/ pc' = "top" /\ UNCHANGED <<fds, link, stream>>
    /\ UNCHANGED <<main, exitFlag, step, index, pack>>

\* The inner loop, which makes one round: it ends in a break either way.
Loop ==
    /\ pc = "loop"
    /\ IF exitFlag THEN pc' = "top" /\ UNCHANGED step
                   ELSE pc' = "send" /\ step' = 1
    /\ UNCHANGED <<main, exitFlag, index, pack, fds, link, stream>>

\* Mutation: the socket is closed after a complete round only.
CloseComplete(place) == IF place = "failed" THEN fds ELSE fds - 1
SocketsAfter(place) == fds - 1

\* iRet decides what is counted; the socket is closed.
RoundOver ==
    /\ pc \in {"complete", "failed"}
    /\ fds' = SocketsAfter(pc)
    /\ link' = "none"
    /\ pc' = "top"
    /\ UNCHANGED <<main, exitFlag, step, index, pack, stream>>

\* Behind the loops: the socket that the inner break left open is closed.
Exit ==
    /\ pc = "exit"
    /\ fds' = IF link = "none" THEN fds ELSE fds - 1
    /\ link' = "none"
    /\ pc' = "gone"
    /\ UNCHANGED <<main, exitFlag, step, index, pack, stream>>
-----------------------------------------------------------------------------
(* One request: TcpSendPack, TcpRecvPack, and the test of the answer.      *)

\* Without memory TcpSendPack returns 0 and has sent nothing.  Into a
\* connection that the device closed the first send still goes, and is
\* answered with a reset; the next raises SIGPIPE, which nobody handles.
Send ==
    /\ pc = "send"
    /\ index' \in Indexes
    /\ \/ pc' = "head" /\ UNCHANGED <<main, link, up>>
       \/ /\ link = "open" /\ pc' = "head"
          /\ up' = Append(up, [of |-> step, index |-> index'])
          /\ UNCHANGED <<main, link>>
       \/ /\ link = "closed" /\ pc' = "head" /\ link' = "reset"
          /\ UNCHANGED <<main, up>>
       \/ /\ link = "aborted" /\ pc' = "failed"
          /\ UNCHANGED <<main, link, up>>
       \/ /\ link = "reset" /\ pc' = "gone" /\ main' = "killed"
          /\ UNCHANGED <<link, up>>
    /\ UNCHANGED <<exitFlag, step, pack, fds, down, executed>>

\* Mutation: the next request is made over the same connection.
GoOn == IF step < Len(Script) THEN "send" ELSE "failed"
\* iRet != 0: none of the following requests is made.
AfterFailure == "failed"

NextRequest == step' = IF pc' = "send" THEN step + 1 ELSE step

\* The head, with flag and length tested; then the data, if there are any.
RecvHead ==
    /\ pc = "head" /\ down # <<>>
    /\ pack' = Head(down)
    /\ IF Head(down).size = "none" THEN pc' = "check" /\ down' = Tail(down)
                                   ELSE pc' = "data" /\ UNCHANGED down
    /\ UNCHANGED <<main, exitFlag, step, index, fds, link, up, executed>>

RecvData ==
    /\ pc = "data" /\ down # <<>>
    /\ down' = Tail(down)
    /\ pc' = "check"
    /\ UNCHANGED <<main, exitFlag, step, index, pack, fds, link, up, executed>>

\* Sixty seconds without a byte, the end of a stream the device has ended, or
\* a head that is none.
RecvFails ==
    /\ pc \in {"head", "data"}
    /\ pc' = AfterFailure
    /\ NextRequest
    /\ UNCHANGED <<main, exitFlag, index, pack, fds, link, stream>>

\* Mutation: a refusal is taken for an answer.
AnyResponse(p) == p.index = index /\ p.type # "trap" /\ (Script[step] \in Sized => p.size = "full")
Accepted(p) == p.index = index /\ p.type = "ack" /\ (Script[step] \in Sized => p.size = "full")

Last(s) == s = Len(Script)

\* An accepted log may still fail, when there is no memory to print it.
Check ==
    /\ pc = "check"
    /\ \/ Accepted(pack) /\ pc' = IF Last(step) THEN "complete" ELSE "send"
       \/ ~Accepted(pack) /\ pc' = AfterFailure
       \/ Script[step] = "logger" /\ pc' = AfterFailure
    /\ NextRequest
    /\ UNCHANGED <<main, exitFlag, index, pack, fds, link, stream>>

ClientThread ==
    \/ Start \/ Top \/ Connect \/ Loop \/ RoundOver \/ Exit
    \/ Send \/ RecvHead \/ RecvData \/ RecvFails \/ Check
-----------------------------------------------------------------------------
(* The device.                                                             *)

\* Each request is answered at most once; a refused one is not carried out.
DeviceAnswers ==
    /\ link = "open" /\ up # <<>>
    /\ up' = Tail(up)
    /\ \E type \in {"ack", "nak"}, size \in {"none", "short", "full"} :
          /\ down' = Append(down, [of |-> Head(up).of, index |-> Head(up).index,
                                   type |-> type, size |-> size])
          /\ executed' = IF type = "ack" THEN Append(executed, Script[Head(up).of]) ELSE executed
    /\ UNCHANGED <<main, exitFlag, thread, fds, link>>

\* A packet the client has not asked for.
DeviceTraps ==
    /\ link = "open" /\ Len(down) < MaxTraps
    /\ \E i \in Indexes, size \in {"none", "short"} :
          down' = Append(down, [of |-> 0, index |-> i, type |-> "trap", size |-> size])
    /\ UNCHANGED <<main, exitFlag, thread, fds, link, up, executed>>

\* The device closes the connection, or breaks it off: what was under way
\* may be lost.  One that has closed it is taken not to break it off as well,
\* unless the client sends: see NoBrokenPipe.
DeviceCloses ==
    /\ link = "open"
    /\ \/ link' = "closed" /\ UNCHANGED down
       \/ link' = "aborted" /\ \E n \in 0..Len(down) : down' = SubSeq(down, 1, n)
    /\ up' = <<>>
    /\ UNCHANGED <<main, exitFlag, thread, fds, executed>>

Device == DeviceAnswers \/ DeviceTraps \/ DeviceCloses

Next == MainCreates \/ Quit \/ MainSeesFlag \/ MainJoins \/ ClientThread \/ Device

Spec == Init /\ [][Next]_vars

\* Both threads run; whatever they wait for ends by a timeout of select, send
\* or sleep.  Nothing is assumed of the device or of the user.
FairSpec == Spec /\ WF_vars(ClientThread) /\ WF_vars(MainCreates \/ MainSeesFlag \/ MainJoins)
-----------------------------------------------------------------------------
Places == {"none", "start", "top", "connect", "loop", "send", "head", "data", "check",
           "complete", "failed", "exit", "gone"}

(* The variables have their types: no request is made behind the last, and *)
(* at most one is under way.                                               *)
TypeOK ==
    /\ main \in {"create", "poll", "join", "done", "killed"} /\ exitFlag \in BOOLEAN
    /\ pc \in Places /\ step \in 0..Len(Script) /\ index \in Indexes /\ pack \in Packets
    /\ fds \in Nat /\ link \in {"none", "open", "closed", "aborted", "reset"}
    /\ up \in Seq(Requests) /\ Len(up) <= 1
    /\ down \in Seq(Packets)
    /\ executed \in Seq(Kinds)

(* An answer that the client accepts is the answer to the request it has   *)
(* just made, although the random indexes of two requests may be equal and *)
(* answers come late: an answer given up is never read.                    *)
AnswerIsOwn == pc = "check" /\ Accepted(pack) => pack.of = step

(* A round counted as a success (iSuccssCnt) is one in which the device    *)
(* acknowledged all requests over one connection, in their order, also     *)
(* when TcpSendPack reported success without having sent anything.         *)
SuccessIsComplete == pc = "complete" => executed = Script

(* The client is not killed by SIGPIPE, which it does not handle: after a  *)
(* send into a closed connection it always reads before it sends again.    *)
(* (A device that ends its stream and then breaks the connection off of    *)
(* itself, between an answer and the next request, is left out: there the  *)
(* first send already would raise the signal.)                             *)
NoBrokenPipe == main # "killed"

(* There is one socket at most, none while a new one is made, and none is  *)
(* left when the thread has gone, whichever of the loops saw the flag.     *)
SocketsClosed == fds <= 1 /\ (pc \in {"connect", "gone"} => fds = 0)

(* After CTRL+C the program ends, whether the device answers or not.       *)
QuitEnds == exitFlag ~> main = "done"
=============================================================================
