----------------------------- MODULE UbxConfig -----------------------------
(***************************************************************************)
(* The configuration of the u-blox receiver (tools/gps_ubx_nmea): the      *)
(* configuration thread sends UBX-CFG commands, the parse thread looks for *)
(* their acknowledgements and reports them through the global resResult,   *)
(* and the serial line and the receiver in between may lose, refuse or     *)
(* delay.  dataType tells the parse thread what to expect on the line.     *)
(*                                                                         *)
(* An acknowledgement names only the class and id of the command it        *)
(* answers, "msg" (UBX_CLASS_CFG_MSG) or "prt" (UBX_CLASS_CFG_PRT): not    *)
(* which message was enabled, nor which attempt it answers.                *)
(***************************************************************************)
EXTENDS Naturals, Sequences, FiniteSets

CONSTANTS
    Tries,     \* attempts per command, 5 in the code
    StdCmds,   \* commands ubx_std_cfg_cmd sends without waiting, 6 in the code
    MaxFaults  \* bound: losses, refusals, failed writes and late answers

ASSUME UbxAssumption == Tries \in Nat \ {0} /\ StdCmds \in Nat

\* ubx_nav_cfg_cmd enables these, one after the other.
NavCmds == <<"posllh", "status", "timeutc", "velned">>
NavSet == {NavCmds[k] : k \in 1..4}

VARIABLES
    handle,      \* "closed", "open" or "failed": g_gpsHandle
    dataType,    \* what the parse thread expects: 0 NMEA, 1 acks, 2 UBX data
    resResult,   \* set by the parse thread, reset and polled by the other
    gCmdResult,  \* the NAV messages are believed to be enabled
    messageId,   \* kind of the last command written: "msg" or "prt"
    phase,       \* "start", "nav", "std", "prt", "idle", "toggle"
    pc,          \* within a command: "reset", "send", "wait"
    k,           \* index in NavCmds, or count of std commands sent
    i,           \* attempt
    arg,         \* the command being sent
    oldType,     \* dataType before a switch
    toDev,       \* commands on their way to the receiver
    line,        \* answers on the wire or in the tty, not yet read
    ring,        \* answers in g_recvBuffer, not yet parsed
    enabled,     \* receiver: NAV messages switched on
    proto,       \* receiver: output protocol
    faults,      \* faults so far
    timedOut     \* history: an attempt was given up

host == <<handle, dataType, gCmdResult, phase, pc, k, i, arg, oldType>>
wire == <<toDev, line, ring>>
device == <<enabled, proto>>
vars == <<host, resResult, messageId, wire, device, faults, timedOut>>

Kind(c) == IF c \in {"nmea", "ubx"} THEN "prt" ELSE "msg"

Init ==
    /\ handle = "closed"
    /\ dataType = 0 /\ resResult = 0 /\ gCmdResult = 0 /\ messageId = "none"
    /\ phase = "start" /\ pc = "reset" /\ k = 0 /\ i = 0 /\ arg = "none" /\ oldType = 0
    /\ toDev = <<>> /\ line = <<>> /\ ring = <<>>
    /\ enabled = {} /\ proto = "both"
    /\ faults = 0 /\ timedOut = FALSE

Fault == faults < MaxFaults /\ faults' = faults + 1

(***************************************************************************)
(* The configuration thread.                                               *)
(***************************************************************************)
\* The receive thread opens the device; main starts the configuration thread
\* two seconds later, which is not always after the open.
OpenDevice(result) ==
    /\ handle = "closed"
    /\ handle' = result
    /\ UNCHANGED <<dataType, resResult, gCmdResult, messageId, phase, pc, k, i, arg,
                   oldType, wire, device, faults, timedOut>>

\* The configuration thread copies g_gpsHandle once: without a device it
\* never sends a command.
CfgNoDevice ==
    /\ phase = "start" /\ handle # "open"
    /\ phase' = "idle"
    /\ UNCHANGED <<handle, dataType, resResult, gCmdResult, messageId, pc, k, i, arg,
                   oldType, wire, device, faults, timedOut>>

\* dataType = 1, tcflush, and on to ubx_posllh_cmd.
CfgStart ==
    /\ phase = "start" /\ handle = "open"
    /\ dataType' = 1 /\ line' = <<>>
    /\ phase' = "nav" /\ k' = 1 /\ i' = 0 /\ arg' = NavCmds[1] /\ pc' = "reset"
    /\ UNCHANGED <<handle, resResult, gCmdResult, messageId, oldType, toDev, ring, device,
                   faults, timedOut>>

\* Mutation: the last answer is left standing.
KeepResult == resResult' = resResult

ClearResult == resResult' = 0

\* resResult = 0, before ubx_msg_cfg or ubx_prt_cfg is called.
Reset ==
    /\ phase \in {"nav", "prt", "toggle"} /\ pc = "reset" /\ i < Tries
    /\ ClearResult /\ pc' = "send"
    /\ UNCHANGED <<handle, dataType, gCmdResult, messageId, phase, k, i, arg, oldType, wire,
                   device, faults, timedOut>>

Record(c) == messageId' = Kind(c)

Send ==
    /\ pc = "send"
    /\ Record(arg)
    /\ toDev' = Append(toDev, arg)
    /\ pc' = "wait"
    /\ UNCHANGED <<handle, dataType, resResult, gCmdResult, phase, k, i, arg, oldType, line, ring,
                   device, faults, timedOut>>

\* A short write: ubx_msg_cfg reports it and the loop goes on at once;
\* ubx_prt_cfg returns 0 all the same and the caller waits.
SendFails ==
    /\ pc = "send" /\ Fault
    /\ Record(arg)
    /\ IF Kind(arg) = "msg" THEN pc' = "reset" /\ i' = i + 1
                            ELSE pc' = "wait" /\ i' = i
    /\ UNCHANGED <<handle, dataType, resResult, gCmdResult, phase, k, arg, oldType, wire,
                   device, timedOut>>

\* dataType after the switch to or from UBX data has succeeded or failed.
Switched(ok) == IF ok THEN 2 - oldType ELSE oldType

\* Mutation: after a failed switch there is no other.
SwitchIfOk(ok) == IF ok THEN gCmdResult ELSE 0

\* A failed switch is tried again after the next 300 seconds.
SwitchAgain(ok) == gCmdResult

\* What follows a command: the next NAV message, the std commands, or the
\* loop that waits for the next switch.
After(ok) ==
    /\ pc' = "reset" /\ i' = 0
    /\ CASE phase = "nav" /\ ok /\ k < 4 ->
              /\ k' = k + 1 /\ arg' = NavCmds[k + 1]
              /\ UNCHANGED <<phase, gCmdResult, dataType>>
         [] phase = "nav" /\ ~(ok /\ k < 4) ->
              /\ gCmdResult' = IF ok THEN 1 ELSE gCmdResult
              /\ phase' = "std" /\ k' = 0 /\ arg' = "none"
              /\ UNCHANGED dataType
         [] phase = "prt" ->
              /\ dataType' = 0 /\ phase' = "idle" /\ arg' = "none"
              /\ UNCHANGED <<gCmdResult, k>>
         [] phase = "toggle" ->
              /\ dataType' = Switched(ok) /\ gCmdResult' = SwitchAgain(ok)
              /\ phase' = "idle" /\ arg' = "none"
              /\ UNCHANGED k

\* The poll sees resResult = 1.
Confirmed ==
    /\ pc = "wait" /\ resResult = 1
    /\ After(TRUE)
    /\ UNCHANGED <<handle, resResult, messageId, oldType, wire, device, faults, timedOut>>

\* Three seconds pass: nothing is on its way any more, or it comes too late.
TimedOut ==
    /\ pc = "wait" /\ resResult # 1
    /\ IF toDev = <<>> /\ line = <<>> /\ ring = <<>> THEN UNCHANGED faults ELSE Fault
    /\ i' = i + 1 /\ pc' = "reset"
    /\ timedOut' = TRUE
    /\ UNCHANGED <<handle, dataType, resResult, gCmdResult, messageId, phase, k, arg, oldType,
                   wire, device>>

GaveUp == i >= Tries

Exhausted ==
    /\ phase \in {"nav", "prt", "toggle"} /\ pc = "reset" /\ GaveUp
    /\ After(FALSE)
    /\ UNCHANGED <<handle, resResult, messageId, oldType, wire, device, faults, timedOut>>

\* ubx_std_cfg_cmd: the standard NMEA sentences off, no answer waited for;
\* then the port is set to NMEA if the NAV commands were confirmed.
StdSend ==
    /\ phase = "std" /\ k < StdCmds
    /\ messageId' = "msg"
    /\ toDev' = Append(toDev, "std")
    /\ k' = k + 1
    /\ UNCHANGED <<handle, dataType, resResult, gCmdResult, phase, pc, i, arg, oldType, line, ring,
                   device, faults, timedOut>>

StdDone ==
    /\ phase = "std" /\ k = StdCmds
    /\ IF gCmdResult = 1
       THEN phase' = "prt" /\ arg' = "nmea" /\ line' = <<>> /\ UNCHANGED dataType
       ELSE phase' = "idle" /\ dataType' = 0 /\ UNCHANGED <<arg, line>>
    /\ i' = 0 /\ pc' = "reset"
    /\ UNCHANGED <<handle, resResult, gCmdResult, messageId, k, oldType, toDev, ring, device,
                   faults, timedOut>>

\* Mutation: both branches ask for the same protocol.
TargetNmea == "nmea"

Target == IF dataType = 0 THEN "ubx" ELSE "nmea"

\* Every 300 seconds the output protocol changes sides.  By then what an
\* earlier exchange left behind has arrived and was read away.
Toggle ==
    /\ phase = "idle" /\ gCmdResult = 1 /\ dataType \in {0, 2}
    /\ toDev = <<>> /\ line = <<>> /\ ring = <<>>
    /\ oldType' = dataType /\ dataType' = 1
    /\ arg' = Target
    /\ phase' = "toggle" /\ i' = 0 /\ pc' = "reset"
    /\ UNCHANGED <<handle, resResult, gCmdResult, messageId, k, wire, device, faults, timedOut>>

(***************************************************************************)
(* The receive and parse threads.                                          *)
(***************************************************************************)
Receive ==
    /\ line # <<>>
    /\ ring' = Append(ring, Head(line)) /\ line' = Tail(line)
    /\ UNCHANGED <<host, resResult, messageId, toDev, device, faults, timedOut>>

\* ubx_cmd_res_content compares class and id with the last command's.
Matches(a) == a.kind = messageId

\* ubx_response_parse, when acks are expected; otherwise the NMEA or UBX data
\* parser steps over the answer.
Parse ==
    /\ ring # <<>>
    /\ ring' = Tail(ring)
    /\ resResult' = IF dataType = 1 /\ Matches(Head(ring))
                    THEN (IF Head(ring).ok THEN 1 ELSE 0)
                    ELSE resResult
    /\ UNCHANGED <<host, messageId, toDev, line, device, faults, timedOut>>

(***************************************************************************)
(* The receiver (external) and the serial line.                            *)
(***************************************************************************)
Obey(c) ==
    /\ enabled' = IF c \in NavSet THEN enabled \union {c} ELSE enabled
    /\ proto' = IF Kind(c) = "prt" THEN c ELSE proto

Execute ==
    /\ toDev # <<>>
    /\ Obey(Head(toDev))
    /\ line' = Append(line, [kind |-> Kind(Head(toDev)), ok |-> TRUE])
    /\ toDev' = Tail(toDev)
    /\ UNCHANGED <<host, resResult, messageId, ring, faults, timedOut>>

Refuse ==
    /\ toDev # <<>> /\ Fault
    /\ line' = Append(line, [kind |-> Kind(Head(toDev)), ok |-> FALSE])
    /\ toDev' = Tail(toDev)
    /\ UNCHANGED <<host, resResult, messageId, ring, device, timedOut>>

LoseCommand ==
    /\ toDev # <<>> /\ Fault
    /\ toDev' = Tail(toDev)
    /\ UNCHANGED <<host, resResult, messageId, line, ring, device, timedOut>>

LoseAnswer ==
    /\ line # <<>> /\ Fault
    /\ line' = Tail(line)
    /\ UNCHANGED <<host, resResult, messageId, toDev, ring, device, timedOut>>

Cfg == CfgStart \/ CfgNoDevice \/ Reset \/ Send \/ Confirmed \/ TimedOut \/ Exhausted
       \/ StdSend \/ StdDone \/ Toggle

Next ==
    \/ \E result \in {"open", "failed"} : OpenDevice(result)
    \/ Cfg \/ SendFails \/ Receive \/ Parse
    \/ Execute \/ Refuse \/ LoseCommand \/ LoseAnswer

Spec == Init /\ [][Next]_vars

\* The three threads are scheduled, the receiver answers what reaches it.
Fairness == WF_vars(Cfg) /\ WF_vars(Receive) /\ WF_vars(Parse) /\ WF_vars(Execute)

FairSpec == Spec /\ Fairness

-----------------------------------------------------------------------------
\* gCmdResult = 1 means the four NAV messages are on, as long as no attempt
\* was given up: after that an answer that comes late confirms the next
\* command, which the receiver may never have got.
NavEnabled == gCmdResult = 1 /\ ~timedOut => enabled = NavSet

ModesAgree ==
    \/ dataType = 2 /\ proto = "ubx"
    \/ dataType = 0 /\ proto # "ubx"

\* The parser changes sides only when the receiver has: no answer left over
\* from the start-up, and none to an earlier attempt, can confirm a switch
\* the receiver did not make.
SwitchIsReal ==
    [][phase = "toggle" /\ phase' = "idle" /\ dataType' # oldType => ModesAgree']_vars

\* A lost answer leaves the parser on NMEA while the receiver sends UBX (or
\* the reverse) until the next switch; once the faults are over the two sides
\* agree again and again.
AgreementReturns == []<>(phase = "idle" /\ ModesAgree)
=============================================================================
