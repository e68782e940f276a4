-------------------------- MODULE UbxConfigProofs --------------------------
(***************************************************************************)
(* NavEnabled and SwitchIsReal for every number of attempts, of standard   *)
(* commands and of faults.                                                 *)
(*                                                                         *)
(* An answer carries neither the message it is for nor the attempt, so     *)
(* both arguments are about what can still be on the line when the poll    *)
(* sees resResult = 1.  Before the first timeout at most one command is on *)
(* its way, and its answer is the only one (NavInv).  After a timeout      *)
(* there may be several, but a switch starts with an empty line and        *)
(* repeats one command, so that every answer is to that command (TogInv).  *)
(***************************************************************************)
EXTENDS UbxConfig, TLAPS

Cmds == NavSet \cup {"std", "nmea", "ubx"}
Answer == [kind : {"msg", "prt"}, ok : BOOLEAN]

WireOK ==
    /\ toDev \in Seq(Cmds) /\ line \in Seq(Answer) /\ ring \in Seq(Answer)

HostOK ==
    /\ dataType \in 0..2 /\ oldType \in {0, 2} /\ resResult \in {0, 1} /\ gCmdResult \in {0, 1}
    /\ phase \in {"start", "nav", "std", "prt", "idle", "toggle"}
    /\ pc \in {"reset", "send", "wait"} /\ (phase \in {"start", "std", "idle"} => pc = "reset")
    /\ phase \in {"nav", "prt", "toggle"} => arg \in Cmds
    /\ phase = "nav" => k \in 1..4 /\ arg = NavCmds[k]
    /\ phase \in {"start", "nav"} => gCmdResult = 0
    /\ timedOut \in BOOLEAN

Quiet == toDev = <<>> /\ line = <<>> /\ ring = <<>>

\* The one command of the NAV phase: on its way out, answered, or settled.
Outstanding ==
    \/ toDev = <<arg>> /\ line = <<>> /\ ring = <<>> /\ resResult = 0
    \/ \E a \in Answer : /\ toDev = <<>> /\ line = <<a>> /\ ring = <<>> /\ resResult = 0
                         /\ a.ok => arg \in enabled
    \/ \E a \in Answer : /\ toDev = <<>> /\ line = <<>> /\ ring = <<a>> /\ resResult = 0
                         /\ a.ok => arg \in enabled
    \/ Quiet /\ (resResult = 1 => arg \in enabled)

NavInv ==
    /\ enabled \subseteq NavSet
    /\ phase = "start" => Quiet
    /\ phase = "nav" /\ ~timedOut =>
          /\ \A n \in 1..(k - 1) : NavCmds[n] \in enabled
          /\ pc # "wait" => Quiet
          /\ pc = "send" => resResult = 0
          /\ pc = "wait" => Outstanding
    /\ gCmdResult = 1 /\ ~timedOut => NavSet \subseteq enabled

\* A positive answer on its way.
Positive(s) == \E n \in DOMAIN s : s[n].ok

TogInv ==
    phase = "toggle" =>
        /\ arg = IF oldType = 0 THEN "ubx" ELSE "nmea"
        /\ \A n \in DOMAIN toDev : toDev[n] = arg
        /\ Positive(line) \/ Positive(ring) => proto = arg
        /\ pc # "reset" /\ resResult = 1 => proto = arg
-----------------------------------------------------------------------------
(* The commands that enable the NAV messages are commands of kind "msg".   *)
LEMMA NavFacts ==
    /\ NavSet = {"posllh", "status", "timeutc", "velned"}
    /\ \A n \in 1..4 : NavCmds[n] \in NavSet
    /\ \A c \in NavSet : \E n \in 1..4 : c = NavCmds[n]
    /\ NavSet \subseteq Cmds
    /\ \A c : Kind(c) \in {"msg", "prt"}
BY DEF NavCmds, NavSet, Cmds, Kind

(* What an element taken off or put on a sequence leaves.                  *)
LEMMA SeqFacts ==
    ASSUME NEW S
    PROVE  /\ <<>> \in Seq(S)
           /\ \A s \in Seq(S) : s # <<>> => Head(s) \in S /\ Tail(s) \in Seq(S)
           /\ \A s \in Seq(S), e \in S : Append(s, e) \in Seq(S)
OBVIOUS

(* What is on the line has its type.                                       *)
LEMMA WireNext == WireOK /\ HostOK /\ [Next]_vars => WireOK'
<1> SUFFICES ASSUME WireOK, HostOK, [Next]_vars PROVE WireOK'
  OBVIOUS
<1>0. toDev \in Seq(Cmds) /\ line \in Seq(Answer) /\ ring \in Seq(Answer)
  BY DEF WireOK
<1> USE DEF WireOK
<1>1. CASE \E result \in {"open", "failed"} : OpenDevice(result)
  BY <1>1 DEF OpenDevice, wire
<1>2. CASE CfgStart \/ CfgNoDevice \/ Reset
  <2>1. UNCHANGED <<toDev, ring>> /\ (line' = line \/ line' = <<>>)
    BY <1>2 DEF CfgStart, CfgNoDevice, Reset, wire
  <2> QED BY <1>0, <2>1, SeqFacts
<1>3. CASE Send
  <2>1. arg \in Cmds /\ UNCHANGED <<line, ring>> /\ toDev' = Append(toDev, arg)
    BY <1>3 DEF Send, HostOK
  <2> QED BY <1>0, <2>1, SeqFacts
<1>4. CASE SendFails \/ Confirmed \/ TimedOut \/ Exhausted \/ Toggle
  BY <1>4 DEF SendFails, Confirmed, TimedOut, Exhausted, Toggle, wire
<1>5. CASE StdSend \/ StdDone
  <2>1. UNCHANGED ring /\ (toDev' = toDev \/ toDev' = Append(toDev, "std")) /\ (line' = line \/ line' = <<>>)
    BY <1>5 DEF StdSend, StdDone
  <2>2. "std" \in Cmds
    BY DEF Cmds
  <2> QED BY <1>0, <2>1, <2>2, SeqFacts
<1>6. CASE Receive
  BY <1>0, <1>6, SeqFacts DEF Receive
<1>7. CASE Parse
  BY <1>0, <1>7, SeqFacts DEF Parse
<1>8. CASE Execute \/ Refuse
  <2>1. Kind(Head(toDev)) \in {"msg", "prt"}
    BY NavFacts
  <2>2. \A b \in BOOLEAN : [kind |-> Kind(Head(toDev)), ok |-> b] \in Answer
    BY <2>1 DEF Answer
  <2>3. PICK a \in Answer : line' = Append(line, a)
    BY <1>8, <2>2 DEF Execute, Refuse
  <2>4. toDev # <<>> /\ toDev' = Tail(toDev) /\ UNCHANGED ring
    BY <1>8 DEF Execute, Refuse
  <2> QED BY <1>0, <2>3, <2>4, SeqFacts
<1>9. CASE LoseCommand \/ LoseAnswer
  BY <1>0, <1>9, SeqFacts DEF LoseCommand, LoseAnswer
<1>10. CASE UNCHANGED vars
  BY <1>10 DEF vars, wire
<1> QED BY <1>1, <1>2, <1>3, <1>4, <1>5, <1>6, <1>7, <1>8, <1>9, <1>10 DEF Next, Cfg

(* The four cases of After.                                                *)
LEMMA AfterCases ==
    ASSUME HostOK, phase \in {"nav", "prt", "toggle"}, NEW ok \in BOOLEAN, After(ok)
    PROVE  /\ pc' = "reset"
           /\ \/ /\ phase = "nav" /\ ok /\ k < 4 /\ phase' = "nav" /\ k' = k + 1 /\ arg' = NavCmds[k + 1]
                 /\ UNCHANGED <<gCmdResult, dataType>>
              \/ /\ phase = "nav" /\ ~(ok /\ k < 4) /\ phase' = "std" /\ UNCHANGED dataType
                 /\ gCmdResult' = IF ok THEN 1 ELSE gCmdResult
              \/ /\ phase = "prt" /\ phase' = "idle" /\ dataType' = 0 /\ UNCHANGED gCmdResult
              \/ /\ phase = "toggle" /\ phase' = "idle" /\ dataType' = Switched(ok) /\ UNCHANGED gCmdResult
<1>1. CASE phase = "nav" /\ ok /\ k < 4
  BY <1>1 DEF After
<1>2. CASE phase = "nav" /\ ~(ok /\ k < 4)
  BY <1>2 DEF After
<1>3. CASE phase = "prt"
  BY <1>3 DEF After
<1>4. CASE phase = "toggle"
  BY <1>4 DEF After, SwitchAgain
<1> QED BY <1>1, <1>2, <1>3, <1>4

(* So has what the configuration thread keeps.                             *)
LEMMA HostNext == WireOK /\ HostOK /\ [Next]_vars => HostOK'
<1> SUFFICES ASSUME WireOK, HostOK, [Next]_vars PROVE HostOK'
  OBVIOUS
<1>1. CASE (\E result \in {"open", "failed"} : OpenDevice(result)) \/ CfgNoDevice
  BY <1>1 DEF HostOK, OpenDevice, CfgNoDevice
<1>2. CASE CfgStart
  BY <1>2, NavFacts DEF HostOK, CfgStart
<1>3. CASE Reset \/ Send \/ SendFails
  BY <1>3 DEF HostOK, Reset, Send, SendFails, ClearResult
<1>4. CASE Confirmed \/ Exhausted
  <2>1. PICK ok \in BOOLEAN : After(ok)
    BY <1>4 DEF Confirmed, Exhausted
  <2>2. phase \in {"nav", "prt", "toggle"}
    BY <1>4 DEF Confirmed, Exhausted, HostOK
  <2>3. UNCHANGED <<oldType, resResult, timedOut>>
    BY <1>4 DEF Confirmed, Exhausted
  <2>4. Switched(ok) \in 0..2
    BY DEF HostOK, Switched
  <2>5. phase = "nav" /\ k < 4 => k + 1 \in 1..4 /\ NavCmds[k + 1] \in Cmds
    BY NavFacts DEF HostOK
  <2> QED BY <2>1, <2>2, <2>3, <2>4, <2>5, AfterCases DEF HostOK
<1>5. CASE TimedOut
  BY <1>5 DEF HostOK, TimedOut
<1>6. CASE StdSend \/ StdDone \/ Toggle
  BY <1>6 DEF HostOK, StdSend, StdDone, Toggle, Target, Cmds
<1>7. CASE Receive \/ Execute \/ Refuse \/ LoseCommand \/ LoseAnswer
  BY <1>7 DEF HostOK, Receive, Execute, Refuse, LoseCommand, LoseAnswer, host
<1>8. CASE Parse
  BY <1>8 DEF HostOK, Parse, host
<1>9. CASE UNCHANGED vars
  BY <1>9 DEF HostOK, vars, host
<1> QED BY <1>1, <1>2, <1>3, <1>4, <1>5, <1>6, <1>7, <1>8, <1>9 DEF Next, Cfg
-----------------------------------------------------------------------------
(* Steps after the NAV phase, and those that give an attempt up.           *)
LEMMA NavOver ==
    ASSUME HostOK, NavInv, UNCHANGED <<enabled, gCmdResult>>, timedOut => timedOut', phase' # "start",
           phase' = "nav" => timedOut'
    PROVE  NavInv'
BY DEF NavInv

(* A step on the line outside the NAV phase.                               *)
LEMMA NavLine ==
    ASSUME HostOK, NavInv, UNCHANGED <<host, timedOut>>, enabled \subseteq enabled', enabled' \subseteq NavSet,
           phase = "start" => Quiet',
           phase = "nav" /\ ~timedOut => pc = "wait" /\ Outstanding'
    PROVE  NavInv'
BY DEF NavInv, host

(* Something is on the line in the NAV phase only while the poll waits.    *)
LEMMA NavBusy ==
    ASSUME HostOK, NavInv, ~Quiet
    PROVE  phase # "start" /\ (phase = "nav" /\ ~timedOut => pc = "wait" /\ Outstanding)
BY DEF NavInv, HostOK

(* The steps of the configuration thread.                                  *)
LEMMA NavCfg ==
    ASSUME WireOK, HostOK, NavInv,
           \/ \E result \in {"open", "failed"} : OpenDevice(result)
           \/ Cfg \/ SendFails
    PROVE  NavInv'
<1>1. CASE \E result \in {"open", "failed"} : OpenDevice(result)
  BY <1>1 DEF NavInv, OpenDevice, wire, device, Quiet, Outstanding
<1>2. CASE CfgNoDevice
  BY <1>2, NavOver DEF CfgNoDevice, device
<1>3. CASE CfgStart
  <2>1. Quiet'
    BY <1>3 DEF CfgStart, NavInv, Quiet
  <2>2. phase' = "nav" /\ k' = 1 /\ pc' = "reset" /\ UNCHANGED <<enabled, gCmdResult, timedOut>>
    BY <1>3 DEF CfgStart, device
  <2> QED BY <2>1, <2>2 DEF NavInv
<1>4. CASE Reset
  <2>1. pc = "reset" /\ pc' = "send" /\ resResult' = 0 /\ UNCHANGED <<wire, device, phase, k, gCmdResult, timedOut>>
    BY <1>4 DEF Reset, ClearResult
  <2>2. Quiet => Quiet'
    BY <2>1 DEF Quiet, wire
  <2> QED BY <2>1, <2>2 DEF NavInv, device
<1>5. CASE Send
  <2>1. pc = "send" /\ pc' = "wait" /\ toDev' = Append(toDev, arg)
        /\ UNCHANGED <<phase, k, arg, gCmdResult, resResult, line, ring, enabled, timedOut>>
    BY <1>5 DEF Send, device
  <2>2. Quiet /\ resResult = 0 => Outstanding'
    BY <2>1 DEF Quiet, Outstanding
  <2>3. phase # "start"
    BY <2>1 DEF HostOK
  <2> QED BY <2>1, <2>2, <2>3 DEF NavInv
<1>6. CASE SendFails
  <2>1. pc = "send" /\ pc' \in {"wait", "reset"}
        /\ UNCHANGED <<phase, k, arg, gCmdResult, resResult, wire, enabled, timedOut>>
    BY <1>6 DEF SendFails, device
  <2>2. Quiet => Quiet'
    BY <2>1 DEF Quiet, wire
  <2>3. Quiet' /\ resResult' = 0 => Outstanding'
    BY DEF Outstanding
  <2>4. phase # "start"
    BY <2>1 DEF HostOK
  <2> QED BY <2>1, <2>2, <2>3, <2>4 DEF NavInv
<1>7. CASE Confirmed
  <2>1. /\ pc = "wait" /\ resResult = 1 /\ After(TRUE) /\ phase \in {"nav", "prt", "toggle"}
        /\ UNCHANGED <<wire, enabled, timedOut>>
    BY <1>7 DEF Confirmed, HostOK, device
  <2>2. CASE phase # "nav" \/ timedOut
    <3>1. gCmdResult' = gCmdResult \/ timedOut'
      BY <2>1, <2>2, AfterCases
    <3>2. phase' # "start" /\ (phase' = "nav" => timedOut')
      BY <2>1, <2>2, AfterCases
    <3> QED BY <2>1, <3>1, <3>2 DEF NavInv
  <2>3. CASE phase = "nav" /\ ~timedOut
    <3>1. Quiet /\ arg \in enabled /\ \A n \in 1..(k - 1) : NavCmds[n] \in enabled
      BY <2>1, <2>3 DEF NavInv, Outstanding
    <3>2. k \in 1..4 /\ arg = NavCmds[k]
      BY <2>3 DEF HostOK
    <3>3. \A n \in 1..k : NavCmds[n] \in enabled
      BY <3>1, <3>2
    <3>4. Quiet'
      BY <2>1, <3>1 DEF Quiet, wire
    <3>5. CASE k < 4
      <4>1. pc' = "reset" /\ phase' = "nav" /\ k' = k + 1 /\ gCmdResult' = gCmdResult /\ gCmdResult = 0
        BY <2>1, <2>3, <3>5, AfterCases DEF HostOK
      <4>2. \A n \in 1..(k' - 1) : NavCmds[n] \in enabled
        BY <3>2, <3>3, <4>1
      <4> QED BY <2>1, <3>4, <4>1, <4>2 DEF NavInv
    <3>6. CASE k = 4
      <4>0. ~(k < 4)
        BY <3>6
      <4>1. phase' = "std"
        BY <2>1, <2>3, <4>0, AfterCases
      <4>2. NavSet \subseteq enabled
        BY <3>3, <3>6, NavFacts
      <4> QED BY <2>1, <4>1, <4>2 DEF NavInv
    <3> QED BY <3>2, <3>5, <3>6
  <2> QED BY <2>2, <2>3
<1>8. CASE Exhausted
  <2>1. After(FALSE) /\ phase \in {"nav", "prt", "toggle"} /\ UNCHANGED <<enabled, timedOut>>
    BY <1>8 DEF Exhausted, device
  <2>2. gCmdResult' = gCmdResult /\ phase' \in {"std", "idle"}
    BY <2>1, AfterCases
  <2> QED BY <2>1, <2>2, NavOver
<1>9. CASE TimedOut
  <2>1. timedOut' /\ pc = "wait" /\ UNCHANGED <<enabled, gCmdResult, phase>>
    BY <1>9 DEF TimedOut, device
  <2>2. phase # "start"
    BY <2>1 DEF HostOK
  <2> QED BY <2>1, <2>2, NavOver
<1>10. CASE StdSend \/ StdDone \/ Toggle
  <2>1. phase' \in {"std", "prt", "idle", "toggle"} /\ UNCHANGED <<enabled, gCmdResult, timedOut>>
    BY <1>10 DEF StdSend, StdDone, Toggle, device
  <2> QED BY <2>1, NavOver
<1> QED BY <1>1, <1>2, <1>3, <1>4, <1>5, <1>6, <1>7, <1>8, <1>9, <1>10 DEF Cfg

(* The steps of the other threads, the line and the receiver.              *)
LEMMA NavWire ==
    ASSUME WireOK, HostOK, NavInv, Receive \/ Parse \/ Execute \/ Refuse \/ LoseCommand \/ LoseAnswer
    PROVE  NavInv'
<1>1. ~Quiet
  BY DEF Quiet, Receive, Parse, Execute, Refuse, LoseCommand, LoseAnswer
<1>2. phase # "start" /\ (phase = "nav" /\ ~timedOut => pc = "wait" /\ Outstanding)
  BY <1>1, NavBusy
<1>3. UNCHANGED <<host, timedOut>> /\ arg' = arg
  BY DEF Receive, Parse, Execute, Refuse, LoseCommand, LoseAnswer, host
<1>4. enabled \subseteq enabled' /\ enabled' \subseteq NavSet
  BY DEF NavInv, Receive, Parse, Execute, Refuse, LoseCommand, LoseAnswer, device, Obey
<1>5. phase = "nav" => arg \in NavSet
  BY NavFacts DEF HostOK
<1>6. ASSUME phase = "nav", Outstanding PROVE Outstanding'
  <2>1. CASE toDev = <<arg>> /\ line = <<>> /\ ring = <<>> /\ resResult = 0
    <3>1. Head(toDev) = arg /\ Tail(toDev) = <<>>
      BY <2>1
    <3>2. CASE Execute \/ Refuse
      <4>1. PICK b \in BOOLEAN : /\ line' = Append(line, [kind |-> Kind(arg), ok |-> b])
                                 /\ b => enabled' = enabled \cup {arg}
        BY <1>5, <1>6, <3>1, <3>2 DEF Execute, Refuse, Obey
      <4> DEFINE a == [kind |-> Kind(arg), ok |-> b]
      <4>2. a \in Answer /\ (a.ok => arg \in enabled')
        BY <4>1, NavFacts DEF Answer
      <4> HIDE DEF a
      <4>3. line' = <<a>>
        BY <2>1, <4>1 DEF a
      <4>4. toDev' = <<>> /\ ring' = <<>> /\ resResult' = 0
        BY <2>1, <3>1, <3>2 DEF Execute, Refuse
      <4> QED BY <1>3, <4>2, <4>3, <4>4 DEF Outstanding
    <3>3. CASE LoseCommand
      <4>1. Quiet' /\ resResult' = 0
        BY <2>1, <3>1, <3>3 DEF LoseCommand, Quiet
      <4> QED BY <4>1 DEF Outstanding
    <3>4. CASE Receive \/ Parse \/ LoseAnswer
      BY <2>1, <3>4 DEF Receive, Parse, LoseAnswer
    <3> QED BY <3>2, <3>3, <3>4
  <2>2. ASSUME NEW a \in Answer, toDev = <<>>, line = <<a>>, ring = <<>>, resResult = 0,
               a.ok => arg \in enabled
        PROVE  Outstanding'
    <3>1. Head(line) = a /\ Tail(line) = <<>>
      BY <2>2
    <3>2. CASE Receive
      <4>1. ring' = <<a>> /\ line' = <<>> /\ toDev' = <<>> /\ resResult' = 0
        BY <2>2, <3>1, <3>2 DEF Receive
      <4> QED BY <1>3, <1>4, <2>2, <4>1 DEF Outstanding
    <3>3. CASE LoseAnswer
      <4>1. Quiet' /\ resResult' = 0
        BY <2>2, <3>1, <3>3 DEF LoseAnswer, Quiet
      <4> QED BY <4>1 DEF Outstanding
    <3>4. CASE Execute \/ Refuse \/ LoseCommand \/ Parse
      BY <2>2, <3>4 DEF Execute, Refuse, LoseCommand, Parse
    <3> QED BY <3>2, <3>3, <3>4
  <2>3. ASSUME NEW a \in Answer, toDev = <<>>, line = <<>>, ring = <<a>>, resResult = 0,
               a.ok => arg \in enabled
        PROVE  Outstanding'
    <3>1. Head(ring) = a /\ Tail(ring) = <<>>
      BY <2>3
    <3>2. CASE Parse
      <4>1. Quiet' /\ (resResult' = 1 => a.ok)
        BY <2>3, <3>1, <3>2 DEF Parse, Quiet
      <4> QED BY <1>3, <1>4, <2>3, <4>1 DEF Outstanding
    <3>3. CASE Execute \/ Refuse \/ LoseCommand \/ Receive \/ LoseAnswer
      BY <2>3, <3>3 DEF Execute, Refuse, LoseCommand, Receive, LoseAnswer
    <3> QED BY <3>2, <3>3
  <2> QED BY <1>1, <1>6, <2>1, <2>2, <2>3 DEF Outstanding
<1> QED BY <1>2, <1>3, <1>4, <1>6, NavLine

(* In the NAV phase no answer is taken for another's, until an attempt is  *)
(* given up.                                                               *)
LEMMA NavNext == WireOK /\ HostOK /\ NavInv /\ [Next]_vars => NavInv'
<1>1. ASSUME NavInv, UNCHANGED vars PROVE NavInv'
  BY <1>1 DEF NavInv, vars, host, wire, device, Quiet, Outstanding
<1> QED BY <1>1, NavCfg, NavWire DEF Next
-----------------------------------------------------------------------------
(* Taking an element off, or putting a negative answer on, makes nothing   *)
(* positive; a positive answer stays or moves.                             *)
LEMMA PositiveFacts ==
    ASSUME NEW s \in Seq(Answer)
    PROVE  /\ ~Positive(<<>>)
           /\ s # <<>> /\ Positive(Tail(s)) => Positive(s)
           /\ s # <<>> /\ Head(s).ok => Positive(s)
           /\ \A a \in Answer : Positive(Append(s, a)) => Positive(s) \/ a.ok
<1>1. ~Positive(<<>>)
  BY DEF Positive
<1>2. ASSUME s # <<>>, Positive(Tail(s)) PROVE Positive(s)
  <2>1. PICK n \in DOMAIN Tail(s) : Tail(s)[n].ok
    BY <1>2 DEF Positive
  <2>2. n + 1 \in DOMAIN s /\ Tail(s)[n] = s[n + 1]
    BY <1>2
  <2> QED BY <2>1, <2>2 DEF Positive
<1>3. ASSUME s # <<>>, Head(s).ok PROVE Positive(s)
  <2>1. 1 \in DOMAIN s /\ Head(s) = s[1]
    BY <1>3
  <2> QED BY <1>3, <2>1 DEF Positive
<1>4. ASSUME NEW a \in Answer, Positive(Append(s, a)) PROVE Positive(s) \/ a.ok
  <2>1. PICK n \in DOMAIN Append(s, a) : Append(s, a)[n].ok
    BY <1>4 DEF Positive
  <2>2. (n \in DOMAIN s /\ Append(s, a)[n] = s[n]) \/ Append(s, a)[n] = a
    OBVIOUS
  <2> QED BY <2>1, <2>2 DEF Positive
<1> QED BY <1>1, <1>2, <1>3, <1>4

(* The steps of the configuration thread: a switch starts on an empty line *)
(* and sends one command only.                                             *)
LEMMA TogCfg ==
    ASSUME WireOK, HostOK, TogInv,
           \/ \E result \in {"open", "failed"} : OpenDevice(result)
           \/ Cfg \/ SendFails
    PROVE  TogInv'
<1>1. CASE \E result \in {"open", "failed"} : OpenDevice(result)
  BY <1>1 DEF TogInv, OpenDevice, wire, device
<1>2. CASE CfgNoDevice \/ CfgStart \/ StdSend \/ StdDone
  BY <1>2 DEF TogInv, CfgNoDevice, CfgStart, StdSend, StdDone
<1>3. CASE Reset
  BY <1>3 DEF TogInv, Reset, ClearResult, wire, device
<1>4. CASE Send
  <2> SUFFICES ASSUME phase = "toggle" PROVE TogInv'
    BY <1>4 DEF TogInv, Send
  <2>1. \A n \in DOMAIN Append(toDev, arg) : Append(toDev, arg)[n] = arg
    <3>1. toDev \in Seq(Cmds) /\ \A n \in DOMAIN toDev : toDev[n] = arg
      BY DEF WireOK, TogInv
    <3> QED BY <3>1
  <2> QED BY <1>4, <2>1 DEF TogInv, Send, device
<1>5. CASE SendFails \/ TimedOut
  BY <1>5 DEF TogInv, SendFails, TimedOut, wire, device
<1>6. CASE Confirmed \/ Exhausted
  <2>1. PICK ok \in BOOLEAN : After(ok)
    BY <1>6 DEF Confirmed, Exhausted
  <2>2. phase \in {"nav", "prt", "toggle"}
    BY <1>6 DEF Confirmed, Exhausted, HostOK
  <2>3. phase' # "toggle"
    BY <2>1, <2>2, AfterCases
  <2> QED BY <2>3 DEF TogInv
<1>7. CASE Toggle
  <2>1. /\ toDev' = <<>> /\ line' = <<>> /\ ring' = <<>> /\ pc' = "reset"
        /\ oldType' = dataType /\ arg' = Target
    BY <1>7 DEF Toggle, wire
  <2>2. ~Positive(<<>>)
    BY DEF Positive
  <2> QED BY <2>1, <2>2 DEF TogInv, Target
<1> QED BY <1>1, <1>2, <1>3, <1>4, <1>5, <1>6, <1>7 DEF Cfg

(* The steps of the other threads, the line and the receiver: a positive   *)
(* answer follows an execution of the one command.                         *)
LEMMA TogWire ==
    ASSUME WireOK, HostOK, TogInv, Receive \/ Parse \/ Execute \/ Refuse \/ LoseCommand \/ LoseAnswer
    PROVE  TogInv'
<1>1. UNCHANGED <<phase, arg, oldType, pc>>
  BY DEF Receive, Parse, Execute, Refuse, LoseCommand, LoseAnswer, host
<1> SUFFICES ASSUME phase = "toggle" PROVE TogInv'
  BY <1>1 DEF TogInv
<1>2. /\ toDev \in Seq(Cmds) /\ line \in Seq(Answer) /\ ring \in Seq(Answer)
      /\ arg = IF oldType = 0 THEN "ubx" ELSE "nmea"
      /\ \A n \in DOMAIN toDev : toDev[n] = arg
      /\ Positive(line) \/ Positive(ring) => proto = arg
      /\ pc # "reset" /\ resResult = 1 => proto = arg
  BY DEF WireOK, TogInv
<1>3. toDev # <<>> => Head(toDev) = arg /\ \A n \in DOMAIN Tail(toDev) : Tail(toDev)[n] = arg
  BY <1>2
<1>4. CASE Receive
  <2>1. Head(line) \in Answer /\ line # <<>> /\ ring' = Append(ring, Head(line)) /\ line' = Tail(line)
        /\ UNCHANGED <<toDev, proto, resResult>>
    BY <1>2, <1>4, SeqFacts DEF Receive, device
  <2>2. Positive(line') \/ Positive(ring') => proto = arg
    BY <1>2, <2>1, PositiveFacts
  <2> QED BY <1>1, <1>2, <2>1, <2>2 DEF TogInv
<1>5. CASE Parse
  <2>1. ring # <<>> /\ ring' = Tail(ring) /\ UNCHANGED <<line, toDev, proto>>
        /\ (resResult' = 1 => resResult = 1 \/ Head(ring).ok)
    BY <1>5 DEF Parse, device
  <2>2. Positive(ring') => Positive(ring)
    BY <1>2, <2>1, PositiveFacts
  <2>3. Head(ring).ok => proto = arg
    BY <1>2, <2>1, PositiveFacts
  <2> QED BY <1>1, <1>2, <2>1, <2>2, <2>3 DEF TogInv
<1>6. CASE Execute
  <2>1. toDev # <<>> /\ toDev' = Tail(toDev) /\ proto' = arg /\ UNCHANGED <<ring, resResult>>
    BY <1>2, <1>3, <1>6 DEF Execute, Obey, Kind
  <2> QED BY <1>1, <1>2, <1>3, <2>1 DEF TogInv
<1>7. CASE Refuse
  <2> DEFINE a == [kind |-> Kind(Head(toDev)), ok |-> FALSE]
  <2>1. toDev # <<>> /\ toDev' = Tail(toDev) /\ line' = Append(line, a) /\ UNCHANGED <<ring, resResult, proto>>
    BY <1>7 DEF Refuse, device
  <2>2. a \in Answer /\ ~a.ok
    BY NavFacts DEF Answer
  <2> HIDE DEF a
  <2>3. Positive(line') => Positive(line)
    BY <1>2, <2>1, <2>2, PositiveFacts
  <2> QED BY <1>1, <1>2, <1>3, <2>1, <2>3 DEF TogInv
<1>8. CASE LoseCommand
  <2>1. toDev # <<>> /\ toDev' = Tail(toDev) /\ UNCHANGED <<ring, line, resResult, proto>>
    BY <1>8 DEF LoseCommand, device
  <2> QED BY <1>1, <1>2, <1>3, <2>1 DEF TogInv
<1>9. CASE LoseAnswer
  <2>1. line # <<>> /\ line' = Tail(line) /\ UNCHANGED <<toDev, ring, resResult, proto>>
    BY <1>9 DEF LoseAnswer, device
  <2>2. Positive(line') => Positive(line)
    BY <1>2, <2>1, PositiveFacts
  <2> QED BY <1>1, <1>2, <2>1, <2>2 DEF TogInv
<1> QED BY <1>4, <1>5, <1>6, <1>7, <1>8, <1>9, SMTT(30), Z3T(30)

(* During a switch a positive answer means that the receiver has made it.  *)
LEMMA TogNext == WireOK /\ HostOK /\ TogInv /\ [Next]_vars => TogInv'
<1>1. ASSUME TogInv, UNCHANGED vars PROVE TogInv'
  BY <1>1 DEF TogInv, vars, host, wire, device
<1> QED BY <1>1, TogCfg, TogWire DEF Next

UbxInv == WireOK /\ HostOK /\ NavInv /\ TogInv

(* The inductive invariant of the configuration.                           *)
LEMMA UbxInvariant == Spec => []UbxInv
<1>1. Init => UbxInv
  <2> SUFFICES ASSUME Init PROVE UbxInv
    OBVIOUS
  <2>1. WireOK
    BY SeqFacts DEF Init, WireOK
  <2>2. HostOK
    <3>1. timedOut \in BOOLEAN
      BY DEF Init
    <3>2. dataType = 0 /\ oldType = 0 /\ resResult = 0 /\ gCmdResult = 0 /\ phase = "start" /\ pc = "reset"
      BY DEF Init
    <3> QED BY <3>1, <3>2 DEF HostOK
  <2>3. NavInv
    BY DEF Init, NavInv, Quiet
  <2>4. TogInv
    BY DEF Init, TogInv
  <2> QED BY <2>1, <2>2, <2>3, <2>4 DEF UbxInv
<1>2. UbxInv /\ [Next]_vars => UbxInv'
  BY WireNext, HostNext, NavNext, TogNext DEF UbxInv
<1> QED BY <1>1, <1>2, PTL DEF Spec

(* gCmdResult = 1 means that the four NAV messages are on, as long as no   *)
(* attempt was given up: whatever the receiver refuses, the line loses and *)
(* the host fails to write.                                                *)
THEOREM NavCorrect == Spec => []NavEnabled
<1>1. UbxInv => NavEnabled
  BY DEF UbxInv, NavInv, NavEnabled
<1> QED BY <1>1, UbxInvariant, PTL

(* The parse thread changes sides only after the receiver did, however     *)
(* many attempts were given up and however late their answers are.         *)
THEOREM SwitchCorrect == Spec => SwitchIsReal
<1> DEFINE Step == phase = "toggle" /\ phase' = "idle" /\ dataType' # oldType => ModesAgree'
<1>1. UbxInv /\ [Next]_vars => [Step]_vars
  <2> SUFFICES ASSUME UbxInv, Next, phase = "toggle", phase' = "idle", dataType' # oldType
               PROVE  ModesAgree'
    OBVIOUS
  <2>1. Confirmed \/ Exhausted
    BY DEF Next, Cfg, OpenDevice, CfgStart, CfgNoDevice, Reset, Send, SendFails, TimedOut, StdSend, StdDone,
           Toggle, Receive, Parse, Execute, Refuse, LoseCommand, LoseAnswer, host
  <2>2. HostOK /\ TogInv
    BY DEF UbxInv
  <2>3. CASE Exhausted
    <3>1. After(FALSE)
      BY <2>3 DEF Exhausted
    <3>2. dataType' = Switched(FALSE)
      BY <2>2, <3>1, AfterCases
    <3> QED BY <3>2 DEF Switched
  <2>4. CASE Confirmed
    <3>1. After(TRUE) /\ pc = "wait" /\ resResult = 1 /\ proto' = proto
      BY <2>4 DEF Confirmed, device
    <3>2. dataType' = Switched(TRUE)
      BY <2>2, <3>1, AfterCases
    <3>3. proto = IF oldType = 0 THEN "ubx" ELSE "nmea"
      BY <2>2, <3>1 DEF TogInv
    <3>4. oldType \in {0, 2}
      BY <2>2 DEF HostOK
    <3> QED BY <3>1, <3>2, <3>3, <3>4 DEF Switched, ModesAgree
  <2> QED BY <2>1, <2>3, <2>4
<1> QED BY <1>1, UbxInvariant, PTL DEF Spec, SwitchIsReal
=============================================================================
