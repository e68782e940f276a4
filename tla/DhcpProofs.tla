----------------------------- MODULE DhcpProofs -----------------------------
(***************************************************************************)
(* What the DHCP client promises, for any set of interfaces and servers,   *)
(* any lease time and any timeout: the invariants of the run, from one     *)
(* inductive invariant.  It follows an acknowledged address from the       *)
(* server's answer over the handle to the interface and the lease file,    *)
(* and bounds the age of an answer by the waits the process has behind it. *)
(***************************************************************************)
EXTENDS DhcpClient, Integers, TLAPS

Setting == {"ip", "gw", "open", "close"}

\* Where the process is, and what its handle holds there.
PlaceInv ==
    /\ pc = "idle" => net = {}
    /\ pc # "idle" => exit = "none"
    /\ h.renewing => h.sendmsg = "request"
    /\ h.sendmsg = "request" => h.opt.addr # NIL
    /\ pc = "parse" => h.pkt = Short \/ (h.pkt \in Messages /\ h.pkt.type = Awaited)
    /\ pc \in Setting => h.resout.server # NIL /\ h.resout.addr # NIL
    /\ pc \in {"gw", "open", "close"} => address[ifn] = h.resout.addr
    /\ pc \in {"open", "close"} => h.resout.addr # Zero

\* An acknowledgement under way, in the receive buffer or collected is the
\* server's.
GrantInv ==
    /\ \A m \in net : m.type = "ack" => <<m.server, m.addr>> \in granted
    /\ pc = "parse" /\ h.pkt.type = "ack" => <<h.pkt.server, h.pkt.addr>> \in granted
    /\ h.resout.addr \in Addrs => <<h.resout.server, h.resout.addr>> \in granted
    /\ AddressGranted

\* Upper bound of the time since the process sent its first packet: a renewal
\* is one wait, a discovery two.
Waited(g) == IF g.renewing THEN 0 ELSE IF g.sendmsg = "discover" THEN Timeout ELSE 2 * Timeout
Elapsed == IF pc = "send" THEN Waited(h) ELSE Waited(h) + Timeout - h.left

LagInv ==
    /\ \A m \in net : m.type = "ack" => m.lag <= Elapsed
    /\ pc = "parse" /\ h.pkt.type = "ack" => h.pkt.lag <= Elapsed
    /\ h.resout.lag <= 3 * Timeout

DhcpInv == TypeOK /\ PlaceInv /\ GrantInv /\ LagInv

\* The members of a handle, and what a message of each type holds.
LEMMA HandleFields ==
  ASSUME NEW g \in Handle
  PROVE  /\ g.renewing \in BOOLEAN /\ g.sendmsg \in {"discover", "request"}
         /\ g.opt \in Opt /\ g.resout \in Result /\ g.copied \in Copies
         /\ g.pkt \in {None, Short} \cup Messages
         /\ g.checked \in BOOLEAN /\ g.left \in 0..Timeout
BY DEF Handle

LEMMA MessageFields ==
  ASSUME NEW m \in Messages
  PROVE  /\ m.type = "offer" => m.server \in Servers /\ m.addr \in Addrs
         /\ m.type = "ack" => m.server \in Servers /\ m.addr \in Addrs /\ m.lag \in 0..MaxLag
BY DEF Messages

\* A zeroed handle is a handle.
LEMMA NewHandleFields ==
  /\ NewHandle \in Handle
  /\ NewHandle.renewing = FALSE /\ NewHandle.sendmsg = "discover" /\ NewHandle.left = 0
  /\ NewHandle.resout.addr = NIL /\ NewHandle.resout.server = NIL /\ NewHandle.resout.lag = 0
  /\ NewHandle.copied = NoCopy
BY DhcpAssumption DEF NewHandle, NoCopy, Handle, Opt, Result, Copies, MaxLag, None, Short

LEMMA InitKeeps == Init => DhcpInv
<1> SUFFICES ASSUME Init PROVE DhcpInv
  OBVIOUS
<1> USE NewHandleFields, DhcpAssumption
<1>1. TypeOK
  BY DEF Init, TypeOK, Empty, Other
<1>2. PlaceInv
  BY DEF Init, PlaceInv, Setting
<1>3. GrantInv
  BY DEF Init, GrantInv, AddressGranted, IsLease, Empty
<1>4. LagInv
  BY DEF Init, LagInv
<1>5. SavedIsInUse
  BY DEF Init, SavedIsInUse
<1> QED
  BY <1>1, <1>2, <1>3, <1>4, <1>5 DEF DhcpInv

\* The end of a process that leaves files and address as they are.
LEMMA StopKeeps ==
  ASSUME DhcpInv, NEW how \in {"ok", "fail", "crash"}, Exit(how), UNCHANGED <<host, ifn, granted>>
  PROVE  DhcpInv'
<1> USE NewHandleFields, DhcpAssumption
<1>1. TypeOK'
  BY DEF DhcpInv, TypeOK, Exit, host, Recognised
<1>2. PlaceInv'
  BY DEF PlaceInv, Exit, Setting, Recognised
<1>3. GrantInv'
  BY DEF DhcpInv, GrantInv, AddressGranted, Exit, host, Recognised
<1>4. LagInv'
  BY DEF LagInv, Exit, Recognised
<1> QED
  BY <1>1, <1>2, <1>3, <1>4 DEF DhcpInv

\* An error out of dhclient_transfer: the discovery after a renewal, or the end.
LEMMA FailKeeps ==
  ASSUME DhcpInv, pc # "idle", NEW g \in Handle,
         g.renewing = h.renewing, g.sendmsg = h.sendmsg, g.left = h.left, g.opt = h.opt,
         g.resout.addr \in Addrs => <<g.resout.server, g.resout.addr>> \in granted,
         g.resout.lag <= 3 * Timeout,
         Fail(g), UNCHANGED <<host, ifn, granted>>
  PROVE  DhcpInv'
<1>1. CASE ~g.renewing
  BY <1>1, StopKeeps DEF Fail
<1>2. CASE g.renewing
  <2> DEFINE n == [g EXCEPT !.renewing = FALSE, !.sendmsg = "discover"]
  <2>1. pc' = "send" /\ h' = n /\ UNCHANGED <<net, exit>>
    BY <1>2 DEF Fail, Go
  <2>2. /\ n \in Handle /\ ~n.renewing /\ n.sendmsg = "discover" /\ n.resout = g.resout
        /\ n.left = h.left
    BY DEF Handle
  <2> HIDE DEF n
  <2>3. TypeOK'
    BY <2>1, <2>2 DEF DhcpInv, TypeOK, host
  <2>4. PlaceInv'
    BY <2>1, <2>2 DEF DhcpInv, PlaceInv, Setting
  <2>5. GrantInv'
    BY <2>1, <2>2 DEF DhcpInv, GrantInv, AddressGranted, host
  <2>6. Elapsed <= Elapsed'
    BY <1>2, <2>1, <2>2, HandleFields, DhcpAssumption DEF DhcpInv, TypeOK, Elapsed, Waited
  <2>7. Elapsed \in Int /\ Elapsed' \in Int
    BY <2>1, <2>2, HandleFields, DhcpAssumption DEF DhcpInv, TypeOK, Elapsed, Waited
  <2>8. \A m \in net : m.type = "ack" => m.lag \in Int
    BY MessageFields, DhcpAssumption DEF DhcpInv, TypeOK, MaxLag
  <2>9. LagInv'
    BY <2>1, <2>2, <2>6, <2>7, <2>8 DEF DhcpInv, LagInv
  <2> QED
    BY <2>3, <2>4, <2>5, <2>9 DEF DhcpInv
<1> QED
  BY <1>1, <1>2

\* Errors that leave the handle as it is.
LEMMA FailAsIs ==
  ASSUME DhcpInv, pc # "idle", Fail(h), UNCHANGED <<host, ifn, granted>>
  PROVE  DhcpInv'
BY FailKeeps DEF DhcpInv, TypeOK, GrantInv, LagInv

\* The age of a message and the time the process has waited are numbers.
LEMMA Numbers ==
  ASSUME DhcpInv
  PROVE  /\ Elapsed \in Int /\ 0 <= Elapsed /\ Elapsed <= 3 * Timeout
         /\ \A m \in net : m.type = "ack" => m.lag \in Int
         /\ h.resout.lag \in Int
<1>1. Elapsed \in Int /\ 0 <= Elapsed /\ Elapsed <= 3 * Timeout
  BY HandleFields, DhcpAssumption DEF DhcpInv, TypeOK, PlaceInv, Elapsed, Waited
<1>2. \A m \in net : m.type = "ack" => m.lag \in Int
  BY MessageFields, DhcpAssumption DEF DhcpInv, TypeOK, MaxLag
<1>3. h.resout.lag \in Int
  BY HandleFields, DhcpAssumption DEF DhcpInv, TypeOK, Result, MaxLag
<1> QED
  BY <1>1, <1>2, <1>3

\* A process starts: the files keep their leases or lose them.
LEMMA StartKeeps ==
  ASSUME DhcpInv, NEW i \in Ifs, Start(i)
  PROVE  DhcpInv'
<1> USE DhcpAssumption
<1>1. PICK read \in [Files -> UNION {ReadLeases(file[f]) : f \in Files}] :
        /\ \A f \in Files : read[f] \in ReadLeases(file[f])
        /\ file' = [f \in Files |-> read[f][1]]
        /\ IF Ready(read) THEN pc' = "send" /\ exit' = "none" ELSE pc' = "idle" /\ exit' = "fail"
        /\ h' = IF Ready(read) /\ Renewable(file[IfType[i]], i)
                THEN [NewHandle EXCEPT !.renewing = TRUE, !.sendmsg = "request",
                                       !.opt = [addr |-> file[IfType[i]].addr,
                                                server |-> file[IfType[i]].server]]
                ELSE NewHandle
  BY DEF Start
<1>2. pc = "idle" /\ ifn' = i /\ UNCHANGED <<address, net, granted>>
  BY DEF Start
<1>3. net = {}
  BY <1>2 DEF DhcpInv, PlaceInv
<1>4. \A f \in Files : file'[f] = file[f] \/ file'[f] \in Other
  <2> SUFFICES ASSUME NEW f \in Files PROVE file'[f] = file[f] \/ file'[f] \in Other
    OBVIOUS
  <2>1. read[f] \in ReadLeases(file[f]) /\ file'[f] = read[f][1]
    BY <1>1
  <2>2. CASE file[f] = Empty
    <3>1. read[f] \in {<<Default, TRUE>>, <<Empty, TRUE>>, <<Torn, TRUE>>, <<Empty, FALSE>>}
      BY <2>1, <2>2 DEF ReadLeases
    <3>2. \A x, y : <<x, y>>[1] = x
      OBVIOUS
    <3>3. file'[f] \in {Default, Empty, Torn}
      BY <2>1, <3>1, <3>2, Zenon
    <3> QED
      BY <3>3 DEF Other, Default, Empty, Torn
  <2>3. CASE file[f] # Empty
    BY <2>1, <2>3 DEF ReadLeases
  <2> QED
    BY <2>2, <2>3
<1>5. IfType[i] \in Files
  BY DEF Files
<1>6. /\ h' \in Handle /\ (h'.renewing => h'.sendmsg = "request")
      /\ (h'.sendmsg = "request" => h'.opt.addr # NIL)
      /\ h'.resout.addr = NIL /\ h'.resout.lag = 0
  <2>1. CASE Ready(read) /\ Renewable(file[IfType[i]], i)
    <3> DEFINE a == file[IfType[i]].addr
               s == file[IfType[i]].server
    <3>1. a \in Addrs /\ s \in Servers
      <4>1. file[IfType[i]] \in Leases
        BY <1>5, <2>1 DEF DhcpInv, TypeOK, Renewable, Other
      <4> QED
        BY <4>1 DEF Leases
    <3>2. h' = [NewHandle EXCEPT !.renewing = TRUE, !.sendmsg = "request",
                                 !.opt = [addr |-> a, server |-> s]]
      BY <1>1, <2>1
    <3> HIDE DEF a, s
    <3>3. [addr |-> a, server |-> s] \in Opt
      BY <3>1 DEF Opt
    <3> QED
      BY <3>1, <3>2, <3>3, NewHandleFields DEF Handle, NewHandle
  <2>2. CASE ~(Ready(read) /\ Renewable(file[IfType[i]], i))
    BY <1>1, <2>2, NewHandleFields
  <2> QED
    BY <2>1, <2>2
<1>7. file' \in [Files -> Other \cup Leases]
  BY <1>1, <1>4 DEF DhcpInv, TypeOK
<1>8. pc' \in {"send", "idle"} /\ exit' # "ok" /\ exit' \in {"none", "fail"}
      /\ (pc' # "idle" => exit' = "none")
  BY <1>1
<1>9. TypeOK'
  BY <1>2, <1>6, <1>7, <1>8 DEF DhcpInv, TypeOK
<1>10. PlaceInv'
  BY <1>2, <1>3, <1>6, <1>8 DEF PlaceInv, Setting
<1>11. GrantInv'
  <2>1. AddressGranted'
    BY <1>2, <1>4 DEF DhcpInv, GrantInv, AddressGranted, IsLease, Other
  <2> QED
    BY <1>2, <1>3, <1>6, <1>8, <2>1 DEF GrantInv
<1>12. LagInv'
  BY <1>2, <1>3, <1>6, <1>8 DEF LagInv
<1> QED
  BY <1>9, <1>10, <1>11, <1>12 DEF DhcpInv

\* A packet is sent, and the wait for the answer begins.
LEMMA SendKeeps ==
  ASSUME DhcpInv, Send
  PROVE  DhcpInv'
<1> USE DhcpAssumption
<1>1. /\ pc = "send" /\ pc' = "wait" /\ h' = [h EXCEPT !.left = Timeout, !.pkt = None]
      /\ UNCHANGED <<host, ifn, exit, granted>>
  BY DEF Send
<1>2. net' \subseteq net \cup {Packet}
  BY DEF Send, UnderWay
<1>3. Packet \in Messages /\ Packet.type # "ack"
  BY HandleFields
     DEF DhcpInv, TypeOK, PlaceInv, Packet, DiscoverPack, RequestPack, Messages, Opt
<1>4. /\ h' \in Handle /\ h'.renewing = h.renewing /\ h'.sendmsg = h.sendmsg
      /\ h'.opt = h.opt /\ h'.resout = h.resout /\ h'.left = Timeout
  <2>1. Timeout \in 0..Timeout /\ None \in {None, Short} \cup Messages
    OBVIOUS
  <2> QED
    BY <1>1, <2>1 DEF DhcpInv, TypeOK, Handle
<1>5. TypeOK'
  BY <1>1, <1>2, <1>3, <1>4 DEF DhcpInv, TypeOK, host
<1>6. PlaceInv'
  BY <1>1, <1>4 DEF DhcpInv, PlaceInv, Setting
<1>7. GrantInv'
  BY <1>1, <1>2, <1>3, <1>4 DEF DhcpInv, GrantInv, AddressGranted, host
<1>8. Elapsed' = Elapsed
  BY <1>1, <1>4, HandleFields DEF DhcpInv, TypeOK, Elapsed, Waited
<1>9. LagInv'
  BY <1>1, <1>2, <1>3, <1>4, <1>8 DEF DhcpInv, LagInv
<1> QED
  BY <1>5, <1>6, <1>7, <1>9 DEF DhcpInv

\* The awaited packet arrives.
LEMMA ReceiveKeeps ==
  ASSUME DhcpInv, Receive
  PROVE  DhcpInv'
<1> USE DhcpAssumption
<1>1. PICK m \in net : m.type = Awaited /\ net' = net \ {m}
                       /\ h' = [h EXCEPT !.pkt = m, !.checked = TRUE]
  BY DEF Receive
<1>2. pc = "wait" /\ pc' = "parse" /\ UNCHANGED <<host, ifn, exit, granted>>
  BY DEF Receive
<1>3. m \in Messages
  BY DEF DhcpInv, TypeOK
<1>4. /\ h' \in Handle /\ h'.renewing = h.renewing /\ h'.sendmsg = h.sendmsg
      /\ h'.opt = h.opt /\ h'.resout = h.resout /\ h'.left = h.left /\ h'.pkt = m
  BY <1>1, <1>3 DEF DhcpInv, TypeOK, Handle
<1>5. TypeOK'
  BY <1>1, <1>2, <1>4 DEF DhcpInv, TypeOK, host
<1>6. PlaceInv'
  BY <1>1, <1>2, <1>3, <1>4 DEF DhcpInv, PlaceInv, Setting, Awaited
<1>7. GrantInv'
  BY <1>1, <1>2, <1>4 DEF DhcpInv, GrantInv, AddressGranted, host
<1>8. Elapsed' = Elapsed
  BY <1>2, <1>4 DEF Elapsed, Waited
<1>9. LagInv'
  BY <1>1, <1>2, <1>4, <1>8 DEF DhcpInv, LagInv
<1> QED
  BY <1>5, <1>6, <1>7, <1>9 DEF DhcpInv

\* A packet that is not the awaited one: the wait goes on or ends in an error.
LEMMA OtherPacketKeeps ==
  ASSUME DhcpInv, OtherPacket
  PROVE  DhcpInv'
<1> DEFINE g == [h EXCEPT !.checked = TRUE]
<1>1. /\ g \in Handle /\ g.renewing = h.renewing /\ g.sendmsg = h.sendmsg
      /\ g.opt = h.opt /\ g.resout = h.resout /\ g.left = h.left
  BY DEF DhcpInv, TypeOK, Handle
<1>2. pc = "wait" /\ KeepWaiting(g) /\ UNCHANGED <<host, ifn, granted>>
  BY DEF OtherPacket
<1> HIDE DEF g
<1>3. CASE Fail(g)
  BY <1>1, <1>2, <1>3, FailKeeps DEF DhcpInv, GrantInv, LagInv
<1>4. CASE Go("wait", g)
  <2>1. pc' = "wait" /\ h' = g /\ UNCHANGED <<net, exit>>
    BY <1>4 DEF Go
  <2>2. TypeOK'
    BY <1>1, <1>2, <2>1 DEF DhcpInv, TypeOK, host
  <2>3. PlaceInv'
    BY <1>1, <1>2, <2>1 DEF DhcpInv, PlaceInv, Setting
  <2>4. GrantInv'
    BY <1>1, <1>2, <2>1 DEF DhcpInv, GrantInv, AddressGranted, host
  <2>5. Elapsed' = Elapsed
    BY <1>1, <1>2, <2>1 DEF Elapsed, Waited
  <2>6. LagInv'
    BY <1>1, <2>1, <2>5, SMTT(30), Z3T(30) DEF DhcpInv, LagInv
  <2> QED
    BY <2>2, <2>3, <2>4, <2>6 DEF DhcpInv
<1> QED
  BY <1>2, <1>3, <1>4 DEF KeepWaiting

\* A short packet in the last second is taken for the awaited one.
LEMMA ShortPacketKeeps ==
  ASSUME DhcpInv, ShortPacket
  PROVE  DhcpInv'
<1> DEFINE g == [h EXCEPT !.pkt = Short]
<1>1. /\ g \in Handle /\ g.renewing = h.renewing /\ g.sendmsg = h.sendmsg
      /\ g.opt = h.opt /\ g.resout = h.resout /\ g.left = h.left /\ g.pkt = Short
  BY DEF DhcpInv, TypeOK, Handle
<1>2. /\ pc = "wait" /\ pc' = "parse" /\ h' = g /\ UNCHANGED <<net, exit>>
      /\ UNCHANGED <<host, ifn, granted>>
  BY DEF ShortPacket, Go
<1> HIDE DEF g
<1>3. TypeOK'
  BY <1>1, <1>2 DEF DhcpInv, TypeOK, host
<1>4. PlaceInv'
  BY <1>1, <1>2 DEF DhcpInv, PlaceInv, Setting
<1>5. GrantInv'
  BY <1>1, <1>2 DEF DhcpInv, GrantInv, AddressGranted, host, Short
<1>6. Elapsed' = Elapsed
  BY <1>1, <1>2 DEF Elapsed, Waited
<1>7. LagInv'
  BY <1>1, <1>2, <1>6 DEF DhcpInv, LagInv, Short
<1> QED
  BY <1>3, <1>4, <1>5, <1>7 DEF DhcpInv

\* An OFFER leads to the REQUEST of what it offers.
LEMMA ParseOfferKeeps ==
  ASSUME DhcpInv, ParseOffer
  PROVE  DhcpInv'
<1> USE DhcpAssumption
<1> DEFINE asked == IF h.pkt = Short THEN [h.opt EXCEPT !.addr = Zero]
                    ELSE [addr |-> h.pkt.addr, server |-> h.pkt.server]
           g == [h EXCEPT !.opt = asked, !.sendmsg = "request"]
<1>1. pc = "parse" /\ h.sendmsg = "discover" /\ UNCHANGED <<host, ifn, granted>>
  BY DEF ParseOffer
<1>2. CASE Exit("crash")
  BY <1>1, <1>2, StopKeeps
<1>3. CASE Go("send", g)
  <2>1. asked \in Opt /\ asked.addr # NIL
    <3>1. CASE h.pkt = Short
      BY <3>1, HandleFields DEF DhcpInv, TypeOK, Opt
    <3>2. CASE h.pkt # Short
      <4>1. h.pkt.server \in Servers /\ h.pkt.addr \in Addrs
        BY <1>1, <3>2, MessageFields DEF DhcpInv, PlaceInv, Awaited
      <4> QED
        BY <3>2, <4>1 DEF Opt
    <3> QED
      BY <3>1, <3>2
  <2> HIDE DEF asked
  <2>2. /\ g \in Handle /\ g.renewing = h.renewing /\ g.sendmsg = "request"
        /\ g.opt = asked /\ g.resout = h.resout /\ g.left = h.left
    BY <2>1 DEF DhcpInv, TypeOK, Handle
  <2> HIDE DEF g
  <2>3. pc' = "send" /\ h' = g /\ UNCHANGED <<net, exit>>
    BY <1>3 DEF Go
  <2>4. TypeOK'
    BY <1>1, <2>2, <2>3 DEF DhcpInv, TypeOK, host
  <2>5. PlaceInv'
    BY <1>1, <2>1, <2>2, <2>3 DEF DhcpInv, PlaceInv, Setting
  <2>6. GrantInv'
    BY <1>1, <2>2, <2>3 DEF DhcpInv, GrantInv, AddressGranted, host
  <2>7. Elapsed' \in Int /\ Elapsed <= Elapsed'
    BY <1>1, <2>2, <2>3, HandleFields DEF DhcpInv, TypeOK, PlaceInv, Elapsed, Waited
  <2>8. LagInv'
    BY <2>2, <2>3, <2>7, Numbers DEF DhcpInv, LagInv
  <2> QED
    BY <2>4, <2>5, <2>6, <2>8 DEF DhcpInv
<1> QED
  BY <1>2, <1>3 DEF ParseOffer

\* An ACK fills in resout; what a short packet leaves there is as before.
LEMMA ParseAckKeeps ==
  ASSUME DhcpInv, ParseAck
  PROVE  DhcpInv'
<1> USE DhcpAssumption
<1> DEFINE out == IF h.pkt = Short THEN [h.resout EXCEPT !.addr = Zero] ELSE Collect(h.pkt)
           g == [h EXCEPT !.resout = out]
<1>1. pc = "parse" /\ h.sendmsg = "request" /\ UNCHANGED <<host, ifn, granted>>
  BY DEF ParseAck
<1>2. /\ out \in Result /\ out.addr # NIL /\ out.lag <= 3 * Timeout
      /\ out.addr \in Addrs => <<out.server, out.addr>> \in granted
  <2>1. CASE h.pkt = Short
    BY <2>1, HandleFields DEF DhcpInv, TypeOK, LagInv, Result
  <2>2. CASE h.pkt # Short
    <3>1. h.pkt \in Messages /\ h.pkt.type = "ack"
      BY <1>1, <2>2 DEF DhcpInv, PlaceInv, Awaited
    <3>2. h.pkt.server \in Servers /\ h.pkt.addr \in Addrs /\ h.pkt.lag \in 0..MaxLag
      BY <3>1, MessageFields
    <3>3. h.pkt.lag <= 3 * Timeout
      BY <1>1, <3>1, <3>2, Numbers DEF DhcpInv, LagInv, MaxLag
    <3>4. h.resout.router \in Servers \cup {NIL}
      BY HandleFields DEF DhcpInv, TypeOK, Result
    <3>5. out.addr = h.pkt.addr /\ out.server = h.pkt.server /\ out.lag = h.pkt.lag
      BY <2>2 DEF Collect
    <3>6. out \in Result
      BY <2>2, <3>2, <3>4 DEF Collect, Result
    <3> QED
      BY <1>1, <3>1, <3>2, <3>3, <3>5, <3>6 DEF DhcpInv, GrantInv
  <2> QED
    BY <2>1, <2>2
<1>3. CASE Exit("crash")
  BY <1>1, <1>3, StopKeeps
<1> HIDE DEF out
<1>4. /\ g \in Handle /\ g.renewing = h.renewing /\ g.sendmsg = h.sendmsg
      /\ g.opt = h.opt /\ g.resout = out /\ g.left = h.left
  BY <1>2 DEF DhcpInv, TypeOK, Handle
<1> HIDE DEF g
<1>5. CASE Fail(g)
  BY <1>1, <1>2, <1>4, <1>5, FailKeeps
<1>6. CASE ~Incomplete(out) /\ Go("ip", g)
  <2>1. pc' = "ip" /\ h' = g /\ UNCHANGED <<net, exit>>
    BY <1>6 DEF Go
  <2>2. out.server # NIL
    BY <1>6 DEF Incomplete
  <2>3. TypeOK'
    BY <1>1, <1>4, <2>1 DEF DhcpInv, TypeOK, host
  <2>4. PlaceInv'
    BY <1>1, <1>2, <1>4, <2>1, <2>2 DEF DhcpInv, PlaceInv, Setting
  <2>5. GrantInv'
    BY <1>1, <1>2, <1>4, <2>1 DEF DhcpInv, GrantInv, AddressGranted, host
  <2>6. Elapsed' = Elapsed
    BY <1>1, <1>4, <2>1 DEF Elapsed, Waited
  <2>7. LagInv'
    BY <1>2, <1>4, <2>1, <2>6 DEF DhcpInv, LagInv
  <2> QED
    BY <2>3, <2>4, <2>5, <2>7 DEF DhcpInv
<1> QED
  BY <1>3, <1>5, <1>6 DEF ParseAck, out, g

\* Steps of dhclient_set_result and dhclient_update_leases that go on, with the
\* handle as it is.
LEMMA GoOnKeeps ==
  ASSUME DhcpInv, NEW next \in Setting, pc \in Setting, Go(next, h),
         TypeOK', AddressGranted', UNCHANGED <<ifn, granted>>,
         next # "ip", address'[ifn] = h.resout.addr, next # "gw" => h.resout.addr # Zero
  PROVE  DhcpInv'
<1>1. pc' = next /\ UNCHANGED <<h, net, exit>>
  BY DEF Go
<1>2. PlaceInv'
  BY <1>1 DEF DhcpInv, PlaceInv, Setting
<1>3. GrantInv'
  BY <1>1 DEF DhcpInv, GrantInv, Setting
<1>4. Elapsed' = Elapsed
  BY <1>1 DEF Elapsed, Waited, Setting
<1>5. LagInv'
  BY <1>1, <1>4 DEF DhcpInv, LagInv, Setting
<1> QED
  BY <1>2, <1>3, <1>5 DEF DhcpInv

\* The address is set, or cannot be.
LEMMA SetIpKeeps ==
  ASSUME DhcpInv, SetIp
  PROVE  DhcpInv'
<1>1. pc = "ip" /\ UNCHANGED <<file, ifn, granted>>
  BY DEF SetIp
<1>2. CASE Fail(h) /\ UNCHANGED address
  BY <1>1, <1>2, FailAsIs DEF host
<1>3. CASE Go("gw", h) /\ address' = [address EXCEPT ![ifn] = h.resout.addr]
  <2>1. address'[ifn] = h.resout.addr
    BY <1>3 DEF DhcpInv, TypeOK
  <2>2. h.resout.addr \in Addrs \cup {Zero, NIL} /\ h.resout.server \in Servers \cup {NIL}
    BY HandleFields DEF DhcpInv, TypeOK, Result
  <2>3. TypeOK'
    BY <1>1, <1>3, <2>2 DEF DhcpInv, TypeOK, Go
  <2>4. h.resout.addr \in Addrs => \E s \in Servers : <<s, h.resout.addr>> \in granted
    BY <1>1, <2>2 DEF DhcpInv, PlaceInv, GrantInv, Setting
  <2>5. AddressGranted'
    BY <1>1, <1>3, <2>4 DEF DhcpInv, TypeOK, GrantInv, AddressGranted
  <2> QED
    BY <1>1, <1>3, <2>1, <2>3, <2>5, GoOnKeeps DEF Setting
<1> QED
  BY <1>2, <1>3 DEF SetIp

LEMMA SetGwMaskKeeps ==
  ASSUME DhcpInv, SetGwMask
  PROVE  DhcpInv'
<1>1. pc = "gw" /\ UNCHANGED <<host, ifn, granted>>
  BY DEF SetGwMask
<1>2. CASE Fail(h)
  BY <1>1, <1>2, FailAsIs
<1>3. CASE ~MaskRefused /\ Go("open", h)
  <2>1. TypeOK'
    BY <1>1, <1>3 DEF DhcpInv, TypeOK, Go, host
  <2>2. AddressGranted'
    BY <1>1 DEF DhcpInv, GrantInv, AddressGranted, host
  <2> QED
    BY <1>1, <1>3, <2>1, <2>2, GoOnKeeps DEF DhcpInv, PlaceInv, Setting, host, MaskRefused
<1> QED
  BY <1>2, <1>3 DEF SetGwMask

\* The lease file is emptied, or cannot be opened.
LEMMA OpenFileKeeps ==
  ASSUME DhcpInv, OpenFile
  PROVE  DhcpInv'
<1>1. pc = "open" /\ UNCHANGED <<address, ifn, granted>>
  BY DEF OpenFile
<1>2. CASE OpenFails /\ UNCHANGED file
  <2> DEFINE g == [h EXCEPT !.copied = Copy]
  <2>1. Copy \in Copies
    BY <1>1, HandleFields DEF DhcpInv, TypeOK, PlaceInv, Setting, Result, Copy, Copies
  <2>2. /\ g \in Handle /\ g.renewing = h.renewing /\ g.sendmsg = h.sendmsg
        /\ g.opt = h.opt /\ g.resout = h.resout /\ g.left = h.left
    BY <2>1 DEF DhcpInv, TypeOK, Handle
  <2>3. Fail(g)
    BY <1>2 DEF OpenFails
  <2> HIDE DEF g
  <2> QED
    BY <1>1, <1>2, <2>2, <2>3, FailKeeps DEF DhcpInv, GrantInv, LagInv, host
<1>3. CASE Go("close", h) /\ file' = [file EXCEPT ![IfType[ifn]] = Empty]
  <2>1. TypeOK'
    BY <1>1, <1>3 DEF DhcpInv, TypeOK, Go, Empty, Other
  <2>2. AddressGranted'
    BY <1>1, <1>3 DEF DhcpInv, TypeOK, GrantInv, AddressGranted, IsLease, Empty
  <2> QED
    BY <1>1, <1>3, <2>1, <2>2, GoOnKeeps DEF DhcpInv, PlaceInv, Setting
<1>4. CASE Exit("ok") /\ UNCHANGED file
  BY <1>1, <1>4, StopKeeps DEF host
<1> QED
  BY <1>2, <1>3, <1>4 DEF OpenFile

\* The lease file is written, in full, in part or not at all, and success reported.
LEMMA CloseFileKeeps ==
  ASSUME DhcpInv, CloseFile
  PROVE  DhcpInv'
<1> USE DhcpAssumption, NewHandleFields
<1>1. PICK content \in {Empty, Torn, NewLease} :
        file' = [file EXCEPT ![IfType[ifn]] = content]
  BY DEF CloseFile
<1>2. pc = "close" /\ Exit("ok") /\ UNCHANGED <<address, ifn, granted>>
  BY DEF CloseFile
<1>3. pc' = "idle" /\ exit' = "ok" /\ h' = NewHandle /\ net' = {}
  BY <1>2 DEF Exit, Recognised
<1>4. ifn \in Ifs /\ IfType[ifn] \in Files
  BY DEF DhcpInv, TypeOK, Files
<1>5. /\ h.resout.addr \in Addrs /\ h.resout.server \in Servers
      /\ address[ifn] = h.resout.addr
  BY <1>2, HandleFields DEF DhcpInv, TypeOK, PlaceInv, Setting, Result
<1>6. content \in Other \cup Leases
  BY <1>4, <1>5 DEF Empty, Torn, NewLease, Other, Leases
<1>7. IsLease(content) => /\ content.ifname = ifn /\ content.addr = h.resout.addr
                          /\ content.server = h.resout.server
  BY DEF IsLease, Empty, Torn, NewLease
<1>8. TypeOK'
  BY <1>1, <1>2, <1>3, <1>6 DEF DhcpInv, TypeOK
<1>9. PlaceInv'
  BY <1>3 DEF PlaceInv, Setting
<1>10. GrantInv'
  <2>1. AddressGranted'
    BY <1>1, <1>2, <1>5, <1>7, SMTT(30), Z3T(30) DEF DhcpInv, TypeOK, GrantInv, AddressGranted
  <2> QED
    BY <1>3, <2>1 DEF GrantInv
<1>11. LagInv'
  BY <1>3 DEF LagInv
<1> QED
  BY <1>8, <1>9, <1>10, <1>11 DEF DhcpInv

\* A server's offer is under way.
LEMMA OfferKeeps ==
  ASSUME DhcpInv, NEW s \in Servers, Offer(s)
  PROVE  DhcpInv'
<1>1. PICK a \in Pool[s] : net' = net \cup {[type |-> "offer", server |-> s, addr |-> a]}
  BY DEF Offer
<1>2. pc # "idle" /\ UNCHANGED <<host, pc, ifn, h, exit, granted>>
  BY DEF Offer
<1> DEFINE m == [type |-> "offer", server |-> s, addr |-> a]
<1>3. m \in Messages /\ m.type = "offer"
  BY DEF Messages, Addrs
<1> HIDE DEF m
<1>4. net' = net \cup {m}
  BY <1>1 DEF m
<1>5. TypeOK'
  BY <1>2, <1>3, <1>4 DEF DhcpInv, TypeOK, host
<1>6. PlaceInv'
  BY <1>2 DEF DhcpInv, PlaceInv, Awaited, host
<1>7. GrantInv'
  BY <1>2, <1>3, <1>4 DEF DhcpInv, GrantInv, AddressGranted, host
<1>8. LagInv'
  BY <1>2, <1>3, <1>4 DEF DhcpInv, LagInv, Elapsed
<1> QED
  BY <1>5, <1>6, <1>7, <1>8 DEF DhcpInv

\* A server grants an address and acknowledges it.
LEMMA GrantKeeps ==
  ASSUME DhcpInv, NEW s \in Servers, Grant(s)
  PROVE  DhcpInv'
<1> USE DhcpAssumption
<1>1. PICK a \in Pool[s] :
        /\ net' = net \cup {[type |-> "ack", server |-> s, addr |-> a, lag |-> 0]}
        /\ granted' = granted \cup {<<s, a>>}
  BY DEF Grant
<1>2. pc # "idle" /\ UNCHANGED <<host, pc, ifn, h, exit>>
  BY DEF Grant
<1> DEFINE m == [type |-> "ack", server |-> s, addr |-> a, lag |-> 0]
<1>3. m \in Messages /\ m.server = s /\ m.addr = a /\ m.lag = 0
  BY DEF Messages, Addrs, MaxLag
<1> HIDE DEF m
<1>4. net' = net \cup {m}
  BY <1>1 DEF m
<1>5. a \in Addrs
  BY DEF Addrs
<1>6. TypeOK'
  BY <1>1, <1>2, <1>3, <1>4, <1>5, SMTT(30), Z3T(30) DEF DhcpInv, TypeOK, host
<1>7. PlaceInv'
  BY <1>2 DEF DhcpInv, PlaceInv, Awaited, host
<1>8. GrantInv'
  BY <1>1, <1>2, <1>3, <1>4, SMTT(30), Z3T(30) DEF DhcpInv, GrantInv, AddressGranted, host
<1>9. LagInv'
  BY <1>2, <1>3, <1>4, Numbers DEF DhcpInv, LagInv, Elapsed
<1> QED
  BY <1>6, <1>7, <1>8, <1>9 DEF DhcpInv

\* A second passes.
LEMMA TickKeeps ==
  ASSUME DhcpInv, Tick
  PROVE  DhcpInv'
<1> USE DhcpAssumption
<1> DEFINE Aged(m) == IF m.type = "ack"
                      THEN [m EXCEPT !.lag = IF @ < MaxLag THEN @ + 1 ELSE @] ELSE m
<1>1. /\ file' = [f \in Files |-> Older(file[f])] /\ net' = {Aged(m) : m \in net}
      /\ UNCHANGED <<address, pc, ifn, exit, granted>>
  BY DEF Tick
<1>2. \/ pc = "wait" /\ h.left > 0 /\ h' = [h EXCEPT !.left = @ - 1, !.copied = NoCopy]
      \/ pc = "idle" /\ h' = h
  BY DEF Tick
<1>3. /\ h' \in Handle /\ h'.renewing = h.renewing /\ h'.sendmsg = h.sendmsg
      /\ h'.opt = h.opt /\ h'.resout = h.resout
  <2>1. NoCopy \in Copies /\ h \in Handle
    BY DEF DhcpInv, TypeOK, Copies, NoCopy
  <2>2. CASE h' = h
    BY <2>1, <2>2
  <2>3. CASE h.left > 0 /\ h' = [h EXCEPT !.left = @ - 1, !.copied = NoCopy]
    <3>1. h.left - 1 \in 0..Timeout
      BY <2>1, <2>3, HandleFields
    <3> QED
      BY <2>1, <2>3, <3>1 DEF Handle
  <2> QED
    BY <1>2, <2>2, <2>3
<1>4. \A m \in net : /\ Aged(m) \in Messages /\ Aged(m).type = m.type
                     /\ m.type = "ack" => /\ Aged(m).server = m.server /\ Aged(m).addr = m.addr
                                          /\ Aged(m).lag <= m.lag + 1
  <2> SUFFICES ASSUME NEW m \in net, m.type = "ack"
               PROVE  /\ Aged(m) \in Messages /\ Aged(m).type = m.type
                      /\ Aged(m).server = m.server /\ Aged(m).addr = m.addr
                      /\ Aged(m).lag <= m.lag + 1
    BY DEF DhcpInv, TypeOK
  <2> DEFINE l == IF m.lag < MaxLag THEN m.lag + 1 ELSE m.lag
  <2>1. m \in [type : {"ack"}, server : Servers, addr : Addrs, lag : 0..MaxLag]
    BY DEF DhcpInv, TypeOK, Messages
  <2>2. m.lag \in 0..MaxLag /\ l \in 0..MaxLag /\ l <= m.lag + 1
    BY <2>1 DEF MaxLag
  <2>3. Aged(m) = [m EXCEPT !.lag = l]
    OBVIOUS
  <2> HIDE DEF l, Aged
  <2> QED
    BY <2>1, <2>2, <2>3 DEF Messages
<1> HIDE DEF Aged
<1>5. \A f \in Files : /\ file'[f] \in Other \cup Leases
                       /\ IsLease(file'[f]) => /\ IsLease(file[f])
                                               /\ file'[f].ifname = file[f].ifname
                                               /\ file'[f].addr = file[f].addr
                                               /\ file'[f].server = file[f].server
  <2> SUFFICES ASSUME NEW f \in Files
               PROVE  /\ file'[f] \in Other \cup Leases
                      /\ IsLease(file'[f]) => /\ IsLease(file[f])
                                              /\ file'[f].ifname = file[f].ifname
                                              /\ file'[f].addr = file[f].addr
                                              /\ file'[f].server = file[f].server
    OBVIOUS
  <2>1. file[f] \in Other \cup Leases /\ file'[f] = Older(file[f])
    BY <1>1 DEF DhcpInv, TypeOK
  <2>2. CASE file'[f] = file[f]
    BY <2>1, <2>2
  <2>3. CASE /\ file[f].kind = "lease" /\ file[f].age # Lease
             /\ file'[f] = [file[f] EXCEPT !.age = @ + 1]
    <3>1. file[f] \in Leases
      BY <2>1, <2>3 DEF Other
    <3>2. file[f].age + 1 \in 0..Lease
      BY <2>3, <3>1 DEF Leases
    <3> QED
      BY <2>3, <3>1, <3>2 DEF Leases, IsLease
  <2> QED
    BY <2>1, <2>2, <2>3 DEF Older
<1>6. TypeOK'
  BY <1>1, <1>3, <1>4, <1>5 DEF DhcpInv, TypeOK
<1>7. PlaceInv'
  BY <1>1, <1>2, <1>3 DEF DhcpInv, PlaceInv, Setting
<1>8. GrantInv'
  <2>1. AddressGranted'
    BY <1>1, <1>5 DEF DhcpInv, GrantInv, AddressGranted
  <2> QED
    BY <1>1, <1>2, <1>3, <1>4, <2>1, SMTT(30), Z3T(30) DEF DhcpInv, GrantInv
<1>9. LagInv'
  <2>1. CASE pc = "idle"
    BY <1>1, <1>2, <1>3, <2>1 DEF DhcpInv, PlaceInv, LagInv
  <2>2. CASE pc = "wait" /\ h.left > 0 /\ h' = [h EXCEPT !.left = @ - 1, !.copied = NoCopy]
    <3>1. h'.left = h.left - 1
      BY <2>2 DEF DhcpInv, TypeOK, Handle
    <3>2. Elapsed' = Elapsed + 1
      BY <1>1, <1>3, <2>2, <3>1, HandleFields DEF DhcpInv, TypeOK, Elapsed, Waited
    <3>3. \A m \in net : m.type = "ack" => Aged(m).lag <= Elapsed'
      <4> SUFFICES ASSUME NEW m \in net, m.type = "ack" PROVE Aged(m).lag <= Elapsed'
        OBVIOUS
      <4>1. Aged(m) \in Messages /\ Aged(m).type = "ack" /\ Aged(m).lag <= m.lag + 1
        BY <1>4
      <4>2. Aged(m).lag \in Int
        BY <4>1, MessageFields DEF MaxLag
      <4>3. m.lag \in Int /\ m.lag <= Elapsed /\ Elapsed \in Int
        BY Numbers DEF DhcpInv, LagInv
      <4> QED
        BY <3>2, <4>1, <4>2, <4>3
    <3> QED
      BY <1>1, <1>3, <1>4, <2>2, <3>3 DEF DhcpInv, LagInv
  <2> QED
    BY <1>2, <2>1, <2>2
<1> QED
  BY <1>6, <1>7, <1>8, <1>9 DEF DhcpInv

\* Every step of the client, the servers and the clock keeps the invariant.
LEMMA NextKeeps == DhcpInv /\ [Next]_vars => DhcpInv'
<1> SUFFICES ASSUME DhcpInv, [Next]_vars PROVE DhcpInv'
  OBVIOUS
<1>1. CASE UNCHANGED vars
  <2>1. UNCHANGED <<file, address, net, pc, ifn, h, exit, granted>>
    BY <1>1 DEF vars, host
  <2>2. TypeOK'
    BY <2>1 DEF DhcpInv, TypeOK
  <2>3. PlaceInv'
    BY <2>1 DEF DhcpInv, PlaceInv, Awaited
  <2>4. GrantInv'
    BY <2>1, SMTT(30), Z3T(30) DEF DhcpInv, GrantInv, AddressGranted
  <2>5. LagInv'
    BY <2>1 DEF DhcpInv, LagInv, Elapsed
  <2> QED
    BY <2>2, <2>3, <2>4, <2>5 DEF DhcpInv
<1>2. CASE SelectTimesOut
  BY <1>2, FailAsIs DEF SelectTimesOut
<1>3. CASE SocketFails
  BY <1>3, FailAsIs DEF SocketFails
<1>4. CASE Kill
  BY <1>4, StopKeeps DEF Kill
<1>5. CASE Client
  BY <1>2, <1>5, SendKeeps, ReceiveKeeps, ParseOfferKeeps, ParseAckKeeps, SetIpKeeps,
     SetGwMaskKeeps, OpenFileKeeps, CloseFileKeeps DEF Client
<1>6. CASE Faults
  BY <1>3, <1>4, <1>6, OtherPacketKeeps, ShortPacketKeeps DEF Faults
<1> QED
  BY <1>1, <1>5, <1>6, StartKeeps, OfferKeeps, GrantKeeps, TickKeeps DEF Next

\* Every reachable state satisfies the invariant.
LEMMA Invariant == Spec => []DhcpInv
BY InitKeeps, NextKeeps, PTL DEF Spec

\* The variables keep their types: in particular no request is sent and no lease
\* saved without an address and a server.
THEOREM TypeCorrect == Spec => []TypeOK
<1>1. DhcpInv => TypeOK
  BY DEF DhcpInv
<1> QED
  BY <1>1, Invariant, PTL

\* No interface gets, and no lease file keeps, an address that a server has not
\* acknowledged, whatever is lost, doubled, late, killed or fails.
THEOREM OnlyGranted == Spec => []AddressGranted
<1>1. DhcpInv => AddressGranted
  BY DEF DhcpInv, GrantInv
<1> QED
  BY <1>1, Invariant, PTL

\* dhclient_update_leases counts a lease from an acknowledgement that is at most
\* three waits old.
THEOREM LagBounded == Spec => []LeaseLag
<1>1. DhcpInv => LeaseLag
  BY DEF DhcpInv, LagInv, LeaseLag
<1> QED
  BY <1>1, Invariant, PTL

-----------------------------------------------------------------------------
(***************************************************************************)
(* What success means.  A save can be skipped, when the renewal could not  *)
(* save the same lease before; then the file still holds the lease that    *)
(* was to be renewed, and its address is the one acknowledged: a renewal   *)
(* only ever asks for it, so no answer can name another.                   *)
(***************************************************************************)

\* The lease file of the interface holds no other address than a.
Holds(a) ==
    IsLease(file[IfType[ifn]]) => file[IfType[ifn]].ifname = ifn /\ file[IfType[ifn]].addr = a

HeldInv ==
    /\ h.renewing => Holds(h.opt.addr)
    /\ h.renewing => \A m \in net : m.type \in {"request", "ack"} /\ m.addr = h.opt.addr
    /\ h.renewing /\ pc = "parse" /\ h.pkt # Short => h.pkt.addr = h.opt.addr
    /\ h.renewing /\ pc \in {"send", "wait", "parse"} => h.resout.server = NIL
    /\ h.renewing /\ pc \in Setting => h.resout.addr = h.opt.addr
    /\ h.copied # NoCopy => Holds(h.copied.addr)
    /\ SavedIsInUse
    /\ SuccessMeansGranted

LEMMA InitHeld == Init => HeldInv
BY NewHandleFields, DhcpAssumption DEF Init, HeldInv, SavedIsInUse, SuccessMeansGranted

\* A process ends without success.
LEMMA StopHeld ==
  ASSUME NEW how \in {"fail", "crash"}, Exit(how)
  PROVE  HeldInv'
BY NewHandleFields DEF Exit, HeldInv, SavedIsInUse, SuccessMeansGranted

\* An error out of dhclient_transfer.
LEMMA FailHeld ==
  ASSUME DhcpInv, HeldInv, pc # "idle", NEW g \in Handle,
         g.copied # NoCopy => Holds(g.copied.addr),
         Fail(g), UNCHANGED <<file, ifn>>
  PROVE  HeldInv'
<1>1. CASE ~g.renewing
  BY <1>1, StopHeld DEF Fail
<1>2. CASE g.renewing
  <2> DEFINE n == [g EXCEPT !.renewing = FALSE, !.sendmsg = "discover"]
  <2>1. pc' = "send" /\ h' = n /\ UNCHANGED <<net, exit>>
    BY <1>2 DEF Fail, Go
  <2>2. ~n.renewing /\ n.copied = g.copied
    BY DEF Handle
  <2> HIDE DEF n
  <2>3. exit' = "none"
    BY <2>1 DEF DhcpInv, PlaceInv
  <2>4. g.copied # NoCopy => Holds(g.copied.addr)'
    BY DEF Holds
  <2> QED
    BY <2>1, <2>2, <2>3, <2>4 DEF HeldInv, SavedIsInUse, SuccessMeansGranted, Holds
<1> QED
  BY <1>1, <1>2

LEMMA FailAsIsHeld ==
  ASSUME DhcpInv, HeldInv, pc # "idle", Fail(h), UNCHANGED <<file, ifn>>
  PROVE  HeldInv'
BY FailHeld DEF DhcpInv, TypeOK, HeldInv

\* The process goes on: what is to be shown of its new place and handle.
LEMMA GoHeld ==
  ASSUME DhcpInv, HeldInv, pc # "idle", UNCHANGED <<ifn, exit>>,
         h'.renewing = h.renewing, h'.opt = h.opt \/ ~h.renewing, h'.copied = h.copied,
         \/ file' = file
         \/ ~IsLease(file[IfType[ifn]])',
         h.renewing => \A m \in net' : m.type \in {"request", "ack"} /\ m.addr = h.opt.addr,
         h.renewing /\ pc' = "parse" /\ h'.pkt # Short => h'.pkt.addr = h.opt.addr,
         h.renewing /\ pc' \in {"send", "wait", "parse"} => h'.resout.server = NIL,
         h.renewing /\ pc' \in Setting => h'.resout.addr = h.opt.addr
  PROVE  HeldInv'
<1>1. exit' = "none"
  BY DEF DhcpInv, PlaceInv
<1>2. h.renewing => Holds(h.opt.addr)'
  BY DEF HeldInv, Holds
<1>3. h.copied # NoCopy => Holds(h.copied.addr)'
  BY DEF HeldInv, Holds
<1> QED
  BY <1>1, <1>2, <1>3 DEF HeldInv, SavedIsInUse, SuccessMeansGranted, Holds

\* A renewal starts from the lease in the file.
LEMMA StartHeld ==
  ASSUME DhcpInv, NEW i \in Ifs, Start(i)
  PROVE  HeldInv'
<1> USE DhcpAssumption
<1>1. PICK read \in [Files -> UNION {ReadLeases(file[f]) : f \in Files}] :
        /\ \A f \in Files : read[f] \in ReadLeases(file[f])
        /\ file' = [f \in Files |-> read[f][1]]
        /\ IF Ready(read) THEN pc' = "send" /\ exit' = "none" ELSE pc' = "idle" /\ exit' = "fail"
        /\ h' = IF Ready(read) /\ Renewable(file[IfType[i]], i)
                THEN [NewHandle EXCEPT !.renewing = TRUE, !.sendmsg = "request",
                                       !.opt = [addr |-> file[IfType[i]].addr,
                                                server |-> file[IfType[i]].server]]
                ELSE NewHandle
  BY DEF Start
<1>2. pc = "idle" /\ ifn' = i /\ net' = {} /\ IfType[i] \in Files
  BY DEF Start, DhcpInv, PlaceInv, Files
<1>3. pc' \in {"send", "idle"} /\ exit' # "ok"
  BY <1>1
<1>4. CASE Ready(read) /\ Renewable(file[IfType[i]], i)
  <2> DEFINE c == file[IfType[i]]
  <2>1. c.kind = "lease" /\ c.ifname = i /\ c # Empty
    BY <1>4 DEF Renewable, Empty
  <2>2. read[IfType[i]] = <<c, c # Torn>>
    BY <1>1, <1>2, <2>1 DEF ReadLeases
  <2>3. file'[IfType[i]] = c
    BY <1>1, <1>2, <2>2
  <2>4. /\ h'.opt.addr = c.addr /\ h'.resout.server = NIL /\ h'.copied = NoCopy
    BY <1>1, <1>4, NewHandleFields DEF NewHandle
  <2> HIDE DEF c
  <2> QED
    BY <1>2, <1>3, <2>1, <2>3, <2>4
       DEF HeldInv, Holds, SavedIsInUse, SuccessMeansGranted, Setting
<1>5. CASE ~(Ready(read) /\ Renewable(file[IfType[i]], i))
  BY <1>1, <1>3, <1>5, NewHandleFields DEF HeldInv, SavedIsInUse, SuccessMeansGranted
<1> QED
  BY <1>4, <1>5

\* A renewal sends the REQUEST of its lease and nothing else.
LEMMA SendHeld ==
  ASSUME DhcpInv, HeldInv, Send
  PROVE  HeldInv'
<1>1. /\ pc = "send" /\ pc' = "wait" /\ h' = [h EXCEPT !.left = Timeout, !.pkt = None]
      /\ UNCHANGED <<file, ifn, exit>>
  BY DEF Send, host
<1>2. net' \subseteq net \cup {Packet}
  BY DEF Send, UnderWay
<1>3. h.renewing => Packet.type = "request" /\ Packet.addr = h.opt.addr
  BY DEF DhcpInv, PlaceInv, Packet, RequestPack
<1>4. /\ h'.renewing = h.renewing /\ h'.opt = h.opt /\ h'.copied = h.copied
      /\ h'.resout = h.resout
  BY <1>1 DEF DhcpInv, TypeOK, Handle
<1> QED
  BY <1>1, <1>2, <1>3, <1>4, GoHeld DEF HeldInv, Setting

LEMMA ReceiveHeld ==
  ASSUME DhcpInv, HeldInv, Receive
  PROVE  HeldInv'
<1>1. PICK m \in net : m.type = Awaited /\ net' = net \ {m}
                       /\ h' = [h EXCEPT !.pkt = m, !.checked = TRUE]
  BY DEF Receive
<1>2. pc = "wait" /\ pc' = "parse" /\ UNCHANGED <<file, ifn, exit>>
  BY DEF Receive, host
<1>3. /\ h'.renewing = h.renewing /\ h'.opt = h.opt /\ h'.copied = h.copied
      /\ h'.resout = h.resout /\ h'.pkt = m
  BY <1>1 DEF DhcpInv, TypeOK, Handle
<1> QED
  BY <1>1, <1>2, <1>3, GoHeld DEF HeldInv, Setting

LEMMA OtherPacketHeld ==
  ASSUME DhcpInv, HeldInv, OtherPacket
  PROVE  HeldInv'
<1> DEFINE g == [h EXCEPT !.checked = TRUE]
<1>1. /\ g \in Handle /\ g.renewing = h.renewing /\ g.opt = h.opt /\ g.copied = h.copied
      /\ g.resout = h.resout
  BY DEF DhcpInv, TypeOK, Handle
<1>2. pc = "wait" /\ KeepWaiting(g) /\ UNCHANGED <<file, ifn>>
  BY DEF OtherPacket, host
<1> HIDE DEF g
<1>3. CASE Fail(g)
  BY <1>1, <1>2, <1>3, FailHeld DEF HeldInv
<1>4. CASE Go("wait", g)
  <2>1. pc' = "wait" /\ h' = g /\ UNCHANGED <<net, exit>>
    BY <1>4 DEF Go
  <2> QED
    BY <1>1, <1>2, <2>1, GoHeld DEF HeldInv, Setting
<1> QED
  BY <1>2, <1>3, <1>4 DEF KeepWaiting

LEMMA ShortPacketHeld ==
  ASSUME DhcpInv, HeldInv, ShortPacket
  PROVE  HeldInv'
<1> DEFINE g == [h EXCEPT !.pkt = Short]
<1>1. /\ g.renewing = h.renewing /\ g.opt = h.opt /\ g.copied = h.copied
      /\ g.resout = h.resout /\ g.pkt = Short
  BY DEF DhcpInv, TypeOK, Handle
<1>2. pc = "wait" /\ pc' = "parse" /\ h' = g /\ UNCHANGED <<net, exit, file, ifn>>
  BY DEF ShortPacket, Go, host
<1> HIDE DEF g
<1> QED
  BY <1>1, <1>2, GoHeld DEF HeldInv, Setting

\* An OFFER is no part of a renewal.
LEMMA ParseOfferHeld ==
  ASSUME DhcpInv, HeldInv, ParseOffer
  PROVE  HeldInv'
<1> DEFINE asked == IF h.pkt = Short THEN [h.opt EXCEPT !.addr = Zero]
                    ELSE [addr |-> h.pkt.addr, server |-> h.pkt.server]
           g == [h EXCEPT !.opt = asked, !.sendmsg = "request"]
<1>1. pc = "parse" /\ ~h.renewing /\ UNCHANGED <<file, ifn>>
  BY DEF ParseOffer, DhcpInv, PlaceInv, host
<1>2. CASE Exit("crash")
  BY <1>2, StopHeld
<1>3. CASE Go("send", g)
  <2> HIDE DEF asked
  <2>1. g.renewing = h.renewing /\ g.copied = h.copied
    BY DEF DhcpInv, TypeOK, Handle
  <2>2. pc' = "send" /\ h' = g /\ UNCHANGED <<net, exit>>
    BY <1>3 DEF Go
  <2> HIDE DEF g
  <2> QED
    BY <1>1, <2>1, <2>2, GoHeld
<1> QED
  BY <1>2, <1>3 DEF ParseOffer

\* An ACK of a renewal names the address of the lease.
LEMMA ParseAckHeld ==
  ASSUME DhcpInv, HeldInv, ParseAck
  PROVE  HeldInv'
<1> DEFINE out == IF h.pkt = Short THEN [h.resout EXCEPT !.addr = Zero] ELSE Collect(h.pkt)
           g == [h EXCEPT !.resout = out]
<1>1. pc = "parse" /\ UNCHANGED <<file, ifn>>
  BY DEF ParseAck, host
<1>2. out \in Result
  <2>1. CASE h.pkt = Short
    BY <2>1, HandleFields DEF DhcpInv, TypeOK, Result
  <2>2. CASE h.pkt # Short
    <3>1. h.pkt.server \in Servers /\ h.pkt.addr \in Addrs /\ h.pkt.lag \in 0..MaxLag
      BY <1>1, <2>2, MessageFields DEF ParseAck, DhcpInv, PlaceInv, Awaited
    <3>2. h.resout.router \in Servers \cup {NIL}
      BY HandleFields DEF DhcpInv, TypeOK, Result
    <3> QED
      BY <2>2, <3>1, <3>2 DEF Collect, Result
  <2> QED
    BY <2>1, <2>2
<1>3. CASE Exit("crash")
  BY <1>3, StopHeld
<1>4. h.renewing /\ h.pkt # Short => out.addr = h.opt.addr
  BY <1>1 DEF HeldInv, Collect
<1>5. h.renewing /\ h.pkt = Short => Incomplete(out)
  <2> SUFFICES ASSUME h.renewing, h.pkt = Short PROVE out.server = NIL
    BY DEF Incomplete
  <2> QED
    BY <1>1, HandleFields DEF HeldInv, DhcpInv, TypeOK, Result
<1> HIDE DEF out
<1>6. /\ g \in Handle /\ g.renewing = h.renewing /\ g.opt = h.opt /\ g.copied = h.copied
      /\ g.resout = out
  BY <1>2 DEF DhcpInv, TypeOK, Handle
<1> HIDE DEF g
<1>7. CASE Fail(g)
  BY <1>1, <1>6, <1>7, FailHeld DEF HeldInv
<1>8. CASE ~Incomplete(out) /\ Go("ip", g)
  <2>1. pc' = "ip" /\ h' = g /\ UNCHANGED <<net, exit>>
    BY <1>8 DEF Go
  <2> QED
    BY <1>1, <1>4, <1>5, <1>6, <1>8, <2>1, GoHeld DEF HeldInv
<1> QED
  BY <1>3, <1>7, <1>8 DEF ParseAck, out, g

\* dhclient_set_result.
LEMMA SetHeld ==
  ASSUME DhcpInv, HeldInv, SetIp \/ SetGwMask
  PROVE  HeldInv'
<1>1. pc \in {"ip", "gw"} /\ UNCHANGED <<file, ifn>>
  BY DEF SetIp, SetGwMask, host
<1>2. CASE Fail(h)
  BY <1>1, <1>2, FailAsIsHeld
<1>3. CASE Go("gw", h) \/ Go("open", h)
  <2>1. pc' \in {"gw", "open"} /\ UNCHANGED <<h, net, exit>>
    BY <1>3 DEF Go
  <2> QED
    BY <1>1, <2>1, GoHeld DEF HeldInv, Setting
<1> QED
  BY <1>2, <1>3 DEF SetIp, SetGwMask

\* The save starts, fails, or is skipped.
LEMMA OpenFileHeld ==
  ASSUME DhcpInv, HeldInv, OpenFile
  PROVE  HeldInv'
<1> USE DhcpAssumption
<1>1. pc = "open" /\ UNCHANGED <<address, ifn, granted>>
  BY DEF OpenFile
<1>2. IfType[ifn] \in Files
  BY DEF DhcpInv, TypeOK, Files
<1>3. /\ h.resout.addr \in Addrs /\ h.resout.server \in Servers
      /\ address[ifn] = h.resout.addr
  BY <1>1, HandleFields DEF DhcpInv, TypeOK, PlaceInv, Setting, Result
<1>4. Copy.addr = h.resout.addr
  BY DEF Copy
<1>5. CASE OpenFails /\ UNCHANGED file
  <2> DEFINE g == [h EXCEPT !.copied = Copy]
  <2>1. Copy \in Copies
    BY <1>3 DEF Copy, Copies
  <2>2. g \in Handle /\ g.renewing = h.renewing /\ g.copied = Copy
    BY <2>1 DEF DhcpInv, TypeOK, Handle
  <2>3. Fail(g)
    BY <1>5 DEF OpenFails
  <2> HIDE DEF g
  <2>4. CASE ~h.renewing
    BY <2>2, <2>3, <2>4, StopHeld DEF Fail
  <2>5. CASE h.renewing
    <3>1. Holds(Copy.addr)
      BY <1>1, <1>4, <2>5 DEF HeldInv, Setting
    <3> QED
      BY <1>1, <1>5, <2>2, <2>3, <3>1, FailHeld
  <2> QED
    BY <2>4, <2>5 DEF DhcpInv, TypeOK, Handle
<1>6. CASE Go("close", h) /\ file' = [file EXCEPT ![IfType[ifn]] = Empty]
  <2>1. pc' = "close" /\ UNCHANGED <<h, net, exit>>
    BY <1>6 DEF Go
  <2>2. ~IsLease(file[IfType[ifn]])'
    BY <1>1, <1>2, <1>6 DEF DhcpInv, TypeOK, IsLease, Empty
  <2> QED
    BY <1>1, <2>1, <2>2, GoHeld DEF HeldInv, Setting
<1>7. CASE h.copied = Copy /\ Exit("ok") /\ UNCHANGED file
  <2>1. Holds(h.resout.addr)
    <3>1. h.copied # NoCopy
      BY <1>3, <1>4, <1>7 DEF NoCopy
    <3> QED
      BY <1>4, <1>7, <3>1 DEF HeldInv
  <2>2. pc' = "idle" /\ h' = NewHandle
    BY <1>7 DEF Exit
  <2>3. SavedIsInUse'
    BY <1>1, <1>3, <1>7, <2>1 DEF Holds, SavedIsInUse
  <2>4. SuccessMeansGranted'
    BY <1>1, <1>3 DEF DhcpInv, GrantInv, SuccessMeansGranted
  <2> QED
    BY <2>2, <2>3, <2>4, NewHandleFields DEF HeldInv
<1> QED
  BY <1>5, <1>6, <1>7 DEF OpenFile

\* The save ends.
LEMMA CloseFileHeld ==
  ASSUME DhcpInv, CloseFile
  PROVE  HeldInv'
<1> USE DhcpAssumption
<1>1. PICK content \in {Empty, Torn, NewLease} :
        file' = [file EXCEPT ![IfType[ifn]] = content]
  BY DEF CloseFile
<1>2. pc = "close" /\ Exit("ok") /\ UNCHANGED <<address, ifn, granted>>
  BY DEF CloseFile
<1>3. pc' = "idle" /\ h' = NewHandle
  BY <1>2 DEF Exit
<1>4. IfType[ifn] \in Files
  BY DEF DhcpInv, TypeOK, Files
<1>5. /\ h.resout.addr \in Addrs /\ h.resout.server \in Servers
      /\ address[ifn] = h.resout.addr
  BY <1>2, HandleFields DEF DhcpInv, TypeOK, PlaceInv, Setting, Result
<1>6. IsLease(content) => content.ifname = ifn /\ content.addr = h.resout.addr
  BY DEF IsLease, Empty, Torn, NewLease
<1>7. file'[IfType[ifn]] = content
  BY <1>1, <1>4 DEF DhcpInv, TypeOK
<1>8. SavedIsInUse'
  BY <1>2, <1>5, <1>6, <1>7 DEF SavedIsInUse
<1>9. SuccessMeansGranted'
  BY <1>2, <1>5 DEF DhcpInv, GrantInv, SuccessMeansGranted
<1> QED
  BY <1>3, <1>8, <1>9, NewHandleFields DEF HeldInv

\* A renewal asks no server for an offer, and for no other address than the
\* lease's.
LEMMA ServersHeld ==
  ASSUME DhcpInv, HeldInv, NEW s \in Servers, Offer(s) \/ Grant(s)
  PROVE  HeldInv'
<1>1. pc # "idle" /\ UNCHANGED <<file, pc, ifn, h, exit>>
  BY DEF Offer, Grant, host
<1>2. h.renewing => \A m \in net' : m.type \in {"request", "ack"} /\ m.addr = h.opt.addr
  <2> SUFFICES ASSUME h.renewing, NEW m \in net'
               PROVE  m.type \in {"request", "ack"} /\ m.addr = h.opt.addr
    OBVIOUS
  <2>1. \A k \in net : k.type \in {"request", "ack"} /\ k.addr = h.opt.addr
    BY DEF HeldInv
  <2>2. CASE Offer(s)
    BY <2>1, <2>2 DEF Offer, DiscoverPack
  <2>3. CASE Grant(s)
    <3>1. PICK a \in Pool[s] :
            /\ [type |-> "request", server |-> s, addr |-> a] \in net
            /\ net' = net \cup {[type |-> "ack", server |-> s, addr |-> a, lag |-> 0]}
      BY <2>3 DEF Grant
    <3>2. a = h.opt.addr
      BY <2>1, <3>1
    <3> QED
      BY <2>1, <3>1, <3>2
  <2> QED
    BY <2>2, <2>3
<1> QED
  BY <1>1, <1>2, GoHeld DEF HeldInv

\* A second passes: a copy of a second ago equals no new lease.
LEMMA TickHeld ==
  ASSUME DhcpInv, HeldInv, Tick
  PROVE  HeldInv'
<1> USE DhcpAssumption
<1> DEFINE Aged(m) == IF m.type = "ack"
                      THEN [m EXCEPT !.lag = IF @ < MaxLag THEN @ + 1 ELSE @] ELSE m
<1>1. /\ file' = [f \in Files |-> Older(file[f])] /\ net' = {Aged(m) : m \in net}
      /\ UNCHANGED <<address, pc, ifn, exit, granted>>
  BY DEF Tick
<1>2. \/ pc = "wait" /\ h' = [h EXCEPT !.left = @ - 1, !.copied = NoCopy]
      \/ pc = "idle" /\ h' = h
  BY DEF Tick
<1>3. /\ h'.renewing = h.renewing /\ h'.opt = h.opt /\ h'.resout = h.resout
      /\ h'.pkt = h.pkt /\ h'.copied \in {h.copied, NoCopy}
  BY <1>2 DEF DhcpInv, TypeOK, Handle
<1>4. h.renewing => \A m \in net' : m.type \in {"request", "ack"} /\ m.addr = h.opt.addr
  <2> SUFFICES ASSUME h.renewing, NEW m \in net
               PROVE  Aged(m).type \in {"request", "ack"} /\ Aged(m).addr = h.opt.addr
    <3> HIDE DEF Aged
    <3> QED
      BY <1>1
  <2>1. m.type \in {"request", "ack"} /\ m.addr = h.opt.addr /\ m \in Messages
    BY DEF HeldInv, DhcpInv, TypeOK
  <2>2. CASE m.type # "ack"
    BY <2>1, <2>2
  <2>3. CASE m.type = "ack"
    <3> DEFINE l == IF m.lag < MaxLag THEN m.lag + 1 ELSE m.lag
    <3>1. m \in [type : {"ack"}, server : Servers, addr : Addrs, lag : 0..MaxLag]
      BY <2>1, <2>3 DEF Messages
    <3>2. Aged(m) = [m EXCEPT !.lag = l]
      BY <2>3
    <3> HIDE DEF l, Aged
    <3> QED
      BY <2>1, <3>1, <3>2
  <2> QED
    BY <2>2, <2>3
<1> HIDE DEF Aged
<1>5. IsLease(file'[IfType[ifn]]) => /\ IsLease(file[IfType[ifn]])
                                     /\ file'[IfType[ifn]].ifname = file[IfType[ifn]].ifname
                                     /\ file'[IfType[ifn]].addr = file[IfType[ifn]].addr
  <2>1. IfType[ifn] \in Files
    BY DEF DhcpInv, TypeOK, Files
  <2> DEFINE c == file[IfType[ifn]]
  <2>2. c \in Other \cup Leases /\ file'[IfType[ifn]] = Older(c)
    BY <1>1, <2>1 DEF DhcpInv, TypeOK
  <2> HIDE DEF c
  <2>3. CASE Older(c) = c
    BY <2>2, <2>3 DEF c
  <2>4. CASE c.kind = "lease" /\ Older(c) = [c EXCEPT !.age = @ + 1]
    <3>1. c \in Leases
      BY <2>2, <2>4 DEF Other
    <3>2. Older(c).ifname = c.ifname /\ Older(c).addr = c.addr
      BY <2>4, <3>1 DEF Leases
    <3> QED
      BY <2>2, <2>4, <3>2 DEF c, IsLease
  <2> QED
    BY <2>3, <2>4 DEF Older
<1>6. \A a : Holds(a) => Holds(a)'
  BY <1>1, <1>5 DEF Holds
<1>7. SavedIsInUse'
  BY <1>1, <1>5 DEF HeldInv, SavedIsInUse
<1>8. SuccessMeansGranted'
  BY <1>1 DEF HeldInv, SuccessMeansGranted
<1>9. /\ h.renewing => Holds(h.opt.addr)'
      /\ h'.copied # NoCopy => Holds(h.copied.addr)' /\ h'.copied = h.copied
  BY <1>3, <1>6 DEF HeldInv
<1>10. /\ (h.renewing => Holds(h.opt.addr))'
       /\ (h.copied # NoCopy => Holds(h.copied.addr))'
  BY <1>3, <1>9 DEF Holds
<1> QED
  BY <1>1, <1>3, <1>4, <1>7, <1>8, <1>10 DEF HeldInv, Setting

LEMMA NextHeld == DhcpInv /\ HeldInv /\ [Next]_vars => HeldInv'
<1> SUFFICES ASSUME DhcpInv, HeldInv, [Next]_vars PROVE HeldInv'
  OBVIOUS
<1>1. CASE UNCHANGED vars
  BY <1>1 DEF vars, host, HeldInv, Holds, SavedIsInUse, SuccessMeansGranted
<1>2. CASE SelectTimesOut \/ SocketFails
  BY <1>2, FailAsIsHeld DEF SelectTimesOut, SocketFails, host
<1>3. CASE Kill
  BY <1>3, StopHeld DEF Kill
<1>4. CASE Client
  BY <1>2, <1>4, SendHeld, ReceiveHeld, ParseOfferHeld, ParseAckHeld, SetHeld,
     OpenFileHeld, CloseFileHeld DEF Client
<1>5. CASE Faults
  BY <1>2, <1>3, <1>5, OtherPacketHeld, ShortPacketHeld DEF Faults
<1> QED
  BY <1>1, <1>4, <1>5, StartHeld, ServersHeld, TickHeld DEF Next

\* After dhclient_perform has returned MRJE_OK the lease file does not contradict
\* the interface, also when the save was skipped.
THEOREM FileAgrees == Spec => []SavedIsInUse
<1>1. Init => HeldInv
  BY InitHeld
<1>2. HeldInv => SavedIsInUse
  BY DEF HeldInv
<1> QED
  BY <1>1, <1>2, Invariant, NextHeld, PTL DEF Spec

\* When main reports success the interface has an address that a server has
\* acknowledged: never the 0.0.0.0 of a packet too short to be checked.
THEOREM SuccessIsReal == Spec => []SuccessMeansGranted
<1>1. Init => HeldInv
  BY InitHeld
<1>2. HeldInv => SuccessMeansGranted
  BY DEF HeldInv
<1> QED
  BY <1>1, <1>2, Invariant, NextHeld, PTL DEF Spec

=============================================================================
