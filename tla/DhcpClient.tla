----------------------------- MODULE DhcpClient -----------------------------
(***************************************************************************)
(* The DHCP client (tools/network/mrj_dhclient): one process per attempt,  *)
(* run for one interface.  It reads the lease files, renews by REQUEST a   *)
(* lease whose rebinding time has passed or starts with DISCOVER, waits    *)
(* for OFFER and ACK, sets address, gateway and mask one after the other,  *)
(* and writes the lease file.  Any step can fail, the process can be       *)
(* killed between two steps, the network loses, duplicates and delays.     *)
(*                                                                         *)
(* Time is in seconds and relative: a lease has an age, an ACK has a lag   *)
(* (how long ago its server granted the address), a wait has a rest.  No   *)
(* clock bounds the behaviours.  A second is one of those that select      *)
(* counts: the process takes no time between its waits, nor between two    *)
(* selects of a wait (the code sleeps 100 us there after each packet that  *)
(* is not the awaited one, so on a busy net a wait lasts longer).          *)
(* xid is chosen once per process, so the packets of the two exchanges of  *)
(* one process are not told apart, those of earlier processes are.         *)
(***************************************************************************)
EXTENDS Naturals, FiniteSets

CONSTANTS
    Ifs,      \* interfaces
    IfType,   \* "ethx" or "rax" for each: the lease file it uses
    Servers,  \* DHCP servers
    Pool,     \* the addresses each server hands out
    Omits,    \* servers whose ACK has no router option
    Lease,    \* lease time all servers grant
    Timeout,  \* DHCPOPT_TIMEOUT, 10 s in mrj_dhclient()
    NIL

Addrs == UNION {Pool[s] : s \in Servers}
Zero == "0.0.0.0"

ASSUME DhcpAssumption ==
    /\ IfType \in [Ifs -> {"ethx", "rax"}]
    /\ Omits \subseteq Servers
    /\ Lease \in Nat \ {0} /\ Timeout \in Nat \ {0}
    /\ NIL \notin Addrs \cup {Zero} \cup Servers
    /\ Zero \notin Addrs

\* The lease files that matter: the result of reading the rax file decides
\* for every interface, the ethx file counts only for those that use it.
Files == {"rax"} \cup {IfType[i] : i \in Ifs}

\* (lease_time * 3) / 4
Rebinding == (Lease * 3) \div 4

\* Cap on the lag of a packet, beyond what LeaseLag allows.
MaxLag == 3 * Timeout + 1

Opt == [addr : Addrs \cup {Zero, NIL}, server : Servers \cup {NIL}]
Result == [addr : Addrs \cup {Zero, NIL}, server : Servers \cup {NIL},
           router : Servers \cup {NIL}, lag : 0..MaxLag]
Leases == [kind : {"lease"}, ifname : Ifs, addr : Addrs, server : Servers, age : 0..Lease]
Copies == [addr : Addrs \cup {NIL}, server : Servers \cup {NIL}]
Other == [kind : {"empty", "torn", "default"}]
Messages == [type : {"discover"}]
            \cup [type : {"request"}, server : Servers \cup {NIL}, addr : Addrs \cup {Zero}]
            \cup [type : {"offer"}, server : Servers, addr : Addrs]
            \cup [type : {"ack"}, server : Servers, addr : Addrs, lag : 0..MaxLag]

VARIABLES
    file,     \* per file: empty (or missing), torn, default, or a lease
    address,  \* of each interface
    net,      \* packets under way with the xid of the process
    pc,       \* where the process is; "idle": none runs
    ifn,      \* its interface
    h,        \* its SessionHandle, see Handle
    exit,     \* how the last process ended
    granted   \* history: the <<server, address>> pairs ever acknowledged

host == <<file, address>>
vars == <<host, net, pc, ifn, h, exit, granted>>

Empty == [kind |-> "empty"]
Torn == [kind |-> "torn"]
Default == [kind |-> "default"]
Short == [type |-> "short"]
None == [type |-> "none"]
NoCopy == [addr |-> NIL, server |-> NIL]

\* renewing: perform_request is under way; opt: option50_ip and server_ident;
\* resout: what parse_ack has collected; copied: the lease that a failed save
\* has left in g_ethxLeases or g_raxLeases, while its times are those of now;
\* pkt: what recv_pack returned with;
\* checked: check_pack has set dhcp_hdrp and dhcp_optp; left: whole seconds
\* left to wait, a started one counted.
Handle == [renewing : BOOLEAN, sendmsg : {"discover", "request"}, opt : Opt, resout : Result,
           copied : Copies, pkt : {None, Short} \cup Messages, checked : BOOLEAN, left : 0..Timeout]

\* dhclient_init: a zeroed handle.
NewHandle ==
    [renewing |-> FALSE, sendmsg |-> "discover", opt |-> [addr |-> NIL, server |-> NIL],
     resout |-> [addr |-> NIL, server |-> NIL, router |-> NIL, lag |-> 0],
     copied |-> NoCopy, pkt |-> None, checked |-> FALSE, left |-> 0]

Init ==
    /\ file = [f \in Files |-> Empty]
    /\ address = [i \in Ifs |-> NIL]
    /\ net = {}
    /\ pc = "idle" /\ ifn \in Ifs /\ h = NewHandle
    /\ exit = "none"
    /\ granted = {}

-----------------------------------------------------------------------------
\* The process goes on, or it ends: its memory and its socket are gone.
Go(next, handle) ==
    /\ pc' = next /\ h' = handle
    /\ UNCHANGED <<net, exit>>

\* Mutation: every process draws the same xid.
SameXid == net

\* What is left under way that the check of xid lets through: xid is drawn
\* anew by each process (two draws are taken to differ).
Recognised == {}

Exit(how) ==
    /\ pc' = "idle" /\ exit' = how
    /\ h' = NewHandle /\ net' = Recognised

\* Mutation: a failed request is tried again as a request.
RetryRequest(handle) ==
    IF handle.renewing THEN Go("send", handle) ELSE Exit("fail")

\* dhclient_transfer returned an error: perform falls back on discover if it
\* was the request, and otherwise main reports failure.
Fail(handle) ==
    IF handle.renewing
    THEN Go("send", [handle EXCEPT !.renewing = FALSE, !.sendmsg = "discover"])
    ELSE Exit("fail")

-----------------------------------------------------------------------------
\* dhclient_perform up to the first exchange.

\* What dhclient_read_ethxleases or _raxleases can do with a file: its
\* content afterwards and whether MRJE_OK is returned.  A missing or empty
\* file is written with the defaults.  SaveFile tests ferror before the
\* buffered text is flushed by fclose, so only fopen's failure is noticed.
ReadLeases(content) ==
    IF content = Empty
    THEN {<<Default, TRUE>>, <<Empty, TRUE>>, <<Torn, TRUE>>, <<Empty, FALSE>>}
    ELSE {<<content, content # Torn>>}

\* The lease is renewed: same interface, rebind < now < expire.  In the
\* defaults rebind and expire are the same second.
Renewable(content, i) ==
    /\ content.kind = "lease"
    /\ content.ifname = i
    /\ content.age > Rebinding /\ content.age < Lease

\* dhclient_read_leases returns what the second of its reads returned.
Ready(read) == read["rax"][2]

\* A new process: dhclient_init_leases, then the choice between REQUEST and DISCOVER.
Start(i) ==
    /\ pc = "idle"
    /\ ifn' = i
    /\ \E read \in [Files -> UNION {ReadLeases(file[f]) : f \in Files}] :
         /\ \A f \in Files : read[f] \in ReadLeases(file[f])
         /\ file' = [f \in Files |-> read[f][1]]
         /\ IF Ready(read) THEN pc' = "send" /\ exit' = "none" ELSE pc' = "idle" /\ exit' = "fail"
         /\ LET held == file[IfType[i]]
            IN  h' = IF Ready(read) /\ Renewable(held, i)
                     THEN [NewHandle EXCEPT !.renewing = TRUE, !.sendmsg = "request",
                                            !.opt = [addr |-> held.addr, server |-> held.server]]
                     ELSE NewHandle
    /\ UNCHANGED <<address, net, granted>>

-----------------------------------------------------------------------------
\* dhclient_transfer: send, wait, parse.

DiscoverPack == [type |-> "discover"]

\* Options 50 and 54 are those of the lease or of the OFFER.
RequestPack == [type |-> "request", server |-> h.opt.server, addr |-> h.opt.addr]

Packet == IF h.sendmsg = "discover" THEN DiscoverPack ELSE RequestPack

\* What the process can still tell apart: from its last REQUEST on, every
\* OFFER is an OtherPacket.
UnderWay == {m \in net : h.sendmsg = "discover" \/ m.type \in {"request", "ack"}}

Send ==
    /\ pc = "send"
    /\ pc' = "wait"
    /\ net' = UnderWay \cup {Packet}
    /\ h' = [h EXCEPT !.left = Timeout, !.pkt = None]
    /\ UNCHANGED <<host, ifn, exit, granted>>

\* A socket call fails: in dhclient_socketopt, sendto, select or recvfrom.
SocketFails ==
    /\ pc \in {"send", "wait"}
    /\ Fail(h)
    /\ UNCHANGED <<host, ifn, granted>>

\* recvmsg: what check_pack lets through.
Awaited == IF h.sendmsg = "discover" THEN "offer" ELSE "ack"

Receive ==
    /\ pc = "wait" /\ h.left > 0
    /\ \E m \in net :
         /\ m.type = Awaited
         /\ net' = net \ {m}
         /\ h' = [h EXCEPT !.pkt = m, !.checked = TRUE]
    /\ pc' = "parse"
    /\ UNCHANGED <<host, ifn, exit, granted>>

\* After a packet that is not the awaited one: select has left less than
\* left seconds in tv, and the loop ends, with the error of check_pack, when
\* tv_sec is 0.
KeepWaiting(handle) == IF handle.left = 1 THEN Fail(handle) ELSE Go("wait", handle)

\* Any other packet of 60 bytes or more on the raw socket, a NAK included.
OtherPacket ==
    /\ pc = "wait" /\ h.left > 0
    /\ KeepWaiting([h EXCEPT !.checked = TRUE])
    /\ UNCHANGED <<host, ifn, granted>>

\* A packet of less than 60 bytes is not checked: res keeps the MRJE_OK of
\* select, and is returned when this was the last second.
ShortPacket ==
    /\ pc = "wait" /\ h.left = 1
    /\ Go("parse", [h EXCEPT !.pkt = Short])
    /\ UNCHANGED <<host, ifn, granted>>

SelectTimesOut ==
    /\ pc = "wait" /\ h.left = 0
    /\ Fail(h)
    /\ UNCHANGED <<host, ifn, granted>>

\* After a short packet recv_buf is zero where yiaddr and the options are;
\* without an earlier checked packet the pointers into it are null.  The walk
\* over the options then leaves recv_buf for the rest of the handle.  There it
\* takes server_ident_flag for a mask option, see MaskRefused; it ends at the
\* 255 that closes opt_buff, or runs on and is a Kill; what else it may chance
\* upon is left out.
NullPointer == h.pkt = Short /\ ~h.checked

\* dhclient_parse_offer.
ParseOffer ==
    /\ pc = "parse" /\ h.sendmsg = "discover"
    /\ LET asked == IF h.pkt = Short THEN [h.opt EXCEPT !.addr = Zero]
                    ELSE [addr |-> h.pkt.addr, server |-> h.pkt.server]
       IN  IF NullPointer THEN Exit("crash")
           ELSE Go("send", [h EXCEPT !.opt = asked, !.sendmsg = "request"])
    /\ UNCHANGED <<host, ifn, granted>>

\* Mutation: the address asked for is taken for the one acknowledged.
CollectAsked(m) ==
    [addr |-> h.opt.addr, server |-> m.server, lag |-> m.lag,
     router |-> IF m.server \in Omits THEN h.resout.router ELSE m.server]

\* The fields an ACK fills in; a missing option leaves what was there.
Collect(m) ==
    [addr |-> m.addr, server |-> m.server, lag |-> m.lag,
     router |-> IF m.server \in Omits THEN h.resout.router ELSE m.server]

\* parse_ack fails unless every field is there.
Incomplete(out) == NIL \in {out.server, out.router}

\* dhclient_parse_ack: resout is not cleared first.
ParseAck ==
    /\ pc = "parse" /\ h.sendmsg = "request"
    /\ LET out == IF h.pkt = Short THEN [h.resout EXCEPT !.addr = Zero] ELSE Collect(h.pkt)
           handle == [h EXCEPT !.resout = out]
       IN  IF NullPointer THEN Exit("crash")
           ELSE IF Incomplete(out) THEN Fail(handle)
           ELSE Go("ip", handle)
    /\ UNCHANGED <<host, ifn, granted>>

-----------------------------------------------------------------------------
\* dhclient_set_result, dhclient_update_leases.

SetIp ==
    /\ pc = "ip"
    /\ \/ Go("gw", h) /\ address' = [address EXCEPT ![ifn] = h.resout.addr]
       \/ Fail(h) /\ UNCHANGED address
    /\ UNCHANGED <<file, ifn, granted>>

\* Mutation: set_if_mask returns 0 whatever the ioctl says.
MaskTaken == FALSE

\* SIOCSIFNETMASK certainly fails after the ACK was a short packet.  The mask
\* is then 0.0.x.y, made of the padding behind server_ident_flag and of half
\* the server's address, which is no mask; and with 0.0.0.0 the interface has
\* lost its address.
MaskRefused == h.resout.addr = Zero

\* set_if_gw, then set_if_mask: either can fail with the address already set.
SetGwMask ==
    /\ pc = "gw"
    /\ (~MaskRefused /\ Go("open", h)) \/ Fail(h)
    /\ UNCHANGED <<host, ifn, granted>>

\* Mutation: the result of the save is not looked at.
OpenFailsOk == Exit("ok")

\* The lease as dhclient_set_*leases copies it before it saves it.
Copy == [addr |-> h.resout.addr, server |-> h.resout.server]

\* fopen failed in SaveFile: MRJE_ERR out of dhclient_set_*leases.
OpenFails == Fail([h EXCEPT !.copied = Copy])

\* SaveFile opens the file with "w": it is empty from here to fclose.  A lease
\* that equals the copy to the second is not saved (a router that differs
\* makes it another lease).  What Start has loaded never equals it: the
\* broadcast address is the default's there and empty in a new lease.
OpenFile ==
    /\ pc = "open"
    /\ \/ Go("close", h) /\ file' = [file EXCEPT ![IfType[ifn]] = Empty]
       \/ OpenFails /\ UNCHANGED file
       \/ h.copied = Copy /\ Exit("ok") /\ UNCHANGED file
    /\ UNCHANGED <<address, ifn, granted>>

NewLease == [kind |-> "lease", ifname |-> ifn, addr |-> h.resout.addr,
             server |-> h.resout.server, age |-> 0]

\* fclose flushes the text; its failure goes unnoticed.
CloseFile ==
    /\ pc = "close"
    /\ \E content \in {Empty, Torn, NewLease} : file' = [file EXCEPT ![IfType[ifn]] = content]
    /\ Exit("ok")
    /\ UNCHANGED <<address, ifn, granted>>

Kill ==
    /\ pc # "idle"
    /\ Exit("crash")
    /\ UNCHANGED <<host, ifn, granted>>

-----------------------------------------------------------------------------
\* The servers, the network and the clock.  A packet is lost when it is not
\* received in time.

\* A server answers; the packet it answers may be answered again.
Offer(s) ==
    /\ pc # "idle" /\ DiscoverPack \in net
    /\ \E a \in Pool[s] : net' = net \cup {[type |-> "offer", server |-> s, addr |-> a]}
    /\ UNCHANGED <<host, pc, ifn, h, exit, granted>>

Grant(s) ==
    /\ pc # "idle"
    /\ \E a \in Pool[s] :
         /\ [type |-> "request", server |-> s, addr |-> a] \in net
         /\ net' = net \cup {[type |-> "ack", server |-> s, addr |-> a, lag |-> 0]}
         /\ granted' = granted \cup {<<s, a>>}
    /\ UNCHANGED <<host, pc, ifn, h, exit>>

Older(content) ==
    IF content.kind # "lease" \/ content.age = Lease THEN content
    ELSE [content EXCEPT !.age = @ + 1]

\* One second passes: while the process waits, or between processes.
Tick ==
    /\ \/ pc = "wait" /\ h.left > 0 /\ h' = [h EXCEPT !.left = @ - 1, !.copied = NoCopy]
       \/ pc = "idle" /\ UNCHANGED h
    /\ file' = [f \in Files |-> Older(file[f])]
    /\ net' = {IF m.type = "ack" THEN [m EXCEPT !.lag = IF @ < MaxLag THEN @ + 1 ELSE @] ELSE m : m \in net}
    /\ UNCHANGED <<address, pc, ifn, exit, granted>>

-----------------------------------------------------------------------------
Client ==
    \/ Send \/ Receive \/ SelectTimesOut \/ ParseOffer \/ ParseAck
    \/ SetIp \/ SetGwMask \/ OpenFile \/ CloseFile

Faults == SocketFails \/ OtherPacket \/ ShortPacket \/ Kill

Next ==
    \/ \E i \in Ifs : Start(i)
    \/ Client
    \/ Faults
    \/ \E s \in Servers : Offer(s) \/ Grant(s)
    \/ Tick

Spec == Init /\ [][Next]_vars

\* The process runs and time passes.  Nothing is assumed of the network, of
\* the servers, or of anyone starting a process.
FairSpec == Spec /\ WF_vars(Client) /\ WF_vars(Tick)

-----------------------------------------------------------------------------
\* The types: in particular a lease that names no server, or 0.0.0.0, never
\* gets into a lease file (dhclient_parse_ack and set_if_mask refuse it).
TypeOK ==
    /\ file \in [Files -> Other \cup Leases]
    /\ address \in [Ifs -> Addrs \cup {Zero, NIL}]
    /\ net \subseteq Messages
    /\ pc \in {"idle", "send", "wait", "parse", "ip", "gw", "open", "close"}
    /\ ifn \in Ifs /\ h \in Handle
    /\ exit \in {"none", "ok", "fail", "crash"}
    /\ granted \in SUBSET (Servers \X Addrs)

IsLease(content) == content.kind = "lease"

\* A lease in a file names the server that acknowledged its address, and an
\* address on an interface was acknowledged by some server, however late,
\* doubled or overtaken the ACKs of the two exchanges of a process are.
AddressGranted ==
    /\ \A i \in Ifs : address[i] \in Addrs => \E s \in Servers : <<s, address[i]>> \in granted
    /\ \A f \in Files : IsLease(file[f]) => <<file[f].server, file[f].addr>> \in granted

\* expire is counted from the moment the ACK is read.  The ACK can be that of
\* an earlier request of the process, but it is never older than the three
\* waits of a process, in seconds that select counts: by so much at most a
\* lease outlives the server's.
LeaseLag == pc \in {"ip", "gw", "open", "close"} => h.resout.lag <= 3 * Timeout

\* When dhclient_perform has returned MRJE_OK the lease file does not hold
\* another address than the interface: it is this lease, an older one of the
\* same address when the save was skipped, or nothing that can be read.  The
\* next process so renews what is in use or starts anew.
SavedIsInUse ==
    exit = "ok" => LET content == file[IfType[ifn]]
                   IN  IsLease(content) => content.ifname = ifn /\ content.addr = address[ifn]

\* A process ends, whatever arrives on the raw socket.
PerformEnds == pc # "idle" ~> pc = "idle"

\* main prints "dhcp get ip address success." and returns 0 only with an
\* address on the interface that a server has acknowledged, though a packet
\* too short to be checked can end the wait of the fallback and be parsed
\* into what the ACK of a failed renewal has left in resout.
SuccessMeansGranted ==
    exit = "ok" => \E s \in Servers : <<s, address[ifn]>> \in granted

=============================================================================
