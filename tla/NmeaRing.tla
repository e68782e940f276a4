------------------------------ MODULE NmeaRing ------------------------------
(***************************************************************************)
(* The path of a $GPRMC sentence through tools/gps_ubx_nmea: the receive   *)
(* thread reads the serial line into the ring g_recvBuffer, the parse      *)
(* thread looks for a sentence in the bytes between g_pRecvTail and        *)
(* g_pRecvHead (up to the end of the buffer when the head has wrapped),    *)
(* and keeps the start of an incomplete one in nmeaPacket.                 *)
(*                                                                         *)
(* A byte is <<p, j>>: byte j of sentence p, or of other text (p = 0).     *)
(* The code sees j only.  Bytes 1..HeadLen are "$GPRMC", byte PacketLen    *)
(* stands for the five bytes "*cs\r\n" that end a sentence.                *)
(*                                                                         *)
(* The threads share the ring without a lock.  The parser reads            *)
(* g_pRecvHead once per look, the receiver writes bytes before it moves    *)
(* g_pRecvHead, and the assignment of g_pRecvHead to g_pRecvTail at the    *)
(* end of nmea_parse_packet is never reached (PartIsHeader), so a look is  *)
(* one step.  Nothing stops the receiver from overtaking the tail: the     *)
(* serial line is assumed to bring at most Lag bytes before the parser,    *)
(* which looks ten times a second, has caught up.                          *)
(***************************************************************************)
EXTENDS Integers, Sequences

CONSTANTS
    BufLen,    \* MAX_BUFF_LEN, 2048
    HeadLen,   \* length of "$GPRMC", 6
    PartLen,   \* PART_VALID_BUFF_LEN, 80
    PacketLen, \* bytes of a sentence
    Lag,       \* bound: unread bytes in the ring
    Layouts    \* what the receiver may send: how many bytes, and at which of
               \* them the sentences start, one behind the other

ASSUME RingAssumption ==
    /\ PacketLen \in Nat /\ HeadLen \in 1..(PacketLen - 1)
    /\ PartLen \in Nat /\ PacketLen - 1 <= PartLen
    /\ BufLen \in Nat /\ Lag \in 1..(BufLen - 1)

ASSUME LayoutAssumption ==
    \A y \in Layouts :
        /\ y.len \in Nat /\ y.starts \in Seq(Nat \ {0})
        /\ \A p \in DOMAIN y.starts : y.starts[p] + PacketLen - 1 <= y.len
        /\ \A p, q \in DOMAIN y.starts : p < q => y.starts[p] + PacketLen <= y.starts[q]

VARIABLES
    stream,    \* the bytes the receiver sends
    sent,      \* how many of them were read from the line
    buf,       \* g_recvBuffer
    head,      \* g_pRecvHead - g_recvBuffer, and offset in the receive thread
    tail,      \* g_pRecvTail - g_recvBuffer
    bak,       \* <<pRecvHeadBak, pRecvTailBak>>
    part,      \* nmeaPacket
    out,       \* history: sentences that passed the checksum
    seen       \* history: sentences whose header was in a look as a whole

vars == <<stream, sent, buf, head, tail, bak, part, out, seen>>

Sentence(p) == [j \in 1..PacketLen |-> <<p, j>>]
Other == <<0, 0>>

\* Byte i of a layout belongs to its p-th sentence.
Covers(y, p, i) == i \in y.starts[p]..(y.starts[p] + PacketLen - 1)

Byte(y, i) ==
    IF \E p \in DOMAIN y.starts : Covers(y, p, i)
    THEN LET p == CHOOSE p \in DOMAIN y.starts : Covers(y, p, i)
         IN  Sentence(p)[i - y.starts[p] + 1]
    ELSE Other

Stream(y) == [i \in 1..y.len |-> Byte(y, i)]

Init ==
    /\ \E y \in Layouts : stream = Stream(y)
    /\ sent = 0
    /\ buf = [o \in 0..(BufLen - 1) |-> Other]
    /\ head = 0 /\ tail = 0 /\ bak = <<-1, -1>>
    /\ part = <<>> /\ out = <<>> /\ seen = {}

Unread == (head - tail) % BufLen

(***************************************************************************)
(* nmea_recv_thread: one read of n bytes, never past the end of the buffer.*)
(* select has reported the line, and the read is taken not to fail: its    *)
(* result is not tested, and -1 would move g_pRecvHead back by a byte.     *)
(***************************************************************************)
Wrap(o) == IF o >= BufLen THEN 0 ELSE o

Receive(n) ==
    /\ n <= Len(stream) - sent /\ n <= BufLen - head /\ Unread + n <= Lag
    /\ buf' = [o \in 0..(BufLen - 1) |->
                 IF o \in head..(head + n - 1) THEN stream[sent + o - head + 1] ELSE buf[o]]
    /\ sent' = sent + n
    /\ head' = Wrap(head + n)
    /\ UNCHANGED <<stream, tail, bak, part, out, seen>>

(***************************************************************************)
(* nmea_parse_packet.  The window is the saved part and the unread bytes.  *)
(***************************************************************************)
\* Mutation: the saved part is forgotten.
FreshOnly(new) == new

Joined(new) == part \o new

Fresh ==
    LET end == IF head > tail THEN head ELSE BufLen
    IN  [j \in 1..(end - tail) |-> buf[tail + j - 1]]

IsHeader(w, o) == \A j \in 1..HeadLen : w[o + j - 1][2] = j

Headers(w) == {o \in 1..(Len(w) - HeadLen + 1) : IsHeader(w, o)}

First(S) == CHOOSE o \in S : \A x \in S : o <= x

\* Where the sentence that starts at o ends: the first end mark behind it.
Ends(w, o) == {j \in (o + HeadLen)..Len(w) : w[j][2] = PacketLen}

\* nmea_parse_content: a complete sentence, the start of one, or neither.
\* A window shorter than the header counts as the start of one.
Verdict(w) ==
    IF Len(w) < HeadLen THEN "part"
    ELSE IF Headers(w) = {} THEN "none"
    ELSE IF Ends(w, First(Headers(w))) = {} THEN "part" ELSE "whole"

\* nmea_checksum accepts the sentence as it was sent, and nothing else.
Accepted(bytes) == \E p \in 1..Len(stream) : bytes = Sentence(p)

\* Mutation: the window is kept from its first byte on.
KeptAll(w) == SubSeq(w, 1, IF Len(w) > PartLen THEN PartLen ELSE Len(w))

\* nmea_parse_part_content: keep up to PartLen bytes from the header on.
Kept(w) ==
    IF Headers(w) = {} THEN <<>>
    ELSE LET o == First(Headers(w))
         IN  SubSeq(w, o, IF Len(w) - o + 1 > PartLen THEN o + PartLen - 1 ELSE Len(w))

\* How far the tail moves when there is no header in the window.
Skip == IF Len(Fresh) >= HeadLen THEN HeadLen ELSE Len(Fresh)

\* Mutation: the tail moves to the sentence, not past it.
Before(last) == tail + last - Len(part) - PacketLen

\* g_pRecvTail += offset + validLen - checkOffset
Past(last) == tail + last - Len(part)

\* Mutation: only a move of the head counts as a change.
HeadMoved == bak[1] # head

\* nmea_parse_thread: something is unread and something has changed.
Changed == bak # <<head, tail>>

Parse ==
    /\ head # tail /\ Changed
    /\ bak' = <<head, tail>>
    /\ LET w == Joined(Fresh)
           o == First(Headers(w))
           e == First(Ends(w, o))
       IN  /\ seen' = seen \union {w[h][1] : h \in Headers(w)}
           /\ CASE Verdict(w) = "whole" ->
                     /\ tail' = Wrap(Past(e))
                     /\ out' = IF Accepted(SubSeq(w, o, e)) THEN Append(out, w[o][1]) ELSE out
                     /\ part' = <<>>
                [] Verdict(w) = "part" ->
                     /\ tail' = Wrap(tail + Len(Fresh))
                     /\ part' = Kept(w)
                     /\ out' = out
                [] OTHER ->
                     /\ tail' = Wrap(tail + Skip)
                     /\ part' = <<>>
                     /\ out' = out
    /\ UNCHANGED <<stream, sent, buf, head>>

Next == Parse \/ \E n \in 1..Lag : Receive(n)

Spec == Init /\ [][Next]_vars

\* The parse thread looks every 100 ms.
FairSpec == Spec /\ WF_vars(Parse)

-----------------------------------------------------------------------------
\* Both pointers stay inside the buffer, and the saved part inside its array.
TypeOK ==
    /\ sent \in 0..Len(stream)
    /\ head \in 0..(BufLen - 1) /\ tail \in 0..(BufLen - 1)
    /\ Unread <= Lag
    /\ Len(part) <= PartLen
    /\ seen \subseteq 0..Len(stream)

\* A saved part starts with a header and has no end mark: so a window that
\* holds a part never comes out as "none", and the branches of
\* nmea_parse_packet that would copy or drop such a window are dead.
PartIsHeader ==
    /\ TypeOK
    /\ part # <<>> => Len(part) >= HeadLen /\ IsHeader(part, 1) /\ Ends(part, 1) = {}

\* Sentences come out in the order they were sent, none twice, whatever the
\* reads and the end of the buffer cut apart.
InOrder == \A a, b \in 1..Len(out) : a < b => out[a] < out[b]

\* No sentence whose header was seen whole is lost: when everything was read
\* and parsed, it has come out.  (One whose header was cut by a read may be:
\* nmea_parse_packet drops windows shorter than the header, and skips
\* HeadLen bytes at a time.)
SeenComesOut ==
    sent = Len(stream) /\ head = tail => \A p \in seen : \E a \in 1..Len(out) : out[a] = p

\* The parse thread does not stop with unread bytes: every look moves the
\* tail, so the test against the last look never hides data.
CatchesUp == head # tail ~> head = tail \/ sent < Len(stream)
=============================================================================
