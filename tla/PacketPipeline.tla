--------------------------- MODULE PacketPipeline ---------------------------
(***************************************************************************)
(* example_complete_pipeline of examples/dpdk_common_modifications.h and   *)
(* the building blocks it calls: header extraction, classification,        *)
(* metering with a quota and statistics, from burst to burst.              *)
(*                                                                         *)
(* A packet that is dropped is freed and stays in bufs, which is           *)
(* transmitted as a whole.  Without debug checks a mempool takes a buffer  *)
(* that is freed twice and hands it out twice, so places that hold buffers *)
(* count how often they hold each.  Two locals are never initialised: the  *)
(* meter, and the header pointers, which also outlive the packet they were *)
(* set for.  The mempool and the NIC are outside the repository.           *)
(***************************************************************************)
EXTENDS Integers, Sequences, FiniteSets

CONSTANTS
  Mbufs,
  Frames,         \* the frames that arrive, see Frame
  BurstSize,      \* 64
  MaxFrames,      \* bound on the frames that arrive
  Quota,          \* 1000000
  ByteSpace,      \* 2^64
  WordSpace,      \* 2^32
  StackValues     \* what meter.bytes may hold at the start

EtherIPv4 == 2048         \* RTE_ETHER_TYPE_IPV4
EtherIPv6 == 34525        \* RTE_ETHER_TYPE_IPV6
Tcp == 6
Udp == 17

\* A frame: the fields the code reads, at the places it reads them; ports
\* and lengths as ntohs gives them, the type as sent; and how many bytes of
\* payload and of Ethernet padding the sender meant.
Frame == [type : Nat, len : Nat, ihl : Nat, proto : Nat, off : Nat,
          dgram : Nat, ports : SUBSET Nat, data : Nat, pad : Nat]

ASSUME FrameAssumption ==
  /\ Frames \subseteq Frame /\ Frames # {}
  /\ \A f \in Frames : /\ f.len < WordSpace
                       /\ f.type < 65536 /\ f.dgram < 65536
                       /\ f.ihl < 16 /\ f.off < 16
ASSUME SizeAssumption ==
  /\ BurstSize \in Nat \ {0} /\ MaxFrames \in Nat /\ Quota \in Nat
  /\ {ByteSpace, WordSpace} \subseteq Nat \ {0}
  /\ StackValues \subseteq 0..(ByteSpace - 1)

VARIABLES
  bigEndian,      \* the host's byte order
  pool,           \* buffer -> how often the mempool holds it
  nicRx, nicTx,   \* buffers waiting for rx_burst; how often each is being sent
  frame,          \* buffer -> the frame in it
  bufs, next,     \* bufs[0..nb-1], and the packet looked at next
  tcp, udp,       \* hdrs.tcp, hdrs.udp: "null", "wild" or set for some packet
  bytes,          \* meter.bytes
  stats,          \* the counters of PortStats the pipeline uses
  seen,           \* the packet processed last and what was found out about it
  received,       \* packets rx_burst returned
  drops,          \* buffer -> how often it was freed in the loop
  unsent          \* packets the NIC did not take

nic == <<pool, nicRx, nicTx, frame>>
locals == <<bufs, next, tcp, udp, bytes, stats>>
history == <<seen, received, drops, unsent>>
vars == <<bigEndian, nic, locals, history>>

None == [ok |-> FALSE, in |-> <<>>, payload |-> 0, class |-> "none"]

Init ==
  /\ bigEndian \in BOOLEAN
  /\ pool = [m \in Mbufs |-> 1]
  /\ nicRx = <<>> /\ nicTx = [m \in Mbufs |-> 0]
  /\ frame \in [Mbufs -> {CHOOSE f \in Frames : TRUE}]
  /\ bufs = <<>> /\ next = 1
  /\ tcp \in {"null", "wild"} /\ udp \in {"null", "wild"}
  /\ bytes \in StackValues
  /\ stats = [tx |-> 0, errors |-> 0, dropped |-> 0]
  /\ seen = None
  /\ received = 0 /\ drops = [m \in Mbufs |-> 0] /\ unsent = 0

Plus(f, m, n) == [f EXCEPT ![m] = f[m] + n]

\* How often m is in s.
Times(m, s) == Cardinality({i \in DOMAIN s : s[i] = m})

-----------------------------------------------------------------------------
(* extract_packet_headers and classify_packet *)

\* A 16-bit field in network order, read as the host's integer.
HostOrder(x) == IF bigEndian THEN x ELSE (x % 256) * 256 + x \div 256

IsIPv4(f) == HostOrder(f.type) = EtherIPv4
IsIPv6(f) == HostOrder(f.type) = EtherIPv6

Extracted(f) ==
  \/ IsIPv4(f) /\ f.len >= 14 + 20
  \/ IsIPv6(f) /\ f.len >= 14 + 40

L4Offset(f) == 14 + IF IsIPv4(f) THEN f.ihl * 4 ELSE 40

\* Whether a header of n bytes after the network header is in the frame;
\* what is read beyond is whatever the buffer held before.
Holds(f, n) == L4Offset(f) + n <= f.len

\* Mutant of Payloads: the TCP header is taken to have no options.
PayloadsFixed(f) ==
  IF f.proto = Udp THEN {(f.dgram - 8) % WordSpace}
  ELSE IF f.proto = Tcp THEN {(f.len - L4Offset(f) - 20) % WordSpace}
  ELSE {(f.len - L4Offset(f)) % WordSpace}

TcpPayloads(f) ==
  {(f.len - L4Offset(f) - 4 * off) % WordSpace :
     off \in IF Holds(f, 13) THEN {f.off} ELSE 0..15}

\* uint16_t
Short == 0..65535

UdpPayloads(f) ==
  {(dgram - 8) % WordSpace : dgram \in IF Holds(f, 6) THEN {f.dgram} ELSE Short}

\* payload_size, an unsigned difference.
Payloads(f) ==
  IF f.proto = Tcp THEN TcpPayloads(f)
  ELSE IF f.proto = Udp THEN UdpPayloads(f)
  ELSE {(f.len - L4Offset(f)) % WordSpace}

Classes == {"http", "https", "dns", "ssh", "other"}

\* The well-known ports, in the order they are tried.
ClassOf(ports) ==
  CASE 80 \in ports -> "http" [] 443 \in ports -> "https"
    [] 53 \in ports -> "dns"  [] 22 \in ports -> "ssh" [] OTHER -> "other"

\* The ports of the TCP header are used if hdrs.tcp is set, else those of the
\* UDP header; a pointer this packet did not set leads to any ports.
Classified(f, t, u) ==
  IF t = "null" /\ u = "null" THEN {"other"}
  ELSE IF f.proto = (IF t # "null" THEN Tcp ELSE Udp) /\ Holds(f, 4)
       THEN {ClassOf(f.ports)} ELSE Classes

-----------------------------------------------------------------------------
(* The loop *)

\* rte_eth_rx_burst
Receive ==
  /\ bufs = <<>> /\ nicRx # <<>>
  /\ \E n \in 1..BurstSize :
       /\ n <= Len(nicRx)
       /\ bufs' = SubSeq(nicRx, 1, n)
       /\ nicRx' = SubSeq(nicRx, n + 1, Len(nicRx))
       /\ received' = received + n
  /\ next' = 1
  /\ UNCHANGED <<bigEndian, pool, nicTx, frame, tcp, udp, bytes, stats,
                 seen, drops, unsent>>

AtPacket == next <= Len(bufs)

\* update_meter
Metered(f) == (bytes + f.len) % ByteSpace

\* check_quota
OverQuota(total) == total > Quota

\* update_stats, called for one packet and with is_rx = 0.
CountTx == stats' = [stats EXCEPT !.tx = @ + 1]

\* The packet is freed, counted, and left in bufs.
Drop(m, counter) ==
  /\ pool' = Plus(pool, m, 1)
  /\ drops' = Plus(drops, m, 1)
  /\ stats' = [stats EXCEPT ![counter] = @ + 1]

\* Headers that cannot be extracted.
Reject ==
  LET m == bufs[next]
  IN  /\ AtPacket /\ ~Extracted(frame[m])
      /\ Drop(m, "errors")
      /\ seen' = [None EXCEPT !.in = <<frame[m]>>]
      /\ next' = next + 1
      /\ UNCHANGED <<bigEndian, nicRx, nicTx, frame, bufs, tcp, udp,
                     bytes, received, unsent>>

\* Mutant of Finish: a packet over quota is not counted as dropped.
FinishUncounted(m, total) ==
  IF OverQuota(total)
  THEN /\ pool' = Plus(pool, m, 1) /\ drops' = Plus(drops, m, 1)
       /\ UNCHANGED stats
  ELSE CountTx /\ UNCHANGED <<pool, drops>>

\* Within quota the packet is counted as sent already; the swap of its
\* addresses is left out.
Finish(m, total) ==
  IF OverQuota(total)
  THEN Drop(m, "dropped")
  ELSE CountTx /\ UNCHANGED <<pool, drops>>

Process ==
  LET m == bufs[next]
      f == frame[m]
      t == IF f.proto = Tcp THEN "set" ELSE tcp
      u == IF f.proto = Udp THEN "set" ELSE udp
      total == Metered(f)
  IN  /\ AtPacket /\ Extracted(f)
      /\ tcp' = t /\ udp' = u
      /\ \E payload \in Payloads(f), class \in Classified(f, t, u) :
           seen' = [ok |-> TRUE, in |-> <<f>>, payload |-> payload, class |-> class]
      /\ bytes' = total
      /\ Finish(m, total)
      /\ next' = next + 1
      /\ UNCHANGED <<bigEndian, nicRx, nicTx, frame, bufs, received, unsent>>

\* Mutant of Transmit: the first packet the NIC did not take is skipped.
TransmitSkips ==
  /\ bufs # <<>> /\ ~AtPacket
  /\ \E n \in 0..Len(bufs) :
       /\ nicTx' = [m \in Mbufs |-> nicTx[m] + Times(m, SubSeq(bufs, 1, n))]
       /\ pool' = [m \in Mbufs |-> pool[m] + Times(m, SubSeq(bufs, n + 2, Len(bufs)))]
       /\ stats' = [stats EXCEPT !.dropped = @ + Len(bufs) - n]
       /\ unsent' = unsent + Len(bufs) - n
  /\ bufs' = <<>> /\ next' = 1 /\ seen' = None
  /\ UNCHANGED <<bigEndian, nicRx, frame, tcp, udp, bytes, received, drops>>

\* rte_eth_tx_burst takes the first n; the rest is freed and counted.
Transmit ==
  /\ bufs # <<>> /\ ~AtPacket
  /\ \E n \in 0..Len(bufs) :
       /\ nicTx' = [m \in Mbufs |-> nicTx[m] + Times(m, SubSeq(bufs, 1, n))]
       /\ pool' = [m \in Mbufs |-> pool[m] + Times(m, SubSeq(bufs, n + 1, Len(bufs)))]
       /\ stats' = [stats EXCEPT !.dropped = @ + Len(bufs) - n]
       /\ unsent' = unsent + Len(bufs) - n
  /\ bufs' = <<>> /\ next' = 1 /\ seen' = None
  /\ UNCHANGED <<bigEndian, nicRx, frame, tcp, udp, bytes, received, drops>>

-----------------------------------------------------------------------------
(* The NIC *)

\* A frame is written into a buffer of the pool.
Arrive ==
  /\ received + Len(nicRx) < MaxFrames
  /\ \E m \in Mbufs, f \in Frames :
       /\ pool[m] > 0
       /\ pool' = Plus(pool, m, -1)
       /\ frame' = [frame EXCEPT ![m] = f]
       /\ nicRx' = Append(nicRx, m)
  /\ UNCHANGED <<bigEndian, nicTx, locals, history>>

Sent ==
  /\ \E m \in Mbufs :
       /\ nicTx[m] > 0
       /\ nicTx' = Plus(nicTx, m, -1)
       /\ pool' = Plus(pool, m, 1)
  /\ UNCHANGED <<bigEndian, nicRx, frame, locals, history>>

Next == Receive \/ Reject \/ Process \/ Transmit \/ Arrive \/ Sent

Spec == Init /\ [][Next]_vars

-----------------------------------------------------------------------------
(* Properties *)

TypeOK ==
  /\ bigEndian \in BOOLEAN
  /\ pool \in [Mbufs -> Nat] /\ nicTx \in [Mbufs -> Nat]
  /\ nicRx \in Seq(Mbufs) /\ bufs \in Seq(Mbufs) /\ next \in 1..(Len(bufs) + 1)
  /\ frame \in [Mbufs -> Frames]
  /\ {tcp, udp} \subseteq {"null", "wild", "set"}
  /\ bytes \in 0..(ByteSpace - 1)
  /\ stats \in [tx : Nat, errors : Nat, dropped : Nat]
  /\ seen.in # <<>> => seen.in[1] \in Frames /\ seen.payload \in 0..(WordSpace - 1)
  /\ received \in Nat /\ drops \in [Mbufs -> Nat] /\ unsent \in Nat

\* How often a buffer is in circulation.
Copies(m) == pool[m] + nicTx[m] + Times(m, nicRx) + Times(m, bufs)

\* Through partial transmissions, buffers that come round again and whatever
\* is dropped no buffer leaks; and one that was never dropped in the loop has
\* one owner: the pool, a queue of the NIC or the burst.
BuffersKept ==
  \A m \in Mbufs :
    /\ Copies(m) >= 1
    /\ drops[m] = 0 => Copies(m) = 1

\* "assert(allocated + free == total_bufs)", for each buffer and between
\* bursts; the packet the loop was to "Drop or rate-limit" is dropped.
AllocatedOrFree == bufs = <<>> => \A m \in Mbufs : Copies(m) = 1

\* "rx_pkts - tx_pkts == dropped" between bursts, errors being drops, too, as
\* long as the NIC took every packet; and no packet escapes the statistics
\* even if it did not.
StatsComplete ==
  bufs = <<>> =>
    LET counted == stats.tx + stats.errors + stats.dropped
    IN  counted >= received /\ (unsent = 0 => counted = received)

\* Frames whose headers and lengths agree.
WellFormed(f) ==
  LET l3 == IF f.type = EtherIPv4 THEN 4 * f.ihl ELSE 40
      l4 == IF f.proto = Tcp THEN 4 * f.off ELSE IF f.proto = Udp THEN 8 ELSE 0
  IN  /\ f.type \in {EtherIPv4, EtherIPv6}
      /\ f.type = EtherIPv4 => f.ihl >= 5
      /\ f.proto = Tcp => f.off >= 5
      /\ f.proto = Udp => f.dgram = 8 + f.data
      /\ f.len = 14 + l3 + l4 + f.data + f.pad

\* On a host in network byte order the helpers accept a well-formed IP packet,
\* find its payload exactly, but for padding taken for payload unless it is
\* UDP, and classify it by its own ports if it is TCP, or UDP with no TCP
\* packet before.
WellFormedUnderstood ==
  bigEndian =>
    \A k \in DOMAIN seen.in :
      LET f == seen.in[k]
      IN  WellFormed(f) =>
            /\ seen.ok
            /\ seen.payload = f.data + IF f.proto = Udp THEN 0 ELSE f.pad
            /\ f.proto = Tcp \/ (f.proto = Udp /\ tcp = "null")
                 => seen.class = ClassOf(f.ports)
=============================================================================
