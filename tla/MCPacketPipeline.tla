-------------------------- MODULE MCPacketPipeline --------------------------
(* The frames that arrive. *)
EXTENDS PacketPipeline, TLC

Packet(type, len, proto, dgram, ports, data, pad) ==
  [type |-> type, len |-> len, ihl |-> 5, proto |-> proto, off |-> 5,
   dgram |-> dgram, ports |-> ports, data |-> data, pad |-> pad]

\* A padded acknowledgement to a web server; a name query; SSH over IPv6 with
\* TCP options; a fragment that ends before its TCP header; and a frame whose
\* type field, a length of 8, is 0x0800 with its bytes swapped.
Arriving ==
  {Packet(EtherIPv4, 60, Tcp, 0, {80, 5000}, 0, 6),
   Packet(EtherIPv4, 62, Udp, 28, {53, 5000}, 20, 0),
   [Packet(EtherIPv6, 88, Tcp, 0, {22, 5000}, 2, 0) EXCEPT !.off = 8],
   Packet(EtherIPv4, 34, Tcp, 0, {}, 0, 0),
   Packet(8, 60, 0, 0, {}, 0, 0)}

MbufSymmetry == Permutations(Mbufs)
=============================================================================
