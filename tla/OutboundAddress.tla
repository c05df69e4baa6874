---------------------------- MODULE OutboundAddress ----------------------------
(***************************************************************************)
(* platform-outbound-guard: which IP addresses are valid outbound          *)
(* destinations.  An IPv4 address is its four octets, an IPv6 address its  *)
(* eight 16-bit segments; the two kinds differ in their length.  The       *)
(* classification of the code comes first, and then, apart from it, the    *)
(* special ranges that it is meant to keep out.                            *)
(***************************************************************************)
EXTENDS Integers, Sequences

Octet == 0 .. 255
Segment == 0 .. 65535

Ipv4Addr == [1 .. 4 -> Octet]
Ipv6Addr == [1 .. 8 -> Segment]

\* Mutant: the usual private ranges only, 172.16/12 and 100.64/10 as /16s.
is_public_ipv4_Narrow(ip) ==
    ~ \/ ip[1] \in {0, 10, 127} \cup 224 .. 255
      \/ <<ip[1], ip[2]>> \in {<<100, 64>>, <<169, 254>>, <<172, 16>>, <<192, 168>>}

is_public_ipv4(ip) ==
    LET a == ip[1]
        b == ip[2]
        c == ip[3]
    IN  ~ \/ a = 0
          \/ a = 10
          \/ a = 100 /\ b \in 64 .. 127
          \/ a = 127
          \/ a = 169 /\ b = 254
          \/ a = 172 /\ b \in 16 .. 31
          \/ a = 192 /\ b = 0 /\ c = 0
          \/ a = 192 /\ b = 0 /\ c = 2
          \/ a = 192 /\ b = 88 /\ c = 99
          \/ a = 192 /\ b = 168
          \/ a = 198 /\ b \in 18 .. 19
          \/ a = 198 /\ b = 51 /\ c = 100
          \/ a = 203 /\ b = 0 /\ c = 113
          \/ a \in 224 .. 255

\* Ipv6Addr::to_ipv4: the v4-compatible and the v4-mapped forms.
EmbedsIpv4(ip) == (\A i \in 1 .. 5 : ip[i] = 0) /\ ip[6] \in {0, 65535}

to_ipv4(ip) == <<ip[7] \div 256, ip[7] % 256, ip[8] \div 256, ip[8] % 256>>

\* Mutant: an embedded IPv4 address is not looked at.
is_public_ipv6_NoEmbedding(ip) ==
    \/ EmbedsIpv4(ip)
    \/ ip[1] \div 8192 = 1 /\ ~(ip[1] = 8193 /\ ip[2] = 3512)

\* Mutant: everything from 2000:: up is taken for global unicast.
is_public_ipv6_Upward(ip) ==
    IF EmbedsIpv4(ip)
      THEN is_public_ipv4(to_ipv4(ip))
      ELSE ip[1] >= 8192 /\ ~(ip[1] = 8193 /\ ip[2] = 3512)

\* The first three bits of 2000::/3 are 001; 8193 and 3512 are 0x2001, 0x0db8.
is_public_ipv6(ip) ==
    IF EmbedsIpv4(ip)
      THEN is_public_ipv4(to_ipv4(ip))
      ELSE ip[1] \div 8192 = 1 /\ ~(ip[1] = 8193 /\ ip[2] = 3512)

ensure_public_ip(ip) ==
    IF Len(ip) = 4 THEN is_public_ipv4(ip) ELSE is_public_ipv6(ip)

-------------------------------------------------------------------------------
\* The ranges, as intervals.  Every IPv4 range is a /24 or wider, so 24 bits
\* tell; Block(a, b, c, size) stands for size /24s from a.b.c.0 on.

Prefix24(a, b, c) == 65536 * a + 256 * b + c
Block(a, b, c, size) == [first |-> Prefix24(a, b, c), size |-> size]
InBlock(n, block) == block.first <= n /\ n < block.first + block.size

Slash8 == 65536
Slash10 == 16384
Slash12 == 4096
Slash15 == 512
Slash16 == 256
Slash24 == 1

SpecialBlocks ==
    { Block(0, 0, 0, Slash8),          \* this network
      Block(10, 0, 0, Slash8),         \* private
      Block(100, 64, 0, Slash10),      \* carrier-grade NAT
      Block(127, 0, 0, Slash8),        \* loopback
      Block(169, 254, 0, Slash16),     \* link-local
      Block(172, 16, 0, Slash12),      \* private
      Block(192, 0, 0, Slash24),       \* IETF protocol assignments
      Block(192, 0, 2, Slash24),       \* TEST-NET-1
      Block(192, 88, 99, Slash24),     \* 6to4 relay anycast
      Block(192, 168, 0, Slash16),     \* private
      Block(198, 18, 0, Slash15),      \* benchmarking
      Block(198, 51, 100, Slash24),    \* TEST-NET-2
      Block(203, 0, 113, Slash24),     \* TEST-NET-3
      Block(224, 0, 0, 32 * Slash8) }  \* multicast, reserved, broadcast

SpecialIpv4(ip) ==
    \E block \in SpecialBlocks : InBlock(Prefix24(ip[1], ip[2], ip[3]), block)

\* An IPv4 address written as IPv6: ::a.b.c.d, or ::ffff:a.b.c.d.
Embed(ip4, tag) ==
    <<0, 0, 0, 0, 0, tag, 256 * ip4[1] + ip4[2], 256 * ip4[3] + ip4[4]>>

Loopback6 == <<0, 0, 0, 0, 0, 0, 0, 1>>
Unspecified6 == <<0, 0, 0, 0, 0, 0, 0, 0>>

SpecialIpv6(ip) ==
    \/ ip = Loopback6
    \/ ip = Unspecified6
    \/ ip[1] \in 64512 .. 65023          \* fc00::/7, unique-local
    \/ ip[1] \in 65152 .. 65215          \* fe80::/10, link-local
    \/ ip[1] \in 65280 .. 65535          \* ff00::/8, multicast
    \/ ip[1] = 8193 /\ ip[2] = 3512      \* 2001:db8::/32, documentation
    \/ EmbedsIpv4(ip) /\ SpecialIpv4(to_ipv4(ip))

Special(ip) == IF Len(ip) = 4 THEN SpecialIpv4(ip) ELSE SpecialIpv6(ip)
================================================================================
