------------------------- MODULE OutboundAddressProofs -------------------------
(***************************************************************************)
(* The address classification against the ranges of its documentation, for *)
(* every address.                                                          *)
(***************************************************************************)
EXTENDS AddressForms, TLAPS

\* is_public_ipv4 refuses exactly the documented ranges: no boundary of its
\* octet patterns is off by one.
THEOREM Ipv4Exact == \A ip \in Ipv4Addr : is_public_ipv4(ip) <=> ~SpecialIpv4(ip)
<1>1. SUFFICES ASSUME NEW ip \in Ipv4Addr
               PROVE  is_public_ipv4(ip) <=> ~SpecialIpv4(ip)
  OBVIOUS
<1>2. PICK a \in Octet, b \in Octet, c \in Octet : a = ip[1] /\ b = ip[2] /\ c = ip[3]
  BY DEF Ipv4Addr
<1> DEFINE n == 65536 * a + 256 * b + c
<1>3. SpecialIpv4(ip) <=> \E block \in SpecialBlocks : InBlock(n, block)
  BY <1>2 DEF SpecialIpv4, Prefix24
<1>0. /\ a \in Int /\ 0 <= a /\ a <= 255
      /\ b \in Int /\ 0 <= b /\ b <= 255
      /\ c \in Int /\ 0 <= c /\ c <= 255
  BY DEF Octet
<1>4. (\E block \in SpecialBlocks : InBlock(n, block)) <=>
        \/ InBlock(n, Block(0, 0, 0, Slash8))
        \/ InBlock(n, Block(10, 0, 0, Slash8))
        \/ InBlock(n, Block(100, 64, 0, Slash10))
        \/ InBlock(n, Block(127, 0, 0, Slash8))
        \/ InBlock(n, Block(169, 254, 0, Slash16))
        \/ InBlock(n, Block(172, 16, 0, Slash12))
        \/ InBlock(n, Block(192, 0, 0, Slash24))
        \/ InBlock(n, Block(192, 0, 2, Slash24))
        \/ InBlock(n, Block(192, 88, 99, Slash24))
        \/ InBlock(n, Block(192, 168, 0, Slash16))
        \/ InBlock(n, Block(198, 18, 0, Slash15))
        \/ InBlock(n, Block(198, 51, 100, Slash24))
        \/ InBlock(n, Block(203, 0, 113, Slash24))
        \/ InBlock(n, Block(224, 0, 0, 32 * Slash8))
  BY DEF SpecialBlocks
<1>5. InBlock(n, Block(0, 0, 0, Slash8)) <=> a = 0
  BY <1>0 DEF InBlock, Block, Prefix24, Slash8
<1>6. InBlock(n, Block(10, 0, 0, Slash8)) <=> a = 10
  BY <1>0 DEF InBlock, Block, Prefix24, Slash8
<1>7. InBlock(n, Block(100, 64, 0, Slash10)) <=> a = 100 /\ b \in 64 .. 127
  BY <1>0 DEF InBlock, Block, Prefix24, Slash10
<1>8. InBlock(n, Block(127, 0, 0, Slash8)) <=> a = 127
  BY <1>0 DEF InBlock, Block, Prefix24, Slash8
<1>9. InBlock(n, Block(169, 254, 0, Slash16)) <=> a = 169 /\ b = 254
  BY <1>0 DEF InBlock, Block, Prefix24, Slash16
<1>10. InBlock(n, Block(172, 16, 0, Slash12)) <=> a = 172 /\ b \in 16 .. 31
  BY <1>0 DEF InBlock, Block, Prefix24, Slash12
<1>11. InBlock(n, Block(192, 0, 0, Slash24)) <=> a = 192 /\ b = 0 /\ c = 0
  BY <1>0 DEF InBlock, Block, Prefix24, Slash24
<1>12. InBlock(n, Block(192, 0, 2, Slash24)) <=> a = 192 /\ b = 0 /\ c = 2
  BY <1>0 DEF InBlock, Block, Prefix24, Slash24
<1>13. InBlock(n, Block(192, 88, 99, Slash24)) <=> a = 192 /\ b = 88 /\ c = 99
  BY <1>0 DEF InBlock, Block, Prefix24, Slash24
<1>14. InBlock(n, Block(192, 168, 0, Slash16)) <=> a = 192 /\ b = 168
  BY <1>0 DEF InBlock, Block, Prefix24, Slash16
<1>15. InBlock(n, Block(198, 18, 0, Slash15)) <=> a = 198 /\ b \in 18 .. 19
  BY <1>0 DEF InBlock, Block, Prefix24, Slash15
<1>16. InBlock(n, Block(198, 51, 100, Slash24)) <=> a = 198 /\ b = 51 /\ c = 100
  BY <1>0 DEF InBlock, Block, Prefix24, Slash24
<1>17. InBlock(n, Block(203, 0, 113, Slash24)) <=> a = 203 /\ b = 0 /\ c = 113
  BY <1>0 DEF InBlock, Block, Prefix24, Slash24
<1>18. InBlock(n, Block(224, 0, 0, 32 * Slash8)) <=> a \in 224 .. 255
  BY <1>0 DEF InBlock, Block, Prefix24, Slash8
<1> HIDE DEF n
<1> QED
  BY <1>0, <1>2, <1>3, <1>4, <1>5, <1>6, <1>7, <1>8, <1>9, <1>10, <1>11,
     <1>12, <1>13, <1>14, <1>15, <1>16, <1>17, <1>18
     DEF n, is_public_ipv4

\* A segment made of two octets splits into them.
LEMMA SplitSegment ==
    ASSUME NEW x \in Octet, NEW y \in Octet
    PROVE  (256 * x + y) \div 256 = x /\ (256 * x + y) % 256 = y
BY DEF Octet

\* Writing an IPv4 address as IPv6, in either form, does not change the verdict.
THEOREM EmbeddingTransparent ==
    \A ip \in Ipv4Addr : \A tag \in {0, 65535} :
        is_public_ipv6(Embed(ip, tag)) <=> is_public_ipv4(ip)
<1>1. SUFFICES ASSUME NEW ip \in Ipv4Addr, NEW tag \in {0, 65535}
               PROVE  is_public_ipv6(Embed(ip, tag)) <=> is_public_ipv4(ip)
  OBVIOUS
<1> DEFINE e == Embed(ip, tag)
<1>2. /\ ip[1] \in Octet /\ ip[2] \in Octet /\ ip[3] \in Octet /\ ip[4] \in Octet
  BY DEF Ipv4Addr
<1>3. EmbedsIpv4(e)
  BY DEF Embed, EmbedsIpv4
<1>4. e[7] = 256 * ip[1] + ip[2] /\ e[8] = 256 * ip[3] + ip[4]
  BY DEF Embed
<1>5. e[7] \div 256 = ip[1] /\ e[7] % 256 = ip[2] /\ e[8] \div 256 = ip[3]
  BY <1>2, <1>4, SplitSegment
<1>6. to_ipv4(e)[1] = ip[1] /\ to_ipv4(e)[2] = ip[2] /\ to_ipv4(e)[3] = ip[3]
  BY <1>5 DEF to_ipv4
<1>7. is_public_ipv4(to_ipv4(e)) <=> is_public_ipv4(ip)
  BY <1>6 DEF is_public_ipv4
<1> QED
  BY <1>3, <1>7 DEF is_public_ipv6

\* Four octets make an IPv4 address.
LEMMA Quadruple ==
    ASSUME NEW a \in Octet, NEW b \in Octet, NEW c \in Octet, NEW d \in Octet
    PROVE  <<a, b, c, d>> \in Ipv4Addr
BY DEF Ipv4Addr

\* The address embedded in an IPv6 address is an IPv4 address.
LEMMA EmbeddedType == \A ip \in Ipv6Addr : to_ipv4(ip) \in Ipv4Addr
<1>1. SUFFICES ASSUME NEW ip \in Ipv6Addr PROVE to_ipv4(ip) \in Ipv4Addr
  OBVIOUS
<1>2. ASSUME NEW x \in Segment PROVE x \div 256 \in Octet /\ x % 256 \in Octet
  <2>1. x \in Int /\ 0 <= x /\ x <= 65535
    BY DEF Segment
  <2>2. /\ x \div 256 \in Int /\ 0 <= x \div 256 /\ x \div 256 <= 255
        /\ x % 256 \in Int /\ 0 <= x % 256 /\ x % 256 <= 255
    BY <2>1
  <2> QED
    BY <2>2 DEF Octet
<1>3. ip[7] \in Segment /\ ip[8] \in Segment
  BY DEF Ipv6Addr
<1>4. /\ ip[7] \div 256 \in Octet /\ ip[7] % 256 \in Octet
      /\ ip[8] \div 256 \in Octet /\ ip[8] % 256 \in Octet
  BY <1>2, <1>3
<1>5. to_ipv4(ip) \in Ipv4Addr
  <2>1. PICK a \in Octet, b \in Octet, c \in Octet, d \in Octet :
               /\ a = ip[7] \div 256 /\ b = ip[7] % 256
               /\ c = ip[8] \div 256 /\ d = ip[8] % 256
    BY <1>4
  <2>2. to_ipv4(ip) = <<a, b, c, d>>
    BY <2>1 DEF to_ipv4
  <2> QED
    BY <2>2, Quadruple
<1> QED
  BY <1>5

\* No special IPv6 address is public: loopback and the unspecified address fall
\* to the embedded 0/8, the others are outside 2000::/3 or excepted from it.
THEOREM Ipv6Sound == \A ip \in Ipv6Addr : is_public_ipv6(ip) => ~SpecialIpv6(ip)
<1>1. SUFFICES ASSUME NEW ip \in Ipv6Addr, SpecialIpv6(ip)
               PROVE  ~is_public_ipv6(ip)
  OBVIOUS
<1>2. CASE EmbedsIpv4(ip) /\ ~SpecialIpv4(to_ipv4(ip))
  <2>1. ip[1] = 0
    BY <1>2 DEF EmbedsIpv4
  <2>2. ip = Loopback6 \/ ip = Unspecified6
    BY <1>1, <1>2, <2>1 DEF SpecialIpv6
  <2>3. ip[7] = 0
    BY <2>2 DEF Loopback6, Unspecified6
  <2>4. to_ipv4(ip)[1] = 0
    BY <2>3 DEF to_ipv4
  <2> QED
    BY <1>2, <2>4 DEF is_public_ipv6, is_public_ipv4
<1>3. CASE ~EmbedsIpv4(ip)
  <2>1. ip # Loopback6 /\ ip # Unspecified6
    BY <1>3 DEF EmbedsIpv4, Loopback6, Unspecified6
  <2>2. ip[1] \in Segment
    BY DEF Ipv6Addr
  <2>3. SUFFICES ASSUME ip[1] \div 8192 = 1 PROVE ip[1] = 8193 /\ ip[2] = 3512
    BY <1>3 DEF is_public_ipv6
  <2>4. \A x \in Segment : x \div 8192 = 1 => x \in Int /\ x <= 16383
    BY DEF Segment
  <2>5. ip[1] \in Int /\ ip[1] <= 16383
    BY <2>2, <2>3, <2>4
  <2>6. ip[1] \notin 64512 .. 65023 \cup 65152 .. 65215 \cup 65280 .. 65535
    BY <2>5
  <2> QED
    BY <1>1, <1>3, <2>1, <2>6 DEF SpecialIpv6
<1>4. CASE EmbedsIpv4(ip) /\ SpecialIpv4(to_ipv4(ip))
  BY <1>4, EmbeddedType, Ipv4Exact DEF is_public_ipv6
<1> QED
  BY <1>2, <1>3, <1>4

\* ensure_public_ip lets no special address through.
THEOREM CheckSound ==
    \A ip \in Ipv4Addr \cup Ipv6Addr : ensure_public_ip(ip) => ~Special(ip)
<1>1. \A ip \in Ipv4Addr : Len(ip) = 4
  BY DEF Ipv4Addr
<1>2. \A ip \in Ipv6Addr : Len(ip) = 8
  BY DEF Ipv6Addr
<1> QED
  BY <1>1, <1>2, Ipv4Exact, Ipv6Sound DEF ensure_public_ip, Special

\* An address is told from the other kind by its length.
LEMMA Lengths ==
    /\ \A ip \in Ipv4Addr : Len(ip) = 4
    /\ \A ip \in Ipv6Addr : Len(ip) = 8
BY DEF Ipv4Addr, Ipv6Addr

LEMMA UpTo == \A n, z \in Int : 0 <= z /\ z <= n => z \in 0 .. n
OBVIOUS

\* Two octets make a segment.
LEMMA TwoOctets == \A x, y \in Octet : 256 * x + y \in Segment
<1>1. SUFFICES ASSUME NEW x \in Octet, NEW y \in Octet PROVE 256 * x + y \in Segment
  OBVIOUS
<1> DEFINE last == 65535
<1>2. last \in Int /\ 256 * x + y \in Int /\ 0 <= 256 * x + y /\ 256 * x + y <= last
  BY DEF Octet
<1>3. Segment = 0 .. last
  BY DEF Segment
<1> HIDE DEF last
<1> QED
  BY <1>2, <1>3, UpTo

\* An IPv4 address written as IPv6 is an IPv6 address.
LEMMA EmbedType ==
    ASSUME NEW ip \in Ipv4Addr, NEW tag \in {0, 65535}
    PROVE  Embed(ip, tag) \in Ipv6Addr
<1>1. /\ ip[1] \in Octet /\ ip[2] \in Octet /\ ip[3] \in Octet /\ ip[4] \in Octet
  BY DEF Ipv4Addr
<1>2. 256 * ip[1] + ip[2] \in Segment /\ 256 * ip[3] + ip[4] \in Segment
  BY <1>1, TwoOctets
<1>3. 0 \in Segment /\ tag \in Segment
  BY DEF Segment
<1>4. \A t \in Segment, x \in Segment, y \in Segment :
        <<0, 0, 0, 0, 0, t, x, y>> \in [1 .. 8 -> Segment]
  BY <1>3
<1> QED
  BY <1>2, <1>3, <1>4 DEF Embed, Ipv6Addr

AddressType == address \in Ipv4Addr \cup Ipv6Addr

LEMMA RewriteType == AddressType /\ [AddressNext]_address => AddressType'
BY Lengths, EmbedType DEF AddressType, AddressNext, Rewrite

LEMMA AddressTyped == AddressSpec => []AddressType
<1>1. AddressInit => AddressType
  BY ProbesAssumption DEF AddressInit, AddressType
<1> QED
  BY <1>1, RewriteType, PTL DEF AddressSpec

\* The verdict on every IPv4 address, however it came up, is the documented one.
THEOREM Ipv4Verdict == AddressSpec => []Ipv4Judged
<1>1. AddressType => Ipv4Judged
  BY Lengths, Ipv4Exact DEF AddressType, Ipv4Judged, ensure_public_ip, Special
<1> QED
  BY <1>1, AddressTyped, PTL

\* No special address is admitted, before or after it is rewritten.
THEOREM NoSpecialPasses == AddressSpec => []NoSpecialAdmitted
<1>1. AddressType => NoSpecialAdmitted
  BY CheckSound DEF AddressType, NoSpecialAdmitted
<1> QED
  BY <1>1, AddressTyped, PTL

\* Writing an address in another form never changes the verdict on it.
THEOREM FormNeutral == AddressSpec => EmbeddingNeutral
<1>1. AddressType /\ [AddressNext]_address =>
        [ensure_public_ip(address') <=> ensure_public_ip(address)]_address
  <2>1. SUFFICES ASSUME AddressType, NEW tag \in {0, 65535}, Rewrite(tag)
                 PROVE  ensure_public_ip(address') <=> ensure_public_ip(address)
    BY DEF AddressNext
  <2>2. address \in Ipv4Addr /\ Len(address) = 4 /\ address' = Embed(address, tag)
    BY <2>1, Lengths DEF AddressType, Rewrite
  <2>3. Len(address') = 8
    BY <2>2, EmbedType, Lengths
  <2> QED
    BY <2>2, <2>3, EmbeddingTransparent DEF ensure_public_ip
<1> QED
  BY <1>1, AddressTyped, PTL DEF AddressSpec, EmbeddingNeutral
================================================================================
