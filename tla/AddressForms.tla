----------------------------- MODULE AddressForms -----------------------------
(***************************************************************************)
(* platform-outbound-guard: ensure_public_ip judging an address that is    *)
(* rewritten from IPv4 into either of the IPv6 forms that embed it, as a   *)
(* resolver or a requester may do.                                         *)
(***************************************************************************)
EXTENDS OutboundAddress

CONSTANT Probes     \* the addresses judged

ASSUME ProbesAssumption == Probes \subseteq Ipv4Addr \cup Ipv6Addr

VARIABLE address    \* the address judged

AddressInit == address \in Probes

\* The same address, written as IPv6.
Rewrite(tag) == Len(address) = 4 /\ address' = Embed(address, tag)

AddressNext == \E tag \in {0, 65535} : Rewrite(tag)

AddressSpec == AddressInit /\ [][AddressNext]_address

\* is_public_ipv4 refuses the documented ranges and nothing else.
Ipv4Judged == Len(address) = 4 => (ensure_public_ip(address) <=> ~Special(address))

\* No special address passes ensure_public_ip, in whatever form it is written.
NoSpecialAdmitted == ensure_public_ip(address) => ~Special(address)

\* Rewriting an IPv4 address as IPv6 does not change the verdict.
EmbeddingNeutral == [][ensure_public_ip(address') <=> ensure_public_ip(address)]_address
===============================================================================
