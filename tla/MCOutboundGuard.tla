---------------------------- MODULE MCOutboundGuard ----------------------------
(***************************************************************************)
(* The two halves of platform-outbound-guard side by side.  While the      *)
(* address at hand is Quiet, the jobs of a small OutboundGuard run: one    *)
(* name, addresses of each kind (public and special, v4, v6, and v4 inside *)
(* v6), URLs that pass and URLs that each of the checks refuses.  Any      *)
(* other address is judged, and rewritten, with the jobs at rest: every    *)
(* combination of octets at and next to a boundary of a range, the special *)
(* IPv6 ranges, and the IPv4 probes as IPv6.                               *)
(***************************************************************************)
EXTENDS OutboundGuard, AddressForms

CONSTANTS d1

MCAddresses == { <<8, 8, 8, 8>>,                                \* public
                 <<172, 20, 0, 1>>,                             \* private
                 Embed(<<169, 254, 169, 254>>, 65535),          \* link-local, mapped
                 <<9734, 18176, 0, 0, 0, 0, 0, 4369>> }         \* public IPv6

UrlTo(h) == [https |-> TRUE, host |-> h, userinfo |-> FALSE, port |-> TRUE]

MCUrls == {UrlTo(h) : h \in {d1, NoHost} \cup MCAddresses}
            \cup {[UrlTo(d1) EXCEPT !.https = FALSE],
                  [UrlTo(d1) EXCEPT !.userinfo = TRUE],
                  [UrlTo(d1) EXCEPT !.port = FALSE]}

First == {0, 1, 9, 10, 11, 99, 100, 101, 126, 127, 128, 168, 169, 170, 171, 172, 173,
          191, 192, 193, 197, 198, 199, 202, 203, 204, 223, 224, 255}
Second == {0, 1, 15, 16, 17, 18, 19, 20, 31, 32, 50, 51, 52, 63, 64, 87, 88, 127, 128,
           167, 168, 253, 254, 255}
Third == {0, 1, 2, 3, 99, 100, 113, 255}

Probes4 == {<<a, b, c, 0>> : a \in First, b \in Second, c \in Third}

Probes6 == {Loopback6, Unspecified6}
             \cup {<<s, t, 0, 0, 0, 0, 0, 1>> :
                     s \in {8191, 8192, 8193, 8194, 16383, 16384, 64511, 64512, 65023,
                            65024, 65151, 65152, 65215, 65216, 65279, 65280, 65535},
                     t \in {0, 3511, 3512, 3513}}

MCProbes == Probes4 \cup Probes6

Quiet == Loopback6

EitherInit == Init /\ AddressInit

EitherNext ==
    \/ address = Quiet /\ Next /\ UNCHANGED address
    \/ AddressNext /\ UNCHANGED vars

SideBySide ==
    /\ EitherInit
    /\ [][EitherNext]_<<vars, address>>
    /\ \A j \in Jobs : WF_vars(Drive(j))
================================================================================
