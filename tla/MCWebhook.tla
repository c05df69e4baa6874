------------------------------- MODULE MCWebhook -------------------------------
(***************************************************************************)
(* A small instance of Webhook: two senders, two instances of the consumer,*)
(* a window of one second, a stall of one second, and the least retention  *)
(* that suffices.  A delivery may come before its stamp, at 0, and too     *)
(* late.  The body "c.b" begins with what a caller may give as a nonce,    *)
(* and "padded" is c with a blank before it.                               *)
(***************************************************************************)
EXTENDS Webhook, TLC

CONSTANTS s1, s2, w1, w2, u1, u2, b, c, padded, blank

MCStamps == {<<2>>}
MCPieces == {1, 2, u1, u2, b, c, padded, blank, Empty}

\* The same with a stamp half a range before the clock's second value.
MCWideStamps == {<<1>>, <<1 - HalfRange>>}
MCWidePieces == MCPieces \cup {1 - HalfRange}

MCBodies == {<<b>>, <<c, b>>}
MCCallerNonces == {<<c>>, <<padded>>}
MCHeaderTexts == {<<c>>, <<padded>>, <<blank>>}

MCLTrim == [x \in Pieces |->
              IF x = padded THEN c ELSE IF x = blank THEN Empty ELSE x]
MCRTrim == [x \in Pieces |-> IF x = blank THEN Empty ELSE x]

Symmetric == Permutations({s1, s2}) \cup Permutations({w1, w2})
               \cup Permutations({u1, u2})
===============================================================================
