------------------------------ MODULE WebhookInbox ------------------------------
(***************************************************************************)
(* What a webhook consumer promises, with nothing said of keys, clocks,    *)
(* dedup keys or instances: it acts only on readings of strings that were  *)
(* signed, and on each reading at most once.  Deliveries may be lost and   *)
(* may overtake each other.  One string has as many readings as its dots   *)
(* allow, so this is less than acting once on each signed delivery;        *)
(* Webhook.tla implements this specification.                              *)
(***************************************************************************)
EXTENDS Naturals, Sequences

VARIABLES
    signed,             \* the strings some sender has signed
    log                 \* the readings the consumer acted on, in order

\* The string that a reading's timestamp, nonce and body make up.
Text(r) == IF r.scheme = "Canonical" THEN r.ts \o r.nonce \o r.body
                                     ELSE r.ts \o r.body

Init == signed = {} /\ log = <<>>

Sign ==
    /\ signed \subseteq signed'
    /\ UNCHANGED log

Process(r) ==
    /\ Text(r) \in signed
    /\ \A i \in 1..Len(log) : log[i] # r
    /\ log' = Append(log, r)
    /\ UNCHANGED signed

Next == Sign \/ \E i \in DOMAIN log' : Process(log'[i])

Spec == Init /\ [][Next]_<<signed, log>>
================================================================================
