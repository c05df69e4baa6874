----------------------------- MODULE DepositLedger -----------------------------
(***************************************************************************)
(* What depositing promises an app and its recipient, with nothing said of *)
(* requests and answers: the feed shows rows the app meant to post, each   *)
(* of them once, and what the app believes posted is shown.                *)
(* DepositFeed.tla implements this specification.                          *)
(***************************************************************************)
EXTENDS Naturals

CONSTANT Entries        \* rows, each at its feed key

VARIABLES
    meant,              \* the entries the app set out to post
    shown,              \* how often each entry is in the recipient's feed
    posted              \* the entries the app was told are posted

Init == meant = {} /\ shown = [e \in Entries |-> 0] /\ posted = {}

Mean(E) ==
    /\ meant' = meant \cup E
    /\ UNCHANGED <<shown, posted>>

Show(E) ==
    /\ \A e \in E : e \in meant /\ shown[e] = 0
    /\ shown' = [e \in Entries |-> IF e \in E THEN 1 ELSE shown[e]]
    /\ UNCHANGED <<meant, posted>>

Confirm(E) ==
    /\ \A e \in E : shown[e] = 1
    /\ posted' = posted \cup E
    /\ UNCHANGED <<meant, shown>>

Next == \E E \in SUBSET Entries : Mean(E) \/ Show(E) \/ Confirm(E)

Spec == Init /\ [][Next]_<<meant, shown, posted>>
===============================================================================
