------------------------------ MODULE Resolver ------------------------------
(***************************************************************************)
(* What the UNAPI guest is promised about name resolution: one question at *)
(* a time, an answer that belongs to the question asked last, and no       *)
(* answer at all once the question was withdrawn by a reset.  There are no *)
(* threads and no generations here; UnapiDns implements it.                *)
(***************************************************************************)
CONSTANTS Host, NoHost, Addr, NoAddr, AddressesOf

VARIABLES phase, question, ip

rvars == <<phase, question, ip>>

Phases == {"idle", "pending", "resolved", "failed"}

Init == phase = "idle" /\ question = NoHost /\ ip = NoAddr

\* A question may replace an answered or withdrawn one, never a pending one.
Ask(h) ==
    /\ phase # "pending"
    /\ phase' = "pending" /\ question' = h /\ ip' = NoAddr

\* A literal address is its own answer.
AskLiteral(h) ==
    /\ phase # "pending"
    /\ phase' = "resolved" /\ question' = h /\ ip' \in AddressesOf[h]

Resolve ==
    /\ phase = "pending" /\ phase' = "resolved"
    /\ ip' \in AddressesOf[question]
    /\ UNCHANGED question

Fail ==
    /\ phase = "pending" /\ phase' = "failed" /\ ip' = NoAddr
    /\ UNCHANGED question

Withdraw == phase' = "idle" /\ question' = NoHost /\ ip' = NoAddr

Next ==
    \/ \E h \in Host : Ask(h) \/ AskLiteral(h)
    \/ Resolve \/ Fail \/ Withdraw

Spec == Init /\ [][Next]_rvars
=============================================================================
