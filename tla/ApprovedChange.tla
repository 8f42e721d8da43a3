-------------------------- MODULE ApprovedChange ---------------------------
(***************************************************************************)
(* What a durable workflow promises to the person who approves a change,   *)
(* without checkpoints, crashes or git: a change is offered once, decided  *)
(* once, written at most once and only after it was approved, and reported *)
(* complete only when it was written.                                      *)
(***************************************************************************)
CONSTANTS Changes, Contents, None

VARIABLES offer,    \* the content put before the human, or None
          verdict,  \* "open", "approved" or "refused"
          written,  \* how often the change has been written
          outcome   \* "none", "completed" or "failed"

vars == <<offer, verdict, written, outcome>>

Init == /\ offer = [c \in Changes |-> None]
        /\ verdict = [c \in Changes |-> "open"]
        /\ written = [c \in Changes |-> 0]
        /\ outcome = [c \in Changes |-> "none"]

Offer(c) == /\ offer[c] = None /\ outcome[c] = "none"
            /\ \E x \in Contents : offer' = [offer EXCEPT ![c] = x]
            /\ UNCHANGED <<verdict, written, outcome>>

Decide(c) == /\ offer[c] # None /\ verdict[c] = "open" /\ outcome[c] = "none"
             /\ \E d \in {"approved", "refused"} :
                  verdict' = [verdict EXCEPT ![c] = d]
             /\ UNCHANGED <<offer, written, outcome>>

Write(c) == /\ verdict[c] = "approved" /\ written[c] = 0 /\ outcome[c] = "none"
            /\ written' = [written EXCEPT ![c] = 1]
            /\ UNCHANGED <<offer, verdict, outcome>>

Finish(c) == /\ outcome[c] = "none" /\ verdict[c] # "refused"
             /\ \/ written[c] = 1 /\ outcome' = [outcome EXCEPT ![c] = "completed"]
                \/ outcome' = [outcome EXCEPT ![c] = "failed"]
             /\ UNCHANGED <<offer, verdict, written>>

Next == \E c \in Changes : Offer(c) \/ Decide(c) \/ Write(c) \/ Finish(c)

Spec == Init /\ [][Next]_vars
=============================================================================
