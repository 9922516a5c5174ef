-------------------------------- MODULE Notices --------------------------------
(***************************************************************************)
(* What the server promises about telling the outside world of its writes:  *)
(* a request's notice falls due when the request is acknowledged, never     *)
(* before, and at most once; it goes out to its receivers, and is then told *)
(* or, should the background task fail or the server die, lost for good.    *)
(* Nothing survives in a queue.                                             *)
(***************************************************************************)
CONSTANT Requests

VARIABLES
    answer,  \* what each request has been answered
    notice   \* what has become of its notice

vars == <<answer, notice>>

Init ==
    /\ answer = [r \in Requests |-> "none"]
    /\ notice = [r \in Requests |-> "none"]

\* Not every acknowledged request is one to give notice of.
Acknowledge(r) ==
    /\ answer[r] = "none"
    /\ answer' = [answer EXCEPT ![r] = "ok"]
    /\ \E n \in {"none", "due"} : notice' = [notice EXCEPT ![r] = n]

Fail(r) ==
    /\ answer[r] = "none"
    /\ answer' = [answer EXCEPT ![r] = "failed"]
    /\ UNCHANGED notice

\* A receiver is asked, and gives an answer, or the asking itself fails.
Send(r) ==
    /\ notice[r] = "due"
    /\ notice' = [notice EXCEPT ![r] = "out"]
    /\ UNCHANGED answer

Return(r) ==
    /\ notice[r] = "out"
    /\ \E n \in {"due", "lost"} : notice' = [notice EXCEPT ![r] = n]
    /\ UNCHANGED answer

Settle(r) ==
    /\ notice[r] = "due"
    /\ \E n \in {"told", "lost"} : notice' = [notice EXCEPT ![r] = n]
    /\ UNCHANGED answer

\* The server dies: what was due is lost, what was not answered never will be.
Crash ==
    /\ \E S \in SUBSET {r \in Requests : answer[r] = "none"} :
          answer' = [r \in Requests |-> IF r \in S THEN "failed" ELSE answer[r]]
    /\ notice' = [r \in Requests |-> IF notice[r] \in {"due", "out"} THEN "lost" ELSE notice[r]]

Next ==
    \/ \E r \in Requests : Acknowledge(r) \/ Fail(r) \/ Send(r) \/ Return(r) \/ Settle(r)
    \/ Crash

\* A notice is settled in the end, unless a receiver it went out to never answers.
Spec == Init /\ [][Next]_vars /\ \A r \in Requests : SF_vars(Settle(r))
===============================================================================
