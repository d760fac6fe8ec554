------------------------------- MODULE TopUps -------------------------------
(* Chip top-up requests and their review by platform administrators: a      *)
(* request is created pending, and one review transaction locks its row,    *)
(* credits the ledger under a key made of the request, and commits.         *)
EXTENDS FiniteSets

CONSTANTS
  TopUpRequests,  \* requests
  Reviewers       \* concurrent review calls

VARIABLES
  topup,        \* request -> "none" or its committed status
  credited,     \* requests whose key topup-request:<id>:approved is in the ledger
  review,       \* reviewer -> the call in progress
  told          \* request -> decisions confirmed to some administrator (history)

topUpVars == <<topup, credited, review, told>>

Decisions == {"approved", "rejected"}
NoReview == [step |-> "idle"]

TopUpInit ==
  /\ topup = [q \in TopUpRequests |-> "none"]
  /\ credited = {}
  /\ review = [v \in Reviewers |-> NoReview]
  /\ told = [q \in TopUpRequests |-> {}]

Calls(v) == {q \in TopUpRequests : review[v].step # "idle" /\ review[v].request = q}
Locks(v, q) == q \in Calls(v) /\ review[v].step \in {"decides", "commits"}
Goes(v, step) == review' = [review EXCEPT ![v].step = step]
Ends(v) == review' = [review EXCEPT ![v] = NoReview]

CreateTopUpRequest(q) ==
  /\ topup[q] = "none"
  /\ topup' = [topup EXCEPT ![q] = "pending"]
  /\ UNCHANGED <<credited, review, told>>

(* A rejection without a note is refused before anything is read.           *)
ReviewTopUpRequest(v, q, decision) ==
  /\ review[v].step = "idle" /\ topup[q] # "none"
  /\ review' = [review EXCEPT ![v] = [step |-> "waits", request |-> q, decision |-> decision]]
  /\ UNCHANGED <<topup, credited, told>>

(* SELECT ... FOR UPDATE, and a mutant without FOR UPDATE.                  *)
RowIsFreeAlways(v, q) == TRUE
RowIsFree(v, q) == \A w \in Reviewers \ {v} : ~Locks(w, q)

(* A decided request: the same decision again is confirmed, another one is  *)
(* refused with 409; neither changes anything.                              *)
LockTopUpRequest(v) ==
  \E q \in Calls(v) :
    /\ review[v].step = "waits" /\ RowIsFree(v, q)
    /\ IF topup[q] = "pending"
       THEN Goes(v, "decides") /\ UNCHANGED told
       ELSE /\ Ends(v)
            /\ told' = [told EXCEPT ![q] = @ \cup ({review[v].decision} \cap {topup[q]})]
    /\ UNCHANGED <<topup, credited>>

(* The credit is written, uncommitted, before the status.                   *)
CreditTopUp(v) ==
  /\ review[v].step = "decides"
  /\ Goes(v, "commits")
  /\ UNCHANGED <<topup, credited, told>>

(* The answer may be lost after the commit: answered says whether it came.  *)
CommitReview(v, answered) ==
  \E q \in Calls(v) :
    LET decision == review[v].decision IN
    /\ review[v].step = "commits"
    /\ topup' = [topup EXCEPT ![q] = decision]
    /\ credited' = IF decision = "approved" THEN credited \cup {q} ELSE credited
    /\ told' = IF answered THEN [told EXCEPT ![q] = @ \cup {decision}] ELSE told
    /\ Ends(v)

(* A lost connection or a failed credit undoes the transaction.             *)
AbandonReview(v) ==
  /\ review[v].step # "idle"
  /\ Ends(v)
  /\ UNCHANGED <<topup, credited, told>>

TopUpNext ==
  \/ \E q \in TopUpRequests : CreateTopUpRequest(q)
  \/ \E v \in Reviewers :
       \/ \E q \in TopUpRequests, decision \in Decisions : ReviewTopUpRequest(v, q, decision)
       \/ LockTopUpRequest(v) \/ CreditTopUp(v) \/ AbandonReview(v)
       \/ \E answered \in BOOLEAN : CommitReview(v, answered)

TopUpSpec == TopUpInit /\ [][TopUpNext]_topUpVars

-----------------------------------------------------------------------------
(* Every variable has its type.                                             *)
TopUpTypeOK ==
  /\ topup \in [TopUpRequests -> {"none", "pending"} \cup Decisions]
  /\ credited \subseteq TopUpRequests
  /\ \A v \in Reviewers : review[v].step \in {"idle", "waits", "decides", "commits"}
  /\ told \in [TopUpRequests -> SUBSET Decisions]

(* Whoever reviews a request, and however often: its chips are credited if  *)
(* and only if it ends approved, and every administrator who was told that  *)
(* a decision stands was told the one that does.                            *)
OneDecision ==
  \A q \in TopUpRequests :
    /\ q \in credited <=> topup[q] = "approved"
    /\ told[q] \subseteq {topup[q]}
=============================================================================
