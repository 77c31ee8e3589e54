--------------------------- MODULE ReportService ---------------------------
(***************************************************************************)
(* What send_report and report_status promise to a caller, with nothing    *)
(* said of workers, retries, crashes or clocks.  A report is submitted     *)
(* once, mails may go out for it while it is pending, and it settles once, *)
(* as delivered or as failed.  The states "queued" and "active" of         *)
(* delivery/jobs.py are one state here: a caller may see a report move     *)
(* between them, and may rely only on its being pending.                   *)
(***************************************************************************)
EXTENDS Naturals

CONSTANT Jobs   \* the job ids handed out by jobs.enqueue

VARIABLES
    status,     \* what report_status answers for each id
    mails       \* how many mails the relay has taken for each id

vars == <<status, mails>>

TypeOK ==
    /\ status \in [Jobs -> {"absent", "pending", "delivered", "failed"}]
    /\ mails \in [Jobs -> Nat]

Init ==
    /\ status = [j \in Jobs |-> "absent"]
    /\ mails = [j \in Jobs |-> 0]

Submit(j) ==
    /\ status[j] = "absent"
    /\ status' = [status EXCEPT ![j] = "pending"]
    /\ UNCHANGED mails

\* Delivery is at least once: a retry may send a report that already went out.
Mail(j) ==
    /\ status[j] = "pending"
    /\ mails' = [mails EXCEPT ![j] = @ + 1]
    /\ UNCHANGED status

\* Only a report the relay has taken is reported delivered.
Confirm(j) ==
    /\ status[j] = "pending"
    /\ mails[j] > 0
    /\ status' = [status EXCEPT ![j] = "delivered"]
    /\ UNCHANGED mails

GiveUp(j) ==
    /\ status[j] = "pending"
    /\ status' = [status EXCEPT ![j] = "failed"]
    /\ UNCHANGED mails

Next == \E j \in Jobs : Submit(j) \/ Mail(j) \/ Confirm(j) \/ GiveUp(j)

Spec == Init /\ [][Next]_vars
=============================================================================
