------------------------------- MODULE Outbox -------------------------------
(***************************************************************************)
(* What docs/interceptors.md promises of a unit of work: the database      *)
(* transaction ends once, and messages become visible one or several at a  *)
(* time, only after it committed.  The handler may waive the promise by    *)
(* ending its transaction itself or by hiding a failure.                   *)
(***************************************************************************)
EXTENDS Integers

VARIABLES
  db,     \* "open", "committed", "aborted" or "waived"
  visible \* how many messages others can see

Init == db = "open" /\ visible = 0

Commit == db = "open" /\ db' = "committed" /\ UNCHANGED visible

Abort == db = "open" /\ db' = "aborted" /\ UNCHANGED visible

Waive == db' = "waived" /\ UNCHANGED visible

Emit ==
  /\ db \in {"committed", "waived"}
  /\ visible' \in Nat /\ visible' > visible
  /\ UNCHANGED db

Next == Commit \/ Abort \/ Waive \/ Emit

Spec == Init /\ [][Next]_<<db, visible>>
=============================================================================
