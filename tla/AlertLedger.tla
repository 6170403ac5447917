------------------------------ MODULE AlertLedger -----------------------------
(***************************************************************************)
(* What drift monitoring promises of its alerts, without saying how: a     *)
(* ledger to which each detector adds an alert only while it has no open   *)
(* one of the same or a higher severity for that application, checked and  *)
(* added at one instant, and on which an alert is never opened again.      *)
(***************************************************************************)
EXTENDS Integers, Sequences

CONSTANTS Apps, Detectors

VARIABLE ledger

Severities == 1..4

Raise(d, a, s) ==
    /\ \A i \in DOMAIN ledger :
          ledger[i].app = a /\ ledger[i].by = d /\ ledger[i].status = "open"
          => ledger[i].sev < s
    /\ ledger' = Append(ledger, [app |-> a, sev |-> s, status |-> "open",
                                 resolved |-> FALSE, by |-> d])

Close(i) ==
    \E st \in {"acknowledged", "resolved"}, r \in BOOLEAN :
        ledger' = [ledger EXCEPT ![i].status = st, ![i].resolved = r]

Init == ledger = << >>

Next ==
    \/ \E d \in Detectors, a \in Apps, s \in Severities : Raise(d, a, s)
    \/ \E i \in DOMAIN ledger : Close(i)

Spec == Init /\ [][Next]_ledger
================================================================================
