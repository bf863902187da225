----------------------------- MODULE PageStore ------------------------------
(***************************************************************************)
(* What the Storage interface (pkg/storage/storage.go) promises the data   *)
(* path: objects addressed by segment and page, of which a Put writes one  *)
(* and a Delete removes those of one segment, and nothing else changes.    *)
(* While a Put runs, and after one failed, the object may be torn.         *)
(***************************************************************************)
EXTENDS FiniteSets

CONSTANTS Proc, Segment, Page

VARIABLES
    object,  \* segment -> page -> absent, torn or whole
    call     \* proc -> the call it is in

Idle == [op |-> "none"]

Init ==
    /\ object = [s \in Segment |-> [i \in Page |-> "absent"]]
    /\ call = [p \in Proc |-> Idle]

Invoke(p) ==
    /\ call[p] = Idle /\ call'[p] # Idle
    /\ \E s \in Segment, i \in Page, op \in {"put", "get", "delete"} :
        call' = [call EXCEPT ![p] = [op |-> op, seg |-> s, page |-> i]]
    /\ UNCHANGED object

Write(p) ==
    /\ call[p].op = "put"
    /\ LET state == object'[call[p].seg][call[p].page]
       IN  /\ state \in {"torn", "whole"}
           /\ object' = [object EXCEPT ![call[p].seg][call[p].page] = state]
    /\ call' \in {call, [call EXCEPT ![p] = Idle]}

Remove(p) ==
    /\ call[p].op = "delete"
    /\ LET left == object'[call[p].seg]
       IN  /\ \A i \in Page : left[i] \in {object[call[p].seg][i], "absent"}
           /\ object' = [object EXCEPT ![call[p].seg] = left]
    /\ call' \in {call, [call EXCEPT ![p] = Idle]}

Respond(p) ==
    /\ call[p] # Idle
    /\ call' = [call EXCEPT ![p] = Idle]
    /\ UNCHANGED object

Next == \E p \in Proc : Invoke(p) \/ Write(p) \/ Remove(p) \/ Respond(p)

Spec == Init /\ [][Next]_<<object, call>>
=============================================================================
