------------------------------ MODULE MCLeadRecord ------------------------------
(* Values of the constants of LeadRecord for TLC: two goroutines of one    *)
(* process, two leads and a cap of one.                                    *)
EXTENDS LeadRecord, TLC

CONSTANTS a1, a2, api, l1, l2

TwoActors == {a1, a2}
OneProcess == {api}
Together == {[a \in TwoActors |-> api]}
TwoLeads == {l1, l2}
NoEmail == {}
NothingWanted == {}

================================================================================
