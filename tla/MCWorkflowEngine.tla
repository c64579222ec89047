-------------------------- MODULE MCWorkflowEngine --------------------------
(* Values of the constants of WorkflowEngine for TLC.                      *)
EXTENDS WorkflowEngine, TLC

CONSTANTS r1, r2, m1, m2

MCRunners == {r1, r2}
MCWorkflows == {1, 2}
MCMentions == {m1, m2}

\* The first workflow matches everything, the second one mention only.
MCMatches == {<<1, m1>>, <<1, m2>>, <<2, m1>>}
MCChain == 1 :> <<"create_lead">> @@ 2 :> <<"notify", "push_crm">>
MCShortChain == 1 :> <<"create_lead">> @@ 2 :> <<"notify">>
MCQualifies == {m1}
MCConfigured == {"notify", "create_lead", "archive"}

MCSymmetry == Permutations(MCRunners)

=============================================================================
