-------------------------------- MODULE MCPanel --------------------------------
(***************************************************************************)
(* The panel and what it keeps, on small instances: who administers the      *)
(* install and who grants what, signing in, pairing an agent, a submit that  *)
(* is repeated, the hourly statistics and their counters.  They share no     *)
(* variable, so a behaviour of one with the others at rest shows all there   *)
(* is to see.                                                              *)
(***************************************************************************)
EXTENDS Accounts, Grants, SignIn, Pairing, IdempotentSubmit, Statistics,
        AssetCache, TLC

VARIABLE part   \* which part this behaviour is about

Init ==
    /\ AccountsInit /\ GrantsInit /\ SignInInit /\ PairingInit /\ SubmitInit
    /\ RollupInit /\ CountersInit /\ AssetInit
    /\ part \in {"accounts", "grants", "sign-in", "pairing", "submit", "rollup", "counters", "assets"}
    /\ part # "rollup" => stream = "jobs"

In(p) == part = p /\ UNCHANGED part

OnAccounts == In("accounts") /\ UNCHANGED <<grantVars, signInVars, pairingVars, submitVars, rollupVars, counterVars, assetVars>>
    /\ AccountsNext
OnGrants == In("grants") /\ UNCHANGED <<accountVars, signInVars, pairingVars, submitVars, rollupVars, counterVars, assetVars>>
    /\ GrantsNext
OnSignIn == In("sign-in") /\ UNCHANGED <<accountVars, grantVars, pairingVars, submitVars, rollupVars, counterVars, assetVars>>
    /\ SignInNext
OnPairing == In("pairing") /\ UNCHANGED <<accountVars, grantVars, signInVars, submitVars, rollupVars, counterVars, assetVars>>
    /\ PairingNext
OnSubmit == In("submit") /\ UNCHANGED <<accountVars, grantVars, signInVars, pairingVars, rollupVars, counterVars, assetVars>>
    /\ SubmitNext
OnRollup == In("rollup") /\ UNCHANGED <<accountVars, grantVars, signInVars, pairingVars, submitVars, counterVars, assetVars>>
    /\ RollupNext
OnCounters == In("counters") /\ UNCHANGED <<accountVars, grantVars, signInVars, pairingVars, submitVars, rollupVars, assetVars>>
    /\ CountersNext
OnAssets == In("assets") /\ UNCHANGED <<accountVars, grantVars, signInVars, pairingVars, submitVars, rollupVars, counterVars>>
    /\ AssetNext

allVars == <<accountVars, grantVars, signInVars, pairingVars, submitVars, rollupVars, counterVars, assetVars, part>>

Spec == Init /\ [][\/ OnAccounts \/ OnGrants \/ OnSignIn \/ OnPairing \/ OnSubmit
                   \/ OnRollup \/ OnCounters \/ OnAssets]_allVars

Symmetry == Permutations(Members) \cup Permutations(Permissions)
=============================================================================
