-------------------------------- MODULE Pairing --------------------------------
(***************************************************************************)
(* Pairing one agent: lib/agents/pairing.ts and the calls of                 *)
(* agent-service.ts that issue its codes.  An operator's call reads or       *)
(* writes the agent's row and only then issues a code; a redemption looks   *)
(* its code up and then claims it.  The name, what an agent reports about   *)
(* itself and the jobs an unpair settles (JobLink) are left out.            *)
(***************************************************************************)
EXTENDS Naturals, FiniteSets

CONSTANTS
    Operators,     \* panel calls that create, regenerate or unpair, each used once
    Redemptions,   \* requests that present a code, each used once
    Codes,         \* codes there are to be drawn
    Unpaired

ASSUME UnpairedAssumption == Unpaired \notin Redemptions

VARIABLES
    exists,    \* the Agent row is there
    token,     \* whose redemption set tokenHash, or Unpaired
    code,      \* the PairingCode rows, and which never existed
    lapsed,    \* codes past their expiry
    office,    \* where each operator's call is
    redeeming, \* the code each redemption found good, and where it is
    granted,   \* history: the redemptions each code paid for
    crossedIssue      \* history: a code was redeemed while a call was about to issue one

pairingVars == <<exists, token, code, lapsed, office, redeeming, granted, crossedIssue>>

PairingInit ==
    /\ exists = FALSE /\ token = Unpaired /\ lapsed = {} /\ crossedIssue = FALSE
    /\ code = [k \in Codes |-> "undrawn"] /\ office = [o \in Operators |-> "idle"]
    /\ redeeming = [d \in Redemptions |-> [at |-> "idle", code |-> {}]]
    /\ granted = [k \in Codes |-> {}]

Redeemable == {k \in Codes : code[k] = "open"}
Drop(k)    == IF code[k] = "undrawn" THEN "undrawn" ELSE "gone"

Calls(o, to) == office[o] = "idle" /\ office' = [office EXCEPT ![o] = to]
RestKept == UNCHANGED <<lapsed, redeeming, granted, crossedIssue>>

CreateAgent(o) ==
    /\ ~exists /\ exists' = TRUE /\ Calls(o, "issue") /\ UNCHANGED <<token, code>> /\ RestKept

\* regeneratePairingCode, to its read.
Regenerate(o) ==
    /\ exists /\ token = Unpaired /\ Calls(o, "issue")
    /\ UNCHANGED <<exists, token, code>> /\ RestKept

\* unpairAgent, to its write.
Unpair(o) ==
    /\ exists /\ token' = Unpaired /\ Calls(o, "issue") /\ UNCHANGED <<exists, code>> /\ RestKept

\* deleteAgent: the codes go with the row.
DeleteAgent(o) ==
    /\ exists /\ exists' = FALSE /\ token' = Unpaired /\ Calls(o, "over")
    /\ code' = [k \in Codes |-> Drop(k)] /\ RestKept

\* issuePairingCode: outstanding codes go, one is drawn.
Issue(o) ==
    /\ office[o] = "issue" /\ office' = [office EXCEPT ![o] = "over"]
    /\ IF ~exists THEN UNCHANGED code
       ELSE \E new \in {k \in Codes : code[k] = "undrawn"} :
               code' = [k \in Codes |-> IF k = new THEN "open"
                                        ELSE IF code[k] = "open" THEN "gone" ELSE code[k]]
    /\ UNCHANGED <<exists, token>> /\ RestKept

Lapse(k) ==
    /\ code[k] = "open" /\ lapsed' = lapsed \cup {k}
    /\ UNCHANGED <<exists, token, code, office, redeeming, granted, crossedIssue>>

\* purgeExpiredPairingCodes; a restart ends the redemptions under way.
Purge ==
    /\ code' = [k \in Codes |-> IF code[k] = "open" /\ k \in lapsed THEN "gone" ELSE code[k]]
    /\ redeeming' = [d \in Redemptions |->
          IF redeeming[d].at = "claim" THEN [redeeming[d] EXCEPT !.at = "over"] ELSE redeeming[d]]
    /\ office' = [o \in Operators |-> IF office[o] = "issue" THEN "over" ELSE office[o]]
    /\ UNCHANGED <<exists, token, lapsed, granted, crossedIssue>>

\* redeemPairingCode: the lookup.  Its moment is the one the claim will use.
LookUp(d, k) ==
    /\ redeeming[d].at = "idle" /\ code[k] = "open" /\ k \notin lapsed
    /\ redeeming' = [redeeming EXCEPT ![d] = [at |-> "claim", code |-> {k}]]
    /\ UNCHANGED <<exists, token, code, lapsed, office, granted, crossedIssue>>

\* The mutant: the claim does not ask whether the code was consumed meanwhile.
MistakeClaimable(k) == code[k] \in {"open", "consumed"}

\* The condition of the conditional update: the code is there and unconsumed.
Claimable(k) == code[k] = "open"

Pay(d, k) ==
    /\ code' = [code EXCEPT ![k] = "consumed"] /\ token' = d
    /\ granted' = [granted EXCEPT ![k] = @ \cup {d}]
    /\ crossedIssue' = (crossedIssue \/ \E o \in Operators : office[o] = "issue")

Claim(d) ==
    /\ redeeming[d].at = "claim" /\ redeeming' = [redeeming EXCEPT ![d].at = "over"]
    /\ \E k \in redeeming[d].code :
          IF Claimable(k) THEN Pay(d, k) ELSE UNCHANGED <<code, token, granted, crossedIssue>>
    /\ UNCHANGED <<exists, lapsed, office>>

PairingNext ==
    \/ \E o \in Operators :
          CreateAgent(o) \/ Regenerate(o) \/ Unpair(o) \/ DeleteAgent(o) \/ Issue(o)
    \/ \E k \in Codes : Lapse(k) \/ \E d \in Redemptions : LookUp(d, k)
    \/ Purge \/ \E d \in Redemptions : Claim(d)

PairingSpec == PairingInit /\ [][PairingNext]_pairingVars

(***************************************************************************)
(* Properties                                                               *)
(***************************************************************************)

\* A code pairs one machine, however many present it at once or after it was
\* replaced ("single-use under concurrency", pairing.ts:128); at most one code is
\* open; and an agent that is paired has none open, so nobody takes it over
\* without unpairing it: unless it was redeemed while an operator's call stood
\* between its look at the agent and its new code.
CodeIsSpentOnce ==
    /\ \A k \in Codes : Cardinality(granted[k]) <= 1
    /\ Cardinality(Redeemable) <= 1
    /\ token # Unpaired => /\ exists /\ \E k \in Codes : token \in granted[k]
                           /\ crossedIssue \/ Redeemable = {}
=============================================================================
