--------------------------- MODULE PanelProofs ------------------------------
(***************************************************************************)
(* Proofs about what the panel writes: pairing codes, accounts and         *)
(* superusers, sign-ins, grants, the receipts of submitted jobs, the       *)
(* statistics, and what is kept in memory of stored images and fonts.      *)
(* Each part has an inductive invariant (its name ends in Inv), what it    *)
(* starts from and that every step keeps it.                               *)
(***************************************************************************)
EXTENDS Pairing, Accounts, SignIn, Grants, IdempotentSubmit, Statistics, AssetCache, SequenceFacts,
        FiniteSetTheorems, TLAPS

-----------------------------------------------------------------------------
(* Pairing. *)

\* At most one element, said without counting.
AtMostOne(S) == \A x, y \in S : x = y

\* What has at most one element counts no more than one.
LEMMA AtMostOneCounts ==
    ASSUME NEW S, AtMostOne(S)
    PROVE  Cardinality(S) <= 1
<1>1. CASE S = {}
  BY <1>1, FS_EmptySet
<1>2. CASE S # {}
  <2>1. PICK x \in S : TRUE
    BY <1>2
  <2>2. S = {x}
    BY <2>1 DEF AtMostOne
  <2>3. Cardinality(S) = 1
    BY <2>2, FS_Singleton
  <2> QED
    BY <2>3
<1> QED
  BY <1>1, <1>2

PairingTypeOK ==
    /\ exists \in BOOLEAN /\ crossedIssue \in BOOLEAN
    /\ token \in Redemptions \cup {Unpaired}
    /\ code \in [Codes -> {"undrawn", "open", "consumed", "gone"}]
    /\ office \in [Operators -> {"idle", "issue", "over"}]
    /\ redeeming \in [Redemptions -> [at : {"idle", "claim", "over"}, code : SUBSET Codes]]
    /\ granted \in [Codes -> SUBSET Redemptions]

\* A code pays once, and is spent when it has.
SpentWhenPaid ==
    \A k \in Codes : AtMostOne(granted[k]) /\ (granted[k] # {} => code[k] \in {"consumed", "gone"})

\* There is at most one open code, and none without its agent.
OpenCodes ==
    /\ AtMostOne(Redeemable)
    /\ Redeemable # {} => exists

\* Who holds the token was paid for, and only a call that was crossed can leave
\* or bring an open code beside it.
TokenWasPaid ==
    token # Unpaired =>
        /\ exists /\ \E k \in Codes : token \in granted[k]
        /\ crossedIssue \/ (Redeemable = {} /\ \A o \in Operators : office[o] # "issue")

PairingInv == PairingTypeOK /\ SpentWhenPaid /\ OpenCodes /\ TokenWasPaid

\* A server that starts with no code satisfies the invariant.
LEMMA PairingInitInv == PairingInit => PairingInv
<1> SUFFICES ASSUME PairingInit PROVE PairingInv
  OBVIOUS
<1> USE DEF PairingInit
<1>1. PairingTypeOK
  BY DEF PairingTypeOK
<1>2. SpentWhenPaid
  BY DEF SpentWhenPaid, AtMostOne
<1>3. OpenCodes /\ TokenWasPaid
  BY DEF OpenCodes, TokenWasPaid, AtMostOne, Redeemable
<1> QED
  BY <1>1, <1>2, <1>3 DEF PairingInv

\* Every step of pairing, a crossed one too, keeps the invariant.
LEMMA PairingNextInv == PairingInv /\ [PairingNext]_pairingVars => PairingInv'
<1> SUFFICES ASSUME PairingInv, [PairingNext]_pairingVars
             PROVE  PairingInv'
  OBVIOUS
<1> USE UnpairedAssumption DEF PairingInv, AtMostOne, Redeemable
<1>1. ASSUME NEW o \in Operators, CreateAgent(o) \/ Regenerate(o) \/ Unpair(o)
      PROVE  PairingInv'
  <2>1. PairingTypeOK'
    BY <1>1 DEF PairingTypeOK, CreateAgent, Regenerate, Unpair, Calls, RestKept
  <2>2. SpentWhenPaid'
    BY <1>1 DEF SpentWhenPaid, CreateAgent, Regenerate, Unpair, RestKept
  <2>3. OpenCodes'
    BY <1>1 DEF OpenCodes, PairingTypeOK, CreateAgent, Regenerate, Unpair
  <2>4. TokenWasPaid'
    BY <1>1 DEF TokenWasPaid, CreateAgent, Regenerate, Unpair
  <2> QED
    BY <2>1, <2>2, <2>3, <2>4
<1>2. ASSUME NEW o \in Operators, DeleteAgent(o)
      PROVE  PairingInv'
  <2>1. code' \in [Codes -> {"undrawn", "gone"}]
    BY <1>2 DEF DeleteAgent, Drop
  <2>2. \A k \in Codes : granted[k] # {} => code'[k] = "gone"
    BY <1>2 DEF DeleteAgent, Drop, SpentWhenPaid
  <2>3. PairingTypeOK'
    BY <1>2, <2>1 DEF DeleteAgent, Calls, RestKept, PairingTypeOK
  <2>4. SpentWhenPaid'
    BY <1>2, <2>2 DEF DeleteAgent, RestKept, SpentWhenPaid
  <2>5. Redeemable' = {}
    BY <2>1
  <2> QED
    BY <1>2, <2>3, <2>4, <2>5 DEF DeleteAgent, OpenCodes, TokenWasPaid
<1>3. ASSUME NEW o \in Operators, Issue(o)
      PROVE  PairingInv'
  <2>0. token # Unpaired => crossedIssue
    BY <1>3 DEF Issue, TokenWasPaid
  <2>1. CASE ~exists
    <3>1. UNCHANGED <<code, exists, token, lapsed, redeeming, granted, crossedIssue>>
      BY <1>3, <2>1 DEF Issue, RestKept
    <3> QED
      BY <1>3, <2>0, <3>1 DEF Issue, PairingTypeOK, SpentWhenPaid, OpenCodes, TokenWasPaid
  <2>2. CASE exists
    <3>1. PICK new \in Codes :
             /\ code[new] = "undrawn"
             /\ code' = [k \in Codes |-> IF k = new THEN "open"
                                         ELSE IF code[k] = "open" THEN "gone" ELSE code[k]]
      BY <1>3, <2>2 DEF Issue
    <3>2. PairingTypeOK'
      BY <1>3, <3>1 DEF Issue, RestKept, PairingTypeOK
    <3>3. SpentWhenPaid'
      BY <1>3, <3>1 DEF Issue, RestKept, PairingTypeOK, SpentWhenPaid
    <3>4. OpenCodes'
      BY <1>3, <2>2, <3>1 DEF Issue, RestKept, PairingTypeOK, OpenCodes
    <3>5. TokenWasPaid'
      BY <1>3, <2>0, <2>2 DEF Issue, RestKept, TokenWasPaid
    <3> QED
      BY <3>2, <3>3, <3>4, <3>5
  <2> QED
    BY <2>1, <2>2 DEF PairingTypeOK
<1>4. ASSUME NEW k \in Codes, Lapse(k) \/ \E d \in Redemptions : LookUp(d, k)
      PROVE  PairingInv'
  BY <1>4 DEF Lapse, LookUp, PairingTypeOK, SpentWhenPaid, OpenCodes, TokenWasPaid
<1>5. CASE Purge
  <2>1. PairingTypeOK'
    BY <1>5 DEF Purge, PairingTypeOK
  <2>2. SpentWhenPaid'
    BY <1>5 DEF Purge, PairingTypeOK, SpentWhenPaid
  <2>3. OpenCodes'
    BY <1>5 DEF Purge, PairingTypeOK, OpenCodes
  <2>4. TokenWasPaid'
    BY <1>5 DEF Purge, PairingTypeOK, TokenWasPaid
  <2> QED
    BY <2>1, <2>2, <2>3, <2>4
<1>6. ASSUME NEW d \in Redemptions, Claim(d)
      PROVE  PairingInv'
  <2>1. PICK k \in redeeming[d].code :
           IF Claimable(k) THEN Pay(d, k) ELSE UNCHANGED <<code, token, granted, crossedIssue>>
    BY <1>6 DEF Claim
  <2>2. k \in Codes
    BY <2>1 DEF PairingTypeOK
  <2>3. redeeming' \in [Redemptions -> [at : {"idle", "claim", "over"}, code : SUBSET Codes]]
    BY <1>6 DEF Claim, PairingTypeOK
  <2>4. UNCHANGED <<exists, lapsed, office>>
    BY <1>6 DEF Claim
  <2>5. CASE Claimable(k)
    <3> USE <2>1, <2>2, <2>3, <2>4, <2>5 DEF Claimable, Pay
    <3>0. crossedIssue' \in BOOLEAN
      OBVIOUS
    <3>1. PairingTypeOK'
      <4>1. exists' \in BOOLEAN
        BY DEF PairingTypeOK
      <4>2. code' \in [Codes -> {"undrawn", "open", "consumed", "gone"}] /\ token' \in Redemptions
        BY DEF PairingTypeOK
      <4>3. granted' \in [Codes -> SUBSET Redemptions]
        BY DEF PairingTypeOK
      <4>4. office' \in [Operators -> {"idle", "issue", "over"}]
        BY DEF PairingTypeOK
      <4> QED
        BY <3>0, <4>1, <4>2, <4>3, <4>4 DEF PairingTypeOK
    <3>2. granted[k] = {} /\ SpentWhenPaid'
      BY DEF PairingTypeOK, SpentWhenPaid
    <3>3. Redeemable = {k} /\ Redeemable' = {} /\ exists
      BY DEF PairingTypeOK, OpenCodes
    <3>4. OpenCodes'
      BY <3>3 DEF OpenCodes
    <3>5. TokenWasPaid'
      BY <3>3 DEF PairingTypeOK, TokenWasPaid
    <3> QED
      BY <3>1, <3>2, <3>4, <3>5
  <2>6. CASE ~Claimable(k)
    <3>1. UNCHANGED <<exists, code, token, lapsed, office, granted, crossedIssue>>
      BY <2>1, <2>4, <2>6
    <3> QED
      BY <2>3, <3>1 DEF PairingTypeOK, SpentWhenPaid, OpenCodes, TokenWasPaid
  <2> QED
    BY <2>5, <2>6
<1>7. CASE UNCHANGED pairingVars
  BY <1>7 DEF pairingVars, PairingTypeOK, SpentWhenPaid, OpenCodes, TokenWasPaid
<1> QED
  BY <1>1, <1>2, <1>3, <1>4, <1>5, <1>6, <1>7 DEF PairingNext

\* However calls and redemptions cross, a code pays for one pairing, at most one
\* is open, and a paired agent has none open unless a call was crossed.
THEOREM CodesAreSpentOnce == PairingSpec => []CodeIsSpentOnce
<1>1. PairingInv => CodeIsSpentOnce
  <2> SUFFICES ASSUME PairingInv PROVE CodeIsSpentOnce
    OBVIOUS
  <2>1. \A k \in Codes : Cardinality(granted[k]) <= 1
    BY AtMostOneCounts DEF PairingInv, SpentWhenPaid
  <2>2. Cardinality(Redeemable) <= 1
    BY AtMostOneCounts DEF PairingInv, OpenCodes
  <2> QED
    BY <2>1, <2>2 DEF PairingInv, TokenWasPaid, CodeIsSpentOnce
<1> QED
  BY <1>1, PairingInitInv, PairingNextInv, PTL DEF PairingSpec

-----------------------------------------------------------------------------
(* Accounts and superusers. *)

Rows == [there : BOOLEAN, super : BOOLEAN, banned : BOOLEAN]

\* Superusers who can sign in.
Able == {u \in Superusers : ~account[u].banned}

\* What is not there is nobody, and whoever has a session is there and not banned.
RowsStand ==
    /\ \A u \in Users : ~account[u].there => account[u] = Nobody
    /\ \A u \in sessions : account[u].there /\ ~account[u].banned

\* Before setup there is nobody, so nobody to ask for a removal.
Claimed ==
    /\ claims = 0 => There = {}
    /\ \A c \in Removals : UnderWay(c) => claims > 0

\* Past the gate: it cannot be refused any more for whom it is about.
PastGate(c) == removal[c].at \in {"check", "count", "write"} \/ (removal[c].at = "gate" /\ removal[c].super)

\* Whoever is to go, another superuser can sign in.
Spared == ~crossedRemoval => \A c \in Removals : PastGate(c) => Able \ {removal[c].target} # {}

AccountsInv == AccountsTypeOK /\ RowsStand /\ Claimed /\ Spared /\ AdministeredUnlessRaced

\* The accounts as the first start leaves them satisfy the invariant.
LEMMA AccountsInitInv == AccountsInit => AccountsInv
<1> SUFFICES ASSUME AccountsInit PROVE AccountsInv
  OBVIOUS
<1> USE DEF AccountsInit
<1>1. AccountsTypeOK
  BY DEF AccountsTypeOK, Nobody, Unused
<1>2. RowsStand /\ Claimed
  BY DEF RowsStand, Claimed, There, UnderWay, Nobody, Unused
<1>3. Spared /\ AdministeredUnlessRaced
  BY DEF Spared, PastGate, Unused, AdministeredUnlessRaced
<1> QED
  BY <1>1, <1>2, <1>3 DEF AccountsInv

\* Steps that move a removal on and write nothing.
LEMMA ReadsInv ==
    ASSUME AccountsInv, Reads, AccountsTypeOK',
           \A c \in Removals : UnderWay(c)' => claims > 0,
           ~crossedRemoval => \A c \in Removals : PastGate(c)' =>
               \/ PastGate(c) /\ removal'[c].target = removal[c].target
               \/ Able \ {removal'[c].target} # {}
    PROVE  AccountsInv'
<1>1. /\ account' = account /\ sessions' = sessions /\ claims' = claims
      /\ crossedRemoval' = crossedRemoval /\ Able' = Able /\ There' = There /\ Superusers' = Superusers
  BY DEF Reads, Able, Superusers, There
<1>2. RowsStand' /\ Claimed'
  BY <1>1 DEF AccountsInv, RowsStand, Claimed
<1>3. Spared'
  BY <1>1 DEF AccountsInv, Spared
<1>4. AdministeredUnlessRaced'
  BY <1>1 DEF AccountsInv, AdministeredUnlessRaced
<1> QED
  BY <1>2, <1>3, <1>4 DEF AccountsInv

\* Steps that only add to who can sign in, and take no session's account.
LEMMA GrowthInv ==
    ASSUME AccountsInv, account' \in [Users -> Rows], UNCHANGED removal, UNCHANGED crossedRemoval,
           RowsStand', sessions' \subseteq Users, setupKey' \in BOOLEAN, claims' \in Nat,
           Able \subseteq Able', claims' = 0 => There' = {}, claims' >= claims,
           claims' > 0 /\ ~crossedRemoval => Able' # {} /\ claims' = 1
    PROVE  AccountsInv'
<1>1. AccountsTypeOK'
  BY DEF AccountsInv, AccountsTypeOK, Rows
<1>2. Claimed'
  BY DEF AccountsInv, AccountsTypeOK, Claimed, UnderWay
<1>3. Spared'
  BY DEF AccountsInv, Spared, PastGate
<1>4. AdministeredUnlessRaced'
  BY DEF AdministeredUnlessRaced, Able
<1> QED
  BY <1>1, <1>2, <1>3, <1>4 DEF AccountsInv

\* Every step of an action on accounts keeps the invariant.
LEMMA AccountsNextInv == AccountsInv /\ [AccountsNext]_accountVars => AccountsInv'
<1> SUFFICES ASSUME AccountsInv, [AccountsNext]_accountVars
             PROVE  AccountsInv'
  OBVIOUS
<1>0. AccountsTypeOK /\ RowsStand /\ Claimed /\ Spared /\ AdministeredUnlessRaced
  BY DEF AccountsInv
<1>1. CASE Boot
  BY <1>0, <1>1, GrowthInv DEF Boot, AccountsTypeOK, RowsStand, Claimed, AdministeredUnlessRaced, Able, Superusers, There, Rows
<1>2. ASSUME NEW u \in Users, CompleteSetup(u)
      PROVE  AccountsInv'
  <2>1. /\ There = {} /\ account' = [account EXCEPT ![u] = [there |-> TRUE, super |-> TRUE, banned |-> FALSE]]
        /\ setupKey' = FALSE /\ claims' = claims + 1
        /\ sessions' = sessions /\ removal' = removal /\ crossedRemoval' = crossedRemoval
    BY <1>2 DEF CompleteSetup
  <2>2. account' \in [Users -> Rows]
    BY <1>0, <2>1 DEF AccountsTypeOK, Rows
  <2>3. account'[u] = [there |-> TRUE, super |-> TRUE, banned |-> FALSE] /\ \A v \in Users \ {u} : account'[v] = account[v]
    BY <1>0, <2>1 DEF AccountsTypeOK
  <2>4. RowsStand'
    BY <1>0, <2>1, <2>3 DEF AccountsTypeOK, RowsStand
  <2>5. Able = {} /\ u \in Able'
    BY <2>1, <2>3 DEF Able, Superusers, There
  <2>6. claims > 0 => crossedRemoval
    BY <1>0, <2>5 DEF AdministeredUnlessRaced, Able
  <2>7. claims \in Nat /\ sessions \subseteq Users
    BY <1>0 DEF AccountsTypeOK
  <2>8. setupKey' \in BOOLEAN /\ Able \subseteq Able' /\ Able' # {}
    BY <2>1, <2>5
  <2>9. claims' # 0 /\ claims' >= claims /\ claims' \in Nat /\ (~crossedRemoval => claims' = 1)
    BY <2>1, <2>6, <2>7
  <2>10. sessions' \subseteq Users /\ UNCHANGED removal /\ UNCHANGED crossedRemoval
    BY <2>1, <2>7
  <2> QED
    BY <2>2, <2>4, <2>8, <2>9, <2>10, GrowthInv
<1>3. ASSUME NEW u \in Users, OpenSession(u)
      PROVE  AccountsInv'
  <2>1. /\ account[u].there /\ ~account[u].banned /\ sessions' = sessions \cup {u}
        /\ UNCHANGED <<account, setupKey, removal, claims, crossedRemoval>>
    BY <1>3 DEF OpenSession, There
  <2>2. RowsStand'
    BY <1>0, <2>1 DEF RowsStand
  <2>3. Able' = Able /\ There' = There
    BY <2>1 DEF Able, Superusers, There
  <2> QED
    BY <1>0, <2>1, <2>2, <2>3, GrowthInv DEF AccountsTypeOK, Claimed, AdministeredUnlessRaced, Able, Rows
<1>4. ASSUME NEW u \in Users, Plain(u)
      PROVE  AccountsInv'
  <2>1. /\ (account[u] = Nobody \/ account[u].there)
        /\ \/ account' = [account EXCEPT ![u].there = TRUE] /\ account[u] = Nobody /\ sessions # {}
           \/ account' = [account EXCEPT ![u].super = TRUE] /\ account[u].there
           \/ account' = [account EXCEPT ![u].banned = FALSE] /\ account[u].there
        /\ UNCHANGED <<sessions, setupKey, removal, claims, crossedRemoval>>
    <3>1. account[u].banned => account[u].there
      BY <1>0 DEF RowsStand, Nobody
    <3>2. sessions \cap Superusers # {} => sessions # {}
      OBVIOUS
    <3> QED
      BY <1>4, <3>1, <3>2 DEF Plain, Create, Promote, Unban, There
  <2>2. account[u] \in Rows
    BY <1>0 DEF AccountsTypeOK, Rows
  <2>3. /\ account'[u] \in Rows /\ account'[u].there
        /\ account[u].super => account'[u].super
        /\ ~account[u].banned => ~account'[u].banned
        /\ account[u].there \/ sessions # {}
    <3>1. CASE account' = [account EXCEPT ![u].there = TRUE] /\ account[u] = Nobody /\ sessions # {}
      <4>1. account'[u] = [account[u] EXCEPT !.there = TRUE]
        BY <1>0, <3>1 DEF AccountsTypeOK
      <4> QED
        BY <2>2, <3>1, <4>1 DEF Rows
    <3>2. CASE account' = [account EXCEPT ![u].super = TRUE] /\ account[u].there
      <4>1. account'[u] = [account[u] EXCEPT !.super = TRUE]
        BY <1>0, <3>2 DEF AccountsTypeOK
      <4> QED
        BY <2>2, <3>2, <4>1 DEF Rows
    <3>3. CASE account' = [account EXCEPT ![u].banned = FALSE] /\ account[u].there
      <4>1. account'[u] = [account[u] EXCEPT !.banned = FALSE]
        BY <1>0, <3>3 DEF AccountsTypeOK
      <4> QED
        BY <2>2, <3>3, <4>1 DEF Rows
    <3> QED
      BY <2>1, <3>1, <3>2, <3>3
  <2>4. account' = [account EXCEPT ![u] = account'[u]]
    BY <1>0, <2>1 DEF AccountsTypeOK
  <2>5. account' \in [Users -> Rows] /\ \A v \in Users \ {u} : account'[v] = account[v]
    BY <1>0, <2>3, <2>4 DEF AccountsTypeOK, Rows
  <2>6. RowsStand'
    BY <1>0, <2>1, <2>3, <2>5 DEF RowsStand, AccountsTypeOK
  <2>7. Able \subseteq Able'
    BY <2>3, <2>5 DEF Able, Superusers, There
  <2>8. claims # 0
    BY <1>0, <2>3 DEF Claimed, There, RowsStand, AccountsTypeOK
  <2>9. claims \in Nat /\ sessions \subseteq Users /\ setupKey \in BOOLEAN
    BY <1>0 DEF AccountsTypeOK
  <2> QED
    BY <1>0, <2>1, <2>5, <2>6, <2>7, <2>8, <2>9, GrowthInv DEF AdministeredUnlessRaced, Able
<1>5. ASSUME NEW c \in Removals, Ask(c)
      PROVE  AccountsInv'
  <2>1. PICK a \in sessions, t \in Users, v \in {"delete", "demote", "ban"} :
           /\ a # t
           /\ removal' = [removal EXCEPT ![c] =
                [at |-> "gate", actor |-> a, super |-> account[a].super, verb |-> v, target |-> t]]
    BY <1>5 DEF Ask
  <2>2. a \in Users /\ account[a].super \in BOOLEAN /\ account[a].there /\ ~account[a].banned
    BY <1>0, <2>1 DEF AccountsTypeOK, RowsStand
  <2>3. AccountsTypeOK'
    BY <1>0, <1>5, <2>1, <2>2 DEF AccountsTypeOK, Ask, Reads
  <2>4. claims > 0
    BY <1>0, <2>2 DEF Claimed, There, AccountsTypeOK
  <2>5. account[a].super => a \in Able
    BY <2>2 DEF Able, Superusers, There
  <2>6. removal'[c] = [at |-> "gate", actor |-> a, super |-> account[a].super, verb |-> v, target |-> t]
        /\ \A d \in Removals \ {c} : removal'[d] = removal[d]
    BY <1>0, <2>1 DEF AccountsTypeOK
  <2>7. \A d \in Removals : PastGate(d)' => (PastGate(d) /\ removal'[d].target = removal[d].target)
                                            \/ Able \ {removal'[d].target} # {}
    BY <2>1, <2>5, <2>6 DEF PastGate
  <2> QED
    BY <1>5, <2>3, <2>4, <2>7, ReadsInv DEF Ask
<1>6. ASSUME NEW c \in Removals, Gate(c) \/ Check(c) \/ Count(c)
      PROVE  AccountsInv'
  <2>1. /\ Reads /\ removal[c].at \in {"gate", "check", "count"}
        /\ \E to \in {"check", "count", "write", "over"} :
              /\ removal' = [removal EXCEPT ![c].at = to]
              /\ to = "over" \/ PastGate(c) \/ removal[c].target \notin Superusers
    BY <1>6 DEF Gate, Check, Count, Refuse, Goes, PastGate
  <2>2. removal[c] # Unused
    BY <2>1 DEF Unused
  <2>3. PICK to \in {"check", "count", "write", "over"} :
              /\ removal' = [removal EXCEPT ![c].at = to]
              /\ to = "over" \/ PastGate(c) \/ removal[c].target \notin Superusers
    BY <2>1
  <2>4. /\ removal'[c] = [removal[c] EXCEPT !.at = to]
        /\ \A d \in Removals \ {c} : removal'[d] = removal[d]
        /\ removal'[c].at = to /\ removal'[c].target = removal[c].target
    BY <1>0, <2>2, <2>3 DEF AccountsTypeOK
  <2>5. AccountsTypeOK'
    <3>1. removal' = [removal EXCEPT ![c] = removal'[c]]
      BY <1>0, <2>3 DEF AccountsTypeOK
    <3> QED
      BY <1>0, <2>1, <2>2, <2>4, <3>1 DEF AccountsTypeOK, Reads
  <2>6. UnderWay(c)
    BY <2>1 DEF UnderWay
  <2>7. claims > 0
    BY <1>0, <2>6 DEF Claimed
  <2>8. ~crossedRemoval /\ removal[c].target \notin Superusers => Able \ {removal'[c].target} # {}
    BY <1>0, <2>4, <2>7 DEF AdministeredUnlessRaced, Able
  <2>9. ~crossedRemoval => \A d \in Removals : PastGate(d)' =>
           (PastGate(d) /\ removal'[d].target = removal[d].target) \/ Able \ {removal'[d].target} # {}
    BY <2>3, <2>4, <2>8 DEF PastGate
  <2> QED
    BY <2>1, <2>5, <2>7, <2>9, ReadsInv
<1>7. ASSUME NEW c \in Removals, Remove(c)
      PROVE  AccountsInv'
  <2> DEFINE t == removal[c].target
             v == removal[c].verb
  <2>1. /\ removal[c].at = "write" /\ removal' = [removal EXCEPT ![c].at = "over"]
        /\ setupKey' = setupKey /\ claims' = claims
    BY <1>7 DEF Remove, Goes
  <2>2. /\ removal[c] # Unused /\ t \in Users /\ v \in {"delete", "demote", "ban"}
        /\ removal'[c] = [removal[c] EXCEPT !.at = "over"] /\ removal'[c].at = "over"
        /\ \A d \in Removals \ {c} : removal'[d] = removal[d]
    BY <1>0, <2>1 DEF AccountsTypeOK, Unused
  <2>3. removal' \in [Removals -> {Unused} \cup
          [at : {"gate", "check", "count", "write", "over"}, actor : Users, super : BOOLEAN,
           verb : {"delete", "demote", "ban"}, target : Users]]
    <3>1. removal' = [removal EXCEPT ![c] = removal'[c]]
      BY <1>0, <2>1 DEF AccountsTypeOK
    <3> QED
      BY <1>0, <2>2, <3>1 DEF AccountsTypeOK
  <2>4. ~crossedRemoval => Able \ {t} # {}
    BY <1>0, <2>1 DEF Spared, PastGate
  <2>5. CASE t \notin There
    <3>1. Reads
      BY <1>7, <2>1, <2>5 DEF Remove, Reads
    <3>2. AccountsTypeOK'
      BY <1>0, <2>3, <3>1 DEF AccountsTypeOK, Reads
    <3>3. \A d \in Removals : (UnderWay(d)' => UnderWay(d)) /\
             (PastGate(d)' => PastGate(d) /\ removal'[d].target = removal[d].target)
      BY <2>1, <2>2 DEF UnderWay, PastGate
    <3> QED
      BY <1>0, <3>1, <3>2, <3>3, ReadsInv DEF Claimed
  <2>6. CASE t \in There
    <3>1. /\ account' = [account EXCEPT ![t] = Without(v, @)]
          /\ sessions' = IF v = "demote" THEN sessions ELSE sessions \ {t}
          /\ crossedRemoval' = (crossedRemoval \/ (t \in Superusers /\ \E d \in Removals \ {c} : UnderWay(d)))
      BY <1>7, <2>6 DEF Remove
    <3>2. account[t] \in Rows /\ account[t].there
      BY <1>0, <2>2, <2>6 DEF AccountsTypeOK, Rows, There
    <3>3. account'[t] = Without(v, account[t]) /\ \A u \in Users \ {t} : account'[u] = account[u]
      BY <1>0, <2>2, <3>1 DEF AccountsTypeOK
    <3>4. /\ account'[t] \in Rows
          /\ ~account'[t].there => account'[t] = Nobody
          /\ account'[t].super => account[t].super
          /\ v = "demote" => account'[t].there /\ account'[t].banned = account[t].banned
      <4>1. CASE v = "delete"
        BY <3>3, <4>1 DEF Without, Nobody, Rows
      <4>2. CASE v = "demote"
        <5>1. account'[t] = [account[t] EXCEPT !.super = FALSE]
          BY <3>3, <4>2 DEF Without
        <5> QED
          BY <3>2, <4>2, <5>1 DEF Rows
      <4>3. CASE v = "ban"
        <5>1. account'[t] = [account[t] EXCEPT !.banned = TRUE]
          BY <3>3, <4>3 DEF Without
        <5> QED
          BY <3>2, <4>3, <5>1 DEF Rows
      <4> QED
        BY <2>2, <4>1, <4>2, <4>3
    <3>5. account' \in [Users -> Rows]
      <4>1. account' = [account EXCEPT ![t] = account'[t]]
        BY <1>0, <3>1 DEF AccountsTypeOK
      <4> QED
        BY <1>0, <3>4, <4>1 DEF AccountsTypeOK, Rows
    <3>6. crossedRemoval' \in BOOLEAN
      BY <1>0, <3>1 DEF AccountsTypeOK
    <3>7. AccountsTypeOK'
      BY <1>0, <2>1, <2>3, <3>1, <3>5, <3>6 DEF AccountsTypeOK, Rows
    <3>8. RowsStand'
      BY <1>0, <2>2, <3>1, <3>3, <3>4 DEF RowsStand, AccountsTypeOK
    <3>9. Claimed'
      <4>1. \A d \in Removals : UnderWay(d)' => UnderWay(d)
        BY <2>1, <2>2 DEF UnderWay
      <4>2. There' \subseteq There
        BY <2>6, <3>3 DEF There
      <4> QED
        BY <1>0, <2>1, <4>1, <4>2 DEF Claimed
    <3>10. Able \ {t} \subseteq Able'
      BY <3>3 DEF Able, Superusers, There
    <3>11. t \notin Superusers => t \notin Able
      BY DEF Able
    <3>12. Spared'
      <4> SUFFICES ASSUME ~crossedRemoval', NEW d \in Removals, PastGate(d)'
                   PROVE  Able' \ {removal'[d].target} # {}
        BY DEF Spared
      <4>1. ~crossedRemoval /\ d # c /\ removal'[d] = removal[d]
        BY <2>2, <3>1 DEF PastGate
      <4>2. PastGate(d) /\ UnderWay(d)
        BY <4>1 DEF PastGate, UnderWay
      <4>3. t \notin Superusers
        BY <3>1, <4>1, <4>2
      <4>4. Able \subseteq Able'
        BY <3>10, <3>11, <4>3
      <4> QED
        BY <1>0, <4>1, <4>2, <4>4 DEF Spared
    <3>13. AdministeredUnlessRaced'
      BY <1>0, <2>1, <2>4, <3>1, <3>10 DEF AdministeredUnlessRaced, Able
    <3> QED
      BY <3>7, <3>8, <3>9, <3>12, <3>13 DEF AccountsInv
  <2> QED
    BY <2>5, <2>6
<1>8. CASE UNCHANGED accountVars
  BY <1>0, <1>8 DEF accountVars, AccountsInv, AccountsTypeOK, RowsStand, Claimed, There, UnderWay, Spared, PastGate,
     Able, Superusers, AdministeredUnlessRaced
<1> QED
  BY <1>1, <1>2, <1>3, <1>4, <1>5, <1>6, <1>7, <1>8 DEF AccountsNext

\* Whatever the users, the superusers and the actions they take, someone who can
\* administer the panel is left unless two removals crossed: the guards of ban,
\* demote and remove are enough when they do not race.
THEOREM AdministeredAlways == AccountsSpec => []AdministeredUnlessRaced
<1>1. AccountsInv => AdministeredUnlessRaced
  BY DEF AccountsInv
<1> QED
  BY <1>1, AccountsInitInv, AccountsNextInv, PTL DEF AccountsSpec

-----------------------------------------------------------------------------
(* Sign-in and sessions. *)

Stages == {"unsent", "examine", "count", "fail", "clear", "cap", "trim", "over"}
Trying == [at : Stages, saw : Nat, held : SUBSET Tries]

SignInTypeOK ==
    /\ try \in [Tries -> Trying] /\ failures \in Nat /\ wrong \in Nat
    /\ locked \in BOOLEAN /\ crossed \in BOOLEAN
    /\ signedIn \in SUBSET Tries /\ untrimmed \in SUBSET Tries /\ latest \in SUBSET Tries
    /\ IsFiniteSet(signedIn)

Trimming == {t \in Tries : try[t].at = "trim"}
Counted  == signedIn \ untrimmed
Has(t)   == try[t].held \cap signedIn

\* A session has its submission's name, so none has the name of one that is
\* still examined.
Made == {t \in Tries : try[t].at \in {"clear", "cap", "trim", "over"}}
SessionsAreMade == signedIn \subseteq Made /\ \A t \in Trimming : try[t].held \subseteq Made

\* What has been counted is no more than the cap, and stays so: a trim under way
\* read either all that is counted by now, or nothing that is not; and of two,
\* one read, of what is left, all that the other did.
CapHolds ==
    /\ Cardinality(Counted) <= Cap
    /\ \A t \in Trimming :
          /\ IsFiniteSet(try[t].held) /\ (t \in signedIn => t \in try[t].held)
          /\ Counted \subseteq try[t].held \/ Has(t) \cap untrimmed = {}
    /\ \A t, u \in Trimming : Has(t) \subseteq Has(u) \/ Has(u) \subseteq Has(t)

\* One submission at a time: how far the count of failures is behind.
OneAtATime ==
    /\ \A t, u \in Tries : OnItsWay(t) /\ OnItsWay(u) => t = u
    /\ latest \subseteq signedIn
    /\ (\A t \in Tries : ~OnItsWay(t)) => failures = wrong
    /\ \A t \in Tries :
          /\ try[t].at \in {"clear", "cap", "trim"} => latest \subseteq {t}
          /\ try[t].at \in {"examine", "cap", "trim"} => failures = wrong
          /\ try[t].at \in {"count", "fail"} => wrong = failures + 1
          /\ try[t].at = "fail" => try[t].saw = failures
          /\ locked => try[t].at # "examine"

SignInInv == SignInTypeOK /\ SessionsAreMade /\ CapHolds /\ (~crossed => OneAtATime)

\* A server nobody tried to sign in to satisfies the invariant.
LEMMA SignInInitInv == SignInInit => SignInInv
<1> SUFFICES ASSUME SignInInit PROVE SignInInv
  OBVIOUS
<1> USE DEF SignInInit, Unsent
<1>1. IsFiniteSet({}) /\ Cardinality({}) = 0
  BY FS_EmptySet
<1>2. SignInTypeOK
  BY <1>1 DEF SignInTypeOK, Trying, Stages
<1>3. SessionsAreMade
  BY DEF SessionsAreMade, Trimming
<1>4. CapHolds
  <2>1. Counted = {} /\ Trimming = {}
    BY DEF Counted, Trimming
  <2> QED
    BY <1>1, <2>1, LimitAssumption DEF CapHolds
<1>5. OneAtATime
  BY DEF OneAtATime, OnItsWay
<1> QED
  BY <1>2, <1>3, <1>4, <1>5 DEF SignInInv

\* What a step makes of the submission it moves.
LEMMA TryMoves ==
    ASSUME SignInTypeOK, NEW t \in Tries, NEW to \in Stages, Steps(t, to)
    PROVE  /\ try' \in [Tries -> Trying]
           /\ try'[t].at = to /\ try'[t].saw = try[t].saw /\ try'[t].held = try[t].held
           /\ \A u \in Tries \ {t} : try'[u] = try[u]
<1>1. try[t] \in Trying
  BY DEF SignInTypeOK
<1>2. try'[t] = [try[t] EXCEPT !.at = to] /\ try' = [try EXCEPT ![t] = try'[t]]
  BY DEF SignInTypeOK, Steps
<1> QED
  BY <1>1, <1>2 DEF SignInTypeOK, Trying

\* Steps that read or write none of the sessions.
LEMMA SessionsShrink ==
    ASSUME SignInTypeOK, SessionsAreMade, CapHolds, signedIn' \subseteq signedIn,
           untrimmed' \subseteq untrimmed, Counted' \subseteq Counted, Made \subseteq Made',
           Trimming' \subseteq Trimming, \A t \in Trimming' : try'[t].held = try[t].held
    PROVE  SessionsAreMade' /\ CapHolds'
<1>1. SessionsAreMade'
  BY DEF SessionsAreMade
<1>2. Cardinality(Counted') <= Cap
  <2>1. IsFiniteSet(Counted)
    BY FS_Subset DEF SignInTypeOK, Counted
  <2>2. IsFiniteSet(Counted') /\ Cardinality(Counted') <= Cardinality(Counted)
    BY <2>1, FS_Subset
  <2>3. Cardinality(Counted) \in Nat /\ Cardinality(Counted') \in Nat /\ Cap \in Nat
    BY <2>1, <2>2, FS_CardinalityType, LimitAssumption
  <2> QED
    BY <2>2, <2>3 DEF CapHolds
<1>3. \A t \in Trimming' : Has(t)' \subseteq Has(t) /\ Has(t)' = Has(t) \cap signedIn'
  BY DEF Has
<1> QED
  BY <1>1, <1>2, <1>3 DEF CapHolds

\* Every step of a sign-in keeps the invariant.
LEMMA SignInNextInv == SignInInv /\ [SignInNext]_signInVars => SignInInv'
<1> SUFFICES ASSUME SignInInv, [SignInNext]_signInVars
             PROVE  SignInInv'
  OBVIOUS
<1>0. SignInTypeOK /\ SessionsAreMade /\ CapHolds /\ (~crossed => OneAtATime)
  BY DEF SignInInv
<1>1. ASSUME NEW t \in Tries, Submit(t)
      PROVE  SignInInv'
  <2>1. PICK to \in {"examine", "over"} : Steps(t, to) /\ (locked => to = "over")
    BY <1>1 DEF Submit
  <2>2. /\ try[t].at = "unsent" /\ crossed' = (crossed \/ \E u \in Tries : OnItsWay(u)) /\ AccountKept
    BY <1>1 DEF Submit
  <2>3. /\ try' \in [Tries -> Trying] /\ try'[t].at = to
        /\ try'[t].saw = try[t].saw /\ try'[t].held = try[t].held
        /\ \A u \in Tries \ {t} : try'[u] = try[u]
    BY <1>0, <2>1, TryMoves DEF Stages
  <2>4. SignInTypeOK'
    BY <1>0, <2>2, <2>3 DEF SignInTypeOK, AccountKept
  <2>5. SessionsAreMade' /\ CapHolds'
    BY <1>0, <2>1, <2>2, <2>3, SessionsShrink DEF AccountKept, Counted, Made, Trimming
  <2>6. ~crossed' => OneAtATime'
    <3> SUFFICES ASSUME ~crossed' PROVE OneAtATime'
      OBVIOUS
    <3>1. OneAtATime /\ \A u \in Tries : ~OnItsWay(u)
      BY <1>0, <2>2
    <3>2. \A u \in Tries \ {t} : try'[u].at \in {"unsent", "over"}
      BY <2>3, <3>1 DEF OnItsWay
    <3>3. failures = wrong
      BY <3>1 DEF OneAtATime
    <3>4. /\ failures' = wrong' /\ latest' \subseteq signedIn' /\ locked' = locked
          /\ try'[t].at \in {"examine", "over"} /\ (locked => try'[t].at # "examine")
      BY <2>1, <2>2, <2>3, <3>1, <3>3 DEF OneAtATime, AccountKept
    <3>5. \A u \in Tries : try'[u].at \in {"examine", "unsent", "over"} /\ (locked' => try'[u].at # "examine")
      BY <3>2, <3>4
    <3>6. \A u, w \in Tries : OnItsWay(u)' /\ OnItsWay(w)' => u = w
      BY <3>2 DEF OnItsWay
    <3> QED
      BY <3>4, <3>5, <3>6 DEF OneAtATime
  <2> QED
    BY <2>4, <2>5, <2>6 DEF SignInInv
<1>2. ASSUME NEW t \in Tries, Reject(t)
      PROVE  SignInInv'
  <2>1. /\ try[t].at = "examine" /\ Steps(t, "count") /\ wrong' = wrong + 1
        /\ UNCHANGED <<failures, locked, signedIn, untrimmed, latest, crossed>>
    BY <1>2 DEF Reject
  <2>2. /\ try' \in [Tries -> Trying] /\ try'[t].at = "count"
        /\ try'[t].saw = try[t].saw /\ try'[t].held = try[t].held
        /\ \A u \in Tries \ {t} : try'[u] = try[u]
    BY <1>0, <2>1, TryMoves DEF Stages
  <2>3. SignInTypeOK'
    BY <1>0, <2>1, <2>2 DEF SignInTypeOK
  <2>4. SessionsAreMade' /\ CapHolds'
    BY <1>0, <2>1, <2>2, SessionsShrink DEF Counted, Made, Trimming
  <2>5. OneAtATime => OneAtATime'
    BY <2>1, <2>2 DEF OneAtATime, OnItsWay
  <2> QED
    BY <1>0, <2>1, <2>3, <2>4, <2>5 DEF SignInInv
<1>3. ASSUME NEW t \in Tries, ReadCount(t)
      PROVE  SignInInv'
  <2>1. /\ try[t].at = "count" /\ try' = [try EXCEPT ![t].at = "fail", ![t].saw = failures]
        /\ AccountKept /\ crossed' = crossed
    BY <1>3 DEF ReadCount
  <2>2. try'[t] = [[try[t] EXCEPT !.at = "fail"] EXCEPT !.saw = failures] /\ try' = [try EXCEPT ![t] = try'[t]]
    BY <1>0, <2>1 DEF SignInTypeOK
  <2>3. /\ try' \in [Tries -> Trying] /\ try'[t].at = "fail"
        /\ try'[t].saw = failures /\ try'[t].held = try[t].held
        /\ \A u \in Tries \ {t} : try'[u] = try[u]
    <3>1. try[t] \in Trying /\ failures \in Nat
      BY <1>0 DEF SignInTypeOK
    <3>2. try'[t] = [at |-> "fail", saw |-> failures, held |-> try[t].held]
      BY <2>2, <3>1 DEF Trying
    <3>3. try'[t] \in Trying
      BY <3>1, <3>2 DEF Trying, Stages
    <3> QED
      BY <1>0, <2>2, <3>2, <3>3 DEF SignInTypeOK
  <2>4. SignInTypeOK'
    BY <1>0, <2>1, <2>3 DEF SignInTypeOK, AccountKept
  <2>5. SessionsAreMade' /\ CapHolds'
    BY <1>0, <2>1, <2>3, SessionsShrink DEF AccountKept, Counted, Made, Trimming
  <2>6. OneAtATime => OneAtATime'
    BY <2>1, <2>3 DEF OneAtATime, OnItsWay, AccountKept
  <2> QED
    BY <1>0, <2>1, <2>4, <2>5, <2>6 DEF SignInInv
<1>4. ASSUME NEW t \in Tries, WriteCount(t)
      PROVE  SignInInv'
  <2>1. /\ try[t].at = "fail" /\ Steps(t, "over")
        /\ failures' = try[t].saw + 1 /\ locked' = (locked \/ try[t].saw + 1 >= Limit)
        /\ UNCHANGED <<signedIn, untrimmed, wrong, latest, crossed>>
    BY <1>4 DEF WriteCount
  <2>2. /\ try' \in [Tries -> Trying] /\ try'[t].at = "over"
        /\ try'[t].saw = try[t].saw /\ try'[t].held = try[t].held
        /\ \A u \in Tries \ {t} : try'[u] = try[u]
    BY <1>0, <2>1, TryMoves DEF Stages
  <2>3. locked' \in BOOLEAN
    BY <1>0, <2>1 DEF SignInTypeOK
  <2>4. SignInTypeOK'
    <3>1. failures' \in Nat
      BY <1>0, <2>1 DEF SignInTypeOK, Trying
    <3> QED
      BY <1>0, <2>1, <2>2, <2>3, <3>1 DEF SignInTypeOK
  <2>5. SessionsAreMade' /\ CapHolds'
    BY <1>0, <2>1, <2>2, SessionsShrink DEF Counted, Made, Trimming
  <2>6. OneAtATime => OneAtATime'
    <3> SUFFICES ASSUME OneAtATime PROVE OneAtATime'
      OBVIOUS
    <3>1. \A u \in Tries \ {t} : ~OnItsWay(u)
      BY <2>1 DEF OneAtATime, OnItsWay
    <3>2. \A u \in Tries : try'[u].at \in {"unsent", "over"}
      BY <2>2, <3>1 DEF OnItsWay
    <3>3. failures' = wrong'
      BY <2>1 DEF OneAtATime
    <3>4. latest' \subseteq signedIn'
      BY <2>1 DEF OneAtATime
    <3> QED
      BY <3>2, <3>3, <3>4 DEF OneAtATime, OnItsWay
  <2> QED
    BY <1>0, <2>1, <2>4, <2>5, <2>6 DEF SignInInv
<1>5. ASSUME NEW t \in Tries, Accept(t)
      PROVE  SignInInv'
  <2>1. /\ try[t].at = "examine" /\ Steps(t, "clear") /\ signedIn' = signedIn \cup {t}
        /\ untrimmed' = untrimmed \cup {t} /\ latest' = {t}
        /\ UNCHANGED <<failures, locked, wrong, crossed>>
    BY <1>5 DEF Accept
  <2>2. /\ try' \in [Tries -> Trying] /\ try'[t].at = "clear"
        /\ try'[t].saw = try[t].saw /\ try'[t].held = try[t].held
        /\ \A u \in Tries \ {t} : try'[u] = try[u]
    BY <1>0, <2>1, TryMoves DEF Stages
  <2>3. SignInTypeOK'
    <3>1. IsFiniteSet(signedIn')
      BY <1>0, <2>1, FS_AddElement DEF SignInTypeOK
    <3> QED
      BY <1>0, <2>1, <2>2, <3>1 DEF SignInTypeOK
  <2>4. /\ t \notin Made /\ Made \subseteq Made' /\ t \in Made' /\ Trimming' = Trimming
        /\ \A u \in Trimming : u # t /\ try'[u] = try[u]
    BY <2>1, <2>2 DEF Made, Trimming
  <2>5. SessionsAreMade'
    BY <1>0, <2>1, <2>4 DEF SessionsAreMade
  <2>6. /\ t \notin signedIn /\ \A u \in Trimming : t \notin try[u].held
        /\ Counted' = Counted /\ \A u \in Trimming : Has(u)' = Has(u)
    BY <1>0, <2>1, <2>4 DEF SessionsAreMade, Counted, Has
  <2>7. CapHolds'
    BY <1>0, <2>1, <2>4, <2>6 DEF CapHolds, Has
  <2>8. OneAtATime => OneAtATime'
    <3> SUFFICES ASSUME OneAtATime PROVE OneAtATime'
      OBVIOUS
    <3>1. \A u \in Tries \ {t} : try'[u].at \in {"unsent", "over"}
      BY <2>1, <2>2 DEF OneAtATime, OnItsWay
    <3>2. OnItsWay(t)' /\ latest' \subseteq signedIn'
      BY <2>1, <2>2 DEF OnItsWay
    <3> QED
      BY <2>1, <2>2, <3>1, <3>2 DEF OneAtATime, OnItsWay
  <2> QED
    BY <1>0, <2>1, <2>3, <2>5, <2>7, <2>8 DEF SignInInv
<1>6. ASSUME NEW t \in Tries, ClearCount(t)
      PROVE  SignInInv'
  <2>1. /\ try[t].at = "clear" /\ Steps(t, "cap") /\ failures' = 0 /\ locked' = FALSE /\ wrong' = 0
        /\ UNCHANGED <<signedIn, untrimmed, latest, crossed>>
    BY <1>6 DEF ClearCount
  <2>2. /\ try' \in [Tries -> Trying] /\ try'[t].at = "cap"
        /\ try'[t].saw = try[t].saw /\ try'[t].held = try[t].held
        /\ \A u \in Tries \ {t} : try'[u] = try[u]
    BY <1>0, <2>1, TryMoves DEF Stages
  <2>3. SignInTypeOK'
    BY <1>0, <2>1, <2>2 DEF SignInTypeOK
  <2>4. SessionsAreMade' /\ CapHolds'
    BY <1>0, <2>1, <2>2, SessionsShrink DEF Counted, Made, Trimming
  <2>5. OneAtATime => OneAtATime'
    <3> SUFFICES ASSUME OneAtATime PROVE OneAtATime'
      OBVIOUS
    <3>1. \A u \in Tries \ {t} : try'[u].at \in {"unsent", "over"}
      BY <2>1, <2>2 DEF OneAtATime, OnItsWay
    <3>2. OnItsWay(t)' /\ latest' \subseteq signedIn' /\ latest' \subseteq {t}
      BY <2>1, <2>2 DEF OnItsWay, OneAtATime
    <3> QED
      BY <2>1, <2>2, <3>1, <3>2 DEF OneAtATime, OnItsWay
  <2> QED
    BY <1>0, <2>1, <2>3, <2>4, <2>5 DEF SignInInv
<1>7. ASSUME NEW t \in Tries, ReadSessions(t)
      PROVE  SignInInv'
  <2>1. /\ try[t].at = "cap" /\ try' = [try EXCEPT ![t].at = "trim", ![t].held = signedIn]
        /\ AccountKept /\ crossed' = crossed
    BY <1>7 DEF ReadSessions
  <2>2. try'[t] = [[try[t] EXCEPT !.at = "trim"] EXCEPT !.held = signedIn] /\ try' = [try EXCEPT ![t] = try'[t]]
    BY <1>0, <2>1 DEF SignInTypeOK
  <2>3. /\ try' \in [Tries -> Trying] /\ try'[t].at = "trim"
        /\ try'[t].saw = try[t].saw /\ try'[t].held = signedIn
        /\ \A u \in Tries \ {t} : try'[u] = try[u]
    <3>1. try[t] \in Trying /\ signedIn \in SUBSET Tries
      BY <1>0 DEF SignInTypeOK
    <3> QED
      BY <1>0, <2>2, <3>1, ZenonT(60) DEF SignInTypeOK, Trying, Stages
  <2>4. SignInTypeOK'
    BY <1>0, <2>1, <2>3 DEF SignInTypeOK, AccountKept
  <2>5. /\ Made' = Made /\ Trimming' = Trimming \cup {t} /\ Counted' = Counted /\ signedIn' = signedIn
        /\ t \notin Trimming /\ \A u \in Trimming : try'[u] = try[u]
    BY <2>1, <2>3 DEF Made, Trimming, Counted, AccountKept
  <2>6. SessionsAreMade'
    BY <1>0, <2>3, <2>5 DEF SessionsAreMade
  <2>7. CapHolds'
    <3>1. Has(t)' = signedIn /\ \A u \in Trimming : Has(u)' = Has(u) /\ Has(u) \subseteq signedIn
      BY <2>3, <2>5 DEF Has
    <3>2. IsFiniteSet(try'[t].held) /\ Counted' \subseteq try'[t].held
      BY <1>0, <2>3, <2>5 DEF SignInTypeOK, Counted
    <3>3. untrimmed' = untrimmed
      BY <2>1 DEF AccountKept
    <3> QED
      BY <1>0, <2>3, <2>5, <3>1, <3>2, <3>3 DEF CapHolds
  <2>8. OneAtATime => OneAtATime'
    BY <2>1, <2>3 DEF OneAtATime, OnItsWay, AccountKept
  <2> QED
    BY <1>0, <2>1, <2>4, <2>6, <2>7, <2>8 DEF SignInInv
<1>8. ASSUME NEW t \in Tries, Trim(t)
      PROVE  SignInInv'
  <2> DEFINE held == try[t].held
  <2>1. PICK K \in Kept(t, held) : signedIn' = signedIn \ (held \ K)
    BY <1>8 DEF Trim
  <2>2. /\ try[t].at = "trim" /\ Steps(t, "over") /\ untrimmed' = untrimmed \ (held \cup {t})
        /\ UNCHANGED <<failures, locked, wrong, latest, crossed>>
    BY <1>8 DEF Trim
  <2>3. /\ try' \in [Tries -> Trying] /\ try'[t].at = "over"
        /\ try'[t].saw = try[t].saw /\ try'[t].held = try[t].held
        /\ \A u \in Tries \ {t} : try'[u] = try[u]
    BY <1>0, <2>2, TryMoves DEF Stages
  <2>4. t \in Trimming /\ held \subseteq Tries
    BY <1>0, <2>2 DEF Trimming, SignInTypeOK, Trying
  <2>5. IsFiniteSet(held) /\ (t \in signedIn => t \in held)
    BY <1>0, <2>4 DEF CapHolds
  <2>6. K \subseteq held /\ (t \in held => t \in K) /\ IsFiniteSet(K) /\ Cardinality(K) <= Cap
    <3>1. K \subseteq held /\ (t \in held => t \in K)
          /\ Cardinality(K) = IF Cardinality(held) < Cap THEN Cardinality(held) ELSE Cap
      BY <2>1 DEF Kept
    <3>2. IsFiniteSet(K) /\ Cardinality(held) \in Nat /\ Cap \in Nat
      BY <2>5, <3>1, FS_Subset, FS_CardinalityType, LimitAssumption
    <3> QED
      BY <3>1, <3>2
  <2>7. SignInTypeOK'
    <3>1. IsFiniteSet(signedIn') /\ signedIn' \in SUBSET Tries
      BY <1>0, <2>1, FS_Subset DEF SignInTypeOK
    <3> QED
      BY <1>0, <2>2, <2>3, <3>1 DEF SignInTypeOK
  <2>8. /\ Made \subseteq Made' /\ Trimming' = Trimming \ {t}
        /\ \A u \in Trimming' : try'[u] = try[u]
    BY <2>2, <2>3 DEF Made, Trimming
  <2>9. SessionsAreMade' /\ CapHolds'
    <3>1. CASE Has(t) \cap untrimmed = {}
      <4>1. Counted' \subseteq Counted
        BY <2>1, <2>2, <2>5, <3>1 DEF Counted, Has
      <4> QED
        BY <1>0, <2>1, <2>2, <2>8, <4>1, SessionsShrink
    <3>2. CASE Counted \subseteq held
      <4>1. Counted' \subseteq K
        BY <2>1, <2>2, <2>5, <3>2 DEF Counted
      <4>2. Cardinality(Counted') <= Cap
        <5>1. Cardinality(Counted') <= Cardinality(K)
          BY <2>6, <4>1, FS_Subset
        <5>2. Cardinality(Counted') \in Nat /\ Cardinality(K) \in Nat /\ Cap \in Nat
          BY <2>6, <4>1, FS_Subset, FS_CardinalityType, LimitAssumption
        <5> QED
          BY <2>6, <5>1, <5>2
      <4>3. \A u \in Trimming' : Has(u)' = Has(u) \cap signedIn'
        BY <2>1, <2>8 DEF Has
      <4>4. ASSUME NEW u \in Trimming'
            PROVE  Counted' \subseteq try'[u].held \/ Has(u)' \cap untrimmed' = {}
        <5>1. Has(t) \subseteq Has(u) \/ Has(u) \subseteq Has(t)
          BY <1>0, <2>4, <2>8, <4>4 DEF CapHolds
        <5>2. Counted' \subseteq Has(t)
          BY <2>1, <2>6, <4>1 DEF Has, Counted
        <5> QED
          BY <2>2, <2>8, <4>3, <4>4, <5>1, <5>2 DEF Has
      <4>5. \A u \in Trimming' : IsFiniteSet(try'[u].held) /\ (u \in signedIn' => u \in try'[u].held)
        BY <1>0, <2>1, <2>8 DEF CapHolds
      <4>6. \A u, w \in Trimming' : Has(u)' \subseteq Has(w)' \/ Has(w)' \subseteq Has(u)'
        BY <1>0, <2>8, <4>3 DEF CapHolds
      <4>7. SessionsAreMade'
        BY <1>0, <2>1, <2>8 DEF SessionsAreMade
      <4> QED
        BY <4>2, <4>4, <4>5, <4>6, <4>7 DEF CapHolds
    <3> QED
      BY <1>0, <2>4, <3>1, <3>2 DEF CapHolds
  <2>10. OneAtATime => OneAtATime'
    <3> SUFFICES ASSUME OneAtATime PROVE OneAtATime'
      OBVIOUS
    <3>1. \A u \in Tries : try'[u].at \in {"unsent", "over"}
      BY <2>2, <2>3 DEF OneAtATime, OnItsWay
    <3>2. latest \subseteq {t} /\ latest \subseteq signedIn
      BY <2>2 DEF OneAtATime
    <3>3. latest' \subseteq signedIn'
      BY <2>1, <2>2, <2>5, <2>6, <3>2
    <3>4. failures' = wrong'
      BY <2>2 DEF OneAtATime
    <3> QED
      BY <3>1, <3>3, <3>4 DEF OneAtATime, OnItsWay
  <2> QED
    BY <1>0, <2>2, <2>7, <2>9, <2>10 DEF SignInInv
<1>9. ASSUME NEW t \in Tries, Abort(t)
      PROVE  SignInInv'
  <2>1. OnItsWay(t) /\ Steps(t, "over") /\ AccountKept /\ crossed' = TRUE
    BY <1>9 DEF Abort
  <2>2. /\ try' \in [Tries -> Trying] /\ try'[t].at = "over"
        /\ try'[t].saw = try[t].saw /\ try'[t].held = try[t].held
        /\ \A u \in Tries \ {t} : try'[u] = try[u]
    BY <1>0, <2>1, TryMoves DEF Stages
  <2>3. SignInTypeOK'
    BY <1>0, <2>1, <2>2 DEF SignInTypeOK, AccountKept
  <2>4. SessionsAreMade' /\ CapHolds'
    BY <1>0, <2>1, <2>2, SessionsShrink DEF AccountKept, Counted, Made, Trimming
  <2> QED
    BY <2>1, <2>3, <2>4 DEF SignInInv
<1>10. ASSUME NEW t \in Tries, EndSession(t)
       PROVE  SignInInv'
  <2>1. /\ signedIn' = signedIn \ {t} /\ latest' = latest \ {t}
        /\ UNCHANGED <<try, failures, locked, untrimmed, wrong, crossed>>
    BY <1>10 DEF EndSession
  <2>2. SignInTypeOK'
    <3>1. IsFiniteSet(signedIn')
      BY <1>0, <2>1, FS_Subset DEF SignInTypeOK
    <3> QED
      BY <1>0, <2>1, <3>1 DEF SignInTypeOK
  <2>3. SessionsAreMade' /\ CapHolds'
    BY <1>0, <2>1, SessionsShrink DEF Counted, Made, Trimming
  <2>4. OneAtATime => OneAtATime'
    BY <2>1 DEF OneAtATime, OnItsWay
  <2> QED
    BY <1>0, <2>1, <2>2, <2>3, <2>4 DEF SignInInv
<1>11. CASE LockLapses \/ UNCHANGED signInVars
  <2>1. /\ UNCHANGED <<try, failures, signedIn, untrimmed, wrong, latest, crossed>>
        /\ (locked' = FALSE \/ locked' = locked)
    BY <1>11 DEF LockLapses, signInVars
  <2>2. locked' \in BOOLEAN /\ (locked' => locked)
    <3>1. locked \in BOOLEAN
      BY <1>0 DEF SignInTypeOK
    <3>2. CASE locked' = FALSE
      BY <3>2
    <3>3. CASE locked' = locked
      BY <3>1, <3>3
    <3> QED
      BY <2>1, <3>2, <3>3
  <2>3. SignInTypeOK'
    BY <1>0, <2>1, <2>2 DEF SignInTypeOK
  <2>4. SessionsAreMade' /\ CapHolds'
    BY <1>0, <2>1, SessionsShrink DEF Counted, Made, Trimming
  <2>5. OneAtATime => OneAtATime'
    BY <2>1, <2>2 DEF OneAtATime, OnItsWay
  <2> QED
    BY <1>0, <2>1, <2>3, <2>4, <2>5 DEF SignInInv
<1> QED
  BY <1>1, <1>2, <1>3, <1>4, <1>5, <1>6, <1>7, <1>8, <1>9, <1>10, <1>11 DEF SignInNext

\* However many submissions and whatever the limits, failed tries are counted up
\* to the lock and live sessions stay within the cap while no two sign-ins cross.
THEOREM SignInStaysBounded == SignInSpec => []SignInIsBounded
<1>1. SignInInv => SignInIsBounded
  <2> SUFFICES ASSUME SignInInv PROVE SignInIsBounded
    OBVIOUS
  <2>1. untrimmed = {} => Counted = signedIn
    BY DEF Counted
  <2> QED
    <3>1. untrimmed = {} => Cardinality(signedIn) <= Cap
      BY <2>1 DEF SignInInv, CapHolds
    <3>2. ~crossed => /\ latest \subseteq signedIn
                      /\ (\A t \in Tries : ~OnItsWay(t)) => failures = wrong
                      /\ locked => \A t \in Tries : try[t].at # "examine"
      <4> SUFFICES ASSUME OneAtATime
                   PROVE  /\ latest \subseteq signedIn
                          /\ (\A t \in Tries : ~OnItsWay(t)) => failures = wrong
                          /\ locked => \A t \in Tries : try[t].at # "examine"
        BY DEF SignInInv
      <4>1. latest \subseteq signedIn
        BY DEF OneAtATime
      <4>2. (\A t \in Tries : ~OnItsWay(t)) => failures = wrong
        BY DEF OneAtATime
      <4>3. \A t \in Tries : locked => try[t].at # "examine"
        BY DEF OneAtATime
      <4> QED
        BY <4>1, <4>2, <4>3
    <3> QED
      BY <3>1, <3>2 DEF SignInIsBounded
<1> QED
  BY <1>1, SignInInitInv, SignInNextInv, PTL DEF SignInSpec

-----------------------------------------------------------------------------
(* Roles and grants. *)

Calling == [at : {"look", "write"}, actor : Members, super : BOOLEAN, form : Forms,
            held : SUBSET Permissions, keep : (SUBSET Permissions) \cup (SUBSET Roles), fresh : BOOLEAN]

GrantsTypeOK ==
    /\ direct \in [Members -> SUBSET Permissions]
    /\ carries \in [Roles -> (SUBSET Permissions) \cup {NoRole}]
    /\ assigned \in [Roles -> SUBSET Members]
    /\ call \in {Idle} \cup Calling

\* What a call that is no superuser's was found to be allowed, and what it read
\* to keep: of the tables as they are, as long as nobody else has written them.
CallIsChecked ==
    call # Idle /\ ~call.super =>
        /\ call.form.op \in {"permissions", "account"} => call.form.perms \subseteq call.held
        /\ call.fresh => Touches(call.form) \subseteq call.held
        /\ call.fresh /\ call.at = "write" => call.keep = Keeps(call.form)

\* What is kept is of the kind the form is about.
KeepFits ==
    call # Idle => /\ call.form.op = "permissions" => call.keep \subseteq Permissions
                   /\ call.form.op = "roles" => call.keep \subseteq Roles

GrantsInv == GrantsTypeOK /\ CallIsChecked /\ KeepFits

\* What each kind of form asks for.
LEMMA FormFields ==
    ASSUME NEW f \in Forms
    PROVE  /\ f.op \in {"permissions", "roles", "account", "createRole", "updateRole", "deleteRole"}
           /\ f.op = "permissions" => f.user \in Members /\ f.perms \subseteq Permissions
           /\ f.op = "roles" => f.user \in Members /\ f.roles \subseteq Roles
           /\ f.op = "account" => f.user \in Members /\ f.perms \subseteq Permissions /\ f.roles \subseteq Roles
           /\ f.op \in {"createRole", "updateRole"} =>
                 f.role \in Roles /\ f.perms \subseteq Permissions /\ f.who \subseteq Members
           /\ f.op = "deleteRole" => f.role \in Roles
<1>1. CASE f \in [op : {"permissions"}, user : Members, perms : SUBSET Permissions]
  BY <1>1
<1>2. CASE f \in [op : {"roles"}, user : Members, roles : SUBSET Roles]
  BY <1>2
<1>3. CASE f \in [op : {"account"}, user : Members, perms : SUBSET Permissions, roles : SUBSET Roles]
  BY <1>3
<1>4. CASE f \in [op : {"createRole", "updateRole"}, role : Roles, perms : SUBSET Permissions, who : SUBSET Members]
  BY <1>4
<1>5. CASE f \in [op : {"deleteRole"}, role : Roles]
  BY <1>5
<1> QED
  BY <1>1, <1>2, <1>3, <1>4, <1>5 DEF Forms

\* A permission is held when it was given, or a role that exists gives it.
LEMMA HeldIs ==
    ASSUME NEW u, NEW p
    PROVE  p \in Held(u) <=> \/ p \in direct[u]
                             \/ \E r \in Roles : carries[r] # NoRole /\ u \in assigned[r] /\ p \in carries[r]
BY DEF Held, Carried, RolesOf, Exist

\* The same of the tables as a step leaves them.
LEMMA HeldIsPrimed ==
    ASSUME NEW u, NEW p
    PROVE  p \in Held(u)' <=> \/ p \in direct'[u]
                              \/ \E r \in Roles : carries'[r] # NoRole /\ u \in assigned'[r] /\ p \in carries'[r]
BY DEF Held, Carried, RolesOf, Exist

\* The name that stands for no role is no role's set of permissions.
LEMMA NoRoleIsNone == \A S \in SUBSET Permissions : S # NoRole
BY PermissionsAssumption DEF NoRole

\* The tables as the seed leaves them satisfy the invariant.
LEMMA GrantsInitInv == GrantsInit => GrantsInv
<1> SUFFICES ASSUME GrantsInit PROVE GrantsInv
  OBVIOUS
<1>1. GrantsTypeOK
  BY DEF GrantsInit, GrantsTypeOK
<1>2. CallIsChecked /\ KeepFits
  BY DEF GrantsInit, CallIsChecked, KeepFits
<1> QED
  BY <1>1, <1>2 DEF GrantsInv

\* What a call may keep.
LEMMA KeepsFit ==
    ASSUME GrantsTypeOK, NEW f \in Forms
    PROVE  /\ Keeps(f) \in (SUBSET Permissions) \cup (SUBSET Roles)
           /\ f.op = "permissions" => Keeps(f) \subseteq Permissions
           /\ f.op = "roles" => Keeps(f) \subseteq Roles
<1>1. f.op = "permissions" => f.user \in Members
  BY FormFields
<1>2. CASE f.op = "permissions"
  <2>1. direct[f.user] \subseteq Permissions
    BY <1>1, <1>2 DEF GrantsTypeOK
  <2>2. Keeps(f) = {} \/ Keeps(f) = direct[f.user] \ call.held
    BY <1>2 DEF Keeps
  <2> QED
    BY <1>2, <2>1, <2>2
<1>3. CASE f.op = "roles"
  <2>1. RolesOf(f.user) \subseteq Roles
    BY DEF RolesOf, Exist
  <2>2. Keeps(f) = {} \/ Keeps(f) = {r \in RolesOf(f.user) : ~(carries[r] \subseteq call.held)}
    BY <1>3 DEF Keeps
  <2>3. Keeps(f) \subseteq Roles
    BY <2>1, <2>2
  <2> QED
    BY <1>3, <2>3
<1>4. CASE f.op \notin {"permissions", "roles"}
  <2>1. Keeps(f) = {}
    BY <1>4 DEF Keeps
  <2> QED
    BY <1>4, <2>1
<1> QED
  BY <1>2, <1>3, <1>4

\* Every step of an action on roles and grants keeps the invariant.
LEMMA GrantsNextInv == GrantsInv /\ [GrantsNext]_grantVars => GrantsInv'
<1> SUFFICES ASSUME GrantsInv, [GrantsNext]_grantVars
             PROVE  GrantsInv'
  OBVIOUS
<1>0. GrantsTypeOK /\ CallIsChecked /\ KeepFits
  BY DEF GrantsInv
<1>1. ASSUME NEW actor \in Members, NEW super \in BOOLEAN, NEW form \in Forms, CallAction(actor, super, form)
      PROVE  GrantsInv'
  <2>1. /\ (super \/ Touches(form) \subseteq Held(actor))
        /\ call' = [at |-> "look", actor |-> actor, super |-> super, form |-> form,
                    held |-> Held(actor), keep |-> {}, fresh |-> TRUE]
        /\ UNCHANGED <<direct, carries, assigned>>
    BY <1>1 DEF CallAction
  <2>2. Held(actor) \subseteq Permissions
    <3> SUFFICES ASSUME NEW p \in Held(actor) PROVE p \in Permissions
      OBVIOUS
    <3>1. CASE p \in direct[actor]
      BY <1>0, <3>1 DEF GrantsTypeOK
    <3>2. CASE p \notin direct[actor]
      <4>1. PICK r \in Roles : carries[r] # NoRole /\ p \in carries[r]
        BY <3>2, HeldIs
      <4>2. carries[r] \in SUBSET Permissions
        BY <1>0, <4>1 DEF GrantsTypeOK
      <4> QED
        BY <4>1, <4>2
    <3> QED
      BY <3>1, <3>2
  <2>3. call' \in Calling /\ call' # Idle
    BY <2>1, <2>2 DEF Calling, Idle
  <2>4. GrantsTypeOK'
    BY <1>0, <2>1, <2>3 DEF GrantsTypeOK
  <2>5. Touches(form)' = Touches(form)
    BY <2>1 DEF Touches, Carried, Exist
  <2>6. form.op \in {"permissions", "account"} => form.perms \subseteq Touches(form)
    BY DEF Touches
  <2>7. CallIsChecked'
    <3> SUFFICES ASSUME ~super
                 PROVE  /\ form.op \in {"permissions", "account"} => form.perms \subseteq Held(actor)
                        /\ Touches(form)' \subseteq Held(actor)
      BY <2>1, <2>5 DEF CallIsChecked, Touches, Carried, Exist
    <3> QED
      BY <2>1, <2>5, <2>6
  <2>8. KeepFits'
    BY <2>1 DEF KeepFits
  <2> QED
    BY <2>4, <2>7, <2>8 DEF GrantsInv
<1>2. CASE LookUpGrants
  <2>1. /\ call.at = "look" /\ call' = [call EXCEPT !.at = "write", !.keep = Keeps(call.form)]
        /\ UNCHANGED <<direct, carries, assigned>>
    BY <1>2 DEF LookUpGrants
  <2>2. call \in Calling /\ call # Idle
    BY <1>0, <2>1 DEF GrantsTypeOK, Idle
  <2>3. call' = [at |-> "write", actor |-> call.actor, super |-> call.super, form |-> call.form,
                 held |-> call.held, keep |-> Keeps(call.form), fresh |-> call.fresh]
    BY <2>1, <2>2 DEF Calling
  <2>4. /\ call.form \in Forms /\ Keeps(call.form) \in (SUBSET Permissions) \cup (SUBSET Roles)
        /\ call.form.op = "permissions" => Keeps(call.form) \subseteq Permissions
        /\ call.form.op = "roles" => Keeps(call.form) \subseteq Roles
    BY <1>0, <2>2, KeepsFit DEF Calling
  <2>5. call' \in Calling /\ call' # Idle
    BY <2>2, <2>3, <2>4 DEF Calling, Idle
  <2>6. GrantsTypeOK'
    BY <1>0, <2>1, <2>5 DEF GrantsTypeOK
  <2>7. KeepFits'
    BY <2>3, <2>4 DEF KeepFits
  <2>8. Touches(call.form)' = Touches(call.form)
    <3>1. call'.form = call.form
      BY <2>3
    <3> QED
      BY <2>1, <3>1 DEF Touches, Carried, Exist
  <2>9. Keeps(call.form)' = Keeps(call.form)
    <3>1. call'.form = call.form /\ call'.held = call.held /\ call'.super = call.super
      BY <2>3
    <3> QED
      BY <2>1, <3>1 DEF Keeps, RolesOf, Exist
  <2>10. CallIsChecked'
    BY <1>0, <2>2, <2>3, <2>8, <2>9 DEF CallIsChecked
  <2> QED
    BY <2>6, <2>7, <2>10 DEF GrantsInv
<1>3. CASE Write
  <2> DEFINE f == call.form
  <2>1. call.at = "write" /\ Stands(f) /\ Replace(f) /\ call' = Idle
    BY <1>3 DEF Write
  <2>2. call \in Calling /\ call # Idle
    BY <1>0, <2>1 DEF GrantsTypeOK, Idle
  <2>3. f \in Forms
    BY <2>2 DEF Calling
  <2> HIDE DEF f
  <2>4. /\ f.op \in {"permissions", "roles", "account", "createRole", "updateRole", "deleteRole"}
        /\ f.op = "permissions" => f.user \in Members /\ f.perms \subseteq Permissions
        /\ f.op = "roles" => f.user \in Members /\ f.roles \subseteq Roles
        /\ f.op = "account" => f.user \in Members /\ f.perms \subseteq Permissions /\ f.roles \subseteq Roles
        /\ f.op \in {"createRole", "updateRole"} =>
              f.role \in Roles /\ f.perms \subseteq Permissions /\ f.who \subseteq Members
        /\ f.op = "deleteRole" => f.role \in Roles
    BY <2>3, FormFields
  <2>5. f.op = "permissions" => call.keep \subseteq Permissions
    BY <1>0, <2>2 DEF KeepFits, f
  <2>6. /\ direct' \in [Members -> SUBSET Permissions]
        /\ carries' \in [Roles -> (SUBSET Permissions) \cup {NoRole}]
        /\ assigned' \in [Roles -> SUBSET Members]
    <3>1. CASE f.op = "permissions"
      BY <1>0, <2>1, <2>4, <2>5, <3>1 DEF Replace, GrantsTypeOK
    <3>2. CASE f.op = "roles"
      BY <1>0, <2>1, <2>4, <3>2 DEF Replace, GrantsTypeOK, AssignOnly
    <3>3. CASE f.op = "account"
      BY <1>0, <2>1, <2>4, <3>3 DEF Replace, GrantsTypeOK, AssignOnly
    <3>4. CASE f.op \in {"createRole", "updateRole"}
      BY <1>0, <2>1, <2>4, <3>4 DEF Replace, GrantsTypeOK
    <3>5. CASE f.op = "deleteRole"
      <4>1. /\ carries' = [carries EXCEPT ![f.role] = NoRole]
            /\ assigned' = [assigned EXCEPT ![f.role] = {}] /\ direct' = direct
        BY <2>1, <3>5 DEF Replace
      <4>2. assigned' \in [Roles -> SUBSET Members]
        BY <1>0, <4>1 DEF GrantsTypeOK
      <4>3. carries' \in [Roles -> (SUBSET Permissions) \cup {NoRole}]
        BY <1>0, <4>1 DEF GrantsTypeOK
      <4> QED
        BY <1>0, <4>1, <4>2, <4>3 DEF GrantsTypeOK
    <3> QED
      BY <2>4, <3>1, <3>2, <3>3, <3>4, <3>5
  <2> QED
    BY <2>1, <2>6 DEF GrantsInv, GrantsTypeOK, CallIsChecked, KeepFits
<1>4. CASE Throw
  BY <1>0, <1>4 DEF Throw, GrantsInv, GrantsTypeOK, CallIsChecked, KeepFits
<1>5. CASE Elsewhere
  <2>1. /\ direct' \in [Members -> SUBSET Permissions]
        /\ carries' \in [Roles -> (SUBSET Permissions) \cup {NoRole}]
        /\ assigned' \in [Roles -> SUBSET Members]
    <3>1. ASSUME NEW u \in Members, NEW p \in Permissions,
                 direct' = [direct EXCEPT ![u] = Toggled(@, p)], UNCHANGED <<carries, assigned>>
          PROVE  <2>1
      BY <1>0, <3>1 DEF GrantsTypeOK, Toggled, Differ
    <3>2. ASSUME NEW r \in Exist, NEW p \in Permissions,
                 carries' = [carries EXCEPT ![r] = Toggled(@, p)], UNCHANGED <<direct, assigned>>
          PROVE  <2>1
      BY <1>0, <3>2 DEF GrantsTypeOK, Toggled, Differ, Exist
    <3>3. ASSUME NEW r \in Exist, NEW u \in Members,
                 assigned' = [assigned EXCEPT ![r] = Toggled(@, u)], UNCHANGED <<direct, carries>>
          PROVE  <2>1
      BY <1>0, <3>3 DEF GrantsTypeOK, Toggled, Differ, Exist
    <3>4. ASSUME NEW r \in Roles,
                 carries' = [carries EXCEPT ![r] = IF r \in Exist THEN NoRole ELSE {}],
                 assigned' = [assigned EXCEPT ![r] = {}], UNCHANGED direct
          PROVE  <2>1
      <4>1. assigned' \in [Roles -> SUBSET Members]
        BY <1>0, <3>4 DEF GrantsTypeOK
      <4>2. NoRole \in (SUBSET Permissions) \cup {NoRole} /\ {} \in (SUBSET Permissions) \cup {NoRole}
        OBVIOUS
      <4>3. carries' \in [Roles -> (SUBSET Permissions) \cup {NoRole}]
        BY <1>0, <3>4, <4>2 DEF GrantsTypeOK
      <4> QED
        BY <1>0, <3>4, <4>1, <4>3 DEF GrantsTypeOK
    <3> QED
      BY <1>5, <3>1, <3>2, <3>3, <3>4 DEF Elsewhere
  <2>2. CASE call = Idle
    BY <1>5, <2>1, <2>2 DEF Elsewhere, GrantsInv, GrantsTypeOK, CallIsChecked, KeepFits
  <2>3. CASE call # Idle
    <3>1. call \in Calling /\ call' = [call EXCEPT !.fresh = FALSE]
      BY <1>0, <1>5, <2>3 DEF GrantsTypeOK, Elsewhere
    <3>2. /\ call' \in Calling /\ call'.super = call.super /\ call'.form = call.form /\ call'.held = call.held
          /\ call'.keep = call.keep /\ call'.fresh = FALSE
      BY <3>1 DEF Calling
    <3>3. GrantsTypeOK'
      BY <2>1, <3>2 DEF GrantsTypeOK
    <3>4. CallIsChecked' /\ KeepFits'
      BY <1>0, <2>3, <3>2 DEF CallIsChecked, KeepFits
    <3> QED
      BY <3>3, <3>4 DEF GrantsInv
  <2> QED
    BY <2>2, <2>3
<1>6. CASE UNCHANGED grantVars
  <2>1. direct' = direct /\ carries' = carries /\ assigned' = assigned /\ call' = call
    BY <1>6 DEF grantVars
  <2>2. Touches(call.form)' = Touches(call.form)
    BY <2>1 DEF Touches, Carried, Exist
  <2>3. Keeps(call.form)' = Keeps(call.form)
    BY <2>1 DEF Keeps, RolesOf, Exist
  <2>4. GrantsTypeOK' /\ KeepFits'
    BY <1>0, <2>1 DEF GrantsTypeOK, KeepFits
  <2>5. CallIsChecked'
    BY <1>0, <2>1, <2>2, <2>3 DEF CallIsChecked
  <2> QED
    BY <2>4, <2>5 DEF GrantsInv
<1> QED
  BY <1>1, <1>2, <1>3, <1>4, <1>5, <1>6 DEF GrantsNext

\* A write that was checked against the tables as they are.
LEMMA WriteStaysWithin ==
    ASSUME GrantsInv, Write, ~call.super
    PROVE  \A u \in Members :
              /\ call.fresh => Differ(Held(u), Held(u)') \subseteq call.held
              /\ direct'[u] \ direct[u] \subseteq call.held \cup call.keep
<1> DEFINE f == call.form
<1>1. /\ GrantsTypeOK /\ CallIsChecked /\ call.at = "write" /\ Stands(f) /\ Replace(f)
  BY DEF GrantsInv, Write
<1>2. call \in Calling /\ call # Idle
  BY <1>1 DEF GrantsTypeOK, Idle
<1>3. f \in Forms
  BY <1>2 DEF Calling
<1>4. /\ f.op \in {"permissions", "account"} => f.perms \subseteq call.held
      /\ call.fresh => Touches(f) \subseteq call.held /\ call.keep = Keeps(f)
  BY <1>1, <1>2 DEF CallIsChecked
<1> HIDE DEF f
<1>5. /\ f.op \in {"permissions", "roles", "account", "createRole", "updateRole", "deleteRole"}
      /\ f.op = "permissions" => f.user \in Members /\ f.perms \subseteq Permissions
      /\ f.op = "roles" => f.user \in Members /\ f.roles \subseteq Roles
      /\ f.op = "account" => f.user \in Members /\ f.perms \subseteq Permissions /\ f.roles \subseteq Roles
      /\ f.op \in {"createRole", "updateRole"} =>
            f.role \in Roles /\ f.perms \subseteq Permissions /\ f.who \subseteq Members
      /\ f.op = "deleteRole" => f.role \in Roles
  BY <1>3, FormFields
<1>6. ASSUME NEW u \in Members
      PROVE  direct'[u] \ direct[u] \subseteq call.held \cup call.keep
  BY <1>1, <1>4, <1>5, ZenonT(60) DEF Replace, GrantsTypeOK
<1>7. ASSUME NEW u \in Members, call.fresh, NEW p, p \in Differ(Held(u), Held(u)')
      PROVE  p \in call.held
  <2>1. Touches(f) \subseteq call.held /\ call.keep = Keeps(f)
    BY <1>4, <1>7
  <2>2. CASE f.op = "permissions"
    <3>1. /\ direct' = [direct EXCEPT ![f.user] = call.keep \cup f.perms]
          /\ carries' = carries /\ assigned' = assigned
      BY <1>1, <2>2 DEF Replace
    <3>2. call.keep = direct[f.user] \ call.held
      BY <2>1, <2>2 DEF Keeps
    <3>3. p \in Differ(direct[u], direct'[u])
      BY <1>7, <3>1, HeldIs, HeldIsPrimed DEF Differ
    <3> QED
      BY <1>1, <1>4, <1>5, <2>2, <3>1, <3>2, <3>3 DEF Differ, GrantsTypeOK
  <2>3. CASE f.op = "roles"
    <3>1. /\ assigned' = [r \in Roles |-> IF r \in call.keep \cup f.roles THEN assigned[r] \cup {f.user}
                                          ELSE assigned[r] \ {f.user}]
          /\ carries' = carries /\ direct' = direct /\ f.roles \subseteq Exist
      BY <1>1, <2>3 DEF Replace, AssignOnly, Stands
    <3>2. call.keep = {r \in RolesOf(f.user) : ~(carries[r] \subseteq call.held)}
      BY <2>1, <2>3 DEF Keeps
    <3>3. PICK r \in Roles : carries[r] # NoRole /\ p \in carries[r] /\ ~(u \in assigned[r] <=> u \in assigned'[r])
      BY <1>7, <3>1, HeldIs, HeldIsPrimed DEF Differ
    <3>4. u = f.user
      BY <3>1, <3>3
    <3>5. CASE r \in f.roles
      <4>1. p \in Carried(f.roles)
        BY <3>1, <3>3, <3>5 DEF Carried
      <4> QED
        BY <2>1, <2>3, <4>1 DEF Touches
    <3>6. CASE r \notin f.roles
      <4>1. u \in assigned[r] /\ r \notin call.keep
        BY <3>1, <3>2, <3>3, <3>4, <3>6 DEF RolesOf
      <4> QED
        BY <3>2, <3>3, <3>4, <4>1 DEF RolesOf, Exist
    <3> QED
      BY <3>5, <3>6
  <2>4. CASE f.op = "account"
    <3>1. /\ direct' = [direct EXCEPT ![f.user] = f.perms]
          /\ assigned' = [r \in Roles |-> IF r \in f.roles THEN assigned[r] \cup {f.user} ELSE assigned[r] \ {f.user}]
          /\ carries' = carries /\ f.roles \subseteq Exist /\ Held(f.user) = {}
      BY <1>1, <2>4 DEF Replace, AssignOnly, Stands
    <3>2. u = f.user
      <4>1. CASE u # f.user
        <5>1. direct'[u] = direct[u] /\ \A r \in Roles : u \in assigned'[r] <=> u \in assigned[r]
          BY <1>1, <3>1, <4>1 DEF GrantsTypeOK
        <5> QED
          BY <1>7, <3>1, <5>1, HeldIs, HeldIsPrimed DEF Differ
      <4> QED
        BY <4>1
    <3>3. p \in Held(u)'
      BY <1>7, <3>1, <3>2 DEF Differ
    <3>4. CASE p \in direct'[u]
      BY <1>1, <1>4, <2>4, <3>1, <3>2, <3>4 DEF GrantsTypeOK
    <3>5. CASE p \notin direct'[u]
      <4>1. PICK r \in Roles : carries[r] # NoRole /\ u \in assigned'[r] /\ p \in carries[r]
        BY <3>1, <3>3, <3>5, HeldIsPrimed
      <4>2. r \in f.roles
        BY <3>1, <3>2, <4>1
      <4>3. p \in Carried(f.roles)
        BY <3>1, <4>1, <4>2 DEF Carried
      <4> QED
        BY <2>1, <2>4, <4>3 DEF Touches
    <3> QED
      BY <3>4, <3>5
  <2>5. CASE f.op \in {"createRole", "updateRole"}
    <3>1. /\ carries' = [carries EXCEPT ![f.role] = f.perms]
          /\ assigned' = [assigned EXCEPT ![f.role] = f.who] /\ direct' = direct
      BY <1>1, <2>5 DEF Replace
    <3>2. \A r \in Roles \ {f.role} : carries'[r] = carries[r] /\ assigned'[r] = assigned[r]
      BY <1>1, <3>1 DEF GrantsTypeOK
    <3>3. (p \in carries[f.role] /\ carries[f.role] # NoRole) \/ p \in carries'[f.role]
      BY <1>7, <3>1, <3>2, HeldIs, HeldIsPrimed DEF Differ
    <3>4. carries'[f.role] = f.perms
      BY <1>1, <1>5, <2>5, <3>1 DEF GrantsTypeOK
    <3>5. CASE p \in f.perms
      BY <2>1, <2>5, <3>5 DEF Touches
    <3>6. CASE p \notin f.perms
      <4>1. f.role \in Exist
        BY <1>5, <2>5, <3>3, <3>4, <3>6 DEF Exist
      <4>2. f.op = "updateRole"
        BY <1>1, <2>5, <4>1 DEF Stands
      <4> QED
        BY <2>1, <3>3, <3>4, <3>6, <4>2 DEF Touches
    <3> QED
      BY <3>5, <3>6
  <2>6. CASE f.op = "deleteRole"
    <3>1. /\ carries' = [carries EXCEPT ![f.role] = NoRole]
          /\ assigned' = [assigned EXCEPT ![f.role] = {}] /\ direct' = direct
      BY <1>1, <2>6 DEF Replace
    <3>2. \A r \in Roles \ {f.role} : carries'[r] = carries[r] /\ assigned'[r] = assigned[r]
      BY <1>1, <3>1 DEF GrantsTypeOK
    <3>3. carries'[f.role] = NoRole
      BY <1>1, <1>5, <2>6, <3>1 DEF GrantsTypeOK
    <3>4. p \in carries[f.role]
      BY <1>7, <3>1, <3>2, <3>3, HeldIs, HeldIsPrimed DEF Differ
    <3> QED
      BY <2>1, <2>6, <3>4 DEF Touches
  <2> QED
    BY <1>5, <2>2, <2>3, <2>4, <2>5, <2>6
<1>8. ASSUME NEW u \in Members, call.fresh
      PROVE  Differ(Held(u), Held(u)') \subseteq call.held
  BY <1>7, <1>8
<1> QED
  BY <1>6, <1>8

\* Whatever the members, roles and permissions, no action on roles or grants writes
\* more than the one who called it held when it was checked.
THEOREM GrantsAreWithinAuthority == GrantsSpec => GrantsStayWithinAuthority
<1>1. GrantsSpec => []GrantsInv
  BY GrantsInitInv, GrantsNextInv, PTL DEF GrantsSpec
<1>2. GrantsInv /\ [GrantsNext]_grantVars =>
         [Write => \/ call.super
                   \/ \A u \in Members :
                         /\ call.fresh => Differ(Held(u), Held(u)') \subseteq call.held
                         /\ direct'[u] \ direct[u] \subseteq call.held \cup call.keep]_grantVars
  BY WriteStaysWithin
<1> QED
  BY <1>1, <1>2, PTL DEF GrantsSpec, GrantsStayWithinAuthority

-----------------------------------------------------------------------------
(* Receipts of submitted jobs. *)

Request == [at : {"look", "create", "again", "compile", "send", "over"}, receipt : Receipts,
            answer : SUBSET Submits]

SubmitTypeOK ==
    /\ submit \in [Submits -> {NotSubmitted} \cup Request]
    /\ row \in [Submits -> [status : {"none", "QUEUED", "COMPLETED", "FAILED"}, keyed : BOOLEAN]]
    /\ sent \subseteq Submits /\ released \subseteq Submits

\* Before its insert a submit has no row, and one whose job was sent is over.
RowFollowsRequest ==
    \A s \in Submits :
        /\ submit[s].at \in {"none", "look", "create", "again"} => row[s] = NoRow
        /\ submit[s].at \in {"compile", "send"} => row[s].status # "none" /\ s \notin sent
        /\ s \in sent => submit[s].at = "over" /\ row[s].status # "none"
        /\ row[s].status = "none" => row[s] = NoRow

\* One row has the key, and a job on its way to the printer or sent has it,
\* unless it was written off.
KeyIsHeld ==
    /\ AtMostOne(Keyed)
    /\ \A s \in Submits :
          (s \in sent \/ submit[s].at \in {"compile", "send"}) => s \in Keyed \cup released

\* An answer names only submits that have a row and asked for the same receipt.
AnswersFit ==
    \A s \in Submits : submit[s] # NotSubmitted =>
        \A j \in submit[s].answer :
            submit[j] # NotSubmitted /\ submit[j].receipt = submit[s].receipt /\ row[j] # NoRow

SubmitInv == SubmitTypeOK /\ RowFollowsRequest /\ KeyIsHeld /\ AnswersFit

\* A server that was sent nothing satisfies the invariant.
LEMMA SubmitInitInv == SubmitInit => SubmitInv
<1> SUFFICES ASSUME SubmitInit PROVE SubmitInv
  OBVIOUS
<1> USE DEF SubmitInit, NotSubmitted, NoRow
<1>1. SubmitTypeOK
  BY DEF SubmitTypeOK
<1>2. RowFollowsRequest
  BY DEF RowFollowsRequest
<1>3. KeyIsHeld /\ AnswersFit
  BY DEF KeyIsHeld, Keyed, AtMostOne, AnswersFit
<1> QED
  BY <1>1, <1>2, <1>3 DEF SubmitInv

\* What the helpers make of the request they move.
LEMMA RequestMoves ==
    ASSUME SubmitTypeOK, NEW s \in Submits, submit[s] # NotSubmitted, NEW to \in {"look", "create", "again", "compile", "send", "over"},
           NEW ans \in SUBSET Submits,
           submit' = [submit EXCEPT ![s].at = to] \/ submit' = [submit EXCEPT ![s].at = to, ![s].answer = ans]
    PROVE  /\ submit' \in [Submits -> {NotSubmitted} \cup Request]
           /\ \A j \in Submits : submit'[j] = NotSubmitted <=> submit[j] = NotSubmitted
           /\ \A j \in Submits : submit'[j].receipt = submit[j].receipt
           /\ submit'[s].at = to
           /\ \A j \in Submits \ {s} : submit'[j] = submit[j]
           /\ submit'[s].answer \in {submit[s].answer, ans}
<1>1. submit[s] \in Request
  BY DEF SubmitTypeOK
<1>2. submit'[s] \in Request /\ submit'[s].at = to /\ submit'[s].receipt = submit[s].receipt
                           /\ submit'[s].answer \in {submit[s].answer, ans}
  <2>1. CASE submit' = [submit EXCEPT ![s].at = to]
    BY <1>1, <2>1 DEF SubmitTypeOK, Request
  <2>2. CASE submit' = [submit EXCEPT ![s].at = to, ![s].answer = ans]
    <3>1. submit'[s] = [[submit[s] EXCEPT !.at = to] EXCEPT !.answer = ans]
      BY <2>2 DEF SubmitTypeOK
    <3> QED
      BY <1>1, <3>1 DEF Request
  <2> QED
    BY <2>1, <2>2
<1>3. submit' = [submit EXCEPT ![s] = submit'[s]]
  <2>1. CASE submit' = [submit EXCEPT ![s].at = to]
    BY <2>1 DEF SubmitTypeOK
  <2>2. CASE submit' = [submit EXCEPT ![s].at = to, ![s].answer = ans]
    BY <2>2 DEF SubmitTypeOK
  <2> QED
    BY <2>1, <2>2
<1>4. submit'[s] # NotSubmitted
  BY <1>2 DEF NotSubmitted, Request
<1> QED
  BY <1>2, <1>3, <1>4 DEF SubmitTypeOK

\* A step that writes no receipt and leaves the requests as far along keeps the
\* invariant.
LEMMA RowsKeptInv ==
    ASSUME SubmitInv, RowsKept, NEW s \in Submits, submit[s] # NotSubmitted, NEW to \in {"create", "again", "over"},
           submit[s].at \in {"look", "create", "again"},
           GoesTo(s, to) \/ (to = "over" /\ (Refused(s) \/ Replay(s)))
    PROVE  SubmitInv'
<1>1. PICK ans \in SUBSET Submits :
         /\ \/ submit' = [submit EXCEPT ![s].at = to]
            \/ submit' = [submit EXCEPT ![s].at = to, ![s].answer = ans]
         /\ \A j \in ans : j \in Keyed /\ submit[j].receipt = submit[s].receipt
  <2>1. CASE GoesTo(s, to) \/ (to = "over" /\ Refused(s))
    <3> WITNESS {} \in SUBSET Submits
    <3> QED
      BY <2>1 DEF GoesTo, Refused, Answered
  <2>2. CASE to = "over" /\ Replay(s)
    <3>1. PICK j \in Keyed : IF submit[j].receipt = submit[s].receipt THEN Answered(s, {j}) ELSE Refused(s)
      BY <2>2 DEF Replay
    <3>2. j \in Submits
      BY <3>1 DEF Keyed
    <3>3. CASE submit[j].receipt = submit[s].receipt
      <4> USE <3>2
      <4> WITNESS {j} \in SUBSET Submits
      <4> QED
        BY <2>2, <3>1, <3>3 DEF Answered
    <3>4. CASE submit[j].receipt # submit[s].receipt
      <4> WITNESS {} \in SUBSET Submits
      <4> QED
        BY <2>2, <3>1, <3>4 DEF Refused, Answered
    <3> QED
      BY <3>3, <3>4
  <2> QED
    BY <2>1, <2>2
<1>2. /\ submit' \in [Submits -> {NotSubmitted} \cup Request]
      /\ \A j \in Submits : submit'[j] = NotSubmitted <=> submit[j] = NotSubmitted
      /\ \A j \in Submits : submit'[j].receipt = submit[j].receipt
      /\ submit'[s].at = to
      /\ \A j \in Submits \ {s} : submit'[j] = submit[j]
      /\ submit'[s].answer \in {submit[s].answer, ans}
  <2>1. SubmitTypeOK /\ to \in {"look", "create", "again", "compile", "send", "over"}
    BY DEF SubmitInv
  <2>2. submit' = [submit EXCEPT ![s].at = to] \/ submit' = [submit EXCEPT ![s].at = to, ![s].answer = ans]
    BY <1>1
  <2> QED
    BY <2>1, <2>2, RequestMoves
<1>3. row' = row /\ sent' = sent /\ released' = released /\ Keyed' = Keyed
  BY DEF RowsKept, Keyed
<1>4. SubmitTypeOK'
  BY <1>2, <1>3 DEF SubmitInv, SubmitTypeOK
<1>5. RowFollowsRequest'
  BY <1>2, <1>3 DEF SubmitInv, RowFollowsRequest
<1>6. KeyIsHeld'
  BY <1>2, <1>3 DEF SubmitInv, KeyIsHeld
<1>7. \A j \in Keyed : submit[j] # NotSubmitted /\ row[j] # NoRow
  BY DEF SubmitInv, RowFollowsRequest, NotSubmitted, NoRow, Keyed
<1>8. AnswersFit'
  <2> SUFFICES ASSUME NEW t \in Submits, submit'[t] # NotSubmitted, NEW j \in submit'[t].answer
               PROVE  submit'[j] # NotSubmitted /\ submit'[j].receipt = submit'[t].receipt /\ row'[j] # NoRow
    BY DEF AnswersFit
  <2>1. submit[t] # NotSubmitted /\ submit'[t].answer \subseteq Submits
    BY <1>2 DEF Request
  <2>2. CASE j \in submit[t].answer
    BY <1>2, <1>3, <2>1, <2>2 DEF SubmitInv, AnswersFit
  <2>3. CASE t = s /\ j \in ans
    BY <1>1, <1>2, <1>3, <1>7, <2>1, <2>3
  <2> QED
    BY <1>2, <2>2, <2>3
<1> QED
  BY <1>4, <1>5, <1>6, <1>8 DEF SubmitInv

\* A row that has the key, or had one, and what was asked for it.
LEMMA KeyedWasAsked ==
    ASSUME SubmitInv, NEW j \in Keyed
    PROVE  j \in Submits /\ submit[j] # NotSubmitted /\ row[j] # NoRow
BY DEF SubmitInv, RowFollowsRequest, NotSubmitted, NoRow, Keyed

\* Answers stay true when receipts and rows stay and no answer grows, but by the
\* request's own row.
LEMMA AnswersKept ==
    ASSUME SubmitTypeOK, AnswersFit, NEW s \in Submits,
           \A j \in Submits : submit'[j] = NotSubmitted <=> submit[j] = NotSubmitted,
           \A j \in Submits : submit'[j].receipt = submit[j].receipt,
           \A j \in Submits : row[j] # NoRow => row'[j] # NoRow,
           \A j \in Submits \ {s} : submit'[j].answer = submit[j].answer,
           submit'[s].answer \in {submit[s].answer, {}} \/ (submit'[s].answer = {s} /\ row'[s] # NoRow)
    PROVE  AnswersFit'
<1> SUFFICES ASSUME NEW t \in Submits, submit'[t] # NotSubmitted, NEW j \in submit'[t].answer
             PROVE  submit'[j] # NotSubmitted /\ submit'[j].receipt = submit'[t].receipt /\ row'[j] # NoRow
  BY DEF AnswersFit
<1>1. submit[t] # NotSubmitted
  OBVIOUS
<1>2. submit[t].answer \subseteq Submits
  BY <1>1 DEF SubmitTypeOK, Request
<1>3. CASE j \in submit[t].answer
  <2>1. submit[j] # NotSubmitted /\ submit[j].receipt = submit[t].receipt /\ row[j] # NoRow /\ j \in Submits
    BY <1>1, <1>2, <1>3 DEF AnswersFit
  <2> QED
    BY <2>1
<1>4. CASE t = s /\ j = s /\ row'[s] # NoRow
  BY <1>4
<1> QED
  BY <1>1, <1>3, <1>4

\* Every step of a submission, a sweep and a retry keeps the invariant.
LEMMA SubmitNextInv == SubmitInv /\ [SubmitNext]_submitVars => SubmitInv'
<1> SUFFICES ASSUME SubmitInv, [SubmitNext]_submitVars
             PROVE  SubmitInv'
  OBVIOUS
<1>0. SubmitTypeOK /\ RowFollowsRequest /\ KeyIsHeld /\ AnswersFit
  BY DEF SubmitInv
<1>1. ASSUME NEW s \in Submits, NEW r \in Receipts, SubmitKeyed(s, r)
      PROVE  SubmitInv'
  <2>1. /\ submit[s] = NotSubmitted /\ submit[s].at = "none"
        /\ submit' = [submit EXCEPT ![s] = [at |-> "look", receipt |-> r, answer |-> {}]]
        /\ row' = row /\ sent' = sent /\ released' = released /\ Keyed' = Keyed
    BY <1>1 DEF SubmitKeyed, RowsKept, NotSubmitted, Keyed
  <2>2. SubmitTypeOK'
    BY <1>0, <2>1 DEF SubmitTypeOK, Request
  <2>3. RowFollowsRequest'
    BY <1>0, <2>1 DEF SubmitTypeOK, RowFollowsRequest
  <2>4. KeyIsHeld'
    BY <1>0, <2>1 DEF SubmitTypeOK, KeyIsHeld
  <2>5. AnswersFit'
    <3>1. submit'[s].answer = {} /\ \A t \in Submits \ {s} : submit'[t] = submit[t]
      BY <1>0, <2>1 DEF SubmitTypeOK
    <3>2. \A t \in Submits \ {s} : submit[t] # NotSubmitted => s \notin submit[t].answer
      BY <1>0, <2>1 DEF AnswersFit
    <3> QED
      BY <1>0, <2>1, <3>1, <3>2 DEF SubmitTypeOK, Request, AnswersFit
  <2> QED
    BY <2>2, <2>3, <2>4, <2>5 DEF SubmitInv
<1>2. ASSUME NEW s \in Submits, FindReplay(s) \/ FindReplayAgain(s) \/ RefuseEarly(s)
      PROVE  SubmitInv'
  <2>1. submit[s] # NotSubmitted /\ submit[s].at \in {"look", "create", "again"} /\ RowsKept
    BY <1>2 DEF FindReplay, FindReplayAgain, RefuseEarly, NotSubmitted
  <2>2. GoesTo(s, "create") \/ Refused(s) \/ Replay(s)
    BY <1>2 DEF FindReplay, FindReplayAgain, RefuseEarly
  <2> QED
    BY <2>1, <2>2, RowsKeptInv
<1>3. ASSUME NEW s \in Submits, Insert(s)
      PROVE  SubmitInv'
  <2>1. submit[s] # NotSubmitted /\ submit[s].at = "create"
    BY <1>3 DEF Insert, NotSubmitted
  <2>2. CASE Keyed # {}
    BY <1>3, <2>1, <2>2, RowsKeptInv DEF Insert
  <2>3. CASE Keyed = {}
    <3>1. /\ row' = [row EXCEPT ![s] = [status |-> "QUEUED", keyed |-> TRUE]]
          /\ submit' = [submit EXCEPT ![s].at = "compile"]
          /\ sent' = sent /\ released' = released
      BY <1>3, <2>3 DEF Insert, GoesTo
    <3>2. /\ submit' \in [Submits -> {NotSubmitted} \cup Request]
          /\ \A j \in Submits : submit'[j] = NotSubmitted <=> submit[j] = NotSubmitted
          /\ \A j \in Submits : submit'[j].receipt = submit[j].receipt
          /\ submit'[s].at = "compile"
          /\ \A j \in Submits \ {s} : submit'[j] = submit[j]
          /\ submit'[s].answer \in {submit[s].answer, {}}
      BY <1>0, <2>1, <3>1, RequestMoves
    <3>3. row'[s] = [status |-> "QUEUED", keyed |-> TRUE] /\ \A j \in Submits \ {s} : row'[j] = row[j]
      BY <1>0, <3>1 DEF SubmitTypeOK
    <3>4. Keyed' = {s}
      BY <2>3, <3>3 DEF Keyed
    <3>5. SubmitTypeOK'
      BY <1>0, <3>1, <3>2 DEF SubmitTypeOK
    <3>6. RowFollowsRequest'
      BY <1>0, <2>1, <3>1, <3>2, <3>3 DEF RowFollowsRequest
    <3>7. KeyIsHeld'
      BY <1>0, <2>3, <3>1, <3>2, <3>4 DEF KeyIsHeld, AtMostOne
    <3>8. AnswersFit'
      <4>1. submit'[s].answer = submit[s].answer \/ submit'[s].answer = {}
        BY <3>2
      <4>2. row'[s] # NoRow
        BY <3>3 DEF NoRow
      <4>3. \A j \in Submits : row[j] # NoRow => row'[j] # NoRow
        BY <3>3, <4>2
      <4> QED
        BY <1>0, <3>2, <4>1, <4>2, <4>3, AnswersKept
    <3> QED
      BY <3>5, <3>6, <3>7, <3>8 DEF SubmitInv
  <2> QED
    BY <2>2, <2>3
<1>4. ASSUME NEW s \in Submits, Compile(s) \/ Send(s)
      PROVE  SubmitInv'
  <2>1. /\ submit[s] # NotSubmitted /\ submit[s].at \in {"compile", "send"}
        /\ row' = row /\ released' = released /\ Keyed' = Keyed
    BY <1>4 DEF Compile, Send, NotSubmitted, RowsKept, Keyed
  <2>2. PICK to \in {"send", "over"} :
           /\ \/ submit' = [submit EXCEPT ![s].at = to]
              \/ submit' = [submit EXCEPT ![s].at = to, ![s].answer = {s}]
           /\ sent' = IF to = "over" THEN sent \cup {s} ELSE sent
    BY <1>4 DEF Compile, Send, GoesTo, Answered, RowsKept
  <2>3. /\ submit' \in [Submits -> {NotSubmitted} \cup Request]
        /\ \A j \in Submits : submit'[j] = NotSubmitted <=> submit[j] = NotSubmitted
        /\ \A j \in Submits : submit'[j].receipt = submit[j].receipt
        /\ submit'[s].at = to
        /\ \A j \in Submits \ {s} : submit'[j] = submit[j]
        /\ submit'[s].answer \in {submit[s].answer, {s}}
    <3>1. {s} \in SUBSET Submits /\ to \in {"look", "create", "again", "compile", "send", "over"}
      OBVIOUS
    <3> HIDE DEF NotSubmitted
    <3> QED
      BY <1>0, <2>1, <2>2, <3>1, RequestMoves, ZenonT(60)
  <2>4. SubmitTypeOK'
    BY <1>0, <2>1, <2>2, <2>3 DEF SubmitTypeOK
  <2>5. RowFollowsRequest'
    BY <1>0, <2>1, <2>2, <2>3 DEF RowFollowsRequest
  <2>6. KeyIsHeld'
    BY <1>0, <2>1, <2>2, <2>3 DEF KeyIsHeld
  <2>7. row[s] # NoRow
    BY <1>0, <2>1 DEF RowFollowsRequest, NoRow
  <2>8. AnswersFit'
    <3>1. submit'[s].answer = submit[s].answer \/ submit'[s].answer = {s}
      BY <2>3
    <3> QED
      BY <1>0, <2>1, <2>3, <2>7, <3>1, AnswersKept
  <2> QED
    BY <2>4, <2>5, <2>6, <2>8 DEF SubmitInv
<1>5. ASSUME NEW s \in Submits, Fail(s)
      PROVE  SubmitInv'
  <2>1. /\ submit[s] # NotSubmitted /\ submit[s].at \in {"compile", "send"}
        /\ submit' = [submit EXCEPT ![s].at = "over", ![s].answer = {}]
        /\ row' = [row EXCEPT ![s] = [status |-> "FAILED", keyed |-> FALSE]] \/ row' = row
        /\ sent' = sent /\ released' = released
    BY <1>5 DEF Fail, NotSubmitted, Refused, Answered
  <2>2. /\ submit' \in [Submits -> {NotSubmitted} \cup Request]
        /\ \A j \in Submits : submit'[j] = NotSubmitted <=> submit[j] = NotSubmitted
        /\ \A j \in Submits : submit'[j].receipt = submit[j].receipt
        /\ submit'[s].at = "over"
        /\ \A j \in Submits \ {s} : submit'[j] = submit[j]
        /\ submit'[s].answer \in {submit[s].answer, {}}
    BY <1>0, <2>1, RequestMoves
  <2>3. /\ row'[s] = [status |-> "FAILED", keyed |-> FALSE] \/ row'[s] = row[s]
        /\ \A j \in Submits \ {s} : row'[j] = row[j]
    BY <1>0, <2>1 DEF SubmitTypeOK
  <2>4. Keyed' \subseteq Keyed /\ Keyed \subseteq Keyed' \cup {s}
    BY <2>3 DEF Keyed
  <2>5. SubmitTypeOK'
    <3>1. row' \in [Submits -> [status : {"none", "QUEUED", "COMPLETED", "FAILED"}, keyed : BOOLEAN]]
      <4>1. CASE row' = [row EXCEPT ![s] = [status |-> "FAILED", keyed |-> FALSE]]
        BY <1>0, <4>1 DEF SubmitTypeOK
      <4>2. CASE row' = row
        BY <1>0, <4>2 DEF SubmitTypeOK
      <4> QED
        BY <2>1, <4>1, <4>2
    <3> QED
      BY <1>0, <2>1, <2>2, <3>1 DEF SubmitTypeOK
  <2>6. RowFollowsRequest'
    BY <1>0, <2>1, <2>2, <2>3 DEF RowFollowsRequest
  <2>7. s \notin sent
    BY <1>0, <2>1 DEF RowFollowsRequest
  <2>8. KeyIsHeld'
    BY <1>0, <2>1, <2>2, <2>4, <2>7 DEF KeyIsHeld, AtMostOne
  <2>9. AnswersFit'
    <3>1. submit'[s].answer = submit[s].answer \/ submit'[s].answer = {}
      BY <2>2
    <3>2. \A j \in Submits : row[j] # NoRow => row'[j] # NoRow
      BY <2>3 DEF NoRow
    <3> QED
      BY <1>0, <2>2, <3>1, <3>2, AnswersKept
  <2> QED
    BY <2>5, <2>6, <2>8, <2>9 DEF SubmitInv
<1>6. ASSUME NEW j \in Submits, SettleUnfinished(j) \/ Report(j)
      PROVE  SubmitInv'
  <2>1. /\ row[j].status = "QUEUED" /\ submit' = submit /\ sent' = sent
        /\ \/ /\ row' = [row EXCEPT ![j] = [status |-> "FAILED", keyed |-> FALSE]]
              /\ released' = released \cup {j}
           \/ /\ j \in sent
              /\ \E st \in {"COMPLETED", "FAILED"} : row' = [row EXCEPT ![j].status = st]
              /\ released' = released
    BY <1>6 DEF SettleUnfinished, Report
  <2>2. /\ row' \in [Submits -> [status : {"none", "QUEUED", "COMPLETED", "FAILED"}, keyed : BOOLEAN]]
        /\ row'[j].status # "none" /\ \A k \in Submits \ {j} : row'[k] = row[k]
    <3>1. CASE row' = [row EXCEPT ![j] = [status |-> "FAILED", keyed |-> FALSE]]
      BY <1>0, <3>1 DEF SubmitTypeOK
    <3>2. ASSUME NEW st \in {"COMPLETED", "FAILED"}, row' = [row EXCEPT ![j].status = st]
          PROVE  <2>2
      <4>1. row[j] \in [status : {"none", "QUEUED", "COMPLETED", "FAILED"}, keyed : BOOLEAN]
        BY <1>0 DEF SubmitTypeOK
      <4>2. row'[j] = [row[j] EXCEPT !.status = st] /\ \A k \in Submits \ {j} : row'[k] = row[k]
        BY <1>0, <3>2 DEF SubmitTypeOK
      <4> QED
        BY <1>0, <3>2, <4>1, <4>2 DEF SubmitTypeOK
    <3> QED
      BY <2>1, <3>1, <3>2
  <2>3. Keyed' \subseteq Keyed /\ Keyed \subseteq Keyed' \cup (released' \ released) \cup (released \cap {j})
    <3>1. CASE row' = [row EXCEPT ![j] = [status |-> "FAILED", keyed |-> FALSE]] /\ released' = released \cup {j}
      BY <1>0, <3>1 DEF Keyed, SubmitTypeOK
    <3>2. CASE \E st \in {"COMPLETED", "FAILED"} : row' = [row EXCEPT ![j].status = st]
      BY <1>0, <3>2 DEF Keyed, SubmitTypeOK
    <3> QED
      BY <2>1, <3>1, <3>2
  <2>4. SubmitTypeOK'
    BY <1>0, <2>1, <2>2 DEF SubmitTypeOK
  <2>5. RowFollowsRequest'
    BY <1>0, <2>1, <2>2 DEF RowFollowsRequest, NoRow
  <2>6. KeyIsHeld'
    BY <1>0, <2>1, <2>3 DEF KeyIsHeld, AtMostOne
  <2>7. AnswersFit'
    <3>1. row'[j] # NoRow /\ \A k \in Submits \ {j} : row'[k] = row[k]
      BY <2>2 DEF NoRow
    <3> QED
      BY <1>0, <2>1, <3>1, AnswersKept
  <2> QED
    BY <2>4, <2>5, <2>6, <2>7 DEF SubmitInv
<1>7. CASE Restart
  <2>1. /\ row' = row /\ sent' = sent /\ released' = released /\ Keyed' = Keyed
        /\ submit' = [s \in Submits |->
              IF submit[s].at = "none" THEN submit[s] ELSE [submit[s] EXCEPT !.at = "over"]]
    BY <1>7 DEF Restart, Keyed
  <2>2. ASSUME NEW s \in Submits
        PROVE  \/ submit'[s] = submit[s] /\ submit[s] = NotSubmitted
               \/ /\ submit[s] \in Request /\ submit'[s] \in Request /\ submit'[s].at = "over"
                  /\ submit'[s].receipt = submit[s].receipt /\ submit'[s].answer = submit[s].answer
    <3>1. CASE submit[s] = NotSubmitted
      BY <2>1, <3>1 DEF NotSubmitted
    <3>2. CASE submit[s] \in Request
      <4>1. submit'[s] = [submit[s] EXCEPT !.at = "over"]
        BY <2>1, <3>2 DEF Request
      <4> QED
        BY <3>2, <4>1 DEF Request
    <3> QED
      BY <1>0, <3>1, <3>2 DEF SubmitTypeOK
  <2>3. SubmitTypeOK'
    BY <1>0, <2>1, <2>2 DEF SubmitTypeOK
  <2>4. RowFollowsRequest'
    BY <1>0, <2>1, <2>2 DEF RowFollowsRequest, NotSubmitted
  <2>5. KeyIsHeld'
    BY <1>0, <2>1, <2>2 DEF KeyIsHeld, NotSubmitted
  <2>6. AnswersFit'
    <3>1. \A s \in Submits : submit'[s] = NotSubmitted <=> submit[s] = NotSubmitted
      BY <2>2 DEF NotSubmitted, Request
    <3>2. SUFFICES ASSUME NEW t \in Submits, submit'[t] # NotSubmitted, NEW j \in submit'[t].answer
                   PROVE  submit'[j] # NotSubmitted /\ submit'[j].receipt = submit'[t].receipt /\ row'[j] # NoRow
      BY DEF AnswersFit
    <3>3. submit[t] # NotSubmitted /\ submit[t].answer \subseteq Submits /\ submit'[t].answer = submit[t].answer
          /\ submit'[t].receipt = submit[t].receipt
      BY <2>2, <3>1, <3>2 DEF Request
    <3>4. submit[j] # NotSubmitted /\ submit[j].receipt = submit[t].receipt /\ row[j] # NoRow /\ j \in Submits
      BY <1>0, <3>2, <3>3 DEF AnswersFit
    <3>5. submit'[j].receipt = submit[j].receipt
      BY <2>2, <3>4
    <3> QED
      BY <2>1, <3>1, <3>3, <3>4, <3>5
  <2> QED
    BY <2>3, <2>4, <2>5, <2>6 DEF SubmitInv
<1>8. CASE UNCHANGED submitVars
  BY <1>0, <1>8 DEF submitVars, SubmitInv, SubmitTypeOK, RowFollowsRequest, KeyIsHeld, AnswersFit, Keyed
<1> QED
  BY <1>1, <1>2, <1>3, <1>4, <1>5, <1>6, <1>7, <1>8 DEF SubmitNext

\* However submits of one key race, fail, or are repeated after a restart, one
\* job that was not written off is sent, and answers name what was asked for.
THEOREM OneKeyOneReceipt == SubmitSpec => []OneReceiptPerKey
<1>1. SubmitInv => OneReceiptPerKey
  <2> SUFFICES ASSUME SubmitInv PROVE OneReceiptPerKey
    OBVIOUS
  <2>1. AtMostOne(sent \ released)
    BY DEF SubmitInv, KeyIsHeld, AtMostOne, SubmitTypeOK
  <2>2. Cardinality(sent \ released) <= 1
    BY <2>1, AtMostOneCounts
  <2> QED
    BY <2>2 DEF SubmitInv, AnswersFit, OneReceiptPerKey
<1> QED
  BY <1>1, SubmitInitInv, SubmitNextInv, PTL DEF SubmitSpec

-----------------------------------------------------------------------------
(* Statistics: the rollup and the counters kept in memory. *)

Passing == [at : {"count", "write"}, bucket : Hours, top : 0 .. LastHour, rows : Nat, ever : Nat]
Under   == pass # NoPass

RollupTyped ==
    /\ stream \in {"jobs", "webhooks"} /\ hour \in Hours
    /\ raw \in [Hours -> Nat] /\ rolled \in [Hours -> Nat] /\ ever \in [Hours -> Nat]
    /\ watermark = {} \/ \E w \in 0 .. hour : watermark = {w}
    /\ missing \subseteq Hours /\ cut \subseteq Hours /\ punctual \in BOOLEAN
    /\ pass = NoPass \/ (pass \in Passing /\ pass.top <= hour)

\* What is counted of each hour, and what is left in its bucket.
HoursFit ==
    /\ \A h \in Hours : h > hour => ever[h] = 0
    /\ \A h \in Hours : h \in missing => ever[h] > 0
    /\ \A h \in Hours : h >= hour /\ ever[h] > 0 => h \in missing
    /\ \A h \in Hours : rolled[h] <= ever[h] /\ raw[h] <= ever[h]
    /\ \A h \in Hours : h \notin missing /\ h \notin cut => rolled[h] = ever[h]

\* A bucket is whole, unless a sweep took from an hour that is summed up, and then
\* took all of it or will not see it counted again.
SweptFits ==
    \A h \in Hours : h \notin cut =>
        \/ raw[h] = ever[h]
        \/ stream = "webhooks" /\ h \notin missing /\ h < hour /\ (raw[h] = 0 \/ h < Reach)

PassFits ==
    Under =>
        /\ pass.bucket <= pass.top /\ \A w \in watermark : w <= pass.top
        /\ pass.at = "write" =>
              /\ pass.bucket < pass.top /\ pass.rows <= pass.ever /\ pass.ever <= ever[pass.bucket]
              /\ ever[pass.bucket] # pass.ever => pass.bucket \in missing
              /\ pass.bucket \notin cut =>
                    \/ pass.rows = pass.ever
                    \/ stream = "webhooks" /\ pass.rows = 0 /\ pass.bucket \notin missing

\* While a pass ends in every hour, the watermark is not far behind, and a row that is
\* yet to be counted came no later than rows may.
OnTime ==
    punctual =>
        /\ watermark = {} => hour = 0
        /\ \A w \in watermark : w >= Back(1)
        /\ Under => pass.top >= Back(1)
LateFits ==
    punctual =>
        \A h \in Hours : h \in missing /\ h \notin cut =>
            /\ hour \in watermark /\ h < hour => h >= Back(Late)
            /\ \A w \in watermark : h < w => h >= Back(Late + 1)
            /\ Under /\ pass.top = hour /\ h < pass.bucket => h >= Back(Late)
LateAgain ==
    punctual /\ Under => (pass.at = "write" /\ pass.top = hour /\ ever[pass.bucket] # pass.ever => pass.bucket >= Back(Late))

RollupInv == RollupTyped /\ HoursFit /\ SweptFits /\ PassFits /\ OnTime /\ LateFits /\ LateAgain

\* A smallest number is one of them, and no larger than any.
LEMMA MinIs ==
    ASSUME NEW T \in SUBSET Nat, T # {}
    PROVE  Min(T) \in T /\ \A n \in T : Min(T) <= n
BY SmallestOf DEF Min

\* An hour some hours back is an hour, and none below the first.
LEMMA BackIs ==
    ASSUME NEW n \in Nat, hour \in Nat
    PROVE  /\ Back(n) \in Nat /\ Back(n) <= hour /\ Back(n) >= hour - n
           /\ \A h \in Nat : h >= Back(n) <=> h >= hour - n
           /\ n > 0 /\ hour > 0 => Back(n) < hour
BY DEF Back

\* The numbers Reach is the least of.
Lowest == {Back(Reroll)} \cup (IF watermark = {} THEN {0} ELSE watermark)
              \cup (IF pass = NoPass THEN {} ELSE {pass.bucket})

\* Reach is the lowest of the hours a pass may still write.
LEMMA LowestFit ==
    ASSUME RollupTyped
    PROVE  /\ Lowest \in SUBSET Nat /\ Reach = Min(Lowest) /\ Back(Reroll) \in Lowest
           /\ watermark \subseteq Lowest /\ (watermark = {} => 0 \in Lowest)
           /\ Under => pass.bucket \in Lowest
<1>1. hour \in Nat /\ Reroll \in Nat
  BY RollupAssumption DEF RollupTyped, Hours
<1>2. Back(Reroll) \in Nat
  BY <1>1 DEF Back
<1>3. watermark \subseteq Nat
  <2>1. CASE watermark = {}
    BY <2>1
  <2>2. CASE \E w \in 0 .. hour : watermark = {w}
    BY <1>1, <2>2
  <2> QED
    BY <2>1, <2>2 DEF RollupTyped
<1>4. Under => pass.bucket \in Nat
  BY DEF RollupTyped, Passing, Hours, Under
<1>5. Lowest \in SUBSET Nat
  <2>1. (IF watermark = {} THEN {0} ELSE watermark) \subseteq Nat
    BY <1>3
  <2>2. (IF pass = NoPass THEN {} ELSE {pass.bucket}) \subseteq Nat
    BY <1>4 DEF Under
  <2> QED
    BY <1>2, <2>1, <2>2 DEF Lowest
<1>6. Reach = Min(Lowest)
  BY DEF Reach, Lowest
<1> QED
  BY <1>5, <1>6 DEF Lowest, Under

\* Reach, bound by each of the hours it is the lowest of.
LEMMA ReachIs ==
    ASSUME RollupTyped
    PROVE  /\ Reach \in Nat /\ Reach <= Back(Reroll) /\ \A w \in watermark : Reach <= w
           /\ watermark = {} => Reach = 0
           /\ Under => Reach <= pass.bucket
<1>1. /\ Lowest \in SUBSET Nat /\ Reach = Min(Lowest) /\ Back(Reroll) \in Lowest
      /\ watermark \subseteq Lowest /\ (watermark = {} => 0 \in Lowest)
      /\ Under => pass.bucket \in Lowest
  BY LowestFit
<1>2. Reach \in Lowest /\ \A n \in Lowest : Reach <= n
  BY <1>1, MinIs
<1>3. Reach \in Nat
  BY <1>1, <1>2
<1>4. watermark = {} => Reach = 0
  <2>1. watermark = {} => Reach <= 0
    BY <1>1, <1>2
  <2> QED
    BY <1>3, <2>1
<1> QED
  BY <1>1, <1>2, <1>3, <1>4

\* An hour later, some hours back is no earlier.
LEMMA BackGrows ==
    ASSUME NEW h \in Nat, NEW g \in Nat, h <= g, NEW n \in Nat
    PROVE  /\ (IF h < n THEN 0 ELSE h - n) \in Nat /\ (IF g < n THEN 0 ELSE g - n) \in Nat
           /\ (IF h < n THEN 0 ELSE h - n) <= (IF g < n THEN 0 ELSE g - n)
OBVIOUS

\* Reach never goes back while the hour, the watermark and the pass go forward.
LEMMA ReachGrows ==
    ASSUME RollupTyped, RollupTyped', hour <= hour',
           watermark' = {} => watermark = {},
           \A v \in watermark' : \A w \in watermark : w <= v,
           Under' => Reach <= pass'.bucket
    PROVE  Reach' \in Nat /\ Reach <= Reach'
<1>0. /\ Reach \in Nat /\ Reach <= Back(Reroll) /\ \A w \in watermark : Reach <= w
      /\ watermark = {} => Reach = 0
  BY ReachIs
<1>1. hour \in Nat /\ hour' \in Nat /\ Reroll \in Nat /\ watermark \subseteq Nat
  <2>1. hour \in Nat /\ hour' \in Nat /\ Reroll \in Nat
    BY RollupAssumption DEF RollupTyped, Hours
  <2>2. CASE watermark = {}
    BY <2>1, <2>2
  <2>3. CASE \E w \in 0 .. hour : watermark = {w}
    BY <2>1, <2>3
  <2> QED
    BY <2>1, <2>2, <2>3 DEF RollupTyped
<1>2. Back(Reroll) \in Nat /\ Back(Reroll)' \in Nat /\ Back(Reroll) <= Back(Reroll)'
  BY <1>1, BackGrows DEF Back
<1>3. Lowest' \in SUBSET Nat /\ Reach' = Min(Lowest')
  <2>1. watermark' \subseteq Nat
    <3>1. CASE watermark' = {}
      BY <3>1
    <3>2. CASE \E w \in 0 .. hour' : watermark' = {w}
      BY <1>1, <3>2
    <3> QED
      BY <3>1, <3>2 DEF RollupTyped
  <2>2. Under' => pass'.bucket \in Nat
    BY DEF RollupTyped, Passing, Hours, Under
  <2>3. Lowest' \in SUBSET Nat
    <3>1. (IF watermark' = {} THEN {0} ELSE watermark') \subseteq Nat
      BY <2>1
    <3>2. (IF pass' = NoPass THEN {} ELSE {pass'.bucket}) \subseteq Nat
      BY <2>2 DEF Under, NoPass
    <3> QED
      BY <1>2, <3>1, <3>2 DEF Lowest, NoPass
  <2>4. Reach' = Min(Lowest')
    BY DEF Reach, Lowest
  <2> QED
    BY <2>3, <2>4
<1>4. \A v \in watermark' : Reach <= v
  <2> SUFFICES ASSUME NEW v \in watermark' PROVE Reach <= v
    OBVIOUS
  <2>0. v \in Nat
    BY <1>3 DEF Lowest
  <2>1. CASE watermark = {}
    BY <1>0, <2>0, <2>1
  <2>2. CASE watermark # {}
    <3>1. PICK w \in watermark : TRUE
      BY <2>2
    <3>2. w \in Nat /\ w <= v /\ Reach <= w
      BY <1>0, <1>1, <3>1
    <3> HIDE <3>1
    <3> QED
      BY <1>0, <2>0, <3>2
  <2> QED
    BY <2>1, <2>2
<1>5. \A n \in Lowest' : Reach <= n
  <2>1. Reach <= Back(Reroll)'
    BY <1>0, <1>2
  <2>2. watermark' = {} => Reach <= 0
    BY <1>0
  <2> QED
    BY <1>4, <2>1, <2>2 DEF Lowest, Under
<1>6. Min(Lowest') \in Lowest'
  <2>1. Lowest' # {}
    BY DEF Lowest
  <2> QED
    BY <1>3, <2>1, MinIs
<1> QED
  BY <1>3, <1>5, <1>6
\* What the types say, as numbers.
LEMMA RollupPlain ==
    ASSUME RollupTyped
    PROVE  /\ hour \in Nat /\ Hours \subseteq Nat /\ Late \in Nat /\ Reroll \in Nat /\ Late < Reroll
           /\ \A w \in watermark : w \in Nat /\ w <= hour
           /\ \A w, v \in watermark : w = v
           /\ Under => pass.bucket \in Nat /\ pass.bucket \in Hours /\ pass.top \in Nat /\ pass.top <= hour
                       /\ pass.rows \in Nat /\ pass.ever \in Nat /\ pass.at \in {"count", "write"}
<1>1. hour \in Nat /\ Hours \subseteq Nat /\ Late \in Nat /\ Reroll \in Nat /\ Late < Reroll
  BY RollupAssumption DEF RollupTyped, Hours
<1>2. /\ \A w \in watermark : w \in Nat /\ w <= hour
      /\ \A w, v \in watermark : w = v
  <2>1. CASE watermark = {}
    BY <2>1
  <2>2. CASE \E w \in 0 .. hour : watermark = {w}
    BY <1>1, <2>2
  <2> QED
    BY <2>1, <2>2 DEF RollupTyped
<1>3. Under => pass.bucket \in Nat /\ pass.bucket \in Hours /\ pass.top \in Nat /\ pass.top <= hour
               /\ pass.rows \in Nat /\ pass.ever \in Nat /\ pass.at \in {"count", "write"}
  <2> SUFFICES ASSUME pass \in Passing, pass.top <= hour
               PROVE  /\ pass.bucket \in Nat /\ pass.bucket \in Hours /\ pass.top \in Nat
                      /\ pass.rows \in Nat /\ pass.ever \in Nat /\ pass.at \in {"count", "write"}
    BY DEF RollupTyped, Under
  <2>1. LastHour \in Nat
    BY RollupAssumption
  <2>2. /\ pass.bucket \in Hours /\ pass.top \in 0 .. LastHour
        /\ pass.rows \in Nat /\ pass.ever \in Nat /\ pass.at \in {"count", "write"}
    BY DEF Passing
  <2>3. pass.bucket \in Nat
    BY <2>2, <1>1
  <2>4. pass.top \in Nat
    BY <2>1, <2>2
  <2> QED
    BY <2>2, <2>3, <2>4
<1> QED
  BY <1>1, <1>2, <1>3

\* A row that is counted, on time or late.
LEMMA RowArrivesKeeps ==
    ASSUME RollupInv, NEW h \in Hours, RowArrives(h)
    PROVE  RollupInv'
<1> USE DEF RollupInv
<1>0. /\ hour \in Nat /\ Hours \subseteq Nat /\ Late \in Nat /\ Reroll \in Nat /\ Late < Reroll
      /\ \A w \in watermark : w \in Nat /\ w <= hour
      /\ Under => pass.bucket \in Nat /\ pass.bucket \in Hours /\ pass.top \in Nat /\ pass.top <= hour
                  /\ pass.rows \in Nat /\ pass.ever \in Nat
  BY RollupPlain
<1>1. /\ h <= hour /\ h \in Nat /\ (stream = "webhooks" => h = hour) /\ (stream = "jobs" => h >= Back(Late))
      /\ stream' = stream /\ hour' = hour /\ rolled' = rolled /\ watermark' = watermark /\ pass' = pass
      /\ cut' = cut /\ punctual' = punctual /\ missing' = missing \cup {h}
      /\ raw' = [raw EXCEPT ![h] = @ + 1] /\ ever' = [ever EXCEPT ![h] = @ + 1]
  BY <1>0 DEF RowArrives
<1>2. /\ \A n : Back(n)' = Back(n)
      /\ Reach' = Reach /\ Under' = Under
  BY <1>1 DEF Back, Reach, Under
<1>3. /\ raw' \in [Hours -> Nat] /\ ever' \in [Hours -> Nat]
      /\ \A g \in Hours : g # h => raw'[g] = raw[g] /\ ever'[g] = ever[g]
      /\ raw'[h] = raw[h] + 1 /\ ever'[h] = ever[h] + 1
      /\ \A g \in Hours : raw[g] \in Nat /\ ever[g] \in Nat /\ rolled[g] \in Nat
  BY <1>1 DEF RollupTyped
<1>4. RollupTyped'
  BY <1>1, <1>3 DEF RollupTyped
<1>5. HoursFit'
  BY <1>0, <1>1, <1>3 DEF HoursFit
<1>6. SweptFits'
  BY <1>0, <1>1, <1>2, <1>3 DEF SweptFits, RollupTyped
<1>7. PassFits'
  BY <1>0, <1>1, <1>2, <1>3 DEF PassFits, RollupTyped
<1>8. OnTime'
  BY <1>1, <1>2 DEF OnTime
<1>9. LateFits'
  BY <1>0, <1>1, <1>2, <1>3 DEF LateFits, RollupTyped, PassFits, Back
<1>10. LateAgain'
  BY <1>0, <1>1, <1>2, <1>3 DEF LateAgain, RollupTyped, PassFits
<1> QED
  BY <1>4, <1>5, <1>6, <1>7, <1>8, <1>9, <1>10

\* The hour turns, and is not punctual if no pass ended in it.
LEMMA NextHourKeeps ==
    ASSUME RollupInv, NextHour
    PROVE  RollupInv'
<1> USE DEF RollupInv
<1>0. /\ hour \in Nat /\ Hours \subseteq Nat /\ Late \in Nat /\ Reroll \in Nat /\ Late < Reroll
      /\ \A w \in watermark : w \in Nat /\ w <= hour
      /\ \A w, v \in watermark : w = v
      /\ Under => pass.bucket \in Nat /\ pass.bucket \in Hours /\ pass.top \in Nat /\ pass.top <= hour
                  /\ pass.rows \in Nat /\ pass.ever \in Nat
  BY RollupPlain
<1>1. /\ hour' = hour + 1 /\ hour' \in Hours /\ (punctual' => punctual /\ watermark = {hour})
      /\ stream' = stream /\ raw' = raw /\ rolled' = rolled /\ watermark' = watermark /\ pass' = pass
      /\ ever' = ever /\ missing' = missing /\ cut' = cut /\ punctual' \in BOOLEAN
  <2>1. LastHour \in Nat /\ hour < LastHour /\ hour' = hour + 1
    BY RollupAssumption DEF NextHour
  <2>2. hour' \in Hours
    BY <1>0, <2>1 DEF Hours
  <2>3. punctual \in BOOLEAN /\ punctual' = (punctual /\ watermark = {hour})
    BY DEF NextHour, RollupTyped
  <2>4. punctual' \in BOOLEAN /\ (punctual' => punctual /\ watermark = {hour})
    BY <2>3
  <2> QED
    BY <2>1, <2>2, <2>4 DEF NextHour
<1>2. Under' = Under
  BY <1>1 DEF Under
<1>3. RollupTyped'
  <2>1. watermark' = {} \/ \E w \in 0 .. hour' : watermark' = {w}
    <3>1. CASE watermark = {}
      BY <1>1, <3>1
    <3>2. CASE \E w \in 0 .. hour : watermark = {w}
      BY <1>0, <1>1, <3>2
    <3> QED
      BY <3>1, <3>2 DEF RollupTyped
  <2>2. pass' = NoPass \/ (pass' \in Passing /\ pass'.top <= hour')
    BY <1>0, <1>1 DEF RollupTyped, Under
  <2> QED
    BY <1>1, <2>1, <2>2 DEF RollupTyped
<1>4. Reach' \in Nat /\ Reach <= Reach'
  <2>1. Under => Reach <= pass.bucket
    BY ReachIs
  <2>2. \A v \in watermark' : \A w \in watermark : w <= v
    BY <1>0, <1>1
  <2>3. hour <= hour'
    BY <1>0, <1>1
  <2> QED
    BY <1>1, <1>2, <1>3, <2>1, <2>2, <2>3, ReachGrows
<1>5. HoursFit'
  BY <1>0, <1>1 DEF HoursFit
<1>6. SweptFits'
  <2>1. Reach \in Nat
    BY ReachIs
  <2>2. Reach' \in Nat
    BY <1>4
  <2> QED
    BY <1>0, <1>1, <1>4, <2>1, <2>2 DEF SweptFits
<1>7. PassFits'
  BY <1>1, <1>2 DEF PassFits
<1>8. OnTime'
  BY <1>0, <1>1, <1>2 DEF OnTime, PassFits, Back
<1>9. LateFits'
  BY <1>0, <1>1, <1>2 DEF LateFits, Back
<1>10. LateAgain'
  BY <1>0, <1>1, <1>2 DEF LateAgain
<1> QED
  BY <1>3, <1>5, <1>6, <1>7, <1>8, <1>9, <1>10
\* The pass counts a bucket it has not passed the end of.
LEMMA CountHourKeeps ==
    ASSUME RollupInv, CountHour
    PROVE  RollupInv'
<1> USE DEF RollupInv
<1>0. /\ hour \in Nat /\ Hours \subseteq Nat /\ Late \in Nat /\ Reroll \in Nat /\ Late < Reroll
      /\ \A w \in watermark : w \in Nat /\ w <= hour
      /\ \A w, v \in watermark : w = v
      /\ Under => pass.bucket \in Nat /\ pass.bucket \in Hours /\ pass.top \in Nat /\ pass.top <= hour
                  /\ pass.rows \in Nat /\ pass.ever \in Nat /\ pass.at \in {"count", "write"}
  BY RollupPlain
<1>r. /\ Reach \in Nat /\ Reach <= Back(Reroll) /\ \A w \in watermark : Reach <= w
      /\ watermark = {} => Reach = 0
      /\ Under => Reach <= pass.bucket
  BY ReachIs
<1>1. /\ Under /\ pass.at = "count" /\ pass.bucket < pass.top
      /\ pass' = [pass EXCEPT !.at = "write", !.rows = raw[pass.bucket], !.ever = ever[pass.bucket]]
      /\ stream' = stream /\ hour' = hour /\ raw' = raw /\ rolled' = rolled /\ watermark' = watermark
      /\ ever' = ever /\ missing' = missing /\ cut' = cut /\ punctual' = punctual
  BY DEF CountHour, Under, NoPass
<1>2. pass \in Passing
  BY <1>1 DEF RollupTyped, Under
<1>3. raw[pass.bucket] \in Nat /\ ever[pass.bucket] \in Nat
  BY <1>0, <1>1 DEF RollupTyped
<1>4. /\ pass' \in Passing /\ pass'.at = "write" /\ pass'.bucket = pass.bucket /\ pass'.top = pass.top
      /\ pass'.rows = raw[pass.bucket] /\ pass'.ever = ever[pass.bucket]
  BY <1>1, <1>2, <1>3 DEF Passing
<1>5. Under' /\ \A n : Back(n)' = Back(n)
  BY <1>1, <1>4 DEF Under, NoPass, Back, Passing
<1>6. RollupTyped'
  BY <1>0, <1>1, <1>4 DEF RollupTyped
<1>7. Reach' \in Nat /\ Reach <= Reach'
  <2>1. hour <= hour' /\ \A v \in watermark' : \A w \in watermark : w <= v
    BY <1>0, <1>1
  <2> QED
    BY <1>r, <1>1, <1>4, <1>6, <2>1, ReachGrows
<1>8. HoursFit'
  BY <1>1 DEF HoursFit
<1>9. SweptFits'
  BY <1>0, <1>r, <1>1, <1>7 DEF SweptFits
<1>10. PassFits'
  <2>1. raw[pass.bucket] <= ever[pass.bucket]
    BY <1>0, <1>1 DEF HoursFit
  <2>2. pass.bucket \notin cut =>
           \/ raw[pass.bucket] = ever[pass.bucket]
           \/ stream = "webhooks" /\ raw[pass.bucket] = 0 /\ pass.bucket \notin missing
    BY <1>0, <1>r, <1>1 DEF SweptFits
  <2> QED
    BY <1>0, <1>1, <1>3, <1>4, <2>1, <2>2 DEF PassFits
<1>11. OnTime' /\ LateFits' /\ LateAgain'
  BY <1>1, <1>4, <1>5 DEF OnTime, LateFits, LateAgain
<1> QED
  BY <1>6, <1>8, <1>9, <1>10, <1>11

\* A pass that fails leaves what it wrote, and its watermark.
LEMMA AbandonRollupKeeps ==
    ASSUME RollupInv, AbandonRollup
    PROVE  RollupInv'
<1> USE DEF RollupInv
<1>0. /\ hour \in Nat /\ Hours \subseteq Nat /\ Late \in Nat /\ Reroll \in Nat /\ Late < Reroll
      /\ \A w \in watermark : w \in Nat /\ w <= hour
      /\ \A w, v \in watermark : w = v
      /\ Under => pass.bucket \in Nat /\ pass.bucket \in Hours /\ pass.top \in Nat /\ pass.top <= hour
                  /\ pass.rows \in Nat /\ pass.ever \in Nat /\ pass.at \in {"count", "write"}
  BY RollupPlain
<1>r. /\ Reach \in Nat /\ Reach <= Back(Reroll) /\ \A w \in watermark : Reach <= w
      /\ watermark = {} => Reach = 0
      /\ Under => Reach <= pass.bucket
  BY ReachIs
<1>1. /\ pass' = NoPass
      /\ stream' = stream /\ hour' = hour /\ raw' = raw /\ rolled' = rolled /\ watermark' = watermark
      /\ ever' = ever /\ missing' = missing /\ cut' = cut /\ punctual' = punctual
  BY DEF AbandonRollup
<1>2. ~Under' /\ \A n : Back(n)' = Back(n)
  BY <1>1 DEF Under, Back, NoPass
<1>3. RollupTyped'
  BY <1>1 DEF RollupTyped, NoPass
<1>4. Reach' \in Nat /\ Reach <= Reach'
  <2>1. hour <= hour' /\ \A v \in watermark' : \A w \in watermark : w <= v
    BY <1>0, <1>1
  <2> QED
    BY <1>1, <1>2, <1>3, <2>1, ReachGrows
<1>5. HoursFit'
  BY <1>1 DEF HoursFit
<1>6. SweptFits'
  BY <1>0, <1>r, <1>1, <1>4 DEF SweptFits
<1>7. PassFits' /\ OnTime' /\ LateFits' /\ LateAgain'
  BY <1>1, <1>2 DEF PassFits, OnTime, LateFits, LateAgain
<1> QED
  BY <1>3, <1>5, <1>6, <1>7

\* The sweep takes the deliveries of hours it may take.
LEMMA SweepDeliveriesKeeps ==
    ASSUME RollupInv, SweepDeliveries
    PROVE  RollupInv'
<1> USE DEF RollupInv
<1>0. /\ hour \in Nat /\ Hours \subseteq Nat /\ Late \in Nat /\ Reroll \in Nat /\ Late < Reroll
      /\ \A w \in watermark : w \in Nat /\ w <= hour
      /\ \A w, v \in watermark : w = v
      /\ Under => pass.bucket \in Nat /\ pass.bucket \in Hours /\ pass.top \in Nat /\ pass.top <= hour
                  /\ pass.rows \in Nat /\ pass.ever \in Nat /\ pass.at \in {"count", "write"}
  BY RollupPlain
<1>r. /\ Reach \in Nat /\ Reach <= Back(Reroll) /\ \A w \in watermark : Reach <= w
      /\ watermark = {} => Reach = 0
      /\ Under => Reach <= pass.bucket
  BY ReachIs
<1>1. PICK h \in Hours : /\ raw[h] > 0
                        /\ \E left \in 0 .. raw[h] - 1 :
                              /\ raw' = [raw EXCEPT ![h] = left]
                              /\ cut' = IF h \in missing \/ (left > 0 /\ h >= Reach) THEN cut \cup {h} ELSE cut
  BY DEF SweepDeliveries
<1>2. PICK left \in 0 .. raw[h] - 1 :
         /\ raw' = [raw EXCEPT ![h] = left]
         /\ cut' = IF h \in missing \/ (left > 0 /\ h >= Reach) THEN cut \cup {h} ELSE cut
  BY <1>1
<1>3. /\ stream = "webhooks" /\ stream' = stream /\ hour' = hour /\ rolled' = rolled /\ watermark' = watermark
      /\ pass' = pass /\ ever' = ever /\ missing' = missing /\ punctual' = punctual
  BY DEF SweepDeliveries
<1>4. /\ Under' = Under /\ Reach' = Reach /\ \A n : Back(n)' = Back(n)
  BY <1>3 DEF Under, Back, Reach
<1>5. \A g \in Hours : raw[g] \in Nat /\ ever[g] \in Nat /\ rolled[g] \in Nat /\ raw[g] <= ever[g]
  BY DEF RollupTyped, HoursFit
<1>6. left \in Nat /\ left < raw[h]
  BY <1>1, <1>2, <1>5
<1>7. /\ raw' \in [Hours -> Nat] /\ raw'[h] = left /\ \A g \in Hours : g # h => raw'[g] = raw[g]
  BY <1>2, <1>6 DEF RollupTyped
<1>8. cut' \subseteq Hours /\ cut \subseteq cut'
  BY <1>2 DEF RollupTyped
<1>9. RollupTyped'
  BY <1>3, <1>7, <1>8 DEF RollupTyped
<1>10. HoursFit'
  <2>1. \A g \in Hours : raw'[g] <= ever[g]
    BY <1>5, <1>6, <1>7
  <2>2. \A g \in Hours : g \notin missing /\ g \notin cut' => rolled[g] = ever[g]
    BY <1>8 DEF HoursFit
  <2> QED
    BY <1>3, <2>1, <2>2 DEF HoursFit
<1>11. SweptFits'
  <2> SUFFICES ASSUME NEW g \in Hours, g \notin cut'
               PROVE  \/ raw'[g] = ever[g]
                      \/ stream = "webhooks" /\ g \notin missing /\ g < hour /\ (raw'[g] = 0 \/ g < Reach)
    BY <1>3, <1>4 DEF SweptFits
  <2>1. CASE g # h
    BY <1>7, <1>8, <2>1 DEF SweptFits
  <2>2. CASE g = h
    <3>1. g \notin missing /\ (left = 0 \/ g < Reach)
      BY <1>0, <1>r, <1>2, <1>6, <2>2
    <3>2. ever[g] > 0
      BY <1>1, <1>5, <2>2
    <3>3. g < hour
      BY <1>0, <3>1, <3>2 DEF HoursFit
    <3> QED
      BY <1>3, <1>7, <2>2, <3>1, <3>3
  <2> QED
    BY <2>1, <2>2
<1>12. PassFits' /\ OnTime' /\ LateFits' /\ LateAgain'
  <2>1. \A g : g \notin cut' => g \notin cut
    BY <1>8
  <2> QED
    BY <1>3, <1>4, <2>1 DEF PassFits, OnTime, LateFits, LateAgain
<1> QED
  BY <1>9, <1>10, <1>11, <1>12
\* The pass writes a bucket's sum and goes on with the next.
LEMMA WriteHourKeeps ==
    ASSUME RollupInv, WriteHour
    PROVE  RollupInv'
<1> USE DEF RollupInv
<1>0. /\ hour \in Nat /\ Hours \subseteq Nat /\ Late \in Nat /\ Reroll \in Nat /\ Late < Reroll
      /\ \A w \in watermark : w \in Nat /\ w <= hour
      /\ \A w, v \in watermark : w = v
      /\ Under => pass.bucket \in Nat /\ pass.bucket \in Hours /\ pass.top \in Nat /\ pass.top <= hour
                  /\ pass.rows \in Nat /\ pass.ever \in Nat /\ pass.at \in {"count", "write"}
  BY RollupPlain
<1>r. /\ Reach \in Nat /\ Reach <= Back(Reroll) /\ \A w \in watermark : Reach <= w
      /\ watermark = {} => Reach = 0
      /\ Under => Reach <= pass.bucket
  BY ReachIs
<1> DEFINE b == pass.bucket
<1>1. /\ Under /\ pass.at = "write"
      /\ rolled' = [rolled EXCEPT ![b] = Summary(b, pass.rows)]
      /\ missing' = IF ever[b] = pass.ever THEN missing \ {b} ELSE missing
      /\ pass' = [pass EXCEPT !.at = "count", !.bucket = @ + 1]
      /\ stream' = stream /\ hour' = hour /\ raw' = raw /\ watermark' = watermark
      /\ ever' = ever /\ cut' = cut /\ punctual' = punctual
  BY DEF WriteHour, Under, NoPass
<1>2. /\ pass \in Passing /\ b \in Hours /\ b \in Nat /\ b < pass.top
      /\ pass.rows \in Nat /\ pass.ever \in Nat /\ pass.rows <= pass.ever /\ pass.ever <= ever[b]
      /\ ever[b] # pass.ever => b \in missing
      /\ b \notin cut => \/ pass.rows = pass.ever
                         \/ stream = "webhooks" /\ pass.rows = 0 /\ b \notin missing
  BY <1>0, <1>1 DEF RollupTyped, PassFits, Under
<1>3. b + 1 \in Hours /\ b + 1 <= pass.top /\ pass.top <= hour
  <2>1. pass.top \in Nat /\ pass.top <= hour /\ b + 1 <= pass.top
    BY <1>0, <1>1, <1>2
  <2>2. hour <= LastHour /\ LastHour \in Nat
    BY <1>0, RollupAssumption DEF Hours, RollupTyped
  <2>3. b + 1 \in 0 .. LastHour
    BY <1>0, <1>2, <2>1, <2>2
  <2> QED
    BY <2>1, <2>3 DEF Hours
<1>4. /\ pass' \in Passing /\ pass'.at = "count" /\ pass'.bucket = b + 1 /\ pass'.top = pass.top
  BY <1>1, <1>2, <1>3 DEF Passing
<1>5. Under' /\ \A n : Back(n)' = Back(n)
  BY <1>1, <1>4 DEF Under, NoPass, Back, Passing
<1>6. /\ Summary(b, pass.rows) \in Nat /\ rolled' \in [Hours -> Nat]
      /\ rolled'[b] = Summary(b, pass.rows) /\ \A g \in Hours : g # b => rolled'[g] = rolled[g]
      /\ \A g \in Hours : ever[g] \in Nat /\ rolled[g] \in Nat
  BY <1>1, <1>2 DEF RollupTyped, Summary
<1>7. /\ missing' \subseteq missing
      /\ \A g \in missing : g # b => g \in missing'
      /\ b \in missing' => ever[b] # pass.ever
      /\ b \notin missing' => ever[b] = pass.ever
  BY <1>1, <1>2
<1>8. RollupTyped'
  <2>1. pass'.top <= hour'
    BY <1>1, <1>3, <1>4
  <2>2. missing' \subseteq Hours
    BY <1>7 DEF RollupTyped
  <2> QED
    BY <1>1, <1>4, <1>6, <2>1, <2>2 DEF RollupTyped
<1> HIDE DEF b
<1>9. HoursFit'
  <2>1. \A g \in Hours : rolled'[g] <= ever[g]
    <3>1. Summary(b, pass.rows) <= ever[b]
      BY <1>2, <1>6 DEF HoursFit, Summary
    <3> QED
      BY <1>2, <1>6, <3>1 DEF HoursFit
  <2>2. \A g \in Hours : g >= hour /\ ever[g] > 0 => g \in missing'
    <3>1. b < hour
      BY <1>0, <1>1, <1>2, <1>3
    <3>2. \A g \in Hours : g >= hour => g # b
      BY <1>0, <1>2, <3>1
    <3> QED
      BY <1>7, <3>2 DEF HoursFit
  <2>3. \A g \in Hours : g \notin missing' /\ g \notin cut => rolled'[g] = ever[g]
    <3> SUFFICES ASSUME NEW g \in Hours, g \notin missing', g \notin cut PROVE rolled'[g] = ever[g]
      OBVIOUS
    <3>1. CASE g # b
      BY <1>6, <1>7, <3>1 DEF HoursFit
    <3>2. CASE g = b
      <4>1. ever[b] = pass.ever
        BY <1>7, <3>2
      <4>2. CASE stream = "webhooks" /\ pass.rows = 0 /\ b \notin missing
        BY <1>2, <1>6, <3>2, <4>2 DEF HoursFit, Summary
      <4>3. CASE pass.rows = pass.ever
        <5>1. rolled[b] <= ever[b] /\ rolled[b] \in Nat
          BY <1>2, <1>6 DEF HoursFit
        <5> QED
          BY <1>2, <1>6, <3>2, <4>1, <4>3, <5>1 DEF Summary
      <4> QED
        BY <1>2, <3>2, <4>2, <4>3
    <3> QED
      BY <3>1, <3>2
  <2> QED
    BY <1>1, <1>7, <2>1, <2>2, <2>3 DEF HoursFit
<1>10. Reach' \in Nat /\ Reach <= Reach'
  <2>1. hour <= hour' /\ \A v \in watermark' : \A w \in watermark : w <= v
    BY <1>0, <1>1
  <2>2. Reach <= pass'.bucket
    BY <1>r, <1>1, <1>2, <1>4 DEF b
  <2> QED
    BY <1>1, <1>8, <2>1, <2>2, ReachGrows
<1>11. SweptFits'
  BY <1>0, <1>r, <1>1, <1>7, <1>10 DEF SweptFits
<1>12. PassFits'
  <2>1. pass'.bucket <= pass'.top
    BY <1>3, <1>4
  <2> QED
    BY <1>1, <1>4, <2>1 DEF PassFits
<1>13. OnTime'
  BY <1>1, <1>4, <1>5 DEF OnTime
<1>14. LateFits'
  <2>1. ASSUME punctual, pass.top = hour, NEW h \in Hours, h \in missing', h \notin cut, h < b + 1
        PROVE  h >= Back(Late)
    <3>1. CASE h < b
      BY <1>1, <1>7, <2>1, <3>1 DEF LateFits, b
    <3>2. CASE h = b
      <4>1. ever[b] # pass.ever
        BY <1>7, <2>1, <3>2
      <4> QED
        BY <1>1, <2>1, <3>2, <4>1 DEF LateAgain, b
    <3> QED
      BY <1>0, <1>2, <2>1, <3>1, <3>2
  <2> QED
    BY <1>1, <1>4, <1>5, <1>7, <2>1 DEF LateFits
<1>15. LateAgain'
  BY <1>4 DEF LateAgain
<1> QED
  BY <1>8, <1>9, <1>11, <1>12, <1>13, <1>14, <1>15

\* The pass has come to its top, and moves the watermark there.
LEMMA EndRollupKeeps ==
    ASSUME RollupInv, EndRollup
    PROVE  RollupInv'
<1> USE DEF RollupInv
<1>0. /\ hour \in Nat /\ Hours \subseteq Nat /\ Late \in Nat /\ Reroll \in Nat /\ Late < Reroll
      /\ \A w \in watermark : w \in Nat /\ w <= hour
      /\ \A w, v \in watermark : w = v
      /\ Under => pass.bucket \in Nat /\ pass.bucket \in Hours /\ pass.top \in Nat /\ pass.top <= hour
                  /\ pass.rows \in Nat /\ pass.ever \in Nat /\ pass.at \in {"count", "write"}
  BY RollupPlain
<1>r. /\ Reach \in Nat /\ Reach <= Back(Reroll) /\ \A w \in watermark : Reach <= w
      /\ watermark = {} => Reach = 0
      /\ Under => Reach <= pass.bucket
  BY ReachIs
<1>1. /\ Under /\ pass.at = "count" /\ pass.bucket >= pass.top /\ watermark' = {pass.top} /\ pass' = NoPass
      /\ stream' = stream /\ hour' = hour /\ raw' = raw /\ rolled' = rolled
      /\ ever' = ever /\ missing' = missing /\ cut' = cut /\ punctual' = punctual
  BY DEF EndRollup, Under, NoPass
<1>2. /\ pass.bucket = pass.top /\ pass.top \in Nat /\ pass.top <= hour
      /\ \A w \in watermark : w <= pass.top
  BY <1>0, <1>1 DEF PassFits
<1>3. ~Under' /\ \A n : Back(n)' = Back(n)
  BY <1>1 DEF Under, Back, NoPass
<1>4. RollupTyped'
  <2>1. \E w \in 0 .. hour' : watermark' = {w}
    BY <1>0, <1>1, <1>2
  <2> QED
    BY <1>1, <2>1 DEF RollupTyped, NoPass
<1>5. Reach' \in Nat /\ Reach <= Reach'
  <2>1. hour <= hour' /\ \A v \in watermark' : \A w \in watermark : w <= v
    BY <1>0, <1>1, <1>2
  <2>2. watermark' # {}
    BY <1>1
  <2> QED
    BY <1>3, <1>4, <2>1, <2>2, ReachGrows
<1>6. HoursFit'
  BY <1>1 DEF HoursFit
<1>7. SweptFits'
  BY <1>0, <1>r, <1>1, <1>5 DEF SweptFits
<1>8. PassFits' /\ LateAgain'
  BY <1>3 DEF PassFits, LateAgain
<1>9. OnTime'
  BY <1>1, <1>2, <1>3 DEF OnTime
<1>10. LateFits'
  <2> SUFFICES ASSUME punctual, NEW h \in Hours, h \in missing, h \notin cut, h < pass.top
               PROVE  /\ pass.top = hour => h >= Back(Late)
                      /\ h >= Back(Late + 1)
    BY <1>1, <1>3 DEF LateFits
  <2>0. h \in Nat
    BY <1>0
  <2>1. CASE pass.top = hour
    <3>1. h >= Back(Late)
      BY <1>1, <1>2, <2>1 DEF LateFits
    <3> QED
      BY <1>0, <2>0, <3>1 DEF Back
  <2>2. CASE pass.top # hour
    <3>1. watermark # {}
      BY <1>0, <1>1, <1>2, <2>2 DEF OnTime
    <3>2. PICK w \in watermark : TRUE
      BY <3>1
    <3>3. pass.top >= Back(1) /\ w >= Back(1) /\ w \in Nat /\ w <= pass.top
      BY <1>0, <1>1, <1>2, <3>2 DEF OnTime
    <3>4. w = pass.top
      BY <1>0, <1>2, <2>2, <3>3 DEF Back
    <3>5. h >= Back(Late + 1)
      BY <3>2, <3>4 DEF LateFits
    <3> QED
      BY <2>2, <3>5
  <2> QED
    BY <2>1, <2>2
<1> QED
  BY <1>4, <1>6, <1>7, <1>8, <1>9, <1>10

\* A pass starts at the watermark, or at the first hour there are rows of, and no later than the reroll.
LEMMA StartRollupKeeps ==
    ASSUME RollupInv, StartRollup
    PROVE  RollupInv'
<1> USE DEF RollupInv
<1>0. /\ hour \in Nat /\ Hours \subseteq Nat /\ Late \in Nat /\ Reroll \in Nat /\ Late < Reroll
      /\ \A w \in watermark : w \in Nat /\ w <= hour
      /\ \A w, v \in watermark : w = v
      /\ Under => pass.bucket \in Nat /\ pass.bucket \in Hours /\ pass.top \in Nat /\ pass.top <= hour
                  /\ pass.rows \in Nat /\ pass.ever \in Nat /\ pass.at \in {"count", "write"}
  BY RollupPlain
<1>r. /\ Reach \in Nat /\ Reach <= Back(Reroll) /\ \A w \in watermark : Reach <= w
      /\ watermark = {} => Reach = 0
      /\ Under => Reach <= pass.bucket
  BY ReachIs
<1>1. /\ pass = NoPass /\ ~Under
      /\ stream' = stream /\ hour' = hour /\ raw' = raw /\ rolled' = rolled
      /\ ever' = ever /\ missing' = missing /\ cut' = cut /\ punctual' = punctual
  BY DEF StartRollup, Under
<1>2. \A n : Back(n)' = Back(n)
  BY <1>1 DEF Back
<1>3. HoursFit'
  BY <1>1 DEF HoursFit
<1>4. CASE watermark = {} /\ \A h \in Hours : raw[h] = 0
  <2>1. watermark' = {hour} /\ pass' = NoPass /\ ~Under'
    BY <1>1, <1>4 DEF StartRollup, Under
  <2>2. RollupTyped'
    <3>1. \E w \in 0 .. hour' : watermark' = {w}
      BY <1>0, <1>1, <2>1
    <3> QED
      BY <1>1, <2>1, <3>1 DEF RollupTyped
  <2>3. Reach' \in Nat /\ Reach <= Reach'
    <3>1. hour <= hour' /\ \A v \in watermark' : \A w \in watermark : w <= v
      BY <1>0, <1>1, <1>4
    <3> QED
      BY <1>4, <2>1, <2>2, <3>1, ReachGrows
  <2>4. SweptFits'
    BY <1>0, <1>r, <1>1, <2>3 DEF SweptFits
  <2>5. PassFits' /\ LateAgain'
    BY <2>1 DEF PassFits, LateAgain
  <2>6. punctual => hour = 0
    BY <1>4 DEF OnTime
  <2>7. OnTime'
    BY <1>0, <1>1, <1>2, <2>1 DEF OnTime, Back
  <2>8. LateFits'
    BY <1>0, <1>1, <2>1, <2>6 DEF LateFits
  <2> QED
    BY <1>3, <2>2, <2>4, <2>5, <2>7, <2>8
<1>5. CASE ~(watermark = {} /\ \A h \in Hours : raw[h] = 0)
  <2>1. watermark' = watermark /\ \E from \in Starts :
           pass' = [at |-> "count", bucket |-> Min({from, Back(Reroll)}), top |-> hour, rows |-> 0, ever |-> 0]
    BY <1>5 DEF StartRollup
  <2>2. PICK from \in Starts :
           pass' = [at |-> "count", bucket |-> Min({from, Back(Reroll)}), top |-> hour, rows |-> 0, ever |-> 0]
    BY <2>1
  <2>3. from \in Nat /\ from <= hour /\ (watermark # {} => from \in watermark)
    <3>1. CASE watermark # {}
      BY <1>0, <2>2, <3>1 DEF Starts
    <3>2. CASE watermark = {} /\ stream = "jobs"
      BY <1>0, <2>2, <3>2 DEF Starts
    <3>3. CASE watermark = {} /\ stream # "jobs"
      <4> DEFINE T == {h \in Hours : raw[h] > 0}
      <4>1. from = Min(T)
        BY <2>2, <3>3 DEF Starts
      <4>2. T # {}
        BY <1>5, <3>3 DEF RollupTyped
      <4>3. T \in SUBSET Nat
        BY <1>0
      <4> HIDE DEF T
      <4>4. from \in T
        BY <4>1, <4>2, <4>3, MinIs
      <4>5. from \in Hours /\ raw[from] > 0
        BY <4>4 DEF T
      <4>6. ever[from] > 0
        BY <4>5 DEF HoursFit, RollupTyped
      <4>7. from <= hour
        BY <1>0, <4>5, <4>6 DEF HoursFit
      <4> QED
        BY <1>0, <3>3, <4>5, <4>7
    <3> QED
      BY <3>1, <3>2, <3>3
  <2> DEFINE start == Min({from, Back(Reroll)})
  <2>4. Back(Reroll) \in Nat /\ Back(Reroll) <= hour
    BY <1>0 DEF Back
  <2>5. start \in {from, Back(Reroll)} /\ start <= from /\ start <= Back(Reroll)
    BY <2>3, <2>4, MinIs
  <2> HIDE DEF start
  <2>6. start \in Nat /\ start <= hour /\ Reach <= start
    BY <1>0, <1>r, <2>3, <2>4, <2>5
  <2>7. start \in Hours /\ hour \in 0 .. LastHour
    BY <1>0, <2>6, RollupAssumption DEF Hours, RollupTyped
  <2>8. /\ pass' \in Passing /\ pass'.at = "count" /\ pass'.bucket = start /\ pass'.top = hour
    BY <2>2, <2>7 DEF Passing, start
  <2>9. Under'
    BY <2>2 DEF Under, NoPass
  <2>10. RollupTyped'
    BY <1>0, <1>1, <2>1, <2>8 DEF RollupTyped
  <2>11. Reach' \in Nat /\ Reach <= Reach'
    <3>1. hour <= hour' /\ \A v \in watermark' : \A w \in watermark : w <= v
      BY <1>0, <1>1, <2>1
    <3> QED
      BY <2>1, <2>6, <2>8, <2>10, <3>1, ReachGrows
  <2>12. SweptFits'
    BY <1>0, <1>r, <1>1, <2>11 DEF SweptFits
  <2>13. PassFits'
    BY <1>0, <2>1, <2>6, <2>8 DEF PassFits
  <2>14. OnTime'
    BY <1>0, <1>1, <1>2, <2>1, <2>8 DEF OnTime, Back
  <2>15. LateFits'
    <3>1. ASSUME punctual, NEW h \in Hours, h \in missing, h \notin cut, h < start
          PROVE  h >= Back(Late)
      <4>0. h \in Nat /\ h < from /\ h < Back(Reroll)
        BY <1>0, <2>3, <2>4, <2>5, <2>6, <3>1
      <4>1. CASE watermark = {}
        BY <1>0, <2>3, <3>1, <4>0, <4>1 DEF OnTime
      <4>2. CASE from \in watermark /\ from = hour
        BY <3>1, <4>0, <4>2 DEF LateFits
      <4>3. CASE from \in watermark /\ from # hour
        <5>1. h >= Back(Late + 1)
          BY <3>1, <4>0, <4>3 DEF LateFits
        <5> QED
          BY <1>0, <4>0, <5>1 DEF Back
      <4> QED
        BY <2>3, <4>1, <4>2, <4>3
    <3> QED
      BY <1>1, <1>2, <2>1, <2>8, <3>1 DEF LateFits
  <2>16. LateAgain'
    BY <2>8 DEF LateAgain
  <2> QED
    BY <1>3, <2>10, <2>12, <2>13, <2>14, <2>15, <2>16
<1> QED
  BY <1>4, <1>5

\* An hour behind the watermark that has not all of its rows is one a pass will come to.
LEMMA WholeFromInv ==
    ASSUME RollupInv
    PROVE  HoursAreWhole
<1> USE DEF RollupInv
<1>0. /\ hour \in Nat /\ Hours \subseteq Nat /\ Late \in Nat /\ Reroll \in Nat /\ Late < Reroll
      /\ \A w \in watermark : w \in Nat /\ w <= hour
      /\ \A w, v \in watermark : w = v
      /\ Under => pass.bucket \in Nat /\ pass.bucket \in Hours /\ pass.top \in Nat /\ pass.top <= hour
                  /\ pass.rows \in Nat /\ pass.ever \in Nat /\ pass.at \in {"count", "write"}
  BY RollupPlain
<1>r. /\ Reach \in Nat /\ Reach <= Back(Reroll) /\ \A w \in watermark : Reach <= w
      /\ watermark = {} => Reach = 0
      /\ Under => Reach <= pass.bucket
  BY ReachIs
<1> SUFFICES ASSUME NEW w \in watermark, NEW h \in Hours, h < w, h \notin cut, h \in missing, punctual
             PROVE  h >= Reach
  BY DEF HoursAreWhole, HoursFit
<1>1. h \in Nat /\ w \in Nat /\ w <= hour
  BY <1>0
<1>2. CASE w = hour
  <2>1. h >= Back(Late)
    BY <1>2 DEF LateFits
  <2> QED
    BY <1>0, <1>r, <1>1, <2>1 DEF Back
<1>3. CASE w # hour
  <2>1. h >= Back(Late + 1)
    BY <1>3 DEF LateFits
  <2> QED
    BY <1>0, <1>r, <1>1, <2>1 DEF Back
<1> QED
  BY <1>2, <1>3
\* The rollup starts with nothing counted.
LEMMA RollupInitFits ==
    ASSUME RollupInit
    PROVE  RollupInv
<1>1. 0 \in Hours /\ Hours \subseteq Nat
  BY RollupAssumption DEF Hours
<1>2. RollupTyped
  BY <1>1 DEF RollupInit, RollupTyped
<1>3. HoursFit /\ SweptFits
  <2>1. raw = [h \in Hours |-> 0] /\ rolled = raw /\ ever = raw /\ missing = {}
    BY DEF RollupInit
  <2>2. \A h \in Hours : raw[h] = 0 /\ rolled[h] = 0 /\ ever[h] = 0
    BY <2>1
  <2> QED
    BY <2>1, <2>2 DEF HoursFit, SweptFits
<1>4. PassFits /\ LateAgain
  BY DEF PassFits, LateAgain, RollupInit, Under
<1>5. OnTime /\ LateFits
  BY <1>1 DEF OnTime, LateFits, RollupInit, Under
<1> QED
  BY <1>2, <1>3, <1>4, <1>5 DEF RollupInv

\* Every step of the rollup, by its disjuncts.
LEMMA RollupKeeps ==
    ASSUME RollupInv, RollupNext
    PROVE  RollupInv'
<1>1. ASSUME NEW h \in Hours, RowArrives(h) PROVE RollupInv'
  BY <1>1, RowArrivesKeeps
<1>2. CASE StartRollup
  BY <1>2, StartRollupKeeps
<1>3. CASE CountHour
  BY <1>3, CountHourKeeps
<1>4. CASE WriteHour
  BY <1>4, WriteHourKeeps
<1>5. CASE EndRollup
  BY <1>5, EndRollupKeeps
<1>6. CASE AbandonRollup
  BY <1>6, AbandonRollupKeeps
<1>7. CASE SweepDeliveries
  BY <1>7, SweepDeliveriesKeeps
<1>8. CASE NextHour
  BY <1>8, NextHourKeeps
<1> QED
  BY <1>1, <1>2, <1>3, <1>4, <1>5, <1>6, <1>7, <1>8 DEF RollupNext

\* What leaves the rollup alone keeps its invariant.
LEMMA RollupStays ==
    ASSUME RollupInv, UNCHANGED rollupVars
    PROVE  RollupInv'
<1> USE DEF rollupVars
<1>1. RollupTyped' /\ HoursFit'
  BY DEF RollupInv, RollupTyped, HoursFit
<1>2. Reach' = Reach /\ Under' = Under /\ \A n : Back(n)' = Back(n)
  BY DEF Reach, Under, Back
<1>3. SweptFits' /\ PassFits' /\ OnTime' /\ LateFits' /\ LateAgain'
  BY <1>2 DEF RollupInv, SweptFits, PassFits, OnTime, LateFits, LateAgain
<1> QED
  BY <1>1, <1>3 DEF RollupInv

\* Where every sample is, and what a flush that is about to write read.
FlushState == [at : {"rest", "read", "write", "over"}, took : Nat, read : Nat]
Rested(f)    == flusher[f].at \in {"rest", "over"}

CountersInv ==
    /\ counting \in Nat /\ recorded \in Nat /\ dropped \in Nat /\ overlapped \in BOOLEAN
    /\ flusher \in [Flushers -> FlushState] /\ stored \in [count : Nat, hist : Nat]
    /\ SamplesCountOnce
    /\ \A f \in Flushers :
          /\ Rested(f) => flusher[f].took = 0
          /\ flusher[f].read <= stored.count
          /\ flusher[f].at = "write" /\ ~overlapped => flusher[f].read = stored.hist
    /\ overlapped \/ \E f \in Flushers : Rested(f)

\* The counters start with nothing in memory and nothing written.
LEMMA CountersInitFits ==
    ASSUME CountersInit
    PROVE  CountersInv
<1>1. Resting \in FlushState
  BY DEF Resting, FlushState
<1>2. /\ Resting.at = "rest" /\ Resting.took = 0 /\ Resting.read = 0
      /\ flusher = [f \in Flushers |-> Resting] /\ stored = [count |-> 0, hist |-> 0]
      /\ counting = 0 /\ recorded = 0 /\ dropped = 0 /\ overlapped = FALSE
  BY DEF CountersInit, Resting
<1>3. \A f \in Flushers : flusher[f] = Resting
  BY <1>2
<1>4. InFlight = 0
  BY <1>2, <1>3 DEF InFlight, Flushers
<1>5. SamplesCountOnce
  BY <1>2, <1>4 DEF SamplesCountOnce
<1> HIDE DEF Resting
<1>6. \A f \in Flushers : Rested(f) /\ flusher[f].took = 0 /\ flusher[f].read = 0
  BY <1>2, <1>3 DEF Rested
<1>7. flusher \in [Flushers -> FlushState] /\ stored \in [count : Nat, hist : Nat]
      /\ stored.count = 0 /\ stored.hist = 0
  BY <1>1, <1>2
<1>8. \E f \in Flushers : Rested(f)
  BY <1>6 DEF Flushers
<1>9. \A f \in Flushers : flusher[f].at # "write"
  BY <1>6 DEF Rested
<1>10. \A f \in Flushers : flusher[f].read <= stored.count
  BY <1>6, <1>7
<1>11. counting \in Nat /\ recorded \in Nat /\ dropped \in Nat /\ overlapped \in BOOLEAN
  BY <1>2
<1> QED
  BY <1>5, <1>6, <1>7, <1>8, <1>9, <1>10, <1>11 DEF CountersInv

\* A step of one flush, as numbers.
LEMMA OtherFlusher ==
    ASSUME NEW f \in Flushers, CountersInv
    PROVE  \E g \in Flushers : /\ g # f /\ Flushers = {f, g}
                               /\ InFlight = flusher[f].took + flusher[g].took
                               /\ flusher[f] \in FlushState /\ flusher[g] \in FlushState
<1>1. flusher["timer"] \in FlushState /\ flusher["shutdown"] \in FlushState
  BY DEF CountersInv, Flushers
<1>2. flusher["timer"].took \in Nat /\ flusher["shutdown"].took \in Nat
  BY <1>1 DEF FlushState
<1>3. CASE f = "timer"
  BY <1>1, <1>3 DEF Flushers, InFlight
<1>4. CASE f = "shutdown"
  BY <1>1, <1>2, <1>4 DEF Flushers, InFlight
<1> QED
  BY <1>3, <1>4 DEF Flushers

\* Every step of the counters, by its disjuncts.
LEMMA CountersKeep ==
    ASSUME CountersInv, CountersNext
    PROVE  CountersInv'
<1>0. stored.count \in Nat /\ stored.hist \in Nat /\ counting \in Nat /\ recorded \in Nat /\ dropped \in Nat
  BY DEF CountersInv
<1>1. CASE RecordSample
  <2>1. counting' = counting + 1 /\ recorded' = recorded + 1
        /\ flusher' = flusher /\ stored' = stored /\ dropped' = dropped /\ overlapped' = overlapped
    BY <1>1 DEF RecordSample
  <2>2. InFlight' = InFlight /\ InFlight \in Nat
    BY <2>1 DEF InFlight, CountersInv, FlushState, Flushers
  <2>3. SamplesCountOnce'
    BY <1>0, <2>1, <2>2 DEF CountersInv, SamplesCountOnce
  <2> QED
    BY <1>0, <2>1, <2>3 DEF CountersInv, Rested
<1>2. CASE TurnedOff
  <2>1. counting' = 0 /\ dropped' = dropped + counting
        /\ flusher' = flusher /\ stored' = stored /\ recorded' = recorded /\ overlapped' = overlapped
    BY <1>2 DEF TurnedOff
  <2>2. InFlight' = InFlight /\ InFlight \in Nat
    BY <2>1 DEF InFlight, CountersInv, FlushState, Flushers
  <2>3. SamplesCountOnce'
    BY <1>0, <2>1, <2>2 DEF CountersInv, SamplesCountOnce
  <2> QED
    BY <1>0, <2>1, <2>3 DEF CountersInv, Rested
<1>3. ASSUME NEW f \in Flushers, BeginFlush(f) \/ ReadRow(f) \/ UpsertRow(f) \/ FlushFails(f)
      PROVE  CountersInv'
  <2>0. PICK g \in Flushers : /\ g # f /\ Flushers = {f, g}
                              /\ InFlight = flusher[f].took + flusher[g].took
                              /\ flusher[f] \in FlushState /\ flusher[g] \in FlushState
    BY OtherFlusher
  <2> DEFINE F == flusher[f]
             G == flusher[g]
  <2>1. /\ F.took \in Nat /\ F.read \in Nat /\ G.took \in Nat /\ G.read \in Nat
        /\ F.at \in {"rest", "read", "write", "over"} /\ G.at \in {"rest", "read", "write", "over"}
        /\ F.read <= stored.count /\ G.read <= stored.count
        /\ Rested(f) => F.took = 0
        /\ Rested(g) => G.took = 0
        /\ F.at = "write" /\ ~overlapped => F.read = stored.hist
        /\ G.at = "write" /\ ~overlapped => G.read = stored.hist
        /\ overlapped \/ Rested(f) \/ Rested(g)
        /\ counting + (F.took + G.took) + stored.count + dropped = recorded
        /\ stored.hist <= stored.count /\ (overlapped \/ stored.hist = stored.count)
    BY <2>0 DEF CountersInv, FlushState, SamplesCountOnce
  <2>2. ASSUME NEW s \in FlushState, flusher' = [flusher EXCEPT ![f] = s]
        PROVE  /\ flusher'[f] = s /\ flusher'[g] = G /\ InFlight' = s.took + G.took
               /\ flusher' \in [Flushers -> FlushState]
    <3>1. /\ flusher'[f] = s /\ flusher'[g] = G /\ flusher' \in [Flushers -> FlushState]
      BY <2>0, <2>2 DEF CountersInv
    <3>2. s.took \in Nat
      BY DEF FlushState
    <3>3. InFlight' = s.took + G.took
      BY <2>0, <2>1, <3>1, <3>2 DEF InFlight, Flushers
    <3> QED
      BY <3>1, <3>3
  <2> HIDE DEF F, G
  <2>3. /\ Done(f) \in FlushState /\ Done(f).at \in {"rest", "over"} /\ Done(f).took = 0 /\ Done(f).read = 0
    BY DEF Done, Resting, FlushState
  <2>4. CASE BeginFlush(f)
    <3> DEFINE s == [at |-> "read", took |-> counting, read |-> 0]
    <3>1. /\ F.at = "rest" /\ flusher' = [flusher EXCEPT ![f] = s] /\ counting' = 0
          /\ stored' = stored /\ recorded' = recorded /\ dropped' = dropped
          /\ overlapped' = (overlapped \/ \E x \in Flushers \ {f} : flusher[x].at \in {"read", "write"})
      BY <2>4 DEF BeginFlush, Swapped, F
    <3>2. s \in FlushState
      BY <1>0 DEF FlushState
    <3>3. s.at = "read" /\ s.took = counting /\ s.read = 0
      OBVIOUS
    <3> HIDE DEF s
    <3>4. /\ flusher'[f] = s /\ flusher'[g] = G /\ InFlight' = counting + G.took
          /\ flusher' \in [Flushers -> FlushState]
      BY <2>2, <3>1, <3>2, <3>3
    <3>5. overlapped' \in BOOLEAN /\ (~overlapped' => ~overlapped /\ Rested(g))
      <4>1. overlapped \in BOOLEAN
        BY DEF CountersInv
      <4>2. ~overlapped' => ~overlapped /\ G.at \notin {"read", "write"}
        BY <2>0, <3>1 DEF G
      <4> QED
        BY <2>1, <3>1, <4>1, <4>2 DEF Rested, G
    <3>6. F.took = 0
      BY <2>1, <3>1 DEF Rested, F
    <3>7. SamplesCountOnce'
      BY <1>0, <2>1, <3>1, <3>4, <3>5, <3>6 DEF SamplesCountOnce
    <3> QED
      BY <1>0, <2>0, <2>1, <3>1, <3>3, <3>4, <3>5, <3>7 DEF CountersInv, Rested, F, G
  <2>5. CASE ReadRow(f)
    <3> DEFINE s == [F EXCEPT !.at = "write", !.read = stored.hist]
    <3>1. /\ F.at = "read" /\ flusher' = [flusher EXCEPT ![f] = s] /\ counting' = counting
          /\ stored' = stored /\ recorded' = recorded /\ dropped' = dropped /\ overlapped' = overlapped
      BY <2>5 DEF ReadRow, F
    <3>2. s \in FlushState /\ s.at = "write" /\ s.took = F.took /\ s.read = stored.hist
      BY <1>0, <2>0 DEF FlushState, F
    <3> HIDE DEF s
    <3>3. /\ flusher'[f] = s /\ flusher'[g] = G /\ InFlight' = F.took + G.took
          /\ flusher' \in [Flushers -> FlushState]
      BY <2>2, <3>1, <3>2
    <3>4. SamplesCountOnce'
      BY <1>0, <2>1, <3>1, <3>3 DEF SamplesCountOnce
    <3>5. overlapped \/ Rested(g)
      BY <2>1, <3>1 DEF Rested, F
    <3>6. Rested(g)' = Rested(g) /\ ~Rested(f)'
      BY <3>2, <3>3 DEF Rested, G
    <3> QED
      BY <1>0, <2>0, <2>1, <3>1, <3>2, <3>3, <3>4, <3>5, <3>6 DEF CountersInv, G
  <2>6. CASE UpsertRow(f)
    <3>1. /\ F.at = "write" /\ flusher' = [flusher EXCEPT ![f] = Done(f)] /\ counting' = counting
          /\ stored' = [count |-> stored.count + F.took, hist |-> F.read + F.took]
          /\ recorded' = recorded /\ dropped' = dropped /\ overlapped' = overlapped
      BY <2>6 DEF UpsertRow, F
    <3>2. /\ flusher'[f] = Done(f) /\ flusher'[g] = G /\ InFlight' = 0 + G.took
          /\ flusher' \in [Flushers -> FlushState]
      BY <2>2, <2>3, <3>1
    <3>3. /\ stored' \in [count : Nat, hist : Nat]
          /\ stored'.count = stored.count + F.took /\ stored'.hist = F.read + F.took
      BY <1>0, <2>1, <3>1
    <3>4. Rested(f)' /\ Rested(g)' = Rested(g)
      BY <2>3, <3>2 DEF Rested, G
    <3>5. ~Rested(f)
      BY <3>1 DEF Rested, F
    <3>6. SamplesCountOnce'
      BY <1>0, <2>1, <3>1, <3>2, <3>3 DEF SamplesCountOnce
    <3>7. G.at = "write" /\ ~overlapped => FALSE
      BY <2>1, <3>5 DEF Rested, G
    <3>8. F.read <= stored'.count /\ G.read <= stored'.count /\ 0 <= stored'.count
      BY <1>0, <2>1, <3>3
    <3> QED
      BY <1>0, <2>0, <2>1, <2>3, <3>1, <3>2, <3>3, <3>4, <3>6, <3>7, <3>8 DEF CountersInv, G
  <2>7. CASE FlushFails(f)
    <3>1. /\ F.at \in {"read", "write"} /\ flusher' = [flusher EXCEPT ![f] = Done(f)] /\ counting' = counting
          /\ stored' = stored /\ recorded' = recorded /\ dropped' = dropped + F.took /\ overlapped' = overlapped
      BY <2>7 DEF FlushFails, F
    <3>2. /\ flusher'[f] = Done(f) /\ flusher'[g] = G /\ InFlight' = 0 + G.took
          /\ flusher' \in [Flushers -> FlushState]
      BY <2>2, <2>3, <3>1
    <3>4. Rested(f)' /\ Rested(g)' = Rested(g)
      BY <2>3, <3>2 DEF Rested, G
    <3>6. SamplesCountOnce'
      BY <1>0, <2>1, <3>1, <3>2 DEF SamplesCountOnce
    <3>7. dropped' \in Nat /\ 0 <= stored.count
      BY <1>0, <2>1, <3>1
    <3> QED
      BY <1>0, <2>0, <2>1, <2>3, <3>1, <3>2, <3>4, <3>6, <3>7 DEF CountersInv, G
  <2> QED
    BY <1>3, <2>4, <2>5, <2>6, <2>7
<1> QED
  BY <1>1, <1>2, <1>3 DEF CountersNext

\* What leaves the counters alone keeps their invariant.
LEMMA CountersStay ==
    ASSUME CountersInv, UNCHANGED counterVars
    PROVE  CountersInv'
BY DEF counterVars, CountersInv, SamplesCountOnce, InFlight, Rested

\* Whatever order rows, hours, passes and sweeps come in, every hour behind the watermark is
\* summed up whole or has a late row that a coming pass counts (lib/metrics/rollup.ts), and
\* every sample is in a row or in memory, once: for every number of hours and every lateness
\* short of what is rolled again.
THEOREM StatisticsStayTrue == StatisticsSpec => []StatisticsAreTrue
<1>1. StatisticsInit => RollupInv /\ CountersInv
  BY RollupInitFits, CountersInitFits DEF StatisticsInit
<1>2. RollupInv /\ CountersInv /\ [StatisticsNext]_statisticsVars => RollupInv' /\ CountersInv'
  <2> SUFFICES ASSUME RollupInv, CountersInv, [StatisticsNext]_statisticsVars
               PROVE  RollupInv' /\ CountersInv'
    OBVIOUS
  <2>1. RollupNext \/ UNCHANGED rollupVars
    BY DEF StatisticsNext, statisticsVars
  <2>2. CountersNext \/ UNCHANGED counterVars
    BY DEF StatisticsNext, statisticsVars
  <2> QED
    BY <2>1, <2>2, RollupKeeps, RollupStays, CountersKeep, CountersStay
<1>3. RollupInv /\ CountersInv => StatisticsAreTrue
  BY WholeFromInv DEF CountersInv, StatisticsAreTrue
<1> QED
  BY <1>1, <1>2, <1>3, PTL DEF StatisticsSpec

-----------------------------------------------------------------------------
(* The cache of drawn images and faces. *)

Keys   == Assets \X Nat
Entry  == [key : Keys, data : Nat]
Kinds  == {"image", "font"}
Row    == [there : BOOLEAN, stamp : Nat, data : Nat]
CallState == [at : {"idle", "read", "wait", "keep", "over"}, key : Keys \cup {<<>>}, saw : Nat, got : Nat]
Asked(c) == caller[c].at # "idle"

AssetTyped ==
    /\ asset \in [Assets -> Row]
    /\ clock \in Nat /\ clock > 0 /\ written \in Nat /\ doubled \subseteq Assets
    /\ cache \in [image : Seq(Entry), font : Seq(Entry)]
    /\ inFlight \subseteq [key : Keys, by : Callers]
    /\ caller \in [Callers -> CallState]
    /\ \A c \in Callers : Asked(c) => caller[c].key \in Keys
    /\ \A c \in Callers : Asked(c) \/ caller[c].got = 0

\* Rows are stamped no later than now, with a version there has been.
RowsFit == \A a \in Assets : asset[a].stamp <= clock /\ asset[a].data <= written

\* A key is no newer than its asset, and one that is current was asked for when the
\* bytes were what they are.
AsksFit ==
    \A c \in Callers : Asked(c) /\ caller[c].key[1] \notin doubled =>
        LET own == asset[caller[c].key[1]] IN
        /\ caller[c].key[2] <= own.stamp /\ caller[c].saw <= own.data
        /\ caller[c].key[2] = own.stamp => caller[c].saw = own.data
        /\ caller[c].got # 0 \/ caller[c].at = "keep" => caller[c].got >= caller[c].saw
AsksAgree ==
    \A c, d \in Callers : Asked(c) /\ Asked(d) /\ caller[c].key = caller[d].key /\ caller[c].key[1] \notin doubled =>
        caller[c].saw = caller[d].saw

\* An entry that can still be hit holds bytes no older than its asset's.
EntryFits(e) ==
    e.key[1] \notin doubled =>
        /\ e.key[2] <= asset[e.key[1]].stamp
        /\ e.key[2] = asset[e.key[1]].stamp => e.data >= asset[e.key[1]].data
EntriesFit == \A k \in Kinds : \A i \in DOMAIN cache[k] : EntryFits(cache[k][i])

FlightsFit ==
    /\ \A f \in inFlight : caller[f.by].key = f.key /\ caller[f.by].at \in {"read", "keep"}
    /\ \A c \in Callers : caller[c].at = "wait" => \E f \in inFlight : f.key = caller[c].key

KeyedOnce(s) == \A i, j \in DOMAIN s : s[i].key = s[j].key => i = j
SizesFit ==
    /\ bytes = Total(cache.image) /\ \E cap \in Caps : bytes <= cap
    /\ \A k \in Kinds : KeyedOnce(cache[k])

AssetInv == AssetTyped /\ RowsFit /\ AsksFit /\ AsksAgree /\ EntriesFit /\ FlightsFit /\ SizesFit

\* A size is a number.
LEMMA SizeIs ==
    ASSUME NEW d \in Nat
    PROVE  SizeOf(d) \in Nat
BY DEF SizeOf

\* The running total of entries' sizes.
LEMMA TotalRuns ==
    ASSUME NEW s \in Seq(Entry)
    PROVE  \E c \in [0 .. Len(s) -> Nat] :
              /\ c[0] = 0 /\ \A k \in 1 .. Len(s) : c[k] = c[k - 1] + SizeOf(s[k].data)
              /\ Total(s) = c[Len(s)]
<1>1. Len(s) \in Nat /\ \A k \in 1 .. Len(s) : s[k] \in Entry /\ SizeOf(s[k].data) \in Nat
  <2>1. \A k \in 1 .. Len(s) : s[k] \in Entry
    BY LenProperties
  <2> QED
    BY <2>1, SizeIs, LenProperties DEF Entry
<1> DEFINE G == [p \in (1 .. Len(s)) \X Nat |-> p[2] + SizeOf(s[p[1]].data)]
<1>2. G \in [(1 .. Len(s)) \X Nat -> Nat]
  BY <1>1
<1>3. PICK c : IsRun(c, Nat, 0, Len(s), G)
  <2> HIDE DEF G
  <2>1. Len(s) \in Nat /\ 0 \in Nat
    BY <1>1
  <2> QED
    BY <1>2, <2>1, RunExists
<1>r. c \in [0 .. Len(s) -> Nat] /\ c[0] = 0 /\ \A k \in 1 .. Len(s) : c[k] = G[<<k, c[k - 1]>>]
  BY <1>3 DEF IsRun
<1>4. \A k \in 1 .. Len(s) : k - 1 \in 0 .. Len(s) /\ c[k] = c[k - 1] + SizeOf(s[k].data)
  <2> SUFFICES ASSUME NEW k \in 1 .. Len(s)
               PROVE  k - 1 \in 0 .. Len(s) /\ c[k] = c[k - 1] + SizeOf(s[k].data)
    OBVIOUS
  <2>1. k - 1 \in 0 .. Len(s)
    BY <1>1
  <2>2. c[k - 1] \in Nat
    BY <1>r, <2>1
  <2>3. <<k, c[k - 1]>> \in (1 .. Len(s)) \X Nat
    BY <2>2
  <2>4. G[<<k, c[k - 1]>>] = c[k - 1] + SizeOf(s[k].data)
    BY <2>3
  <2> HIDE DEF G
  <2> QED
    BY <1>r, <2>1, <2>4
<1> HIDE DEF G
<1> DEFINE Run(g) == g = [n \in 0 .. Len(s) |-> IF n = 0 THEN 0 ELSE g[n - 1] + SizeOf(s[n].data)]
<1>5. Run(c)
  <2>1. c = [n \in 0 .. Len(s) |-> c[n]]
    BY <1>r
  <2>2. \A n \in 0 .. Len(s) : c[n] = IF n = 0 THEN 0 ELSE c[n - 1] + SizeOf(s[n].data)
    <3> SUFFICES ASSUME NEW n \in 0 .. Len(s)
                 PROVE  c[n] = IF n = 0 THEN 0 ELSE c[n - 1] + SizeOf(s[n].data)
      OBVIOUS
    <3>1. n = 0 \/ n \in 1 .. Len(s)
      BY <1>1
    <3> QED
      BY <1>r, <1>4, <3>1
  <2> QED
    BY <2>1, <2>2
<1> DEFINE u == CHOOSE g : Run(g)
<1>6. Run(u)
  <2> HIDE DEF Run
  <2> QED
    BY <1>5
<1>7. Total(s) = u[Len(s)]
  BY DEF Total
<1> HIDE DEF u
<1>8. u[0] = 0 /\ \A k \in 1 .. Len(s) : u[k] = u[k - 1] + SizeOf(s[k].data)
  BY <1>1, <1>6
<1>9. \A k \in 0 .. Len(s) : c[k] = u[k]
  <2>1. c[0] = u[0] /\ \A k \in 1 .. Len(s) : c[k - 1] = u[k - 1] => c[k] = u[k]
    BY <1>r, <1>4, <1>8
  <2> HIDE DEF Run
  <2>2. Alike(c, u, Len(s))
    BY <1>1, <2>1, RunsAgree DEF GoAlike
  <2> QED
    BY <2>2 DEF Alike
<1>10. Total(s) = c[Len(s)]
  BY <1>1, <1>7, <1>9
<1> QED
  BY <1>r, <1>4, <1>10

\* The sum of entries' sizes is a number.
LEMMA TotalIsNumber ==
    ASSUME NEW s \in Seq(Entry)
    PROVE  Total(s) \in Nat /\ (Len(s) = 0 => Total(s) = 0)
<1>1. Len(s) \in Nat
  BY LenProperties
<1>2. PICK c \in [0 .. Len(s) -> Nat] : c[0] = 0 /\ Total(s) = c[Len(s)]
  BY TotalRuns
<1> QED
  BY <1>1, <1>2

\* The total of a sequence and one more.
LEMMA TotalOfAppend ==
    ASSUME NEW s \in Seq(Entry), NEW e \in Entry
    PROVE  /\ Total(s) \in Nat /\ Total(<<>>) = 0
           /\ Total(Append(s, e)) = Total(s) + SizeOf(e.data)
<1>1. Total(s) \in Nat /\ Total(<<>>) = 0
  <2>1. <<>> \in Seq(Entry) /\ Len(<<>>) = 0
    OBVIOUS
  <2> QED
    BY <2>1, TotalIsNumber
<1> DEFINE t == Append(s, e)
<1>2. t \in Seq(Entry) /\ Len(t) = Len(s) + 1 /\ Len(s) \in Nat /\ t[Len(s) + 1] = e
      /\ \A k \in 1 .. Len(s) : t[k] = s[k]
  BY AppendProperties, LenProperties
<1> HIDE DEF t
<1>3. PICK c \in [0 .. Len(s) -> Nat] :
              /\ c[0] = 0 /\ \A k \in 1 .. Len(s) : c[k] = c[k - 1] + SizeOf(s[k].data)
              /\ Total(s) = c[Len(s)]
  BY TotalRuns
<1>4. PICK d \in [0 .. Len(t) -> Nat] :
              /\ d[0] = 0 /\ \A k \in 1 .. Len(t) : d[k] = d[k - 1] + SizeOf(t[k].data)
              /\ Total(t) = d[Len(t)]
  BY <1>2, TotalRuns
<1>5. \A k \in 0 .. Len(s) : c[k] = d[k]
  <2>0. Len(s) \in Nat /\ c[0] = d[0]
    BY <1>2, <1>3, <1>4
  <2>1. ASSUME NEW k \in 1 .. Len(s), c[k - 1] = d[k - 1] PROVE c[k] = d[k]
    <3>1. k \in 1 .. Len(t) /\ t[k] = s[k]
      BY <1>2
    <3>2. c[k] = c[k - 1] + SizeOf(s[k].data)
      BY <1>3
    <3>3. d[k] = d[k - 1] + SizeOf(t[k].data)
      BY <1>4, <3>1
    <3> QED
      BY <2>1, <3>1, <3>2, <3>3
  <2>2. Alike(c, d, Len(s))
    BY <2>0, <2>1, RunsAgree DEF GoAlike
  <2> QED
    BY <2>2 DEF Alike
<1>6. d[Len(s) + 1] = d[Len(s)] + SizeOf(e.data)
  BY <1>2, <1>4
<1>7. c[Len(s)] = d[Len(s)]
  BY <1>2, <1>5
<1> QED
  BY <1>1, <1>2, <1>3, <1>4, <1>6, <1>7 DEF t

\* Two sequences joined, by the prefixes of the second.
LEMMA TotalOfConcat ==
    ASSUME NEW s \in Seq(Entry), NEW t \in Seq(Entry)
    PROVE  Total(s \o t) = Total(s) + Total(t)
<1>0. Len(s) \in Nat /\ Len(t) \in Nat /\ Total(s) \in Nat /\ Total(t) \in Nat
  BY TotalRuns, LenProperties
<1>1. /\ s \o t \in Seq(Entry) /\ Len(s \o t) = Len(s) + Len(t)
      /\ \A k \in 1 .. Len(s) : (s \o t)[k] = s[k]
      /\ \A k \in 1 .. Len(t) : (s \o t)[Len(s) + k] = t[k]
  <2>1. s \o t \in Seq(Entry) /\ Len(s \o t) = Len(s) + Len(t)
    BY ConcatProperties
  <2>2. \A k \in 1 .. Len(s) + Len(t) : (s \o t)[k] = IF k <= Len(s) THEN s[k] ELSE t[k - Len(s)]
    BY ConcatProperties
  <2>3. \A k \in 1 .. Len(s) : (s \o t)[k] = s[k]
    BY <1>0, <2>2
  <2>4. ASSUME NEW k \in 1 .. Len(t) PROVE (s \o t)[Len(s) + k] = t[k]
    <3>1. Len(s) + k \in 1 .. Len(s) + Len(t) /\ ~(Len(s) + k <= Len(s)) /\ Len(s) + k - Len(s) = k
      BY <1>0
    <3> QED
      BY <2>2, <3>1
  <2> QED
    BY <2>1, <2>3, <2>4
<1> DEFINE j == s \o t
<1> HIDE DEF j
<1>2. PICK c \in [0 .. Len(s) -> Nat] :
              /\ c[0] = 0 /\ \A k \in 1 .. Len(s) : c[k] = c[k - 1] + SizeOf(s[k].data)
              /\ Total(s) = c[Len(s)]
  BY TotalRuns
<1>3. PICK d \in [0 .. Len(t) -> Nat] :
              /\ d[0] = 0 /\ \A k \in 1 .. Len(t) : d[k] = d[k - 1] + SizeOf(t[k].data)
              /\ Total(t) = d[Len(t)]
  BY TotalRuns
<1>4. PICK b \in [0 .. Len(j) -> Nat] :
              /\ b[0] = 0 /\ \A k \in 1 .. Len(j) : b[k] = b[k - 1] + SizeOf(j[k].data)
              /\ Total(j) = b[Len(j)]
  BY <1>1, TotalRuns DEF j
<1>5. \A k \in 0 .. Len(s) : b[k] = c[k]
  <2>0. Len(s) \in Nat /\ b[0] = c[0]
    BY <1>0, <1>2, <1>4
  <2>1. \A k \in 1 .. Len(s) : b[k - 1] = c[k - 1] => b[k] = c[k]
    BY <1>0, <1>1, <1>2, <1>4 DEF j
  <2>2. Alike(b, c, Len(s))
    BY <2>0, <2>1, RunsAgree DEF GoAlike
  <2> QED
    BY <2>2 DEF Alike
<1> DEFINE f == [k \in 0 .. Len(t) |-> b[Len(s) + k]]
           g == [k \in 0 .. Len(t) |-> c[Len(s)] + d[k]]
<1>6. f[0] = g[0]
  BY <1>0, <1>2, <1>3, <1>5
<1>7. ASSUME NEW k \in 1 .. Len(t), f[k - 1] = g[k - 1] PROVE f[k] = g[k]
  <2>1. k \in Nat /\ k - 1 \in 0 .. Len(t) /\ k \in 0 .. Len(t) /\ Len(s) + k \in 1 .. Len(j) /\ Len(s) + k - 1 = Len(s) + (k - 1)
    BY <1>0, <1>1 DEF j
  <2>2. b[Len(s) + k] = b[Len(s) + (k - 1)] + SizeOf(t[k].data)
    <3>1. j[Len(s) + k] = t[k]
      BY <1>1 DEF j
    <3>2. b[Len(s) + k] = b[Len(s) + k - 1] + SizeOf(j[Len(s) + k].data)
      BY <1>4, <2>1
    <3> QED
      BY <2>1, <3>1, <3>2
  <2>3. d[k] = d[k - 1] + SizeOf(t[k].data)
    BY <1>3
  <2>4. b[Len(s) + (k - 1)] = c[Len(s)] + d[k - 1]
    BY <1>7, <2>1
  <2>5. c[Len(s)] \in Nat /\ d[k - 1] \in Nat /\ SizeOf(t[k].data) \in Nat
    <3>1. t[k] \in Entry
      BY LenProperties
    <3>2. SizeOf(t[k].data) \in Nat
      <4>1. t[k].data \in Nat
        BY <3>1 DEF Entry
      <4> QED
        BY <4>1, SizeIs
    <3>3. c[Len(s)] \in Nat /\ d[k - 1] \in Nat
      <4>1. Len(s) \in 0 .. Len(s)
        BY <1>0
      <4> HIDE DEF f, g
      <4> QED
        BY <2>1, <4>1
    <3> QED
      BY <3>2, <3>3
  <2>6. b[Len(s) + k] = c[Len(s)] + d[k]
    BY <2>2, <2>3, <2>4, <2>5
  <2> QED
    BY <2>1, <2>6
<1>8. \A k \in 0 .. Len(t) : f[k] = g[k]
  <2>0. Len(t) \in Nat
    BY <1>0
  <2> HIDE DEF f, g
  <2>1. Alike(f, g, Len(t))
    BY <2>0, <1>6, <1>7, RunsAgree DEF GoAlike
  <2> QED
    BY <2>1 DEF Alike
<1>9. b[Len(s) + Len(t)] = c[Len(s)] + d[Len(t)]
  BY <1>0, <1>8
<1> QED
  BY <1>1, <1>2, <1>3, <1>4, <1>9 DEF j

\* A sequence in two parts, and one entry of it taken out or replaced.
LEMMA TotalOfParts ==
    ASSUME NEW s \in Seq(Entry), NEW n \in 0 .. Len(s)
    PROVE  /\ SubSeq(s, 1, n) \in Seq(Entry) /\ SubSeq(s, n + 1, Len(s)) \in Seq(Entry)
           /\ Total(s) = Total(SubSeq(s, 1, n)) + Total(SubSeq(s, n + 1, Len(s)))
<1>0. Len(s) \in Nat /\ n \in Nat
  BY LenProperties
<1>1. /\ SubSeq(s, 1, n) \in Seq(Entry) /\ Len(SubSeq(s, 1, n)) = n
      /\ \A i \in 1 .. n : SubSeq(s, 1, n)[i] = s[i]
  <2>1. \A i \in 1 .. n : s[i] \in Entry
    BY <1>0, LenProperties
  <2> QED
    BY <1>0, <2>1, SubSeqProperties
<1>2. /\ SubSeq(s, n + 1, Len(s)) \in Seq(Entry) /\ Len(SubSeq(s, n + 1, Len(s))) = Len(s) - n
      /\ \A i \in 1 .. Len(s) - n : SubSeq(s, n + 1, Len(s))[i] = s[n + i]
  <2>1. \A i \in n + 1 .. Len(s) : s[i] \in Entry
    BY <1>0, LenProperties
  <2> QED
    BY <1>0, <2>1, SubSeqProperties
<1>3. s = SubSeq(s, 1, n) \o SubSeq(s, n + 1, Len(s))
  <2> DEFINE p == SubSeq(s, 1, n)
             q == SubSeq(s, n + 1, Len(s))
  <2>0. /\ p \in Seq(Entry) /\ q \in Seq(Entry) /\ Len(p) = n /\ Len(q) = Len(s) - n
        /\ \A i \in 1 .. n : p[i] = s[i]
        /\ \A i \in 1 .. Len(s) - n : q[i] = s[n + i]
    BY <1>1, <1>2
  <2> HIDE DEF p, q
  <2>c. /\ p \o q \in Seq(Entry) /\ Len(p \o q) = Len(p) + Len(q)
        /\ \A i \in 1 .. Len(p) + Len(q) : (p \o q)[i] = IF i <= Len(p) THEN p[i] ELSE q[i - Len(p)]
    BY <2>0, ConcatProperties
  <2>1. p \o q \in Seq(Entry) /\ Len(p \o q) = Len(s)
    BY <1>0, <2>0, <2>c
  <2>2. \A i \in 1 .. Len(s) : (p \o q)[i] = s[i]
    <3> SUFFICES ASSUME NEW i \in 1 .. Len(s) PROVE (p \o q)[i] = s[i]
      OBVIOUS
    <3>1. (p \o q)[i] = IF i <= Len(p) THEN p[i] ELSE q[i - Len(p)]
      BY <1>0, <2>0, <2>c
    <3>2. CASE i <= n
      BY <1>0, <2>0, <3>1, <3>2
    <3>3. CASE ~(i <= n)
      <4>1. i - n \in 1 .. Len(s) - n /\ n + (i - n) = i
        BY <1>0, <3>3
      <4> QED
        BY <2>0, <3>1, <3>3, <4>1
    <3> QED
      BY <3>2, <3>3
  <2>3. p \o q = s
    BY <2>1, <2>2, SeqEqual
  <2> QED
    BY <2>3 DEF p, q
<1> QED
  BY <1>1, <1>2, <1>3, TotalOfConcat

\* What is left when one entry is taken out.
LEMMA DroppedIs ==
    ASSUME NEW s \in Seq(Entry), NEW i \in 1 .. Len(s)
    PROVE  /\ Dropped(s, i) \in Seq(Entry) /\ Len(Dropped(s, i)) = Len(s) - 1
           /\ \A k \in 1 .. Len(s) - 1 : Dropped(s, i)[k] = IF k < i THEN s[k] ELSE s[k + 1]
<1> DEFINE p == SubSeq(s, 1, i - 1)
           q == SubSeq(s, i + 1, Len(s))
<1>0. Len(s) \in Nat /\ i \in Nat
  BY LenProperties
<1>1. /\ p \in Seq(Entry) /\ Len(p) = i - 1 /\ \A k \in 1 .. i - 1 : p[k] = s[k]
  <2>1. \A k \in 1 .. i - 1 : s[k] \in Entry
    BY <1>0, LenProperties
  <2> QED
    BY <1>0, <2>1, SubSeqProperties
<1>2. /\ q \in Seq(Entry) /\ Len(q) = Len(s) - i /\ \A k \in 1 .. Len(s) - i : q[k] = s[i + k]
  <2>1. \A k \in i + 1 .. Len(s) : s[k] \in Entry
    BY <1>0, LenProperties
  <2> QED
    BY <1>0, <2>1, SubSeqProperties
<1>3. Dropped(s, i) = p \o q
  BY DEF Dropped
<1> HIDE DEF p, q
<1>4. /\ p \o q \in Seq(Entry) /\ Len(p \o q) = Len(p) + Len(q)
      /\ \A k \in 1 .. Len(p) + Len(q) : (p \o q)[k] = IF k <= Len(p) THEN p[k] ELSE q[k - Len(p)]
  BY <1>1, <1>2, ConcatProperties
<1>5. ASSUME NEW k \in 1 .. Len(s) - 1 PROVE (p \o q)[k] = IF k < i THEN s[k] ELSE s[k + 1]
  <2>1. (p \o q)[k] = IF k <= Len(p) THEN p[k] ELSE q[k - Len(p)]
    BY <1>0, <1>1, <1>2, <1>4
  <2>2. CASE k < i
    <3>1. k \in 1 .. i - 1 /\ k <= Len(p)
      BY <1>0, <1>1, <2>2
    <3> QED
      BY <1>1, <2>1, <2>2, <3>1
  <2>3. CASE ~(k < i)
    <3>1. k - (i - 1) \in 1 .. Len(s) - i /\ i + (k - (i - 1)) = k + 1 /\ ~(k <= Len(p))
      BY <1>0, <1>1, <2>3
    <3> QED
      BY <1>1, <1>2, <2>1, <2>3, <3>1
  <2> QED
    BY <2>2, <2>3
<1>6. Len(p \o q) = Len(s) - 1
  BY <1>0, <1>1, <1>2, <1>4
<1> QED
  BY <1>3, <1>4, <1>5, <1>6

\* An entry taken out takes its size along.
LEMMA TotalWithout ==
    ASSUME NEW s \in Seq(Entry), NEW i \in 1 .. Len(s)
    PROVE  Total(s) = Total(Dropped(s, i)) + SizeOf(s[i].data)
<1>0. Len(s) \in Nat /\ i \in Nat /\ i - 1 \in 0 .. Len(s) /\ i \in 0 .. Len(s) /\ s[i] \in Entry
  BY LenProperties
<1> DEFINE p == SubSeq(s, 1, i - 1)
           q == SubSeq(s, i + 1, Len(s))
           r == SubSeq(s, 1, i)
<1>1. r \in Seq(Entry) /\ q \in Seq(Entry) /\ Total(s) = Total(r) + Total(q)
  BY <1>0, TotalOfParts
<1>2. p \in Seq(Entry)
  BY <1>0, TotalOfParts
<1>3. r = Append(p, s[i])
  <2>1. /\ Len(r) = i /\ \A k \in 1 .. i : r[k] = s[k]
    <3>1. \A k \in 1 .. i : s[k] \in Entry
      BY <1>0, LenProperties
    <3> QED
      BY <1>0, <3>1, SubSeqProperties
  <2>2. /\ Len(p) = i - 1 /\ \A k \in 1 .. i - 1 : p[k] = s[k]
    <3>1. \A k \in 1 .. i - 1 : s[k] \in Entry
      BY <1>0, LenProperties
    <3> QED
      BY <1>0, <3>1, SubSeqProperties
  <2> HIDE DEF p, q, r
  <2>3. /\ Append(p, s[i]) \in Seq(Entry) /\ Len(Append(p, s[i])) = i
        /\ \A k \in 1 .. i - 1 : Append(p, s[i])[k] = p[k]
        /\ Append(p, s[i])[i] = s[i]
    BY <1>0, <1>2, <2>2, AppendProperties
  <2>4. \A k \in 1 .. i : r[k] = Append(p, s[i])[k]
    <3> SUFFICES ASSUME NEW k \in 1 .. i PROVE r[k] = Append(p, s[i])[k]
      OBVIOUS
    <3>1. k = i \/ k \in 1 .. i - 1
      BY <1>0
    <3> QED
      BY <2>1, <2>2, <2>3, <3>1
  <2> QED
    BY <1>1, <2>1, <2>3, <2>4, SeqEqual
<1>4. Dropped(s, i) = p \o q
  BY DEF Dropped
<1> HIDE DEF p, q, r
<1>5. Total(p \o q) = Total(p) + Total(q)
  BY <1>1, <1>2, TotalOfConcat
<1>6. Total(r) = Total(p) + SizeOf(s[i].data)
  BY <1>0, <1>2, <1>3, TotalOfAppend
<1>7. Total(p) \in Nat /\ Total(q) \in Nat /\ SizeOf(s[i].data) \in Nat
  <2>1. s[i].data \in Nat
    BY <1>0 DEF Entry
  <2> QED
    BY <1>0, <1>1, <1>2, <2>1, TotalOfAppend, SizeIs
<1> QED
  BY <1>1, <1>4, <1>5, <1>6, <1>7

\* An entry that takes the place of another changes the sum by the difference.
LEMMA TotalOfReplaced ==
    ASSUME NEW s \in Seq(Entry), NEW t \in Seq(Entry), NEW i \in 1 .. Len(s), Len(t) = Len(s),
           \A k \in 1 .. Len(s) : k # i => t[k] = s[k]
    PROVE  Total(t) = Total(s) - SizeOf(s[i].data) + SizeOf(t[i].data)
<1>0. Len(s) \in Nat /\ i \in 1 .. Len(t)
  BY LenProperties
<1>1. Dropped(t, i) = Dropped(s, i)
  <2>1. /\ Dropped(s, i) \in Seq(Entry) /\ Len(Dropped(s, i)) = Len(s) - 1
        /\ \A k \in 1 .. Len(s) - 1 : Dropped(s, i)[k] = IF k < i THEN s[k] ELSE s[k + 1]
    BY DroppedIs
  <2>2. /\ Dropped(t, i) \in Seq(Entry) /\ Len(Dropped(t, i)) = Len(s) - 1
        /\ \A k \in 1 .. Len(s) - 1 : Dropped(t, i)[k] = IF k < i THEN t[k] ELSE t[k + 1]
    BY <1>0, DroppedIs
  <2>3. \A k \in 1 .. Len(s) - 1 : Dropped(t, i)[k] = Dropped(s, i)[k]
    <3> SUFFICES ASSUME NEW k \in 1 .. Len(s) - 1 PROVE Dropped(t, i)[k] = Dropped(s, i)[k]
      OBVIOUS
    <3>1. k \in 1 .. Len(s) /\ k + 1 \in 1 .. Len(s)
      BY <1>0
    <3>2. CASE k < i
      BY <2>1, <2>2, <3>1, <3>2
    <3>3. CASE ~(k < i)
      BY <2>1, <2>2, <3>1, <3>3
    <3> QED
      BY <3>2, <3>3
  <2> QED
    BY <2>1, <2>2, <2>3, SeqEqual
<1>2. /\ Total(s) = Total(Dropped(s, i)) + SizeOf(s[i].data)
      /\ Total(t) = Total(Dropped(t, i)) + SizeOf(t[i].data)
  BY <1>0, TotalWithout
<1>3. Total(Dropped(s, i)) \in Nat /\ SizeOf(s[i].data) \in Nat /\ SizeOf(t[i].data) \in Nat
  <2>1. s[i] \in Entry /\ t[i] \in Entry
    BY <1>0, LenProperties
  <2>2. s[i].data \in Nat /\ t[i].data \in Nat
    BY <2>1 DEF Entry
  <2> QED
    BY <2>1, <2>2, DroppedIs, TotalOfAppend, SizeIs
<1> QED
  BY <1>1, <1>2, <1>3

\* A hit moves its entry to the end, and nothing else.
LEMMA MovedIs ==
    ASSUME NEW s \in Seq(Entry), NEW i \in 1 .. Len(s)
    PROVE  LET t == Append(Dropped(s, i), s[i]) IN
           /\ t \in Seq(Entry) /\ Len(t) = Len(s) /\ Total(t) = Total(s)
           /\ \A k \in 1 .. Len(t) : t[k] = IF k = Len(s) THEN s[i] ELSE IF k < i THEN s[k] ELSE s[k + 1]
<1> DEFINE r == Dropped(s, i)
           t == Append(r, s[i])
<1>0. Len(s) \in Nat /\ s[i] \in Entry
  BY LenProperties
<1>1. /\ r \in Seq(Entry) /\ Len(r) = Len(s) - 1
      /\ \A k \in 1 .. Len(s) - 1 : r[k] = IF k < i THEN s[k] ELSE s[k + 1]
  BY DroppedIs
<1>2. Total(s) = Total(r) + SizeOf(s[i].data)
  BY TotalWithout
<1> HIDE DEF r
<1>3. Total(t) = Total(r) + SizeOf(s[i].data)
  BY <1>0, <1>1, TotalOfAppend
<1>4. /\ t \in Seq(Entry) /\ Len(t) = Len(s) /\ t[Len(s)] = s[i]
      /\ \A k \in 1 .. Len(s) - 1 : t[k] = r[k]
  <2>1. /\ t \in Seq(Entry) /\ Len(t) = Len(r) + 1 /\ t[Len(r) + 1] = s[i]
        /\ \A k \in 1 .. Len(r) : t[k] = r[k]
    BY <1>0, <1>1, AppendProperties
  <2> HIDE DEF t
  <2> QED
    BY <1>0, <1>1, <2>1
<1> HIDE DEF t
<1>5. ASSUME NEW k \in 1 .. Len(s)
      PROVE  t[k] = IF k = Len(s) THEN s[i] ELSE IF k < i THEN s[k] ELSE s[k + 1]
  <2>1. k = Len(s) \/ k \in 1 .. Len(s) - 1
    BY <1>0
  <2> QED
    BY <1>0, <1>1, <1>4, <2>1
<1> QED
  BY <1>2, <1>3, <1>4, <1>5 DEF t, r

\* The entry that was hit goes to the end: the same entries, once each, and the same sum.
LEMMA MovedKeeps ==
    ASSUME NEW s \in Seq(Entry), NEW i \in 1 .. Len(s), KeyedOnce(s)
    PROVE  LET t == Append(Dropped(s, i), s[i]) IN
           KeyedOnce(t) /\ \A k \in DOMAIN t : \E j \in DOMAIN s : t[k] = s[j]
<1> DEFINE t == Append(Dropped(s, i), s[i])
           from(k) == IF k = Len(s) THEN i ELSE IF k < i THEN k ELSE k + 1
<1>0. Len(s) \in Nat
  BY LenProperties
<1>d. DOMAIN s = 1 .. Len(s)
  BY LenProperties
<1>1. t \in Seq(Entry) /\ Len(t) = Len(s)
      /\ \A k \in 1 .. Len(t) : t[k] = IF k = Len(s) THEN s[i] ELSE IF k < i THEN s[k] ELSE s[k + 1]
  BY MovedIs
<1>2. DOMAIN t = 1 .. Len(s)
  BY <1>1, LenProperties
<1> HIDE DEF t
<1>3. ASSUME NEW k \in 1 .. Len(s) PROVE from(k) \in 1 .. Len(s) /\ t[k] = s[from(k)]
  <2>1. t[k] = IF k = Len(s) THEN s[i] ELSE IF k < i THEN s[k] ELSE s[k + 1]
    BY <1>1
  <2>2. CASE k = Len(s)
    BY <2>1, <2>2
  <2>3. CASE k # Len(s) /\ k < i
    BY <2>1, <2>3
  <2>4. CASE k # Len(s) /\ ~(k < i)
    <3>1. k \in Nat /\ k <= Len(s)
      BY <1>0
    <3>2. k + 1 \in 1 .. Len(s)
      BY <1>0, <2>4, <3>1
    <3> QED
      BY <2>1, <2>4, <3>2
  <2> QED
    BY <2>2, <2>3, <2>4
<1>4. ASSUME NEW k \in 1 .. Len(s), NEW j \in 1 .. Len(s), from(k) = from(j) PROVE k = j
  <2>1. k \in Nat /\ j \in Nat /\ i \in Nat /\ k <= Len(s) /\ j <= Len(s)
    BY <1>0
  <2>2. CASE k = Len(s)
    BY <1>0, <1>4, <2>1, <2>2
  <2>3. CASE j = Len(s)
    BY <1>0, <1>4, <2>1, <2>3
  <2>4. CASE k # Len(s) /\ j # Len(s)
    <3>1. (IF k < i THEN k ELSE k + 1) = (IF j < i THEN j ELSE j + 1)
      BY <1>4, <2>4
    <3> HIDE DEF from
    <3> QED
      BY <2>1, <3>1
  <2> QED
    BY <2>2, <2>3, <2>4
<1> HIDE DEF from
<1>5. ASSUME NEW k \in 1 .. Len(s), NEW j \in 1 .. Len(s), t[k].key = t[j].key PROVE k = j
  <2>1. from(k) \in 1 .. Len(s) /\ from(j) \in 1 .. Len(s) /\ s[from(k)].key = s[from(j)].key
    BY <1>3, <1>5
  <2>2. from(k) = from(j)
    BY <1>d, <2>1 DEF KeyedOnce
  <2> QED
    BY <1>4, <2>2
<1>6. KeyedOnce(t)
  BY <1>2, <1>5 DEF KeyedOnce
<1>7. \A k \in DOMAIN t : \E j \in DOMAIN s : t[k] = s[j]
  BY <1>d, <1>2, <1>3
<1> QED
  BY <1>6, <1>7 DEF t

\* Keeping an entry under its key.
LEMMA InsertedIs ==
    ASSUME NEW s \in Seq(Entry), NEW e \in Entry, KeyedOnce(s)
    PROVE  /\ Inserted(s, e) \in Seq(Entry) /\ KeyedOnce(Inserted(s, e))
           /\ \A k \in DOMAIN Inserted(s, e) : Inserted(s, e)[k] = e \/ \E j \in DOMAIN s : Inserted(s, e)[k] = s[j]
           /\ Total(Inserted(s, e)) = Total(s) - Replaced(s, e.key) + SizeOf(e.data)
<1>0. Len(s) \in Nat /\ DOMAIN s = 1 .. Len(s) /\ \A k \in 1 .. Len(s) : s[k] \in Entry
  BY LenProperties
<1>n. Total(s) \in Nat /\ SizeOf(e.data) \in Nat
  <2>1. e.data \in Nat
    BY DEF Entry
  <2> QED
    BY <2>1, TotalOfAppend, SizeIs
<1>1. CASE \E i \in DOMAIN s : s[i].key = e.key
  <2>1. PICK i \in 1 .. Len(s) : s[i].key = e.key
    BY <1>0, <1>1
  <2>2. \A k \in 1 .. Len(s) : s[k].key = e.key => k = i
    BY <1>0, <2>1 DEF KeyedOnce
  <2> DEFINE t == [k \in DOMAIN s |-> IF s[k].key = e.key THEN e ELSE s[k]]
  <2>3. t \in Seq(Entry) /\ Len(t) = Len(s) /\ DOMAIN t = 1 .. Len(s)
    <3>1. t \in [1 .. Len(s) -> Entry]
      BY <1>0
    <3> HIDE DEF t
    <3>2. t \in Seq(Entry)
      BY <1>0, <3>1
    <3> QED
      BY <1>0, <3>1, <3>2, LenProperties
  <2>4. t[i] = e /\ \A k \in 1 .. Len(s) : k # i => t[k] = s[k]
    BY <1>0, <2>1, <2>2
  <2>5. Inserted(s, e) = t
    BY <1>1 DEF Inserted
  <2> HIDE DEF t
  <2>6. KeyedOnce(t)
    <3> SUFFICES ASSUME NEW k \in 1 .. Len(s), NEW j \in 1 .. Len(s), t[k].key = t[j].key PROVE k = j
      BY <2>3 DEF KeyedOnce
    <3>1. s[k].key = s[j].key
      BY <2>1, <2>4
    <3> QED
      BY <1>0, <3>1 DEF KeyedOnce
  <2>7. Replaced(s, e.key) = SizeOf(s[i].data)
    <3>1. (CHOOSE k \in DOMAIN s : s[k].key = e.key) = i
      BY <1>0, <2>1, <2>2
    <3> QED
      BY <1>1, <3>1 DEF Replaced
  <2>8. Total(t) = Total(s) - SizeOf(s[i].data) + SizeOf(e.data)
    BY <2>3, <2>4, TotalOfReplaced
  <2>9. \A k \in DOMAIN t : t[k] = e \/ \E j \in DOMAIN s : t[k] = s[j]
    BY <1>0, <2>3, <2>4
  <2> QED
    BY <2>3, <2>5, <2>6, <2>7, <2>8, <2>9
<1>2. CASE ~\E i \in DOMAIN s : s[i].key = e.key
  <2> DEFINE t == Append(s, e)
  <2>1. t \in Seq(Entry) /\ Len(t) = Len(s) + 1 /\ DOMAIN t = 1 .. Len(s) + 1 /\ t[Len(s) + 1] = e
        /\ \A k \in 1 .. Len(s) : t[k] = s[k]
    BY <1>0, AppendProperties, LenProperties
  <2>2. Inserted(s, e) = t
    BY <1>2 DEF Inserted
  <2>3. Replaced(s, e.key) = 0
    BY <1>2 DEF Replaced
  <2>4. Total(t) = Total(s) + SizeOf(e.data)
    BY TotalOfAppend
  <2> HIDE DEF t
  <2>5. \A k \in 1 .. Len(s) + 1 : k = Len(s) + 1 \/ k \in 1 .. Len(s)
    BY <1>0
  <2>6. KeyedOnce(t)
    <3> SUFFICES ASSUME NEW k \in 1 .. Len(s) + 1, NEW j \in 1 .. Len(s) + 1, t[k].key = t[j].key PROVE k = j
      BY <2>1 DEF KeyedOnce
    <3>1. CASE k \in 1 .. Len(s) /\ j \in 1 .. Len(s)
      BY <1>0, <2>1, <3>1 DEF KeyedOnce
    <3>2. CASE k = Len(s) + 1 /\ j \in 1 .. Len(s)
      BY <1>0, <1>2, <2>1, <3>2
    <3>3. CASE k \in 1 .. Len(s) /\ j = Len(s) + 1
      BY <1>0, <1>2, <2>1, <3>3
    <3> QED
      BY <2>5, <3>1, <3>2, <3>3
  <2>7. \A k \in DOMAIN t : t[k] = e \/ \E j \in DOMAIN s : t[k] = s[j]
    BY <1>0, <2>1, <2>5
  <2>8. Total(t) = Total(s) - Replaced(s, e.key) + SizeOf(e.data)
    BY <1>n, <2>3, <2>4
  <2> QED
    BY <2>1, <2>2, <2>6, <2>7, <2>8
<1> QED
  BY <1>1, <1>2

\* What is left of the entries when the oldest n are gone.
LEMMA RestIs ==
    ASSUME NEW s \in Seq(Entry), NEW n \in 0 .. Len(s), KeyedOnce(s)
    PROVE  /\ Rest(s, n) \in Seq(Entry) /\ KeyedOnce(Rest(s, n))
           /\ \A k \in DOMAIN Rest(s, n) : \E j \in DOMAIN s : Rest(s, n)[k] = s[j]
           /\ Total(Rest(s, n)) = Total(s) - Total(SubSeq(s, 1, n)) /\ Total(Rest(s, n)) \in Nat
           /\ n = Len(s) => Total(Rest(s, n)) = 0
<1> DEFINE q == SubSeq(s, n + 1, Len(s))
           p == SubSeq(s, 1, n)
<1>0. Len(s) \in Nat /\ n \in Nat
  BY LenProperties
<1>d. DOMAIN s = 1 .. Len(s)
  BY LenProperties
<1>1. p \in Seq(Entry) /\ q \in Seq(Entry) /\ Total(s) = Total(p) + Total(q)
  BY TotalOfParts
<1>2. Len(q) = Len(s) - n /\ \A k \in 1 .. Len(s) - n : q[k] = s[n + k]
  <2>1. \A k \in n + 1 .. Len(s) : s[k] \in Entry
    BY <1>0, LenProperties
  <2> QED
    <3>1. /\ Len(q) = IF n + 1 <= Len(s) THEN Len(s) - (n + 1) + 1 ELSE 0
          /\ \A k \in 1 .. Len(s) - (n + 1) + 1 : q[k] = s[n + 1 + k - 1]
      BY <1>0, <2>1, SubSeqProperties
    <3> HIDE DEF q
    <3>2. Len(q) = Len(s) - n
      <4>1. n <= Len(s)
        BY <1>0
      <4>2. Len(q) = IF n + 1 <= Len(s) THEN Len(s) - (n + 1) + 1 ELSE 0
        BY <3>1
      <4> QED
        BY <1>0, <4>1, <4>2
    <3>3. \A k \in 1 .. Len(s) - n : k \in 1 .. Len(s) - (n + 1) + 1 /\ n + 1 + k - 1 = n + k
      BY <1>0
    <3> QED
      BY <3>1, <3>2, <3>3
<1>3. Rest(s, n) = q
  BY DEF Rest
<1> HIDE DEF p, q
<1>4. DOMAIN q = 1 .. Len(s) - n
  BY <1>1, <1>2, LenProperties
<1>5. Total(p) \in Nat /\ Total(q) \in Nat
  BY <1>1, TotalIsNumber
<1>6. ASSUME NEW k \in 1 .. Len(s) - n PROVE n + k \in 1 .. Len(s)
  <2>1. k \in Nat /\ k <= Len(s) - n /\ k >= 1
    BY <1>0
  <2> QED
    BY <1>0, <2>1
<1>7. KeyedOnce(q)
  <2> SUFFICES ASSUME NEW k \in 1 .. Len(s) - n, NEW j \in 1 .. Len(s) - n, q[k].key = q[j].key PROVE k = j
    BY <1>4 DEF KeyedOnce
  <2>1. n + k = n + j
    <3>1. n + k \in DOMAIN s /\ n + j \in DOMAIN s
      BY <1>d, <1>6
    <3>2. s[n + k].key = s[n + j].key
      BY <1>2
    <3> QED
      BY <3>1, <3>2 DEF KeyedOnce
  <2>2. k \in Nat /\ j \in Nat
    BY <1>0
  <2> QED
    BY <1>0, <2>1, <2>2
<1>8. \A k \in DOMAIN q : \E j \in DOMAIN s : q[k] = s[j]
  BY <1>d, <1>2, <1>4, <1>6
<1>9. n = Len(s) => Total(q) = 0
  <2> SUFFICES ASSUME n = Len(s) PROVE Total(q) = 0
    OBVIOUS
  <2>1. Len(q) = 0
    BY <1>0, <1>2
  <2> QED
    BY <1>1, <2>1, TotalIsNumber
<1>10. Total(q) = Total(s) - Total(p)
  BY <1>1, <1>5
<1> QED
  BY <1>1, <1>3, <1>5, <1>7, <1>8, <1>9, <1>10 DEF p

\* Going through numbers up to a last one, there is a first that is enough.
LEMMA FirstEnough ==
    ASSUME NEW L \in Nat, NEW E
    PROVE  \E n \in 0 .. L : (n = L \/ n \in E) /\ \A m \in 0 .. n - 1 : m \notin E
<1> DEFINE T == {n \in 0 .. L : n = L \/ n \in E}
<1>1. T \in SUBSET Nat /\ T # {}
  OBVIOUS
<1>2. PICK n \in T : \A m \in T : n <= m
  <2> HIDE DEF T
  <2> QED
    BY <1>1, SmallestOf
<1>3. \A m \in 0 .. n - 1 : m \notin E
  BY <1>2
<1> QED
  BY <1>2, <1>3

\* The facts of the invariant that the steps need by themselves.
LEMMA AssetPlain ==
    ASSUME AssetTyped
    PROVE  /\ clock \in Nat /\ clock > 0 /\ written \in Nat
           /\ \A a \in Assets : asset[a] \in Row /\ asset[a].stamp \in Nat /\ asset[a].data \in Nat
           /\ \A c \in Callers : caller[c] \in CallState /\ caller[c].saw \in Nat /\ caller[c].got \in Nat
           /\ \A c \in Callers : Asked(c) => caller[c].key \in Keys /\ caller[c].key[1] \in Assets /\ caller[c].key[2] \in Nat
           /\ \A k \in Kinds : /\ cache[k] \in Seq(Entry) /\ DOMAIN cache[k] = 1 .. Len(cache[k]) /\ Len(cache[k]) \in Nat
                               /\ \A i \in DOMAIN cache[k] : cache[k][i] \in Entry
           /\ \A e \in Entry : e.key \in Keys /\ e.key[1] \in Assets /\ e.key[2] \in Nat /\ e.data \in Nat
<1>1. \A a \in Assets : asset[a] \in Row /\ asset[a].stamp \in Nat /\ asset[a].data \in Nat
  BY DEF AssetTyped, Row
<1>2. \A c \in Callers : caller[c] \in CallState /\ caller[c].saw \in Nat /\ caller[c].got \in Nat
  BY DEF AssetTyped, CallState
<1>3. \A p \in Keys : p[1] \in Assets /\ p[2] \in Nat
  BY DEF Keys
<1>4. \A c \in Callers : Asked(c) => caller[c].key \in Keys /\ caller[c].key[1] \in Assets /\ caller[c].key[2] \in Nat
  BY <1>3 DEF AssetTyped
<1>5. \A k \in Kinds : cache[k] \in Seq(Entry)
  BY DEF AssetTyped, Kinds
<1>6. ASSUME NEW k \in Kinds
      PROVE  /\ DOMAIN cache[k] = 1 .. Len(cache[k]) /\ Len(cache[k]) \in Nat
             /\ \A i \in DOMAIN cache[k] : cache[k][i] \in Entry
  BY <1>5, LenProperties
<1>7. \A e \in Entry : e.key \in Keys /\ e.key[1] \in Assets /\ e.key[2] \in Nat /\ e.data \in Nat
  BY <1>3 DEF Entry
<1> QED
  BY <1>1, <1>2, <1>4, <1>5, <1>6, <1>7 DEF AssetTyped

\* While the caches stand, an asset that is not twice written in a millisecond gets
\* newer, and its stamp with its bytes.
LEMMA RowsMove ==
    ASSUME AssetInv, asset' \in [Assets -> Row], clock' \in Nat, clock' > 0, written' \in Nat,
           UNCHANGED <<cache, bytes, inFlight, caller>>, doubled \subseteq doubled', doubled' \subseteq Assets,
           \A a \in Assets :
              /\ asset'[a].stamp <= clock' /\ asset'[a].data <= written'
              /\ a \notin doubled' =>
                    /\ asset[a].stamp <= asset'[a].stamp /\ asset[a].data <= asset'[a].data
                    /\ asset'[a].stamp = asset[a].stamp => asset'[a].data = asset[a].data
    PROVE  AssetInv'
<1> USE DEF AssetInv
<1>0. /\ \A a \in Assets : asset[a].stamp \in Nat /\ asset[a].data \in Nat
      /\ \A c \in Callers : caller[c].saw \in Nat /\ caller[c].got \in Nat
      /\ \A c \in Callers : Asked(c) => caller[c].key \in Keys /\ caller[c].key[1] \in Assets /\ caller[c].key[2] \in Nat
      /\ \A k \in Kinds : \A i \in DOMAIN cache[k] : cache[k][i] \in Entry
      /\ \A e \in Entry : e.key \in Keys /\ e.key[1] \in Assets /\ e.key[2] \in Nat /\ e.data \in Nat
  BY AssetPlain
<1>1. \A a \in Assets : asset'[a].stamp \in Nat /\ asset'[a].data \in Nat
  BY DEF Row
<1>2. AssetTyped' /\ RowsFit'
  BY DEF AssetTyped, RowsFit, Asked
<1>3. AsksFit'
  <2> SUFFICES ASSUME NEW c \in Callers, Asked(c), caller[c].key[1] \notin doubled'
               PROVE  LET own == asset'[caller[c].key[1]] IN
                      /\ caller[c].key[2] <= own.stamp /\ caller[c].saw <= own.data
                      /\ caller[c].key[2] = own.stamp => caller[c].saw = own.data
                      /\ caller[c].got # 0 \/ caller[c].at = "keep" => caller[c].got >= caller[c].saw
    BY DEF AsksFit, Asked
  <2> DEFINE a == caller[c].key[1]
  <2>1. a \in Assets /\ a \notin doubled
    BY <1>0
  <2>2. /\ caller[c].key[2] <= asset[a].stamp /\ caller[c].saw <= asset[a].data
        /\ caller[c].key[2] = asset[a].stamp => caller[c].saw = asset[a].data
        /\ caller[c].got # 0 \/ caller[c].at = "keep" => caller[c].got >= caller[c].saw
    BY <2>1 DEF AsksFit
  <2>3. /\ asset[a].stamp <= asset'[a].stamp /\ asset[a].data <= asset'[a].data
        /\ asset'[a].stamp = asset[a].stamp => asset'[a].data = asset[a].data
    BY <2>1
  <2>4. /\ asset[a].stamp \in Nat /\ asset'[a].stamp \in Nat /\ asset[a].data \in Nat /\ asset'[a].data \in Nat
        /\ caller[c].key[2] \in Nat /\ caller[c].saw \in Nat
    BY <1>0, <1>1, <2>1
  <2> HIDE DEF a
  <2>5. caller[c].key[2] <= asset'[a].stamp /\ caller[c].saw <= asset'[a].data
    BY <2>2, <2>3, <2>4
  <2>6. caller[c].key[2] = asset'[a].stamp => caller[c].saw = asset'[a].data
    BY <2>2, <2>3, <2>4
  <2> QED
    BY <2>2, <2>5, <2>6 DEF a
<1>4. AsksAgree'
  BY DEF AsksAgree, Asked
<1>5. EntriesFit'
  <2> SUFFICES ASSUME NEW k \in Kinds, NEW i \in DOMAIN cache[k] PROVE EntryFits(cache[k][i])'
    BY DEF EntriesFit
  <2> DEFINE e == cache[k][i]
             a == e.key[1]
  <2>1. EntryFits(e) /\ e \in Entry /\ a \in Assets /\ e.key[2] \in Nat /\ e.data \in Nat
    BY <1>0 DEF EntriesFit
  <2> SUFFICES ASSUME a \notin doubled'
               PROVE  /\ e.key[2] <= asset'[a].stamp
                      /\ e.key[2] = asset'[a].stamp => e.data >= asset'[a].data
    BY DEF EntryFits
  <2>2. /\ e.key[2] <= asset[a].stamp
        /\ e.key[2] = asset[a].stamp => e.data >= asset[a].data
    BY <2>1 DEF EntryFits
  <2>3. /\ asset[a].stamp <= asset'[a].stamp
        /\ asset'[a].stamp = asset[a].stamp => asset'[a].data = asset[a].data
    BY <2>1
  <2>4. /\ asset[a].stamp \in Nat /\ asset'[a].stamp \in Nat /\ asset[a].data \in Nat /\ asset'[a].data \in Nat
    BY <1>0, <1>1, <2>1
  <2> HIDE DEF e, a
  <2> QED
    BY <2>1, <2>2, <2>3, <2>4
<1>6. FlightsFit' /\ SizesFit'
  BY DEF FlightsFit, SizesFit, KeyedOnce
<1> QED
  BY <1>2, <1>3, <1>4, <1>5, <1>6

\* Store, put, rename, delete: the writes of an asset.
LEMMA RowStepsKeep ==
    ASSUME AssetInv, NEW a \in Assets, Store(a) \/ Put(a) \/ RenameAsset(a) \/ DeleteAsset(a)
    PROVE  AssetInv'
<1> USE DEF AssetInv
<1>0. /\ clock \in Nat /\ clock > 0 /\ written \in Nat
      /\ \A b \in Assets : asset[b] \in Row /\ asset[b].stamp \in Nat /\ asset[b].data \in Nat
      /\ \A b \in Assets : asset[b].stamp <= clock /\ asset[b].data <= written
      /\ asset \in [Assets -> Row] /\ doubled \subseteq Assets
  BY AssetPlain DEF RowsFit, AssetTyped
<1>1. ASSUME NEW data \in Nat, data <= written', Wrote(a, data)
      PROVE  /\ asset' \in [Assets -> Row] /\ asset'[a].stamp = clock /\ asset'[a].data = data
             /\ \A b \in Assets : b # a => asset'[b] = asset[b]
  BY <1>0, <1>1 DEF Wrote, Row
<1>2. CASE Store(a)
  <2>1. /\ written' = written + 1 /\ Wrote(a, written + 1) /\ doubled' = doubled
        /\ UNCHANGED <<clock, cache, bytes, inFlight, caller>> /\ asset[a].stamp = 0 /\ asset[a].data = 0
    BY <1>2 DEF Store, CachesKept, NoAsset
  <2>2. /\ asset' \in [Assets -> Row] /\ asset'[a].stamp = clock /\ asset'[a].data = written + 1
        /\ \A b \in Assets : b # a => asset'[b] = asset[b]
    BY <1>0, <1>1, <2>1
  <2> QED
    BY <1>0, <2>1, <2>2, RowsMove
<1>3. CASE Put(a)
  <2>1. /\ written' = written + 1 /\ Wrote(a, written + 1)
        /\ doubled' = IF asset[a].stamp = clock THEN doubled \cup {a} ELSE doubled
        /\ UNCHANGED <<clock, cache, bytes, inFlight, caller>>
    BY <1>3 DEF Put, CachesKept
  <2>2. /\ asset' \in [Assets -> Row] /\ asset'[a].stamp = clock /\ asset'[a].data = written + 1
        /\ \A b \in Assets : b # a => asset'[b] = asset[b]
    BY <1>0, <1>1, <2>1
  <2> QED
    BY <1>0, <2>1, <2>2, RowsMove
<1>4. CASE RenameAsset(a)
  <2>1. /\ written' = written /\ Wrote(a, asset[a].data) /\ doubled' = doubled
        /\ UNCHANGED <<clock, cache, bytes, inFlight, caller>>
    BY <1>4 DEF RenameAsset, CachesKept
  <2>2. /\ asset' \in [Assets -> Row] /\ asset'[a].stamp = clock /\ asset'[a].data = asset[a].data
        /\ \A b \in Assets : b # a => asset'[b] = asset[b]
    BY <1>0, <1>1, <2>1
  <2> QED
    BY <1>0, <2>1, <2>2, RowsMove
<1>5. CASE DeleteAsset(a)
  <2>1. /\ written' = written /\ asset' = [asset EXCEPT ![a].there = FALSE] /\ doubled' = doubled
        /\ UNCHANGED <<clock, cache, bytes, inFlight, caller>>
    BY <1>5 DEF DeleteAsset, CachesKept
  <2>2. /\ asset' \in [Assets -> Row] /\ asset'[a].stamp = asset[a].stamp /\ asset'[a].data = asset[a].data
        /\ \A b \in Assets : b # a => asset'[b] = asset[b]
    BY <1>0, <2>1 DEF Row
  <2> QED
    BY <1>0, <2>1, <2>2, RowsMove
<1> QED
  BY <1>2, <1>3, <1>4, <1>5

\* A millisecond passes.
LEMMA TockKeeps ==
    ASSUME AssetInv, Tock
    PROVE  AssetInv'
<1>0. /\ clock \in Nat /\ clock > 0 /\ written \in Nat
      /\ \A b \in Assets : asset[b] \in Row /\ asset[b].stamp \in Nat /\ asset[b].data \in Nat
      /\ \A b \in Assets : asset[b].stamp <= clock /\ asset[b].data <= written
      /\ asset \in [Assets -> Row] /\ doubled \subseteq Assets
  BY AssetPlain DEF RowsFit, AssetTyped, AssetInv
<1>1. clock' = clock + 1 /\ UNCHANGED <<asset, written, cache, bytes, inFlight, caller, doubled>>
  BY DEF Tock
<1> QED
  BY <1>0, <1>1, RowsMove

\* A call that begins, or goes on, with what is current.
LEMMA CallBegins ==
    ASSUME AssetInv, NEW c \in Callers, NEW a \in Assets, NEW now \in CallState,
           now.at \in {"read", "wait", "over"}, now.key = <<a, asset[a].stamp>>, now.saw = asset[a].data,
           now.got # 0 /\ a \notin doubled => now.got >= now.saw,
           caller' = [caller EXCEPT ![c] = now], asset' = asset, doubled' = doubled
    PROVE  AsksFit' /\ AsksAgree'
<1> USE DEF AssetInv
<1>0. /\ \A b \in Assets : asset[b].stamp \in Nat /\ asset[b].data \in Nat
      /\ \A d \in Callers : Asked(d) => caller[d].key \in Keys /\ caller[d].key[1] \in Assets /\ caller[d].key[2] \in Nat
  BY AssetPlain
<1>1. /\ caller'[c] = now /\ \A d \in Callers : d # c => caller'[d] = caller[d]
  BY DEF AssetTyped
<1>2. now.key[1] = a /\ now.key[2] = asset[a].stamp
  OBVIOUS
<1>3. AsksFit'
  <2> SUFFICES ASSUME NEW d \in Callers, Asked(d)', caller'[d].key[1] \notin doubled
               PROVE  LET own == asset[caller'[d].key[1]] IN
                      /\ caller'[d].key[2] <= own.stamp /\ caller'[d].saw <= own.data
                      /\ caller'[d].key[2] = own.stamp => caller'[d].saw = own.data
                      /\ caller'[d].got # 0 \/ caller'[d].at = "keep" => caller'[d].got >= caller'[d].saw
    BY DEF AsksFit
  <2>1. CASE d = c
    BY <1>0, <1>1, <1>2, <2>1
  <2>2. CASE d # c
    BY <1>1, <2>2 DEF AsksFit, Asked
  <2> QED
    BY <2>1, <2>2
<1>4. ASSUME NEW d \in Callers, Asked(d), caller[d].key = now.key, now.key[1] \notin doubled
      PROVE  caller[d].saw = now.saw
  BY <1>2, <1>4 DEF AsksFit
<1>5. AsksAgree'
  <2> SUFFICES ASSUME NEW d \in Callers, NEW e \in Callers, Asked(d)', Asked(e)',
                      caller'[d].key = caller'[e].key, caller'[d].key[1] \notin doubled
               PROVE  caller'[d].saw = caller'[e].saw
    BY DEF AsksAgree
  <2>1. CASE d = c /\ e = c
    BY <2>1
  <2>2. CASE d = c /\ e # c
    BY <1>1, <1>4, <2>2 DEF Asked
  <2>3. CASE d # c /\ e = c
    BY <1>1, <1>4, <2>3 DEF Asked
  <2>4. CASE d # c /\ e # c
    BY <1>1, <2>4 DEF Asked, AsksAgree
  <2> QED
    BY <2>1, <2>2, <2>3, <2>4
<1> QED
  BY <1>3, <1>5

\* A look in the cache: a hit, a wait for who is drawing, or a miss.
LEMMA LookUpKeeps ==
    ASSUME AssetInv, NEW c \in Callers, NEW a \in Assets, LookUpAsset(c, a)
    PROVE  AssetInv'
<1> USE DEF AssetInv
<1> DEFINE k == Kind(a)
           key == KeyOf(a)
           new == [at |-> "read", key |-> key, saw |-> asset[a].data, got |-> 0]
<1>0. /\ \A b \in Assets : asset[b].stamp \in Nat /\ asset[b].data \in Nat
      /\ \A n \in Kinds : cache[n] \in Seq(Entry) /\ DOMAIN cache[n] = 1 .. Len(cache[n])
                          /\ \A i \in DOMAIN cache[n] : cache[n][i] \in Entry
      /\ \A e \in Entry : e.key \in Keys /\ e.key[1] \in Assets /\ e.key[2] \in Nat /\ e.data \in Nat
  BY AssetPlain
<1>1. /\ caller[c].at \in {"idle", "over"}
      /\ UNCHANGED <<asset, clock, written, bytes, doubled>>
  BY DEF LookUpAsset
<1>2. k \in Kinds /\ key = <<a, asset[a].stamp>> /\ key \in Keys
  BY <1>0 DEF Kind, Kinds, KeyOf, Keys
<1>3. RowsFit'
  BY <1>1 DEF RowsFit
<1>4. \A f \in inFlight : f.by \in Callers /\ f.by # c /\ f.key \in Keys
  BY <1>1 DEF FlightsFit, AssetTyped
<1>h. CASE \E i \in DOMAIN cache[k] :
             /\ cache[k][i].key = key
             /\ caller' = [caller EXCEPT ![c] = [new EXCEPT !.at = "over", !.got = cache[k][i].data]]
             /\ cache' = [cache EXCEPT ![k] = Append(Dropped(@, i), @[i])]
             /\ UNCHANGED inFlight
  <2>1. PICK i \in DOMAIN cache[k] :
             /\ cache[k][i].key = key
             /\ caller' = [caller EXCEPT ![c] = [new EXCEPT !.at = "over", !.got = cache[k][i].data]]
             /\ cache' = [cache EXCEPT ![k] = Append(Dropped(@, i), @[i])]
             /\ UNCHANGED inFlight
    BY <1>h
  <2> DEFINE s == cache[k]
             t == Append(Dropped(s, i), s[i])
             now == [new EXCEPT !.at = "over", !.got = s[i].data]
  <2>2. /\ s \in Seq(Entry) /\ i \in 1 .. Len(s) /\ s[i] \in Entry /\ s[i].data \in Nat /\ KeyedOnce(s)
    BY <1>0, <1>2, <2>1 DEF SizesFit
  <2>3. t \in Seq(Entry) /\ Total(t) = Total(s)
    BY <2>2, MovedIs
  <2>4. KeyedOnce(t) /\ \A n \in DOMAIN t : \E j \in DOMAIN s : t[n] = s[j]
    BY <2>2, MovedKeeps
  <2>5. /\ now \in CallState /\ now.at = "over" /\ now.key = key /\ now.saw = asset[a].data /\ now.got = s[i].data
    BY <1>0, <1>2, <2>2 DEF CallState
  <2>6. a \notin doubled => s[i].data >= asset[a].data
    <3>1. EntryFits(s[i]) /\ s[i].key[1] = a /\ s[i].key[2] = asset[a].stamp
      BY <1>2, <2>1 DEF EntriesFit
    <3> QED
      BY <3>1 DEF EntryFits
  <2>7. caller' = [caller EXCEPT ![c] = now] /\ cache' = [cache EXCEPT ![k] = t] /\ inFlight' = inFlight
    BY <2>1
  <2> HIDE DEF k, key, now, t, s
  <2>8. AsksFit' /\ AsksAgree'
    BY <1>1, <1>2, <2>5, <2>6, <2>7, CallBegins
  <2>9. /\ caller'[c] = now /\ \A d \in Callers : d # c => caller'[d] = caller[d]
        /\ caller' \in [Callers -> CallState]
    BY <2>5, <2>7 DEF AssetTyped
  <2>10. /\ cache'[k] = t /\ \A n \in Kinds : n # k => cache'[n] = cache[n]
         /\ cache' \in [image : Seq(Entry), font : Seq(Entry)]
    BY <1>2, <2>3, <2>7 DEF AssetTyped, Kinds
  <2>11. AssetTyped'
    BY <1>1, <1>2, <2>5, <2>7, <2>9, <2>10 DEF AssetTyped, Asked
  <2>12. EntriesFit'
    <3> SUFFICES ASSUME NEW n \in Kinds, NEW j \in DOMAIN cache'[n] PROVE EntryFits(cache'[n][j])
      BY <1>1 DEF EntriesFit, EntryFits
    <3>1. CASE n = k
      BY <1>2, <2>4, <2>10, <3>1 DEF EntriesFit, s
    <3>2. CASE n # k
      BY <2>10, <3>2 DEF EntriesFit
    <3> QED
      BY <3>1, <3>2
  <2>13. FlightsFit'
    BY <1>4, <2>5, <2>7, <2>9 DEF FlightsFit
  <2>14. SizesFit'
    <3>1. Total(cache'.image) = Total(cache.image)
      BY <1>2, <2>3, <2>10 DEF Kinds, s
    <3>2. \A n \in Kinds : KeyedOnce(cache'[n])
      BY <2>4, <2>10 DEF SizesFit
    <3> QED
      BY <1>1, <3>1, <3>2 DEF SizesFit, KeyedOnce
  <2> QED
    BY <1>3, <2>8, <2>11, <2>12, <2>13, <2>14
<1>m. ASSUME NEW at \in {"read", "wait"}, caller' = [caller EXCEPT ![c] = [new EXCEPT !.at = at]], cache' = cache,
             \/ inFlight' = inFlight /\ (at = "wait" => \E f \in inFlight : f.key = key)
             \/ inFlight' = inFlight \cup {[key |-> key, by |-> c]} /\ at = "read"
      PROVE  AssetInv'
  <2> DEFINE now == [new EXCEPT !.at = at]
  <2>1. /\ now \in CallState /\ now.at = at /\ now.key = key /\ now.saw = asset[a].data /\ now.got = 0
    BY <1>0, <1>2 DEF CallState
  <2>2. caller' = [caller EXCEPT ![c] = now]
    BY <1>m
  <2> HIDE DEF k, key, now
  <2>3. AsksFit' /\ AsksAgree'
    BY <1>1, <1>2, <2>1, <2>2, CallBegins
  <2>4. /\ caller'[c] = now /\ \A d \in Callers : d # c => caller'[d] = caller[d]
        /\ caller' \in [Callers -> CallState]
    BY <2>1, <2>2 DEF AssetTyped
  <2>5. inFlight' \subseteq [key : Keys, by : Callers]
    <3>1. [key |-> key, by |-> c] \in [key : Keys, by : Callers] /\ inFlight \subseteq [key : Keys, by : Callers]
      BY <1>2 DEF AssetTyped
    <3>2. inFlight' = inFlight \/ inFlight' = inFlight \cup {[key |-> key, by |-> c]}
      BY <1>m
    <3> QED
      BY <3>1, <3>2
  <2>6. AssetTyped'
    BY <1>1, <1>2, <1>m, <2>1, <2>4, <2>5 DEF AssetTyped, Asked
  <2>7. EntriesFit' /\ SizesFit'
    BY <1>1, <1>m DEF EntriesFit, EntryFits, SizesFit, KeyedOnce
  <2>8. FlightsFit'
    <3>1. \A f \in inFlight' : caller'[f.by].key = f.key /\ caller'[f.by].at \in {"read", "keep"}
      <4>1. \A f \in inFlight : caller'[f.by].key = f.key /\ caller'[f.by].at \in {"read", "keep"}
        BY <1>4, <2>4 DEF FlightsFit
      <4> DEFINE g == [key |-> key, by |-> c]
      <4>2. g.key = key /\ g.by = c
        OBVIOUS
      <4>3. at = "read" => caller'[g.by].key = g.key /\ caller'[g.by].at \in {"read", "keep"}
        BY <2>1, <2>4, <4>2
      <4> HIDE DEF g
      <4> QED
        BY <1>m, <4>1, <4>3 DEF g
    <3>2. ASSUME NEW d \in Callers, caller'[d].at = "wait" PROVE \E f \in inFlight' : f.key = caller'[d].key
      <4>1. CASE d = c
        BY <1>m, <2>1, <2>4, <3>2, <4>1
      <4>2. CASE d # c
        BY <1>m, <2>4, <3>2, <4>2 DEF FlightsFit
      <4> QED
        BY <4>1, <4>2
    <3> QED
      BY <3>1, <3>2 DEF FlightsFit
  <2> QED
    BY <1>3, <2>3, <2>6, <2>7, <2>8
<1>5. \/ \E i \in DOMAIN cache[k] :
             /\ cache[k][i].key = key
             /\ caller' = [caller EXCEPT ![c] = [new EXCEPT !.at = "over", !.got = cache[k][i].data]]
             /\ cache' = [cache EXCEPT ![k] = Append(Dropped(@, i), @[i])]
             /\ UNCHANGED inFlight
      \/ /\ cache' = cache
         /\ \/ caller' = [caller EXCEPT ![c] = new] /\ inFlight' = inFlight
            \/ /\ \E f \in inFlight : f.key = key
               /\ caller' = [caller EXCEPT ![c] = [new EXCEPT !.at = "wait"]] /\ inFlight' = inFlight
            \/ /\ caller' = [caller EXCEPT ![c] = new]
               /\ inFlight' = inFlight \cup {[key |-> key, by |-> c]}
  BY DEF LookUpAsset
<1>6. new = [new EXCEPT !.at = "read"]
  OBVIOUS
<1> HIDE DEF new, key, k
<1> QED
  BY <1>h, <1>m, <1>5, <1>6

\* A derivation that is over, with an answer or without: whoever waited has it.
LEMMA SettledKeeps ==
    ASSUME AssetInv, NEW c \in Callers, NEW got \in Nat, caller[c].at \in {"read", "keep"},
           got = 0 \/ (caller[c].at = "keep" /\ got = caller[c].got), Settled(c, got),
           asset' = asset, doubled' = doubled
    PROVE  /\ caller' \in [Callers -> CallState] /\ inFlight' \subseteq [key : Keys, by : Callers]
           /\ \A d \in Callers : Asked(d)' => caller'[d].key \in Keys
           /\ \A d \in Callers : Asked(d)' \/ caller'[d].got = 0
           /\ AsksFit' /\ AsksAgree' /\ FlightsFit'
<1> USE DEF AssetInv
<1> DEFINE mine == [key |-> caller[c].key, by |-> c]
           with == IF mine \in inFlight
                   THEN {d \in Callers : caller[d].at = "wait" /\ caller[d].key = caller[c].key} ELSE {}
<1>0. /\ \A d \in Callers : caller[d] \in CallState /\ caller[d].saw \in Nat /\ caller[d].got \in Nat
      /\ \A d \in Callers : Asked(d) => caller[d].key \in Keys /\ caller[d].key[1] \in Assets /\ caller[d].key[2] \in Nat
  BY AssetPlain
<1>1. /\ caller' = [d \in Callers |-> IF d \in with \cup {c}
                                    THEN [caller[d] EXCEPT !.at = "over", !.got = got] ELSE caller[d]]
      /\ inFlight' = {f \in inFlight : f.by # c}
  BY DEF Settled
<1>2. \A d \in with : d \in Callers /\ caller[d].at = "wait" /\ caller[d].key = caller[c].key
  OBVIOUS
<1>3. mine \notin inFlight => with = {}
  OBVIOUS
<1>w. mine \in inFlight => \A d \in Callers : caller[d].at = "wait" /\ caller[d].key = caller[c].key => d \in with
  OBVIOUS
<1> HIDE DEF with, mine
<1>4. ASSUME NEW d \in Callers, d \in with \cup {c}
      PROVE  /\ caller'[d] \in CallState /\ caller'[d].at = "over" /\ caller'[d].got = got
             /\ caller'[d].key = caller[d].key /\ caller'[d].saw = caller[d].saw
             /\ Asked(d) /\ caller[d].key = caller[c].key
  <2>1. caller'[d] = [caller[d] EXCEPT !.at = "over", !.got = got]
    BY <1>1, <1>4
  <2>2. /\ caller'[d] \in CallState /\ caller'[d].at = "over" /\ caller'[d].got = got
        /\ caller'[d].key = caller[d].key /\ caller'[d].saw = caller[d].saw
    BY <1>0, <2>1 DEF CallState
  <2> QED
    BY <1>2, <1>4, <2>2 DEF Asked
<1>5. \A d \in Callers : d \notin with \cup {c} => caller'[d] = caller[d]
  BY <1>1
<1>6. caller' \in [Callers -> CallState]
  <2>1. \A d \in Callers : caller'[d] \in CallState
    BY <1>0, <1>4, <1>5
  <2>2. \A d \in Callers : caller'[d] = IF d \in with \cup {c}
                                         THEN [caller[d] EXCEPT !.at = "over", !.got = got] ELSE caller[d]
    BY <1>1
  <2>3. \A d \in Callers : (IF d \in with \cup {c}
                             THEN [caller[d] EXCEPT !.at = "over", !.got = got] ELSE caller[d]) \in CallState
    BY <2>1, <2>2
  <2> QED
    BY <1>1, <2>3
<1>7. ASSUME NEW d \in Callers
      PROVE  /\ caller'[d].key = caller[d].key /\ caller'[d].saw = caller[d].saw
             /\ Asked(d)' = Asked(d)
  BY <1>4, <1>5 DEF Asked
<1>8. \A d \in Callers : (Asked(d)' => caller'[d].key \in Keys) /\ (Asked(d)' \/ caller'[d].got = 0)
  <2>1. \A d \in Callers : Asked(d) \/ caller[d].got = 0
    BY DEF AssetTyped
  <2> QED
    BY <1>0, <1>4, <1>5, <1>7, <2>1
<1>9. AsksFit'
  <2> SUFFICES ASSUME NEW d \in Callers, Asked(d), caller[d].key[1] \notin doubled
               PROVE  LET own == asset[caller[d].key[1]] IN
                      /\ caller[d].key[2] <= own.stamp /\ caller[d].saw <= own.data
                      /\ caller[d].key[2] = own.stamp => caller[d].saw = own.data
                      /\ caller'[d].got # 0 \/ caller'[d].at = "keep" => caller'[d].got >= caller[d].saw
    BY <1>7 DEF AsksFit
  <2>1. LET own == asset[caller[d].key[1]] IN
        /\ caller[d].key[2] <= own.stamp /\ caller[d].saw <= own.data
        /\ caller[d].key[2] = own.stamp => caller[d].saw = own.data
        /\ caller[d].got # 0 \/ caller[d].at = "keep" => caller[d].got >= caller[d].saw
    BY DEF AsksFit
  <2>2. caller'[d].got # 0 \/ caller'[d].at = "keep" => caller'[d].got >= caller[d].saw
    <3>1. CASE d \in with \cup {c}
      <4>1. caller'[d].at = "over" /\ caller'[d].got = got /\ caller[d].key = caller[c].key
        BY <1>4, <3>1
      <4>2. caller[d].saw = caller[c].saw
        <5>1. Asked(c)
          BY DEF Asked
        <5> QED
          BY <4>1, <5>1 DEF AsksAgree
      <4>3. got # 0 => got >= caller[c].saw
        <5>1. caller[c].key[1] \notin doubled /\ Asked(c)
          BY <4>1 DEF Asked
        <5> QED
          BY <5>1 DEF AsksFit
      <4> QED
        BY <4>1, <4>2, <4>3
    <3>2. CASE d \notin with \cup {c}
      BY <1>5, <2>1, <3>2
    <3> QED
      BY <3>1, <3>2
  <2> QED
    BY <2>1, <2>2
<1>10. AsksAgree'
  BY <1>7 DEF AsksAgree
<1>11. inFlight' \subseteq [key : Keys, by : Callers]
  BY <1>1 DEF AssetTyped
<1>12. FlightsFit'
  <2>1. ASSUME NEW f \in inFlight' PROVE caller'[f.by].key = f.key /\ caller'[f.by].at \in {"read", "keep"}
    <3>1. f \in inFlight /\ f.by # c /\ f.by \in Callers
      BY <1>1 DEF AssetTyped
    <3>2. caller[f.by].key = f.key /\ caller[f.by].at \in {"read", "keep"}
      BY <3>1 DEF FlightsFit
    <3>3. f.by \notin with \cup {c}
      BY <1>2, <3>1, <3>2
    <3> QED
      BY <1>5, <3>1, <3>2, <3>3
  <2>2. ASSUME NEW d \in Callers, caller'[d].at = "wait" PROVE \E f \in inFlight' : f.key = caller'[d].key
    <3>1. d \notin with \cup {c}
      BY <1>4, <2>2
    <3>2. caller[d].at = "wait" /\ caller'[d] = caller[d]
      BY <1>5, <2>2, <3>1
    <3>3. PICK f \in inFlight : f.key = caller[d].key
      BY <3>2 DEF FlightsFit
    <3>4. f.by # c
      <4> SUFFICES ASSUME f.by = c PROVE FALSE
        OBVIOUS
      <4>1. f \in [key : Keys, by : Callers] /\ f.key = caller[c].key
        BY <3>3 DEF AssetTyped, FlightsFit
      <4>2. f = mine
        BY <4>1 DEF mine
      <4> QED
        BY <1>w, <3>1, <3>2, <3>3, <4>1, <4>2
    <3> QED
      BY <1>1, <3>2, <3>3, <3>4
  <2> QED
    BY <2>1, <2>2 DEF FlightsFit
<1> QED
  BY <1>6, <1>8, <1>9, <1>10, <1>11, <1>12

\* The bytes are read after the revision, so they may be newer and never older.
LEMMA ReadBytesKeeps ==
    ASSUME AssetInv, NEW c \in Callers, ReadBytes(c) \/ DeriveFails(c)
    PROVE  AssetInv'
<1> USE DEF AssetInv
<1> DEFINE a == caller[c].key[1]
<1>0. /\ \A b \in Assets : asset[b].stamp \in Nat /\ asset[b].data \in Nat
      /\ \A d \in Callers : caller[d] \in CallState /\ caller[d].saw \in Nat /\ caller[d].got \in Nat
      /\ \A d \in Callers : Asked(d) => caller[d].key \in Keys /\ caller[d].key[1] \in Assets /\ caller[d].key[2] \in Nat
  BY AssetPlain
<1>1. caller[c].at \in {"read", "keep"} /\ UNCHANGED <<asset, clock, written, cache, bytes, doubled>>
  BY DEF ReadBytes, DeriveFails
<1>2. RowsFit' /\ EntriesFit' /\ SizesFit'
  BY <1>1 DEF RowsFit, EntriesFit, EntryFits, SizesFit, KeyedOnce
<1>3. CASE Settled(c, 0)
  <2>1. /\ caller' \in [Callers -> CallState] /\ inFlight' \subseteq [key : Keys, by : Callers]
        /\ \A d \in Callers : Asked(d)' => caller'[d].key \in Keys
        /\ \A d \in Callers : Asked(d)' \/ caller'[d].got = 0
        /\ AsksFit' /\ AsksAgree' /\ FlightsFit'
    BY <1>1, <1>3, SettledKeeps
  <2> QED
    BY <1>1, <1>2, <2>1 DEF AssetTyped
<1>4. CASE /\ caller[c].at = "read" /\ inFlight' = inFlight
           /\ caller' = [caller EXCEPT ![c].at = "keep", ![c].got = asset[a].data]
  <2> DEFINE now == [caller[c] EXCEPT !.at = "keep", !.got = asset[a].data]
  <2>0. Asked(c) /\ a \in Assets
    BY <1>0, <1>4 DEF Asked
  <2>1. /\ now \in CallState /\ now.at = "keep" /\ now.got = asset[a].data
        /\ now.key = caller[c].key /\ now.saw = caller[c].saw
    BY <1>0, <2>0 DEF CallState
  <2>2. caller' = [caller EXCEPT ![c] = now]
    BY <1>4 DEF AssetTyped
  <2> HIDE DEF now
  <2>3. /\ caller'[c] = now /\ \A d \in Callers : d # c => caller'[d] = caller[d]
        /\ caller' \in [Callers -> CallState]
    BY <2>1, <2>2 DEF AssetTyped
  <2>4. ASSUME NEW d \in Callers
        PROVE  caller'[d].key = caller[d].key /\ caller'[d].saw = caller[d].saw /\ Asked(d)' = Asked(d)
    BY <2>0, <2>1, <2>3 DEF Asked
  <2>5. AssetTyped'
    BY <1>1, <1>4, <2>0, <2>3, <2>4 DEF AssetTyped
  <2>6. AsksFit'
    <3> SUFFICES ASSUME NEW d \in Callers, Asked(d), caller[d].key[1] \notin doubled
                 PROVE  LET own == asset[caller[d].key[1]] IN
                        /\ caller[d].key[2] <= own.stamp /\ caller[d].saw <= own.data
                        /\ caller[d].key[2] = own.stamp => caller[d].saw = own.data
                        /\ caller'[d].got # 0 \/ caller'[d].at = "keep" => caller'[d].got >= caller[d].saw
      BY <1>1, <2>4 DEF AsksFit
    <3>1. LET own == asset[caller[d].key[1]] IN
          /\ caller[d].key[2] <= own.stamp /\ caller[d].saw <= own.data
          /\ caller[d].key[2] = own.stamp => caller[d].saw = own.data
          /\ caller[d].got # 0 \/ caller[d].at = "keep" => caller[d].got >= caller[d].saw
      BY DEF AsksFit
    <3>2. CASE d = c
      BY <1>0, <2>0, <2>1, <2>3, <3>1, <3>2
    <3>3. CASE d # c
      BY <2>3, <3>1, <3>3
    <3> QED
      BY <3>2, <3>3
  <2>7. AsksAgree'
    BY <1>1, <2>4 DEF AsksAgree
  <2>8. FlightsFit'
    <3>1. \A f \in inFlight : f.by \in Callers
      BY DEF AssetTyped
    <3>2. \A d \in Callers : caller'[d].at = "wait" => caller[d].at = "wait"
      BY <2>1, <2>3
    <3>3. \A d \in Callers : caller[d].at \in {"read", "keep"} => caller'[d].at \in {"read", "keep"}
      BY <2>1, <2>3
    <3>4. inFlight' = inFlight
      BY <1>4
    <3>5. FlightsFit
      OBVIOUS
    <3> HIDE DEF AssetInv
    <3> QED
      BY <2>4, <3>1, <3>2, <3>3, <3>4, <3>5 DEF FlightsFit
  <2> QED
    BY <1>2, <2>5, <2>6, <2>7, <2>8
<1> QED
  BY <1>3, <1>4 DEF ReadBytes, DeriveFails

\* What is kept of a derivation is no older than what its caller saw.
LEMMA KeptFits ==
    ASSUME AssetInv, NEW c \in Callers, caller[c].at = "keep"
    PROVE  /\ [key |-> caller[c].key, data |-> caller[c].got] \in Entry
           /\ EntryFits([key |-> caller[c].key, data |-> caller[c].got])
<1> USE DEF AssetInv
<1> DEFINE e == [key |-> caller[c].key, data |-> caller[c].got]
<1>0. /\ \A b \in Assets : asset[b].stamp \in Nat /\ asset[b].data \in Nat
      /\ caller[c].saw \in Nat /\ caller[c].got \in Nat /\ Asked(c)
      /\ caller[c].key \in Keys /\ caller[c].key[1] \in Assets
  BY AssetPlain DEF Asked
<1>1. e \in Entry /\ e.key = caller[c].key /\ e.data = caller[c].got
  BY <1>0 DEF Entry
<1> HIDE DEF e
<1>2. EntryFits(e)
  <2> SUFFICES ASSUME caller[c].key[1] \notin doubled
               PROVE  LET own == asset[caller[c].key[1]] IN
                      /\ caller[c].key[2] <= own.stamp
                      /\ caller[c].key[2] = own.stamp => caller[c].got >= own.data
    BY <1>1 DEF EntryFits
  <2> QED
    BY <1>0 DEF AsksFit
<1> QED
  BY <1>1, <1>2 DEF e

\* Other entries fit an asset that did not change as they would have before.
LEMMA OtherEntriesFit ==
    ASSUME asset' = asset, doubled' = doubled,
           \A m \in Kinds : \A j \in DOMAIN cache'[m] : EntryFits(cache'[m][j])
    PROVE  EntriesFit'
BY DEF EntriesFit, EntryFits

\* A cache that holds an entry more, and less of the oldest.
LEMMA KeepKeeps ==
    ASSUME AssetInv, NEW c \in Callers, caller[c].at = "keep", Settled(c, caller[c].got),
           UNCHANGED <<asset, clock, written, doubled>>,
           NEW k \in Kinds, NEW n \in 0 .. Len(Inserted(cache[k], [key |-> caller[c].key, data |-> caller[c].got])),
           cache' = [cache EXCEPT ![k] = Rest(Inserted(cache[k], [key |-> caller[c].key, data |-> caller[c].got]), n)],
           bytes' = Total(cache'.image), \E cap \in Caps : bytes' <= cap
    PROVE  AssetInv'
<1> USE DEF AssetInv
<1> DEFINE e == [key |-> caller[c].key, data |-> caller[c].got]
           all == Inserted(cache[k], e)
<1>0. /\ \A m \in Kinds : cache[m] \in Seq(Entry)
      /\ caller[c].got \in Nat
  BY AssetPlain
<1>1. e \in Entry /\ EntryFits(e)
  BY KeptFits
<1> HIDE DEF e
<1>2. /\ all \in Seq(Entry) /\ KeyedOnce(all)
      /\ \A j \in DOMAIN all : all[j] = e \/ \E i \in DOMAIN cache[k] : all[j] = cache[k][i]
  BY <1>0, <1>1, InsertedIs DEF SizesFit
<1>3. n \in 0 .. Len(all) /\ cache' = [cache EXCEPT ![k] = Rest(all, n)]
  BY DEF e
<1> HIDE DEF all
<1>4. /\ Rest(all, n) \in Seq(Entry) /\ KeyedOnce(Rest(all, n))
      /\ \A j \in DOMAIN Rest(all, n) : \E i \in DOMAIN all : Rest(all, n)[j] = all[i]
  BY <1>2, <1>3, RestIs
<1>5. /\ cache'[k] = Rest(all, n) /\ \A m \in Kinds : m # k => cache'[m] = cache[m]
      /\ cache' \in [image : Seq(Entry), font : Seq(Entry)]
  BY <1>3, <1>4 DEF AssetTyped, Kinds
<1>6. /\ caller' \in [Callers -> CallState] /\ inFlight' \subseteq [key : Keys, by : Callers]
      /\ \A d \in Callers : Asked(d)' => caller'[d].key \in Keys
      /\ \A d \in Callers : Asked(d)' \/ caller'[d].got = 0
      /\ AsksFit' /\ AsksAgree' /\ FlightsFit'
  BY <1>0, SettledKeeps
<1>7. AssetTyped' /\ RowsFit'
  BY <1>5, <1>6 DEF AssetTyped, RowsFit
<1>8. EntriesFit'
  <2> SUFFICES ASSUME NEW m \in Kinds, NEW j \in DOMAIN cache'[m] PROVE EntryFits(cache'[m][j])
    BY OtherEntriesFit
  <2>1. CASE m = k
    <3>1. PICK i \in DOMAIN all : cache'[m][j] = all[i]
      BY <1>4, <1>5, <2>1
    <3>2. CASE all[i] = e
      BY <1>1, <3>1, <3>2
    <3>3. CASE \E o \in DOMAIN cache[k] : all[i] = cache[k][o]
      <4>1. PICK o \in DOMAIN cache[k] : all[i] = cache[k][o]
        BY <3>3
      <4> QED
        BY <3>1, <4>1 DEF EntriesFit
    <3> QED
      BY <1>2, <3>2, <3>3
  <2>2. CASE m # k
    BY <1>5, <2>2 DEF EntriesFit
  <2> QED
    BY <2>1, <2>2
<1>9. SizesFit'
  <2>1. \A m \in Kinds : KeyedOnce(cache'[m])
    BY <1>4, <1>5 DEF SizesFit
  <2> QED
    BY <2>1 DEF SizesFit, KeyedOnce
<1> QED
  BY <1>6, <1>7, <1>8, <1>9

\* A raster is kept, the oldest go until the count fits, and the count is what is held.
LEMMA RememberKeeps ==
    ASSUME AssetInv, NEW c \in Callers, NEW cap \in Caps, RememberRaster(c, cap)
    PROVE  AssetInv'
<1> USE DEF AssetInv
<1> DEFINE key == caller[c].key
           got == caller[c].got
           e == [key |-> key, data |-> got]
           s == cache.image
           all == Inserted(s, e)
           count == bytes - Replaced(s, key) + SizeOf(got)
           n == Evicted(all, LAMBDA gone : count - Total(gone) <= cap)
<1>1. /\ caller[c].at = "keep" /\ Settled(c, got) /\ UNCHANGED <<asset, clock, written, doubled>>
      /\ IF SizeOf(got) > cap THEN UNCHANGED <<cache, bytes>>
         ELSE /\ cache' = [cache EXCEPT !.image = Rest(all, n)]
              /\ bytes' = count - Total(SubSeq(all, 1, n))
  BY DEF RememberRaster
<1>2. /\ s \in Seq(Entry) /\ KeyedOnce(s) /\ got \in Nat /\ bytes = Total(s)
      /\ e \in Entry /\ e.key = key /\ e.data = got /\ cap \in Nat
  BY <1>1, AssetPlain, KeptFits, CapsAssumption DEF SizesFit, Kinds, AssetTyped
<1>3. CASE SizeOf(got) > cap
  <2>1. UNCHANGED <<cache, bytes>>
    BY <1>1, <1>3
  <2>2. /\ caller' \in [Callers -> CallState] /\ inFlight' \subseteq [key : Keys, by : Callers]
        /\ \A d \in Callers : Asked(d)' => caller'[d].key \in Keys
        /\ \A d \in Callers : Asked(d)' \/ caller'[d].got = 0
        /\ AsksFit' /\ AsksAgree' /\ FlightsFit'
    BY <1>1, <1>2, SettledKeeps
  <2> QED
    BY <1>1, <2>1, <2>2 DEF AssetTyped, RowsFit, EntriesFit, EntryFits, SizesFit, KeyedOnce
<1>4. CASE ~(SizeOf(got) > cap)
  <2>1. cache' = [cache EXCEPT !.image = Rest(all, n)] /\ bytes' = count - Total(SubSeq(all, 1, n))
    BY <1>1, <1>4
  <2> HIDE DEF e
  <2>2. all \in Seq(Entry) /\ KeyedOnce(all) /\ Total(all) = count
    BY <1>2, InsertedIs
  <2>3. Len(all) \in Nat
    BY <2>2, LenProperties
  <2> DEFINE E == {m \in 0 .. Len(all) : count - Total(SubSeq(all, 1, m)) <= cap}
             First(m) == (m = Len(all) \/ m \in E) /\ \A l \in 0 .. m - 1 : l \notin E
  <2>4. n \in 0 .. Len(all) /\ (n = Len(all) \/ count - Total(SubSeq(all, 1, n)) <= cap)
    <3> DEFINE Enough(m) == (m = Len(all) \/ count - Total(SubSeq(all, 1, m)) <= cap)
                            /\ \A l \in 0 .. m - 1 : ~(count - Total(SubSeq(all, 1, l)) <= cap)
    <3>1. PICK m \in 0 .. Len(all) : First(m)
      <4> HIDE DEF all, count, E
      <4> QED
        BY <2>3, FirstEnough
    <3>2. Enough(m)
      <4>1. \A l \in 0 .. m - 1 : l \in 0 .. Len(all)
        BY <2>3
      <4> HIDE DEF all, count
      <4> QED
        BY <3>1, <4>1
    <3>3. n = CHOOSE m_1 \in 0 .. Len(all) : Enough(m_1)
      BY DEF Evicted
    <3> HIDE DEF Enough, n, all, count
    <3>4. n \in 0 .. Len(all) /\ Enough(n)
      BY <3>2, <3>3
    <3> QED
      BY <3>4 DEF Enough
  <2> HIDE DEF n, count, E, First
  <2>5. /\ Total(Rest(all, n)) = Total(all) - Total(SubSeq(all, 1, n)) /\ Total(Rest(all, n)) \in Nat
        /\ n = Len(all) => Total(Rest(all, n)) = 0
    BY <2>2, <2>4, RestIs
  <2> HIDE DEF all
  <2>6. bytes' = Total(Rest(all, n)) /\ bytes' <= cap
    BY <1>2, <2>1, <2>2, <2>4, <2>5
  <2>7. cache'.image = Rest(all, n) /\ cache' = [cache EXCEPT !["image"] = Rest(all, n)]
    BY <2>1 DEF AssetTyped
  <2>8. AssetInv'
    <3>1. bytes' = Total(cache'.image) /\ \E q \in Caps : bytes' <= q
      BY <2>6, <2>7
    <3> USE DEF all, e
    <3>2. /\ n \in 0 .. Len(Inserted(cache["image"], [key |-> caller[c].key, data |-> caller[c].got]))
          /\ cache' = [cache EXCEPT !["image"] = Rest(Inserted(cache["image"], [key |-> caller[c].key, data |-> caller[c].got]), n)]
      BY <2>4, <2>7
    <3>3. "image" \in Kinds
      BY DEF Kinds
    <3> HIDE DEF AssetInv
    <3> QED
      BY <1>1, <3>1, <3>2, <3>3, KeepKeeps
  <2> QED
    BY <2>8
<1> QED
  BY <1>3, <1>4

\* A face is kept, and the oldest go.
LEMMA KeepFaceKeeps ==
    ASSUME AssetInv, NEW c \in Callers, KeepFace(c)
    PROVE  AssetInv'
<1> DEFINE e == [key |-> caller[c].key, data |-> caller[c].got]
           all == Inserted(cache.font, e)
           n == Evicted(all, LAMBDA gone : Len(all) - Len(gone) <= MaxFaces)
<1>1. /\ caller[c].at = "keep" /\ Settled(c, caller[c].got) /\ UNCHANGED <<asset, clock, written, doubled, bytes>>
      /\ cache' = [cache EXCEPT !.font = Rest(all, n)]
  BY DEF KeepFace
<1>2. cache.font \in Seq(Entry) /\ KeyedOnce(cache.font) /\ e \in Entry
  BY <1>1, AssetPlain, KeptFits DEF SizesFit, Kinds, AssetTyped, AssetInv
<1> HIDE DEF e
<1>3. all \in Seq(Entry) /\ Len(all) \in Nat
  <2>1. all \in Seq(Entry)
    BY <1>2, InsertedIs
  <2> QED
    BY <2>1, LenProperties
<1>4. n \in 0 .. Len(all)
  <2> DEFINE E == {m \in 0 .. Len(all) : Len(all) - Len(SubSeq(all, 1, m)) <= MaxFaces}
             First(m) == (m = Len(all) \/ m \in E) /\ \A l \in 0 .. m - 1 : l \notin E
             Enough(m) == (m = Len(all) \/ Len(all) - Len(SubSeq(all, 1, m)) <= MaxFaces)
                          /\ \A l \in 0 .. m - 1 : ~(Len(all) - Len(SubSeq(all, 1, l)) <= MaxFaces)
  <2>1. PICK m \in 0 .. Len(all) : First(m)
    <3> HIDE DEF all, E
    <3> QED
      BY <1>3, FirstEnough
  <2>2. Enough(m)
    <3>1. \A l \in 0 .. m - 1 : l \in 0 .. Len(all)
      BY <1>3
    <3> HIDE DEF all
    <3> QED
      BY <2>1, <3>1
  <2>3. n = CHOOSE m_1 \in 0 .. Len(all) : Enough(m_1)
    BY DEF Evicted
  <2> HIDE DEF Enough, n, all
  <2> QED
    BY <2>2, <2>3
<1> HIDE DEF n
<1>5. cache' = [cache EXCEPT !["font"] = Rest(all, n)] /\ cache'.image = cache.image
  BY <1>1 DEF AssetTyped, AssetInv
<1>6. bytes' = Total(cache'.image) /\ \E q \in Caps : bytes' <= q
  BY <1>1, <1>5 DEF SizesFit, AssetInv
<1>7. /\ n \in 0 .. Len(Inserted(cache["font"], [key |-> caller[c].key, data |-> caller[c].got]))
      /\ cache' = [cache EXCEPT !["font"] = Rest(Inserted(cache["font"], [key |-> caller[c].key, data |-> caller[c].got]), n)]
  BY <1>4, <1>5 DEF e
<1>8. "font" \in Kinds
  BY DEF Kinds
<1> HIDE DEF all
<1> QED
  BY <1>1, <1>6, <1>7, <1>8, KeepKeeps

\* For every set of assets and callers and every caps and clock, what a caller gets is no
\* older than its asset was when it asked, nobody waits on nothing, and the bytes counted are
\* those held (asset-service.ts).
THEOREM CachedDotsStayCurrent == AssetSpec => []CachedDotsAreCurrent
<1>1. AssetInit => AssetInv
  <2> SUFFICES ASSUME AssetInit PROVE AssetInv
    OBVIOUS
  <2>1. <<>> \in Seq(Entry) /\ Total(<<>>) = 0
    <3>1. <<>> \in Seq(Entry) /\ Len(<<>>) = 0
      OBVIOUS
    <3> QED
      BY <3>1, TotalIsNumber
  <2>2. NoAsset \in Row /\ NoAsset.stamp = 0 /\ NoAsset.data = 0
    BY DEF NoAsset, Row
  <2>3. Uncalled \in CallState /\ Uncalled.at = "idle" /\ Uncalled.got = 0
    BY DEF Uncalled, CallState
  <2>4. \A c \in Callers : ~Asked(c) /\ caller[c].at = "idle" /\ caller[c].got = 0
    BY <2>3 DEF AssetInit, Asked
  <2> HIDE DEF Uncalled
  <2>5. cache \in [image : Seq(Entry), font : Seq(Entry)] /\ cache.image = <<>>
        /\ \A k \in Kinds : cache[k] = <<>>
    BY <2>1 DEF AssetInit, Kinds
  <2>6. AssetTyped
    BY <2>2, <2>3, <2>4, <2>5 DEF AssetInit, AssetTyped
  <2>7. RowsFit
    BY <2>2 DEF AssetInit, RowsFit
  <2>8. AsksFit /\ AsksAgree /\ FlightsFit
    <3>1. inFlight = {}
      BY DEF AssetInit
    <3>2. AsksFit /\ AsksAgree
      BY <2>4 DEF AsksFit, AsksAgree
    <3>3. \A c \in Callers : caller[c].at # "wait"
      BY <2>4
    <3>4. FlightsFit
      BY <3>1, <3>3 DEF FlightsFit
    <3> QED
      BY <3>2, <3>4
  <2>9. EntriesFit
    BY <2>5 DEF EntriesFit
  <2>10. SizesFit
    <3>1. \E cap \in Caps : 0 <= cap
      <4>1. PICK cap \in Caps : TRUE
        BY CapsAssumption
      <4>2. cap \in Nat
        BY CapsAssumption
      <4>3. 0 <= cap
        BY <4>2
      <4> QED
        BY <4>3
    <3>2. bytes = 0
      BY DEF AssetInit
    <3> QED
      BY <2>1, <2>5, <3>1, <3>2 DEF SizesFit, KeyedOnce
  <2> QED
    BY <2>6, <2>7, <2>8, <2>9, <2>10 DEF AssetInv
<1>2. AssetInv /\ [AssetNext]_assetVars => AssetInv'
  <2> SUFFICES ASSUME AssetInv, [AssetNext]_assetVars PROVE AssetInv'
    OBVIOUS
  <2>1. CASE UNCHANGED assetVars
    <3> USE <2>1 DEF assetVars, AssetInv
    <3>1. AssetTyped' /\ RowsFit'
      BY DEF AssetTyped, Asked, RowsFit
    <3>2. AsksFit' /\ AsksAgree'
      BY DEF AsksFit, AsksAgree, Asked
    <3>3. EntriesFit'
      BY DEF EntriesFit, EntryFits
    <3>4. FlightsFit' /\ SizesFit'
      BY DEF FlightsFit, SizesFit, KeyedOnce
    <3> QED
      BY <3>1, <3>2, <3>3, <3>4
  <2>2. CASE Tock
    BY <2>2, TockKeeps
  <2>3. ASSUME NEW a \in Assets, Store(a) \/ Put(a) \/ RenameAsset(a) \/ DeleteAsset(a) PROVE AssetInv'
    BY <2>3, RowStepsKeep
  <2>4. ASSUME NEW c \in Callers, NEW a \in Assets, LookUpAsset(c, a) PROVE AssetInv'
    BY <2>4, LookUpKeeps
  <2>5. ASSUME NEW c \in Callers, ReadBytes(c) \/ DeriveFails(c) PROVE AssetInv'
    BY <2>5, ReadBytesKeeps
  <2>6. ASSUME NEW c \in Callers, KeepFace(c) PROVE AssetInv'
    BY <2>6, KeepFaceKeeps
  <2>7. ASSUME NEW c \in Callers, NEW cap \in Caps, RememberRaster(c, cap) PROVE AssetInv'
    BY <2>7, RememberKeeps
  <2> QED
    BY <2>1, <2>2, <2>3, <2>4, <2>5, <2>6, <2>7 DEF AssetNext
<1>3. AssetInv => CachedDotsAreCurrent
  <2> SUFFICES ASSUME AssetInv PROVE CachedDotsAreCurrent
    OBVIOUS
  <2>1. ASSUME NEW c \in Callers, caller[c].got # 0, caller[c].key[1] \notin doubled
        PROVE  caller[c].got >= caller[c].saw
    <3>1. Asked(c)
      BY <2>1 DEF AssetTyped, AssetInv
    <3> QED
      BY <2>1, <3>1 DEF AsksFit, AssetInv
  <2> QED
    BY <2>1 DEF CachedDotsAreCurrent, AssetInv, FlightsFit, SizesFit
<1> QED
  BY <1>1, <1>2, <1>3, PTL DEF AssetSpec
=============================================================================
