------------------------------- MODULE Accounts -------------------------------
(***************************************************************************)
(* Who administers an install: lib/auth/setup.ts and setup-key.ts, the       *)
(* guards of account-guards.ts, and the actions of account-service.ts and    *)
(* account-security.ts that can take a superuser away.                      *)
(*                                                                         *)
(* A panel action resolves its session, asks whether its target is off       *)
(* limits, reads the target, counts the superusers and writes, with an       *)
(* await between any two.  Creating, promoting and unbanning ask nothing     *)
(* of the table, so each is one step.  Permissions are Grants'; here an       *)
(* account that is no superuser may hold what deleting and banning take.     *)
(***************************************************************************)
EXTENDS Naturals, FiniteSets

CONSTANTS
    Users,     \* accounts there may be
    Removals   \* actions that demote, delete or ban, each used once

VARIABLES
    account,   \* the User rows: whether there, a superuser, banned
    sessions,  \* who holds a session
    setupKey,  \* a setup key is stored
    removal,   \* of each action, how far it is and what it read
    claims,    \* history: how often setup was completed
    crossedRemoval      \* history: a superuser was removed while another removal was under way

accountVars == <<account, sessions, setupKey, removal, claims, crossedRemoval>>

Nobody == [there |-> FALSE, super |-> FALSE, banned |-> FALSE]
Unused == [at |-> "unused"]

AccountsTypeOK ==
    /\ account \in [Users -> [there : BOOLEAN, super : BOOLEAN, banned : BOOLEAN]]
    /\ sessions \subseteq Users /\ {setupKey, crossedRemoval} \subseteq BOOLEAN /\ claims \in Nat
    /\ removal \in [Removals -> {Unused} \cup
          [at : {"gate", "check", "count", "write", "over"}, actor : Users, super : BOOLEAN,
           verb : {"delete", "demote", "ban"}, target : Users]]

AccountsInit ==
    /\ account = [u \in Users |-> Nobody] /\ sessions = {} /\ setupKey = FALSE
    /\ removal = [c \in Removals |-> Unused] /\ claims = 0 /\ crossedRemoval = FALSE

There      == {u \in Users : account[u].there}
Superusers == {u \in There : account[u].super}

(***************************************************************************)
(* Setup, sign-in and what asks nothing of the table                        *)
(***************************************************************************)

\* rotateSetupKey, on each boot: nothing is served before it is done.
Boot ==
    /\ There = {} /\ setupKey' = TRUE
    /\ UNCHANGED <<account, sessions, removal, claims, crossedRemoval>>

\* completeSetup: one transaction, from the key and the count to the seal.
CompleteSetup(u) ==
    /\ setupKey /\ There = {}
    /\ account' = [account EXCEPT ![u] = [there |-> TRUE, super |-> TRUE, banned |-> FALSE]]
    /\ setupKey' = FALSE /\ claims' = claims + 1
    /\ UNCHANGED <<sessions, removal, crossedRemoval>>

OpenSession(u) ==
    /\ u \in There /\ ~account[u].banned /\ sessions' = sessions \cup {u}
    /\ UNCHANGED <<account, setupKey, removal, claims, crossedRemoval>>

\* createAccount and setAccountSuperuser(true) by a superuser; unbanAccount, or a
\* ban that lapsed: no account is created a superuser, and nothing is counted.
Create(u) == account[u] = Nobody /\ account' = [account EXCEPT ![u].there = TRUE]
Promote(u) == u \in There /\ account' = [account EXCEPT ![u].super = TRUE]
Unban(u) == account[u].banned /\ account' = [account EXCEPT ![u].banned = FALSE]
Plain(u) ==
    /\ ((Create(u) \/ Promote(u)) /\ sessions \cap Superusers # {}) \/ Unban(u)
    /\ UNCHANGED <<sessions, setupKey, removal, claims, crossedRemoval>>

(***************************************************************************)
(* Demoting, deleting and banning                                           *)
(***************************************************************************)

UnderWay(c) == removal[c].at \notin {"unused", "over"}
Goes(c, to) == removal' = [removal EXCEPT ![c].at = to]
Refuse(c)   == removal' = [removal EXCEPT ![c].at = "over"]
Reads       == UNCHANGED <<account, sessions, setupKey, claims, crossedRemoval>>

\* gate: the session and the account as it says.  Only a superuser may demote,
\* and nobody acts on themselves.
Ask(c) ==
    /\ removal[c] = Unused
    /\ \E a \in sessions, t \in Users, v \in {"delete", "demote", "ban"} :
          /\ a # t /\ (v = "demote" => account[a].super)
          /\ removal' = [removal EXCEPT ![c] =
                [at |-> "gate", actor |-> a, super |-> account[a].super, verb |-> v, target |-> t]]
    /\ Reads

\* isProtectedSuperuserTarget: a superuser is off limits to anybody else.
Gate(c) ==
    /\ removal[c].at = "gate"
    /\ IF ~removal[c].super /\ removal[c].target \in Superusers THEN Refuse(c) ELSE Goes(c, "check")
    /\ Reads

\* assertNotLastSuperuser, its first read.
Check(c) ==
    /\ removal[c].at = "check"
    /\ LET t == removal[c].target IN
       IF t \notin There THEN Refuse(c)
       ELSE Goes(c, IF t \in Superusers THEN "count" ELSE "write")
    /\ Reads

\* assertNotLastSuperuser, its count: banned superusers count too.
Count(c) ==
    /\ removal[c].at = "count"
    /\ IF Cardinality(Superusers) <= 1 THEN Refuse(c) ELSE Goes(c, "write")
    /\ Reads

Without(verb, row) ==
    CASE verb = "delete" -> Nobody
      [] verb = "demote" -> [row EXCEPT !.super = FALSE]
      [] verb = "ban"    -> [row EXCEPT !.banned = TRUE]

\* The mutant of Remove: the account of the one who asks is written.
MistakeRemove(c) ==
    /\ removal[c].at = "write" /\ Goes(c, "over")
    /\ account' = [account EXCEPT ![removal[c].actor] = Without(removal[c].verb, @)]
    /\ UNCHANGED <<sessions, setupKey, claims, crossedRemoval>>

\* The write; a row that is gone by now makes it throw.  A ban and a deletion
\* end the sessions, a demotion does not.
Remove(c) ==
    LET t == removal[c].target
        v == removal[c].verb
    IN
    /\ removal[c].at = "write" /\ Goes(c, "over")
    /\ IF t \notin There THEN UNCHANGED <<account, sessions, crossedRemoval>>
       ELSE /\ account' = [account EXCEPT ![t] = Without(v, @)]
            /\ sessions' = IF v = "demote" THEN sessions ELSE sessions \ {t}
            /\ crossedRemoval' = (crossedRemoval \/ (t \in Superusers /\ \E d \in Removals \ {c} : UnderWay(d)))
    /\ UNCHANGED <<setupKey, claims>>

AccountsNext ==
    \/ Boot \/ \E u \in Users : CompleteSetup(u) \/ OpenSession(u) \/ Plain(u)
    \/ \E c \in Removals : Ask(c) \/ Gate(c) \/ Check(c) \/ Count(c) \/ Remove(c)

AccountsSpec == AccountsInit /\ [][AccountsNext]_accountVars

(***************************************************************************)
(* Properties                                                               *)
(***************************************************************************)

\* Once claimed, an install has a superuser who can sign in, and setup does not
\* open again ("refuses an action that would leave the install with no
\* superuser", account-guards.ts:38): nothing else can promote, lift a ban or
\* mint a key.  The count is not part of the write, so two removals that cross
\* are left out.
AdministeredUnlessRaced ==
    claims > 0 /\ ~crossedRemoval => /\ \E u \in Superusers : ~account[u].banned
                            /\ claims = 1
=============================================================================
