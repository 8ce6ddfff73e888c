-------------------------------- MODULE SignIn --------------------------------
(***************************************************************************)
(* Signing in to one account: signIn and verifyTwoFactor of                  *)
(* app/(auth)/login/actions.ts, with lib/auth/lockout.ts and                *)
(* enforceSessionCap of session-policy.ts.                                  *)
(*                                                                         *)
(* A submission reads the lock, has its password examined, and then either  *)
(* reads and writes the count of failures, or gets a session, clears the    *)
(* count, reads the sessions and deletes those over the cap.  A second      *)
(* factor is a second submission that is right and examines no password.    *)
(* The allowlist, the throttle and the bot challenge, which come first and   *)
(* keep nothing of the account's, are left out, as is the order of the      *)
(* sessions: any but the new one may be the one to go.                      *)
(***************************************************************************)
EXTENDS Naturals, FiniteSets

CONSTANTS
    Tries,   \* submissions, each used once; a session has its submission's name
    Limit,   \* auth.lockoutAfterFailures
    Cap      \* auth.maxConcurrentSessions

ASSUME LimitAssumption == {Limit, Cap} \subseteq Nat \ {0}

VARIABLES
    try,        \* of each submission, how far it is and what it read
    failures,   \* failedSignInCount
    locked,     \* lockedUntil is ahead
    signedIn,   \* the sessions
    untrimmed,  \* history: sessions made that no cap has been applied to since
    wrong,      \* history: wrong passwords since the count was cleared
    latest,     \* history: the last session made, unless its holder ended it
    crossed     \* history: two submissions were under way at once

signInVars == <<try, failures, locked, signedIn, untrimmed, wrong, latest, crossed>>

Unsent == [at |-> "unsent", saw |-> 0, held |-> {}]

SignInInit ==
    /\ try = [t \in Tries |-> Unsent] /\ failures = 0 /\ locked = FALSE /\ signedIn = {}
    /\ untrimmed = {} /\ wrong = 0 /\ latest = {} /\ crossed = FALSE

Steps(t, to)  == try' = [try EXCEPT ![t].at = to]
OnItsWay(t)   == try[t].at \notin {"unsent", "over"}
AccountKept   == UNCHANGED <<failures, locked, signedIn, untrimmed, wrong, latest>>

\* lockedOutFor
Submit(t) ==
    /\ try[t].at = "unsent" /\ Steps(t, IF locked THEN "over" ELSE "examine")
    /\ crossed' = (crossed \/ \E u \in Tries : OnItsWay(u)) /\ AccountKept

Reject(t) ==
    /\ try[t].at = "examine" /\ Steps(t, "count") /\ wrong' = wrong + 1
    /\ UNCHANGED <<failures, locked, signedIn, untrimmed, latest, crossed>>

\* recordFailedSignIn: the read and the write.
ReadCount(t) ==
    /\ try[t].at = "count" /\ try' = [try EXCEPT ![t].at = "fail", ![t].saw = failures]
    /\ AccountKept /\ UNCHANGED crossed

WriteCount(t) ==
    /\ try[t].at = "fail" /\ Steps(t, "over")
    /\ failures' = try[t].saw + 1 /\ locked' = (locked \/ try[t].saw + 1 >= Limit)
    /\ UNCHANGED <<signedIn, untrimmed, wrong, latest, crossed>>

\* auth.api.signInEmail, verifyTOTP, verifyBackupCode
Accept(t) ==
    /\ try[t].at = "examine" /\ Steps(t, "clear") /\ signedIn' = signedIn \cup {t}
    /\ untrimmed' = untrimmed \cup {t} /\ latest' = {t}
    /\ UNCHANGED <<failures, locked, wrong, crossed>>

\* clearFailedSignIns
ClearCount(t) ==
    /\ try[t].at = "clear" /\ Steps(t, "cap") /\ failures' = 0 /\ locked' = FALSE /\ wrong' = 0
    /\ UNCHANGED <<signedIn, untrimmed, latest, crossed>>

\* enforceSessionCap: the read, and the delete.
ReadSessions(t) ==
    /\ try[t].at = "cap" /\ try' = [try EXCEPT ![t].at = "trim", ![t].held = signedIn]
    /\ AccountKept /\ UNCHANGED crossed

\* The mutant: the new session is one of many.
MistakeKept(t, held) == {K \in SUBSET held : Cardinality(K) = IF Cardinality(held) < Cap THEN Cardinality(held) ELSE Cap}

\* What the cap may keep: the new session first.
Kept(t, held) ==
    {K \in SUBSET held : /\ t \in held => t \in K
                         /\ Cardinality(K) = IF Cardinality(held) < Cap THEN Cardinality(held) ELSE Cap}

Trim(t) ==
    /\ try[t].at = "trim" /\ Steps(t, "over")
    /\ \E K \in Kept(t, try[t].held) : signedIn' = signedIn \ (try[t].held \ K)
    /\ untrimmed' = untrimmed \ (try[t].held \cup {t})
    /\ UNCHANGED <<failures, locked, wrong, latest, crossed>>

\* A step that throws, or the server going down.
Abort(t) == OnItsWay(t) /\ Steps(t, "over") /\ AccountKept /\ crossed' = TRUE

LockLapses ==
    /\ locked /\ locked' = FALSE
    /\ UNCHANGED <<try, failures, signedIn, untrimmed, wrong, latest, crossed>>

\* Signed out, revoked, or ended for inactivity (sessionVerdict).
EndSession(t) ==
    /\ t \in signedIn /\ signedIn' = signedIn \ {t} /\ latest' = latest \ {t}
    /\ UNCHANGED <<try, failures, locked, untrimmed, wrong, crossed>>

SignInNext ==
    \/ \E t \in Tries :
          \/ Submit(t) \/ Reject(t) \/ ReadCount(t) \/ WriteCount(t) \/ Accept(t) \/ ClearCount(t)
          \/ ReadSessions(t) \/ Trim(t) \/ Abort(t) \/ EndSession(t)
    \/ LockLapses

SignInSpec == SignInInit /\ [][SignInNext]_signInVars

(***************************************************************************)
(* Properties                                                               *)
(***************************************************************************)

\* However submissions cross, an account has no more sessions than the cap once
\* each that was made has been counted; one submission at a time, the newest
\* session is never the one to go ("sign the caller straight back out",
\* actions.ts:388), every wrong password is counted, and a password is not
\* examined while the account is locked.
SignInIsBounded ==
    /\ untrimmed = {} => Cardinality(signedIn) <= Cap
    /\ ~crossed => /\ latest \subseteq signedIn
                   /\ (\A t \in Tries : ~OnItsWay(t)) => failures = wrong
                   /\ locked => \A t \in Tries : try[t].at # "examine"
=============================================================================
