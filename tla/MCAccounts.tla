---------------------------- MODULE MCAccounts ----------------------------
(* Accounts and TwoFactor side by side, for TLC: a behaviour is of one of    *)
(* the two (part), and the other stays where it started.                     *)
EXTENDS Accounts, TLC

CONSTANTS Challenge, Passkey, Secret, Code, MfaRequest, MaxStep, MaxAttempts, FailureLimit

VARIABLES part, factors, passkeys, codes, challenges, step, signedIn, usedCode

mfaVars == <<factors, passkeys, codes, challenges, step, signedIn, usedCode>>
peopleVars == <<part, accountVars, mfaVars>>

Mfa == INSTANCE TwoFactor WITH user <- factors, req <- step, Request <- MfaRequest

ASSUME FactorsAssumption == Mfa!TwoFactorAssumption

\* One initial state of each, for the behaviours that leave it alone.
accountAtRest ==
    /\ AccountInit
    /\ user.email = CHOOSE e \in Address : TRUE
    /\ request[CHOOSE r \in AccountRequest : TRUE] # Idle
factorsAtRest == Mfa!Init /\ Mfa!Factors = {} /\ ~ factors.required

PeopleInit ==
    \/ part = "account" /\ AccountInit /\ factorsAtRest
    \/ part = "factors" /\ accountAtRest /\ Mfa!Init

\* Bounds of the ageing: of a spent challenge only with failures to forget, of
\* any beside one request at most, and none beside an administrator's reset.
FewAges ==
    /\ \A c \in Challenge :
         challenges'[c].old /\ ~ challenges[c].old =>
             /\ challenges[c].state = "live" \/ challenges[c].attempts > 0
             /\ \E r \in MfaRequest : step[r] = Mfa!Idle
    /\ \A c, d \in Challenge : challenges'[c].old => challenges'[d].state # "gone"

PeopleNext ==
    /\ UNCHANGED part
    /\ \/ part = "account" /\ AccountNext /\ UNCHANGED mfaVars
       \/ part = "factors" /\ Mfa!Next /\ UNCHANGED accountVars

\* Any requests; the profile form and the settings of 2FA one at a time.
PeopleSpec == PeopleInit /\ [][PeopleNext]_peopleVars
PeopleSettingsNext == PeopleNext /\ OneProfile' /\ Mfa!Apart /\ FewAges
PeopleSettingsSpec == PeopleInit /\ [][PeopleSettingsNext]_peopleVars

\* The rows of both keep their types: versions in their bound, challenges,
\* codes and factors among those that were made.
PeopleTypesOK == part \in {"account", "factors"} => AccountTypeOK /\ Mfa!TypeOK

\* TwoFactor's: 2FA reads on exactly while a factor is left, and its codes go
\* with the last (factorRemoved: "with none left, 2FA is off and the codes go").
EnabledMeansAFactor == Mfa!EnabledMeansAFactor

\* TwoFactor's: only an administrator takes the last factor of a role that
\* requires one (remove: "Refused when it is a required role's last factor").
RequiredKeepsAFactor == Mfa!RequiredKeepsAFactor

\* TwoFactor's: no code of the app or of recovery signs in twice (verifyCode:
\* "two parallel uses of one code can't both succeed").
CodesSignInOnce == Mfa!CodesSignInOnce

\* Accounts' and TwoFactor's: links change the account once, challenges and
\* recovery codes sign in once, and those of the app while it is enrolled
\* (consumeResetToken: "only one request can flip usedAt",
\* consumeChallenge: "of two concurrent completions only one wins").
UsedOnce == LinksWorkOnce /\ Mfa!SignInsAreSpentOnce

\* TwoFactor's: failed attempts stay under their limits, but for the requests
\* in flight (recordFailure, assertNotLocked).
FailuresBounded == Mfa!FailuresBounded

Symmetry == Permutations(Link) \cup Permutations(Challenge) \cup Permutations(MfaRequest)
=============================================================================
