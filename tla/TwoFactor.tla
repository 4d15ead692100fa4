----------------------------- MODULE TwoFactor -----------------------------
(***************************************************************************)
(* The second factors of one account: the authenticator app, the passkeys, *)
(* the recovery codes, and the short-lived challenges that tie the steps   *)
(* of a sign-in or an enrolment together (apps/api mfa.service.ts,         *)
(* passkey.service.ts and the sign-in half of auth.service.ts).            *)
(*                                                                         *)
(* A request loads its challenge, then writes, then spends the challenge;  *)
(* others run in between.  A transaction that reads before it writes is    *)
(* two steps: what it decided, and its commit.                             *)
(***************************************************************************)
EXTENDS Integers, FiniteSets

CONSTANTS
    Challenge,     \* challenges that may be created
    Passkey,       \* passkeys the person may register
    Secret,        \* authenticator secrets that may be generated
    Code,          \* recovery codes that may be minted; a set of them is one code
    Request,       \* requests in flight at once
    MaxStep,       \* bound: time steps, all within one TOTP_WINDOW
    MaxAttempts,   \* MFA_MAX_ATTEMPTS
    FailureLimit,  \* MFA_ACCOUNT_FAILURE_LIMIT
    none


VARIABLES
    user,       \* totpSecret, totpLastStep, mfaEnabledAt, whether the role requires 2FA
    passkeys,   \* WebAuthnCredential
    codes,      \* RecoveryCode, by code
    challenges, \* AuthChallenge
    req,        \* requests in flight
    signedIn,   \* history: sessions by the challenge that was spent for them
    usedCode    \* history: sessions by the code that was typed for them

vars == <<user, passkeys, codes, challenges, req, signedIn, usedCode>>

Step == 0 .. MaxStep
NoStep == -1

\* What can be typed at the second step and works once.
TotpCode == Secret \X Step

Purpose == {"LOGIN_MFA", "MFA_SETUP", "TOTP_ENROLL", "PASSKEY_REGISTER", "PASSKEY_LOGIN"}

\* Factors, codes and challenges are of different kinds.
TwoFactorAssumption ==
    /\ IsFiniteSet(Challenge) /\ IsFiniteSet(Request) /\ Request # {}
    /\ none \notin Challenge \cup Passkey \cup Secret \cup Code \cup TotpCode \cup Purpose
    /\ Code # {} /\ Code \cap (TotpCode \cup Passkey) = {}
    /\ Passkey \cap (TotpCode \cup Secret \cup {"totp"}) = {}
    /\ MaxStep \in Nat /\ MaxAttempts \in Nat \ {0} /\ FailureLimit \in Nat \ {0}

Absent == [purpose |-> none, state |-> "absent", old |-> FALSE, attempts |-> 0, secret |-> none]
Idle == [op |-> "idle", c |-> none, setup |-> none, by |-> none, last |-> NoStep, drop |-> none,
         told |-> FALSE]

TypeOK ==
    /\ user \in [totp : Secret \cup {none}, last : Step \cup {NoStep},
                 enabled : BOOLEAN, required : BOOLEAN]
    /\ passkeys \subseteq Passkey
    /\ codes \in [Code -> {"unminted", "unused", "used", "gone"}]
    /\ challenges \in [Challenge ->
         [purpose : Purpose \cup {none}, state : {"absent", "live", "spent", "gone"},
          old : BOOLEAN, attempts : Nat, secret : Secret \cup {none}]]
    /\ req \in [Request ->
         [op : {"idle", "verify", "spend", "enrol", "finish", "remove", "removing", "codes",
                "fail"},
          c : Challenge \cup {none}, setup : Challenge \cup {none},
          by : TotpCode \cup Code \cup Passkey \cup Secret \cup {none},
          last : Step \cup {NoStep}, drop : {"totp", none} \cup Passkey, told : BOOLEAN]]
    /\ signedIn \in [Challenge -> Nat]
    /\ usedCode \in [TotpCode \cup Code -> Nat]

Factors == passkeys \cup ({user.totp} \ {none})
Become(r, request) == req' = [req EXCEPT ![r] = request]

----------------------------------------------------------------------------
(* Challenges. *)

\* createChallenge
Created(c, purpose, secret) ==
    /\ challenges[c] = Absent
    /\ challenges' = [challenges EXCEPT ![c] = [Absent EXCEPT !.purpose = purpose, !.state = "live",
                                                              !.secret = secret]]

\* Mutant: a challenge is not closed by its failed attempts.
loadsAnyAttempts(c, purpose) ==
    challenges[c].purpose = purpose /\ challenges[c].state = "live" /\ ~ challenges[c].old

\* loadChallenge
loadChallenge(c, purpose) ==
    /\ challenges[c].purpose = purpose
    /\ challenges[c].state = "live" /\ ~ challenges[c].old
    /\ challenges[c].attempts < MaxAttempts

\* consumeChallenge: updateMany where consumedAt is null, 1 row
consumable(c) == challenges[c].state = "live"
Spent(c) == [challenges EXCEPT ![c].state = "spent"]

\* recordFailure
Failed(c) == [challenges EXCEPT ![c].attempts = @ + 1]

\* recentFailures: the attempts summed over the sign-in challenges inside the
\* lockout window, counted one by one.
Recent == {c \in Challenge : challenges[c].purpose = "LOGIN_MFA"
                             /\ challenges[c].state # "gone" /\ ~ challenges[c].old}
recentFailures == Cardinality(UNION {{c} \X (1 .. challenges[c].attempts) : c \in Recent})
assertNotLocked == recentFailures < FailureLimit

\* The lockout window, and with it the life of the challenge, is over.  An
\* enrolment that expires is one nobody confirms.
age(c) ==
    /\ challenges[c].purpose \in {"LOGIN_MFA", "MFA_SETUP"}
    /\ challenges[c].state \in {"live", "spent"} /\ ~ challenges[c].old
    /\ challenges' = [challenges EXCEPT ![c].old = TRUE]
    /\ UNCHANGED <<user, passkeys, codes, req, signedIn, usedCode>>

\* totpStep: verifyTotp tries the steps above the last accepted one.
InWindow(step, last) == step \in Step /\ step > last

----------------------------------------------------------------------------
(* Signing in. *)

\* login, once the password is right.  Without a factor, and where none is
\* required, it is the whole sign-in and no challenge is made.
login(c) ==
    /\ \/ /\ user.enabled /\ assertNotLocked
          /\ Created(c, "LOGIN_MFA", none)
       \/ /\ ~ user.enabled /\ user.required
          /\ Created(c, "MFA_SETUP", none)
    /\ UNCHANGED <<user, passkeys, codes, req, signedIn, usedCode>>

\* completeMfa: the challenge and the row it reads; none is a code that is
\* neither the app's nor a recovery code.
completeMfa(r, c, by) ==
    /\ by \in TotpCode => user.totp = by[1]
    /\ req[r].op = "idle" /\ loadChallenge(c, "LOGIN_MFA") /\ assertNotLocked
    /\ Become(r, [Idle EXCEPT !.op = "verify", !.c = c, !.by = by, !.last = user.last])
    /\ UNCHANGED <<user, passkeys, codes, challenges, signedIn, usedCode>>

\* passwordlessOptions; passwordlessLogin: the challenge it reads.
passwordlessOptions(c) ==
    /\ Created(c, "PASSKEY_LOGIN", none)
    /\ UNCHANGED <<user, passkeys, codes, req, signedIn, usedCode>>

passwordlessLogin(r, c, p) ==
    /\ req[r].op = "idle" /\ loadChallenge(c, "PASSKEY_LOGIN")
    /\ Become(r, [Idle EXCEPT !.op = "verify", !.c = c, !.by = p])
    /\ UNCHANGED <<user, passkeys, codes, challenges, signedIn, usedCode>>

\* Mutant: the step that was read decides.
winsAsRead(request, step) == InWindow(step, request.last)

\* verifyCode: updateMany where totpLastStep is null or lower, after the look at the row as read.
wins(request, step) == InWindow(step, request.last) /\ user.last < step

\* verifyCode: updateMany where usedAt is null.
unusedCode(code) == codes[code] = "unused"

\* verifyCode and verifySecondFactor: the write accepts it.
accepted(r) ==
    LET by == req[r].by
    IN  \/ by \in TotpCode /\ wins(req[r], by[2])
        \/ by \in Code /\ unusedCode(by)
        \/ by \in passkeys

accept(r) ==
    LET by == req[r].by
    IN  /\ req[r].op = "verify" /\ accepted(r)
        /\ user' = IF by \in TotpCode THEN [user EXCEPT !.last = by[2]] ELSE user
        /\ codes' = IF by \in Code THEN [codes EXCEPT ![by] = "used"] ELSE codes
        /\ Become(r, [Idle EXCEPT !.op = "spend", !.c = req[r].c, !.by = by])
        /\ UNCHANGED <<passkeys, challenges, signedIn, usedCode>>

\* A code or passkey that does not work ...
refuse(r) ==
    /\ req[r].op = "verify" /\ ~ accepted(r)
    /\ Become(r, [Idle EXCEPT !.op = "fail", !.c = req[r].c])
    /\ UNCHANGED <<user, passkeys, codes, challenges, signedIn, usedCode>>

\* ... counts against the challenge, if that is still there.
recordFailure(r) ==
    /\ req[r].op = "fail"
    /\ challenges' = IF challenges[req[r].c].state = "gone" THEN challenges ELSE Failed(req[r].c)
    /\ Become(r, Idle)
    /\ UNCHANGED <<user, passkeys, codes, signedIn, usedCode>>

\* consumeChallenge, and the session of the one request that spent it.
signIn(r) ==
    LET c  == req[r].c
        by == req[r].by
    IN  /\ req[r].op = "spend"
        /\ IF consumable(c)
           THEN /\ challenges' = Spent(c)
                /\ signedIn' = [signedIn EXCEPT ![c] = @ + 1]
                /\ usedCode' = IF by \in DOMAIN usedCode THEN [usedCode EXCEPT ![by] = @ + 1]
                                                         ELSE usedCode
           ELSE UNCHANGED <<challenges, signedIn, usedCode>>
        /\ Become(r, Idle)
        /\ UNCHANGED <<user, passkeys, codes>>

----------------------------------------------------------------------------
(* Enrolling. *)

\* setupUser: none is the signed-in settings page, which asked for the password.
setupUser(setup) == setup \in {none} \cup {c \in Challenge : loadChallenge(c, "MFA_SETUP")}

\* The secret of an app that is, or may soon be, in use.  A new one is random.
InUse(secret) ==
    \/ secret \in {challenges[k].secret : k \in Challenge}
    \/ \E k \in TotpCode : k[1] = secret /\ (usedCode[k] > 0 \/ \E r \in Request : req[r].by = k)

\* beginTotp, also as setupTotp
beginTotp(c, setup, secret) ==
    /\ setupUser(setup) /\ user.totp = none
    /\ ~ InUse(secret)
    /\ Created(c, "TOTP_ENROLL", secret)
    /\ UNCHANGED <<user, passkeys, codes, req, signedIn, usedCode>>

\* registrationOptions, also as setupPasskeyOptions
registrationOptions(c, setup) ==
    /\ setupUser(setup) /\ passkeys # Passkey
    /\ Created(c, "PASSKEY_REGISTER", none)
    /\ UNCHANGED <<user, passkeys, codes, req, signedIn, usedCode>>

\* confirmTotp and register, also as confirmSetupTotp and setupPasskey: the
\* challenge they read and what it proves.
confirmTotp(r, c, setup, code) ==
    /\ req[r].op = "idle" /\ setupUser(setup) /\ loadChallenge(c, "TOTP_ENROLL")
    /\ challenges[c].secret = code[1] /\ InWindow(code[2], NoStep)
    /\ Become(r, [Idle EXCEPT !.op = "enrol", !.c = c, !.setup = setup, !.by = code])
    /\ UNCHANGED <<user, passkeys, codes, challenges, signedIn, usedCode>>

register(r, c, setup, p) ==
    /\ req[r].op = "idle" /\ setupUser(setup) /\ loadChallenge(c, "PASSKEY_REGISTER")
    /\ p \notin passkeys
    /\ Become(r, [Idle EXCEPT !.op = "enrol", !.c = c, !.setup = setup, !.by = p])
    /\ UNCHANGED <<user, passkeys, codes, challenges, signedIn, usedCode>>

\* The same of a code that does not confirm, or a passkey that does not verify.
enrolFails(r, c) ==
    /\ req[r].op = "idle"
    /\ loadChallenge(c, "TOTP_ENROLL") \/ loadChallenge(c, "PASSKEY_REGISTER")
    /\ Become(r, [Idle EXCEPT !.op = "fail", !.c = c])
    /\ UNCHANGED <<user, passkeys, codes, challenges, signedIn, usedCode>>

\* replaceRecoveryCodes, and the deletion alone when code is none.
mintable == {k \in Code : codes[k] = "unminted"}
freshCode == CHOOSE k \in mintable : TRUE
Replaced(code) == [k \in Code |-> IF k = code THEN "unused"
                                  ELSE IF codes[k] = "unminted" THEN codes[k] ELSE "gone"]
unusedCodes == {k \in Code : codes[k] = "unused"}

\* factorAdded: mfaEnabledAt where it is null ...
enabledAfterAdding == TRUE

\* ... and codes when none is unused.
factorAdded(totp, last) ==
    /\ user' = [user EXCEPT !.totp = totp, !.last = last, !.enabled = enabledAfterAdding]
    /\ IF unusedCodes = {}
       THEN mintable # {} /\ codes' = Replaced(freshCode)
       ELSE UNCHANGED codes

\* Forced setup goes on to finishSetup.
afterEnrol(setup) == IF setup = none THEN Idle ELSE [Idle EXCEPT !.op = "finish", !.setup = setup]

\* The transaction of confirmTotp and register: all of it, or none.
enrol(r) ==
    LET by == req[r].by
    IN  /\ req[r].op = "enrol"
        /\ \/ /\ consumable(req[r].c) /\ by \in TotpCode /\ user.totp = none
              /\ factorAdded(by[1], by[2])
              /\ UNCHANGED passkeys
              /\ challenges' = Spent(req[r].c)
              /\ Become(r, afterEnrol(req[r].setup))
           \/ /\ consumable(req[r].c) /\ by \in Passkey \ passkeys
              /\ factorAdded(user.totp, user.last)
              /\ passkeys' = passkeys \cup {by}
              /\ challenges' = Spent(req[r].c)
              /\ Become(r, afterEnrol(req[r].setup))
           \/ /\ ~ consumable(req[r].c) \/ by \in passkeys \/ (by \in TotpCode /\ user.totp # none)
              /\ Become(r, Idle)
              /\ UNCHANGED <<user, codes, passkeys, challenges>>
        /\ UNCHANGED <<signedIn, usedCode>>

\* finishSetup: load and spend the setup challenge, and the session.
finishSetup(r) ==
    LET c == req[r].setup
    IN  /\ req[r].op = "finish"
        /\ IF loadChallenge(c, "MFA_SETUP")
           THEN challenges' = Spent(c) /\ signedIn' = [signedIn EXCEPT ![c] = @ + 1]
           ELSE UNCHANGED <<challenges, signedIn>>
        /\ Become(r, Idle)
        /\ UNCHANGED <<user, passkeys, codes, usedCode>>

----------------------------------------------------------------------------
(* Removing. *)

\* Mutant: the rule that a required role keeps one is not asked.
anyFactorMayGo(isLast) == TRUE

\* assertNotLastFactor
assertNotLastFactor(isLast) == ~ (isLast /\ user.required)

\* disableTotp and remove: the other factors are counted before the transaction ...
disableTotp(r) ==
    /\ req[r].op = "idle"
    /\ user.totp # none /\ assertNotLastFactor(passkeys = {})
    /\ Become(r, [Idle EXCEPT !.op = "remove", !.drop = "totp"])
    /\ UNCHANGED <<user, passkeys, codes, challenges, signedIn, usedCode>>

removePasskey(r, p) ==
    /\ req[r].op = "idle"
    /\ p \in passkeys /\ assertNotLastFactor(Factors = {p})
    /\ Become(r, [Idle EXCEPT !.op = "remove", !.drop = p])
    /\ UNCHANGED <<user, passkeys, codes, challenges, signedIn, usedCode>>

Dropped(r) == IF req[r].drop = "totp" THEN {user.totp} ELSE {req[r].drop}

\* Mutant: the factors as they were before this one went.
lastAsItWas(r) == Factors = {}

\* factorRemoved: what is left, as the transaction reads it: what is committed
\* and its own removal.
noneLeft(r) == Factors \subseteq Dropped(r)

\* ... it decides ...
factorRemoved(r) ==
    /\ req[r].op = "remove"
    /\ Become(r, [req[r] EXCEPT !.op = "removing", !.told = noneLeft(r)])
    /\ UNCHANGED <<user, passkeys, codes, challenges, signedIn, usedCode>>

\* ... and commits, unless the passkey is already gone.
remove(r) ==
    LET d == req[r].drop
    IN  /\ req[r].op = "removing"
        /\ Become(r, Idle)
        /\ IF d = "totp" \/ d \in passkeys
           THEN /\ user' = [user EXCEPT !.totp = IF d = "totp" THEN none ELSE @,
                                        !.last = IF d = "totp" THEN NoStep ELSE @,
                                        !.enabled = @ /\ ~ req[r].told]
                /\ passkeys' = passkeys \ {d}
                /\ codes' = IF req[r].told THEN Replaced(none) ELSE codes
           ELSE UNCHANGED <<user, passkeys, codes>>
        /\ UNCHANGED <<challenges, signedIn, usedCode>>

\* regenerateRecoveryCodes: refused while 2FA is off ...
regenerateRecoveryCodes(r) ==
    /\ req[r].op = "idle" /\ user.enabled
    /\ Become(r, [Idle EXCEPT !.op = "codes"])
    /\ UNCHANGED <<user, passkeys, codes, challenges, signedIn, usedCode>>

\* ... then replaceRecoveryCodes.
replaceRecoveryCodes(r) ==
    /\ req[r].op = "codes" /\ mintable # {}
    /\ codes' = Replaced(freshCode)
    /\ Become(r, Idle)
    /\ UNCHANGED <<user, passkeys, challenges, signedIn, usedCode>>

----------------------------------------------------------------------------
(* The administrator. *)

\* AdminUsersService.update with a role: only what it means for 2FA.
changeRole ==
    /\ user' = [user EXCEPT !.required = ~ @]
    /\ UNCHANGED <<passkeys, codes, challenges, req, signedIn, usedCode>>

\* authChallenge.deleteMany where userId: a passwordless one has none.
resetDeletes(challenge) ==
    IF challenge.state = "absent" \/ challenge.purpose = "PASSKEY_LOGIN" THEN challenge
    ELSE [challenge EXCEPT !.state = "gone"]

\* resetMfa
resetMfa ==
    /\ user' = [user EXCEPT !.totp = none, !.last = NoStep, !.enabled = FALSE]
    /\ passkeys' = {}
    /\ codes' = Replaced(none)
    /\ challenges' = [c \in Challenge |-> resetDeletes(challenges[c])]
    /\ UNCHANGED <<req, signedIn, usedCode>>

----------------------------------------------------------------------------

\* Any account at rest: its factors, and codes since the first of them.
Init ==
    /\ \E required \in BOOLEAN, totp \in Secret \cup {none} :
         /\ passkeys \in SUBSET Passkey
         /\ user = [totp |-> totp, last |-> IF totp = none THEN NoStep ELSE 0,
                    enabled |-> passkeys # {} \/ totp # none, required |-> required]
    /\ IF user.enabled
       THEN LET first == CHOOSE k \in Code : TRUE
            IN  codes = [k \in Code |-> IF k = first THEN "unused" ELSE "unminted"]
       ELSE codes = [k \in Code |-> "unminted"]
    /\ challenges = [c \in Challenge |-> Absent]
    /\ req = [r \in Request |-> Idle]
    /\ signedIn = [c \in Challenge |-> 0]
    /\ usedCode = [k \in TotpCode \cup Code |-> 0]

OfRequest(r) ==
    \/ accept(r) \/ refuse(r) \/ recordFailure(r) \/ signIn(r)
    \/ enrol(r) \/ finishSetup(r)
    \/ disableTotp(r) \/ factorRemoved(r) \/ remove(r)
    \/ regenerateRecoveryCodes(r) \/ replaceRecoveryCodes(r)
    \/ \E p \in Passkey : removePasskey(r, p)
    \/ \E c \in Challenge :
         \/ \E by \in TotpCode \cup Code \cup Passkey \cup {none} : completeMfa(r, c, by)
         \/ \E p \in Passkey : passwordlessLogin(r, c, p)
         \/ enrolFails(r, c)
         \/ \E setup \in Challenge \cup {none} :
              \/ \E code \in TotpCode : confirmTotp(r, c, setup, code)
              \/ \E p \in Passkey : register(r, c, setup, p)

OfChallenge(c) ==
    \/ login(c) \/ passwordlessOptions(c) \/ age(c)
    \/ \E setup \in Challenge \cup {none} :
         \/ registrationOptions(c, setup)
         \/ \E secret \in Secret : beginTotp(c, setup, secret)

Next ==
    \/ changeRole \/ resetMfa
    \/ \E r \in Request : OfRequest(r)
    \/ \E c \in Challenge : OfChallenge(c)

Spec == Init /\ [][Next]_vars

\* A settings page on its own: removals, enrolments and new codes do not
\* overlap, and no administrator acts in the middle of one.
ChangingFactors == {r \in Request : req[r].op \in {"remove", "removing", "codes"}}
Apart == /\ Cardinality(ChangingFactors') <= 1
         /\ ChangingFactors' # {} => \A r \in Request : req'[r].op # "enrol"
         /\ ChangingFactors # {} => ~ changeRole /\ ~ resetMfa
SettingsSpec == Init /\ [][Next /\ Apart]_vars

----------------------------------------------------------------------------
(* Properties. *)

\* 2FA reads on exactly while a factor is left, and its codes go with the last
\* (schema.prisma: mfaEnabledAt is "Set while the user has at least one second
\* factor ...; cleared when the last one goes"; factorRemoved: "with none left,
\* 2FA is off and the codes go").
EnabledMeansAFactor ==
    /\ user.enabled <=> Factors # {}
    /\ ~ user.enabled => unusedCodes = {}

\* Only an administrator takes the last factor of an account whose role
\* requires one (disableTotp, remove: "Refused when it is a required role's
\* last factor").
RequiredKeepsAFactor ==
    [][user.required /\ Factors # {} /\ Factors' = {} => resetMfa]_vars

\* However requests overlap, a challenge signs in once and a recovery code
\* once (consumeChallenge: "of two concurrent completions only one wins").  Of
\* the authenticator app's codes the same holds while the app stays enrolled,
\* and no longer: disableTotp forgets the step that was accepted.
SignInsAreSpentOnce ==
    /\ \A c \in Challenge : signedIn[c] <= 1
    /\ \A k \in Code : usedCode[k] <= 1
    /\ \A k \in TotpCode : user.totp = k[1] => usedCode[k] <= 1

\* What verifyCode says of every code ("two parallel uses of one code can't
\* both succeed"): with the app removed between the two uses, it fails.
CodesSignInOnce == \A k \in TotpCode \cup Code : usedCode[k] <= 1

\* Failed attempts are counted after they were allowed, so requests in flight
\* overshoot the limits, by less than their number.
FailuresBounded ==
    /\ \A c \in Challenge : challenges[c].attempts < MaxAttempts + Cardinality(Request)
    /\ recentFailures < FailureLimit + Cardinality(Request)
=============================================================================
