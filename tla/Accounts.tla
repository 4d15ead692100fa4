------------------------------ MODULE Accounts ------------------------------
(***************************************************************************)
(* One account: its password, its sessions, its address and the links that *)
(* are mailed to it (apps/api auth.service.ts, users.service.ts,           *)
(* jwt.strategy.ts), with the administrator who bans it.                   *)
(*                                                                         *)
(* Requests of the same account overlap; each is what it read and what it  *)
(* then does.  Every password that is set is a new one, and the person     *)
(* knows the current one.                                                  *)
(***************************************************************************)
EXTENDS Naturals, FiniteSets

CONSTANTS
    Address,    \* addresses the account may have
    Link,       \* links that may be mailed, each minted once
    AccountRequest,    \* requests in flight at once
    MaxVersion, \* bound: tokenVersion
    none

ASSUME AccountsAssumption ==
    /\ Address # {} /\ none \notin Address \cup Link
    /\ MaxVersion \in Nat

VARIABLES
    user,        \* the User row
    session,     \* the JWTs signed
    resetLink,   \* PasswordResetToken, by link
    verifyLink,  \* EmailVerificationToken, by link
    request,         \* requests in flight
    revocations, \* history: bans, passwords set, resets of 2FA
    confirmed,   \* history: addresses at which a link was opened
    spent        \* history: how often a link changed the account

accountVars == <<user, session, resetLink, verifyLink, request, revocations, confirmed, spent>>

TokenState == {"unminted", "live", "used", "retired"}

AccountTypeOK ==
    /\ user \in [email : Address, verified : BOOLEAN, banned : BOOLEAN, tv : 0 .. MaxVersion]
    /\ session \subseteq [tv : 0 .. MaxVersion, at : Nat]
    /\ resetLink \in [Link -> [state : TokenState, expired : BOOLEAN]]
    /\ verifyLink \in [Link -> [state : TokenState, expired : BOOLEAN,
                                email : Address \cup {none}]]
    /\ request \in [AccountRequest -> [op : {"idle", "login", "password", "reset", "verify", "profile", "issue",
                                  "forgot"},
                            link : Link \cup {none}, email : Address \cup {none},
                            changed : BOOLEAN, tv : 0 .. MaxVersion, at : Nat]]
    /\ revocations \in Nat
    /\ confirmed \subseteq Address
    /\ spent \in [Link -> Nat]

Idle == [op |-> "idle", link |-> none, email |-> none, changed |-> FALSE, tv |-> 0, at |-> 0]

----------------------------------------------------------------------------
(* Sessions. *)

\* validate: the row is read again on every request.
Accepted(s) == ~ user.banned /\ s.tv = user.tv
SignedIn == \E s \in session : Accepted(s)

\* Mutant: the version a token names is the next one.
SignedAhead(tv, at) == session \cup {[tv |-> tv + 1, at |-> at]}

\* buildResponse
Signed(tv, at) == session \cup {[tv |-> tv, at |-> at]}

\* Mutant: update() with a passwordHash instead of setPassword.
keepingSessions(row) == row

\* data: {tokenVersion: {increment: 1}}
revoking(row) == [row EXCEPT !.tv = @ + 1]

\* login up to the row it compares the password with ...
login(r) ==
    /\ request[r].op = "idle"
    /\ ~ user.banned
    /\ request' = [request EXCEPT ![r] = [Idle EXCEPT !.op = "login", !.tv = user.tv, !.at = revocations]]
    /\ UNCHANGED <<user, session, resetLink, verifyLink, revocations, confirmed, spent>>

\* ... and the token signed from that row, a bcrypt later.
buildResponse(r) ==
    /\ request[r].op = "login"
    /\ session' = Signed(request[r].tv, request[r].at)
    /\ request' = [request EXCEPT ![r] = Idle]
    /\ UNCHANGED <<user, resetLink, verifyLink, revocations, confirmed, spent>>

\* changePassword: guarded, compared with the current password ...
changePassword(r) ==
    /\ request[r].op = "idle" /\ SignedIn
    /\ request' = [request EXCEPT ![r] = [Idle EXCEPT !.op = "password"]]
    /\ UNCHANGED <<user, session, resetLink, verifyLink, revocations, confirmed, spent>>

\* ... then setPassword, and a session of the row it returns.
setPassword(r) ==
    /\ request[r].op = "password" /\ user.tv < MaxVersion
    /\ user' = revoking(user)
    /\ revocations' = revocations + 1
    /\ session' = Signed(user'.tv, revocations')
    /\ request' = [request EXCEPT ![r] = Idle]
    /\ UNCHANGED <<resetLink, verifyLink, confirmed, spent>>

\* AdminUsersService.update with banned: a new ban revokes the sessions.
banUser ==
    /\ ~ user.banned /\ user.tv < MaxVersion
    /\ user' = [revoking(user) EXCEPT !.banned = TRUE]
    /\ revocations' = revocations + 1
    /\ UNCHANGED <<session, resetLink, verifyLink, request, confirmed, spent>>

\* AdminUsersService.resetMfa: of the account, the revoked sessions.
resetMfa ==
    /\ user.tv < MaxVersion
    /\ user' = revoking(user)
    /\ revocations' = revocations + 1
    /\ UNCHANGED <<session, resetLink, verifyLink, request, confirmed, spent>>

unbanUser ==
    /\ user.banned
    /\ user' = [user EXCEPT !.banned = FALSE]
    /\ UNCHANGED <<session, resetLink, verifyLink, request, revocations, confirmed, spent>>

----------------------------------------------------------------------------
(* Links. *)

Works(token) == token.state = "live" /\ ~ token.expired

\* deleteMany of the unused, then create.
Issued(tokens, l, new) ==
    [k \in Link |-> IF k = l THEN new
                    ELSE IF tokens[k].state = "live" THEN [tokens[k] EXCEPT !.state = "retired"]
                    ELSE tokens[k]]

\* Minted nowhere yet.
Fresh(l) == resetLink[l].state = "unminted" /\ verifyLink[l].state = "unminted"

\* requestPasswordReset: the row it looks up, and the last request it sees.  The
\* cooldown keeps apart only those that look after the other has written.
requestPasswordReset(r) ==
    /\ request[r].op = "idle" /\ ~ user.banned
    /\ request' = [request EXCEPT ![r] = [Idle EXCEPT !.op = "forgot"]]
    /\ UNCHANGED <<user, session, resetLink, verifyLink, revocations, confirmed, spent>>

\* ... and the link, by which every older unused one is retired.
createResetToken(r, l) ==
    /\ request[r].op = "forgot" /\ Fresh(l)
    /\ resetLink' = Issued(resetLink, l, [state |-> "live", expired |-> FALSE])
    /\ request' = [request EXCEPT ![r] = Idle]
    /\ UNCHANGED <<user, session, verifyLink, revocations, confirmed, spent>>

\* resetPassword: the token as consumeResetToken finds it ...
findResetToken(r, l) ==
    /\ request[r].op = "idle"
    /\ Works(resetLink[l]) /\ ~ user.banned
    /\ request' = [request EXCEPT ![r] = [Idle EXCEPT !.op = "reset", !.link = l]]
    /\ UNCHANGED <<user, session, resetLink, verifyLink, revocations, confirmed, spent>>

\* updateMany where usedAt is null: 1 row
spends(token) == token.state = "live"

\* ... and the transaction that spends it, if nobody has.
consumeResetToken(r) ==
    LET l == request[r].link
    IN  /\ request[r].op = "reset" /\ user.tv < MaxVersion
        /\ request' = [request EXCEPT ![r] = Idle]
        /\ IF spends(resetLink[l])
           THEN /\ resetLink' = [resetLink EXCEPT ![l].state = "used"]
                /\ user' = revoking(user)
                /\ revocations' = revocations + 1
                /\ spent' = [spent EXCEPT ![l] = @ + 1]
           ELSE UNCHANGED <<resetLink, user, revocations, spent>>
        /\ UNCHANGED <<session, verifyLink, confirmed>>

\* issueVerification: createVerificationToken for the address the caller read.
issueVerification(r, l) ==
    /\ request[r].op = "issue" /\ Fresh(l)
    /\ verifyLink' = Issued(verifyLink, l, [state |-> "live", expired |-> FALSE,
                                            email |-> request[r].email])
    /\ request' = [request EXCEPT ![r] = Idle]
    /\ UNCHANGED <<user, session, resetLink, revocations, confirmed, spent>>

resendVerification(r) ==
    /\ request[r].op = "idle" /\ SignedIn /\ ~ user.verified
    /\ request' = [request EXCEPT ![r] = [Idle EXCEPT !.op = "issue", !.email = user.email]]
    /\ UNCHANGED <<user, session, resetLink, verifyLink, revocations, confirmed, spent>>

\* verifyEmail: the token and its user as consumeVerificationToken finds them ...
findVerificationToken(r, l) ==
    /\ request[r].op = "idle"
    /\ Works(verifyLink[l]) /\ ~ user.banned /\ verifyLink[l].email = user.email
    /\ request' = [request EXCEPT ![r] = [Idle EXCEPT !.op = "verify", !.link = l]]
    /\ UNCHANGED <<user, session, resetLink, verifyLink, revocations, confirmed, spent>>

\* Mutant: the address is not asked again inside the write.
stillOfAnyone(email) == TRUE

\* where: {email: token.email}
stillTheirs(email) == user.email = email

\* ... and the transaction.
consumeVerificationToken(r) ==
    LET l == request[r].link
        e == verifyLink[l].email
    IN  /\ request[r].op = "verify"
        /\ request' = [request EXCEPT ![r] = Idle]
        /\ IF spends(verifyLink[l])
           THEN /\ verifyLink' = [verifyLink EXCEPT ![l].state = "used"]
                /\ confirmed' = confirmed \cup {e}
                /\ user' = IF stillTheirs(e) THEN [user EXCEPT !.verified = TRUE] ELSE user
                /\ spent' = [spent EXCEPT ![l] = @ + 1]
           ELSE UNCHANGED <<verifyLink, confirmed, user, spent>>
        /\ UNCHANGED <<session, resetLink, revocations>>

\* RESET_TTL_MS or VERIFY_TTL_MS is over.
expire(l) ==
    /\ \/ /\ Works(resetLink[l])
          /\ resetLink' = [resetLink EXCEPT ![l].expired = TRUE]
          /\ UNCHANGED verifyLink
       \/ /\ Works(verifyLink[l])
          /\ verifyLink' = [verifyLink EXCEPT ![l].expired = TRUE]
          /\ UNCHANGED resetLink
    /\ UNCHANGED <<user, session, request, revocations, confirmed, spent>>

----------------------------------------------------------------------------
(* The profile. *)

\* updateProfile up to the comparison with the row it read ...
updateProfile(r, email) ==
    /\ request[r].op = "idle" /\ SignedIn
    /\ request' = [request EXCEPT ![r] = [Idle EXCEPT !.op = "profile", !.email = email,
                                              !.changed = (email # user.email)]]
    /\ UNCHANGED <<user, session, resetLink, verifyLink, revocations, confirmed, spent>>

\* Mutant: verification outlives the address.
keepsVerified(changed) == user.verified

\* emailChanged && {emailVerifiedAt: null}
verifiedAfter(changed) == user.verified /\ ~ changed

\* ... then the write, and a link when the address changed.
writeProfile(r) ==
    /\ request[r].op = "profile"
    /\ user' = [user EXCEPT !.email = request[r].email, !.verified = verifiedAfter(request[r].changed)]
    /\ request' = [request EXCEPT ![r] = IF request[r].changed
                                 THEN [Idle EXCEPT !.op = "issue", !.email = request[r].email]
                                 ELSE Idle]
    /\ UNCHANGED <<session, resetLink, verifyLink, revocations, confirmed, spent>>

\* register has created the account and is about to mail its link.
AccountInit ==
    /\ \E e \in Address : user = [email |-> e, verified |-> FALSE, banned |-> FALSE, tv |-> 0]
    /\ session = {[tv |-> 0, at |-> 0]}
    /\ resetLink = [l \in Link |-> [state |-> "unminted", expired |-> FALSE]]
    /\ verifyLink = [l \in Link |-> [state |-> "unminted", expired |-> FALSE, email |-> none]]
    /\ \E r \in AccountRequest :
         request = [q \in AccountRequest |-> IF q = r THEN [Idle EXCEPT !.op = "issue", !.email = user.email]
                                           ELSE Idle]
    /\ revocations = 0
    /\ confirmed = {}
    /\ spent = [l \in Link |-> 0]

AccountNext ==
    \/ banUser \/ unbanUser \/ resetMfa
    \/ \E l \in Link : expire(l)
    \/ \E r \in AccountRequest :
         \/ login(r) \/ buildResponse(r)
         \/ changePassword(r) \/ setPassword(r)
         \/ consumeResetToken(r) \/ consumeVerificationToken(r)
         \/ resendVerification(r) \/ writeProfile(r) \/ requestPasswordReset(r)
         \/ \E l \in Link : \/ findResetToken(r, l) \/ findVerificationToken(r, l)
                            \/ issueVerification(r, l) \/ createResetToken(r, l)
         \/ \E e \in Address : updateProfile(r, e)

AccountSpec == AccountInit /\ [][AccountNext]_accountVars

\* The profile form is submitted once at a time.  Nothing in the code keeps two
\* of them apart.
OneProfile == \A q, r \in AccountRequest : request[q].op = "profile" /\ request[r].op = "profile" => q = r
FormSpec == AccountInit /\ [][AccountNext /\ OneProfile']_accountVars

----------------------------------------------------------------------------
(* Properties. *)

\* A session works only if no password was set, no ban begun and no 2FA reset
\* since the row it was signed from was read, sign-ins that were under way
\* included (validate: "a ban or a password change/reset kills live sessions";
\* resetMfa: "sign the user out everywhere").
RevokedStayRevoked == \A s \in session : Accepted(s) => s.at = revocations

\* An address reads verified only if a link mailed to it was opened
\* (updateProfile: "A new address has to be confirmed again";
\* consumeVerificationToken: "a concurrent email change can't be verified").
\* So it is while profile forms are saved one at a time (FormSpec), whatever
\* else overlaps.
VerifiedWasConfirmed == user.verified => user.email \in confirmed

\* A link changes the account once, however often and how concurrently it is
\* submitted (consumeResetToken: "only one request can flip usedAt").
LinksWorkOnce == \A l \in Link : spent[l] <= 1
=============================================================================
