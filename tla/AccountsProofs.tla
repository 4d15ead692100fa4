---------------------------- MODULE AccountsProofs ----------------------------
(***************************************************************************)
(* Theorems of Accounts, for any addresses, links and requests, and of     *)
(* TwoFactor, for any factors, codes, challenges and requests.             *)
(***************************************************************************)
EXTENDS MCAccounts, Integers, FiniteSetTheorems, TLAPS

----------------------------------------------------------------------------
(* Types. *)

Version == 0 .. MaxVersion
Token == [state : TokenState, expired : BOOLEAN]
MailedToken == [state : TokenState, expired : BOOLEAN, email : Address \cup {none}]
UserRow == [email : Address, verified : BOOLEAN, banned : BOOLEAN, tv : Version]
InFlight == [op : {"idle", "login", "password", "reset", "verify", "profile", "issue", "forgot"},
             link : Link \cup {none}, email : Address \cup {none},
             changed : BOOLEAN, tv : Version, at : Nat]

\* A request names the link or the address its operation needs, and a minted
\* verification link an address.
Carried ==
    /\ \A r \in AccountRequest :
        /\ request[r].op \in {"reset", "verify"} => request[r].link \in Link
        /\ request[r].op = "verify" => verifyLink[request[r].link].state # "unminted"
        /\ request[r].op \in {"profile", "issue"} => request[r].email \in Address
    /\ \A l \in Link : verifyLink[l].state # "unminted" => verifyLink[l].email \in Address

TypeInv == AccountTypeOK /\ Carried

LEMMA Types ==
    AccountTypeOK <=> /\ user \in UserRow
               /\ session \subseteq [tv : Version, at : Nat]
               /\ resetLink \in [Link -> Token]
               /\ verifyLink \in [Link -> MailedToken]
               /\ request \in [AccountRequest -> InFlight]
               /\ revocations \in Nat
               /\ confirmed \subseteq Address
               /\ spent \in [Link -> Nat]
BY DEF AccountTypeOK, UserRow, Version, Token, MailedToken, InFlight

LEMMA Revoking ==
    ASSUME user \in UserRow, user.tv < MaxVersion
    PROVE  /\ revoking(user) \in UserRow
           /\ revoking(user).tv = user.tv + 1
           /\ revoking(user).email = user.email
           /\ revoking(user).verified = user.verified
BY AccountsAssumption DEF revoking, Version, UserRow

LEMMA Banning ==
    ASSUME NEW row \in UserRow, NEW on \in BOOLEAN
    PROVE  /\ [row EXCEPT !.banned = on] \in UserRow
           /\ [row EXCEPT !.banned = on].tv = row.tv
           /\ [row EXCEPT !.banned = on].email = row.email
           /\ [row EXCEPT !.banned = on].verified = row.verified
BY DEF UserRow

\* The requests an action puts in flight.
LEMMA Requests ==
    /\ Idle \in InFlight /\ Idle.op = "idle"
    /\ \A tv \in Version, at \in Nat :
         [Idle EXCEPT !.op = "login", !.tv = tv, !.at = at] \in InFlight
    /\ \A op \in {"password", "forgot"} : [Idle EXCEPT !.op = op] \in InFlight
    /\ \A l \in Link, op \in {"reset", "verify"} :
         [Idle EXCEPT !.op = op, !.link = l] \in InFlight
    /\ \A e \in Address : [Idle EXCEPT !.op = "issue", !.email = e] \in InFlight
    /\ \A e \in Address, changed \in BOOLEAN :
         [Idle EXCEPT !.op = "profile", !.email = e, !.changed = changed] \in InFlight
<1>1. 0 \in Version /\ FALSE \in BOOLEAN
  BY AccountsAssumption DEF Version
<1>2. Idle \in InFlight /\ Idle.op = "idle"
  BY <1>1 DEF Idle, InFlight
<1>3. ASSUME NEW tv \in Version, NEW at \in Nat
      PROVE  [Idle EXCEPT !.op = "login", !.tv = tv, !.at = at] \in InFlight
  BY DEF Idle, InFlight
<1>4. ASSUME NEW op \in {"password", "forgot"} PROVE [Idle EXCEPT !.op = op] \in InFlight
  BY <1>2 DEF InFlight
<1>5. ASSUME NEW l \in Link, NEW op \in {"reset", "verify"}
      PROVE  [Idle EXCEPT !.op = op, !.link = l] \in InFlight
  BY <1>2 DEF InFlight
<1>6. ASSUME NEW e \in Address
      PROVE  [Idle EXCEPT !.op = "issue", !.email = e] \in InFlight
  BY <1>2 DEF InFlight
<1>7. ASSUME NEW e \in Address, NEW changed \in BOOLEAN
      PROVE  [Idle EXCEPT !.op = "profile", !.email = e, !.changed = changed] \in InFlight
  BY <1>2 DEF InFlight
<1> QED BY <1>2, <1>3, <1>4, <1>5, <1>6, <1>7

LEMMA InitTyped == AccountInit => TypeInv
<1> SUFFICES ASSUME AccountInit PROVE TypeInv
  OBVIOUS
<1>1. PICK e \in Address : user = [email |-> e, verified |-> FALSE, banned |-> FALSE, tv |-> 0]
  BY DEF AccountInit
<1>2. 0 \in Version
  BY AccountsAssumption DEF Version
<1>3. user \in UserRow
  BY <1>1, <1>2 DEF UserRow
<1>4. session \subseteq [tv : Version, at : Nat]
  BY <1>2 DEF AccountInit
<1>5. resetLink \in [Link -> Token] /\ verifyLink \in [Link -> MailedToken]
  BY DEF AccountInit, Token, MailedToken, TokenState
<1>6. PICK r \in AccountRequest :
        request = [q \in AccountRequest |-> IF q = r THEN [Idle EXCEPT !.op = "issue", !.email = user.email]
                                          ELSE Idle]
  BY DEF AccountInit
<1>7. user.email \in Address
  BY <1>3 DEF UserRow
<1>8. request \in [AccountRequest -> InFlight]
  BY <1>6, <1>7, Requests
<1>9. Carried
  BY <1>6, <1>7 DEF Carried, AccountInit, Idle
<1>10. revocations \in Nat /\ confirmed \subseteq Address /\ spent \in [Link -> Nat]
  BY DEF AccountInit
<1> QED BY <1>3, <1>4, <1>5, <1>8, <1>9, <1>10, Types DEF TypeInv

\* A request that becomes another one, while the account and its links stay.
LEMMA NextRequest ==
    ASSUME TypeInv, NEW r \in AccountRequest, NEW new \in InFlight, request' = [request EXCEPT ![r] = new],
           new.op \in {"reset", "verify"} => new.link \in Link,
           new.op = "verify" => verifyLink[new.link].state # "unminted",
           new.op \in {"profile", "issue"} => new.email \in Address,
           user' \in UserRow, session' \subseteq [tv : Version, at : Nat],
           resetLink' \in [Link -> Token], verifyLink' \in [Link -> MailedToken],
           \A l \in Link : /\ verifyLink'[l].state = "unminted" <=> verifyLink[l].state = "unminted"
                          /\ verifyLink'[l].email = verifyLink[l].email,
           revocations' \in Nat, confirmed' \subseteq Address, spent' \in [Link -> Nat]
    PROVE  TypeInv'
<1>1. request' \in [AccountRequest -> InFlight]
  BY Types DEF TypeInv
<1>2. AccountTypeOK'
  BY <1>1 DEF AccountTypeOK, UserRow, Version, Token, MailedToken, InFlight
<1>3. \A q \in AccountRequest : request'[q] = IF q = r THEN new ELSE request[q]
  BY Types DEF TypeInv
<1>4. Carried'
  BY <1>3 DEF TypeInv, Carried
<1> QED BY <1>2, <1>4 DEF TypeInv

\* Links that change, while the requests stay.
LEMMA NextLinks ==
    ASSUME TypeInv, UNCHANGED <<user, session, request, revocations, confirmed, spent>>,
           resetLink' \in [Link -> Token], verifyLink' \in [Link -> MailedToken],
           \A l \in Link : /\ verifyLink'[l].state = "unminted" <=> verifyLink[l].state = "unminted"
                          /\ verifyLink'[l].email = verifyLink[l].email
    PROVE  TypeInv'
<1>1. AccountTypeOK'
  BY Types DEF TypeInv, AccountTypeOK, UserRow, Version, Token, MailedToken, InFlight
<1>2. Carried'
  BY DEF TypeInv, Carried
<1> QED BY <1>1, <1>2 DEF TypeInv

LEMMA TokenStates ==
    /\ \A k \in Token, x \in TokenState : [k EXCEPT !.state = x] \in Token
    /\ \A k \in Token : [k EXCEPT !.expired = TRUE] \in Token
    /\ \A k \in MailedToken, x \in TokenState :
         /\ [k EXCEPT !.state = x] \in MailedToken
         /\ [k EXCEPT !.state = x].email = k.email /\ [k EXCEPT !.state = x].state = x
    /\ \A k \in MailedToken :
         /\ [k EXCEPT !.expired = TRUE] \in MailedToken
         /\ [k EXCEPT !.expired = TRUE].email = k.email
         /\ [k EXCEPT !.expired = TRUE].state = k.state
    /\ [state |-> "live", expired |-> FALSE] \in Token
    /\ \A e \in Address : [state |-> "live", expired |-> FALSE, email |-> e] \in MailedToken
    /\ {"live", "used", "retired"} \subseteq TokenState
BY DEF Token, MailedToken, TokenState

\* One verification link that changes without being minted or readdressed.
LEMMA OneLink ==
    ASSUME verifyLink \in [Link -> MailedToken], NEW l \in Link, NEW new \in MailedToken,
           new.email = verifyLink[l].email,
           new.state = "unminted" <=> verifyLink[l].state = "unminted",
           verifyLink' = [verifyLink EXCEPT ![l] = new]
    PROVE  /\ verifyLink' \in [Link -> MailedToken]
           /\ \A k \in Link : /\ verifyLink'[k].state = "unminted" <=> verifyLink[k].state = "unminted"
                              /\ verifyLink'[k].email = verifyLink[k].email
OBVIOUS

LEMMA IssuedReset ==
    ASSUME NEW tokens \in [Link -> Token], NEW l \in Link, NEW new \in Token
    PROVE  Issued(tokens, l, new) \in [Link -> Token]
BY TokenStates DEF Issued

LEMMA IssuedVerify ==
    ASSUME NEW tokens \in [Link -> MailedToken], NEW l \in Link, NEW new \in MailedToken
    PROVE  /\ Issued(tokens, l, new) \in [Link -> MailedToken]
           /\ \A k \in Link \ {l} :
                /\ Issued(tokens, l, new)[k].state = "unminted" <=> tokens[k].state = "unminted"
                /\ Issued(tokens, l, new)[k].email = tokens[k].email
           /\ Issued(tokens, l, new)[l] = new
<1>1. \A k \in Link : /\ Issued(tokens, l, new)[k] \in MailedToken
                      /\ k # l => /\ Issued(tokens, l, new)[k].state = "unminted"
                                        <=> tokens[k].state = "unminted"
                                   /\ Issued(tokens, l, new)[k].email = tokens[k].email
  BY TokenStates DEF Issued
<1> QED BY <1>1 DEF Issued

LEMMA NextTyped == TypeInv /\ [AccountNext]_accountVars => TypeInv'
<1> SUFFICES ASSUME TypeInv, [AccountNext]_accountVars PROVE TypeInv'
  OBVIOUS
<1>t. /\ user \in UserRow /\ session \subseteq [tv : Version, at : Nat]
      /\ resetLink \in [Link -> Token] /\ verifyLink \in [Link -> MailedToken]
      /\ request \in [AccountRequest -> InFlight]
      /\ revocations \in Nat /\ confirmed \subseteq Address /\ spent \in [Link -> Nat]
      /\ Carried
  BY Types DEF TypeInv
<1>u. user.email \in Address /\ user.tv \in Version
  BY <1>t DEF UserRow
<1>r. \A r \in AccountRequest : request[r].tv \in Version /\ request[r].at \in Nat
  BY <1>t DEF InFlight
<1>1. CASE banUser
  <2>1. user' \in UserRow
    BY <1>1, <1>t, Revoking, Banning DEF banUser
  <2> QED BY <1>1, <1>t, <2>1 DEF banUser, TypeInv, AccountTypeOK, Carried, UserRow, Version
<1>2. CASE unbanUser
  <2>1. user' \in UserRow
    BY <1>2, <1>t, Banning DEF unbanUser
  <2> QED BY <1>2, <1>t, <2>1 DEF unbanUser, TypeInv, AccountTypeOK, Carried, UserRow, Version
<1>3. ASSUME NEW r \in AccountRequest, NEW l \in Link, createResetToken(r, l) PROVE TypeInv'
  <2>1. resetLink' \in [Link -> Token]
    BY <1>3, <1>t, TokenStates, IssuedReset DEF createResetToken
  <2> QED BY <1>3, <1>t, <2>1, Requests, NextRequest DEF createResetToken
<1>18. ASSUME NEW r \in AccountRequest, requestPasswordReset(r) PROVE TypeInv'
  <2> DEFINE new == [Idle EXCEPT !.op = "forgot"]
  <2>1. new \in InFlight /\ new.op = "forgot"
    BY Requests DEF Idle
  <2>2. request' = [request EXCEPT ![r] = new]
    BY <1>18 DEF requestPasswordReset
  <2> HIDE DEF new
  <2> QED BY <1>18, <1>t, <2>1, <2>2, NextRequest DEF requestPasswordReset
<1>19. CASE resetMfa
  <2>1. user' \in UserRow
    BY <1>19, <1>t, Revoking DEF resetMfa
  <2> QED BY <1>19, <1>t, <2>1 DEF resetMfa, TypeInv, AccountTypeOK, Carried, UserRow, Version
<1>4. ASSUME NEW l \in Link, expire(l) PROVE TypeInv'
  <2>1. /\ resetLink' \in [Link -> Token] /\ verifyLink' \in [Link -> MailedToken]
        /\ \A k \in Link : /\ verifyLink'[k].state = "unminted" <=> verifyLink[k].state = "unminted"
                           /\ verifyLink'[k].email = verifyLink[k].email
    <3>1. CASE resetLink' = [resetLink EXCEPT ![l].expired = TRUE] /\ verifyLink' = verifyLink
      BY <1>t, <3>1, TokenStates
    <3>2. CASE verifyLink' = [verifyLink EXCEPT ![l].expired = TRUE] /\ resetLink' = resetLink
      <4> DEFINE new == [verifyLink[l] EXCEPT !.expired = TRUE]
      <4>1. /\ new \in MailedToken /\ new.email = verifyLink[l].email
            /\ new.state = verifyLink[l].state
        BY <1>t, TokenStates
      <4>2. verifyLink' = [verifyLink EXCEPT ![l] = new]
        BY <3>2
      <4> HIDE DEF new
      <4> QED BY <1>t, <3>2, <4>1, <4>2, OneLink
    <3> QED BY <1>4, <3>1, <3>2 DEF expire
  <2> QED BY <1>4, <2>1, NextLinks DEF expire
<1>5. ASSUME NEW r \in AccountRequest, login(r) PROVE TypeInv'
  <2> DEFINE new == [Idle EXCEPT !.op = "login", !.tv = user.tv, !.at = revocations]
  <2>1. new \in InFlight /\ new.op = "login"
    BY <1>t, <1>u, Requests DEF Idle
  <2>2. request' = [request EXCEPT ![r] = new]
    BY <1>5 DEF login
  <2> HIDE DEF new
  <2> QED BY <1>5, <1>t, <2>1, <2>2, NextRequest DEF login
<1>6. ASSUME NEW r \in AccountRequest, buildResponse(r) PROVE TypeInv'
  <2>1. session' \subseteq [tv : Version, at : Nat]
    BY <1>6, <1>t, <1>r DEF buildResponse, Signed
  <2> QED BY <1>6, <1>t, <2>1, Requests, NextRequest DEF buildResponse
<1>7. ASSUME NEW r \in AccountRequest, changePassword(r) PROVE TypeInv'
  <2> DEFINE new == [Idle EXCEPT !.op = "password"]
  <2>1. new \in InFlight /\ new.op = "password"
    BY Requests DEF Idle
  <2>2. request' = [request EXCEPT ![r] = new]
    BY <1>7 DEF changePassword
  <2> HIDE DEF new
  <2> QED BY <1>7, <1>t, <2>1, <2>2, NextRequest DEF changePassword
<1>8. ASSUME NEW r \in AccountRequest, setPassword(r) PROVE TypeInv'
  <2>1. user' \in UserRow /\ user'.tv \in Version /\ revocations' \in Nat
    <3>1. user' \in UserRow /\ revocations' = revocations + 1
      BY <1>8, <1>t, Revoking DEF setPassword
    <3> QED BY <3>1, <1>t DEF UserRow
  <2>2. session' \subseteq [tv : Version, at : Nat]
    BY <1>8, <1>t, <2>1 DEF setPassword, Signed
  <2> QED BY <1>8, <1>t, <2>1, <2>2, Requests, NextRequest DEF setPassword
<1>9. ASSUME NEW r \in AccountRequest, consumeResetToken(r) PROVE TypeInv'
  <2>1. request[r].link \in Link
    BY <1>9, <1>t DEF consumeResetToken, Carried
  <2>2. /\ user' \in UserRow /\ revocations' \in Nat /\ spent' \in [Link -> Nat]
        /\ resetLink' \in [Link -> Token]
    BY <1>9, <1>t, <2>1, Revoking, TokenStates DEF consumeResetToken
  <2> QED BY <1>9, <1>t, <2>2, Requests, NextRequest DEF consumeResetToken
<1>10. ASSUME NEW r \in AccountRequest, consumeVerificationToken(r) PROVE TypeInv'
  <2> DEFINE l == request[r].link
  <2>1. l \in Link /\ verifyLink[l] \in MailedToken /\ verifyLink[l].state # "unminted"
        /\ verifyLink[l].email \in Address
    BY <1>10, <1>t DEF consumeVerificationToken, Carried
  <2>2. user' \in UserRow
    <3> DEFINE verified == [user EXCEPT !.verified = TRUE]
    <3>1. verified \in UserRow
      BY <1>t DEF UserRow
    <3> HIDE DEF verified
    <3>2. user' = user \/ user' = verified
      BY <1>10 DEF consumeVerificationToken, verified
    <3> QED BY <3>1, <3>2, <1>t
  <2>3. confirmed' \subseteq Address /\ spent' \in [Link -> Nat]
    BY <1>10, <1>t, <2>1 DEF consumeVerificationToken
  <2>4. /\ verifyLink' \in [Link -> MailedToken]
        /\ \A k \in Link : /\ verifyLink'[k].state = "unminted" <=> verifyLink[k].state = "unminted"
                           /\ verifyLink'[k].email = verifyLink[k].email
    <3>1. CASE spends(verifyLink[l])
      <4> DEFINE new == [verifyLink[l] EXCEPT !.state = "used"]
      <4>1. new \in MailedToken /\ new.email = verifyLink[l].email /\ new.state = "used"
        BY <2>1, TokenStates
      <4>2. verifyLink' = [verifyLink EXCEPT ![l] = new]
        BY <1>10, <3>1 DEF consumeVerificationToken
      <4> HIDE DEF l, new
      <4> QED BY <1>t, <2>1, <4>1, <4>2, OneLink
    <3>2. CASE ~ spends(verifyLink[l])
      BY <1>10, <1>t, <3>2 DEF consumeVerificationToken
    <3> QED BY <3>1, <3>2
  <2> HIDE DEF l
  <2> QED BY <1>10, <1>t, <2>2, <2>3, <2>4, Requests, NextRequest DEF consumeVerificationToken
<1>11. ASSUME NEW r \in AccountRequest, resendVerification(r) PROVE TypeInv'
  <2> DEFINE new == [Idle EXCEPT !.op = "issue", !.email = user.email]
  <2>1. new \in InFlight /\ new.op = "issue" /\ new.email = user.email
    BY <1>u, Requests DEF Idle
  <2>2. request' = [request EXCEPT ![r] = new]
    BY <1>11 DEF resendVerification
  <2> HIDE DEF new
  <2> QED BY <1>11, <1>t, <1>u, <2>1, <2>2, NextRequest DEF resendVerification
<1>12. ASSUME NEW r \in AccountRequest, writeProfile(r) PROVE TypeInv'
  <2>1. request[r].email \in Address /\ request[r].changed \in BOOLEAN
    BY <1>12, <1>t DEF writeProfile, Carried, InFlight
  <2>2. user' \in UserRow
    <3> DEFINE v == verifiedAfter(request[r].changed)
               u == [user EXCEPT !.email = request[r].email]
    <3>1. v \in BOOLEAN
      BY <1>t DEF verifiedAfter, UserRow
    <3>2. u \in UserRow
      BY <1>t, <2>1 DEF UserRow
    <3>3. user' = [u EXCEPT !.verified = v]
      BY <1>12, Zenon DEF writeProfile
    <3> HIDE DEF u, v
    <3> QED BY <3>1, <3>2, <3>3 DEF UserRow
  <2> DEFINE new == IF request[r].changed THEN [Idle EXCEPT !.op = "issue", !.email = request[r].email]
                                      ELSE Idle
  <2>3. new \in InFlight /\ new.op \in {"issue", "idle"}
        /\ (new.op = "issue" => new.email \in Address)
    BY <2>1, Requests DEF Idle
  <2>4. request' = [request EXCEPT ![r] = new]
    BY <1>12 DEF writeProfile
  <2> HIDE DEF new
  <2> QED BY <1>12, <1>t, <2>2, <2>3, <2>4, NextRequest DEF writeProfile
<1>13. ASSUME NEW r \in AccountRequest, NEW l \in Link, findResetToken(r, l) PROVE TypeInv'
  <2> DEFINE new == [Idle EXCEPT !.op = "reset", !.link = l]
  <2>1. new \in InFlight /\ new.op = "reset" /\ new.link = l
    BY Requests DEF Idle
  <2>2. request' = [request EXCEPT ![r] = new]
    BY <1>13 DEF findResetToken
  <2> HIDE DEF new
  <2> QED BY <1>13, <1>t, <2>1, <2>2, NextRequest DEF findResetToken
<1>14. ASSUME NEW r \in AccountRequest, NEW l \in Link, findVerificationToken(r, l) PROVE TypeInv'
  <2> DEFINE new == [Idle EXCEPT !.op = "verify", !.link = l]
  <2>1. new \in InFlight /\ new.op = "verify" /\ new.link = l
    BY Requests DEF Idle
  <2>2. request' = [request EXCEPT ![r] = new] /\ verifyLink[l].state = "live"
    BY <1>14 DEF findVerificationToken, Works
  <2> HIDE DEF new
  <2> QED BY <1>14, <1>t, <2>1, <2>2, NextRequest DEF findVerificationToken
<1>15. ASSUME NEW r \in AccountRequest, NEW l \in Link, issueVerification(r, l) PROVE TypeInv'
  <2> DEFINE new == [state |-> "live", expired |-> FALSE, email |-> request[r].email]
  <2>1. new \in MailedToken /\ new.state = "live" /\ new.email \in Address
    BY <1>15, <1>t, TokenStates DEF issueVerification, Carried
  <2>2. verifyLink' = Issued(verifyLink, l, new) /\ request' = [request EXCEPT ![r] = Idle]
    BY <1>15 DEF issueVerification
  <2>3. verifyLink[l].state = "unminted"
    BY <1>15 DEF issueVerification, Fresh
  <2> HIDE DEF new
  <2>4. /\ verifyLink' \in [Link -> MailedToken]
        /\ \A k \in Link : k # l =>
             /\ verifyLink'[k].state = "unminted" <=> verifyLink[k].state = "unminted"
             /\ verifyLink'[k].email = verifyLink[k].email
        /\ verifyLink'[l] = new
    <3> DEFINE tokens == Issued(verifyLink, l, new)
    <3>1. /\ tokens \in [Link -> MailedToken] /\ tokens[l] = new
          /\ \A k \in Link \ {l} : /\ tokens[k].state = "unminted" <=> verifyLink[k].state = "unminted"
                                   /\ tokens[k].email = verifyLink[k].email
      <4>1. verifyLink \in [Link -> MailedToken] /\ new \in MailedToken
        BY <1>t, <2>1
      <4> QED BY <4>1, IssuedVerify
    <3> HIDE DEF tokens
    <3>2. verifyLink' = tokens
      BY <2>2 DEF tokens
    <3> QED BY <3>1, <3>2
  <2>5. request' \in [AccountRequest -> InFlight]
    BY <1>t, <2>2, Requests
  <2>6. AccountTypeOK'
    BY <1>15, <1>t, <2>4, <2>5
       DEF issueVerification, AccountTypeOK, UserRow, Version, Token, MailedToken, InFlight
  <2>7. \A q \in AccountRequest : request'[q].op # "idle" => q # r /\ request'[q] = request[q]
    BY <1>t, <2>2, Requests
  <2>8. Carried'
    BY <1>t, <2>1, <2>3, <2>4, <2>7 DEF Carried
  <2> QED BY <2>6, <2>8 DEF TypeInv
<1>16. ASSUME NEW r \in AccountRequest, NEW e \in Address, updateProfile(r, e) PROVE TypeInv'
  <2> DEFINE changed == (e # user.email)
             new == [Idle EXCEPT !.op = "profile", !.email = e, !.changed = changed]
  <2>1. changed \in BOOLEAN
    OBVIOUS
  <2>2. request' = [request EXCEPT ![r] = new]
    BY <1>16 DEF updateProfile
  <2> HIDE DEF changed
  <2>3. new \in InFlight /\ new.op = "profile" /\ new.email = e
    BY <2>1, Requests DEF Idle
  <2> HIDE DEF new
  <2> QED BY <1>16, <1>t, <2>2, <2>3, NextRequest DEF updateProfile
<1>17. CASE UNCHANGED accountVars
  BY <1>17 DEF accountVars, TypeInv, AccountTypeOK, Carried
<1> QED BY <1>1, <1>2, <1>3, <1>4, <1>5, <1>6, <1>7, <1>8, <1>9, <1>10, <1>11, <1>12, <1>13,
           <1>14, <1>15, <1>16, <1>17, <1>18, <1>19 DEF AccountNext

\* Every row, token and request keeps its columns' types, and the version its
\* bound.
THEOREM AccountTypes == AccountSpec => []AccountTypeOK
<1>1. TypeInv => AccountTypeOK
  BY DEF TypeInv
<1> QED BY <1>1, InitTyped, NextTyped, PTL DEF AccountSpec

----------------------------------------------------------------------------
(* Sessions: the version counts the revocations, so that a token names the   *)
(* one after which its row was read.                                         *)

SessionInv ==
    /\ user.tv = revocations
    /\ \A s \in session : s.tv = s.at
    /\ \A r \in AccountRequest : request[r].op = "login" => request[r].tv = request[r].at

\* Requests that become something else than a sign-in.
LEMMA NoLogin ==
    ASSUME TypeInv, SessionInv, NEW r \in AccountRequest, NEW new, request' = [request EXCEPT ![r] = new],
           new.op = "login" => new.tv = new.at
    PROVE  \A q \in AccountRequest : request'[q].op = "login" => request'[q].tv = request'[q].at
BY Types DEF TypeInv, SessionInv

LEMMA InitSession == AccountInit => SessionInv
BY DEF AccountInit, SessionInv, Idle

LEMMA NextSession == TypeInv /\ SessionInv /\ [AccountNext]_accountVars => SessionInv'
<1> SUFFICES ASSUME TypeInv, SessionInv, [AccountNext]_accountVars PROVE SessionInv'
  OBVIOUS
<1>t. user \in UserRow /\ revocations \in Nat /\ request \in [AccountRequest -> InFlight]
  BY Types DEF TypeInv
<1>s. /\ user.tv = revocations /\ \A s \in session : s.tv = s.at
      /\ \A r \in AccountRequest : request[r].op = "login" => request[r].tv = request[r].at
  BY DEF SessionInv
<1>i. Idle.op # "login"
  BY DEF Idle
<1>1. CASE banUser
  BY <1>1, <1>t, <1>s, Revoking, Banning DEF banUser, SessionInv
<1>2. CASE unbanUser
  BY <1>2, <1>t, <1>s, Banning DEF unbanUser, SessionInv
<1>13. CASE resetMfa
  BY <1>13, <1>t, <1>s, Revoking DEF resetMfa, SessionInv
<1>3. ASSUME NEW l \in Link, expire(l) PROVE SessionInv'
  BY <1>3, <1>s DEF expire, SessionInv
<1>4. ASSUME NEW r \in AccountRequest, login(r) PROVE SessionInv'
  <2> DEFINE new == [Idle EXCEPT !.op = "login", !.tv = user.tv, !.at = revocations]
  <2>1. new.tv = new.at
    BY <1>s DEF Idle
  <2>2. request' = [request EXCEPT ![r] = new]
    BY <1>4 DEF login
  <2> HIDE DEF new
  <2> QED BY <1>4, <1>s, <2>1, <2>2, NoLogin DEF login, SessionInv
<1>5. ASSUME NEW r \in AccountRequest, buildResponse(r) PROVE SessionInv'
  BY <1>5, <1>s, <1>i, NoLogin DEF buildResponse, Signed, SessionInv
<1>6. ASSUME NEW r \in AccountRequest, setPassword(r) PROVE SessionInv'
  <2>1. user'.tv = revocations'
    BY <1>6, <1>t, <1>s, Revoking DEF setPassword
  <2>2. \A s \in session' : s.tv = s.at
    BY <1>6, <1>s, <2>1 DEF setPassword, Signed
  <2> QED BY <1>6, <1>i, <2>1, <2>2, NoLogin DEF setPassword, SessionInv
<1>7. ASSUME NEW r \in AccountRequest, consumeResetToken(r) PROVE SessionInv'
  BY <1>7, <1>t, <1>s, <1>i, Revoking, NoLogin DEF consumeResetToken, SessionInv
<1>8. ASSUME NEW r \in AccountRequest, consumeVerificationToken(r) PROVE SessionInv'
  <2>1. user'.tv = user.tv
    BY <1>8, <1>t DEF consumeVerificationToken, UserRow
  <2> QED BY <1>8, <1>s, <1>i, <2>1, NoLogin DEF consumeVerificationToken, SessionInv
<1>9. ASSUME NEW r \in AccountRequest, writeProfile(r) PROVE SessionInv'
  <2> DEFINE new == IF request[r].changed THEN [Idle EXCEPT !.op = "issue", !.email = request[r].email]
                                      ELSE Idle
  <2>1. new.op # "login"
    BY DEF Idle
  <2>2. request' = [request EXCEPT ![r] = new]
    BY <1>9 DEF writeProfile
  <2>3. user'.tv = user.tv
    BY <1>9, <1>t DEF writeProfile, UserRow
  <2> HIDE DEF new
  <2> QED BY <1>9, <1>s, <2>1, <2>2, <2>3, NoLogin DEF writeProfile, SessionInv
<1>10. ASSUME NEW r \in AccountRequest, NEW new, new.op # "login", request' = [request EXCEPT ![r] = new],
              UNCHANGED <<user, session, revocations>>
       PROVE  SessionInv'
  BY <1>10, <1>s, NoLogin DEF SessionInv
<1>11. ASSUME NEW r \in AccountRequest,
              \/ changePassword(r) \/ resendVerification(r) \/ requestPasswordReset(r)
              \/ \E l \in Link : findResetToken(r, l) \/ findVerificationToken(r, l)
              \/ \E l \in Link : issueVerification(r, l) \/ createResetToken(r, l)
              \/ \E e \in Address : updateProfile(r, e)
       PROVE  SessionInv'
  <2>1. CASE changePassword(r)
    BY <1>10, <2>1, ([Idle EXCEPT !.op = "password"]).op # "login" DEF changePassword, Idle
  <2>2. CASE resendVerification(r)
    BY <1>10, <2>2, ([Idle EXCEPT !.op = "issue", !.email = user.email]).op # "login"
       DEF resendVerification, Idle
  <2>3. ASSUME NEW l \in Link, findResetToken(r, l) PROVE SessionInv'
    BY <1>10, <2>3, ([Idle EXCEPT !.op = "reset", !.link = l]).op # "login"
       DEF findResetToken, Idle
  <2>4. ASSUME NEW l \in Link, findVerificationToken(r, l) PROVE SessionInv'
    BY <1>10, <2>4, ([Idle EXCEPT !.op = "verify", !.link = l]).op # "login"
       DEF findVerificationToken, Idle
  <2>5. ASSUME NEW l \in Link, issueVerification(r, l) PROVE SessionInv'
    BY <1>10, <1>i, <2>5 DEF issueVerification
  <2>7. ASSUME NEW l \in Link, createResetToken(r, l) PROVE SessionInv'
    BY <1>10, <1>i, <2>7 DEF createResetToken
  <2>8. CASE requestPasswordReset(r)
    BY <1>10, <2>8, ([Idle EXCEPT !.op = "forgot"]).op # "login" DEF requestPasswordReset, Idle
  <2>6. ASSUME NEW e \in Address, updateProfile(r, e) PROVE SessionInv'
    <3> DEFINE new == [Idle EXCEPT !.op = "profile", !.email = e, !.changed = (e # user.email)]
    <3>1. new.op # "login"
      BY DEF Idle
    <3>2. request' = [request EXCEPT ![r] = new] /\ UNCHANGED <<user, session, revocations>>
      BY <2>6 DEF updateProfile
    <3> HIDE DEF new
    <3> QED BY <1>10, <3>1, <3>2
  <2> QED BY <1>11, <2>1, <2>2, <2>3, <2>4, <2>5, <2>6, <2>7, <2>8
<1>12. CASE UNCHANGED accountVars
  BY <1>12, <1>s DEF accountVars, SessionInv
<1> QED BY <1>1, <1>2, <1>3, <1>4, <1>5, <1>6, <1>7, <1>8, <1>9, <1>11, <1>12,
           <1>13 DEF AccountNext

\* A session works only if no password was set, no ban begun and no 2FA reset
\* since the row it was signed from was read (validate, setPassword, ban,
\* resetMfa), however many sign-ins and resets overlap.
THEOREM RevocationHolds == AccountSpec => []RevokedStayRevoked
<1>1. SessionInv => RevokedStayRevoked
  BY DEF SessionInv, RevokedStayRevoked, Accepted
<1> QED BY <1>1, InitTyped, NextTyped, InitSession, NextSession, PTL DEF AccountSpec

----------------------------------------------------------------------------
(* Links: each is of one kind, and what was spent on it is on record.        *)

LinkInv ==
    \A l \in Link :
        /\ resetLink[l].state = "unminted" \/ verifyLink[l].state = "unminted"
        /\ spent[l] \in {0, 1}
        /\ spent[l] = 1 => resetLink[l].state = "used" \/ verifyLink[l].state = "used"

\* Links may be minted where none was, retired or expired.
Ages(old, new) ==
    /\ old.state = "used" => new.state = "used"
    /\ old.state = "unminted" => new.state = "unminted"

LEMMA LinksAge ==
    ASSUME LinkInv, spent' = spent,
           \A l \in Link : Ages(resetLink[l], resetLink'[l]) /\ Ages(verifyLink[l], verifyLink'[l])
    PROVE  LinkInv'
BY DEF LinkInv, Ages

LEMMA IssuedAges ==
    ASSUME NEW tokens, NEW l \in Link, NEW new, \A k \in Link : "state" \in DOMAIN tokens[k]
    PROVE  /\ \A k \in Link \ {l} : Ages(tokens[k], Issued(tokens, l, new)[k])
           /\ Issued(tokens, l, new)[l] = new
BY DEF Issued, Ages

LEMMA InitLinks == AccountInit => LinkInv
BY DEF AccountInit, LinkInv

LEMMA NextLinkInv == TypeInv /\ LinkInv /\ [AccountNext]_accountVars => LinkInv'
<1> SUFFICES ASSUME TypeInv, LinkInv, [AccountNext]_accountVars PROVE LinkInv'
  OBVIOUS
<1>t. /\ resetLink \in [Link -> Token] /\ verifyLink \in [Link -> MailedToken]
      /\ spent \in [Link -> Nat]
  BY Types DEF TypeInv
<1>d. \A l \in Link : "state" \in DOMAIN resetLink[l] /\ "state" \in DOMAIN verifyLink[l]
  BY <1>t DEF Token, MailedToken
<1>1. ASSUME UNCHANGED <<resetLink, verifyLink, spent>> PROVE LinkInv'
  BY <1>1 DEF LinkInv
<1>2. ASSUME NEW r \in AccountRequest, NEW l \in Link, createResetToken(r, l) PROVE LinkInv'
  <2> DEFINE new == [state |-> "live", expired |-> FALSE]
  <2>1. /\ Fresh(l) /\ resetLink' = Issued(resetLink, l, new)
        /\ verifyLink' = verifyLink /\ spent' = spent
    BY <1>2 DEF createResetToken
  <2> HIDE DEF new
  <2>2. \A k \in Link \ {l} : Ages(resetLink[k], resetLink'[k])
    BY <1>d, <2>1, IssuedAges
  <2> QED BY <2>1, <2>2 DEF LinkInv, Ages, Fresh
<1>3. ASSUME NEW r \in AccountRequest, NEW l \in Link, issueVerification(r, l) PROVE LinkInv'
  <2> DEFINE new == [state |-> "live", expired |-> FALSE, email |-> request[r].email]
  <2>1. /\ Fresh(l) /\ verifyLink' = Issued(verifyLink, l, new)
        /\ resetLink' = resetLink /\ spent' = spent
    BY <1>3 DEF issueVerification
  <2> HIDE DEF new
  <2>2. \A k \in Link \ {l} : Ages(verifyLink[k], verifyLink'[k])
    BY <1>d, <2>1, IssuedAges
  <2> QED BY <2>1, <2>2 DEF LinkInv, Ages, Fresh
<1>4. ASSUME NEW l \in Link, expire(l) PROVE LinkInv'
  <2>1. \A k \in Link : resetLink'[k].state = resetLink[k].state /\ verifyLink'[k].state = verifyLink[k].state
    BY <1>4, <1>t DEF expire, Token, MailedToken
  <2> QED BY <1>4, <2>1, LinksAge DEF expire, Ages
<1>5. ASSUME NEW r \in AccountRequest, consumeResetToken(r) PROVE LinkInv'
  <2> DEFINE l == request[r].link
  <2>1. l \in Link
    BY <1>5 DEF consumeResetToken, TypeInv, Carried
  <2>2. CASE spends(resetLink[l])
    <3>1. /\ resetLink[l].state = "live" /\ verifyLink' = verifyLink
          /\ resetLink' = [resetLink EXCEPT ![l].state = "used"]
          /\ spent' = [spent EXCEPT ![l] = @ + 1]
      BY <1>5, <2>2 DEF consumeResetToken, spends
    <3>2. verifyLink[l].state = "unminted"
      BY <2>1, <3>1 DEF LinkInv
    <3>3. spent[l] = 0
      BY <2>1, <3>1, <3>2 DEF LinkInv
    <3>4. resetLink'[l].state = "used" /\ spent'[l] = 1
      BY <1>t, <2>1, <3>1, <3>3 DEF Token
    <3>5. \A k \in Link : k # l => resetLink'[k] = resetLink[k] /\ spent'[k] = spent[k]
      BY <1>t, <3>1
    <3> HIDE DEF l
    <3> QED BY <2>1, <3>1, <3>2, <3>4, <3>5 DEF LinkInv
  <2>3. CASE ~ spends(resetLink[l])
    BY <1>1, <1>5, <2>3 DEF consumeResetToken
  <2> QED BY <2>2, <2>3
<1>6. ASSUME NEW r \in AccountRequest, consumeVerificationToken(r) PROVE LinkInv'
  <2> DEFINE l == request[r].link
  <2>1. l \in Link
    BY <1>6 DEF consumeVerificationToken, TypeInv, Carried
  <2>2. CASE spends(verifyLink[l])
    <3>1. /\ verifyLink[l].state = "live" /\ resetLink' = resetLink
          /\ verifyLink' = [verifyLink EXCEPT ![l].state = "used"]
          /\ spent' = [spent EXCEPT ![l] = @ + 1]
      BY <1>6, <2>2 DEF consumeVerificationToken, spends
    <3>2. resetLink[l].state = "unminted"
      BY <2>1, <3>1 DEF LinkInv
    <3>3. spent[l] = 0
      BY <2>1, <3>1, <3>2 DEF LinkInv
    <3>4. verifyLink'[l].state = "used" /\ spent'[l] = 1
      BY <1>t, <2>1, <3>1, <3>3 DEF MailedToken
    <3>5. \A k \in Link : k # l => verifyLink'[k] = verifyLink[k] /\ spent'[k] = spent[k]
      BY <1>t, <3>1
    <3> HIDE DEF l
    <3> QED BY <2>1, <3>1, <3>2, <3>4, <3>5 DEF LinkInv
  <2>3. CASE ~ spends(verifyLink[l])
    BY <1>1, <1>6, <2>3 DEF consumeVerificationToken
  <2> QED BY <2>2, <2>3
<1>7. CASE banUser \/ unbanUser \/ resetMfa
  BY <1>1, <1>7 DEF banUser, unbanUser, resetMfa
<1>8. ASSUME NEW r \in AccountRequest,
             \/ login(r) \/ buildResponse(r) \/ changePassword(r) \/ setPassword(r)
             \/ resendVerification(r) \/ writeProfile(r) \/ requestPasswordReset(r)
             \/ \E l \in Link : findResetToken(r, l) \/ findVerificationToken(r, l)
             \/ \E e \in Address : updateProfile(r, e)
      PROVE  LinkInv'
  BY <1>1, <1>8 DEF login, buildResponse, changePassword, setPassword, resendVerification,
     writeProfile, requestPasswordReset, findResetToken, findVerificationToken, updateProfile
<1>9. CASE UNCHANGED accountVars
  BY <1>1, <1>9 DEF accountVars
<1> QED BY <1>2, <1>3, <1>4, <1>5, <1>6, <1>7, <1>8, <1>9 DEF AccountNext

\* A link changes the account once, however many requests submit it at a time
\* (consumeResetToken, consumeVerificationToken).
THEOREM LinksAreSpentOnce == AccountSpec => []LinksWorkOnce
<1>1. LinkInv => LinksWorkOnce
  BY DEF LinkInv, LinksWorkOnce
<1> QED BY <1>1, InitTyped, NextTyped, InitLinks, NextLinkInv, PTL DEF AccountSpec

----------------------------------------------------------------------------
(* Addresses: a form that keeps the address was read at the one it keeps.    *)

AddressInv ==
    /\ user.verified => user.email \in confirmed
    /\ \A r \in AccountRequest :
         request[r].op = "profile" /\ ~ request[r].changed => request[r].email = user.email

\* What leaves the address and its verification alone, and no form behind.
LEMMA AddressStays ==
    ASSUME TypeInv, AddressInv, user'.email = user.email, user'.verified = user.verified,
           confirmed' = confirmed,
           \A r \in AccountRequest : request'[r].op = "profile" => request'[r] = request[r]
    PROVE  AddressInv'
BY DEF AddressInv

LEMMA InitAddress == AccountInit => AddressInv
<1> SUFFICES ASSUME AccountInit PROVE AddressInv
  OBVIOUS
<1>1. ~ user.verified
  BY DEF AccountInit
<1>2. \A r \in AccountRequest : request[r].op # "profile"
  BY DEF AccountInit, Idle
<1> QED BY <1>1, <1>2 DEF AddressInv

LEMMA NextAddress ==
    TypeInv /\ AddressInv /\ OneProfile /\ [AccountNext /\ OneProfile']_accountVars => AddressInv'
<1> SUFFICES ASSUME TypeInv, AddressInv, OneProfile, [AccountNext]_accountVars PROVE AddressInv'
  OBVIOUS
<1>t. user \in UserRow /\ request \in [AccountRequest -> InFlight]
  BY Types DEF TypeInv
<1>r. ASSUME NEW r \in AccountRequest, NEW new, new.op # "profile", request' = [request EXCEPT ![r] = new],
             user'.email = user.email, user'.verified = user.verified, confirmed' = confirmed
      PROVE  AddressInv'
  <2>1. \A q \in AccountRequest : request'[q].op = "profile" => request'[q] = request[q]
    BY <1>t, <1>r
  <2> QED BY <1>r, <2>1, AddressStays
<1>i. Idle.op # "profile"
  BY DEF Idle
<1>1. CASE banUser
  BY <1>1, <1>t, Revoking, Banning, AddressStays DEF banUser
<1>2. CASE unbanUser
  BY <1>2, <1>t, Banning, AddressStays DEF unbanUser
<1>13. CASE resetMfa
  BY <1>13, <1>t, Revoking, AddressStays DEF resetMfa
<1>3. ASSUME NEW l \in Link, expire(l) PROVE AddressInv'
  BY <1>3, AddressStays DEF expire
<1>4. ASSUME NEW r \in AccountRequest, login(r) PROVE AddressInv'
  <2> DEFINE new == [Idle EXCEPT !.op = "login", !.tv = user.tv, !.at = revocations]
  <2>1. new.op # "profile"
    BY DEF Idle
  <2>2. request' = [request EXCEPT ![r] = new] /\ user' = user /\ confirmed' = confirmed
    BY <1>4 DEF login
  <2> HIDE DEF new
  <2> QED BY <1>r, <2>1, <2>2
<1>5. ASSUME NEW r \in AccountRequest, buildResponse(r) PROVE AddressInv'
  BY <1>5, <1>r, <1>i DEF buildResponse
<1>6. ASSUME NEW r \in AccountRequest, setPassword(r) PROVE AddressInv'
  BY <1>6, <1>t, <1>r, <1>i, Revoking DEF setPassword
<1>7. ASSUME NEW r \in AccountRequest, consumeResetToken(r) PROVE AddressInv'
  BY <1>7, <1>t, <1>r, <1>i, Revoking DEF consumeResetToken
<1>8. ASSUME NEW r \in AccountRequest, consumeVerificationToken(r) PROVE AddressInv'
  <2> DEFINE e == verifyLink[request[r].link].email
  <2>1. CASE spends(verifyLink[request[r].link]) /\ stillTheirs(e)
    <3>1. user' = [user EXCEPT !.verified = TRUE] /\ confirmed' = confirmed \cup {e}
      BY <1>8, <2>1 DEF consumeVerificationToken
    <3>2. user'.email = user.email /\ user.email \in confirmed'
      BY <1>t, <2>1, <3>1 DEF stillTheirs, UserRow
    <3>3. \A q \in AccountRequest : request'[q].op = "profile" => request'[q] = request[q]
      BY <1>8, <1>t, <1>i DEF consumeVerificationToken
    <3> QED BY <3>2, <3>3 DEF AddressInv
  <2>2. CASE ~ (spends(verifyLink[request[r].link]) /\ stillTheirs(e))
    <3>1. user' = user /\ confirmed \subseteq confirmed'
      BY <1>8, <2>2 DEF consumeVerificationToken
    <3>2. \A q \in AccountRequest : request'[q].op = "profile" => request'[q] = request[q]
      BY <1>8, <1>t, <1>i DEF consumeVerificationToken
    <3> QED BY <3>1, <3>2 DEF AddressInv
  <2> QED BY <2>1, <2>2
<1>9. ASSUME NEW r \in AccountRequest, writeProfile(r) PROVE AddressInv'
  <2>1. /\ request[r].op = "profile"
        /\ user'.email = request[r].email
        /\ user'.verified = (user.verified /\ ~ request[r].changed)
        /\ confirmed' = confirmed
    BY <1>9, <1>t DEF writeProfile, verifiedAfter, UserRow
  <2>2. user'.verified => user'.email \in confirmed'
    BY <2>1 DEF AddressInv
  <2>3. \A q \in AccountRequest : request'[q].op # "profile"
    <3> DEFINE new == IF request[r].changed THEN [Idle EXCEPT !.op = "issue", !.email = request[r].email]
                                        ELSE Idle
    <3>1. new.op # "profile"
      BY DEF Idle
    <3>2. request' = [request EXCEPT ![r] = new]
      BY <1>9 DEF writeProfile
    <3> HIDE DEF new
    <3> QED BY <1>t, <2>1, <3>1, <3>2 DEF OneProfile
  <2> QED BY <2>2, <2>3 DEF AddressInv
<1>10. ASSUME NEW r \in AccountRequest, NEW e \in Address, updateProfile(r, e) PROVE AddressInv'
  <2> DEFINE new == [Idle EXCEPT !.op = "profile", !.email = e, !.changed = (e # user.email)]
  <2>1. new.email = e /\ (~ new.changed => e = user.email)
    BY DEF Idle
  <2>2. request' = [request EXCEPT ![r] = new] /\ user' = user /\ confirmed' = confirmed
    BY <1>10 DEF updateProfile
  <2> HIDE DEF new
  <2> QED BY <1>t, <2>1, <2>2 DEF AddressInv
<1>11. ASSUME NEW r \in AccountRequest,
              \/ changePassword(r) \/ resendVerification(r) \/ requestPasswordReset(r)
              \/ \E l \in Link : findResetToken(r, l) \/ findVerificationToken(r, l)
              \/ \E l \in Link : issueVerification(r, l) \/ createResetToken(r, l)
       PROVE  AddressInv'
  <2>1. CASE changePassword(r)
    BY <1>r, <2>1, ([Idle EXCEPT !.op = "password"]).op # "profile" DEF changePassword, Idle
  <2>2. CASE resendVerification(r)
    BY <1>r, <2>2, ([Idle EXCEPT !.op = "issue", !.email = user.email]).op # "profile"
       DEF resendVerification, Idle
  <2>3. ASSUME NEW l \in Link, findResetToken(r, l) PROVE AddressInv'
    BY <1>r, <2>3, ([Idle EXCEPT !.op = "reset", !.link = l]).op # "profile"
       DEF findResetToken, Idle
  <2>4. ASSUME NEW l \in Link, findVerificationToken(r, l) PROVE AddressInv'
    BY <1>r, <2>4, ([Idle EXCEPT !.op = "verify", !.link = l]).op # "profile"
       DEF findVerificationToken, Idle
  <2>5. ASSUME NEW l \in Link, issueVerification(r, l) PROVE AddressInv'
    BY <1>r, <1>i, <2>5 DEF issueVerification
  <2>6. ASSUME NEW l \in Link, createResetToken(r, l) PROVE AddressInv'
    BY <1>r, <1>i, <2>6 DEF createResetToken
  <2>7. CASE requestPasswordReset(r)
    BY <1>r, <2>7, ([Idle EXCEPT !.op = "forgot"]).op # "profile" DEF requestPasswordReset, Idle
  <2> QED BY <1>11, <2>1, <2>2, <2>3, <2>4, <2>5, <2>6, <2>7
<1>12. CASE UNCHANGED accountVars
  BY <1>12, AddressStays DEF accountVars
<1> QED BY <1>1, <1>2, <1>3, <1>4, <1>5, <1>6, <1>7, <1>8, <1>9, <1>10, <1>11, <1>12,
           <1>13 DEF AccountNext

\* An address reads verified only if a link mailed to it was opened
\* (consumeVerificationToken, updateProfile), when the profile form is
\* submitted once at a time.
THEOREM VerifiedAddresses == FormSpec => []VerifiedWasConfirmed
<1>1. AddressInv => VerifiedWasConfirmed
  BY DEF AddressInv, VerifiedWasConfirmed
<1>2. AccountInit => OneProfile
  BY DEF AccountInit, OneProfile, Idle
<1>3. OneProfile /\ [AccountNext /\ OneProfile']_accountVars => OneProfile'
  BY DEF OneProfile, accountVars
<1>4. [AccountNext /\ OneProfile']_accountVars => [AccountNext]_accountVars
  OBVIOUS
<1> QED BY <1>1, <1>2, <1>3, <1>4, InitTyped, NextTyped, InitAddress, NextAddress, PTL
        DEF FormSpec
----------------------------------------------------------------------------
(* Two-factor authentication: types.  A request carries the challenge its  *)
(* operation loaded, for what it was loaded, and a challenge once created  *)
(* keeps what it is for.                                                   *)

FactorsRow == [totp : Secret \cup {none}, last : Mfa!Step \cup {Mfa!NoStep},
               enabled : BOOLEAN, required : BOOLEAN]
CodeState == {"unminted", "unused", "used", "gone"}
ChallengeRow == [purpose : Mfa!Purpose \cup {none}, state : {"absent", "live", "spent", "gone"},
                 old : BOOLEAN, attempts : Nat, secret : Secret \cup {none}]
Typed == Mfa!TotpCode \cup Code \cup Passkey \cup Secret \cup {none}
MfaInFlight == [op : {"idle", "verify", "spend", "enrol", "finish", "remove", "removing", "codes",
                      "fail"},
                c : Challenge \cup {none}, setup : Challenge \cup {none}, by : Typed,
                last : Mfa!Step \cup {Mfa!NoStep}, drop : {"totp", none} \cup Passkey,
                told : BOOLEAN]

LEMMA MfaTypes ==
    Mfa!TypeOK <=> /\ factors \in FactorsRow
                   /\ passkeys \subseteq Passkey
                   /\ codes \in [Code -> CodeState]
                   /\ challenges \in [Challenge -> ChallengeRow]
                   /\ step \in [MfaRequest -> MfaInFlight]
                   /\ signedIn \in [Challenge -> Nat]
                   /\ usedCode \in [Mfa!TotpCode \cup Code -> Nat]
BY DEF Mfa!TypeOK, FactorsRow, CodeState, ChallengeRow, Typed, MfaInFlight

\* Whether request x holds what its operation needs from the challenges.
Holds(x, table) ==
    /\ x.op \in {"verify", "spend", "enrol", "fail"} => x.c \in Challenge /\ table[x.c].state # "absent"
    /\ x.op \in {"verify", "spend"} => table[x.c].purpose \in {"LOGIN_MFA", "PASSKEY_LOGIN"}
    /\ x.op = "enrol" =>
         /\ x.by \in Mfa!TotpCode \cup Passkey
         /\ x.by \in Mfa!TotpCode => table[x.c].purpose = "TOTP_ENROLL" /\ table[x.c].secret = x.by[1]
         /\ x.by \in Passkey => table[x.c].purpose = "PASSKEY_REGISTER"
    /\ x.op = "finish" => x.setup \in Challenge
    /\ x.op \in {"remove", "removing"} => x.drop \in {"totp"} \cup Passkey

MfaCarried == \A r \in MfaRequest : Holds(step[r], challenges)
MfaTypeInv == Mfa!TypeOK /\ MfaCarried

Keeps(old, new) ==
    \A c \in Challenge : old[c].state # "absent" =>
        /\ new[c].state # "absent"
        /\ new[c].purpose = old[c].purpose /\ new[c].secret = old[c].secret

LEMMA HoldsOn ==
    ASSUME NEW x, NEW old, NEW new, Holds(x, old), Keeps(old, new)
    PROVE  Holds(x, new)
BY DEF Holds, Keeps

\* What the writes to the challenges do.
LEMMA ChallengeWrites ==
    ASSUME challenges \in [Challenge -> ChallengeRow], NEW c \in Challenge
    PROVE  /\ Mfa!Spent(c) \in [Challenge -> ChallengeRow] /\ Keeps(challenges, Mfa!Spent(c))
           /\ Mfa!Failed(c) \in [Challenge -> ChallengeRow]
           /\ challenges[c].state # "absent" => Keeps(challenges, Mfa!Failed(c))
           /\ [challenges EXCEPT ![c].old = TRUE] \in [Challenge -> ChallengeRow]
           /\ Keeps(challenges, [challenges EXCEPT ![c].old = TRUE])
<1>1. Mfa!Spent(c) \in [Challenge -> ChallengeRow] /\ Keeps(challenges, Mfa!Spent(c))
  BY DEF Mfa!Spent, Keeps, ChallengeRow
<1>2. Mfa!Failed(c) \in [Challenge -> ChallengeRow] /\ Keeps(challenges, Mfa!Failed(c))
  BY DEF Mfa!Failed, Keeps, ChallengeRow
<1>3. /\ [challenges EXCEPT ![c].old = TRUE] \in [Challenge -> ChallengeRow]
      /\ Keeps(challenges, [challenges EXCEPT ![c].old = TRUE])
  BY DEF Keeps, ChallengeRow
<1> QED BY <1>1, <1>2, <1>3

LEMMA ChallengeCreated ==
    ASSUME challenges \in [Challenge -> ChallengeRow], NEW c \in Challenge,
           NEW purpose \in Mfa!Purpose, NEW secret \in Secret \cup {none},
           Mfa!Created(c, purpose, secret)
    PROVE  /\ challenges' \in [Challenge -> ChallengeRow] /\ Keeps(challenges, challenges')
           /\ challenges[c] = Mfa!Absent
           /\ challenges'[c].purpose = purpose /\ challenges'[c].state = "live"
           /\ challenges'[c].attempts = 0 /\ challenges'[c].secret = secret
           /\ \A d \in Challenge \ {c} : challenges'[d] = challenges[d]
<1>1. Mfa!Absent \in ChallengeRow /\ Mfa!Absent.state = "absent" /\ Mfa!Absent.attempts = 0
  BY DEF Mfa!Absent, ChallengeRow
<1>2. challenges[c] = Mfa!Absent /\ challenges' =
        [challenges EXCEPT ![c] = [Mfa!Absent EXCEPT !.purpose = purpose, !.state = "live",
                                                     !.secret = secret]]
  BY DEF Mfa!Created
<1> DEFINE new == [Mfa!Absent EXCEPT !.purpose = purpose, !.state = "live", !.secret = secret]
<1>3. /\ new \in ChallengeRow /\ new.purpose = purpose /\ new.state = "live"
      /\ new.attempts = 0 /\ new.secret = secret
  BY <1>1 DEF ChallengeRow
<1> HIDE DEF new
<1>4. challenges' \in [Challenge -> ChallengeRow] /\ challenges'[c] = new
      /\ \A d \in Challenge \ {c} : challenges'[d] = challenges[d]
  BY <1>2, <1>3 DEF new
<1>5. Keeps(challenges, challenges')
  BY <1>1, <1>2, <1>4 DEF Keeps
<1> QED BY <1>2, <1>3, <1>4, <1>5

LEMMA NoneIsNone ==
    /\ none \notin Challenge /\ none \notin Passkey /\ none \notin Secret /\ none \notin Code
    /\ none \notin Mfa!TotpCode /\ none \notin Mfa!Purpose
BY FactorsAssumption DEF Mfa!TwoFactorAssumption

\* A request at rest.
LEMMA IdleRequest == Mfa!Idle \in MfaInFlight /\ Mfa!Idle.op = "idle" /\ Mfa!Idle.by = none
BY DEF Mfa!Idle, MfaInFlight, Typed

\* One request becomes another one.
LEMMA MfaStepTyped ==
    ASSUME MfaTypeInv, NEW r \in MfaRequest, NEW new \in MfaInFlight, Mfa!Become(r, new),
           Holds(new, challenges), Keeps(challenges, challenges'),
           challenges' \in [Challenge -> ChallengeRow], factors' \in FactorsRow,
           passkeys' \subseteq Passkey, codes' \in [Code -> CodeState],
           signedIn' \in [Challenge -> Nat], usedCode' \in [Mfa!TotpCode \cup Code -> Nat]
    PROVE  MfaTypeInv'
<1>1. step \in [MfaRequest -> MfaInFlight] /\ step' = [step EXCEPT ![r] = new]
  BY MfaTypes DEF MfaTypeInv, Mfa!Become
<1>2. step' \in [MfaRequest -> MfaInFlight]
  BY <1>1
<1>3. Mfa!TypeOK'
  BY <1>2 DEF Mfa!TypeOK, FactorsRow, CodeState, ChallengeRow, Typed, MfaInFlight
<1>4. \A q \in MfaRequest : Holds(step'[q], challenges)
  BY <1>1 DEF MfaTypeInv, MfaCarried
<1>5. MfaCarried'
  BY <1>4, HoldsOn DEF MfaCarried
<1> QED BY <1>3, <1>5 DEF MfaTypeInv

\* The requests stay as they are.
LEMMA MfaRestTyped ==
    ASSUME MfaTypeInv, step' = step, Keeps(challenges, challenges'),
           challenges' \in [Challenge -> ChallengeRow], factors' \in FactorsRow,
           passkeys' \subseteq Passkey, codes' \in [Code -> CodeState],
           signedIn' \in [Challenge -> Nat], usedCode' \in [Mfa!TotpCode \cup Code -> Nat]
    PROVE  MfaTypeInv'
<1>1. step' \in [MfaRequest -> MfaInFlight]
  BY MfaTypes DEF MfaTypeInv
<1>2. Mfa!TypeOK'
  BY <1>1 DEF Mfa!TypeOK, FactorsRow, CodeState, ChallengeRow, Typed, MfaInFlight
<1>3. MfaCarried'
  BY HoldsOn DEF MfaTypeInv, MfaCarried
<1> QED BY <1>2, <1>3 DEF MfaTypeInv

\* What replaceRecoveryCodes and factorAdded leave of the codes.
LEMMA CodesReplaced ==
    ASSUME codes \in [Code -> CodeState]
    PROVE  /\ \A code : Mfa!Replaced(code) \in [Code -> CodeState]
           /\ Mfa!mintable # {} => Mfa!freshCode \in Code /\ codes[Mfa!freshCode] = "unminted"
           /\ \A code : \A k \in Code : Mfa!Replaced(code)[k] \in {"unminted", "unused"} =>
                codes[k] = "unminted" \/ k = code
           /\ \A k \in Code : Mfa!Replaced(none)[k] # "unused"
<1>1. \A code : Mfa!Replaced(code) \in [Code -> CodeState]
  BY DEF Mfa!Replaced, CodeState
<1>2. Mfa!mintable # {} => Mfa!freshCode \in Mfa!mintable
  BY DEF Mfa!freshCode
<1>3. \A code : \A k \in Code : Mfa!Replaced(code)[k] \in {"unminted", "unused"} =>
        codes[k] = "unminted" \/ k = code
  BY DEF Mfa!Replaced, CodeState
<1>4. \A k \in Code : Mfa!Replaced(none)[k] # "unused"
  BY NoneIsNone DEF Mfa!Replaced, CodeState
<1> QED BY <1>1, <1>2, <1>3, <1>4 DEF Mfa!mintable

LEMMA FactorAdded ==
    ASSUME factors \in FactorsRow, codes \in [Code -> CodeState],
           NEW totp \in Secret \cup {none}, NEW last \in Mfa!Step \cup {Mfa!NoStep},
           Mfa!factorAdded(totp, last)
    PROVE  /\ factors' \in FactorsRow
           /\ factors'.totp = totp /\ factors'.last = last /\ factors'.enabled
           /\ codes' \in [Code -> CodeState]
           /\ \A k \in Code : codes'[k] \in {"unminted", "unused"} =>
                codes[k] \in {"unminted", "unused"}
<1>1. factors' = [factors EXCEPT !.totp = totp, !.last = last, !.enabled = TRUE]
  BY DEF Mfa!factorAdded, Mfa!enabledAfterAdding
<1>2. /\ factors' \in FactorsRow
      /\ factors'.totp = totp /\ factors'.last = last /\ factors'.enabled
  BY <1>1 DEF FactorsRow
<1>3. codes' = codes \/ (Mfa!mintable # {} /\ codes' = Mfa!Replaced(Mfa!freshCode))
  BY DEF Mfa!factorAdded
<1> QED BY <1>2, <1>3, CodesReplaced

LEMMA ChallengesReset ==
    ASSUME challenges \in [Challenge -> ChallengeRow],
           challenges' = [c \in Challenge |-> Mfa!resetDeletes(challenges[c])]
    PROVE  /\ challenges' \in [Challenge -> ChallengeRow] /\ Keeps(challenges, challenges')
           /\ \A c \in Challenge :
                /\ challenges'[c].attempts = challenges[c].attempts
                /\ challenges'[c].old = challenges[c].old
                /\ challenges'[c].purpose = challenges[c].purpose
                /\ challenges'[c].secret = challenges[c].secret
                /\ challenges'[c].state \in {challenges[c].state, "gone"}
                /\ challenges[c].state = "absent" => challenges'[c].state = "absent"
<1>1. ASSUME NEW c \in Challenge
      PROVE  /\ challenges'[c] \in ChallengeRow
             /\ challenges'[c].attempts = challenges[c].attempts
             /\ challenges'[c].old = challenges[c].old
             /\ challenges'[c].purpose = challenges[c].purpose
             /\ challenges'[c].secret = challenges[c].secret
             /\ challenges'[c].state \in {challenges[c].state, "gone"}
             /\ challenges[c].state = "absent" => challenges'[c].state = "absent"
  BY DEF Mfa!resetDeletes, ChallengeRow
<1> QED BY <1>1 DEF Keeps

LEMMA MfaInitTyped == Mfa!Init => MfaTypeInv
<1> SUFFICES ASSUME Mfa!Init PROVE MfaTypeInv
  OBVIOUS
<1>m. MaxStep \in Nat
  BY FactorsAssumption DEF Mfa!TwoFactorAssumption
<1>1. factors \in FactorsRow /\ passkeys \subseteq Passkey
  BY <1>m DEF Mfa!Init, FactorsRow, Mfa!Step, Mfa!NoStep
<1>2. codes \in [Code -> CodeState]
  BY DEF Mfa!Init, CodeState
<1>3. challenges \in [Challenge -> ChallengeRow]
  BY DEF Mfa!Init, Mfa!Absent, ChallengeRow
<1>4. step \in [MfaRequest -> MfaInFlight] /\ \A r \in MfaRequest : step[r].op = "idle"
  BY IdleRequest DEF Mfa!Init
<1>5. signedIn \in [Challenge -> Nat] /\ usedCode \in [Mfa!TotpCode \cup Code -> Nat]
  BY DEF Mfa!Init
<1>6. MfaCarried
  BY <1>4 DEF MfaCarried, Holds
<1> QED BY <1>1, <1>2, <1>3, <1>4, <1>5, <1>6, MfaTypes DEF MfaTypeInv

\* The steps of a request that only put it in flight, or on.
LEMMA MfaStarts ==
    ASSUME MfaTypeInv, NEW r \in MfaRequest, NEW new \in MfaInFlight, Mfa!Become(r, new),
           Holds(new, challenges),
           UNCHANGED <<factors, passkeys, codes, challenges, signedIn, usedCode>>
    PROVE  MfaTypeInv'
<1>1. Keeps(challenges, challenges')
  BY DEF Keeps
<1> QED BY <1>1, MfaStepTyped, MfaTypes DEF MfaTypeInv

LEMMA MfaRequestTyped ==
    ASSUME MfaTypeInv, NEW r \in MfaRequest, Mfa!OfRequest(r)
    PROVE  MfaTypeInv'
<1>t. /\ factors \in FactorsRow /\ passkeys \subseteq Passkey /\ codes \in [Code -> CodeState]
      /\ challenges \in [Challenge -> ChallengeRow] /\ step[r] \in MfaInFlight
      /\ signedIn \in [Challenge -> Nat] /\ usedCode \in [Mfa!TotpCode \cup Code -> Nat]
  BY MfaTypes DEF MfaTypeInv
<1>h. Holds(step[r], challenges)
  BY DEF MfaTypeInv, MfaCarried
<1>i. Mfa!Idle \in MfaInFlight /\ Holds(Mfa!Idle, challenges)
  BY IdleRequest DEF Holds
<1>k. Keeps(challenges, challenges)
  BY DEF Keeps
<1>1. CASE Mfa!accept(r)
  <2> DEFINE by == step[r].by
             new == [Mfa!Idle EXCEPT !.op = "spend", !.c = step[r].c, !.by = by]
  <2>1. step[r].op = "verify" /\ step[r].c \in Challenge /\ by \in Typed
    BY <1>1, <1>h, <1>t DEF Mfa!accept, Holds, MfaInFlight
  <2>2. new = [Mfa!Idle EXCEPT !.op = "spend", !.c = step[r].c, !.by = by]
    OBVIOUS
  <2>7. Mfa!Become(r, new) /\ UNCHANGED <<passkeys, challenges, signedIn, usedCode>>
    BY <1>1 DEF Mfa!accept
  <2> HIDE DEF new
  <2>3. new \in MfaInFlight /\ new.op = "spend" /\ new.c = step[r].c
    BY <2>1, <2>2, IdleRequest DEF MfaInFlight
  <2>4. Holds(new, challenges)
    BY <1>h, <2>1, <2>3 DEF Holds
  <2>5. factors' \in FactorsRow
    <3>1. by \in Mfa!TotpCode => by[2] \in Mfa!Step
      BY DEF Mfa!TotpCode
    <3>2. factors' = IF by \in Mfa!TotpCode THEN [factors EXCEPT !.last = by[2]] ELSE factors
      BY <1>1 DEF Mfa!accept
    <3> QED BY <1>t, <3>1, <3>2 DEF FactorsRow
  <2>6. codes' \in [Code -> CodeState]
    BY <1>1, <1>t DEF Mfa!accept, CodeState
  <2> QED BY <1>t, <1>k, <2>3, <2>4, <2>5, <2>6, <2>7, MfaStepTyped
<1>f. ASSUME NEW c \in Challenge, challenges[c].state # "absent",
             Mfa!Become(r, [Mfa!Idle EXCEPT !.op = "fail", !.c = c]),
             UNCHANGED <<factors, passkeys, codes, challenges, signedIn, usedCode>>
      PROVE  MfaTypeInv'
  <2> DEFINE new == [Mfa!Idle EXCEPT !.op = "fail", !.c = c]
  <2>1. new \in MfaInFlight /\ new.op = "fail" /\ new.c = c
    BY IdleRequest DEF MfaInFlight
  <2>2. Holds(new, challenges)
    BY <1>f, <2>1 DEF Holds
  <2> QED BY <1>f, <2>1, <2>2, MfaStarts
<1>19. CASE Mfa!refuse(r)
  <2>1. step[r].c \in Challenge /\ challenges[step[r].c].state # "absent"
    BY <1>19, <1>h DEF Mfa!refuse, Holds
  <2> QED BY <1>f, <1>19, <2>1 DEF Mfa!refuse
<1>20. ASSUME NEW c \in Challenge, Mfa!enrolFails(r, c) PROVE MfaTypeInv'
  BY <1>f, <1>20 DEF Mfa!enrolFails, Mfa!loadChallenge
<1>2. CASE Mfa!recordFailure(r)
  <2>1. step[r].c \in Challenge /\ challenges[step[r].c].state # "absent"
    BY <1>2, <1>h DEF Mfa!recordFailure, Holds
  <2>2. challenges' = challenges \/ challenges' = Mfa!Failed(step[r].c)
    BY <1>2 DEF Mfa!recordFailure
  <2>3. challenges' \in [Challenge -> ChallengeRow] /\ Keeps(challenges, challenges')
    BY <1>t, <1>k, <2>1, <2>2, ChallengeWrites
  <2> QED BY <1>2, <1>t, <1>i, <2>3, MfaStepTyped DEF Mfa!recordFailure
<1>3. CASE Mfa!signIn(r)
  <2>1. step[r].c \in Challenge
    BY <1>3, <1>h DEF Mfa!signIn, Holds
  <2>2. challenges' \in [Challenge -> ChallengeRow] /\ Keeps(challenges, challenges')
    BY <1>3, <1>t, <1>k, <2>1, ChallengeWrites DEF Mfa!signIn
  <2>3. signedIn' \in [Challenge -> Nat]
    BY <1>3, <1>t, <2>1 DEF Mfa!signIn
  <2>4. usedCode' \in [Mfa!TotpCode \cup Code -> Nat]
    BY <1>3, <1>t DEF Mfa!signIn
  <2> QED BY <1>3, <1>t, <1>i, <2>2, <2>3, <2>4, MfaStepTyped DEF Mfa!signIn
<1>4. CASE Mfa!enrol(r)
  <2> DEFINE by == step[r].by
             setup == step[r].setup
  <2>1. step[r].op = "enrol" /\ step[r].c \in Challenge /\ setup \in Challenge \cup {none}
    BY <1>4, <1>h, <1>t DEF Mfa!enrol, Holds, MfaInFlight
  <2>2. Mfa!afterEnrol(setup) \in MfaInFlight /\ Holds(Mfa!afterEnrol(setup), challenges)
    <3>1. CASE setup = none
      BY <3>1, <1>i DEF Mfa!afterEnrol
    <3>2. CASE setup \in Challenge
      <4> DEFINE new == [Mfa!Idle EXCEPT !.op = "finish", !.setup = setup]
      <4>1. new \in MfaInFlight /\ new.op = "finish" /\ new.setup = setup
        BY <3>2, IdleRequest DEF MfaInFlight
      <4>2. Holds(new, challenges)
        BY <4>1, <3>2 DEF Holds
      <4>3. setup # none
        BY <3>2, NoneIsNone
      <4> QED BY <4>1, <4>2, <4>3 DEF Mfa!afterEnrol
    <3> QED BY <2>1, <3>1, <3>2
  <2>3. ASSUME by \in Mfa!TotpCode, Mfa!factorAdded(by[1], by[2]), UNCHANGED passkeys,
               challenges' = Mfa!Spent(step[r].c), Mfa!Become(r, Mfa!afterEnrol(setup)),
               UNCHANGED <<signedIn, usedCode>>
        PROVE  MfaTypeInv'
    <3>1. by[1] \in Secret /\ by[2] \in Mfa!Step
      BY <2>3 DEF Mfa!TotpCode
    <3>2. factors' \in FactorsRow /\ codes' \in [Code -> CodeState]
      BY <1>t, <2>3, <3>1, FactorAdded
    <3> QED BY <1>t, <2>1, <2>2, <2>3, <3>2, ChallengeWrites, MfaStepTyped
  <2>4. ASSUME by \in Passkey, Mfa!factorAdded(factors.totp, factors.last),
               passkeys' = passkeys \cup {by},
               challenges' = Mfa!Spent(step[r].c), Mfa!Become(r, Mfa!afterEnrol(setup)),
               UNCHANGED <<signedIn, usedCode>>
        PROVE  MfaTypeInv'
    <3>1. factors.totp \in Secret \cup {none} /\ factors.last \in Mfa!Step \cup {Mfa!NoStep}
      BY <1>t DEF FactorsRow
    <3>2. factors' \in FactorsRow /\ codes' \in [Code -> CodeState]
      BY <1>t, <2>4, <3>1, FactorAdded
    <3> QED BY <1>t, <2>1, <2>2, <2>4, <3>2, ChallengeWrites, MfaStepTyped
  <2>5. ASSUME Mfa!Become(r, Mfa!Idle), UNCHANGED <<factors, codes, passkeys, challenges>>,
               UNCHANGED <<signedIn, usedCode>>
        PROVE  MfaTypeInv'
    BY <1>i, <2>5, MfaStarts
  <2> QED BY <1>4, <2>3, <2>4, <2>5 DEF Mfa!enrol
<1>5. CASE Mfa!finishSetup(r)
  <2>1. step[r].setup \in Challenge
    BY <1>5, <1>h DEF Mfa!finishSetup, Holds
  <2>2. /\ challenges' \in [Challenge -> ChallengeRow] /\ Keeps(challenges, challenges')
        /\ signedIn' \in [Challenge -> Nat]
    <3>1. challenges' = challenges \/ challenges' = Mfa!Spent(step[r].setup)
      BY <1>5 DEF Mfa!finishSetup
    <3>2. signedIn' = signedIn \/ signedIn' = [signedIn EXCEPT ![step[r].setup] = @ + 1]
      BY <1>5 DEF Mfa!finishSetup
    <3>3. signedIn' \in [Challenge -> Nat]
      BY <1>t, <2>1, <3>2
    <3> QED BY <1>t, <1>k, <2>1, <3>1, <3>3, ChallengeWrites
  <2> QED BY <1>5, <1>t, <1>i, <2>2, MfaStepTyped DEF Mfa!finishSetup
<1>6. ASSUME NEW d \in {"totp"} \cup Passkey,
             Mfa!Become(r, [Mfa!Idle EXCEPT !.op = "remove", !.drop = d]),
             UNCHANGED <<factors, passkeys, codes, challenges, signedIn, usedCode>>
      PROVE  MfaTypeInv'
  <2> DEFINE new == [Mfa!Idle EXCEPT !.op = "remove", !.drop = d]
  <2>1. new \in MfaInFlight /\ new.op = "remove" /\ new.drop = d
    BY IdleRequest DEF MfaInFlight
  <2>2. Holds(new, challenges)
    BY <2>1 DEF Holds
  <2> QED BY <1>6, <2>1, <2>2, MfaStarts
<1>7. CASE Mfa!factorRemoved(r)
  <2> DEFINE new == [step[r] EXCEPT !.op = "removing", !.told = Mfa!noneLeft(r)]
  <2>1. Mfa!noneLeft(r) \in BOOLEAN
    BY DEF Mfa!noneLeft
  <2>2. new = [step[r] EXCEPT !.op = "removing", !.told = Mfa!noneLeft(r)]
    OBVIOUS
  <2>3. step[r].op = "remove" /\ Mfa!Become(r, new)
        /\ UNCHANGED <<factors, passkeys, codes, challenges, signedIn, usedCode>>
    BY <1>7 DEF Mfa!factorRemoved
  <2> HIDE DEF new
  <2>4. new \in MfaInFlight /\ new.op = "removing" /\ new.drop = step[r].drop
    BY <1>t, <2>1, <2>2 DEF MfaInFlight
  <2>5. Holds(new, challenges)
    BY <1>h, <2>3, <2>4 DEF Holds
  <2> QED BY <2>3, <2>4, <2>5, MfaStarts
<1>8. CASE Mfa!remove(r)
  <2>1. step[r].told \in BOOLEAN
    BY <1>t DEF MfaInFlight
  <2>2. factors' \in FactorsRow
    BY <1>8, <1>t, <2>1 DEF Mfa!remove, FactorsRow
  <2>3. codes' \in [Code -> CodeState] /\ passkeys' \subseteq Passkey
    BY <1>8, <1>t, CodesReplaced DEF Mfa!remove
  <2> QED BY <1>8, <1>t, <1>i, <1>k, <2>2, <2>3, MfaStepTyped DEF Mfa!remove
<1>9. CASE Mfa!regenerateRecoveryCodes(r)
  <2> DEFINE new == [Mfa!Idle EXCEPT !.op = "codes"]
  <2>1. new \in MfaInFlight /\ new.op = "codes"
    BY IdleRequest DEF MfaInFlight
  <2>2. Holds(new, challenges)
    BY <2>1 DEF Holds
  <2> QED BY <1>9, <2>1, <2>2, MfaStarts DEF Mfa!regenerateRecoveryCodes
<1>10. CASE Mfa!replaceRecoveryCodes(r)
  BY <1>10, <1>t, <1>i, <1>k, CodesReplaced, MfaStepTyped DEF Mfa!replaceRecoveryCodes
<1>11. ASSUME NEW c \in Challenge, NEW by \in Typed, NEW last \in Mfa!Step \cup {Mfa!NoStep},
              challenges[c].state # "absent",
              challenges[c].purpose \in {"LOGIN_MFA", "PASSKEY_LOGIN"},
              Mfa!Become(r, [Mfa!Idle EXCEPT !.op = "verify", !.c = c, !.by = by, !.last = last])
                \/ Mfa!Become(r, [Mfa!Idle EXCEPT !.op = "verify", !.c = c, !.by = by]),
              UNCHANGED <<factors, passkeys, codes, challenges, signedIn, usedCode>>
       PROVE  MfaTypeInv'
  <2>1. PICK new : /\ Mfa!Become(r, new)
                   /\ \/ new = [Mfa!Idle EXCEPT !.op = "verify", !.c = c, !.by = by, !.last = last]
                      \/ new = [Mfa!Idle EXCEPT !.op = "verify", !.c = c, !.by = by]
    BY <1>11
  <2>2. new \in MfaInFlight /\ new.op = "verify" /\ new.c = c
    BY <2>1, IdleRequest DEF MfaInFlight
  <2>3. Holds(new, challenges)
    BY <1>11, <2>2 DEF Holds
  <2> QED BY <1>11, <2>1, <2>2, <2>3, MfaStarts
<1>12. ASSUME NEW c \in Challenge, NEW by \in Mfa!TotpCode \cup Code \cup Passkey \cup {none},
              Mfa!completeMfa(r, c, by)
       PROVE  MfaTypeInv'
  <2>1. by \in Typed /\ factors.last \in Mfa!Step \cup {Mfa!NoStep}
    BY <1>t DEF Typed, FactorsRow
  <2> QED BY <1>11, <1>12, <2>1 DEF Mfa!completeMfa, Mfa!loadChallenge
<1>13. ASSUME NEW c \in Challenge, NEW p \in Passkey, Mfa!passwordlessLogin(r, c, p)
       PROVE  MfaTypeInv'
  <2>1. p \in Typed /\ Mfa!NoStep \in Mfa!Step \cup {Mfa!NoStep}
    BY DEF Typed
  <2> QED BY <1>11, <1>13, <2>1 DEF Mfa!passwordlessLogin, Mfa!loadChallenge
<1>14. ASSUME NEW c \in Challenge, NEW setup \in Challenge \cup {none},
              NEW by \in Mfa!TotpCode \cup Passkey, challenges[c].state # "absent",
              by \in Mfa!TotpCode => /\ challenges[c].purpose = "TOTP_ENROLL"
                                     /\ challenges[c].secret = by[1],
              by \in Passkey => challenges[c].purpose = "PASSKEY_REGISTER",
              Mfa!Become(r, [Mfa!Idle EXCEPT !.op = "enrol", !.c = c, !.setup = setup, !.by = by]),
              UNCHANGED <<factors, passkeys, codes, challenges, signedIn, usedCode>>
       PROVE  MfaTypeInv'
  <2> DEFINE new == [Mfa!Idle EXCEPT !.op = "enrol", !.c = c, !.setup = setup, !.by = by]
  <2>1. by \in Typed
    BY DEF Typed
  <2>2. new = [Mfa!Idle EXCEPT !.op = "enrol", !.c = c, !.setup = setup, !.by = by]
        /\ Mfa!Become(r, new)
    BY <1>14
  <2> HIDE DEF new
  <2>3. new \in MfaInFlight /\ new.op = "enrol" /\ new.c = c /\ new.by = by
    BY <2>1, <2>2, IdleRequest DEF MfaInFlight
  <2>4. Holds(new, challenges)
    BY <1>14, <2>3 DEF Holds
  <2> QED BY <1>14, <2>2, <2>3, <2>4, MfaStarts
<1>d. ASSUME NEW by \in Mfa!TotpCode PROVE by \notin Passkey
  BY FactorsAssumption DEF Mfa!TwoFactorAssumption
<1>15. ASSUME NEW c \in Challenge, NEW setup \in Challenge \cup {none}, NEW code \in Mfa!TotpCode,
              Mfa!confirmTotp(r, c, setup, code)
       PROVE  MfaTypeInv'
  BY <1>14, <1>15, <1>d DEF Mfa!confirmTotp, Mfa!loadChallenge
<1>16. ASSUME NEW c \in Challenge, NEW setup \in Challenge \cup {none}, NEW p \in Passkey,
              Mfa!register(r, c, setup, p)
       PROVE  MfaTypeInv'
  BY <1>14, <1>16, <1>d DEF Mfa!register, Mfa!loadChallenge
<1>17. CASE Mfa!disableTotp(r)
  BY <1>6, <1>17 DEF Mfa!disableTotp
<1>18. ASSUME NEW p \in Passkey, Mfa!removePasskey(r, p) PROVE MfaTypeInv'
  BY <1>6, <1>18 DEF Mfa!removePasskey
<1> QED BY <1>1, <1>2, <1>3, <1>4, <1>5, <1>7, <1>8, <1>9, <1>10, <1>12, <1>13, <1>15, <1>16,
           <1>17, <1>18, <1>19, <1>20 DEF Mfa!OfRequest

LEMMA MfaChallengeTyped ==
    ASSUME MfaTypeInv, NEW c \in Challenge, Mfa!OfChallenge(c)
    PROVE  MfaTypeInv'
<1>t. /\ factors \in FactorsRow /\ passkeys \subseteq Passkey /\ codes \in [Code -> CodeState]
      /\ challenges \in [Challenge -> ChallengeRow]
      /\ signedIn \in [Challenge -> Nat] /\ usedCode \in [Mfa!TotpCode \cup Code -> Nat]
  BY MfaTypes DEF MfaTypeInv
<1>1. ASSUME challenges' \in [Challenge -> ChallengeRow], Keeps(challenges, challenges'),
             UNCHANGED <<factors, passkeys, codes, step, signedIn, usedCode>>
      PROVE  MfaTypeInv'
  BY <1>t, <1>1, MfaRestTyped
<1>2. ASSUME NEW purpose \in Mfa!Purpose, NEW secret \in Secret \cup {none},
             Mfa!Created(c, purpose, secret),
             UNCHANGED <<factors, passkeys, codes, step, signedIn, usedCode>>
      PROVE  MfaTypeInv'
  BY <1>t, <1>1, <1>2, ChallengeCreated
<1>p. \A p \in {"LOGIN_MFA", "MFA_SETUP", "TOTP_ENROLL", "PASSKEY_REGISTER", "PASSKEY_LOGIN"} :
        p \in Mfa!Purpose
  BY DEF Mfa!Purpose
<1>3. CASE Mfa!login(c)
  BY <1>2, <1>3, <1>p DEF Mfa!login
<1>4. CASE Mfa!passwordlessOptions(c)
  BY <1>2, <1>4, <1>p DEF Mfa!passwordlessOptions
<1>5. CASE Mfa!age(c)
  BY <1>t, <1>1, <1>5, ChallengeWrites DEF Mfa!age
<1>7. ASSUME NEW setup \in Challenge \cup {none}, Mfa!registrationOptions(c, setup)
      PROVE  MfaTypeInv'
  BY <1>2, <1>7, <1>p DEF Mfa!registrationOptions
<1>8. ASSUME NEW setup \in Challenge \cup {none}, NEW secret \in Secret, Mfa!beginTotp(c, setup, secret)
      PROVE  MfaTypeInv'
  BY <1>2, <1>8, <1>p DEF Mfa!beginTotp
<1> QED BY <1>3, <1>4, <1>5, <1>7, <1>8 DEF Mfa!OfChallenge

LEMMA MfaNextTyped == MfaTypeInv /\ [Mfa!Next]_mfaVars => MfaTypeInv'
<1> SUFFICES ASSUME MfaTypeInv, [Mfa!Next]_mfaVars PROVE MfaTypeInv'
  OBVIOUS
<1>t. /\ factors \in FactorsRow /\ passkeys \subseteq Passkey /\ codes \in [Code -> CodeState]
      /\ challenges \in [Challenge -> ChallengeRow]
      /\ signedIn \in [Challenge -> Nat] /\ usedCode \in [Mfa!TotpCode \cup Code -> Nat]
  BY MfaTypes DEF MfaTypeInv
<1>k. Keeps(challenges, challenges)
  BY DEF Keeps
<1>1. CASE Mfa!changeRole
  <2>1. factors' \in FactorsRow
    BY <1>1, <1>t DEF Mfa!changeRole, FactorsRow
  <2> QED BY <1>1, <1>t, <1>k, <2>1, MfaRestTyped DEF Mfa!changeRole
<1>2. CASE Mfa!resetMfa
  <2>1. factors' \in FactorsRow
    BY <1>2, <1>t DEF Mfa!resetMfa, FactorsRow
  <2>2. passkeys' \subseteq Passkey /\ codes' \in [Code -> CodeState]
    BY <1>2, <1>t, CodesReplaced DEF Mfa!resetMfa
  <2>3. challenges' \in [Challenge -> ChallengeRow] /\ Keeps(challenges, challenges')
    BY <1>2, <1>t, ChallengesReset DEF Mfa!resetMfa
  <2> QED BY <1>2, <1>t, <2>1, <2>2, <2>3, MfaRestTyped DEF Mfa!resetMfa
<1>3. CASE UNCHANGED mfaVars
  BY <1>3, <1>t, <1>k, MfaRestTyped DEF mfaVars
<1> QED BY <1>1, <1>2, <1>3, MfaRequestTyped, MfaChallengeTyped DEF Mfa!Next

----------------------------------------------------------------------------
(* Two-factor authentication: what signs in.  A challenge that signed in   *)
(* is spent; a code that a request spent is used; a secret that is being   *)
(* enrolled has no code in flight, so none of its codes is used before.    *)

ChallengeInv ==
    \A c \in Challenge :
        /\ signedIn[c] <= 1
        /\ signedIn[c] > 0 => challenges[c].state \in {"spent", "gone"}

Spends(r, k) == step[r].op = "spend" /\ step[r].by = k
Untouched(k) == usedCode[k] = 0 /\ \A r \in MfaRequest : ~ Spends(r, k)
AtMostOnce(k) ==
    /\ usedCode[k] <= 1
    /\ \A r \in MfaRequest : Spends(r, k) =>
         usedCode[k] = 0 /\ \A q \in MfaRequest : Spends(q, k) => q = r

CodeInv ==
    \A k \in Code : /\ AtMostOnce(k)
                    /\ codes[k] \in {"unminted", "unused"} => Untouched(k)

TotpInv ==
    \A k \in Mfa!TotpCode : factors.totp = k[1] =>
        /\ AtMostOnce(k)
        /\ factors.last < k[2] => Untouched(k)

SecretInv ==
    \A c \in Challenge : challenges[c].secret # none =>
        /\ \A d \in Challenge : challenges[d].secret = challenges[c].secret => d = c
        /\ challenges[c].state = "live" =>
             /\ factors.totp # challenges[c].secret
             /\ \A k \in Mfa!TotpCode : k[1] = challenges[c].secret =>
                  /\ usedCode[k] = 0
                  /\ \A r \in MfaRequest : step[r].op \in {"verify", "spend"} => step[r].by # k

UseInv == CodeInv /\ TotpInv /\ SecretInv

LEMMA MfaKinds ==
    /\ \A k \in Mfa!TotpCode : /\ k[1] \in Secret /\ k[2] \in Mfa!Step /\ k[2] \in Int
                               /\ k \notin Code /\ k \notin Passkey /\ k # none /\ k[1] # none
    /\ \A k \in Code : k \notin Mfa!TotpCode /\ k \notin Passkey /\ k # none
    /\ Mfa!Step \cup {Mfa!NoStep} \subseteq Int
<1>1. MaxStep \in Nat
  BY FactorsAssumption DEF Mfa!TwoFactorAssumption
<1>2. Mfa!Step \subseteq Int /\ Mfa!NoStep \in Int
  BY <1>1 DEF Mfa!Step, Mfa!NoStep
<1>3. \A k \in Mfa!TotpCode : k[1] \in Secret /\ k[2] \in Mfa!Step
  BY DEF Mfa!TotpCode
<1>4. Code \cap (Mfa!TotpCode \cup Passkey) = {} /\ Passkey \cap Mfa!TotpCode = {}
  BY FactorsAssumption DEF Mfa!TwoFactorAssumption
<1> QED BY <1>2, <1>3, <1>4, NoneIsNone

\* Steps that spend nothing leave the record of every code as it was.
LEMMA UseStays ==
    ASSUME usedCode' = usedCode, NEW k,
           \A q \in MfaRequest : step[q].op = "spend" \/ step'[q].op = "spend" => step'[q] = step[q]
    PROVE  (AtMostOnce(k) => AtMostOnce(k)') /\ (Untouched(k) => Untouched(k)')
<1>1. \A q \in MfaRequest : Spends(q, k)' <=> Spends(q, k)
  BY DEF Spends
<1> QED BY <1>1 DEF AtMostOnce, Untouched

\* A step that accepts no code, enrols no app and creates no secret: codes go,
\* the app goes or its last step grows, challenges close.
LEMMA NothingAccepted ==
    ASSUME MfaTypeInv, UseInv, usedCode' = usedCode, factors' \in FactorsRow,
           \A k \in Code : codes'[k] \in {"unminted", "unused"} => codes[k] \in {"unminted", "unused"},
           factors'.totp = none \/ (factors'.totp = factors.totp /\ factors'.last >= factors.last),
           \A c \in Challenge :
              /\ challenges'[c].secret = challenges[c].secret
              /\ challenges'[c].state = "live" /\ challenges[c].secret # none => challenges[c].state = "live",
           \A q \in MfaRequest :
              /\ step[q].op = "spend" \/ step'[q].op = "spend" => step'[q] = step[q]
              /\ step'[q].op = "verify" =>
                   \/ step'[q] = step[q]
                   \/ step'[q].by \in Mfa!TotpCode => step'[q].by[1] = factors.totp
    PROVE  UseInv'
<1>1. CodeInv'
  BY UseStays DEF UseInv, CodeInv
<1>2. TotpInv'
  <2> SUFFICES ASSUME NEW k \in Mfa!TotpCode, factors'.totp = k[1]
               PROVE  AtMostOnce(k)' /\ (factors'.last < k[2] => Untouched(k)')
    BY DEF TotpInv
  <2>1. factors.totp = k[1] /\ factors'.last >= factors.last
    BY MfaKinds
  <2>2. factors.last \in Int /\ factors'.last \in Int /\ k[2] \in Int
    BY MfaKinds, MfaTypes DEF MfaTypeInv, FactorsRow
  <2>3. factors'.last < k[2] => factors.last < k[2]
    BY <2>1, <2>2
  <2> QED BY <2>1, <2>3, UseStays DEF UseInv, TotpInv
<1>3. SecretInv'
  <2> SUFFICES ASSUME NEW c \in Challenge, challenges'[c].secret # none
               PROVE  /\ \A d \in Challenge : challenges'[d].secret = challenges'[c].secret => d = c
                      /\ challenges'[c].state = "live" =>
                           /\ factors'.totp # challenges'[c].secret
                           /\ \A k \in Mfa!TotpCode : k[1] = challenges'[c].secret =>
                                /\ usedCode'[k] = 0
                                /\ \A r \in MfaRequest : step'[r].op \in {"verify", "spend"} => step'[r].by # k
    BY DEF SecretInv
  <2>1. \A d \in Challenge : challenges'[d].secret = challenges'[c].secret => d = c
    BY DEF UseInv, SecretInv
  <2>2. ASSUME challenges'[c].state = "live"
        PROVE  /\ challenges[c].state = "live" /\ challenges[c].secret # none
               /\ factors'.totp # challenges'[c].secret /\ factors.totp # challenges[c].secret
    BY <2>2 DEF UseInv, SecretInv
  <2>3. ASSUME challenges'[c].state = "live", NEW k \in Mfa!TotpCode, k[1] = challenges'[c].secret,
               NEW r \in MfaRequest, step'[r].op \in {"verify", "spend"}
        PROVE  step'[r].by # k
    <3>1. CASE step'[r] = step[r]
      BY <2>2, <2>3, <3>1 DEF UseInv, SecretInv
    <3>2. CASE step'[r].by \in Mfa!TotpCode => step'[r].by[1] = factors.totp
      BY <2>2, <2>3, <3>2
    <3> QED BY <2>3, <3>1, <3>2
  <2>4. ASSUME challenges'[c].state = "live", NEW k \in Mfa!TotpCode, k[1] = challenges'[c].secret
        PROVE  usedCode'[k] = 0
    BY <2>2, <2>4 DEF UseInv, SecretInv
  <2> QED BY <2>1, <2>2, <2>3, <2>4
<1> QED BY <1>1, <1>2, <1>3 DEF UseInv

\* One request that neither spends a code nor gets to.
LEMMA RequestAcceptsNothing ==
    ASSUME MfaTypeInv, UseInv, usedCode' = usedCode, factors' \in FactorsRow,
           \A k \in Code : codes'[k] \in {"unminted", "unused"} => codes[k] \in {"unminted", "unused"},
           factors'.totp = none \/ (factors'.totp = factors.totp /\ factors'.last >= factors.last),
           \A c \in Challenge :
              /\ challenges'[c].secret = challenges[c].secret
              /\ challenges'[c].state = "live" /\ challenges[c].secret # none => challenges[c].state = "live",
           NEW r \in MfaRequest, NEW new, Mfa!Become(r, new),
           step[r].op # "spend", new.op # "spend",
           new.op = "verify" => (new.by \in Mfa!TotpCode => new.by[1] = factors.totp)
    PROVE  UseInv'
<1>1. step \in [MfaRequest -> MfaInFlight] /\ step' = [step EXCEPT ![r] = new]
  BY MfaTypes DEF MfaTypeInv, Mfa!Become
<1>2. \A q \in MfaRequest : step'[q] = IF q = r THEN new ELSE step[q]
  BY <1>1
<1>3. \A q \in MfaRequest :
         /\ step[q].op = "spend" \/ step'[q].op = "spend" => step'[q] = step[q]
         /\ step'[q].op = "verify" =>
              \/ step'[q] = step[q]
              \/ step'[q].by \in Mfa!TotpCode => step'[q].by[1] = factors.totp
  BY <1>2
<1> QED BY <1>3, NothingAccepted

LEMMA UseOfRequest ==
    ASSUME MfaTypeInv, UseInv, NEW r \in MfaRequest, Mfa!OfRequest(r)
    PROVE  UseInv'
<1>t. /\ factors \in FactorsRow /\ passkeys \subseteq Passkey /\ codes \in [Code -> CodeState]
      /\ challenges \in [Challenge -> ChallengeRow] /\ step \in [MfaRequest -> MfaInFlight]
      /\ usedCode \in [Mfa!TotpCode \cup Code -> Nat]
      /\ factors.last \in Int
  BY MfaTypes, MfaKinds DEF MfaTypeInv, FactorsRow
<1>h. Holds(step[r], challenges)
  BY DEF MfaTypeInv, MfaCarried
<1>f. factors' \in FactorsRow /\ MfaTypeInv'
  BY MfaRequestTyped, MfaTypes DEF MfaTypeInv, Mfa!TypeOK, FactorsRow
<1>i. Mfa!Idle.op = "idle" /\ Mfa!Idle.by = none /\ Mfa!Idle \in MfaInFlight
  BY IdleRequest
<1>1. CASE Mfa!accept(r)
  <2>b. PICK by : by = step[r].by
    OBVIOUS
  <2> DEFINE new == [Mfa!Idle EXCEPT !.op = "spend", !.c = step[r].c, !.by = by]
  <2>1. step[r].op = "verify" /\ Mfa!accepted(r) /\ by \in Typed /\ step[r].c \in Challenge
    BY <1>1, <1>h, <1>t, <2>b DEF Mfa!accept, Holds, MfaInFlight
  <2>2. new.op = "spend" /\ new.by = by
    BY <1>i, <2>1 DEF MfaInFlight
  <2>3. step' = [step EXCEPT ![r] = new] /\ UNCHANGED <<challenges, usedCode>>
    BY <1>1, <2>b DEF Mfa!accept, Mfa!Become
  <2> HIDE DEF new
  <2>4. \A q \in MfaRequest : step'[q] = IF q = r THEN new ELSE step[q]
    BY <1>t, <2>3
  <2>5. \A q \in MfaRequest : \A k : Spends(q, k)' <=> Spends(q, k) \/ (q = r /\ k = by)
    BY <2>1, <2>2, <2>4, <2>b DEF Spends
  <2>6. \A k : k # by => (AtMostOnce(k) => AtMostOnce(k)') /\ (Untouched(k) => Untouched(k)')
    BY <2>3, <2>5 DEF AtMostOnce, Untouched
  <2>7. Untouched(by) => AtMostOnce(by)'
    BY <2>3, <2>5 DEF AtMostOnce, Untouched
  <2>8. CodeInv'
    <3>1. by \in Code => codes' = [codes EXCEPT ![by] = "used"] /\ codes[by] = "unused"
      BY <1>1, <1>t, <2>1, <2>b, MfaKinds DEF Mfa!accept, Mfa!accepted, Mfa!unusedCode
    <3>2. by \notin Code => codes' = codes
      BY <1>1, <2>b DEF Mfa!accept
    <3> QED BY <1>t, <2>6, <2>7, <3>1, <3>2 DEF UseInv, CodeInv
  <2>9. TotpInv'
    <3>1. by \in Mfa!TotpCode => factors' = [factors EXCEPT !.last = by[2]] /\ factors.last < by[2]
      BY <1>1, <1>t, <2>1, <2>b, MfaKinds DEF Mfa!accept, Mfa!accepted, Mfa!wins
    <3>2. by \notin Mfa!TotpCode => factors' = factors
      BY <1>1, <2>b DEF Mfa!accept
    <3>3. /\ factors'.totp = factors.totp
          /\ by \in Mfa!TotpCode => factors'.last = by[2]
          /\ factors'.last >= factors.last /\ factors'.last \in Int
      BY <1>t, <3>1, <3>2, MfaKinds DEF FactorsRow
    <3>4. ASSUME NEW k \in Mfa!TotpCode, factors'.totp = k[1]
          PROVE  AtMostOnce(k)' /\ (factors'.last < k[2] => Untouched(k)')
      <4>1. AtMostOnce(k) /\ (factors.last < k[2] => Untouched(k)) /\ k[2] \in Int
        BY <3>3, <3>4, MfaKinds DEF UseInv, TotpInv
      <4>2. CASE k = by
        BY <2>7, <3>1, <3>3, <4>1, <4>2
      <4>3. CASE k # by
        <5>1. factors'.last < k[2] => factors.last < k[2]
          BY <1>t, <3>3, <4>1
        <5> QED BY <2>6, <4>1, <4>3, <5>1
      <4> QED BY <4>2, <4>3
    <3> QED BY <3>4 DEF TotpInv
  <2>10. SecretInv'
    <3>1. factors'.totp = factors.totp
      BY <1>1, <1>t DEF Mfa!accept, FactorsRow
    <3>2. \A q \in MfaRequest : step'[q].op \in {"verify", "spend"} =>
            step[q].op \in {"verify", "spend"} /\ step'[q].by = step[q].by
      BY <2>1, <2>2, <2>4, <2>b
    <3> QED BY <2>3, <3>1, <3>2 DEF UseInv, SecretInv
  <2> QED BY <2>8, <2>9, <2>10 DEF UseInv
<1>2. CASE Mfa!recordFailure(r)
  <2>1. challenges' = challenges \/ challenges' = Mfa!Failed(step[r].c)
    BY <1>2 DEF Mfa!recordFailure
  <2>2. step[r].c \in Challenge
    BY <1>2, <1>h DEF Mfa!recordFailure, Holds
  <2>3. \A c \in Challenge : /\ challenges'[c].secret = challenges[c].secret
                             /\ challenges'[c].state = challenges[c].state
    BY <1>t, <2>1, <2>2 DEF Mfa!Failed, ChallengeRow
  <2> QED BY <1>2, <1>t, <1>f, <1>i, <2>3, RequestAcceptsNothing DEF Mfa!recordFailure
<1>3. CASE Mfa!signIn(r)
  <2> DEFINE by == step[r].by
  <2>1. step[r].op = "spend" /\ step[r].c \in Challenge
    BY <1>3, <1>h DEF Mfa!signIn, Holds
  <2>2. \A q \in MfaRequest : step'[q] = IF q = r THEN Mfa!Idle ELSE step[q]
    BY <1>3, <1>t DEF Mfa!signIn, Mfa!Become
  <2>3. \A q \in MfaRequest : \A k : Spends(q, k)' <=> Spends(q, k) /\ q # r
    BY <1>i, <2>2 DEF Spends
  <2>4. usedCode' = usedCode
        \/ (by \in Mfa!TotpCode \cup Code /\ usedCode' = [usedCode EXCEPT ![by] = @ + 1])
    BY <1>3, <1>t DEF Mfa!signIn
  <2>5. ASSUME NEW k \in Mfa!TotpCode \cup Code
        PROVE  /\ AtMostOnce(k) => AtMostOnce(k)'
               /\ Untouched(k) => Untouched(k)' /\ k # by
    <3>1. k # by => usedCode'[k] = usedCode[k]
      BY <1>t, <2>4
    <3>2. k = by => Spends(r, k)
      BY <2>1 DEF Spends
    <3>3. usedCode'[by] \in {usedCode[by], usedCode[by] + 1} \/ by \notin Mfa!TotpCode \cup Code
      BY <1>t, <2>4
    <3>4. Untouched(k) => Untouched(k)' /\ k # by
      BY <2>3, <3>1, <3>2 DEF Untouched
    <3>5. k # by /\ AtMostOnce(k) => AtMostOnce(k)'
      BY <2>3, <3>1 DEF AtMostOnce
    <3>6. ASSUME k = by, AtMostOnce(k)
          PROVE  AtMostOnce(k)'
      <4>1. usedCode[k] = 0 /\ \A q \in MfaRequest : Spends(q, k) => q = r
        BY <3>2, <3>6 DEF AtMostOnce
      <4>2. usedCode'[k] <= 1 /\ \A q \in MfaRequest : ~ Spends(q, k)'
        BY <2>3, <3>3, <3>6, <4>1
      <4> QED BY <4>2 DEF AtMostOnce
    <3> QED BY <3>4, <3>5, <3>6
  <2>6. UNCHANGED <<factors, codes>>
    BY <1>3 DEF Mfa!signIn
  <2>7. CodeInv' /\ TotpInv'
    BY <2>5, <2>6 DEF UseInv, CodeInv, TotpInv
  <2>8. SecretInv'
    <3>1. challenges' = challenges \/ challenges' = Mfa!Spent(step[r].c)
      BY <1>3 DEF Mfa!signIn
    <3>2. \A c \in Challenge : /\ challenges'[c].secret = challenges[c].secret
                               /\ challenges'[c].state = "live" => challenges[c].state = "live"
      BY <1>t, <2>1, <3>1 DEF Mfa!Spent, ChallengeRow
    <3>3. ASSUME NEW k \in Mfa!TotpCode, \A q \in MfaRequest : step[q].op \in {"verify", "spend"} => step[q].by # k
          PROVE  /\ usedCode'[k] = usedCode[k]
                 /\ \A q \in MfaRequest : step'[q].op \in {"verify", "spend"} => step'[q].by # k
      BY <1>t, <1>i, <2>1, <2>2, <2>4, <3>3
    <3> QED BY <2>6, <3>2, <3>3 DEF UseInv, SecretInv
  <2> QED BY <2>7, <2>8 DEF UseInv
<1>4. CASE Mfa!enrol(r)
  <2> DEFINE by == step[r].by
             c == step[r].c
  <2>1. step[r].op = "enrol" /\ c \in Challenge /\ UNCHANGED <<signedIn, usedCode>>
    BY <1>4, <1>h DEF Mfa!enrol, Holds
  <2>2. Mfa!afterEnrol(step[r].setup).op \in {"idle", "finish"}
    BY <1>i DEF Mfa!afterEnrol, MfaInFlight
  <2>3. challenges' = Mfa!Spent(c) =>
          \A d \in Challenge : /\ challenges'[d].secret = challenges[d].secret
                               /\ challenges'[d].state = IF d = c THEN "spent" ELSE challenges[d].state
    BY <1>t, <2>1 DEF Mfa!Spent, ChallengeRow
  <2>4. ASSUME Mfa!consumable(c), by \in Mfa!TotpCode, factors.totp = none,
               Mfa!factorAdded(by[1], by[2]), challenges' = Mfa!Spent(c),
               Mfa!Become(r, Mfa!afterEnrol(step[r].setup))
        PROVE  UseInv'
    <3>1. by[1] \in Secret /\ by[2] \in Mfa!Step /\ by[1] # none
      BY <2>4, MfaKinds
    <3>2. /\ factors'.totp = by[1]
          /\ \A k \in Code : codes'[k] \in {"unminted", "unused"} => codes[k] \in {"unminted", "unused"}
      BY <1>t, <2>4, <3>1, FactorAdded
    <3>3. challenges[c].secret = by[1] /\ challenges[c].state = "live"
      BY <1>h, <2>1, <2>4 DEF Holds, Mfa!consumable
    <3>4. /\ \A d \in Challenge : challenges[d].secret = by[1] => d = c
          /\ \A k \in Mfa!TotpCode : k[1] = by[1] =>
               /\ usedCode[k] = 0
               /\ \A q \in MfaRequest : step[q].op \in {"verify", "spend"} => step[q].by # k
      BY <2>1, <3>1, <3>3 DEF UseInv, SecretInv
    <3>5. \A q \in MfaRequest : step'[q] = IF q = r THEN Mfa!afterEnrol(step[r].setup) ELSE step[q]
      BY <1>t, <2>4 DEF Mfa!Become
    <3>6. \A q \in MfaRequest : step'[q].op \in {"verify", "spend"} => step'[q] = step[q]
      BY <2>2, <3>5
    <3>7. \A q \in MfaRequest : step[q].op = "spend" \/ step'[q].op = "spend" => step'[q] = step[q]
      BY <2>1, <3>5, <3>6
    <3>8. CodeInv'
      BY <2>1, <3>2, <3>7, UseStays DEF UseInv, CodeInv
    <3>9. ASSUME NEW k \in Mfa!TotpCode, factors'.totp = k[1]
          PROVE  AtMostOnce(k)' /\ Untouched(k)'
      <4>1. Untouched(k)
        BY <3>2, <3>4, <3>9 DEF Untouched, Spends
      <4>2. Untouched(k)'
        BY <2>1, <3>7, <4>1, UseStays
      <4> QED BY <4>2 DEF Untouched, AtMostOnce
    <3>10. TotpInv'
      BY <3>9 DEF TotpInv
    <3>11. ASSUME NEW d \in Challenge, challenges'[d].secret # none
           PROVE  /\ \A e \in Challenge : challenges'[e].secret = challenges'[d].secret => e = d
                  /\ challenges'[d].state = "live" =>
                       /\ factors'.totp # challenges'[d].secret
                       /\ \A k \in Mfa!TotpCode : k[1] = challenges'[d].secret =>
                            /\ usedCode'[k] = 0
                            /\ \A q \in MfaRequest : step'[q].op \in {"verify", "spend"} => step'[q].by # k
      <4>1. \A e \in Challenge : challenges'[e].secret = challenges'[d].secret => e = d
        BY <2>3, <2>4, <3>11 DEF UseInv, SecretInv
      <4>2. challenges'[d].state = "live" => d # c /\ challenges[d].state = "live"
        BY <2>3, <2>4
      <4>3. challenges'[d].state = "live" => factors'.totp # challenges'[d].secret
        BY <2>3, <2>4, <3>2, <3>4, <4>2
      <4>4. ASSUME challenges'[d].state = "live", NEW k \in Mfa!TotpCode, k[1] = challenges'[d].secret
            PROVE  /\ usedCode'[k] = 0
                   /\ \A q \in MfaRequest : step[q].op \in {"verify", "spend"} => step[q].by # k
        BY <2>1, <2>3, <2>4, <3>11, <4>2, <4>4 DEF UseInv, SecretInv
      <4> QED BY <3>6, <4>1, <4>3, <4>4
    <3>12. SecretInv'
      BY <3>11 DEF SecretInv
    <3> QED BY <3>8, <3>10, <3>12 DEF UseInv
  <2>5. ASSUME Mfa!factorAdded(factors.totp, factors.last), challenges' = Mfa!Spent(c),
               Mfa!Become(r, Mfa!afterEnrol(step[r].setup))
        PROVE  UseInv'
    <3>1. factors.totp \in Secret \cup {none} /\ factors.last \in Mfa!Step \cup {Mfa!NoStep}
      BY <1>t DEF FactorsRow
    <3>2. /\ factors'.totp = factors.totp /\ factors'.last = factors.last
          /\ \A k \in Code : codes'[k] \in {"unminted", "unused"} => codes[k] \in {"unminted", "unused"}
      BY <1>t, <2>5, <3>1, FactorAdded
    <3>3. \A d \in Challenge : /\ challenges'[d].secret = challenges[d].secret
                               /\ challenges'[d].state = "live" => challenges[d].state = "live"
      BY <2>3, <2>5
    <3>4. factors'.last >= factors.last
      BY <1>t, <3>2
    <3> QED BY <1>f, <2>1, <2>2, <2>5, <3>2, <3>3, <3>4, RequestAcceptsNothing
  <2>6. ASSUME Mfa!Become(r, Mfa!Idle), UNCHANGED <<factors, codes, passkeys, challenges>>
        PROVE  UseInv'
    BY <1>t, <1>f, <1>i, <2>1, <2>6, RequestAcceptsNothing
  <2> QED BY <1>4, <2>4, <2>5, <2>6 DEF Mfa!enrol
<1>5. CASE Mfa!finishSetup(r)
  <2>1. step[r].setup \in Challenge /\ step[r].op = "finish"
    BY <1>5, <1>h DEF Mfa!finishSetup, Holds
  <2>2. challenges' = challenges \/ challenges' = Mfa!Spent(step[r].setup)
    BY <1>5 DEF Mfa!finishSetup
  <2>3. \A c \in Challenge : /\ challenges'[c].secret = challenges[c].secret
                             /\ challenges'[c].state = "live" => challenges[c].state = "live"
    BY <1>t, <2>1, <2>2 DEF Mfa!Spent, ChallengeRow
  <2> QED BY <1>5, <1>t, <1>f, <1>i, <2>1, <2>3, RequestAcceptsNothing DEF Mfa!finishSetup
<1>6. CASE Mfa!remove(r)
  <2>1. codes' = codes \/ codes' = Mfa!Replaced(none)
    BY <1>6 DEF Mfa!remove
  <2>2. factors'.totp = none \/ (factors'.totp = factors.totp /\ factors'.last >= factors.last)
    <3>1. step[r].told \in BOOLEAN
      BY <1>t DEF MfaInFlight
    <3>2. CASE step[r].drop = "totp"
      BY <1>6, <1>t, <3>1, <3>2 DEF Mfa!remove, FactorsRow
    <3>3. CASE step[r].drop # "totp"
      <4> DEFINE on == factors.enabled /\ ~ step[r].told
      <4>1. factors' = factors
            \/ factors' = [factors EXCEPT !.totp = factors.totp, !.last = factors.last, !.enabled = on]
        BY <1>6, <3>3 DEF Mfa!remove
      <4>2. on \in BOOLEAN
        OBVIOUS
      <4> HIDE DEF on
      <4>3. factors'.totp = factors.totp /\ factors'.last = factors.last
        BY <1>t, <4>1, <4>2 DEF FactorsRow
      <4> QED BY <1>t, <4>3
    <3> QED BY <3>2, <3>3
  <2>3. \A k \in Code : codes'[k] \in {"unminted", "unused"} => codes[k] \in {"unminted", "unused"}
    BY <1>t, <2>1, CodesReplaced, NoneIsNone
  <2> QED BY <1>6, <1>f, <1>i, <2>2, <2>3, RequestAcceptsNothing DEF Mfa!remove
<1>7. CASE Mfa!replaceRecoveryCodes(r)
  <2>1. \A k \in Code : codes'[k] \in {"unminted", "unused"} => codes[k] \in {"unminted", "unused"}
    BY <1>7, <1>t, CodesReplaced DEF Mfa!replaceRecoveryCodes
  <2> QED BY <1>7, <1>t, <1>f, <1>i, <2>1, RequestAcceptsNothing DEF Mfa!replaceRecoveryCodes
<1>8. ASSUME NEW new, Mfa!Become(r, new), step[r].op # "spend", new.op # "spend",
             new.op = "verify" => (new.by \in Mfa!TotpCode => new.by[1] = factors.totp),
             UNCHANGED <<factors, passkeys, codes, challenges, signedIn, usedCode>>
      PROVE  UseInv'
  BY <1>t, <1>8, RequestAcceptsNothing
<1>9. CASE Mfa!factorRemoved(r)
  <2> DEFINE new == [step[r] EXCEPT !.op = "removing", !.told = Mfa!noneLeft(r)]
  <2>1. new.op = "removing"
    BY <1>t DEF MfaInFlight
  <2> QED BY <1>8, <1>9, <2>1 DEF Mfa!factorRemoved
<1>10. ASSUME NEW d \in {"totp"} \cup Passkey
       PROVE  [Mfa!Idle EXCEPT !.op = "remove", !.drop = d].op = "remove"
  BY <1>i DEF MfaInFlight
<1>11. CASE Mfa!disableTotp(r)
  BY <1>8, <1>10, <1>11 DEF Mfa!disableTotp
<1>12. ASSUME NEW p \in Passkey, Mfa!removePasskey(r, p) PROVE UseInv'
  BY <1>8, <1>10, <1>12 DEF Mfa!removePasskey
<1>13. CASE Mfa!regenerateRecoveryCodes(r)
  <2>1. [Mfa!Idle EXCEPT !.op = "codes"].op = "codes"
    BY <1>i DEF MfaInFlight
  <2> QED BY <1>8, <1>13, <2>1 DEF Mfa!regenerateRecoveryCodes
<1>14. ASSUME NEW c \in Challenge, NEW by \in Mfa!TotpCode \cup Code \cup Passkey \cup {none},
              Mfa!completeMfa(r, c, by)
       PROVE  UseInv'
  <2> DEFINE new == [Mfa!Idle EXCEPT !.op = "verify", !.c = c, !.by = by, !.last = factors.last]
  <2>1. new.op = "verify" /\ new.by = by
    BY <1>i DEF MfaInFlight
  <2>2. by \in Mfa!TotpCode => by[1] = factors.totp
    BY <1>14 DEF Mfa!completeMfa
  <2> QED BY <1>8, <1>14, <2>1, <2>2 DEF Mfa!completeMfa
<1>15. ASSUME NEW c \in Challenge, NEW p \in Passkey, Mfa!passwordlessLogin(r, c, p)
       PROVE  UseInv'
  <2> DEFINE new == [Mfa!Idle EXCEPT !.op = "verify", !.c = c, !.by = p]
  <2>1. new.op = "verify" /\ new.by = p
    BY <1>i DEF MfaInFlight
  <2>2. p \notin Mfa!TotpCode
    BY MfaKinds
  <2> QED BY <1>8, <1>15, <2>1, <2>2 DEF Mfa!passwordlessLogin
<1>16. ASSUME NEW c \in Challenge, NEW setup \in Challenge \cup {none}, NEW by
       PROVE  [Mfa!Idle EXCEPT !.op = "enrol", !.c = c, !.setup = setup, !.by = by].op = "enrol"
  BY <1>i DEF MfaInFlight
<1>17. ASSUME NEW c \in Challenge, NEW setup \in Challenge \cup {none}, NEW code \in Mfa!TotpCode,
              Mfa!confirmTotp(r, c, setup, code)
       PROVE  UseInv'
  BY <1>8, <1>16, <1>17 DEF Mfa!confirmTotp
<1>18. ASSUME NEW c \in Challenge, NEW setup \in Challenge \cup {none}, NEW p \in Passkey,
              Mfa!register(r, c, setup, p)
       PROVE  UseInv'
  BY <1>8, <1>16, <1>18 DEF Mfa!register
<1>19. ASSUME NEW c PROVE [Mfa!Idle EXCEPT !.op = "fail", !.c = c].op = "fail"
  BY <1>i DEF MfaInFlight
<1>20. CASE Mfa!refuse(r)
  BY <1>8, <1>19, <1>20 DEF Mfa!refuse
<1>21. ASSUME NEW c \in Challenge, Mfa!enrolFails(r, c) PROVE UseInv'
  BY <1>8, <1>19, <1>21 DEF Mfa!enrolFails
<1> QED BY <1>1, <1>2, <1>3, <1>4, <1>5, <1>6, <1>7, <1>9, <1>11, <1>12, <1>13, <1>14, <1>15,
           <1>17, <1>18, <1>20, <1>21 DEF Mfa!OfRequest

LEMMA UseOfChallenge ==
    ASSUME MfaTypeInv, UseInv, NEW c \in Challenge, Mfa!OfChallenge(c)
    PROVE  UseInv'
<1>t. factors \in FactorsRow /\ challenges \in [Challenge -> ChallengeRow] /\ factors.last \in Int
  BY MfaTypes, MfaKinds DEF MfaTypeInv, FactorsRow
<1>1. ASSUME \A d \in Challenge :
                /\ challenges'[d].secret = challenges[d].secret
                /\ challenges'[d].state = "live" /\ challenges[d].secret # none => challenges[d].state = "live",
             UNCHANGED <<factors, passkeys, codes, step, signedIn, usedCode>>
      PROVE  UseInv'
  BY <1>t, <1>1, NothingAccepted
<1>2. ASSUME NEW purpose \in Mfa!Purpose, Mfa!Created(c, purpose, none),
             UNCHANGED <<factors, passkeys, codes, step, signedIn, usedCode>>
      PROVE  UseInv'
  <2>1. /\ challenges[c].secret = none /\ challenges'[c].secret = none
        /\ \A d \in Challenge \ {c} : challenges'[d] = challenges[d]
    BY <1>t, <1>2, ChallengeCreated DEF Mfa!Absent
  <2> QED BY <1>1, <1>2, <2>1
<1>p. \A p \in {"LOGIN_MFA", "MFA_SETUP", "TOTP_ENROLL", "PASSKEY_REGISTER", "PASSKEY_LOGIN"} :
        p \in Mfa!Purpose
  BY DEF Mfa!Purpose
<1>3. CASE Mfa!login(c)
  BY <1>2, <1>3, <1>p DEF Mfa!login
<1>4. CASE Mfa!passwordlessOptions(c)
  BY <1>2, <1>4, <1>p DEF Mfa!passwordlessOptions
<1>5. CASE Mfa!age(c)
  <2>1. \A d \in Challenge : challenges'[d].secret = challenges[d].secret
                             /\ challenges'[d].state = challenges[d].state
    BY <1>5, <1>t DEF Mfa!age, ChallengeRow
  <2> QED BY <1>1, <1>5, <2>1 DEF Mfa!age
<1>7. ASSUME NEW setup \in Challenge \cup {none}, Mfa!registrationOptions(c, setup)
      PROVE  UseInv'
  BY <1>2, <1>7, <1>p DEF Mfa!registrationOptions
<1>8. ASSUME NEW setup \in Challenge \cup {none}, NEW secret \in Secret, Mfa!beginTotp(c, setup, secret)
      PROVE  UseInv'
  <2>1. /\ challenges[c] = Mfa!Absent
        /\ challenges'[c].secret = secret /\ \A d \in Challenge \ {c} : challenges'[d] = challenges[d]
    BY <1>t, <1>8, <1>p, ChallengeCreated DEF Mfa!beginTotp
  <2>2. UNCHANGED <<factors, passkeys, codes, step, signedIn, usedCode>> /\ factors.totp = none
    BY <1>8 DEF Mfa!beginTotp
  <2>3. /\ \A d \in Challenge : challenges[d].secret # secret
        /\ \A k \in Mfa!TotpCode : k[1] = secret =>
             ~ (usedCode[k] > 0) /\ \A r \in MfaRequest : step[r].by # k
    BY <1>8 DEF Mfa!beginTotp, Mfa!InUse
  <2>4. \A k \in Mfa!TotpCode : ~ (usedCode[k] > 0) => usedCode[k] = 0
    BY MfaTypes DEF MfaTypeInv
  <2>5. secret # none
    BY NoneIsNone
  <2>6. CodeInv' /\ TotpInv'
    BY <2>2, UseStays DEF UseInv, CodeInv, TotpInv
  <2>7. SecretInv'
    <3>1. ASSUME NEW d \in Challenge, challenges'[d].secret # none
          PROVE  /\ \A e \in Challenge : challenges'[e].secret = challenges'[d].secret => e = d
                 /\ challenges'[d].state = "live" =>
                      /\ factors'.totp # challenges'[d].secret
                      /\ \A k \in Mfa!TotpCode : k[1] = challenges'[d].secret =>
                           /\ usedCode'[k] = 0
                           /\ \A r \in MfaRequest : step'[r].op \in {"verify", "spend"} => step'[r].by # k
      <4>1. CASE d = c
        BY <2>1, <2>2, <2>3, <2>4, <2>5, <4>1
      <4>2. CASE d # c
        BY <2>1, <2>2, <2>3, <3>1, <4>2 DEF UseInv, SecretInv
      <4> QED BY <4>1, <4>2
    <3> QED BY <3>1 DEF SecretInv
  <2> QED BY <2>6, <2>7 DEF UseInv
<1> QED BY <1>3, <1>4, <1>5, <1>7, <1>8 DEF Mfa!OfChallenge

LEMMA NextUse == MfaTypeInv /\ UseInv /\ [Mfa!Next]_mfaVars => UseInv'
<1> SUFFICES ASSUME MfaTypeInv, UseInv, [Mfa!Next]_mfaVars PROVE UseInv'
  OBVIOUS
<1>t. /\ factors \in FactorsRow /\ codes \in [Code -> CodeState] /\ factors.last \in Int
      /\ challenges \in [Challenge -> ChallengeRow]
  BY MfaTypes, MfaKinds DEF MfaTypeInv, FactorsRow
<1>f. factors' \in FactorsRow
  BY MfaNextTyped, MfaTypes DEF MfaTypeInv, Mfa!TypeOK, FactorsRow
<1>1. CASE Mfa!changeRole
  <2>1. factors'.totp = factors.totp /\ factors'.last = factors.last
    BY <1>1, <1>t DEF Mfa!changeRole, FactorsRow
  <2> QED BY <1>1, <1>t, <1>f, <2>1, NothingAccepted DEF Mfa!changeRole
<1>2. CASE Mfa!resetMfa
  <2>1. factors'.totp = none
    BY <1>2, <1>t DEF Mfa!resetMfa, FactorsRow
  <2>2. \A k \in Code : codes'[k] \in {"unminted", "unused"} => codes[k] \in {"unminted", "unused"}
    BY <1>2, <1>t, CodesReplaced, NoneIsNone DEF Mfa!resetMfa
  <2>3. \A c \in Challenge : /\ challenges'[c].secret = challenges[c].secret
                             /\ challenges'[c].state = "live" => challenges[c].state = "live"
    BY <1>2, <1>t, ChallengesReset DEF Mfa!resetMfa
  <2> QED BY <1>2, <1>t, <1>f, <2>1, <2>2, <2>3, NothingAccepted DEF Mfa!resetMfa
<1>3. CASE UNCHANGED mfaVars
  BY <1>3, <1>t, NothingAccepted DEF mfaVars
<1> QED BY <1>1, <1>2, <1>3, UseOfRequest, UseOfChallenge DEF Mfa!Next

LEMMA InitUse == Mfa!Init => UseInv
<1> SUFFICES ASSUME Mfa!Init PROVE UseInv
  OBVIOUS
<1>1. \A k \in Mfa!TotpCode \cup Code : usedCode[k] = 0
  BY DEF Mfa!Init
<1>2. \A r \in MfaRequest : step[r].op = "idle"
  BY IdleRequest DEF Mfa!Init
<1>3. \A k \in Mfa!TotpCode \cup Code : AtMostOnce(k) /\ Untouched(k)
  BY <1>1, <1>2 DEF AtMostOnce, Untouched, Spends
<1>4. \A c \in Challenge : challenges[c].secret = none
  BY DEF Mfa!Init, Mfa!Absent
<1> QED BY <1>3, <1>4 DEF UseInv, CodeInv, TotpInv, SecretInv

LEMMA ChallengesClose ==
    ASSUME ChallengeInv, signedIn' = signedIn,
           \A c \in Challenge : challenges[c].state \in {"spent", "gone"} =>
             challenges'[c].state \in {"spent", "gone"}
    PROVE  ChallengeInv'
BY DEF ChallengeInv

LEMMA NextChallenges == MfaTypeInv /\ ChallengeInv /\ [Mfa!Next]_mfaVars => ChallengeInv'
<1> SUFFICES ASSUME MfaTypeInv, ChallengeInv, [Mfa!Next]_mfaVars PROVE ChallengeInv'
  OBVIOUS
<1>t. challenges \in [Challenge -> ChallengeRow] /\ signedIn \in [Challenge -> Nat]
  BY MfaTypes DEF MfaTypeInv
<1>h. \A r \in MfaRequest : Holds(step[r], challenges)
  BY DEF MfaTypeInv, MfaCarried
<1>1. ASSUME UNCHANGED <<challenges, signedIn>> PROVE ChallengeInv'
  BY <1>1 DEF ChallengeInv
<1>2. ASSUME NEW c \in Challenge, challenges' = Mfa!Spent(c), UNCHANGED signedIn
      PROVE  ChallengeInv'
  BY <1>t, <1>2, ChallengesClose DEF Mfa!Spent, ChallengeRow
<1>3. ASSUME NEW c \in Challenge, challenges' = Mfa!Failed(c), UNCHANGED signedIn
      PROVE  ChallengeInv'
  BY <1>t, <1>3, ChallengesClose DEF Mfa!Failed, ChallengeRow
<1>4. ASSUME NEW c \in Challenge, challenges' = Mfa!Spent(c), challenges[c].state = "live",
             signedIn' = [signedIn EXCEPT ![c] = @ + 1]
      PROVE  ChallengeInv'
  <2>1. signedIn[c] = 0
    BY <1>t, <1>4 DEF ChallengeInv
  <2>2. ASSUME NEW d \in Challenge
        PROVE  signedIn'[d] <= 1 /\ (signedIn'[d] > 0 => challenges'[d].state \in {"spent", "gone"})
    <3>1. CASE d = c
      BY <1>t, <1>4, <2>1, <3>1 DEF Mfa!Spent, ChallengeRow
    <3>2. CASE d # c
      BY <1>t, <1>4, <3>2 DEF Mfa!Spent, ChallengeInv
    <3> QED BY <3>1, <3>2
  <2> QED BY <2>2 DEF ChallengeInv
<1>5. ASSUME NEW c \in Challenge, NEW purpose \in Mfa!Purpose, NEW secret \in Secret \cup {none},
             Mfa!Created(c, purpose, secret), UNCHANGED signedIn
      PROVE  ChallengeInv'
  BY <1>t, <1>5, ChallengeCreated, ChallengesClose DEF Mfa!Absent
<1>p. \A p \in {"LOGIN_MFA", "MFA_SETUP", "TOTP_ENROLL", "PASSKEY_REGISTER", "PASSKEY_LOGIN"} :
        p \in Mfa!Purpose
  BY DEF Mfa!Purpose
<1>6. ASSUME NEW r \in MfaRequest, Mfa!OfRequest(r) PROVE ChallengeInv'
  <2>1. CASE Mfa!recordFailure(r)
    BY <1>1, <1>3, <1>h, <2>1 DEF Mfa!recordFailure, Holds
  <2>2. CASE Mfa!signIn(r)
    BY <1>1, <1>4, <1>h, <2>2 DEF Mfa!signIn, Mfa!consumable, Holds
  <2>3. CASE Mfa!enrol(r)
    BY <1>1, <1>2, <1>h, <2>3 DEF Mfa!enrol, Holds
  <2>4. CASE Mfa!finishSetup(r)
    BY <1>1, <1>4, <1>h, <2>4 DEF Mfa!finishSetup, Mfa!loadChallenge, Holds
  <2> QED BY <1>1, <1>6, <2>1, <2>2, <2>3, <2>4
          DEF Mfa!OfRequest, Mfa!accept, Mfa!refuse, Mfa!enrolFails, Mfa!disableTotp,
              Mfa!factorRemoved, Mfa!remove,
              Mfa!regenerateRecoveryCodes, Mfa!replaceRecoveryCodes, Mfa!removePasskey,
              Mfa!completeMfa, Mfa!passwordlessLogin, Mfa!confirmTotp, Mfa!register
<1>7. ASSUME NEW c \in Challenge, Mfa!OfChallenge(c) PROVE ChallengeInv'
  <2>1. CASE Mfa!age(c)
    BY <1>t, <2>1, ChallengesClose DEF Mfa!age, ChallengeRow
  <2> QED BY <1>5, <1>7, <1>p, <2>1
          DEF Mfa!OfChallenge, Mfa!login, Mfa!passwordlessOptions, Mfa!registrationOptions,
              Mfa!beginTotp
<1>8. CASE Mfa!resetMfa
  BY <1>t, <1>8, ChallengesReset, ChallengesClose DEF Mfa!resetMfa
<1> QED BY <1>1, <1>6, <1>7, <1>8 DEF Mfa!Next, Mfa!changeRole, mfaVars

----------------------------------------------------------------------------
(* Two-factor authentication: failed attempts.  Every request that is      *)
(* verifying a code was let in under the limits, so the failures counted   *)
(* and those that may still come stay under the limit and the requests.    *)

\* A code that is being checked, or that was and is not counted yet.
Trying == {"verify", "fail"}
Verifying(c) == {r \in MfaRequest : step[r].op \in Trying /\ step[r].c = c}
VerifyingLogin ==
    {r \in MfaRequest : step[r].op \in Trying /\ challenges[step[r].c].purpose = "LOGIN_MFA"}
Attempts == UNION {{c} \X (1 .. challenges[c].attempts) : c \in Mfa!Recent}

AttemptInv ==
    \A c \in Challenge :
        challenges[c].attempts + Cardinality(Verifying(c)) < MaxAttempts + Cardinality(MfaRequest)
LockInv ==
    Cardinality(Attempts) + Cardinality(VerifyingLogin) < FailureLimit + Cardinality(MfaRequest)

\* TwoFactor counts as FiniteSets does.
LEMMA SameCount ==
    ASSUME NEW S
    PROVE  (Mfa!IsFiniteSet(S) <=> IsFiniteSet(S)) /\ Mfa!Cardinality(S) = Cardinality(S)
<1>1. Mfa!IsFiniteSet(S) <=> IsFiniteSet(S)
  BY DEF Mfa!IsFiniteSet, IsFiniteSet
<1>2. Mfa!Cardinality(S) = Cardinality(S)
  BY DEF Mfa!Cardinality, Cardinality
<1> QED BY <1>1, <1>2

LEMMA Counting ==
    /\ IsFiniteSet(MfaRequest) /\ Cardinality(MfaRequest) \in Nat /\ Cardinality(MfaRequest) > 0
    /\ \A S \in SUBSET MfaRequest : /\ IsFiniteSet(S) /\ Cardinality(S) \in Nat
                                    /\ Cardinality(S) <= Cardinality(MfaRequest)
    /\ \A S \in SUBSET MfaRequest : \A T \in SUBSET S : Cardinality(T) <= Cardinality(S)
    /\ \A S \in SUBSET MfaRequest : \A r \in S : Cardinality(S \ {r}) = Cardinality(S) - 1
    /\ MaxAttempts \in Nat \ {0} /\ FailureLimit \in Nat \ {0}
<1>1. IsFiniteSet(MfaRequest) /\ MfaRequest # {}
  BY FactorsAssumption, SameCount DEF Mfa!TwoFactorAssumption
<1>2. Cardinality(MfaRequest) \in Nat /\ Cardinality(MfaRequest) # 0
  BY <1>1, FS_CardinalityType, FS_EmptySet
<1>3. ASSUME NEW S \in SUBSET MfaRequest
      PROVE  /\ IsFiniteSet(S) /\ Cardinality(S) \in Nat
             /\ Cardinality(S) <= Cardinality(MfaRequest)
  BY <1>1, FS_Subset, FS_CardinalityType
<1>4. ASSUME NEW S \in SUBSET MfaRequest, NEW T \in SUBSET S
      PROVE  Cardinality(T) <= Cardinality(S)
  BY <1>3, FS_Subset
<1>5. ASSUME NEW S \in SUBSET MfaRequest, NEW r \in S
      PROVE  Cardinality(S \ {r}) = Cardinality(S) - 1
  BY <1>3, FS_RemoveElement
<1>6. MaxAttempts \in Nat \ {0} /\ FailureLimit \in Nat \ {0}
  BY FactorsAssumption DEF Mfa!TwoFactorAssumption
<1> QED BY <1>1, <1>2, <1>3, <1>4, <1>5, <1>6

LEMMA AttemptsFinite ==
    ASSUME MfaTypeInv, AttemptInv
    PROVE  IsFiniteSet(Attempts) /\ Cardinality(Attempts) \in Nat
<1> DEFINE N == MaxAttempts + Cardinality(MfaRequest)
<1>1. IsFiniteSet(Challenge)
  BY FactorsAssumption, SameCount DEF Mfa!TwoFactorAssumption
<1>2. N \in Nat
  BY Counting
<1>3. IsFiniteSet(1 .. N)
  BY <1>2, FS_Interval
<1>4. IsFiniteSet(Challenge \X (1 .. N))
  BY <1>1, <1>3, FS_Product
<1>5. ASSUME NEW c \in Challenge
      PROVE  challenges[c].attempts \in Nat /\ challenges[c].attempts < N
  <2>1. challenges[c].attempts \in Nat
    BY MfaTypes DEF MfaTypeInv, ChallengeRow
  <2>2. Cardinality(Verifying(c)) \in Nat
    BY Counting DEF Verifying
  <2> QED BY <1>2, <2>1, <2>2 DEF AttemptInv
<1>6. Attempts \subseteq Challenge \X (1 .. N)
  BY <1>2, <1>5 DEF Attempts, Mfa!Recent
<1> QED BY <1>4, <1>6, FS_Subset, FS_CardinalityType

FailInv == AttemptInv /\ LockInv

\* A step that counts no failure and lets no request in to verify a code.
LEMMA FailuresStay ==
    ASSUME MfaTypeInv, FailInv,
           \A q \in MfaRequest : step'[q].op \in Trying =>
              step'[q] = step[q] \/ (step[q].op \in Trying /\ step'[q].c = step[q].c),
           \A c \in Challenge :
              /\ challenges'[c].attempts = challenges[c].attempts
              /\ c \in Mfa!Recent' => c \in Mfa!Recent \/ challenges[c].attempts = 0
              /\ challenges[c].state # "absent" => challenges'[c].purpose = challenges[c].purpose
    PROVE  FailInv'
<1>1. \A c \in Challenge : Verifying(c)' \subseteq Verifying(c) /\ Verifying(c) \subseteq MfaRequest
  BY DEF Verifying
<1>2. \A c \in Challenge : /\ Cardinality(Verifying(c)') \in Nat /\ Cardinality(Verifying(c)) \in Nat
                           /\ Cardinality(Verifying(c)') <= Cardinality(Verifying(c))
  BY <1>1, Counting
<1>3. \A c \in Challenge : challenges[c].attempts \in Nat
  BY MfaTypes DEF MfaTypeInv, ChallengeRow
<1>4. AttemptInv'
  BY <1>2, <1>3, Counting DEF FailInv, AttemptInv
<1>5. \A q \in MfaRequest : step[q].op \in Trying => challenges'[step[q].c].purpose = challenges[step[q].c].purpose
  BY DEF MfaTypeInv, MfaCarried, Holds, Trying
<1>6. VerifyingLogin' \subseteq VerifyingLogin /\ VerifyingLogin \subseteq MfaRequest
  BY <1>5 DEF VerifyingLogin
<1>7. /\ Cardinality(VerifyingLogin') \in Nat /\ Cardinality(VerifyingLogin) \in Nat
      /\ Cardinality(VerifyingLogin') <= Cardinality(VerifyingLogin)
  BY <1>6, Counting
<1>8. Attempts' \subseteq Attempts
  <2> SUFFICES ASSUME NEW c \in Challenge, c \in Mfa!Recent', NEW n \in 1 .. challenges'[c].attempts
               PROVE  <<c, n>> \in Attempts
    BY DEF Attempts, Mfa!Recent
  <2>1. n \in 1 .. challenges[c].attempts /\ c \in Mfa!Recent
    BY <1>3
  <2> QED BY <2>1 DEF Attempts
<1>9. /\ Cardinality(Attempts') \in Nat /\ Cardinality(Attempts) \in Nat
      /\ Cardinality(Attempts') <= Cardinality(Attempts)
  BY <1>8, AttemptsFinite, FS_Subset, FS_CardinalityType DEF FailInv
<1>10. LockInv'
  BY <1>7, <1>9, Counting DEF FailInv, LockInv
<1> QED BY <1>4, <1>10 DEF FailInv

\* completeMfa and passwordlessLogin: a request is let in under the limits.
LEMMA LetIn ==
    ASSUME MfaTypeInv, FailInv, NEW c \in Challenge, UNCHANGED challenges,
           challenges[c].attempts < MaxAttempts,
           \A q \in MfaRequest : step'[q].op \in Trying => step'[q] = step[q] \/ step'[q].c = c,
           challenges[c].purpose = "LOGIN_MFA" => Cardinality(Attempts) < FailureLimit
    PROVE  FailInv'
<1>1. \A d \in Challenge : Verifying(d)' \subseteq MfaRequest /\ Verifying(d) \subseteq MfaRequest
                           /\ (d # c => Verifying(d)' \subseteq Verifying(d))
  BY DEF Verifying
<1>2. \A d \in Challenge : /\ Cardinality(Verifying(d)') \in Nat /\ Cardinality(Verifying(d)) \in Nat
                           /\ Cardinality(Verifying(d)') <= Cardinality(MfaRequest)
                           /\ d # c => Cardinality(Verifying(d)') <= Cardinality(Verifying(d))
  BY <1>1, Counting
<1>3. \A d \in Challenge : challenges[d].attempts \in Nat
  BY MfaTypes DEF MfaTypeInv, ChallengeRow
<1>4. AttemptInv'
  <2> SUFFICES ASSUME NEW d \in Challenge
               PROVE  challenges[d].attempts + Cardinality(Verifying(d)')
                        < MaxAttempts + Cardinality(MfaRequest)
    BY DEF AttemptInv
  <2>1. challenges[d].attempts + Cardinality(Verifying(d)) < MaxAttempts + Cardinality(MfaRequest)
    BY DEF FailInv, AttemptInv
  <2>2. CASE d = c
    BY <1>2, <1>3, <2>2, Counting
  <2>3. CASE d # c
    BY <1>2, <1>3, <2>1, <2>3, Counting
  <2> QED BY <2>2, <2>3
<1>5. Attempts' = Attempts
  BY DEF Attempts, Mfa!Recent
<1>6. Cardinality(Attempts) \in Nat
  BY AttemptsFinite DEF FailInv
<1>7. VerifyingLogin' \subseteq MfaRequest /\ VerifyingLogin \subseteq MfaRequest
  BY DEF VerifyingLogin
<1>8. CASE challenges[c].purpose = "LOGIN_MFA"
  <2>1. Cardinality(VerifyingLogin') \in Nat /\ Cardinality(VerifyingLogin') <= Cardinality(MfaRequest)
    BY <1>7, Counting
  <2>2. Cardinality(Attempts)' = Cardinality(Attempts)
    BY <1>5
  <2>3. LockInv'
    BY <1>6, <1>8, <2>1, <2>2, Counting DEF LockInv
  <2> QED BY <1>4, <2>3 DEF FailInv
<1>9. CASE challenges[c].purpose # "LOGIN_MFA"
  <2>1. VerifyingLogin' \subseteq VerifyingLogin
    BY <1>9 DEF VerifyingLogin
  <2>2. /\ Cardinality(VerifyingLogin') \in Nat /\ Cardinality(VerifyingLogin) \in Nat
        /\ Cardinality(VerifyingLogin') <= Cardinality(VerifyingLogin)
    BY <1>7, <2>1, Counting
  <2>3. Cardinality(Attempts)' = Cardinality(Attempts)
    BY <1>5
  <2>4. LockInv'
    BY <1>6, <2>2, <2>3, Counting DEF FailInv, LockInv
  <2> QED BY <1>4, <2>4 DEF FailInv
<1> QED BY <1>8, <1>9

\* recordFailure: one failure more, one request less that may fail.
LEMMA OneFailed ==
    ASSUME MfaTypeInv, FailInv, NEW r \in MfaRequest, step[r].op \in Trying,
           \A q \in MfaRequest : step'[q].op \in Trying => step'[q] = step[q] /\ q # r,
           challenges' = Mfa!Failed(step[r].c)
    PROVE  FailInv'
<1> DEFINE n == challenges[step[r].c].attempts
<1>1. step[r].c \in Challenge
  BY DEF MfaTypeInv, MfaCarried, Holds, Trying
<1>2. PICK c \in Challenge : c = step[r].c
  BY <1>1
<1>3. \A d \in Challenge : challenges[d].attempts \in Nat
  BY MfaTypes DEF MfaTypeInv, ChallengeRow
<1>4. \A d \in Challenge :
         /\ challenges'[d].attempts = IF d = c THEN challenges[d].attempts + 1 ELSE challenges[d].attempts
         /\ challenges'[d].purpose = challenges[d].purpose
         /\ challenges'[d].state = challenges[d].state
         /\ challenges'[d].old = challenges[d].old
  BY <1>2, MfaTypes DEF MfaTypeInv, ChallengeRow, Mfa!Failed
<1>5. \A d \in Challenge : /\ Verifying(d)' \subseteq Verifying(d) /\ Verifying(d) \subseteq MfaRequest
  BY DEF Verifying
<1>6. r \in Verifying(c) /\ Verifying(c)' \subseteq Verifying(c) \ {r}
  BY <1>2 DEF Verifying
<1>7. \A d \in Challenge : /\ Cardinality(Verifying(d)') \in Nat /\ Cardinality(Verifying(d)) \in Nat
                           /\ Cardinality(Verifying(d)') <= Cardinality(Verifying(d))
  BY <1>5, Counting
<1>8. Cardinality(Verifying(c)') <= Cardinality(Verifying(c)) - 1
  <2>1. Verifying(c) \ {r} \in SUBSET MfaRequest /\ Verifying(c) \in SUBSET MfaRequest
    BY <1>5
  <2>2. Cardinality(Verifying(c)') <= Cardinality(Verifying(c) \ {r})
    BY <1>6, <2>1, Counting
  <2> QED BY <1>6, <2>1, <2>2, Counting
<1>9. AttemptInv'
  <2> SUFFICES ASSUME NEW d \in Challenge
               PROVE  challenges'[d].attempts + Cardinality(Verifying(d)')
                        < MaxAttempts + Cardinality(MfaRequest)
    BY DEF AttemptInv
  <2>1. challenges[d].attempts + Cardinality(Verifying(d)) < MaxAttempts + Cardinality(MfaRequest)
    BY DEF FailInv, AttemptInv
  <2>2. CASE d = c
    BY <1>3, <1>4, <1>7, <1>8, <2>1, <2>2, Counting
  <2>3. CASE d # c
    BY <1>3, <1>4, <1>7, <2>1, <2>3, Counting
  <2> QED BY <2>2, <2>3
<1>10. Mfa!Recent' = Mfa!Recent
  BY <1>4 DEF Mfa!Recent
<1>11. /\ VerifyingLogin' \subseteq VerifyingLogin /\ VerifyingLogin \subseteq MfaRequest
       /\ challenges[c].purpose = "LOGIN_MFA" =>
            r \in VerifyingLogin /\ VerifyingLogin' \subseteq VerifyingLogin \ {r}
  <2>1. \A q \in MfaRequest : step[q].op \in Trying => step[q].c \in Challenge
    BY DEF MfaTypeInv, MfaCarried, Holds, Trying
  <2> QED BY <1>2, <1>4, <2>1 DEF VerifyingLogin
<1>12. /\ Cardinality(VerifyingLogin') \in Nat /\ Cardinality(VerifyingLogin) \in Nat
       /\ Cardinality(VerifyingLogin') <= Cardinality(VerifyingLogin)
  BY <1>11, Counting
<1>13. IsFiniteSet(Attempts) /\ Cardinality(Attempts) \in Nat
  BY AttemptsFinite DEF FailInv
<1>14. CASE challenges[c].purpose = "LOGIN_MFA"
  <2>1. Attempts' \subseteq Attempts \cup {<<c, challenges[c].attempts + 1>>}
    <3> SUFFICES ASSUME NEW d \in Mfa!Recent, NEW m \in 1 .. challenges'[d].attempts
                 PROVE  <<d, m>> \in Attempts \cup {<<c, challenges[c].attempts + 1>>}
      BY <1>10 DEF Attempts
    <3>1. d \in Challenge
      BY DEF Mfa!Recent
    <3>2. m \in 1 .. challenges[d].attempts \/ (d = c /\ m = challenges[c].attempts + 1)
      BY <1>3, <1>4, <3>1
    <3> QED BY <3>2 DEF Attempts
  <2>2. /\ IsFiniteSet(Attempts \cup {<<c, challenges[c].attempts + 1>>})
        /\ Cardinality(Attempts \cup {<<c, challenges[c].attempts + 1>>}) <= Cardinality(Attempts) + 1
    <3>1. PICK x : x = <<c, challenges[c].attempts + 1>>
      OBVIOUS
    <3>2. /\ IsFiniteSet(Attempts \cup {x})
          /\ \/ Cardinality(Attempts \cup {x}) = Cardinality(Attempts)
             \/ Cardinality(Attempts \cup {x}) = Cardinality(Attempts) + 1
      BY <1>13, FS_AddElement
    <3> QED BY <1>13, <3>1, <3>2
  <2>3. Cardinality(Attempts') \in Nat /\ Cardinality(Attempts') <= Cardinality(Attempts) + 1
    BY <1>13, <2>1, <2>2, FS_Subset, FS_CardinalityType
  <2>4. Cardinality(VerifyingLogin') <= Cardinality(VerifyingLogin) - 1
    <3>1. VerifyingLogin \ {r} \in SUBSET MfaRequest /\ VerifyingLogin \in SUBSET MfaRequest
      BY <1>11
    <3>2. Cardinality(VerifyingLogin') <= Cardinality(VerifyingLogin \ {r})
      BY <1>11, <1>14, <3>1, Counting
    <3> QED BY <1>11, <1>14, <3>1, <3>2, Counting
  <2>5. LockInv'
    BY <1>12, <1>13, <2>3, <2>4, Counting DEF FailInv, LockInv
  <2> QED BY <1>9, <2>5 DEF FailInv
<1>15. CASE challenges[c].purpose # "LOGIN_MFA"
  <2>1. Attempts' = Attempts
    BY <1>4, <1>10, <1>15 DEF Attempts, Mfa!Recent
  <2>2. Cardinality(Attempts)' = Cardinality(Attempts)
    BY <2>1
  <2>3. LockInv'
    BY <1>12, <1>13, <2>2, Counting DEF FailInv, LockInv
  <2> QED BY <1>9, <2>3 DEF FailInv
<1> QED BY <1>14, <1>15

LEMMA NextFail == MfaTypeInv /\ FailInv /\ [Mfa!Next]_mfaVars => FailInv'
<1> SUFFICES ASSUME MfaTypeInv, FailInv, [Mfa!Next]_mfaVars PROVE FailInv'
  OBVIOUS
<1>t. challenges \in [Challenge -> ChallengeRow] /\ step \in [MfaRequest -> MfaInFlight]
  BY MfaTypes DEF MfaTypeInv
<1>h. \A r \in MfaRequest : Holds(step[r], challenges)
  BY DEF MfaTypeInv, MfaCarried
<1>i. Mfa!Idle \in MfaInFlight /\ Mfa!Idle.op = "idle" /\ Mfa!Idle.op \notin Trying
  BY IdleRequest DEF Trying
<1>1. ASSUME \A q \in MfaRequest : step'[q].op \in Trying =>
                step'[q] = step[q] \/ (step[q].op \in Trying /\ step'[q].c = step[q].c),
             UNCHANGED challenges
      PROVE  FailInv'
  BY <1>1, FailuresStay DEF Mfa!Recent
<1>2. ASSUME NEW c \in Challenge, challenges' = Mfa!Spent(c), challenges[c].state = "live",
             \A q \in MfaRequest : step'[q].op \in Trying => step'[q] = step[q]
      PROVE  FailInv'
  <2>1. \A d \in Challenge : /\ challenges'[d].attempts = challenges[d].attempts
                             /\ challenges'[d].purpose = challenges[d].purpose
                             /\ challenges'[d].old = challenges[d].old
                             /\ (challenges'[d].state = "gone" <=> challenges[d].state = "gone")
    BY <1>t, <1>2 DEF Mfa!Spent, ChallengeRow
  <2> QED BY <1>2, <2>1, FailuresStay DEF Mfa!Recent
<1>3. ASSUME NEW c \in Challenge, NEW purpose \in Mfa!Purpose, NEW secret \in Secret \cup {none},
             Mfa!Created(c, purpose, secret), UNCHANGED step
      PROVE  FailInv'
  <2>1. /\ challenges[c].attempts = 0 /\ challenges[c].state = "absent"
        /\ challenges'[c].attempts = 0
        /\ \A d \in Challenge \ {c} : challenges'[d] = challenges[d]
    BY <1>t, <1>3, ChallengeCreated DEF Mfa!Absent
  <2>2. \A d \in Challenge :
              /\ challenges'[d].attempts = challenges[d].attempts
              /\ d \in Mfa!Recent' => d \in Mfa!Recent \/ challenges[d].attempts = 0
              /\ challenges[d].state # "absent" => challenges'[d].purpose = challenges[d].purpose
    BY <2>1 DEF Mfa!Recent
  <2> QED BY <1>3, <2>2, FailuresStay
<1>p. \A p \in {"LOGIN_MFA", "MFA_SETUP", "TOTP_ENROLL", "PASSKEY_REGISTER", "PASSKEY_LOGIN"} :
        p \in Mfa!Purpose
  BY DEF Mfa!Purpose
<1>4. ASSUME NEW r \in MfaRequest, Mfa!OfRequest(r) PROVE FailInv'
  <2>0. ASSUME NEW new, Mfa!Become(r, new)
        PROVE  \A q \in MfaRequest : step'[q] = IF q = r THEN new ELSE step[q]
    BY <1>t, <2>0 DEF Mfa!Become
  <2>1. ASSUME NEW new, Mfa!Become(r, new), new.op \notin Trying
        PROVE  \A q \in MfaRequest : step'[q].op \in Trying => step'[q] = step[q] /\ q # r
    BY <2>0, <2>1
  <2>3. CASE Mfa!accept(r)
    <3> DEFINE new == [Mfa!Idle EXCEPT !.op = "spend", !.c = step[r].c, !.by = step[r].by]
    <3>1. new.op \notin Trying
      BY <1>i DEF MfaInFlight, Trying
    <3> QED BY <1>1, <2>1, <2>3, <3>1 DEF Mfa!accept
  <2>4. CASE Mfa!recordFailure(r)
    <3>1. Mfa!Idle.op \notin Trying /\ step[r].op \in Trying
      BY <1>i, <2>4 DEF Mfa!recordFailure, Trying
    <3> QED BY <1>1, <2>1, <2>4, <3>1, OneFailed DEF Mfa!recordFailure
  <2>20. CASE Mfa!refuse(r)
    <3> DEFINE new == [Mfa!Idle EXCEPT !.op = "fail", !.c = step[r].c]
    <3>1. step[r].op \in Trying /\ step[r].c \in Challenge
      BY <1>h, <2>20 DEF Mfa!refuse, Trying, Holds
    <3>2. new.c = step[r].c
      BY <1>i, <3>1 DEF MfaInFlight
    <3> QED BY <1>1, <2>0, <2>20, <3>1, <3>2 DEF Mfa!refuse
  <2>21. ASSUME NEW c \in Challenge, Mfa!enrolFails(r, c) PROVE FailInv'
    <3> DEFINE new == [Mfa!Idle EXCEPT !.op = "fail", !.c = c]
    <3>1. new.c = c
      BY <1>i DEF MfaInFlight
    <3>2. \A q \in MfaRequest : step'[q].op \in Trying => step'[q] = step[q] \/ step'[q].c = c
      BY <2>0, <2>21, <3>1 DEF Mfa!enrolFails
    <3>3. /\ UNCHANGED challenges /\ challenges[c].attempts < MaxAttempts
          /\ challenges[c].purpose # "LOGIN_MFA"
      BY <2>21 DEF Mfa!enrolFails, Mfa!loadChallenge
    <3> QED BY <3>2, <3>3, LetIn
  <2>5. CASE Mfa!signIn(r)
    BY <1>1, <1>2, <1>h, <1>i, <2>1, <2>5 DEF Mfa!signIn, Mfa!consumable, Holds
  <2>6. CASE Mfa!enrol(r)
    <3>1. Mfa!afterEnrol(step[r].setup).op \notin Trying
      BY <1>i DEF Mfa!afterEnrol, MfaInFlight, Trying
    <3> QED BY <1>1, <1>2, <1>h, <1>i, <2>1, <2>6, <3>1 DEF Mfa!enrol, Mfa!consumable, Holds
  <2>7. CASE Mfa!finishSetup(r)
    BY <1>1, <1>2, <1>h, <1>i, <2>1, <2>7 DEF Mfa!finishSetup, Mfa!loadChallenge, Holds
  <2>8. ASSUME NEW d \in {"totp"} \cup Passkey,
               Mfa!Become(r, [Mfa!Idle EXCEPT !.op = "remove", !.drop = d]), UNCHANGED challenges
        PROVE  FailInv'
    <3>1. [Mfa!Idle EXCEPT !.op = "remove", !.drop = d].op \notin Trying
      BY <1>i DEF MfaInFlight, Trying
    <3> QED BY <1>1, <2>1, <2>8, <3>1
  <2>9. CASE Mfa!factorRemoved(r)
    <3>1. [step[r] EXCEPT !.op = "removing", !.told = Mfa!noneLeft(r)].op \notin Trying
      BY <1>t DEF MfaInFlight, Trying
    <3> QED BY <1>1, <2>1, <2>9, <3>1 DEF Mfa!factorRemoved
  <2>10. CASE Mfa!remove(r)
    BY <1>1, <1>i, <2>1, <2>10 DEF Mfa!remove
  <2>11. CASE Mfa!regenerateRecoveryCodes(r)
    <3>1. [Mfa!Idle EXCEPT !.op = "codes"].op \notin Trying
      BY <1>i DEF MfaInFlight, Trying
    <3> QED BY <1>1, <2>1, <2>11, <3>1 DEF Mfa!regenerateRecoveryCodes
  <2>12. CASE Mfa!replaceRecoveryCodes(r)
    BY <1>1, <1>i, <2>1, <2>12 DEF Mfa!replaceRecoveryCodes
  <2>13. ASSUME NEW c \in Challenge, NEW by \in Mfa!TotpCode \cup Code \cup Passkey \cup {none},
                Mfa!completeMfa(r, c, by)
         PROVE  FailInv'
    <3> DEFINE new == [Mfa!Idle EXCEPT !.op = "verify", !.c = c, !.by = by, !.last = factors.last]
    <3>1. new.c = c
      BY <1>i DEF MfaInFlight
    <3>2. \A q \in MfaRequest : step'[q].op \in Trying => step'[q] = step[q] \/ step'[q].c = c
      BY <2>0, <2>13, <3>1 DEF Mfa!completeMfa
    <3>3. UNCHANGED challenges /\ challenges[c].attempts < MaxAttempts /\ Mfa!assertNotLocked
      BY <2>13 DEF Mfa!completeMfa, Mfa!loadChallenge
    <3>4. Mfa!recentFailures = Cardinality(Attempts)
      BY SameCount DEF Mfa!recentFailures, Attempts
    <3> QED BY <3>2, <3>3, <3>4, LetIn DEF Mfa!assertNotLocked
  <2>14. ASSUME NEW c \in Challenge, NEW p \in Passkey, Mfa!passwordlessLogin(r, c, p)
         PROVE  FailInv'
    <3> DEFINE new == [Mfa!Idle EXCEPT !.op = "verify", !.c = c, !.by = p]
    <3>1. new.c = c
      BY <1>i DEF MfaInFlight
    <3>2. \A q \in MfaRequest : step'[q].op \in Trying => step'[q] = step[q] \/ step'[q].c = c
      BY <2>0, <2>14, <3>1 DEF Mfa!passwordlessLogin
    <3>3. /\ UNCHANGED challenges /\ challenges[c].attempts < MaxAttempts
          /\ challenges[c].purpose # "LOGIN_MFA"
      BY <2>14 DEF Mfa!passwordlessLogin, Mfa!loadChallenge
    <3> QED BY <3>2, <3>3, LetIn
  <2>15. ASSUME NEW c, NEW setup, NEW by,
                Mfa!Become(r, [Mfa!Idle EXCEPT !.op = "enrol", !.c = c, !.setup = setup, !.by = by]),
                UNCHANGED challenges
         PROVE  FailInv'
    <3>1. [Mfa!Idle EXCEPT !.op = "enrol", !.c = c, !.setup = setup, !.by = by].op \notin Trying
      BY <1>i DEF MfaInFlight, Trying
    <3> QED BY <1>1, <2>1, <2>15, <3>1
  <2>16. CASE Mfa!disableTotp(r)
    BY <2>8, <2>16 DEF Mfa!disableTotp
  <2>17. ASSUME NEW p \in Passkey, Mfa!removePasskey(r, p) PROVE FailInv'
    BY <2>8, <2>17 DEF Mfa!removePasskey
  <2>18. ASSUME NEW c \in Challenge, NEW setup \in Challenge \cup {none}, NEW code \in Mfa!TotpCode,
                Mfa!confirmTotp(r, c, setup, code)
         PROVE  FailInv'
    BY <2>15, <2>18 DEF Mfa!confirmTotp
  <2>19. ASSUME NEW c \in Challenge, NEW setup \in Challenge \cup {none}, NEW p \in Passkey,
                Mfa!register(r, c, setup, p)
         PROVE  FailInv'
    BY <2>15, <2>19 DEF Mfa!register
  <2> QED BY <1>4, <2>3, <2>4, <2>5, <2>6, <2>7, <2>9, <2>10, <2>11, <2>12, <2>13, <2>14, <2>16,
             <2>17, <2>18, <2>19, <2>20, <2>21 DEF Mfa!OfRequest
<1>5. ASSUME NEW c \in Challenge, Mfa!OfChallenge(c) PROVE FailInv'
  <2>1. CASE Mfa!age(c)
    <3>1. \A d \in Challenge : /\ challenges'[d].attempts = challenges[d].attempts
                               /\ challenges'[d].purpose = challenges[d].purpose
                               /\ challenges[d].old => challenges'[d].old
                               /\ challenges'[d].state = challenges[d].state
      BY <1>t, <2>1 DEF Mfa!age, ChallengeRow
    <3>2. Mfa!Recent' \subseteq Mfa!Recent
      BY <3>1 DEF Mfa!Recent
    <3> QED BY <2>1, <3>1, <3>2, FailuresStay DEF Mfa!age
  <2> QED BY <1>3, <1>5, <1>p, <2>1
          DEF Mfa!OfChallenge, Mfa!login, Mfa!passwordlessOptions, Mfa!registrationOptions,
              Mfa!beginTotp
<1>6. CASE Mfa!resetMfa
  <2>1. \A d \in Challenge : /\ challenges'[d].attempts = challenges[d].attempts
                             /\ challenges'[d].purpose = challenges[d].purpose
                             /\ challenges'[d].old = challenges[d].old
                             /\ challenges'[d].state \in {challenges[d].state, "gone"}
    BY <1>t, <1>6, ChallengesReset DEF Mfa!resetMfa
  <2>2. Mfa!Recent' \subseteq Mfa!Recent
    BY <2>1 DEF Mfa!Recent
  <2> QED BY <1>6, <2>1, <2>2, FailuresStay DEF Mfa!resetMfa
<1> QED BY <1>1, <1>4, <1>5, <1>6 DEF Mfa!Next, Mfa!changeRole, mfaVars

LEMMA FailuresInit == Mfa!Init => FailInv
<1> SUFFICES ASSUME Mfa!Init PROVE FailInv
  OBVIOUS
<1>1. \A c \in Challenge : challenges[c].attempts = 0 /\ challenges[c].purpose = none
  BY DEF Mfa!Init, Mfa!Absent
<1>2. \A r \in MfaRequest : step[r].op = "idle"
  BY IdleRequest DEF Mfa!Init
<1>3. \A c \in Challenge : Verifying(c) = {}
  BY <1>2 DEF Verifying, Trying
<1>4. VerifyingLogin = {} /\ Mfa!Recent = {}
  BY <1>1, <1>2, NoneIsNone DEF VerifyingLogin, Trying, Mfa!Recent, Mfa!Purpose
<1>5. Attempts = {}
  BY <1>4 DEF Attempts
<1>6. Cardinality({}) = 0
  BY FS_EmptySet
<1>7. AttemptInv
  BY <1>1, <1>3, <1>6, Counting DEF AttemptInv
<1>8. LockInv
  BY <1>4, <1>5, <1>6, Counting DEF LockInv
<1> QED BY <1>7, <1>8 DEF FailInv

LEMMA FailuresCounted == MfaTypeInv /\ FailInv => FailuresBounded
<1> SUFFICES ASSUME MfaTypeInv, FailInv PROVE FailuresBounded
  OBVIOUS
<1>1. ASSUME NEW c \in Challenge
      PROVE  challenges[c].attempts < MaxAttempts + Cardinality(MfaRequest)
  <2>1. Cardinality(Verifying(c)) \in Nat /\ challenges[c].attempts \in Nat
    BY Counting, MfaTypes DEF Verifying, MfaTypeInv, ChallengeRow
  <2> QED BY <2>1, Counting DEF FailInv, AttemptInv
<1>2. Cardinality(Attempts) < FailureLimit + Cardinality(MfaRequest)
  <2>1. Cardinality(VerifyingLogin) \in Nat /\ Cardinality(Attempts) \in Nat
    BY Counting, AttemptsFinite DEF VerifyingLogin, FailInv
  <2> QED BY <2>1, Counting DEF FailInv, LockInv
<1>3. Mfa!recentFailures = Cardinality(Attempts) /\ Mfa!Cardinality(MfaRequest) = Cardinality(MfaRequest)
  BY SameCount DEF Mfa!recentFailures, Attempts
<1> QED BY <1>1, <1>2, <1>3 DEF FailuresBounded, Mfa!FailuresBounded

----------------------------------------------------------------------------
(* Two-factor authentication: the settings page.  Removals, enrolments and *)
(* new codes do not overlap, so what a removal read of the factors is      *)
(* still so when it commits.                                               *)

\* What request x has read of the factors is so.
Decided(x) ==
    LET dropped == IF x.drop = "totp" THEN {factors.totp} ELSE {x.drop}
    IN  /\ x.op = "codes" => factors.enabled
        /\ x.op \in {"remove", "removing"} =>
             /\ dropped \subseteq Mfa!Factors
             /\ factors.required => ~ (Mfa!Factors \subseteq dropped)
        /\ x.op = "removing" => (x.told <=> Mfa!Factors \subseteq dropped)

OneChange ==
    \A r, q \in MfaRequest :
        step[r].op \in {"remove", "removing", "codes"} =>
          /\ step[q].op \in {"remove", "removing", "codes"} => q = r
          /\ step[q].op # "enrol"
AllDecided == \A r \in MfaRequest : Decided(step[r])
SettingsInv == Mfa!EnabledMeansAFactor /\ OneChange /\ AllDecided

\* What a step of the settings page does.
FactorKept == factors.required /\ Mfa!Factors # {} /\ Mfa!Factors' = {} => Mfa!resetMfa
SettingsStep == Mfa!EnabledMeansAFactor' /\ AllDecided' /\ FactorKept

LEMMA ApartIsOneChange == Mfa!Apart => OneChange'
<1> SUFFICES ASSUME Mfa!Apart, NEW r \in MfaRequest, NEW q \in MfaRequest,
                    step'[r].op \in {"remove", "removing", "codes"}
             PROVE  /\ step'[q].op \in {"remove", "removing", "codes"} => q = r
                    /\ step'[q].op # "enrol"
  BY DEF OneChange
<1> DEFINE S == Mfa!ChangingFactors'
<1>1. S \in SUBSET MfaRequest /\ r \in S
  BY DEF Mfa!ChangingFactors
<1>2. Mfa!Cardinality(S) <= 1 /\ step'[q].op # "enrol"
  BY <1>1 DEF Mfa!Apart
<1>3. Cardinality(S) <= 1
  BY <1>2, SameCount
<1> HIDE DEF S
<1>4. Cardinality(S \ {r}) = Cardinality(S) - 1 /\ IsFiniteSet(S \ {r}) /\ Cardinality(S) \in Nat
      /\ Cardinality(S \ {r}) \in Nat
  BY <1>1, Counting
<1>5. S \ {r} = {}
  BY <1>3, <1>4, FS_EmptySet
<1> QED BY <1>2, <1>5 DEF S, Mfa!ChangingFactors

\* A step that leaves the factors as they were.
LEMMA FactorsAsTheyWere ==
    ASSUME MfaTypeInv, SettingsInv, passkeys' = passkeys, factors'.totp = factors.totp,
           factors'.enabled = factors.enabled, factors'.required = factors.required,
           factors.enabled \/ Mfa!unusedCodes' \subseteq Mfa!unusedCodes,
           \A q \in MfaRequest : step'[q] = step[q] \/ Decided(step'[q])
    PROVE  SettingsStep
<1>1. Mfa!Factors' = Mfa!Factors
  BY DEF Mfa!Factors
<1>2. Mfa!EnabledMeansAFactor'
  BY <1>1 DEF SettingsInv, Mfa!EnabledMeansAFactor
<1>3. AllDecided'
  BY <1>1 DEF SettingsInv, AllDecided, Decided
<1> QED BY <1>1, <1>2, <1>3 DEF SettingsStep, FactorKept

LEMMA SettingsOfRequest ==
    ASSUME MfaTypeInv, SettingsInv, NEW r \in MfaRequest, Mfa!OfRequest(r)
    PROVE  SettingsStep
<1>t. /\ factors \in FactorsRow /\ passkeys \subseteq Passkey /\ codes \in [Code -> CodeState]
      /\ step \in [MfaRequest -> MfaInFlight]
  BY MfaTypes DEF MfaTypeInv
<1>h. Holds(step[r], challenges)
  BY DEF MfaTypeInv, MfaCarried
<1>i. Mfa!Idle \in MfaInFlight /\ Mfa!Idle.op = "idle"
  BY IdleRequest
<1>k. /\ Passkey \cap Secret = {} /\ "totp" \notin Passkey /\ none \notin Passkey
      /\ none \notin Secret
  BY FactorsAssumption DEF Mfa!TwoFactorAssumption
<1>b. ASSUME NEW new, Mfa!Become(r, new)
      PROVE  \A q \in MfaRequest : step'[q] = IF q = r THEN new ELSE step[q]
  BY <1>t, <1>b DEF Mfa!Become
<1>1. ASSUME NEW new, Mfa!Become(r, new), Decided(new),
             UNCHANGED <<factors, passkeys>>, factors.enabled \/ UNCHANGED codes
      PROVE  SettingsStep
  <2>1. Mfa!unusedCodes' \subseteq Mfa!unusedCodes \/ factors.enabled
    BY <1>1 DEF Mfa!unusedCodes
  <2> QED BY <1>1, <1>b, <2>1, FactorsAsTheyWere
<1>2. ASSUME NEW x, x.op \notin {"remove", "removing", "codes"}
      PROVE  Decided(x)
  BY <1>2 DEF Decided
<1>3. CASE Mfa!accept(r)
  <2>b. PICK by : by = step[r].by
    OBVIOUS
  <2> DEFINE new == [Mfa!Idle EXCEPT !.op = "spend", !.c = step[r].c, !.by = by]
  <2>1. new.op = "spend"
    BY <1>i DEF MfaInFlight
  <2>2. Mfa!Become(r, new) /\ UNCHANGED passkeys
        /\ factors' = (IF by \in Mfa!TotpCode THEN [factors EXCEPT !.last = by[2]] ELSE factors)
        /\ codes' = (IF by \in Code THEN [codes EXCEPT ![by] = "used"] ELSE codes)
    BY <1>3, <2>b DEF Mfa!accept
  <2> HIDE DEF new
  <2>3. \A q \in MfaRequest : step'[q] = step[q] \/ Decided(step'[q])
    BY <1>2, <1>b, <2>1, <2>2
  <2>4. Mfa!unusedCodes' \subseteq Mfa!unusedCodes
    BY <1>t, <2>2 DEF Mfa!unusedCodes
  <2>5. factors'.totp = factors.totp /\ factors'.enabled = factors.enabled
        /\ factors'.required = factors.required
    BY <1>t, <2>2 DEF FactorsRow
  <2> QED BY <2>2, <2>3, <2>4, <2>5, FactorsAsTheyWere
<1>4. CASE Mfa!recordFailure(r) \/ Mfa!signIn(r) \/ Mfa!finishSetup(r)
  BY <1>1, <1>2, <1>4, <1>i DEF Mfa!recordFailure, Mfa!signIn, Mfa!finishSetup
<1>5. CASE Mfa!enrol(r)
  <2>1. step[r].op = "enrol"
    BY <1>5 DEF Mfa!enrol
  <2>2. \A q \in MfaRequest : step[q].op \notin {"remove", "removing", "codes"}
    BY <2>1 DEF SettingsInv, OneChange
  <2>3. Mfa!afterEnrol(step[r].setup).op \in {"idle", "finish"}
    BY <1>i DEF Mfa!afterEnrol, MfaInFlight
  <2>4. ASSUME NEW totp \in Secret \cup {none}, NEW last \in Mfa!Step \cup {Mfa!NoStep},
               Mfa!factorAdded(totp, last), totp # none \/ passkeys' # {},
               Mfa!Become(r, Mfa!afterEnrol(step[r].setup))
        PROVE  SettingsStep
    <3>1. factors'.enabled /\ factors'.totp = totp
      BY <1>t, <2>4, FactorAdded
    <3>2. Mfa!Factors' # {}
      BY <2>4, <3>1 DEF Mfa!Factors
    <3>3. Mfa!EnabledMeansAFactor'
      BY <3>1, <3>2 DEF Mfa!EnabledMeansAFactor
    <3>4. \A q \in MfaRequest : step'[q].op \notin {"remove", "removing", "codes"}
      BY <1>b, <2>2, <2>3, <2>4
    <3>5. AllDecided'
      BY <3>4 DEF AllDecided, Decided
    <3> QED BY <3>2, <3>3, <3>5 DEF SettingsStep, FactorKept
  <2>5. ASSUME step[r].by \in Mfa!TotpCode, Mfa!factorAdded(step[r].by[1], step[r].by[2]),
               Mfa!Become(r, Mfa!afterEnrol(step[r].setup))
        PROVE  SettingsStep
    <3>1. step[r].by[1] \in Secret \cup {none} /\ step[r].by[2] \in Mfa!Step \cup {Mfa!NoStep}
          /\ step[r].by[1] # none
      BY <2>5, MfaKinds
    <3> QED BY <2>4, <2>5, <3>1
  <2>6. ASSUME Mfa!factorAdded(factors.totp, factors.last), passkeys' = passkeys \cup {step[r].by},
               Mfa!Become(r, Mfa!afterEnrol(step[r].setup))
        PROVE  SettingsStep
    <3>1. factors.totp \in Secret \cup {none} /\ factors.last \in Mfa!Step \cup {Mfa!NoStep}
      BY <1>t DEF FactorsRow
    <3>2. passkeys' # {}
      BY <2>6
    <3> QED BY <2>4, <2>6, <3>1, <3>2
  <2>7. ASSUME Mfa!Become(r, Mfa!Idle), UNCHANGED <<factors, codes, passkeys, challenges>>
        PROVE  SettingsStep
    BY <1>1, <1>2, <1>i, <2>7
  <2> QED BY <1>5, <2>5, <2>6, <2>7 DEF Mfa!enrol
<1>6. CASE Mfa!disableTotp(r)
  <2> DEFINE new == [Mfa!Idle EXCEPT !.op = "remove", !.drop = "totp"]
  <2>1. new.op = "remove" /\ new.drop = "totp"
    BY <1>i DEF MfaInFlight
  <2>2. Mfa!Become(r, new) /\ UNCHANGED <<factors, passkeys, codes>>
        /\ factors.totp # none /\ (factors.required => passkeys # {})
    BY <1>6 DEF Mfa!disableTotp, Mfa!assertNotLastFactor
  <2> HIDE DEF new
  <2>3. factors.totp \in Secret
    BY <1>t, <2>2 DEF FactorsRow
  <2>4. Decided(new)
    BY <1>t, <1>k, <2>1, <2>2, <2>3 DEF Decided, Mfa!Factors
  <2> QED BY <1>1, <2>2, <2>4
<1>7. ASSUME NEW p \in Passkey, Mfa!removePasskey(r, p) PROVE SettingsStep
  <2> DEFINE new == [Mfa!Idle EXCEPT !.op = "remove", !.drop = p]
  <2>1. new.op = "remove" /\ new.drop = p /\ p # "totp"
    BY <1>i, <1>k DEF MfaInFlight
  <2>2. Mfa!Become(r, new) /\ UNCHANGED <<factors, passkeys, codes>>
        /\ p \in passkeys /\ (factors.required => Mfa!Factors # {p})
    BY <1>7 DEF Mfa!removePasskey, Mfa!assertNotLastFactor
  <2> HIDE DEF new
  <2>3. p \in Mfa!Factors
    BY <2>2 DEF Mfa!Factors
  <2>4. Decided(new)
    BY <2>1, <2>2, <2>3 DEF Decided
  <2> QED BY <1>1, <2>2, <2>4
<1>8. CASE Mfa!factorRemoved(r)
  <2> DEFINE new == [step[r] EXCEPT !.op = "removing", !.told = Mfa!noneLeft(r)]
  <2>1. new.op = "removing" /\ new.drop = step[r].drop /\ new.told = Mfa!noneLeft(r)
    BY <1>t DEF MfaInFlight
  <2>2. /\ step[r].op = "remove" /\ Mfa!Become(r, new)
        /\ UNCHANGED <<factors, passkeys, codes>>
    BY <1>8 DEF Mfa!factorRemoved
  <2> HIDE DEF new
  <2>3. Decided(step[r])
    BY DEF SettingsInv, AllDecided
  <2>4. Decided(new)
    BY <2>1, <2>2, <2>3 DEF Decided, Mfa!noneLeft, Mfa!Dropped
  <2> QED BY <1>1, <2>2, <2>4
<1>9. CASE Mfa!remove(r)
  <2> DEFINE d == step[r].drop
             told == step[r].told
             dropped == IF d = "totp" THEN {factors.totp} ELSE {d}
  <2>1. /\ step[r].op = "removing" /\ told \in BOOLEAN /\ d \in {"totp"} \cup Passkey
        /\ Mfa!Become(r, Mfa!Idle)
    BY <1>9, <1>t, <1>h DEF Mfa!remove, MfaInFlight, Holds
  <2>2. /\ dropped \subseteq Mfa!Factors /\ (told <=> Mfa!Factors \subseteq dropped)
        /\ factors.required => ~ (Mfa!Factors \subseteq dropped)
    BY <2>1 DEF SettingsInv, AllDecided, Decided
  <2>3. /\ d # "totp" => d \in passkeys
        /\ d = "totp" => factors.totp # none
    BY <1>t, <1>k, <2>1, <2>2 DEF Mfa!Factors, FactorsRow
  <2>4. /\ factors' = [factors EXCEPT !.totp = IF d = "totp" THEN none ELSE @,
                                      !.last = IF d = "totp" THEN Mfa!NoStep ELSE @,
                                      !.enabled = @ /\ ~ told]
        /\ passkeys' = passkeys \ {d}
        /\ codes' = IF told THEN Mfa!Replaced(none) ELSE codes
    BY <1>9, <2>3 DEF Mfa!remove
  <2>5. factors'.enabled = (factors.enabled /\ ~ told)
    BY <1>t, <2>1, <2>4 DEF FactorsRow
  <2>6. factors'.totp = IF d = "totp" THEN none ELSE factors.totp
    BY <1>t, <2>1, <2>4 DEF FactorsRow
  <2>7. Mfa!Factors' = Mfa!Factors \ dropped
    BY <1>t, <1>k, <2>1, <2>3, <2>4, <2>6 DEF Mfa!Factors, FactorsRow
  <2>8. factors.enabled
    BY <2>2 DEF SettingsInv, Mfa!EnabledMeansAFactor
  <2>9. told => Mfa!unusedCodes' = {}
    BY <1>t, <2>4, CodesReplaced DEF Mfa!unusedCodes
  <2>10. told <=> Mfa!Factors' = {}
    BY <2>2, <2>7
  <2>11. Mfa!EnabledMeansAFactor'
    BY <2>5, <2>8, <2>9, <2>10 DEF Mfa!EnabledMeansAFactor
  <2>12. \A q \in MfaRequest : step'[q].op \notin {"remove", "removing", "codes"}
    BY <1>b, <1>i, <2>1 DEF SettingsInv, OneChange
  <2>13. AllDecided'
    BY <2>12 DEF AllDecided, Decided
  <2>14. FactorKept
    BY <2>2, <2>10 DEF FactorKept
  <2> QED BY <2>11, <2>13, <2>14 DEF SettingsStep
<1>10. CASE Mfa!regenerateRecoveryCodes(r)
  <2> DEFINE new == [Mfa!Idle EXCEPT !.op = "codes"]
  <2>1. new.op = "codes"
    BY <1>i DEF MfaInFlight
  <2>2. Mfa!Become(r, new) /\ UNCHANGED <<factors, passkeys, codes>> /\ factors.enabled
    BY <1>10 DEF Mfa!regenerateRecoveryCodes
  <2> HIDE DEF new
  <2> QED BY <1>1, <2>1, <2>2 DEF Decided
<1>11. CASE Mfa!replaceRecoveryCodes(r)
  <2>1. factors.enabled
    BY <1>11 DEF Mfa!replaceRecoveryCodes, SettingsInv, AllDecided, Decided
  <2> QED BY <1>1, <1>2, <1>i, <1>11, <2>1 DEF Mfa!replaceRecoveryCodes
<1>12. ASSUME NEW c \in Challenge, NEW by, Mfa!completeMfa(r, c, by) \/ Mfa!passwordlessLogin(r, c, by)
       PROVE  SettingsStep
  <2>1. PICK new : /\ Mfa!Become(r, new) /\ UNCHANGED <<factors, passkeys, codes>>
                   /\ \/ new = [Mfa!Idle EXCEPT !.op = "verify", !.c = c, !.by = by, !.last = factors.last]
                      \/ new = [Mfa!Idle EXCEPT !.op = "verify", !.c = c, !.by = by]
    BY <1>12 DEF Mfa!completeMfa, Mfa!passwordlessLogin
  <2>2. new.op = "verify"
    BY <1>i, <2>1 DEF MfaInFlight
  <2> QED BY <1>1, <1>2, <2>1, <2>2
<1>13. ASSUME NEW c \in Challenge, NEW setup \in Challenge \cup {none}, NEW by,
              Mfa!confirmTotp(r, c, setup, by) \/ Mfa!register(r, c, setup, by)
       PROVE  SettingsStep
  <2>1. PICK new : /\ Mfa!Become(r, new) /\ UNCHANGED <<factors, passkeys, codes>>
                   /\ new = [Mfa!Idle EXCEPT !.op = "enrol", !.c = c, !.setup = setup, !.by = by]
    BY <1>13 DEF Mfa!confirmTotp, Mfa!register
  <2>2. new.op = "enrol"
    BY <1>i, <2>1 DEF MfaInFlight
  <2> QED BY <1>1, <1>2, <2>1, <2>2
<1>14. ASSUME NEW c \in Challenge, Mfa!refuse(r) \/ Mfa!enrolFails(r, c) PROVE SettingsStep
  <2>1. PICK k : /\ Mfa!Become(r, [Mfa!Idle EXCEPT !.op = "fail", !.c = k])
                 /\ UNCHANGED <<factors, passkeys, codes>>
    BY <1>14 DEF Mfa!refuse, Mfa!enrolFails
  <2> DEFINE new == [Mfa!Idle EXCEPT !.op = "fail", !.c = k]
  <2>2. new.op = "fail"
    BY <1>i DEF MfaInFlight
  <2> HIDE DEF new
  <2> QED BY <1>1, <1>2, <2>1, <2>2 DEF new
<1>15. CASE Mfa!refuse(r)
  <2>1. step[r].c \in Challenge
    BY <1>15, <1>h DEF Mfa!refuse, Holds
  <2> QED BY <1>14, <1>15, <2>1
<1> QED BY <1>3, <1>4, <1>5, <1>6, <1>7, <1>8, <1>9, <1>10, <1>11, <1>12, <1>13, <1>14, <1>15
        DEF Mfa!OfRequest

LEMMA SettingsOfNext ==
    MfaTypeInv /\ SettingsInv /\ [Mfa!Next /\ Mfa!Apart]_mfaVars => SettingsStep /\ OneChange'
<1> SUFFICES ASSUME MfaTypeInv, SettingsInv, [Mfa!Next /\ Mfa!Apart]_mfaVars
             PROVE  SettingsStep /\ OneChange'
  OBVIOUS
<1>t. /\ factors \in FactorsRow /\ codes \in [Code -> CodeState]
  BY MfaTypes DEF MfaTypeInv
<1>1. ASSUME UNCHANGED <<factors, passkeys, codes, step>> PROVE SettingsStep
  <2>1. Mfa!unusedCodes' \subseteq Mfa!unusedCodes
    BY <1>1 DEF Mfa!unusedCodes
  <2> QED BY <1>1, <2>1, FactorsAsTheyWere
<1>2. ASSUME NEW c \in Challenge, Mfa!OfChallenge(c) PROVE SettingsStep
  BY <1>1, <1>2 DEF Mfa!OfChallenge, Mfa!login, Mfa!passwordlessOptions, Mfa!age,
                    Mfa!registrationOptions, Mfa!beginTotp
<1>3. ASSUME Mfa!changeRole \/ Mfa!resetMfa, Mfa!Apart
      PROVE  \A q \in MfaRequest : step'[q].op \notin {"remove", "removing", "codes"}
  <2>1. Mfa!ChangingFactors = {} /\ step' = step
    BY <1>3 DEF Mfa!Apart, Mfa!changeRole, Mfa!resetMfa
  <2> QED BY <2>1 DEF Mfa!ChangingFactors
<1>4. ASSUME Mfa!changeRole, Mfa!Apart PROVE SettingsStep
  <2>1. AllDecided'
    BY <1>3, <1>4 DEF AllDecided, Decided
  <2>2. factors'.totp = factors.totp /\ factors'.enabled = factors.enabled
        /\ passkeys' = passkeys /\ codes' = codes
    BY <1>4, <1>t DEF Mfa!changeRole, FactorsRow
  <2>3. Mfa!Factors' = Mfa!Factors /\ Mfa!unusedCodes' = Mfa!unusedCodes
    BY <2>2 DEF Mfa!Factors, Mfa!unusedCodes
  <2>4. Mfa!EnabledMeansAFactor'
    BY <2>2, <2>3 DEF SettingsInv, Mfa!EnabledMeansAFactor
  <2> QED BY <2>1, <2>3, <2>4 DEF SettingsStep, FactorKept
<1>5. ASSUME Mfa!resetMfa, Mfa!Apart PROVE SettingsStep
  <2>1. AllDecided'
    BY <1>3, <1>5 DEF AllDecided, Decided
  <2>2. factors'.totp = none /\ factors'.enabled = FALSE /\ passkeys' = {}
    BY <1>5, <1>t DEF Mfa!resetMfa, FactorsRow
  <2>3. Mfa!Factors' = {} /\ Mfa!unusedCodes' = {}
    BY <1>5, <1>t, <2>2, CodesReplaced DEF Mfa!Factors, Mfa!unusedCodes, Mfa!resetMfa
  <2>4. Mfa!EnabledMeansAFactor'
    BY <2>2, <2>3 DEF Mfa!EnabledMeansAFactor
  <2> QED BY <1>5, <2>1, <2>4 DEF SettingsStep, FactorKept
<1>6. SettingsStep
  BY <1>1, <1>2, <1>4, <1>5, SettingsOfRequest DEF Mfa!Next, mfaVars
<1>7. OneChange'
  BY ApartIsOneChange DEF SettingsInv, OneChange, mfaVars
<1> QED BY <1>6, <1>7

LEMMA SettingsInit == Mfa!Init => SettingsInv
<1> SUFFICES ASSUME Mfa!Init PROVE SettingsInv
  OBVIOUS
<1>1. \A r \in MfaRequest : step[r].op = "idle"
  BY IdleRequest DEF Mfa!Init
<1>2. factors.enabled <=> Mfa!Factors # {}
  <2>1. PICK required \in BOOLEAN, totp \in Secret \cup {none} :
          factors = [totp |-> totp, last |-> IF totp = none THEN Mfa!NoStep ELSE 0,
                     enabled |-> passkeys # {} \/ totp # none, required |-> required]
    BY DEF Mfa!Init
  <2>2. factors.totp = totp /\ factors.enabled = (passkeys # {} \/ totp # none)
    BY <2>1
  <2> QED BY <2>2 DEF Mfa!Factors
<1>3. ~ factors.enabled => Mfa!unusedCodes = {}
  BY DEF Mfa!Init, Mfa!unusedCodes
<1>4. OneChange /\ AllDecided
  BY <1>1 DEF OneChange, AllDecided, Decided
<1> QED BY <1>2, <1>3, <1>4 DEF SettingsInv, Mfa!EnabledMeansAFactor

----------------------------------------------------------------------------
(* Two-factor authentication: theorems of its specification, and of the    *)
(* two components side by side.                                            *)

LEMMA MfaSteps ==
    /\ [Mfa!Next]_(Mfa!vars) => [Mfa!Next]_mfaVars
    /\ [Mfa!Next /\ Mfa!Apart]_(Mfa!vars) => [Mfa!Next /\ Mfa!Apart]_mfaVars
    /\ [Mfa!Next /\ Mfa!Apart]_mfaVars => [Mfa!Next]_mfaVars
BY DEF Mfa!vars, mfaVars

\* However sign-ins, enrolments and removals overlap, the rows of both
\* components keep their types (the tables User, WebAuthnCredential,
\* RecoveryCode, AuthChallenge, Session and the tokens).
THEOREM RowsAreTyped == AccountSpec /\ Mfa!Spec => []PeopleTypesOK
<1>1. TypeInv => AccountTypeOK
  BY DEF TypeInv
<1>2. MfaTypeInv => Mfa!TypeOK
  BY DEF MfaTypeInv
<1>3. AccountTypeOK /\ Mfa!TypeOK => PeopleTypesOK
  BY DEF PeopleTypesOK
<1> QED BY <1>1, <1>2, <1>3, InitTyped, NextTyped, MfaInitTyped, MfaNextTyped, MfaSteps, PTL
        DEF AccountSpec, Mfa!Spec

\* However requests overlap, a link changes the account once, a challenge and
\* a recovery code sign in once, and a code of the app once while it is
\* enrolled (consumeResetToken, consumeChallenge, verifyCode).
THEOREM NothingIsUsedTwice == AccountSpec /\ Mfa!Spec => []UsedOnce
<1>1. LinkInv => LinksWorkOnce
  BY DEF LinkInv, LinksWorkOnce
<1>2. MfaTypeInv /\ ChallengeInv /\ UseInv => Mfa!SignInsAreSpentOnce
  <2> SUFFICES ASSUME MfaTypeInv, ChallengeInv, UseInv PROVE Mfa!SignInsAreSpentOnce
    OBVIOUS
  <2>1. \A k \in Mfa!TotpCode : factors.totp = k[1] => usedCode[k] <= 1
    BY DEF UseInv, TotpInv, AtMostOnce
  <2>2. \A c \in Challenge : signedIn[c] <= 1
    BY DEF ChallengeInv
  <2>3. \A k \in Code : usedCode[k] <= 1
    BY DEF UseInv, CodeInv, AtMostOnce
  <2> QED BY <2>1, <2>2, <2>3 DEF Mfa!SignInsAreSpentOnce
<1>3. Mfa!Init => ChallengeInv
  BY DEF Mfa!Init, ChallengeInv
<1>4. LinksWorkOnce /\ Mfa!SignInsAreSpentOnce => UsedOnce
  BY DEF UsedOnce
<1> QED BY <1>1, <1>2, <1>3, <1>4, InitTyped, NextTyped, InitLinks, NextLinkInv, MfaInitTyped,
           MfaNextTyped, NextChallenges, InitUse, NextUse, MfaSteps, PTL DEF AccountSpec, Mfa!Spec

\* However many requests try, the failed attempts of a challenge and those of
\* the account stay below their limit and the requests at once
\* (loadChallenge, assertNotLocked, recordFailure).
THEOREM FailuresStayBounded == Mfa!Spec => []FailuresBounded
<1> QED BY MfaInitTyped, MfaNextTyped, FailuresInit, NextFail, FailuresCounted, MfaSteps, PTL
        DEF Mfa!Spec

\* On a settings page on its own, 2FA reads on exactly while a factor is left,
\* and without one no recovery code is (factorAdded, factorRemoved, resetMfa).
THEOREM EnabledTellsTheFactors == Mfa!SettingsSpec => []EnabledMeansAFactor
<1>1. SettingsStep /\ OneChange' => SettingsInv'
  BY DEF SettingsStep, SettingsInv
<1>2. SettingsInv => EnabledMeansAFactor
  BY DEF SettingsInv, EnabledMeansAFactor
<1> QED BY <1>1, <1>2, MfaInitTyped, MfaNextTyped, SettingsInit, SettingsOfNext, MfaSteps, PTL
        DEF Mfa!SettingsSpec

\* On a settings page on its own, only an administrator's reset takes the last
\* factor of an account whose role requires one (assertNotLastFactor).
THEOREM LastFactorStays == Mfa!SettingsSpec => RequiredKeepsAFactor
<1>1. SettingsStep /\ OneChange' => SettingsInv'
  BY DEF SettingsStep, SettingsInv
<1>2. SettingsStep => [factors.required /\ Mfa!Factors # {} /\ Mfa!Factors' = {} => Mfa!resetMfa]_(Mfa!vars)
  BY DEF SettingsStep, FactorKept
<1> QED BY <1>1, <1>2, MfaInitTyped, MfaNextTyped, SettingsInit, SettingsOfNext, MfaSteps, PTL
        DEF Mfa!SettingsSpec, RequiredKeepsAFactor, Mfa!RequiredKeepsAFactor
=============================================================================
