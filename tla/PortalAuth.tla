----------------------------- MODULE PortalAuth -----------------------------
(***************************************************************************)
(* Accounts and sessions of the portal (portal/server.ts,                  *)
(* portal/store.ts): password sign-up and login, email verification, OAuth *)
(* on the web and from the native apps, passkeys, and the wallet transfers *)
(* that ask for a passkey and an emailed code; and, in the second part,    *)
(* the wallet of one user, whose seed phrase overlapping requests replace. *)
(*                                                                         *)
(* Everything a user is handed (verification link, OAuth state, one-time   *)
(* token of the native app, passkey or transfer challenge) is a "secret"   *)
(* that is used up by one statement and then acted upon: requests that     *)
(* carry the same secret interleave.  A user is identified by the email.   *)
(***************************************************************************)
EXTENDS Naturals, FiniteSets

CONSTANTS
    Emails,       \* email addresses
    Subjects,     \* accounts at an OAuth provider
    Passkeys,     \* credentials, each on one device
    Secrets,      \* ids of secrets
    NoUser,
    MaxSessions,  \* bound on the sessions of a user
    Phrases,      \* seed phrases generateMnemonic may come up with, never twice
    NoPhrase

ASSUME PortalAuthAssumption == NoUser \notin Emails /\ MaxSessions \in Nat
ASSUME PortalWalletAssumption == NoPhrase \notin Phrases

VARIABLES
    users,      \* portal_users: "none", "unverified", "verified" for each email
    emailOf,    \* the email each provider account has now
    links,      \* portal_oauth_links: the user of a subject
    keys,       \* portal_passkey_credentials: owner and stored counter
    device,     \* signature counter of the device that holds a passkey
    secrets,    \* kind, user and life of each secret
    handlers,   \* requests that have used up a secret and not answered yet
    sessions    \* sessions made for each user, and those that live

pavars == << users, emailOf, links, keys, device, secrets, handlers, sessions >>

Kinds == {"email", "oauth", "native", "mobile", "register", "login", "send"}
Unissued == [ kind |-> "none", user |-> NoUser, life |-> "unused", uses |-> 0 ]

Exists(u) == u \in Emails /\ users[u] # "none"

(* createUser: an INSERT that fails when the email is taken.               *)
CreateUser(u) == users[u] = "none" /\ users' = [users EXCEPT ![u] = "unverified"]

(* findOauthLink, and the credentials of a user.                           *)
LinkedUser(s) == links[s]
LinkOauth(s, u) == links' = [links EXCEPT ![s] = u]
PasskeysOf(u) == {k \in Passkeys : keys[k].owner = u}

(* The row of a secret: what it is for, whose it is, and how often it has  *)
(* been acted upon.                                                        *)
Secret(kind, u) == [ kind |-> kind, user |-> u, life |-> "live", uses |-> 0 ]

(* One of the create... statements: the secret sec is handed out.          *)
Issue(sec, kind, u) ==
    /\ secrets[sec].kind = "none"
    /\ secrets' = [secrets EXCEPT ![sec] = Secret(kind, u)]

(* Faulty variant of UseUp: the secret is looked up and left in place.     *)
UseUpLooksUp(sec, kinds) ==
    /\ secrets[sec].kind \in kinds /\ secrets[sec].life = "live"
    /\ secrets' = [secrets EXCEPT ![sec].uses = @ + 1]

(* One of the consume... statements: only a live secret of the right kind  *)
(* is accepted, and it is gone.                                            *)
UseUp(sec, kinds) ==
    /\ secrets[sec].kind \in kinds /\ secrets[sec].life = "live"
    /\ secrets' = [secrets EXCEPT ![sec].life = "used", ![sec].uses = @ + 1]

(* createSessionForUser *)
NewSession(u) ==
    /\ sessions[u].made < MaxSessions
    /\ sessions' = [sessions EXCEPT ![u] = [made |-> @.made + 1, live |-> @.live + 1]]

(* deleteSession, and getCurrentUser by the session's cookie.              *)
EndSession(u) == sessions' = [sessions EXCEPT ![u].live = @ - 1]
LoggedIn(u) == sessions[u].live > 0

PortalAuthInit ==
    /\ users = [u \in Emails |-> "none"]
    /\ emailOf \in [Subjects -> Emails]
    /\ links = [s \in Subjects |-> NoUser]
    /\ keys = [k \in Passkeys |-> [owner |-> NoUser, counter |-> 0]]
    /\ device = [k \in Passkeys |-> 0]
    /\ secrets = [x \in Secrets |-> Unissued]
    /\ handlers = {}
    /\ sessions = [u \in Emails |-> [made |-> 0, live |-> 0]]

-----------------------------------------------------------------------------
(* POST /auth/signup: 409 for an email in use; a second insert of the same *)
(* email fails.  The verification link is stored before it is mailed.      *)
Signup(u, sec) ==
    /\ CreateUser(u)
    /\ Issue(sec, "email", u)
    /\ UNCHANGED << emailOf, links, keys, device, handlers, sessions >>

(* POST /auth/resend-verification *)
ResendVerification(u, sec) ==
    /\ users[u] = "unverified"
    /\ Issue(sec, "email", u)
    /\ UNCHANGED << users, emailOf, links, keys, device, handlers, sessions >>

(* GET /auth/verify-email *)
VerifyEmail(sec) ==
    /\ UseUp(sec, {"email"})
    /\ users' = [users EXCEPT ![secrets[sec].user] = "verified"]
    /\ UNCHANGED << emailOf, links, keys, device, handlers, sessions >>

(* POST /auth/login with the right password.                               *)
Login(u) ==
    /\ Exists(u)
    /\ NewSession(u)
    /\ UNCHANGED << users, emailOf, links, keys, device, secrets, handlers >>

(* POST /auth/logout *)
Logout(u) ==
    /\ LoggedIn(u)
    /\ EndSession(u)
    /\ UNCHANGED << users, emailOf, links, keys, device, secrets, handlers >>

-----------------------------------------------------------------------------
(* GET /auth/oauth/:provider/start, from a browser or a native app.        *)
OauthStart(sec, native) ==
    /\ Issue(sec, IF native THEN "native" ELSE "oauth", NoUser)
    /\ UNCHANGED << users, emailOf, links, keys, device, handlers, sessions >>

(* handleOauthCallback finds its user: the one linked to the subject, else *)
(* the one with the subject's email, else a new one.                       *)
OauthUser(s) == IF Exists(LinkedUser(s)) THEN LinkedUser(s) ELSE emailOf[s]

(* handleOauthCallback uses up the state, asks the provider who this is,   *)
(* and makes the user or marks it verified.  The provider's word on        *)
(* whether the email is verified is an input.                              *)
OauthCallback(sec, s, verified) ==
    LET u == OauthUser(s)
    IN  /\ UseUp(sec, {"oauth", "native"})
        /\ users' = [users EXCEPT ![u] = IF verified THEN "verified"
                                         ELSE IF @ = "none" THEN "unverified" ELSE @]
        /\ handlers' = handlers \union {[at |-> "link", sec |-> sec, subject |-> s, user |-> u]}
        /\ UNCHANGED << emailOf, links, keys, device, sessions >>

(* ... then links the subject and makes a session; a native app is sent a  *)
(* one-time token, kept in the memory of the process.                      *)
OauthLink(h, sec) ==
    /\ h \in handlers /\ h.at = "link"
    /\ handlers' = handlers \ {h}
    /\ LinkOauth(h.subject, h.user)
    /\ NewSession(h.user)
    /\ IF secrets[h.sec].kind = "native" THEN Issue(sec, "mobile", h.user) ELSE UNCHANGED secrets
    /\ UNCHANGED << users, emailOf, keys, device >>

(* POST /auth/oauth/mobile/complete: the token becomes a session.          *)
MobileComplete(sec) ==
    /\ UseUp(sec, {"mobile"})
    /\ NewSession(secrets[sec].user)
    /\ UNCHANGED << users, emailOf, links, keys, device, handlers >>

(* External: somebody changes their email at the provider, not during a    *)
(* login.                                                                  *)
ProviderEmailChanges(s, e) ==
    /\ \A h \in handlers : h.at = "link" => h.subject # s
    /\ emailOf' = [emailOf EXCEPT ![s] = e]
    /\ UNCHANGED << users, links, keys, device, secrets, handlers, sessions >>

-----------------------------------------------------------------------------
(* POST /auth/passkey/register/options *)
RegisterOptions(sec, u) ==
    /\ LoggedIn(u)
    /\ Issue(sec, "register", u)
    /\ UNCHANGED << users, emailOf, links, keys, device, handlers, sessions >>

(* POST /auth/passkey/login/options: the challenge names no user.          *)
LoginOptions(sec) ==
    /\ Issue(sec, "login", NoUser)
    /\ UNCHANGED << users, emailOf, links, keys, device, handlers, sessions >>

(* POST /wallet/send/mfa/start, for a user with a passkey: challenge and   *)
(* emailed code are one row.                                               *)
SendMfaStart(sec, u) ==
    /\ LoggedIn(u) /\ PasskeysOf(u) # {}
    /\ Issue(sec, "send", u)
    /\ UNCHANGED << users, emailOf, links, keys, device, handlers, sessions >>

(* upsertPasskeyCredential *)
UpsertPasskey(k, u) == keys' = [keys EXCEPT ![k] = [owner |-> u, counter |-> device[k]]]

(* POST /auth/passkey/register/verify by the user of the challenge.  The   *)
(* challenge is used up first; the credential is upserted.                 *)
RegisterVerify(sec, u, k) ==
    /\ LoggedIn(u) /\ UseUp(sec, {"register"})
    /\ IF secrets[sec].user = u THEN UpsertPasskey(k, u) ELSE UNCHANGED keys
    /\ UNCHANGED << users, emailOf, links, device, handlers, sessions >>

(* The signature of passkey k verifies: its counter is beyond the stored   *)
(* one.  The request goes on with it.                                      *)
Signed(sec, kind, k) ==
    /\ device' = [device EXCEPT ![k] = @ + 1]
    /\ handlers' = handlers \union
         {[at |-> kind, sec |-> sec, key |-> k, user |-> keys[k].owner, counter |-> device[k] + 1]}

(* POST /auth/passkey/login/verify uses up the challenge, reads the        *)
(* credential and checks the signature.                                    *)
LoginVerify(sec, k) ==
    /\ keys[k].owner # NoUser
    /\ UseUp(sec, {"login"})
    /\ Signed(sec, "login", k)
    /\ UNCHANGED << users, emailOf, links, keys, sessions >>

(* POST /wallet/send/mfa/confirm by the user of the challenge, with one of *)
(* their passkeys.                                                         *)
SendMfaConfirm(sec, k, u) ==
    /\ k \in PasskeysOf(u) /\ LoggedIn(u) /\ secrets[sec].user = u
    /\ UseUp(sec, {"send"})
    /\ Signed(sec, "send", k)
    /\ UNCHANGED << users, emailOf, links, keys, sessions >>

(* updatePasskeyCounter *)
UpdateCounter(k, counter) == keys' = [keys EXCEPT ![k].counter = counter]

(* ... then store the counter of this signature, and make a session or a   *)
(* transfer request for manual review.                                     *)
PasskeyDone(h) ==
    /\ h \in handlers /\ h.at \in {"login", "send"}
    /\ handlers' = handlers \ {h}
    /\ UpdateCounter(h.key, h.counter)
    /\ IF h.at = "login" THEN NewSession(h.user) ELSE UNCHANGED sessions
    /\ UNCHANGED << users, emailOf, links, device, secrets >>

-----------------------------------------------------------------------------
Expire(sec) ==
    /\ secrets[sec].life = "live"
    /\ secrets' = [secrets EXCEPT ![sec].life = "expired"]
    /\ UNCHANGED << users, emailOf, links, keys, device, handlers, sessions >>

(* The portal restarts: one-time tokens of native apps and the memory of   *)
(* which OAuth login came from an app are gone, and so are the requests.   *)
PortalRestart ==
    /\ secrets' = [ x \in Secrets |->
         CASE secrets[x].kind = "mobile" /\ secrets[x].life = "live" -> [secrets[x] EXCEPT !.life = "expired"]
           [] secrets[x].kind = "native" -> [secrets[x] EXCEPT !.kind = "oauth"]
           [] OTHER -> secrets[x] ]
    /\ handlers' = {}
    /\ UNCHANGED << users, emailOf, links, keys, device, sessions >>

PortalAuthNext ==
    \/ \E u \in Emails, sec \in Secrets : Signup(u, sec) \/ ResendVerification(u, sec)
    \/ \E u \in Emails : Login(u) \/ Logout(u)
    \/ \E sec \in Secrets :
         \/ VerifyEmail(sec) \/ MobileComplete(sec) \/ Expire(sec)
         \/ \E native \in BOOLEAN : OauthStart(sec, native)
         \/ \E s \in Subjects, verified \in BOOLEAN : OauthCallback(sec, s, verified)
         \/ \E h \in handlers : OauthLink(h, sec)
         \/ LoginOptions(sec)
         \/ \E u \in Emails : RegisterOptions(sec, u) \/ SendMfaStart(sec, u)
         \/ \E k \in Passkeys :
              \/ LoginVerify(sec, k)
              \/ \E u \in Emails : RegisterVerify(sec, u, k) \/ SendMfaConfirm(sec, k, u)
    \/ \E h \in handlers : PasskeyDone(h)
    \/ \E s \in Subjects, e \in Emails : ProviderEmailChanges(s, e)
    \/ PortalRestart

PortalAuthSpec == PortalAuthInit /\ [][PortalAuthNext]_pavars

-----------------------------------------------------------------------------
(* The wallet of one user.  Sign-up and OAuth login make a starter wallet, *)
(* /wallet/onboarding lets the user replace its seed phrase and            *)
(* acknowledge that it is written down.  Each request generates its own    *)
(* phrase, stores it, and then registers its address with the control      *)
(* plane; requests interleave.                                             *)
VARIABLES
    onboarding,    \* portal_wallet_onboarding: the phrase whose hash is stored, acknowledged or not
    payoutOf,      \* the phrase whose address the control plane pays to
    shown,         \* phrases some answer has shown to the user
    ackedPhrase,   \* the phrase stored when the user last acknowledged
    walletReqs     \* requests under way

pwvars == << onboarding, payoutOf, shown, ackedPhrase, walletReqs >>

Used == {r.phrase : r \in walletReqs} \union shown \union {onboarding.phrase, payoutOf, ackedPhrase}
Replace(r, s) == walletReqs' = (walletReqs \ {r}) \union {s}

(* getWalletOnboardingByUserId, and what the answer to a request shows.    *)
HasWallet == onboarding.phrase # NoPhrase
ShownBy(r) == IF r.kind = "signup" THEN {r.phrase} ELSE {}

PortalWalletInit ==
    /\ onboarding = [phrase |-> NoPhrase, acked |-> FALSE]
    /\ payoutOf = NoPhrase /\ ackedPhrase = NoPhrase
    /\ shown = {} /\ walletReqs = {}

(* ensureStarterWalletForUser finds no wallet and generates a phrase.      *)
EnsureStarterWallet(kind, p) ==
    /\ ~HasWallet /\ p \notin Used
    /\ walletReqs' = walletReqs \union {[kind |-> kind, phrase |-> p, at |-> "create"]}
    /\ UNCHANGED << onboarding, payoutOf, shown, ackedPhrase >>

(* createWalletOnboarding: ON CONFLICT DO NOTHING.                         *)
CreateOnboarding(r) ==
    /\ r \in walletReqs /\ r.at = "create"
    /\ onboarding' = IF HasWallet THEN onboarding
                     ELSE [phrase |-> r.phrase, acked |-> FALSE]
    /\ Replace(r, [r EXCEPT !.at = "register"])
    /\ UNCHANGED << payoutOf, shown, ackedPhrase >>

(* POST /wallet/onboarding/setup-seed generates a phrase in any case.      *)
SetupSeed(p) ==
    /\ p \notin Used
    /\ walletReqs' = walletReqs \union {[kind |-> "setup", phrase |-> p, at |-> "upsert"]}
    /\ UNCHANGED << onboarding, payoutOf, shown, ackedPhrase >>

(* Faulty variant of Reseeded: the acknowledgement survives.               *)
ReseededKeepsAck(r) == [onboarding EXCEPT !.phrase = r.phrase]

(* The row upsertWalletOnboardingSeed writes.                              *)
Reseeded(r) == [phrase |-> r.phrase, acked |-> FALSE]

UpsertSeed(r) ==
    /\ r \in walletReqs /\ r.at = "upsert"
    /\ onboarding' = Reseeded(r)
    /\ Replace(r, [r EXCEPT !.at = "register"])
    /\ UNCHANGED << payoutOf, shown, ackedPhrase >>

(* POST /economy/wallets/register at the control plane, whose failure is   *)
(* swallowed, and the answer: only sign-up shows the phrase.               *)
RegisterWallet(r) ==
    /\ r \in walletReqs /\ r.at = "register"
    /\ walletReqs' = walletReqs \ {r}
    /\ payoutOf' \in {payoutOf, r.phrase}
    /\ shown' = shown \union ShownBy(r)
    /\ UNCHANGED << onboarding, ackedPhrase >>

(* A statement fails and the request with it.                              *)
WalletRequestFails(r) ==
    /\ r \in walletReqs /\ r.at # "register"
    /\ walletReqs' = walletReqs \ {r}
    /\ UNCHANGED << onboarding, payoutOf, shown, ackedPhrase >>

(* POST /wallet/onboarding/acknowledge *)
AcknowledgeOnboarding ==
    /\ HasWallet
    /\ onboarding' = [onboarding EXCEPT !.acked = TRUE]
    /\ ackedPhrase' = IF onboarding.acked THEN ackedPhrase ELSE onboarding.phrase
    /\ UNCHANGED << payoutOf, shown, walletReqs >>

PortalWalletNext ==
    \/ \E p \in Phrases :
         \/ SetupSeed(p)
         \/ \E kind \in {"signup", "oauth"} : EnsureStarterWallet(kind, p)
    \/ \E r \in walletReqs :
         CreateOnboarding(r) \/ UpsertSeed(r) \/ RegisterWallet(r) \/ WalletRequestFails(r)
    \/ AcknowledgeOnboarding
    \/ UNCHANGED pwvars   \* GET /wallet/onboarding, refused requests

PortalWalletSpec == PortalWalletInit /\ [][PortalWalletNext]_pwvars

-----------------------------------------------------------------------------
(* However requests repeat or overlap, a link, an OAuth state, a one-time  *)
(* token or a challenge is acted upon at most once.                        *)
SecretsActOnce == \A x \in Secrets : secrets[x].uses <= 1

(* A wallet counts as backed up only for the phrase that was stored when   *)
(* the user said so: whatever setups overlap, a replaced phrase has to be  *)
(* acknowledged anew.                                                      *)
AckIsForThisPhrase == onboarding.acked => ackedPhrase = onboarding.phrase

(* What a user's account rests on, through all overlaps: each secret acts  *)
(* once, and only the phrase that was acknowledged counts as backed up.    *)
AccountsSafe == SecretsActOnce /\ AckIsForThisPhrase

=============================================================================
