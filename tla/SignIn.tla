------------------------------ MODULE SignIn ------------------------------
(***************************************************************************)
(* Signing in with a password and a second factor, the sessions that come  *)
(* of it, and the revocations that race with it: internal/auth (login.go,  *)
(* challenge.go, session.go, totp.go, recovery.go, cache.go, users.go and  *)
(* their handlers) over the rows internal/db/state keeps.                  *)
(*                                                                         *)
(* One account. A request is a sequence of steps, one for each statement   *)
(* the store runs or each read of the generation counter; requests, the    *)
(* owner's and the administrator's changes interleave at those steps.      *)
(* Passwords, second-factor secrets and recovery codes are numbered as     *)
(* they are chosen; a code is the pair of the secret and the step that     *)
(* derives it. The clock counts thirty-second steps.                       *)
(***************************************************************************)
EXTENDS Integers, FiniteSets, Functions

CONSTANTS SiRequests,   \* the request slots that run at once
          SiBudget,     \* how many requests a behaviour makes
          SiTokens,     \* the session tokens that may be minted
          SiMaxStep,    \* the last step of the clock
          SiMaxLag,     \* how many steps pass between a stamp and its claim
          ChallengeTTL, \* how long a challenge opens, in steps
          SessionIdle,  \* the idle window of a session, in steps
          SessionLife   \* its absolute lifetime, in steps

VARIABLES siRow,     \* the account row: password, its cost, disabled, linked, secret
          siUsed,    \* totp_used: the steps the replay guard holds
          siCodes,   \* the unused recovery codes
          siSess,    \* the session rows by token
          siGone,    \* the tokens a revocation has deleted
          siGen,     \* the generation counter
          siCred,    \* the credential cache: password -> decision
          siNotes,   \* the challenges handed out: when each was signed
          siSpent,   \* the one-time codes accepted so far
          siTwice,   \* the ones accepted again
          siClock,
          siReq,     \* the requests in progress
          siLeft     \* how many more may start

siVars == <<siRow, siUsed, siCodes, siSess, siGone, siGen, siCred, siNotes, siSpent, siTwice,
            siClock, siReq, siLeft>>

totpWindow == 1

SiIdle == [op |-> "idle"]

SiInit ==
    /\ \E weak \in BOOLEAN, secret \in 0 .. 1 :
          siRow = [pw |-> 1, weak |-> weak, disabled |-> FALSE, linked |-> FALSE,
                   secret |-> secret, secrets |-> secret, sets |-> 1]
    /\ siUsed = {} /\ siCodes = {1} /\ siSess = <<>> /\ siGone = {} /\ siGen = 0
    /\ siCred = <<>> /\ siNotes = {} /\ siSpent = {} /\ siTwice = {} /\ siClock = 1
    /\ siReq = [q \in SiRequests |-> SiIdle] /\ siLeft = SiBudget

Passwords == 1 .. 2
Secrets == 0 .. 2

Begins(q) == siReq[q] = SiIdle /\ siLeft > 0 /\ siLeft' = siLeft - 1

At(q, op, step) == siReq[q].op = op /\ siReq[q].step = step

Becomes(q, req) == siReq' = [siReq EXCEPT ![q] = req]

Goes(q, step) == siReq' = [siReq EXCEPT ![q].step = step]

(***************************************************************************)
(* One-time codes                                                          *)
(***************************************************************************)

Accepts(code) ==
    /\ siSpent' = siSpent \union {code}
    /\ siTwice' = siTwice \union ({code} \intersect siSpent)

Nothing == UNCHANGED <<siSpent, siTwice>>

TotpCode(secret, step) == [secret |-> secret, step |-> step]

RecoveryCode(set) == [set |-> set]

TotpCodes == [secret : Secrets \ {0}, step : 0 .. SiMaxStep + 1]

\* The step of the drift window that derives the presented code, if any.
Matches(secret, code, stamp) ==
    code.secret = secret /\ code.step \in stamp - totpWindow .. stamp + totpWindow

\* The guard forgets a step while the drift window still accepts it.
MutClaimTOTPStep(code, oldestKept) ==
    /\ siUsed' = {s \in siUsed \union {code.step} : s > oldestKept}
    /\ IF code.step \in siUsed THEN Nothing ELSE Accepts(code)

\* One transaction: the insert claims the step, then the rows the window has left are
\* pruned. oldestKept comes from the moment the request was stamped.
ClaimTOTPStep(code, oldestKept) ==
    /\ siUsed' = {s \in siUsed \union {code.step} : s >= oldestKept}
    /\ IF code.step \in siUsed THEN Nothing ELSE Accepts(code)

\* The code is looked up by the step before and the delete accepts whatever it found then.
MutConsumeRecoveryCode(set) ==
    /\ siCodes' = siCodes \ {set}
    /\ Accepts(RecoveryCode(set))

\* The delete is the acceptance.
ConsumeRecoveryCode(set) ==
    /\ siCodes' = siCodes \ {set}
    /\ IF set \in siCodes THEN Accepts(RecoveryCode(set)) ELSE Nothing

\* The whole set is replaced by a fresh one.
ReplaceRecoveryCodes ==
    /\ siCodes' = {siRow.sets + 1}
    /\ siRow' = [siRow EXCEPT !.sets = @ + 1]

(***************************************************************************)
(* Sessions                                                                *)
(***************************************************************************)

NewToken == CHOOSE t \in SiTokens \ (DOMAIN siSess \union siGone) : TRUE

TokensLeft == SiTokens \ (DOMAIN siSess \union siGone) # {}

CreateSession(q) ==
    /\ TokensLeft
    /\ siSess' = [t \in DOMAIN siSess \union {NewToken} |->
                    IF t = NewToken THEN [seen |-> siClock, absolute |-> siClock + SessionLife]
                    ELSE siSess[t]]

\* DeleteSession, DeleteSessionOfUser and DeleteSessionsOf differ in the rows they name.
DeleteSessions(tokens) ==
    /\ siSess' = Restrict(siSess, DOMAIN siSess \ tokens)
    /\ siGone' = siGone \union (tokens \intersect DOMAIN siSess)

DeleteSessionsOf == DeleteSessions(DOMAIN siSess)

\* The stamp written as an upsert of the row the lookup read.
MutTouchSession(t, row, now) ==
    siSess' = [u \in DOMAIN siSess \union {t} |->
                 IF u = t THEN [row EXCEPT !.seen = now] ELSE siSess[u]]

\* An UPDATE: a row that is gone stays gone.
TouchSession(t, row, now) ==
    siSess' = IF t \in DOMAIN siSess THEN [siSess EXCEPT ![t].seen = now] ELSE siSess

bumpGeneration == siGen' = siGen + 1

(***************************************************************************)
(* Login: the password screen                                              *)
(***************************************************************************)

\* The account is read once and its row decides everything that follows.
Login(q) ==
    /\ Begins(q)
    /\ \E pw \in Passwords : Becomes(q, [op |-> "login", step |-> "verify", pw |-> pw, acct |-> siRow])
    /\ UNCHANGED <<siRow, siUsed, siCodes, siSess, siGone, siGen, siCred, siNotes, siSpent, siTwice, siClock>>

\* The provider link is read, then the hash the row carried is verified. A hash of older
\* parameters is replaced by one of the password just presented.
Verify(q) ==
    /\ At(q, "login", "verify")
    /\ LET r == siReq[q] IN
       CASE siRow.linked \/ r.pw # r.acct.pw -> Becomes(q, SiIdle)
         [] r.acct.weak -> Goes(q, "rehash")
         [] OTHER -> Goes(q, "decide")
    /\ UNCHANGED <<siRow, siUsed, siCodes, siSess, siGone, siGen, siCred, siNotes, siSpent, siTwice, siClock, siLeft>>

\* Login calls SetPassword with the presented password: three writes, then the sign-in goes on.
Rehash(q) ==
    /\ At(q, "login", "rehash")
    /\ siRow' = [siRow EXCEPT !.pw = siReq[q].pw, !.weak = FALSE]
    /\ Goes(q, "rehashSessions")
    /\ UNCHANGED <<siUsed, siCodes, siSess, siGone, siGen, siCred, siNotes, siSpent, siTwice, siClock, siLeft>>

RehashSessions(q) ==
    /\ At(q, "login", "rehashSessions")
    /\ DeleteSessionsOf
    /\ Goes(q, "rehashBump")
    /\ UNCHANGED <<siRow, siUsed, siCodes, siGen, siCred, siNotes, siSpent, siTwice, siClock, siLeft>>

RehashBump(q) ==
    /\ At(q, "login", "rehashBump")
    /\ bumpGeneration
    /\ Goes(q, "decide")
    /\ UNCHANGED <<siRow, siUsed, siCodes, siSess, siGone, siCred, siNotes, siSpent, siTwice, siClock, siLeft>>

\* The snapshot's disabled flag refuses; an enrolled factor answers with a signed challenge;
\* otherwise the session is stored.
Decide(q) ==
    /\ At(q, "login", "decide")
    /\ LET acct == siReq[q].acct IN
       \/ /\ acct.disabled
          /\ UNCHANGED <<siSess, siNotes>>
       \/ /\ ~acct.disabled /\ acct.secret # 0
          /\ siNotes' = siNotes \union {siClock}
          /\ UNCHANGED siSess
       \/ /\ ~acct.disabled /\ acct.secret = 0
          /\ CreateSession(q)
          /\ UNCHANGED siNotes
    /\ Becomes(q, SiIdle)
    /\ UNCHANGED <<siRow, siUsed, siCodes, siGone, siGen, siCred, siSpent, siTwice, siClock, siLeft>>

(***************************************************************************)
(* LoginTOTP: the code screen                                              *)
(***************************************************************************)

OpenChallenge(issued) == siClock >= issued /\ siClock - issued <= ChallengeTTL

\* VerifyTOTP reads the sealed secret and looks for the code in the window of its stamp;
\* a recovery code is of another length and never gets that far. A code that does not match
\* is tried as a recovery code, which no recovery code is.
LoginTOTP(q) ==
    /\ Begins(q)
    /\ \E issued \in siNotes : OpenChallenge(issued)
    /\ \/ \E code \in TotpCodes :
             /\ Matches(siRow.secret, code, siClock)
             /\ Becomes(q, [op |-> "totp", step |-> "claim", code |-> code, stamp |-> siClock])
       \/ \E set \in 1 .. siRow.sets :
             Becomes(q, [op |-> "totp", step |-> "recover", set |-> set])
    /\ UNCHANGED <<siRow, siUsed, siCodes, siSess, siGone, siGen, siCred, siNotes, siSpent, siTwice, siClock>>

Claim(q) ==
    /\ At(q, "totp", "claim")
    /\ ClaimTOTPStep(siReq[q].code, siReq[q].stamp - totpWindow)
    /\ IF siReq[q].code.step \in siUsed THEN Becomes(q, SiIdle) ELSE Goes(q, "create")
    /\ UNCHANGED <<siRow, siCodes, siSess, siGone, siGen, siCred, siNotes, siClock, siLeft>>

UseRecoveryCode(q) ==
    /\ At(q, "totp", "recover")
    /\ ConsumeRecoveryCode(siReq[q].set)
    /\ IF siReq[q].set \in siCodes THEN Goes(q, "create") ELSE Becomes(q, SiIdle)
    /\ UNCHANGED <<siRow, siUsed, siSess, siGone, siGen, siCred, siNotes, siClock, siLeft>>

GrantSession(q) ==
    /\ At(q, "totp", "create")
    /\ CreateSession(q)
    /\ Becomes(q, SiIdle)
    /\ UNCHANGED <<siRow, siUsed, siCodes, siGone, siGen, siCred, siNotes, siSpent, siTwice, siClock, siLeft>>

(***************************************************************************)
(* LookupSession                                                           *)
(***************************************************************************)

Expired(row) == siClock >= row.absolute \/ siClock > row.seen + SessionIdle

\* The row is read; an expired one is swept.
LookupSession(q) ==
    /\ Begins(q)
    /\ \E t \in DOMAIN siSess :
          IF Expired(siSess[t])
          THEN DeleteSessions({t}) /\ UNCHANGED siReq
          ELSE /\ Becomes(q, [op |-> "lookup", step |-> "account", token |-> t, row |-> siSess[t],
                              now |-> siClock])
               /\ UNCHANGED <<siSess, siGone>>
    /\ UNCHANGED <<siRow, siUsed, siCodes, siGen, siCred, siNotes, siSpent, siTwice, siClock>>

\* The account is read, then the stamp is written.
LookupAccount(q) ==
    /\ At(q, "lookup", "account")
    /\ IF siRow.disabled THEN Becomes(q, SiIdle) ELSE Goes(q, "touch")
    /\ UNCHANGED <<siRow, siUsed, siCodes, siSess, siGone, siGen, siCred, siNotes, siSpent, siTwice, siClock, siLeft>>

Touch(q) ==
    /\ At(q, "lookup", "touch")
    /\ TouchSession(siReq[q].token, siReq[q].row, siReq[q].now)
    /\ Becomes(q, SiIdle)
    /\ UNCHANGED <<siRow, siUsed, siCodes, siGone, siGen, siCred, siNotes, siSpent, siTwice, siClock, siLeft>>

(***************************************************************************)
(* VerifyPassword: a credential presented per request                      *)
(***************************************************************************)

\* The generation is read when the decision is stored.
MutStampOf(q) == siGen

\* The generation is read before the account, so a decision is stamped with a generation
\* no younger than the row it rests on.
StampOf(q) == siReq[q].gen

credLookup(pw) == pw \in DOMAIN siCred /\ siCred[pw].gen = siGen

VerifyPassword(q) ==
    /\ Begins(q)
    /\ \E pw \in Passwords :
          /\ ~credLookup(pw)
          /\ Becomes(q, [op |-> "cred", step |-> "account", pw |-> pw, gen |-> siGen])
    /\ UNCHANGED <<siRow, siUsed, siCodes, siSess, siGone, siGen, siCred, siNotes, siSpent, siTwice, siClock>>

VerifyAccount(q) ==
    /\ At(q, "cred", "account")
    /\ LET r == siReq[q] IN
       Becomes(q, [op |-> "cred", step |-> "store", pw |-> r.pw, gen |-> r.gen,
                   accepted |-> ~siRow.linked /\ r.pw = siRow.pw, disabled |-> siRow.disabled])
    /\ UNCHANGED <<siRow, siUsed, siCodes, siSess, siGone, siGen, siCred, siNotes, siSpent, siTwice, siClock, siLeft>>

credStore(q) ==
    /\ At(q, "cred", "store")
    /\ LET r == siReq[q]
           decision == [accepted |-> r.accepted, disabled |-> r.disabled, gen |-> StampOf(q)]
       IN  siCred' = [p \in DOMAIN siCred \union {r.pw} |-> IF p = r.pw THEN decision ELSE siCred[p]]
    /\ Becomes(q, SiIdle)
    /\ UNCHANGED <<siRow, siUsed, siCodes, siSess, siGone, siGen, siNotes, siSpent, siTwice, siClock, siLeft>>

(***************************************************************************)
(* Changes: the write commits, then the generation moves                   *)
(***************************************************************************)

Bumping == [op |-> "change", step |-> "bump"]

\* SetPassword after reconfirming: the hash, then the sessions, then the generation.
SetPassword(q) ==
    /\ Begins(q)
    /\ siRow' = [siRow EXCEPT !.pw = 3 - siRow.pw, !.weak = FALSE]
    /\ Becomes(q, [op |-> "change", step |-> "sessions"])
    /\ UNCHANGED <<siUsed, siCodes, siSess, siGone, siGen, siCred, siNotes, siSpent, siTwice, siClock>>

EndSessions(q) ==
    /\ At(q, "change", "sessions")
    /\ DeleteSessionsOf
    /\ Goes(q, "bump")
    /\ UNCHANGED <<siRow, siUsed, siCodes, siGen, siCred, siNotes, siSpent, siTwice, siClock, siLeft>>

\* One transaction sets the flag and, disabling, deletes the sessions.
SetAccountDisabled(q) ==
    /\ Begins(q)
    /\ siRow' = [siRow EXCEPT !.disabled = ~@]
    /\ IF siRow.disabled THEN UNCHANGED <<siSess, siGone>> ELSE DeleteSessionsOf
    /\ Becomes(q, Bumping)
    /\ UNCHANGED <<siUsed, siCodes, siGen, siCred, siNotes, siSpent, siTwice, siClock>>

\* CreateOIDCLink and RemoveOIDCLink move the link and then the flag, and bump.
SetOIDCLink(q) ==
    /\ Begins(q)
    /\ siRow' = [siRow EXCEPT !.linked = ~@]
    /\ Becomes(q, Bumping)
    /\ UNCHANGED <<siUsed, siCodes, siSess, siGone, siGen, siCred, siNotes, siSpent, siTwice, siClock>>

\* RevokeSession, RevokeSessionByHash and RevokeSessionsOf.
RevokeSession(q) ==
    /\ Begins(q)
    /\ \E tokens \in {{t} : t \in DOMAIN siSess} \union {DOMAIN siSess} : DeleteSessions(tokens)
    /\ Becomes(q, Bumping)
    /\ UNCHANGED <<siRow, siUsed, siCodes, siGen, siCred, siNotes, siSpent, siTwice, siClock>>

\* The secret replaces whatever was enrolled; the replay guard is left as it is.
EnrollTOTP(q) ==
    /\ Begins(q) /\ siRow.secrets < 2
    /\ siRow' = [siRow EXCEPT !.secret = siRow.secrets + 1, !.secrets = @ + 1]
    /\ Becomes(q, [op |-> "enroll", step |-> "bump", secret |-> siRow.secrets + 1])
    /\ UNCHANGED <<siUsed, siCodes, siSess, siGone, siGen, siCred, siNotes, siSpent, siTwice, siClock>>

\* TOTPEnroll then spends the code that proved the secret, whatever the guard answers, and
\* mints the recovery set; a factor removed in between ends the request.
EnrollBump(q) ==
    /\ At(q, "enroll", "bump")
    /\ bumpGeneration
    /\ \/ \E code \in TotpCodes :
             /\ code.secret = siReq[q].secret
             /\ Matches(siRow.secret, code, siClock)
             /\ Becomes(q, [op |-> "enroll", step |-> "claim", code |-> code, stamp |-> siClock])
       \/ /\ siRow.secret # siReq[q].secret
          /\ IF siRow.secret = 0 THEN Becomes(q, SiIdle)
             ELSE Becomes(q, [op |-> "enroll", step |-> "codes"])
    /\ UNCHANGED <<siRow, siUsed, siCodes, siSess, siGone, siCred, siNotes, siSpent, siTwice, siClock, siLeft>>

EnrollClaim(q) ==
    /\ At(q, "enroll", "claim")
    /\ ClaimTOTPStep(siReq[q].code, siReq[q].stamp - totpWindow)
    /\ Becomes(q, [op |-> "enroll", step |-> "codes"])
    /\ UNCHANGED <<siRow, siCodes, siSess, siGone, siGen, siCred, siNotes, siClock, siLeft>>

GenerateRecoveryCodes(q) ==
    /\ At(q, "enroll", "codes")
    /\ ReplaceRecoveryCodes
    /\ Becomes(q, SiIdle)
    /\ UNCHANGED <<siUsed, siSess, siGone, siGen, siCred, siNotes, siSpent, siTwice, siClock, siLeft>>

\* The secret and the replay guard go together.
DisableTOTP(q) ==
    /\ Begins(q) /\ siRow.secret # 0
    /\ siRow' = [siRow EXCEPT !.secret = 0] /\ siUsed' = {}
    /\ Becomes(q, Bumping)
    /\ UNCHANGED <<siCodes, siSess, siGone, siGen, siCred, siNotes, siSpent, siTwice, siClock>>

ChangeBump(q) ==
    /\ At(q, "change", "bump")
    /\ bumpGeneration
    /\ Becomes(q, SiIdle)
    /\ UNCHANGED <<siRow, siUsed, siCodes, siSess, siGone, siCred, siNotes, siSpent, siTwice, siClock, siLeft>>

SiTick ==
    /\ siClock < SiMaxStep
    /\ \A q \in SiRequests :
          "stamp" \in DOMAIN siReq[q] /\ siReq[q].step = "claim"
             => siClock + 1 - siReq[q].stamp <= SiMaxLag
    /\ siClock' = siClock + 1
    /\ UNCHANGED <<siRow, siUsed, siCodes, siSess, siGone, siGen, siCred, siNotes, siSpent, siTwice, siReq, siLeft>>

SiNext ==
    \/ SiTick
    \/ \E q \in SiRequests :
         \/ Login(q) \/ Verify(q) \/ Rehash(q) \/ RehashSessions(q) \/ RehashBump(q) \/ Decide(q)
         \/ LoginTOTP(q) \/ Claim(q) \/ UseRecoveryCode(q) \/ GrantSession(q)
         \/ LookupSession(q) \/ LookupAccount(q) \/ Touch(q)
         \/ VerifyPassword(q) \/ VerifyAccount(q) \/ credStore(q)
         \/ SetPassword(q) \/ EndSessions(q) \/ SetAccountDisabled(q) \/ SetOIDCLink(q)
         \/ RevokeSession(q) \/ EnrollTOTP(q) \/ EnrollBump(q) \/ EnrollClaim(q)
         \/ GenerateRecoveryCodes(q) \/ DisableTOTP(q) \/ ChangeBump(q)

SiSpec == SiInit /\ [][SiNext]_siVars

(***************************************************************************)
(* Properties                                                              *)
(***************************************************************************)

\* Every variable has its type.
SiTypeOK ==
    /\ siRow \in [pw : Passwords, weak : BOOLEAN, disabled : BOOLEAN, linked : BOOLEAN,
                  secret : Secrets, secrets : Secrets, sets : Nat]
    /\ siUsed \subseteq 0 .. SiMaxStep + 1 /\ siCodes \subseteq 1 .. siRow.sets
    /\ DOMAIN siSess \subseteq SiTokens /\ siGone \subseteq SiTokens
    /\ siGen \in Nat /\ DOMAIN siCred \subseteq Passwords /\ siNotes \subseteq 0 .. SiMaxStep

\* A recovery code opens one sign-in, and so does a second-factor code while its factor stays
\* enrolled, however the requests that present them race (totp.go: "a code presented twice inside
\* its window is refused the second time"; recovery.go: "single-use"). Removing the factor clears
\* the guard under a request that has matched its code and not claimed it yet.
CodesSpentOnce == \A code \in siTwice : "secret" \in DOMAIN code /\ code.secret # siRow.secret

\* A session a revocation deleted never comes back, whatever a lookup that had read its row
\* goes on to write (session.go, RevokeSession).
RevokedStaysDead == siGone \intersect DOMAIN siSess = {}

\* A change whose write has committed and whose generation has not moved yet.
Changing ==
    \E q \in SiRequests :
       \/ siReq[q].op = "change"
       \/ siReq[q].op = "enroll" /\ siReq[q].step = "bump"
       \/ siReq[q].op = "login" /\ siReq[q].step \in {"rehashSessions", "rehashBump"}

\* Between changes, a cached decision that would be served agrees with the account row:
\* no password outlives its replacement in the cache, and no refusal outlives its reason
\* (auth.go: "a revocation is immediate on a surface that never re-reads the database").
CacheAgrees ==
    ~Changing => \A pw \in DOMAIN siCred :
       siCred[pw].gen = siGen =>
          /\ siCred[pw].accepted <=> (pw = siRow.pw /\ ~siRow.linked)
          /\ siCred[pw].disabled = siRow.disabled

=============================================================================

