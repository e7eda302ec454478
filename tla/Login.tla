------------------------------- MODULE Login -------------------------------
(***************************************************************************)
(* Logging in to one account with its password and, when it has TOTP, a    *)
(* second factor: account_login, login_accepted, totp_func.login and the   *)
(* registration of TOTP.  Time goes by in TOTP steps of 30 seconds; a      *)
(* request sees at most one new step.  A browser keeps the session of its  *)
(* last login and the bypass cookie, and logs in with either, with the id  *)
(* of another session as its cookie, or with nothing; requests of one      *)
(* browser follow one another.  Sessions of redis are what Session and     *)
(* SessionManager model.                                                   *)
(***************************************************************************)
EXTENDS Integers, Sequences, FiniteSets

CONSTANTS
    Browser,
    KeyUsers,    \* browsers that send an API key instead of a session
    Secret,      \* TOTP secrets that may be drawn
    NoSecret,
    Backups,     \* config.LOGIN_MFA_BACKUP_CODES
    MfaRequired, \* config.LOGIN_MFA_REQUIRED
    Ticks,       \* steps before and after in which a code is valid
    ReplaySteps, \* 60 seconds: how long a used code is remembered
    ShortSteps,  \* 120 seconds: sessions that wait for a code
    CookieSteps, \* config.LOGIN_MFA_COOKIE_LIMIT
    Never,       \* a time that was not
    MaxStep,     \* bound: the model stops here
    MaxUses,     \* bound: one-time passwords accepted
    MaxBatches   \* bound: registrations of TOTP

ASSUME LoginAssumption ==
    /\ KeyUsers \subseteq Browser
    /\ MfaRequired \in BOOLEAN
    /\ Never \notin Int
    /\ {Backups, Ticks, ReplaySteps, ShortSteps, CookieSteps,
        MaxStep, MaxUses, MaxBatches} \subseteq Nat
    /\ ReplaySteps >= 2  \* longer than a request

VARIABLES
    step,     \* time
    acct,     \* the account: its secret, its backup codes and whether they are
              \* encrypted, registrations so far, mustChange; muted: its primary
              \* contact is disabled
    ses,      \* per browser: its session
    cookie,   \* per browser: when its bypass cookie ends
    offer,    \* per browser: the secret it was offered to register
    drawn,    \* secrets that were drawn
    used,     \* the one-time passwords accepted on each path, how many steps ago,
              \* and whether redis still holds the replay key
    attempt   \* per browser: the request in progress

loginVars == <<step, acct, ses, cookie, offer, drawn, used, attempt>>

Quiet == [at |-> "idle"]
NoSes == [roles |-> {}, until |-> 0, password |-> FALSE, otp |-> Never, mfa |-> FALSE,
          lent |-> FALSE]
NoCookie == 0
NoOffer == [until |-> 0]
\* The codes drawn by the n-th registration.
AllCodes(n) == {<<n, "backup", i>> : i \in 1..Backups}

LoginInit ==
    /\ step = 0
    /\ acct \in [secret : {NoSecret}, codes : {{}}, sealed : {TRUE}, batch : {0},
                 mustChange : BOOLEAN, muted : BOOLEAN]
    /\ acct.mustChange # acct.muted  \* a new account, or one nobody can enter
    /\ ses = [b \in Browser |-> NoSes]
    /\ cookie = [b \in Browser |-> NoCookie]
    /\ offer = [b \in Browser |-> NoOffer]
    /\ drawn = {}
    /\ used = {}
    /\ attempt = [b \in Browser |-> Quiet]

-----------------------------------------------------------------------------
Now(b, at) == attempt[b].at = at
Answer(b) == attempt' = [attempt EXCEPT ![b] = Quiet]
Then(b, at) == attempt' = [attempt EXCEPT ![b].at = at]

Live(b) == ses[b].until > step
Has(b, role) == Live(b) /\ role \in ses[b].roles
Totp == acct.secret # NoSecret

\* totp_bypass asks whether the cookie is the id of a session of the user, and any
\* session will do: the one that was made for it, or one of a login, the one that
\* waits for a code included.
Sent == {"nothing", "cookie", "session"}
Bypass(b, sent) ==
    \/ sent = "cookie" /\ cookie[b] > step
    \/ sent = "session" /\ \E d \in Browser : Live(d)

\* login_accepted: the roles, in the order of its conditions.
AnyCookie(b, pending, sent) ==                       \* mutant: cookie not looked up
    pending \/ sent # "nothing"
Asked(b, pending, sent) == pending \/ Bypass(b, sent)
RolesFor(b, local, pending, sent) ==
    CASE local /\ acct.mustChange -> {"person", "pwchange"}
      [] local /\ ~acct.mustChange /\ ~Totp /\ MfaRequired -> {"mfarequired"}
      [] local /\ ~acct.mustChange /\ Totp /\ ~Asked(b, pending, sent) -> {"pendingtotp"}
      [] OTHER -> IF acct.muted THEN {} ELSE {"user"}

\* The sessions of 300 seconds and more outlast the model.
EndOfLife(roles) == IF roles = {"pendingtotp"} THEN step + ShortSteps ELSE MaxStep + 1

\* The session of the login; whether a password stands behind it, how long ago this
\* browser gave the one-time password it rests on, and whether another session did.
Granted(b, local, pending, sent, password, otp) ==
    LET roles == RolesFor(b, local, pending, sent) IN
    [roles |-> roles, until |-> EndOfLife(roles), password |-> password,
     otp |-> IF otp = Never THEN Never ELSE step - otp, mfa |-> Totp /\ local,
     lent |-> ~pending /\ sent = "session" /\ Bypass(b, sent)]

\* The right password, in a request without the session of an earlier login (with one
\* that waits for a code the password is not looked at).
LogInWith(b, sent) ==
    /\ Now(b, "idle") /\ b \notin KeyUsers
    /\ ses' = [ses EXCEPT ![b] =
          Granted(b, TRUE, FALSE, sent, TRUE,
                  IF sent = "cookie" /\ Bypass(b, sent) THEN cookie[b] - CookieSteps ELSE Never)]
    /\ UNCHANGED <<step, acct, cookie, offer, drawn, used, attempt>>

\* change_password ends the obligation to do so.
ChangePassword(b) ==
    /\ Has(b, "pwchange")
    /\ acct.mustChange
    /\ acct' = [acct EXCEPT !.mustChange = FALSE]
    /\ UNCHANGED <<step, ses, cookie, offer, drawn, used, attempt>>

-----------------------------------------------------------------------------
(* totp_func.login *)

Path(b) == IF b \in KeyUsers THEN "apikey" ELSE "session"
Knows(b) == b \notin KeyUsers /\ ses[b].password
MayPresent(b) ==
    /\ Now(b, "idle")
    /\ b \in KeyUsers \/ Has(b, "pendingtotp")

\* A code of the time step k: valid from Ticks steps before to Ticks after it.
PresentOtp(b, k) ==
    /\ MayPresent(b) /\ Totp
    /\ step \in (k - Ticks)..(k + Ticks)
    /\ attempt' = [attempt EXCEPT ![b] =
          [at |-> "replay", word |-> <<acct.secret, "otp", k>>,
           password |-> Knows(b), old |-> FALSE]]
    /\ UNCHANGED <<step, acct, ses, cookie, offer, drawn, used>>

\* A backup code.  What is not encrypted decrypts to nothing that matches.
Opens(c) == acct.sealed /\ c \in acct.codes
PresentCode(b, c) ==
    /\ MayPresent(b)
    /\ Opens(c)
    /\ attempt' = [attempt EXCEPT ![b] =
          [at |-> "snip", word |-> c, left |-> acct.codes \ {c},
           password |-> Knows(b), old |-> FALSE]]
    /\ UNCHANGED <<step, acct, ses, cookie, offer, drawn, used>>

\* The others are written back as they came out of the decryption.
Snip(b) ==
    /\ Now(b, "snip")
    /\ acct' = [acct EXCEPT !.codes = attempt[b].left, !.sealed = FALSE]
    /\ Then(b, "replay")
    /\ UNCHANGED <<step, ses, cookie, offer, drawn, used>>

\* Replay keys carry the account of the session, which an API key does not have.
SameWord(b) == {use \in used : use.path = Path(b) /\ use.word = attempt[b].word}
Unblocked(b) == FALSE                                \* mutant: SET without NX
Replayed(b) == \E use \in SameWord(b) : use.kept
Replay(b) ==
    /\ Now(b, "replay")
    /\ IF Replayed(b)
       THEN Answer(b) /\ UNCHANGED used
       ELSE /\ Cardinality(used \ SameWord(b)) < MaxUses
            /\ used' = (used \ SameWord(b)) \cup
                  {[path |-> Path(b), word |-> attempt[b].word, ago |-> 0, kept |-> TRUE]}
            /\ Then(b, "accept")
    /\ UNCHANGED <<step, acct, ses, cookie, offer, drawn>>

\* The cookie's session and then the login's, for which the pending session is
\* read once more.  An API key names no method, so no condition on local holds.
Accept(b, sent) ==
    /\ Now(b, "accept")
    /\ ses' = [ses EXCEPT ![b] =
          Granted(b, b \notin KeyUsers, Has(b, "pendingtotp"), sent,
                  attempt[b].password, step)]
    /\ cookie' = IF CookieSteps = 0 THEN cookie
                 ELSE [cookie EXCEPT ![b] = step + CookieSteps]
    /\ Answer(b)
    /\ UNCHANGED <<step, acct, offer, drawn, used>>

-----------------------------------------------------------------------------
(* AuthTOTP, and the update of an account that ends TOTP *)

\* basic(): any session, whatever its roles.
MayRegister(b) == Live(b)

Generate(b, s) ==
    /\ Now(b, "idle") /\ MayRegister(b)
    /\ ~Totp
    /\ s \notin drawn
    /\ drawn' = drawn \cup {s}
    /\ offer' = [offer EXCEPT ![b] = [secret |-> s, until |-> step + ShortSteps]]
    /\ UNCHANGED <<step, acct, ses, cookie, used, attempt>>

\* With a code of the offered secret at the present step.
RegisterTotp(b) ==
    /\ Now(b, "idle") /\ MayRegister(b)
    /\ offer[b].until > step
    /\ ~Totp
    /\ acct.batch < MaxBatches
    /\ attempt' = [attempt EXCEPT ![b] =
          [at |-> "register", secret |-> offer[b].secret, old |-> FALSE]]
    /\ UNCHANGED <<step, acct, ses, cookie, offer, drawn, used>>

Registered(b) ==
    /\ Now(b, "register")
    /\ acct' = [acct EXCEPT !.secret = attempt[b].secret, !.sealed = TRUE,
                            !.batch = @ + 1, !.codes = AllCodes(acct.batch + 1)]
    /\ cookie' = [cookie EXCEPT ![b] = NoCookie]
    /\ Answer(b)
    /\ UNCHANGED <<step, ses, offer, drawn, used>>

\* update of the account with totp off; the backup codes stay.
Revoke(b) ==
    /\ Now(b, "idle") /\ Has(b, "user") /\ Totp
    /\ acct' = [acct EXCEPT !.secret = NoSecret]
    /\ UNCHANGED <<step, ses, cookie, offer, drawn, used, attempt>>

\* An exception: redis or the database out of reach, no session could be made.
BreakOff(b) ==
    /\ ~Now(b, "idle")
    /\ Answer(b)
    /\ UNCHANGED <<step, acct, ses, cookie, offer, drawn, used>>

\* A key that ends within the new step may still be there.
NextStep ==
    /\ step < MaxStep
    /\ \A b \in Browser : ~Now(b, "idle") => ~attempt[b].old
    /\ step' = step + 1
    /\ \E late \in BOOLEAN :
          used' = {[use EXCEPT !.ago = IF @ < ReplaySteps THEN @ + 1 ELSE @,
                               !.kept = @ /\ (use.ago + 1 < ReplaySteps
                                              \/ (late /\ use.ago < ReplaySteps))] :
                   use \in used}
    /\ attempt' = [b \in Browser |-> IF Now(b, "idle") THEN Quiet
                                     ELSE [attempt[b] EXCEPT !.old = TRUE]]
    /\ ses' = [b \in Browser |-> IF ses[b].until > step' THEN ses[b] ELSE NoSes]
    /\ cookie' = [b \in Browser |-> IF cookie[b] > step' THEN cookie[b] ELSE NoCookie]
    /\ offer' = [b \in Browser |-> IF offer[b].until > step' THEN offer[b] ELSE NoOffer]
    /\ UNCHANGED <<acct, drawn>>

LoginOver ==
    /\ step = MaxStep
    /\ \A b \in Browser : Now(b, "idle") \/ Now(b, "replay")
    /\ UNCHANGED loginVars

LoginNext ==
    \/ \E b \in Browser :
         \/ \E sent \in Sent : LogInWith(b, sent) \/ Accept(b, sent)
         \/ ChangePassword(b)
         \/ \E k \in 0..(MaxStep + Ticks) : PresentOtp(b, k)
         \/ \E n \in 1..MaxBatches : \E c \in AllCodes(n) : PresentCode(b, c)
         \/ Snip(b) \/ Replay(b)
         \/ \E s \in Secret : Generate(b, s)
         \/ RegisterTotp(b) \/ Registered(b) \/ Revoke(b) \/ BreakOff(b)
    \/ NextStep
    \/ LoginOver

LoginSpec == LoginInit /\ [][LoginNext]_loginVars

-----------------------------------------------------------------------------
(***************************************************************************)
(* A user's session, granted while the account had TOTP, rests on a right  *)
(* password, and on a one-time password that this browser gave no longer   *)
(* ago than the bypass cookie lives, however many steps, expired sessions  *)
(* and registrations lie between them, unless the id of another session of *)
(* the user was sent as the cookie.                                        *)
(***************************************************************************)
TwoFactors ==
    \A b \in Browser : ("user" \in ses[b].roles /\ ses[b].mfa) =>
        /\ ses[b].password
        /\ ses[b].otp \in 0..CookieSteps \/ ses[b].lent

(***************************************************************************)
(* "Block replay of same otp for next minute": the same word is accepted   *)
(* again on the same path a minute later at the earliest (which the window *)
(* of three steps allows once), and a backup code never.                   *)
(***************************************************************************)
ReplayBlocked ==
    [][\A b \in Browser : (Now(b, "replay") /\ attempt'[b].at = "accept") =>
          \A use \in SameWord(b) : use.word[2] = "otp" /\ use.ago = ReplaySteps]_loginVars

(***************************************************************************)
(* "snip the matching code": as long as the account keeps its secret, the  *)
(* backup codes that came with it and were not used still open it.         *)
(***************************************************************************)
OtherCodesOpen ==
    Totp => \A c \in AllCodes(acct.batch) :
        \/ Opens(c)
        \/ \E b \in Browser : Now(b, "replay") /\ attempt[b].word = c
        \/ \E use \in used : use.word = c
=============================================================================
