----------------------------- MODULE AuthSession -----------------------------
(***************************************************************************)
(* The login at bilibili: internal/modules/bilibili/auth.go and session.go *)
(* with the two routes of internal/controllers/auth.                       *)
(*                                                                         *)
(* A request starts a QR login in the background; the session, a snapshot  *)
(* behind an atomic pointer, says where it is.  Every login brings its own *)
(* loop that refreshes the cookies, and the refresh and the login write    *)
(* the same cookies, token and files.  The process may stop at any point   *)
(* and starts again with what the two files hold.                          *)
(***************************************************************************)
EXTENDS Naturals, FiniteSets

CONSTANTS
    Accounts,       \* accounts that may scan the QR code
    InitRequests,       \* requests of POST /auth/bilibili/init that are under way together
    MaxLogins,      \* bound: successful logins, each with its refresh loop
    MaxRestarts     \* bound: restarts of the process

NoOne == "nobody"
Controller == "controller"

VARIABLES
    mode,       \* BILIBILI_LOGIN_MODE
    boot,       \* where the start hook is
    session,    \* AuthSession: state, QR code shown, account, cookieRefreshCancel (0 when nil)
    holding,    \* qrcodeHolding
    init,       \* request -> where InitQRLogin is, and its snapshot of the session
    login,      \* performQRLogin: where it is, and who scanned
    ctxs,       \* refresh contexts that are not cancelled
    loops,      \* refreshCookiesPeriodically goroutines
    flight,     \* the single flight of refreshCookiesIfRequired: where, with whose token
    cookies, token,         \* what the client holds, by account
    cookieFile, tokenFile,  \* what the disk holds
    logins, restarts

authVars == <<mode, boot, session, holding, init, login, ctxs, loops, flight, cookies, token,
              cookieFile, tokenFile, logins, restarts>>
credentials == <<cookies, token, cookieFile, tokenFile>>

Idle == [state |-> "idle", qr |-> FALSE, account |-> NoOne, cancel |-> 0]
LoginAt(place) == login.pc = place
NoInit == [r \in InitRequests |-> [pc |-> "none", shown |-> FALSE, cancel |-> 0]]
NoLogin == [pc |-> "none", who |-> NoOne]
NoFlight == [pc |-> "none", who |-> NoOne]

AuthInit ==
    /\ mode \in {Controller, "startup"} /\ boot = "load"
    /\ session = Idle /\ holding = FALSE /\ init = NoInit /\ login = NoLogin
    /\ ctxs = {} /\ loops = {} /\ flight = NoFlight
    /\ cookies = NoOne /\ token = NoOne /\ cookieFile = NoOne /\ tokenFile = NoOne
    /\ logins = 0 /\ restarts = 0

(***************************************************************************)
(* The start hook.                                                         *)
(***************************************************************************)

\* loadOfflineCredentials: a missing token file is what makes it fail, because the error of
\* the first read is overwritten by the second.
Load ==
    /\ boot = "load"
    /\ IF tokenFile = NoOne
         THEN boot' = (IF mode = Controller THEN "done" ELSE "qr") /\ UNCHANGED <<cookies, token>>
         ELSE boot' = "account" /\ cookies' = cookieFile /\ token' = tokenFile
    /\ UNCHANGED <<mode, session, holding, init, login, ctxs, loops, flight, cookieFile, tokenFile, logins, restarts>>

\* The cookies are valid: preloaded, a refresh is tried, and the loop starts.
Preloaded ==
    /\ boot = "account" /\ cookies # NoOne /\ flight = NoFlight /\ logins < MaxLogins
    /\ logins' = logins + 1
    /\ session' = [session EXCEPT !.state = "preloaded", !.account = cookies,
                                  !.cancel = IF mode = Controller THEN logins' ELSE 0]
    /\ ctxs' = ctxs \cup {logins'} /\ loops' = loops \cup {logins'}
    /\ flight' \in {NoFlight, [pc |-> "ask", who |-> token]}
    /\ boot' = "done"
    /\ UNCHANGED <<mode, holding, init, login, cookies, token, cookieFile, tokenFile, restarts>>

\* They are not: controller mode goes on without an account, startup mode asks for a scan.
Invalid ==
    /\ boot = "account"
    /\ boot' = IF mode = Controller THEN "done" ELSE "qr"
    /\ UNCHANGED <<mode, session, holding, init, login, ctxs, loops, flight, credentials, logins, restarts>>

\* Startup mode: the hook waits for the scan, writes both files, starts the loop.
StartupLogin(a) ==
    /\ boot = "qr" /\ logins < MaxLogins
    /\ logins' = logins + 1
    /\ session' = [session EXCEPT !.state = "authenticated", !.account = a]
    /\ cookies' = a /\ token' = a
    /\ tokenFile' \in {tokenFile, a} /\ cookieFile' \in {cookieFile, a}
    /\ ctxs' = ctxs \cup {logins'} /\ loops' = loops \cup {logins'} /\ boot' = "done"
    /\ UNCHANGED <<mode, holding, init, login, flight, restarts>>

Restart ==
    /\ restarts < MaxRestarts /\ restarts' = restarts + 1
    /\ boot' = "load" /\ session' = Idle /\ holding' = FALSE /\ init' = NoInit /\ login' = NoLogin
    /\ ctxs' = {} /\ loops' = {} /\ flight' = NoFlight
    /\ cookies' = NoOne /\ token' = NoOne
    /\ UNCHANGED <<mode, cookieFile, tokenFile, logins>>

(***************************************************************************)
(* InitQRLogin.                                                            *)
(***************************************************************************)

\* getStatus
Status == [authenticated |-> session.account # NoOne, qr |-> session.qr, state |-> session.state]

\* The snapshot; in any other mode than controller the request is refused.
Ask(r) ==
    /\ boot = "done" /\ mode = Controller /\ init[r].pc = "none"
    /\ init' = [init EXCEPT ![r] = [pc |-> "asked", cancel |-> session.cancel,
                                  shown |-> session.state = "awaiting_qr" /\ session.qr]]
    /\ UNCHANGED <<mode, boot, session, holding, login, ctxs, loops, flight, credentials, logins, restarts>>

Answered(r) == init' = [init EXCEPT ![r] = NoInit[r]]

\* The pending code is shown again, or somebody else's login is under way.
Refused(r) ==
    /\ init[r].pc = "asked"
    /\ \/ init[r].shown
       \/ holding
    /\ Answered(r)
    /\ UNCHANGED <<mode, boot, session, holding, login, ctxs, loops, flight, credentials, logins, restarts>>

Hold(r) ==
    /\ init[r].pc = "asked" /\ ~init[r].shown /\ ~holding
    /\ holding' = TRUE
    /\ init' = [init EXCEPT ![r].pc = "code"]
    /\ UNCHANGED <<mode, boot, session, login, ctxs, loops, flight, credentials, logins, restarts>>

\* Mutant: the error path forgets to release the flag.
KeepsHolding(r) == TRUE

\* GetQRCode failed: what becomes of qrcodeHolding.
Released(r) == FALSE

NoCode(r) ==
    /\ init[r].pc = "code"
    /\ session' = [session EXCEPT !.state = "failed"]
    /\ holding' = Released(r)
    /\ Answered(r)
    /\ UNCHANGED <<mode, boot, login, ctxs, loops, flight, credentials, logins, restarts>>

\* The code is there: the refresh loop of the SNAPSHOT is cancelled, the goroutine starts.
Code(r) ==
    /\ init[r].pc = "code"
    /\ ctxs' = ctxs \ {init[r].cancel}
    /\ session' = [session EXCEPT !.state = "awaiting_qr", !.qr = TRUE, !.cancel = 0]
    /\ login' = [pc |-> "poll", who |-> NoOne]
    /\ Answered(r)
    /\ UNCHANGED <<mode, boot, holding, loops, flight, credentials, logins, restarts>>

(***************************************************************************)
(* performQRLogin.                                                         *)
(***************************************************************************)

\* An error, an expired code or another code: nobody is logged in.
PollFails ==
    /\ LoginAt("poll")
    /\ \E s \in {"failed", "qr_expired"} : session' = [session EXCEPT !.state = s, !.qr = FALSE]
    /\ login' = [login EXCEPT !.pc = "release"]
    /\ UNCHANGED <<mode, boot, holding, init, ctxs, loops, flight, credentials, logins, restarts>>

\* Scanned: the client holds the cookies of the account.
Scanned(a) ==
    /\ LoginAt("poll") /\ logins < MaxLogins
    /\ cookies' = a
    /\ login' = [pc |-> "account", who |-> a]
    /\ UNCHANGED <<mode, boot, session, holding, init, ctxs, loops, flight, token, cookieFile, tokenFile, logins, restarts>>

NoAccount ==
    /\ LoginAt("account")
    /\ session' = [session EXCEPT !.state = "failed", !.qr = FALSE]
    /\ login' = [login EXCEPT !.pc = "release"]
    /\ UNCHANGED <<mode, boot, holding, init, ctxs, loops, flight, credentials, logins, restarts>>

ConfirmLogin ==
    /\ LoginAt("account")
    /\ logins' = logins + 1
    /\ ctxs' = ctxs \cup {logins'}
    /\ session' = [state |-> "authenticated", qr |-> FALSE, account |-> cookies, cancel |-> logins']
    /\ login' = [login EXCEPT !.pc = "token"]
    /\ UNCHANGED <<mode, boot, holding, init, loops, flight, credentials, restarts>>

\* writeRefreshTokenToFile and writerCookiesToFile; writing may fail.
WriteToken ==
    /\ LoginAt("token")
    /\ token' = login.who /\ tokenFile' \in {tokenFile, login.who}
    /\ login' = [login EXCEPT !.pc = "cookies"]
    /\ UNCHANGED <<mode, boot, session, holding, init, ctxs, loops, flight, cookies, cookieFile, logins, restarts>>

WriteCookies ==
    /\ LoginAt("cookies")
    /\ cookieFile' \in {cookieFile, cookies}
    /\ loops' = loops \cup {logins}
    /\ login' = [login EXCEPT !.pc = "release"]
    /\ UNCHANGED <<mode, boot, session, holding, init, ctxs, flight, cookies, token, tokenFile, logins, restarts>>

LoginDone ==
    /\ LoginAt("release")
    /\ holding' = FALSE /\ login' = NoLogin
    /\ UNCHANGED <<mode, boot, session, init, ctxs, loops, flight, credentials, logins, restarts>>

(***************************************************************************)
(* The refresh loops and the single flight.                                *)
(***************************************************************************)

\* A tick of a loop that is not cancelled; while a refresh is in flight it joins it.
RefreshTick(l) ==
    /\ l \in loops \cap ctxs /\ flight = NoFlight
    /\ flight' = [pc |-> "ask", who |-> token]
    /\ UNCHANGED <<mode, boot, session, holding, init, login, ctxs, loops, credentials, logins, restarts>>

LoopEnds(l) ==
    /\ l \in loops \ ctxs
    /\ loops' = loops \ {l}
    /\ UNCHANGED <<mode, boot, session, holding, init, login, ctxs, flight, credentials, logins, restarts>>

\* Not required, or one of the three calls or the first file failed.
RefreshEnds ==
    /\ flight # NoFlight
    /\ flight' = NoFlight
    /\ UNCHANGED <<mode, boot, session, holding, init, login, ctxs, loops, credentials, logins, restarts>>

\* RefreshCookie is accepted for the account of the token, whoever logs in meanwhile.
RefreshAccepted ==
    /\ flight.pc = "ask" /\ flight.who # NoOne
    /\ cookies' = flight.who
    /\ flight' = [flight EXCEPT !.pc = "token"]
    /\ UNCHANGED <<mode, boot, session, holding, init, login, ctxs, loops, token, cookieFile, tokenFile, logins, restarts>>

RefreshWritesToken ==
    /\ flight.pc = "token"
    /\ token' = flight.who /\ tokenFile' = flight.who
    /\ flight' = [flight EXCEPT !.pc = "cookies"]
    /\ UNCHANGED <<mode, boot, session, holding, init, login, ctxs, loops, cookies, cookieFile, logins, restarts>>

RefreshWritesCookies ==
    /\ flight.pc = "cookies"
    /\ cookieFile' = cookies
    /\ flight' = NoFlight
    /\ UNCHANGED <<mode, boot, session, holding, init, login, ctxs, loops, cookies, token, tokenFile, logins, restarts>>

InitQRLogin == \E r \in InitRequests : Ask(r) \/ Refused(r) \/ Hold(r) \/ NoCode(r) \/ Code(r)
PerformQRLogin ==
    \/ PollFails \/ NoAccount \/ ConfirmLogin \/ WriteToken \/ WriteCookies \/ LoginDone
    \/ \E a \in Accounts : Scanned(a)

AuthNext ==
    \/ Load \/ Preloaded \/ Invalid \/ Restart
    \/ \E a \in Accounts : StartupLogin(a)
    \/ InitQRLogin \/ PerformQRLogin
    \/ \E l \in 1..MaxLogins : RefreshTick(l) \/ LoopEnds(l)
    \/ RefreshEnds \/ RefreshAccepted \/ RefreshWritesToken \/ RefreshWritesCookies

\* Requests that were accepted run to their end, and the code of a login expires.
AuthFairness ==
    /\ \A r \in InitRequests : WF_authVars(Refused(r) \/ Hold(r) \/ NoCode(r) \/ Code(r))
    /\ WF_authVars(PerformQRLogin)

---------------------------------------------------------------------------

\* A QR code that is shown is answered in the end, and whoever holds the login releases it:
\* the next POST /auth/bilibili/init can start over, whatever failed in between.
QRSettles == (Status.qr \/ holding) ~> (~Status.qr /\ ~holding)

\* The cookies are those of the account the session shows.  Not met: a refresh that is in
\* flight during a login puts the cookies of the previous account back (README, Observations).
SessionOwnsCookies == session.state = "authenticated" /\ flight = NoFlight /\ login = NoLogin => cookies = session.account
=============================================================================
