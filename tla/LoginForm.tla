------------------------------ MODULE LoginForm ------------------------------
(***************************************************************************)
(* The login page, its account dialog and the verification codes of the    *)
(* backend.  The page asks for a code for the IT code typed in a form,     *)
(* keeps the challenge it is answered and submits it with the code.  The   *)
(* fields can be edited while a call is out, and a call the page gave up   *)
(* (network_error) still runs in the backend, where the handlers           *)
(* interleave between reading a challenge and saving their copy of it.     *)
(*                                                                         *)
(* Passwords and digits are left out: whether a password or a code is the  *)
(* right one is a free choice.  The clock is two facts of a challenge: it  *)
(* is too early to send again, and it has not expired.                     *)
(***************************************************************************)
EXTENDS Integers, Sequences

CONSTANTS
    Itcodes,
    Blank,           \* an empty field
    Accounts,        \* the accounts there may be at first
    MaxAttempts,     \* auth_verification_max_attempts
    MaxChallenges,   \* bound: challenges
    MaxHandlers,     \* bound: calls out at one time
    MaxCalls         \* bound: calls

VARIABLES
    login,        \* the login form
    account,      \* the account dialog
    users,        \* the account of each IT code
    challenges,   \* AuthVerificationChallenge, oldest first
    handlers,     \* calls, in the backend or answered
    made,         \* calls so far
    effects,      \* history: what the backend did for a code
    used, reused, \* history: challenges accepted, and accepted again
    abandoned     \* history: challenges of submissions the page gave up

forms == <<login, account>>
histories == <<effects, used, reused, abandoned>>
loginVars == <<forms, users, challenges, handlers, made, histories>>

NoChallenge == 0
Purposes == {"register", "password_change", "gquan_login"}
AuthBusy == {"no", "send", "submit"}
Statuses == {"pending", "delivered", "delivery_failed", "expired", "locked", "consumed"}
AuthVerificationChallenge ==
    [itcode : Itcodes, purpose : Purposes, status : Statuses, failed : 0..MaxAttempts,
     waiting : BOOLEAN, valid : BOOLEAN]

(* A call: of which form, for what, and how far its handler is.  copy is   *)
(* what the handler read of the challenge.                                 *)
Handler ==
    [form : {"login", "account"}, kind : {"send", "submit"}, purpose : Purposes \cup {"password"},
     itcode : Itcodes, challenge : 0..MaxChallenges, awaited : BOOLEAN,
     state : {"arrived", "looked", "inserted", "read", "consumed", "ok", "refused"},
     failed : 0..MaxAttempts]
Free == [state |-> "idle"]

ASSUME LoginAssumption ==
    /\ {MaxAttempts, MaxChallenges, MaxHandlers, MaxCalls} \subseteq Nat
    /\ Accounts \subseteq [Itcodes -> {"none", "active", "inactive"}]

LoginTypeOK ==
    /\ login \in [mode : {"password", "gquan"}, itcode : Itcodes \cup {Blank},
                  challenge : 0..MaxChallenges, busy : AuthBusy]
    /\ account \in [action : {"none", "register", "password-change"}, itcode : Itcodes \cup {Blank},
                    challenge : 0..MaxChallenges, busy : AuthBusy]
    /\ users \in [Itcodes -> {"none", "active", "inactive"}]
    /\ challenges \in Seq(AuthVerificationChallenge) /\ Len(challenges) <= MaxChallenges
    /\ handlers \in [1..MaxHandlers -> Handler \cup {Free}]
    /\ made \in 0..MaxCalls
    /\ effects \subseteq [itcode : Itcodes, purpose : Purposes, challenge : 1..MaxChallenges]
    /\ used \subseteq 1..MaxChallenges /\ reused \subseteq used
    /\ abandoned \subseteq 1..MaxChallenges

EmptyLogin == [mode |-> "password", itcode |-> Blank,
               challenge |-> NoChallenge, busy |-> "no"]
EmptyAccount == [action |-> "none", itcode |-> Blank,
                 challenge |-> NoChallenge, busy |-> "no"]

LoginInit ==
    /\ login = EmptyLogin /\ account = EmptyAccount
    /\ users \in Accounts /\ challenges = <<>>
    /\ handlers = [h \in 1..MaxHandlers |-> Free]
    /\ made = 0
    /\ effects = {} /\ used = {} /\ reused = {} /\ abandoned = {}

-----------------------------------------------------------------------------
(* The fields and tabs of the page.  The dialog is modal.                  *)

onlyLogin == <<account, users, challenges, handlers, made, histories>>
onlyAccount == <<login, users, challenges, handlers, made, histories>>

selectLoginMode(mode) ==
    /\ account.action = "none"
    /\ login' = [login EXCEPT !.mode = mode, !.challenge = NoChallenge]
    /\ UNCHANGED onlyLogin

updateLoginItcode(itcode) ==
    /\ account.action = "none"
    /\ login' = [login EXCEPT !.itcode = itcode, !.challenge = NoChallenge]
    /\ UNCHANGED onlyLogin

openAccountAction(action) ==
    /\ account.action = "none" /\ login.busy = "no"
    /\ account' = [account EXCEPT !.action = action, !.itcode = login.itcode,
                                  !.challenge = NoChallenge]
    /\ UNCHANGED onlyAccount

closeAccountAction ==
    /\ account.action # "none" /\ account.busy = "no"
    /\ account' = EmptyAccount
    /\ UNCHANGED onlyAccount

updateAccountItcode(itcode) ==
    /\ account.action # "none"
    /\ account' = [account EXCEPT !.itcode = itcode, !.challenge = NoChallenge]
    /\ UNCHANGED onlyAccount

-----------------------------------------------------------------------------
(* The calls.                                                              *)

accountPurpose == IF account.action = "register" THEN "register" ELSE "password_change"
(* The digits are typed at any time; only the button that sends is a       *)
(* matter of state.                                                        *)
VerificationCodeField(form) ==
    /\ form.itcode # Blank /\ form.busy = "no"
    /\ form.challenge # NoChallenge => ~challenges[form.challenge].waiting

Starts(form, kind, purpose, itcode, challenge) ==
    /\ made < MaxCalls /\ made' = made + 1
    /\ \E h \in DOMAIN handlers :
         /\ handlers[h] = Free /\ \A g \in 1..h - 1 : handlers[g] # Free
         /\ handlers' = [handlers EXCEPT ![h] =
                [form |-> form, kind |-> kind, purpose |-> purpose, itcode |-> itcode,
                 challenge |-> challenge, awaited |-> TRUE, state |-> "arrived", failed |-> 0]]
    /\ UNCHANGED <<users, challenges, histories>>

sendLoginCode ==
    /\ account.action = "none" /\ login.mode = "gquan" /\ VerificationCodeField(login)
    /\ login' = [login EXCEPT !.busy = "send"] /\ UNCHANGED account
    /\ Starts("login", "send", "gquan_login", login.itcode, NoChallenge)

sendAccountCode ==
    /\ account.action # "none" /\ VerificationCodeField(account)
    /\ account' = [account EXCEPT !.busy = "send"] /\ UNCHANGED login
    /\ Starts("account", "send", accountPurpose, account.itcode, NoChallenge)

submitLogin ==
    /\ account.action = "none" /\ login.itcode # Blank /\ login.busy = "no"
    /\ login.mode = "gquan" => login.challenge # NoChallenge
    /\ login' = [login EXCEPT !.busy = "submit"] /\ UNCHANGED account
    /\ IF login.mode = "password"
       THEN Starts("login", "submit", "password", login.itcode, NoChallenge)
       ELSE Starts("login", "submit", "gquan_login", login.itcode, login.challenge)

(* A confirmation that differs from the password sends nothing.            *)
submitAccountAction ==
    /\ account.action # "none" /\ account.itcode # Blank /\ account.busy = "no"
    /\ account.challenge # NoChallenge
    /\ account' = [account EXCEPT !.busy = "submit"] /\ UNCHANGED login
    /\ Starts("account", "submit", accountPurpose, account.itcode, account.challenge)

-----------------------------------------------------------------------------
(* The backend.  A call nobody waits for is gone once its handler ends.    *)

Ends(h, outcome) ==
    handlers' = [handlers EXCEPT ![h] = IF @.awaited THEN [@ EXCEPT !.state = outcome] ELSE Free]
Reaches(h, state) == handlers' = [handlers EXCEPT ![h].state = state]

(* The account the purpose needs: none to register, else an active one.    *)
AccountFits(c) ==
    IF c.purpose = "register" THEN users[c.itcode] = "none" ELSE users[c.itcode] = "active"
(* The latest challenge of the IT code and purpose bars another for a time.*)
RateLimited(c) ==
    \E i \in DOMAIN challenges :
        LET same(j) == challenges[j].itcode = c.itcode /\ challenges[j].purpose = c.purpose
        IN  /\ same(i) /\ \A j \in i + 1..Len(challenges) : ~same(j)
            /\ challenges[i].waiting /\ challenges[i].status \in {"pending", "delivered"}

LookUp(h) ==
    LET c == handlers[h] IN
    /\ c.state = "arrived" /\ c.kind = "send"
    /\ IF AccountFits(c) /\ ~RateLimited(c) THEN Reaches(h, "looked") ELSE Ends(h, "refused")
    /\ UNCHANGED <<forms, users, challenges, made, histories>>

InsertChallenge(h) ==
    LET c == handlers[h] IN
    /\ c.state = "looked" /\ Len(challenges) < MaxChallenges
    /\ challenges' = Append(challenges, [itcode |-> c.itcode, purpose |-> c.purpose, failed |-> 0,
                                         status |-> "pending", waiting |-> TRUE, valid |-> TRUE])
    /\ handlers' = [handlers EXCEPT ![h].state = "inserted", ![h].challenge = Len(challenges')]
    /\ UNCHANGED <<forms, users, made, histories>>

Deliver(h) ==
    LET c == handlers[h] IN
    /\ c.state = "inserted"
    /\ \E sent \in BOOLEAN :
         /\ challenges' = [challenges EXCEPT ![c.challenge].status =
                              IF sent THEN "delivered" ELSE "delivery_failed"]
         /\ Ends(h, IF sent THEN "ok" ELSE "refused")
    /\ UNCHANGED <<forms, users, made, histories>>

Bug_Usable(c) ==
    /\ challenges[c.challenge].purpose = c.purpose
    /\ challenges[c.challenge].status = "delivered"

Usable(c) ==
    /\ challenges[c.challenge].itcode = c.itcode /\ challenges[c.challenge].purpose = c.purpose
    /\ challenges[c.challenge].status = "delivered"

ReadChallenge(h) ==
    LET c == handlers[h] IN
    /\ c.state = "arrived" /\ c.kind = "submit" /\ c.purpose # "password"
    /\ IF AccountFits(c) /\ Usable(c)
       THEN handlers' = [handlers EXCEPT ![h].state = "read",
                                         ![h].failed = challenges[c.challenge].failed]
       ELSE Ends(h, "refused")
    /\ UNCHANGED <<forms, users, challenges, made, histories>>

(* The verdict on the copy the handler read, and the copy saved with it,   *)
(* over what was saved since.                                              *)
Verdict(c, right) ==
    IF ~challenges[c.challenge].valid THEN "expired"
    ELSE IF c.failed >= MaxAttempts THEN "locked"
    ELSE IF right THEN "consumed"
    ELSE IF c.failed + 1 >= MaxAttempts THEN "locked" ELSE "delivered"

SaveChallenge(h) ==
    LET c == handlers[h] IN
    /\ c.state = "read"
    /\ \E right \in BOOLEAN :
         LET wrong == ~right /\ challenges[c.challenge].valid /\ c.failed < MaxAttempts
             spent == IF Verdict(c, right) = "consumed" THEN {c.challenge} ELSE {}
         IN  /\ challenges' = [challenges EXCEPT
                    ![c.challenge].status = Verdict(c, right),
                    ![c.challenge].failed = IF wrong THEN c.failed + 1 ELSE c.failed]
             /\ IF spent # {} THEN Reaches(h, "consumed") ELSE Ends(h, "refused")
             /\ used' = used \cup spent
             /\ reused' = reused \cup (used \cap spent)
    /\ UNCHANGED <<forms, users, made, effects, abandoned>>

(* After the code: an account is inserted, unless another registration was *)
(* first; a password is changed; a session is created.                     *)
TakeEffect(h) ==
    LET c == handlers[h] IN
    /\ c.state = "consumed"
    /\ IF c.purpose = "register" /\ users[c.itcode] # "none"
       THEN Ends(h, "refused") /\ UNCHANGED <<users, effects>>
       ELSE /\ Ends(h, "ok")
            /\ users' = [users EXCEPT ![c.itcode] = IF c.purpose = "register" THEN "active" ELSE @]
            /\ effects' = effects \cup
                 {[itcode |-> c.itcode, purpose |-> c.purpose, challenge |-> c.challenge]}
    /\ UNCHANGED <<forms, challenges, made, used, reused, abandoned>>

PasswordLogin(h) ==
    LET c == handlers[h] IN
    /\ c.state = "arrived" /\ c.purpose = "password"
    /\ \E right \in BOOLEAN :
         Ends(h, IF right /\ users[c.itcode] = "active" THEN "ok" ELSE "refused")
    /\ UNCHANGED <<forms, users, challenges, made, histories>>

ClockPasses(i) ==
    /\ i \in DOMAIN challenges
    /\ \/ challenges[i].waiting /\ challenges' = [challenges EXCEPT ![i].waiting = FALSE]
       \/ challenges[i].valid /\ challenges' = [challenges EXCEPT ![i].valid = FALSE]
    /\ UNCHANGED <<forms, users, handlers, made, histories>>

-----------------------------------------------------------------------------
(* The answers.                                                            *)

Settles(form) ==
    \/ form = "login" /\ login' = [login EXCEPT !.busy = "no"] /\ UNCHANGED account
    \/ form = "account" /\ account' = [account EXCEPT !.busy = "no"] /\ UNCHANGED login

ChallengeArrives(h) ==
    LET c == handlers[h] IN
    /\ c.state = "ok" /\ c.kind = "send"
    /\ \/ /\ c.form = "login" /\ UNCHANGED account
          /\ login' = [login EXCEPT !.challenge = c.challenge, !.busy = "no"]
       \/ /\ c.form = "account" /\ UNCHANGED login
          /\ account' = [account EXCEPT !.challenge = c.challenge, !.busy = "no"]
    /\ handlers' = [handlers EXCEPT ![h] = Free]
    /\ UNCHANGED <<users, challenges, made, histories>>

(* A login leaves the page; a later visit starts with empty forms.  The    *)
(* dialog hands the IT code it submitted to the login form.                *)
Accepted(h) ==
    LET c == handlers[h] IN
    /\ c.state = "ok" /\ c.kind = "submit"
    /\ \/ c.form = "login" /\ login' = EmptyLogin
       \/ c.form = "account" /\ login' = [login EXCEPT !.itcode = c.itcode, !.mode = "password"]
    /\ account' = EmptyAccount
    /\ handlers' = [handlers EXCEPT ![h] = Free]
    /\ UNCHANGED <<users, challenges, made, histories>>

Refused(h) ==
    /\ handlers[h].state = "refused"
    /\ Settles(handlers[h].form)
    /\ handlers' = [handlers EXCEPT ![h] = Free]
    /\ UNCHANGED <<users, challenges, made, histories>>

(* The connection breaks: the page gives up, the handler goes on.          *)
ConnectionLost(h) ==
    LET c == handlers[h] IN
    /\ c # Free /\ c.awaited
    /\ Settles(c.form)
    /\ handlers' = [handlers EXCEPT ![h] = IF c.state \in {"ok", "refused"} THEN Free
                                           ELSE [c EXCEPT !.awaited = FALSE]]
    /\ abandoned' = abandoned \cup (IF c.kind = "submit" THEN {c.challenge} \ {NoChallenge} ELSE {})
    /\ UNCHANGED <<users, challenges, made, effects, used, reused>>

-----------------------------------------------------------------------------
Typing ==
    \/ \E mode \in {"password", "gquan"} : selectLoginMode(mode)
    \/ \E itcode \in Itcodes : updateLoginItcode(itcode) \/ updateAccountItcode(itcode)
    \/ \E action \in {"register", "password-change"} : openAccountAction(action)
    \/ closeAccountAction

Serves(h) ==
    \/ LookUp(h) \/ InsertChallenge(h) \/ Deliver(h)
    \/ ReadChallenge(h) \/ SaveChallenge(h) \/ TakeEffect(h) \/ PasswordLogin(h)

LoginNext ==
    \/ Typing
    \/ sendLoginCode \/ sendAccountCode \/ submitLogin \/ submitAccountAction
    \/ \E h \in DOMAIN handlers :
         Serves(h) \/ ChallengeArrives(h) \/ Accepted(h) \/ Refused(h) \/ ConnectionLost(h)
    \/ \E i \in 1..MaxChallenges : ClockPasses(i)

LoginSpec == LoginInit /\ [][LoginNext]_loginVars

-----------------------------------------------------------------------------
(* The challenge the account dialog keeps was asked for by the action it   *)
(* shows: the dialog cannot be closed and opened for the other action      *)
(* while the answer of sendAccountCode is out.                             *)
ChallengeFitsDialog ==
    account.challenge # NoChallenge =>
        account.action # "none" /\ challenges[account.challenge].purpose = accountPurpose

(* Whatever is edited while calls are out, the backend registers, changes  *)
(* the password of, or logs in, only the IT code the code was sent to, and *)
(* for the purpose it was sent for (consume_verification_code).            *)
AcceptedOwnCode ==
    \A e \in effects : /\ challenges[e.challenge].itcode = e.itcode
                       /\ challenges[e.challenge].purpose = e.purpose

(* A challenge is accepted twice only when the page gave up a submission   *)
(* of it: the forms never have two submissions out, so the unguarded read  *)
(* and save of consume_verification_code are not raced by one page.        *)
SingleUse == reused \subseteq abandoned

(* The invariant of verification codes: a code serves the IT code and the  *)
(* purpose it was sent for, once.                                          *)
LoginInv == LoginTypeOK /\ ChallengeFitsDialog /\ AcceptedOwnCode /\ SingleUse
==============================================================================
