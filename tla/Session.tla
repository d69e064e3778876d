------------------------------ MODULE Session ------------------------------
(***************************************************************************)
(* Management sessions in the browser: the tabs of one browser share the   *)
(* session in localStorage (lib/api.ts), each with the application shell,  *)
(* its page, its query cache and its calls under way.                      *)
(*                                                                         *)
(* A call carries the token that was stored when it was sent.  Its answer  *)
(* may come after the tab has moved on, after another tab has signed in or *)
(* out, and after the session has ended on the server.  A full page load   *)
(* (location.replace) ends everything that runs in the tab; a client-side  *)
(* navigation (router.replace) does not.                                   *)
(***************************************************************************)
EXTENDS Naturals, FiniteSets

CONSTANTS
    Tabs,
    EmployeeSessions,  \* the sessions that belong to accounts of role employee
    MaxSessions,       \* bound: sessions opened in a behaviour
    MaxCalls           \* bound: calls under way

ASSUME BoundsAssumption ==
    /\ MaxSessions \in Nat \ {0} /\ MaxCalls \in Nat \ {0}
    /\ EmployeeSessions \subseteq 1..MaxSessions

VARIABLES
    issued,    \* sessions opened so far; they are numbered
    ended,     \* sessions the server no longer accepts
    due,       \* sessions past expires_at by the browser's clock
    stored,    \* the session in localStorage, 0 without one
    path,      \* where a tab is: the login page, a public page, the console
    shell,     \* the role that page and shell read when the tab came there
    leaving,   \* signingOut
    cache,     \* the sessions whose data is in the tab's query cache
    calls,     \* calls under way
    confirmed  \* history: sessions the tab signed out since it was loaded

serverVars == <<issued, ended, due>>
tabVars == <<path, shell, leaving, cache, confirmed>>
vars == <<serverVars, stored, tabVars, calls>>

Sessions == 1..MaxSessions
None == 0
Paths == {"login", "public", "console"}

(* managementSessionRole, "out" without a session                          *)
RoleOf(token) ==
    IF token = None THEN "out" ELSE IF token \in EmployeeSessions THEN "employee" ELSE "admin"

(* dropped: what asked for the call is gone, the form or the cached query  *)
Call == [tab : Tabs, kind : {"query", "logout", "login"},
         token : Sessions \cup {None}, dropped : BOOLEAN,
         answer : {"none", "ok", "denied", "forbidden"}, new : Sessions \cup {None}]

TypeOK ==
    /\ issued \in 0..MaxSessions
    /\ ended \subseteq 1..issued /\ due \subseteq 1..issued
    /\ stored \in {None} \cup 1..issued
    /\ path \in [Tabs -> Paths]
    /\ shell \in [Tabs -> {"out", "admin", "employee"}]
    /\ leaving \in [Tabs -> BOOLEAN]
    /\ cache \in [Tabs -> SUBSET Sessions]
    /\ calls \subseteq Call
    /\ confirmed \in [Tabs -> SUBSET Sessions]

Init ==
    /\ issued = 0
    /\ ended = {} /\ due = {} /\ stored = None
    /\ path = [t \in Tabs |-> "public"]
    /\ shell = [t \in Tabs |-> "out"]
    /\ leaving = [t \in Tabs |-> FALSE]
    /\ cache = [t \in Tabs |-> {}]
    /\ calls = {}
    /\ confirmed = [t \in Tabs |-> {}]

-----------------------------------------------------------------------------
(* storedSessionExpired; without a session there is no expires_at          *)
Expired == stored \in due

Of(t) == {c \in calls : c.tab = t}

NewCall(t, kind, token) ==
    [tab |-> t, kind |-> kind, token |-> token, dropped |-> FALSE,
     answer |-> "none", new |-> None]

Set(f, t, v) == f' = [f EXCEPT ![t] = v]

(* The page (useManagementSession) and the shell read the session when the *)
(* tab comes to a page, and not again while it stays there.                *)
Mounts(t, p, token) == Set(path, t, p) /\ Set(shell, t, RoleOf(token))

(* A full page load: nothing of the tab's state survives.                  *)
Reloads(t, p, token) ==
    /\ Mounts(t, p, token)
    /\ Set(leaving, t, FALSE)
    /\ Set(cache, t, {})
    /\ Set(confirmed, t, {})
    /\ calls' = calls \ Of(t)

(* A client-side navigation: only the form of the login page is gone.      *)
Moves(t, p, token) ==
    /\ Mounts(t, p, token)
    /\ calls' = {IF c.tab = t /\ c.kind = "login" THEN [c EXCEPT !.dropped = TRUE] ELSE c :
                 c \in calls}
    /\ UNCHANGED <<leaving, cache, confirmed>>

(* redirectForAuthenticationFailure, at the end of call c or before one    *)
Redirect(t, finished) ==
    /\ stored' = None
    /\ \/ path[t] = "login" /\ calls' = calls \ finished /\ UNCHANGED tabVars
       \/ path[t] # "login" /\ Reloads(t, "login", None)

-----------------------------------------------------------------------------
(* The operator                                                            *)

(* A link of the navigation or the sign-in button.  On arrival             *)
(* activeManagementToken clears a session past its time, with a redirect   *)
(* from the pages of the console.                                          *)
Navigate(t, p) ==
    /\ p = "console" => shell[t] # "employee"
    /\ path[t] = "login" => p = "public"
    /\ stored' = IF Expired THEN None ELSE stored
    /\ IF Expired /\ p = "console"
       THEN Reloads(t, "login", None)
       ELSE Moves(t, p, stored')
    /\ UNCHANGED serverVars

(* The browser's reload button or a new address                            *)
Reload(t, p) ==
    /\ stored' = IF Expired THEN None ELSE stored
    /\ Reloads(t, IF Expired /\ p = "console" THEN "login" ELSE p, stored')
    /\ UNCHANGED serverVars

(* submitLogin: the form is disabled while its call is under way.          *)
SubmitLogin(t) ==
    /\ path[t] = "login"
    /\ Cardinality(calls) < MaxCalls
    /\ issued + Cardinality({c \in calls : c.kind = "login" /\ c.new = None}) < MaxSessions
    /\ ~ \E c \in Of(t) : c.kind = "login" /\ ~c.dropped
    /\ stored' = IF Expired THEN None ELSE stored
    /\ calls' = calls \cup {NewCall(t, "login", stored')}
    /\ UNCHANGED <<serverVars, tabVars>>

(* signOut, up to its await                                                *)
ConfirmSignOut(t) ==
    /\ path[t] # "login" /\ shell[t] # "out" /\ ~leaving[t]
    /\ Cardinality(calls) < MaxCalls
    /\ IF Expired /\ path[t] = "console"
       THEN Redirect(t, {})
       ELSE /\ stored' = IF Expired THEN None ELSE stored
            /\ Set(leaving, t, TRUE)
            /\ Set(confirmed, t, confirmed[t] \cup ({stored'} \ {None}))
            /\ calls' = calls \cup {NewCall(t, "logout", stored')}
            /\ UNCHANGED <<path, shell, cache>>
    /\ UNCHANGED serverVars

(* The pages of the console poll; request reads the token for every call.  *)
Query(t) ==
    /\ path[t] = "console" /\ shell[t] = "admin"
    /\ Cardinality(calls) < MaxCalls
    /\ ~ \E c \in Of(t) : c.kind = "query" /\ ~c.dropped
    /\ IF Expired
       THEN Redirect(t, {})
       ELSE /\ calls' = calls \cup {NewCall(t, "query", stored)}
            /\ UNCHANGED <<stored, tabVars>>
    /\ UNCHANGED serverVars

-----------------------------------------------------------------------------
(* The server and the clock                                                *)

(* "denied" is a 401 with one of authenticationFailureCodes                *)
Verdict(token) ==
    CASE token \in ended -> "denied"
      [] RoleOf(token) = "admin" /\ token \notin ended -> "ok"
      [] OTHER -> "forbidden"

Answered(c, answer, new) ==
    calls' = (calls \ {c}) \cup {[c EXCEPT !.answer = answer, !.new = new]}

Serve(c) ==
    /\ c.answer = "none"
    /\ \/ /\ c.kind = "login"
          /\ issued' = issued + 1
          /\ Answered(c, "ok", issued + 1)
          /\ UNCHANGED ended
       \/ /\ c.kind = "query"
          /\ Answered(c, Verdict(c.token), None)
          /\ UNCHANGED <<issued, ended>>
       \/ /\ c.kind = "logout"
          /\ Answered(c, IF c.token \in ended THEN "denied" ELSE "ok", None)
          /\ ended' = ended \cup ({c.token} \ {None})
          /\ UNCHANGED issued
    /\ UNCHANGED <<due, stored, tabVars>>

(* Expiry on the server, revocation, or a deactivated account              *)
EndSession(k) ==
    /\ ended' = ended \cup {k}
    /\ UNCHANGED <<issued, due, stored, tabVars, calls>>

ClockPasses(k) ==
    /\ due' = due \cup {k}
    /\ UNCHANGED <<issued, ended, stored, tabVars, calls>>

-----------------------------------------------------------------------------
(* Answers                                                                 *)

(* What the cache of the tab is after the answer of a query                *)
Received(c) ==
    IF c.answer = "ok" /\ ~c.dropped THEN cache[c.tab] \cup {c.token} ELSE cache[c.tab]

Bug_RedirectForbidden(c) ==
    /\ c.kind = "query" /\ c.answer # "none"
    /\ IF c.answer # "ok" /\ c.token # None
       THEN Redirect(c.tab, {c})
       ELSE /\ calls' = calls \ {c}
            /\ Set(cache, c.tab, Received(c))
            /\ UNCHANGED <<stored, path, shell, leaving, confirmed>>
    /\ UNCHANGED serverVars

(* request: an authentication failure of a call that carried a token ends  *)
(* the stored session, whichever that is now.                              *)
QueryAnswered(c) ==
    /\ c.kind = "query" /\ c.answer # "none"
    /\ IF c.answer = "denied"
       THEN Redirect(c.tab, {c})
       ELSE /\ calls' = calls \ {c}
            /\ Set(cache, c.tab, Received(c))
            /\ UNCHANGED <<stored, path, shell, leaving, confirmed>>
    /\ UNCHANGED serverVars

(* The request or its answer is lost: network_error, and no redirect.      *)
QueryLost(c) ==
    /\ c.kind = "query"
    /\ calls' = calls \ {c}
    /\ UNCHANGED <<serverVars, stored, tabVars>>

Bug_SignedOutNoClear(c) ==
    /\ c.kind = "logout"
    /\ stored' = None
    /\ calls' = calls \ {c}
    /\ Mounts(c.tab, "login", None)
    /\ UNCHANGED <<serverVars, leaving, cache, confirmed>>

(* The finally of signOut, whether the call was answered or lost.          *)
(* queryClient.clear drops the queries under way too; signingOut stays     *)
(* set.  A session the server refuses reloads the tab as any call does.    *)
SignedOut(c) ==
    /\ c.kind = "logout"
    /\ stored' = None
    /\ \/ /\ c.answer = "denied" /\ path[c.tab] # "login"
          /\ Reloads(c.tab, "login", None)
       \/ /\ c.answer # "denied" \/ path[c.tab] = "login"
          /\ calls' = {IF d.tab = c.tab /\ d.kind # "logout"
                       THEN [d EXCEPT !.dropped = TRUE] ELSE d : d \in calls \ {c}}
          /\ Set(cache, c.tab, {})
          /\ Mounts(c.tab, "login", None)
          /\ UNCHANGED <<leaving, confirmed>>
    /\ UNCHANGED serverVars

(* saveManagementSession and router.replace, wherever the tab is by now    *)
LoggedIn(c) ==
    /\ c.kind = "login" /\ c.new # None
    /\ stored' = c.new
    /\ Mounts(c.tab, IF c.new \in EmployeeSessions THEN "public" ELSE "console", c.new)
    /\ calls' = {IF d.tab = c.tab /\ d.kind = "login" THEN [d EXCEPT !.dropped = TRUE] ELSE d :
                 d \in calls \ {c}}
    /\ UNCHANGED <<serverVars, leaving, cache, confirmed>>

(* Refused, or the request or its answer is lost                           *)
LoginFails(c) ==
    /\ c.kind = "login"
    /\ calls' = calls \ {c}
    /\ UNCHANGED <<serverVars, stored, tabVars>>

-----------------------------------------------------------------------------
Operator(t) ==
    \/ \E p \in Paths : Navigate(t, p) \/ Reload(t, p)
    \/ SubmitLogin(t) \/ ConfirmSignOut(t) \/ Query(t)

Answer(c) ==
    \/ QueryAnswered(c) \/ QueryLost(c) \/ SignedOut(c)
    \/ LoggedIn(c) \/ LoginFails(c)

Next ==
    \/ \E t \in Tabs : Operator(t)
    \/ \E c \in calls : Serve(c) \/ Answer(c)
    \/ \E k \in 1..issued : EndSession(k) \/ ClockPasses(k)

Spec == Init /\ [][Next]_vars

-----------------------------------------------------------------------------
(* Once the sign-out of a session is over in a tab, answered or not, the   *)
(* session is not stored and nothing read with it is in the tab's cache:   *)
(* not through a query that was under way either.                          *)
SignOutForgets ==
    \A t \in Tabs : \A k \in confirmed[t] :
        (\E c \in Of(t) : c.kind = "logout") \/ (stored # k /\ k \notin cache[t])

(* A session the server and the clock still accept leaves the storage only *)
(* through a sign-out, a new sign-in, or the refusal of another session's  *)
(* call that was still under way.                                          *)
LiveSessionKept ==
    [][\A k \in Sessions :
          stored = k /\ stored' # k /\ k \notin ended \cup due =>
              \E c \in calls \ calls' :
                 \/ c.kind \in {"logout", "login"}
                 \/ c.kind = "query" /\ c.answer = "denied" /\ c.token # k]_vars

(* The invariant of the session: its types, and a sign-out forgets.        *)
SessionInv == TypeOK /\ SignOutForgets
=============================================================================
