------------------------------ MODULE MCPages ------------------------------
(* Seven parts of the dashboard that share no state, checked in one run: a *)
(* behaviour moves one of them, so that their states add up and do not     *)
(* multiply.                                                               *)
EXTENDS SubscriptionPublish, ConnectionHistory, Toasts, Overview, ServiceQuality,
        LoginForm, ProxySelection, TLC

MCSiteOf == "n" :> "s" @@ "m" :> "u"
MCOwner == <<"m", "n", "n", "m">>
MCAccounts == {[i \in Itcodes |-> status] : status \in {"none", "active"}}
Measured(alive, delay) == [alive |-> alive, delay |-> delay]
MCFirstReports ==
    {[available |-> TRUE, error |-> "e", group |-> "a" :> Measured(TRUE, "high")]}
MCReports == MCFirstReports \cup
    {[available |-> TRUE, error |-> "",
      group |-> "a" :> Measured(TRUE, "low") @@ "b" :> Measured(FALSE, "none")],
     [available |-> FALSE, error |-> "e", group |-> <<>>]}

VARIABLE part
pagesVars == <<part, vars, historyVars, toastVars, overviewVars, qualityVars,
               loginVars, proxyVars>>

PagesInit ==
    /\ part \in {"publish", "history", "toasts", "overview", "quality", "login", "proxies"}
    /\ Init /\ HistoryInit /\ ToastInit /\ OverviewInit /\ QualityInit
    /\ LoginInit /\ (part # "login" => users = [i \in Itcodes |-> "none"])
    /\ ProxyInit /\ (part # "proxies" =>
          nodeVersion[FirstNode] = 0)

PagesNext ==
    \/ /\ part = "publish" /\ Next
       /\ UNCHANGED <<part, historyVars, toastVars, overviewVars, qualityVars, loginVars, proxyVars>>
    \/ /\ part = "history" /\ HistoryNext
       /\ UNCHANGED <<part, vars, toastVars, overviewVars, qualityVars, loginVars, proxyVars>>
    \/ /\ part = "toasts" /\ ToastNext
       /\ UNCHANGED <<part, vars, historyVars, overviewVars, qualityVars, loginVars, proxyVars>>
    \/ /\ part = "overview" /\ OverviewNext
       /\ UNCHANGED <<part, vars, historyVars, toastVars, qualityVars, loginVars, proxyVars>>
    \/ /\ part = "quality" /\ QualityNext
       /\ UNCHANGED <<part, vars, historyVars, toastVars, overviewVars, loginVars, proxyVars>>
    \/ /\ part = "login" /\ LoginNext
       /\ UNCHANGED <<part, vars, historyVars, toastVars, overviewVars, qualityVars, proxyVars>>
    \/ /\ part = "proxies" /\ ProxyNext
       /\ UNCHANGED <<part, vars, historyVars, toastVars, overviewVars, qualityVars, loginVars>>

PagesSpec == PagesInit /\ [][PagesNext]_pagesVars
=============================================================================
