---------------------------- MODULE ConsolePages ----------------------------
(***************************************************************************)
(* The dashboard's pages as data: what every page reads from the query     *)
(* cache, which of it is polled, which of it the page cannot be shown      *)
(* without, and the mutations with their dialogs.                          *)
(*                                                                         *)
(* A query key is its first element: invalidateQueries matches by prefix,  *)
(* and the filters in the rest of a key only select rows.                  *)
(***************************************************************************)
EXTENDS Naturals, FiniteSets

(* reads: the keys a page observes; polls: those with a refetchInterval;   *)
(* gates: those whose loading or error state replaces the whole page.      *)
Page(name, reads, polls, gates) ==
    [name |-> name, reads |-> reads, polls |-> polls, gates |-> gates]

OverviewPage ==
    LET keys == {"overview", "sites", "nodes", "releases", "overview-traffic"}
    IN  Page("overview", keys, keys, {"overview", "sites", "nodes"})

SitesPage == Page("sites", {"sites", "nodes"}, {"sites", "nodes"}, {"sites", "nodes"})

NodesPage == Page("nodes", {"nodes", "sites"}, {"nodes"}, {"nodes", "sites"})

TasksPage == Page("tasks", {"tasks"}, {"tasks"}, {"tasks"})

BackupsPage == Page("backups", {"backups"}, {"backups"}, {"backups"})

EmployeesPage == Page("employees", {"employees"}, {"employees"}, {"employees"})

SettingsPage == Page("settings", {"system-settings"}, {}, {"system-settings"})

ReleasesPage ==
    Page("releases",
         {"drafts", "releases", "release", "release-detail", "sites", "nodes"},
         {"drafts", "releases", "release", "release-detail"},
         {"drafts", "releases", "sites"})

SubscriptionsPage ==
    Page("subscriptions", {"subscriptions", "sites", "nodes"},
         {"subscriptions"}, {"subscriptions", "sites", "nodes"})

ProxiesPage ==
    Page("proxies", {"proxy-configs", "nodes", "sites"},
         {"proxy-configs"}, {"proxy-configs", "nodes", "sites"})

RulesPage ==
    Page("rules", {"access-control", "network-groups", "nodes"},
         {}, {"access-control", "nodes"})

GroupsPage == Page("groups", {"network-groups"}, {}, {"network-groups"})

RoutingPage ==
    Page("routing", {"sites", "nodes", "routing"}, {"nodes"},
         {"sites", "nodes", "routing"})

ProbesPage ==
    Page("probes", {"nodes", "system-settings", "probes", "task"},
         {"nodes", "probes", "task"}, {"nodes"})

AuditPage == Page("audit", {"audit"}, {}, {"audit"})

LogsPage == Page("logs", {"logs", "sites", "nodes"}, {"logs"}, {"logs"})

AlertsPage == Page("alerts", {"alerts", "sites", "nodes"}, {"alerts"}, {"alerts"})

ConnectionsPage ==
    Page("connections",
         {"sites", "nodes", "connections-live", "connections-history"},
         {"connections-live", "connections-history"}, {"sites", "nodes"})

ServiceQualityPage ==
    Page("service-quality",
         {"sites", "nodes", "system-settings", "service-quality"},
         {"service-quality"}, {"sites", "nodes", "system-settings"})

Pages == {OverviewPage, SitesPage, NodesPage, TasksPage, BackupsPage,
          EmployeesPage, SettingsPage, ReleasesPage, SubscriptionsPage,
          ProxiesPage, RulesPage, GroupsPage, RoutingPage, ProbesPage, AuditPage,
          LogsPage, AlertsPage, ConnectionsPage, ServiceQualityPage}

-----------------------------------------------------------------------------
(* The calls of lib/api.ts by the part of the backend's state they are     *)
(* about: what the GET behind a key returns, and what a mutation changes.  *)
(* Views that resolve names on the server depend on the named objects.     *)
FleetApi ==
    [get |-> {<<"overview", "nodes">>, <<"overview", "sites">>, <<"sites", "sites">>,
              <<"routing", "routing">>, <<"employees", "users">>,
              <<"nodes", "nodes">>, <<"proxy-configs", "nodes">>,
              <<"service-quality", "settings">>, <<"system-settings", "settings">>},
     change |-> {<<"sites.rename", "sites">>, <<"nodes.rename", "nodes">>,
                 <<"nodes.renameSite", "sites">>, <<"employees.updateRole", "users">>,
                 <<"settings.update", "settings">>}]

PolicyApi ==
    [get |-> {<<"network-groups", "groups">>, <<"access-control", "rules">>,
              <<"access-control", "groups">>},
     change |-> {<<"sites.shutdown", "sites">>, <<"proxies.select", "nodes">>,
                 <<"proxies.select", "releases">>, <<"groups.save", "groups">>,
                 <<"groups.remove", "groups">>, <<"rules.save", "rules">>,
                 <<"rules.save", "nodes">>, <<"rules.remove", "rules">>,
                 <<"rules.remove", "nodes">>}]

ReleaseApi ==
    [get |-> {<<"subscriptions", "catalog">>, <<"drafts", "drafts">>,
              <<"releases", "releases">>, <<"release", "releases">>,
              <<"release-detail", "releases">>},
     change |-> {<<"subscriptions.create", "catalog">>,
                 <<"subscriptions.create", "tasks">>,
                 <<"subscriptions.import", "catalog">>,
                 <<"subscriptions.refresh", "tasks">>,
                 <<"subscriptions.publish", "catalog">>,
                 <<"subscriptions.publish", "releases">>,
                 <<"subscriptions.publish", "nodes">>,
                 <<"releases.publish", "releases">>}]

OperationsApi ==
    [get |-> {<<"tasks", "tasks">>, <<"task", "tasks">>, <<"probes", "probes">>,
              <<"audit", "audit">>, <<"backups", "backups">>},
     change |-> {<<"tasks.cancel", "tasks">>, <<"backups.create", "backups">>,
                 <<"backups.create", "tasks">>, <<"backups.restore", "backups">>,
                 <<"backups.restore", "tasks">>}]

Apis == {FleetApi, PolicyApi, ReleaseApi, OperationsApi}

Gets(key) == {g[2] : g \in {x \in UNION {a.get : a \in Apis} : x[1] = key}}

(* Every mutation also appends to the audit log.                           *)
Changes(name) ==
    {"audit"} \cup {c[2] : c \in {x \in UNION {a.change : a \in Apis} : x[1] = name}}

-----------------------------------------------------------------------------
(* A mutation: the page it belongs to, the keys its onSuccess invalidates, *)
(* and its dialog.                                                         *)
(*   guarded: the dialog cannot be closed while the call is pending        *)
(*   loose:   its close button works at any time, only Confirm is disabled *)
(*   form:    as loose, and the busy flag belongs to the form inside the   *)
(*            dialog, which is a new one every time the dialog opens       *)
(*   none:    a button, disabled while the call is pending                 *)
(* closes: whether onSuccess closes the dialog before or after it has      *)
(* waited for the invalidated queries to be read again.                    *)
Mutation(name, page, invalidates, dialog, closes) ==
    [name |-> name, page |-> page, invalidates |-> invalidates,
     dialog |-> dialog, closes |-> closes]

SitesMutations ==
    {Mutation("sites.shutdown", SitesPage, {"sites"}, "loose", "after"),
     Mutation("sites.rename", SitesPage, {"sites"}, "guarded", "before")}

NodesMutations ==
    {Mutation("nodes.rename", NodesPage,
              {"nodes", "proxy-configs", "overview"}, "guarded", "before"),
     Mutation("nodes.renameSite", NodesPage,
              {"sites", "nodes", "proxy-configs", "overview"}, "guarded", "before")}

TasksMutations == {Mutation("tasks.cancel", TasksPage, {"tasks"}, "loose", "before")}

BackupsMutations ==
    {Mutation("backups.create", BackupsPage, {"backups", "tasks"}, "none", "before"),
     Mutation("backups.restore", BackupsPage, {"backups", "tasks"}, "loose", "before")}

EmployeesMutations ==
    {Mutation("employees.updateRole", EmployeesPage, {"employees"}, "none", "before")}

SettingsMutations ==
    {Mutation("settings.update", SettingsPage, {"system-settings"}, "none", "before")}

ReleasesMutations ==
    {Mutation("releases.publish", ReleasesPage,
              {"drafts", "releases", "tasks"}, "loose", "before")}

SubscriptionsMutations ==
    {Mutation("subscriptions.create", SubscriptionsPage,
              {"subscriptions", "tasks"}, "guarded", "before"),
     Mutation("subscriptions.import", SubscriptionsPage,
              {"subscriptions"}, "guarded", "before"),
     Mutation("subscriptions.refresh", SubscriptionsPage,
              {"subscriptions", "tasks"}, "none", "before"),
     Mutation("subscriptions.publish", SubscriptionsPage,
              {"subscriptions", "releases", "tasks", "nodes"}, "loose", "before")}

ProxiesMutations ==
    {Mutation("proxies.select", ProxiesPage,
              {"proxy-configs", "nodes", "releases", "tasks"}, "guarded", "before")}

RulesMutations ==
    {Mutation("rules.remove", RulesPage, {"access-control", "nodes"}, "guarded", "before")}

RuleFormMutations ==
    {Mutation("rules.save", RulesPage, {"access-control", "nodes"}, "form", "before")}

GroupsMutations ==
    {Mutation("groups.remove", GroupsPage, {"network-groups"}, "guarded", "before")}

GroupFormMutations ==
    {Mutation("groups.save", GroupsPage, {"network-groups"}, "form", "before")}

Mutations ==
    UNION {SitesMutations, NodesMutations, TasksMutations, BackupsMutations,
           EmployeesMutations, SettingsMutations, ReleasesMutations,
           SubscriptionsMutations, ProxiesMutations, RulesMutations,
           RuleFormMutations, GroupsMutations, GroupFormMutations}

Keys == UNION {p.reads : p \in Pages}

(* A mutation and a key whose contents it changes.                         *)
Effects == {e \in [mutation : Mutations, key : Keys] :
               Changes(e.mutation.name) \cap Gets(e.key) # {}}
=============================================================================
