----------------------------- MODULE Navigation -----------------------------
(***************************************************************************)
(* Where a user of the dashboard may go: the links the layout and the home *)
(* page show him, and the guards of the routes those links lead to.  The   *)
(* two are written down separately in the code.                            *)
(***************************************************************************)

Staff == {"admin", "moderator"}
Features == {"WarRoom", "Squads", "Strategy", "Ministry", "Transfers", "Rotation",
             "Foundry", "Discord", "GiftCodes"}

NoUser == [role |-> "none", alliance |-> FALSE, mfa |-> FALSE]
User == [role: Staff \cup {"player"}, alliance: BOOLEAN, mfa: BOOLEAN]

\* features[k]: undefined until GET /system/features is answered.
Copy(loaded, enabled) ==
  [k \in Features |-> IF ~loaded THEN "unset" ELSE IF k \in enabled THEN "on" ELSE "off"]

Link(path, roles, alliance, feature) ==
  [path |-> path, roles |-> roles, alliance |-> alliance, feature |-> feature]

navLinks ==
  { Link("/", Staff, FALSE, "none"),               Link("/roster", Staff, FALSE, "none"),
    Link("/war-room", Staff, FALSE, "WarRoom"),    Link("/squads", Staff, FALSE, "Squads"),
    Link("/strategy", Staff, FALSE, "Strategy"),
    Link("/event-history", Staff, FALSE, "WarRoom"),
    Link("/ministry", Staff, FALSE, "Ministry"),
    Link("/transfer-manager", Staff, FALSE, "Transfers"),
    Link("/rotation", Staff, FALSE, "Rotation"),   Link("/alliances", {"admin"}, FALSE, "none"),
    Link("/foundry", Staff, TRUE, "Foundry"),      Link("/discord", Staff, TRUE, "Discord"),
    Link("/audit-logs", {"admin"}, FALSE, "none"), Link("/users", {"admin"}, FALSE, "none"),
    Link("/profile", Staff, FALSE, "none") }

Paths == {l.path : l \in navLinks}

\* Mutation: the alliance is not looked at.
filteredLinksAnyAlliance(user, features) ==
  {l \in navLinks : /\ user.role \in l.roles
                    /\ l.feature = "none" \/ features[l.feature] # "off"}

\* The sidebar's: a link stays unless its feature is known to be off.
filteredLinks(user, features) ==
  {l \in navLinks : /\ user.role \in l.roles
                    /\ l.alliance => user.alliance
                    /\ l.feature = "none" \/ features[l.feature] # "off"}

\* The home page's cards: the same filter, written again, without the home page itself.
activeNavCards(user, features) ==
  {l \in navLinks \ {Link("/", Staff, FALSE, "none")} :
     /\ user.role \in l.roles
     /\ ~l.alliance \/ user.alliance
     /\ l.feature = "none" \/ features[l.feature] # "off"}

\* The routes whose guards ask for more than a user.  Other routes name a feature too,
\* but on the Route element, which ignores it.
AdminRoutes == {"/users", "/alliances", "/audit-logs"}
AllianceRoutes == {"/foundry", "/discord"}
FeatureRoutes == [r \in {"/war-room", "/rotation"} |->
                    IF r = "/war-room" THEN "WarRoom" ELSE "Rotation"]

\* RequireAlliance, inside ProtectedRoute: a page, or the not-found page.
RequireAlliance(user, path) == IF user.alliance THEN path ELSE "/404"

\* ProtectedRoute: where the router ends when asked for path.  The login page and the
\* not-found page have no guard.
Landing(user, features, path) ==
  CASE path \in {"/login", "/404"} -> path
    [] path \notin {"/login", "/404"} /\ user = NoUser -> "/login"
    [] user # NoUser /\ path \in AdminRoutes -> IF user.role = "admin" THEN path ELSE "/"
    [] user # NoUser /\ path \in DOMAIN FeatureRoutes ->
         IF features[FeatureRoutes[path]] = "on" THEN path ELSE "/"
    [] user # NoUser /\ path \in AllianceRoutes -> RequireAlliance(user, path)
    [] OTHER -> path
=============================================================================
