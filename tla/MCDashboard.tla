---------------------------- MODULE MCDashboard ----------------------------
(* Three alerts of two children, two stages, two rows to a page of the list. *)
EXTENDS DashboardPages

CONSTANTS mia, leo, roblox, discord

MCAlertId == 1..3
MCStage == 1..2
MCSeverity == {1, 2}
MCChildOf == 1 :> mia @@ 2 :> mia @@ 3 :> leo
MCPlatformOf == 1 :> roblox @@ 2 :> discord @@ 3 :> discord
MCAccountOn == mia :> roblox @@ leo :> discord
MCDayOf == 1 :> 6 @@ 2 :> 7 @@ 3 :> 9

Only(bounds) ==
  [event \in Event |-> IF event \in DOMAIN bounds THEN bounds[event] ELSE 0]

Alert(id, severity) ==
  [id |-> id, acknowledged |-> FALSE, severity |-> severity, detectedStages |-> <<>>]

Start(family0, log, bounds) ==
  [family |-> family0, stored |-> log, bounds |-> Only(bounds)]

One == <<Alert(1, 2)>>
Two == <<Alert(2, 1), Alert(1, 2)>>
Three == <<Alert(3, 1), Alert(2, 1), Alert(1, 2)>>

(* One behaviour explores one part of the dashboard: sessions and sockets, *)
(* the list, the page of an alert, children, with and without alerts, the  *)
(* test chat, settings, the menu, and loads that fail.                     *)
MCStarts ==
  { Start({mia}, <<>>, [logins |-> 4, kicks |-> 1, drops |-> 1, raises |-> 1, checks |-> 1]),
    Start({mia}, <<>>, [logins |-> 4, kicks |-> 1, failures |-> 1, checks |-> 1]),
    Start({mia}, <<>>, [logins |-> 5, kicks |-> 2, checks |-> 1, turns |-> 1, edits |-> 1,
                        changes |-> 1]),
    Start({mia}, <<>>, [logins |-> 5, kicks |-> 2, checks |-> 1, failures |-> 1,
                        retries |-> 1]),
    Start({mia}, Two, [logins |-> 2, turns |-> 1, raises |-> 1, filters |-> 2]),
    Start({mia, leo}, Three, [logins |-> 2, turns |-> 1, filters |-> 2, acks |-> 1]),
    Start({mia}, Two, [logins |-> 2, turns |-> 2, analyses |-> 1, reads |-> 1]),
    Start({mia}, One, [logins |-> 2, turns |-> 1, acks |-> 1, analyses |-> 2,
                       failures |-> 1]),
    Start({mia}, One, [logins |-> 2, turns |-> 2, raises |-> 1, analyses |-> 1]),
    Start({mia}, <<>>, [logins |-> 2, turns |-> 2, edits |-> 2, changes |-> 2,
                        failures |-> 1]),
    Start({mia, leo}, Three, [logins |-> 2, turns |-> 2, edits |-> 1, changes |-> 1,
                              acks |-> 1]),
    Start({mia}, One, [logins |-> 2, turns |-> 3, edits |-> 1, changes |-> 1,
                       analyses |-> 1]),
    Start({mia, leo}, Two, [logins |-> 2, turns |-> 1, edits |-> 1, changes |-> 1,
                            raises |-> 1]),
    Start({mia}, <<>>, [logins |-> 4, turns |-> 1, edits |-> 1, changes |-> 1, kicks |-> 1]),
    Start({mia, leo}, <<>>, [logins |-> 2, turns |-> 2, plays |-> 3, posts |-> 2,
                             failures |-> 1]),
    Start({mia}, <<>>, [logins |-> 2, turns |-> 1, sets |-> 2, raises |-> 1]),
    Start({mia}, <<>>, [logins |-> 2, turns |-> 1, sets |-> 2, kicks |-> 1]),
    Start({mia}, <<>>, [logins |-> 2, turns |-> 1, menus |-> 2, kicks |-> 1]),
    Start({mia}, <<>>, [logins |-> 2, edits |-> 1, failures |-> 1]),
    Start({mia}, <<>>, [logins |-> 2, failures |-> 1, retries |-> 1, raises |-> 1]) }

=============================================================================
