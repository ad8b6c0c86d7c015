------------------------------ MODULE Reading ------------------------------
(***************************************************************************)
(* The three kinds of reads: page by page (Listings), stories (Tray), and  *)
(* figures (Dashboards).  They share nothing, so that a behaviour is of    *)
(* one kind, and the states of the others are the idle ones.               *)
(***************************************************************************)
EXTENDS Listings, Tray, Dashboards

VARIABLE kind  \* of the behaviour

vars == <<kind, listingVars, trayVars, dashboardVars>>

ListingsIdle ==
    /\ table = <<>> /\ private = {} /\ following = <<>> /\ query = None /\ limit = 1
    /\ walk = [step |-> "idle", data |-> <<>>] /\ history = None
TrayIdle == story = None /\ holds = {} /\ visit = None /\ ever = {} /\ always = {}
DashboardsIdle == now = 0 /\ zone = 0 /\ active = {} /\ facts = <<>>

Init ==
    \/ kind = "pages" /\ ListingsInit /\ TrayIdle /\ DashboardsIdle
    \/ kind = "stories" /\ TrayInit /\ ListingsIdle /\ DashboardsIdle
    \/ kind = "figures" /\ DashboardsInit /\ ListingsIdle /\ TrayIdle

Next ==
    \/ kind = "pages" /\ ListingsStep /\ UNCHANGED <<kind, trayVars, dashboardVars>>
    \/ kind = "stories" /\ TrayStep /\ UNCHANGED <<kind, listingVars, dashboardVars>>
    \/ kind = "figures" /\ DashboardsStep /\ UNCHANGED <<kind, listingVars, trayVars>>

Spec == Init /\ [][Next]_vars

----------------------------------------------------------------------------
\* The types of the variables.
TypeOK ==
    /\ kind = "pages" => ListingsTypeOK
    /\ kind = "stories" => TrayTypeOK
    /\ kind = "figures" => DashboardsTypeOK

\* A walk through the pages of a listing shows the rows (Listings).
WalkShowsRows == kind = "pages" => WalkMissesByChangeOnly /\ QuietWalkIsExact

\* What a feed or a profile's posts show can be opened (Listings).
WhatIsListedOpens == kind = "pages" => ListedOpens

\* A visit is shown the stories that the conditions of its endpoint let it see, and
\* the tray no story for close friends to others (Tray).
StoriesShownFairly == kind = "stories" => TrayIsFair

\* "Supports close-friends-only visibility" (stories.service.ts:31), "Guest cannot view
\* premium media or close friends" (line 154): no endpoint shows a story for close
\* friends to others.  False: findByUser never looks (Tray).
CloseFriendsRespected == kind = "stories" => CloseFriendsOnly

\* Charts leave nothing out (Dashboards).
ChartsComplete == kind = "figures" => ChartsAreComplete

\* Figures of different services agree (Dashboards).
FiguresConsistent == kind = "figures" => FiguresAgree

=============================================================================
