-------------------------- MODULE TrafficAnalytics --------------------------
(* Visitor analytics: page views of a browser with its two cookies, the     *)
(* business events of sign-up, login and first test, the acquisition rows   *)
(* that outlive the visitor, the retention purge, a tracking link, and the  *)
(* figures that the administrators read.  One user is one organization, as  *)
(* register makes them.  A request is one step: one that overlaps a purge   *)
(* of its rows fails as a whole.                                            *)
EXTENDS Integers, Sequences, FiniteSets, FiniteSetsExt

CONSTANTS
  Users,          \* accounts that may register
  Campaigns,      \* values of utm_campaign
  Retention,      \* analytics_retention_days
  SeriesGuard,    \* longest daily series of _build_timeseries (366)
  LastDay,        \* bound: days
  MaxViews,       \* bound: page views
  MaxEvents,      \* bound: events in the table
  MaxVisits       \* bound: visitors ever made, and visits ever made

VARIABLES
  day,            \* today
  accounts,       \* users who have registered
  events,         \* analytics_events rows
  visitors,       \* analytics_visitors by id: first touch, last_seen_at; "gone" when purged
  visits,         \* analytics_sessions by id: visitor, touch, last_event_at
  attribution,    \* user -> user_acquisition_attribution (and the organization's)
  cookies,        \* visitor and visit id of the browser, 0 if absent
  link,           \* the tracking link
  firstSource,    \* visitor id -> touch of the page view that made it (history)
  cameBy          \* user -> the visitor that registered, 0 if none was known (history)

trafficVars == <<day, accounts, events, visitors, visits, attribution, cookies, link, firstSource, cameBy>>

NoUser == "nobody"
Direct == [code |-> FALSE, campaign |-> "none"]
Touches == [code : BOOLEAN, campaign : Campaigns \cup {"none"}]
NoRow == [gone |-> TRUE]

TrafficInit ==
  /\ day = 0
  /\ accounts = {}
  /\ events = {}
  /\ visitors = <<>> /\ visits = <<>>
  /\ attribution = [u \in Users |-> NoRow]
  /\ cookies = [visitor |-> 0, visit |-> 0]
  /\ link = [active |-> TRUE, campaign |-> "none"]
  /\ firstSource = <<>>
  /\ cameBy = [u \in Users |-> 0]

Alive(rows) == {i \in DOMAIN rows : ~rows[i].gone}

(* Rows that INSERT adds; a row whose dedup_key exists is skipped.          *)
NextId == IF events = {} THEN 1 ELSE Max({e.id : e \in events}) + 1
Event(type, visitor, visit, touch, user, key) ==
  [id |-> NextId, type |-> type, day |-> day, visitor |-> visitor, visit |-> visit,
   touch |-> touch, user |-> user, key |-> key]
NoKey == <<>>

(* A mutant: the dedup key is not looked at.                                *)
InsertEventsAlways(new) ==
  /\ NextId + Cardinality(new) <= MaxEvents + 1
  /\ events' = events \cup new

InsertEvents(new) ==
  /\ NextId + Cardinality(new) <= MaxEvents + 1
  /\ events' = events \cup {e \in new : e.key = NoKey \/ \A f \in events : f.key # e.key}

-----------------------------------------------------------------------------
(* A mutant: the cookie of a purged visitor is believed.                    *)
KnownVisitorBelieved == {cookies.visitor} \ {0}

(* The cookies name rows that exist, or they are not believed.              *)
KnownVisitor == {cookies.visitor} \cap Alive(visitors)
IdleSince(i) == visits[i].last < day
OpenVisit(v, idle) ==
  {i \in {cookies.visit} \cap Alive(visits) : visits[i].visitor = v /\ ~IdleSince(i) /\ ~idle}

(* A page view.  idle: the last one was more than 30 minutes ago.  repeats: *)
(* it is the same event_id once more.  user: of the access cookie, if any.  *)
PageView(touch, user, idle, key) ==
  LET known == KnownVisitor # {}
      v == IF known THEN cookies.visitor ELSE Len(visitors) + 1
      reused == OpenVisit(v, idle) # {}
      s == IF reused THEN cookies.visit ELSE Len(visits) + 1
      event(type, k, n) == [Event(type, v, s, touch, user, k) EXCEPT !.id = NextId + n] IN
  /\ Len(visitors) < MaxVisits \/ known
  /\ Len(visits) < MaxVisits \/ reused
  /\ visitors' = IF known THEN [visitors EXCEPT ![v].lastSeen = day]
                 ELSE Append(visitors, [gone |-> FALSE, first |-> touch, lastSeen |-> day, user |-> NoUser])
  /\ firstSource' = IF known THEN firstSource ELSE Append(firstSource, touch)
  /\ visits' = IF reused THEN [visits EXCEPT ![s].last = day, ![s].user = IF user = NoUser THEN @ ELSE user]
               ELSE Append(visits, [gone |-> FALSE, visitor |-> v, touch |-> touch, last |-> day, user |-> user])
  /\ InsertEvents({event("page_view", <<"page_view", key>>, 1)} \cup
                  (IF reused THEN {} ELSE {event("visitor_session_started", NoKey, 0)}))
  /\ cookies' = [visitor |-> v, visit |-> s]
  /\ UNCHANGED <<day, accounts, attribution, link, cameBy>>

Keys == {e.key[2] : e \in {f \in events : f.type = "page_view"}}
FreshKey == Max(Keys \cup {0}) + 1

(* Rate limit and consent may refuse a page view, which leaves no trace.    *)
BrowserSendsPageView ==
  /\ FreshKey <= MaxViews
  /\ \E user \in accounts \cup {NoUser}, idle \in BOOLEAN :
       PageView(Direct, user, idle, FreshKey)
RepeatPageView == \E key \in Keys : PageView(Direct, NoUser, FALSE, key)

(* track_link_redirect: an inactive link answers 404, an active one leads   *)
(* to a page view that carries its code and its campaign.                   *)
TrackLinkRedirect ==
  /\ link.active /\ FreshKey <= MaxViews
  /\ PageView([code |-> TRUE, campaign |-> link.campaign], NoUser, FALSE, FreshKey)

UpdateTrackingLink(active, campaign) ==
  /\ link' = [active |-> active, campaign |-> campaign]
  /\ link' # link
  /\ UNCHANGED <<day, accounts, events, visitors, visits, attribution, cookies, firstSource, cameBy>>

(* The user clears the cookies, or comes with another device.               *)
ForgetCookies ==
  /\ cookies.visitor # 0
  /\ cookies' = [visitor |-> 0, visit |-> 0]
  /\ UNCHANGED <<day, accounts, events, visitors, visits, attribution, link, firstSource, cameBy>>

-----------------------------------------------------------------------------
(* Registration: three business events, and the acquisition of the visitor: *)
(* its first touch, and the touch of its latest visit.                      *)
LatestVisit(v) == Max({i \in Alive(visits) : visits[i].visitor = v})
LastTouch(v) ==
  IF \E i \in Alive(visits) : visits[i].visitor = v THEN visits[LatestVisit(v)].touch ELSE visitors[v].first

BusinessEvents(types, user) ==
  LET v == IF KnownVisitor = {} THEN 0 ELSE cookies.visitor IN
  InsertEvents({[Event(types[n], v, 0, Direct, user, NoKey) EXCEPT !.id = NextId + n - 1] : n \in DOMAIN types})

LinkSignupAttribution(u) ==
  IF KnownVisitor = {} THEN UNCHANGED <<visitors, attribution>>
  ELSE /\ visitors' = [visitors EXCEPT ![cookies.visitor].user = u]
       /\ attribution' = [attribution EXCEPT ![u] =
            IF @.gone THEN [gone |-> FALSE, visitor |-> cookies.visitor, day |-> day,
                            first |-> visitors[cookies.visitor].first, last |-> LastTouch(cookies.visitor)]
            ELSE @]

Register(u) ==
  /\ u \notin accounts
  /\ accounts' = accounts \cup {u}
  /\ BusinessEvents(<<"signup_completed", "organization_created", "login_succeeded">>, u)
  /\ LinkSignupAttribution(u)
  /\ cameBy' = [cameBy EXCEPT ![u] = IF KnownVisitor = {} THEN 0 ELSE cookies.visitor]
  /\ UNCHANGED <<day, visits, cookies, link, firstSource>>

LoginSucceeds(u) ==
  /\ u \in accounts
  /\ BusinessEvents(<<"login_succeeded">>, u)
  /\ UNCHANGED <<day, accounts, visitors, visits, attribution, cookies, link, firstSource, cameBy>>

(* first_test_started carries the organization in its dedup key.            *)
LaunchTest(u) ==
  /\ u \in accounts
  /\ InsertEvents({Event("first_test_started", 0, 0, Direct, u, <<"first_test_started", u>>)})
  /\ UNCHANGED <<day, accounts, visitors, visits, attribution, cookies, link, firstSource, cameBy>>

-----------------------------------------------------------------------------
NextDay ==
  /\ day < LastDay
  /\ day' = day + 1
  /\ UNCHANGED <<accounts, events, visitors, visits, attribution, cookies, link, firstSource, cameBy>>

(* Rows older than the retention go; foreign keys of younger events are set *)
(* to NULL, visits of a purged visitor go with it, attributions stay.       *)
Cutoff == day - Retention
KeptVisitors == {v \in Alive(visitors) : visitors[v].lastSeen >= Cutoff}
KeptVisits == {s \in Alive(visits) : visits[s].last >= Cutoff /\ visits[s].visitor \in KeptVisitors}
Kept(i, rows) == IF i \in rows THEN i ELSE 0

(* A mutant: the acquisition of a purged visitor goes with it.              *)
PurgedAttributionCascading(u) ==
  IF attribution[u].gone \/ attribution[u].visitor \in KeptVisitors THEN attribution[u] ELSE NoRow

PurgedAttribution(u) ==
  IF attribution[u].gone THEN attribution[u]
  ELSE [attribution[u] EXCEPT !.visitor = Kept(@, KeptVisitors)]

PurgeExpired ==
  /\ events' = {[e EXCEPT !.visitor = Kept(@, KeptVisitors), !.visit = Kept(@, KeptVisits)] :
                  e \in {f \in events : f.day >= Cutoff}}
  /\ visitors' = [v \in DOMAIN visitors |-> IF v \in KeptVisitors THEN visitors[v] ELSE NoRow]
  /\ visits' = [s \in DOMAIN visits |-> IF s \in KeptVisits THEN visits[s] ELSE NoRow]
  /\ attribution' = [u \in Users |-> PurgedAttribution(u)]
  /\ UNCHANGED <<day, accounts, cookies, link, firstSource, cameBy>>

TrafficNext ==
  \/ BrowserSendsPageView \/ RepeatPageView \/ TrackLinkRedirect \/ ForgetCookies
  \/ \E active \in BOOLEAN, campaign \in Campaigns \cup {"none"} : UpdateTrackingLink(active, campaign)
  \/ \E u \in Users : Register(u) \/ LoginSucceeds(u) \/ LaunchTest(u)
  \/ NextDay \/ PurgeExpired

TrafficSpec == TrafficInit /\ [][TrafficNext]_trafficVars

-----------------------------------------------------------------------------
(* The figures of the administrators, derived from the rows.  "any" leaves  *)
(* a filter open; the filter by source is left out.                         *)
PageViews(first, last, campaign, org) ==
  {e \in events : /\ e.type = "page_view" /\ e.day \in first..last
                  /\ campaign \in {"any", e.touch.campaign}
                  /\ org \in {"any", e.user}}
OfType(type, first, last) == {e \in events : e.type = type /\ e.day \in first..last}
DistinctVisitors(E) == Cardinality({e.visitor : e \in E} \ {0})
DistinctUsers(E) == Cardinality({e.user : e \in E} \ {NoUser})
Referred(touch) == touch.code \/ touch.campaign # "none"
Rate(n, d) == IF d = 0 THEN <<0, 1>> ELSE <<n, d>>
Acquired(first, last) == {u \in Users : ~attribution[u].gone /\ attribution[u].day \in first..last}

Overview(first, last, campaign, org) ==
  LET pv == PageViews(first, last, campaign, org)
      logins == OfType("login_succeeded", first, last)
      visitorsEver == DistinctVisitors(PageViews(0, day, campaign, "any")) IN
  [total_page_views |-> Cardinality(pv),
   total_unique_visitors |-> visitorsEver,
   unique_visitors_today |-> DistinctVisitors(PageViews(day, day, "any", "any")),
   successful_logins_in_range |-> Cardinality(logins),
   unique_login_users_in_range |-> DistinctUsers(logins),
   campaign_referred_visitors |-> DistinctVisitors({e \in pv : Referred(e.touch)}),
   campaign_referred_signups |-> Cardinality({u \in Acquired(first, last) : Referred(attribution[u].first)}),
   signup_to_first_login_rate |-> Rate(DistinctUsers(OfType("login_succeeded", 0, day)), Cardinality(accounts))]

(* The series starts at the first day and stops after SeriesGuard days.     *)
TimeSeries(first, last, campaign, org) ==
  [d \in first..Min({last, first + SeriesGuard - 1}) |->
     [visits |-> Cardinality(PageViews(d, d, campaign, org)),
      signups |-> Cardinality(OfType("signup_completed", d, d)),
      logins |-> Cardinality(OfType("login_succeeded", d, d))]]

Funnel(first, last, campaign, org) ==
  [visitors |-> DistinctVisitors(PageViews(first, last, campaign, org)),
   signups |-> Cardinality(OfType("signup_completed", first, last)),
   organizations |-> Cardinality(OfType("organization_created", first, last)),
   first_tests |-> Cardinality(OfType("first_test_started", first, last))]

(* The sign-ups of a campaign are counted over all time.                    *)
TopCampaigns(first, last) ==
  [c \in {e.touch.campaign : e \in PageViews(first, last, "any", "any")} \ {"none"} |->
     [visitors |-> DistinctVisitors(PageViews(first, last, c, "any")),
      signups |-> Cardinality({u \in Acquired(0, day) : attribution[u].first.campaign = c})]]

ByLink(touch) == touch.code \/ (link.campaign # "none" /\ touch.campaign = link.campaign)
TrackingLinkStats ==
  LET views == {e \in PageViews(0, day, "any", "any") : ByLink(e.touch)}
      signups == {u \in Acquired(0, day) : ByLink(attribution[u].first)} IN
  [total_visits |-> Cardinality(views),
   unique_visitors |-> DistinctVisitors(views),
   signups |-> Cardinality(signups),
   first_tests |-> DistinctUsers({e \in OfType("first_test_started", 0, day) : e.user \in signups}),
   conversion_rate |-> Rate(Cardinality(signups), DistinctVisitors(views))]

UserLoginStats(u, window) ==
  LET logins == {e \in OfType("login_succeeded", 0, day) : e.user = u} IN
  [total_logins |-> Cardinality(logins),
   first_login |-> {e.day : e \in {x \in logins : \A y \in logins : x.day <= y.day}},
   last_login |-> {e.day : e \in {x \in logins : \A y \in logins : x.day >= y.day}},
   logins_in_window |-> Cardinality({e \in logins : e.day >= day - window})]

-----------------------------------------------------------------------------
(* Every variable has its type.                                             *)
TrafficTypeOK ==
  /\ day \in 0..LastDay /\ accounts \subseteq Users
  /\ \A e \in events : /\ e.day \in 0..day /\ e.touch \in Touches /\ e.user \in accounts \cup {NoUser}
                        /\ e.visitor \in 0..Len(visitors) /\ e.visit \in 0..Len(visits)
  /\ \A v \in Alive(visitors) : visitors[v].lastSeen \in 0..day /\ visitors[v].first \in Touches
  /\ \A s \in Alive(visits) : visits[s].visitor \in Alive(visitors) /\ visits[s].last \in 0..day
  /\ \A u \in Users : attribution[u].gone \/ attribution[u].visitor \in 0..Len(visitors)
  /\ cookies \in [visitor : 0..Len(visitors), visit : 0..Len(visits)]
  /\ link \in [active : BOOLEAN, campaign : Campaigns \cup {"none"}]

(* A page view that the retention keeps still has its visitor and its visit,*)
(* and no page view is counted twice, however often it is sent.             *)
ViewsStayAttributed ==
  \A e \in {x \in events : x.type = "page_view"} :
    /\ e.day >= Cutoff => e.visitor \in Alive(visitors) /\ e.visit \in Alive(visits)
    /\ \A f \in events : f.key = e.key => f = e

(* What an account was acquired by is what brought its visitor first, and   *)
(* survives the purge of that visitor.                                      *)
AcquisitionSurvives ==
  \A u \in accounts : cameBy[u] # 0 =>
    ~attribution[u].gone /\ attribution[u].first = firstSource[cameBy[u]]

(* The daily series of a range within the guard adds up to the totals, and  *)
(* so do the logins of the users and the visitors of the campaigns.         *)
SumOf(series, field(_)) == FoldSet(LAMBDA d, n : n + field(series[d]), 0, DOMAIN series)
SeriesAddsUp ==
  \A first \in 0..day : \A last \in first..Min({day, first + SeriesGuard - 1}) :
    LET series == TimeSeries(first, last, "any", "any") IN
    /\ SumOf(series, LAMBDA p : p.visits) = Overview(first, last, "any", "any").total_page_views
    /\ SumOf(series, LAMBDA p : p.logins) = Overview(first, last, "any", "any").successful_logins_in_range
    /\ SumOf(series, LAMBDA p : p.signups) = Funnel(first, last, "any", "any").signups
    /\ first = 0 /\ last = day =>
         /\ Overview(0, day, "any", "any").successful_logins_in_range =
              FoldSet(LAMBDA u, n : n + UserLoginStats(u, Retention).total_logins, 0, accounts)
         /\ \A c \in DOMAIN TopCampaigns(0, day) :
              TopCampaigns(0, day)[c].visitors = Overview(0, day, c, "any").total_unique_visitors

TrafficAddsUp == ViewsStayAttributed /\ AcquisitionSurvives /\ SeriesAddsUp

(* Not an invariant: the sign-ups of a link outlive the page views they are *)
(* compared with.                                                           *)
ConversionAtMostOne == TrackingLinkStats.conversion_rate[1] <= TrackingLinkStats.conversion_rate[2]
=============================================================================
