---------------------------- MODULE Dashboards ----------------------------
(***************************************************************************)
(* The figures that are computed from rows and their createdAt: statistics *)
(* and charts of AdminService and CreatorService, sales of PaymentsService.*)
(*                                                                         *)
(* Time is counted in ticks of UTC; the server's time zone is zone ticks   *)
(* ahead, without daylight saving.  Days and months are numbered from 0,   *)
(* a January 1st; Date.setMonth and setDate go by those numbers, so that a *)
(* day that a month does not have falls into the next one.  Rounding is    *)
(* left out, amounts are whole.                                            *)
(***************************************************************************)
EXTENDS Integers, FiniteSets, SequencesExt

CONSTANTS
    Creators, Amounts, Zones,
    TicksPerDay,
    Moments,          \* the times at which something happens
    MaxFacts,
    Top               \* getTopUsers answers with five

ASSUME DashboardsAssumption ==
    /\ IsFiniteSet(Creators) /\ Moments \subseteq Nat /\ Moments # {} /\ Zones \subseteq Int
    /\ Amounts \subseteq Nat /\ TicksPerDay \in Nat \ {0} /\ MaxFacts \in Nat /\ Top \in Nat
    \* Time is counted from before all of this: there is a month before each moment.
    /\ \A t \in Moments, z \in Zones : t + z >= 31 * TicksPerDay

VARIABLES
    now, zone,
    active,    \* User.isActive, as a set
    facts      \* rows of all tables that figures are made of, oldest first

dashboardVars == <<now, zone, active, facts>>

\* of: the creator whom a like, comment, view, follow or sale is a success of,
\* or the author of a post, or the user.  Only follows and sales have a status.
Fact ==
    [table : {"user", "post", "like", "comment", "view"}, of : Creators, born : Moments,
     amount : {0}, status : {"done"}]
    \cup [table : {"follow"}, of : Creators, born : Moments, amount : {0},
          status : {"PENDING", "done"}]
    \cup [table : {"sale"}, of : Creators, born : Moments, amount : Amounts,
          status : {"PENDING", "done"}]

----------------------------------------------------------------------------
(* The calendar.                                                           *)
(***************************************************************************)
Lengths == <<31, 28, 31, 30, 31, 30, 31, 31, 30, 31, 30, 31>>
MonthLength(m) == Lengths[(m % 12) + 1]
FirstDay[m \in Nat] == IF m = 0 THEN 0 ELSE LET before == FirstDay[m - 1]
                                            IN before + MonthLength(m - 1)

UtcDay(t) == t \div TicksPerDay
LocalDay(t) == (t + zone) \div TicksPerDay
LocalMidnight(day) == day * TicksPerDay - zone
MonthOf(day) == CHOOSE m \in 0 .. (day \div 28) : FirstDay[m] <= day /\ day < FirstDay[m + 1]
Month(t) == MonthOf(LocalDay(t))

----------------------------------------------------------------------------
(* Sets of rows.                                                           *)
(***************************************************************************)
RowsOf(table) == {i \in DOMAIN facts : facts[i].table = table}
Done(rows) == {i \in rows : facts[i].status = "done"}
Of(u, rows) == {i \in rows : facts[i].of = u}
Since(t, rows) == {i \in rows : facts[i].born >= t}
InMonth(m, rows) == {i \in rows : Month(facts[i].born) = m}
Volume(rows) == SumFunctionOnSet([i \in DOMAIN facts |-> facts[i].amount], rows)

----------------------------------------------------------------------------
(* getActivityChart, of a creator and of all: 14 local days back, labelled *)
(* and looked up by their dates in UTC.                                    *)
(***************************************************************************)
\* Mutant: the window starts a day late.
ChartSince_Late == LocalMidnight(LocalDay(now) - 12)
ChartSince == LocalMidnight(LocalDay(now) - 13)
Labels == {UtcDay(ChartSince + i * TicksPerDay) : i \in 0 .. 13}
Chart(rows) ==
    [d \in Labels |-> Cardinality({i \in Since(ChartSince, rows) : UtcDay(facts[i].born) = d})]

CreatorActivityChart(u) ==
    [table \in {"like", "comment", "view", "follow"} |->
        Chart(Of(u, IF table = "follow" THEN Done(RowsOf(table)) ELSE RowsOf(table)))]
AdminActivityChart == [table \in {"post", "user"} |-> Chart(RowsOf(table))]

----------------------------------------------------------------------------
(* Statistics.                                                             *)
(***************************************************************************)
CreatorStats(u) ==
    [posts |-> Cardinality(Of(u, RowsOf("post"))),
     followers |-> Cardinality(Of(u, Done(RowsOf("follow")))),
     likes |-> Cardinality(Of(u, RowsOf("like"))),
     comments |-> Cardinality(Of(u, RowsOf("comment")))]

Week == 7 * TicksPerDay
NewThisWeek(table) == Cardinality(Since(now - Week, RowsOf(table)))
NewLastWeek(table) ==
    Cardinality(Since(now - 2 * Week, RowsOf(table)) \ Since(now - Week, RowsOf(table)))
CalcGrowth(current, previous) ==
    IF previous = 0 THEN (IF current > 0 THEN 100 ELSE 0)
    ELSE ((current - previous) * 100) \div previous

EnhancedStats ==
    [users |-> Cardinality(RowsOf("user")), posts |-> Cardinality(RowsOf("post")),
     likes |-> Cardinality(RowsOf("like")), comments |-> Cardinality(RowsOf("comment")),
     userGrowth |-> CalcGrowth(NewThisWeek("user"), NewLastWeek("user")),
     postGrowth |-> CalcGrowth(NewThisWeek("post"), NewLastWeek("post"))]

EngagementOf(u) == Cardinality(Of(u, RowsOf("like"))) + Cardinality(Of(u, RowsOf("comment")))

\* The answers that ties allow: the sort keeps the order of the rows, which is any.
\* Only active users are ranked.
Ranking(users) ==
    LET Better(u) == {v \in users : EngagementOf(v) > EngagementOf(u)}
        size == IF Cardinality(users) < Top THEN Cardinality(users) ELSE Top
    IN {s \in SUBSET users : Cardinality(s) = size /\ \A u \in s : Better(u) \subseteq s}
\* Mutant: banned users are ranked too.
TopUsers_Banned == Ranking(Creators)
TopUsers == Ranking(active)

----------------------------------------------------------------------------
(* Sales: what a creator earned, in fifths, and what the platform did.     *)
(***************************************************************************)
CreatorAnalytics(u) ==
    LET sales == Of(u, Done(RowsOf("sale"))) IN
    [total |-> 4 * Volume(sales), month |-> 4 * Volume(InMonth(Month(now), sales)),
     count |-> Cardinality(sales)]

\* setMonth(getMonth() - 1) keeps the day of the month.
LastMonth ==
    LET today == LocalDay(now)
    IN MonthOf(FirstDay[MonthOf(today) - 1] + (today - FirstDay[MonthOf(today)]))
MonetizationAnalytics ==
    LET sales == Done(RowsOf("sale"))
        current == InMonth(Month(now), sales)
        last == InMonth(LastMonth, sales \ current) IN
    [gross |-> Volume(sales), platform |-> Volume(sales), count |-> Cardinality(sales),
     currentMonth |-> Volume(current), lastMonth |-> Volume(last),
     growth |-> CalcGrowth(Volume(current), Volume(last))]

----------------------------------------------------------------------------
DashboardsTypeOK ==
    /\ now \in Moments /\ zone \in Zones /\ active \subseteq Creators /\ facts \in Seq(Fact)
    /\ \A i \in DOMAIN facts : facts[i].born <= now
DashboardsInit ==
    /\ now = CHOOSE t \in Moments : \A s \in Moments : t <= s
    /\ zone \in Zones /\ active = Creators /\ facts = <<>>

RowWritten ==
    /\ Len(facts) < MaxFacts
    /\ \E f \in Fact : f.born = now /\ facts' = Append(facts, f)
    /\ UNCHANGED <<now, zone, active>>

\* A follow is accepted, a purchase paid; createdAt stays.
RowSettled ==
    /\ \E i \in DOMAIN facts :
           /\ facts[i].status = "PENDING"
           /\ facts' = [facts EXCEPT ![i].status = "done"]
    /\ UNCHANGED <<now, zone, active>>

TimePasses ==
    /\ \E t \in Moments : t > now /\ now' = t
    /\ UNCHANGED <<zone, active, facts>>

\* A user is banned or unbanned, deactivates or reactivates the account.
ActiveChanges ==
    /\ \E u \in Creators :
           active' = IF u \in active THEN active \ {u} ELSE active \cup {u}
    /\ UNCHANGED <<now, zone, facts>>

DashboardsStep == RowWritten \/ RowSettled \/ TimePasses \/ ActiveChanges

----------------------------------------------------------------------------
(* Properties.                                                             *)
(***************************************************************************)
\* "for the last 14 days" (AdminService, line 620): in a chart is every row of
\* the 14 days that end today, once, if the server's zone is UTC; elsewhere all
\* but those of the UTC date that follows the one of the last label.
ChartsAreComplete ==
    LET Charted(rows) ==
            {i \in rows : /\ LocalDay(facts[i].born) > LocalDay(now) - 14
                          /\ zone = 0 \/ UtcDay(facts[i].born) <= UtcDay(LocalMidnight(LocalDay(now)))} IN
    /\ \A table \in {"post", "user"} :
           SumFunction(AdminActivityChart[table]) = Cardinality(Charted(RowsOf(table)))
    /\ \A u \in Creators : \A table \in {"like", "comment", "view", "follow"} :
           SumFunction(CreatorActivityChart(u)[table]) =
               Cardinality(Charted(Of(u, Done(RowsOf(table)))))

\* What creators are shown adds up to what administrators are: their likes and
\* comments, their sales, their earnings and the platform's; the top users are
\* active, and leave out an active user only for Top others who are shown at least
\* as many likes and comments of their own; and the growth of sales compares this
\* month with the one before, except on a day that the month before does not have,
\* when it compares with nothing.
FiguresAgree ==
    LET sales == MonetizationAnalytics
        before == MonthOf(LocalDay(now)) - 1
        Credit(u) == CreatorStats(u).likes + CreatorStats(u).comments
        dayOfMonth == LocalDay(now) - FirstDay[before + 1] + 1 IN
    /\ SumFunction([u \in Creators |-> CreatorStats(u).likes]) = EnhancedStats.likes
    /\ SumFunction([u \in Creators |-> CreatorStats(u).comments]) = EnhancedStats.comments
    /\ \A top \in TopUsers :
           /\ top \subseteq active
           /\ \A v \in active \ top :
                  Cardinality({u \in top : Credit(v) <= Credit(u)}) = Top
    /\ SumFunction([u \in Creators |-> CreatorAnalytics(u).total]) + sales.platform =
           5 * sales.gross
    /\ SumFunction([u \in Creators |-> CreatorAnalytics(u).month]) = 4 * sales.currentMonth
    /\ SumFunction([u \in Creators |-> CreatorAnalytics(u).count]) = sales.count
    /\ sales.lastMonth = IF dayOfMonth <= MonthLength(before)
                         THEN Volume(InMonth(before, Done(RowsOf("sale")))) ELSE 0

=============================================================================
