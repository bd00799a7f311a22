---------------------------- MODULE MCCommunity ----------------------------
(*****************************************************************************)
(* The services of the community, each on a small instance.  They share      *)
(* the shape of Requests and no state, so a behaviour runs one of them,      *)
(* chosen in Init by `focus`: the state graph is the union of theirs, not    *)
(* a product.  Two connections carry all overlaps of two requests; the       *)
(* bounds on requests let a third and a fourth come before or after them.    *)
(*****************************************************************************)
EXTENDS Naturals, FiniteSets, Sequences, TLC

CONSTANTS
    Conns,      \* connections, interchangeable
    NoConn      \* nobody, where a component records who holds something

VARIABLES focus, db, tx, hist, left

vars == <<focus, db, tx, hist, left>>

Symmetry == Permutations(Conns)

----------------------------------------------------------------------------
(* The components, each with its own bounds *)

Apply == INSTANCE Applications WITH MaxRequests <- 4, Users <- {"u1", "u2"}, Titles <- {"s1", "s2"}, Apps <- {1, 2}

Board == INSTANCE Boards WITH MaxRequests <- 5, Users <- {"u1", "u2"}, Slugs <- {"s1"}, Apps <- {1, 2},
    NoUser <- "nobody", DailyLimit <- 1

Article == INSTANCE Articles WITH MaxRequests <- 3, Users <- {"u1"}, Cats <- {"k1", "k2"}, Tags <- {"t1"}, MaxComments <- 2,
    NoRow <- NoConn

Exam == INSTANCE Exams WITH MaxRequests <- 5, Users <- {"u1", "u2"}, Exams <- {"e1", "e2"}, Seeded <- "e1", Attempts <- {1, 2},
    Scores <- 0..2, PassScore <- 1

Hole == INSTANCE Treehole WITH MaxRequests <- 4, Visitors <- {"v1", "v2"}, Author <- "v1", Limit <- 1

Blog == INSTANCE BlogRepos WITH MaxRequests <- 5, Users <- {"u1"}

Search == INSTANCE SearchIndex WITH MaxRequests <- 3, Posts <- {11}, Files <- {1, 2}

Points == INSTANCE PointsEngine WITH MaxRequests <- 4, Events <- {"e1", "e2"}, Threshold <- 2,
    Requirement <- [post |-> 2, checkin |-> 1], LastDay <- 3

Star == INSTANCE StarHope WITH MaxRequests <- 4, Devices <- Conns, MaxNow <- 3

Rules == INSTANCE Moderation WITH MaxRequests <- 4, Reporters <- {"u1"}, Limit <- 1

\* A source, an author and whether the item is on the followed board: authors
\* and boards interleave, and what is read twice stands beside what is not.
Item(a, s, b) == [author |-> a, source |-> s, board |-> b]
Shapes == {<<Item("other", "discussion", TRUE), Item("star", "discussion", FALSE), Item("fan", "column", FALSE),
             Item("star", "blog", FALSE), Item("fan", "discussion", TRUE)>>,
           <<Item("fan", "column", FALSE), Item("star", "discussion", TRUE), Item("other", "article", FALSE),
             Item("star", "column", FALSE), Item("star", "blog", FALSE)>>}

Pages == INSTANCE TimelinePages WITH Conns <- {NoConn}, MaxRequests <- 2, Items <- 1..5, Patterns <- Shapes, Limit <- 1,
    MaxScan <- 3

Notify == INSTANCE Notifications WITH MaxRequests <- 4, Author <- "a", Parent <- "p", Sockets <- {"s1"}

----------------------------------------------------------------------------
(* A behaviour runs one component *)

Init ==
    \/ focus = "Applications" /\ Apply!Init
    \/ focus = "Boards" /\ Board!Init
    \/ focus = "Articles" /\ Article!Init
    \/ focus = "Exams" /\ Exam!Init
    \/ focus = "Treehole" /\ Hole!Init
    \/ focus = "BlogRepos" /\ Blog!Init
    \/ focus = "SearchIndex" /\ Search!Init
    \/ focus = "PointsEngine" /\ Points!Init
    \/ focus = "StarHope" /\ Star!Init
    \/ focus = "Moderation" /\ Rules!Init
    \/ focus = "TimelinePages" /\ Pages!Init
    \/ focus = "Notifications" /\ Notify!Init

On(component) == focus = component /\ UNCHANGED focus

NextApplications == On("Applications") /\ Apply!Next

NextBoards == On("Boards") /\ Board!Next

NextArticles == On("Articles") /\ Article!Next

NextExams == On("Exams") /\ Exam!Next

NextTreehole == On("Treehole") /\ Hole!Next

NextBlogRepos == On("BlogRepos") /\ Blog!Next

NextSearchIndex == On("SearchIndex") /\ Search!Next

NextPointsEngine == On("PointsEngine") /\ Points!Next

NextStarHope == On("StarHope") /\ Star!Next

NextModeration == On("Moderation") /\ Rules!Next

NextTimelinePages == On("TimelinePages") /\ Pages!Next

NextNotifications == On("Notifications") /\ Notify!Next

Next ==
    \/ NextApplications
    \/ NextBoards
    \/ NextArticles
    \/ NextExams
    \/ NextTreehole
    \/ NextBlogRepos
    \/ NextSearchIndex
    \/ NextPointsEngine
    \/ NextStarHope
    \/ NextModeration
    \/ NextTimelinePages
    \/ NextNotifications

Spec == Init /\ [][Next]_vars

----------------------------------------------------------------------------

\* columns and projects: overlapping submissions leave one pending row, and
\* decisions agree with the columns, projects and promotions they made.
ApplicationsSound == focus = "Applications" => Apply!ApplicationsSound

\* content boards: one live application per slug, no edit under a version is
\* lost (update_cas), the daily limit is passed only by overlapping posts.
BoardsSound == focus = "Boards" => Board!BoardsSound

\* articles: counters equal the rows under overlapping likes and comments, a
\* published article is dated, and every like was reported for points.
ArticlesSound == focus = "Articles" => Article!ArticlesSound

\* exams: one certificate per promoting exam and user, promotions match the
\* certificates over the two databases, the ranking is ordered and complete.
ExamsSound == focus = "Exams" => Exam!ExamsSound

\* treehole: lights, bottle replies and reports are one per visitor, no row
\* outlives its letter, and a hidden conversation returns with a message.
TreeholeSound == focus = "Treehole" => Hole!TreeholeSound

\* blog: a series keeps its bare repository, and the copy of its file in the
\* database follows pushes and writes whatever the backfill does.
BlogSound == focus = "BlogRepos" => Blog!BlogSound

\* search: with no event due the index holds what may be seen, and nothing
\* else is answered, however late events and rebuilds come.
SearchSound == focus = "SearchIndex" => Search!SearchSound

\* points engine: each event counts once for points, counters, achievements
\* and tasks under redelivery, and check-in streaks are true.
PointsSound == focus = "PointsEngine" => Points!PointsSound

\* starhope: the newest change wins every push, and no device misses a row
\* between its pull cursors.
StarHopeSound == focus = "StarHope" => Star!StarHopeSound

\* feed and moderation: following the cursors of a timeline shows everything
\* that was there all the time once, whatever is posted, deleted, hidden or
\* materialised meanwhile; a page obeys the rules committed when it was asked
\* for, and a reporter has one pending report of a target.
PagesSound ==
    /\ focus = "TimelinePages" => Pages!PagesSound
    /\ focus = "Moderation" => Rules!ModerationSound

\* notifications and the WebSocket gateway: merged rows count every event
\* once, frames show committed rows and reach only sockets of their user.
NotifySound == focus = "Notifications" => Notify!NotifySound

=============================================================================
