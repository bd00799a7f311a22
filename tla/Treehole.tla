------------------------------ MODULE Treehole ------------------------------
(***************************************************************************)
(* The anonymous treehole: letters with their reactions and conversations, *)
(* bottles, wishes and reports.  Visitors are known by the hash of a       *)
(* cookie.  One letter, one bottle and one wish carry the interleavings; a *)
(* conversation is the one of its replier.                                 *)
(***************************************************************************)
EXTENDS Requests

CONSTANTS
    Visitors, Author,   \* Author wrote the letter, the bottle and the wish
    Limit               \* rows of one kind that a visitor may create in a minute

Kinds == {"letter", "bottle", "wish"}

\* A letter's visibility: scheduled, published or sealed, and who may see it.
Letter(privacy) == [privacy |-> privacy, phase |-> "scheduled"]

Sides == {"author", "replier"}

\* A new row of treehole_conversations.
Conversation ==
    [blocked |-> [s \in Sides |-> FALSE], hidden |-> [s \in Sides |-> FALSE], messages |-> 0, recalled |-> 0]

\* A wish is recent for its first minute.
NoWish == [there |-> FALSE, recent |-> FALSE, lights |-> 0, lit |-> {}]

\* Without a bottle the picker is Author, who may not pick it.
Init ==
    /\ db = [letter |-> {Letter("public")}, reactions |-> {}, conv |-> <<>>,
             bottle |-> [there |-> FALSE, picker |-> Author, replies |-> 0],
             wish |-> NoWish, reports |-> {}, queue |-> 0,
             recent |-> [v \in Visitors |-> [k \in Kinds |-> 0]]]
    /\ hist = [overlaps |-> [v \in Visitors |-> [k \in Kinds |-> 0]], astray |-> FALSE]
    /\ Resting

Put(f, k, v) == [x \in DOMAIN f \cup {k} |-> IF x = k THEN v ELSE f[x]]

\* owner_required: every write names the visitor of the cookie.
Visitor(v) == v \in Visitors

----------------------------------------------------------------------------
(* Creating *)

\* _rate_limit counts the rows of one table of the last minute.
RateLimit(v, kind) == db.recent[v][kind] < Limit

Creating(v, kind) == {c \in Conns : tx[c].op = "create" /\ tx[c].owner = v /\ tx[c].kind = kind}

StartCreate(c, v, kind) ==
    /\ RateLimit(v, kind)
    /\ Begin(c, [op |-> "create", owner |-> v, kind |-> kind])
    /\ hist' = [hist EXCEPT !.overlaps[v][kind] = @ + Cardinality(Creating(v, kind))]
    /\ UNCHANGED db

\* create_letter, create_bottle, create_wish.
Create(c) ==
    LET r == tx[c]
        first(kind, there) == ~there /\ r.kind = kind /\ r.owner = Author
    IN
    /\ r.op = "create"
    /\ db' = [db EXCEPT !.recent[r.owner][r.kind] = @ + 1,
                        !.bottle.there = @ \/ first("bottle", @),
                        !.wish = IF first("wish", @.there) THEN [@ EXCEPT !.there = TRUE, !.recent = TRUE] ELSE @]
    /\ Finish(c)
    /\ UNCHANGED hist

\* A row of the last minute, other than the wish, is removed: it counts no
\* longer.  Bottles stay.
Withdraw(c, v, kind) ==
    /\ db.recent[v][kind] > IF kind = "wish" /\ v = Author /\ db.wish.recent THEN 1 ELSE 0
    /\ AtOnce(c)
    /\ db' = [db EXCEPT !.recent[v][kind] = @ - 1]
    /\ UNCHANGED hist

\* A minute passes; the letter's times come.
Minute ==
    /\ \E v \in Visitors, k \in Kinds : db.recent[v][k] > 0
    /\ db' = [db EXCEPT !.recent = [v \in Visitors |-> [k \in Kinds |-> 0]], !.wish.recent = FALSE]
    /\ hist' = [hist EXCEPT !.overlaps = [v \in Visitors |-> [k \in Kinds |-> Cardinality(Creating(v, k))]]]
    /\ UNCHANGED <<tx, left>>

Phase ==
    /\ \E l \in db.letter, p \in {"published", "sealed"} :
         /\ <<l.phase, p>> \in {<<"scheduled", "published">>, <<"published", "sealed">>}
         /\ db' = [db EXCEPT !.letter = {[l EXCEPT !.phase = p]}]
    /\ UNCHANGED <<tx, hist, left>>

\* edit_letter: the author sets the privacy and both times again.
EditLetter(c, p, phase) ==
    /\ db.letter # {}
    /\ AtOnce(c)
    /\ db' = [db EXCEPT !.letter = {[privacy |-> p, phase |-> phase]}]
    /\ UNCHANGED hist

\* remove_letter deletes messages, conversations and reactions first.
RemoveLetter(c) ==
    /\ db.letter # {}
    /\ AtOnce(c)
    /\ db' = [db EXCEPT !.letter = {}, !.reactions = {}, !.conv = <<>>]
    /\ UNCHANGED hist

OpenTo(privacies) == \E l \in db.letter : l.privacy \in privacies /\ l.phase = "published"

----------------------------------------------------------------------------
(* Reactions: unique by owner, letter and kind *)

ToggleReaction(c, v, kind) ==
    /\ OpenTo({"public"})
    /\ Begin(c, [op |-> "react", key |-> <<v, kind>>, had |-> <<v, kind>> \in db.reactions])
    /\ UNCHANGED <<db, hist>>

\* A second insert, or one for a letter that is gone, fails.
React(c) ==
    LET r == tx[c] IN
    /\ r.op = "react"
    /\ db' = IF db.letter = {} THEN db
             ELSE [db EXCEPT !.reactions = IF r.had THEN @ \ {r.key} ELSE @ \cup {r.key}]
    /\ Finish(c)
    /\ UNCHANGED hist

----------------------------------------------------------------------------
(* Conversations *)

Blocked(v) == db.conv[v].blocked["author"] \/ db.conv[v].blocked["replier"]

Deliver(k, seen) ==
    [k EXCEPT !.messages = @ + 1,
              !.hidden = [s \in Sides |-> @[s] /\ ~seen[s]]]

\* start_reply: the letter, the pair's conversation and its blocks.
StartReply(c, v) ==
    /\ v # Author
    /\ OpenTo({"public", "random"})
    /\ v \in DOMAIN db.conv => ~Blocked(v)
    /\ Begin(c, [op |-> "reply", owner |-> v, conv |-> v, crossed |-> {}, new |-> v \notin DOMAIN db.conv,
                 hidden |-> IF v \in DOMAIN db.conv THEN db.conv[v].hidden ELSE Conversation.hidden])
    /\ UNCHANGED <<db, hist>>

\* send_message, by either side.
SendMessage(c, k, side) ==
    /\ k \in DOMAIN db.conv
    /\ ~Blocked(k)
    /\ Begin(c, [op |-> "send", conv |-> k, crossed |-> {}, new |-> FALSE, hidden |-> db.conv[k].hidden,
                 owner |-> IF side = "author" THEN Author ELSE k])
    /\ UNCHANGED <<db, hist>>

\* Faulty variant of Shown: a message brings the conversation back for its
\* sender only.
ShownToSender(r) == [s \in Sides |-> r.hidden[s] /\ ((s = "author") <=> (r.owner = Author))]

\* The flags are cleared where they were loaded as set.
Shown(r) == r.hidden

\* The unique pair, or a letter that is gone, refuses a new conversation;
\* rows of a deleted one are not found.
PostMessage(c) ==
    LET r == tx[c]
        there == r.conv \in DOMAIN db.conv
    IN
    /\ r.op \in {"reply", "send"}
    /\ IF r.new = there \/ db.letter = {} THEN UNCHANGED <<db, hist>>
       ELSE LET old == IF there THEN db.conv[r.conv] ELSE Conversation
                now == Deliver(old, Shown(r))
            IN  /\ db' = [db EXCEPT !.conv = Put(@, r.conv, now)]
                /\ hist' = [hist EXCEPT !.astray =
                     @ \/ \E s \in Sides \ r.crossed : now.hidden[s] \/ now.blocked[s]]
    /\ Finish(c)

\* recall, within two minutes.
Recall(c, k) ==
    /\ k \in DOMAIN db.conv
    /\ db.conv[k].recalled < db.conv[k].messages
    /\ AtOnce(c)
    /\ db' = [db EXCEPT !.conv[k].recalled = @ + 1]
    /\ UNCHANGED hist

\* A side's own flag is set; messages of the conversation that are being
\* sent remember it.
Flag(c, k, side, conv) ==
    /\ tx[c] = Idle /\ left > 0 /\ left' = left - 1
    /\ db' = [db EXCEPT !.conv[k] = conv]
    /\ tx' = [o \in Conns |-> IF tx[o].op \in {"reply", "send"} /\ tx[o].conv = k
                             THEN [tx[o] EXCEPT !.crossed = @ \cup {side}] ELSE tx[o]]
    /\ UNCHANGED hist

Block(c, k, side) ==
    /\ k \in DOMAIN db.conv
    /\ Flag(c, k, side, [db.conv[k] EXCEPT !.blocked[side] = TRUE])

\* hide_conversation; clear keeps the conversation in the list.
Hide(c, k, side) ==
    /\ k \in DOMAIN db.conv
    /\ Flag(c, k, side, [db.conv[k] EXCEPT !.hidden[side] = TRUE])

----------------------------------------------------------------------------
(* Bottles and wishes: the row is locked *)

Unpicked == db.bottle.picker = Author

ReplyBottle(c, v) ==
    /\ db.bottle.there
    /\ v # Author
    /\ Unpicked
    /\ AtOnce(c)
    /\ db' = [db EXCEPT !.bottle.picker = v, !.bottle.replies = @ + 1]
    /\ UNCHANGED hist

NotLit(v) == v \notin db.wish.lit

LightWish(c, v) ==
    /\ db.wish.there
    /\ AtOnce(c)
    /\ db' = IF NotLit(v) THEN [db EXCEPT !.wish.lights = @ + 1, !.wish.lit = @ \cup {v}] ELSE db
    /\ UNCHANGED hist

\* remove_wish deletes the lights, then the wish.
RemoveWish(c) ==
    /\ db.wish.there
    /\ AtOnce(c)
    /\ db' = [db EXCEPT !.wish = NoWish, !.recent[Author]["wish"] = IF db.wish.recent THEN @ - 1 ELSE @]
    /\ UNCHANGED hist

----------------------------------------------------------------------------
(* Reports *)

\* The reporter's earlier report is looked for; the pair is unique.
StartReport(c, v) ==
    /\ db.letter # {}
    /\ v \notin db.reports
    /\ Begin(c, [op |-> "report", owner |-> v])
    /\ UNCHANGED <<db, hist>>

\* uq reporter, target: a second insert undoes the entry of the queue too.
Fresh(v) == v \notin db.reports

\* create_if_absent: an anonymous report always enters the queue.
Report(c) ==
    LET r == tx[c] IN
    /\ r.op = "report"
    /\ db' = IF Fresh(r.owner) THEN [db EXCEPT !.reports = @ \cup {r.owner}, !.queue = @ + 1] ELSE db
    /\ Finish(c)
    /\ UNCHANGED hist

----------------------------------------------------------------------------

Next ==
    \/ \E c \in Conns, v \in Visitors :
         \/ Visitor(v) /\ \E kind \in Kinds : StartCreate(c, v, kind)
         \/ \E kind \in Kinds \ {"bottle"} : Withdraw(c, v, kind)
         \/ ToggleReaction(c, v, "like")
         \/ StartReply(c, v)
         \/ \E side \in Sides : SendMessage(c, v, side) \/ Block(c, v, side) \/ Hide(c, v, side)
         \/ Recall(c, v)
         \/ ReplyBottle(c, v) \/ LightWish(c, v)
         \/ StartReport(c, v)
    \/ \E c \in Conns :
         \/ \E p \in {"public", "private"}, phase \in {"scheduled", "published"} : EditLetter(c, p, phase)
         \/ RemoveLetter(c) \/ RemoveWish(c)
         \/ Create(c) \/ React(c) \/ PostMessage(c) \/ Report(c)
         \/ Fail(c)
    \/ Minute \/ Phase

Spec == Init /\ [][Next]_vars

----------------------------------------------------------------------------

\* Lights are one per visitor, a bottle gets one reply, every entry of the
\* review queue is a visitor's one report.
OncePerVisitor ==
    /\ db.wish.lights = Cardinality(db.wish.lit)
    /\ db.bottle.replies <= 1
    /\ db.queue = Cardinality(db.reports)

\* Rows of the letter go with it.
NoOrphans == db.letter = {} => db.reactions = {} /\ db.conv = <<>>

\* A message is seen and wanted: it brings the conversation back to a side
\* that had hidden it, and none comes after a block; but the flags are read
\* when it is sent and rewritten when it commits, so not what a side hides or
\* blocks in between.
MessagesArrive == ~hist.astray

\* More than the rate limit comes only from requests that overlap.
LimitExplained ==
    \A v \in Visitors, k \in Kinds : db.recent[v][k] <= Limit + hist.overlaps[v][k]

TreeholeSound == OncePerVisitor /\ NoOrphans /\ MessagesArrive /\ LimitExplained

=============================================================================
