------------------------------- MODULE AdminOps -------------------------------
(***************************************************************************)
(* What administrators do across services, and the audit trail of it.      *)
(* Audit rows belong to the auth service and are written over HTTP, each   *)
(* committed at once.  Switching a part of the bot changes the bot first   *)
(* and is audited after; a deletion of content is audited before its own   *)
(* transaction commits; a ticket for the bot panel is minted, audited and  *)
(* only then handed over; logs of the bot are streamed through.  The bot   *)
(* is an external service.                                                 *)
(***************************************************************************)
EXTENDS Requests

\* The parts of the bot that are switched on and off.
Parts == {"platform", "provider", "plugin"}

\* on are the parts that are on; upstream are the open streams of the bot's
\* logs; audit is the trail, oldest first.
Init ==
    /\ db = [granted |-> TRUE, on |-> [p \in Parts |-> TRUE], item |-> "live", audit |-> <<>>, handed |-> {},
             upstream |-> {}]
    /\ hist = [switched |-> {}, deleted |-> {}, blind |-> {}, crossed |-> FALSE, kept |-> {},
               unread |-> {}]
    /\ Resting

\* Faulty variant of Steps: the ticket is handed over before the audit.
StepsHandFirst ==
    [switch |-> <<"bot", "audit">>, install |-> <<"bot", "audit">>, delete |-> <<"audit", "commit">>,
     ticket |-> <<"mint", "hand", "audit">>, logs |-> <<"open", "stream", "close">>]

\* What a request does after its permission was checked, in order.
Steps ==
    [switch |-> <<"bot", "audit">>, install |-> <<"bot", "audit">>, delete |-> <<"audit", "commit">>,
     ticket |-> <<"mint", "audit", "hand">>, logs |-> <<"open", "stream", "close">>]

Busy(c) == tx[c] # Idle

At(c, step) == Busy(c) /\ tx[c].todo # <<>> /\ Head(tx[c].todo) = step

\* The request goes on behind its present step.
Done(c) == IF Len(tx[c].todo) = 1 THEN Finish(c) ELSE Continue(c, [tx[c] EXCEPT !.todo = Tail(@)])

Entry(c) == [id |-> tx[c].id, op |-> tx[c].op, part |-> tx[c].part, want |-> tx[c].want]

----------------------------------------------------------------------------
(* Requests: require_admin and require_permission come first *)

Ask(c, op, part, want) ==
    /\ Begin(c, [op |-> op, id |-> left, part |-> part, want |-> want, todo |-> Steps[op]])
    /\ UNCHANGED <<db, hist>>

Switch(c, part) == db.granted /\ \E want \in BOOLEAN : Ask(c, "switch", part, want)

\* admin_bot_platform_toggle, admin_bot_provider_toggle, admin_bot_plugin_toggle.
SwitchPlatform(c) == Switch(c, "platform")

SwitchProvider(c) == Switch(c, "provider")

SwitchPlugin(c) == Switch(c, "plugin")

\* admin_bot_sso_ticket.
Ticket(c) == db.granted /\ Ask(c, "ticket", "", TRUE)

\* The same without the permission: the refusal is audited if that works.
Denied(c) ==
    /\ ~db.granted
    /\ AtOnce(c)
    /\ db' = [db EXCEPT !.audit = Append(@, [id |-> left, op |-> "denied", part |-> "", want |-> FALSE])]
    /\ UNCHANGED hist

\* admin_delete_content_item and its like; a permission of their own.
Delete(c) == db.item = "live" /\ Ask(c, "delete", "", TRUE)

\* The grant of admin.bot_panel is taken back, or given.
Grant(c) ==
    /\ AtOnce(c)
    /\ db' = [db EXCEPT !.granted = ~@]
    /\ UNCHANGED hist

\* admin_bot_pip_install.
Install(c) == db.granted /\ Ask(c, "install", "", TRUE)

\* admin_bot_logs_live, admin_bot_logs_export.
Logs(c) == db.granted /\ Ask(c, "logs", "", TRUE)

----------------------------------------------------------------------------
(* Steps *)

\* The state of the bot once it has done what the request wants.
Applied(c) == IF tx[c].op = "switch" THEN [db EXCEPT !.on[tx[c].part] = tx[c].want] ELSE db

\* The bot applies the change.
BotApplies(c) ==
    /\ At(c, "bot")
    /\ db' = Applied(c)
    /\ hist' = [hist EXCEPT !.switched = @ \cup {tx[c].id},
          !.crossed = @ \/ \E o \in Open("switch") \ {c} : tx[o].part = tx[c].part /\ tx[o].id \in hist.switched]
    /\ Done(c)

\* It applies the change, and its answer is lost or is not understood: the
\* request ends with an error.
BotUnanswered(c) ==
    /\ At(c, "bot")
    /\ db' = Applied(c)
    /\ hist' = [hist EXCEPT !.switched = @ \cup {tx[c].id}, !.blind = @ \cup {tx[c].id}]
    /\ Finish(c)

\* mint_ticket, in the auth service.
MintTicket(c) == At(c, "mint") /\ Done(c) /\ UNCHANGED <<db, hist>>

\* record_audit.
RecordAudit(c) ==
    /\ At(c, "audit")
    /\ db' = [db EXCEPT !.audit = Append(@, Entry(c))]
    /\ Done(c)
    /\ UNCHANGED hist

\* record_audit raises: the request ends and its transaction is rolled back.
Undone(c) == Finish(c)

AuditFails(c) ==
    /\ At(c, "audit")
    /\ \/ UNCHANGED db
       \/ db' = [db EXCEPT !.audit = Append(@, Entry(c))]
    /\ hist' = [hist EXCEPT !.blind = @ \cup (hist.switched \cap {tx[c].id}),
                            !.kept = IF db' = db THEN @ ELSE @ \cup {tx[c].id}]
    /\ Undone(c)

HandOver(c) ==
    /\ At(c, "hand")
    /\ db' = [db EXCEPT !.handed = @ \cup {tx[c].id}]
    /\ Done(c)
    /\ UNCHANGED hist

CommitDelete(c) ==
    /\ At(c, "commit")
    /\ db' = [db EXCEPT !.item = "gone"]
    /\ hist' = [hist EXCEPT !.deleted = @ \cup {tx[c].id}]
    /\ Done(c)

\* The stream from the bot is opened, read to its end or to the reader's, and
\* closed by the generator that reads it.
OpenLogs(c) ==
    /\ At(c, "open")
    /\ db' = [db EXCEPT !.upstream = @ \cup {tx[c].id}]
    /\ Done(c)
    /\ UNCHANGED hist

StreamLogs(c) == At(c, "stream") /\ Done(c) /\ UNCHANGED <<db, hist>>

CloseLogs(c) ==
    /\ At(c, "close")
    /\ db' = [db EXCEPT !.upstream = @ \ {tx[c].id}]
    /\ Done(c)
    /\ UNCHANGED hist

\* The reader is gone before the first byte: the generator never starts, and
\* nothing closes the stream.
LogsUnread(c) ==
    /\ At(c, "stream")
    /\ hist' = [hist EXCEPT !.unread = @ \cup {tx[c].id}]
    /\ Finish(c)
    /\ UNCHANGED db

\* Any other end: the bot refuses, the mint fails, the commit fails.
Ends(c) ==
    /\ \E step \in {"bot", "mint", "hand", "commit", "open"} : At(c, step)
    /\ hist' = [hist EXCEPT !.kept = @ \cup {tx[c].id}]
    /\ Finish(c)
    /\ UNCHANGED db

Next ==
    \E c \in Conns :
        \/ SwitchPlatform(c) \/ SwitchProvider(c) \/ SwitchPlugin(c)
        \/ Ticket(c) \/ Denied(c) \/ Delete(c) \/ Grant(c) \/ Install(c) \/ Logs(c)
        \/ BotApplies(c) \/ BotUnanswered(c) \/ MintTicket(c)
        \/ RecordAudit(c) \/ AuditFails(c) \/ HandOver(c) \/ CommitDelete(c)
        \/ OpenLogs(c) \/ StreamLogs(c) \/ CloseLogs(c) \/ LogsUnread(c) \/ Ends(c)

Spec == Init /\ [][Next]_vars

----------------------------------------------------------------------------

Audited == {db.audit[i].id : i \in DOMAIN db.audit}

Pending == {tx[c].id : c \in {x \in Conns : Busy(x)}}

\* No ticket is handed over and no content is deleted without a row in the
\* audit trail, and no switching of the bot unless its answer or the audit
\* was lost.
Traced ==
    /\ db.handed \cup hist.deleted \subseteq Audited
    /\ hist.switched \subseteq Audited \cup Pending \cup hist.blind

\* A row of the trail tells what happened: the request took effect, is not
\* finished, or ended after the row was written.
TrailTrue ==
    \A i \in DOMAIN db.audit : LET e == db.audit[i] IN
        \/ e.id \in Pending \cup hist.kept
        \/ e.op = "denied"
        \/ e.op \in {"switch", "install"} /\ e.id \in hist.switched
        \/ e.op = "ticket" /\ e.id \in db.handed
        \/ e.op = "delete" /\ e.id \in hist.deleted

\* The last switching of a part in the trail is its state in the bot, unless
\* one was lost or two overlapped.
TrailCurrent ==
    (hist.blind = {} /\ ~hist.crossed /\ Open("switch") = {}) =>
        \A i \in DOMAIN db.audit : LET e == db.audit[i] IN
            /\ e.op = "switch"
            /\ \A j \in DOMAIN db.audit : j > i /\ db.audit[j].op = "switch" => db.audit[j].part # e.part
            => db.on[e.part] = e.want

\* A stream from the bot is closed when its request ends, unless nobody read
\* a byte of it.
StreamsClosed == db.upstream \subseteq Pending \cup hist.unread

AuditSound == StreamsClosed /\ Traced /\ TrailTrue /\ TrailCurrent

=============================================================================
