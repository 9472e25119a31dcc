------------------------------ MODULE MailLog ------------------------------
(***************************************************************************)
(* The mail log (activity/mail-log.ts): what Postfix writes about its      *)
(* messages, line by line, and the rows of mail_log the app makes of it,   *)
(* with the app's memory of messages in the queue (contexts), restarts     *)
(* that read lines again or leave some out, and lines that fail or never   *)
(* reach the app.                                                          *)
(*                                                                         *)
(* LogTail models the reader. Here it may go on at any line after a        *)
(* restart: at the one saved last, further back when the saved position    *)
(* cannot be read, or further on when stop() saved the end of a chunk in   *)
(* hand, or the log was rotated meanwhile.                                 *)
(*                                                                         *)
(* Abstracted: what is known of a message is the set of Pieces known; a    *)
(* piece a line gives is always that of its message, whose queue id is     *)
(* never used again (enable_long_queue_ids). Every message goes to every   *)
(* recipient. Left out: the direction of a row, relay, dsn and detail      *)
(* (overwritten with the status), the count of attempts (lines read twice  *)
(* count twice), verify probes, and ban hits (Bans).                       *)
(***************************************************************************)
EXTENDS Naturals, Sequences, FiniteSetsExt

CONSTANTS Messages, Recipients, Null,
          MaxLines,    \* bound: lines Postfix writes
          MaxCrashes,  \* bound: restarts of the app
          MaxSkips     \* bound: lines that fail or are lost

VARIABLES
  \* Postfix
  stage,     \* stage[m]: how far message m has come
  todo,      \* recipients being tried
  left,      \* recipients that are not settled
  log,       \* the lines written
  \* the app
  pos,       \* lines behind the reader
  contexts,  \* contexts[m]: the pieces in memory, or Null
  mail_log,  \* the rows, by id
  \* history
  late,      \* messages a delivery was logged of after they were deleted
  skipped,   \* messages a line of which failed, was lost, or was left out by a restart
  lost,      \* messages read of, and without a row, when the app died or forgot them
  half,      \* messages whose context began with a later line than their first
  seen,      \* the most lines ever behind the reader
  crashes, skips

postfix == <<stage, todo, left, log>>
app == <<pos, contexts, mail_log>>
history == <<late, skipped, lost, half, seen, crashes, skips>>
logVars == <<postfix, app, history>>

Pieces == {"client", "source", "headers", "sender", "size"}
\* What the ON CONFLICT clause fills in when the row lacks it; sender and source are not in it.
Coalesced == {"client", "headers", "size"}
Outcomes == {"delivered", "deferred", "bounced", "rejected"}
Line == [kind : {"client", "pickup", "headers", "queued", "delivery", "expired", "removed", "deleted", "reject"},
         m : Messages \cup {Null}, to : Recipients \cup {Null},
         status : Outcomes \cup {Null}]
Row == [queueId : Messages \cup {Null}, recipient : Recipients,
        status : Outcomes \cup {"expired", "deleted"},
        has : SUBSET Pieces]

ASSUME NullOutside == Null \notin Messages /\ (\A known \in SUBSET Pieces : known # Null) /\ Null \notin Outcomes
ASSUME LimitsAreNat == {MaxLines, MaxCrashes, MaxSkips} \subseteq Nat

LogInit ==
  /\ stage = [m \in Messages |-> "new"]
  /\ todo = [m \in Messages |-> {}]
  /\ left = [m \in Messages |-> Recipients]
  /\ log = <<>>
  /\ pos = 0
  /\ contexts = [m \in Messages |-> Null]
  /\ mail_log = <<>>
  /\ late = {} /\ skipped = {} /\ lost = {} /\ half = {}
  /\ seen = 0 /\ crashes = 0 /\ skips = 0

----------------------------------------------------------------------------
(* What Postfix does and logs (external; the lines are those parseEvent    *)
(* knows, postfix-parse.ts).                                               *)

LogLine(kind, m, to, status) ==
  /\ Len(log) < MaxLines
  /\ log' = Append(log, [kind |-> kind, m |-> m, to |-> to, status |-> status])

Goes(m, from, to) ==
  /\ stage[m] \in from
  /\ stage' = [stage EXCEPT ![m] = to]

\* smtpd takes a message from a client, or pickup takes one sent on the machine
Arrive(m) ==
  /\ Goes(m, {"new"}, "cleanup")
  /\ \E kind \in {"client", "pickup"} : LogLine(kind, m, Null, Null)
  /\ UNCHANGED <<todo, left, app, history>>

\* cleanup logs the Message-ID and the subject
Headers(m) ==
  /\ Goes(m, {"cleanup"}, "incoming")
  /\ LogLine("headers", m, Null, Null)
  /\ UNCHANGED <<todo, left, app, history>>

\* rspamd refuses the message after its contents
ContentReject(m) ==
  /\ Goes(m, {"incoming"}, "gone")
  /\ \E r \in Recipients : LogLine("reject", m, r, "rejected")
  /\ UNCHANGED <<todo, left, app, history>>

\* smtpd refuses a recipient before there is a message (bound: once)
NoQueueReject ==
  /\ \A i \in DOMAIN log : log[i].m # Null
  /\ \E r \in Recipients : LogLine("reject", Null, r, "rejected")
  /\ UNCHANGED <<stage, todo, left, app, history>>

\* qmgr logs the sender and size each time the message becomes active
Activate(m) ==
  /\ Goes(m, {"incoming", "deferred"}, "active")
  /\ LogLine("queued", m, Null, Null)
  /\ todo' = [todo EXCEPT ![m] = left[m]]
  /\ UNCHANGED <<left, app, history>>

\* A delivery agent is done with one recipient; it finishes even when the message was deleted meanwhile.
Attempt(m) ==
  /\ stage[m] \in {"active", "gone"}
  /\ \E r \in todo[m], status \in {"delivered", "deferred", "bounced"} :
       /\ LogLine("delivery", m, r, status)
       /\ todo' = [todo EXCEPT ![m] = @ \ {r}]
       /\ left' = IF status = "deferred" THEN left ELSE [left EXCEPT ![m] = @ \ {r}]
  /\ late' = IF stage[m] = "gone" THEN late \cup {m} ELSE late
  /\ UNCHANGED <<stage, app, skipped, lost, half, seen, crashes, skips>>

Defer(m) ==
  /\ todo[m] = {} /\ left[m] # {}
  /\ Goes(m, {"active"}, "deferred")
  /\ UNCHANGED <<todo, left, log, app, history>>

Finish(m) ==
  /\ \/ todo[m] = {} /\ left[m] = {} /\ Goes(m, {"active"}, "gone")
     \/ Goes(m, {"expired"}, "gone")
  /\ LogLine("removed", m, Null, Null)
  /\ UNCHANGED <<todo, left, app, history>>

Expire(m) ==
  /\ Goes(m, {"deferred"}, "expired")
  /\ LogLine("expired", m, Null, Null)
  /\ UNCHANGED <<todo, left, app, history>>

\* postsuper -d, from the queue page or by hand
Delete(m) ==
  /\ Goes(m, {"incoming", "active", "deferred"}, "gone")
  /\ LogLine("deleted", m, Null, Null)
  /\ UNCHANGED <<todo, left, app, history>>

Postfix ==
  \/ NoQueueReject
  \/ \E m \in Messages :
       \/ Arrive(m) \/ Headers(m) \/ ContentReject(m) \/ Activate(m) \/ Attempt(m)
       \/ Defer(m) \/ Finish(m) \/ Expire(m) \/ Delete(m)

----------------------------------------------------------------------------
(* Applying one line.                                                      *)

Tells(kind) ==
  CASE kind = "client" -> {"client", "source"}
    [] kind = "pickup" -> {"sender", "source"}
    [] kind = "headers" -> {"headers"}
    [] kind = "queued" -> {"sender", "size"}
    [] OTHER -> {}

Known(c) == IF c = Null THEN {} ELSE c

\* context(), and what the line assigns to it
Note(l) ==
  /\ contexts' = [contexts EXCEPT ![l.m] = Known(@) \cup Tells(l.kind)]
  /\ half' = IF contexts[l.m] = Null /\ l.kind \notin {"client", "pickup"} THEN half \cup {l.m} ELSE half
  /\ UNCHANGED mail_log

RowsOf(m) == {i \in DOMAIN mail_log : mail_log[i].queueId = m}

ContextFromDb_Nothing(m) == Null
\* The earliest row of the message still carries what was known of it.
ContextFromDb(m) == IF RowsOf(m) = {} THEN Null ELSE mail_log[Min(RowsOf(m))].has

\* The rows an insert runs into; a null queue_id conflicts with nothing.
Conflicting(q, to) == {i \in RowsOf(q) : q # Null /\ mail_log[i].recipient = to}

Upsert(q, to, status, has) ==
  mail_log' =
    IF Conflicting(q, to) = {}
    THEN Append(mail_log, [queueId |-> q, recipient |-> to, status |-> status, has |-> has])
    ELSE [i \in DOMAIN mail_log |->
            IF i \in Conflicting(q, to)
            THEN [mail_log[i] EXCEPT !.status = status, !.has = @ \cup (has \cap Coalesced)]
            ELSE mail_log[i]]

Delivered(l) ==
  LET c == IF contexts[l.m] # Null THEN contexts[l.m] ELSE ContextFromDb(l.m)
  IN  /\ Upsert(l.m, l.to, l.status, Known(c))
      /\ contexts' = [contexts EXCEPT ![l.m] = c]
      /\ UNCHANGED half

\* The line itself names the sender and the client; the listener comes from the context.
Rejected(l) ==
  /\ Upsert(l.m, l.to, l.status,
            {"sender", "client"} \cup (IF l.m = Null THEN {"source"} ELSE Known(contexts[l.m])))
  /\ UNCHANGED <<contexts, half>>

Settled_All(m, status) ==
  mail_log' = [i \in DOMAIN mail_log |->
                 IF i \in RowsOf(m) THEN [mail_log[i] EXCEPT !.status = status] ELSE mail_log[i]]
Settled_InMemory(m, status) == IF contexts[m] # Null THEN Settled_All(m, status) ELSE UNCHANGED mail_log
\* UPDATE mail_log SET status WHERE queue_id AND status = 'deferred'
Settled(m, status) ==
  mail_log' = [i \in DOMAIN mail_log |->
                 IF i \in RowsOf(m) /\ mail_log[i].status = "deferred"
                 THEN [mail_log[i] EXCEPT !.status = status] ELSE mail_log[i]]

Forget(m) == contexts' = [contexts EXCEPT ![m] = Null]

Apply(l) ==
  \/ l.kind \in {"client", "pickup", "headers", "queued"} /\ Note(l)
  \/ l.kind = "removed" /\ Forget(l.m) /\ UNCHANGED <<mail_log, half>>
  \/ l.kind = "expired" /\ Settled(l.m, "expired") /\ UNCHANGED <<contexts, half>>
  \/ l.kind = "deleted" /\ Forget(l.m) /\ Settled(l.m, "deleted") /\ UNCHANGED half
  \/ l.kind = "delivery" /\ Delivered(l)
  \/ l.kind = "reject" /\ Rejected(l)

Behind == pos < Len(log)
Advance == pos' = pos + 1 /\ seen' = Max({seen, pos + 1})

Handle ==
  /\ Behind
  /\ Apply(log[pos + 1])
  /\ Advance
  /\ UNCHANGED <<postfix, late, skipped, lost, crashes, skips>>

\* The line is lost to a rotation or truncation (log-tail.ts), or the database fails under it: the tailer logs that and
\* goes on. What was done before the statement stays: a deleted message's context is gone.
HandleFails ==
  /\ Behind /\ skips < MaxSkips
  /\ LET l == log[pos + 1]
     IN  /\ \/ UNCHANGED contexts
            \/ l.kind = "deleted" /\ Forget(l.m)
         /\ skipped' = skipped \cup {l.m}
  /\ Advance
  /\ skips' = skips + 1
  /\ UNCHANGED <<postfix, mail_log, late, lost, half, crashes>>

\* Messages of which the first n lines tell something
Told(n) == {log[i].m : i \in {j \in 1 .. n : Tells(log[j].kind) # {}}}

\* The app stops or dies, and starts again: its memory is empty, and it reads on from some line.
Restart ==
  /\ crashes < MaxCrashes
  /\ crashes' = crashes + 1
  /\ \E from \in 0 .. Len(log) :
       /\ pos' = from
       /\ seen' = Max({seen, from})
       /\ skipped' = skipped \cup {log[i].m : i \in pos + 1 .. from}
       /\ lost' = lost \cup {m \in Told(from) : RowsOf(m) = {}}
  /\ contexts' = [m \in Messages |-> Null]
  /\ UNCHANGED <<postfix, mail_log, late, half, skips>>

\* pruneContexts: six days without a line. Postfix tries a message more often than that, unless it is on hold
\* (postsuper -h, which is waiting as any other, and logs no line parseEvent knows).
Prune(m) ==
  /\ contexts[m] # Null /\ stage[m] \in {"incoming", "deferred", "gone"} /\ todo[m] = {} /\ ~Behind
  /\ Forget(m)
  /\ lost' = IF RowsOf(m) = {} THEN lost \cup {m} ELSE lost
  /\ UNCHANGED <<postfix, pos, mail_log, late, skipped, half, seen, crashes, skips>>

App == Handle \/ HandleFails \/ Restart \/ \E m \in Messages : Prune(m)

LogNext == Postfix \/ App

LogSpec == LogInit /\ [][LogNext]_logVars

----------------------------------------------------------------------------
(* Properties.                                                             *)

LogTypeOK ==
  /\ stage \in [Messages -> {"new", "cleanup", "incoming", "active", "deferred", "expired", "gone"}]
  /\ todo \in [Messages -> SUBSET Recipients] /\ left \in [Messages -> SUBSET Recipients]
  /\ log \in Seq(Line) /\ mail_log \in Seq(Row)
  /\ {pos, seen} \subseteq Nat /\ pos <= seen /\ seen <= Len(log)
  /\ contexts \in [Messages -> {Null} \cup SUBSET Pieces]

\* Line i says what became of m for r, or that m waits no longer.
Says(i, m, r) == log[i].m = m /\ log[i].kind \in {"delivery", "reject"} /\ log[i].to = r
GivesUp(i, m) == log[i].m = m /\ log[i].kind \in {"expired", "deleted"}

\* What the first n lines leave r with: what the last of them says; a deferral is over when m next expires or is deleted.
After(n, m, r) ==
  LET said == {i \in 1 .. n : Says(i, m, r)}
      last == log[Max(said)].status
      ends == {i \in Max(said) + 1 .. n : GivesUp(i, m)}
  IN  IF said = {} THEN Null
      ELSE IF last = "deferred" /\ ends # {} THEN log[Min(ends)].kind
      ELSE last

StatusIn(m, r) ==
  IF Conflicting(m, r) = {} THEN Null ELSE mail_log[Min(Conflicting(m, r))].status

(* Once the app has read again what it had read before a restart, the      *)
(* status of every recipient of every message is the one the lines read so *)
(* far leave it with, however often lines were read twice: the updates of  *)
(* mail-log.ts can be replayed from any line on. Only a line that failed,  *)
(* was lost, or was in hand when the app was stopped (log-tail.ts saves a  *)
(* position behind it) can spoil it.                                       *)
StatusIsTheLast ==
  pos = seen =>
    \A m \in Messages \ skipped, r \in Recipients : StatusIn(m, r) = After(pos, m, r)

(* Mail the log shows as deferred is still in Postfix's queue, once the    *)
(* log is read: it does not stay deferred for ever after it was deleted,   *)
(* expired or removed. The exceptions are a line that failed, was lost, or *)
(* was left out by a restart, and a delivery that was under way when the   *)
(* message was deleted.                                                    *)
DeferredIsQueued ==
  ~Behind =>
    \A i \in DOMAIN mail_log :
      LET m == mail_log[i].queueId
      IN  mail_log[i].status = "deferred" => m \in skipped \cup late \/ stage[m] # "gone"

\* What the lines before the first one about m and r that makes a row tell of m
ToldBefore(m, r) ==
  LET rows == {i \in DOMAIN log : Says(i, m, r)}
      first == IF rows = {} THEN 0 ELSE Min(rows)
  IN  UNION {Tells(log[i].kind) : i \in {j \in 1 .. first : log[j].m = m}}

(* A row knows everything the log told of its message before the row's     *)
(* first line, a restart between the two included: the context is in       *)
(* memory or read back from an earlier row of the message                  *)
(* (contextFromDb). Only a restart, or six days on hold, before the        *)
(* message had any row, a context begun again in the middle of a message   *)
(* (a line after the one a restart goes on at, or the next try of a        *)
(* deferred message), a line that failed, was lost or was left out, or a   *)
(* delivery that was under way when the message was deleted leaves a row   *)
(* without it.                                                             *)
RowsKnowTheirMessage ==
  \A i \in DOMAIN mail_log :
    LET m == mail_log[i].queueId
    IN  m # Null /\ m \notin lost \cup half \cup skipped \cup late
          => ToldBefore(m, mail_log[i].recipient) \subseteq mail_log[i].has

============================================================================
