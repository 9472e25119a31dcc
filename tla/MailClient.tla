----------------------------- MODULE MailClient -----------------------------
(***************************************************************************)
(* The mail page of one browser tab and the mailbox it shows: the cached   *)
(* lists and the open conversation (lib/queries.ts), the changes the user  *)
(* makes, shown before the server has made them, and the event stream that *)
(* tells the tab about everyone else's (mail/events.ts, subscribeMailEvents*)
(* and useMailEvents).                                                     *)
(*                                                                         *)
(* Abstracted: a conversation is a fixed set of messages; the only flag is *)
(* \Seen, starring goes the same way; the folder counts, the quota and the *)
(* search results are refreshed by the same events and left out; a list is *)
(* read in one piece; times (poll, backoff, staleTime) are any time.       *)
(***************************************************************************)
EXTENDS Naturals, Sequences, FiniteSets, FiniteSetsExt

CONSTANTS Folders, Inbox, Trash, Messages, Convs,
          Conv,       \* the conversation of each message
          Calls,      \* requests of the tab that change mail
          MaxUid,     \* bound: UIDs per folder
          MaxSteps,   \* bound: what the user and others do, and failures
          Nil

ASSUME KnownFolders == {Inbox, Trash} \subseteq Folders /\ Inbox # Trash
ASSUME Conversations == Conv \in [Messages -> Convs]
ASSUME Bounds == MaxUid \in Nat \ {0} /\ MaxSteps \in Nat
ASSUME NilOutside == Nil \notin Folders \cup Messages \cup Convs /\ Nil \notin Folders \X (1..MaxUid)
ASSUME FinitelyMany == IsFiniteSet(Messages) /\ IsFiniteSet(Folders)

VARIABLES
  place,   \* place[m]: the folder and UID of a message, or Nil
  next,    \* next[f]: the next UID
  unread,  \* messages that are not \Seen
  sse,     \* the server's end of the event stream
  wire,    \* events on their way to the tab
  cache,   \* cache[k]: a cached list <<f, Nil>> or conversation <<f, c>>
  screen,  \* the folder, the conversation and the dialog the tab shows
  change,  \* change[i]: a request of the tab
  undo,    \* the Undo buttons on the screen
  told,    \* history: how often the arrival of each INBOX UID was announced
  due,     \* history: UIDs that came to INBOX while this stream watched it
  kept,    \* history: UIDs marked as unread in the open conversation
  torn,    \* history: an INBOX scan failed on this stream
  steps    \* history: what the user and others did so far, and failures

store == <<place, next, unread>>
stream == <<sse, wire, told, due, torn>>
tab == <<cache, screen, change, undo, kept>>
mailVars == <<store, stream, tab, steps>>

Uids == 1..MaxUid
Keys == Folders \X (Convs \cup {Nil})

Off == [st |-> "off", nextUid |-> 1, scans |-> 0, snapshot |-> [f \in Folders |-> <<0, 0, 0>>]]
Unfetched == [data |-> Nil, stale |-> FALSE, fly |-> "no", answer |-> {}, outran |-> FALSE, error |-> FALSE]
NoCall == [st |-> "idle", kind |-> "none", folder |-> Nil, uids |-> {}, dest |-> Nil, moved |-> {}, view |-> "none"]
Closed == [st |-> "closed", uids |-> {}, convs |-> {}, closes |-> FALSE]

Counted == steps < MaxSteps /\ steps' = steps + 1

\* The page shows a folder with one message, the stream is up.
MailInit ==
  /\ \E m \in Messages, f \in {Inbox, Trash} :
       /\ place = [n \in Messages |-> IF n = m THEN <<f, 1>> ELSE Nil]
       /\ next = [g \in Folders |-> IF g = f THEN 2 ELSE 1]
       /\ cache = [k \in Keys |-> IF k = <<f, Nil>> THEN [Unfetched EXCEPT !.data = {[conv |-> Conv[m], uids |-> {1}, unread |-> TRUE]}]
                                  ELSE Unfetched]
       /\ screen = [folder |-> f, open |-> Nil, seenUids |-> {}, ask |-> Closed]
       /\ sse = [Off EXCEPT !.st = "ready", !.nextUid = next[Inbox],
                 !.snapshot = [g \in Folders |-> IF g = f THEN <<1, 1, 2>> ELSE <<0, 0, 1>>]]
  /\ unread = Messages
  /\ wire = <<>>
  /\ change = [i \in Calls |-> NoCall]
  /\ undo = {}
  /\ told = [u \in Uids |-> 0] /\ due = {} /\ kept = {} /\ torn = FALSE
  /\ steps = 0

-----------------------------------------------------------------------------
(* What the server answers *)

Here(f) == {m \in Messages : place[m] # Nil /\ place[m][1] = f}
UidOf(m) == place[m][2]
Row(c, ms) == [conv |-> c, uids |-> {UidOf(m) : m \in ms}, unread |-> ms \cap unread # {}]

\* GET /threads lists conversations, GET /threads/:id the messages of one.
Reply(k) ==
  IF k[2] = Nil
  THEN {Row(c, {m \in Here(k[1]) : Conv[m] = c}) : c \in {Conv[m] : m \in Here(k[1])}}
  ELSE {Row(k[2], {m}) : m \in {n \in Here(k[1]) : Conv[n] = k[2]}}

-----------------------------------------------------------------------------
(* The query cache *)

List == <<screen.folder, Nil>>
Thread == <<screen.folder, screen.open>>
ActiveOn(p) == {<<p.folder, Nil>>} \cup (IF p.open = Nil THEN {} ELSE {<<p.folder, p.open>>})
Active == ActiveOn(screen)

Ask(q) == [q EXCEPT !.fly = "asked", !.answer = {}, !.outran = FALSE]

\* invalidateQueries: what is on screen is fetched again, a fetch under way is dropped for a new one
\* unless it is the first, which is kept; what is not on screen is only marked.
Invalidated(q, active) ==
  IF active /\ (q.data # Nil \/ q.fly = "no") THEN Ask([q EXCEPT !.stale = TRUE])
  ELSE [q EXCEPT !.stale = q.data # Nil, !.outran = q.fly = "answered"]
\* invalidateMail without a folder, and with one.
AllMail == Keys
MailOf(f) == {k \in Keys : k[1] = f}
InvalidateMail(c, ks, p) == [k \in Keys |-> IF k \in ks THEN Invalidated(c[k], k \in ActiveOn(p)) ELSE c[k]]

\* A list or conversation that comes on screen is fetched when there is none or it is marked, and may be when it is old.
Mount(c, ks) ==
  {d \in [Keys -> {c[k] : k \in Keys} \cup {Ask(c[k]) : k \in ks}] :
     \A k \in Keys : IF k \in ks /\ c[k].fly = "no"
                     THEN \/ d[k] = Ask(c[k])
                          \/ c[k].data # Nil /\ ~c[k].stale /\ d[k] = c[k]
                     ELSE d[k] = c[k]}

\* threadFn and messageFn: what a change makes of a row it hits.
Changed(row, kind, hit) ==
  CASE kind = "seen" -> [row EXCEPT !.unread = @ /\ hit # row.uids]
    [] kind = "unseen" -> [row EXCEPT !.unread = TRUE]
    [] OTHER -> [row EXCEPT !.uids = @ \ hit]
PatchRow(row, kind, uids) ==
  LET hit == row.uids \cap uids IN IF hit = {} THEN row ELSE Changed(row, kind, hit)
Patched(q, kind, uids) ==
  IF q.data = Nil THEN q
  ELSE [q EXCEPT !.data = {r \in {PatchRow(row, kind, uids) : row \in q.data} : r.uids # {}}]
\* Fetches under way are cancelled so that they cannot put the old rows back.
Cancelled(q) == [q EXCEPT !.fly = "no", !.answer = {}, !.outran = FALSE]
PatchMailCache(c, f, kind, uids) ==
  [k \in Keys |-> IF k[1] = f THEN Patched(Cancelled(c[k]), kind, uids) ELSE Cancelled(c[k])]

-----------------------------------------------------------------------------
(* Changes: shown at once, sent, and followed by a look at what the server has *)

\* useMailMutation: i is a request that is not in use, view the component that waits for its answer.
Mutated(i, kind, f, uids, dest, view) ==
  [NoCall EXCEPT !.st = "sent", !.kind = kind, !.folder = f, !.uids = uids, !.dest = dest, !.view = view]
\* Only the last change of each kind that a component made still has its callbacks.
SameObserver(a, b) == a.view = b.view /\ (a.kind = "move") = (b.kind = "move") /\ {a.kind, b.kind} \cap {"seen", "unseen", "none"} = {}
Mutate(i, new, c) ==
  /\ change[i].st = "idle"
  /\ change' = [j \in Calls |-> IF j = i THEN new
                              ELSE IF SameObserver(change[j], new) THEN [change[j] EXCEPT !.view = "gone"] ELSE change[j]]
  /\ cache' = PatchMailCache(c, new.folder, new.kind, new.uids)

\* The server: UIDs that are not there any more are passed over.
Hit(i) == {m \in Here(change[i].folder) : UidOf(m) \in change[i].uids}
\* What the IDLE connection tells of a change in INBOX: exists queues a scan, the rest is sent on.  It is heard once
\* the handlers are set, which is some time after INBOX was opened.
Notify(fs, arrived) ==
  /\ \E heard \in (IF sse.st = "opened" THEN BOOLEAN ELSE {sse.st = "ready"}) :
       /\ sse' = [sse EXCEPT !.scans = IF heard /\ arrived # {} THEN 1 ELSE @]
       /\ wire' = IF heard /\ Inbox \in fs THEN Append(wire, [type |-> "folder", folder |-> Inbox, uid |-> 0]) ELSE wire
  /\ due' = due \cup (IF sse.st = "ready" THEN arrived ELSE {})
  /\ UNCHANGED <<told, torn>>

\* ms go to folder g, in the order of their UIDs.
Moved(ms, g) ==
  LET rank(m) == Cardinality({n \in ms : UidOf(n) < UidOf(m)})
      to == [m \in ms |-> next[g] + rank(m)]
  IN /\ next[g] + Cardinality(ms) <= MaxUid + 1
     /\ place' = [m \in Messages |-> IF m \in ms THEN <<g, to[m]>> ELSE place[m]]
     /\ next' = [next EXCEPT ![g] = @ + Cardinality(ms)]
     /\ Notify({place[m][1] : m \in ms}, IF g = Inbox THEN {to[m] : m \in ms} ELSE {})
Destination(i) == IF change[i].kind = "trash" THEN Trash ELSE change[i].dest

Applied(i, moved) == change' = [change EXCEPT ![i].st = "applied", ![i].moved = moved]
ApplyFlags(i) ==
  /\ change[i].st = "sent" /\ change[i].kind \in {"seen", "unseen"}
  /\ unread' = IF change[i].kind = "seen" THEN unread \ Hit(i) ELSE unread \cup Hit(i)
  /\ Applied(i, {})
  /\ IF Hit(i) = {} THEN UNCHANGED stream ELSE Notify({change[i].folder}, {})
  /\ UNCHANGED <<place, next, cache, screen, undo, kept, steps>>
ApplyMove(i) ==
  /\ change[i].st = "sent" /\ change[i].kind \in {"move", "trash"}
  /\ Moved(Hit(i), Destination(i))
  /\ Applied(i, {place'[m] : m \in Hit(i)})
  /\ UNCHANGED <<unread, cache, screen, undo, kept, steps>>
ApplyPurge(i) ==
  /\ change[i].st = "sent" /\ change[i].kind = "purge"
  /\ place' = [m \in Messages |-> IF m \in Hit(i) THEN Nil ELSE place[m]]
  /\ Notify(IF Hit(i) = {} THEN {} ELSE {change[i].folder}, {})
  /\ Applied(i, {})
  /\ UNCHANGED <<next, unread, cache, screen, undo, kept, steps>>
\* onSettled: success or failure, everything is fetched again.  onSuccess offers to undo a move,
\* if the component that made it is still there and has not made another since.
OnSettled(i) ==
  /\ cache' = InvalidateMail(cache, AllMail, screen)
  /\ change' = [change EXCEPT ![i] = NoCall]
  /\ UNCHANGED <<store, stream, screen, kept>>
Settle(i) ==
  /\ change[i].st = "applied"
  /\ OnSettled(i)
  /\ undo' = IF change[i].view # "gone" /\ change[i].moved # {}
             THEN undo \cup {[from |-> change[i].folder, to |-> Destination(i), uids |-> {r[2] : r \in change[i].moved}]}
             ELSE undo
  /\ UNCHANGED steps
\* The request or its answer is lost, or the server refuses it.
CallFails(i) ==
  /\ Counted
  /\ change[i].st \in {"sent", "applied"}
  /\ OnSettled(i)
  /\ UNCHANGED undo

-----------------------------------------------------------------------------
(* The page *)

\* ThreadView's effect: messages seen for the first time are opened, and marked as read.
Fresh_All(data, seenUids) == data
Fresh(data, seenUids) == {r \in data : r.uids \cap seenUids = {}}
UnreadUids(rows) == UNION {r.uids : r \in {s \in rows : s.unread}}
\* The tab goes on with cache c and page p; what the open conversation shows for the first time is marked as read.
Rendered(c, p) ==
  LET k == <<p.folder, p.open>>
      fresh == IF p.open = Nil \/ c[k].data = Nil THEN {} ELSE Fresh(c[k].data, p.seenUids)
  IN /\ screen' = [p EXCEPT !.seenUids = @ \cup UNION {r.uids : r \in fresh}]
     /\ IF UnreadUids(fresh) = {} THEN cache' = c /\ UNCHANGED change
        ELSE \E i \in Calls : Mutate(i, Mutated(i, "seen", p.folder, UnreadUids(fresh), Nil, "effect"), c)

\* ThreadView goes: nobody takes the answers it waited for.
Left == [i \in Calls |-> IF change[i].view = "thread" THEN [change[i] EXCEPT !.view = "gone"] ELSE change[i]]
ClosedPage == [screen EXCEPT !.open = Nil, !.seenUids = {}]

GoFolder(f) ==
  /\ Counted /\ f # screen.folder /\ screen.ask.st = "closed"
  /\ screen' = [ClosedPage EXCEPT !.folder = f]
  /\ cache' \in Mount(cache, {<<f, Nil>>})
  /\ change' = Left /\ kept' = {}
  /\ UNCHANGED <<store, stream, undo>>
OpenThread(c) ==
  /\ Counted /\ screen.open = Nil /\ screen.ask.st = "closed"
  /\ cache[List].data # Nil /\ \E row \in cache[List].data : row.conv = c
  /\ \E d \in Mount(cache, {<<screen.folder, c>>}) : Rendered(d, [screen EXCEPT !.open = c, !.seenUids = {}])
  /\ UNCHANGED <<store, stream, undo, kept>>
CloseThread ==
  /\ Counted /\ screen.open # Nil
  /\ screen' = ClosedPage /\ change' = Left /\ kept' = {}
  /\ UNCHANGED <<store, stream, cache, undo>>

\* refsOf: the messages the list has now of the chosen conversations.
RefsOf(cs) == IF cache[List].data = Nil THEN {} ELSE UNION {r.uids : r \in {s \in cache[List].data : s.conv \in cs}}
Shown == UNION {r.uids : r \in IF screen.open = Nil \/ cache[Thread].data = Nil THEN {} ELSE cache[Thread].data}

\* Conversations chosen in the list: flags, archive, delete, drop on a folder.  What they were opened in is closed.
Bulk(cs, kind, dest) ==
  LET closes == kind \notin {"seen", "unseen"} /\ screen.open \in cs
      uids == RefsOf(cs)
  IN /\ Counted /\ screen.ask.st = "closed" /\ uids # {}
     /\ (kind = "trash") => screen.folder # Trash
     /\ (kind = "move") => dest # screen.folder
     /\ \E i \in Calls : Mutate(i, Mutated(i, kind, screen.folder, uids, dest, "page"), cache)
     /\ screen' = IF closes THEN ClosedPage ELSE screen
     /\ kept' = IF closes THEN {} ELSE kept
     /\ UNCHANGED <<store, stream, undo>>
\* The buttons over the open conversation close it; its answers come to nobody.
Conversation(kind, dest) ==
  /\ Counted /\ screen.ask.st = "closed" /\ Shown # {}
  /\ kind \in {"unseen", "trash", "move"}
  /\ (kind = "trash") => screen.folder # Trash
  /\ (kind = "move") => dest # screen.folder
  /\ \E i \in Calls : Mutate(i, Mutated(i, kind, screen.folder, Shown, dest, "gone"), cache)
  /\ screen' = ClosedPage /\ kept' = {}
  /\ UNCHANGED <<store, stream, undo>>
\* The menu of one message: it is marked as unread and stays open, or deleted, which closes a conversation of one.
Alone == Cardinality(cache[Thread].data) <= 1
MarkUnread(u) ==
  /\ Counted /\ screen.ask.st = "closed" /\ u \in Shown
  /\ \E i \in Calls : Mutate(i, Mutated(i, "unseen", screen.folder, {u}, Nil, "thread"), cache)
  /\ kept' = kept \cup {u}
  /\ UNCHANGED <<store, stream, screen, undo>>
DeleteOne(u) ==
  /\ Counted /\ screen.ask.st = "closed" /\ u \in Shown /\ screen.folder # Trash
  /\ \E i \in Calls : Mutate(i, Mutated(i, "trash", screen.folder, {u}, Nil, IF Alone THEN "gone" ELSE "thread"), cache)
  /\ screen' = IF Alone THEN ClosedPage ELSE screen
  /\ kept' = IF Alone THEN {} ELSE kept
  /\ UNCHANGED <<store, stream, undo>>

\* Deleting from Trash asks first: the list keeps which conversations, the open conversation which messages.
AskPurge ==
  /\ Counted /\ screen.folder = Trash /\ screen.ask.st = "closed"
  /\ \/ \E cs \in (SUBSET Convs) \ {{}} : RefsOf(cs) # {} /\ screen' = [screen EXCEPT !.ask = [Closed EXCEPT !.st = "list", !.convs = cs]]
     \/ \E uids \in {Shown} \cup {{u} : u \in Shown} :
          /\ uids # {}
          /\ screen' = [screen EXCEPT !.ask = [Closed EXCEPT !.st = "thread", !.uids = uids, !.closes = uids = Shown]]
  /\ UNCHANGED <<store, stream, cache, change, undo, kept>>
ConfirmPurge ==
  LET uids == IF screen.ask.st = "list" THEN RefsOf(screen.ask.convs) ELSE screen.ask.uids
      p == IF screen.ask.closes \/ screen.open \in screen.ask.convs THEN ClosedPage ELSE screen
  IN /\ screen.ask.st # "closed"
     /\ IF uids = {} THEN UNCHANGED <<cache, change>>
        ELSE \E i \in Calls : Mutate(i, Mutated(i, "purge", screen.folder, uids, Nil, "page"), cache)
     /\ screen' = [p EXCEPT !.ask = Closed]
     /\ kept' = IF p.open = Nil THEN {} ELSE kept
     /\ UNCHANGED <<store, stream, undo, steps>>
CancelPurge ==
  /\ screen.ask.st # "closed"
  /\ screen' = [screen EXCEPT !.ask = Closed]
  /\ UNCHANGED <<store, stream, cache, change, undo, kept, steps>>

\* Undo moves the messages back to where they came from, by the UIDs they got.
Undo(t) ==
  /\ Counted
  /\ \E i \in Calls : Mutate(i, Mutated(i, "move", t.to, t.uids, t.from, "page"), cache)
  /\ undo' = undo \ {t}
  /\ UNCHANGED <<store, stream, screen, kept>>

-----------------------------------------------------------------------------
(* Fetches *)

Read(k) ==
  /\ cache[k].fly = "asked"
  /\ cache' = [cache EXCEPT ![k].fly = "answered", ![k].answer = Reply(k)]
  /\ UNCHANGED <<store, stream, screen, change, undo, kept, steps>>
\* outran: told that it was out of date after it had been read, a fetch that was kept still counts as fresh.
Land(k) ==
  /\ cache[k].fly = "answered"
  /\ Rendered([cache EXCEPT ![k] = [Unfetched EXCEPT !.data = cache[k].answer, !.outran = cache[k].outran]], screen)
  /\ UNCHANGED <<store, stream, undo, kept, steps>>
\* An error page with a button is shown, what was there before is still cached.
FetchFails(k) ==
  /\ Counted
  /\ cache[k].fly # "no"
  /\ cache' = [cache EXCEPT ![k] = [Cancelled(@) EXCEPT !.error = TRUE]]
  /\ UNCHANGED <<store, stream, screen, change, undo, kept>>
Refresh ==
  /\ Counted
  /\ cache' = [cache EXCEPT ![List] = IF @.data = Nil /\ @.fly # "no" THEN @ ELSE Ask(@)]
  /\ UNCHANGED <<store, stream, screen, change, undo, kept>>

-----------------------------------------------------------------------------
(* The event stream *)

Sig(f) == <<Cardinality(Here(f)), Cardinality(Here(f) \cap unread), next[f]>>
FolderSnapshot == [f \in Folders |-> Sig(f)]

\* openDedicated and mailboxOpen; the tab tries again whenever it has no stream, so a refusal changes nothing.
Connect ==
  /\ sse.st = "off"
  /\ sse' = [Off EXCEPT !.st = "opened", !.nextUid = next[Inbox]]
  /\ UNCHANGED <<store, wire, told, due, torn, tab, steps>>
\* The other folders are looked at for the first time, then the tab is told.
Snap ==
  /\ sse.st = "opened"
  /\ sse' = [sse EXCEPT !.st = "ready", !.snapshot = FolderSnapshot]
  /\ wire' = Append(wire, [type |-> "ready", folder |-> Nil, uid |-> 0])
  /\ UNCHANGED <<store, told, due, torn, tab, steps>>

\* "n:*" answers with the last message even when it is below n.
FoundUids == LET uids == {UidOf(m) : m \in Here(Inbox)}
         IN {u \in uids : u >= sse.nextUid \/ \A v \in uids : v <= u}
NotNew_None(uids) == {}
NotNew(uids) == {u \in uids : u < sse.nextUid}
Announced(uids) == [j \in 1..Cardinality(uids) |->
  [type |-> "new", folder |-> Inbox, uid |-> CHOOSE u \in uids : Cardinality({v \in uids : v < u}) = j - 1]]
Scan ==
  /\ sse.scans > 0
  /\ LET new == FoundUids \ NotNew(FoundUids) IN
     /\ wire' = wire \o Announced(new)
     /\ told' = [u \in Uids |-> told[u] + IF u \in new THEN 1 ELSE 0]
     /\ sse' = [sse EXCEPT !.scans = 0, !.nextUid = Max(new \cup {@ - 1}) + 1]
  /\ UNCHANGED <<store, due, torn, tab, steps>>
\* A scan that fails midway has moved on past the messages it read.
ScanFails ==
  /\ Counted /\ sse.scans > 0
  /\ \E last \in {sse.nextUid - 1} \cup FoundUids :
       sse' = [sse EXCEPT !.scans = 0, !.nextUid = IF last < @ THEN @ ELSE last + 1]
  /\ torn' = TRUE
  /\ UNCHANGED <<store, wire, told, due, tab>>
ChangedFolders == {f \in Folders \ {Inbox} : Sig(f) # sse.snapshot[f]}
Poll ==
  /\ sse.st = "ready" /\ ChangedFolders # {}
  /\ sse' = [sse EXCEPT !.snapshot = FolderSnapshot]
  /\ \E order \in {s \in [1..Cardinality(ChangedFolders) -> ChangedFolders] : \A f \in ChangedFolders : \E j \in DOMAIN s : s[j] = f} :
       wire' = wire \o [j \in DOMAIN order |-> [type |-> "folder", folder |-> order[j], uid |-> 0]]
  /\ UNCHANGED <<store, told, due, torn, tab, steps>>

\* The connection breaks: what was on the way is lost, and the tab connects again later.
Break ==
  /\ Counted /\ sse.st # "off"
  /\ sse' = Off /\ wire' = <<>> /\ due' = {} /\ torn' = FALSE
  /\ UNCHANGED <<store, told, tab>>

\* useMailEvents: every connect resyncs, an event refetches its folder.
OnReady_First(c) == c
OnReady(c) == InvalidateMail(c, AllMail, screen)
OnEvent ==
  /\ wire # <<>>
  /\ cache' = IF Head(wire).type = "ready" THEN OnReady(cache) ELSE InvalidateMail(cache, MailOf(Head(wire).folder), screen)
  /\ wire' = Tail(wire)
  /\ UNCHANGED <<store, sse, told, due, torn, screen, change, undo, kept, steps>>

-----------------------------------------------------------------------------
(* Others *)

Deliver(m) ==
  /\ Counted /\ place[m] = Nil /\ m \in unread /\ next[Inbox] <= MaxUid
  /\ place' = [place EXCEPT ![m] = <<Inbox, next[Inbox]>>]
  /\ next' = [next EXCEPT ![Inbox] = @ + 1]
  /\ Notify({}, {next[Inbox]})
  /\ UNCHANGED <<unread, tab>>
OtherAppMoves(m, g) ==
  /\ Counted /\ place[m] # Nil /\ place[m][1] # g
  /\ Moved({m}, g)
  /\ UNCHANGED <<unread, tab>>
OtherAppFlags(m) ==
  /\ Counted /\ place[m] # Nil
  /\ unread' = IF m \in unread THEN unread \ {m} ELSE unread \cup {m}
  /\ Notify({place[m][1]}, {})
  /\ UNCHANGED <<place, next, tab>>

Requested == \E i \in Calls : ApplyFlags(i) \/ ApplyMove(i) \/ ApplyPurge(i) \/ Settle(i) \/ CallFails(i)
Several == (SUBSET Convs) \ {{}}
\* Moving to Trash is done as "trash".
MoveTargets == Folders \ {Trash}
RowButtons == \E c \in Convs : OpenThread(c) \/ \E kind \in {"seen", "unseen", "trash"} : Bulk({c}, kind, Nil)
SelectionButtons == \E cs \in Several : \/ \E kind \in {"seen", "unseen", "trash"} : Bulk(cs, kind, Nil)
                                       \/ \E f \in MoveTargets : Bulk(cs, "move", f)
FolderLinks == \E f \in Folders : GoFolder(f)
ConversationButtons == CloseThread \/ Conversation("unseen", Nil) \/ Conversation("trash", Nil) \/ \E f \in MoveTargets : Conversation("move", f)
MessageMenu == \E u \in Uids : MarkUnread(u) \/ DeleteOne(u)
User == RowButtons \/ SelectionButtons \/ FolderLinks \/ ConversationButtons \/ MessageMenu \/ AskPurge \/ ConfirmPurge \/ CancelPurge \/ Refresh
        \/ \E t \in undo : Undo(t)
Fetching == \E k \in Keys : Read(k) \/ Land(k) \/ FetchFails(k)
Streaming == Connect \/ Snap \/ Scan \/ ScanFails \/ Poll \/ Break \/ OnEvent
Others == \E m \in Messages : Deliver(m) \/ OtherAppFlags(m) \/ \E f \in Folders : OtherAppMoves(m, f)
MailNext == Requested \/ User \/ Fetching \/ Streaming \/ Others
MailSpec == MailInit /\ [][MailNext]_mailVars

-----------------------------------------------------------------------------
(* Properties *)

MailTypeOK ==
  /\ place \in [Messages -> (Folders \X Uids) \cup {Nil}]
  /\ next \in [Folders -> 1..MaxUid + 1]
  /\ unread \subseteq Messages
  /\ sse.st \in {"off", "opened", "ready"} /\ sse.scans \in 0..1
  /\ \A k \in Keys : cache[k].fly \in {"no", "asked", "answered"}
  /\ screen.folder \in Folders /\ screen.open \in Convs \cup {Nil}
  /\ \A i \in Calls : change[i].st \in {"idle", "sent", "applied"}

\* Nothing is under way: the stream is up and has said everything, every request is answered, nothing is being fetched.
AtRest ==
  /\ sse.st = "ready" /\ sse.scans = 0 /\ wire = <<>> /\ ChangedFolders = {}
  /\ \A i \in Calls : change[i].st = "idle"
  /\ \A k \in Active : cache[k].fly = "no"
SameMessages(a, b) == {r.uids : r \in a} = {r.uids : r \in b}

\* Once nothing is under way the tab shows the mailbox, after any mixture of its own changes, other mail apps', lost
\* streams and failed requests.  What may be wrong then is a list whose first fetch was overtaken (invalidateQueries lets
\* it finish and it counts as fresh), one that shows an error, INBOX after a failed scan, and flags outside INBOX, where
\* the poll compares counts (useMailMutation, useMailEvents, mailEvents).
AtRestShowsMailbox ==
  AtRest => \A k \in Active :
    \/ cache[k].outran \/ cache[k].error
    \/ k[1] = Inbox /\ torn
    \/ cache[k].data = Reply(k)
    \/ k[1] # Inbox /\ SameMessages(cache[k].data, Reply(k))

\* A message that comes to INBOX is announced once, in spite of scans that overlap arrivals and read "n:*", and it is
\* announced if it came while the stream was ready, unless a scan failed (the exists handler of mailEvents).
AnnouncedOnce ==
  /\ \A u \in Uids : told[u] <= 1
  /\ AtRest /\ ~torn => \A u \in due : told[u] = 1 \/ \A m \in Messages : place[m] # <<Inbox, u>>

\* What the reader marked as unread in an open conversation stays so: neither a refetch nor a reply coming in makes the
\* page mark it as read again (seenUids in ThreadView).
UnreadSticks ==
  [][\A i \in Calls : change[i].st = "idle" /\ change'[i].view = "effect" => change'[i].uids \cap kept = {}]_mailVars
=============================================================================
