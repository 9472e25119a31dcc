------------------------------ MODULE Composer ------------------------------
(***************************************************************************)
(* Writing a message in one browser tab: the composer, its drafts, Undo    *)
(* and sending, with the handlers of PUT /drafts and POST /send.           *)
(*                                                                         *)
(* mounts is every <Composer> mounted so far; cur is the one on screen, or *)
(* 0.  The store's state (composerStore.ts) is that component's own: it is *)
(* stashed on every change.  A composer that moves between a conversation  *)
(* and the docked window is mounted again under its key, and the code of   *)
(* the one it replaces goes on with the saves it had begun.  What was      *)
(* written is a number, the version of the text; an attachment is the      *)
(* place it is read from: 0 for a file in the browser, else the UID of the *)
(* draft that holds it.                                                    *)
(*                                                                         *)
(* JavaScript runs to completion: while a chain has a job to begin,        *)
(* nothing else happens in the tab (Quiet).                                *)
(***************************************************************************)
EXTENDS Naturals, Sequences, FiniteSets

CONSTANTS
  Messages,       \* what the user sets out to write
  MaxActs,        \* bound: what the user does, and timers that run out
  MaxFailures     \* bound: failing steps and lost answers

ASSUME BoundAssumption == MaxActs \in Nat /\ MaxFailures \in Nat

VARIABLES
  mounts,    \* the composers mounted so far
  cur,       \* the one on screen, 0 when none is
  outbox,    \* the calls of queueSend() so far
  reqs,      \* the requests to PUT /drafts and POST /send so far
  drafts,    \* the Drafts folder
  nextUid,   \* its next UID
  sent,      \* what Postfix accepted, in order
  leaving,   \* a composer whose flush succeeded, 0 when none did
  away,      \* the tab was reloaded for another account
  acts,      \* acts so far
  failures,  \* failures so far
  typed,     \* history: the newest version of each message
  dropped,   \* history: messages the user discarded
  cause      \* history: what befell each message that may excuse a loss

folder == <<drafts, nextUid>>
tab == <<leaving, away>>
vars == <<mounts, cur, outbox, reqs, folder, sent, tab, acts, failures, typed, dropped, cause>>

Causes == {"left", "remount", "late", "failed", "torn", "unsure", "expired", "abandoned"}

Composed(m, key, text, att, uid) ==
  [key |-> key, m |-> m, text |-> text, att |-> att, last |-> <<text, att>>, uid |-> uid,
   timer |-> FALSE, fin |-> FALSE, chain |-> <<>>, req |-> 0, pressed |-> 0, sending |-> FALSE,
   building |-> <<>>]

Init ==
  /\ mounts = <<>> /\ cur = 0 /\ outbox = <<>> /\ reqs = <<>>
  /\ drafts = {} /\ nextUid = 1 /\ sent = <<>>
  /\ leaving = 0 /\ away = FALSE /\ acts = 0 /\ failures = 0
  /\ typed = [m \in Messages |-> 0] /\ dropped = {} /\ cause = [m \in Messages |-> {}]

-----------------------------------------------------------------------------
(* What the code computes. *)

Snapshot(c) == <<c.text, c.att>>
OnScreen(key) == cur # 0 /\ mounts[cur].key = key
\* Mutant of DraftUid: the UID does not reach the next save.
DraftUid_Never(i) == 0
DraftUid(i) == IF OnScreen(mounts[i].key) THEN mounts[cur].uid ELSE mounts[i].uid
Waiting(c) == c.req # 0
Quiet == ~away /\ \A i \in DOMAIN mounts : mounts[i].chain = <<>> \/ Waiting(mounts[i])
HasPendingSends == \E o \in DOMAIN outbox : outbox[o].at \in {"window", "posted"}

Uids == {d.uid : d \in drafts}
Drafted(m, text) == \E d \in drafts : d.m = m /\ d.text = text

\* Mutants of Unmounted: the cleanup saves nothing, or leaves the timer running.
Unmounted_Silent(ms, key) == IF cur = 0 THEN ms ELSE [ms EXCEPT ![cur].timer = FALSE]

\* The composer on screen gives way, when the store holds the state of `key` (0: of none).
Unmounted(ms, key) ==
  IF cur = 0 THEN ms
  ELSE [ms EXCEPT ![cur].timer = FALSE,
                  ![cur].chain = IF ms[cur].fin \/ ms[cur].key = key THEN @ ELSE Append(@, "save")]

Marked(marks) == [m \in Messages |-> cause[m] \cup {w \in Causes : <<m, w>> \in marks}]
AtWork(c) == c.chain # <<>> \/ c.pressed > 0 \/ c.building # <<>>
LeftBehind(ms) == IF cur # 0 /\ AtWork(ms[cur]) THEN {<<ms[cur].m, "left">>} ELSE {}

\* An effect of the first render remembers what the composer starts with as saved.
Mount(c) ==
  /\ mounts' = Append(Unmounted(mounts, c.key), c)
  /\ cur' = Len(mounts) + 1
  /\ cause' = Marked(LeftBehind(mounts) \cup
                     (IF c.text > 0 /\ ~Drafted(c.m, c.text) THEN {<<c.m, "remount">>} ELSE {}))

Acts == acts < MaxActs /\ acts' = acts + 1

Post(kind, m, text, att, uid) ==
  reqs' = Append(reqs, [kind |-> kind, m |-> m, text |-> text, att |-> att, uid |-> uid,
                        at |-> "posted", result |-> 0])
-----------------------------------------------------------------------------
(* The user. *)

Open(m) ==
  /\ Quiet
  /\ \A i \in DOMAIN mounts : mounts[i].m # m
  /\ Mount(Composed(m, Len(mounts) + 1, 0, {}, 0))
  /\ UNCHANGED <<outbox, reqs, folder, sent, tab, acts, failures, typed, dropped>>

Finishing(c) ==
  c.pressed > 0 \/ c.building # <<>> \/ \E j \in DOMAIN c.chain : c.chain[j] # "save"

Late == IF Finishing(mounts[cur]) THEN {<<mounts[cur].m, "late">>} ELSE {}

Edit ==
  /\ Quiet /\ Acts /\ cur # 0
  /\ LET m == mounts[cur].m IN
     /\ typed' = [typed EXCEPT ![m] = @ + 1]
     /\ mounts' = [mounts EXCEPT ![cur].text = typed[m] + 1, ![cur].timer = TRUE]
  /\ cause' = Marked(Late)
  /\ UNCHANGED <<cur, outbox, reqs, folder, sent, tab, failures, dropped>>

Attach ==
  /\ Quiet /\ Acts /\ cur # 0
  /\ mounts[cur].text > 0 /\ mounts[cur].att = {}
  /\ mounts' = [mounts EXCEPT ![cur].att = {0}, ![cur].timer = TRUE]
  /\ cause' = Marked(Late)
  /\ UNCHANGED <<cur, outbox, reqs, folder, sent, tab, failures, typed, dropped>>

Enqueue(i, job) ==
  /\ mounts' = [mounts EXCEPT ![i].timer = FALSE, ![i].chain = Append(@, job)]
  /\ UNCHANGED <<cur, outbox, reqs, folder, sent, tab, failures, typed, dropped, cause>>

Autosave == Quiet /\ Acts /\ cur # 0 /\ mounts[cur].timer /\ Enqueue(cur, "save")

\* "Save and close", and prepareToLeave(): each once at a time.
AskClose ==
  /\ Quiet /\ Acts /\ cur # 0
  /\ \A j \in DOMAIN mounts[cur].chain : mounts[cur].chain[j] # "close"
  /\ Enqueue(cur, "close")

AskFlush ==
  /\ Quiet /\ Acts /\ cur # 0 /\ ~HasPendingSends
  /\ \A j \in DOMAIN mounts[cur].chain : mounts[cur].chain[j] # "flush"
  /\ Enqueue(cur, "flush")

Discard ==
  /\ Quiet /\ Acts /\ cur # 0
  /\ mounts' = Unmounted([mounts EXCEPT ![cur].fin = TRUE], 0)
  /\ cur' = 0
  /\ dropped' = dropped \cup {mounts[cur].m}
  /\ cause' = Marked(LeftBehind(mounts))
  /\ UNCHANGED <<outbox, reqs, folder, sent, tab, failures, typed>>

\* Between the conversation and the docked window.
Move ==
  /\ Quiet /\ Acts /\ cur # 0
  /\ LET c == mounts[cur] IN Mount(Composed(c.m, c.key, c.text, c.att, c.uid))
  /\ UNCHANGED <<outbox, reqs, folder, sent, tab, failures, typed, dropped>>

\* send(), up to its setTimeout: a second press gets through until the first has gone on.
Press ==
  /\ Quiet /\ Acts /\ cur # 0
  /\ mounts[cur].text > 0 /\ ~mounts[cur].sending /\ mounts[cur].pressed < 2
  /\ mounts' = [mounts EXCEPT ![cur].pressed = @ + 1]
  /\ UNCHANGED <<cur, outbox, reqs, folder, sent, tab, failures, typed, dropped, cause>>

Deliver(i) ==
  /\ Quiet /\ mounts[i].pressed > 0
  /\ mounts' = [mounts EXCEPT ![i].pressed = @ - 1, ![i].sending = TRUE, ![i].timer = FALSE,
                              ![i].chain = Append(@, "send")]
  /\ UNCHANGED <<cur, outbox, reqs, folder, sent, tab, acts, failures, typed, dropped, cause>>
-----------------------------------------------------------------------------
(* The chain of saves. *)

\* The head of i's chain is done, with `ok` as its outcome.
Finish(ms, i, ok, marks) ==
  LET job == Head(ms[i].chain)
      ends == job = "close" \/ (job = "flush" /\ ok)
      popped == [ms EXCEPT ![i].chain = Tail(@), ![i].req = 0]
      done == [popped EXCEPT ![i].fin = TRUE]
  IN IF ~ends
     THEN /\ mounts' = popped /\ cause' = Marked(marks)
          /\ UNCHANGED <<cur, leaving>>
     ELSE /\ mounts' = IF OnScreen(ms[i].key) THEN Unmounted(done, 0) ELSE done
          /\ cur' = IF OnScreen(ms[i].key) THEN 0 ELSE cur
          /\ leaving' = IF job = "flush" THEN i ELSE leaving
          /\ cause' = Marked(marks \cup LeftBehind(popped))

\* saveNow() up to its request, or at once when there is nothing to save; deliver() after its wait.
Begin(i) ==
  LET c == mounts[i] IN
  /\ ~away /\ c.chain # <<>> /\ ~Waiting(c)
  /\ \/ /\ Head(c.chain) = "send"
        /\ mounts' = [mounts EXCEPT ![i].chain = Tail(@),
                        ![i].building = Append(@, [text |-> c.text, att |-> c.att, uid |-> DraftUid(i)])]
        /\ UNCHANGED <<cur, reqs, leaving, cause>>
     \/ /\ Head(c.chain) # "send" /\ Snapshot(c) = c.last
        /\ Finish(mounts, i, TRUE, {})
        /\ UNCHANGED reqs
     \/ /\ Head(c.chain) # "send" /\ Snapshot(c) # c.last
        /\ Post("save", c.m, c.text, c.att, DraftUid(i))
        /\ mounts' = [mounts EXCEPT ![i].req = Len(reqs) + 1]
        /\ cause' = Marked(IF c.building # <<>> THEN {<<c.m, "late">>} ELSE {})
        /\ UNCHANGED <<cur, leaving>>
  /\ UNCHANGED <<outbox, folder, sent, away, acts, failures, typed, dropped>>

\* Mutant of HeldBy: the composer goes on referring to what it referred to.
HeldBy_Before(c, r) == IF 0 \in c.att THEN {r.result} ELSE c.att

\* The draft's copies replace the files that were uploaded; what was added meanwhile stays.
HeldBy(c, r) ==
  (IF 0 \in r.att THEN {} ELSE c.att \cap {0}) \cup (IF r.att = {} THEN {} ELSE {r.result})

Saved(i) ==
  LET c == mounts[i]
      r == reqs[c.req]
      snap == <<r.text, r.att>>
      att == HeldBy(c, r)
      last == IF Snapshot(c) # snap THEN snap ELSE <<c.text, att>>
      knows == IF OnScreen(c.key) THEN [mounts EXCEPT ![cur].uid = r.result] ELSE mounts
  IN /\ Quiet /\ Waiting(c) /\ r.at = "done"
     /\ Finish(IF i = cur THEN [knows EXCEPT ![i].att = att, ![i].last = last, ![i].timer = TRUE]
                          ELSE [knows EXCEPT ![i].last = last], i, TRUE, {})
     /\ UNCHANGED <<outbox, reqs, folder, sent, away, acts, failures, typed, dropped>>

\* An error, or no answer: the request may still be under way.
Unsaved(i) ==
  LET c == mounts[i] IN
  /\ Quiet /\ Waiting(c)
  /\ \/ /\ reqs[c.req].at = "failed" /\ UNCHANGED failures
        /\ Finish(mounts, i, FALSE, {<<c.m, "failed">>})
     \/ /\ failures < MaxFailures /\ failures' = failures + 1
        /\ Finish(mounts, i, FALSE, {<<c.m, "failed">>, <<c.m, "torn">>})
  /\ UNCHANGED <<outbox, reqs, folder, sent, away, acts, typed, dropped>>
-----------------------------------------------------------------------------
(* Sending. *)

\* deliver() once the body is built: the composer closes, and the message waits out its window.
QueueSend(i) ==
  LET c == mounts[i]
      b == Head(c.building)
      done == [mounts EXCEPT ![i].fin = TRUE, ![i].building = Tail(@)]
      shown == OnScreen(c.key)
  IN /\ Quiet /\ c.building # <<>>
     /\ mounts' = IF shown THEN Unmounted(done, 0) ELSE done
     /\ cur' = IF shown THEN 0 ELSE cur
     /\ outbox' = Append(outbox, [m |-> c.m, text |-> b.text, att |-> (b.att \ {0}) \cup (c.att \cap {0}),
                                  uid |-> b.uid, rtext |-> c.text, ratt |-> c.att, at |-> "window", req |-> 0])
     /\ cause' = Marked(IF shown THEN LeftBehind(done) ELSE {})
     /\ UNCHANGED <<reqs, folder, sent, tab, acts, failures, typed, dropped>>

\* A body over MAX_HTML goes back to the user.
TooLarge(i) ==
  /\ Quiet /\ mounts[i].building # <<>>
  /\ mounts' = [mounts EXCEPT ![i].building = Tail(@), ![i].sending = FALSE]
  /\ UNCHANGED <<cur, outbox, reqs, folder, sent, tab, acts, failures, typed, dropped, cause>>

Fire(o) ==
  LET p == outbox[o] IN
  /\ Quiet /\ p.at = "window"
  /\ Post("send", p.m, p.text, p.att, p.uid)
  /\ outbox' = [outbox EXCEPT ![o].at = "posted", ![o].req = Len(reqs) + 1]
  /\ UNCHANGED <<mounts, cur, folder, sent, tab, acts, failures, typed, dropped, cause>>

Reopen(o, from, to) ==
  LET p == outbox[o] IN
  /\ Quiet /\ Acts /\ p.at = from
  /\ outbox' = [outbox EXCEPT ![o].at = to]
  /\ Mount(Composed(p.m, Len(mounts) + 1, p.rtext, p.ratt, p.uid))
  /\ UNCHANGED <<reqs, folder, sent, tab, failures, typed, dropped>>

\* Mutant of Undo: the timer is not cleared.
Undo_TimerRuns(o) == Reopen(o, "window", "window")
Undo(o) == Reopen(o, "window", "undone")
EditMessage(o) == Reopen(o, "toast", "edited")

\* sendMail() settles, or its answer is lost.
Settle(o) ==
  LET p == outbox[o] IN
  /\ Quiet /\ p.at = "posted"
  /\ \/ /\ reqs[p.req].at = "done"
        /\ outbox' = [outbox EXCEPT ![o].at = "sent"]
        /\ UNCHANGED <<failures, cause>>
     \/ /\ reqs[p.req].at = "failed"
        /\ outbox' = [outbox EXCEPT ![o].at = "toast"]
        /\ UNCHANGED <<failures, cause>>
     \/ /\ failures < MaxFailures /\ failures' = failures + 1
        /\ outbox' = [outbox EXCEPT ![o].at = "toast"]
        /\ cause' = Marked({<<p.m, "unsure">>})
  /\ UNCHANGED <<mounts, cur, reqs, folder, sent, tab, acts, typed, dropped>>

ToastExpires(o) ==
  /\ Quiet /\ Acts /\ outbox[o].at = "toast"
  /\ outbox' = [outbox EXCEPT ![o].at = "gone"]
  /\ cause' = Marked({<<outbox[o].m, "expired">>})
  /\ UNCHANGED <<mounts, cur, reqs, folder, sent, tab, failures, typed, dropped>>
-----------------------------------------------------------------------------
(* Leaving for another account: the page is loaded again, and what the tab was doing ends. *)

\* With a send pending, beforeunload asks first, and the user stays.
Leave ==
  /\ Quiet /\ ~HasPendingSends
  /\ cur = 0 \/ leaving # 0
  /\ away' = TRUE
  /\ cause' = Marked({<<mounts[i].m, "abandoned">> :
                        i \in {j \in DOMAIN mounts : j = cur \/ AtWork(mounts[j])}}
                     \cup {<<outbox[o].m, "abandoned">> : o \in {q \in DOMAIN outbox : outbox[q].at = "toast"}})
  /\ UNCHANGED <<mounts, cur, outbox, reqs, folder, sent, leaving, acts, failures, typed, dropped>>

Abort(r) ==
  /\ away /\ reqs[r].at = "posted"
  /\ reqs' = [reqs EXCEPT ![r].at = "failed"]
  /\ UNCHANGED <<mounts, cur, outbox, folder, sent, tab, acts, failures, typed, dropped, cause>>
-----------------------------------------------------------------------------
(* The server. *)

Step(r, at) == reqs' = [reqs EXCEPT ![r].at = at]
Fails == failures < MaxFailures /\ failures' = failures + 1

\* collectForwarded(): an attachment of a draft that is gone is an error.
Collect(r) ==
  /\ reqs[r].at = "posted"
  /\ \/ Step(r, IF reqs[r].att \ {0} \subseteq Uids THEN "collected" ELSE "failed") /\ UNCHANGED failures
     \/ Step(r, "failed") /\ Fails
  /\ UNCHANGED <<mounts, cur, outbox, folder, sent, tab, acts, typed, dropped, cause>>

Stored(r) == [uid |-> nextUid, m |-> reqs[r].m, text |-> reqs[r].text, file |-> reqs[r].att # {}]
Without(uid) == {d \in drafts : d.uid # uid}

\* PUT /drafts: append, then delete the previous one; each may fail, and so may reading it back.
StoreDraft(r) ==
  /\ reqs[r].kind = "save" /\ reqs[r].at = "collected"
  /\ \/ /\ drafts' = Without(reqs[r].uid) \cup {Stored(r)} /\ nextUid' = nextUid + 1
        /\ reqs' = [reqs EXCEPT ![r].at = "done", ![r].result = nextUid]
        /\ UNCHANGED <<failures, cause>>
     \/ /\ Fails /\ Step(r, "failed")
        /\ UNCHANGED <<drafts, nextUid, cause>>
     \/ /\ Fails
        /\ drafts' \in {drafts \cup {Stored(r)}, Without(reqs[r].uid) \cup {Stored(r)}} /\ nextUid' = nextUid + 1
        /\ Step(r, "failed")
        /\ cause' = Marked({<<reqs[r].m, "torn">>})
     \/ /\ Fails
        /\ drafts' = drafts \cup {Stored(r)} /\ nextUid' = nextUid + 1
        /\ reqs' = [reqs EXCEPT ![r].at = "done", ![r].result = nextUid]
        /\ cause' = Marked({<<reqs[r].m, "torn">>})
  /\ UNCHANGED <<mounts, cur, outbox, sent, tab, acts, typed, dropped>>

\* POST /send: Postfix takes the message or not, and its answer may be lost.
Submit(r) ==
  /\ reqs[r].kind = "send" /\ reqs[r].at = "collected"
  /\ \/ /\ sent' = Append(sent, [m |-> reqs[r].m, text |-> reqs[r].text])
        /\ Step(r, "handed")
        /\ UNCHANGED <<failures, cause>>
     \/ /\ Fails /\ Step(r, "failed")
        /\ UNCHANGED <<sent, cause>>
     \/ /\ Fails /\ Step(r, "failed")
        /\ sent' = Append(sent, [m |-> reqs[r].m, text |-> reqs[r].text])
        /\ cause' = Marked({<<reqs[r].m, "unsure">>})
  /\ UNCHANGED <<mounts, cur, outbox, folder, tab, acts, typed, dropped>>

\* After that nothing is an error any more.
Tidy(r) ==
  /\ reqs[r].at = "handed"
  /\ Step(r, "done")
  /\ \/ drafts' = Without(reqs[r].uid) /\ UNCHANGED <<failures, cause>>
     \/ Fails /\ UNCHANGED drafts /\ cause' = Marked({<<reqs[r].m, "torn">>})
  /\ UNCHANGED <<mounts, cur, outbox, nextUid, sent, tab, acts, typed, dropped>>
-----------------------------------------------------------------------------
Next ==
  \/ \E m \in Messages : Open(m)
  \/ Edit \/ Attach \/ Autosave \/ AskClose \/ AskFlush \/ Discard \/ Move \/ Press \/ Leave
  \/ \E i \in DOMAIN mounts : Deliver(i) \/ Begin(i) \/ Saved(i) \/ Unsaved(i) \/ QueueSend(i) \/ TooLarge(i)
  \/ \E o \in DOMAIN outbox : Fire(o) \/ Undo(o) \/ EditMessage(o) \/ Settle(o) \/ ToastExpires(o)
  \/ \E r \in DOMAIN reqs : Abort(r) \/ Collect(r) \/ StoreDraft(r) \/ Submit(r) \/ Tidy(r)

Spec == Init /\ [][Next]_vars
-----------------------------------------------------------------------------
(* Properties. *)

Mounted == 1..Len(mounts)

\* Types of the variables (Composer.tsx:77-105, composerStore.ts:11-44, pendingSend.ts:9-13).
TypeOK ==
  /\ \A i \in Mounted :
       /\ mounts[i].m \in Messages /\ mounts[i].key \in 1..i
       /\ mounts[i].text \in 0..MaxActs /\ mounts[i].uid < nextUid
       /\ mounts[i].att \subseteq 0..(nextUid - 1)
       /\ mounts[i].req \in 0..Len(reqs)
       /\ \A j \in DOMAIN mounts[i].chain : mounts[i].chain[j] \in {"save", "close", "flush", "send"}
       /\ mounts[i].timer => i = cur
       /\ Waiting(mounts[i]) => /\ mounts[i].chain # <<>>
                                /\ reqs[mounts[i].req].kind = "save"
  /\ cur \in 0..Len(mounts) /\ leaving \in 0..Len(mounts)
  /\ \A o \in DOMAIN outbox : outbox[o].at = "posted" => reqs[outbox[o].req].kind = "send"
  /\ \A d \in drafts : d.uid \in 1..(nextUid - 1) /\ d.m \in Messages
  /\ typed \in [Messages -> 0..MaxActs] /\ dropped \subseteq Messages
  /\ acts \in 0..MaxActs /\ failures \in 0..MaxFailures /\ away \in BOOLEAN
  /\ cause \in [Messages -> SUBSET Causes]

Copies(m) == Cardinality({i \in DOMAIN sent : sent[i].m = m})
DraftsOf(m) == {d \in drafts : d.m = m}
Befell(m, why) == cause[m] \cap why # {}

MayRepeat == {"unsure", "left"}
MayLeaveDraft == {"left", "late", "torn"}
MayLose == {"failed", "remount", "late", "left", "expired", "abandoned"}

\* Postfix gets a message twice only when the user could not be told that it had it (the answer, of
\* Postfix or of the app, was lost), or the composer was left with its saves, or a second press of
\* Send, under way (Composer.tsx:282-342, pendingSend.ts:35-81, send/routes.ts:118-127).
RepeatsHaveCause == \A m \in Messages : Copies(m) > 1 => Befell(m, MayRepeat)

InProgress(m) ==
  \/ cur # 0 /\ mounts[cur].m = m
  \/ \E i \in Mounted : mounts[i].m = m /\ AtWork(mounts[i])
  \/ \E o \in DOMAIN outbox : outbox[o].m = m /\ outbox[o].at \in {"window", "posted", "toast"}
  \/ \E r \in DOMAIN reqs : reqs[r].m = m /\ reqs[r].at \in {"posted", "collected", "handed"}

\* A message has one draft at most, since each save replaces the draft of the one before
\* (Composer.tsx:171-181), unless a save was left under way or its answer was not the whole story.
\* Once all is done, a message that was sent has none left (Composer.tsx:286-289,
\* send/routes.ts:139-147), with the same exceptions, and when it was edited or saved while it was being sent.
OneDraftUntilSent ==
  \A m \in Messages :
    /\ Cardinality(DraftsOf(m)) > 1 => Befell(m, MayLeaveDraft)
    /\ Copies(m) > 0 /\ ~InProgress(m) /\ DraftsOf(m) # {} => Befell(m, MayRepeat \cup MayLeaveDraft)

\* The draft an open or a queued message takes its attachments from exists (Composer.tsx:193-199,
\* send/routes.ts:154-186); else neither saving nor sending would work again.
AttachmentsHeld ==
  \A m \in Messages :
    LET used == UNION ({mounts[i].att : i \in {j \in Mounted : j = cur /\ mounts[j].m = m /\ ~Waiting(mounts[j])}}
                   \cup {outbox[o].att : o \in {q \in DOMAIN outbox : outbox[q].m = m /\ outbox[q].at = "window"}})
    IN ~away /\ ~(used \ {0} \subseteq Uids) => Befell(m, MayRepeat \cup MayLeaveDraft)

\* Where the newest version of a message can be.
Kept(m) ==
  LET t == typed[m] IN
  \/ Drafted(m, t)
  \/ \E i \in DOMAIN sent : sent[i] = [m |-> m, text |-> t]
  \/ \E r \in DOMAIN reqs : reqs[r].m = m /\ reqs[r].text = t /\ reqs[r].at \in {"posted", "collected", "handed"}
  \/ /\ ~away
     /\ \/ \E i \in Mounted : mounts[i].m = m /\ mounts[i].text = t /\ (i = cur \/ AtWork(mounts[i]))
        \/ \E o \in DOMAIN outbox : /\ outbox[o].m = m /\ t \in {outbox[o].text, outbox[o].rtext}
                                    /\ outbox[o].at \in {"window", "posted", "toast"}

\* What was written is not lost unless the user discards it, a save failed, it was written while
\* the composer was closing, a composer was mounted with it before it was in Drafts (and so takes it
\* for saved), the toast with "Edit message" went away, or the page was left with a save under way or that toast still showing.
NothingLost ==
  \A m \in Messages : m \in dropped \/ typed[m] = 0 \/ Kept(m)
    \/ Befell(m, MayLose)

=============================================================================
