---------------------------- MODULE BrowserProofs ----------------------------
(***************************************************************************)
(* Proofs about the two caches of the web app, for any numbers of lists,   *)
(* messages, requests, events and failures.                                *)
(*   - AdminConsole, the administration pages. What the tables say is used *)
(*     in Covered only: every list a change alters is invalidated, or      *)
(*     overlooked.                                                         *)
(*   - MailClient, the mail page. StreamInv follows the mailbox and what   *)
(*     the stream says of INBOX, TabInv what the page and its requests     *)
(*     hold, and RestInv why each cached list is right or will be fetched. *)
(***************************************************************************)
EXTENDS AdminConsole, MailClient, FiniteSetTheorems, SequenceTheorems, WellFoundedInduction, TLAPS


\* The change is to be seen on the list.
Owed(m, q) == Alters(m, q) /\ ~Overlooked(m, q)
Set(m) == IF m \in DOMAIN SetQueryData THEN {SetQueryData[m]} ELSE {}

\* A change of this browser has happened, and so has one whose answer is on its way.
MineInv ==
  /\ \A c \in 1 .. MaxChanges : mine[c] # None => c <= clock
  /\ \A r \in Requests : call[r] # None /\ call[r].at # None =>
       call[r].at \in 1 .. clock /\ mine[call[r].at] = call[r].m

\* The list shows change c, or is going to once it is looked at: an answer on its way is new enough, but
\* for one that was outrun, and a list at rest shows the change or is fetched when its page is opened.
Shows(q, c) ==
  /\ fetch[q] \in Nat /\ fetch[q] >= outran[q] => fetch[q] >= c
  /\ fetch[q] = None /\ outran[q] = 0 => \/ at[q] # None /\ at[q] >= c
                                         \/ q \notin Mounted /\ (at[q] = None \/ q \in invalid)
FreshInv ==
  \A q \in Queries, c \in 1 .. clock :
    mine[c] # None /\ Owed(mine[c], q) /\ ~Awaited(c) => Shows(q, c)

\* The list of bans has all saves that were answered, even while it is fetched, unless it is out of date.
SavedInv ==
  at["bans"] # None /\ "bans" \notin invalid /\ outran["bans"] = 0 =>
    \A c \in 1 .. clock : mine[c] = "setAllowlist" /\ ~Awaited(c) => at["bans"] >= c

\* The allowlist has held our entries since the last time this browser saved it; and a save on its way
\* sends them, and no other save is on its way, unless it was hasty.
HeldInv ==
  \A c \in 0 .. clock : (\A d \in 1 .. clock : mine[d] = "setAllowlist" => d <= c) => ours \subseteq lists[c]
SendsAll(r) ==
  /\ ours \subseteq call[r].list \cup {call[r].entry}
  /\ \A t \in Requests \ {r} : ~Saving(t)
SendsInv ==
  \A r \in Requests : call[r] # None =>
    /\ call[r].list = None <=> call[r].m # "setAllowlist"
    /\ Saving(r) /\ call[r].at = None => SendsAll(r) \/ call[r].hasty
OursInv == HeldInv /\ SendsInv

IInv == TypeOK /\ MineInv /\ FreshInv /\ SavedInv /\ OursInv

-----------------------------------------------------------------------------
(* The tables.                                                              *)

\* The changes that the pages offer.
LEMMA KnownMutations ==
  Mutations \subseteq {"createDomain", "updateDomain", "deleteDomain", "createMailbox", "updateMailbox", "deleteMailbox",
                       "recalculateQuota", "createAlias", "updateAlias", "deleteAlias", "applyReports", "skipStep",
                       "createBan", "liftBan", "setAllowlist", "deleteLockout", "revokeSession", "queueAction",
                       "flushQueue", "refreshDns"}
BY DEF Mutations, Pages, OverviewPage, SetupStepsPage, DomainsPage, DomainDetail, MailboxesTab, AliasesTab, MailLogTab,
       QueueTab, SpamTab, SignInsTab, BansTab, LockoutsTab, SessionsTab, AuditTab, LogsPage, StatusPage

\* The lists the pages show.
LEMMA KnownQueries ==
  Queries = {"domains", "domain", "domainDns", "setupSteps", "status", "overview", "bans", "authEvents", "failedIps",
             "lockouts", "sessions", "audit", "mailLog", "queue", "spam", "logs", "me"}
BY DEF Queries, Reads

\* The answers that are a list themselves.
LEMMA KnownSet ==
  /\ DOMAIN SetQueryData = {"refreshDns", "applyReports", "skipStep"}
  /\ \A m : Set(m) \subseteq Queries /\ "bans" \notin Set(m)
<1>1. DOMAIN SetQueryData = {"refreshDns", "applyReports", "skipStep"}
  BY DEF SetQueryData
<1>2. \A m \in DOMAIN SetQueryData : SetQueryData[m] \in Queries \ {"bans"}
  BY <1>1, KnownQueries DEF SetQueryData
<1> QED BY <1>1, <1>2 DEF Set

\* What a change writes, as the log of changes has it too.
LEMMA Written ==
  /\ DOMAIN Writes = {"createDomain", "updateDomain", "deleteDomain", "createMailbox", "updateMailbox",
                      "deleteMailbox", "recalculateQuota", "createAlias", "updateAlias", "deleteAlias", "applyReports",
                      "skipStep", "createBan", "liftBan", "setAllowlist", "deleteLockout", "revokeSession",
                      "queueAction", "flushQueue"}
  /\ DOMAIN Events = {"mail", "signin", "failure"}
  /\ Changes("refreshDns") = {"dns"}
BY DEF Writes, Events, Records, Changes

\* Every list that a change alters is invalidated after it, or the answer is that list, or it is overlooked.
LEMMA Covered ==
  ASSUME NEW m \in Mutations, NEW q \in Queries, Owed(m, q)
  PROVE  q \in OnSuccess(m) \cup Set(m)
<1> USE Written, KnownQueries, KnownSet DEF Owed, Alters, Overlooked, OnSuccess, Set
<1>1. CASE m = "createDomain"
  BY <1>1 DEF Changes, Writes, Invalidates, SetQueryData, DomainKeys, AfterBan, Reads, ToDomainDto, ToDomainDetail, CachedDomainDns, ListSetupSteps, Status, ListBans, ListAuthEvents, FailedIps,
         ListLockouts, ListWebSessions, ListAudit, ListMailLog, QueueSnapshot, SpamHistory, ReadLog, ToMe
<1>2. CASE m = "updateDomain"
  BY <1>2 DEF Changes, Writes, Invalidates, SetQueryData, DomainKeys, AfterBan, Reads, ToDomainDto, ToDomainDetail, CachedDomainDns, ListSetupSteps, Status, ListBans, ListAuthEvents, FailedIps,
         ListLockouts, ListWebSessions, ListAudit, ListMailLog, QueueSnapshot, SpamHistory, ReadLog, ToMe
<1>3. CASE m = "deleteDomain"
  BY <1>3 DEF Changes, Writes, Invalidates, SetQueryData, DomainKeys, AfterBan, Reads, ToDomainDto, ToDomainDetail, CachedDomainDns, ListSetupSteps, Status, ListBans, ListAuthEvents, FailedIps,
         ListLockouts, ListWebSessions, ListAudit, ListMailLog, QueueSnapshot, SpamHistory, ReadLog, ToMe
<1>4. CASE m = "createMailbox"
  BY <1>4 DEF Changes, Writes, Invalidates, SetQueryData, DomainKeys, AfterBan, Reads, ToDomainDto, ToDomainDetail, CachedDomainDns, ListSetupSteps, Status, ListBans, ListAuthEvents, FailedIps,
         ListLockouts, ListWebSessions, ListAudit, ListMailLog, QueueSnapshot, SpamHistory, ReadLog, ToMe
<1>5. CASE m = "updateMailbox"
  BY <1>5 DEF Changes, Writes, Invalidates, SetQueryData, DomainKeys, AfterBan, Reads, ToDomainDto, ToDomainDetail, CachedDomainDns, ListSetupSteps, Status, ListBans, ListAuthEvents, FailedIps,
         ListLockouts, ListWebSessions, ListAudit, ListMailLog, QueueSnapshot, SpamHistory, ReadLog, ToMe
<1>6. CASE m = "deleteMailbox"
  BY <1>6 DEF Changes, Writes, Invalidates, SetQueryData, DomainKeys, AfterBan, Reads, ToDomainDto, ToDomainDetail, CachedDomainDns, ListSetupSteps, Status, ListBans, ListAuthEvents, FailedIps,
         ListLockouts, ListWebSessions, ListAudit, ListMailLog, QueueSnapshot, SpamHistory, ReadLog, ToMe
<1>7. CASE m = "recalculateQuota"
  BY <1>7 DEF Changes, Writes, Invalidates, SetQueryData, DomainKeys, AfterBan, Reads, ToDomainDto, ToDomainDetail, CachedDomainDns, ListSetupSteps, Status, ListBans, ListAuthEvents, FailedIps,
         ListLockouts, ListWebSessions, ListAudit, ListMailLog, QueueSnapshot, SpamHistory, ReadLog, ToMe
<1>8. CASE m = "createAlias"
  BY <1>8 DEF Changes, Writes, Invalidates, SetQueryData, DomainKeys, AfterBan, Reads, ToDomainDto, ToDomainDetail, CachedDomainDns, ListSetupSteps, Status, ListBans, ListAuthEvents, FailedIps,
         ListLockouts, ListWebSessions, ListAudit, ListMailLog, QueueSnapshot, SpamHistory, ReadLog, ToMe
<1>9. CASE m = "updateAlias"
  BY <1>9 DEF Changes, Writes, Invalidates, SetQueryData, DomainKeys, AfterBan, Reads, ToDomainDto, ToDomainDetail, CachedDomainDns, ListSetupSteps, Status, ListBans, ListAuthEvents, FailedIps,
         ListLockouts, ListWebSessions, ListAudit, ListMailLog, QueueSnapshot, SpamHistory, ReadLog, ToMe
<1>10. CASE m = "deleteAlias"
  BY <1>10 DEF Changes, Writes, Invalidates, SetQueryData, DomainKeys, AfterBan, Reads, ToDomainDto, ToDomainDetail, CachedDomainDns, ListSetupSteps, Status, ListBans, ListAuthEvents, FailedIps,
         ListLockouts, ListWebSessions, ListAudit, ListMailLog, QueueSnapshot, SpamHistory, ReadLog, ToMe
<1>11. CASE m = "applyReports"
  BY <1>11 DEF Changes, Writes, Invalidates, SetQueryData, DomainKeys, AfterBan, Reads, ToDomainDto, ToDomainDetail, CachedDomainDns, ListSetupSteps, Status, ListBans, ListAuthEvents, FailedIps,
         ListLockouts, ListWebSessions, ListAudit, ListMailLog, QueueSnapshot, SpamHistory, ReadLog, ToMe
<1>12. CASE m = "skipStep"
  BY <1>12 DEF Changes, Writes, Invalidates, SetQueryData, DomainKeys, AfterBan, Reads, ToDomainDto, ToDomainDetail, CachedDomainDns, ListSetupSteps, Status, ListBans, ListAuthEvents, FailedIps,
         ListLockouts, ListWebSessions, ListAudit, ListMailLog, QueueSnapshot, SpamHistory, ReadLog, ToMe
<1>13. CASE m = "createBan"
  BY <1>13 DEF Changes, Writes, Invalidates, SetQueryData, DomainKeys, AfterBan, Reads, ToDomainDto, ToDomainDetail, CachedDomainDns, ListSetupSteps, Status, ListBans, ListAuthEvents, FailedIps,
         ListLockouts, ListWebSessions, ListAudit, ListMailLog, QueueSnapshot, SpamHistory, ReadLog, ToMe
<1>14. CASE m = "liftBan"
  BY <1>14 DEF Changes, Writes, Invalidates, SetQueryData, DomainKeys, AfterBan, Reads, ToDomainDto, ToDomainDetail, CachedDomainDns, ListSetupSteps, Status, ListBans, ListAuthEvents, FailedIps,
         ListLockouts, ListWebSessions, ListAudit, ListMailLog, QueueSnapshot, SpamHistory, ReadLog, ToMe
<1>15. CASE m = "setAllowlist"
  BY <1>15 DEF Changes, Writes, Invalidates, SetQueryData, DomainKeys, AfterBan, Reads, ToDomainDto, ToDomainDetail, CachedDomainDns, ListSetupSteps, Status, ListBans, ListAuthEvents, FailedIps,
         ListLockouts, ListWebSessions, ListAudit, ListMailLog, QueueSnapshot, SpamHistory, ReadLog, ToMe
<1>16. CASE m = "deleteLockout"
  BY <1>16 DEF Changes, Writes, Invalidates, SetQueryData, DomainKeys, AfterBan, Reads, ToDomainDto, ToDomainDetail, CachedDomainDns, ListSetupSteps, Status, ListBans, ListAuthEvents, FailedIps,
         ListLockouts, ListWebSessions, ListAudit, ListMailLog, QueueSnapshot, SpamHistory, ReadLog, ToMe
<1>17. CASE m = "revokeSession"
  BY <1>17 DEF Changes, Writes, Invalidates, SetQueryData, DomainKeys, AfterBan, Reads, ToDomainDto, ToDomainDetail, CachedDomainDns, ListSetupSteps, Status, ListBans, ListAuthEvents, FailedIps,
         ListLockouts, ListWebSessions, ListAudit, ListMailLog, QueueSnapshot, SpamHistory, ReadLog, ToMe
<1>18. CASE m = "queueAction"
  BY <1>18 DEF Changes, Writes, Invalidates, SetQueryData, DomainKeys, AfterBan, Reads, ToDomainDto, ToDomainDetail, CachedDomainDns, ListSetupSteps, Status, ListBans, ListAuthEvents, FailedIps,
         ListLockouts, ListWebSessions, ListAudit, ListMailLog, QueueSnapshot, SpamHistory, ReadLog, ToMe
<1>19. CASE m = "flushQueue"
  BY <1>19 DEF Changes, Writes, Invalidates, SetQueryData, DomainKeys, AfterBan, Reads, ToDomainDto, ToDomainDetail, CachedDomainDns, ListSetupSteps, Status, ListBans, ListAuthEvents, FailedIps,
         ListLockouts, ListWebSessions, ListAudit, ListMailLog, QueueSnapshot, SpamHistory, ReadLog, ToMe
<1>20. CASE m = "refreshDns"
  BY <1>20 DEF Changes, Writes, Invalidates, SetQueryData, DomainKeys, AfterBan, Reads, ToDomainDto, ToDomainDetail, CachedDomainDns, ListSetupSteps, Status, ListBans, ListAuthEvents, FailedIps,
         ListLockouts, ListWebSessions, ListAudit, ListMailLog, QueueSnapshot, SpamHistory, ReadLog, ToMe
<1> QED BY KnownMutations, <1>1, <1>2, <1>3, <1>4, <1>5, <1>6, <1>7, <1>8, <1>9, <1>10, <1>11, <1>12, <1>13, <1>14, <1>15, <1>16, <1>17, <1>18, <1>19, <1>20

\* Only lists are invalidated.
LEMMA InvalidatesLists == \A m \in Mutations : OnSuccess(m) \subseteq Queries
<1>1. \A m \in Mutations : m \in DOMAIN Invalidates /\ OnSuccess(m) \subseteq Queries
  BY KnownMutations, KnownQueries DEF Invalidates, OnSuccess, DomainKeys, AfterBan
<1> QED BY <1>1

\* Every save of the allowlist is owed to the list of bans.
LEMMA AllowlistOwed == "bans" \in Queries /\ Owed("setAllowlist", "bans") /\ "setAllowlist" # None
<1>1. "bans" \in Queries
  BY KnownQueries
<1>2. Owed("setAllowlist", "bans")
  BY Written DEF Owed, Alters, Changes, Writes, Reads, ListBans, Overlooked
<1>3. "setAllowlist" \in Mutations
  <2>1. "bans" \in DOMAIN Pages /\ "setAllowlist" \in Pages["bans"].offers
    BY DEF Pages, OverviewPage, SetupStepsPage, DomainsPage, DomainDetail, MailboxesTab, AliasesTab, MailLogTab,
           QueueTab, SpamTab, SignInsTab, BansTab, LockoutsTab, SessionsTab, AuditTab, LogsPage, StatusPage
  <2> QED BY <2>1 DEF Mutations
<1> QED BY <1>1, <1>2, <1>3, NoneIsNoValue

\* What a page shows of the lists followed.
LEMMA MountedLists == Mounted \subseteq Queries \cap Followed
BY FollowedAreLists DEF Mounted, ShownOn

-----------------------------------------------------------------------------
(* The query cache.                                                         *)

LEMMA InitInv == Init => IInv
<1> SUFFICES ASSUME Init PROVE IInv
  OBVIOUS
<1> USE NoneIsNoValue, BoundsAreNat DEF Init
<1>1. TypeOK
  BY DEF TypeOK
<1>2. MineInv
  BY DEF MineInv
<1>3. FreshInv
  BY DEF FreshInv
<1>4. SavedInv
  BY AllowlistOwed DEF SavedInv
<1>5. OursInv
  BY DEF OursInv, HeldInv, SendsInv
<1> QED BY <1>1, <1>2, <1>3, <1>4, <1>5 DEF IInv

\* The browser waits for the same answers as before.
SameCalls ==
  /\ call' \in [Requests -> CallRow \cup {None}]
  /\ \A r \in Requests :
       /\ call'[r] = None <=> call[r] = None
       /\ call[r] # None => /\ call'[r].m = call[r].m /\ call'[r].at = call[r].at /\ call'[r].list = call[r].list
                            /\ call'[r].entry = call[r].entry /\ call'[r].hasty = call[r].hasty

\* What the browser's cache does leaves what was changed, and waits to be, as it was.
LEMMA CacheOnly ==
  ASSUME IInv, SameCalls, UNCHANGED <<server, mine, ours>>
  PROVE  MineInv' /\ OursInv' /\ \A c : Awaited(c)' <=> Awaited(c)
<1>1. UNCHANGED <<clock, lists, mine, ours>>
  BY DEF server
<1>2. \A c : Awaited(c)' <=> Awaited(c)
  BY DEF SameCalls, Awaited
<1>3. \A r \in Requests : Saving(r)' <=> Saving(r)
  BY DEF SameCalls, Saving
<1>4. MineInv'
  BY <1>1 DEF IInv, MineInv, SameCalls
<1>5. HeldInv'
  BY <1>1 DEF IInv, OursInv, HeldInv
<1>6. SendsInv'
  BY <1>1, <1>3 DEF IInv, OursInv, SendsInv, SendsAll, SameCalls
<1> QED BY <1>2, <1>4, <1>5, <1>6 DEF OursInv

LEMMA NothingCalled ==
  ASSUME TypeOK, UNCHANGED call
  PROVE  SameCalls
BY DEF TypeOK, SameCalls

LEMMA AnswerKeeps ==
  ASSUME IInv, NEW q \in Followed, Answer(q)
  PROVE  IInv'
<1> USE NoneIsNoValue, BoundsAreNat
<1>1. q \in Queries /\ TypeOK
  BY FollowedAreLists DEF IInv
<1>2. TypeOK'
  BY <1>1 DEF TypeOK, Answer, server, history
<1>3. UNCHANGED <<page, at, invalid, call, clock, mine, ours, outran, server>>
  BY DEF Answer, server, history
<1>4. MineInv' /\ OursInv' /\ \A c : Awaited(c)' <=> Awaited(c)
  BY <1>1, <1>3, NothingCalled, CacheOnly
<1>5. FreshInv'
  <2> SUFFICES ASSUME NEW x \in Queries, NEW c \in 1 .. clock, mine[c] # None, Owed(mine[c], x), ~Awaited(c)
               PROVE  Shows(x, c)'
    BY <1>3, <1>4 DEF FreshInv
  <2>1. CASE x = q
    <3>1. fetch'[q] = clock /\ clock \in Nat /\ c <= clock
      BY <1>1 DEF Answer, TypeOK
    <3> QED BY <2>1, <3>1 DEF Shows
  <2>2. CASE x # q
    <3>1. Shows(x, c)
      BY <2>2 DEF IInv, FreshInv
    <3> QED BY <3>1, <2>2, <1>1, <1>3 DEF Shows, Answer, TypeOK, Mounted
  <2> QED BY <2>1, <2>2
<1>6. SavedInv'
  BY <1>3, <1>4 DEF IInv, SavedInv
<1> QED BY <1>2, <1>4, <1>5, <1>6 DEF IInv

LEMMA ReceiveKeeps ==
  ASSUME IInv, NEW q \in Followed, Receive(q)
  PROVE  IInv'
<1> USE NoneIsNoValue, BoundsAreNat
<1>1. q \in Queries /\ TypeOK
  BY FollowedAreLists DEF IInv
<1>2. fetch[q] \in 0 .. clock /\ fetch[q] \in Nat /\ outran[q] \in Nat
  BY <1>1 DEF TypeOK, Receive
<1>3. /\ at' \in [Queries -> (0 .. clock) \cup {None}] /\ at'[q] = fetch[q]
      /\ fetch' \in [Queries -> (0 .. clock) \cup {None, Asked}] /\ fetch'[q] = None
      /\ outran' \in [Queries -> 0 .. clock] /\ outran'[q] = (IF fetch[q] >= outran[q] THEN 0 ELSE outran[q])
      /\ \A x \in Queries \ {q} : at'[x] = at[x] /\ fetch'[x] = fetch[x] /\ outran'[x] = outran[x]
      /\ invalid' = invalid \ {q}
  <2>1. (IF fetch[q] >= outran[q] THEN 0 ELSE outran[q]) \in 0 .. clock
    BY <1>1, <1>2 DEF TypeOK
  <2> QED BY <1>1, <1>2, <2>1 DEF TypeOK, Receive
<1>4. UNCHANGED <<page, call, clock, mine, ours, server, lists, pages>>
  BY DEF Receive, server
<1>5. TypeOK'
  BY <1>1, <1>3, <1>4 DEF TypeOK
<1>6. MineInv' /\ OursInv' /\ \A c : Awaited(c)' <=> Awaited(c)
  BY <1>1, <1>4, NothingCalled, CacheOnly
<1>7. FreshInv'
  <2> SUFFICES ASSUME NEW x \in Queries, NEW c \in 1 .. clock, mine[c] # None, Owed(mine[c], x), ~Awaited(c)
               PROVE  Shows(x, c)'
    BY <1>4, <1>6 DEF FreshInv
  <2>1. Shows(x, c)
    BY DEF IInv, FreshInv
  <2>2. CASE x = q
    <3>1. outran'[q] = 0 => fetch[q] >= outran[q]
      BY <1>2, <1>3
    <3> QED BY <2>1, <2>2, <3>1, <1>2, <1>3 DEF Shows
  <2>3. CASE x # q
    BY <2>1, <2>3, <1>3, <1>4 DEF Shows, Mounted
  <2> QED BY <2>2, <2>3
<1>8. SavedInv'
  <2> SUFFICES ASSUME at'["bans"] # None, "bans" \notin invalid', outran'["bans"] = 0,
                      NEW c \in 1 .. clock, mine[c] = "setAllowlist", ~Awaited(c)
               PROVE  at'["bans"] >= c
    BY <1>4, <1>6 DEF SavedInv
  <2>1. CASE q = "bans"
    <3>1. Shows("bans", c)
      BY AllowlistOwed DEF IInv, FreshInv
    <3>2. fetch[q] >= outran[q]
      BY <2>1, <1>2, <1>3
    <3> QED BY <2>1, <3>1, <3>2, <1>2, <1>3 DEF Shows
  <2>2. CASE q # "bans"
    BY <2>2, <1>3, AllowlistOwed DEF IInv, SavedInv
  <2> QED BY <2>1, <2>2
<1> QED BY <1>5, <1>6, <1>7, <1>8 DEF IInv

LEMMA RefetchKeeps ==
  ASSUME IInv, NEW q \in Followed, Refetch(q)
  PROVE  IInv'
<1> USE NoneIsNoValue, BoundsAreNat
<1>1. q \in Queries /\ TypeOK
  BY FollowedAreLists DEF IInv
<1>2. TypeOK'
  BY <1>1 DEF TypeOK, Refetch, server, history
<1>3. UNCHANGED <<page, at, invalid, call, clock, mine, ours, outran, server>>
  BY DEF Refetch, server, history
<1>4. MineInv' /\ OursInv' /\ \A c : Awaited(c)' <=> Awaited(c)
  BY <1>1, <1>3, NothingCalled, CacheOnly
<1>5. FreshInv'
  <2> SUFFICES ASSUME NEW x \in Queries, NEW c \in 1 .. clock, mine[c] # None, Owed(mine[c], x), ~Awaited(c)
               PROVE  Shows(x, c)'
    BY <1>3, <1>4 DEF FreshInv
  <2>1. Shows(x, c)
    BY DEF IInv, FreshInv
  <2>2. CASE x = q
    BY <2>2, <1>1 DEF Shows, Refetch, TypeOK
  <2>3. CASE x # q
    BY <2>1, <2>3, <1>1, <1>3 DEF Shows, Refetch, TypeOK, Mounted
  <2> QED BY <2>2, <2>3
<1>6. SavedInv'
  BY <1>3, <1>4 DEF IInv, SavedInv
<1> QED BY <1>2, <1>4, <1>5, <1>6 DEF IInv

\* A page that is opened fetches what it has not got and what was invalidated.
LEMMA OpenKeeps ==
  ASSUME IInv, NEW p \in Visited, Open(p)
  PROVE  IInv'
<1> USE NoneIsNoValue, BoundsAreNat
<1>1. TypeOK
  BY DEF IInv
<1>2. PICK stale : fetch' = [q \in Queries |->
                     IF /\ q \in ShownOn(p) \ Mounted /\ fetch[q] = None
                        /\ (at[q] = None \/ q \in invalid \cup stale)
                     THEN Asked ELSE fetch[q]]
  BY DEF Open
<1>3. SameCalls
  <2>1. call' = [r \in Requests |-> IF call[r] = None THEN None ELSE [call[r] EXCEPT !.open = FALSE]]
    BY DEF Open
  <2>2. ASSUME NEW r \in Requests, call[r] # None
        PROVE  /\ call'[r] \in CallRow /\ call'[r] # None /\ call'[r].m = call[r].m /\ call'[r].at = call[r].at
               /\ call'[r].list = call[r].list /\ call'[r].entry = call[r].entry /\ call'[r].hasty = call[r].hasty
    <3>1. call[r] \in CallRow
      BY <1>1, <2>2 DEF TypeOK
    <3>2. call'[r] = [call[r] EXCEPT !.open = FALSE]
      BY <2>1, <2>2
    <3>3. call'[r] \in CallRow
      BY <3>1, <3>2 DEF CallRow
    <3> QED BY <3>1, <3>2, <3>3 DEF CallRow
  <2> QED BY <2>1, <2>2 DEF SameCalls
<1>4. UNCHANGED <<at, invalid, clock, lists, mine, ours, outran, server>> /\ page' = p /\ pages' = pages + 1
  BY DEF Open, server
<1>5. TypeOK'
  BY <1>1, <1>2, <1>3, <1>4 DEF TypeOK, SameCalls
<1>6. MineInv' /\ OursInv' /\ \A c : Awaited(c)' <=> Awaited(c)
  BY <1>3, <1>4, CacheOnly
<1>7. FreshInv'
  <2> SUFFICES ASSUME NEW x \in Queries, NEW c \in 1 .. clock, mine[c] # None, Owed(mine[c], x), ~Awaited(c)
               PROVE  Shows(x, c)'
    BY <1>4, <1>6 DEF FreshInv
  <2>1. Shows(x, c)
    BY DEF IInv, FreshInv
  <2>2. Mounted' = ShownOn(p)
    BY <1>4 DEF Mounted
  <2>3. CASE fetch'[x] = fetch[x]
    <3>1. fetch[x] = None /\ x \in ShownOn(p) \ Mounted => at[x] # None /\ x \notin invalid
      BY <2>3, <1>1, <1>2 DEF TypeOK
    <3> QED BY <2>1, <2>2, <2>3, <3>1, <1>4 DEF Shows
  <2>4. CASE fetch'[x] = Asked
    BY <2>4 DEF Shows
  <2> QED BY <2>3, <2>4, <1>2
<1>8. SavedInv'
  BY <1>4, <1>6 DEF IInv, SavedInv
<1> QED BY <1>5, <1>6, <1>7, <1>8 DEF IInv

-----------------------------------------------------------------------------
(* Changes.                                                                 *)

\* The number of a change is not the value for none.
LEMMA MomentIsNumber ==
  ASSUME TypeOK, NEW c \in 1 .. clock
  PROVE  c \in Nat /\ c # None
<1>1. clock \in Nat
  BY BoundsAreNat DEF TypeOK
<1> QED BY <1>1, NoneIsNoValue

\* A change is sent: the answers awaited are the same, and so is the cache.
LEMMA SendKeeps ==
  ASSUME IInv, UNCHANGED <<browser, server, history>>, call' \in [Requests -> CallRow \cup {None}],
         \A c \in 1 .. clock : Awaited(c)' <=> Awaited(c),
         \A r \in Requests : call'[r] # None /\ call'[r].at # None =>
           call[r] # None /\ call'[r].at = call[r].at /\ call'[r].m = call[r].m,
         SendsInv'
  PROVE  IInv'
<1>1. UNCHANGED <<page, at, invalid, fetch, clock, lists, mine, ours, outran, pages>>
  BY DEF browser, server, history
<1>2. TypeOK'
  BY <1>1 DEF IInv, TypeOK
<1>3. MineInv'
  BY <1>1 DEF IInv, MineInv
<1>4. FreshInv' /\ SavedInv'
  BY <1>1 DEF IInv, FreshInv, SavedInv, Shows, Mounted
<1>5. HeldInv'
  BY <1>1 DEF IInv, OursInv, HeldInv
<1> QED BY <1>2, <1>3, <1>4, <1>5 DEF IInv, OursInv

LEMMA SubmitKeeps ==
  ASSUME IInv, NEW r \in Requests, NEW m, Submit(r, m)
  PROVE  IInv'
<1> USE NoneIsNoValue, BoundsAreNat
<1>1. TypeOK /\ SendsInv
  BY DEF IInv, OursInv
<1>2. m \in Mutations
  BY <1>1, VisitedArePages DEF Submit, CanSubmit, Mutations, TypeOK
<1> DEFINE d == [m |-> m, list |-> None, entry |-> None, hasty |-> FALSE, at |-> None, open |-> TRUE]
<1>3. d \in CallRow /\ d.m = m /\ d.list = None /\ d.at = None
  BY <1>2 DEF CallRow
<1>4. /\ call[r] = None /\ m # "setAllowlist" /\ call' = [call EXCEPT ![r] = d]
      /\ UNCHANGED <<browser, server, history>> /\ UNCHANGED ours
  BY DEF Submit, history
<1> HIDE DEF d
<1>5. /\ call' \in [Requests -> CallRow \cup {None}] /\ call'[r] = d
      /\ \A t \in Requests \ {r} : call'[t] = call[t]
  BY <1>1, <1>3, <1>4 DEF TypeOK
<1>6. \A c \in 1 .. clock : Awaited(c)' <=> Awaited(c)
  <2> SUFFICES ASSUME NEW c \in 1 .. clock
               PROVE  Awaited(c)' <=> Awaited(c)
    OBVIOUS
  <2>1. c # None
    BY <1>1, MomentIsNumber
  <2>2. ASSUME NEW t \in Requests
        PROVE  call'[t] # None /\ call'[t].at = c <=> call[t] # None /\ call[t].at = c
    BY <2>1, <1>3, <1>4, <1>5
  <2> QED BY <2>2 DEF Awaited
<1>7. ASSUME NEW t \in Requests
      PROVE  Saving(t)' <=> Saving(t)
  <2>1. CASE t = r
    BY <2>1, <1>3, <1>4, <1>5 DEF Saving
  <2>2. CASE t # r
    BY <2>2, <1>5 DEF Saving
  <2> QED BY <2>1, <2>2
<1>8. SendsInv'
  <2> SUFFICES ASSUME NEW t \in Requests, call'[t] # None
               PROVE  /\ call'[t].list = None <=> call'[t].m # "setAllowlist"
                      /\ Saving(t)' /\ call'[t].at = None => SendsAll(t)' \/ call'[t].hasty
    BY DEF SendsInv
  <2>1. CASE t = r
    BY <2>1, <1>3, <1>4, <1>5 DEF Saving
  <2>2. CASE t # r
    <3>1. call'[t] = call[t] /\ ours' = ours
      BY <2>2, <1>4, <1>5
    <3>2. SendsAll(t) => SendsAll(t)'
      BY <3>1, <1>7 DEF SendsAll
    <3> QED BY <3>1, <3>2, <1>1, <1>7 DEF SendsInv
  <2> QED BY <2>1, <2>2
<1> QED BY <1>3, <1>4, <1>5, <1>6, <1>8, SendKeeps

\* A list of bans that is not out of date, with no save on its way, has every entry this browser put there.
LEMMA SaveKeeps ==
  ASSUME IInv, NEW r \in Requests, NEW e \in Entries, SaveAllowlist(r, e)
  PROVE  IInv'
<1> USE NoneIsNoValue, BoundsAreNat
<1>1. TypeOK /\ SavedInv /\ HeldInv /\ SendsInv /\ MineInv
  BY DEF IInv, OursInv
<1> DEFINE shown == lists[at["bans"]]
           beside == \E t \in Requests : Saving(t)
           save == [m |-> "setAllowlist", list |-> IF e \in shown THEN shown \ {e} ELSE shown \cup {e}, entry |-> e,
                    hasty |-> beside \/ "bans" \in invalid \/ outran["bans"] # 0, at |-> None, open |-> TRUE]
<1>2. /\ call[r] = None /\ at["bans"] # None /\ UNCHANGED <<browser, server, history>> /\ UNCHANGED ours
      /\ call' = [t \in Requests |-> IF t = r THEN save
                   ELSE IF Saving(t) THEN [call[t] EXCEPT !.hasty = TRUE] ELSE call[t]]
  BY DEF SaveAllowlist, history
<1>3. "setAllowlist" \in Mutations
  BY <1>1, VisitedArePages DEF SaveAllowlist, CanSubmit, Mutations, TypeOK
<1>4. at["bans"] \in 0 .. clock /\ shown \in SUBSET Entries
  BY <1>1, <1>2, AllowlistOwed DEF TypeOK
<1>5. /\ save \in CallRow /\ save.m = "setAllowlist" /\ save.at = None /\ save.list # None /\ save.entry = e
      /\ save.list \cup {e} = shown \cup {e}
      /\ save.hasty = (beside \/ "bans" \in invalid \/ outran["bans"] # 0)
  <2>1. (IF e \in shown THEN shown \ {e} ELSE shown \cup {e}) \in SUBSET Entries
    BY <1>4
  <2>2. (beside \/ "bans" \in invalid \/ outran["bans"] # 0) \in BOOLEAN
    OBVIOUS
  <2> HIDE DEF shown, beside
  <2>3. save \in CallRow
    BY <2>1, <2>2, <1>3 DEF CallRow
  <2>4. save.list # None
    BY <2>1
  <2> QED BY <2>3, <2>4
<1>6. beside \/ save.hasty \/ ours \subseteq shown
  <2> HIDE DEF save, shown
  <2> SUFFICES ASSUME ~beside, "bans" \notin invalid, outran["bans"] = 0
               PROVE  ours \subseteq shown
    BY <1>5
  <2> USE DEF shown
  <2>1. ASSUME NEW d \in 1 .. clock, mine[d] = "setAllowlist"
        PROVE  d <= at["bans"]
    <3>1. d # None
      BY <1>1, MomentIsNumber
    <3>2. ASSUME NEW t \in Requests, call[t] # None, call[t].at = d
          PROVE  FALSE
      <4>1. call[t].m = "setAllowlist"
        BY <3>1, <3>2, <2>1, <1>1 DEF MineInv
      <4> QED BY <4>1, <3>2 DEF Saving
    <3>3. ~Awaited(d)
      BY <3>2 DEF Awaited
    <3> QED BY <3>3, <2>1, <1>1, <1>2 DEF SavedInv
  <2> QED BY <2>1, <1>1, <1>4 DEF HeldInv
<1> HIDE DEF save, shown, beside
<1>7. ASSUME NEW t \in Requests \ {r}
      PROVE  /\ call'[t] \in CallRow \cup {None} /\ (call'[t] = None <=> call[t] = None)
             /\ call[t] # None => /\ call'[t].m = call[t].m /\ call'[t].at = call[t].at /\ call'[t].list = call[t].list
             /\ Saving(t) => call'[t].hasty
             /\ ~Saving(t) => call'[t] = call[t]
  <2>1. CASE Saving(t)
    <3>1. call[t] \in CallRow
      BY <2>1, <1>1 DEF TypeOK, Saving
    <3>2. call'[t] = [call[t] EXCEPT !.hasty = TRUE]
      BY <2>1, <1>2
    <3>3. call'[t] \in CallRow /\ call'[t].hasty
      BY <3>1, <3>2 DEF CallRow
    <3> QED BY <2>1, <3>1, <3>2, <3>3 DEF CallRow, Saving
  <2>2. CASE ~Saving(t)
    BY <2>2, <1>1, <1>2 DEF TypeOK
  <2> QED BY <2>1, <2>2
<1>8. call'[r] = save
  BY <1>2
<1>9. call' \in [Requests -> CallRow \cup {None}]
  <2>1. call' = [t \in Requests |-> call'[t]]
    BY <1>2
  <2>2. \A t \in Requests : call'[t] \in CallRow \cup {None}
    BY <1>5, <1>7, <1>8
  <2> QED BY <2>1, <2>2
<1>10. \A c \in 1 .. clock : Awaited(c)' <=> Awaited(c)
  <2> SUFFICES ASSUME NEW c \in 1 .. clock
               PROVE  Awaited(c)' <=> Awaited(c)
    OBVIOUS
  <2>1. c # None
    BY <1>1, MomentIsNumber
  <2>2. ASSUME NEW t \in Requests
        PROVE  call'[t] # None /\ call'[t].at = c <=> call[t] # None /\ call[t].at = c
    <3>1. CASE t = r
      BY <3>1, <2>1, <1>2, <1>5, <1>8
    <3>2. CASE t # r
      BY <3>2, <1>7
    <3> QED BY <3>1, <3>2
  <2> QED BY <2>2 DEF Awaited
<1>11. SendsInv'
  <2> SUFFICES ASSUME NEW t \in Requests, call'[t] # None
               PROVE  /\ call'[t].list = None <=> call'[t].m # "setAllowlist"
                      /\ Saving(t)' /\ call'[t].at = None => SendsAll(t)' \/ call'[t].hasty
    BY DEF SendsInv
  <2>1. CASE t = r
    <3>1. beside => save.hasty
      BY <1>5
    <3>2. ~beside => \A u \in Requests \ {r} : ~Saving(u)'
      BY <1>7 DEF beside, Saving
    <3>3. ours \subseteq shown => ours' \subseteq save.list \cup {save.entry}
      BY <1>2, <1>5
    <3>4. SendsAll(r)' \/ save.hasty
      BY <3>1, <3>2, <3>3, <1>6, <1>8 DEF SendsAll
    <3> QED BY <2>1, <3>4, <1>5, <1>8
  <2>2. CASE t # r
    BY <2>2, <1>1, <1>7 DEF SendsInv, Saving
  <2> QED BY <2>1, <2>2
<1>12. \A t \in Requests : call'[t] # None /\ call'[t].at # None =>
         call[t] # None /\ call'[t].at = call[t].at /\ call'[t].m = call[t].m
  BY <1>5, <1>7, <1>8
<1> QED BY <1>2, <1>9, <1>10, <1>11, <1>12, SendKeeps

\* What everybody's changes do to the log of changes.
LEMMA ChangeKeeps ==
  ASSUME TypeOK, NEW list \in SUBSET Entries, Change(list)
  PROVE  /\ clock' = clock + 1 /\ clock' \in 1 .. MaxChanges
         /\ lists' \in [0 .. MaxChanges -> SUBSET Entries] /\ lists'[clock'] = list
         /\ \A c \in 0 .. clock : lists'[c] = lists[c]
BY BoundsAreNat DEF TypeOK, Change

\* A change of this browser is one that it waits for.
LEMMA PerformKeeps ==
  ASSUME IInv, NEW r \in Requests, Perform(r)
  PROVE  IInv'
<1> USE NoneIsNoValue, BoundsAreNat
<1>1. TypeOK /\ FreshInv /\ SavedInv /\ HeldInv /\ SendsInv /\ MineInv
  BY DEF IInv, OursInv
<1>2. call[r] \in CallRow /\ call[r] # None /\ call[r].at = None
  BY <1>1 DEF Perform, TypeOK
<1> DEFINE list == IF call[r].list = None THEN lists[clock] ELSE call[r].list
<1>3. list \in SUBSET Entries
  BY <1>1, <1>2 DEF TypeOK, CallRow
<1>4. /\ Change(list)
      /\ ours' = (ours \cap list) \cup (IF call[r].list = None THEN {} ELSE list \cap {call[r].entry})
  BY DEF Perform
<1>5. /\ clock' = clock + 1 /\ clock' \in 1 .. MaxChanges
      /\ lists' \in [0 .. MaxChanges -> SUBSET Entries] /\ lists'[clock'] = list
      /\ \A c \in 0 .. clock : lists'[c] = lists[c]
  BY <1>1, <1>3, <1>4, ChangeKeeps
<1> DEFINE d == [call[r] EXCEPT !.at = clock']
<1>6. call' = [call EXCEPT ![r] = d]
  BY DEF Perform
<1>7. d \in CallRow /\ d.m = call[r].m /\ d.list = call[r].list /\ d.at = clock' /\ d.entry = call[r].entry
      /\ d # None
  BY <1>2, <1>5 DEF CallRow
<1> HIDE DEF d
<1>8. /\ call' \in [Requests -> CallRow \cup {None}] /\ call'[r] = d
      /\ \A t \in Requests \ {r} : call'[t] = call[t]
  BY <1>1, <1>6, <1>7 DEF TypeOK
<1>9. /\ mine' \in [1 .. MaxChanges -> Mutations \cup {None}] /\ mine'[clock'] = call[r].m /\ call[r].m # None
      /\ \A c \in 1 .. MaxChanges : c # clock' => mine'[c] = mine[c]
  BY <1>1, <1>2, <1>5 DEF Perform, TypeOK, CallRow
<1>10. UNCHANGED <<page, at, invalid, fetch, outran, pages>>
  BY DEF Perform, browser
<1> HIDE DEF list
<1>11. TypeOK'
  <2>1. ours' \in SUBSET Entries
    BY <1>1, <1>3, <1>4 DEF TypeOK
  <2>2. /\ at' \in [Queries -> (0 .. clock') \cup {None}] /\ fetch' \in [Queries -> (0 .. clock') \cup {None, Asked}]
        /\ outran' \in [Queries -> 0 .. clock']
    BY <1>1, <1>5, <1>10 DEF TypeOK
  <2> QED BY <1>1, <2>1, <2>2, <1>5, <1>8, <1>9, <1>10 DEF TypeOK
<1>12. MineInv'
  <2>1. \A c \in 1 .. MaxChanges : mine'[c] # None => c <= clock'
    BY <1>1, <1>5, <1>9 DEF MineInv, TypeOK
  <2>2. ASSUME NEW t \in Requests, call'[t] # None, call'[t].at # None
        PROVE  call'[t].at \in 1 .. clock' /\ mine'[call'[t].at] = call'[t].m
    <3>1. CASE t = r
      BY <3>1, <1>5, <1>7, <1>8, <1>9
    <3>2. CASE t # r
      <4>1. call[t].at \in 1 .. clock /\ mine[call[t].at] = call[t].m /\ call'[t] = call[t]
        BY <2>2, <3>2, <1>1, <1>8 DEF MineInv
      <4>2. call[t].at # clock' /\ call[t].at \in 1 .. MaxChanges /\ call[t].at \in 1 .. clock'
        BY <4>1, <1>1, <1>5 DEF TypeOK
      <4> QED BY <4>1, <4>2, <1>9
    <3> QED BY <3>1, <3>2
  <2> QED BY <2>1, <2>2 DEF MineInv
<1>13. \E t \in Requests : call'[t] # None /\ call'[t].at = clock'
  BY <1>7, <1>8
<1>14. ASSUME NEW c \in 1 .. clock', ~Awaited(c)'
       PROVE  c \in 1 .. clock /\ mine'[c] = mine[c] /\ ~Awaited(c)
  <2>1. c # clock'
    BY <1>13, <1>14 DEF Awaited
  <2>2. c \in 1 .. clock /\ c \in Nat /\ mine'[c] = mine[c]
    BY <2>1, <1>1, <1>5, <1>9 DEF TypeOK
  <2>3. ~Awaited(c)
    BY <2>2, <1>2, <1>8, <1>14 DEF Awaited
  <2> QED BY <2>2, <2>3
<1>15. FreshInv'
  <2> SUFFICES ASSUME NEW x \in Queries, NEW c \in 1 .. clock', mine'[c] # None, Owed(mine'[c], x), ~Awaited(c)'
               PROVE  Shows(x, c)'
    BY DEF FreshInv
  <2>1. Shows(x, c)
    BY <1>1, <1>14 DEF FreshInv
  <2> QED BY <2>1, <1>10 DEF Shows, Mounted
<1>16. SavedInv'
  BY <1>1, <1>10, <1>14 DEF SavedInv
<1>17. HeldInv'
  <2> SUFFICES ASSUME NEW c \in 0 .. clock', \A x \in 1 .. clock' : mine'[x] = "setAllowlist" => x <= c
               PROVE  ours' \subseteq lists'[c]
    BY DEF HeldInv
  <2>1. CASE c = clock'
    <3>1. call[r].list = None => ours \subseteq lists[clock]
      BY <1>1 DEF HeldInv, TypeOK
    <3> QED BY <2>1, <3>1, <1>4, <1>5 DEF list
  <2>2. CASE c # clock'
    <3>1. call[r].m # "setAllowlist" /\ c \in 0 .. clock
      BY <2>2, <1>1, <1>5, <1>9 DEF TypeOK
    <3>2. call[r].list = None
      BY <3>1, <1>1, <1>2 DEF SendsInv
    <3>3. ours' \subseteq ours /\ lists'[c] = lists[c]
      BY <3>1, <3>2, <1>4, <1>5
    <3>4. ASSUME NEW x \in 1 .. clock, mine[x] = "setAllowlist"
          PROVE  x <= c
      <4>1. x \in 1 .. clock' /\ x \in 1 .. MaxChanges /\ x # clock'
        BY <1>1, <1>5 DEF TypeOK
      <4> QED BY <4>1, <3>4, <1>9
    <3> QED BY <3>1, <3>3, <3>4, <1>1 DEF HeldInv
  <2> QED BY <2>1, <2>2
<1>18. SendsInv'
  <2> SUFFICES ASSUME NEW t \in Requests, call'[t] # None
               PROVE  /\ call'[t].list = None <=> call'[t].m # "setAllowlist"
                      /\ Saving(t)' /\ call'[t].at = None => SendsAll(t)' \/ call'[t].hasty
    BY DEF SendsInv
  <2>1. \A u \in Requests : Saving(u)' <=> Saving(u)
    BY <1>2, <1>7, <1>8 DEF Saving
  <2>2. CASE t = r
    <3>1. call'[t].at # None
      BY <2>2, <1>5, <1>7, <1>8
    <3>2. call'[t].m = call[r].m /\ call'[t].list = call[r].list
      BY <2>2, <1>7, <1>8
    <3> QED BY <3>1, <3>2, <1>1, <1>2 DEF SendsInv
  <2>3. CASE t # r
    <3> SUFFICES ASSUME Saving(t), call[t].at = None, SendsAll(t)
                 PROVE  SendsAll(t)'
      BY <2>1, <2>3, <1>1, <1>8 DEF SendsInv
    <3>1. ~Saving(r)
      BY <2>3 DEF SendsAll
    <3>2. call[r].list = None
      BY <3>1, <1>1, <1>2 DEF SendsInv, Saving
    <3>3. ours' \subseteq ours
      BY <3>2, <1>4
    <3> QED BY <2>1, <2>3, <3>3, <1>8 DEF SendsAll
  <2> QED BY <2>2, <2>3
<1> QED BY <1>11, <1>12, <1>15, <1>16, <1>17, <1>18 DEF IInv, OursInv

\* Others' changes are nobody's of this browser, and what they save keeps no more of our entries.
LEMMA ElsewhereKeeps ==
  ASSUME IInv, NEW m, Elsewhere(m)
  PROVE  IInv'
<1> USE NoneIsNoValue, BoundsAreNat
<1>1. TypeOK /\ FreshInv /\ SavedInv /\ HeldInv /\ SendsInv /\ MineInv
  BY DEF IInv, OursInv
<1>2. PICK list \in SUBSET Entries : Change(list) /\ ours' = ours \cap list
  BY <1>1 DEF Elsewhere, TypeOK
<1>3. /\ clock' = clock + 1 /\ clock' \in 1 .. MaxChanges
      /\ lists' \in [0 .. MaxChanges -> SUBSET Entries] /\ lists'[clock'] = list
      /\ \A c \in 0 .. clock : lists'[c] = lists[c]
  BY <1>1, <1>2, ChangeKeeps
<1>4. UNCHANGED <<page, at, invalid, fetch, call, mine, outran, pages>>
  BY DEF Elsewhere, browser
<1>5. TypeOK'
  <2>1. /\ at' \in [Queries -> (0 .. clock') \cup {None}] /\ fetch' \in [Queries -> (0 .. clock') \cup {None, Asked}]
        /\ outran' \in [Queries -> 0 .. clock']
    BY <1>1, <1>3, <1>4 DEF TypeOK
  <2> QED BY <1>1, <2>1, <1>2, <1>3, <1>4 DEF TypeOK
<1>6. MineInv'
  BY <1>1, <1>3, <1>4 DEF MineInv, TypeOK
<1>7. ASSUME NEW c \in 1 .. clock', mine'[c] # None
      PROVE  c \in 1 .. clock
  BY <1>1, <1>3, <1>4, <1>7 DEF MineInv, TypeOK
<1>8. \A c : Awaited(c)' <=> Awaited(c)
  BY <1>4 DEF Awaited
<1>9. FreshInv'
  <2> SUFFICES ASSUME NEW x \in Queries, NEW c \in 1 .. clock', mine'[c] # None, Owed(mine'[c], x), ~Awaited(c)'
               PROVE  Shows(x, c)'
    BY DEF FreshInv
  <2>1. Shows(x, c)
    BY <1>1, <1>4, <1>7, <1>8 DEF FreshInv
  <2> QED BY <2>1, <1>4 DEF Shows, Mounted
<1>10. SavedInv'
  BY <1>1, <1>4, <1>7, <1>8, AllowlistOwed DEF SavedInv
<1>11. HeldInv'
  <2> SUFFICES ASSUME NEW c \in 0 .. clock', \A d \in 1 .. clock' : mine'[d] = "setAllowlist" => d <= c
               PROVE  ours' \subseteq lists'[c]
    BY DEF HeldInv
  <2>1. CASE c = clock'
    BY <2>1, <1>2, <1>3
  <2>2. CASE c # clock'
    <3>1. c \in 0 .. clock /\ \A d \in 1 .. clock : mine[d] = "setAllowlist" => d <= c
      BY <2>2, <1>1, <1>3, <1>4 DEF TypeOK
    <3> QED BY <3>1, <1>1, <1>2, <1>3 DEF HeldInv
  <2> QED BY <2>1, <2>2
<1>12. SendsInv'
  BY <1>1, <1>2, <1>4 DEF SendsInv, SendsAll, Saving
<1> QED BY <1>5, <1>6, <1>9, <1>10, <1>11, <1>12 DEF IInv, OursInv

\* After the answer, every list that the change is owed to is fetched, is the answer, waits for its page, or
\* was outrun.
LEMMA SettledKeeps ==
  ASSUME IInv, NEW r \in Requests, Settled(r)
  PROVE  IInv'
<1> USE NoneIsNoValue, BoundsAreNat
<1>1. TypeOK /\ FreshInv /\ SavedInv /\ HeldInv /\ SendsInv /\ MineInv
  BY DEF IInv, OursInv
<1>2. call[r] \in CallRow /\ call[r] # None /\ call[r].at \in 1 .. clock /\ mine[call[r].at] = call[r].m
  BY <1>1 DEF Settled, TypeOK, MineInv
<1> DEFINE n == call[r].at
           Q == OnSuccess(call[r].m)
           S == Set(call[r].m)
           again == {q \in (Q \ S) \cap Mounted : q \in Loaded \/ fetch[q] = None}
           older == {q \in (Q \cup S) \ again : fetch[q] \notin {None, Asked} /\ fetch[q] < n}
           overwritten == {q \in S : fetch[q] = None /\ Newer(q, n)}
<1>3. /\ fetch' = [q \in Queries |-> IF q \in again THEN Asked ELSE fetch[q]]
      /\ at' = [q \in Queries |-> IF q \in S THEN n ELSE at[q]]
      /\ invalid' = (invalid \cup Q) \ S
      /\ outran' = [q \in Queries |-> IF q \in older \cup overwritten THEN n ELSE outran[q]]
      /\ call' = [call EXCEPT ![r] = None]
      /\ UNCHANGED <<page, clock, lists, mine, ours, pages>>
  BY DEF Settled, Invalidate, Set, server
<1>4. again \subseteq (Q \ S) \cap Mounted /\ Mounted' = Mounted
  BY <1>3 DEF Mounted
<1>5. \A q \in Mounted \cap Q : q \in S \/ q \in again \/ (at[q] = None /\ fetch[q] # None)
  BY <1>1, MountedLists DEF Loaded, TypeOK
<1>6. Q \subseteq Queries /\ S \subseteq Queries /\ "bans" \notin S /\ call[r].m \in Mutations
  BY <1>2, InvalidatesLists, KnownSet DEF CallRow
<1>7. /\ n \in 1 .. clock /\ n \in Nat /\ n # 0 /\ mine[n] = call[r].m /\ mine[n] # None
  BY <1>1, <1>2 DEF TypeOK, CallRow
<1>8. \A x \in Queries : Owed(call[r].m, x) => x \in Q \cup S
  BY <1>6, Covered
<1>9. \A x \in (Q \cup S) \ again : fetch[x] \in Nat => fetch[x] >= n \/ x \in older
  BY <1>7, <1>6, <1>1 DEF TypeOK
<1>10. \A x \in S : fetch[x] = None => x \in overwritten \/ ~Newer(x, n)
  OBVIOUS
<1>11. older \cup overwritten \subseteq Q \cup S /\ \A x \in older : fetch[x] \in Nat /\ ~(fetch[x] >= n)
  BY <1>1, <1>6, <1>7 DEF TypeOK
<1>12. \A x \in overwritten : fetch[x] = None
  OBVIOUS
<1> HIDE DEF n, again, older, overwritten, Q, S
<1>13. /\ call' \in [Requests -> CallRow \cup {None}] /\ call'[r] = None
       /\ \A t \in Requests \ {r} : call'[t] = call[t]
  BY <1>1, <1>3 DEF TypeOK
<1>14. TypeOK'
  <2>1. at' \in [Queries -> (0 .. clock) \cup {None}] /\ fetch' \in [Queries -> (0 .. clock) \cup {None, Asked}]
    BY <1>1, <1>3, <1>7 DEF TypeOK
  <2>2. outran' \in [Queries -> 0 .. clock] /\ invalid' \subseteq Queries
    BY <1>1, <1>3, <1>6, <1>7 DEF TypeOK
  <2> QED BY <2>1, <2>2, <1>1, <1>3, <1>13 DEF TypeOK
<1>15. MineInv'
  BY <1>1, <1>3, <1>13 DEF MineInv
<1>16. \A c \in 1 .. clock : ~Awaited(c)' => c = n \/ ~Awaited(c)
  BY <1>13 DEF Awaited, n
<1>17. FreshInv'
  <2> SUFFICES ASSUME NEW x \in Queries, NEW c \in 1 .. clock, mine[c] # None, Owed(mine[c], x), ~Awaited(c)'
               PROVE  Shows(x, c)'
    BY <1>3 DEF FreshInv
  <2>1. c = n \/ Shows(x, c)
    BY <1>1, <1>16 DEF FreshInv
  <2>2. c = n => x \in Q \cup S
    BY <1>7, <1>8
  <2>3. outran'[x] = (IF x \in older \cup overwritten THEN n ELSE outran[x]) /\ c \in Nat /\ outran[x] \in Nat
    BY <1>1, <1>3 DEF TypeOK
  <2>4. CASE x \in again
    BY <2>4, <1>3 DEF Shows
  <2>5. CASE x \notin again
    <3>1. fetch'[x] = fetch[x]
      BY <2>5, <1>3
    <3>2. fetch[x] \in Nat /\ fetch[x] >= outran'[x] => fetch[x] >= c
      <4> SUFFICES ASSUME fetch[x] \in Nat, fetch[x] >= outran'[x]
                   PROVE  fetch[x] >= c
        OBVIOUS
      <4>1. x \notin older /\ x \notin overwritten
        BY <2>3, <1>7, <1>11, <1>12
      <4>2. CASE c = n
        BY <4>1, <4>2, <2>2, <2>5, <1>9
      <4>3. CASE c # n
        BY <4>1, <4>3, <2>1, <2>3 DEF Shows
      <4> QED BY <4>2, <4>3
    <3>3. ASSUME fetch[x] = None, outran'[x] = 0
          PROVE  \/ at'[x] # None /\ at'[x] >= c
                 \/ x \notin Mounted /\ (at'[x] = None \/ x \in invalid')
      <4>1. x \notin overwritten /\ outran[x] = 0
        BY <3>3, <2>3, <1>7
      <4>2. CASE x \in S
        <5>1. at'[x] = n /\ ~Newer(x, n)
          BY <4>1, <4>2, <3>3, <1>3, <1>10
        <5>2. c <= n
          <6> SUFFICES ASSUME c > n PROVE FALSE
            BY <1>7, <2>3
          <6>1. ~Awaited(c)
            BY <1>7, <1>16, <2>3
          <6> QED BY <5>1, <6>1 DEF Newer, Owed
        <5> QED BY <5>1, <5>2, <1>7, <2>3
      <4>3. CASE x \notin S /\ x \in Q
        <5>1. at'[x] = at[x] /\ x \in invalid' /\ x \notin Mounted
          BY <4>3, <3>3, <2>5, <1>3, <1>5
        <5> QED BY <5>1
      <4>4. CASE x \notin Q \cup S
        <5>1. at'[x] = at[x] /\ (x \in invalid' <=> x \in invalid)
          BY <4>4, <1>3
        <5> QED BY <5>1, <4>1, <4>4, <3>3, <2>1, <2>2 DEF Shows
      <4> QED BY <4>2, <4>3, <4>4
    <3> QED BY <3>1, <3>2, <3>3, <1>4 DEF Shows
  <2> QED BY <2>4, <2>5
<1>18. SavedInv'
  <2> SUFFICES ASSUME at'["bans"] # None, "bans" \notin invalid', outran'["bans"] = 0,
                      NEW c \in 1 .. clock, mine[c] = "setAllowlist", ~Awaited(c)'
               PROVE  at'["bans"] >= c
    BY <1>3 DEF SavedInv
  <2>1. at'["bans"] = at["bans"] /\ "bans" \notin Q /\ "bans" \notin invalid
    BY <1>3, <1>6, AllowlistOwed
  <2>2. outran["bans"] = 0
    BY <1>3, <1>7, AllowlistOwed
  <2>3. c # n
    BY <2>1, <1>6, <1>7, <1>8, AllowlistOwed
  <2> QED BY <2>1, <2>2, <2>3, <1>1, <1>16 DEF SavedInv
<1>19. HeldInv'
  BY <1>1, <1>3 DEF HeldInv
<1>20. SendsInv'
  <2>1. \A t \in Requests : Saving(t)' => Saving(t)
    BY <1>13 DEF Saving
  <2> QED BY <2>1, <1>1, <1>3, <1>13 DEF SendsInv, SendsAll
<1> QED BY <1>14, <1>15, <1>17, <1>18, <1>19, <1>20 DEF IInv, OursInv

LEMMA StutterKeeps ==
  ASSUME IInv, UNCHANGED vars
  PROVE  IInv'
<1> USE DEF vars, browser, server, history
<1>1. TypeOK'
  BY DEF IInv, TypeOK
<1>2. MineInv' /\ OursInv' /\ \A c : Awaited(c)' <=> Awaited(c)
  BY NothingCalled, CacheOnly DEF IInv
<1>3. FreshInv' /\ SavedInv'
  BY <1>2 DEF IInv, FreshInv, SavedInv, Shows, Mounted
<1> QED BY <1>1, <1>2, <1>3 DEF IInv

LEMMA NextKeeps == IInv /\ [Next]_vars => IInv'
<1> SUFFICES ASSUME IInv, [Next]_vars PROVE IInv'
  OBVIOUS
<1>1. CASE \E q \in Followed : Answer(q) \/ Receive(q) \/ Refetch(q)
  BY <1>1, AnswerKeeps, ReceiveKeeps, RefetchKeeps
<1>2. CASE \E p \in Visited : Open(p)
  BY <1>2, OpenKeeps
<1>3. CASE \E m \in Actions : Elsewhere(m) \/ \E r \in Requests : Submit(r, m)
  BY <1>3, SubmitKeeps, ElsewhereKeeps
<1>4. CASE \E r \in Requests, e \in Entries : "setAllowlist" \in Actions /\ SaveAllowlist(r, e)
  BY <1>4, SaveKeeps
<1>5. CASE \E r \in Requests : Perform(r) \/ Settled(r)
  BY <1>5, PerformKeeps, SettledKeeps
<1>6. CASE UNCHANGED vars
  BY <1>6, StutterKeeps
<1> QED BY <1>1, <1>2, <1>3, <1>4, <1>5, <1>6 DEF Next

-----------------------------------------------------------------------------
(* The theorems.                                                            *)

\* In every state, each list shows this browser's answered changes, is going to, or is known to have been
\* outrun; and the allowlist has had its entries since they were saved.
THEOREM Inductive == Spec => []IInv
<1> QED BY InitInv, NextKeeps, PTL DEF Spec

\* A list at rest on the open page shows every answered change of this browser, however many overlap and
\* on whichever page they were made: each mutation of lib/queries.ts invalidates the lists it alters, but
\* those overlooked, and an older answer that lands last is the one exception.
THEOREM ChangesShow == Spec => []OwnChangesShow
<1>1. IInv => OwnChangesShow
  <2> SUFFICES ASSUME IInv, NEW q \in Mounted, NEW c \in 1 .. clock,
                      fetch[q] = None, outran[q] = 0, mine[c] # None, ~Awaited(c), Owed(mine[c], q)
               PROVE  at[q] >= c
    BY DEF OwnChangesShow, Owed
  <2>1. q \in Queries
    BY MountedLists
  <2>2. Shows(q, c)
    BY <2>1 DEF IInv, FreshInv
  <2> QED BY <2>2 DEF Shows
<1> QED BY <1>1, Inductive, PTL

\* A save of the allowlist (AllowlistCard sends all of it) drops an entry of this browser's only when the
\* list it was made from was out of date, or when it was made beside another save.
THEOREM EntriesStay == Spec => OwnEntriesStay
<1>1. IInv /\ [Next]_vars =>
        [\A r \in Requests : Saving(r) /\ Saving(r)' /\ call[r].at = None /\ call[r]'.at # None
           => ours \subseteq call[r].list \cup {call[r].entry} \/ call[r].hasty]_vars
  BY DEF IInv, OursInv, SendsInv, SendsAll, Saving
<1> QED BY <1>1, Inductive, PTL DEF Spec, OwnEntriesStay

-----------------------------------------------------------------------------
(* The mail page: the mailbox and the stream.                               *)

\* Every message there is has a UID that its folder has given out.
StoreInv ==
  /\ place \in [Messages -> (Folders \X Uids) \cup {Nil}]
  /\ next \in [Folders -> 1..MaxUid + 1]
  /\ \A m \in Messages : place[m] # Nil => place[m][2] < next[place[m][1]]
  /\ \A m, n \in Messages : place[m] # Nil /\ place[m] = place[n] => m = n

SseType ==
  sse \in [st : {"off", "opened", "ready"}, nextUid : 1..MaxUid + 1, scans : {0, 1},
           snapshot : [Folders -> Nat \X Nat \X Nat]]

ThereIn(u) == \E m \in Messages : place[m] = <<Inbox, u>>

\* What was announced is behind the stream's next UID; what is due and was not is ahead of it,
\* and a scan is queued.
ToldInv ==
  /\ told \in [Uids -> Nat] /\ due \subseteq Uids
  /\ sse.nextUid <= next[Inbox]
  /\ sse.scans > 0 => sse.st # "off"
  /\ sse.st # "ready" => due = {}
  /\ \A u \in Uids : told[u] <= 1
  /\ \A u \in Uids : told[u] > 0 => u < next[Inbox] /\ (sse.st # "off" => u < sse.nextUid)
  /\ \A u \in due : u < next[Inbox]
  /\ ~torn => \A u \in due : told[u] = 1 \/ ~ThereIn(u) \/ (sse.scans > 0 /\ sse.nextUid <= u)

StreamInv == StoreInv /\ SseType /\ ToldInv

USE KnownFolders, Conversations, Bounds, NilOutside DEF Uids

\* Numbers are well ordered: the relation the library speaks of exists, whatever it is.
LEMMA LessIsWellFounded ==
  \E R : IsWellFoundedOn(R, Nat) /\ \A x, y \in Nat : y < x => <<y, x>> \in R
<1> DEFINE R == OpToRel(<, Nat)
<1>1. \A x, y \in Nat : y < x => <<y, x>> \in R
  BY Zenon DEF OpToRel
<1>2. IsWellFoundedOn(R, Nat)
  BY NatLessThanWellFounded
<1>3. IsWellFoundedOn(R, Nat) /\ \A x, y \in Nat : y < x => <<y, x>> \in R
  BY <1>1, <1>2
<1> HIDE DEF R
<1> QED BY ONLY <1>3

\* A non-empty set of bounded numbers has a greatest one, which Max finds.
LEMMA Greatest ==
  ASSUME NEW n \in Nat, NEW T, T \subseteq 0..n, T # {}
  PROVE  Max(T) \in T /\ \A y \in T : y <= Max(T)
<1> DEFINE S == {n - y : y \in T}
<1>1. PICK R : IsWellFoundedOn(R, Nat) /\ \A x, y \in Nat : y < x => <<y, x>> \in R
  BY LessIsWellFounded
<1>2. S \subseteq Nat /\ S # {}
  <2>1. \A y \in T : y \in Nat /\ n - y \in Nat
    OBVIOUS
  <2> QED BY <2>1
<1>3. PICK s \in S : \A y \in S : ~ (<<y, s>> \in R)
  BY <1>1, <1>2, WFMin
<1>4. PICK x \in T : s = n - x
  OBVIOUS
<1>5. \A y \in T : x >= y
  <2> SUFFICES ASSUME NEW y \in T, ~(x >= y)
               PROVE  FALSE
    OBVIOUS
  <2>1. n - y \in S /\ n - y < n - x /\ n - y \in Nat /\ n - x \in Nat
    OBVIOUS
  <2> QED BY <1>1, <1>3, <1>4, <2>1
<1>6. \E z \in T : \A y \in T : z >= y
  BY <1>5
<1>7. Max(T) \in T /\ \A y \in T : Max(T) >= y
  BY <1>6 DEF Max
<1> QED BY <1>7

\* The rank of a message among those that are moved is below their number.
LEMMA RankBelow ==
  ASSUME NEW ms, ms \subseteq Messages, \A k \in ms : UidOf(k) \in Nat, NEW m \in ms
  PROVE  LET rank(k) == Cardinality({n \in ms : UidOf(n) < UidOf(k)})
         IN  rank(m) \in Nat /\ rank(m) < Cardinality(ms) /\ Cardinality(ms) \in Nat
<1> DEFINE S == {n \in ms : UidOf(n) < UidOf(m)}
<1>1. IsFiniteSet(ms) /\ Cardinality(ms) \in Nat
  BY FinitelyMany, FS_Subset, FS_CardinalityType
<1>2. CASE m \notin S
  <2>1. IsFiniteSet(ms \ {m}) /\ Cardinality(ms \ {m}) = Cardinality(ms) - 1
    BY <1>1, FS_RemoveElement
  <2>2. S \subseteq ms \ {m}
    BY <1>2
  <2>3. IsFiniteSet(S) /\ Cardinality(S) <= Cardinality(ms \ {m})
    BY <2>1, <2>2, FS_Subset
  <2> QED BY <1>1, <2>1, <2>3, FS_CardinalityType
<1>3. m \notin S
  OBVIOUS
<1> QED BY <1>2, <1>3

\* A message with a greater UID has a greater rank.
LEMMA RanksApart ==
  ASSUME NEW ms, ms \subseteq Messages, \A k \in ms : UidOf(k) \in Nat, NEW a \in ms, NEW b \in ms, UidOf(a) < UidOf(b)
  PROVE  LET rank(k) == Cardinality({n \in ms : UidOf(n) < UidOf(k)})
         IN  rank(a) \in Nat /\ rank(b) \in Nat /\ rank(a) < rank(b)
<1> DEFINE A == {n \in ms : UidOf(n) < UidOf(a)}
           B == {n \in ms : UidOf(n) < UidOf(b)}
<1>1. IsFiniteSet(A) /\ IsFiniteSet(B)
  BY FinitelyMany, FS_Subset
<1>2. A \subseteq B /\ a \in B /\ a \notin A
  OBVIOUS
<1>3. Cardinality(A) \in Nat /\ Cardinality(B) \in Nat /\ Cardinality(A) <= Cardinality(B)
  BY <1>1, <1>2, FS_Subset, FS_CardinalityType
<1>4. Cardinality(A) # Cardinality(B)
  BY <1>1, <1>2, FS_Subset
<1> QED BY <1>3, <1>4

\* What the poll remembers of each folder is three numbers.
LEMMA SnapshotType ==
  ASSUME StoreInv
  PROVE  FolderSnapshot \in [Folders -> Nat \X Nat \X Nat]
<1>1. \A f \in Folders : Here(f) \subseteq Messages
  BY DEF Here
<1>2. \A S : S \subseteq Messages => Cardinality(S) \in Nat
  BY FinitelyMany, FS_Subset, FS_CardinalityType
<1>3. \A f \in Folders : Cardinality(Here(f)) \in Nat /\ Cardinality(Here(f) \cap unread) \in Nat
  BY <1>1, <1>2
<1>4. \A f \in Folders : next[f] \in Nat
  BY DEF StoreInv
<1>5. \A f \in Folders : Sig(f) \in Nat \X Nat \X Nat
  BY <1>3, <1>4 DEF Sig
<1> QED BY <1>5 DEF FolderSnapshot

\* What a change of the store leaves as it was, and what arrives in INBOX.
Arrivals(arrived) ==
  /\ arrived \subseteq Uids
  /\ \A u \in arrived : next[Inbox] <= u /\ u < next'[Inbox]
  /\ next[Inbox] <= next'[Inbox]
  /\ \A u \in Uids : ThereIn(u)' => ThereIn(u) \/ u \in arrived

\* What the stream is told of a change keeps what it owes: an arrival it heard of has a scan queued.
LEMMA NotifyKeeps ==
  ASSUME StreamInv, StoreInv', NEW fs, NEW arrived, Arrivals(arrived), Notify(fs, arrived)
  PROVE  SseType' /\ ToldInv'
<1>1. /\ sse' = sse \/ sse' = [sse EXCEPT !.scans = 1]
      /\ sse.st = "ready" /\ arrived # {} => sse' = [sse EXCEPT !.scans = 1]
      /\ sse.st = "off" => sse' = sse
      /\ UNCHANGED <<told, torn>> /\ due' = due \cup (IF sse.st = "ready" THEN arrived ELSE {})
  BY DEF Notify, StreamInv, SseType
<1>2. SseType'
  BY <1>1 DEF StreamInv, SseType
<1>3. /\ sse'.nextUid = sse.nextUid /\ sse'.st = sse.st /\ sse'.scans \in {0, 1} /\ sse'.scans >= sse.scans
      /\ sse.nextUid \in Nat /\ next[Inbox] \in Nat /\ next'[Inbox] \in Nat
      /\ sse.st = "ready" /\ arrived # {} => sse'.scans = 1
      /\ sse.st = "off" => sse'.scans = sse.scans
      /\ sse.scans \in {0, 1}
  BY <1>1 DEF StreamInv, SseType, StoreInv
<1>4. /\ told' = told /\ told \in [Uids -> Nat] /\ due' \subseteq Uids
      /\ sse'.nextUid <= next'[Inbox]
      /\ sse'.scans > 0 => sse'.st # "off"
      /\ sse'.st # "ready" => due' = {}
      /\ \A u \in Uids : told'[u] <= 1
  BY <1>1, <1>3 DEF StreamInv, ToldInv, Arrivals
<1>5. \A u \in Uids : told'[u] > 0 => u < next'[Inbox] /\ (sse'.st # "off" => u < sse'.nextUid)
  BY <1>1, <1>3 DEF StreamInv, ToldInv, Arrivals
<1>6. \A u \in due' : u < next'[Inbox]
  BY <1>1, <1>3 DEF StreamInv, ToldInv, Arrivals
<1>7. ASSUME ~torn', NEW u \in due', told'[u] # 1, ThereIn(u)'
      PROVE  sse'.scans > 0 /\ sse'.nextUid <= u
  <2>1. CASE u \in arrived /\ sse.st = "ready"
    BY <1>1, <1>3, <2>1 DEF StreamInv, ToldInv, Arrivals
  <2>2. CASE u \in due
    <3>1. u \in Uids /\ u < next[Inbox] /\ u \notin arrived
      BY <1>3, <2>2 DEF StreamInv, ToldInv, Arrivals
    <3>2. ThereIn(u)
      BY <1>7, <3>1 DEF Arrivals
    <3> QED BY <1>1, <1>3, <1>7, <2>2, <3>2 DEF StreamInv, ToldInv
  <2> QED BY <1>1, <1>7, <2>1, <2>2
<1> QED BY <1>2, <1>4, <1>5, <1>6, <1>7 DEF ToldInv

\* Messages that stay where they are, or go away.
LEMMA NoArrival ==
  ASSUME StreamInv, next' = next, \A m \in Messages : place'[m] = place[m] \/ place'[m] = Nil
  PROVE  Arrivals({})
<1>1. next[Inbox] \in Nat
  BY DEF StreamInv, StoreInv
<1>2. \A u \in Uids : Nil # <<Inbox, u>>
  OBVIOUS
<1>3. \A u \in Uids : ThereIn(u)' => ThereIn(u)
  BY <1>2 DEF ThereIn
<1> QED BY <1>1, <1>3 DEF Arrivals

\* Flags are changed.
LEMMA FlagsKeep ==
  ASSUME StreamInv, UNCHANGED <<place, next>>, UNCHANGED stream \/ \E fs : Notify(fs, {})
  PROVE  StreamInv'
<1>1. StoreInv'
  BY DEF StreamInv, StoreInv
<1>2. Arrivals({})
  BY NoArrival
<1>3. CASE UNCHANGED stream
  BY <1>1, <1>3 DEF stream, StreamInv, SseType, ToldInv, ThereIn
<1>4. CASE \E fs : Notify(fs, {})
  BY <1>1, <1>2, <1>4, NotifyKeeps DEF StreamInv
<1> QED BY <1>3, <1>4

\* Messages are deleted for good.
LEMMA PurgeKeeps ==
  ASSUME StreamInv, NEW i \in Calls, ApplyPurge(i)
  PROVE  StreamInv'
<1>1. /\ next' = next /\ place' = [m \in Messages |-> IF m \in Hit(i) THEN Nil ELSE place[m]]
      /\ \E fs : Notify(fs, {})
  BY DEF ApplyPurge
<1>2. StoreInv'
  BY <1>1 DEF StreamInv, StoreInv
<1>3. Arrivals({})
  BY <1>1, NoArrival
<1> QED BY <1>1, <1>2, <1>3, NotifyKeeps DEF StreamInv

\* Messages are moved: each gets a UID of its own that was not given out before.
LEMMA MoveKeeps ==
  ASSUME StreamInv, NEW h, NEW ms, ms \subseteq Here(h), NEW g \in Folders, Moved(ms, g)
  PROVE  /\ StreamInv' /\ \A f \in Folders : next[f] <= next'[f]
         /\ \A m \in ms : place'[m] \in Folders \X Uids /\ place'[m][1] = g /\ next[g] <= place'[m][2]
         /\ \A m \in Messages \ ms : place'[m] = place[m]
<1> DEFINE rank(m) == Cardinality({n \in ms : UidOf(n) < UidOf(m)})
           to == [m \in ms |-> next[g] + rank(m)]
           N == Cardinality(ms)
           arrived == IF g = Inbox THEN {to[m] : m \in ms} ELSE {}
<1>0. ms \subseteq Messages /\ \A m \in ms : place[m] # Nil /\ place[m] = <<h, UidOf(m)>> /\ UidOf(m) \in Nat
  BY DEF Here, UidOf, StreamInv, StoreInv
<1>1. /\ next[g] + N <= MaxUid + 1
      /\ place' = [m \in Messages |-> IF m \in ms THEN <<g, to[m]>> ELSE place[m]]
      /\ next' = [next EXCEPT ![g] = @ + N]
      /\ \E fs : Notify(fs, arrived)
  BY DEF Moved
<1>2. /\ N \in Nat /\ next[g] \in 1..MaxUid + 1 /\ next[Inbox] \in 1..MaxUid + 1
      /\ \A m \in ms : rank(m) \in Nat /\ rank(m) < N
  <2>1. IsFiniteSet(ms) /\ N \in Nat
    BY <1>0, FinitelyMany, FS_Subset, FS_CardinalityType
  <2>3. \A m \in ms : rank(m) \in Nat /\ rank(m) < N
    BY <1>0, RankBelow
  <2> QED BY <2>1, <2>3 DEF StreamInv, StoreInv
<1>3. \A m \in ms : to[m] \in Uids /\ next[g] <= to[m] /\ to[m] < next[g] + N
  <2> HIDE DEF rank, N
  <2> QED BY <1>1, <1>2
<1>10. \A a, b \in ms : UidOf(a) < UidOf(b) => rank(a) \in Nat /\ rank(b) \in Nat /\ rank(a) < rank(b)
  <2>1. \A a \in ms : UidOf(a) \in Nat
    BY <1>0
  <2> QED BY <1>0, <2>1, RanksApart
<1>11. \A m, n \in ms : to[m] = to[n] => m = n
  <2> SUFFICES ASSUME NEW m \in ms, NEW n \in ms, UidOf(m) # UidOf(n)
               PROVE  to[m] # to[n]
    BY <1>0 DEF StreamInv, StoreInv
  <2> HIDE DEF rank
  <2>1. rank(m) # rank(n)
    <3>1. CASE UidOf(m) < UidOf(n)
      BY <1>10, <3>1
    <3>2. CASE UidOf(n) < UidOf(m)
      BY <1>10, <3>2
    <3> QED BY <1>0, <3>1, <3>2
  <2> QED BY <1>2, <2>1
<1> HIDE DEF rank, N, to
<1>4. /\ next' \in [Folders -> 1..MaxUid + 1] /\ next'[g] = next[g] + N
      /\ \A f \in Folders : f # g => next'[f] = next[f]
  BY <1>1, <1>2 DEF StreamInv, StoreInv
<1>5. /\ \A m \in ms : place'[m] = <<g, to[m]>>
      /\ \A m \in Messages \ ms : place'[m] = place[m]
  BY <1>0, <1>1
<1>6. StoreInv'
  <2>1. place' \in [Messages -> (Folders \X Uids) \cup {Nil}]
    BY <1>1, <1>3 DEF StreamInv, StoreInv
  <2>2. ASSUME NEW m \in Messages, place'[m] # Nil
        PROVE  place'[m][2] < next'[place'[m][1]]
    <3>1. CASE m \in ms
      BY <1>3, <1>4, <1>5, <3>1
    <3>2. CASE m \notin ms
      <4>1. place'[m] = place[m] /\ place[m] \in Folders \X Uids /\ place[m][2] < next[place[m][1]]
        BY <1>5, <2>2, <3>2 DEF StreamInv, StoreInv
      <4>2. place[m][1] \in Folders /\ place[m][2] \in Nat
        BY <4>1
      <4>3. next[place[m][1]] <= next'[place[m][1]] /\ next[place[m][1]] \in Nat /\ next'[place[m][1]] \in Nat
        BY <1>2, <1>4, <4>2 DEF StreamInv, StoreInv
      <4> QED BY <4>1, <4>2, <4>3
    <3> QED BY <3>1, <3>2
  <2>3. ASSUME NEW m \in Messages, NEW n \in Messages, place'[m] # Nil, place'[m] = place'[n]
        PROVE  m = n
    <3>1. \A a \in ms, b \in Messages \ ms : place'[a] # place'[b]
      <4> SUFFICES ASSUME NEW a \in ms, NEW b \in Messages \ ms, place[b] = <<g, to[a]>>
                   PROVE  FALSE
        BY <1>5
      <4>1. place[b] # Nil
        BY <1>3
      <4>2. to[a] < next[g]
        BY <4>1 DEF StreamInv, StoreInv
      <4> QED BY <1>2, <1>3, <4>2
    <3>2. CASE m \in ms /\ n \in ms
      BY <1>5, <1>11, <2>3, <3>2
    <3>3. CASE m \notin ms /\ n \notin ms
      BY <1>5, <2>3, <3>3 DEF StreamInv, StoreInv
    <3> QED BY <2>3, <3>1, <3>2, <3>3
  <2> QED BY <1>4, <2>1, <2>2, <2>3 DEF StoreInv
<1>7. Arrivals(arrived)
  <2>1. \A u \in arrived : u \in Uids /\ next[Inbox] <= u /\ u < next'[Inbox]
    BY <1>3, <1>4
  <2>2. next[Inbox] <= next'[Inbox]
    BY <1>2, <1>4
  <2>3. \A u \in Uids : ThereIn(u)' => ThereIn(u) \/ u \in arrived
    <3> SUFFICES ASSUME NEW u \in Uids, NEW m \in Messages, place'[m] = <<Inbox, u>>, ~ThereIn(u)
                 PROVE  u \in arrived
      BY DEF ThereIn
    <3>1. m \in ms
      BY <1>5 DEF ThereIn
    <3>2. g = Inbox /\ to[m] = u
      BY <1>5, <3>1
    <3> QED BY <3>1, <3>2
  <2> QED BY <2>1, <2>2, <2>3 DEF Arrivals
<1>8. \A f \in Folders : next[f] <= next'[f]
  BY <1>2, <1>4 DEF StreamInv, StoreInv
<1>9. ASSUME NEW m \in ms
      PROVE  place'[m] \in Folders \X Uids /\ place'[m][1] = g /\ next[g] <= place'[m][2]
  <2>1. place'[m] = <<g, to[m]>> /\ to[m] \in Uids /\ next[g] <= to[m]
    BY <1>3, <1>5
  <2> QED BY <2>1
<1> QED BY <1>1, <1>5, <1>6, <1>7, <1>8, <1>9, NotifyKeeps DEF StreamInv

\* The stream is opened, takes its snapshots or breaks.
LEMMA ConnectKeeps ==
  ASSUME StreamInv, Connect \/ Snap \/ Poll \/ Break
  PROVE  StreamInv'
<1>1. /\ place' = place /\ next' = next /\ told' = told
      /\ sse' \in {[Off EXCEPT !.st = "opened", !.nextUid = next[Inbox]],
                   [sse EXCEPT !.st = "ready", !.snapshot = FolderSnapshot], Off}
  BY DEF Connect, Snap, Poll, Break, store, StreamInv, SseType
<1>2. StoreInv' /\ next[Inbox] \in 1..MaxUid + 1
  BY <1>1 DEF StreamInv, StoreInv
<1>3. FolderSnapshot \in [Folders -> Nat \X Nat \X Nat]
  BY SnapshotType DEF StreamInv
<1>4. SseType'
  <2>1. [f \in Folders |-> <<0, 0, 0>>] \in [Folders -> Nat \X Nat \X Nat]
    OBVIOUS
  <2>2. sse' = [Off EXCEPT !.st = "opened", !.nextUid = next[Inbox]] => SseType'
    BY <1>2, <2>1 DEF SseType, Off
  <2>3. sse' = [sse EXCEPT !.st = "ready", !.snapshot = FolderSnapshot] => SseType'
    BY <1>3 DEF StreamInv, SseType
  <2>4. sse' = Off => SseType'
    <3>1. 1 \in 1..MaxUid + 1
      OBVIOUS
    <3> QED BY <2>1, <3>1 DEF SseType, Off
  <2> QED BY <1>1, <2>2, <2>3, <2>4
<1>5. ToldInv'
  <2>1. CASE Connect
    BY <1>2, <2>1 DEF Connect, StreamInv, ToldInv, SseType, Off, store, ThereIn
  <2>2. CASE Snap
    BY <1>2, <2>2 DEF Snap, StreamInv, ToldInv, SseType, store, ThereIn
  <2>3. CASE Poll
    BY <1>2, <2>3 DEF Poll, StreamInv, ToldInv, SseType, store, ThereIn
  <2>4. CASE Break
    BY <1>2, <2>4 DEF Break, StreamInv, ToldInv, SseType, Off, store, ThereIn
  <2> QED BY <2>1, <2>2, <2>3, <2>4
<1> QED BY <1>2, <1>4, <1>5 DEF StreamInv

\* What INBOX holds, by UID.
LEMMA InboxUids ==
  ASSUME StreamInv
  PROVE  /\ \A u \in FoundUids : u \in Uids /\ u < next[Inbox]
         /\ \A u \in Uids : ThereIn(u) /\ sse.nextUid <= u => u \in FoundUids
<1>1. \A m \in Here(Inbox) : UidOf(m) \in Uids /\ UidOf(m) < next[Inbox]
  BY DEF Here, UidOf, StreamInv, StoreInv
<1>2. \A m \in Messages, u \in Uids : place[m] = <<Inbox, u>> => m \in Here(Inbox) /\ UidOf(m) = u
  BY DEF Here, UidOf
<1>3. sse.nextUid \in Nat
  BY DEF StreamInv, SseType
<1> QED BY <1>1, <1>2, <1>3 DEF FoundUids, ThereIn

\* A scan announces what is not behind the next UID, and moves it past that.
LEMMA ScanKeeps ==
  ASSUME StreamInv, Scan
  PROVE  StreamInv'
<1> DEFINE new == FoundUids \ NotNew(FoundUids)
           top == Max(new \cup {sse.nextUid - 1})
<1>1. /\ place' = place /\ next' = next /\ due' = due /\ torn' = torn /\ sse.scans > 0
      /\ told' = [u \in Uids |-> told[u] + IF u \in new THEN 1 ELSE 0]
      /\ sse' = [sse EXCEPT !.scans = 0, !.nextUid = top + 1]
  BY DEF Scan, store
<1>2. sse.nextUid \in 1..MaxUid + 1 /\ next[Inbox] \in 1..MaxUid + 1 /\ MaxUid \in Nat /\ sse.nextUid <= next[Inbox]
  BY DEF StreamInv, SseType, StoreInv, ToldInv
<1>3. /\ \A u \in new : u \in Uids /\ u < next[Inbox] /\ sse.nextUid <= u
      /\ \A u \in Uids : ThereIn(u) /\ sse.nextUid <= u => u \in new
  BY <1>2, InboxUids DEF NotNew
<1> HIDE DEF new
<1>4. /\ top \in 0..MaxUid /\ sse.nextUid <= top + 1 /\ top + 1 <= next[Inbox]
      /\ \A u \in new : u < top + 1
  <2>1. new \cup {sse.nextUid - 1} \subseteq 0..MaxUid
    BY <1>2, <1>3
  <2>2. top \in new \cup {sse.nextUid - 1} /\ \A y \in new \cup {sse.nextUid - 1} : y <= top
    BY <1>2, <2>1, Greatest
  <2> HIDE DEF top
  <2> QED BY <1>2, <1>3, <2>1, <2>2
<1> HIDE DEF top
<1>5. /\ sse'.nextUid = top + 1 /\ sse'.scans = 0 /\ sse'.st = sse.st /\ SseType' /\ sse.st # "off"
  <2>1. top + 1 \in 1..MaxUid + 1
    BY <1>2, <1>4
  <2> QED BY <1>1, <2>1 DEF StreamInv, SseType, ToldInv
<1>6. StoreInv'
  BY <1>1 DEF StreamInv, StoreInv
<1>7. \A u \in Uids : told[u] \in Nat /\ told[u] <= 1 /\ (u \in new => told[u] = 0)
  <2>1. \A u \in Uids : told[u] \in Nat /\ told[u] <= 1 /\ (told[u] > 0 => u < sse.nextUid)
    BY <1>5 DEF StreamInv, ToldInv
  <2> QED BY <1>2, <1>3, <2>1
<1>8. /\ told' \in [Uids -> Nat]
      /\ \A u \in Uids : /\ told'[u] <= 1
                         /\ told'[u] > 0 => told[u] > 0 \/ u \in new
                         /\ u \in new => told'[u] = 1
                         /\ u \notin new => told'[u] = told[u]
  BY <1>1, <1>7
<1>9. \A u \in Uids : told'[u] > 0 => u < next[Inbox] /\ u < top + 1
  BY <1>2, <1>3, <1>4, <1>5, <1>8 DEF StreamInv, ToldInv
<1>10. ASSUME ~torn, NEW u \in due, ThereIn(u)
       PROVE  told'[u] = 1
  BY <1>3, <1>8, <1>10 DEF StreamInv, ToldInv
<1>11. ToldInv'
  BY <1>1, <1>2, <1>4, <1>5, <1>8, <1>9, <1>10 DEF StreamInv, ToldInv, ThereIn
<1> QED BY <1>5, <1>6, <1>11 DEF StreamInv

\* A scan that fails moves the next UID no further than what there is.
LEMMA ScanFailsKeeps ==
  ASSUME StreamInv, ScanFails
  PROVE  StreamInv'
<1>1. PICK last \in {sse.nextUid - 1} \cup FoundUids :
        sse' = [sse EXCEPT !.scans = 0, !.nextUid = IF last < @ THEN @ ELSE last + 1]
  BY DEF ScanFails
<1>2. sse.nextUid \in 1..MaxUid + 1 /\ next[Inbox] \in 1..MaxUid + 1 /\ MaxUid \in Nat /\ sse.nextUid <= next[Inbox]
  BY DEF StreamInv, SseType, StoreInv, ToldInv
<1>3. last \in 0..MaxUid /\ last < next[Inbox]
  BY <1>1, <1>2, InboxUids
<1>4. /\ SseType' /\ sse'.scans = 0 /\ sse'.st = sse.st
      /\ sse.nextUid <= sse'.nextUid /\ sse'.nextUid <= next[Inbox] /\ sse'.nextUid \in Nat
  <2> DEFINE n == IF last < sse.nextUid THEN sse.nextUid ELSE last + 1
  <2>1. n \in 1..MaxUid + 1 /\ sse.nextUid <= n /\ n <= next[Inbox] /\ n \in Nat
    BY <1>2, <1>3
  <2>2. sse' = [sse EXCEPT !.scans = 0, !.nextUid = n]
    BY <1>1
  <2> HIDE DEF n
  <2>3. SseType' /\ sse'.scans = 0 /\ sse'.st = sse.st /\ sse'.nextUid = n
    BY <2>1, <2>2 DEF StreamInv, SseType
  <2> QED BY <2>1, <2>3
<1>5. place' = place /\ next' = next /\ told' = told /\ due' = due /\ torn'
  BY DEF ScanFails, store
<1>6. StoreInv' /\ ToldInv'
  BY <1>2, <1>4, <1>5 DEF StreamInv, StoreInv, ToldInv
<1> QED BY <1>4, <1>6 DEF StreamInv

\* A message comes to INBOX.
LEMMA DeliverKeeps ==
  ASSUME StreamInv, NEW m \in Messages, Deliver(m)
  PROVE  StreamInv'
<1>1. /\ next[Inbox] <= MaxUid /\ next[Inbox] \in Uids /\ MaxUid \in Nat
      /\ place' = [place EXCEPT ![m] = <<Inbox, next[Inbox]>>]
      /\ next' = [next EXCEPT ![Inbox] = @ + 1]
      /\ Notify({}, {next[Inbox]})
  BY DEF Deliver, StreamInv, StoreInv
<1>2. next' \in [Folders -> 1..MaxUid + 1] /\ next'[Inbox] = next[Inbox] + 1 /\ \A f \in Folders : f # Inbox => next'[f] = next[f]
  BY <1>1 DEF StreamInv, StoreInv
<1>3. /\ place' \in [Messages -> (Folders \X Uids) \cup {Nil}]
      /\ place'[m] = <<Inbox, next[Inbox]>> /\ \A n \in Messages \ {m} : place'[n] = place[n]
  BY <1>1 DEF StreamInv, StoreInv
<1>4. \A n \in Messages : place'[n] # Nil => place'[n][2] < next'[place'[n][1]]
  <2> SUFFICES ASSUME NEW n \in Messages, place'[n] # Nil PROVE place'[n][2] < next'[place'[n][1]]
    OBVIOUS
  <2>1. CASE n = m
    BY <1>1, <1>2, <1>3, <2>1
  <2>2. CASE n # m
    <3>1. place'[n] = place[n] /\ place[n][1] \in Folders /\ place[n][2] \in Nat /\ place[n][2] < next[place[n][1]]
      BY <1>3, <2>2 DEF StreamInv, StoreInv
    <3>2. next[place[n][1]] \in Nat /\ next'[place[n][1]] \in Nat /\ next[place[n][1]] <= next'[place[n][1]]
      BY <1>1, <1>2, <3>1 DEF StreamInv, StoreInv
    <3> QED BY <3>1, <3>2
  <2> QED BY <2>1, <2>2
<1>11. ASSUME NEW a \in Messages, NEW b \in Messages, place'[a] # Nil, place'[a] = place'[b]
      PROVE  a = b
  <2>1. \A c \in Messages : place[c] # <<Inbox, next[Inbox]>>
    <3> SUFFICES ASSUME NEW c \in Messages, place[c] = <<Inbox, next[Inbox]>>
                 PROVE  FALSE
      OBVIOUS
    <3>1. place[c] # Nil
      BY <1>1
    <3> QED BY <1>1, <3>1 DEF StreamInv, StoreInv
  <2> QED BY <1>3, <1>11, <2>1 DEF StreamInv, StoreInv
<1>5. StoreInv'
  BY <1>2, <1>3, <1>4, <1>11 DEF StoreInv
<1>6. Arrivals({next[Inbox]})
  BY <1>1, <1>2, <1>3 DEF Arrivals, ThereIn
<1> QED BY <1>1, <1>5, <1>6, NotifyKeeps DEF StreamInv

-----------------------------------------------------------------------------
(* The tab: its cache, its page and its requests.                          *)

Rows == [conv : Convs, uids : SUBSET Uids, unread : BOOLEAN]
CachedQueries == [data : (SUBSET Rows) \cup {Nil}, stale : BOOLEAN, fly : {"no", "asked", "answered"}, answer : SUBSET Rows,
                  outran : BOOLEAN, error : BOOLEAN]
Kinds == {"seen", "unseen", "trash", "move", "purge"}
ChangeRows == [st : {"idle", "sent", "applied"}, kind : Kinds \cup {"none"}, folder : Folders \cup {Nil}, uids : SUBSET Uids,
             dest : Folders \cup {Nil}, moved : SUBSET (Folders \X Uids), view : {"none", "effect", "page", "thread", "gone"}]
Dialogs == [st : {"closed", "list", "thread"}, uids : SUBSET Uids, convs : SUBSET Convs, closes : BOOLEAN]
Screens == [folder : Folders, open : Convs \cup {Nil}, seenUids : SUBSET Uids, ask : Dialogs]
Moves == [from : Folders, to : Folders, uids : SUBSET Uids]

\* A row of a conversation is one message.
Single(row) == \E u \in Uids : row.uids = {u}
Singles(q) == (q.data # Nil => \A row \in q.data : Single(row)) /\ \A row \in q.answer : Single(row)
CacheOK(c) == c \in [Keys -> CachedQueries] /\ \A k \in Keys : k[2] # Nil => Singles(c[k])

\* The lists d show no message that the lists c do not.
NoNews(c, d) ==
  \A k \in Keys : d[k].data # Nil => c[k].data # Nil /\ \A row \in d[k].data : \E old \in c[k].data : row.uids \subseteq old.uids

Request(new) ==
  /\ new \in ChangeRows
  /\ new.st = "idle" => new = NoCall
  /\ new.st # "idle" => new.folder \in Folders /\ (new.kind = "move" => new.dest \in Folders)
  /\ new.moved # {} => new.kind \in {"move", "trash"} /\ new.st # "idle"

TabInv ==
  /\ CacheOK(cache) /\ screen \in Screens /\ undo \subseteq Moves
  /\ change \in [Calls -> ChangeRows] /\ \A i \in Calls : Request(change[i])
  /\ kept \subseteq screen.seenUids /\ (screen.open = Nil => kept = {})
  /\ screen.open # Nil /\ cache[Thread].data # Nil => \A row \in cache[Thread].data : row.uids \subseteq screen.seenUids

\* A query with the same rows is as good.
LEMMA SameRows ==
  ASSUME NEW q \in CachedQueries, NEW d \in CachedQueries, d.data = q.data, d.answer = q.answer \/ d.answer = {}, Singles(q)
  PROVE  Singles(d)
BY DEF Singles

\* Asking again leaves the rows.
LEMMA AskedType ==
  ASSUME NEW q \in CachedQueries
  PROVE  Ask(q) \in CachedQueries /\ Ask(q).data = q.data /\ Ask(q).answer = {}
BY DEF Ask, CachedQueries

\* So does cancelling.
LEMMA CancelledType ==
  ASSUME NEW q \in CachedQueries
  PROVE  Cancelled(q) \in CachedQueries /\ Cancelled(q).data = q.data /\ Cancelled(q).answer = {}
BY DEF Cancelled, CachedQueries

\* Invalidating a query leaves its rows.
LEMMA InvalidatedType ==
  ASSUME NEW q \in CachedQueries, NEW active \in BOOLEAN
  PROVE  LET d == Invalidated(q, active) IN d \in CachedQueries /\ d.data = q.data /\ (d.answer = q.answer \/ d.answer = {})
<1>1. [q EXCEPT !.stale = TRUE] \in CachedQueries /\ [q EXCEPT !.stale = TRUE].data = q.data
  BY DEF CachedQueries
<1>2. LET d == [q EXCEPT !.stale = q.data # Nil, !.outran = q.fly = "answered"] IN
      d \in CachedQueries /\ d.data = q.data /\ d.answer = q.answer
  BY DEF CachedQueries
<1> QED BY <1>1, <1>2, AskedType DEF Invalidated

\* A change of the cache that brings no rows keeps what the tab holds.
LEMMA SameDataKeeps ==
  ASSUME NEW c, CacheOK(c), NEW d, DOMAIN d = Keys, d = [k \in Keys |-> d[k]],
         \A k \in Keys : d[k] \in CachedQueries /\ d[k].data = c[k].data /\ (d[k].answer = c[k].answer \/ d[k].answer = {})
  PROVE  CacheOK(d) /\ NoNews(c, d)
<1>1. d \in [Keys -> CachedQueries]
  OBVIOUS
<1>2. \A k \in Keys : k[2] # Nil => Singles(d[k])
  BY SameRows DEF CacheOK
<1> QED BY <1>1, <1>2 DEF CacheOK, NoNews

\* Invalidating many queries leaves their rows.
LEMMA InvalidateKeeps ==
  ASSUME NEW c, CacheOK(c), NEW ks, NEW p
  PROVE  CacheOK(InvalidateMail(c, ks, p)) /\ NoNews(c, InvalidateMail(c, ks, p))
<1> DEFINE d == InvalidateMail(c, ks, p)
<1>1. \A k \in Keys : d[k] = c[k] \/ d[k] = Invalidated(c[k], TRUE) \/ d[k] = Invalidated(c[k], FALSE)
  BY DEF InvalidateMail, Invalidated
<1>2. \A k \in Keys : d[k] \in CachedQueries /\ d[k].data = c[k].data /\ (d[k].answer = c[k].answer \/ d[k].answer = {})
  <2> SUFFICES ASSUME NEW k \in Keys
               PROVE  d[k] \in CachedQueries /\ d[k].data = c[k].data /\ (d[k].answer = c[k].answer \/ d[k].answer = {})
    OBVIOUS
  <2>1. c[k] \in CachedQueries
    BY DEF CacheOK
  <2> HIDE DEF d
  <2> QED BY <1>1, <2>1, InvalidatedType
<1>3. DOMAIN d = Keys /\ d = [k \in Keys |-> d[k]]
  BY DEF InvalidateMail
<1> HIDE DEF d
<1>4. CacheOK(d) /\ NoNews(c, d)
  BY <1>2, <1>3, SameDataKeeps
<1> QED BY <1>4 DEF d

\* A query that comes on screen keeps its rows.
LEMMA MountKeeps ==
  ASSUME NEW c, CacheOK(c), NEW ks, ks \subseteq Keys, NEW d \in Mount(c, ks)
  PROVE  CacheOK(d) /\ NoNews(c, d)
<1>1. \A k \in Keys : c[k] \in CachedQueries
  BY DEF CacheOK
<1>2. DOMAIN d = Keys /\ d = [k \in Keys |-> d[k]]
  BY DEF Mount
<1>3. \A k \in Keys : d[k] = c[k] \/ d[k] = Ask(c[k])
  BY DEF Mount
<1>4. \A k \in Keys : d[k] \in CachedQueries /\ d[k].data = c[k].data /\ (d[k].answer = c[k].answer \/ d[k].answer = {})
  BY <1>1, <1>3, AskedType
<1> QED BY <1>2, <1>4, SameDataKeeps

\* A row after a change has no other messages than before.
LEMMA PatchedRow ==
  ASSUME NEW row \in Rows, NEW kind, NEW uids
  PROVE  PatchRow(row, kind, uids) \in Rows /\ PatchRow(row, kind, uids).uids \subseteq row.uids
BY DEF PatchRow, Changed, Rows

\* Nor has a list or a conversation.
LEMMA PatchedType ==
  ASSUME NEW q \in CachedQueries, NEW kind, NEW uids
  PROVE  LET d == Patched(q, kind, uids) IN
         /\ d \in CachedQueries /\ d.answer = q.answer
         /\ d.data # Nil => q.data # Nil /\ \A row \in d.data : \E old \in q.data : row.uids \subseteq old.uids
         /\ Singles(q) => Singles(d)
<1> DEFINE rows == {r \in {PatchRow(row, kind, uids) : row \in q.data} : r.uids # {}}
           d == Patched(q, kind, uids)
<1>1. CASE q.data = Nil
  BY <1>1 DEF Patched
<1>2. CASE q.data # Nil
  <2>1. q.data \in SUBSET Rows
    BY <1>2 DEF CachedQueries
  <2>2. rows \in SUBSET Rows /\ \A r \in rows : r.uids # {} /\ \E old \in q.data : r.uids \subseteq old.uids
    BY <2>1, PatchedRow
  <2>3. d = [q EXCEPT !.data = rows]
    BY <1>2 DEF Patched
  <2> HIDE DEF rows, d
  <2>4. d \in CachedQueries /\ d.answer = q.answer /\ d.data = rows
    BY <2>2, <2>3 DEF CachedQueries
  <2>5. Singles(q) => \A r \in rows : Single(r)
    BY <1>2, <2>2 DEF Singles, Single
  <2>6. Singles(q) => Singles(d)
    BY <2>4, <2>5 DEF Singles
  <2> QED BY <1>2, <2>2, <2>4, <2>6 DEF d
<1> QED BY <1>1, <1>2

\* Nor has the cache.
LEMMA PatchKeeps ==
  ASSUME NEW c, CacheOK(c), NEW f, NEW kind, NEW uids
  PROVE  CacheOK(PatchMailCache(c, f, kind, uids)) /\ NoNews(c, PatchMailCache(c, f, kind, uids))
<1> DEFINE d == PatchMailCache(c, f, kind, uids)
<1>1. \A k \in Keys : Cancelled(c[k]) \in CachedQueries /\ Cancelled(c[k]).data = c[k].data /\ (k[2] # Nil => Singles(Cancelled(c[k])))
  BY CancelledType, SameRows DEF CacheOK
<1>2. \A k \in Keys : d[k] = Cancelled(c[k]) \/ d[k] = Patched(Cancelled(c[k]), kind, uids)
  BY DEF PatchMailCache
<1>3. d = [k \in Keys |-> d[k]]
  BY DEF PatchMailCache
<1> HIDE DEF d
<1>4. \A k \in Keys : /\ d[k] \in CachedQueries
                      /\ d[k].data # Nil => c[k].data # Nil /\ \A row \in d[k].data : \E old \in c[k].data : row.uids \subseteq old.uids
                      /\ k[2] # Nil => Singles(d[k])
  <2> SUFFICES ASSUME NEW k \in Keys
               PROVE  /\ d[k] \in CachedQueries
                      /\ d[k].data # Nil => c[k].data # Nil /\ \A row \in d[k].data : \E old \in c[k].data : row.uids \subseteq old.uids
                      /\ k[2] # Nil => Singles(d[k])
    OBVIOUS
  <2> DEFINE q == Cancelled(c[k])
  <2>1. q \in CachedQueries /\ q.data = c[k].data /\ (k[2] # Nil => Singles(q))
    BY <1>1
  <2>2. d[k] = q \/ d[k] = Patched(q, kind, uids)
    BY <1>2
  <2> HIDE DEF q
  <2>3. CASE d[k] = q
    BY <2>1, <2>3
  <2>4. CASE d[k] = Patched(q, kind, uids)
    BY <2>1, <2>4, PatchedType
  <2> QED BY <2>2, <2>3, <2>4
<1>5. d \in [Keys -> CachedQueries]
  BY <1>3, <1>4
<1>6. CacheOK(d) /\ NoNews(c, d)
  BY <1>4, <1>5 DEF CacheOK, NoNews
<1> QED BY <1>6 DEF d

\* A request that the open conversation makes by itself does not touch what the reader marked.
Sticks == \A i \in Calls : change[i].st = "idle" /\ change'[i].view = "effect" => change'[i].uids \cap kept = {}
CallsOK == change \in [Calls -> ChangeRows] /\ \A i \in Calls : Request(change[i])

\* What a change sends is a request.
LEMMA MutatedRequest ==
  ASSUME NEW i, NEW kind \in Kinds, NEW f \in Folders, NEW uids \in SUBSET Uids, NEW dest \in Folders \cup {Nil},
         kind = "move" => dest \in Folders, NEW view \in {"effect", "page", "thread", "gone"}
  PROVE  LET new == Mutated(i, kind, f, uids, dest, view) IN Request(new) /\ new.st = "sent" /\ new.view = view /\ new.uids = uids
<1> DEFINE new == Mutated(i, kind, f, uids, dest, view)
<1>1. new = [st |-> "sent", kind |-> kind, folder |-> f, uids |-> uids, dest |-> dest, moved |-> {}, view |-> view]
  <2>1. NoCall \in ChangeRows
    BY DEF ChangeRows, NoCall
  <2>2. /\ new \in ChangeRows /\ new.st = "sent" /\ new.kind = kind /\ new.folder = f /\ new.uids = uids
        /\ new.dest = dest /\ new.moved = NoCall.moved /\ new.view = view
    BY <2>1 DEF Mutated, ChangeRows
  <2>3. NoCall.moved = {}
    BY DEF NoCall
  <2> HIDE DEF new
  <2> QED BY <2>2, <2>3 DEF ChangeRows
<1> HIDE DEF new
<1>2. Request(new) /\ new.st = "sent" /\ new.view = view /\ new.uids = uids
  BY <1>1 DEF Request, ChangeRows
<1> QED BY <1>2 DEF new

\* A request that is not in use.
LEMMA NothingAsked ==
  Request(NoCall) /\ NoCall.view = "none"
BY DEF Request, ChangeRows, NoCall

\* The user makes a change: the cache shows it, the request is sent.
LEMMA MutateKeeps ==
  ASSUME CallsOK, NEW i \in Calls, NEW new, Request(new), new.st = "sent", NEW c, CacheOK(c), Mutate(i, new, c)
  PROVE  /\ CacheOK(cache') /\ NoNews(c, cache') /\ CallsOK'
         /\ new.view # "effect" \/ new.uids \cap kept = {} => Sticks
<1>1. CacheOK(cache') /\ NoNews(c, cache')
  BY PatchKeeps DEF Mutate
<1>2. change' = [j \in Calls |-> IF j = i THEN new
                               ELSE IF SameObserver(change[j], new) THEN [change[j] EXCEPT !.view = "gone"] ELSE change[j]]
  BY DEF Mutate
<1>3. \A j \in Calls : (change'[j] = new /\ j = i) \/ change'[j] = change[j] \/ (change[j].st # "idle" /\ change'[j] = [change[j] EXCEPT !.view = "gone"])
  <2>1. \A j \in Calls : change[j].st = "idle" => change[j].kind = "none"
    BY DEF CallsOK, Request, NoCall
  <2>2. \A j \in Calls : change[j].kind = "none" => ~SameObserver(change[j], new)
    BY DEF SameObserver
  <2> SUFFICES ASSUME NEW j \in Calls
               PROVE  (change'[j] = new /\ j = i) \/ change'[j] = change[j] \/ (change[j].st # "idle" /\ change'[j] = [change[j] EXCEPT !.view = "gone"])
    OBVIOUS
  <2>3. CASE j = i
    BY <1>2, <2>3
  <2>4. CASE j # i /\ SameObserver(change[j], new)
    BY <1>2, <2>1, <2>2, <2>4
  <2>5. CASE j # i /\ ~SameObserver(change[j], new)
    BY <1>2, <2>5
  <2> QED BY <2>3, <2>4, <2>5
<1>4. \A j \in Calls : Request(change'[j])
  <2>1. \A j \in Calls : change[j].st # "idle" => Request([change[j] EXCEPT !.view = "gone"])
    BY DEF CallsOK, Request, ChangeRows
  <2> QED BY <1>3, <2>1 DEF CallsOK
<1>5. CallsOK'
  BY <1>2, <1>4 DEF CallsOK, Request
<1>6. ASSUME new.view # "effect" \/ new.uids \cap kept = {}
      PROVE  Sticks
  <2>1. \A j \in Calls : change[j].st = "idle" => change[j].view = "none"
    BY NothingAsked DEF CallsOK, Request
  <2> QED BY <1>3, <1>6, <2>1 DEF Sticks
<1> QED BY <1>1, <1>5, <1>6

\* The page stays where it is, or leaves the conversation.
LEMMA PageKeeps ==
  ASSUME TabInv, CacheOK(cache'), NoNews(cache, cache'), CallsOK', undo' \subseteq Moves, screen' \in Screens,
         \/ /\ screen'.folder = screen.folder /\ screen'.open = screen.open /\ screen'.seenUids = screen.seenUids
            /\ kept' \subseteq screen.seenUids /\ (screen.open = Nil => kept' = {})
         \/ screen'.open = Nil /\ kept' = {}
  PROVE  TabInv'
<1>1. screen'.open # Nil /\ cache'[Thread'].data # Nil => \A row \in cache'[Thread'].data : row.uids \subseteq screen'.seenUids
  <2> SUFFICES ASSUME screen'.open # Nil, cache'[Thread'].data # Nil, NEW row \in cache'[Thread'].data
               PROVE  row.uids \subseteq screen'.seenUids
    OBVIOUS
  <2>1. Thread' = Thread /\ screen.open # Nil /\ screen'.seenUids = screen.seenUids
    BY DEF Thread
  <2>2. Thread \in Keys
    BY DEF TabInv, Screens, Keys, Thread
  <2>3. PICK old \in cache[Thread].data : row.uids \subseteq old.uids
    BY <2>1, <2>2 DEF NoNews
  <2>4. old.uids \subseteq screen.seenUids
    BY <2>1, <2>2 DEF TabInv, NoNews
  <2> QED BY <2>1, <2>3, <2>4
<1>2. kept' \subseteq screen'.seenUids /\ (screen'.open = Nil => kept' = {})
  BY DEF TabInv
<1> QED BY <1>1, <1>2 DEF TabInv, CallsOK

\* The page is drawn: what is seen for the first time, and only that, is marked as read.
LEMMA RenderedKeeps ==
  ASSUME CallsOK, NEW c, CacheOK(c), NEW p \in Screens, kept \subseteq p.seenUids, p.open = Nil => kept = {}, Rendered(c, p),
         undo' \subseteq Moves, kept' = kept
  PROVE  TabInv' /\ Sticks
<1> DEFINE k == <<p.folder, p.open>>
           fresh == IF p.open = Nil \/ c[k].data = Nil THEN {} ELSE Fresh(c[k].data, p.seenUids)
           saw == UNION {r.uids : r \in fresh}
<1>1. /\ screen' = [p EXCEPT !.seenUids = @ \cup saw]
      /\ \/ cache' = c /\ change' = change
         \/ \E i \in Calls : Mutate(i, Mutated(i, "seen", p.folder, UnreadUids(fresh), Nil, "effect"), c)
  BY DEF Rendered
<1>2. k \in Keys
  BY DEF Keys, Screens
<1>3. \A row \in fresh : row \in Rows /\ row.uids \cap p.seenUids = {} /\ row.uids \subseteq Uids
  <2>1. c[k].data # Nil => c[k].data \subseteq Rows
    BY <1>2 DEF CacheOK, CachedQueries
  <2> QED BY <2>1 DEF Fresh, Rows
<1>4. saw \subseteq Uids /\ UnreadUids(fresh) \subseteq Uids /\ UnreadUids(fresh) \cap p.seenUids = {}
  BY <1>3 DEF UnreadUids
<1>5. p.open # Nil /\ c[k].data # Nil => \A row \in c[k].data : row.uids \subseteq p.seenUids \cup saw
  <2> SUFFICES ASSUME p.open # Nil, c[k].data # Nil, NEW row \in c[k].data
               PROVE  row.uids \subseteq p.seenUids \cup saw
    OBVIOUS
  <2>1. PICK u \in Uids : row.uids = {u}
    BY <1>2 DEF CacheOK, Singles, Single
  <2>2. u \in p.seenUids \/ row \in fresh
    BY <2>1 DEF Fresh
  <2> QED BY <2>1, <2>2
<1> HIDE DEF fresh, saw
<1>6. screen' \in Screens /\ screen'.folder = p.folder /\ screen'.open = p.open /\ screen'.seenUids = p.seenUids \cup saw
  BY <1>1, <1>4 DEF Screens
<1>7. CacheOK(cache') /\ NoNews(c, cache') /\ CallsOK' /\ Sticks
  <2>1. CASE cache' = c /\ change' = change
    BY <2>1, NothingAsked DEF CallsOK, Request, NoNews, Sticks
  <2>2. CASE \E i \in Calls : Mutate(i, Mutated(i, "seen", p.folder, UnreadUids(fresh), Nil, "effect"), c)
    <3>1. PICK i \in Calls : Mutate(i, Mutated(i, "seen", p.folder, UnreadUids(fresh), Nil, "effect"), c)
      BY <2>2
    <3> DEFINE new == Mutated(i, "seen", p.folder, UnreadUids(fresh), Nil, "effect")
    <3>2. p.folder \in Folders /\ "seen" \in Kinds
      BY DEF Screens, Kinds
    <3>3. Request(new) /\ new.st = "sent" /\ new.uids = UnreadUids(fresh)
      BY <1>4, <3>2, MutatedRequest
    <3>4. new.uids \cap kept = {}
      BY <1>4, <3>3
    <3> HIDE DEF new
    <3>5. Mutate(i, new, c)
      BY <3>1 DEF new
    <3> QED BY <3>3, <3>4, <3>5, MutateKeeps
  <2> QED BY <1>1, <2>1, <2>2
<1>8. screen'.open # Nil /\ cache'[Thread'].data # Nil => \A row \in cache'[Thread'].data : row.uids \subseteq screen'.seenUids
  <2> SUFFICES ASSUME screen'.open # Nil, cache'[Thread'].data # Nil, NEW row \in cache'[Thread'].data
               PROVE  row.uids \subseteq screen'.seenUids
    OBVIOUS
  <2>1. Thread' = k
    BY <1>6 DEF Thread
  <2>2. c[k].data # Nil /\ \E old \in c[k].data : row.uids \subseteq old.uids
    BY <1>2, <1>7, <2>1 DEF NoNews
  <2> QED BY <1>5, <1>6, <2>2
<1> QED BY <1>6, <1>7, <1>8 DEF TabInv, CallsOK

\* Requests that are not in use stay so, or are used for something else than the effect.
LEMMA QuietSticks ==
  ASSUME CallsOK, \A j \in Calls : change[j].st = "idle" => change'[j] = change[j] \/ change'[j].view # "effect"
  PROVE  Sticks
BY NothingAsked DEF CallsOK, Request, Sticks

\* Nothing changes on the page.
LEMMA SamePage ==
  ASSUME TabInv, CacheOK(cache'), NoNews(cache, cache'), CallsOK', undo' \subseteq Moves, screen' = screen, kept' = kept
  PROVE  TabInv'
BY PageKeeps DEF TabInv

\* One request goes on, or is over.
LEMMA OneAnswered ==
  ASSUME CallsOK, NEW i \in Calls, change[i].st # "idle", NEW new, Request(new), change' = [change EXCEPT ![i] = new]
  PROVE  CallsOK' /\ Sticks
<1>1. \A j \in Calls : j # i => change'[j] = change[j]
  BY DEF CallsOK
<1>2. change'[i] = new
  BY DEF CallsOK
<1>3. \A j \in Calls : Request(change'[j])
  BY <1>1, <1>2 DEF CallsOK
<1>4. CallsOK'
  BY <1>3 DEF CallsOK, Request
<1>5. Sticks
  BY <1>1, QuietSticks
<1> QED BY <1>4, <1>5

\* The rows of an answer.
LEMMA AnswerType ==
  ASSUME StreamInv, NEW k \in Keys
  PROVE  Reply(k) \subseteq Rows /\ (k[2] # Nil => \A row \in Reply(k) : Single(row))
<1>1. k[1] \in Folders /\ k[2] \in Convs \cup {Nil}
  BY DEF Keys
<1>2. \A m \in Here(k[1]) : m \in Messages /\ UidOf(m) \in Uids
  BY DEF Here, UidOf, StreamInv, StoreInv
<1>3. \A ms, c : ms \subseteq Here(k[1]) /\ c \in Convs => Row(c, ms) \in Rows
  <2> SUFFICES ASSUME NEW ms, NEW c, ms \subseteq Here(k[1]), c \in Convs
               PROVE  Row(c, ms) \in Rows
    OBVIOUS
  <2>1. {UidOf(m) : m \in ms} \in SUBSET Uids /\ (ms \cap unread # {}) \in BOOLEAN
    BY <1>2
  <2> QED BY <2>1 DEF Row, Rows
<1>4. CASE k[2] = Nil
  <2>1. \A m \in Here(k[1]) : Conv[m] \in Convs
    BY <1>2
  <2>2. \A row \in Reply(k) : \E m \in Here(k[1]) : row = Row(Conv[m], {n \in Here(k[1]) : Conv[n] = Conv[m]})
    BY <1>4 DEF Reply
  <2>3. \A m \in Here(k[1]) : Row(Conv[m], {n \in Here(k[1]) : Conv[n] = Conv[m]}) \in Rows
    <3> SUFFICES ASSUME NEW m \in Here(k[1])
                 PROVE  Row(Conv[m], {n \in Here(k[1]) : Conv[n] = Conv[m]}) \in Rows
      OBVIOUS
    <3>1. {n \in Here(k[1]) : Conv[n] = Conv[m]} \subseteq Here(k[1])
      OBVIOUS
    <3> QED BY <1>3, <2>1, <3>1
  <2> QED BY <1>4, <2>2, <2>3
<1>5. CASE k[2] # Nil
  <2>1. \A row \in Reply(k) : \E m \in Here(k[1]) : row = Row(k[2], {m})
    BY <1>5 DEF Reply
  <2>2. \A m \in Here(k[1]) : Row(k[2], {m}).uids = {UidOf(m)}
    BY DEF Row
  <2>3. k[2] \in Convs
    BY <1>1, <1>5
  <2>4. \A m \in Here(k[1]) : Row(k[2], {m}) \in Rows /\ Single(Row(k[2], {m}))
    <3>1. \A m \in Here(k[1]) : Row(k[2], {m}) \in Rows
      BY <1>3, <2>3
    <3> QED BY <1>2, <2>2, <3>1 DEF Single
  <2> QED BY <2>1, <2>4
<1> QED BY <1>4, <1>5

\* The server does what a request asks.
LEMMA AppliedKeeps ==
  ASSUME StreamInv, StreamInv', TabInv, NEW i \in Calls, ApplyFlags(i) \/ ApplyMove(i) \/ ApplyPurge(i),
         ApplyMove(i) => \A m \in Hit(i) : place'[m] \in Folders \X Uids
  PROVE  TabInv' /\ Sticks
<1>1. PICK moved : /\ change[i].st = "sent" /\ Applied(i, moved) /\ moved \subseteq Folders \X Uids
                   /\ moved # {} => change[i].kind \in {"move", "trash"}
  BY DEF ApplyFlags, ApplyMove, ApplyPurge
<1>2. UNCHANGED <<cache, screen, undo, kept>>
  BY DEF ApplyFlags, ApplyMove, ApplyPurge
<1> DEFINE new == [change[i] EXCEPT !.st = "applied", !.moved = moved]
<1>3. change[i] \in ChangeRows /\ Request(change[i])
  BY DEF TabInv
<1>4. Request(new)
  BY <1>1, <1>3 DEF Request, ChangeRows
<1>5. change' = [change EXCEPT ![i] = new]
  BY <1>1 DEF Applied, TabInv
<1> HIDE DEF new
<1>6. CallsOK' /\ Sticks
  BY <1>1, <1>4, <1>5, OneAnswered DEF TabInv, CallsOK
<1> QED BY <1>2, <1>6 DEF TabInv, CallsOK, Thread

\* A request is answered, or fails.
LEMMA OnSettledKeeps ==
  ASSUME TabInv, NEW i \in Calls, Settle(i) \/ CallFails(i)
  PROVE  TabInv' /\ Sticks
<1>1. /\ change[i].st # "idle" /\ change' = [change EXCEPT ![i] = NoCall]
      /\ cache' = InvalidateMail(cache, AllMail, screen) /\ screen' = screen /\ kept' = kept
  BY DEF Settle, CallFails, OnSettled
<1>2. CallsOK' /\ Sticks
  BY <1>1, NothingAsked, OneAnswered DEF TabInv, CallsOK
<1>3. undo' \subseteq Moves
  <2>1. CASE undo' = undo
    BY <2>1 DEF TabInv
  <2>2. CASE undo' # undo
    <3> DEFINE t == [from |-> change[i].folder, to |-> Destination(i), uids |-> {r[2] : r \in change[i].moved}]
    <3>1. undo' = undo \cup {t} /\ change[i].moved # {}
      BY <2>2 DEF Settle, CallFails
    <3>2. Request(change[i]) /\ change[i] \in ChangeRows
      BY DEF TabInv
    <3>3. change[i].folder \in Folders /\ Destination(i) \in Folders
      BY <3>1, <3>2 DEF Request, Destination
    <3>4. {r[2] : r \in change[i].moved} \subseteq Uids
      BY <3>2 DEF ChangeRows
    <3> QED BY <3>1, <3>3, <3>4 DEF TabInv, Moves
  <2> QED BY <2>1, <2>2
<1>4. CacheOK(cache') /\ NoNews(cache, cache')
  BY <1>1, InvalidateKeeps DEF TabInv
<1> QED BY <1>1, <1>2, <1>3, <1>4, SamePage

\* ThreadView goes.
LEMMA LeftKeeps ==
  ASSUME TabInv, change' = Left
  PROVE  CallsOK' /\ Sticks
<1>1. \A j \in Calls : change'[j] = change[j] \/ (change[j].st # "idle" /\ change'[j] = [change[j] EXCEPT !.view = "gone"])
  BY NothingAsked DEF Left, TabInv, Request
<1>2. \A j \in Calls : change[j].st # "idle" => Request([change[j] EXCEPT !.view = "gone"])
  BY DEF TabInv, Request, ChangeRows
<1>3. \A j \in Calls : Request(change'[j])
  BY <1>1, <1>2 DEF TabInv
<1>4. CallsOK'
  BY <1>3 DEF CallsOK, Left, Request
<1>5. Sticks
  BY <1>1, QuietSticks DEF TabInv, CallsOK
<1> QED BY <1>4, <1>5

\* The page without the open conversation.
LEMMA ClosedPageType ==
  ASSUME screen \in Screens
  PROVE  ClosedPage \in Screens /\ ClosedPage.open = Nil /\ ClosedPage.folder = screen.folder /\ ClosedPage.ask = screen.ask
BY DEF ClosedPage, Screens

\* Another folder is shown.
LEMMA GoKeeps ==
  ASSUME TabInv, NEW f \in Folders, GoFolder(f)
  PROVE  TabInv' /\ Sticks
<1>1. screen' = [ClosedPage EXCEPT !.folder = f] /\ cache' \in Mount(cache, {<<f, Nil>>}) /\ change' = Left /\ kept' = {} /\ undo' = undo
  BY DEF GoFolder
<1>2. screen' \in Screens /\ screen'.open = Nil
  BY <1>1, ClosedPageType DEF TabInv, Screens
<1>3. {<<f, Nil>>} \subseteq Keys
  BY DEF Keys
<1>4. CacheOK(cache') /\ NoNews(cache, cache')
  BY <1>1, <1>3, MountKeeps DEF TabInv
<1>5. CallsOK' /\ Sticks
  BY <1>1, LeftKeeps
<1>6. undo' \subseteq Moves
  BY <1>1 DEF TabInv
<1> QED BY <1>1, <1>2, <1>4, <1>5, <1>6, PageKeeps

\* A conversation is opened.
LEMMA OpenThreadKeeps ==
  ASSUME TabInv, NEW c \in Convs, OpenThread(c)
  PROVE  TabInv' /\ Sticks
<1> DEFINE p == [screen EXCEPT !.open = c, !.seenUids = {}]
<1>1. PICK d \in Mount(cache, {<<screen.folder, c>>}) : Rendered(d, p)
  BY DEF OpenThread
<1>2. kept' = kept /\ undo' = undo /\ kept = {}
  BY DEF OpenThread, TabInv
<1>3. p \in Screens /\ {<<screen.folder, c>>} \subseteq Keys
  <2>1. screen \in Screens
    BY DEF TabInv
  <2>2. screen.folder \in Folders /\ c \in Convs \cup {Nil}
    BY <2>1 DEF Screens
  <2>3. p \in Screens
    BY <2>1 DEF Screens
  <2> QED BY <2>2, <2>3 DEF Keys
<1> HIDE DEF p
<1>4. CacheOK(d)
  BY <1>1, <1>3, MountKeeps DEF TabInv
<1>5. CallsOK /\ kept \subseteq p.seenUids /\ (p.open = Nil => kept = {}) /\ undo' \subseteq Moves
  BY <1>2 DEF TabInv, CallsOK
<1> QED BY <1>1, <1>2, <1>3, <1>4, <1>5, RenderedKeeps

\* It is closed.
LEMMA CloseKeeps ==
  ASSUME TabInv, CloseThread
  PROVE  TabInv' /\ Sticks
<1>1. screen' = ClosedPage /\ change' = Left /\ kept' = {} /\ undo' = undo /\ cache' = cache
  BY DEF CloseThread
<1>2. CallsOK' /\ Sticks
  BY <1>1, LeftKeeps
<1>3. CacheOK(cache') /\ NoNews(cache, cache') /\ undo' \subseteq Moves
  BY <1>1 DEF TabInv, NoNews
<1>4. screen' \in Screens /\ screen'.open = Nil
  BY <1>1, ClosedPageType DEF TabInv
<1> QED BY <1>1, <1>2, <1>3, <1>4, PageKeeps

\* What is chosen or shown are UIDs, and what the conversation shows has been seen.
LEMMA RefsType ==
  ASSUME TabInv
  PROVE  Shown \subseteq Uids /\ Shown \subseteq screen.seenUids /\ (Shown # {} => screen.open # Nil) /\ \A cs : RefsOf(cs) \subseteq Uids
<1>1. screen \in Screens /\ List \in Keys /\ Thread \in Keys
  BY DEF TabInv, Screens, Keys, List, Thread
<1>2. \A k \in Keys : cache[k].data # Nil => cache[k].data \subseteq Rows
  BY DEF TabInv, CacheOK, CachedQueries
<1>3. Shown \subseteq Uids /\ (Shown # {} => screen.open # Nil)
  BY <1>1, <1>2 DEF Shown, Rows
<1>4. \A cs : RefsOf(cs) \subseteq Uids
  BY <1>1, <1>2 DEF RefsOf, Rows
<1>5. Shown \subseteq screen.seenUids
  BY DEF Shown, TabInv
<1> QED BY <1>3, <1>4, <1>5

\* What the user changes on the page, whether the conversation is closed by it or not.
LEMMA TabChangeKeeps ==
  ASSUME TabInv, NEW kind \in Kinds, NEW f \in Folders, NEW uids \in SUBSET Uids, NEW dest \in Folders \cup {Nil},
         kind = "move" => dest \in Folders, NEW view \in {"page", "thread", "gone"},
         \E i \in Calls : Mutate(i, Mutated(i, kind, f, uids, dest, view), cache)
  PROVE  CacheOK(cache') /\ NoNews(cache, cache') /\ CallsOK' /\ Sticks
<1>1. PICK i \in Calls : Mutate(i, Mutated(i, kind, f, uids, dest, view), cache)
  OBVIOUS
<1> DEFINE new == Mutated(i, kind, f, uids, dest, view)
<1>2. Request(new) /\ new.st = "sent" /\ new.view # "effect"
  BY MutatedRequest
<1>3. Mutate(i, new, cache)
  BY <1>1
<1> HIDE DEF new
<1> QED BY <1>2, <1>3, MutateKeeps DEF TabInv, CallsOK

\* Conversations of the list are changed.
LEMMA BulkKeeps ==
  ASSUME TabInv, NEW cs, NEW kind \in {"seen", "unseen", "trash", "move"}, NEW dest \in Folders \cup {Nil}, kind = "move" => dest \in Folders,
         Bulk(cs, kind, dest)
  PROVE  TabInv' /\ Sticks
<1>1. /\ \E i \in Calls : Mutate(i, Mutated(i, kind, screen.folder, RefsOf(cs), dest, "page"), cache)
      /\ (screen' = ClosedPage /\ kept' = {}) \/ (screen' = screen /\ kept' = kept)
      /\ undo' = undo
  BY DEF Bulk
<1>2. kind \in Kinds /\ screen.folder \in Folders /\ RefsOf(cs) \in SUBSET Uids
  BY RefsType DEF Kinds, TabInv, Screens
<1>3. CacheOK(cache') /\ NoNews(cache, cache') /\ CallsOK' /\ Sticks
  BY <1>1, <1>2, TabChangeKeeps
<1>4. ClosedPage \in Screens /\ ClosedPage.open = Nil /\ screen \in Screens /\ undo' \subseteq Moves
  BY <1>1, ClosedPageType DEF TabInv
<1>5. CASE screen' = ClosedPage /\ kept' = {}
  BY <1>3, <1>4, <1>5, PageKeeps
<1>6. CASE screen' = screen /\ kept' = kept
  BY <1>3, <1>4, <1>6, SamePage
<1> QED BY <1>1, <1>3, <1>5, <1>6

\* The open conversation is changed.
LEMMA ConversationKeeps ==
  ASSUME TabInv, NEW kind, NEW dest \in Folders \cup {Nil}, kind = "move" => dest \in Folders, Conversation(kind, dest)
  PROVE  TabInv' /\ Sticks
<1>1. /\ \E i \in Calls : Mutate(i, Mutated(i, kind, screen.folder, Shown, dest, "gone"), cache)
      /\ screen' = ClosedPage /\ kept' = {} /\ undo' = undo /\ kind \in {"unseen", "trash", "move"}
  BY DEF Conversation
<1>2. kind \in Kinds /\ screen.folder \in Folders /\ Shown \in SUBSET Uids
  BY <1>1, RefsType DEF Kinds, TabInv, Screens
<1>3. CacheOK(cache') /\ NoNews(cache, cache') /\ CallsOK' /\ Sticks
  BY <1>1, <1>2, TabChangeKeeps
<1>4. screen' \in Screens /\ screen'.open = Nil /\ undo' \subseteq Moves
  BY <1>1, ClosedPageType DEF TabInv
<1> QED BY <1>1, <1>3, <1>4, PageKeeps

\* A message is marked as unread: it has been seen, so it will not be marked again.
LEMMA MarkKeeps ==
  ASSUME TabInv, NEW u \in Uids, MarkUnread(u)
  PROVE  TabInv' /\ Sticks
<1>1. /\ \E i \in Calls : Mutate(i, Mutated(i, "unseen", screen.folder, {u}, Nil, "thread"), cache)
      /\ screen' = screen /\ kept' = kept \cup {u} /\ undo' = undo /\ u \in Shown
  BY DEF MarkUnread
<1>2. "unseen" \in Kinds /\ screen.folder \in Folders /\ {u} \in SUBSET Uids /\ "unseen" # "move"
  BY DEF Kinds, TabInv, Screens
<1>3. CacheOK(cache') /\ NoNews(cache, cache') /\ CallsOK' /\ Sticks
  BY <1>1, <1>2, TabChangeKeeps
<1>4. screen' \in Screens /\ kept' \subseteq screen.seenUids /\ screen.open # Nil /\ undo' \subseteq Moves
  BY <1>1, RefsType DEF TabInv
<1> QED BY <1>1, <1>3, <1>4, PageKeeps

\* A message is deleted.
LEMMA DeleteKeeps ==
  ASSUME TabInv, NEW u \in Uids, DeleteOne(u)
  PROVE  TabInv' /\ Sticks
<1>1. /\ \E view \in {"gone", "thread"} : \E i \in Calls : Mutate(i, Mutated(i, "trash", screen.folder, {u}, Nil, view), cache)
      /\ (screen' = ClosedPage /\ kept' = {}) \/ (screen' = screen /\ kept' = kept)
      /\ undo' = undo
  <2>1. \E i \in Calls : Mutate(i, Mutated(i, "trash", screen.folder, {u}, Nil, IF Alone THEN "gone" ELSE "thread"), cache)
    BY DEF DeleteOne
  <2>2. (IF Alone THEN "gone" ELSE "thread") \in {"gone", "thread"}
    OBVIOUS
  <2> QED BY <2>1, <2>2 DEF DeleteOne
<1>2. "trash" \in Kinds /\ screen.folder \in Folders /\ {u} \in SUBSET Uids
  BY DEF Kinds, TabInv, Screens
<1>3. CacheOK(cache') /\ NoNews(cache, cache') /\ CallsOK' /\ Sticks
  BY <1>1, <1>2, TabChangeKeeps
<1>4. ClosedPage \in Screens /\ ClosedPage.open = Nil /\ screen \in Screens /\ undo' \subseteq Moves
  BY <1>1, ClosedPageType DEF TabInv
<1>5. CASE screen' = ClosedPage /\ kept' = {}
  BY <1>3, <1>4, <1>5, PageKeeps
<1>6. CASE screen' = screen /\ kept' = kept
  BY <1>3, <1>4, <1>6, SamePage
<1> QED BY <1>1, <1>3, <1>5, <1>6

\* A move is undone.
LEMMA UndoKeeps ==
  ASSUME TabInv, NEW t \in undo, Undo(t)
  PROVE  TabInv' /\ Sticks
<1>1. /\ \E i \in Calls : Mutate(i, Mutated(i, "move", t.to, t.uids, t.from, "page"), cache)
      /\ undo' = undo \ {t} /\ screen' = screen /\ kept' = kept
  BY DEF Undo
<1>2. t.to \in Folders /\ t.from \in Folders /\ t.uids \in SUBSET Uids /\ "move" \in Kinds /\ undo' \subseteq Moves
  BY <1>1 DEF TabInv, Moves, Kinds
<1>3. CacheOK(cache') /\ NoNews(cache, cache') /\ CallsOK' /\ Sticks
  BY <1>1, <1>2, TabChangeKeeps
<1> QED BY <1>1, <1>2, <1>3, SamePage

\* The dialog is opened or cancelled.
LEMMA PurgeDialogKeeps ==
  ASSUME TabInv, AskPurge \/ CancelPurge
  PROVE  TabInv' /\ Sticks
<1>1. UNCHANGED <<cache, change, undo, kept>>
  BY DEF AskPurge, CancelPurge
<1>2. \E d \in Dialogs : screen' = [screen EXCEPT !.ask = d]
  <2>1. Closed \in Dialogs /\ Closed.closes = FALSE
    BY DEF Closed, Dialogs
  <2>2. CASE CancelPurge
    BY <2>1, <2>2 DEF CancelPurge
  <2>3. CASE AskPurge
    <3>1. CASE \E cs \in (SUBSET Convs) \ {{}} : screen' = [screen EXCEPT !.ask = [Closed EXCEPT !.st = "list", !.convs = cs]]
      BY <2>1, <3>1 DEF Dialogs
    <3>2. CASE \E uids \in {Shown} \cup {{u} : u \in Shown} :
                 screen' = [screen EXCEPT !.ask = [Closed EXCEPT !.st = "thread", !.uids = uids, !.closes = uids = Shown]]
      <4>1. PICK uids \in {Shown} \cup {{u} : u \in Shown} :
                 screen' = [screen EXCEPT !.ask = [Closed EXCEPT !.st = "thread", !.uids = uids, !.closes = uids = Shown]]
        BY <3>2
      <4>2. uids \in SUBSET Uids /\ (uids = Shown) \in BOOLEAN
        BY RefsType
      <4> QED BY <2>1, <4>1, <4>2 DEF Dialogs
    <3> QED BY <2>3, <3>1, <3>2 DEF AskPurge
  <2> QED BY <2>2, <2>3
<1>3. screen' \in Screens /\ screen'.folder = screen.folder /\ screen'.open = screen.open /\ screen'.seenUids = screen.seenUids
  BY <1>2 DEF TabInv, Screens
<1>4. CallsOK' /\ Sticks
  BY <1>1, QuietSticks DEF TabInv, CallsOK
<1>5. CacheOK(cache') /\ NoNews(cache, cache') /\ undo' \subseteq Moves /\ kept' \subseteq screen.seenUids /\ (screen.open = Nil => kept' = {})
  BY <1>1 DEF TabInv, NoNews
<1> QED BY <1>3, <1>4, <1>5, PageKeeps

\* The dialog is confirmed.
LEMMA ConfirmKeeps ==
  ASSUME TabInv, ConfirmPurge
  PROVE  TabInv' /\ Sticks
<1> DEFINE uids == IF screen.ask.st = "list" THEN RefsOf(screen.ask.convs) ELSE screen.ask.uids
           p == IF screen.ask.closes \/ screen.open \in screen.ask.convs THEN ClosedPage ELSE screen
<1>1. /\ (cache' = cache /\ change' = change) \/ \E i \in Calls : Mutate(i, Mutated(i, "purge", screen.folder, uids, Nil, "page"), cache)
      /\ screen' = [p EXCEPT !.ask = Closed] /\ kept' = (IF p.open = Nil THEN {} ELSE kept) /\ undo' = undo
  BY DEF ConfirmPurge
<1>2. screen \in Screens /\ uids \in SUBSET Uids /\ screen.folder \in Folders /\ "purge" \in Kinds
  BY RefsType DEF TabInv, Screens, Dialogs, Kinds
<1>3. CacheOK(cache') /\ NoNews(cache, cache') /\ CallsOK' /\ Sticks
  <2> HIDE DEF uids
  <2>1. CASE cache' = cache /\ change' = change
    BY <2>1, QuietSticks DEF TabInv, CallsOK, NoNews
  <2>2. CASE \E i \in Calls : Mutate(i, Mutated(i, "purge", screen.folder, uids, Nil, "page"), cache)
    BY <1>2, <2>2, TabChangeKeeps
  <2> QED BY <1>1, <2>1, <2>2
<1>4. p = ClosedPage \/ p = screen
  OBVIOUS
<1>5. Closed \in Dialogs /\ ClosedPage \in Screens /\ ClosedPage.open = Nil /\ undo' \subseteq Moves
  BY <1>1, ClosedPageType DEF TabInv, Closed, Dialogs
<1> HIDE DEF uids, p
<1>6. screen' \in Screens /\ screen'.folder = p.folder /\ screen'.open = p.open /\ screen'.seenUids = p.seenUids
  BY <1>1, <1>2, <1>4, <1>5 DEF Screens
<1>7. CASE p = ClosedPage
  BY <1>1, <1>3, <1>5, <1>6, <1>7, PageKeeps
<1>8. CASE p = screen
  <2>1. kept' \subseteq screen.seenUids /\ (screen.open = Nil => kept' = {})
    BY <1>1, <1>8 DEF TabInv
  <2> QED BY <1>3, <1>5, <1>6, <1>8, <2>1, PageKeeps
<1> QED BY <1>3, <1>4, <1>7, <1>8

\* A fetch is asked, answered or fails.
LEMMA FetchKeeps ==
  ASSUME StreamInv, TabInv, NEW k \in Keys, Read(k) \/ FetchFails(k) \/ Refresh
  PROVE  TabInv' /\ Sticks
<1>1. UNCHANGED <<screen, change, undo, kept>>
  BY DEF Read, FetchFails, Refresh
<1> DEFINE Put(l, q) == /\ cache' = [cache EXCEPT ![l] = q] /\ q \in CachedQueries /\ q.data = cache[l].data
                        /\ q.answer \in {cache[l].answer, {}, Reply(l)}
<1>2. \E l \in Keys : \E q : Put(l, q)
  <2>1. \A l \in Keys : cache[l] \in CachedQueries
    BY DEF TabInv, CacheOK
  <2>2. CASE Read(k)
    <3> DEFINE q == [cache[k] EXCEPT !.fly = "answered", !.answer = Reply(k)]
    <3>1. Reply(k) \subseteq Rows
      BY AnswerType
    <3>2. q \in CachedQueries /\ q.data = cache[k].data /\ q.answer = Reply(k)
      BY <2>1, <3>1 DEF CachedQueries
    <3>3. cache' = [cache EXCEPT ![k] = q]
      BY <2>2 DEF Read, TabInv, CacheOK
    <3> HIDE DEF q
    <3> QED BY <3>2, <3>3
  <2>3. CASE FetchFails(k)
    <3> DEFINE r == Cancelled(cache[k])
               q == [r EXCEPT !.error = TRUE]
    <3>1. r \in CachedQueries /\ r.data = cache[k].data /\ r.answer = {}
      BY <2>1, CancelledType
    <3>2. cache' = [cache EXCEPT ![k] = q]
      BY <2>3 DEF FetchFails, TabInv, CacheOK
    <3> HIDE DEF r
    <3>3. q \in CachedQueries /\ q.data = cache[k].data /\ q.answer = {}
      BY <3>1 DEF CachedQueries
    <3> HIDE DEF q
    <3> QED BY <3>2, <3>3
  <2>4. CASE Refresh
    <3>1. List \in Keys
      BY DEF TabInv, Screens, Keys, List
    <3>2. cache' = [cache EXCEPT ![List] = cache[List]] \/ cache' = [cache EXCEPT ![List] = Ask(cache[List])]
      BY <2>4, <3>1 DEF Refresh, TabInv, CacheOK
    <3>3. Ask(cache[List]) \in CachedQueries /\ Ask(cache[List]).data = cache[List].data /\ Ask(cache[List]).answer = {}
      BY <2>1, <3>1, AskedType
    <3> QED BY <2>1, <3>1, <3>2, <3>3
  <2> QED BY <2>2, <2>3, <2>4
<1>3. PICK l \in Keys : \E q : Put(l, q)
  BY <1>2
<1>. PICK q : Put(l, q)
  BY <1>3
<1>4. cache' \in [Keys -> CachedQueries] /\ cache'[l] = q /\ \A j \in Keys : j # l => cache'[j] = cache[j]
  BY DEF TabInv, CacheOK
<1>5. l[2] # Nil => Singles(q)
  BY AnswerType DEF TabInv, CacheOK, Singles
<1>6. CacheOK(cache') /\ NoNews(cache, cache')
  BY <1>4, <1>5 DEF TabInv, CacheOK, NoNews
<1>7. CallsOK' /\ Sticks /\ undo' \subseteq Moves
  BY <1>1, QuietSticks DEF TabInv, CallsOK
<1> QED BY <1>1, <1>6, <1>7, SamePage

\* An answer is put in the cache, and the page drawn.
LEMMA LandKeeps ==
  ASSUME TabInv, NEW k \in Keys, Land(k)
  PROVE  TabInv' /\ Sticks
<1> DEFINE q == [Unfetched EXCEPT !.data = cache[k].answer, !.outran = cache[k].outran]
           c == [cache EXCEPT ![k] = q]
<1>1. Rendered(c, screen) /\ undo' = undo /\ kept' = kept
  BY DEF Land
<1>2. cache[k] \in CachedQueries /\ cache \in [Keys -> CachedQueries]
  BY DEF TabInv, CacheOK
<1>3. Unfetched \in CachedQueries /\ Unfetched.answer = {}
  BY DEF Unfetched, CachedQueries
<1>4. q \in CachedQueries /\ q.data = cache[k].answer /\ q.answer = {}
  BY <1>2, <1>3 DEF CachedQueries
<1> HIDE DEF q
<1>5. c \in [Keys -> CachedQueries] /\ c[k] = q /\ \A j \in Keys : j # k => c[j] = cache[j]
  BY <1>2, <1>4
<1>6. k[2] # Nil => Singles(q)
  BY <1>4 DEF TabInv, CacheOK, Singles
<1> HIDE DEF c
<1>7. CacheOK(c)
  BY <1>5, <1>6 DEF TabInv, CacheOK
<1>8. screen \in Screens /\ kept \subseteq screen.seenUids /\ (screen.open = Nil => kept = {}) /\ undo' \subseteq Moves /\ CallsOK
  BY <1>1 DEF TabInv, CallsOK
<1> QED BY <1>1, <1>7, <1>8, RenderedKeeps

\* An event reaches the tab.
LEMMA EventKeeps ==
  ASSUME TabInv, OnEvent
  PROVE  TabInv' /\ Sticks
<1>1. /\ UNCHANGED <<screen, change, undo, kept>>
      /\ cache' = InvalidateMail(cache, AllMail, screen) \/ cache' = InvalidateMail(cache, MailOf(Head(wire).folder), screen)
  BY DEF OnEvent, OnReady
<1>2. CacheOK(cache') /\ NoNews(cache, cache')
  BY <1>1, InvalidateKeeps DEF TabInv
<1>3. CallsOK' /\ Sticks /\ undo' \subseteq Moves
  BY <1>1, QuietSticks DEF TabInv, CallsOK
<1> QED BY <1>1, <1>2, <1>3, SamePage

\* Nothing happens in the tab.
LEMMA TabUntouched ==
  ASSUME TabInv, UNCHANGED tab
  PROVE  TabInv' /\ Sticks
<1>1. UNCHANGED <<cache, screen, change, undo, kept>>
  BY DEF tab
<1>2. CallsOK' /\ Sticks
  BY <1>1, QuietSticks DEF TabInv, CallsOK
<1> QED BY <1>1, <1>2 DEF TabInv, Thread

-----------------------------------------------------------------------------
(* Every step keeps both.                                                  *)

ClientInv == StreamInv /\ TabInv /\ unread \subseteq Messages

\* Only messages have flags.
LEMMA FlagsOfMessages ==
  ASSUME unread \subseteq Messages, [MailNext]_mailVars
  PROVE  unread' \subseteq Messages
<1>1. CASE \E i \in Calls : ApplyFlags(i)
  BY <1>1 DEF ApplyFlags, Hit, Here
<1>2. CASE \E m \in Messages : OtherAppFlags(m)
  BY <1>2 DEF OtherAppFlags
<1>3. CASE Requested /\ ~\E i \in Calls : ApplyFlags(i)
  BY <1>3 DEF Requested, ApplyMove, ApplyPurge, Settle, CallFails, OnSettled, store
<1>4. CASE User
  BY <1>4 DEF User, RowButtons, SelectionButtons, FolderLinks, ConversationButtons, MessageMenu, OpenThread, Bulk, GoFolder, CloseThread,
              Conversation, MarkUnread, DeleteOne, AskPurge, ConfirmPurge, CancelPurge, Refresh, Undo, store
<1>5. CASE Fetching \/ Streaming
  BY <1>5 DEF Fetching, Read, Land, FetchFails, Streaming, Connect, Snap, Scan, ScanFails, Poll, Break, OnEvent, store
<1>6. CASE Others /\ ~\E m \in Messages : OtherAppFlags(m)
  BY <1>6 DEF Others, Deliver, OtherAppMoves
<1>7. CASE UNCHANGED mailVars
  BY <1>7 DEF mailVars, store
<1> QED BY <1>1, <1>2, <1>3, <1>4, <1>5, <1>6, <1>7 DEF MailNext

\* The page as it is at first.
LEMMA FromInit ==
  ASSUME MailInit
  PROVE  ClientInv
<1>1. PICK m \in Messages, f \in {Inbox, Trash} :
       /\ place = [n \in Messages |-> IF n = m THEN <<f, 1>> ELSE Nil]
       /\ next = [g \in Folders |-> IF g = f THEN 2 ELSE 1]
       /\ cache = [k \in Keys |-> IF k = <<f, Nil>> THEN [Unfetched EXCEPT !.data = {[conv |-> Conv[m], uids |-> {1}, unread |-> TRUE]}]
                                  ELSE Unfetched]
       /\ screen = [folder |-> f, open |-> Nil, seenUids |-> {}, ask |-> Closed]
       /\ sse = [Off EXCEPT !.st = "ready", !.nextUid = next[Inbox],
                 !.snapshot = [g \in Folders |-> IF g = f THEN <<1, 1, 2>> ELSE <<0, 0, 1>>]]
  BY DEF MailInit
<1>2. 1 \in Uids /\ f \in Folders /\ Conv[m] \in Convs /\ 1 \in 1..MaxUid + 1 /\ 2 \in 1..MaxUid + 1
  OBVIOUS
<1>3. StoreInv
  BY <1>1, <1>2 DEF StoreInv
<1>4. SseType /\ sse.scans = 0 /\ sse.st = "ready" /\ sse.nextUid = next[Inbox]
  <2>1. [g \in Folders |-> IF g = f THEN <<1, 1, 2>> ELSE <<0, 0, 1>>] \in [Folders -> Nat \X Nat \X Nat]
    OBVIOUS
  <2>2. [g \in Folders |-> <<0, 0, 0>>] \in [Folders -> Nat \X Nat \X Nat]
    OBVIOUS
  <2>3. next[Inbox] \in 1..MaxUid + 1
    BY <1>3 DEF StoreInv
  <2>4. Off \in [st : {"off", "opened", "ready"}, nextUid : 1..MaxUid + 1, scans : {0, 1}, snapshot : [Folders -> Nat \X Nat \X Nat]] /\ Off.scans = 0
    BY <1>2, <2>2 DEF Off
  <2> QED BY <1>1, <2>1, <2>3, <2>4 DEF SseType
<1>5. ToldInv
  <2>1. told = [u \in Uids |-> 0] /\ due = {} /\ torn = FALSE
    BY DEF MailInit
  <2>2. next[Inbox] \in Nat
    BY <1>3 DEF StoreInv
  <2> QED BY <1>4, <2>1, <2>2 DEF ToldInv
<1>6. CacheOK(cache)
  <2> DEFINE first == [conv |-> Conv[m], uids |-> {1}, unread |-> TRUE]
             q == [Unfetched EXCEPT !.data = {first}]
  <2>1. first \in Rows
    BY <1>2 DEF Rows
  <2>2. Unfetched \in CachedQueries /\ Unfetched.answer = {} /\ Unfetched.data = Nil
    BY DEF Unfetched, CachedQueries
  <2>3. q \in CachedQueries
    BY <2>1, <2>2 DEF CachedQueries
  <2> HIDE DEF q
  <2>4. cache = [k \in Keys |-> IF k = <<f, Nil>> THEN q ELSE Unfetched]
    BY <1>1 DEF q
  <2>5. cache \in [Keys -> CachedQueries]
    BY <2>2, <2>3, <2>4
  <2>6. \A k \in Keys : k[2] # Nil => cache[k] = Unfetched
    BY <2>4
  <2> QED BY <2>2, <2>5, <2>6 DEF CacheOK, Singles
<1>7. screen \in Screens /\ screen.open = Nil
  <2>1. Closed \in Dialogs
    BY DEF Closed, Dialogs
  <2> QED BY <1>1, <1>2, <2>1 DEF Screens
<1>8. unread = Messages /\ undo = {} /\ kept = {} /\ change = [i \in Calls |-> NoCall]
  BY DEF MailInit
<1> QED BY <1>3, <1>4, <1>5, <1>6, <1>7, <1>8, NothingAsked DEF ClientInv, StreamInv, TabInv, Request

\* Nothing happens to the mailbox and the stream.
LEMMA StreamUntouched ==
  ASSUME StreamInv, UNCHANGED <<store, stream>>
  PROVE  StreamInv'
BY DEF store, stream, StreamInv, StoreInv, SseType, ToldInv, ThereIn

\* Requests of the tab.
LEMMA RequestedKeeps ==
  ASSUME ClientInv, NEW i \in Calls, ApplyFlags(i) \/ ApplyMove(i) \/ ApplyPurge(i) \/ Settle(i) \/ CallFails(i)
  PROVE  StreamInv' /\ TabInv' /\ Sticks
<1>1. CASE ApplyFlags(i)
  <2>1. StreamInv'
    BY <1>1, FlagsKeep DEF ApplyFlags, ClientInv
  <2>2. ~ApplyMove(i)
    BY <1>1 DEF ApplyFlags, ApplyMove
  <2> QED BY <1>1, <2>1, <2>2, AppliedKeeps DEF ClientInv
<1>2. CASE ApplyMove(i)
  <2>1. Hit(i) \subseteq Here(change[i].folder)
    BY DEF Hit
  <2>2. Destination(i) \in Folders
    BY <1>2 DEF ApplyMove, ClientInv, TabInv, Request, Destination
  <2>3. StreamInv' /\ \A m \in Hit(i) : place'[m] \in Folders \X Uids
    BY <1>2, <2>1, <2>2, MoveKeeps DEF ApplyMove, ClientInv
  <2> QED BY <1>2, <2>3, AppliedKeeps DEF ClientInv
<1>3. CASE ApplyPurge(i)
  <2>1. StreamInv'
    BY <1>3, PurgeKeeps DEF ClientInv
  <2>2. ~ApplyMove(i)
    BY <1>3 DEF ApplyPurge, ApplyMove
  <2> QED BY <1>3, <2>1, <2>2, AppliedKeeps DEF ClientInv
<1>4. CASE Settle(i) \/ CallFails(i)
  <2>1. UNCHANGED <<store, stream>>
    BY <1>4 DEF Settle, CallFails, OnSettled
  <2> QED BY <1>4, <2>1, StreamUntouched, OnSettledKeeps DEF ClientInv
<1> QED BY <1>1, <1>2, <1>3, <1>4

\* The user.
LEMMA UserKeeps ==
  ASSUME ClientInv, User
  PROVE  StreamInv' /\ TabInv' /\ Sticks
<1>1. CASE RowButtons
  <2>1. PICK c \in Convs : OpenThread(c) \/ \E kind \in {"seen", "unseen", "trash"} : Bulk({c}, kind, Nil)
    BY <1>1 DEF RowButtons
  <2>2. UNCHANGED <<store, stream>>
    BY <2>1 DEF OpenThread, Bulk
  <2>3. TabInv' /\ Sticks
    BY <2>1, OpenThreadKeeps, BulkKeeps DEF ClientInv
  <2> QED BY <2>2, <2>3, StreamUntouched DEF ClientInv
<1>2. CASE SelectionButtons
  <2>1. PICK cs \in Several : \/ \E kind \in {"seen", "unseen", "trash"} : Bulk(cs, kind, Nil)
                              \/ \E f \in MoveTargets : Bulk(cs, "move", f)
    BY <1>2 DEF SelectionButtons
  <2>2. UNCHANGED <<store, stream>>
    BY <2>1 DEF Bulk
  <2>3. TabInv' /\ Sticks
    BY <2>1, BulkKeeps DEF ClientInv, MoveTargets
  <2> QED BY <2>2, <2>3, StreamUntouched DEF ClientInv
<1>3. CASE FolderLinks
  <2>1. PICK f \in Folders : GoFolder(f)
    BY <1>3 DEF FolderLinks
  <2>2. UNCHANGED <<store, stream>>
    BY <2>1 DEF GoFolder
  <2> QED BY <2>1, <2>2, StreamUntouched, GoKeeps DEF ClientInv
<1>4. CASE ConversationButtons
  <2>1. UNCHANGED <<store, stream>>
    BY <1>4 DEF ConversationButtons, CloseThread, Conversation
  <2>2. TabInv' /\ Sticks
    BY <1>4, CloseKeeps, ConversationKeeps DEF ClientInv, ConversationButtons, MoveTargets
  <2> QED BY <2>1, <2>2, StreamUntouched DEF ClientInv
<1>5. CASE MessageMenu
  <2>1. PICK u \in Uids : MarkUnread(u) \/ DeleteOne(u)
    BY <1>5 DEF MessageMenu
  <2>2. UNCHANGED <<store, stream>>
    BY <2>1 DEF MarkUnread, DeleteOne
  <2> QED BY <2>1, <2>2, StreamUntouched, MarkKeeps, DeleteKeeps DEF ClientInv
<1>6. CASE AskPurge \/ CancelPurge \/ ConfirmPurge
  <2>1. UNCHANGED <<store, stream>>
    BY <1>6 DEF AskPurge, CancelPurge, ConfirmPurge
  <2> QED BY <1>6, <2>1, StreamUntouched, PurgeDialogKeeps, ConfirmKeeps DEF ClientInv
<1>7. CASE Refresh
  <2>1. UNCHANGED <<store, stream>>
    BY <1>7 DEF Refresh
  <2>2. <<Inbox, Nil>> \in Keys
    BY DEF Keys
  <2> QED BY <1>7, <2>1, <2>2, StreamUntouched, FetchKeeps DEF ClientInv
<1>8. CASE \E t \in undo : Undo(t)
  <2>1. UNCHANGED <<store, stream>>
    BY <1>8 DEF Undo
  <2> QED BY <1>8, <2>1, StreamUntouched, UndoKeeps DEF ClientInv
<1> QED BY <1>1, <1>2, <1>3, <1>4, <1>5, <1>6, <1>7, <1>8 DEF User

\* Fetches.
LEMMA FetchingKeeps ==
  ASSUME ClientInv, NEW k \in Keys, Read(k) \/ Land(k) \/ FetchFails(k)
  PROVE  StreamInv' /\ TabInv' /\ Sticks
<1>1. UNCHANGED <<store, stream>>
  BY DEF Read, Land, FetchFails
<1>2. TabInv' /\ Sticks
  BY FetchKeeps, LandKeeps DEF ClientInv
<1> QED BY <1>1, <1>2, StreamUntouched DEF ClientInv

\* The stream.
LEMMA StreamingKeeps ==
  ASSUME ClientInv, Streaming
  PROVE  StreamInv' /\ TabInv' /\ Sticks
<1>1. CASE OnEvent
  <2>1. StreamInv'
    BY <1>1 DEF OnEvent, store, ClientInv, StreamInv, StoreInv, SseType, ToldInv, ThereIn
  <2> QED BY <1>1, <2>1, EventKeeps DEF ClientInv
<1>2. CASE Connect \/ Snap \/ Scan \/ ScanFails \/ Poll \/ Break
  <2>1. UNCHANGED tab
    BY <1>2 DEF Connect, Snap, Scan, ScanFails, Poll, Break
  <2>2. StreamInv'
    BY <1>2, ConnectKeeps, ScanKeeps, ScanFailsKeeps DEF ClientInv
  <2> QED BY <2>1, <2>2, TabUntouched DEF ClientInv
<1> QED BY <1>1, <1>2 DEF Streaming

\* Other apps and new mail.
LEMMA OthersKeep ==
  ASSUME ClientInv, Others
  PROVE  StreamInv' /\ TabInv' /\ Sticks
<1>1. PICK m \in Messages : Deliver(m) \/ OtherAppFlags(m) \/ \E f \in Folders : OtherAppMoves(m, f)
  BY DEF Others
<1>2. UNCHANGED tab
  BY <1>1 DEF Deliver, OtherAppFlags, OtherAppMoves
<1>3. StreamInv'
  <2>1. CASE Deliver(m)
    BY <2>1, DeliverKeeps DEF ClientInv
  <2>2. CASE OtherAppFlags(m)
    BY <2>2, FlagsKeep DEF OtherAppFlags, ClientInv
  <2>3. CASE \E f \in Folders : OtherAppMoves(m, f)
    <3>1. PICK f \in Folders : OtherAppMoves(m, f)
      BY <2>3
    <3>2. {m} \subseteq Here(place[m][1])
      BY <3>1 DEF OtherAppMoves, Here
    <3>3. Moved({m}, f)
      BY <3>1 DEF OtherAppMoves
    <3> QED BY <3>2, <3>3, MoveKeeps DEF ClientInv
  <2> QED BY <1>1, <2>1, <2>2, <2>3
<1> QED BY <1>2, <1>3, TabUntouched DEF ClientInv

\* Every step keeps the invariant, and none marks again what was marked as unread.
LEMMA MailKeeps ==
  ASSUME ClientInv, [MailNext]_mailVars
  PROVE  ClientInv' /\ Sticks
<1>1. ASSUME MailNext
      PROVE  StreamInv' /\ TabInv' /\ Sticks
  BY <1>1, RequestedKeeps, UserKeeps, FetchingKeeps, StreamingKeeps, OthersKeep DEF MailNext, Requested, Fetching
<1>2. ASSUME UNCHANGED mailVars
      PROVE  StreamInv' /\ TabInv' /\ Sticks
  BY <1>2, StreamUntouched, TabUntouched DEF mailVars, ClientInv
<1>3. unread' \subseteq Messages
  BY FlagsOfMessages DEF ClientInv
<1> QED BY <1>1, <1>2, <1>3 DEF ClientInv

\* What the mailbox, the stream and the tab hold at every moment: UIDs are given out once, an arrival that is due
\* and not announced has a scan queued that will reach it (StreamInv), and all that the open conversation shows has
\* been seen (TabInv).
THEOREM MailInductive == MailSpec => []ClientInv
BY FromInit, MailKeeps, PTL DEF MailSpec

\* The variables of the mail page have their types.
THEOREM TypeCorrect == MailSpec => []MailTypeOK
<1>1. ClientInv => MailTypeOK
  <2> SUFFICES ASSUME ClientInv
               PROVE  MailTypeOK
    OBVIOUS
  <2>1. sse.st \in {"off", "opened", "ready"} /\ sse.scans \in 0..1
    BY DEF ClientInv, StreamInv, SseType
  <2>2. \A k \in Keys : cache[k].fly \in {"no", "asked", "answered"}
    BY DEF ClientInv, TabInv, CacheOK, CachedQueries
  <2>3. screen.folder \in Folders /\ screen.open \in Convs \cup {Nil}
    BY DEF ClientInv, TabInv, Screens
  <2>4. \A i \in Calls : change[i].st \in {"idle", "sent", "applied"}
    BY DEF ClientInv, TabInv, ChangeRows
  <2>5. StoreInv /\ unread \subseteq Messages
    BY DEF ClientInv, StreamInv
  <2> QED BY <2>1, <2>2, <2>3, <2>4, <2>5 DEF StoreInv, MailTypeOK
<1> QED BY <1>1, MailInductive, PTL

\* An arrival in INBOX is announced once, and while the stream is up it is announced, unless a scan failed: for
\* any interleaving of deliveries, moves, scans that read "n:*", and lost streams.
THEOREM ArrivalsAnnounced == MailSpec => []AnnouncedOnce
<1>1. ClientInv => AnnouncedOnce
  <2> SUFFICES ASSUME ClientInv
               PROVE  AnnouncedOnce
    OBVIOUS
  <2>1. \A u \in Uids : told[u] <= 1
    BY DEF ClientInv, StreamInv, ToldInv
  <2>2. ASSUME AtRest, ~torn, NEW u \in due
        PROVE  told[u] = 1 \/ \A m \in Messages : place[m] # <<Inbox, u>>
    BY <2>2 DEF AtRest, ClientInv, StreamInv, ToldInv, ThereIn
  <2> QED BY <2>1, <2>2 DEF AnnouncedOnce
<1> QED BY <1>1, MailInductive, PTL

\* What the reader marked as unread in an open conversation is not marked as read again by the page.
THEOREM MarksStay == MailSpec => UnreadSticks
<1>1. ClientInv /\ [MailNext]_mailVars => [\A i \in Calls : change[i].st = "idle" /\ change'[i].view = "effect" => change'[i].uids \cap kept = {}]_mailVars
  BY MailKeeps DEF Sticks
<1> QED BY <1>1, MailInductive, PTL DEF MailSpec, UnreadSticks

-----------------------------------------------------------------------------
(* At rest the tab shows the mailbox.                                      *)

Wire == \E E : wire \in Seq(E)
Busy == \E i \in Calls : change[i].st # "idle"
Coming(f) == \E j \in DOMAIN wire : wire[j].type = "ready" \/ wire[j].folder = f
Late == torn \/ (sse.scans > 0 /\ \E u \in Uids : ThereIn(u) /\ sse.nextUid <= u)
\* The lists of folder f are going to be fetched again.
Pending(f) == Busy \/ sse.st # "ready" \/ Coming(f) \/ (f = Inbox /\ Late)

\* What f held when the stream looked last: P[f][m] is the UID that m had in f, 0 if it was elsewhere.
Limit(f) == sse.snapshot[f][3]
Snapshots == [Folders -> [Messages -> Nat]]
Seen(f, P) ==
  /\ Limit(f) <= next[f]
  /\ Cardinality({m \in Messages : P[f][m] # 0}) = sse.snapshot[f][1]
  /\ \A m \in Here(f) : UidOf(m) < Limit(f) => P[f][m] = UidOf(m)
SeenAll(P) == sse.st = "ready" => \A f \in Folders : Seen(f, P)

\* The rows that are right for k as long as no event comes.  Of a folder that is only looked at now and then: rows that
\* have everything in it that the stream has seen there, and nothing else but what it has not seen yet.
Lists(k, rows) ==
  IF k[2] = Nil THEN \A r, s \in rows : r.conv = s.conv => r = s
  ELSE \A row \in rows : row.conv = k[2] /\ Single(row)
Wanted(k) == {m \in Here(k[1]) : k[2] = Nil \/ Conv[m] = k[2]}
Good(k, P) ==
  IF k[1] = Inbox THEN {Reply(k)}
  ELSE {rows \in SUBSET Rows :
          /\ Lists(k, rows)
          /\ \A row \in rows : row.uids # {}
          /\ \A m \in Wanted(k) : UidOf(m) < Limit(k[1]) => \E row \in rows : row.conv = Conv[m] /\ UidOf(m) \in row.uids
          /\ \A row \in rows : \A u \in row.uids :
               /\ u < next[k[1]]
               /\ u < Limit(k[1]) => \E m \in Messages : P[k[1]][m] = u
               /\ \A m \in Messages : place[m] = <<k[1], u>> => Conv[m] = row.conv}

QueryOK(k, q, p, G) ==
  \/ q.fly = "asked"
  \/ q.outran
  \/ q.fly = "answered" /\ q.answer \in G
  \/ q.fly = "no" /\ (q.error \/ (k \notin ActiveOn(p) /\ (q.stale \/ q.data = Nil)) \/ q.data \in G)
KeyInv(k, P) == Pending(k[1]) \/ QueryOK(k, cache[k], screen, Good(k, P))
RestInv == Wire /\ \E P \in Snapshots : SeenAll(P) /\ \A k \in Keys : KeyInv(k, P)

-----------------------------------------------------------------------------
(* What is right, and stays so *)

\* The messages of a folder, by UID.
LEMMA HereTyped ==
  ASSUME StreamInv, NEW f \in Folders
  PROVE  \A m \in Here(f) : m \in Messages /\ UidOf(m) \in Uids /\ UidOf(m) < next[f] /\ place[m] = <<f, UidOf(m)>>
BY DEF Here, UidOf, StreamInv, StoreInv

\* What the server answers is right.
LEMMA AnswerGood ==
  ASSUME StreamInv, NEW k \in Keys, NEW P \in Snapshots, k[1] # Inbox => Seen(k[1], P)
  PROVE  Reply(k) \in Good(k, P)
<1> DEFINE f == k[1]
<1>1. f \in Folders /\ k[2] \in Convs \cup {Nil}
  BY DEF Keys
<1>2. \A m \in Here(f) : m \in Messages /\ UidOf(m) \in Uids /\ UidOf(m) < next[f] /\ place[m] = <<f, UidOf(m)>>
  BY <1>1, HereTyped
<1>3. CASE f = Inbox
  BY <1>3 DEF Good
<1>4. CASE f # Inbox
  <2>1. Reply(k) \in SUBSET Rows
    BY AnswerType
  <2> DEFINE Of(c) == {m \in Here(f) : Conv[m] = c}
  <2>2. \A row \in Reply(k) : \E ms : /\ ms \subseteq Wanted(k) /\ ms # {} /\ row.uids = {UidOf(m) : m \in ms}
                                      /\ \A m \in ms : Conv[m] = row.conv
    <3>1. CASE k[2] = Nil
      <4> SUFFICES ASSUME NEW c \in {Conv[m] : m \in Here(f)}, NEW row, row = Row(c, Of(c))
                   PROVE  \E ms : /\ ms \subseteq Wanted(k) /\ ms # {} /\ row.uids = {UidOf(m) : m \in ms}
                                  /\ \A m \in ms : Conv[m] = row.conv
        BY <3>1 DEF Reply
      <4>1. row.conv = c /\ row.uids = {UidOf(m) : m \in Of(c)} /\ Of(c) # {} /\ Of(c) \subseteq Wanted(k)
        BY <3>1 DEF Row, Wanted
      <4> QED BY <4>1
    <3>2. CASE k[2] # Nil
      <4> SUFFICES ASSUME NEW m \in Of(k[2]), NEW row, row = Row(k[2], {m})
                   PROVE  \E ms : /\ ms \subseteq Wanted(k) /\ ms # {} /\ row.uids = {UidOf(n) : n \in ms}
                                  /\ \A n \in ms : Conv[n] = row.conv
        BY <3>2 DEF Reply
      <4>1. PICK ms : ms = {m}
        OBVIOUS
      <4>2. row.conv = k[2] /\ row.uids = {UidOf(n) : n \in ms}
        BY <4>1 DEF Row
      <4>3. ms \subseteq Wanted(k) /\ ms # {} /\ \A n \in ms : Conv[n] = k[2]
        BY <4>1 DEF Wanted
      <4> QED BY <4>2, <4>3
    <3> QED BY <3>1, <3>2
  <2>3. \A m \in Wanted(k) : \E row \in Reply(k) : row.conv = Conv[m] /\ UidOf(m) \in row.uids
    <3> SUFFICES ASSUME NEW m \in Wanted(k)
                 PROVE  \E row \in Reply(k) : row.conv = Conv[m] /\ UidOf(m) \in row.uids
      OBVIOUS
    <3>1. CASE k[2] = Nil
      <4>1. Row(Conv[m], Of(Conv[m])) \in Reply(k)
        BY <3>1 DEF Reply, Wanted
      <4>2. m \in Of(Conv[m])
        BY DEF Wanted
      <4> QED BY <4>1, <4>2 DEF Row
    <3>2. CASE k[2] # Nil
      <4>1. Row(k[2], {m}) \in Reply(k) /\ Conv[m] = k[2]
        BY <3>2 DEF Reply, Wanted
      <4> QED BY <4>1 DEF Row
    <3> QED BY <3>1, <3>2
  <2>4. Lists(k, Reply(k))
    <3>1. CASE k[2] = Nil
      <4>1. \A row \in Reply(k) : \E c : row = Row(c, Of(c))
        BY <3>1 DEF Reply
      <4>2. \A c : Row(c, Of(c)).conv = c
        BY DEF Row
      <4> HIDE DEF Of
      <4>3. \A r, s \in Reply(k) : r.conv = s.conv => r = s
        <5> SUFFICES ASSUME NEW r \in Reply(k), NEW s \in Reply(k), r.conv = s.conv
                     PROVE  r = s
          OBVIOUS
        <5>1. PICK c : r = Row(c, Of(c))
          BY <4>1
        <5>2. PICK d : s = Row(d, Of(d))
          BY <4>1
        <5>3. c = d
          BY <4>2, <5>1, <5>2
        <5> QED BY <5>1, <5>2, <5>3
      <4> QED BY <3>1, <4>3 DEF Lists
    <3>2. CASE k[2] # Nil
      <4>1. \A row \in Reply(k) : row.conv = k[2]
        BY <3>2 DEF Reply, Row
      <4>2. \A row \in Reply(k) : Single(row)
        BY <3>2, AnswerType
      <4> QED BY <3>2, <4>1, <4>2 DEF Lists
    <3> QED BY <3>1, <3>2
  <2>5. \A row \in Reply(k) : row.uids # {}
    BY <2>2
  <2>6. ASSUME NEW row \in Reply(k), NEW u \in row.uids
        PROVE  /\ u < next[f]
               /\ u < Limit(f) => \E m \in Messages : P[f][m] = u
               /\ \A m \in Messages : place[m] = <<f, u>> => Conv[m] = row.conv
    <3>1. PICK ms : /\ ms \subseteq Wanted(k) /\ row.uids = {UidOf(m) : m \in ms} /\ \A m \in ms : Conv[m] = row.conv
      BY <2>2
    <3>2. PICK m \in ms : u = UidOf(m)
      BY <3>1
    <3>3. m \in Here(f)
      BY <3>1 DEF Wanted
    <3>4. u < next[f] /\ (u < Limit(f) => \E n \in Messages : P[f][n] = u)
      BY <1>2, <1>4, <3>2, <3>3 DEF Seen
    <3>5. ASSUME NEW n \in Messages, place[n] = <<f, u>>
          PROVE  Conv[n] = row.conv
      <4>1. place[m] = place[n] /\ m \in Messages /\ u \in Uids
        BY <1>2, <3>2, <3>3, <3>5
      <4>2. place[n] # Nil
        BY <1>1, <3>5, <4>1
      <4>3. n = m
        BY <4>1, <4>2 DEF StreamInv, StoreInv
      <4> QED BY <3>1, <4>3
    <3> QED BY <3>4, <3>5
  <2> QED BY <1>4, <2>1, <2>3, <2>4, <2>5, <2>6 DEF Good
<1> QED BY <1>3, <1>4

\* Nothing gets a UID that was given out before.
Steady ==
  /\ \A f \in Folders : next[f] <= next'[f] /\ next[f] \in Nat /\ next'[f] \in Nat
  /\ \A m \in Messages : place'[m] # Nil /\ place'[m] # place[m] => next[place'[m][1]] <= place'[m][2]
  /\ sse'.snapshot = sse.snapshot

\* A message with a UID of before is where it was.
LEMMA SteadyHere ==
  ASSUME StreamInv, StoreInv', Steady, NEW f \in Folders, NEW m \in Here(f)', UidOf(m)' < next[f]
  PROVE  m \in Here(f) /\ UidOf(m)' = UidOf(m) /\ place'[m] = place[m]
<1>1. m \in Messages /\ place'[m] # Nil /\ place'[m][1] = f /\ UidOf(m)' = place'[m][2] /\ place'[m][2] \in Nat
  BY DEF Here, UidOf, StoreInv
<1>2. place'[m] = place[m]
  BY <1>1 DEF Steady
<1> QED BY <1>1, <1>2 DEF Here, UidOf

\* What the stream saw of a folder stays true of it while UIDs are not given out twice.
LEMMA SeenKept ==
  ASSUME StreamInv, StoreInv', Steady, NEW f \in Folders, NEW P \in Snapshots, Seen(f, P)
  PROVE  Seen(f, P)'
<1>1. Limit(f)' = Limit(f) /\ Limit(f) \in Nat /\ next[f] \in Nat /\ next'[f] \in Nat
  BY DEF Limit, Steady, StreamInv, SseType
<1>2. Limit(f) <= next'[f] /\ Limit(f) <= next[f]
  BY <1>1 DEF Seen, Steady
<1>3. ASSUME NEW m \in Here(f)', UidOf(m)' < Limit(f)
      PROVE  P[f][m] = UidOf(m)'
  <2>1. UidOf(m)' \in Nat
    BY DEF Here, UidOf, StoreInv
  <2>2. m \in Here(f) /\ UidOf(m)' = UidOf(m)
    BY <1>1, <1>2, <1>3, <2>1, SteadyHere
  <2> QED BY <1>3, <2>2 DEF Seen
<1> QED BY <1>1, <1>2, <1>3 DEF Seen, Steady

\* So rows of a folder that is polled stay right, whatever changes in it.
LEMMA GoodKept ==
  ASSUME StreamInv, StoreInv', Steady, NEW k \in Keys, k[1] # Inbox, NEW P \in Snapshots, Seen(k[1], P)
  PROVE  Good(k, P) \subseteq Good(k, P)'
<1> DEFINE f == k[1]
<1>1. f \in Folders
  BY DEF Keys
<1>2. Limit(f)' = Limit(f) /\ Limit(f) \in Nat /\ next[f] \in Nat /\ next'[f] \in Nat /\ Limit(f) <= next[f] /\ next[f] <= next'[f]
  BY <1>1 DEF Limit, Steady, StreamInv, SseType, Seen
<1> SUFFICES ASSUME NEW rows \in SUBSET Rows, rows \in Good(k, P)
             PROVE  rows \in Good(k, P)'
  BY DEF Good
<1>3. ASSUME NEW m \in Wanted(k)', UidOf(m)' < Limit(f)
      PROVE  \E row \in rows : row.conv = Conv[m] /\ UidOf(m)' \in row.uids
  <2>1. m \in Here(f)' /\ UidOf(m)' \in Nat
    BY <1>1 DEF Wanted, Here, UidOf, StoreInv
  <2>2. m \in Here(f) /\ UidOf(m)' = UidOf(m)
    BY <1>1, <1>2, <1>3, <2>1, SteadyHere
  <2>3. m \in Wanted(k)
    BY <1>3, <2>2 DEF Wanted
  <2> QED BY <1>3, <2>2, <2>3 DEF Good
<1>4. ASSUME NEW row \in rows, NEW u \in row.uids
      PROVE  /\ u < next'[f]
             /\ u < Limit(f) => \E m \in Messages : P[f][m] = u
             /\ \A m \in Messages : place'[m] = <<f, u>> => Conv[m] = row.conv
  <2>1. u \in Uids
    BY DEF Rows
  <2>2. /\ u < next[f]
        /\ u < Limit(f) => \E m \in Messages : P[f][m] = u
        /\ \A m \in Messages : place[m] = <<f, u>> => Conv[m] = row.conv
    BY DEF Good
  <2>3. ASSUME NEW m \in Messages, place'[m] = <<f, u>>
        PROVE  place[m] = <<f, u>>
    <3>1. place'[m] # Nil /\ place'[m][1] = f /\ place'[m][2] = u
      BY <1>1, <2>1, <2>3
    <3>2. ~(next[f] <= u)
      BY <1>2, <2>1, <2>2
    <3>3. place'[m] = place[m]
      BY <3>1, <3>2 DEF Steady
    <3> QED BY <2>3, <3>3
  <2> QED BY <1>2, <2>1, <2>2, <2>3
<1>5. Lists(k, rows) /\ \A row \in rows : row.uids # {}
  BY DEF Good
<1> QED BY <1>2, <1>3, <1>4, <1>5 DEF Good

\* What is right depends on the mailbox and the snapshot only.
LEMMA GoodSame ==
  ASSUME UNCHANGED <<place, next, unread>>, NEW k, NEW P, sse'.snapshot[k[1]] = sse.snapshot[k[1]]
  PROVE  Good(k, P)' = Good(k, P)
BY DEF Good, Limit, Wanted, Here, UidOf, Reply, Row

\* Nothing comes to INBOX, goes from it or is marked in it.
LEMMA InboxSame ==
  ASSUME StreamInv, StoreInv', \A m \in Messages : place'[m] # place[m] => m \notin Here(Inbox) /\ m \notin Here(Inbox)',
         \A m \in Here(Inbox) : (m \in unread) <=> (m \in unread'), NEW k, k[1] = Inbox, NEW P
  PROVE  Good(k, P)' = Good(k, P)
<1>1. Here(Inbox)' = Here(Inbox)
  <2>1. \A m \in Messages : m \in Here(Inbox)' <=> m \in Here(Inbox)
    BY DEF Here
  <2> QED BY <2>1 DEF Here
<1>2. \A m \in Here(Inbox) : UidOf(m)' = UidOf(m)
  BY DEF UidOf, Here
<1>3. \A ms : ms \subseteq Here(Inbox) => {UidOf(m)' : m \in ms} = {UidOf(m) : m \in ms} /\ ms \cap unread' = ms \cap unread
  BY <1>2
<1>4. Reply(k)' = Reply(k)
  <2> DEFINE Old(c, ms) == [conv |-> c, uids |-> {UidOf(m) : m \in ms}, unread |-> ms \cap unread # {}]
             New(c, ms) == [conv |-> c, uids |-> {UidOf(m)' : m \in ms}, unread |-> ms \cap unread' # {}]
  <2>1. \A c, ms : ms \subseteq Here(Inbox) => New(c, ms) = Old(c, ms)
    BY <1>3
  <2> HIDE DEF Old, New
  <2>2. CASE k[2] = Nil
    <3> DEFINE Of(c) == {m \in Here(Inbox) : Conv[m] = c}
    <3>1. Reply(k) = {Old(c, Of(c)) : c \in {Conv[m] : m \in Here(Inbox)}}
      BY <2>2 DEF Reply, Row, Old
    <3>2. Reply(k)' = {New(c, Of(c)) : c \in {Conv[m] : m \in Here(Inbox)}}
      BY <1>1, <2>2 DEF Reply, Row, New
    <3>3. \A c : Of(c) \subseteq Here(Inbox)
      OBVIOUS
    <3> HIDE DEF Of
    <3> QED BY <2>1, <3>1, <3>2, <3>3
  <2>3. CASE k[2] # Nil
    <3> DEFINE H == {n \in Here(Inbox) : Conv[n] = k[2]}
    <3>1. Reply(k) = {Old(k[2], {m}) : m \in H}
      BY <2>3 DEF Reply, Row, Old
    <3>2. Reply(k)' = {New(k[2], {m}) : m \in H}
      BY <1>1, <2>3 DEF Reply, Row, New
    <3>3. \A m \in H : {m} \subseteq Here(Inbox)
      OBVIOUS
    <3> HIDE DEF H
    <3> QED BY <2>1, <3>1, <3>2, <3>3
  <2> QED BY <2>2, <2>3
<1> QED BY <1>4 DEF Good

-----------------------------------------------------------------------------
(* The query cache *)

\* A query that is asked again will be right.
LEMMA AskedOK ==
  ASSUME NEW q \in CachedQueries, NEW k, NEW p, NEW G
  PROVE  QueryOK(k, Ask(q), p, G)
BY DEF Ask, CachedQueries, QueryOK

\* So will one that is invalidated, or it is not on screen, or it was outrun.
LEMMA InvalidatedOK ==
  ASSUME NEW q \in CachedQueries, NEW k, NEW p, NEW G
  PROVE  QueryOK(k, Invalidated(q, k \in ActiveOn(p)), p, G)
<1>1. CASE k \in ActiveOn(p) /\ (q.data # Nil \/ q.fly = "no")
  <2>1. [q EXCEPT !.stale = TRUE] \in CachedQueries
    BY DEF CachedQueries
  <2>2. Invalidated(q, k \in ActiveOn(p)) = Ask([q EXCEPT !.stale = TRUE])
    BY <1>1 DEF Invalidated
  <2> QED BY <2>1, <2>2, AskedOK
<1>2. CASE ~(k \in ActiveOn(p) /\ (q.data # Nil \/ q.fly = "no"))
  <2> DEFINE d == [q EXCEPT !.stale = q.data # Nil, !.outran = q.fly = "answered"]
  <2>1. Invalidated(q, k \in ActiveOn(p)) = d
    BY <1>2 DEF Invalidated
  <2>2. d.fly = q.fly /\ d.data = q.data /\ d.stale = (q.data # Nil) /\ d.outran = (q.fly = "answered") /\ q.fly \in {"no", "asked", "answered"}
    BY DEF CachedQueries
  <2> HIDE DEF d
  <2>3. QueryOK(k, d, p, G)
    BY <1>2, <2>2 DEF QueryOK
  <2> QED BY <2>1, <2>3
<1> QED BY <1>1, <1>2

\* The more is right the better.
LEMMA MoreIsGood ==
  ASSUME NEW k, NEW q, NEW p, NEW G, NEW H, G \subseteq H, QueryOK(k, q, p, G)
  PROVE  QueryOK(k, q, p, H)
BY DEF QueryOK

\* What is not on screen is no worse for it.
LEMMA LessOnScreen ==
  ASSUME NEW k, NEW q, NEW p, NEW r, k \in ActiveOn(r) => k \in ActiveOn(p), NEW G, QueryOK(k, q, p, G)
  PROVE  QueryOK(k, q, r, G)
BY DEF QueryOK

-----------------------------------------------------------------------------
(* At rest *)

\* At rest the poll has found nothing: the folder has as many messages as the snapshot and has given out
\* no UID since, so what the snapshot saw there is still there, and the rows are the messages of the folder.
LEMMA RestShows ==
  ASSUME StreamInv, TabInv, RestInv, AtRest
  PROVE  AtRestShowsMailbox
<1> SUFFICES ASSUME NEW k \in Active, ~cache[k].outran, ~cache[k].error, ~(k[1] = Inbox /\ torn)
             PROVE  \/ cache[k].data = Reply(k)
                    \/ k[1] # Inbox /\ SameMessages(cache[k].data, Reply(k))
  BY DEF AtRestShowsMailbox
<1> DEFINE f == k[1]
           rows == cache[k].data
<1>1. screen \in Screens /\ k \in Keys /\ f \in Folders
  BY DEF TabInv, Screens, Active, ActiveOn, Keys
<1>2. PICK P \in Snapshots : SeenAll(P) /\ \A j \in Keys : KeyInv(j, P)
  BY DEF RestInv
<1>3. ~Pending(f)
  BY DEF Pending, Busy, Coming, Late, AtRest
<1>4. cache[k].fly = "no"
  BY DEF AtRest
<1>5. rows \in Good(k, P)
  BY <1>1, <1>2, <1>3, <1>4 DEF KeyInv, QueryOK, Active
<1>6. CASE f = Inbox
  BY <1>5, <1>6 DEF Good
<1>7. CASE f # Inbox
  <2> HIDE DEF rows
  <2>1. Seen(f, P) /\ Sig(f) = sse.snapshot[f]
    BY <1>1, <1>2, <1>7 DEF SeenAll, AtRest, ChangedFolders
  <2>2. Limit(f) = next[f] /\ sse.snapshot[f][1] = Cardinality(Here(f))
    BY <2>1 DEF Sig, Limit
  <2>3. \A m \in Here(f) : m \in Messages /\ UidOf(m) \in Uids /\ UidOf(m) < next[f] /\ P[f][m] = UidOf(m) /\ place[m] = <<f, UidOf(m)>>
    BY <1>1, <2>1, <2>2, HereTyped DEF Seen
  <2>4. Here(f) = {m \in Messages : P[f][m] # 0}
    <3> DEFINE S == {m \in Messages : P[f][m] # 0}
    <3>1. Here(f) \subseteq S
      BY <2>3
    <3>2. Cardinality(S) = Cardinality(Here(f))
      BY <2>1, <2>2 DEF Seen
    <3>3. IsFiniteSet(S)
      BY FinitelyMany, FS_Subset
    <3> HIDE DEF S
    <3>4. Here(f) = S
      BY <3>1, <3>2, <3>3, FS_Subset
    <3> QED BY <3>4 DEF S
  <2>5. /\ rows \in SUBSET Rows
        /\ Lists(k, rows)
        /\ \A row \in rows : row.uids # {}
        /\ \A m \in Wanted(k) : UidOf(m) < Limit(f) => \E row \in rows : row.conv = Conv[m] /\ UidOf(m) \in row.uids
        /\ \A row \in rows : \A u \in row.uids :
               /\ u < next[f]
               /\ u < Limit(f) => \E m \in Messages : P[f][m] = u
               /\ \A m \in Messages : place[m] = <<f, u>> => Conv[m] = row.conv
    BY <1>5, <1>7 DEF Good
  <2>6. \A m \in Wanted(k) : \E row \in rows : row.conv = Conv[m] /\ UidOf(m) \in row.uids
    BY <2>2, <2>3, <2>5 DEF Wanted
  <2>7. ASSUME NEW row \in rows, NEW u \in row.uids
        PROVE  \E m \in Here(f) : UidOf(m) = u /\ Conv[m] = row.conv
    <3>1. u \in Uids
      BY <2>5 DEF Rows
    <3>2. PICK m \in Messages : P[f][m] = u
      BY <2>2, <2>5
    <3>3. m \in Here(f)
      BY <2>4, <3>1, <3>2
    <3> QED BY <2>3, <2>5, <3>2, <3>3
  <2>8. CASE k[2] = Nil
    <3> DEFINE Of(c) == {m \in Here(f) : Conv[m] = c}
    <3>1. \A c : Row(c, Of(c)).uids = {UidOf(m) : m \in Of(c)}
      BY DEF Row
    <3>2. ASSUME NEW row \in rows
          PROVE  row.uids = {UidOf(m) : m \in Of(row.conv)}
      <4>1. \A u \in row.uids : \E m \in Of(row.conv) : UidOf(m) = u
        BY <2>7
      <4>2. ASSUME NEW m \in Of(row.conv)
            PROVE  UidOf(m) \in row.uids
        <5>1. m \in Wanted(k)
          BY <2>8 DEF Wanted
        <5>2. PICK s \in rows : s.conv = Conv[m] /\ UidOf(m) \in s.uids
          BY <2>6, <5>1
        <5>3. s = row
          BY <2>5, <2>8, <5>2 DEF Lists
        <5> QED BY <5>2, <5>3
      <4> QED BY <4>1, <4>2
    <3> HIDE DEF Of
    <3>3. ASSUME NEW row \in rows
          PROVE  \E r \in Reply(k) : r.uids = row.uids
      <4>1. PICK m \in Here(f) : Conv[m] = row.conv
        BY <2>5, <2>7
      <4>2. Row(row.conv, Of(row.conv)) \in Reply(k)
        BY <2>8, <4>1 DEF Reply, Of
      <4> QED BY <3>1, <3>2, <4>2
    <3>4. ASSUME NEW m \in Here(f)
          PROVE  \E r \in rows : r.uids = Row(Conv[m], Of(Conv[m])).uids
      <4>1. m \in Wanted(k)
        BY <2>8 DEF Wanted
      <4>2. PICK r \in rows : r.conv = Conv[m]
        BY <2>6, <4>1
      <4> QED BY <3>1, <3>2, <4>2
    <3>5. \A a \in Reply(k) : \E m \in Here(f) : a = Row(Conv[m], Of(Conv[m]))
      BY <2>8 DEF Reply, Of
    <3>6. SameMessages(rows, Reply(k))
      BY <3>3, <3>4, <3>5 DEF SameMessages
    <3> QED BY <1>7, <3>6 DEF rows
  <2>9. CASE k[2] # Nil
    <3>1. \A m \in Here(f) : Conv[m] = k[2] => m \in Wanted(k) /\ Row(k[2], {m}) \in Reply(k) /\ Row(k[2], {m}).uids = {UidOf(m)}
      BY <2>9 DEF Wanted, Reply, Row
    <3>2. \A row \in rows : row.conv = k[2] /\ \E u \in Uids : row.uids = {u}
      BY <2>5, <2>9 DEF Lists, Single
    <3>3. ASSUME NEW row \in rows
          PROVE  \E r \in Reply(k) : r.uids = row.uids
      <4>1. PICK u \in Uids : row.uids = {u}
        BY <3>2
      <4>2. PICK m \in Here(f) : UidOf(m) = u /\ Conv[m] = row.conv
        BY <2>7, <4>1
      <4> QED BY <3>1, <3>2, <4>1, <4>2
    <3>4. ASSUME NEW a \in Reply(k)
          PROVE  \E r \in rows : r.uids = a.uids
      <4>1. PICK m \in Here(f) : Conv[m] = k[2] /\ a = Row(k[2], {m})
        BY <2>9 DEF Reply
      <4>2. PICK r \in rows : UidOf(m) \in r.uids
        BY <2>6, <3>1, <4>1
      <4> QED BY <3>1, <3>2, <4>1, <4>2
    <3>5. SameMessages(rows, Reply(k))
      BY <3>3, <3>4 DEF SameMessages
    <3> QED BY <1>7, <3>5 DEF rows
  <2> QED BY <2>8, <2>9
<1> QED BY <1>6, <1>7

\* Events are sent: those on their way stay.
LEMMA WireGrows ==
  ASSUME Wire, NEW n \in Nat, NEW t, DOMAIN t = 1..n, t = [j \in 1..n |-> t[j]], wire' = wire \o t
  PROVE  Wire' /\ \A f : (Coming(f) => Coming(f)') /\ ((\E j \in 1..n : t[j].folder = f) => Coming(f)')
<1>1. PICK E : wire \in Seq(E)
  BY DEF Wire
<1> DEFINE F == E \cup {t[j] : j \in 1..n}
<1>2. wire \in Seq(F)
  BY <1>1, SeqMonotonic
<1>3. t \in Seq(F) /\ Len(t) = n
  <2>1. t \in [1..n -> F]
    OBVIOUS
  <2>2. t \in Seq(F)
    BY <2>1, SeqDef
  <2>3. DOMAIN t = 1..Len(t) /\ Len(t) \in Nat
    BY <2>2, LenProperties
  <2> QED BY <2>2, <2>3
<1>4. /\ wire' \in Seq(F) /\ Len(wire') = Len(wire) + n /\ Len(wire) \in Nat
      /\ \A i \in 1..Len(wire) + n : wire'[i] = IF i <= Len(wire) THEN wire[i] ELSE t[i - Len(wire)]
      /\ DOMAIN wire = 1..Len(wire) /\ DOMAIN wire' = 1..Len(wire) + n
  BY <1>2, <1>3, ConcatProperties, LenProperties
<1> HIDE DEF F
<1>5. Wire'
  BY <1>4 DEF Wire
<1>6. ASSUME NEW f, Coming(f)
      PROVE  Coming(f)'
  <2>1. PICK j \in DOMAIN wire : wire[j].type = "ready" \/ wire[j].folder = f
    BY <1>6 DEF Coming
  <2>2. j \in DOMAIN wire' /\ wire'[j] = wire[j]
    BY <1>4
  <2> QED BY <2>1, <2>2 DEF Coming
<1>7. ASSUME NEW f, NEW j \in 1..n, t[j].folder = f
      PROVE  Coming(f)'
  <2>1. Len(wire) + j \in DOMAIN wire' /\ wire'[Len(wire) + j] = t[j]
    BY <1>4
  <2> QED BY <1>7, <2>1 DEF Coming
<1> QED BY <1>5, <1>6, <1>7

\* One event is sent.
LEMMA WireAppends ==
  ASSUME Wire, NEW e, wire' = Append(wire, e)
  PROVE  Wire' /\ \A f : (Coming(f) => Coming(f)') /\ (e.type = "ready" \/ e.folder = f => Coming(f)')
<1>1. PICK E : wire \in Seq(E)
  BY DEF Wire
<1>2. wire \in Seq(E \cup {e})
  BY <1>1, SeqMonotonic
<1>3. /\ wire' \in Seq(E \cup {e}) /\ Len(wire) \in Nat
      /\ DOMAIN wire = 1..Len(wire) /\ DOMAIN wire' = 1..Len(wire) + 1
      /\ \A j \in DOMAIN wire : wire'[j] = wire[j]
      /\ wire'[Len(wire) + 1] = e
  BY <1>2
<1>4. Wire'
  BY <1>3 DEF Wire
<1>5. ASSUME NEW f, Coming(f)
      PROVE  Coming(f)'
  BY <1>3, <1>5 DEF Coming
<1>6. ASSUME NEW f, e.type = "ready" \/ e.folder = f
      PROVE  Coming(f)'
  <2>1. Len(wire) + 1 \in DOMAIN wire'
    BY <1>3
  <2> QED BY <1>3, <1>6, <2>1 DEF Coming
<1> QED BY <1>4, <1>5, <1>6

\* One event arrives.
LEMMA WireShrinks ==
  ASSUME Wire, wire # <<>>, wire' = Tail(wire)
  PROVE  Wire' /\ \A f : Coming(f) => Coming(f)' \/ Head(wire).type = "ready" \/ Head(wire).folder = f
<1>1. PICK E : wire \in Seq(E)
  BY DEF Wire
<1>2. /\ wire' \in Seq(E) /\ Len(wire') = Len(wire) - 1 /\ Len(wire) \in Nat
      /\ \A i \in 1..Len(wire') : wire'[i] = wire[i + 1]
      /\ DOMAIN wire = 1..Len(wire) /\ DOMAIN wire' = 1..Len(wire')
      /\ Head(wire) = wire[1]
  BY <1>1, HeadTailProperties, LenProperties
<1>3. Wire'
  BY <1>2 DEF Wire
<1>4. ASSUME NEW f, Coming(f), Head(wire).type # "ready", Head(wire).folder # f
      PROVE  Coming(f)'
  <2>1. PICK j \in DOMAIN wire : wire[j].type = "ready" \/ wire[j].folder = f
    BY <1>4 DEF Coming
  <2>2. j # 1
    BY <1>2, <1>4, <2>1
  <2>3. j - 1 \in DOMAIN wire' /\ wire'[j - 1] = wire[j]
    BY <1>2, <2>2
  <2> QED BY <2>1, <2>3 DEF Coming
<1> QED BY <1>3, <1>4

-----------------------------------------------------------------------------

\* While a request is under way everything is going to be fetched again.
LEMMA BusyKeeps ==
  ASSUME StreamInv, StoreInv', RestInv, Busy', Steady, sse'.st = sse.st, Wire'
  PROVE  RestInv'
<1>1. PICK P \in Snapshots : SeenAll(P) /\ \A k \in Keys : KeyInv(k, P)
  BY DEF RestInv
<1>2. SeenAll(P)'
  <2> SUFFICES ASSUME sse.st = "ready", NEW f \in Folders
               PROVE  Seen(f, P)'
    BY DEF SeenAll
  <2>1. Seen(f, P)
    BY <1>1 DEF SeenAll
  <2> QED BY <2>1, SeenKept
<1>3. \A k \in Keys : KeyInv(k, P)'
  BY DEF KeyInv, Pending
<1> QED BY <1>2, <1>3 DEF RestInv

\* What happens in the tab alone.
LEMMA TabSteps ==
  ASSUME StreamInv, RestInv, UNCHANGED <<store, stream>>,
         \/ Busy'
         \/ \A k \in Keys : \/ ~Busy /\ \A G : QueryOK(k, cache[k], screen, G) => QueryOK(k, cache'[k], screen', G)
                            \/ \A G : QueryOK(k, cache'[k], screen', G)
  PROVE  RestInv'
<1>1. StreamInv' /\ Wire' /\ UNCHANGED <<place, next, unread, sse, wire, torn>>
  BY StreamUntouched DEF store, stream, RestInv, Wire
<1>2. CASE Busy'
  <2>1. Steady
    BY <1>1 DEF Steady, StreamInv, StoreInv
  <2> QED BY <1>1, <1>2, <2>1, BusyKeeps DEF StreamInv
<1>3. CASE \A k \in Keys : \/ ~Busy /\ \A G : QueryOK(k, cache[k], screen, G) => QueryOK(k, cache'[k], screen', G)
                           \/ \A G : QueryOK(k, cache'[k], screen', G)
  <2>1. PICK P \in Snapshots : SeenAll(P) /\ \A k \in Keys : KeyInv(k, P)
    BY DEF RestInv
  <2>2. SeenAll(P)'
    BY <1>1, <2>1 DEF SeenAll, Seen, Limit, Here, UidOf
  <2>3. ASSUME NEW k \in Keys
        PROVE  KeyInv(k, P)'
    <3>1. Good(k, P)' = Good(k, P)
      BY <1>1, GoodSame
    <3>2. CASE \A G : QueryOK(k, cache'[k], screen', G)
      BY <3>2 DEF KeyInv
    <3>3. CASE ~Busy /\ \A G : QueryOK(k, cache[k], screen, G) => QueryOK(k, cache'[k], screen', G)
      <4>1. Pending(k[1]) => Pending(k[1])'
        BY <1>1, <3>3 DEF Pending, Coming, Late, ThereIn
      <4>2. QueryOK(k, cache[k], screen, Good(k, P)) => QueryOK(k, cache'[k], screen', Good(k, P)')
        BY <3>1, <3>3
      <4> QED BY <2>1, <4>1, <4>2 DEF KeyInv
    <3> QED BY <1>3, <3>2, <3>3
  <2> QED BY <1>1, <2>2, <2>3 DEF RestInv
<1> QED BY <1>2, <1>3

\* A change is a request under way.
LEMMA MutateBusy ==
  ASSUME NEW i \in Calls, NEW kind, NEW f, NEW uids, NEW dest, NEW view, NEW c, Mutate(i, Mutated(i, kind, f, uids, dest, view), c)
  PROVE  Busy'
<1> DEFINE new == Mutated(i, kind, f, uids, dest, view)
<1>1. new.st = "sent"
  BY DEF Mutated, NoCall
<1> HIDE DEF new
<1>2. change'[i] = new
  BY DEF Mutate, new
<1> QED BY <1>1, <1>2 DEF Busy

\* Closing a conversation ends no request.
LEMMA SameBusy ==
  ASSUME change' = change \/ change' = Left, change \in [Calls -> ChangeRows]
  PROVE  Busy' <=> Busy
<1>1. \A i \in Calls : change'[i].st = change[i].st
  BY DEF Left, ChangeRows
<1> QED BY <1>1 DEF Busy

\* A query that comes on screen is right, or asked.
LEMMA MountOK ==
  ASSUME NEW c, CacheOK(c), NEW ks, ks \subseteq Keys, NEW d \in Mount(c, ks), NEW p, NEW r,
         \A k \in Keys : k \in ActiveOn(r) => k \in ActiveOn(p) \/ k \in ks,
         NEW k \in Keys, NEW G, QueryOK(k, c[k], p, G)
  PROVE  QueryOK(k, d[k], r, G)
<1>1. c[k] \in CachedQueries
  BY DEF CacheOK
<1>2. CASE d[k] = Ask(c[k])
  BY <1>1, <1>2, AskedOK
<1>3. CASE k \in ks /\ c[k].fly = "no" /\ c[k].data # Nil /\ ~c[k].stale /\ d[k] = c[k]
  BY <1>3 DEF QueryOK
<1>4. CASE ~(k \in ks /\ c[k].fly = "no") /\ d[k] = c[k]
  BY <1>4 DEF QueryOK
<1> QED BY <1>2, <1>3, <1>4 DEF Mount

\* Another folder is shown.
LEMMA GoRests ==
  ASSUME ClientInv, RestInv, NEW f \in Folders, GoFolder(f)
  PROVE  RestInv'
<1>1. /\ screen' = [ClosedPage EXCEPT !.folder = f] /\ cache' \in Mount(cache, {<<f, Nil>>}) /\ change' = Left
      /\ UNCHANGED <<store, stream>>
  BY DEF GoFolder
<1>2. screen'.folder = f /\ screen'.open = Nil
  BY <1>1, ClosedPageType DEF ClientInv, TabInv, Screens
<1>3. CacheOK(cache) /\ {<<f, Nil>>} \subseteq Keys /\ (Busy' <=> Busy)
  BY <1>1, SameBusy DEF ClientInv, TabInv, Keys
<1>4. \A k \in Keys : k \in ActiveOn(screen') => k \in ActiveOn(screen) \/ k \in {<<f, Nil>>}
  BY <1>2 DEF ActiveOn
<1>5. \A k \in Keys : \A G : QueryOK(k, cache[k], screen, G) => QueryOK(k, cache'[k], screen', G)
  BY <1>1, <1>3, <1>4, MountOK
<1> QED BY <1>1, <1>3, <1>5, TabSteps DEF ClientInv

\* The conversation comes on screen, or what it shows changes.
LEMMA RenderedRests ==
  ASSUME ClientInv, RestInv, UNCHANGED <<store, stream>>, NEW c, NEW p \in Screens, Rendered(c, p),
         \A k \in Keys : \A G : QueryOK(k, cache[k], screen, G) => QueryOK(k, c[k], p, G)
  PROVE  RestInv'
<1>1. CASE cache' = c /\ change' = change
  <2>1. screen'.folder = p.folder /\ screen'.open = p.open
    BY DEF Rendered, Screens
  <2>2. ActiveOn(screen') = ActiveOn(p)
    BY <2>1 DEF ActiveOn
  <2>3. \A k \in Keys : \A G : QueryOK(k, c[k], p, G) => QueryOK(k, c[k], screen', G)
    BY <2>2 DEF QueryOK
  <2>4. Busy' <=> Busy
    BY <1>1 DEF Busy
  <2> QED BY <1>1, <2>3, <2>4, TabSteps DEF ClientInv
<1>2. CASE ~(cache' = c /\ change' = change)
  <2>1. \E i \in Calls : \E uids : Mutate(i, Mutated(i, "seen", p.folder, uids, Nil, "effect"), c)
    BY <1>2 DEF Rendered
  <2>2. Busy'
    BY <2>1, MutateBusy
  <2> QED BY <2>2, TabSteps DEF ClientInv
<1> QED BY <1>1, <1>2

\* A conversation is opened.
LEMMA OpenRests ==
  ASSUME ClientInv, RestInv, NEW c \in Convs, OpenThread(c)
  PROVE  RestInv'
<1> DEFINE p == [screen EXCEPT !.open = c, !.seenUids = {}]
<1>1. PICK d \in Mount(cache, {<<screen.folder, c>>}) : Rendered(d, p)
  BY DEF OpenThread
<1>2. screen \in Screens /\ CacheOK(cache) /\ UNCHANGED <<store, stream>>
  BY DEF OpenThread, ClientInv, TabInv
<1>3. p \in Screens /\ p.folder = screen.folder /\ p.open = c /\ screen.folder \in Folders
  BY <1>2 DEF Screens
<1> HIDE DEF p
<1>4. {<<screen.folder, c>>} \subseteq Keys
  <2>1. c \in Convs \cup {Nil}
    OBVIOUS
  <2> QED BY <1>3, <2>1 DEF Keys
<1>5. \A k \in Keys : k \in ActiveOn(p) => k \in ActiveOn(screen) \/ k \in {<<screen.folder, c>>}
  BY <1>3 DEF ActiveOn
<1>6. \A k \in Keys : \A G : QueryOK(k, cache[k], screen, G) => QueryOK(k, d[k], p, G)
  BY <1>1, <1>2, <1>4, <1>5, MountOK
<1> QED BY <1>1, <1>2, <1>3, <1>6, RenderedRests

\* Pages that show no more than before, and a cache that nothing came to.
LEMMA LessRests ==
  ASSUME ClientInv, RestInv, UNCHANGED <<store, stream, cache>>, change' = change \/ change' = Left,
         screen'.folder = screen.folder, screen'.open = screen.open \/ screen'.open = Nil
  PROVE  RestInv'
<1>1. Busy' <=> Busy
  BY SameBusy DEF ClientInv, TabInv
<1>2. \A k : k \in ActiveOn(screen') => k \in ActiveOn(screen)
  BY DEF ActiveOn
<1>3. \A k \in Keys : \A G : QueryOK(k, cache[k], screen, G) => QueryOK(k, cache'[k], screen', G)
  BY <1>2, LessOnScreen
<1> QED BY <1>1, <1>3, TabSteps DEF ClientInv

\* It is closed, or the dialog is opened or cancelled.
LEMMA PageRests ==
  ASSUME ClientInv, RestInv, CloseThread \/ AskPurge \/ CancelPurge
  PROVE  RestInv'
<1>1. UNCHANGED <<store, stream, cache>> /\ (change' = change \/ change' = Left)
  BY DEF CloseThread, AskPurge, CancelPurge
<1>2. screen'.folder = screen.folder /\ (screen'.open = screen.open \/ screen'.open = Nil)
  BY ClosedPageType DEF CloseThread, AskPurge, CancelPurge, ClientInv, TabInv, Screens
<1> QED BY <1>1, <1>2, LessRests

\* The user makes a change.
LEMMA ChangeRests ==
  ASSUME ClientInv, RestInv,
         \/ \E cs, kind, dest : Bulk(cs, kind, dest) \/ Conversation(kind, dest)
         \/ \E u : MarkUnread(u) \/ DeleteOne(u)
         \/ \E t : Undo(t)
  PROVE  RestInv'
<1>1. UNCHANGED <<store, stream>>
  BY DEF Bulk, Conversation, MarkUnread, DeleteOne, Undo
<1>2. Busy'
  <2>1. CASE \E cs, kind, dest : Bulk(cs, kind, dest)
    BY <2>1, MutateBusy DEF Bulk
  <2>2. CASE \E kind, dest : Conversation(kind, dest)
    BY <2>2, MutateBusy DEF Conversation
  <2>3. CASE \E u : MarkUnread(u)
    BY <2>3, MutateBusy DEF MarkUnread
  <2>4. CASE \E u : DeleteOne(u)
    BY <2>4, MutateBusy DEF DeleteOne
  <2>5. CASE \E t : Undo(t)
    BY <2>5, MutateBusy DEF Undo
  <2> QED BY <2>1, <2>2, <2>3, <2>4, <2>5
<1> QED BY <1>1, <1>2, TabSteps DEF ClientInv

\* The dialog is confirmed.
LEMMA ConfirmRests ==
  ASSUME ClientInv, RestInv, ConfirmPurge
  PROVE  RestInv'
<1>1. UNCHANGED <<store, stream>>
  BY DEF ConfirmPurge
<1>2. CASE UNCHANGED <<cache, change>>
  <2>1. screen \in Screens /\ ClosedPage \in Screens /\ ClosedPage.folder = screen.folder /\ ClosedPage.open = Nil
    BY ClosedPageType DEF ClientInv, TabInv
  <2>2. screen' = [screen EXCEPT !.ask = Closed] \/ screen' = [ClosedPage EXCEPT !.ask = Closed]
    BY DEF ConfirmPurge
  <2>3. screen'.folder = screen.folder /\ (screen'.open = screen.open \/ screen'.open = Nil)
    BY <2>1, <2>2 DEF Screens
  <2> QED BY <1>1, <1>2, <2>3, LessRests
<1>3. CASE ~UNCHANGED <<cache, change>>
  <2>1. \E i \in Calls : \E uids : Mutate(i, Mutated(i, "purge", screen.folder, uids, Nil, "page"), cache)
    BY <1>3 DEF ConfirmPurge
  <2>2. Busy'
    BY <2>1, MutateBusy
  <2> QED BY <1>1, <2>2, TabSteps DEF ClientInv
<1> QED BY <1>2, <1>3

\* A request is answered or fails: everything is fetched again.
LEMMA SettleRests ==
  ASSUME ClientInv, RestInv, NEW i \in Calls, Settle(i) \/ CallFails(i)
  PROVE  RestInv'
<1>1. UNCHANGED <<store, stream>> /\ cache' = InvalidateMail(cache, AllMail, screen) /\ screen' = screen
  BY DEF Settle, CallFails, OnSettled
<1>2. \A k \in Keys : cache'[k] = Invalidated(cache[k], k \in ActiveOn(screen)) /\ cache[k] \in CachedQueries
  BY <1>1 DEF InvalidateMail, AllMail, ClientInv, TabInv, CacheOK
<1>3. \A k \in Keys : \A G : QueryOK(k, cache'[k], screen', G)
  BY <1>1, <1>2, InvalidatedOK
<1> QED BY <1>1, <1>3, TabSteps DEF ClientInv

\* A fetch is put in the cache, fails or is asked by the user.
LEMMA FetchRests ==
  ASSUME ClientInv, RestInv, NEW k \in Keys, FetchFails(k) \/ Refresh \/ Land(k)
  PROVE  RestInv'
<1>1. UNCHANGED <<store, stream>> /\ cache \in [Keys -> CachedQueries] /\ screen \in Screens
  BY DEF FetchFails, Refresh, Land, ClientInv, TabInv, CacheOK
<1>2. CASE Land(k)
  <2> DEFINE q == [Unfetched EXCEPT !.data = cache[k].answer, !.outran = cache[k].outran]
             c == [cache EXCEPT ![k] = q]
  <2>1. cache[k].fly = "answered" /\ Rendered(c, screen)
    BY <1>2 DEF Land
  <2>2. q.fly = "no" /\ q.data = cache[k].answer /\ q.outran = cache[k].outran
    BY DEF Unfetched
  <2> HIDE DEF q
  <2>3. c[k] = q /\ \A j \in Keys : j # k => c[j] = cache[j]
    BY <1>1
  <2> HIDE DEF c
  <2>4. \A G : QueryOK(k, cache[k], screen, G) => QueryOK(k, c[k], screen, G)
    BY <2>1, <2>2, <2>3 DEF QueryOK
  <2>5. \A j \in Keys : \A G : QueryOK(j, cache[j], screen, G) => QueryOK(j, c[j], screen, G)
    BY <2>3, <2>4
  <2> QED BY <1>1, <2>1, <2>5, RenderedRests
<1>3. CASE FetchFails(k) \/ Refresh
  <2>1. screen' = screen /\ change' = change /\ (Busy' <=> Busy)
    BY <1>3 DEF FetchFails, Refresh, Busy
  <2>2. ASSUME NEW j \in Keys, NEW G, QueryOK(j, cache[j], screen, G)
        PROVE  QueryOK(j, cache'[j], screen', G)
    <3>1. CASE FetchFails(k) /\ j = k
      <4>1. cache'[k] = [Cancelled(cache[k]) EXCEPT !.error = TRUE]
        BY <1>1, <3>1 DEF FetchFails
      <4>2. cache'[k].fly = "no" /\ cache'[k].error
        BY <1>1, <4>1 DEF Cancelled, CachedQueries
      <4> QED BY <3>1, <4>2 DEF QueryOK
    <3>2. CASE Refresh /\ j = List
      <4>1. cache'[j] = cache[j] \/ cache'[j] = Ask(cache[j])
        BY <1>1, <3>2 DEF Refresh
      <4> QED BY <1>1, <2>1, <2>2, <4>1, AskedOK
    <3>3. CASE ~(FetchFails(k) /\ j = k) /\ ~(Refresh /\ j = List)
      <4>1. cache'[j] = cache[j]
        BY <1>1, <1>3, <3>3 DEF FetchFails, Refresh
      <4> QED BY <2>1, <2>2, <4>1
    <3> QED BY <3>1, <3>2, <3>3
  <2> QED BY <1>1, <2>1, <2>2, TabSteps DEF ClientInv
<1> QED BY <1>2, <1>3

\* A fetch is answered with what is right now.
LEMMA ReadRests ==
  ASSUME ClientInv, RestInv, NEW k \in Keys, Read(k)
  PROVE  RestInv'
<1>1. /\ UNCHANGED <<place, next, unread, sse, wire, torn, screen, change>> /\ cache \in [Keys -> CachedQueries] /\ Wire'
      /\ cache' = [cache EXCEPT ![k].fly = "answered", ![k].answer = Reply(k)]
  BY DEF Read, store, stream, ClientInv, TabInv, CacheOK, RestInv, Wire
<1>2. PICK P \in Snapshots : SeenAll(P) /\ \A j \in Keys : KeyInv(j, P)
  BY DEF RestInv
<1>3. SeenAll(P)'
  BY <1>1, <1>2 DEF SeenAll, Seen, Limit, Here, UidOf
<1>4. ASSUME NEW j \in Keys
      PROVE  KeyInv(j, P)'
  <2>1. Good(j, P)' = Good(j, P) /\ (Pending(j[1])' <=> Pending(j[1]))
    <3>1. Good(j, P)' = Good(j, P)
      BY <1>1, GoodSame
    <3>2. Pending(j[1])' <=> Pending(j[1])
      BY <1>1 DEF Pending, Busy, Coming, Late, ThereIn
    <3> QED BY <3>1, <3>2
  <2>2. CASE j = k /\ ~Pending(j[1])
    <3>1. sse.st = "ready" /\ k[1] \in Folders
      BY <2>2 DEF Pending, Keys
    <3>2. Reply(k) \in Good(k, P)
      BY <1>2, <3>1, AnswerGood DEF SeenAll, ClientInv
    <3>3. cache'[k].fly = "answered" /\ cache'[k].answer = Reply(k)
      BY <1>1 DEF CachedQueries
    <3> QED BY <2>1, <2>2, <3>2, <3>3 DEF KeyInv, QueryOK
  <2>3. CASE j # k
    <3>1. cache'[j] = cache[j]
      BY <1>1, <2>3
    <3> QED BY <1>1, <1>2, <2>1, <3>1 DEF KeyInv
  <2>4. CASE Pending(j[1])
    BY <2>1, <2>4 DEF KeyInv
  <2> QED BY <2>2, <2>3, <2>4
<1> QED BY <1>1, <1>3, <1>4 DEF RestInv

\* Where every message was when the stream looked.
Now == [f \in Folders |-> [m \in Messages |-> IF m \in Here(f) THEN UidOf(m) ELSE 0]]

\* A snapshot has seen every message there is.
LEMMA NowSeen ==
  ASSUME StreamInv, NEW f \in Folders, UNCHANGED <<place, next>>, sse'.snapshot[f] = Sig(f), NEW P, P[f] = Now[f]
  PROVE  Seen(f, P)'
<1>1. \A g \in Folders, m \in Messages : Now[g][m] = IF m \in Here(g) THEN UidOf(m) ELSE 0
  BY DEF Now
<1>2. \A g \in Folders : \A m \in Here(g) : m \in Messages /\ UidOf(m) \in Uids
  BY HereTyped
<1>4. Limit(f)' = next[f] /\ sse'.snapshot[f][1] = Cardinality(Here(f)) /\ next[f] \in Nat
  BY DEF Sig, Limit, StreamInv, StoreInv
<1>5. {m \in Messages : P[f][m] # 0} = Here(f)
  BY <1>1, <1>2
<1>6. Here(f)' = Here(f) /\ \A m \in Here(f) : UidOf(m)' = UidOf(m)
  BY DEF Here, UidOf
<1>7. \A m \in Here(f) : P[f][m] = UidOf(m)
  BY <1>1, <1>2
<1>8. Limit(f)' <= next'[f]
  BY <1>4
<1> QED BY <1>4, <1>5, <1>6, <1>7, <1>8 DEF Seen

\* It is one of the snapshots.
LEMMA NowType ==
  ASSUME StreamInv
  PROVE  Now \in Snapshots
<1>1. \A g \in Folders : \A m \in Here(g) : UidOf(m) \in Uids
  BY HereTyped
<1>2. \A g \in Folders, m \in Messages : (IF m \in Here(g) THEN UidOf(m) ELSE 0) \in Nat
  BY <1>1
<1> QED BY <1>2 DEF Now, Snapshots

\* The stream does something of its own: what was pending is, or is told to the tab.
LEMMA StreamSteps ==
  ASSUME StreamInv, RestInv, UNCHANGED <<store, cache, screen, change>>, Wire',
         NEW P \in Snapshots, SeenAll(P), \A k \in Keys : KeyInv(k, P),
         NEW Q \in Snapshots, SeenAll(Q)',
         \A f \in Folders : Pending(f) => Pending(f)',
         \A k \in Keys : Good(k, Q)' = Good(k, P) \/ Pending(k[1])'
  PROVE  RestInv'
<1>1. ASSUME NEW k \in Keys
      PROVE  KeyInv(k, Q)'
  <2>1. k[1] \in Folders
    BY DEF Keys
  <2> QED BY <2>1 DEF KeyInv
<1> QED BY <1>1 DEF RestInv

\* Without a stream every list waits for the resync.
LEMMA ConnectRests ==
  ASSUME ClientInv, RestInv, Connect \/ Break
  PROVE  RestInv'
<1>1. sse'.st # "ready"
  <2>1. CASE Connect
    <3>1. Off.st = "off" /\ DOMAIN Off = {"st", "nextUid", "scans", "snapshot"}
      BY DEF Off
    <3>2. sse'.st = "opened"
      BY <2>1, <3>1 DEF Connect
    <3> QED BY <3>2
  <2>2. CASE Break
    BY <2>2 DEF Break, Off
  <2> QED BY <2>1, <2>2
<1>2. Wire'
  <2>1. CASE Connect
    BY <2>1 DEF Connect, RestInv, Wire
  <2>2. CASE Break
    <3>1. wire' \in Seq({})
      BY <2>2, EmptySeq DEF Break
    <3> QED BY <3>1 DEF Wire
  <2> QED BY <2>1, <2>2
<1>3. PICK P \in Snapshots : SeenAll(P)
  BY DEF RestInv
<1> QED BY <1>1, <1>2, <1>3 DEF RestInv, SeenAll, KeyInv, Pending

\* So it does once the resync is on its way.
LEMMA SnapRests ==
  ASSUME ClientInv, RestInv, Snap
  PROVE  RestInv'
<1>1. /\ UNCHANGED <<place, next>> /\ sse'.snapshot = FolderSnapshot /\ sse'.st = "ready"
      /\ wire' = Append(wire, [type |-> "ready", folder |-> Nil, uid |-> 0])
  BY DEF Snap, store, ClientInv, StreamInv, SseType
<1>2. Wire' /\ \A f : Coming(f)'
  BY <1>1, WireAppends DEF RestInv
<1>3. PICK P \in Snapshots : P = Now
  BY NowType DEF ClientInv
<1>4. \A f \in Folders : Seen(f, P)'
  BY <1>1, <1>3, NowSeen DEF ClientInv, FolderSnapshot
<1> QED BY <1>2, <1>4 DEF RestInv, SeenAll, KeyInv, Pending

\* What is right for a folder does not depend on the snapshots of others.
LEMMA GoodWhere ==
  ASSUME UNCHANGED <<place, next, unread>>, NEW k, NEW P, NEW Q,
         k[1] = Inbox \/ (sse'.snapshot[k[1]] = sse.snapshot[k[1]] /\ Q[k[1]] = P[k[1]])
  PROVE  Good(k, Q)' = Good(k, P)
<1>1. CASE k[1] = Inbox
  <2>1. Reply(k)' = Reply(k)
    BY DEF Reply, Row, Here, UidOf
  <2> QED BY <1>1, <2>1 DEF Good
<1>2. CASE k[1] # Inbox
  <2>1. sse'.snapshot[k[1]] = sse.snapshot[k[1]] /\ Q[k[1]] = P[k[1]]
    BY <1>2
  <2>2. Good(k, Q)' = Good(k, Q)
    BY <2>1, GoodSame
  <2>3. Good(k, Q) = Good(k, P)
    BY <2>1 DEF Good
  <2> QED BY <2>2, <2>3
<1> QED BY <1>1, <1>2

\* A poll sends an event for every folder whose snapshot it replaces.
LEMMA PollRests ==
  ASSUME ClientInv, RestInv, Poll
  PROVE  RestInv'
<1>1. /\ UNCHANGED <<place, next, unread, cache, screen, change, torn>> /\ sse' = [sse EXCEPT !.snapshot = FolderSnapshot]
      /\ sse.st = "ready"
  BY DEF Poll, tab, store
<1>2. /\ sse'.snapshot = FolderSnapshot /\ sse'.st = "ready" /\ sse'.scans = sse.scans /\ sse'.nextUid = sse.nextUid
  BY <1>1 DEF ClientInv, StreamInv, SseType
<1>3. PICK order \in [1..Cardinality(ChangedFolders) -> ChangedFolders] :
        /\ \A f \in ChangedFolders : \E j \in DOMAIN order : order[j] = f
        /\ wire' = wire \o [j \in DOMAIN order |-> [type |-> "folder", folder |-> order[j], uid |-> 0]]
  BY DEF Poll
<1> DEFINE n == Cardinality(ChangedFolders)
           t == [j \in DOMAIN order |-> [type |-> "folder", folder |-> order[j], uid |-> 0]]
<1>4. n \in Nat /\ DOMAIN order = 1..n
  BY <1>3, FinitelyMany, FS_Subset, FS_CardinalityType DEF ChangedFolders
<1>5. DOMAIN t = 1..n /\ t = [j \in 1..n |-> t[j]] /\ wire' = wire \o t /\ \A f \in ChangedFolders : \E j \in 1..n : t[j].folder = f
  BY <1>3, <1>4
<1> HIDE DEF t, n
<1>6. Wire' /\ (\A f : Coming(f) => Coming(f)') /\ \A f \in ChangedFolders : Coming(f)'
  BY <1>4, <1>5, WireGrows DEF RestInv
<1>7. PICK P \in Snapshots : SeenAll(P) /\ \A k \in Keys : KeyInv(k, P)
  BY DEF RestInv
<1>8. PICK Q \in Snapshots : \A f \in Folders : Q[f] = IF Sig(f) = sse.snapshot[f] THEN P[f] ELSE Now[f]
  <2> DEFINE R == [f \in Folders |-> IF Sig(f) = sse.snapshot[f] THEN P[f] ELSE Now[f]]
  <2>1. Now \in Snapshots
    BY NowType DEF ClientInv
  <2>2. R \in Snapshots
    BY <2>1 DEF Snapshots
  <2> QED BY <2>2
<1>9. ASSUME NEW f \in Folders
      PROVE  Seen(f, Q)'
  <2>1. sse'.snapshot[f] = Sig(f)
    BY <1>2 DEF FolderSnapshot
  <2>2. CASE Sig(f) = sse.snapshot[f]
    <3>1. Seen(f, P) /\ Q[f] = P[f]
      BY <1>1, <1>7, <1>8, <2>2 DEF SeenAll
    <3> QED BY <1>1, <2>1, <2>2, <3>1 DEF Seen, Limit, Here, UidOf
  <2>3. CASE Sig(f) # sse.snapshot[f]
    BY <1>1, <1>8, <2>1, <2>3, NowSeen DEF ClientInv
  <2> QED BY <2>2, <2>3
<1>10. \A f \in Folders : Pending(f) => Pending(f)'
  BY <1>1, <1>2, <1>6 DEF Pending, Busy, Late, ThereIn
<1>11. ASSUME NEW k \in Keys
       PROVE  Good(k, Q)' = Good(k, P) \/ Pending(k[1])'
  <2>1. k[1] \in Folders
    BY DEF Keys
  <2>2. CASE k[1] = Inbox
    BY <1>1, <2>2, GoodWhere
  <2>3. CASE k[1] # Inbox /\ Sig(k[1]) = sse.snapshot[k[1]]
    <3>1. sse'.snapshot[k[1]] = sse.snapshot[k[1]] /\ Q[k[1]] = P[k[1]]
      BY <1>2, <1>8, <2>1, <2>3 DEF FolderSnapshot
    <3> QED BY <1>1, <3>1, GoodWhere
  <2>4. CASE k[1] # Inbox /\ Sig(k[1]) # sse.snapshot[k[1]]
    <3>1. Coming(k[1])'
      BY <1>6, <2>1, <2>4 DEF ChangedFolders
    <3> QED BY <3>1 DEF Pending
  <2> QED BY <2>2, <2>3, <2>4
<1>12. SeenAll(Q)' /\ UNCHANGED <<store, cache, screen, change>>
  BY <1>1, <1>9 DEF SeenAll, store
<1>13. StreamInv
  BY DEF ClientInv
<1> QED BY <1>6, <1>7, <1>10, <1>11, <1>12, <1>13, StreamSteps

\* A scan sends an event for every message it found.
LEMMA ScanRests ==
  ASSUME ClientInv, RestInv, Scan \/ ScanFails
  PROVE  RestInv'
<1>1. UNCHANGED <<place, next, unread, cache, screen, change>> /\ sse'.snapshot = sse.snapshot /\ sse'.st = sse.st
  BY DEF Scan, ScanFails, tab, store, ClientInv, StreamInv, SseType
<1>2. Wire' /\ (\A f : Coming(f) => Coming(f)') /\ (Late => Coming(Inbox)' \/ torn')
  <2>1. CASE ScanFails
    BY <2>1 DEF ScanFails, RestInv, Wire, Coming
  <2>2. CASE Scan
    <3> DEFINE new == FoundUids \ NotNew(FoundUids)
               n == Cardinality(new)
               t == Announced(new)
    <3>1. wire' = wire \o t /\ torn' = torn
      BY <2>2 DEF Scan
    <3>2. /\ \A u \in new : u \in Uids
          /\ \A u \in Uids : ThereIn(u) /\ sse.nextUid <= u => u \in new
      <4>1. sse.nextUid \in Nat
        BY DEF ClientInv, StreamInv, SseType
      <4> QED BY <4>1, InboxUids DEF ClientInv, NotNew
    <3>3. DOMAIN t = 1..n /\ t = [j \in 1..n |-> t[j]] /\ \A j \in 1..n : t[j].folder = Inbox
      BY DEF Announced
    <3> HIDE DEF new, t
    <3>4. IsFiniteSet(new) /\ n \in Nat /\ (new # {} => n > 0)
      <4>1. IsFiniteSet(1..MaxUid)
        BY FS_Interval
      <4>2. IsFiniteSet(new)
        BY <3>2, <4>1, FS_Subset
      <4> QED BY <4>2, FS_CardinalityType, FS_EmptySet
    <3> HIDE DEF n
    <3>5. Wire' /\ (\A f : Coming(f) => Coming(f)') /\ ((\E j \in 1..n : t[j].folder = Inbox) => Coming(Inbox)')
      BY <3>1, <3>3, <3>4, WireGrows DEF RestInv
    <3>6. new # {} => Coming(Inbox)'
      <4>1. n > 0 => 1 \in 1..n
        BY <3>4
      <4> QED BY <3>3, <3>4, <3>5, <4>1
    <3> QED BY <3>1, <3>2, <3>5, <3>6 DEF Late
  <2> QED BY <2>1, <2>2
<1>3. PICK P \in Snapshots : SeenAll(P) /\ \A k \in Keys : KeyInv(k, P)
  BY DEF RestInv
<1>4. \A f \in Folders : Pending(f) => Pending(f)'
  BY <1>1, <1>2 DEF Pending, Busy, Late
<1>5. \A k \in Keys : Good(k, P)' = Good(k, P)
  BY <1>1, GoodSame
<1>6. SeenAll(P)' /\ UNCHANGED <<store, cache, screen, change>>
  BY <1>1, <1>3 DEF SeenAll, Seen, Limit, Here, UidOf, store
<1>7. StreamInv
  BY DEF ClientInv
<1> QED BY <1>2, <1>3, <1>4, <1>5, <1>6, <1>7, StreamSteps

\* An event refetches the lists of its folder.
LEMMA EventRests ==
  ASSUME ClientInv, RestInv, OnEvent
  PROVE  RestInv'
<1>1. /\ UNCHANGED <<place, next, unread, sse, torn, screen, change>> /\ wire # <<>> /\ wire' = Tail(wire)
      /\ cache' = InvalidateMail(cache, IF Head(wire).type = "ready" THEN AllMail ELSE MailOf(Head(wire).folder), screen)
      /\ cache \in [Keys -> CachedQueries]
  BY DEF OnEvent, OnReady, store, ClientInv, TabInv, CacheOK
<1>2. Wire' /\ \A f : Coming(f) => Coming(f)' \/ Head(wire).type = "ready" \/ Head(wire).folder = f
  BY <1>1, WireShrinks DEF RestInv
<1>3. PICK P \in Snapshots : SeenAll(P) /\ \A k \in Keys : KeyInv(k, P)
  BY DEF RestInv
<1>4. SeenAll(P)'
  BY <1>1, <1>3 DEF SeenAll, Seen, Limit, Here, UidOf
<1>5. ASSUME NEW k \in Keys
      PROVE  KeyInv(k, P)'
  <2> DEFINE ks == IF Head(wire).type = "ready" THEN AllMail ELSE MailOf(Head(wire).folder)
  <2>1. Good(k, P)' = Good(k, P)
    BY <1>1, GoodSame
  <2>2. CASE k \in ks
    <3>1. cache'[k] = Invalidated(cache[k], k \in ActiveOn(screen)) /\ cache[k] \in CachedQueries
      BY <1>1, <2>2 DEF InvalidateMail
    <3>2. \A G : QueryOK(k, cache'[k], screen', G)
      BY <1>1, <3>1, InvalidatedOK
    <3> QED BY <3>2 DEF KeyInv
  <2>3. CASE k \notin ks
    <3>1. cache'[k] = cache[k]
      BY <1>1, <2>3 DEF InvalidateMail
    <3>2. Head(wire).type # "ready" /\ Head(wire).folder # k[1]
      BY <2>3 DEF AllMail, MailOf
    <3>3. Pending(k[1]) => Pending(k[1])'
      BY <1>1, <1>2, <3>2 DEF Pending, Busy, Late, ThereIn
    <3> QED BY <1>1, <1>3, <2>1, <3>1, <3>3 DEF KeyInv
  <2> QED BY <2>2, <2>3
<1> QED BY <1>2, <1>4, <1>5 DEF RestInv

\* A change of INBOX is on its way to the tab, or a scan for it is queued.
LEMMA NotifyTells ==
  ASSUME SseType, Wire, NEW fs, NEW arrived, Notify(fs, arrived)
  PROVE  /\ sse'.st = sse.st /\ sse'.snapshot = sse.snapshot /\ sse'.nextUid = sse.nextUid /\ torn' = torn
         /\ sse.scans > 0 => sse'.scans > 0
         /\ Wire' /\ \A f : Coming(f) => Coming(f)'
         /\ sse.st = "ready" => (Inbox \in fs => Coming(Inbox)') /\ (arrived # {} => sse'.scans > 0)
<1> DEFINE e == [type |-> "folder", folder |-> Inbox, uid |-> 0]
<1>1. PICK heard \in BOOLEAN :
        /\ sse.st = "ready" => heard
        /\ sse' = [sse EXCEPT !.scans = IF heard /\ arrived # {} THEN 1 ELSE @]
        /\ wire' = IF heard /\ Inbox \in fs THEN Append(wire, e) ELSE wire
        /\ torn' = torn
  BY DEF Notify
<1>2. /\ sse'.st = sse.st /\ sse'.snapshot = sse.snapshot /\ sse'.nextUid = sse.nextUid
      /\ sse.scans > 0 => sse'.scans > 0
      /\ heard /\ arrived # {} => sse'.scans > 0
  BY <1>1 DEF SseType
<1>3. CASE heard /\ Inbox \in fs
  <2>1. wire' = Append(wire, e) /\ e.folder = Inbox
    BY <1>1, <1>3
  <2> HIDE DEF e
  <2>2. Wire' /\ (\A f : Coming(f) => Coming(f)') /\ Coming(Inbox)'
    BY <2>1, WireAppends
  <2> QED BY <1>1, <1>2, <2>2
<1>4. CASE ~(heard /\ Inbox \in fs)
  <2>1. wire' = wire
    BY <1>1, <1>4
  <2>2. Wire' /\ \A f : Coming(f) => Coming(f)'
    BY <2>1 DEF Wire, Coming
  <2> QED BY <1>1, <1>2, <1>4, <2>2
<1> QED BY <1>3, <1>4

\* The server does what the tab asked: the answer is still to come.
LEMMA ApplyRests ==
  ASSUME ClientInv, RestInv, NEW i \in Calls, ApplyFlags(i) \/ ApplyMove(i) \/ ApplyPurge(i)
  PROVE  RestInv'
<1>1. Busy'
  <2>1. \E moved : change' = [change EXCEPT ![i].st = "applied", ![i].moved = moved]
    BY DEF ApplyFlags, ApplyMove, ApplyPurge, Applied
  <2>2. change'[i].st = "applied"
    BY <2>1 DEF ClientInv, TabInv, ChangeRows
  <2> QED BY <2>2 DEF Busy
<1>2. StreamInv'
  BY RequestedKeeps
<1>3. (\E fs, arrived : Notify(fs, arrived)) \/ UNCHANGED stream
  BY DEF ApplyFlags, ApplyMove, ApplyPurge, Moved
<1>4. sse'.snapshot = sse.snapshot /\ sse'.st = sse.st /\ Wire'
  <2>1. CASE UNCHANGED stream
    BY <2>1 DEF stream, RestInv, Wire
  <2>2. CASE \E fs, arrived : Notify(fs, arrived)
    BY <2>2, NotifyTells DEF RestInv, ClientInv, StreamInv
  <2> QED BY <1>3, <2>1, <2>2
<1>5. /\ \A f \in Folders : next[f] <= next'[f]
      /\ \A m \in Messages : place'[m] # Nil /\ place'[m] # place[m] => next[place'[m][1]] <= place'[m][2]
  <2>1. CASE ApplyFlags(i) \/ ApplyPurge(i)
    BY <2>1 DEF ApplyFlags, ApplyPurge, ClientInv, StreamInv, StoreInv
  <2>2. CASE ApplyMove(i)
    <3>1. Hit(i) \subseteq Here(change[i].folder) /\ Destination(i) \in Folders /\ Moved(Hit(i), Destination(i))
      BY <2>2 DEF Hit, ApplyMove, ClientInv, TabInv, Request, Destination
    <3> QED BY <3>1, MoveKeeps DEF ClientInv
  <2> QED BY <2>1, <2>2
<1>6. Steady
  BY <1>2, <1>4, <1>5 DEF Steady, ClientInv, StreamInv, StoreInv
<1> QED BY <1>1, <1>2, <1>4, <1>6, BusyKeeps DEF ClientInv, StreamInv

-----------------------------------------------------------------------------
(* Others.                                                                 *)

\* Someone else does something: the stream tells the tab what changed in INBOX, and looks at the other folders later.
LEMMA OthersSteps ==
  ASSUME StreamInv, StreamInv', RestInv, Steady, UNCHANGED <<cache, screen, change, torn>>,
         sse'.st = sse.st, sse'.nextUid = sse.nextUid, sse.scans > 0 => sse'.scans > 0,
         Wire', \A f : Coming(f) => Coming(f)',
         \/ Pending(Inbox)'
         \/ /\ \A m \in Messages : place'[m] # place[m] => m \notin Here(Inbox) /\ m \notin Here(Inbox)'
            /\ \A m \in Here(Inbox) : (m \in unread) <=> (m \in unread')
  PROVE  RestInv'
<1>1. PICK P \in Snapshots : SeenAll(P) /\ \A k \in Keys : KeyInv(k, P)
  BY DEF RestInv
<1>2. CASE sse.st # "ready"
  BY <1>2 DEF RestInv, SeenAll, KeyInv, Pending
<1>3. CASE sse.st = "ready"
  <2>1. \A f \in Folders : Seen(f, P) /\ Seen(f, P)'
    <3>1. \A f \in Folders : Seen(f, P)
      BY <1>1, <1>3 DEF SeenAll
    <3> QED BY <3>1, SeenKept DEF StreamInv
  <2>2. ASSUME NEW k \in Keys
        PROVE  KeyInv(k, P)'
    <3>1. k[1] \in Folders
      BY DEF Keys
    <3>2. CASE k[1] # Inbox
      <4>1. Pending(k[1]) => Pending(k[1])'
        BY <3>2 DEF Pending, Busy
      <4>2. Good(k, P) \subseteq Good(k, P)'
        BY <2>1, <3>1, <3>2, GoodKept DEF StreamInv
      <4>3. QueryOK(k, cache[k], screen, Good(k, P)) => QueryOK(k, cache'[k], screen', Good(k, P)')
        BY <4>2, MoreIsGood
      <4> QED BY <1>1, <4>1, <4>3 DEF KeyInv
    <3>3. CASE k[1] = Inbox /\ ~Pending(Inbox)'
      <4>1. Good(k, P)' = Good(k, P)
        BY <3>3, InboxSame DEF StreamInv
      <4>2. \A u \in Uids : ThereIn(u) => ThereIn(u)'
        <5>1. \A m \in Messages, u \in Uids : place[m] = <<Inbox, u>> => m \in Here(Inbox)
          BY DEF Here
        <5> QED BY <3>3, <5>1 DEF ThereIn
      <4>3. Pending(Inbox) => Pending(Inbox)'
        BY <4>2 DEF Pending, Busy, Late
      <4> QED BY <1>1, <3>3, <4>1, <4>3 DEF KeyInv
    <3>4. CASE k[1] = Inbox /\ Pending(Inbox)'
      BY <3>4 DEF KeyInv
    <3> QED BY <3>2, <3>3, <3>4
  <2> QED BY <2>1, <2>2 DEF RestInv, SeenAll
<1> QED BY <1>2, <1>3

\* Another app moves a message.
LEMMA MoveRests ==
  ASSUME ClientInv, RestInv, NEW m \in Messages, NEW g \in Folders, OtherAppMoves(m, g)
  PROVE  RestInv'
<1> DEFINE h == place[m][1]
<1>1. m \in Here(h) /\ {m} \subseteq Here(h) /\ h \in Folders /\ h # g /\ UNCHANGED <<cache, screen, change, unread>> /\ Moved({m}, g)
  BY DEF OtherAppMoves, Here, tab, ClientInv, StreamInv, StoreInv
<1>2. /\ StreamInv' /\ \A f \in Folders : next[f] <= next'[f]
      /\ place'[m] \in Folders \X Uids /\ place'[m][1] = g /\ next[g] <= place'[m][2]
      /\ \A n \in Messages \ {m} : place'[n] = place[n]
  <2>1. StreamInv
    BY DEF ClientInv
  <2> HIDE DEF h
  <2>2. PICK ms : ms = {m}
    OBVIOUS
  <2>3. ms \subseteq Here(h) /\ Moved(ms, g)
    BY <1>1, <2>2
  <2>4. /\ StreamInv' /\ \A f \in Folders : next[f] <= next'[f]
        /\ \A n \in ms : place'[n] \in Folders \X Uids /\ place'[n][1] = g /\ next[g] <= place'[n][2]
        /\ \A n \in Messages \ ms : place'[n] = place[n]
    BY <2>1, <2>3, MoveKeeps
  <2> QED BY <2>2, <2>4
<1>3. \E fs, arrived : Notify(fs, arrived) /\ h \in fs /\ (g = Inbox => arrived # {})
  <2> DEFINE rank(a) == Cardinality({n \in {m} : UidOf(n) < UidOf(a)})
             to == [a \in {m} |-> next[g] + rank(a)]
  <2>1. Notify({place[a][1] : a \in {m}}, IF g = Inbox THEN {to[a] : a \in {m}} ELSE {})
    BY <1>1 DEF Moved
  <2>2. h \in {place[a][1] : a \in {m}} /\ {to[a] : a \in {m}} # {}
    OBVIOUS
  <2> HIDE DEF to
  <2> QED BY <2>1, <2>2
<1>4. /\ sse'.st = sse.st /\ sse'.snapshot = sse.snapshot /\ sse'.nextUid = sse.nextUid /\ torn' = torn
      /\ sse.scans > 0 => sse'.scans > 0
      /\ Wire' /\ \A f : Coming(f) => Coming(f)'
      /\ sse.st = "ready" => (h = Inbox => Coming(Inbox)') /\ (g = Inbox => sse'.scans > 0)
  BY <1>3, NotifyTells DEF RestInv, ClientInv, StreamInv
<1>5. Steady
  BY <1>2, <1>4 DEF Steady, ClientInv, StreamInv, StoreInv
<1>6. CASE h = Inbox
  <2>1. Pending(Inbox)'
    BY <1>4, <1>6 DEF Pending
  <2> QED BY <1>1, <1>2, <1>4, <1>5, <2>1, OthersSteps DEF ClientInv
<1>7. CASE g = Inbox
  <2>1. PICK u \in Uids : place'[m] = <<Inbox, u>> /\ next[Inbox] <= u
    BY <1>2, <1>7
  <2>2. sse'.nextUid <= u
    <3>1. sse.nextUid \in Nat /\ next[Inbox] \in Nat /\ sse.nextUid <= next[Inbox]
      BY DEF ClientInv, StreamInv, StoreInv, SseType, ToldInv
    <3> QED BY <1>4, <2>1, <3>1
  <2>3. Pending(Inbox)'
    BY <1>4, <1>7, <2>1, <2>2 DEF Pending, Late, ThereIn
  <2> QED BY <1>1, <1>2, <1>4, <1>5, <2>3, OthersSteps DEF ClientInv
<1>8. CASE h # Inbox /\ g # Inbox
  <2>1. \A n \in Messages : place'[n] # place[n] => n \notin Here(Inbox) /\ n \notin Here(Inbox)'
    BY <1>2, <1>8 DEF Here
  <2> QED BY <1>1, <1>2, <1>4, <1>5, <2>1, OthersSteps DEF ClientInv
<1> QED BY <1>6, <1>7, <1>8

\* A message comes to INBOX.
LEMMA DeliverRests ==
  ASSUME ClientInv, RestInv, NEW m \in Messages, Deliver(m)
  PROVE  RestInv'
<1> DEFINE u == next[Inbox]
<1>1. /\ UNCHANGED <<cache, screen, change, unread>> /\ Notify({}, {u})
      /\ place' = [place EXCEPT ![m] = <<Inbox, u>>] /\ next' = [next EXCEPT ![Inbox] = @ + 1]
      /\ u \in Uids
  BY DEF Deliver, tab, ClientInv, StreamInv, StoreInv
<1>2. StreamInv'
  BY DeliverKeeps DEF ClientInv
<1>3. /\ sse'.st = sse.st /\ sse'.snapshot = sse.snapshot /\ sse'.nextUid = sse.nextUid /\ torn' = torn
      /\ sse.scans > 0 => sse'.scans > 0
      /\ Wire' /\ \A f : Coming(f) => Coming(f)'
      /\ sse.st = "ready" => sse'.scans > 0
  BY <1>1, NotifyTells DEF RestInv, ClientInv, StreamInv
<1>4. place'[m] = <<Inbox, u>> /\ \A n \in Messages \ {m} : place'[n] = place[n]
  BY <1>1 DEF ClientInv, StreamInv, StoreInv
<1>5. Steady
  <2>1. \A f \in Folders : next[f] \in Nat /\ next'[f] \in Nat /\ next[f] <= next'[f]
    BY <1>1 DEF ClientInv, StreamInv, StoreInv
  <2>2. \A n \in Messages : place'[n] # Nil /\ place'[n] # place[n] => next[place'[n][1]] <= place'[n][2]
    BY <1>4, <2>1
  <2> QED BY <1>3, <2>1, <2>2 DEF Steady
<1>6. Pending(Inbox)'
  <2>1. PICK v \in Uids : v = u
    BY <1>1
  <2>2. place'[m] = <<Inbox, v>> /\ sse'.nextUid <= v
    BY <1>3, <1>4, <2>1 DEF ClientInv, StreamInv, ToldInv
  <2> QED BY <1>3, <2>2 DEF Pending, Late, ThereIn
<1> QED BY <1>1, <1>2, <1>3, <1>5, <1>6, OthersSteps DEF ClientInv

\* Another app marks a message.
LEMMA FlagRests ==
  ASSUME ClientInv, RestInv, NEW m \in Messages, OtherAppFlags(m)
  PROVE  RestInv'
<1>1. /\ UNCHANGED <<place, next, cache, screen, change>> /\ Notify({place[m][1]}, {}) /\ place[m] # Nil
      /\ \A n \in Messages : n # m => ((n \in unread) <=> (n \in unread'))
  BY DEF OtherAppFlags, tab
<1>2. StreamInv'
  BY <1>1, FlagsKeep DEF ClientInv
<1>3. /\ sse'.st = sse.st /\ sse'.snapshot = sse.snapshot /\ sse'.nextUid = sse.nextUid /\ torn' = torn
      /\ sse.scans > 0 => sse'.scans > 0
      /\ Wire' /\ \A f : Coming(f) => Coming(f)'
      /\ sse.st = "ready" => (place[m][1] = Inbox => Coming(Inbox)')
  BY <1>1, NotifyTells DEF RestInv, ClientInv, StreamInv
<1>4. Steady
  BY <1>1, <1>3 DEF Steady, ClientInv, StreamInv, StoreInv
<1>5. \/ Pending(Inbox)'
      \/ /\ \A n \in Messages : place'[n] # place[n] => n \notin Here(Inbox) /\ n \notin Here(Inbox)'
         /\ \A n \in Here(Inbox) : (n \in unread) <=> (n \in unread')
  <2>1. CASE place[m][1] = Inbox
    BY <1>3, <2>1 DEF Pending
  <2>2. CASE place[m][1] # Inbox
    BY <1>1, <2>2 DEF Here
  <2> QED BY <2>1, <2>2
<1> QED BY <1>1, <1>2, <1>3, <1>4, <1>5, OthersSteps DEF ClientInv

\* The page at first shows the mailbox.
LEMMA InitRests ==
  ASSUME MailInit
  PROVE  RestInv
<1>1. PICK m \in Messages, f \in {Inbox, Trash} :
       /\ place = [n \in Messages |-> IF n = m THEN <<f, 1>> ELSE Nil]
       /\ next = [g \in Folders |-> IF g = f THEN 2 ELSE 1]
       /\ cache = [k \in Keys |-> IF k = <<f, Nil>> THEN [Unfetched EXCEPT !.data = {[conv |-> Conv[m], uids |-> {1}, unread |-> TRUE]}]
                                  ELSE Unfetched]
       /\ screen = [folder |-> f, open |-> Nil, seenUids |-> {}, ask |-> Closed]
       /\ sse = [Off EXCEPT !.st = "ready", !.nextUid = next[Inbox],
                 !.snapshot = [g \in Folders |-> IF g = f THEN <<1, 1, 2>> ELSE <<0, 0, 1>>]]
  BY DEF MailInit
<1>2. StreamInv /\ unread = Messages /\ f \in Folders
  BY FromInit DEF MailInit, ClientInv
<1>3. Wire
  <2>1. wire \in Seq({})
    BY EmptySeq DEF MailInit
  <2> QED BY <2>1 DEF Wire
<1>4. Here(f) = {m} /\ UidOf(m) = 1 /\ \A g \in Folders : g # f => Here(g) = {}
  <2>1. place[m] = <<f, 1>> /\ <<f, 1>> # Nil
    BY <1>1, <1>2
  <2>2. \A n \in Messages : n # m => place[n] = Nil
    BY <1>1
  <2> QED BY <2>1, <2>2 DEF Here, UidOf
<1>5. sse.snapshot = [g \in Folders |-> IF g = f THEN <<1, 1, 2>> ELSE <<0, 0, 1>>]
  <2> DEFINE ss == [g \in Folders |-> IF g = f THEN <<1, 1, 2>> ELSE <<0, 0, 1>>]
  <2>1. sse = [Off EXCEPT !.st = "ready", !.nextUid = next[Inbox], !.snapshot = ss]
    BY <1>1
  <2> HIDE DEF ss
  <2>2. sse.snapshot = ss
    BY <2>1 DEF Off
  <2> QED BY <2>2 DEF ss
<1>6. \A g \in Folders : /\ sse.snapshot[g][1] = IF g = f THEN 1 ELSE 0
                         /\ Limit(g) = next[g] /\ next[g] \in Nat
  BY <1>1, <1>5 DEF Limit
<1>7. Now \in Snapshots /\ SeenAll(Now)
  <2>1. ASSUME NEW g \in Folders
        PROVE  Seen(g, Now)
    <3>1. \A n \in Messages : Now[g][n] = IF n \in Here(g) THEN UidOf(n) ELSE 0
      BY DEF Now
    <3>2. CASE g = f
      <4> DEFINE S == {n \in Messages : Now[g][n] # 0}
      <4>1. S = {m}
        BY <1>4, <3>1, <3>2
      <4>2. Cardinality({m}) = 1
        BY FS_Singleton
      <4> HIDE DEF S
      <4>5. Cardinality(S) = IF g = f THEN 1 ELSE 0
        BY <3>2, <4>1, <4>2
      <4>3. Limit(g) <= next[g] /\ Cardinality(S) = sse.snapshot[g][1]
        BY <1>6, <4>5
      <4>4. \A n \in Here(g) : Now[g][n] = UidOf(n)
        BY <3>1 DEF Here
      <4> QED BY <4>3, <4>4 DEF Seen, S
    <3>3. CASE g # f
      <4> DEFINE S == {n \in Messages : Now[g][n] # 0}
      <4>1. S = {}
        BY <1>4, <3>1, <3>3
      <4>2. Cardinality({}) = 0
        BY FS_EmptySet
      <4> HIDE DEF S
      <4>5. Cardinality(S) = IF g = f THEN 1 ELSE 0
        BY <3>3, <4>1, <4>2
      <4>3. Limit(g) <= next[g] /\ Cardinality(S) = sse.snapshot[g][1]
        BY <1>6, <4>5
      <4>4. \A n \in Here(g) : Now[g][n] = UidOf(n)
        BY <3>1 DEF Here
      <4> QED BY <4>3, <4>4 DEF Seen, S
    <3> QED BY <3>2, <3>3
  <2> QED BY <1>2, <2>1, NowType DEF SeenAll
<1>8. ASSUME NEW k \in Keys
      PROVE  KeyInv(k, Now)
  <2>1. CASE k = <<f, Nil>>
    <3> DEFINE row == [conv |-> Conv[m], uids |-> {1}, unread |-> TRUE]
    <3>1. Reply(k) = {Row(Conv[m], {m})}
      <4>1. {Conv[n] : n \in Here(f)} = {Conv[m]} /\ {n \in Here(f) : Conv[n] = Conv[m]} = {m}
        BY <1>4
      <4>2. k[1] = f /\ k[2] = Nil
        BY <2>1
      <4>3. Reply(k) = {Row(c, {n \in Here(f) : Conv[n] = c}) : c \in {Conv[n] : n \in Here(f)}}
        BY <4>2 DEF Reply
      <4> DEFINE Of(c) == {n \in Here(f) : Conv[n] = c}
      <4>4. Of(Conv[m]) = {m} /\ Reply(k) = {Row(c, Of(c)) : c \in {Conv[m]}}
        BY <4>1, <4>3
      <4> HIDE DEF Of
      <4> QED BY <4>4
    <3>2. Row(Conv[m], {m}) = row
      BY <1>2, <1>4 DEF Row
    <3>3. Seen(f, Now) /\ sse.st = "ready"
      <4>1. sse.st = "ready"
        BY <1>1 DEF Off
      <4> QED BY <1>2, <1>7, <4>1 DEF SeenAll
    <3>4. {row} \in Good(k, Now)
      <4>1. k[1] = f /\ {row} = Reply(k)
        BY <2>1, <3>1, <3>2
      <4>2. k[1] # Inbox => Seen(k[1], Now)
        BY <3>3, <4>1
      <4>3. Reply(k) \in Good(k, Now)
        BY <1>2, <1>7, <4>2, AnswerGood
      <4> HIDE DEF row
      <4> QED BY <4>1, <4>3
    <3>5. cache[k] = [Unfetched EXCEPT !.data = {row}]
      BY <1>1, <2>1
    <3> HIDE DEF row
    <3>6. cache[k].fly = "no" /\ cache[k].data = {row}
      BY <3>5 DEF Unfetched
    <3> QED BY <3>4, <3>6 DEF KeyInv, QueryOK
  <2>2. CASE k # <<f, Nil>>
    <3>1. cache[k] = Unfetched
      BY <1>1, <2>2
    <3>2. ActiveOn(screen) = {<<f, Nil>>}
      BY <1>1 DEF ActiveOn
    <3> QED BY <2>2, <3>1, <3>2 DEF KeyInv, QueryOK, Unfetched
  <2> QED BY <2>1, <2>2
<1> QED BY <1>3, <1>7, <1>8 DEF RestInv

\* The user.
LEMMA UserRests ==
  ASSUME ClientInv, RestInv, User
  PROVE  RestInv'
<1>1. CASE \E c \in Convs : OpenThread(c)
  BY <1>1, OpenRests
<1>2. CASE (\E cs, kind, dest : Bulk(cs, kind, dest)) \/ (\E kind, dest : Conversation(kind, dest))
           \/ (\E u : MarkUnread(u) \/ DeleteOne(u)) \/ (\E t : Undo(t))
  BY <1>2, ChangeRests
<1>3. CASE \E f \in Folders : GoFolder(f)
  BY <1>3, GoRests
<1>4. CASE CloseThread \/ AskPurge \/ CancelPurge
  BY <1>4, PageRests
<1>5. CASE ConfirmPurge
  BY <1>5, ConfirmRests
<1>6. CASE Refresh
  <2>1. <<Inbox, Nil>> \in Keys
    BY DEF Keys
  <2> QED BY <1>6, <2>1, FetchRests
<1> QED BY <1>1, <1>2, <1>3, <1>4, <1>5, <1>6 DEF User, RowButtons, SelectionButtons, FolderLinks, ConversationButtons, MessageMenu

\* Every step.
LEMMA NextRests ==
  ASSUME ClientInv, RestInv, [MailNext]_mailVars
  PROVE  RestInv'
<1>1. CASE Requested
  BY <1>1, ApplyRests, SettleRests DEF Requested
<1>2. CASE User
  BY <1>2, UserRests
<1>3. CASE Fetching
  BY <1>3, FetchRests, ReadRests DEF Fetching
<1>4. CASE Streaming
  BY <1>4, ConnectRests, SnapRests, ScanRests, PollRests, EventRests DEF Streaming
<1>5. CASE Others
  BY <1>5, DeliverRests, FlagRests, MoveRests DEF Others
<1>6. CASE UNCHANGED mailVars
  <2>1. UNCHANGED <<store, stream>> /\ UNCHANGED <<cache, screen, change>>
    BY <1>6 DEF mailVars, tab
  <2>2. (Busy' <=> Busy) /\ \A k \in Keys : \A G : QueryOK(k, cache[k], screen, G) => QueryOK(k, cache'[k], screen', G)
    BY <2>1 DEF Busy
  <2> QED BY <2>1, <2>2, TabSteps DEF ClientInv
<1> QED BY <1>1, <1>2, <1>3, <1>4, <1>5, <1>6 DEF MailNext

\* Every cached list is right for what the stream has seen, or is going to be fetched, or was outrun, or shows an
\* error (KeyInv), in any state that can be reached.
THEOREM RestInductive == MailSpec => []RestInv
<1>1. MailInit => RestInv
  BY InitRests
<1>2. ClientInv /\ RestInv /\ [MailNext]_mailVars => RestInv'
  BY NextRests
<1> QED BY <1>1, <1>2, MailInductive, PTL DEF MailSpec

\* Once nothing is under way the tab shows the mailbox, but for what AtRestShowsMailbox excepts.
THEOREM RestIsRight == MailSpec => []AtRestShowsMailbox
<1>1. ClientInv /\ RestInv => AtRestShowsMailbox
  BY RestShows DEF ClientInv, AtRestShowsMailbox
<1> QED BY <1>1, MailInductive, RestInductive, PTL

=============================================================================
