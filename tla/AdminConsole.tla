---------------------------- MODULE AdminConsole ----------------------------
(***************************************************************************)
(* The administration pages of the web app (routes/admin, features/admin)  *)
(* in one browser: the lists each page shows, the changes it offers, what  *)
(* each change invalidates (lib/queries.ts), and the server that answers   *)
(* (admin/routes.ts), on which other administrators work as well.          *)
(*                                                                         *)
(* Abstracted: the data behind the pages is a set of Tables; what a list   *)
(* shows of them is the moment the server read them, counted in changes.   *)
(* The query cache is modelled as the pages use it (external): a page that *)
(* opens fetches what it has not got, what is invalidated, and, when the   *)
(* list is older than its staleTime, what it has; an invalidation fetches  *)
(* a list on the open page again, in place of a fetch already running      *)
(* unless it is the first; some lists are fetched at intervals. The        *)
(* allowlist is kept as it is, because a save sends all of it. Changes may *)
(* overlap: a button waits for the answer to its own last press, or not,   *)
(* and forgets it with its page. Left out: requests that fail, filters,    *)
(* paging, charts and the fields of forms; a tab of a domain is a page.    *)
(***************************************************************************)
EXTENDS Naturals

CONSTANTS Entries,       \* what may be on the allowlist
          Requests,      \* bound: changes this browser waits for at a time
          None, Asked,
          MaxChanges,    \* bound: changes to the server's data
          MaxPages,      \* bound: pages opened
          Visited, Followed, Actions  \* bound: the pages opened, the lists followed, the changes made

VARIABLES
  page,      \* the page shown
  at,        \* at[q]: the change up to which the cached list q shows the data, or None
  invalid,   \* queries that were invalidated and not fetched since
  fetch,     \* fetch[q]: None, Asked, or the change the answer on its way shows
  call,      \* call[r]: a change this browser waits for, or None (open: the page it was made on still is)
  clock,     \* changes made to the server's data
  lists,     \* lists[c]: the allowlist after change c
  mine,      \* history: mine[c]: what this browser asked that was change c, or None
  ours,      \* history: entries this browser put on the allowlist, and nobody took off
  outran,    \* history: outran[q]: the change after which list q was left older than this browser's
             \* changes, and was not read since, or 0
  pages

browser == <<page, at, invalid, fetch>>
server == <<clock, lists>>
history == <<mine, ours, outran, pages>>
vars == <<browser, call, server, history>>

----------------------------------------------------------------------------
(* What each list is made of. boxes and aliases stand for which there are, *)
(* boxRows and aliasRows for their settings.                               *)

ToDomainDto == {"domains", "boxes", "aliases", "catchAll"}
ToDomainDetail == ToDomainDto \cup {"boxRows", "aliasRows", "usage"}
CachedDomainDns == {"dns"}
ListSetupSteps == {"steps", "domains", "boxes", "boxRows", "aliases", "aliasRows"}
Status == {"domains", "boxes", "aliases"}
ListBans == {"bans", "allowlist"}
ListAuthEvents == {"signins"}
FailedIps == {"signins", "bans"}
ListLockouts == {"lockouts"}
ListWebSessions == {"sessions"}
ListAudit == {"audit"}
ListMailLog == {"mailLog"}
QueueSnapshot == {"queue"}
SpamHistory == {"scans"}
ReadLog == {"logs"}
ToMe == {"boxRows", "domains", "aliases", "aliasRows"}
BuildOverview ==
  Status \cup {"boxRows", "usage"} \cup ListMailLog \cup QueueSnapshot \cup FailedIps \cup ListLockouts \cup ListWebSessions
    \cup CachedDomainDns \cup ListAudit

Reads ==
  [domains |-> ToDomainDto, domain |-> ToDomainDetail, domainDns |-> CachedDomainDns, setupSteps |-> ListSetupSteps,
   status |-> Status, overview |-> BuildOverview, bans |-> ListBans, authEvents |-> ListAuthEvents,
   failedIps |-> FailedIps, lockouts |-> ListLockouts, sessions |-> ListWebSessions, audit |-> ListAudit,
   mailLog |-> ListMailLog, queue |-> QueueSnapshot, spam |-> SpamHistory, logs |-> ReadLog, me |-> ToMe]
Queries == DOMAIN Reads

(* What each change writes; it is recorded in the audit log as well.       *)
Writes ==
  [createDomain |-> {"domains"}, updateDomain |-> {"domains", "catchAll"},
   deleteDomain |-> ToDomainDetail \cup {"dns", "sessions"},
   createMailbox |-> {"boxes", "boxRows"}, updateMailbox |-> {"boxRows"},
   deleteMailbox |-> {"boxes", "boxRows", "sessions"}, recalculateQuota |-> {"usage"},
   createAlias |-> {"aliases", "aliasRows"}, updateAlias |-> {"aliasRows"}, deleteAlias |-> {"aliases", "aliasRows"},
   applyReports |-> {"aliases", "aliasRows", "boxes", "boxRows"}, skipStep |-> {"steps"},
   createBan |-> {"bans"}, liftBan |-> {"bans"}, setAllowlist |-> {"allowlist"},
   deleteLockout |-> {"lockouts"}, revokeSession |-> {"sessions"},
   queueAction |-> {"queue", "mailLog"}, flushQueue |-> {"queue", "mailLog"}]
\* What happens without an administrator: mail passes, somebody signs in or fails to, a lookup is repeated
Events == [mail |-> {"mailLog", "queue", "scans", "usage", "logs"}, signin |-> {"signins", "sessions", "logs"},
           failure |-> {"signins", "bans", "lockouts", "logs"}]
\* Reading the records again is no change, and not in the audit log.
Records == [refreshDns |-> {"dns"}]

Changes(m) ==
  IF m \in DOMAIN Writes THEN Writes[m] \cup {"audit"}
  ELSE IF m \in DOMAIN Events THEN Events[m] ELSE Records[m]

DomainKeys == {"domain", "domainDns"}   \* ["admin", "domain", id] is the beginning of both keys
AfterBan == {"bans", "authEvents"}
Invalidates ==
  [createDomain |-> {"domains", "setupSteps"}, updateDomain |-> {"domains", "setupSteps"} \cup DomainKeys,
   deleteDomain |-> Queries \ {"me"},
   createMailbox |-> {"domains", "setupSteps"} \cup DomainKeys, updateMailbox |-> {"setupSteps"} \cup DomainKeys,
   deleteMailbox |-> {"domains", "setupSteps"} \cup DomainKeys, recalculateQuota |-> DomainKeys,
   createAlias |-> {"domains", "setupSteps"} \cup DomainKeys, updateAlias |-> {"setupSteps"} \cup DomainKeys,
   deleteAlias |-> {"domains", "setupSteps"} \cup DomainKeys, refreshDns |-> {"domains"},
   applyReports |-> {"domains"} \cup DomainKeys, skipStep |-> {"domains"} \cup DomainKeys,
   createBan |-> AfterBan, liftBan |-> AfterBan, setAllowlist |-> AfterBan,
   deleteLockout |-> {"lockouts"}, revokeSession |-> {"sessions"},
   queueAction |-> {"queue", "overview"}, flushQueue |-> {"queue", "overview"}]
AfterAlias_NoSteps(m) == IF m = "updateAlias" THEN DomainKeys ELSE Invalidates[m]
AfterBan_Nothing(m) == IF m = "setAllowlist" THEN {"authEvents"} ELSE Invalidates[m]
OnSuccess(m) == Invalidates[m]
\* The answer itself is the new list.
SetQueryData == [refreshDns |-> "domainDns", applyReports |-> "setupSteps", skipStep |-> "setupSteps"]

----------------------------------------------------------------------------
(* The pages: the lists each shows and the changes it offers.              *)

AdminLayout == {"setupSteps", "me"}
OverviewPage == [shows |-> {"overview"}, offers |-> {}]
SetupStepsPage == [shows |-> {"setupSteps", "me", "domains"}, offers |-> {"applyReports", "skipStep"}]
DomainsPage == [shows |-> {"domains", "domainDns"}, offers |-> {"createDomain"}]
DomainDetail == [shows |-> {"domain", "domainDns"}, offers |-> {"updateDomain", "deleteDomain", "refreshDns"}]
MailboxesTab == [shows |-> DomainDetail.shows \cup {"me"},
                 offers |-> {"createMailbox", "updateMailbox", "recalculateQuota", "deleteMailbox"}]
AliasesTab == [shows |-> DomainDetail.shows, offers |-> {"createAlias", "updateAlias", "deleteAlias", "updateDomain"}]
MailLogTab == [shows |-> {"mailLog"}, offers |-> {}]
QueueTab == [shows |-> {"queue"}, offers |-> {"queueAction", "flushQueue"}]
SpamTab == [shows |-> {"spam"}, offers |-> {}]
SignInsTab == [shows |-> {"authEvents", "failedIps"}, offers |-> {"createBan"}]
BansTab == [shows |-> {"bans"}, offers |-> {"createBan", "liftBan", "setAllowlist"}]
LockoutsTab == [shows |-> {"lockouts"}, offers |-> {"deleteLockout"}]
SessionsTab == [shows |-> {"sessions"}, offers |-> {"revokeSession"}]
AuditTab == [shows |-> {"audit"}, offers |-> {}]
LogsPage == [shows |-> {"logs"}, offers |-> {}]
StatusPage == [shows |-> {"status"}, offers |-> {}]

Pages ==
  [overview |-> OverviewPage, setup |-> SetupStepsPage, domains |-> DomainsPage, domain |-> DomainDetail,
   mailboxes |-> MailboxesTab, aliases |-> AliasesTab, mailLog |-> MailLogTab, queue |-> QueueTab, spam |-> SpamTab,
   signins |-> SignInsTab, bans |-> BansTab, lockouts |-> LockoutsTab, sessions |-> SessionsTab, audit |-> AuditTab,
   logs |-> LogsPage, status |-> StatusPage]

ASSUME VisitedArePages == Visited \subseteq DOMAIN Pages
ASSUME FollowedAreLists == Followed \subseteq Queries
ASSUME ActionsAreKnown == Actions \subseteq DOMAIN Writes \cup DOMAIN Events \cup DOMAIN Records
ASSUME BoundsAreNat == MaxChanges \in Nat /\ MaxPages \in Nat

Mutations == UNION {Pages[p].offers : p \in DOMAIN Pages}
\* hasty: history: an allowlist sent from an older list, or beside another save
CallRow == [m : Mutations, list : (SUBSET Entries) \cup {None}, entry : Entries \cup {None}, hasty : BOOLEAN,
            at : Nat \cup {None}, open : BOOLEAN]
ASSUME NoneIsNoValue ==
  /\ {None, Asked} \cap Nat = {} /\ None # Asked
  /\ (\A l \in SUBSET Entries : l # None) /\ None \notin Mutations /\ None \notin CallRow

ShownOn(p) == (AdminLayout \cup Pages[p].shows) \cap Followed
Mounted == ShownOn(page)
Loaded == {q \in Queries : at[q] # None}

Init ==
  /\ page \in Visited
  /\ at = [q \in Queries |-> None]
  /\ invalid = {}
  /\ fetch = [q \in Queries |-> IF q \in Mounted THEN Asked ELSE None]
  /\ call = [r \in Requests |-> None]
  /\ clock = 0
  /\ lists = [c \in 0 .. MaxChanges |-> {}]
  /\ mine = [c \in 1 .. MaxChanges |-> None]
  /\ ours = {} /\ outran = [q \in Queries |-> 0] /\ pages = 1

----------------------------------------------------------------------------
(* The query cache.                                                        *)

\* The server reads the list
Answer(q) ==
  /\ fetch[q] = Asked
  /\ fetch' = [fetch EXCEPT ![q] = clock]
  /\ UNCHANGED <<page, at, invalid, call, server, history>>

Receive(q) ==
  /\ fetch[q] \notin {None, Asked}
  /\ at' = [at EXCEPT ![q] = fetch[q]]
  /\ fetch' = [fetch EXCEPT ![q] = None]
  /\ invalid' = invalid \ {q}
  /\ outran' = [outran EXCEPT ![q] = IF fetch[q] >= @ THEN 0 ELSE @]
  /\ UNCHANGED <<page, call, server, mine, ours, pages>>

\* A list on the open page is fetched again: its refetchInterval is over, or the window has the focus again.
Refetch(q) ==
  /\ q \in Mounted /\ fetch[q] = None
  /\ fetch' = [fetch EXCEPT ![q] = Asked]
  /\ UNCHANGED <<page, at, invalid, call, server, history>>

\* Another page is opened: what it lacks is fetched, and of the rest what is stale.
Open(p) ==
  /\ p # page /\ pages < MaxPages
  /\ page' = p
  /\ LET new == ShownOn(p) \ Mounted
     IN  \E stale \in SUBSET (new \cap Loaded) :
           fetch' = [q \in Queries |->
                       IF q \in new /\ fetch[q] = None /\ (at[q] = None \/ q \in invalid \cup stale)
                       THEN Asked ELSE fetch[q]]
  /\ call' = [r \in Requests |-> IF call[r] = None THEN None ELSE [call[r] EXCEPT !.open = FALSE]]
  /\ pages' = pages + 1
  /\ UNCHANGED <<at, invalid, server, mine, ours, outran>>

Awaited(c) == \E r \in Requests : call[r] # None /\ call[r].at = c
Alters(m, q) == Changes(m) \cap Reads[q] # {}
\* This browser has the answer to a later change of list q than c.
Newer(q, c) == \E d \in 1 .. clock : d > c /\ mine[d] # None /\ ~Awaited(d) /\ Alters(mine[d], q)

\* invalidateQueries and setQueryData: the lists Q are out of date, those in S are as of change c.
\* An answer on its way, of before the change, lands all the same unless the list is fetched again,
\* and a list in S is written whatever it showed.
Invalidate(Q, S, c) ==
  LET again == {q \in (Q \ S) \cap Mounted : q \in Loaded \/ fetch[q] = None}
      older == {q \in (Q \cup S) \ again : fetch[q] \notin {None, Asked} /\ fetch[q] < c}
      overwritten == {q \in S : fetch[q] = None /\ Newer(q, c)}
  IN  /\ fetch' = [q \in Queries |-> IF q \in again THEN Asked ELSE fetch[q]]
      /\ at' = [q \in Queries |-> IF q \in S THEN c ELSE at[q]]
      /\ invalid' = (invalid \cup Q) \ S
      /\ outran' = [q \in Queries |-> IF q \in older \cup overwritten THEN c ELSE outran[q]]

----------------------------------------------------------------------------
(* Changes.                                                                *)

\* Change number clock + 1, that leaves the allowlist as list
Change(list) ==
  /\ clock < MaxChanges
  /\ clock' = clock + 1
  /\ lists' = [lists EXCEPT ![clock'] = list]

\* Buttons that are disabled by isPending, the same on every way to them. (The others are a switch or
\* a button per row, or stand in a dialog or form that is soon opened anew.)
Gated == {"deleteDomain", "deleteMailbox", "deleteAlias", "recalculateQuota", "refreshDns", "skipStep", "liftBan",
          "setAllowlist", "revokeSession", "flushQueue"}
IsPending(m) == \E r \in Requests : call[r] # None /\ call[r].m = m /\ call[r].open
CanSubmit(m) == m \in Pages[page].offers /\ (m \in Gated => ~IsPending(m))

\* Buttons and dialogs of the page
Submit(r, m) ==
  /\ call[r] = None /\ CanSubmit(m) /\ m # "setAllowlist"
  /\ call' = [call EXCEPT ![r] = [m |-> m, list |-> None, entry |-> None, hasty |-> FALSE, at |-> None, open |-> TRUE]]
  /\ UNCHANGED <<browser, server, history>>

Saving(r) == call[r] # None /\ call[r].m = "setAllowlist"

\* AllowlistCard sends the list it shows, with one entry more or less. A card opened again does not
\* know of a save that the one before it waits for.
SaveAllowlist(r, e) ==
  /\ call[r] = None /\ CanSubmit("setAllowlist") /\ at["bans"] # None
  /\ LET shown == lists[at["bans"]]
         beside == \E s \in Requests : Saving(s)
         save == [m |-> "setAllowlist", list |-> IF e \in shown THEN shown \ {e} ELSE shown \cup {e}, entry |-> e,
                  hasty |-> beside \/ "bans" \in invalid \/ outran["bans"] # 0, at |-> None, open |-> TRUE]
     IN  call' = [s \in Requests |-> IF s = r THEN save
                    ELSE IF Saving(s) THEN [call[s] EXCEPT !.hasty = TRUE] ELSE call[s]]
  /\ UNCHANGED <<browser, server, history>>

\* The server does it. A list sent in full replaces whatever is there.
Perform(r) ==
  /\ call[r] # None /\ call[r].at = None
  /\ LET list == IF call[r].list = None THEN lists[clock] ELSE call[r].list
     IN  /\ Change(list)
         /\ ours' = (ours \cap list) \cup (IF call[r].list = None THEN {} ELSE list \cap {call[r].entry})
  /\ call' = [call EXCEPT ![r].at = clock']
  /\ mine' = [mine EXCEPT ![clock'] = call[r].m]
  /\ UNCHANGED <<browser, outran, pages>>

Settled(r) ==
  /\ call[r] # None /\ call[r].at # None
  /\ LET m == call[r].m
     IN  Invalidate(OnSuccess(m), IF m \in DOMAIN SetQueryData THEN {SetQueryData[m]} ELSE {}, call[r].at)
  /\ call' = [call EXCEPT ![r] = None]
  /\ UNCHANGED <<page, server, mine, ours, pages>>

\* Another administrator, or the mail server
Elsewhere(m) ==
  /\ m \in Actions
  /\ \E list \in IF m = "setAllowlist" THEN SUBSET Entries ELSE {lists[clock]} :
       Change(list) /\ ours' = ours \cap list
  /\ UNCHANGED <<browser, call, mine, outran, pages>>

Next ==
  \/ \E q \in Followed : Answer(q) \/ Receive(q) \/ Refetch(q)
  \/ \E p \in Visited : Open(p)
  \/ \E m \in Actions : Elsewhere(m) \/ \E r \in Requests : Submit(r, m)
  \/ \E r \in Requests, e \in Entries : "setAllowlist" \in Actions /\ SaveAllowlist(r, e)
  \/ \E r \in Requests : Perform(r) \/ Settled(r)

Spec == Init /\ [][Next]_vars

----------------------------------------------------------------------------
(* Properties.                                                             *)

TypeOK ==
  /\ page \in Visited /\ invalid \subseteq Queries /\ outran \in [Queries -> 0 .. clock]
  /\ at \in [Queries -> (0 .. clock) \cup {None}]
  /\ fetch \in [Queries -> (0 .. clock) \cup {None, Asked}]
  /\ call \in [Requests -> CallRow \cup {None}]
  /\ clock \in 0 .. MaxChanges /\ pages \in Nat
  /\ lists \in [0 .. MaxChanges -> SUBSET Entries] /\ ours \in SUBSET Entries
  /\ mine \in [1 .. MaxChanges -> Mutations \cup {None}]

\* Lists that a change alters and does not invalidate: they wait for their interval, or for the next visit.
\* (A domain just made has no page that could show it already.)
Overlooked(m, q) ==
  \/ q \in {"audit", "status", "overview", "me"}
  \/ q = "failedIps" /\ m \in {"createBan", "liftBan"}
  \/ q = "sessions" /\ m = "deleteMailbox"
  \/ q = "mailLog" /\ m \in {"queueAction", "flushQueue"}
  \/ q = "domain" /\ m = "createDomain"

(* A list at rest on the open page shows every change of this browser that *)
(* was answered, whichever page it was made on, whatever else is on its    *)
(* way and in whichever order the answers come. The exceptions are the     *)
(* lists that are not invalidated after the change (among them the         *)
(* addresses with the most failures, with their "Ban" buttons, after a     *)
(* ban); and, until the list is fetched again, an older answer that lands  *)
(* last: a fetch from before the change that was not replaced, or the      *)
(* answer to the earlier of two overlapping changes that is the list       *)
(* itself (setup steps, DNS records).                                      *)
OwnChangesShow ==
  \A q \in Mounted, c \in 1 .. clock :
    /\ fetch[q] = None /\ outran[q] = 0
    /\ mine[c] # None /\ ~Awaited(c) /\ Alters(mine[c], q) /\ ~Overlooked(mine[c], q)
    => at[q] >= c

(* An entry this browser put on the allowlist is not dropped by its own    *)
(* next save, although that save sends the list as the page shows it. Only *)
(* a save made from a list that the entry has outdated (invalidated and    *)
(* not here yet, or outrun while another page was open), or one made or    *)
(* performed beside another that waits for its answer, drops it: the card  *)
(* holds the second back only until its page is left and opened again.     *)
OwnEntriesStay ==
  [][\A r \in Requests : Saving(r) /\ Saving(r)' /\ call[r].at = None /\ call[r]'.at # None
       => ours \subseteq call[r].list \cup {call[r].entry} \/ call[r].hasty]_vars

=============================================================================
