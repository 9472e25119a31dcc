------------------------------ MODULE Sessions ------------------------------
(***************************************************************************)
(* Web sessions (auth/session.ts, and the routes that use it): a browser   *)
(* signed in to several mailboxes sends requests that overlap, and each    *)
(* runs from await to await beside administrators, the recovery CLI and    *)
(* time.  A request reads the cookies it was sent with; the browser takes  *)
(* the cookies of a response when that arrives, in any order.  Reads that  *)
(* follow one another are one step, but for the query of the domains.      *)
(*                                                                         *)
(* Abstracted: the mailboxes are of one domain; bans and lockouts come     *)
(* before the first step here; a password is the number of the change that *)
(* set it; saving a domain and forgetting the cached ones is one step,     *)
(* since until then the app reads what it could have read before.          *)
(***************************************************************************)
EXTENDS Naturals, Sequences, FiniteSets

CONSTANTS Mailboxes, Requests,
          Imported,       \* mailboxes whose hash came from another system
          MaxAccounts, MaxCookieIds,   \* MAX_ACCOUNTS, MAX_COOKIE_IDS
          MaxSessions,    \* bound: sessions ever created
          MaxPassword,    \* bound: passwords per mailbox
          MaxEvents,      \* bound: requests, changes by others, steps of time and lost responses
          None, Keep, All

ASSUME ImportedKnown == Imported \subseteq Mailboxes
ASSUME NoneOutside == {None, Keep, All} \cap Mailboxes = {} /\ Keep \notin Seq(Nat)
ASSUME Limits == {MaxAccounts, MaxCookieIds, MaxPassword} \subseteq Nat \ {0} /\ MaxSessions \in Nat

VARIABLES
  sess,       \* the table of sessions, and what each was before and after it
  pw, legacy, \* the stored password; mailboxes whose hash needs a rehash
  enabled,    \* active mailboxes
  domain,     \* "on" or "off"
  domCache,   \* disabledDomains: what it says of the domain, or None
  cookie,     \* the browser's two cookies
  req,        \* req[r]: a request in progress
  cli,        \* a `passwd` that has saved and not signed out yet
  newest,     \* history: the last password chosen
  swept,      \* history: the last password whose change has ended the sessions
  overtaken,  \* history: sessions opened on a password changed since it was read
  parted,     \* history: sessions that overlapping, a limit or a bar took from the cookie
  domDrift,   \* history: the cached domain was read before it changed
  happened

users == <<pw, legacy, enabled, newest, swept>>
domains == <<domain, domCache, domDrift>>
kept == <<overtaken, parted>>
vars == <<sess, users, domains, cookie, req, cli, kept, happened>>

Ids == 1..MaxSessions
Live(s) == sess[s].life \in {"fresh", "due"}
Stored(s) == Live(s) \/ sess[s].life = "expired"
Elements(q) == {s \in Ids : \E i \in DOMAIN q : q[i] = s}
\* What q has of S, in the order of q.
Keeping(q, S) ==
  LET P == {i \in DOMAIN q : q[i] \in S}
      rank(i) == Cardinality({j \in P : j <= i})
  IN  [n \in 1..Cardinality(P) |-> q[CHOOSE i \in P : rank(i) = n]]

NoCookie == [active |-> None, ids |-> <<>>]
Unchanged == [active |-> Keep, ids |-> Keep]
Idle == [kind |-> "none", at |-> "idle", sent |-> NoCookie, who |-> None, typed |-> 0, seen |-> 0,
         since |-> 0, read |-> "on", rows |-> {}, due |-> {}, list |-> <<>>, shut |-> {}, sid |-> 0,
         marks |-> {}, out |-> Unchanged]

Init ==
  /\ sess = [s \in Ids |-> [of |-> None, life |-> "unborn", since |-> 0]]
  /\ pw = [m \in Mailboxes |-> 1] /\ legacy = Imported /\ enabled = Mailboxes
  /\ domain = "on" /\ domCache = None /\ domDrift = FALSE
  /\ cookie = NoCookie /\ req = [r \in Requests |-> Idle] /\ cli = None
  /\ newest = pw /\ swept = pw /\ overtaken = {} /\ parted = {} /\ happened = 0

Event == happened < MaxEvents /\ happened' = happened + 1

\* readIds(): the active session counts even when the list lacks it.
AllIds(k) == IF k.active = None \/ k.active \in Elements(k.ids) THEN k.ids ELSE Append(k.ids, k.active)
ReadIds(k) == IF Len(AllIds(k)) > MaxCookieIds THEN SubSeq(AllIds(k), 1, MaxCookieIds) ELSE AllIds(k)
Held(k) == Elements(ReadIds(k))
\* What a later request still finds in the list.
Remembered(k) == {s \in Ids : \E i \in DOMAIN k.ids : i <= MaxCookieIds /\ k.ids[i] = s}

Barred(m) == m \notin enabled \/ domain = "off"
Goto(r, step) == req' = [req EXCEPT ![r].at = step]
Become(r, c) == req' = [req EXCEPT ![r] = c]
\* The answer: only its cookies, and what is needed to judge them, matter from here.
Answered(c) == IF c.out = Unchanged /\ c.sid = 0 THEN Idle
               ELSE [Idle EXCEPT !.at = "answer", !.sent = c.sent, !.sid = c.sid, !.shut = c.shut, !.out = c.out]
Destroy(S) == sess' = [s \in Ids |-> IF s \in S /\ Stored(s) THEN [sess[s] EXCEPT !.life = "gone"] ELSE sess[s]]
Extend(S) == sess' = [s \in Ids |-> IF s \in S /\ Stored(s) THEN [sess[s] EXCEPT !.life = "fresh"] ELSE sess[s]]

-----------------------------------------------------------------------------
(* A request leaves the browser with the cookies of that moment.            *)

\* Requests that do nothing to a browser without sessions are left out; GET /accounts
\* is a switch to None.
Send(r) ==
  /\ req[r] = Idle /\ Event
  /\ \E kind \in {"use", "password", "login", "switch", "logout"}, m \in Mailboxes \cup {None, All}, p \in 0..MaxPassword :
       LET a == cookie.active
           target == IF kind \in {"use", "password"} THEN sess[a].of ELSE m
       IN  /\ kind \in {"use", "password"} => a # None /\ m = None
           /\ kind \in {"switch", "logout"} => ReadIds(cookie) # <<>>
           /\ kind = "login" => m \in Mailboxes
           /\ kind = "switch" => m # All
           /\ IF kind = "login" THEN p \in 1..newest[m]
              ELSE IF kind = "password" THEN p \in 1..newest[target] ELSE p = 0
           /\ Become(r, [Idle EXCEPT !.kind = kind, !.sent = cookie, !.who = m, !.typed = p,
                !.at = IF kind \in {"use", "password"} THEN "session"
                       ELSE IF kind = "login" THEN "find" ELSE "list",
                !.marks = IF target \in Mailboxes /\ Barred(target) THEN {"barred"} ELSE {}])
  /\ UNCHANGED <<sess, users, domains, cookie, cli, kept>>

\* setCookie() and deleteCookie(): the browser keeps what a response leaves alone.
Taken(out) == [active |-> IF out.active = Keep THEN cookie.active ELSE out.active,
               ids |-> IF out.ids = Keep THEN cookie.ids ELSE out.ids]

\* Why a response may take a session from the list of the browser: it answers an
\* earlier one, the list is too long, or the mailbox was barred.
Excused(c, s) == c.sent # cookie \/ s \in Elements(Taken(c.out).ids) \/ s \in c.shut

Respond(r) ==
  /\ req[r].at = "answer"
  /\ LET c == req[r]
         dropped == (Remembered(cookie) \cup (Ids \cap {c.sid})) \ Remembered(Taken(c.out))
     IN  /\ cookie' = Taken(c.out)
         /\ parted' = parted \cup {s \in dropped : Stored(s) /\ Excused(c, s)}
  /\ Become(r, Idle)
  /\ UNCHANGED <<sess, users, domains, cli, overtaken, happened>>

\* The connection breaks first, and the browser learns nothing.
ResponseLost(r) ==
  /\ req[r].at = "answer" /\ Event
  /\ parted' = parted \cup (Ids \cap {req[r].sid})
  /\ Become(r, Idle)
  /\ UNCHANGED <<sess, users, domains, cookie, cli, overtaken>>

-----------------------------------------------------------------------------
(* requireAuth(): loadSession(), then the handler.                          *)

\* What a request reads of its mailbox.
Seen(c, m) == [c EXCEPT !.at = "domains", !.who = m, !.seen = pw[m], !.since = newest[m],
                        !.marks = @ \cup (IF m \in legacy THEN {"legacy"} ELSE {})]

LoadSession(r) ==
  /\ req[r].at = "session"
  /\ LET c == req[r]   s == req[r].sent.active
     IN  Become(r, IF sess[s].life = "gone" THEN Answered([c EXCEPT !.out.active = None])
                   ELSE IF sess[s].life = "expired" THEN [c EXCEPT !.at = "expired"]
                   ELSE IF sess[s].of \notin enabled THEN Answered(c)
                   ELSE Seen([c EXCEPT !.due = IF sess[s].life = "due" THEN {s} ELSE {}], sess[s].of))
  /\ UNCHANGED <<sess, users, domains, cookie, cli, kept, happened>>

DropExpired(r) ==
  /\ req[r].at = "expired"
  /\ Destroy({req[r].sent.active})
  /\ Become(r, Answered([req[r] EXCEPT !.out.active = None]))
  /\ UNCHANGED <<users, domains, cookie, cli, kept, happened>>

FindUser(r) ==
  /\ req[r].at = "find"
  /\ Become(r, IF req[r].who \in enabled THEN Seen(req[r], req[r].who) ELSE Answered(req[r]))
  /\ UNCHANGED <<sess, users, domains, cookie, cli, kept, happened>>

\* needsRehash(), verifyPassword().
Rehashes_Always(c) == TRUE
Rehashes(c) == "legacy" \in c.marks
Verified(c) == c.typed = c.seen
Entering(c) == [c EXCEPT !.seen = 0, !.due = {}, !.list = <<>>, !.rows = {}, !.shut = {},
                         !.at = IF Rehashes(c) THEN "rehash" ELSE "create"]

\* What a request does once it knows whether the domain is on.
Permits(value) == value = "on"
Permitted(c, value) ==
  IF ~Permits(value) THEN Answered(c)
  ELSE IF c.kind # "login" THEN [c EXCEPT !.at = IF c.due # {} THEN "refresh" ELSE "act"]
  ELSE IF ~Verified(c) THEN Answered(c)
  ELSE IF ReadIds(c.sent) = <<>> THEN Entering(c) ELSE [c EXCEPT !.at = "list", !.seen = 0]

\* resolve(): the live sessions of the cookies, one per mailbox.
Before(q, a, b) == \E i, j \in DOMAIN q : i < j /\ q[i] = a /\ q[j] = b
OnePerMailbox(ids, good) ==
  Keeping(ids, {s \in good : \A t \in good : Before(ids, t, s) => sess[t].of # sess[s].of})
Rows(c) == [c EXCEPT !.rows = {s \in Held(c.sent) : Live(s)},
                     !.due = {s \in Held(c.sent) : sess[s].life = "due"},
                     !.shut = {s \in Held(c.sent) : sess[s].life = "expired"}]
Resolved(c, value) ==
  LET good == {s \in c.rows : sess[s].of \in enabled /\ Permits(value)}
      list == OnePerMailbox(ReadIds(c.sent), good)
  IN  [c EXCEPT !.list = list, !.due = @ \cap Elements(list), !.rows = {},
                !.shut = @ \cup (c.rows \ good), !.read = "on"]

Owned(list, m) == {s \in Elements(list) : sess[s].of = m}
Full(c) == Len(c.list) >= MaxAccounts /\ Owned(c.list, c.who) = {}

\* What follows loadAccounts().
Listed(c) ==
  IF c.kind = "login" THEN IF Full(c) THEN Answered(c) ELSE Entering(c)
  ELSE IF c.kind = "switch" /\ Owned(c.list, c.who) # {}
       THEN Answered([c EXCEPT !.out.active = CHOOSE s \in Owned(c.list, c.who) : TRUE])
       ELSE Answered(c)

\* loadAccounts() extends what is due, and lists what it found; signing out only lists.
Listing(c) ==
  IF c.kind = "logout" THEN [c EXCEPT !.at = "doom"]
  ELSE IF c.due # {} THEN [c EXCEPT !.at = "extend"]
  ELSE Listed([c EXCEPT !.out.ids = IF c.list # ReadIds(c.sent) THEN c.list ELSE @])

\* disabledDomainIds(): from the cache, or a query of its own.
CachedDomains(r) ==
  /\ req[r].at \in {"domains", "list"} /\ domCache # None
  /\ LET c == IF domDrift THEN [req[r] EXCEPT !.marks = @ \cup {"drift"}] ELSE req[r]
     IN  Become(r, IF c.at = "domains" THEN Permitted(c, domCache)
                   ELSE Listing(Resolved(Rows(c), domCache)))
  /\ UNCHANGED <<sess, users, domains, cookie, cli, kept, happened>>

QueryDomains(r) ==
  /\ req[r].at \in {"domains", "list"} /\ domCache = None
  /\ Become(r, IF req[r].at = "domains" THEN [req[r] EXCEPT !.at = "install", !.read = domain]
               ELSE [Rows(req[r]) EXCEPT !.at = "install_list", !.read = domain])
  /\ UNCHANGED <<sess, users, domains, cookie, cli, kept, happened>>

InstallDomains(r) ==
  /\ req[r].at \in {"install", "install_list"}
  /\ domCache' = req[r].read
  /\ domDrift' = (req[r].read # domain)
  /\ LET c == [req[r] EXCEPT !.read = "on"]
     IN  Become(r, IF c.at = "install" THEN Permitted(c, req[r].read)
                   ELSE Listing(Resolved(c, req[r].read)))
  /\ UNCHANGED <<sess, users, domain, cookie, cli, kept, happened>>

Refresh(r) ==
  /\ req[r].at = "refresh"
  /\ Extend({req[r].sent.active})
  /\ Become(r, [req[r] EXCEPT !.at = "act",
       !.out = [active |-> req[r].sent.active, ids |-> ReadIds(req[r].sent)]])
  /\ UNCHANGED <<users, domains, cookie, cli, kept, happened>>

\* The handler runs as the mailbox.
Act(r) ==
  /\ req[r].at = "act"
  /\ Become(r, IF req[r].kind = "password" /\ Verified(req[r]) THEN [req[r] EXCEPT !.at = "save"]
               ELSE Answered(req[r]))
  /\ UNCHANGED <<sess, users, domains, cookie, cli, kept, happened>>

-----------------------------------------------------------------------------
(* Changing a password.                                                     *)

NewPassword(m) ==
  /\ newest[m] < MaxPassword
  /\ newest' = [newest EXCEPT ![m] = @ + 1]
  /\ pw' = [pw EXCEPT ![m] = newest[m] + 1]
  /\ legacy' = legacy \ {m}

\* POST /account/password keeps the session it came with.
SavePassword(r) ==
  /\ req[r].at = "save" /\ Event
  /\ NewPassword(req[r].who)
  /\ sess' = [sess EXCEPT ![req[r].sent.active].since = newest'[req[r].who]]
  /\ Become(r, [req[r] EXCEPT !.at = "sweep", !.since = newest'[req[r].who]])
  /\ UNCHANGED <<enabled, swept, domains, cookie, cli, kept>>

Higher(a, b) == IF a > b THEN a ELSE b

\* destroyOtherSessions()
OtherSessions_Swapped(m, keep) == {s \in Ids : sess[s].of = m /\ s = keep}
OtherSessions(m, keep) == {s \in Ids : sess[s].of = m /\ s # keep}
SweepOthers(r) ==
  /\ req[r].at = "sweep"
  /\ Destroy(OtherSessions(req[r].who, req[r].sent.active))
  /\ swept' = [swept EXCEPT ![req[r].who] = Higher(@, req[r].since)]
  /\ Become(r, Answered(req[r]))
  /\ UNCHANGED <<pw, legacy, enabled, newest, domains, cookie, cli, kept, happened>>

\* An administrator's new password ends no session.
AdminPassword(m) ==
  /\ NewPassword(m) /\ Event
  /\ UNCHANGED <<sess, enabled, swept, domains, cookie, req, cli, kept>>

\* cli.ts passwd: the password, then every session.
CliPasswd(m) ==
  /\ cli = None
  /\ NewPassword(m) /\ Event
  /\ cli' = [of |-> m, since |-> newest'[m]]
  /\ UNCHANGED <<sess, enabled, swept, domains, cookie, req, kept>>

CliSweep ==
  /\ cli # None
  /\ Destroy({s \in Ids : sess[s].of = cli.of})
  /\ swept' = [swept EXCEPT ![cli.of] = Higher(@, cli.since)]
  /\ cli' = None
  /\ UNCHANGED <<pw, legacy, enabled, newest, domains, cookie, req, kept, happened>>

-----------------------------------------------------------------------------
(* The accounts of a browser, and signing out of them.                      *)

ExtendListed(r) ==
  /\ req[r].at = "extend"
  /\ Extend(req[r].due)
  /\ Become(r, Listed([req[r] EXCEPT !.out.ids = req[r].list]))
  /\ UNCHANGED <<users, domains, cookie, cli, kept, happened>>

\* destroySession(): every account, the one named, or the active one.
Doomed(c) == IF c.who = All THEN Held(c.sent)
             ELSE IF c.who = None THEN Ids \cap {c.sent.active} ELSE Owned(c.list, c.who)

\* The account that is active afterwards.
TakesOver(active, rest) ==
  IF active \in Elements(rest) THEN active
  ELSE IF rest # <<>> /\ rest[1] \in Ids THEN rest[1] ELSE None

SignOut(r) ==
  /\ req[r].at = "doom"
  /\ LET c == req[r]
         rest == Keeping(c.list, Ids \ Doomed(c))
     IN  /\ Destroy(Doomed(c))
         /\ Become(r, Answered([c EXCEPT !.out =
              [ids |-> rest, active |-> TakesOver(c.sent.active, rest)]]))
  /\ UNCHANGED <<users, domains, cookie, cli, kept, happened>>

-----------------------------------------------------------------------------
(* Signing in: the rest of the route, and createSession().                  *)

Rehash(r) ==
  /\ req[r].at = "rehash"
  /\ pw' = [pw EXCEPT ![req[r].who] = req[r].typed]
  /\ legacy' = legacy \ {req[r].who}
  /\ Goto(r, "create")
  /\ UNCHANGED <<sess, enabled, newest, swept, domains, cookie, cli, kept, happened>>

\* The cookies createSession() writes; those of loadAccounts() are overwritten.
Signed_Alone(c, replaced) ==
  Answered([c EXCEPT !.out = [active |-> c.sid, ids |-> <<c.sid>>]])
Signed(c, replaced) ==
  Answered([c EXCEPT !.out = [active |-> c.sid,
     ids |-> Append(Keeping(ReadIds(c.sent), Ids \ replaced), c.sid)]])

Create(r) ==
  /\ req[r].at = "create"
  /\ \E s \in Ids :
       /\ sess[s].life = "unborn" /\ \A t \in 1..s - 1 : sess[t].life # "unborn"
       /\ LET c == [req[r] EXCEPT !.sid = s]
          IN  /\ sess' = [sess EXCEPT ![s] = [of |-> c.who, life |-> "fresh", since |-> c.since]]
              /\ overtaken' = overtaken \cup (IF newest[c.who] > c.since THEN {s} ELSE {})
              /\ Become(r, IF ReadIds(c.sent) = <<>> THEN Signed(c, {}) ELSE [c EXCEPT !.at = "replace"])
  /\ UNCHANGED <<users, domains, cookie, cli, parted, happened>>

Replaced(c) == {s \in Held(c.sent) : Stored(s) /\ sess[s].of = c.who}
Replace(r) ==
  /\ req[r].at = "replace"
  /\ Destroy(Replaced(req[r]))
  /\ Become(r, Signed(req[r], Replaced(req[r])))
  /\ UNCHANGED <<users, domains, cookie, cli, kept, happened>>

-----------------------------------------------------------------------------
(* Others, and time.                                                        *)

\* revokeWebSession(), and cli.ts logout of a mailbox or of everyone.
Revoke ==
  /\ Event
  /\ \E S \in {{s} : s \in Ids} \cup {{s \in Ids : sess[s].of = m} : m \in Mailboxes} \cup {Ids} :
       (\E s \in S : Stored(s)) /\ Destroy(S)
  /\ UNCHANGED <<users, domains, cookie, req, cli, kept>>

Unbarred(concerned) == [r \in Requests |->
  IF concerned[r] THEN [req[r] EXCEPT !.marks = @ \ {"barred"}] ELSE req[r]]
Owner(c) == IF c.kind \in {"use", "password"} THEN sess[c.sent.active].of ELSE c.who

SetMailbox(m) ==
  /\ Event
  /\ enabled' = IF m \in enabled THEN enabled \ {m} ELSE enabled \cup {m}
  /\ req' = Unbarred([r \in Requests |-> req[r].at # "idle" /\ Owner(req[r]) = m])
  /\ UNCHANGED <<sess, pw, legacy, newest, swept, domains, cookie, cli, kept>>

\* PATCH /domains/:id; forgetDisabledDomains() lets a query under way install what it read.
Forgotten_Not == domCache
Forgotten == None
SetDomain ==
  /\ Event
  /\ domain' = IF domain = "on" THEN "off" ELSE "on"
  /\ domCache' = Forgotten
  /\ domDrift' = FALSE
  /\ req' = Unbarred([r \in Requests |-> req[r].at # "idle"])
  /\ UNCHANGED <<sess, users, cookie, cli, kept>>

\* The 15 seconds are over.
CacheExpires ==
  /\ domCache # None /\ Event
  /\ domCache' = None /\ domDrift' = FALSE
  /\ UNCHANGED <<sess, users, domain, cookie, req, cli, kept>>

\* A day passes, then the thirty.
Ages(s) ==
  /\ Live(s) /\ Event
  /\ sess' = [sess EXCEPT ![s].life = IF @ = "fresh" THEN "due" ELSE "expired"]
  /\ UNCHANGED <<users, domains, cookie, req, cli, kept>>

PurgeExpired ==
  /\ \E s \in Ids : sess[s].life = "expired"
  /\ Destroy({s \in Ids : sess[s].life = "expired"})
  /\ UNCHANGED <<users, domains, cookie, req, cli, kept, happened>>

Step(r) ==
  \/ Send(r) \/ Respond(r) \/ ResponseLost(r)
  \/ LoadSession(r) \/ DropExpired(r) \/ FindUser(r)
  \/ CachedDomains(r) \/ QueryDomains(r) \/ InstallDomains(r)
  \/ Refresh(r) \/ Act(r) \/ SavePassword(r) \/ SweepOthers(r)
  \/ ExtendListed(r) \/ SignOut(r)
  \/ Rehash(r) \/ Create(r) \/ Replace(r)

Next ==
  \/ \E r \in Requests : Step(r)
  \/ \E m \in Mailboxes : AdminPassword(m) \/ CliPasswd(m) \/ SetMailbox(m)
  \/ CliSweep \/ Revoke \/ SetDomain \/ CacheExpires \/ PurgeExpired
  \/ \E s \in Ids : Ages(s)

Spec == Init /\ [][Next]_vars

-----------------------------------------------------------------------------
(* Properties                                                               *)

\* The variables have the shapes that the code gives them.
Cookies == [active : Ids \cup {None}, ids : Seq(Ids)]
TypeOK ==
  /\ sess \in [Ids -> [of : Mailboxes \cup {None}, since : Nat,
                       life : {"unborn", "fresh", "due", "expired", "gone"}]]
  /\ pw \in [Mailboxes -> Nat] /\ newest \in [Mailboxes -> Nat] /\ swept \in [Mailboxes -> Nat]
  /\ legacy \subseteq Mailboxes /\ enabled \subseteq Mailboxes
  /\ domain \in {"on", "off"} /\ domCache \in {"on", "off", None} /\ domDrift \in BOOLEAN
  /\ cookie \in Cookies
  /\ cli = None \/ cli \in [of : Mailboxes, since : Nat]
  /\ overtaken \subseteq Ids /\ parted \subseteq Ids /\ happened \in Nat
  /\ DOMAIN req = Requests
  /\ \A r \in Requests :
       /\ req[r].sent \in Cookies /\ req[r].list \in Seq(Ids) /\ req[r].sid \in {0} \cup Ids
       /\ req[r].rows \subseteq Ids /\ req[r].due \subseteq Ids /\ req[r].shut \subseteq Ids
       /\ req[r].out.active \in Ids \cup {None, Keep}
       /\ req[r].out.ids = Keep \/ req[r].out.ids \in Seq(Ids)

\* Nothing runs as a mailbox that was disabled, or whose domain was, since before
\* the request was sent, and nobody signs in to it: except while the app trusts a
\* list of domains that a query brought in after the change was forgotten.
Acting == {"refresh", "act", "save", "rehash", "create"}
BarredActsOnlyByRace ==
  \A r \in Requests : req[r].at \in Acting /\ "barred" \in req[r].marks => "drift" \in req[r].marks

\* A password changed in the app, or with passwd, ends every session opened before
\* it, but for the one that made the change and those of sign-ins that had read
\* the old password.
ChangeEndsSessions ==
  \A s \in Ids : Live(s) /\ sess[s].since < swept[sess[s].of] => s \in overtaken

\* A changed password comes back only when it was imported and a sign-in was
\* about to rehash it: a password of this server's own is never undone.
OnlyImportedReturns ==
  [][\A m \in Mailboxes : pw'[m] < pw[m] =>
       /\ m \in Imported /\ pw'[m] = 1
       /\ \E r \in Requests : req[r].who = m /\ req[r].at = "rehash" /\ req[r].since < newest[m]]_vars

\* The browser knows every live session it opened, or is about to: except those it
\* lost to responses that overlapped or broke off, to the limit on the cookie, or
\* when their mailbox was barred.
SessionsAreHeld ==
  \A s \in Ids : Live(s) /\ s \notin Remembered(cookie) /\ (\A r \in Requests : req[r].sid # s)
    => s \in parted

=============================================================================
