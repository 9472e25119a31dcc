-------------------------------- MODULE Bans --------------------------------
(***************************************************************************)
(* Banning password guessers (auth/bans.ts, fed by auth-events.ts, the web *)
(* sign-in and dovecot-events.ts): sign-in attempts run concurrently, each *)
(* from await to await, beside administrators, the recovery CLI in its own *)
(* process, and time.                                                      *)
(*                                                                         *)
(* Abstracted: the addresses are those of one network, Net; auth_events is *)
(* kept per address as what the statistics ask for; the answer to a        *)
(* statement that changes bans or the allowlist and the invalidation after *)
(* it are one step, since until then the app reads what it could have read *)
(* before. A ban's duration is its step of ESCALATION; how often a ban was *)
(* hit, and lockouts, are left out (a locked account is one more failure). *)
(***************************************************************************)
EXTENDS Naturals, Sequences, FiniteSets

CONSTANTS Addrs, Net, Users, Ghosts,   \* names with and without a mailbox
          Calls, Admins,               \* attempts and administrators at a time
          Accounts, Failures, Unknown, NetAddrs,   \* the AUTOBAN_* thresholds
          MaxAttempts,   \* bound: sign-in attempts
          MaxBans,       \* bound: rows of ip_bans
          MaxEvents,     \* bound: changes by hand, steps of time and failing queries
          None

ASSUME NetIsNoAddress == Net \notin Addrs /\ None \notin Addrs \cup {Net}
ASSUME NamesDiffer == Users \cap Ghosts = {}
ASSUME Thresholds == {Accounts, Failures, Unknown} \subseteq Nat \ {0} /\ NetAddrs \in Nat

VARIABLES
  bans,        \* ip_bans, in the order of insertion
  events,      \* events[a]: auth_events for a, inside the windows
  allow,       \* the allowlist in app_settings
  banCache, banLoad, allowCache,   \* module variables of bans.ts
  evaluating,  \* the addresses being evaluated
  call,        \* call[p]: a sign-in attempt in progress
  order,       \* order[m]: a createBan that has lifted, not inserted yet
  banDrift,    \* history: networks the cached bans are wrong about by a race, time or the CLI
  allowDrift,  \* history: addresses the cached allowlist lacks by a race or a fault
  passed,      \* history: addresses whose last failure was not evaluated to the end (skipped, spared
               \* or cut short), or that time made guilty since: until they fail again
  attempts, happened

banCaches == <<banCache, banLoad, banDrift>>
allowCaches == <<allowCache, allowDrift>>
caches == <<banCaches, allowCaches>>
bounds == <<attempts, happened>>
vars == <<bans, events, allow, caches, evaluating, call, order, passed, bounds>>

Names == Users \cup Ghosts
Networks == Addrs \cup {Net}
Covers(n, a) == n = Net \/ n = a            \* network >>= a
Rows == DOMAIN bans
Active == {i \in Rows : bans[i].active}
ActiveNets == {bans[i].net : i \in Active}
\* ip_is_banned(), as Dovecot and Postfix ask it.
BannedInDb(a) == \E n \in ActiveNets : Covers(n, a)

Idle == [at |-> "idle", via |-> "web", addr |-> None, name |-> None, ok |-> FALSE,
         list |-> {}, drift |-> {}, ghosts |-> 0, target |-> None, previous |-> 0, from |-> 0]
Asked == [asked |-> TRUE, list |-> {}]
NoEvents == [failed |-> {}, count |-> 0, ghosts |-> 0, good |-> {}, trusted |-> FALSE]

Init ==
  /\ bans = <<>> /\ events = [a \in Addrs |-> NoEvents] /\ allow = {}
  /\ banCache = None /\ banLoad = None /\ allowCache = None
  /\ evaluating = {} /\ call = [p \in Calls |-> Idle] /\ order = [m \in Admins |-> None]
  /\ banDrift = {} /\ allowDrift = {} /\ passed = {}
  /\ attempts = 0 /\ happened = 0

Goto(p, step) == call' = [call EXCEPT ![p].at = step]
Event == happened < MaxEvents /\ happened' = happened + 1
\* A statement fails: the database is out of reach for a moment.
Fault == Event

-----------------------------------------------------------------------------
(* isBanned(): from the cache, or from a load that all askers share.        *)

InList(list, a) == \E n \in list : Covers(n, a)

\* What asker p does with the list: an attempt is turned away or goes on, an
\* evaluation ends or goes on.
Answered(c, list) ==
  IF InList(list, c.addr) THEN Idle
  ELSE [c EXCEPT !.at = IF @ \in {"ask", "asking"} THEN "write" ELSE "stats"]
Answer(askers, list) ==
  /\ call' = [p \in Calls |-> IF p \in askers THEN Answered(call[p], list) ELSE call[p]]
  /\ evaluating' = evaluating \ {call[p].addr : p \in {q \in askers :
       call[q].at \in {"recheck", "rechecking"} /\ InList(list, call[q].addr)}}

AskBans(p) ==
  /\ call[p].at \in {"ask", "recheck"}
  /\ IF banCache # None
     THEN Answer({p}, banCache) /\ UNCHANGED caches
     ELSE /\ Goto(p, IF call[p].at = "ask" THEN "asking" ELSE "rechecking")
          /\ banLoad' = (IF banLoad = None THEN Asked ELSE banLoad)
          /\ UNCHANGED <<banCache, banDrift, allowCaches, evaluating>>
  /\ UNCHANGED <<bans, events, allow, order, passed, bounds>>

LoadQuery ==
  /\ banLoad = Asked
  /\ banLoad' = [asked |-> FALSE, list |-> ActiveNets]
  /\ UNCHANGED <<bans, events, allow, banCache, banDrift, allowCaches, evaluating, call, order,
                 passed, bounds>>

Differing(S, T) == (S \ T) \cup (T \ S)
Waiting == {p \in Calls : call[p].at \in {"asking", "rechecking"}}

LoadDone ==
  /\ banLoad # None /\ ~banLoad.asked
  /\ banCache' = banLoad.list
  /\ banDrift' = Differing(banLoad.list, ActiveNets)
  /\ banLoad' = None
  /\ Answer(Waiting, banLoad.list)
  /\ UNCHANGED <<bans, events, allow, allowCaches, order, passed, bounds>>

\* If the bans cannot be read, nobody is banned.
LoadFails ==
  /\ banLoad = Asked /\ Fault
  /\ banLoad' = None
  /\ Answer(Waiting, {})
  /\ UNCHANGED <<bans, events, allow, banCache, banDrift, allowCaches, order, passed,
                 attempts>>

-----------------------------------------------------------------------------
(* A sign-in attempt.                                                       *)

\* The web app asks for a ban first; Dovecot has asked the database itself, and
\* the app asks when it hears of a failure.
Attempt(p) ==
  /\ call[p].at = "idle" /\ attempts < MaxAttempts
  /\ attempts' = attempts + 1
  /\ \E via \in {"web", "dovecot"}, a \in Addrs, n \in Names, ok \in BOOLEAN :
       /\ ok => n \in Users
       /\ via = "dovecot" /\ BannedInDb(a) => ~ok
       /\ call' = [call EXCEPT ![p] =
            [Idle EXCEPT !.at = IF via = "dovecot" /\ ok THEN "write" ELSE "ask",
                         !.addr = a, !.name = n, !.ok = ok]]
  /\ UNCHANGED <<bans, events, allow, caches, evaluating, order, passed, happened>>

Noted(e, c) ==
  IF c.ok THEN [e EXCEPT !.good = @ \cup {c.name}, !.trusted = TRUE]
  ELSE [e EXCEPT !.failed = @ \cup {c.name}, !.count = @ + 1,
                 !.ghosts = IF c.name \in Ghosts THEN @ + 1 ELSE @]

AfterWrite(c) == IF c.ok THEN Idle ELSE [c EXCEPT !.at = "evaluate"]

\* writeAuthEvent(); a failure to write is logged, and what follows goes on.
Write(p) ==
  /\ call[p].at = "write"
  /\ \/ /\ events' = [events EXCEPT ![call[p].addr] = Noted(@, call[p])]
        /\ UNCHANGED happened
     \/ Fault /\ UNCHANGED events
  /\ call' = [call EXCEPT ![p] = AfterWrite(@)]
  /\ passed' = IF call[p].ok THEN passed ELSE passed \ {call[p].addr}
  /\ UNCHANGED <<bans, allow, caches, evaluating, order, attempts>>

-----------------------------------------------------------------------------
(* evaluateAutoBan().                                                       *)

\* One evaluation per address at a time; a second one is not made up for.
Evaluate(p) ==
  /\ call[p].at = "evaluate"
  /\ IF call[p].addr \in evaluating
     THEN /\ call' = [call EXCEPT ![p] = Idle]
          /\ passed' = passed \cup {call[p].addr}
          /\ UNCHANGED evaluating
     ELSE /\ Goto(p, "allow")
          /\ evaluating' = evaluating \cup {call[p].addr}
          /\ UNCHANGED passed
  /\ UNCHANGED <<bans, events, allow, caches, order, bounds>>

\* `finally`: the evaluation is over, whether or not autoBan is.
Free(p) == evaluating' = evaluating \ {call[p].addr}
End(p) == call' = [call EXCEPT ![p] = Idle] /\ Free(p)
AutoBan(p, target) ==
  call' = [call EXCEPT ![p].at = "cover", ![p].target = target] /\ Free(p)
Proceed(p, step) == Goto(p, step) /\ UNCHANGED evaluating

UnknownRule_More(p, ghosts) ==
  IF ghosts > Unknown THEN AutoBan(p, call[p].addr) ELSE End(p)
\* The last rule: names without a mailbox, tried from this address.
UnknownRule(p, ghosts) == IF ghosts >= Unknown THEN AutoBan(p, call[p].addr) ELSE End(p)

Touches_Itself(list, a) == a \in list
\* networkTouchesAllowlist(): any of the network's addresses.
Touches(list, a) == list # {}

\* An allowlisted address is spared, and so is a network that has one in it.
\* (drift: what the list is known to lack.)
Spare(c, p, list, drift) ==
  IF c.at \in {"allow", "allowed"}
  THEN IF c.addr \in list
       THEN End(p) /\ passed' = passed \cup {c.addr}
       ELSE /\ call' = [call EXCEPT ![p] = [c EXCEPT !.at = "recheck", !.drift = drift,
                                                    !.list = {}]]
            /\ UNCHANGED <<evaluating, passed>>
  ELSE /\ UNCHANGED passed
       /\ IF Touches(list, c.addr) THEN UnknownRule(p, c.ghosts)
          ELSE /\ call' = [call EXCEPT ![p] = [c EXCEPT !.at = "netstats", !.list = {},
                                                       !.drift = @ \cup drift]]
               /\ UNCHANGED evaluating

\* allowList(): from the cache, or from the database. An allowlist that cannot
\* be read counts as empty (getAllowlist).
AllowList(p) ==
  /\ call[p].at \in {"allow", "netallow"}
  /\ IF allowCache # None
     THEN Spare(call[p], p, allowCache, allowDrift) /\ UNCHANGED happened
     ELSE /\ \E list \in {allow, {}} :
               /\ IF list = allow THEN UNCHANGED happened ELSE Fault
               /\ call' = [call EXCEPT ![p].list = list,
                             ![p].at = IF @ = "allow" THEN "allowed" ELSE "netallowed"]
          /\ UNCHANGED <<evaluating, passed>>
  /\ UNCHANGED <<bans, events, allow, caches, order, attempts>>

AllowListRead(p) ==
  /\ call[p].at \in {"allowed", "netallowed"}
  /\ allowCache' = call[p].list
  /\ allowDrift' = allow \ call[p].list
  /\ Spare(call[p], p, call[p].list, allowDrift')
  /\ UNCHANGED <<bans, events, allow, banCaches, order, bounds>>

\* Any other query of the evaluation, or of autoBan, may fail.
QueryFails(p) ==
  /\ call[p].at \in {"stats", "netstats", "cover", "count", "insert"} /\ Fault
  /\ call' = [call EXCEPT ![p] = Idle]
  /\ IF call[p].target = None THEN Free(p) ELSE UNCHANGED evaluating
  /\ passed' = passed \cup {call[p].addr}
  /\ UNCHANGED <<bans, events, allow, caches, order, attempts>>

TooMany(e) == Cardinality(e.failed \ e.good) >= Accounts \/ e.count >= Failures

\* What the rules about a single address ban for.
Guilty(e) == TooMany(e) \/ (~e.trusted /\ e.ghosts >= Unknown)

\* The statistics of the address: too many accounts or failures within the
\* window; the slow rules spare it if it signed in lately.
Stats(p) ==
  LET e == events[call[p].addr] IN
  /\ call[p].at = "stats"
  /\ IF TooMany(e) THEN AutoBan(p, call[p].addr)
     ELSE IF e.trusted THEN End(p)
     ELSE IF NetAddrs = 0 THEN UnknownRule(p, e.ghosts)
     ELSE /\ call' = [call EXCEPT ![p].at = "netallow", ![p].ghosts = e.ghosts]
          /\ UNCHANGED evaluating
  /\ UNCHANGED <<bans, events, allow, caches, order, passed, bounds>>

Guessing == {a \in Addrs : events[a].ghosts > 0}

\* The statistics of the network around it.
NetStats(p) ==
  /\ call[p].at = "netstats"
  /\ IF Cardinality(Guessing) >= NetAddrs /\ ~\E a \in Addrs : events[a].trusted
     THEN AutoBan(p, Net)
     ELSE UnknownRule(p, call[p].ghosts)
  /\ UNCHANGED <<bans, events, allow, caches, order, passed, bounds>>

-----------------------------------------------------------------------------
(* autoBan(): after `finally`, so beside other evaluations of the address.  *)

CoversNet(n, m) == n = Net \/ n = m        \* network >>= m
Covered_BySame(target) == target \in ActiveNets
Covered(target) == \E n \in ActiveNets : CoversNet(n, target)

Cover(p) ==
  /\ call[p].at = "cover"
  /\ IF Covered(call[p].target)
     THEN call' = [call EXCEPT ![p] = Idle]
     ELSE call' = [call EXCEPT ![p].at = "count", ![p].from = Len(bans)]
  /\ UNCHANGED <<bans, events, allow, caches, evaluating, order, passed, bounds>>

AutoBans(n) == {i \in Rows : bans[i].net = n /\ bans[i].source = "auto"}
Previous(n) == Cardinality(AutoBans(n))

Count(p) ==
  /\ call[p].at = "count"
  /\ call' = [call EXCEPT ![p].at = "insert", ![p].previous = Previous(call[p].target)]
  /\ UNCHANGED <<bans, events, allow, caches, evaluating, order, passed, bounds>>

\* ESCALATION: 1, 7, 30 times the duration.
Step(previous) == IF previous < 3 THEN previous + 1 ELSE 3

Invalidate_Forgotten == UNCHANGED banCaches
\* The change is made, and the cache refreshed by whoever made it in the app.
Invalidate == banCache' = None /\ banDrift' = {} /\ UNCHANGED banLoad

Insert(p) ==
  /\ call[p].at = "insert" /\ Len(bans) < MaxBans
  /\ bans' = Append(bans, [net |-> call[p].target, source |-> "auto", active |-> TRUE,
                           step |-> Step(call[p].previous), from |-> call[p].from])
  /\ Invalidate
  /\ call' = [call EXCEPT ![p] = Idle]
  /\ UNCHANGED <<events, allow, allowCaches, evaluating, order, passed, bounds>>

-----------------------------------------------------------------------------
(* By hand: an administrator through the app, or the recovery CLI, which    *)
(* has a cache of its own.                                                  *)

Lift(ids) == [i \in Rows |-> [bans[i] EXCEPT !.active = @ /\ i \notin ids]]
\* What the app's cache misses: changes made without it.
Behind(nets) == banDrift' = IF banCache = None THEN banDrift ELSE banDrift \cup nets

\* createBan() lifts the active bans of the same network, then inserts.
Replace(m) ==
  /\ order[m] = None /\ Event
  /\ \E n \in Networks, by \in {"app", "cli"} :
       /\ order' = [order EXCEPT ![m] = [net |-> n, by |-> by]]
       /\ bans' = Lift({i \in Rows : bans[i].net = n})
       /\ Behind({n})
  /\ UNCHANGED <<events, allow, banCache, banLoad, allowCaches, evaluating, call, passed, attempts>>

InsertByHand(m) ==
  /\ order[m] # None /\ Len(bans) < MaxBans
  /\ bans' = Append(bans, [net |-> order[m].net, source |-> "manual", active |-> TRUE,
                           step |-> 1, from |-> Len(bans)])
  /\ IF order[m].by = "app" THEN Invalidate ELSE Behind({order[m].net}) /\ UNCHANGED <<banCache, banLoad>>
  /\ order' = [order EXCEPT ![m] = None]
  /\ UNCHANGED <<events, allow, allowCaches, evaluating, call, passed, bounds>>

LiftBan ==
  /\ Event
  /\ \E i \in Active : bans' = Lift({i})
  /\ Invalidate
  /\ UNCHANGED <<events, allow, allowCaches, evaluating, call, order, passed, attempts>>

\* liftBansFor(), by the CLI.
Unban ==
  /\ Event
  /\ \E n \in Networks :
       LET hit == {i \in Active : CoversNet(bans[i].net, n) \/ CoversNet(n, bans[i].net)} IN
       /\ bans' = Lift(hit)
       /\ Behind({bans[i].net : i \in hit})
  /\ UNCHANGED <<events, allow, banCache, banLoad, allowCaches, evaluating, call, order, passed,
                 attempts>>

Looked == {"allowed", "recheck", "rechecking", "stats", "netallow", "netallowed", "netstats",
           "cover", "count", "insert"}

\* Evaluations under way have looked, or hold what they read, already.
SetAllow ==
  /\ Event
  /\ \E list \in SUBSET Addrs :
       /\ list # allow
       /\ allow' = list
       /\ call' = [p \in Calls |-> IF call[p].at \in Looked
                     THEN [call[p] EXCEPT !.drift = @ \cup (list \ allow)] ELSE call[p]]
  /\ allowCache' = None /\ allowDrift' = {}
  /\ UNCHANGED <<bans, events, banCaches, evaluating, order, passed, attempts>>

-----------------------------------------------------------------------------
(* Time.                                                                    *)

Expire ==
  /\ Event
  /\ \E i \in Active : bans' = Lift({i}) /\ Behind({bans[i].net})
  /\ UNCHANGED <<events, allow, banCache, banLoad, allowCaches, evaluating, call, order, passed,
                 attempts>>

\* What is left of e when some of its sign-ins have left the window they are
\* counted in: each by its own time (last_at), a success perhaps before a failure.
Left(e) ==
  {f \in [failed : SUBSET e.failed, count : 0 .. e.count, ghosts : 0 .. e.ghosts,
          good : SUBSET e.good, trusted : {e.trusted, FALSE}] :
     /\ Cardinality(f.failed) <= f.count /\ (f.failed = {} => f.count = 0)
     /\ Cardinality(f.failed \cap Ghosts) <= f.ghosts
     /\ f.good # {} => f.trusted}

\* Time alone has nobody evaluated: one that it makes guilty waits for its next failure.
Age ==
  /\ Event
  /\ \E a \in Addrs : \E e \in Left(events[a]) \ {events[a]} :
       /\ events' = [events EXCEPT ![a] = e]
       /\ passed' = IF Guilty(e) /\ ~Guilty(events[a]) THEN passed \cup {a} ELSE passed
  /\ UNCHANGED <<bans, allow, caches, evaluating, call, order, attempts>>

\* CACHE_MS have passed.
CacheAges ==
  /\ \/ banCache # None /\ banCache' = None /\ banDrift' = {} /\ UNCHANGED <<banLoad, allowCaches>>
     \/ allowCache # None /\ allowCache' = None /\ allowDrift' = {} /\ UNCHANGED banCaches
  /\ UNCHANGED <<bans, events, allow, evaluating, call, order, passed, bounds>>

-----------------------------------------------------------------------------
CallStep(p) ==
  \/ AskBans(p) \/ Write(p) \/ Evaluate(p) \/ AllowList(p) \/ AllowListRead(p) \/ Stats(p)
  \/ NetStats(p) \/ Cover(p) \/ Count(p) \/ Insert(p) \/ QueryFails(p)
ByHand == (\E m \in Admins : Replace(m) \/ InsertByHand(m)) \/ LiftBan \/ Unban \/ SetAllow

Next == \/ \E p \in Calls : Attempt(p) \/ CallStep(p)
        \/ LoadQuery \/ LoadDone \/ LoadFails
        \/ ByHand
        \/ Expire \/ Age \/ CacheAges

Spec == Init /\ [][Next]_vars

-----------------------------------------------------------------------------
Row == [net : Networks, source : {"auto", "manual"}, active : BOOLEAN, step : 1 .. 3, from : Nat]
TypeOK ==
  /\ bans \in Seq(Row) /\ allow \in SUBSET Addrs
  /\ banCache \in (SUBSET Networks) \cup {None} /\ allowCache \in (SUBSET Addrs) \cup {None}
  /\ \A p \in Calls : call[p].from <= Len(bans) /\ (call[p].at = "idle" <=> call[p] = Idle)
  /\ \A p \in Calls : call[p].at \in {"asking", "rechecking"} => banLoad # None

Evaluations == {p \in Calls : call[p].at \in
  {"allow", "allowed", "recheck", "rechecking", "stats", "netallow", "netallowed", "netstats"}}

\* The cached bans are wrong about a network only if time or the CLI changed it,
\* it is being replaced, or the list was loaded across the change.
CacheWrongOnlyByRace == banCache # None => Differing(banCache, ActiveNets) \subseteq banDrift

\* Whoever guesses too much is banned: by the time no attempt from the address
\* is in progress, a ban was made, unless the evaluation of its last failure was
\* skipped beside another one, or failed, or found the address allowlisted, or
\* it is guilty only since a success of its own was forgotten, after that failure.
GuessersAreBanned == \A a \in Addrs :
  Guilty(events[a]) => \/ \E p \in Calls : call[p].addr = a
                       \/ \E i \in Rows : Covers(bans[i].net, a)
                       \/ a \in passed

Inserts(p) == call[p].at = "insert" /\ bans' # bans /\ call'[p] = Idle

\* An automatic ban covers an allowlisted address only if that was put on the
\* list after the evaluation had looked, or the cached list was loaded across
\* the change, or the list could not be read.
SparedNotBanned == [][\A p \in Calls : Inserts(p) =>
  \A a \in allow : Covers(call[p].target, a) => a \in call[p].drift]_vars

\* A network gets a second automatic ban beside an active one only from two
\* evaluations that overlap: the first was inserted after the second had looked.
DoubledOnlyByRace == \A i, j \in Active :
  i < j /\ bans[j].source = "auto" /\ CoversNet(bans[i].net, bans[j].net) => i > bans[j].from

=============================================================================
