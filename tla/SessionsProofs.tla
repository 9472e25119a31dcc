--------------------------- MODULE SessionsProofs ---------------------------
(***************************************************************************)
(* Proofs about Sessions, for any mailboxes, requests and limits.  The     *)
(* first part follows of a request what kind it is and at which step,      *)
(* whose session it came with, what it read of its mailbox and when, and   *)
(* its marks (IInv).  The second follows the lists of sessions from the    *)
(* cookies through the request and back into the cookies (ListsInv).       *)
(***************************************************************************)
EXTENDS Sessions, FiniteSetTheorems, SequenceTheorems, TLAPS

\* A record of a request has these fields; those the proofs follow have their types.
Fields == {"kind", "at", "sent", "who", "typed", "seen", "since", "read", "rows", "due", "list", "shut",
           "sid", "marks", "out"}
Shape(c) ==
  /\ c = [f \in Fields |-> c[f]]
  /\ c.out = [active |-> c.out.active, ids |-> c.out.ids]
  /\ c.sent.active \in Ids \cup {None} /\ c.out.active \in Ids \cup {None, Keep}
  /\ c.sid \in {0} \cup Ids
  /\ c.typed \in Nat /\ c.seen \in Nat /\ c.since \in Nat

\* d is a record that goes on from c.
Kept(c, d) == /\ Shape(d)
              /\ d.kind = c.kind /\ d.sent = c.sent /\ d.who = c.who
              /\ d.typed = c.typed /\ d.since = c.since /\ d.marks = c.marks

\* d is over, or waits to be answered.
Ended(d) == Shape(d) /\ d.kind = "none" /\ d.at \in {"idle", "answer"} /\ d.marks = {}

-----------------------------------------------------------------------------
(* What the steps make of the record.                                       *)

LEMMA IdleShape == Shape(Idle) /\ Ended(Idle)
<1>1. Idle = [f \in Fields |-> Idle[f]]
  BY DEF Idle, Fields
<1>2. Idle.out = [active |-> Idle.out.active, ids |-> Idle.out.ids] /\ Idle.out.active = Keep
  BY DEF Idle, Unchanged
<1>3. Idle.sent.active = None
  BY DEF Idle, NoCookie
<1>4. /\ Idle.sid = 0 /\ Idle.typed = 0 /\ Idle.seen = 0 /\ Idle.since = 0
      /\ Idle.kind = "none" /\ Idle.at = "idle" /\ Idle.marks = {}
  BY DEF Idle
<1> QED BY <1>1, <1>2, <1>3, <1>4 DEF Shape, Ended

\* One field is set, or two that the proofs do not follow.
LEMMA KeptAt ==
  ASSUME NEW c, Shape(c), NEW v, NEW d, d = [c EXCEPT !.at = v]
  PROVE  Kept(c, d) /\ d.at = v /\ d.seen = c.seen /\ d.read = c.read /\ d.out = c.out /\ d.due = c.due
BY DEF Shape, Fields, Kept

LEMMA KeptActive ==
  ASSUME NEW c, Shape(c), NEW a \in Ids \cup {None, Keep}, NEW d, d = [c EXCEPT !.out.active = a]
  PROVE  Kept(c, d) /\ d.at = c.at
BY DEF Shape, Fields, Kept

LEMMA KeptIds ==
  ASSUME NEW c, Shape(c), NEW q, NEW d, d = [c EXCEPT !.out.ids = q]
  PROVE  Kept(c, d) /\ d.at = c.at
BY DEF Shape, Fields, Kept

LEMMA KeptOut ==
  ASSUME NEW c, Shape(c), NEW a \in Ids \cup {None, Keep}, NEW q, NEW d,
         d = [c EXCEPT !.out = [active |-> a, ids |-> q]]
  PROVE  Kept(c, d) /\ d.at = c.at
BY DEF Shape, Fields, Kept

LEMMA KeptDue ==
  ASSUME NEW c, Shape(c), NEW x, NEW d, d = [c EXCEPT !.due = x]
  PROVE  Kept(c, d) /\ d.at = c.at /\ d.seen = c.seen /\ d.read = c.read /\ d.sid = c.sid
BY DEF Shape, Fields, Kept

LEMMA KeptRead ==
  ASSUME NEW c, Shape(c), NEW v, NEW d, d = [c EXCEPT !.read = v]
  PROVE  Kept(c, d) /\ d.at = c.at /\ d.seen = c.seen
BY DEF Shape, Fields, Kept

LEMMA KeptAtSeen ==
  ASSUME NEW c, Shape(c), NEW d, d = [c EXCEPT !.at = "list", !.seen = 0]
  PROVE  Kept(c, d) /\ d.at = "list"
BY DEF Shape, Fields, Kept

LEMMA KeptSid ==
  ASSUME NEW c, Shape(c), NEW s \in Ids, NEW d, d = [c EXCEPT !.sid = s]
  PROVE  Kept(c, d) /\ d.at = c.at /\ d.sid = s
BY DEF Shape, Fields, Kept

\* The marks change, or what the request read.
LEMMA Marked ==
  ASSUME NEW c, Shape(c), NEW M, NEW d,
         \/ d = [c EXCEPT !.marks = @ \cup M]
         \/ d = [c EXCEPT !.marks = @ \ M]
  PROVE  /\ Shape(d) /\ d.kind = c.kind /\ d.at = c.at /\ d.sent = c.sent /\ d.who = c.who
         /\ d.typed = c.typed /\ d.seen = c.seen /\ d.since = c.since /\ d.read = c.read
         /\ d.marks = c.marks \cup M \/ d.marks = c.marks \ M
BY DEF Shape, Fields

LEMMA SeenDoes ==
  ASSUME NEW c, Shape(c), NEW m, pw[m] \in Nat, newest[m] \in Nat, NEW d, d = Seen(c, m)
  PROVE  /\ Shape(d) /\ d.kind = c.kind /\ d.sent = c.sent /\ d.typed = c.typed
         /\ d.at = "domains" /\ d.who = m /\ d.seen = pw[m] /\ d.since = newest[m]
         /\ d.marks = c.marks \cup IF m \in legacy THEN {"legacy"} ELSE {}
BY DEF Seen, Shape, Fields

LEMMA AnsweredEnds ==
  ASSUME NEW c, Shape(c)
  PROVE  Ended(Answered(c))
<1> DEFINE d == [Idle EXCEPT !.at = "answer", !.sent = c.sent, !.sid = c.sid, !.shut = c.shut, !.out = c.out]
<1>1. /\ d = [f \in Fields |-> d[f]] /\ d.out = c.out /\ d.sent = c.sent /\ d.sid = c.sid
      /\ d.typed = 0 /\ d.seen = 0 /\ d.since = 0
      /\ d.kind = "none" /\ d.at = "answer" /\ d.marks = {}
  BY DEF Idle, Fields
<1>2. Answered(c) = Idle \/ Answered(c) = d
  BY DEF Answered
<1> HIDE DEF d
<1>3. Ended(d)
  BY <1>1 DEF Shape, Ended
<1> QED BY <1>2, <1>3, IdleShape

LEMMA EnteringDoes ==
  ASSUME NEW c, Shape(c), NEW d, d = Entering(c)
  PROVE  Kept(c, d) /\ d.at = IF "legacy" \in c.marks THEN "rehash" ELSE "create"
BY DEF Entering, Rehashes, Shape, Fields, Kept

\* Past the domains a request goes on only when they say "on", and a sign-in with the right password.
LEMMA PermittedDoes ==
  ASSUME NEW c, Shape(c), NEW v, NEW d, d = Permitted(c, v)
  PROVE  \/ Ended(d)
         \/ /\ Kept(c, d) /\ v = "on"
            /\ \/ c.kind # "login" /\ d.at \in {"refresh", "act"}
               \/ /\ c.kind = "login" /\ c.typed = c.seen
                  /\ d.at \in {"list", "create"} \cup IF "legacy" \in c.marks THEN {"rehash"} ELSE {}
<1>1. CASE v # "on"
  BY <1>1, AnsweredEnds DEF Permitted, Permits
<1>2. CASE v = "on" /\ c.kind # "login"
  <2>1. d = [c EXCEPT !.at = "refresh"] \/ d = [c EXCEPT !.at = "act"]
    <3>1. d = [c EXCEPT !.at = IF c.due # {} THEN "refresh" ELSE "act"]
      BY <1>2 DEF Permitted, Permits
    <3> QED BY <3>1
  <2> QED BY <1>2, <2>1, KeptAt
<1>3. CASE v = "on" /\ c.kind = "login" /\ c.typed # c.seen
  BY <1>3, AnsweredEnds DEF Permitted, Permits, Verified
<1>4. CASE v = "on" /\ c.kind = "login" /\ c.typed = c.seen
  <2>1. d = Entering(c) \/ d = [c EXCEPT !.at = "list", !.seen = 0]
    BY <1>4 DEF Permitted, Permits, Verified
  <2>2. CASE d = [c EXCEPT !.at = "list", !.seen = 0]
    BY <1>4, <2>2, KeptAtSeen
  <2>3. CASE d = Entering(c)
    BY <1>4, <2>3, EnteringDoes
  <2> QED BY <2>1, <2>2, <2>3
<1> QED BY <1>1, <1>2, <1>3, <1>4

LEMMA RowsDoes ==
  ASSUME NEW c, Shape(c), NEW d, d = Rows(c)
  PROVE  Kept(c, d) /\ d.at = c.at
BY DEF Rows, Shape, Fields, Kept

LEMMA ResolvedDoes ==
  ASSUME NEW c, Shape(c), NEW v, NEW d, d = Resolved(c, v)
  PROVE  Kept(c, d) /\ d.at = c.at
<1>1. PICK list, due, shut : d = [c EXCEPT !.list = list, !.due = due, !.rows = {},
                                           !.shut = shut, !.read = "on"]
  BY DEF Resolved
<1>2. c = [f \in Fields |-> c[f]]
  BY DEF Shape
<1>3. d = [f \in Fields |-> d[f]]
  BY <1>1, <1>2 DEF Fields
<1>4. /\ d.kind = c.kind /\ d.sent = c.sent /\ d.who = c.who /\ d.typed = c.typed /\ d.since = c.since
      /\ d.marks = c.marks /\ d.at = c.at
  BY <1>1, <1>2 DEF Fields
<1>5. d.out = c.out /\ d.sid = c.sid /\ d.seen = c.seen
  BY <1>1, <1>2 DEF Fields
<1> QED BY <1>3, <1>4, <1>5 DEF Shape, Kept

\* loadAccounts() answers a switch; a sign-in goes on, unless the list is full.
LEMMA ListedDoes ==
  ASSUME NEW c, Shape(c), NEW d, d = Listed(c)
  PROVE  \/ Ended(d)
         \/ /\ Kept(c, d) /\ c.kind = "login"
            /\ d.at = IF "legacy" \in c.marks THEN "rehash" ELSE "create"
<1>1. CASE d = Answered(c)
  BY <1>1, AnsweredEnds
<1>2. CASE c.kind = "login" /\ d = Entering(c)
  BY <1>2, EnteringDoes
<1>3. CASE /\ Owned(c.list, c.who) # {}
           /\ d = Answered([c EXCEPT !.out.active = CHOOSE s \in Owned(c.list, c.who) : TRUE])
  <2> DEFINE a == CHOOSE s \in Owned(c.list, c.who) : TRUE
             e == [c EXCEPT !.out.active = a]
  <2>1. Owned(c.list, c.who) \subseteq Ids
    BY DEF Owned, Elements
  <2>2. a \in Ids
    BY <1>3, <2>1
  <2> HIDE DEF a
  <2>3. Shape(e)
    BY <2>2, KeptActive DEF Kept
  <2> QED BY <1>3, <2>3, AnsweredEnds DEF a
<1> QED BY <1>1, <1>2, <1>3 DEF Listed

LEMMA ListingDoes ==
  ASSUME NEW c, Shape(c), NEW d, d = Listing(c)
  PROVE  \/ Ended(d)
         \/ /\ Kept(c, d)
            /\ \/ c.kind = "logout" /\ d.at = "doom"
               \/ c.kind # "logout" /\ d.at = "extend"
               \/ c.kind = "login" /\ d.at = IF "legacy" \in c.marks THEN "rehash" ELSE "create"
<1>1. CASE c.kind = "logout"
  <2>1. d = [c EXCEPT !.at = "doom"]
    BY <1>1 DEF Listing
  <2> QED BY <1>1, <2>1, KeptAt
<1>2. CASE c.kind # "logout" /\ c.due # {}
  <2>1. d = [c EXCEPT !.at = "extend"]
    BY <1>2 DEF Listing
  <2> QED BY <1>2, <2>1, KeptAt
<1>3. CASE c.kind # "logout" /\ c.due = {}
  <2> DEFINE e == [c EXCEPT !.out.ids = IF c.list # ReadIds(c.sent) THEN c.list ELSE @]
  <2>1. d = Listed(e)
    BY <1>3 DEF Listing
  <2>2. Kept(c, e)
    <3>1. PICK q : e = [c EXCEPT !.out.ids = q]
      OBVIOUS
    <3> QED BY <3>1, KeptIds
  <2> HIDE DEF e
  <2>3. Shape(e) /\ e.kind = c.kind /\ e.marks = c.marks
    BY <2>2 DEF Kept
  <2>4. Ended(d) \/ (Kept(e, d) /\ e.kind = "login" /\ d.at = IF "legacy" \in e.marks THEN "rehash" ELSE "create")
    BY <2>1, <2>3, ListedDoes
  <2> QED BY <2>2, <2>3, <2>4 DEF Kept
<1> QED BY <1>1, <1>2, <1>3

LEMMA TakesOverDoes ==
  ASSUME NEW a \in Ids \cup {None}, NEW rest
  PROVE  TakesOver(a, rest) \in Ids \cup {None}
BY DEF TakesOver, Elements

-----------------------------------------------------------------------------
(* What holds of a request, and of everything else.                         *)

Web == {"use", "password"}
Entry == {"list", "install_list", "extend", "rehash"}

\* Which kinds of requests come to which steps.
StepsOK(c) ==
  /\ Shape(c)
  /\ c.at \in {"session", "expired", "refresh", "act", "save", "sweep"} => c.kind \in Web
  /\ c.at \in {"find", "rehash", "create", "replace"} => c.kind = "login"
  /\ c.at \in {"domains", "install"} => c.kind \in Web \cup {"login"}
  /\ c.kind \in Web => c.sent.active \in Ids
  /\ c.kind = "login" => c.who \in Mailboxes
  /\ c.at = "replace" => c.sid \in Ids

\* A request acts as the mailbox whose session it came with; S is the table of sessions.
OwnsOK(c, S) ==
  c.kind \in Web /\ c.at \in {"domains", "install", "refresh", "act", "save", "sweep"}
  => c.who \in Mailboxes /\ S[c.sent.active].of = c.who

\* Who has saved a password is about to end the sessions before it, and its own is not before it; N has
\* the last passwords chosen.
SweepOK(c, S, N) ==
  c.at = "sweep" => c.since <= S[c.sent.active].since /\ c.since <= N[c.who]

\* A sign-in that read a hash to rehash read the imported password, and that is the password until
\* another is chosen; P has the passwords stored.
LegacyOK(c, N, P) ==
  c.kind = "login" =>
    /\ c.since <= N[c.who]
    /\ c.at = "find" => "legacy" \notin c.marks
    /\ c.at = "rehash" => "legacy" \in c.marks
    /\ "legacy" \in c.marks =>
         /\ c.who \in Imported
         /\ c.since = N[c.who] => P[c.who] = 1
         /\ c.at \in {"domains", "install"} => c.seen = 1
         /\ c.at \in Entry => c.typed = 1

\* Whoever was barred when its request was sent still is, and goes on only on a list of domains that
\* drifted; E has the active mailboxes, D says whether the domain is on.
BarredOK(c, S, E, D) ==
  "barred" \in c.marks /\ c.kind \in Web \cup {"login"} /\ c.at # "idle" =>
    LET m == IF c.kind \in Web THEN S[c.sent.active].of ELSE c.who
    IN  /\ m \in Mailboxes /\ (m \notin E \/ D = "off")
        /\ c.at \in {"domains", "install"} => m \in E
        /\ c.at = "install" => c.read = D
        /\ c.at \in Entry \cup {"refresh", "act", "save", "create"} => "drift" \in c.marks

Session == [of : Mailboxes \cup {None}, life : {"unborn", "fresh", "due", "expired", "gone"}, since : Nat]

\* The tables, and what they say of one another.
TablesOK ==
  /\ sess \in [Ids -> Session]
  /\ \A s \in Ids : /\ sess[s].of = None <=> sess[s].life = "unborn"
                    /\ sess[s].of # None => sess[s].since <= newest[sess[s].of]
  /\ pw \in [Mailboxes -> Nat] /\ newest \in [Mailboxes -> Nat] /\ swept \in [Mailboxes -> Nat]
  /\ \A m \in Mailboxes : pw[m] <= newest[m] /\ swept[m] <= newest[m] /\ 1 <= newest[m]
  /\ enabled \subseteq Mailboxes
  /\ cookie.active \in Ids \cup {None}
  /\ cli = None \/ (cli \in [of : Mailboxes, since : Nat] /\ cli.since <= newest[cli.of])

\* A hash to rehash is the first password of an imported mailbox.
ImportedOK == legacy \subseteq Imported /\ \A m \in legacy : pw[m] = 1

\* The cached list of domains is right, or known to have drifted.
CacheOK == domain \in {"on", "off"} /\ (domCache \in {None, domain} \/ domDrift)

\* A session that is stored, expired or not: it comes back to life when its cookie is used in time.
EndedOK == \A s \in Ids : Stored(s) /\ sess[s].since < swept[sess[s].of] => s \in overtaken

\* All that holds of a request.
AllOK(c, S, N, P, E, D) ==
  StepsOK(c) /\ OwnsOK(c, S) /\ SweepOK(c, S, N) /\ LegacyOK(c, N, P) /\ BarredOK(c, S, E, D)

RequestsOK ==
  /\ req = [r \in Requests |-> req[r]]
  /\ \A r \in Requests : AllOK(req[r], sess, newest, pw, enabled, domain)

IInv == TablesOK /\ ImportedOK /\ CacheOK /\ EndedOK /\ RequestsOK

-----------------------------------------------------------------------------
(* The invariant of a request, as it and everything else moves on.          *)

LEMMA EndedAll ==
  ASSUME NEW d, Ended(d), NEW S, NEW N, NEW P, NEW E, NEW D
  PROVE  AllOK(d, S, N, P, E, D)
BY DEF Ended, AllOK, StepsOK, OwnsOK, SweepOK, LegacyOK, BarredOK, Web

\* Sessions keep their mailbox once they have one, and are renewed; passwords are chosen, or put back to
\* the first.
LEMMA StableAll ==
  ASSUME NEW c, NEW S, NEW N, NEW P, NEW E, NEW D, AllOK(c, S, N, P, E, D), NEW S2, NEW N2, NEW P2,
         S \in [Ids -> Session], S2 \in [Ids -> Session],
         N \in [Mailboxes -> Nat], N2 \in [Mailboxes -> Nat],
         \A s \in Ids : S[s].of # None => S2[s].of = S[s].of /\ S[s].since <= S2[s].since,
         \A m \in Mailboxes : N[m] <= N2[m] /\ (N2[m] = N[m] => P2[m] \in {P[m], 1})
  PROVE  AllOK(c, S2, N2, P2, E, D)
<1>1. StepsOK(c) /\ Shape(c)
  BY DEF AllOK, StepsOK
<1>2. None \notin Mailboxes
  BY NoneOutside
<1>3. OwnsOK(c, S2)
  BY <1>1, <1>2 DEF AllOK, OwnsOK, StepsOK
<1>4. SweepOK(c, S2, N2)
  <2> SUFFICES ASSUME c.at = "sweep" PROVE c.since <= S2[c.sent.active].since /\ c.since <= N2[c.who]
    BY DEF SweepOK
  <2>1. c.who \in Mailboxes /\ c.sent.active \in Ids /\ S[c.sent.active].of = c.who /\ c.since \in Nat
    BY <1>1 DEF AllOK, OwnsOK, StepsOK, Shape
  <2>2. c.since <= S[c.sent.active].since /\ c.since <= N[c.who]
    BY DEF AllOK, SweepOK
  <2>3. S[c.sent.active].since <= S2[c.sent.active].since /\ N[c.who] <= N2[c.who]
    BY <2>1, <1>2
  <2>4. /\ S[c.sent.active].since \in Nat /\ S2[c.sent.active].since \in Nat
        /\ N[c.who] \in Nat /\ N2[c.who] \in Nat
    BY <2>1 DEF Session
  <2> QED BY <2>1, <2>2, <2>3, <2>4
<1>5. LegacyOK(c, N2, P2)
  <2> SUFFICES ASSUME c.kind = "login"
               PROVE  c.since <= N2[c.who] /\ ("legacy" \in c.marks /\ c.since = N2[c.who] => P2[c.who] = 1)
    BY DEF AllOK, LegacyOK
  <2>1. c.who \in Mailboxes /\ c.since \in Nat
    BY <1>1 DEF StepsOK, Shape
  <2>2. c.since <= N[c.who] /\ ("legacy" \in c.marks /\ c.since = N[c.who] => P[c.who] = 1)
    BY DEF AllOK, LegacyOK
  <2>3. N[c.who] \in Nat /\ N2[c.who] \in Nat /\ N[c.who] <= N2[c.who]
        /\ (N2[c.who] = N[c.who] => P2[c.who] \in {P[c.who], 1})
    BY <2>1
  <2>4. c.since <= N2[c.who] /\ (c.since = N2[c.who] => c.since = N[c.who] /\ N2[c.who] = N[c.who])
    BY <2>1, <2>2, <2>3
  <2> QED BY <2>2, <2>3, <2>4
<1>6. BarredOK(c, S2, E, D)
  <2>1. CASE c.kind \in Web
    <3>1. c.sent.active \in Ids
      BY <1>1, <2>1 DEF StepsOK
    <3>2. S[c.sent.active].of \in Mailboxes => S2[c.sent.active].of = S[c.sent.active].of
      BY <1>2, <3>1
    <3> QED BY <2>1, <3>2 DEF AllOK, BarredOK
  <2>2. CASE c.kind \notin Web
    BY <2>2 DEF AllOK, BarredOK
  <2> QED BY <2>1, <2>2
<1> QED BY <1>1, <1>3, <1>4, <1>5, <1>6 DEF AllOK

\* The domains are "on" for a request that was barred only when they drifted.
LEMMA PermittedAll ==
  ASSUME NEW b, NEW S, NEW N, NEW P, NEW E, NEW D, AllOK(b, S, N, P, E, D),
         b.at \in {"domains", "install"}, NEW c, Kept(b, c), c.seen = b.seen,
         NEW v, "barred" \in b.marks => v = D \/ "drift" \in b.marks
  PROVE  AllOK(Permitted(c, v), S, N, P, E, D)
<1> DEFINE d == Permitted(c, v)
<1>1. Shape(c)
  BY DEF Kept
<1>2. \/ Ended(d)
      \/ /\ Kept(c, d) /\ v = "on"
         /\ \/ c.kind # "login" /\ d.at \in {"refresh", "act"}
            \/ /\ c.kind = "login" /\ c.typed = c.seen
               /\ d.at \in {"list", "create"} \cup IF "legacy" \in c.marks THEN {"rehash"} ELSE {}
  BY <1>1, PermittedDoes
<1> SUFFICES AllOK(d, S, N, P, E, D)
  OBVIOUS
<1> HIDE DEF d
<1>3. CASE Ended(d)
  BY <1>3, EndedAll
<1>4. CASE /\ Kept(c, d) /\ v = "on"
           /\ \/ c.kind # "login" /\ d.at \in {"refresh", "act"}
              \/ /\ c.kind = "login" /\ c.typed = c.seen
                 /\ d.at \in {"list", "create"} \cup IF "legacy" \in c.marks THEN {"rehash"} ELSE {}
  <2>0. /\ Kept(b, d)
        /\ \/ b.kind # "login" /\ d.at \in {"refresh", "act"}
           \/ /\ b.kind = "login" /\ b.typed = b.seen
              /\ d.at \in {"list", "create"} \cup IF "legacy" \in b.marks THEN {"rehash"} ELSE {}
    BY <1>4 DEF Kept
  <2>1. StepsOK(d)
    BY <2>0 DEF Kept, AllOK, StepsOK
  <2>2. OwnsOK(d, S) /\ SweepOK(d, S, N)
    BY <2>0 DEF Kept, AllOK, OwnsOK, SweepOK
  <2>3. LegacyOK(d, N, P)
    BY <2>0 DEF Kept, AllOK, LegacyOK, Entry
  <2>4. "barred" \in b.marks /\ b.kind \in Web \cup {"login"} => "drift" \in b.marks
    BY <1>4 DEF AllOK, BarredOK
  <2>5. BarredOK(d, S, E, D)
    BY <2>0, <2>4 DEF Kept, AllOK, BarredOK, Entry
  <2> QED BY <2>1, <2>2, <2>3, <2>5 DEF AllOK
<1> QED BY <1>2, <1>3, <1>4

\* What comes of the list of accounts.
LEMMA EntryAll ==
  ASSUME NEW c, NEW S, NEW N, NEW P, NEW E, NEW D, AllOK(c, S, N, P, E, D),
         c.at \in {"list", "install_list", "extend"}, NEW d, Kept(c, d),
         \/ d.at \in {"doom", "extend", "install_list", "list"}
         \/ c.kind = "login" /\ d.at = IF "legacy" \in c.marks THEN "rehash" ELSE "create"
  PROVE  AllOK(d, S, N, P, E, D)
<1>1. StepsOK(d)
  BY DEF Kept, AllOK, StepsOK
<1>2. OwnsOK(d, S) /\ SweepOK(d, S, N)
  BY DEF Kept, AllOK, OwnsOK, SweepOK
<1>3. LegacyOK(d, N, P)
  BY DEF Kept, AllOK, LegacyOK, Entry
<1>4. BarredOK(d, S, E, D)
  BY DEF Kept, AllOK, BarredOK, Entry
<1> QED BY <1>1, <1>2, <1>3, <1>4 DEF AllOK

LEMMA ListingAll ==
  ASSUME NEW c, NEW S, NEW N, NEW P, NEW E, NEW D, AllOK(c, S, N, P, E, D),
         c.at \in {"list", "install_list"}
  PROVE  AllOK(Listing(c), S, N, P, E, D)
<1> DEFINE d == Listing(c)
<1>1. Shape(c)
  BY DEF AllOK, StepsOK
<1>2. \/ Ended(d)
      \/ /\ Kept(c, d)
         /\ \/ c.kind = "logout" /\ d.at = "doom"
            \/ c.kind # "logout" /\ d.at = "extend"
            \/ c.kind = "login" /\ d.at = IF "legacy" \in c.marks THEN "rehash" ELSE "create"
  BY <1>1, ListingDoes
<1> HIDE DEF d
<1>3. AllOK(d, S, N, P, E, D)
  BY <1>2, EntryAll, EndedAll
<1> QED BY <1>3 DEF d

\* More marks that nothing asks for.
LEMMA DriftAll ==
  ASSUME NEW c, NEW S, NEW N, NEW P, NEW E, NEW D, AllOK(c, S, N, P, E, D),
         NEW d, d = [c EXCEPT !.marks = @ \cup {"drift"}]
  PROVE  AllOK(d, S, N, P, E, D) /\ d.at = c.at /\ "drift" \in d.marks
<1>1. Shape(c)
  BY DEF AllOK, StepsOK
<1>2. /\ Shape(d) /\ d.kind = c.kind /\ d.at = c.at /\ d.sent = c.sent /\ d.who = c.who
      /\ d.typed = c.typed /\ d.seen = c.seen /\ d.since = c.since /\ d.read = c.read /\ d.sid = c.sid
      /\ d.marks = c.marks \cup {"drift"}
  BY <1>1 DEF Shape, Fields
<1>3. StepsOK(d)
  BY <1>2 DEF AllOK, StepsOK
<1>4. OwnsOK(d, S) /\ SweepOK(d, S, N)
  BY <1>2 DEF AllOK, OwnsOK, SweepOK
<1>5. LegacyOK(d, N, P)
  BY <1>2 DEF AllOK, LegacyOK
<1>6. BarredOK(d, S, E, D)
  BY <1>2 DEF AllOK, BarredOK
<1> QED BY <1>2, <1>3, <1>4, <1>5, <1>6 DEF AllOK

\* Nobody asks who was barred any more.
LEMMA UnbarredAll ==
  ASSUME NEW c, NEW S, NEW N, NEW P, NEW E, NEW D, AllOK(c, S, N, P, E, D),
         NEW d, d = [c EXCEPT !.marks = @ \ {"barred"}], NEW E2, NEW D2
  PROVE  AllOK(d, S, N, P, E2, D2)
<1>1. Shape(c)
  BY DEF AllOK, StepsOK
<1>2. /\ Shape(d) /\ d.kind = c.kind /\ d.at = c.at /\ d.sent = c.sent /\ d.who = c.who
      /\ d.typed = c.typed /\ d.seen = c.seen /\ d.since = c.since /\ d.sid = c.sid
      /\ d.marks = c.marks \ {"barred"}
  BY <1>1 DEF Shape, Fields
<1>3. StepsOK(d)
  BY <1>2 DEF AllOK, StepsOK
<1>4. OwnsOK(d, S) /\ SweepOK(d, S, N)
  BY <1>2 DEF AllOK, OwnsOK, SweepOK
<1>5. LegacyOK(d, N, P)
  BY <1>2 DEF AllOK, LegacyOK
<1>6. BarredOK(d, S, E2, D2)
  BY <1>2 DEF BarredOK
<1> QED BY <1>3, <1>4, <1>5, <1>6 DEF AllOK

-----------------------------------------------------------------------------
(* Sessions that end, are renewed or grow old.                              *)

\* Sessions keep whose they are and since when, and none comes back that was gone.
Renewed ==
  /\ sess' \in [Ids -> Session]
  /\ \A s \in Ids : /\ sess'[s].of = sess[s].of /\ sess'[s].since = sess[s].since
                    /\ sess'[s].life = "unborn" <=> sess[s].life = "unborn"
                    /\ Stored(s)' => Stored(s)

LEMMA LifeDoes ==
  ASSUME NEW c \in Session, NEW l \in {"fresh", "due", "expired", "gone"}, NEW d, d = [c EXCEPT !.life = l]
  PROVE  d \in Session /\ d.of = c.of /\ d.since = c.since /\ d.life = l
BY DEF Session

LEMMA SameSessions ==
  ASSUME TablesOK, UNCHANGED sess
  PROVE  Renewed
BY DEF TablesOK, Renewed, Stored, Live

LEMMA DestroyDoes ==
  ASSUME TablesOK, NEW X, Destroy(X)
  PROVE  Renewed /\ \A s \in Ids : Stored(s)' => s \notin X
<1>1. \A s \in Ids : sess[s] \in Session
  BY DEF TablesOK
<1>2. ASSUME NEW s \in Ids
      PROVE  /\ sess'[s] \in Session /\ sess'[s].of = sess[s].of /\ sess'[s].since = sess[s].since
             /\ sess'[s].life = "unborn" <=> sess[s].life = "unborn"
             /\ Stored(s)' => Stored(s) /\ s \notin X
  <2>1. CASE s \in X /\ Stored(s)
    <3>1. sess'[s] = [sess[s] EXCEPT !.life = "gone"]
      BY <2>1 DEF Destroy
    <3>2. sess'[s] \in Session /\ sess'[s].of = sess[s].of /\ sess'[s].since = sess[s].since
          /\ sess'[s].life = "gone"
      BY <1>1, <3>1, LifeDoes
    <3> QED BY <2>1, <3>2 DEF Stored, Live
  <2>2. CASE ~(s \in X /\ Stored(s))
    <3>1. sess'[s] = sess[s]
      BY <2>2 DEF Destroy
    <3>2. Stored(s)' <=> Stored(s)
      BY <3>1 DEF Stored, Live
    <3> QED BY <1>1, <2>2, <3>1, <3>2
  <2> QED BY <2>1, <2>2
<1>3. sess' = [s \in Ids |-> sess'[s]]
  BY DEF Destroy
<1> QED BY <1>2, <1>3 DEF Renewed

LEMMA ExtendDoes ==
  ASSUME TablesOK, NEW X, Extend(X)
  PROVE  Renewed
<1>1. \A s \in Ids : sess[s] \in Session
  BY DEF TablesOK
<1>2. ASSUME NEW s \in Ids
      PROVE  /\ sess'[s] \in Session /\ sess'[s].of = sess[s].of /\ sess'[s].since = sess[s].since
             /\ sess'[s].life = "unborn" <=> sess[s].life = "unborn"
             /\ Stored(s)' => Stored(s)
  <2>1. CASE s \in X /\ Stored(s)
    <3>1. sess'[s] = [sess[s] EXCEPT !.life = "fresh"]
      BY <2>1 DEF Extend
    <3>2. sess'[s] \in Session /\ sess'[s].of = sess[s].of /\ sess'[s].since = sess[s].since
          /\ sess'[s].life = "fresh"
      BY <1>1, <3>1, LifeDoes
    <3> QED BY <2>1, <3>2 DEF Stored, Live
  <2>2. CASE ~(s \in X /\ Stored(s))
    <3>1. sess'[s] = sess[s]
      BY <2>2 DEF Extend
    <3> QED BY <1>1, <3>1 DEF Stored, Live
  <2> QED BY <2>1, <2>2
<1>3. sess' = [s \in Ids |-> sess'[s]]
  BY DEF Extend
<1> QED BY <1>2, <1>3 DEF Renewed

LEMMA AgesDoes ==
  ASSUME TablesOK, NEW s \in Ids, Ages(s)
  PROVE  Renewed
<1> DEFINE d == [sess[s] EXCEPT !.life = IF @ = "fresh" THEN "due" ELSE "expired"]
<1>1. sess[s] \in Session
  BY DEF TablesOK
<1>2. sess' = [sess EXCEPT ![s] = d]
  BY DEF Ages
<1>3. d \in Session /\ d.of = sess[s].of /\ d.since = sess[s].since /\ d.life \in {"due", "expired"}
  BY <1>1 DEF Session
<1> HIDE DEF d
<1>4. sess' \in [Ids -> Session] /\ sess'[s] = d /\ \A t \in Ids \ {s} : sess'[t] = sess[t]
  BY <1>2, <1>3 DEF TablesOK
<1>5. Stored(s) /\ sess[s].life # "unborn"
  BY DEF Ages, Stored, Live
<1>6. \A t \in Ids \ {s} : Stored(t)' <=> Stored(t)
  BY <1>4 DEF Stored, Live
<1> QED BY <1>3, <1>4, <1>5, <1>6 DEF Renewed

LEMMA TablesStay ==
  ASSUME TablesOK, Renewed, UNCHANGED <<pw, newest, swept, enabled, cli>>, cookie'.active \in Ids \cup {None}
  PROVE  TablesOK'
BY DEF TablesOK, Renewed

LEMMA EndedStays ==
  ASSUME EndedOK, Renewed, UNCHANGED swept, overtaken \subseteq overtaken'
  PROVE  EndedOK'
BY DEF EndedOK, Renewed

LEMMA RequestsStay ==
  ASSUME TablesOK, RequestsOK, Renewed, UNCHANGED <<pw, newest, enabled, domain>>
  PROVE  \A q \in Requests : AllOK(req[q], sess', newest', pw', enabled', domain')
<1> TAKE q \in Requests
<1>1. AllOK(req[q], sess, newest, pw, enabled, domain)
  BY DEF RequestsOK
<1>2. sess \in [Ids -> Session] /\ newest \in [Mailboxes -> Nat]
  BY DEF TablesOK
<1>3. \A s \in Ids : sess'[s].of = sess[s].of /\ sess[s].since <= sess'[s].since
  <2>1. \A s \in Ids : sess[s].since \in Nat
    BY <1>2 DEF Session
  <2> QED BY <2>1 DEF Renewed
<1>4. \A m \in Mailboxes : newest[m] <= newest[m]
  BY <1>2
<1> QED BY <1>1, <1>2, <1>3, <1>4, StableAll DEF Renewed

LEMMA BecomeDoes ==
  ASSUME RequestsOK, NEW r \in Requests, NEW d, Become(r, d)
  PROVE  /\ req' = [q \in Requests |-> req'[q]] /\ req'[r] = d
         /\ \A q \in Requests \ {r} : req'[q] = req[q]
BY DEF RequestsOK, Become

\* One request moves on, and everything still holds of it and the others.
LEMMA RequestsMove ==
  ASSUME RequestsOK, NEW r \in Requests, NEW d, Become(r, d),
         \A q \in Requests \ {r} : AllOK(req[q], sess', newest', pw', enabled', domain'),
         AllOK(d, sess', newest', pw', enabled', domain')
  PROVE  RequestsOK'
<1>1. \A q \in Requests : AllOK(req'[q], sess', newest', pw', enabled', domain')
  BY BecomeDoes
<1>2. req' = [q \in Requests |-> req'[q]]
  BY BecomeDoes
<1> QED BY <1>1, <1>2 DEF RequestsOK

-----------------------------------------------------------------------------
(* Steps that change nobody's password and no table but lives of sessions.  *)

Calm(r) ==
  \/ Send(r) \/ Respond(r) \/ ResponseLost(r) \/ LoadSession(r) \/ DropExpired(r) \/ FindUser(r)
  \/ CachedDomains(r) \/ QueryDomains(r) \/ InstallDomains(r) \/ Refresh(r) \/ Act(r)
  \/ ExtendListed(r) \/ SignOut(r) \/ Replace(r)

LEMMA CalmDoes ==
  ASSUME TablesOK, RequestsOK, NEW r \in Requests, Calm(r)
  PROVE  /\ Renewed /\ UNCHANGED <<pw, legacy, newest, swept, enabled, domain, cli, overtaken>>
         /\ cookie'.active \in Ids \cup {None}
<1> USE DEF users, domains, kept
<1>0. cookie.active \in Ids \cup {None}
  BY DEF TablesOK
<1>1. CASE Send(r) \/ ResponseLost(r)
  BY <1>0, <1>1, SameSessions DEF Send, ResponseLost
<1>2. CASE Respond(r)
  <2>1. UNCHANGED <<sess, users, domains, cli, overtaken>> /\ cookie' = Taken(req[r].out)
    BY <1>2 DEF Respond
  <2>2. req[r].out.active \in Ids \cup {None, Keep}
    BY DEF RequestsOK, AllOK, StepsOK, Shape
  <2>3. Taken(req[r].out).active \in Ids \cup {None}
    BY <1>0, <2>2 DEF Taken
  <2> QED BY <2>1, <2>3, SameSessions
<1>3. CASE LoadSession(r) \/ FindUser(r) \/ CachedDomains(r) \/ QueryDomains(r) \/ InstallDomains(r) \/ Act(r)
  BY <1>0, <1>3, SameSessions DEF LoadSession, FindUser, CachedDomains, QueryDomains, InstallDomains, Act
<1>4. CASE DropExpired(r) \/ Replace(r)
  <2>1. \E X : Destroy(X)
    BY <1>4 DEF DropExpired, Replace
  <2> QED BY <1>0, <1>4, <2>1, DestroyDoes DEF DropExpired, Replace
<1>5. CASE SignOut(r)
  <2>1. \E X : Destroy(X)
    BY <1>5 DEF SignOut
  <2> QED BY <1>0, <1>5, <2>1, DestroyDoes DEF SignOut
<1>6. CASE Refresh(r) \/ ExtendListed(r)
  <2>1. \E X : Extend(X)
    BY <1>6 DEF Refresh, ExtendListed
  <2> QED BY <1>0, <1>6, <2>1, ExtendDoes DEF Refresh, ExtendListed
<1> QED BY <1>1, <1>2, <1>3, <1>4, <1>5, <1>6 DEF Calm

\* What holds of the record that takes the place of r's, in a calm step; S is the table after it.
Fits(d, S) == AllOK(d, S, newest, pw, enabled, domain)

LEMMA CalmRequests ==
  ASSUME TablesOK, RequestsOK, NEW r \in Requests, Calm(r), NEW d, Become(r, d), Fits(d, sess')
  PROVE  RequestsOK'
<1>1. Renewed /\ UNCHANGED <<pw, newest, enabled, domain>>
  BY CalmDoes
<1>2. \A q \in Requests : AllOK(req[q], sess', newest', pw', enabled', domain')
  BY <1>1, RequestsStay
<1>3. AllOK(d, sess', newest', pw', enabled', domain')
  BY <1>1 DEF Fits
<1> QED BY <1>2, <1>3, RequestsMove

\* A record that fits before a calm step fits after it.
LEMMA FitsAfter ==
  ASSUME TablesOK, Renewed, NEW d, Fits(d, sess)
  PROVE  Fits(d, sess')
<1>1. sess \in [Ids -> Session] /\ newest \in [Mailboxes -> Nat] /\ pw \in [Mailboxes -> Nat]
  BY DEF TablesOK
<1>2. \A s \in Ids : sess'[s].of = sess[s].of /\ sess[s].since <= sess'[s].since
  <2>1. \A s \in Ids : sess[s].since \in Nat
    BY <1>1 DEF Session
  <2> QED BY <2>1 DEF Renewed
<1>3. \A m \in Mailboxes : newest[m] <= newest[m]
  BY <1>1
<1> QED BY <1>1, <1>2, <1>3, StableAll DEF Renewed, Fits

LEMMA ReqFits ==
  ASSUME RequestsOK, NEW r \in Requests
  PROVE  Fits(req[r], sess) /\ Shape(req[r])
BY DEF RequestsOK, Fits, AllOK, StepsOK

LEMMA EndedFits ==
  ASSUME NEW d, Ended(d), NEW S
  PROVE  Fits(d, S)
BY EndedAll DEF Fits

\* What a browser sends: the cookies, and nothing read or written yet.
Bare(d) == d.list = <<>> /\ d.rows = {} /\ d.shut = {} /\ d.out = Unchanged /\ d.sid = 0
LEMMA SendFits ==
  ASSUME TablesOK, RequestsOK, NEW r \in Requests, Send(r)
  PROVE  \E d : /\ Become(r, d) /\ Fits(d, sess)
               /\ d.sent = cookie /\ d.at \in {"session", "find", "list"} /\ Bare(d)
<1>1. PICK kind \in {"use", "password", "login", "switch", "logout"}, m \in Mailboxes \cup {None, All},
           p \in 0..MaxPassword :
        LET a == cookie.active
            target == IF kind \in {"use", "password"} THEN sess[a].of ELSE m
        IN  /\ kind \in {"use", "password"} => a # None /\ m = None
            /\ kind \in {"switch", "logout"} => ReadIds(cookie) # <<>>
            /\ kind = "login" => m \in Mailboxes
            /\ kind = "switch" => m # All
            /\ IF kind = "login" THEN p \in 1..newest[m]
               ELSE IF kind = "password" THEN p \in 1..newest[target] ELSE p = 0
            /\ Become(r, [Idle EXCEPT !.kind = kind, !.sent = cookie, !.who = m, !.typed = p,
                 !.at = IF kind \in {"use", "password"} THEN "session"
                        ELSE IF kind = "login" THEN "find" ELSE "list",
                 !.marks = IF target \in Mailboxes /\ Barred(target) THEN {"barred"} ELSE {}])
  BY DEF Send
<1> DEFINE target == IF kind \in {"use", "password"} THEN sess[cookie.active].of ELSE m
           step == IF kind \in {"use", "password"} THEN "session"
                   ELSE IF kind = "login" THEN "find" ELSE "list"
           marks == IF target \in Mailboxes /\ Barred(target) THEN {"barred"} ELSE {}
           d == [Idle EXCEPT !.kind = kind, !.sent = cookie, !.who = m, !.typed = p, !.at = step, !.marks = marks]
<1>2. Become(r, d) /\ (kind \in Web => cookie.active # None) /\ (kind = "login" => m \in Mailboxes)
  BY <1>1 DEF Web
<1>3. /\ step = "session" <=> kind \in Web
      /\ step = "find" <=> kind = "login"
      /\ step \in {"session", "find", "list"}
  BY DEF Web
<1>4. marks \subseteq {"barred"} /\ ("barred" \in marks => target \in Mailboxes /\ Barred(target))
  OBVIOUS
<1>5. (kind \in Web => target = sess[cookie.active].of) /\ (kind \notin Web => target = m)
  BY DEF Web
<1> HIDE DEF target, step, marks
<1>6. /\ d = [f \in Fields |-> d[f]] /\ d.out = Idle.out /\ d.sent = cookie /\ d.sid = Idle.sid
      /\ d.kind = kind /\ d.who = m /\ d.typed = p /\ d.at = step /\ d.marks = marks
      /\ d.seen = 0 /\ d.since = 0 /\ Bare(d)
  <2>1. Idle = [f \in Fields |-> Idle[f]] /\ Idle.seen = 0 /\ Idle.since = 0
    BY DEF Idle, Fields
  <2>2. d = [f \in Fields |-> d[f]]
    BY <2>1 DEF Fields
  <2>3. d.out = Idle.out /\ d.sent = cookie /\ d.sid = Idle.sid /\ d.seen = 0 /\ d.since = 0
    BY <2>1 DEF Fields
  <2>4. d.kind = kind /\ d.who = m /\ d.typed = p /\ d.at = step /\ d.marks = marks
    BY <2>1 DEF Fields
  <2>5. Bare(d)
    BY DEF Idle, Bare
  <2> QED BY <2>2, <2>3, <2>4, <2>5
<1> HIDE DEF d
<1>7. cookie.active \in Ids \cup {None}
  BY DEF TablesOK
<1>8. p \in Nat
  OBVIOUS
<1>9. Shape(d)
  BY <1>6, <1>7, <1>8, IdleShape DEF Shape
<1>10. StepsOK(d)
  BY <1>2, <1>3, <1>6, <1>7, <1>9 DEF StepsOK, Web
<1>11. OwnsOK(d, sess) /\ SweepOK(d, sess, newest)
  BY <1>3, <1>6 DEF OwnsOK, SweepOK
<1>12. LegacyOK(d, newest, pw)
  <2>1. kind = "login" => newest[m] \in Nat
    BY <1>2 DEF TablesOK
  <2> QED BY <1>3, <1>4, <1>6, <2>1 DEF LegacyOK, Entry
<1>13. BarredOK(d, sess, enabled, domain)
  BY <1>3, <1>4, <1>5, <1>6 DEF BarredOK, Barred, Entry, Web
<1> QED BY <1>2, <1>3, <1>6, <1>10, <1>11, <1>12, <1>13 DEF Fits, AllOK

\* What a request reads of an enabled mailbox is what it is.
LEMMA SeenFits ==
  ASSUME TablesOK, ImportedOK, NEW c, Fits(c, sess), NEW m \in enabled,
         c.at \in {"session", "find"},
         c.kind \in Web => sess[c.sent.active].of = m,
         c.kind = "login" => c.who = m
  PROVE  Fits(Seen(c, m), sess)
<1> DEFINE d == Seen(c, m)
<1>1. m \in Mailboxes /\ pw[m] \in Nat /\ newest[m] \in Nat
  BY DEF TablesOK
<1>2. Shape(c) /\ c.kind \in Web \cup {"login"}
  BY DEF Fits, AllOK, StepsOK, Web
<1>3. /\ Shape(d) /\ d.kind = c.kind /\ d.sent = c.sent /\ d.typed = c.typed
      /\ d.at = "domains" /\ d.who = m /\ d.seen = pw[m] /\ d.since = newest[m]
      /\ d.marks = c.marks \cup IF m \in legacy THEN {"legacy"} ELSE {}
  BY <1>1, <1>2, SeenDoes
<1> SUFFICES Fits(d, sess)
  OBVIOUS
<1> HIDE DEF d
<1>4. StepsOK(d)
  BY <1>1, <1>2, <1>3 DEF Fits, AllOK, StepsOK
<1>5. OwnsOK(d, sess) /\ SweepOK(d, sess, newest)
  BY <1>1, <1>3 DEF OwnsOK, SweepOK
<1>6. c.kind = "login" => "legacy" \notin c.marks
  BY DEF Fits, AllOK, LegacyOK, StepsOK, Web
<1>7. m \in legacy => m \in Imported /\ pw[m] = 1
  BY DEF ImportedOK
<1>8. LegacyOK(d, newest, pw)
  BY <1>1, <1>3, <1>6, <1>7 DEF LegacyOK, Entry
<1>9. BarredOK(d, sess, enabled, domain)
  BY <1>1, <1>2, <1>3 DEF Fits, AllOK, BarredOK, Entry, Web
<1> QED BY <1>4, <1>5, <1>8, <1>9 DEF Fits, AllOK

LEMMA DueFits ==
  ASSUME NEW c, NEW S, Fits(c, S), NEW x, NEW d, d = [c EXCEPT !.due = x]
  PROVE  Fits(d, S) /\ d.kind = c.kind /\ d.at = c.at /\ d.sent = c.sent /\ d.who = c.who
<1>1. Shape(c)
  BY DEF Fits, AllOK, StepsOK
<1>2. Kept(c, d) /\ d.at = c.at /\ d.seen = c.seen /\ d.read = c.read /\ d.sid = c.sid
  BY <1>1, KeptDue
<1>3. StepsOK(d)
  BY <1>2 DEF Kept, Fits, AllOK, StepsOK
<1>4. OwnsOK(d, S) /\ SweepOK(d, S, newest)
  BY <1>2 DEF Kept, Fits, AllOK, OwnsOK, SweepOK
<1>5. LegacyOK(d, newest, pw)
  BY <1>2 DEF Kept, Fits, AllOK, LegacyOK
<1>6. BarredOK(d, S, enabled, domain)
  BY <1>2 DEF Kept, Fits, AllOK, BarredOK
<1> QED BY <1>2, <1>3, <1>4, <1>5, <1>6 DEF Kept, Fits, AllOK

\* A request of a session goes on to the handler, or to what the handler decides.
LEMMA WebFits ==
  ASSUME NEW c, Fits(c, sess), NEW d, Kept(c, d),
         \/ c.at \in {"refresh", "act"} /\ d.at \in {"act", "save"}
         \/ c.at = "session" /\ d.at = "expired"
  PROVE  Fits(d, sess)
<1>1. c.kind \in Web /\ StepsOK(d)
  BY DEF Kept, Fits, AllOK, StepsOK
<1>2. OwnsOK(d, sess) /\ SweepOK(d, sess, newest)
  BY DEF Kept, Fits, AllOK, OwnsOK, SweepOK
<1>3. LegacyOK(d, newest, pw)
  BY <1>1 DEF Kept, LegacyOK, Web
<1>4. BarredOK(d, sess, enabled, domain)
  BY DEF Kept, Fits, AllOK, BarredOK, Entry
<1> QED BY <1>1, <1>2, <1>3, <1>4 DEF Fits, AllOK

LEMMA LoadSessionFits ==
  ASSUME TablesOK, ImportedOK, RequestsOK, NEW r \in Requests, LoadSession(r)
  PROVE  \E d : Become(r, d) /\ Fits(d, sess)
<1> DEFINE c == req[r]
           s == c.sent.active
           gone == [c EXCEPT !.out.active = None]
           late == [c EXCEPT !.at = "expired"]
           due == [c EXCEPT !.due = IF sess[s].life = "due" THEN {s} ELSE {}]
<1>1. c.at = "session"
  BY DEF LoadSession
<1>2. Fits(c, sess) /\ Shape(c)
  BY ReqFits
<1>3. c.kind \in Web /\ s \in Ids
  BY <1>1, <1>2 DEF Fits, AllOK, StepsOK
<1>4. Become(r, IF sess[s].life = "gone" THEN Answered(gone)
                ELSE IF sess[s].life = "expired" THEN late
                ELSE IF sess[s].of \notin enabled THEN Answered(c)
                ELSE Seen(due, sess[s].of))
  BY DEF LoadSession
<1> HIDE DEF c
<1>5. Fits(Answered(gone), sess)
  <2>1. Shape(gone)
    BY <1>2, KeptActive DEF Kept
  <2> HIDE DEF gone
  <2> QED BY <2>1, AnsweredEnds, EndedFits
<1>6. Fits(late, sess)
  <2>1. Kept(c, late) /\ late.at = "expired"
    BY <1>2, KeptAt
  <2> HIDE DEF late
  <2> QED BY <1>1, <1>2, <2>1, WebFits
<1>7. Fits(Answered(c), sess)
  BY <1>2, AnsweredEnds, EndedFits
<1>8. ASSUME sess[s].of \in enabled PROVE Fits(Seen(due, sess[s].of), sess)
  <2>1. Fits(due, sess) /\ due.kind = c.kind /\ due.at = c.at /\ due.sent = c.sent
    BY <1>2, DueFits
  <2> HIDE DEF due
  <2> QED BY <1>1, <1>3, <1>8, <2>1, SeenFits DEF Web
<1> HIDE DEF gone, late, due, s
<1> QED BY <1>4, <1>5, <1>6, <1>7, <1>8

LEMMA FindUserFits ==
  ASSUME TablesOK, ImportedOK, RequestsOK, NEW r \in Requests, FindUser(r)
  PROVE  \E d : Become(r, d) /\ Fits(d, sess)
<1>1. /\ req[r].at = "find"
      /\ Become(r, IF req[r].who \in enabled THEN Seen(req[r], req[r].who) ELSE Answered(req[r]))
  BY DEF FindUser
<1>2. Fits(req[r], sess) /\ Shape(req[r]) /\ req[r].kind = "login"
  BY <1>1, ReqFits DEF Fits, AllOK, StepsOK
<1>3. Fits(Answered(req[r]), sess)
  BY <1>2, AnsweredEnds, EndedFits
<1>4. req[r].who \in enabled => Fits(Seen(req[r], req[r].who), sess)
  BY <1>1, <1>2, SeenFits DEF Web
<1> QED BY <1>1, <1>3, <1>4

\* The accounts are resolved and listed.
LEMMA ResolvedFits ==
  ASSUME NEW c, Fits(c, sess), c.at \in {"list", "install_list"}, NEW v
  PROVE  Fits(Listing(Resolved(c, v)), sess)
<1> DEFINE e == Resolved(c, v)
<1>1. Kept(c, e) /\ e.at = c.at
  BY ResolvedDoes DEF Fits, AllOK, StepsOK
<1> HIDE DEF e
<1>2. AllOK(e, sess, newest, pw, enabled, domain)
  BY <1>1, EntryAll DEF Fits
<1>3. AllOK(Listing(e), sess, newest, pw, enabled, domain)
  BY <1>1, <1>2, ListingAll
<1> QED BY <1>3 DEF Fits, e

LEMMA RowsFits ==
  ASSUME NEW c, Fits(c, sess), c.at = "list"
  PROVE  Fits(Rows(c), sess) /\ Rows(c).at = "list"
<1> DEFINE e == Rows(c)
<1>1. Kept(c, e) /\ e.at = c.at
  BY RowsDoes DEF Fits, AllOK, StepsOK
<1> HIDE DEF e
<1>2. Fits(e, sess)
  BY <1>1, EntryAll DEF Fits
<1> QED BY <1>1, <1>2 DEF e

LEMMA CachedDomainsFits ==
  ASSUME CacheOK, RequestsOK, NEW r \in Requests, CachedDomains(r)
  PROVE  \E d : Become(r, d) /\ Fits(d, sess)
<1> DEFINE drifted == [req[r] EXCEPT !.marks = @ \cup {"drift"}]
           c == IF domDrift THEN drifted ELSE req[r]
<1>1. /\ req[r].at \in {"domains", "list"} /\ domCache # None
      /\ Become(r, IF c.at = "domains" THEN Permitted(c, domCache)
                   ELSE Listing(Resolved(Rows(c), domCache)))
  BY DEF CachedDomains
<1>2. Fits(req[r], sess)
  BY ReqFits
<1>3. Fits(drifted, sess) /\ drifted.at = req[r].at /\ "drift" \in drifted.marks
  BY <1>2, DriftAll DEF Fits
<1> HIDE DEF drifted
<1>4. Fits(c, sess) /\ c.at = req[r].at /\ (domDrift => "drift" \in c.marks)
  BY <1>2, <1>3
<1>5. domCache = domain \/ domDrift
  BY <1>1 DEF CacheOK
<1> HIDE DEF c
<1>6. ASSUME c.at = "domains" PROVE Fits(Permitted(c, domCache), sess)
  <2>1. Kept(c, c)
    BY <1>4 DEF Kept, Fits, AllOK, StepsOK
  <2> QED BY <1>4, <1>5, <1>6, <2>1, PermittedAll DEF Fits
<1>7. ASSUME c.at = "list" PROVE Fits(Listing(Resolved(Rows(c), domCache)), sess)
  BY <1>4, <1>7, RowsFits, ResolvedFits
<1> QED BY <1>1, <1>4, <1>6, <1>7

LEMMA QueryDomainsFits ==
  ASSUME RequestsOK, NEW r \in Requests, QueryDomains(r)
  PROVE  \E d : Become(r, d) /\ Fits(d, sess)
<1> DEFINE c == req[r]
           one == [c EXCEPT !.at = "install", !.read = domain]
           all == [Rows(c) EXCEPT !.at = "install_list", !.read = domain]
<1>1. c.at \in {"domains", "list"} /\ Become(r, IF c.at = "domains" THEN one ELSE all)
  BY DEF QueryDomains
<1>2. Fits(c, sess) /\ Shape(c)
  BY ReqFits
<1> HIDE DEF c
<1>3. ASSUME c.at = "domains" PROVE Fits(one, sess)
  <2>1. Kept(c, one) /\ one.at = "install" /\ one.read = domain /\ one.seen = c.seen
    BY <1>2 DEF Shape, Fields, Kept
  <2> HIDE DEF one
  <2>2. StepsOK(one)
    BY <1>2, <1>3, <2>1 DEF Kept, Fits, AllOK, StepsOK
  <2>3. OwnsOK(one, sess) /\ SweepOK(one, sess, newest)
    BY <1>2, <1>3, <2>1 DEF Kept, Fits, AllOK, OwnsOK, SweepOK
  <2>4. LegacyOK(one, newest, pw)
    BY <1>2, <1>3, <2>1 DEF Kept, Fits, AllOK, LegacyOK, Entry
  <2>5. BarredOK(one, sess, enabled, domain)
    BY <1>2, <1>3, <2>1 DEF Kept, Fits, AllOK, BarredOK, Entry
  <2> QED BY <2>2, <2>3, <2>4, <2>5 DEF Fits, AllOK
<1>4. ASSUME c.at = "list" PROVE Fits(all, sess)
  <2> DEFINE e == Rows(c)
  <2>1. Fits(e, sess) /\ e.at = "list"
    BY <1>2, <1>4, RowsFits
  <2> HIDE DEF e
  <2>2. all = [e EXCEPT !.at = "install_list", !.read = domain]
    BY DEF e
  <2> HIDE DEF all
  <2>3. Shape(e)
    BY <2>1 DEF Fits, AllOK, StepsOK
  <2>4. Kept(e, all) /\ all.at = "install_list"
    BY <2>2, <2>3 DEF Shape, Fields, Kept
  <2> QED BY <2>1, <2>4, EntryAll DEF Fits
<1> HIDE DEF one, all
<1> QED BY <1>1, <1>3, <1>4

LEMMA EntryAllSame ==
  ASSUME NEW c, Fits(c, sess), c.at \in {"list", "install_list", "extend"}, NEW d, Kept(c, d), d.at = c.at
  PROVE  Fits(d, sess)
BY EntryAll DEF Fits

LEMMA SignedEnds ==
  ASSUME NEW c, Shape(c), c.sid \in Ids, NEW X
  PROVE  Ended(Signed(c, X))
<1>1. PICK q : Signed(c, X) = Answered([c EXCEPT !.out = [active |-> c.sid, ids |-> q]])
  BY DEF Signed
<1> DEFINE e == [c EXCEPT !.out = [active |-> c.sid, ids |-> q]]
<1>2. Shape(e)
  BY KeptOut DEF Kept
<1> HIDE DEF e
<1>3. Ended(Answered(e))
  BY <1>2, AnsweredEnds
<1> QED BY <1>1, <1>3 DEF e

LEMMA InstallDomainsFits ==
  ASSUME RequestsOK, NEW r \in Requests, InstallDomains(r)
  PROVE  \E d : Become(r, d) /\ Fits(d, sess)
<1> DEFINE b == req[r]
           c == [b EXCEPT !.read = "on"]
<1>1. /\ b.at \in {"install", "install_list"}
      /\ Become(r, IF c.at = "install" THEN Permitted(c, b.read) ELSE Listing(Resolved(c, b.read)))
  BY DEF InstallDomains
<1>2. Fits(b, sess) /\ Shape(b)
  BY ReqFits
<1> HIDE DEF b
<1>3. Kept(b, c) /\ c.at = b.at /\ c.seen = b.seen
  BY <1>2, KeptRead
<1> HIDE DEF c
<1>4. ASSUME b.at = "install" PROVE Fits(Permitted(c, b.read), sess)
  <2>1. b.kind \in Web \cup {"login"}
    BY <1>2, <1>4 DEF Fits, AllOK, StepsOK
  <2>2. "barred" \in b.marks => b.read = domain
    BY <1>2, <1>4, <2>1 DEF Fits, AllOK, BarredOK
  <2> QED BY <1>2, <1>3, <1>4, <2>2, PermittedAll DEF Fits
<1>5. ASSUME b.at = "install_list" PROVE Fits(Listing(Resolved(c, b.read)), sess)
  <2>1. Fits(c, sess)
    BY <1>2, <1>3, <1>5, EntryAllSame DEF Fits
  <2> QED BY <1>3, <1>5, <2>1, ResolvedFits
<1> QED BY <1>1, <1>3, <1>4, <1>5

LEMMA HandlerFits ==
  ASSUME RequestsOK, NEW r \in Requests, Refresh(r) \/ Act(r)
  PROVE  \E d : Become(r, d) /\ Fits(d, sess)
<1> DEFINE c == req[r]
           on == [c EXCEPT !.at = "act", !.out = [active |-> c.sent.active, ids |-> ReadIds(c.sent)]]
           saves == [c EXCEPT !.at = "save"]
<1>1. Fits(c, sess) /\ Shape(c)
  BY ReqFits
<1>2. CASE Refresh(r)
  <2>1. c.at = "refresh" /\ Become(r, on)
    BY <1>2 DEF Refresh
  <2> HIDE DEF c
  <2>2. c.sent.active \in Ids \cup {None}
    BY <1>1 DEF Shape
  <2> DEFINE q == ReadIds(c.sent)
  <2> HIDE DEF q
  <2>3. Kept(c, on) /\ on.at = "act"
    <3>1. on = [c EXCEPT !.at = "act", !.out = [active |-> c.sent.active, ids |-> q]]
      BY DEF q
    <3> HIDE DEF on
    <3> QED BY <1>1, <2>2, <3>1 DEF Shape, Fields, Kept
  <2> HIDE DEF on
  <2> QED BY <1>1, <2>1, <2>3, WebFits
<1>3. CASE Act(r)
  <2>1. c.at = "act" /\ (Become(r, saves) \/ Become(r, Answered(c)))
    BY <1>3 DEF Act
  <2> HIDE DEF c
  <2>2. Kept(c, saves) /\ saves.at = "save"
    BY <1>1, KeptAt
  <2> HIDE DEF saves
  <2>3. Fits(saves, sess)
    BY <1>1, <2>1, <2>2, WebFits
  <2>4. Fits(Answered(c), sess)
    BY <1>1, AnsweredEnds, EndedFits
  <2> QED BY <2>1, <2>3, <2>4
<1> QED BY <1>2, <1>3

LEMMA AccountsFits ==
  ASSUME RequestsOK, NEW r \in Requests, ExtendListed(r) \/ SignOut(r) \/ Replace(r) \/ DropExpired(r)
  PROVE  \E d : Become(r, d) /\ Fits(d, sess)
<1> DEFINE c == req[r]
<1>1. Fits(c, sess) /\ Shape(c)
  BY ReqFits
<1>2. CASE ExtendListed(r)
  <2> DEFINE e == [c EXCEPT !.out.ids = c.list]
  <2>1. c.at = "extend" /\ Become(r, Listed(e))
    BY <1>2 DEF ExtendListed
  <2> HIDE DEF c
  <2>2. Kept(c, e) /\ e.at = c.at
    BY <1>1, KeptIds
  <2> HIDE DEF e
  <2> DEFINE d == Listed(e)
  <2>3. \/ Ended(d)
        \/ /\ Kept(e, d) /\ e.kind = "login"
           /\ d.at = IF "legacy" \in e.marks THEN "rehash" ELSE "create"
    BY <2>2, ListedDoes DEF Kept
  <2> HIDE DEF d
  <2>4. Kept(e, d) => Kept(c, d)
    BY <2>2 DEF Kept
  <2>5. Fits(d, sess)
    BY <1>1, <2>1, <2>2, <2>3, <2>4, EntryAll, EndedFits DEF Fits, Kept
  <2> QED BY <2>1, <2>5 DEF d
<1>3. CASE SignOut(r)
  <2>1. PICK rest : Become(r, Answered([c EXCEPT !.out =
                                 [ids |-> rest, active |-> TakesOver(c.sent.active, rest)]]))
    BY <1>3 DEF SignOut
  <2> HIDE DEF c
  <2> DEFINE a == TakesOver(c.sent.active, rest)
             e == [c EXCEPT !.out = [ids |-> rest, active |-> a]]
  <2>2. a \in Ids \cup {None}
    BY <1>1, TakesOverDoes DEF Shape
  <2> HIDE DEF a
  <2>3. e = [c EXCEPT !.out = [active |-> a, ids |-> rest]]
    OBVIOUS
  <2> HIDE DEF e
  <2>4. Shape(e)
    BY <1>1, <2>2, <2>3, KeptOut DEF Kept
  <2>5. Fits(Answered(e), sess)
    BY <2>4, AnsweredEnds, EndedFits
  <2> QED BY <2>1, <2>5 DEF e, a
<1>4. CASE Replace(r)
  <2>1. c.at = "replace" /\ \E X : Become(r, Signed(c, X))
    BY <1>4 DEF Replace
  <2>2. c.sid \in Ids
    BY <1>1, <2>1 DEF Fits, AllOK, StepsOK
  <2>3. \A X : Fits(Signed(c, X), sess)
    BY <1>1, <2>2, SignedEnds, EndedFits
  <2> QED BY <2>1, <2>3
<1>5. CASE DropExpired(r)
  <2> DEFINE e == [c EXCEPT !.out.active = None]
  <2>1. Become(r, Answered(e))
    BY <1>5 DEF DropExpired
  <2> HIDE DEF c
  <2>2. Shape(e)
    BY <1>1, KeptActive DEF Kept
  <2> HIDE DEF e
  <2> QED BY <2>1, <2>2, AnsweredEnds, EndedFits
<1> QED BY <1>2, <1>3, <1>4, <1>5

\* A calm step leaves every request as the invariant wants it.
LEMMA CalmFits ==
  ASSUME TablesOK, ImportedOK, CacheOK, RequestsOK, NEW r \in Requests, Calm(r)
  PROVE  \E d : Become(r, d) /\ Fits(d, sess)
<1>1. CASE Send(r)
  BY <1>1, SendFits
<1>2. CASE Respond(r) \/ ResponseLost(r)
  <2>1. Become(r, Idle)
    BY <1>2 DEF Respond, ResponseLost
  <2>2. Fits(Idle, sess)
    BY IdleShape, EndedFits
  <2> QED BY <2>1, <2>2
<1>3. CASE LoadSession(r)
  BY <1>3, LoadSessionFits
<1>4. CASE FindUser(r)
  BY <1>4, FindUserFits
<1>5. CASE CachedDomains(r)
  BY <1>5, CachedDomainsFits
<1>6. CASE QueryDomains(r)
  BY <1>6, QueryDomainsFits
<1>7. CASE InstallDomains(r)
  BY <1>7, InstallDomainsFits
<1>8. CASE Refresh(r) \/ Act(r)
  BY <1>8, HandlerFits
<1>9. CASE ExtendListed(r) \/ SignOut(r) \/ Replace(r) \/ DropExpired(r)
  BY <1>9, AccountsFits
<1> QED BY <1>1, <1>2, <1>3, <1>4, <1>5, <1>6, <1>7, <1>8, <1>9 DEF Calm

\* The cached domains change only when a query installs what it read.
LEMMA CalmCache ==
  ASSUME CacheOK, TablesOK, RequestsOK, NEW r \in Requests, Calm(r)
  PROVE  CacheOK'
<1>1. UNCHANGED domain
  BY CalmDoes
<1>2. CASE InstallDomains(r)
  <2>1. domCache' = req[r].read /\ domDrift' = (req[r].read # domain)
    BY <1>2 DEF InstallDomains
  <2> QED BY <1>1, <2>1 DEF CacheOK
<1>3. CASE ~InstallDomains(r)
  <2>1. UNCHANGED <<domCache, domDrift>>
    BY <1>3 DEF Calm, domains, Send, Respond, ResponseLost, LoadSession, DropExpired, FindUser,
                CachedDomains, QueryDomains, Refresh, Act, ExtendListed, SignOut, Replace
  <2> QED BY <1>1, <2>1 DEF CacheOK
<1> QED BY <1>2, <1>3

LEMMA CalmKeeps ==
  ASSUME IInv, NEW r \in Requests, Calm(r)
  PROVE  IInv'
<1> USE DEF IInv
<1>1. /\ Renewed /\ UNCHANGED <<pw, legacy, newest, swept, enabled, domain, cli, overtaken>>
      /\ cookie'.active \in Ids \cup {None}
  BY CalmDoes
<1>2. TablesOK' /\ EndedOK'
  BY <1>1, TablesStay, EndedStays
<1>3. ImportedOK'
  BY <1>1 DEF ImportedOK
<1>4. CacheOK'
  BY CalmCache
<1>5. PICK d : Become(r, d) /\ Fits(d, sess)
  BY CalmFits
<1>6. Fits(d, sess')
  BY <1>1, <1>5, FitsAfter
<1>7. RequestsOK'
  BY <1>5, <1>6, CalmRequests
<1> QED BY <1>2, <1>3, <1>4, <1>7

\* Sessions end or grow old on their own, and the cached domains too.
LEMMA OutsideKeeps ==
  ASSUME IInv, Revoke \/ PurgeExpired \/ CacheExpires \/ (\E s \in Ids : Ages(s))
  PROVE  IInv'
<1> USE DEF IInv
<1>1. Renewed
  <2>1. CASE Revoke \/ PurgeExpired
    <3>1. \E X : Destroy(X)
      BY <2>1 DEF Revoke, PurgeExpired
    <3> QED BY <3>1, DestroyDoes
  <2>2. CASE CacheExpires
    BY <2>2, SameSessions DEF CacheExpires
  <2>3. CASE \E s \in Ids : Ages(s)
    BY <2>3, AgesDoes
  <2> QED BY <2>1, <2>2, <2>3
<1>2. UNCHANGED <<pw, legacy, newest, swept, enabled, domain, cookie, req, cli, overtaken>>
  BY DEF Revoke, PurgeExpired, CacheExpires, Ages, users, domains, kept
<1>3. UNCHANGED <<domCache, domDrift>> \/ (domCache' = None /\ domDrift' = FALSE)
  BY DEF Revoke, PurgeExpired, CacheExpires, Ages, domains
<1>4. cookie'.active \in Ids \cup {None}
  BY <1>2 DEF TablesOK
<1>5. TablesOK' /\ EndedOK'
  BY <1>1, <1>2, <1>4, TablesStay, EndedStays
<1>6. ImportedOK' /\ CacheOK'
  BY <1>2, <1>3 DEF ImportedOK, CacheOK
<1>7. \A q \in Requests : AllOK(req[q], sess', newest', pw', enabled', domain')
  BY <1>1, <1>2, RequestsStay
<1>8. RequestsOK'
  BY <1>2, <1>7 DEF RequestsOK
<1> QED BY <1>5, <1>6, <1>8

-----------------------------------------------------------------------------
(* Steps that change passwords or open sessions.                            *)

\* Sessions keep whose they are and are not before what they were; a password that is not new is as it
\* was, or the first.
Grown ==
  /\ sess' \in [Ids -> Session] /\ newest' \in [Mailboxes -> Nat] /\ pw' \in [Mailboxes -> Nat]
  /\ \A s \in Ids : sess[s].of # None => sess'[s].of = sess[s].of /\ sess[s].since <= sess'[s].since
  /\ \A m \in Mailboxes : newest[m] <= newest'[m] /\ (newest'[m] = newest[m] => pw'[m] \in {pw[m], 1})

LEMMA RequestsGrow ==
  ASSUME TablesOK, RequestsOK, Grown, UNCHANGED <<enabled, domain>>
  PROVE  \A q \in Requests : AllOK(req[q], sess', newest', pw', enabled', domain')
<1> TAKE q \in Requests
<1>1. AllOK(req[q], sess, newest, pw, enabled, domain)
  BY DEF RequestsOK
<1>2. sess \in [Ids -> Session] /\ newest \in [Mailboxes -> Nat]
  BY DEF TablesOK
<1> QED BY <1>1, <1>2, StableAll DEF Grown

\* Sessions that only end or are renewed have not gone back.
LEMMA RenewedGrows ==
  ASSUME TablesOK, Renewed
  PROVE  \A s \in Ids : sess[s].of # None => sess'[s].of = sess[s].of /\ sess[s].since <= sess'[s].since
<1>1. \A s \in Ids : sess[s].since \in Nat
  BY DEF TablesOK, Session
<1> QED BY <1>1 DEF Renewed

LEMMA NewPasswordDoes ==
  ASSUME TablesOK, ImportedOK, NEW m \in Mailboxes, NewPassword(m)
  PROVE  /\ newest' \in [Mailboxes -> Nat] /\ pw' \in [Mailboxes -> Nat]
         /\ newest'[m] = newest[m] + 1 /\ pw'[m] = newest'[m]
         /\ \A x \in Mailboxes : newest[x] <= newest'[x] /\ (newest'[x] = newest[x] => pw'[x] = pw[x])
         /\ \A x \in Mailboxes : pw'[x] <= newest'[x] /\ 1 <= newest'[x]
         /\ ImportedOK'
<1>1. newest \in [Mailboxes -> Nat] /\ pw \in [Mailboxes -> Nat]
      /\ \A x \in Mailboxes : pw[x] <= newest[x] /\ 1 <= newest[x]
  BY DEF TablesOK
<1>2. /\ newest' = [newest EXCEPT ![m] = newest[m] + 1]
      /\ pw' = [pw EXCEPT ![m] = newest[m] + 1] /\ legacy' = legacy \ {m}
  BY DEF NewPassword
<1>3. newest[m] + 1 \in Nat
  BY <1>1
<1>4. newest' \in [Mailboxes -> Nat] /\ newest'[m] = newest[m] + 1
      /\ \A x \in Mailboxes \ {m} : newest'[x] = newest[x]
  BY <1>1, <1>2, <1>3
<1>5. pw' \in [Mailboxes -> Nat] /\ pw'[m] = newest[m] + 1
      /\ \A x \in Mailboxes \ {m} : pw'[x] = pw[x]
  BY <1>1, <1>2, <1>3
<1>6. \A x \in Mailboxes : newest[x] \in Nat /\ pw[x] \in Nat
  BY <1>1
<1>7. \A x \in Mailboxes : newest[x] <= newest'[x] /\ (newest'[x] = newest[x] => pw'[x] = pw[x])
  <2> TAKE x \in Mailboxes
  <2>1. CASE x = m
    BY <1>4, <1>6, <2>1
  <2>2. CASE x # m
    BY <1>4, <1>5, <1>6, <2>2
  <2> QED BY <2>1, <2>2
<1>8. \A x \in Mailboxes : pw'[x] <= newest'[x] /\ 1 <= newest'[x]
  <2> TAKE x \in Mailboxes
  <2>1. CASE x = m
    BY <1>1, <1>4, <1>5, <1>6, <2>1
  <2>2. CASE x # m
    BY <1>1, <1>4, <1>5, <1>6, <2>2
  <2> QED BY <2>1, <2>2
<1>9. legacy \subseteq Mailboxes
  BY ImportedKnown DEF ImportedOK
<1>10. ImportedOK'
  BY <1>2, <1>5, <1>9 DEF ImportedOK
<1> QED BY <1>4, <1>5, <1>7, <1>8, <1>10

\* A password that another chose: an administrator, or the recovery CLI.
LEMMA OthersKeep ==
  ASSUME IInv, NEW m \in Mailboxes, AdminPassword(m) \/ CliPasswd(m)
  PROVE  IInv'
<1> USE DEF IInv
<1>1. NewPassword(m) /\ UNCHANGED <<sess, enabled, swept, domains, cookie, req, overtaken>>
  BY DEF AdminPassword, CliPasswd, kept
<1>2. /\ newest' \in [Mailboxes -> Nat] /\ pw' \in [Mailboxes -> Nat]
      /\ newest'[m] = newest[m] + 1 /\ pw'[m] = newest'[m]
      /\ \A x \in Mailboxes : newest[x] <= newest'[x] /\ (newest'[x] = newest[x] => pw'[x] = pw[x])
      /\ \A x \in Mailboxes : pw'[x] <= newest'[x] /\ 1 <= newest'[x]
      /\ ImportedOK'
  BY <1>1, NewPasswordDoes
<1>3. /\ sess \in [Ids -> Session] /\ swept \in [Mailboxes -> Nat] /\ newest \in [Mailboxes -> Nat]
      /\ \A x \in Mailboxes : swept[x] <= newest[x]
  BY DEF TablesOK
<1>4. \A s \in Ids : sess'[s].of = None <=> sess'[s].life = "unborn"
  BY <1>1 DEF TablesOK
<1>5. ASSUME NEW s \in Ids, sess'[s].of # None PROVE sess'[s].since <= newest'[sess'[s].of]
  <2>1. sess'[s] = sess[s] /\ sess[s] \in Session
    BY <1>1, <1>3
  <2>2. sess[s].of \in Mailboxes /\ sess[s].since \in Nat
    BY <1>5, <2>1 DEF Session
  <2>3. sess[s].since <= newest[sess[s].of]
    BY <2>2, NoneOutside DEF TablesOK
  <2>4. newest[sess[s].of] \in Nat /\ newest'[sess[s].of] \in Nat
        /\ newest[sess[s].of] <= newest'[sess[s].of]
    BY <1>2, <1>3, <2>2
  <2> QED BY <2>1, <2>2, <2>3, <2>4
<1>6. \A x \in Mailboxes : swept'[x] <= newest'[x]
  <2> TAKE x \in Mailboxes
  <2>1. swept'[x] = swept[x] /\ swept[x] \in Nat /\ newest[x] \in Nat /\ newest'[x] \in Nat
        /\ swept[x] <= newest[x] /\ newest[x] <= newest'[x]
    BY <1>1, <1>2, <1>3
  <2> QED BY <2>1
<1>7. cli' = None \/ (cli' \in [of : Mailboxes, since : Nat] /\ cli'.since <= newest'[cli'.of])
  <2>1. CASE AdminPassword(m)
    <3>1. cli' = cli
      BY <2>1 DEF AdminPassword
    <3>2. CASE cli = None
      BY <3>1, <3>2
    <3>3. CASE cli # None
      <4>1. cli.of \in Mailboxes /\ cli.since \in Nat /\ cli.since <= newest[cli.of]
            /\ cli \in [of : Mailboxes, since : Nat]
        BY <3>3 DEF TablesOK
      <4>2. newest[cli.of] \in Nat /\ newest'[cli.of] \in Nat /\ newest[cli.of] <= newest'[cli.of]
        BY <1>2, <1>3, <4>1
      <4>3. cli.since <= newest'[cli.of]
        BY <4>1, <4>2
      <4> QED BY <3>1, <4>1, <4>3
    <3> QED BY <3>2, <3>3
  <2>2. CASE CliPasswd(m)
    <3>1. cli' = [of |-> m, since |-> newest'[m]]
      BY <2>2 DEF CliPasswd
    <3>2. newest'[m] \in Nat
      BY <1>2
    <3> QED BY <3>1, <3>2
  <2> QED BY <2>1, <2>2
<1>8. TablesOK'
  BY <1>1, <1>2, <1>3, <1>4, <1>5, <1>6, <1>7 DEF TablesOK
<1>9. CacheOK' /\ EndedOK'
  BY <1>1 DEF CacheOK, EndedOK, domains, Stored, Live
<1>10. Grown
  <2>1. \A s \in Ids : sess[s].since \in Nat
    BY <1>3 DEF Session
  <2> QED BY <1>1, <1>2, <1>3, <2>1 DEF Grown
<1>11. \A q \in Requests : AllOK(req[q], sess', newest', pw', enabled', domain')
  BY <1>1, <1>10, RequestsGrow DEF domains
<1>12. RequestsOK'
  BY <1>1, <1>11 DEF RequestsOK
<1> QED BY <1>2, <1>8, <1>9, <1>12

\* Who saves a password renews its own session with it, and is to end the others.
LEMMA SaveKeeps ==
  ASSUME IInv, NEW r \in Requests, SavePassword(r)
  PROVE  IInv'
<1> USE DEF IInv
<1> DEFINE c == req[r]
           m == c.who
           a == c.sent.active
<1>1. /\ c.at = "save" /\ NewPassword(m)
      /\ sess' = [sess EXCEPT ![a].since = newest'[m]]
      /\ Become(r, [c EXCEPT !.at = "sweep", !.since = newest'[m]])
      /\ UNCHANGED <<enabled, swept, domains, cookie, cli, overtaken>>
  BY DEF SavePassword, kept
<1>2. Fits(c, sess) /\ Shape(c)
  BY ReqFits
<1>3. c.kind \in Web /\ a \in Ids /\ m \in Mailboxes /\ sess[a].of = m
  BY <1>1, <1>2 DEF Fits, AllOK, StepsOK, OwnsOK, Web
<1>4. /\ newest' \in [Mailboxes -> Nat] /\ pw' \in [Mailboxes -> Nat]
      /\ newest'[m] = newest[m] + 1 /\ pw'[m] = newest'[m]
      /\ \A x \in Mailboxes : newest[x] <= newest'[x] /\ (newest'[x] = newest[x] => pw'[x] = pw[x])
      /\ \A x \in Mailboxes : pw'[x] <= newest'[x] /\ 1 <= newest'[x]
      /\ ImportedOK'
  BY <1>1, <1>3, NewPasswordDoes
<1> DEFINE n == newest'[m]
           d == [c EXCEPT !.at = "sweep", !.since = n]
           own == [sess[a] EXCEPT !.since = n]
<1>5. n \in Nat
  BY <1>3, <1>4
<1>6. /\ sess \in [Ids -> Session] /\ swept \in [Mailboxes -> Nat] /\ newest \in [Mailboxes -> Nat]
      /\ \A x \in Mailboxes : swept[x] <= newest[x]
  BY DEF TablesOK
<1>7. sess' = [sess EXCEPT ![a] = own] /\ Become(r, d)
  BY <1>1
<1>8. n >= newest[m] /\ n = newest'[m]
  BY <1>3, <1>4, <1>6
<1> HIDE DEF c, n
<1>9. own \in Session /\ own.of = m /\ own.life = sess[a].life /\ own.since = n
  <2>1. sess[a] \in Session
    BY <1>3, <1>6
  <2> QED BY <1>3, <1>5, <2>1 DEF Session
<1>10. /\ Shape(d) /\ d.kind = c.kind /\ d.sent = c.sent /\ d.who = c.who /\ d.marks = c.marks
       /\ d.at = "sweep" /\ d.since = n
  BY <1>2, <1>5 DEF Shape, Fields
<1> HIDE DEF d, own
<1>11. sess' \in [Ids -> Session] /\ sess'[a] = own /\ \A s \in Ids \ {a} : sess'[s] = sess[s]
  BY <1>3, <1>6, <1>7, <1>9
<1>12. \A s \in Ids : sess'[s].of = sess[s].of /\ sess'[s].life = sess[s].life
  BY <1>3, <1>9, <1>11
<1>13. \A s \in Ids : sess[s].of # None =>
         sess[s].of \in Mailboxes /\ sess[s].since \in Nat /\ sess[s].since <= newest[sess[s].of]
         /\ sess'[s].since <= newest'[sess[s].of] /\ sess[s].since <= sess'[s].since
  <2> SUFFICES ASSUME NEW s \in Ids, sess[s].of # None
               PROVE  /\ sess[s].of \in Mailboxes /\ sess[s].since \in Nat
                      /\ sess[s].since <= newest[sess[s].of]
                      /\ sess'[s].since <= newest'[sess[s].of] /\ sess[s].since <= sess'[s].since
    OBVIOUS
  <2>1. sess[s].of \in Mailboxes /\ sess[s].since \in Nat
    BY <1>6 DEF Session
  <2>2. sess[s].since <= newest[sess[s].of]
    BY DEF TablesOK
  <2>3. newest[sess[s].of] \in Nat /\ newest'[sess[s].of] \in Nat /\ newest[sess[s].of] <= newest'[sess[s].of]
    BY <1>4, <1>6, <2>1
  <2>4. CASE s = a
    BY <1>3, <1>5, <1>8, <1>9, <1>11, <2>1, <2>2, <2>3, <2>4
  <2>5. CASE s # a
    BY <1>11, <2>1, <2>2, <2>3, <2>5
  <2> QED BY <2>1, <2>2, <2>4, <2>5
<1>14. Grown
  BY <1>4, <1>11, <1>12, <1>13 DEF Grown
<1>15. \A x \in Mailboxes : swept'[x] <= newest'[x]
  <2> TAKE x \in Mailboxes
  <2>1. swept'[x] = swept[x] /\ swept[x] \in Nat /\ newest[x] \in Nat /\ newest'[x] \in Nat
        /\ swept[x] <= newest[x] /\ newest[x] <= newest'[x]
    BY <1>1, <1>4, <1>6
  <2> QED BY <2>1
<1>16. cli' = None \/ (cli' \in [of : Mailboxes, since : Nat] /\ cli'.since <= newest'[cli'.of])
  <2>1. CASE cli = None
    BY <1>1, <2>1
  <2>2. CASE cli # None
    <3>1. cli.of \in Mailboxes /\ cli.since \in Nat /\ cli.since <= newest[cli.of]
          /\ cli \in [of : Mailboxes, since : Nat]
      BY <2>2 DEF TablesOK
    <3>2. newest[cli.of] \in Nat /\ newest'[cli.of] \in Nat /\ newest[cli.of] <= newest'[cli.of]
      BY <1>4, <1>6, <3>1
    <3>3. cli.since <= newest'[cli.of]
      BY <3>1, <3>2
    <3> QED BY <1>1, <3>1, <3>3
  <2> QED BY <2>1, <2>2
<1>17. TablesOK'
  <2>1. \A s \in Ids : /\ sess'[s].of = None <=> sess'[s].life = "unborn"
                       /\ sess'[s].of # None => sess'[s].since <= newest'[sess'[s].of]
    BY <1>12, <1>13 DEF TablesOK
  <2>2. enabled' \subseteq Mailboxes /\ cookie'.active \in Ids \cup {None} /\ swept' \in [Mailboxes -> Nat]
    BY <1>1 DEF TablesOK
  <2> QED BY <1>4, <1>11, <1>15, <1>16, <2>1, <2>2 DEF TablesOK
<1>18. CacheOK'
  BY <1>1 DEF CacheOK, domains
<1>19. EndedOK'
  <2> SUFFICES ASSUME NEW s \in Ids, Stored(s)', sess'[s].since < swept'[sess'[s].of]
               PROVE  s \in overtaken'
    BY DEF EndedOK
  <2>1. Stored(s)
    BY <1>12 DEF Stored, Live
  <2>2. sess[s].of # None
    <3>1. sess[s].life # "unborn"
      BY <2>1 DEF Stored, Live
    <3> QED BY <3>1 DEF TablesOK
  <2>3. sess[s].of \in Mailboxes /\ sess[s].since \in Nat /\ sess[s].since <= sess'[s].since
    BY <1>13, <2>2
  <2>4. sess'[s].since \in Nat /\ swept[sess[s].of] \in Nat
    BY <1>6, <1>11, <2>3 DEF Session
  <2>5. sess[s].since < swept[sess[s].of]
    BY <1>1, <1>12, <2>3, <2>4
  <2> QED BY <1>1, <2>1, <2>5 DEF EndedOK
<1>20. \A q \in Requests : AllOK(req[q], sess', newest', pw', enabled', domain')
  BY <1>1, <1>14, RequestsGrow DEF domains
<1>21. AllOK(d, sess', newest', pw', enabled', domain')
  <2>1. AllOK(c, sess', newest', pw', enabled', domain')
    BY <1>20 DEF c
  <2>2. StepsOK(d)
    BY <1>3, <1>10, <2>1 DEF AllOK, StepsOK, Web
  <2>3. OwnsOK(d, sess')
    BY <1>3, <1>10, <1>12 DEF OwnsOK
  <2>4. SweepOK(d, sess', newest')
    BY <1>5, <1>8, <1>9, <1>10, <1>11 DEF SweepOK
  <2>5. LegacyOK(d, newest', pw')
    BY <1>3, <1>10 DEF LegacyOK, Web
  <2>6. BarredOK(d, sess', enabled', domain')
    BY <1>1, <1>10, <2>1 DEF AllOK, BarredOK, Entry
  <2> QED BY <2>2, <2>3, <2>4, <2>5, <2>6 DEF AllOK
<1>22. RequestsOK'
  BY <1>7, <1>20, <1>21, RequestsMove
<1> QED BY <1>4, <1>17, <1>18, <1>19, <1>22

\* The sessions of m from before its password n end: none is stored but those not before n.
LEMMA SweptKeeps ==
  ASSUME TablesOK, EndedOK, Renewed, NEW m \in Mailboxes, NEW n \in Nat, n <= newest[m],
         swept' = [swept EXCEPT ![m] = Higher(@, n)], UNCHANGED <<pw, newest, enabled, cookie, overtaken>>,
         cli' \in {cli, None},
         \A s \in Ids : Stored(s)' /\ sess[s].of = m => n <= sess[s].since
  PROVE  TablesOK' /\ EndedOK'
<1>1. /\ sess \in [Ids -> Session] /\ swept \in [Mailboxes -> Nat] /\ newest \in [Mailboxes -> Nat]
      /\ \A x \in Mailboxes : swept[x] <= newest[x]
  BY DEF TablesOK
<1>2. swept[m] \in Nat /\ newest[m] \in Nat
  BY <1>1
<1> DEFINE h == Higher(swept[m], n)
<1>3. h \in {swept[m], n} /\ h \in Nat /\ h <= newest[m]
  BY <1>1, <1>2 DEF Higher
<1>4. swept' = [swept EXCEPT ![m] = h]
  OBVIOUS
<1> HIDE DEF h
<1>5. swept' \in [Mailboxes -> Nat] /\ swept'[m] = h /\ \A x \in Mailboxes \ {m} : swept'[x] = swept[x]
  BY <1>1, <1>3, <1>4
<1>6. \A x \in Mailboxes : swept'[x] <= newest[x]
  BY <1>1, <1>3, <1>5
<1>7. TablesOK'
  BY <1>5, <1>6 DEF TablesOK, Renewed
<1>8. EndedOK'
  <2> SUFFICES ASSUME NEW s \in Ids, Stored(s)', sess'[s].since < swept'[sess'[s].of]
               PROVE  s \in overtaken'
    BY DEF EndedOK
  <2>1. Stored(s) /\ sess'[s].of = sess[s].of /\ sess'[s].since = sess[s].since
    BY DEF Renewed
  <2>2. sess[s].of \in Mailboxes /\ sess[s].since \in Nat
    <3>1. sess[s].life # "unborn"
      BY <2>1 DEF Stored, Live
    <3>2. sess[s].of # None
      BY <3>1 DEF TablesOK
    <3> QED BY <1>1, <3>2 DEF Session
  <2>3. sess[s].since < swept[sess[s].of]
    <3>1. CASE sess[s].of = m
      <4>1. n <= sess[s].since /\ sess[s].since < h
        BY <1>5, <2>1, <3>1
      <4> QED BY <1>2, <1>3, <2>2, <3>1, <4>1
    <3>2. CASE sess[s].of # m
      BY <1>5, <2>1, <2>2, <3>2
    <3> QED BY <3>1, <3>2
  <2> QED BY <2>1, <2>3 DEF EndedOK
<1> QED BY <1>7, <1>8

LEMMA SweepOthersKeeps ==
  ASSUME IInv, NEW r \in Requests, SweepOthers(r)
  PROVE  IInv'
<1> USE DEF IInv
<1> DEFINE c == req[r]
           m == c.who
           a == c.sent.active
           n == c.since
<1>1. /\ c.at = "sweep" /\ Destroy(OtherSessions(m, a))
      /\ swept' = [swept EXCEPT ![m] = Higher(@, n)]
      /\ Become(r, Answered(c))
      /\ UNCHANGED <<pw, legacy, enabled, newest, domains, cookie, cli, kept>>
  BY DEF SweepOthers
<1>2. Fits(c, sess) /\ Shape(c)
  BY ReqFits
<1>3. /\ c.kind \in Web /\ a \in Ids /\ m \in Mailboxes /\ sess[a].of = m /\ n \in Nat
      /\ n <= sess[a].since /\ n <= newest[m]
  BY <1>1, <1>2 DEF Fits, AllOK, StepsOK, OwnsOK, SweepOK, Shape, Web
<1>4. Renewed /\ \A s \in Ids : Stored(s)' => s \notin OtherSessions(m, a)
  BY <1>1, DestroyDoes
<1>5. \A s \in Ids : Stored(s)' /\ sess[s].of = m => n <= sess[s].since
  BY <1>3, <1>4 DEF OtherSessions
<1>6. Fits(Answered(c), sess)
  BY <1>2, AnsweredEnds, EndedFits
<1> HIDE DEF c
<1>7. TablesOK' /\ EndedOK'
  BY <1>1, <1>3, <1>4, <1>5, SweptKeeps DEF kept
<1>8. ImportedOK' /\ CacheOK'
  BY <1>1 DEF ImportedOK, CacheOK, domains
<1>9. \A q \in Requests : AllOK(req[q], sess', newest', pw', enabled', domain')
  BY <1>1, <1>4, RequestsStay DEF domains
<1>10. AllOK(Answered(c), sess', newest', pw', enabled', domain')
  BY <1>2, AnsweredEnds, EndedAll
<1>11. RequestsOK'
  BY <1>1, <1>9, <1>10, RequestsMove
<1> QED BY <1>7, <1>8, <1>11

LEMMA CliSweepKeeps ==
  ASSUME IInv, CliSweep
  PROVE  IInv'
<1> USE DEF IInv
<1> DEFINE m == cli.of
           n == cli.since
<1>1. /\ cli # None /\ Destroy({s \in Ids : sess[s].of = m})
      /\ swept' = [swept EXCEPT ![m] = Higher(@, n)] /\ cli' = None
      /\ UNCHANGED <<pw, legacy, enabled, newest, domains, cookie, req, kept>>
  BY DEF CliSweep
<1>2. m \in Mailboxes /\ n \in Nat /\ n <= newest[m]
  BY <1>1 DEF TablesOK
<1>3. Renewed /\ \A s \in Ids : Stored(s)' => s \notin {t \in Ids : sess[t].of = m}
  BY <1>1, DestroyDoes
<1> HIDE DEF m, n
<1>4. TablesOK' /\ EndedOK'
  BY <1>1, <1>2, <1>3, SweptKeeps DEF kept
<1>5. ImportedOK' /\ CacheOK'
  BY <1>1 DEF ImportedOK, CacheOK, domains
<1>6. \A q \in Requests : AllOK(req[q], sess', newest', pw', enabled', domain')
  BY <1>1, <1>3, RequestsStay DEF domains
<1>7. RequestsOK'
  BY <1>1, <1>6 DEF RequestsOK
<1> QED BY <1>4, <1>5, <1>7

\* A sign-in rehashes the first password of an imported mailbox.
LEMMA RehashDoes ==
  ASSUME TablesOK, RequestsOK, NEW r \in Requests, Rehash(r)
  PROVE  /\ req[r].kind = "login" /\ req[r].who \in Imported /\ req[r].who \in Mailboxes
         /\ pw' = [pw EXCEPT ![req[r].who] = 1]
         /\ req[r].since \in Nat /\ req[r].since <= newest[req[r].who]
         /\ req[r].since = newest[req[r].who] => pw[req[r].who] = 1
<1>1. req[r].at = "rehash" /\ pw' = [pw EXCEPT ![req[r].who] = req[r].typed]
  BY DEF Rehash
<1>2. Fits(req[r], sess)
  BY ReqFits
<1>3. req[r].kind = "login" /\ req[r].who \in Mailboxes /\ req[r].since \in Nat
  BY <1>1, <1>2 DEF Fits, AllOK, StepsOK, Shape
<1>4. /\ req[r].who \in Imported /\ req[r].typed = 1
      /\ req[r].since <= newest[req[r].who]
      /\ req[r].since = newest[req[r].who] => pw[req[r].who] = 1
  BY <1>1, <1>2, <1>3 DEF Fits, AllOK, LegacyOK, Entry
<1> QED BY <1>1, <1>3, <1>4

LEMMA RehashKeeps ==
  ASSUME IInv, NEW r \in Requests, Rehash(r)
  PROVE  IInv'
<1> USE DEF IInv
<1> DEFINE c == req[r]
           m == c.who
           d == [c EXCEPT !.at = "create"]
<1>1. /\ c.at = "rehash" /\ legacy' = legacy \ {m} /\ req' = [req EXCEPT ![r].at = "create"]
      /\ UNCHANGED <<sess, enabled, newest, swept, domains, cookie, cli, kept>>
  BY DEF Rehash, Goto
<1>2. c.kind = "login" /\ m \in Mailboxes /\ pw' = [pw EXCEPT ![m] = 1]
  BY RehashDoes
<1>3. Fits(c, sess) /\ Shape(c)
  BY ReqFits
<1>4. Become(r, d)
  BY <1>1 DEF Become
<1>5. Kept(c, d) /\ d.at = "create"
  BY <1>3, KeptAt
<1> HIDE DEF c, d
<1>6. /\ pw \in [Mailboxes -> Nat] /\ newest \in [Mailboxes -> Nat] /\ sess \in [Ids -> Session]
      /\ \A x \in Mailboxes : pw[x] <= newest[x] /\ 1 <= newest[x]
  BY DEF TablesOK
<1>7. pw' \in [Mailboxes -> Nat] /\ pw'[m] = 1 /\ \A x \in Mailboxes \ {m} : pw'[x] = pw[x]
  BY <1>2, <1>6
<1>8. \A x \in Mailboxes : pw'[x] <= newest[x]
  BY <1>6, <1>7
<1>9. TablesOK'
  BY <1>1, <1>7, <1>8 DEF TablesOK
<1>10. ImportedOK'
  <2>1. legacy \subseteq Mailboxes
    BY ImportedKnown DEF ImportedOK
  <2> QED BY <1>1, <1>7, <2>1 DEF ImportedOK
<1>11. CacheOK' /\ EndedOK'
  BY <1>1 DEF CacheOK, EndedOK, domains, kept, Stored, Live
<1>12. Grown
  <2>1. \A x \in Mailboxes : newest[x] <= newest'[x] /\ pw'[x] \in {pw[x], 1}
    BY <1>1, <1>6, <1>7
  <2>2. \A s \in Ids : sess[s].since <= sess[s].since
    BY <1>6 DEF Session
  <2> QED BY <1>1, <1>6, <1>7, <2>1, <2>2 DEF Grown
<1>13. \A q \in Requests : AllOK(req[q], sess', newest', pw', enabled', domain')
  BY <1>1, <1>12, RequestsGrow DEF domains
<1>14. AllOK(d, sess', newest', pw', enabled', domain')
  <2>1. AllOK(c, sess', newest', pw', enabled', domain')
    BY <1>13 DEF c
  <2>2. StepsOK(d)
    BY <1>2, <1>5, <2>1 DEF Kept, AllOK, StepsOK
  <2>3. OwnsOK(d, sess') /\ SweepOK(d, sess', newest')
    BY <1>5 DEF OwnsOK, SweepOK
  <2>4. LegacyOK(d, newest', pw')
    BY <1>1, <1>5, <2>1 DEF Kept, AllOK, LegacyOK, Entry
  <2>5. BarredOK(d, sess', enabled', domain')
    BY <1>1, <1>5, <2>1 DEF Kept, AllOK, BarredOK, Entry
  <2> QED BY <2>2, <2>3, <2>4, <2>5 DEF AllOK
<1>15. RequestsOK'
  BY <1>4, <1>13, <1>14, RequestsMove
<1> QED BY <1>9, <1>10, <1>11, <1>15

\* A new session on a password that was changed since it was read is marked as overtaken.
LEMMA CreateKeeps ==
  ASSUME IInv, NEW r \in Requests, Create(r)
  PROVE  IInv'
<1> USE DEF IInv
<1>1. PICK s \in Ids :
        /\ sess[s].life = "unborn"
        /\ LET c == [req[r] EXCEPT !.sid = s]
           IN  /\ sess' = [sess EXCEPT ![s] = [of |-> c.who, life |-> "fresh", since |-> c.since]]
               /\ overtaken' = overtaken \cup (IF newest[c.who] > c.since THEN {s} ELSE {})
               /\ Become(r, IF ReadIds(c.sent) = <<>> THEN Signed(c, {}) ELSE [c EXCEPT !.at = "replace"])
  BY DEF Create
<1> DEFINE b == req[r]
           c == [b EXCEPT !.sid = s]
           m == c.who
           n == c.since
           d == [c EXCEPT !.at = "replace"]
           new == [of |-> m, life |-> "fresh", since |-> n]
<1>2. /\ sess' = [sess EXCEPT ![s] = new]
      /\ overtaken' = overtaken \cup (IF newest[m] > n THEN {s} ELSE {})
      /\ Become(r, Signed(c, {})) \/ Become(r, d)
  BY <1>1
<1>3. b.at = "create" /\ UNCHANGED <<users, domains, cookie, cli>>
  BY DEF Create
<1>4. Fits(b, sess) /\ Shape(b)
  BY ReqFits
<1>5. b.kind = "login" /\ b.who \in Mailboxes /\ b.since \in Nat /\ b.since <= newest[b.who]
  BY <1>3, <1>4 DEF Fits, AllOK, StepsOK, Shape, LegacyOK
<1> HIDE DEF b
<1>6. Kept(b, c) /\ c.sid = s /\ Shape(c)
  BY <1>4, KeptSid DEF Kept
<1> HIDE DEF c
<1>7. m \in Mailboxes /\ n \in Nat /\ n <= newest[m]
  BY <1>5, <1>6 DEF Kept
<1>8. Kept(c, d) /\ d.at = "replace" /\ d.sid = c.sid
  <2>1. Kept(c, d) /\ d.at = "replace"
    BY <1>6, KeptAt
  <2>2. d.sid = c.sid
    BY <1>6 DEF Shape, Fields
  <2> QED BY <2>1, <2>2
<1> HIDE DEF d, m, n
<1>9. new \in Session
  BY <1>7 DEF Session
<1>10. sess \in [Ids -> Session] /\ newest \in [Mailboxes -> Nat] /\ swept \in [Mailboxes -> Nat]
       /\ pw \in [Mailboxes -> Nat]
  BY DEF TablesOK
<1>11. new.of = m /\ new.life = "fresh" /\ new.since = n
  OBVIOUS
<1> HIDE DEF new
<1>12. sess' \in [Ids -> Session] /\ sess'[s] = new /\ \A t \in Ids \ {s} : sess'[t] = sess[t]
  BY <1>2, <1>9, <1>10
<1>13. sess[s].of = None
  BY <1>1 DEF TablesOK
<1>14. UNCHANGED <<pw, legacy, enabled, newest, swept, domain, domCache, domDrift>>
  BY <1>3 DEF users, domains
<1>15. TablesOK'
  <2>1. \A t \in Ids : /\ sess'[t].of = None <=> sess'[t].life = "unborn"
                       /\ sess'[t].of # None => sess'[t].since <= newest[sess'[t].of]
    <3> TAKE t \in Ids
    <3>1. CASE t = s
      BY <1>7, <1>11, <1>12, <3>1, NoneOutside
    <3>2. CASE t # s
      BY <1>12, <3>2 DEF TablesOK
    <3> QED BY <3>1, <3>2
  <2> QED BY <1>3, <1>12, <1>14, <2>1 DEF TablesOK
<1>16. ImportedOK' /\ CacheOK'
  BY <1>14 DEF ImportedOK, CacheOK
<1>17. EndedOK'
  <2> SUFFICES ASSUME NEW t \in Ids, Stored(t)', sess'[t].since < swept[sess'[t].of]
               PROVE  t \in overtaken'
    BY <1>14 DEF EndedOK
  <2>1. CASE t = s
    <3>1. n < swept[m] /\ swept[m] \in Nat /\ newest[m] \in Nat /\ swept[m] <= newest[m]
      BY <1>7, <1>10, <1>11, <1>12, <2>1 DEF TablesOK
    <3>2. newest[m] > n
      BY <1>7, <3>1
    <3> QED BY <1>2, <2>1, <3>2
  <2>2. CASE t # s
    <3>1. sess'[t] = sess[t]
      BY <1>12, <2>2
    <3>2. Stored(t)
      BY <3>1 DEF Stored, Live
    <3> QED BY <1>2, <3>1, <3>2 DEF EndedOK
  <2> QED BY <2>1, <2>2
<1>18. Grown
  <2>1. \A t \in Ids : sess[t].of # None => sess'[t].of = sess[t].of /\ sess[t].since <= sess'[t].since
    <3> TAKE t \in Ids
    <3>1. CASE t = s
      BY <1>13, <3>1
    <3>2. CASE t # s
      <4>1. sess'[t] = sess[t] /\ sess[t].since \in Nat
        BY <1>10, <1>12, <3>2 DEF Session
      <4> QED BY <4>1
    <3> QED BY <3>1, <3>2
  <2>2. \A x \in Mailboxes : newest[x] <= newest'[x] /\ pw'[x] = pw[x]
    BY <1>10, <1>14
  <2> QED BY <1>10, <1>12, <1>14, <2>1, <2>2 DEF Grown
<1>19. \A q \in Requests : AllOK(req[q], sess', newest', pw', enabled', domain')
  BY <1>14, <1>18, RequestsGrow
<1>20. AllOK(d, sess', newest', pw', enabled', domain')
  <2>1. AllOK(b, sess', newest', pw', enabled', domain')
    BY <1>19 DEF b
  <2>2. Kept(b, d) /\ d.sid \in Ids
    BY <1>6, <1>8 DEF Kept
  <2>3. StepsOK(d)
    BY <1>5, <1>8, <2>1, <2>2 DEF Kept, AllOK, StepsOK, Web
  <2>4. OwnsOK(d, sess') /\ SweepOK(d, sess', newest')
    BY <1>8 DEF OwnsOK, SweepOK
  <2>5. LegacyOK(d, newest', pw')
    BY <1>8, <2>1, <2>2 DEF Kept, AllOK, LegacyOK, Entry
  <2>6. BarredOK(d, sess', enabled', domain')
    BY <1>3, <1>8, <2>1, <2>2 DEF Kept, AllOK, BarredOK, Entry
  <2> QED BY <2>3, <2>4, <2>5, <2>6 DEF AllOK
<1>21. AllOK(Signed(c, {}), sess', newest', pw', enabled', domain')
  <2>1. Ended(Signed(c, {}))
    BY <1>6, SignedEnds
  <2> QED BY <2>1, EndedAll
<1>22. RequestsOK'
  BY <1>2, <1>19, <1>20, <1>21, RequestsMove
<1> QED BY <1>15, <1>16, <1>17, <1>22

-----------------------------------------------------------------------------
(* Administrators that enable and disable.                                  *)

\* Requests forget that they were barred, wherever that may have changed.
LEMMA UnbarredKeeps ==
  ASSUME RequestsOK, NEW C, C \in [Requests -> BOOLEAN], req' = Unbarred(C),
         UNCHANGED <<sess, newest, pw>>,
         \A q \in Requests : C[q] \/ BarredOK(req[q], sess, enabled', domain')
  PROVE  RequestsOK'
<1>1. req' = [q \in Requests |-> req'[q]]
  BY DEF Unbarred
<1>2. ASSUME NEW q \in Requests PROVE AllOK(req'[q], sess', newest', pw', enabled', domain')
  <2>1. AllOK(req[q], sess, newest, pw, enabled, domain)
    BY DEF RequestsOK
  <2>2. CASE C[q]
    <3>1. req'[q] = [req[q] EXCEPT !.marks = @ \ {"barred"}]
      BY <2>2 DEF Unbarred
    <3> QED BY <2>1, <3>1, UnbarredAll
  <2>3. CASE ~C[q]
    <3>1. req'[q] = req[q]
      BY <2>3 DEF Unbarred
    <3>2. BarredOK(req[q], sess, enabled', domain')
      BY <2>3
    <3>3. AllOK(req[q], sess, newest, pw, enabled', domain')
      BY <2>1, <3>2 DEF AllOK
    <3> QED BY <3>1, <3>3
  <2> QED BY <2>2, <2>3
<1> QED BY <1>1, <1>2 DEF RequestsOK

LEMMA SetMailboxKeeps ==
  ASSUME IInv, NEW m \in Mailboxes, SetMailbox(m)
  PROVE  IInv'
<1> USE DEF IInv
<1> DEFINE C == [q \in Requests |-> req[q].at # "idle" /\ Owner(req[q]) = m]
<1>1. /\ enabled' = IF m \in enabled THEN enabled \ {m} ELSE enabled \cup {m}
      /\ req' = Unbarred(C)
      /\ UNCHANGED <<sess, pw, legacy, newest, swept, domains, cookie, cli, kept>>
  BY DEF SetMailbox
<1>2. C \in [Requests -> BOOLEAN]
  OBVIOUS
<1>3. \A x \in Mailboxes : x # m => (x \in enabled <=> x \in enabled')
  BY <1>1
<1>4. enabled' \subseteq Mailboxes
  BY <1>1 DEF TablesOK
<1>5. ASSUME NEW q \in Requests PROVE C[q] \/ BarredOK(req[q], sess, enabled', domain')
  <2> DEFINE c == req[q]
             o == IF c.kind \in Web THEN sess[c.sent.active].of ELSE c.who
  <2>1. BarredOK(c, sess, enabled, domain)
    BY DEF RequestsOK, AllOK
  <2>2. Owner(c) = o
    BY DEF Owner, Web
  <2>3. C[q] \/ c.at = "idle" \/ o # m
    <3>1. C[q] <=> c.at # "idle" /\ Owner(c) = m
      BY Zenon
    <3> HIDE DEF C, c, o
    <3> QED BY <2>2, <3>1
  <2> HIDE DEF C, c
  <2>4. c.at = "idle" \/ o # m => BarredOK(c, sess, enabled', domain')
    BY <1>1, <1>3, <2>1 DEF BarredOK, domains
  <2> QED BY <2>3, <2>4 DEF c
<1> HIDE DEF C
<1>6. RequestsOK'
  BY <1>1, <1>2, <1>5, UnbarredKeeps
<1>7. TablesOK'
  BY <1>1, <1>4 DEF TablesOK
<1>8. ImportedOK' /\ CacheOK' /\ EndedOK'
  BY <1>1 DEF ImportedOK, CacheOK, EndedOK, domains, kept, Stored, Live
<1> QED BY <1>6, <1>7, <1>8

LEMMA SetDomainKeeps ==
  ASSUME IInv, SetDomain
  PROVE  IInv'
<1> USE DEF IInv
<1> DEFINE C == [q \in Requests |-> req[q].at # "idle"]
<1>1. /\ domain' = (IF domain = "on" THEN "off" ELSE "on") /\ domCache' = None /\ domDrift' = FALSE
      /\ req' = Unbarred(C)
      /\ UNCHANGED <<sess, users, cookie, cli, kept>>
  BY DEF SetDomain, Forgotten
<1>2. C \in [Requests -> BOOLEAN]
  OBVIOUS
<1>3. \A q \in Requests : C[q] \/ BarredOK(req[q], sess, enabled', domain')
  BY DEF BarredOK
<1> HIDE DEF C
<1>4. RequestsOK'
  BY <1>1, <1>2, <1>3, UnbarredKeeps DEF users
<1>5. TablesOK' /\ ImportedOK' /\ CacheOK' /\ EndedOK'
  BY <1>1 DEF TablesOK, ImportedOK, CacheOK, EndedOK, users, kept, Stored, Live
<1> QED BY <1>4, <1>5

-----------------------------------------------------------------------------
(* The invariant, and what follows.                                         *)

LEMMA InitInv ==
  ASSUME Init
  PROVE  IInv
<1> USE DEF Init
<1>1. TablesOK
  <2>1. sess \in [Ids -> Session] /\ \A s \in Ids : sess[s].of = None /\ sess[s].life = "unborn"
    BY DEF Session
  <2>2. cookie.active = None
    BY DEF NoCookie
  <2>3. pw \in [Mailboxes -> Nat] /\ newest = pw /\ swept = pw /\ \A m \in Mailboxes : pw[m] = 1
    OBVIOUS
  <2> QED BY <2>1, <2>2, <2>3 DEF TablesOK
<1>2. ImportedOK
  BY ImportedKnown DEF ImportedOK
<1>3. CacheOK
  BY DEF CacheOK
<1>4. EndedOK
  BY DEF EndedOK, Stored, Live
<1>5. RequestsOK
  <2>1. \A r \in Requests : req[r] = Idle
    OBVIOUS
  <2>2. \A r \in Requests : AllOK(req[r], sess, newest, pw, enabled, domain)
    BY <2>1, IdleShape, EndedAll
  <2> QED BY <2>2 DEF RequestsOK
<1> QED BY <1>1, <1>2, <1>3, <1>4, <1>5 DEF IInv

LEMMA StutterKeeps ==
  ASSUME IInv, UNCHANGED vars
  PROVE  IInv'
<1> USE DEF vars, users, domains, kept
<1>1. TablesOK' /\ ImportedOK' /\ CacheOK' /\ EndedOK'
  BY DEF IInv, TablesOK, ImportedOK, CacheOK, EndedOK, Stored, Live
<1>2. RequestsOK'
  BY DEF IInv, RequestsOK
<1> QED BY <1>1, <1>2 DEF IInv

LEMMA NextKeeps ==
  ASSUME IInv, [Next]_vars
  PROVE  IInv'
<1>1. ASSUME NEW r \in Requests, Step(r) PROVE IInv'
  <2>1. CASE Calm(r)
    BY <2>1, CalmKeeps
  <2>2. CASE SavePassword(r)
    BY <2>2, SaveKeeps
  <2>3. CASE SweepOthers(r)
    BY <2>3, SweepOthersKeeps
  <2>4. CASE Rehash(r)
    BY <2>4, RehashKeeps
  <2>5. CASE Create(r)
    BY <2>5, CreateKeeps
  <2> QED BY <1>1, <2>1, <2>2, <2>3, <2>4, <2>5 DEF Step, Calm
<1>2. ASSUME NEW m \in Mailboxes, AdminPassword(m) \/ CliPasswd(m) PROVE IInv'
  BY <1>2, OthersKeep
<1>3. ASSUME NEW m \in Mailboxes, SetMailbox(m) PROVE IInv'
  BY <1>3, SetMailboxKeeps
<1>4. CASE CliSweep
  BY <1>4, CliSweepKeeps
<1>5. CASE SetDomain
  BY <1>5, SetDomainKeeps
<1>6. CASE Revoke \/ CacheExpires \/ PurgeExpired \/ (\E s \in Ids : Ages(s))
  BY <1>6, OutsideKeeps
<1>7. CASE UNCHANGED vars
  BY <1>7, StutterKeeps
<1> QED BY <1>1, <1>2, <1>3, <1>4, <1>5, <1>6, <1>7 DEF Next

\* The invariant that the others follow from holds in every state: whatever requests, administrators,
\* the recovery CLI and time do, and in any order.
THEOREM Inductive == Spec => []IInv
<1>1. Init => IInv
  BY InitInv
<1>2. IInv /\ [Next]_vars => IInv'
  BY NextKeeps
<1> QED BY <1>1, <1>2, PTL DEF Spec

\* Changing a password in the app, or with passwd, ends every session opened before (destroyOtherSessions,
\* destroySessionsFor), but for the one that made the change and those of sign-ins that overlapped it.
THEOREM ChangesEnd == Spec => []ChangeEndsSessions
<1>1. IInv => ChangeEndsSessions
  BY DEF IInv, EndedOK, ChangeEndsSessions, Stored
<1> QED BY <1>1, Inductive, PTL

\* Nothing acts as a mailbox that was disabled, or whose domain was, before the request was sent
\* (requireAuth, disabledDomainIds), but on a cached list that a query under way brought back.
THEOREM BarredStaysOut == Spec => []BarredActsOnlyByRace
<1>1. IInv => BarredActsOnlyByRace
  <2> SUFFICES ASSUME IInv, NEW r \in Requests, req[r].at \in Acting, "barred" \in req[r].marks
               PROVE  "drift" \in req[r].marks
    BY DEF BarredActsOnlyByRace
  <2>1. AllOK(req[r], sess, newest, pw, enabled, domain)
    BY DEF IInv, RequestsOK
  <2>2. req[r].kind \in Web \cup {"login"}
    BY <2>1 DEF AllOK, StepsOK, Acting
  <2> QED BY <2>1, <2>2 DEF AllOK, BarredOK, Acting, Entry
<1> QED BY <1>1, Inductive, PTL

\* A step stores an older password only when a sign-in rehashes the imported one (needsRehash in
\* POST /auth/login) that it had read before another was chosen.
THEOREM PasswordsStay == Spec => OnlyImportedReturns
<1> DEFINE A == \A m \in Mailboxes : pw'[m] < pw[m] =>
                  /\ m \in Imported /\ pw'[m] = 1
                  /\ \E r \in Requests : req[r].who = m /\ req[r].at = "rehash" /\ req[r].since < newest[m]
<1>1. IInv /\ [Next]_vars => A \/ UNCHANGED vars
  <2> SUFFICES ASSUME IInv, Next, NEW m \in Mailboxes, pw'[m] < pw[m]
               PROVE  /\ m \in Imported /\ pw'[m] = 1
                      /\ \E r \in Requests : req[r].who = m /\ req[r].at = "rehash" /\ req[r].since < newest[m]
    OBVIOUS
  <2>1. /\ pw \in [Mailboxes -> Nat] /\ newest \in [Mailboxes -> Nat] /\ TablesOK /\ ImportedOK /\ RequestsOK
        /\ \A x \in Mailboxes : pw[x] <= newest[x]
    BY DEF IInv, TablesOK
  <2>2. pw' # pw
    BY <2>1
  <2>3. ASSUME NEW x \in Mailboxes, NewPassword(x) PROVE FALSE
    <3>1. pw' = [pw EXCEPT ![x] = newest[x] + 1]
      BY <2>3 DEF NewPassword
    <3>2. pw[m] \in Nat /\ newest[x] \in Nat /\ pw[x] <= newest[x]
      BY <2>1
    <3>3. CASE x = m
      <4>1. pw'[m] = newest[m] + 1
        BY <2>1, <3>1, <3>3
      <4> QED BY <3>2, <3>3, <4>1
    <3>4. CASE x # m
      <4>1. pw'[m] = pw[m]
        BY <3>1, <3>4
      <4> QED BY <3>2, <4>1
    <3> QED BY <3>3, <3>4
  <2>4. ~(\E x \in Mailboxes : AdminPassword(x) \/ CliPasswd(x) \/ SetMailbox(x))
    BY <2>2, <2>3 DEF AdminPassword, CliPasswd, SetMailbox
  <2>5. ~(CliSweep \/ Revoke \/ SetDomain \/ CacheExpires \/ PurgeExpired \/ (\E s \in Ids : Ages(s)))
    BY <2>2 DEF CliSweep, Revoke, SetDomain, CacheExpires, PurgeExpired, Ages, users
  <2>6. PICK r \in Requests : Step(r)
    BY <2>4, <2>5 DEF Next
  <2>7. ~Calm(r)
    BY <2>1, <2>2, CalmDoes
  <2>8. ~SweepOthers(r) /\ ~Create(r)
    BY <2>2 DEF SweepOthers, Create, users
  <2>9. ~SavePassword(r)
    <3> SUFFICES ASSUME SavePassword(r) PROVE FALSE
      OBVIOUS
    <3>1. req[r].at = "save" /\ NewPassword(req[r].who)
      BY DEF SavePassword
    <3>2. Fits(req[r], sess)
      BY <2>1, ReqFits
    <3>3. req[r].who \in Mailboxes
      BY <3>1, <3>2 DEF Fits, AllOK, StepsOK, OwnsOK
    <3> QED BY <2>3, <3>1, <3>3
  <2>10. Rehash(r)
    BY <2>6, <2>7, <2>8, <2>9 DEF Step, Calm
  <2>11. /\ req[r].who \in Imported /\ req[r].who \in Mailboxes
         /\ pw' = [pw EXCEPT ![req[r].who] = 1]
         /\ req[r].since \in Nat /\ req[r].since <= newest[req[r].who]
         /\ req[r].since = newest[req[r].who] => pw[req[r].who] = 1
    BY <2>1, <2>10, RehashDoes
  <2>12. req[r].who = m
    <3> SUFFICES ASSUME req[r].who # m PROVE FALSE
      OBVIOUS
    <3>1. pw'[m] = pw[m] /\ pw[m] \in Nat
      BY <2>1, <2>11
    <3> QED BY <3>1
  <2>13. pw'[m] = 1 /\ pw[m] # 1
    <3>1. pw'[m] = 1 /\ pw[m] \in Nat
      BY <2>1, <2>11, <2>12
    <3> QED BY <3>1
  <2>14. req[r].since < newest[m]
    <3>1. newest[m] \in Nat /\ req[r].since # newest[m] /\ req[r].since <= newest[m] /\ req[r].since \in Nat
      BY <2>1, <2>11, <2>12, <2>13
    <3> QED BY <3>1
  <2>15. req[r].at = "rehash"
    BY <2>10 DEF Rehash
  <2> QED BY <2>11, <2>12, <2>13, <2>14, <2>15
<1>2. IInv /\ [Next]_vars => [A]_vars
  BY <1>1
<1> QED BY <1>2, Inductive, PTL DEF Spec, OnlyImportedReturns

-----------------------------------------------------------------------------
(* Lists of sessions.                                                       *)

\* The places of a list are the numbers up to its length, and hold sessions.
LEMMA PlacesOf ==
  ASSUME NEW q \in Seq(Ids)
  PROVE  /\ Len(q) \in Nat /\ DOMAIN q = 1..Len(q) /\ DOMAIN q \subseteq Nat
         /\ \A i \in DOMAIN q : q[i] \in Ids /\ q[i] \in Elements(q)
<1>1. Len(q) \in Nat /\ DOMAIN q = 1..Len(q)
  BY LenProperties
<1>2. \A i \in DOMAIN q : q[i] \in Ids
  BY <1>1, ElementOfSeq
<1> QED BY <1>1, <1>2 DEF Elements

\* Keeping(q, S): a list of what q has of S, in the order of q.
LEMMA KeepingDoes ==
  ASSUME NEW q \in Seq(Ids), NEW S, NEW k, k = Keeping(q, S)
  PROVE  /\ k \in Seq(Ids)
         /\ Elements(k) = Elements(q) \cap S
         /\ \A m, n \in DOMAIN k : m < n =>
              \E i, j \in DOMAIN q : i < j /\ k[m] = q[i] /\ k[n] = q[j]
<1> DEFINE P == {i \in DOMAIN q : q[i] \in S}
           upTo(i) == {j \in P : j <= i}
           rank(i) == Cardinality(upTo(i))
           N == Cardinality(P)
           place(n) == CHOOSE i \in P : rank(i) = n
<1>1. Len(q) \in Nat /\ DOMAIN q = 1..Len(q) /\ DOMAIN q \subseteq Nat /\ \A i \in DOMAIN q : q[i] \in Ids
  BY PlacesOf
<1>2. IsFiniteSet(P) /\ P \subseteq Nat /\ P \subseteq DOMAIN q
  <2>1. IsFiniteSet(1..Len(q))
    BY <1>1, FS_Interval
  <2>2. P \in SUBSET (1..Len(q))
    BY <1>1
  <2> QED BY <1>1, <2>1, <2>2, FS_Subset
<1>3. k = [n \in 1..N |-> q[place(n)]]
  BY DEF Keeping
<1>4. N \in Nat
  BY <1>2, FS_CardinalityType
<1> HIDE DEF P
<1>5. \A i \in P : IsFiniteSet(upTo(i)) /\ rank(i) \in 1..N
  <2> TAKE i \in P
  <2>1. upTo(i) \in SUBSET P /\ i \in upTo(i)
    BY <1>2
  <2>2. IsFiniteSet(upTo(i)) /\ rank(i) <= N
    BY <1>2, <2>1, FS_Subset
  <2>3. rank(i) \in Nat /\ rank(i) # 0
    BY <2>1, <2>2, FS_CardinalityType, FS_EmptySet
  <2> QED BY <1>4, <2>2, <2>3
<1>6. \A i, j \in P : i < j => rank(i) < rank(j)
  <2> SUFFICES ASSUME NEW i \in P, NEW j \in P, i < j PROVE rank(i) < rank(j)
    OBVIOUS
  <2>1. i \in Nat /\ j \in Nat /\ \A n \in P : n \in Nat
    BY <1>2
  <2>2. upTo(i) \in SUBSET upTo(j) /\ j \in upTo(j) /\ j \notin upTo(i)
    <3>1. \A n \in P : n <= i => n <= j
      BY <2>1
    <3>2. j <= j /\ ~(j <= i)
      BY <2>1
    <3>3. upTo(i) \in SUBSET upTo(j)
      BY <3>1
    <3> QED BY <3>2, <3>3
  <2>3. IsFiniteSet(upTo(j)) /\ rank(i) \in 1..N /\ rank(j) \in 1..N
    BY <1>5
  <2>4. rank(i) <= rank(j) /\ (rank(j) = rank(i) => upTo(j) = upTo(i))
    BY <2>2, <2>3, FS_Subset
  <2>5. rank(i) # rank(j)
    BY <2>2, <2>4
  <2> HIDE DEF rank
  <2> QED BY <1>4, <2>3, <2>4, <2>5
<1>7. \A n \in 1..N : \E i \in P : rank(i) = n
  <2> DEFINE f == [i \in P |-> rank(i)]
  <2> HIDE DEF rank
  <2>1. f \in Injection(P, 1..N)
    <3>1. f \in [P -> 1..N]
      BY <1>5
    <3>2. \A i, j \in P : i # j => i < j \/ j < i
      BY <1>2
    <3>3. \A i \in P : f[i] = rank(i)
      OBVIOUS
    <3>5. \A i \in P : rank(i) \in Nat
      <4>1. 1..N \subseteq Nat
        BY <1>4
      <4> QED BY <1>5, <4>1
    <3>4. ASSUME NEW i \in P, NEW j \in P, f[i] = f[j]
          PROVE  i = j
      <4>1. rank(i) = rank(j) /\ rank(i) \in Nat
        BY <3>3, <3>4, <3>5
      <4>2. ~(rank(i) < rank(j)) /\ ~(rank(j) < rank(i))
        BY <4>1
      <4> QED BY <1>6, <3>2, <4>2
    <3> QED BY <3>1, <3>4 DEF Injection, IsInjective
  <2>2. IsFiniteSet(1..N) /\ Cardinality(1..N) = N
    BY <1>4, FS_Interval
  <2>3. f \in Surjection(P, 1..N)
    BY <2>1, <2>2, FS_Injection
  <2> QED BY <2>3 DEF Surjection
<1> HIDE DEF rank
<1>8. \A n \in 1..N : place(n) \in P /\ rank(place(n)) = n
  BY <1>7
<1>9. \A i \in P : place(rank(i)) = i
  <2> TAKE i \in P
  <2>1. place(rank(i)) \in P /\ rank(place(rank(i))) = rank(i)
    BY <1>5, <1>8
  <2>2. \A a, b \in P : a < b \/ b < a \/ a = b
    BY <1>2
  <2> QED BY <1>4, <1>5, <1>6, <2>1, <2>2
<1> HIDE DEF place
<1>10. DOMAIN k = 1..N /\ \A n \in 1..N : k[n] = q[place(n)]
  BY <1>3
<1>11. k \in Seq(Ids)
  <2>1. \A n \in 1..N : q[place(n)] \in Ids
    BY <1>1, <1>2, <1>8
  <2>2. k \in [1..N -> Ids]
    BY <1>3, <2>1
  <2> QED BY <1>4, <2>2, SeqDef
<1>12. Elements(k) = Elements(q) \cap S
  <2>1. \A n \in DOMAIN k : k[n] \in Elements(q) /\ k[n] \in S
    <3> TAKE n \in DOMAIN k
    <3>1. place(n) \in P /\ k[n] = q[place(n)]
      BY <1>8, <1>10
    <3>2. place(n) \in DOMAIN q /\ q[place(n)] \in S
      BY <3>1 DEF P
    <3> QED BY <1>1, <3>1, <3>2 DEF Elements
  <2>2. \A i \in DOMAIN q : q[i] \in S => \E n \in DOMAIN k : k[n] = q[i]
    <3> SUFFICES ASSUME NEW i \in DOMAIN q, q[i] \in S PROVE \E n \in DOMAIN k : k[n] = q[i]
      OBVIOUS
    <3>1. i \in P
      BY DEF P
    <3> QED BY <1>5, <1>9, <1>10, <3>1
  <2> QED BY <2>1, <2>2 DEF Elements
<1>13. \A m, n \in DOMAIN k : m < n =>
         \E i, j \in DOMAIN q : i < j /\ k[m] = q[i] /\ k[n] = q[j]
  <2> SUFFICES ASSUME NEW m \in DOMAIN k, NEW n \in DOMAIN k, m < n
               PROVE  \E i, j \in DOMAIN q : i < j /\ k[m] = q[i] /\ k[n] = q[j]
    OBVIOUS
  <2>1. /\ place(m) \in P /\ place(n) \in P /\ rank(place(m)) = m /\ rank(place(n)) = n
        /\ k[m] = q[place(m)] /\ k[n] = q[place(n)]
    BY <1>8, <1>10
  <2>2. ~(place(n) < place(m)) /\ place(n) # place(m)
    BY <1>4, <1>5, <1>6, <1>10, <2>1
  <2>3. place(m) \in Nat /\ place(n) \in Nat
    BY <1>2, <2>1
  <2>4. place(m) < place(n)
    BY <2>2, <2>3
  <2> QED BY <1>2, <2>1, <2>4
<1> QED BY <1>11, <1>12, <1>13

LEMMA AppendDoes ==
  ASSUME NEW q \in Seq(Ids), NEW s \in Ids, NEW a, a = Append(q, s)
  PROVE  /\ a \in Seq(Ids) /\ a # <<>> /\ Elements(a) = Elements(q) \cup {s}
         /\ Len(a) = Len(q) + 1 /\ a[Len(q) + 1] = s
         /\ \A i \in DOMAIN a : (i \in DOMAIN q /\ a[i] = q[i]) \/ i = Len(q) + 1
         /\ \A i \in DOMAIN q : i \in DOMAIN a /\ a[i] = q[i] /\ i < Len(q) + 1
<1>1. Len(q) \in Nat /\ DOMAIN q = 1..Len(q)
  BY LenProperties
<1>2. a \in Seq(Ids) /\ Len(a) = Len(q) + 1 /\ a[Len(q) + 1] = s /\ \A i \in 1..Len(q) : a[i] = q[i]
  BY AppendProperties
<1>3. DOMAIN a = 1..Len(q) + 1
  BY <1>2, LenProperties
<1>4. /\ \A i \in DOMAIN a : (i \in DOMAIN q /\ a[i] = q[i]) \/ i = Len(q) + 1
      /\ \A i \in DOMAIN q : i \in DOMAIN a /\ a[i] = q[i] /\ i < Len(q) + 1
      /\ Len(q) + 1 \in DOMAIN a
  BY <1>1, <1>2, <1>3
<1>5. Elements(a) = Elements(q) \cup {s}
  BY <1>2, <1>4 DEF Elements
<1> QED BY <1>2, <1>4, <1>5

\* The same, of a list that is at hand: a is q with s behind it.
Extended(a, q, s) ==
  /\ a \in Seq(Ids) /\ Elements(a) = Elements(q) \cup {s}
  /\ a[Len(q) + 1] = s /\ Len(a) = Len(q) + 1
  /\ \A i \in DOMAIN a : (i \in DOMAIN q /\ a[i] = q[i]) \/ i = Len(q) + 1

LEMMA AppendExtends ==
  \A q \in Seq(Ids), s \in Ids : Extended(Append(q, s), q, s)
<1> SUFFICES ASSUME NEW q \in Seq(Ids), NEW s \in Ids, NEW a, a = Append(q, s)
             PROVE  Extended(a, q, s)
  OBVIOUS
<1> QED BY AppendDoes DEF Extended

\* The cookies as a request reads them: the list as far as the limit, then the active session.
LEMMA ReadIdsDoes ==
  ASSUME NEW k, k.ids \in Seq(Ids), k.active \in Ids \cup {None}, NEW q, q = ReadIds(k)
  PROVE  /\ q \in Seq(Ids) /\ Remembered(k) \subseteq Held(k) /\ Held(k) = Elements(q)
         /\ \A i \in DOMAIN q : \/ i \in DOMAIN k.ids /\ q[i] = k.ids[i]
                                \/ q[i] = k.active /\ k.active \notin Elements(k.ids) /\ k.active # None
         /\ \A i, j \in DOMAIN q : i < j => i \in DOMAIN k.ids /\ q[i] = k.ids[i]
<1> DEFINE a == AllIds(k)
<1>1. a \in Seq(Ids) /\ Len(k.ids) \in Nat /\ DOMAIN k.ids = 1..Len(k.ids) /\ Len(a) \in Nat /\ DOMAIN a = 1..Len(a)
  <2>1. k.active # None => k.active \in Ids
    OBVIOUS
  <2>2. a = k.ids \/ (k.active \in Ids /\ a = Append(k.ids, k.active))
    BY <2>1 DEF AllIds
  <2>3. a \in Seq(Ids)
    BY <2>2, AppendDoes
  <2> QED BY <2>3, LenProperties
<1>2. /\ \A i \in DOMAIN a : \/ i \in DOMAIN k.ids /\ a[i] = k.ids[i]
                             \/ /\ a[i] = k.active /\ k.active \notin Elements(k.ids) /\ k.active # None
                                /\ i = Len(k.ids) + 1
      /\ \A i \in DOMAIN k.ids : i \in DOMAIN a /\ a[i] = k.ids[i]
  <2>1. CASE k.active = None \/ k.active \in Elements(k.ids)
    BY <2>1 DEF AllIds
  <2>2. CASE ~(k.active = None \/ k.active \in Elements(k.ids))
    <3>1. a = Append(k.ids, k.active) /\ k.active \in Ids
      BY <2>2 DEF AllIds
    <3> HIDE DEF a
    <3>2. /\ a[Len(k.ids) + 1] = k.active
          /\ \A i \in DOMAIN a : (i \in DOMAIN k.ids /\ a[i] = k.ids[i]) \/ i = Len(k.ids) + 1
          /\ \A i \in DOMAIN k.ids : i \in DOMAIN a /\ a[i] = k.ids[i]
      BY <3>1, AppendDoes
    <3> QED BY <2>2, <3>2
  <2> QED BY <2>1, <2>2
<1> HIDE DEF a
<1>3. MaxCookieIds \in Nat
  BY Limits
<1>4. /\ q \in Seq(Ids) /\ DOMAIN q \subseteq Nat
      /\ \A i \in DOMAIN q : i \in DOMAIN a /\ q[i] = a[i]
      /\ \A i \in DOMAIN a : i <= MaxCookieIds => i \in DOMAIN q /\ q[i] = a[i]
  <2>1. CASE Len(a) > MaxCookieIds
    <3>1. q = SubSeq(a, 1, MaxCookieIds)
      BY <2>1 DEF ReadIds, a
    <3>2. \A i \in 1..MaxCookieIds : i \in 1..Len(a) /\ a[i] \in Ids
      BY <1>1, <1>3, <2>1, ElementOfSeq
    <3>3. q = [i \in 1..MaxCookieIds |-> a[i]]
      BY <1>1, <1>3, <3>1, <3>2
    <3>4. q \in [1..MaxCookieIds -> Ids]
      BY <3>2, <3>3
    <3>5. q \in Seq(Ids)
      BY <1>3, <3>4, SeqDef
    <3> QED BY <1>1, <1>3, <3>2, <3>3, <3>5
  <2>2. CASE ~(Len(a) > MaxCookieIds)
    BY <1>1, <2>2 DEF ReadIds, a
  <2> QED BY <2>1, <2>2
<1>5. Held(k) = Elements(q)
  BY DEF Held
<1>6. Remembered(k) \subseteq Held(k)
  <2>1. \A i \in DOMAIN k.ids : i <= MaxCookieIds => i \in DOMAIN q /\ q[i] = k.ids[i]
    BY <1>2, <1>4
  <2> QED BY <1>5, <2>1 DEF Remembered, Elements
<1>7. \A i \in DOMAIN q : \/ i \in DOMAIN k.ids /\ q[i] = k.ids[i]
                          \/ q[i] = k.active /\ k.active \notin Elements(k.ids) /\ k.active # None
  BY <1>2, <1>4
<1>8. \A i, j \in DOMAIN q : i < j => i \in DOMAIN k.ids /\ q[i] = k.ids[i]
  <2> SUFFICES ASSUME NEW i \in DOMAIN q, NEW j \in DOMAIN q, i < j
               PROVE  i \in DOMAIN k.ids /\ q[i] = k.ids[i]
    OBVIOUS
  <2>1. i \in DOMAIN a /\ j \in DOMAIN a /\ i \in Nat /\ j \in Nat /\ q[i] = a[i]
    BY <1>4
  <2>2. i # Len(k.ids) + 1
    BY <1>1, <1>2, <2>1
  <2> QED BY <1>2, <2>1, <2>2
<1> QED BY <1>4, <1>5, <1>6, <1>7, <1>8

-----------------------------------------------------------------------------
(* What holds of the lists a request carries.                               *)

\* Every session that a browser with these cookies has been told of.
Mentions(k) == Elements(k.ids) \cup ({k.active} \ {None})
StoredIn(S, s) == S[s].life \in {"fresh", "due", "expired"}

\* A list names nobody twice; of two stored sessions of a mailbox the later has been parted with.
LaterOK(q, S, P) ==
  \A i, j \in DOMAIN q : i < j =>
    /\ q[i] # q[j]
    /\ StoredIn(S, q[i]) /\ StoredIn(S, q[j]) /\ S[q[i]].of = S[q[j]].of => q[j] \in P

\* The lists go back to the cookies the request was sent with, and to the session it opened.
CarriesOK(c) ==
  /\ c.sent.ids \in Seq(Ids) /\ c.list \in Seq(Ids) /\ c.rows \subseteq Ids /\ c.shut \subseteq Ids
  /\ Elements(c.list) \subseteq Held(c.sent)
  /\ c.out.ids # Keep => c.out.ids \in Seq(Ids) /\ Elements(c.out.ids) \subseteq Held(c.sent) \cup {c.sid}
  /\ c.out.active \in {None, Keep, c.sid} \cup Mentions(c.sent)
BornOK(c, S) == \A s \in Ids : s \in Mentions(c.sent) \cup {c.sid} => S[s].life # "unborn"
ListsOK(c, S, P) ==
  /\ LaterOK(ReadIds(c.sent), S, P) /\ LaterOK(c.list, S, P)
  /\ c.out.ids # Keep => LaterOK(c.out.ids, S, P)
\* Of two rows of a mailbox the later has been parted with, though the rows may be old.
RowsOK(c, S, P) ==
  \A i, j \in DOMAIN ReadIds(c.sent) :
    LET q == ReadIds(c.sent)
    IN  i < j /\ q[i] \in c.rows /\ q[j] \in c.rows /\ S[q[i]].of = S[q[j]].of => q[j] \in P
BaseOK(c, S, P) == CarriesOK(c) /\ BornOK(c, S) /\ ListsOK(c, S, P) /\ RowsOK(c, S, P)

\* What is still stored of the sessions in the cookies is in X, barred, or parted with.
Covers(c, X, S, P) == \A s \in Held(c.sent) : StoredIn(S, s) => s \in X \cup c.shut \cup P

Opening == {"rehash", "create", "replace"}
Settled == {"act", "save", "sweep", "answer"}
ReadOK(c, S) == c.at = "install_list" => Covers(c, c.rows, S, {})
ListOK(c, S, P) == c.at \in {"extend", "doom"} => Covers(c, Elements(c.list), S, P)
OutOK(c, S, P) ==
  c.out.ids # Keep => \/ c.at \in Opening
                      \/ c.at \in Settled /\ Covers(c, Elements(c.out.ids), S, P)
SidOK(c, S) ==
  /\ c.sid # 0 => c.at \in {"replace", "answer"}
  /\ c.at = "replace" => c.sid \in Ids /\ S[c.sid].of = c.who
  /\ c.sid # 0 /\ c.at = "answer" => c.out.ids # Keep /\ c.sid \in Elements(c.out.ids)
ReqOK(c, S, P) ==
  BaseOK(c, S, P) /\ ReadOK(c, S) /\ ListOK(c, S, P) /\ OutOK(c, S, P) /\ SidOK(c, S)

\* From S to T sessions end, and no other comes back; one may be opened.
Worn(S, T) ==
  \A s \in Ids : S[s].life # "unborn" =>
    T[s].of = S[s].of /\ T[s].life # "unborn" /\ (StoredIn(T, s) => StoredIn(S, s))

LEMMA HeldBorn ==
  ASSUME NEW c, Shape(c), c.sent.ids \in Seq(Ids), NEW S, BornOK(c, S)
  PROVE  /\ Held(c.sent) \subseteq Mentions(c.sent) /\ Held(c.sent) \subseteq Ids
         /\ \A s \in Held(c.sent) : S[s].life # "unborn"
<1>1. c.sent.active \in Ids \cup {None}
  BY DEF Shape
<1>2. Held(c.sent) \subseteq Mentions(c.sent)
  <2> DEFINE k == c.sent
             q == ReadIds(k)
  <2>1. k.ids \in Seq(Ids) /\ k.active \in Ids \cup {None}
    BY <1>1
  <2> HIDE DEF k, q
  <2>2. /\ Held(k) = Elements(q)
        /\ \A i \in DOMAIN q : \/ i \in DOMAIN k.ids /\ q[i] = k.ids[i]
                               \/ q[i] = k.active /\ k.active \notin Elements(k.ids) /\ k.active # None
    BY <2>1, ReadIdsDoes DEF q
  <2>3. Held(k) \subseteq Mentions(k)
    BY <2>2 DEF Elements, Mentions
  <2> QED BY <2>3 DEF k
<1>3. Held(c.sent) \subseteq Ids
  BY DEF Held, Elements
<1> QED BY <1>2, <1>3 DEF BornOK

LEMMA LaterStays ==
  ASSUME NEW q \in Seq(Ids), NEW S, NEW T, NEW P, NEW Q, LaterOK(q, S, P), Worn(S, T), P \subseteq Q,
         \A s \in Elements(q) : S[s].life # "unborn"
  PROVE  LaterOK(q, T, Q)
<1> SUFFICES ASSUME NEW i \in DOMAIN q, NEW j \in DOMAIN q, i < j
             PROVE  /\ q[i] # q[j]
                    /\ StoredIn(T, q[i]) /\ StoredIn(T, q[j]) /\ T[q[i]].of = T[q[j]].of => q[j] \in Q
  BY DEF LaterOK
<1>1. q[i] \in Ids /\ q[j] \in Ids /\ S[q[i]].life # "unborn" /\ S[q[j]].life # "unborn"
  BY PlacesOf
<1>2. /\ T[q[i]].of = S[q[i]].of /\ (StoredIn(T, q[i]) => StoredIn(S, q[i]))
      /\ T[q[j]].of = S[q[j]].of /\ (StoredIn(T, q[j]) => StoredIn(S, q[j]))
  BY <1>1 DEF Worn
<1>3. q[i] # q[j] /\ (StoredIn(S, q[i]) /\ StoredIn(S, q[j]) /\ S[q[i]].of = S[q[j]].of => q[j] \in P)
  BY DEF LaterOK
<1> QED BY <1>2, <1>3

LEMMA CoversStay ==
  ASSUME NEW c, NEW X, NEW S, NEW T, NEW P, NEW Q, Covers(c, X, S, P), Worn(S, T), P \subseteq Q,
         Held(c.sent) \subseteq Ids, \A s \in Held(c.sent) : S[s].life # "unborn"
  PROVE  Covers(c, X, T, Q)
BY DEF Covers, Worn

\* What holds of a request goes on holding while sessions end and more are parted with.
LEMMA ReqStays ==
  ASSUME NEW c, Shape(c), NEW S, NEW T, NEW P, NEW Q, ReqOK(c, S, P), Worn(S, T), P \subseteq Q
  PROVE  ReqOK(c, T, Q)
<1>1. CarriesOK(c) /\ BornOK(c, S) /\ ListsOK(c, S, P) /\ RowsOK(c, S, P)
  BY DEF ReqOK, BaseOK
<1>2. /\ c.sent.ids \in Seq(Ids) /\ c.list \in Seq(Ids) /\ Elements(c.list) \subseteq Held(c.sent)
      /\ c.out.ids # Keep => c.out.ids \in Seq(Ids) /\ Elements(c.out.ids) \subseteq Held(c.sent) \cup {c.sid}
  BY <1>1 DEF CarriesOK
<1>3. Held(c.sent) \subseteq Ids /\ \A s \in Held(c.sent) : S[s].life # "unborn"
  BY <1>1, <1>2, HeldBorn
<1>4. /\ ReadIds(c.sent) \in Seq(Ids) /\ Elements(ReadIds(c.sent)) = Held(c.sent)
  BY <1>2, ReadIdsDoes DEF Shape
<1>5. LaterOK(ReadIds(c.sent), T, Q)
  BY <1>1, <1>3, <1>4, LaterStays DEF ListsOK
<1>6. LaterOK(c.list, T, Q)
  <2>1. \A s \in Elements(c.list) : S[s].life # "unborn"
    BY <1>2, <1>3
  <2> QED BY <1>1, <1>2, <2>1, LaterStays DEF ListsOK
<1>7. ASSUME c.out.ids # Keep PROVE LaterOK(c.out.ids, T, Q)
  <2>1. \A s \in Elements(c.out.ids) : s \in Ids /\ (s \in Held(c.sent) \/ s = c.sid)
    BY <1>2, <1>7 DEF Elements
  <2>2. \A s \in Elements(c.out.ids) : S[s].life # "unborn"
    BY <1>1, <1>3, <2>1 DEF BornOK
  <2> QED BY <1>1, <1>2, <1>7, <2>2, LaterStays DEF ListsOK
<1>8. BornOK(c, T)
  BY <1>1 DEF BornOK, Worn
<1>9. RowsOK(c, T, Q)
  <2> DEFINE q == ReadIds(c.sent)
  <2>1. \A i \in DOMAIN q : q[i] \in Ids /\ T[q[i]].of = S[q[i]].of
    <3>1. \A i \in DOMAIN q : q[i] \in Elements(q)
      BY <1>4, PlacesOf
    <3> HIDE DEF q
    <3> QED BY <1>3, <1>4, <3>1 DEF Worn, q
  <2> HIDE DEF q
  <2>2. \A i, j \in DOMAIN q : i < j /\ q[i] \in c.rows /\ q[j] \in c.rows /\ S[q[i]].of = S[q[j]].of => q[j] \in P
    BY <1>1 DEF RowsOK, q
  <2>3. \A i, j \in DOMAIN q : i < j /\ q[i] \in c.rows /\ q[j] \in c.rows /\ T[q[i]].of = T[q[j]].of => q[j] \in Q
    BY <2>1, <2>2
  <2> QED BY <2>3 DEF RowsOK, q
<1>10. BaseOK(c, T, Q)
  BY <1>1, <1>5, <1>6, <1>7, <1>8, <1>9 DEF BaseOK, ListsOK
<1>11. \A X : Covers(c, X, S, P) => Covers(c, X, T, Q)
  BY <1>3, CoversStay
<1>12. \A X : Covers(c, X, S, {}) => Covers(c, X, T, {})
  BY <1>3, CoversStay
<1>13. ReadOK(c, T) /\ ListOK(c, T, Q) /\ OutOK(c, T, Q)
  BY <1>11, <1>12 DEF ReqOK, ReadOK, ListOK, OutOK
<1>14. SidOK(c, T)
  <2>1. c.at = "replace" => c.sid \in Ids /\ S[c.sid].life # "unborn" /\ S[c.sid].of = c.who
    BY <1>1 DEF ReqOK, SidOK, BornOK
  <2> QED BY <2>1 DEF ReqOK, SidOK, Worn
<1> QED BY <1>10, <1>13, <1>14 DEF ReqOK

-----------------------------------------------------------------------------
(* What the steps make of the lists.                                        *)

\* d carries what c does.
Same(c, d) == /\ Shape(d) /\ d.sent = c.sent /\ d.list = c.list /\ d.rows = c.rows /\ d.shut = c.shut
              /\ d.out = c.out /\ d.sid = c.sid

LEMMA SameBase ==
  ASSUME NEW c, NEW d, Same(c, d), NEW S, NEW P, BaseOK(c, S, P)
  PROVE  BaseOK(d, S, P)
BY DEF Same, BaseOK, CarriesOK, BornOK, ListsOK, RowsOK

LEMMA SameCovers ==
  ASSUME NEW c, NEW d, Same(c, d), NEW S, NEW P, NEW X, Covers(c, X, S, P)
  PROVE  Covers(d, X, S, P)
BY DEF Same, Covers

\* Steps at which nothing is asked of the lists but where they come from.
Plain == {"session", "expired", "find", "domains", "install", "refresh", "list"}
LEMMA PlainOK ==
  ASSUME NEW c, NEW d, Same(c, d), NEW S, NEW P, BaseOK(c, S, P), c.sid = 0,
         \/ d.at \in Plain /\ c.out.ids = Keep
         \/ d.at \in {"act", "save", "sweep"} /\ (c.out.ids # Keep => Covers(c, Elements(c.out.ids), S, P))
         \/ d.at \in {"rehash", "create"}
  PROVE  ReqOK(d, S, P)
<1>1. BaseOK(d, S, P)
  BY SameBase
<1>2. d.out = c.out /\ d.sid = 0
  BY DEF Same
<1>3. OutOK(d, S, P)
  BY <1>2, SameCovers DEF OutOK, Plain, Settled, Opening
<1>4. ReadOK(d, S) /\ ListOK(d, S, P)
  BY DEF ReadOK, ListOK, Plain
<1>5. SidOK(d, S)
  BY <1>2 DEF SidOK, Plain
<1> QED BY <1>1, <1>3, <1>4, <1>5 DEF ReqOK

LEMMA EmptyLists ==
  /\ <<>> \in Seq(Ids) /\ Elements(<<>>) = {}
  /\ ReadIds(NoCookie) = <<>> /\ Held(NoCookie) = {} /\ Mentions(NoCookie) = {}
  /\ \A S, P : LaterOK(<<>>, S, P)
<1>1. <<>> \in Seq(Ids) /\ Len(<<>>) = 0 /\ DOMAIN <<>> = {}
  BY EmptySeq
<1>2. Elements(<<>>) = {} /\ \A S, P : LaterOK(<<>>, S, P)
  BY <1>1 DEF Elements, LaterOK
<1>3. AllIds(NoCookie) = <<>>
  BY DEF AllIds, NoCookie
<1>4. ReadIds(NoCookie) = <<>>
  <2>1. MaxCookieIds \in Nat
    BY Limits
  <2> QED BY <1>1, <1>3, <2>1 DEF ReadIds
<1> QED BY <1>1, <1>2, <1>4 DEF Held, Mentions, NoCookie

LEMMA IdleOK ==
  ASSUME NEW S, NEW P
  PROVE  ReqOK(Idle, S, P)
<1>1. /\ Idle.sent = NoCookie /\ Idle.list = <<>> /\ Idle.rows = {} /\ Idle.shut = {} /\ Idle.sid = 0
      /\ Idle.out.ids = Keep /\ Idle.out.active = Keep /\ Idle.at = "idle" /\ NoCookie.ids = <<>>
  BY DEF Idle, Unchanged, NoCookie
<1>2. 0 \notin Ids
  BY Limits DEF Ids
<1>3. CarriesOK(Idle) /\ ListsOK(Idle, S, P) /\ RowsOK(Idle, S, P)
  BY <1>1, EmptyLists DEF CarriesOK, ListsOK, RowsOK
<1>4. BornOK(Idle, S)
  BY <1>1, <1>2, EmptyLists DEF BornOK
<1>5. ReadOK(Idle, S) /\ ListOK(Idle, S, P) /\ OutOK(Idle, S, P) /\ SidOK(Idle, S)
  BY <1>1 DEF ReadOK, ListOK, OutOK, SidOK
<1> QED BY <1>3, <1>4, <1>5 DEF ReqOK, BaseOK

\* An answer keeps the cookies it was sent with, what was barred, and what it writes.
LEMMA AnsweredOK ==
  ASSUME NEW c, Shape(c), NEW S, NEW P, BaseOK(c, S, P),
         c.out.ids # Keep => Covers(c, Elements(c.out.ids), S, P),
         c.sid # 0 => c.out.ids # Keep /\ c.sid \in Elements(c.out.ids)
  PROVE  ReqOK(Answered(c), S, P)
<1> DEFINE d == [Idle EXCEPT !.at = "answer", !.sent = c.sent, !.sid = c.sid, !.shut = c.shut, !.out = c.out]
<1>1. /\ d.out = c.out /\ d.sent = c.sent /\ d.sid = c.sid /\ d.shut = c.shut
      /\ d.list = <<>> /\ d.rows = {} /\ d.at = "answer"
  BY DEF Idle
<1>2. Answered(c) = Idle \/ Answered(c) = d
  BY DEF Answered
<1> HIDE DEF d
<1>3. CarriesOK(d) /\ BornOK(d, S)
  BY <1>1, EmptyLists DEF BaseOK, CarriesOK, BornOK
<1>4. ListsOK(d, S, P) /\ RowsOK(d, S, P)
  BY <1>1, EmptyLists DEF BaseOK, ListsOK, RowsOK
<1>5. ReadOK(d, S) /\ ListOK(d, S, P)
  BY <1>1 DEF ReadOK, ListOK
<1>6. OutOK(d, S, P)
  BY <1>1 DEF OutOK, Settled, Covers
<1>7. SidOK(d, S)
  BY <1>1 DEF SidOK
<1>8. ReqOK(d, S, P)
  BY <1>3, <1>4, <1>5, <1>6, <1>7 DEF ReqOK, BaseOK
<1> QED BY <1>2, <1>8, IdleOK

\* A sign-in goes on with the cookies alone.
LEMMA EnteringOK ==
  ASSUME NEW c, Shape(c), NEW S, NEW P, BaseOK(c, S, P), c.sid = 0
  PROVE  ReqOK(Entering(c), S, P)
<1> DEFINE d == Entering(c)
<1>1. PICK v \in {"rehash", "create"} :
        d = [c EXCEPT !.seen = 0, !.due = {}, !.list = <<>>, !.rows = {}, !.shut = {}, !.at = v]
  BY DEF Entering
<1> HIDE DEF d
<1>2. /\ d.out = c.out /\ d.sent = c.sent /\ d.sid = 0 /\ d.shut = {} /\ d.list = <<>> /\ d.rows = {}
      /\ d.at \in {"rehash", "create"}
  BY <1>1 DEF Shape, Fields
<1>3. CarriesOK(d) /\ BornOK(d, S)
  BY <1>2, EmptyLists DEF BaseOK, CarriesOK, BornOK
<1>4. ListsOK(d, S, P) /\ RowsOK(d, S, P)
  BY <1>2, EmptyLists DEF BaseOK, ListsOK, RowsOK
<1>5. ReadOK(d, S) /\ ListOK(d, S, P) /\ OutOK(d, S, P) /\ SidOK(d, S)
  BY <1>2 DEF ReadOK, ListOK, OutOK, SidOK, Opening
<1> QED BY <1>3, <1>4, <1>5 DEF ReqOK, BaseOK, d

LEMMA SameAt ==
  ASSUME NEW c, Shape(c), NEW v, NEW d, d = [c EXCEPT !.at = v]
  PROVE  Same(c, d) /\ d.at = v /\ d.who = c.who
BY DEF Shape, Fields, Same

LEMMA SameAtSeen ==
  ASSUME NEW c, Shape(c), NEW d, d = [c EXCEPT !.at = "list", !.seen = 0]
  PROVE  Same(c, d) /\ d.at = "list"
BY DEF Shape, Fields, Same

\* Before it has read the lists a request has none to write.
LEMMA PlainHasNone ==
  ASSUME NEW c, NEW S, NEW P, ReqOK(c, S, P), c.at \in Plain \cup {"install_list", "extend", "doom"}
  PROVE  BaseOK(c, S, P) /\ c.out.ids = Keep /\ c.sid = 0
BY DEF ReqOK, OutOK, SidOK, Plain, Opening, Settled

LEMMA PermittedOK ==
  ASSUME NEW c, Shape(c), NEW S, NEW P, BaseOK(c, S, P), c.out.ids = Keep, c.sid = 0, NEW v
  PROVE  ReqOK(Permitted(c, v), S, P)
<1> DEFINE d == Permitted(c, v)
<1>1. \/ d = Answered(c) \/ d = Entering(c)
      \/ d = [c EXCEPT !.at = "refresh"] \/ d = [c EXCEPT !.at = "act"]
      \/ d = [c EXCEPT !.at = "list", !.seen = 0]
  BY DEF Permitted
<1> HIDE DEF d
<1>2. CASE d = Answered(c)
  BY <1>2, AnsweredOK DEF d
<1>3. CASE d = Entering(c)
  BY <1>3, EnteringOK DEF d
<1>4. CASE d = [c EXCEPT !.at = "refresh"] \/ d = [c EXCEPT !.at = "act"]
  <2>1. Same(c, d) /\ d.at \in {"refresh", "act"}
    BY <1>4, SameAt
  <2>2. ReqOK(d, S, P)
    BY <2>1, PlainOK DEF Plain
  <2> QED BY <2>2 DEF d
<1>5. CASE d = [c EXCEPT !.at = "list", !.seen = 0]
  <2>1. Same(c, d) /\ d.at = "list"
    BY <1>5, SameAtSeen
  <2>2. ReqOK(d, S, P)
    BY <2>1, PlainOK DEF Plain
  <2> QED BY <2>2 DEF d
<1> QED BY <1>1, <1>2, <1>3, <1>4, <1>5

-----------------------------------------------------------------------------
(* Reading the sessions of the cookies.                                     *)

\* Rows and what expired are all that is stored, and of two the later has been parted with.
LEMMA RowsRead ==
  ASSUME TablesOK, NEW c, Shape(c), NEW P, BaseOK(c, sess, P), NEW d, d = Rows(c)
  PROVE  /\ Shape(d) /\ d.sent = c.sent /\ d.out = c.out /\ d.sid = c.sid /\ d.at = c.at /\ d.who = c.who
         /\ BaseOK(d, sess, P) /\ Covers(d, d.rows, sess, {})
<1>1. PICK due : d = [c EXCEPT !.rows = {s \in Held(c.sent) : Live(s)}, !.due = due,
                               !.shut = {s \in Held(c.sent) : sess[s].life = "expired"}]
  BY DEF Rows
<1> DEFINE rows == {s \in Held(c.sent) : Live(s)}
           shut == {s \in Held(c.sent) : sess[s].life = "expired"}
<1>2. rows \subseteq Held(c.sent) /\ shut \subseteq Held(c.sent) /\ Held(c.sent) \subseteq Ids
  BY DEF Held, Elements
<1>3. \A s \in Held(c.sent) : StoredIn(sess, s) => s \in rows \cup shut
  BY DEF StoredIn, Live
<1>4. \A s \in rows : StoredIn(sess, s)
  BY DEF StoredIn, Live
<1> HIDE DEF rows, shut
<1>5. d = [c EXCEPT !.rows = rows, !.due = due, !.shut = shut]
  BY <1>1 DEF rows, shut
<1>6. /\ d.sent = c.sent /\ d.list = c.list /\ d.out = c.out /\ d.sid = c.sid /\ d.at = c.at
      /\ d.rows = rows /\ d.shut = shut /\ d.who = c.who
  BY <1>5 DEF Shape, Fields
<1>7. Shape(d)
  BY <1>5 DEF Shape, Fields
<1>8. CarriesOK(d) /\ BornOK(d, sess) /\ ListsOK(d, sess, P)
  BY <1>2, <1>6 DEF BaseOK, CarriesOK, BornOK, ListsOK
<1>9. RowsOK(d, sess, P)
  BY <1>4, <1>6 DEF RowsOK, BaseOK, ListsOK, LaterOK
<1>10. Covers(d, d.rows, sess, {})
  BY <1>3, <1>6 DEF Covers
<1> QED BY <1>6, <1>7, <1>8, <1>9, <1>10 DEF BaseOK

\* A part of a list, in its order, is such a list.
LEMMA LaterKept ==
  ASSUME NEW q \in Seq(Ids), NEW X, NEW k, k = Keeping(q, X), NEW S, NEW P, LaterOK(q, S, P)
  PROVE  LaterOK(k, S, P)
<1> SUFFICES ASSUME NEW m \in DOMAIN k, NEW n \in DOMAIN k, m < n
             PROVE  /\ k[m] # k[n]
                    /\ StoredIn(S, k[m]) /\ StoredIn(S, k[n]) /\ S[k[m]].of = S[k[n]].of => k[n] \in P
  BY DEF LaterOK
<1>1. \E i, j \in DOMAIN q : i < j /\ k[m] = q[i] /\ k[n] = q[j]
  BY KeepingDoes
<1> QED BY <1>1 DEF LaterOK

\* resolve(): what is left out of the rows is barred, or comes after another of its mailbox.
LEMMA ResolvedOK ==
  ASSUME NEW c, Shape(c), NEW S, NEW P, S = sess, BaseOK(c, S, P), Covers(c, c.rows, S, {}),
         NEW v, NEW d, d = Resolved(c, v)
  PROVE  /\ Shape(d) /\ d.sent = c.sent /\ d.out = c.out /\ d.sid = c.sid /\ d.at = c.at
         /\ BaseOK(d, S, P) /\ Covers(d, Elements(d.list), S, P)
<1> DEFINE good == {s \in c.rows : sess[s].of \in enabled /\ Permits(v)}
           q == ReadIds(c.sent)
           first == {s \in good : \A t \in good : Before(q, t, s) => sess[t].of # sess[s].of}
           list == Keeping(q, first)
           shut == c.shut \cup (c.rows \ good)
<1>1. PICK due : d = [c EXCEPT !.list = list, !.due = due, !.rows = {}, !.shut = shut, !.read = "on"]
  BY DEF Resolved, OnePerMailbox
<1>2. good \subseteq c.rows
  OBVIOUS
<1> HIDE DEF good
<1>3. c.sent.ids \in Seq(Ids) /\ c.sent.active \in Ids \cup {None} /\ c.rows \subseteq Ids /\ c.shut \subseteq Ids
  BY DEF BaseOK, CarriesOK, Shape
<1>4. q \in Seq(Ids) /\ Held(c.sent) = Elements(q)
  BY <1>3, ReadIdsDoes
<1>5. list \in Seq(Ids) /\ Elements(list) = Elements(q) \cap first
  BY <1>4, KeepingDoes
<1>6. LaterOK(list, S, P)
  BY <1>4, LaterKept DEF BaseOK, ListsOK
<1>7. ASSUME NEW s \in good, s \in Elements(q)
      PROVE  s \in Elements(list) \cup P
  <2>1. CASE s \in first
    BY <1>5, <1>7, <2>1
  <2>2. CASE s \notin first
    <3>1. PICK t \in good : Before(q, t, s) /\ sess[t].of = sess[s].of
      BY <2>2
    <3>2. PICK i \in DOMAIN q, j \in DOMAIN q : i < j /\ q[i] = t /\ q[j] = s
      BY <3>1 DEF Before
    <3>3. q[i] \in c.rows /\ q[j] \in c.rows /\ S[q[i]].of = S[q[j]].of
      BY <1>2, <3>1, <3>2
    <3> QED BY <3>2, <3>3 DEF BaseOK, RowsOK
  <2> QED BY <2>1, <2>2
<1> HIDE DEF q, first, list, shut
<1>8. /\ d.sent = c.sent /\ d.list = list /\ d.out = c.out /\ d.sid = c.sid /\ d.at = c.at
      /\ d.rows = {} /\ d.shut = shut
  BY <1>1 DEF Shape, Fields
<1>9. Shape(d)
  <2>1. d = [f \in Fields |-> d[f]] /\ d.typed = c.typed /\ d.seen = c.seen /\ d.since = c.since
    BY <1>1 DEF Shape, Fields
  <2> QED BY <1>8, <2>1 DEF Shape
<1>10. CarriesOK(d) /\ BornOK(d, S)
  <2>1. shut \subseteq Ids
    BY <1>3 DEF shut
  <2> QED BY <1>4, <1>5, <1>8, <2>1 DEF BaseOK, CarriesOK, BornOK
<1>11. ListsOK(d, S, P) /\ RowsOK(d, S, P)
  BY <1>6, <1>8 DEF BaseOK, ListsOK, RowsOK
<1>12. Covers(d, Elements(d.list), S, P)
  <2>1. \A s \in Held(c.sent) : StoredIn(S, s) => s \in c.rows \/ s \in c.shut
    BY DEF Covers
  <2>2. \A s \in Held(c.sent) : StoredIn(S, s) => s \in Elements(list) \cup shut \cup P
    BY <1>4, <1>7, <2>1 DEF shut
  <2> QED BY <1>8, <2>2 DEF Covers
<1> QED BY <1>8, <1>9, <1>10, <1>11, <1>12 DEF BaseOK

\* A request that goes over to another active session among those it holds, or to none.
LEMMA ActiveBase ==
  ASSUME NEW c, Shape(c), NEW S, NEW P, BaseOK(c, S, P), NEW a \in {None} \cup Elements(c.list),
         NEW d, d = [c EXCEPT !.out.active = a]
  PROVE  /\ Shape(d) /\ d.sent = c.sent /\ d.list = c.list /\ d.rows = c.rows /\ d.shut = c.shut /\ d.sid = c.sid
         /\ d.at = c.at /\ BaseOK(d, S, P)
<1>1. a \in Ids \cup {None, Keep}
  BY DEF Elements
<1>2. Shape(d) /\ d.sent = c.sent /\ d.at = c.at
  BY <1>1, KeptActive DEF Kept
<1>3. /\ d.list = c.list /\ d.rows = c.rows /\ d.shut = c.shut /\ d.sid = c.sid
      /\ d.out = [c.out EXCEPT !.active = a]
  BY DEF Shape, Fields
<1>4. d.out.ids = c.out.ids /\ d.out.active = a
  BY <1>3 DEF Shape
<1>5. a \in {None} \cup Mentions(c.sent)
  BY HeldBorn DEF BaseOK, CarriesOK
<1>6. CarriesOK(d) /\ BornOK(d, S)
  BY <1>2, <1>3, <1>4, <1>5 DEF BaseOK, CarriesOK, BornOK
<1>7. ListsOK(d, S, P) /\ RowsOK(d, S, P)
  BY <1>2, <1>3, <1>4 DEF BaseOK, ListsOK, RowsOK
<1> QED BY <1>2, <1>3, <1>4, <1>6, <1>7 DEF BaseOK

\* It writes the list it has found.
Writes(c, d) == d = [c EXCEPT !.out.ids = c.list]
LEMMA ListBase ==
  ASSUME NEW c, Shape(c), NEW S, NEW P, BaseOK(c, S, P), NEW d, Writes(c, d)
  PROVE  /\ Shape(d) /\ d.sent = c.sent /\ d.list = c.list /\ d.rows = c.rows /\ d.shut = c.shut /\ d.sid = c.sid
         /\ d.out.ids = c.list /\ d.at = c.at /\ d.kind = c.kind
         /\ BaseOK(d, S, P)
<1>1. d = [c EXCEPT !.out.ids = c.list]
  BY DEF Writes
<1>2. Shape(d) /\ d.sent = c.sent /\ d.at = c.at /\ d.kind = c.kind
  BY <1>1, KeptIds DEF Kept
<1>3. /\ d.list = c.list /\ d.rows = c.rows /\ d.shut = c.shut /\ d.sid = c.sid
      /\ d.out = [c.out EXCEPT !.ids = c.list]
  BY <1>1 DEF Shape, Fields
<1>4. d.out.ids = c.list /\ d.out.active = c.out.active
  BY <1>3 DEF Shape
<1>6. CarriesOK(d) /\ BornOK(d, S)
  BY <1>2, <1>3, <1>4 DEF BaseOK, CarriesOK, BornOK
<1>7. ListsOK(d, S, P) /\ RowsOK(d, S, P)
  BY <1>2, <1>3, <1>4 DEF BaseOK, ListsOK, RowsOK
<1> QED BY <1>2, <1>3, <1>4, <1>6, <1>7 DEF BaseOK

\* What follows loadAccounts().
LEMMA ListedOK ==
  ASSUME NEW c, Shape(c), NEW S, NEW P, BaseOK(c, S, P), c.sid = 0,
         c.out.ids # Keep => Covers(c, Elements(c.out.ids), S, P)
  PROVE  ReqOK(Listed(c), S, P)
<1> DEFINE d == Listed(c)
           owned == Owned(c.list, c.who)
           a == CHOOSE s \in owned : TRUE
           e == [c EXCEPT !.out.active = a]
<1>1. d = Answered(c) \/ d = Entering(c) \/ (owned # {} /\ d = Answered(e))
  BY DEF Listed
<1> HIDE DEF d
<1>2. CASE d = Answered(c)
  BY <1>2, AnsweredOK DEF d
<1>3. CASE d = Entering(c)
  BY <1>3, EnteringOK DEF d
<1>4. CASE owned # {} /\ d = Answered(e)
  <2>1. PICK b \in Elements(c.list) : b = a
    BY <1>4 DEF Owned
  <2>2. PICK x : x = [c EXCEPT !.out.active = b]
    OBVIOUS
  <2>3. d = Answered(x)
    BY <1>4, <2>1, <2>2
  <2> HIDE DEF a, e
  <2>4. /\ Shape(x) /\ x.sent = c.sent /\ x.shut = c.shut /\ x.sid = c.sid /\ x.out.ids = c.out.ids
        /\ BaseOK(x, S, P)
    <3>1. Shape(x) /\ x.sent = c.sent /\ x.shut = c.shut /\ x.sid = c.sid /\ BaseOK(x, S, P)
      BY <2>2, ActiveBase
    <3>2. x.out = [c.out EXCEPT !.active = b]
      BY <2>2 DEF Shape, Fields
    <3>3. x.out.ids = c.out.ids
      BY <3>2 DEF Shape
    <3> QED BY <3>1, <3>3
  <2>5. x.out.ids # Keep => Covers(x, Elements(x.out.ids), S, P)
    BY <2>4 DEF Covers
  <2>6. ReqOK(Answered(x), S, P)
    BY <2>4, <2>5, AnsweredOK
  <2> QED BY <2>3, <2>6 DEF d
<1> QED BY <1>1, <1>2, <1>3, <1>4

\* loadAccounts() writes the list it found, unless the cookie has it; signing out only reads.
LEMMA ListingOK ==
  ASSUME NEW c, Shape(c), NEW S, NEW P, BaseOK(c, S, P), c.sid = 0, c.out.ids = Keep,
         Covers(c, Elements(c.list), S, P)
  PROVE  ReqOK(Listing(c), S, P)
<1> DEFINE d == Listing(c)
           e == [c EXCEPT !.out.ids = c.list]
           k == [c EXCEPT !.out.ids = c.out.ids]
<1>1. d = [c EXCEPT !.at = "doom"] \/ d = [c EXCEPT !.at = "extend"] \/ d = Listed(e) \/ d = Listed(k)
  BY DEF Listing
<1>2. k = c
  BY DEF Shape, Fields
<1> HIDE DEF d, e, k
<1>3. CASE d = [c EXCEPT !.at = "doom"] \/ d = [c EXCEPT !.at = "extend"]
  <2>1. Same(c, d) /\ d.at \in {"doom", "extend"}
    BY <1>3, SameAt
  <2>2. BaseOK(d, S, P) /\ Covers(d, Elements(d.list), S, P)
    BY <2>1, SameBase, SameCovers DEF Same
  <2>3. d.out.ids = Keep /\ d.sid = 0
    BY <2>1 DEF Same
  <2>4. ReqOK(d, S, P)
    BY <2>1, <2>2, <2>3 DEF ReqOK, ReadOK, ListOK, OutOK, SidOK
  <2> QED BY <2>4 DEF d
<1>4. CASE d = Listed(e)
  <2>1. /\ Shape(e) /\ e.sent = c.sent /\ e.shut = c.shut /\ e.sid = 0 /\ e.out.ids = c.list
        /\ BaseOK(e, S, P)
    <3>1. Writes(c, e)
      BY DEF Writes, e
    <3> QED BY <3>1, ListBase
  <2>2. Covers(e, Elements(e.out.ids), S, P)
    BY <2>1 DEF Covers
  <2>3. ReqOK(Listed(e), S, P)
    BY <2>1, <2>2, ListedOK
  <2> QED BY <1>4, <2>3 DEF d
<1>5. CASE d = Listed(k)
  <2>1. ReqOK(Listed(c), S, P)
    BY ListedOK
  <2> QED BY <1>2, <1>5, <2>1 DEF d
<1> QED BY <1>1, <1>3, <1>4, <1>5

-----------------------------------------------------------------------------
(* Signing out, and signing in.                                             *)

\* destroySession(): what is left of the list, once the doomed are gone.
LEMMA SignedOutOK ==
  ASSUME NEW c, Shape(c), NEW T, NEW P, BaseOK(c, T, P), c.sid = 0, NEW D,
         Covers(c, Elements(c.list), T, P), \A s \in Ids : StoredIn(T, s) => s \notin D,
         NEW rest, rest = Keeping(c.list, Ids \ D),
         NEW d, d = [c EXCEPT !.out = [ids |-> rest, active |-> TakesOver(c.sent.active, rest)]]
  PROVE  ReqOK(Answered(d), T, P)
<1>1. c.list \in Seq(Ids) /\ Elements(c.list) \subseteq Held(c.sent)
  BY DEF BaseOK, CarriesOK
<1>2. rest \in Seq(Ids) /\ Elements(rest) = Elements(c.list) \ D
  <2>1. rest \in Seq(Ids) /\ Elements(rest) = Elements(c.list) \cap (Ids \ D)
    BY <1>1, KeepingDoes
  <2> QED BY <2>1 DEF Elements
<1> DEFINE a == TakesOver(c.sent.active, rest)
<1>3. a \in {None} \cup Elements(rest)
  <2>1. rest # <<>> => 1 \in DOMAIN rest
    BY <1>2, LenProperties, EmptySeq
  <2>2. rest # <<>> => rest[1] \in Elements(rest)
    BY <1>2, <2>1, PlacesOf
  <2> QED BY <2>2 DEF TakesOver
<1>4. d = [c EXCEPT !.out = [ids |-> rest, active |-> a]]
  OBVIOUS
<1> HIDE DEF a
<1>5. /\ d.sent = c.sent /\ d.list = c.list /\ d.rows = c.rows /\ d.shut = c.shut /\ d.sid = c.sid
      /\ d.out = [active |-> a, ids |-> rest]
  BY <1>4 DEF Shape, Fields
<1>6. Shape(d)
  <2>1. a \in Ids \cup {None, Keep}
    BY <1>3 DEF Elements
  <2>2. d = [c EXCEPT !.out = [active |-> a, ids |-> rest]]
    BY <1>4
  <2> QED BY <2>1, <2>2, KeptOut DEF Kept
<1>7. d.out.ids = rest /\ d.out.active = a
  BY <1>5
<1>8. Elements(rest) \subseteq Held(c.sent) /\ a \in {None} \cup Mentions(c.sent)
  <2>1. Held(c.sent) \subseteq Mentions(c.sent)
    BY HeldBorn DEF BaseOK, CarriesOK
  <2> QED BY <1>1, <1>2, <1>3, <2>1
<1>9. CarriesOK(d) /\ BornOK(d, T)
  BY <1>2, <1>5, <1>7, <1>8 DEF BaseOK, CarriesOK, BornOK
<1>10. LaterOK(rest, T, P)
  BY <1>1, LaterKept DEF BaseOK, ListsOK
<1>11. ListsOK(d, T, P) /\ RowsOK(d, T, P)
  BY <1>5, <1>7, <1>10 DEF BaseOK, ListsOK, RowsOK
<1>12. Covers(d, Elements(d.out.ids), T, P)
  <2>1. Held(c.sent) \subseteq Ids
    BY DEF Held, Elements
  <2>2. \A s \in Held(c.sent) : StoredIn(T, s) => s \in Elements(rest) \cup c.shut \cup P
    BY <1>2, <2>1 DEF Covers
  <2> QED BY <1>5, <1>7, <2>2 DEF Covers
<1>13. BaseOK(d, T, P) /\ d.sid = 0
  BY <1>5, <1>9, <1>11 DEF BaseOK
<1> QED BY <1>6, <1>12, <1>13, AnsweredOK

\* createSession(): the cookies it was sent with, without those of its mailbox, and the new session.
LEMMA SignedOK ==
  ASSUME NEW c, Shape(c), NEW T, NEW P, BaseOK(c, T, P), c.sid \in Ids, c.sid \notin Held(c.sent),
         NEW R, \A s \in Held(c.sent) : s \in R => ~StoredIn(T, s),
         \A s \in Held(c.sent) \ R : StoredIn(T, s) => T[s].of # T[c.sid].of
  PROVE  ReqOK(Signed(c, R), T, P)
<1> DEFINE old == ReadIds(c.sent)
           left == Keeping(old, Ids \ R)
           ids == Append(left, c.sid)
           d == [c EXCEPT !.out = [active |-> c.sid, ids |-> ids]]
<1>1. old \in Seq(Ids) /\ Elements(old) = Held(c.sent)
  BY ReadIdsDoes DEF BaseOK, CarriesOK, Shape
<1> HIDE DEF old
<1>2. left \in Seq(Ids) /\ Elements(left) = Held(c.sent) \ R
  <2>1. left \in Seq(Ids) /\ Elements(left) = Elements(old) \cap (Ids \ R)
    BY <1>1, KeepingDoes
  <2> QED BY <1>1, <2>1 DEF Elements
<1>3. LaterOK(left, T, P)
  BY <1>1, LaterKept DEF BaseOK, ListsOK, old
<1> HIDE DEF left
<1>4. /\ ids \in Seq(Ids) /\ Elements(ids) = Elements(left) \cup {c.sid}
      /\ ids[Len(left) + 1] = c.sid /\ Len(ids) = Len(left) + 1
      /\ \A i \in DOMAIN ids : (i \in DOMAIN left /\ ids[i] = left[i]) \/ i = Len(left) + 1
  <2>1. PICK s \in Ids : s = c.sid
    OBVIOUS
  <2>2. ids = Append(left, s)
    BY <2>1
  <2>3. Extended(Append(left, s), left, s)
    BY <1>2, AppendExtends
  <2>4. Extended(ids, left, s)
    BY <2>2, <2>3, Zenon
  <2> HIDE DEF ids
  <2> QED BY <2>1, <2>4 DEF Extended
<1>5. d = [c EXCEPT !.out = [active |-> c.sid, ids |-> ids]]
  OBVIOUS
<1>6. Signed(c, R) = Answered(d)
  <2>1. ids = Append(Keeping(ReadIds(c.sent), Ids \ R), c.sid)
    BY DEF left, old
  <2> HIDE DEF ids
  <2> QED BY <2>1 DEF Signed
<1> HIDE DEF ids, d
<1>7. LaterOK(ids, T, P)
  <2> SUFFICES ASSUME NEW i \in DOMAIN ids, NEW j \in DOMAIN ids, i < j
               PROVE  /\ ids[i] # ids[j]
                      /\ StoredIn(T, ids[i]) /\ StoredIn(T, ids[j]) /\ T[ids[i]].of = T[ids[j]].of => ids[j] \in P
    BY DEF LaterOK
  <2>1. DOMAIN ids = 1..Len(left) + 1 /\ Len(left) \in Nat
    BY <1>2, <1>4, PlacesOf
  <2>2. i \in DOMAIN left /\ ids[i] = left[i] /\ ids[i] \in Held(c.sent) \ R
    <3>1. i # Len(left) + 1
      BY <2>1
    <3> QED BY <1>2, <1>4, <3>1, PlacesOf
  <2>3. CASE j \in DOMAIN left /\ ids[j] = left[j]
    BY <1>3, <2>2, <2>3 DEF LaterOK
  <2>4. CASE ids[j] = c.sid
    BY <2>2, <2>4
  <2> QED BY <1>4, <2>3, <2>4
<1>8. /\ d.sent = c.sent /\ d.list = c.list /\ d.rows = c.rows /\ d.shut = c.shut /\ d.sid = c.sid
      /\ d.out = [active |-> c.sid, ids |-> ids]
  BY <1>5 DEF Shape, Fields
<1>9. Shape(d)
  BY <1>5, KeptOut DEF Kept
<1>10. d.out.ids = ids /\ d.out.active = c.sid
  BY <1>8
<1>11. CarriesOK(d) /\ BornOK(d, T)
  BY <1>2, <1>4, <1>8, <1>10 DEF BaseOK, CarriesOK, BornOK
<1>12. ListsOK(d, T, P) /\ RowsOK(d, T, P)
  BY <1>7, <1>8, <1>10 DEF BaseOK, ListsOK, RowsOK
<1>13. Covers(d, Elements(d.out.ids), T, P)
  BY <1>2, <1>4, <1>8, <1>10 DEF Covers
<1>14. d.out.ids # Keep
  <2>1. Ids \subseteq Nat
    BY Limits DEF Ids
  <2>2. ids \in Seq(Nat)
    BY <1>4, <2>1, SeqMonotonic
  <2> QED BY <1>10, <2>2, NoneOutside
<1>15. c.sid \in Elements(d.out.ids) /\ BaseOK(d, T, P)
  BY <1>4, <1>10, <1>11, <1>12 DEF BaseOK
<1> QED BY <1>6, <1>8, <1>9, <1>13, <1>14, <1>15, AnsweredOK

-----------------------------------------------------------------------------
(* The lists of every request, and the cookies.                             *)

ReqsOK == \A r \in Requests : ReqOK(req[r], sess, parted)

CookieOK ==
  /\ cookie.ids \in Seq(Ids) /\ LaterOK(cookie.ids, sess, parted)
  /\ \A s \in Ids : s \in Mentions(cookie) => sess[s].life # "unborn"

\* Nobody else has heard of a session that a sign-in has opened and not answered with yet.
FreshOK ==
  \A r \in Requests : req[r].sid # 0 =>
    /\ req[r].sid \notin Mentions(cookie)
    /\ \A q \in Requests : req[r].sid \notin Mentions(req[q].sent) /\ (q # r => req[r].sid # req[q].sid)

HeldOK ==
  \A s \in Ids : StoredIn(sess, s) =>
    s \in Remembered(cookie) \cup parted \/ \E r \in Requests : req[r].sid = s

ListsInv == ReqsOK /\ CookieOK /\ FreshOK /\ HeldOK

\* d knows of no other session than c.
From(c, d) == d.sid = c.sid /\ Mentions(d.sent) \subseteq Mentions(c.sent)

LEMMA RenewedWears ==
  ASSUME Renewed
  PROVE  Worn(sess, sess') /\ \A s \in Ids : StoredIn(sess', s) => StoredIn(sess, s)
<1> SUFFICES ASSUME NEW s \in Ids
             PROVE  /\ sess'[s].of = sess[s].of /\ (StoredIn(sess', s) => StoredIn(sess, s))
                    /\ sess[s].life # "unborn" => sess'[s].life # "unborn"
  BY DEF Worn
<1>1. Stored(s)' <=> StoredIn(sess', s)
  BY DEF Stored, Live, StoredIn
<1>2. Stored(s) <=> StoredIn(sess, s)
  BY DEF Stored, Live, StoredIn
<1> QED BY <1>1, <1>2 DEF Renewed

LEMMA CookieStays ==
  ASSUME CookieOK, Worn(sess, sess'), UNCHANGED cookie, parted \subseteq parted'
  PROVE  CookieOK'
<1>1. \A s \in Elements(cookie.ids) : sess[s].life # "unborn"
  BY DEF CookieOK, Mentions, Elements
<1>2. LaterOK(cookie.ids, sess', parted')
  BY <1>1, LaterStays DEF CookieOK
<1>3. \A s \in Ids : s \in Mentions(cookie) => sess'[s].life # "unborn"
  BY DEF CookieOK, Worn
<1>4. cookie'.ids \in Seq(Ids) /\ LaterOK(cookie'.ids, sess', parted')
  BY <1>2 DEF CookieOK
<1>5. \A s \in Ids : s \in Mentions(cookie') => sess'[s].life # "unborn"
  BY <1>3
<1> QED BY <1>4, <1>5 DEF CookieOK

\* The requests go on, and sessions end: nothing is opened, and the browser hears of nothing.
LEMMA AllKeep ==
  ASSUME ListsInv, Worn(sess, sess'), \A s \in Ids : StoredIn(sess', s) => StoredIn(sess, s),
         UNCHANGED <<cookie, parted>>,
         \A q \in Requests : ReqOK(req'[q], sess', parted') /\ From(req[q], req'[q])
  PROVE  ListsInv'
<1>1. ReqsOK'
  BY DEF ReqsOK
<1>2. CookieOK'
  BY CookieStays DEF ListsInv
<1>3. FreshOK'
  <2> SUFFICES ASSUME NEW r \in Requests, req'[r].sid # 0
               PROVE  /\ req'[r].sid \notin Mentions(cookie')
                      /\ \A q \in Requests : /\ req'[r].sid \notin Mentions(req'[q].sent)
                                             /\ q # r => req'[r].sid # req'[q].sid
    BY DEF FreshOK
  <2>1. /\ req[r].sid \notin Mentions(cookie)
        /\ \A q \in Requests : req[r].sid \notin Mentions(req[q].sent) /\ (q # r => req[r].sid # req[q].sid)
    BY DEF ListsInv, FreshOK, From
  <2> QED BY <2>1 DEF From
<1>4. HeldOK'
  <2> SUFFICES ASSUME NEW s \in Ids, StoredIn(sess', s)
               PROVE  s \in Remembered(cookie') \cup parted' \/ \E r \in Requests : req'[r].sid = s
    BY DEF HeldOK
  <2>1. s \in Remembered(cookie) \cup parted \/ \E r \in Requests : req[r].sid = s
    BY DEF ListsInv, HeldOK
  <2>2. Remembered(cookie') = Remembered(cookie)
    OBVIOUS
  <2> QED BY <2>1, <2>2 DEF From
<1> QED BY <1>1, <1>2, <1>3, <1>4 DEF ListsInv

LEMMA RequestShape ==
  ASSUME IInv, NEW q \in Requests
  PROVE  Shape(req[q])
BY ReqFits DEF IInv

\* One request goes on.
LEMMA OneKeeps ==
  ASSUME IInv, ListsInv, Worn(sess, sess'), \A s \in Ids : StoredIn(sess', s) => StoredIn(sess, s),
         UNCHANGED <<cookie, parted>>,
         NEW r \in Requests, NEW d, Become(r, d), ReqOK(d, sess', parted), From(req[r], d)
  PROVE  ListsInv'
<1>1. req'[r] = d /\ \A q \in Requests \ {r} : req'[q] = req[q]
  BY BecomeDoes DEF IInv
<1>2. \A q \in Requests : ReqOK(req[q], sess', parted)
  BY RequestShape, ReqStays DEF ListsInv, ReqsOK
<1>3. \A q \in Requests : From(req[q], req[q])
  BY DEF From
<1>4. \A q \in Requests : ReqOK(req'[q], sess', parted') /\ From(req[q], req'[q])
  BY <1>1, <1>2, <1>3
<1> QED BY <1>4, AllKeep

\* What a request goes on as, when it opens nothing.
Follows(r) == \E d : Become(r, d) /\ ReqOK(d, sess, parted) /\ From(req[r], d)

LEMMA FollowsKeeps ==
  ASSUME IInv, IInv', ListsInv, NEW r \in Requests, Follows(r),
         Worn(sess, sess'), \A s \in Ids : StoredIn(sess', s) => StoredIn(sess, s), UNCHANGED <<cookie, parted>>
  PROVE  ListsInv'
<1>1. PICK d : Become(r, d) /\ ReqOK(d, sess, parted) /\ From(req[r], d)
  BY DEF Follows
<1>2. req'[r] = d
  BY <1>1, BecomeDoes DEF IInv
<1>3. Shape(req'[r])
  BY DEF IInv, RequestsOK, AllOK, StepsOK
<1>4. Shape(d)
  BY <1>2, <1>3
<1>5. ReqOK(d, sess', parted)
  BY <1>1, <1>4, ReqStays
<1> QED BY <1>1, <1>5, OneKeeps

-----------------------------------------------------------------------------
(* Where a request goes on it knows of no other session.                    *)

LEMMA SameFrom ==
  ASSUME NEW c, NEW d, Same(c, d)
  PROVE  From(c, d)
BY DEF Same, From

LEMMA AnsweredFrom ==
  ASSUME NEW c
  PROVE  From(c, Answered(c))
<1> DEFINE d == [Idle EXCEPT !.at = "answer", !.sent = c.sent, !.sid = c.sid, !.shut = c.shut, !.out = c.out]
<1>1. d.sent = c.sent /\ d.sid = c.sid
  BY DEF Idle
<1>2. Answered(c) = d \/ (Answered(c) = Idle /\ c.sid = 0)
  BY DEF Answered
<1> HIDE DEF d
<1>3. Idle.sid = 0 /\ Mentions(Idle.sent) = {}
  BY EmptyLists DEF Idle
<1> QED BY <1>1, <1>2, <1>3 DEF From

LEMMA EnteringFrom ==
  ASSUME NEW c, Shape(c)
  PROVE  From(c, Entering(c))
BY DEF Entering, Shape, Fields, From

LEMMA PermittedFrom ==
  ASSUME NEW c, Shape(c), NEW v
  PROVE  From(c, Permitted(c, v))
<1> DEFINE d == Permitted(c, v)
<1>1. \/ d = Answered(c) \/ d = Entering(c)
      \/ d = [c EXCEPT !.at = "refresh"] \/ d = [c EXCEPT !.at = "act"]
      \/ d = [c EXCEPT !.at = "list", !.seen = 0]
  BY DEF Permitted
<1> HIDE DEF d
<1>3. CASE d = Answered(c) \/ d = Entering(c)
  BY <1>3, AnsweredFrom, EnteringFrom DEF d
<1>4. CASE \/ d = [c EXCEPT !.at = "refresh"] \/ d = [c EXCEPT !.at = "act"]
           \/ d = [c EXCEPT !.at = "list", !.seen = 0]
  <2>1. Same(c, d)
    BY <1>4, SameAt, SameAtSeen
  <2>2. From(c, d)
    BY <2>1, SameFrom
  <2> QED BY <2>2 DEF d
<1> QED BY <1>1, <1>3, <1>4

LEMMA ListedFrom ==
  ASSUME NEW c, Shape(c)
  PROVE  From(c, Listed(c))
<1> DEFINE d == Listed(c)
           a == CHOOSE s \in Owned(c.list, c.who) : TRUE
           e == [c EXCEPT !.out.active = a]
<1>1. d = Answered(c) \/ d = Entering(c) \/ d = Answered(e)
  BY DEF Listed
<1> HIDE DEF d, a
<1>2. e.sent = c.sent /\ e.sid = c.sid
  BY DEF Shape, Fields
<1> HIDE DEF e
<1>3. From(e, Answered(e))
  BY AnsweredFrom
<1>4. From(c, Answered(e))
  BY <1>2, <1>3 DEF From
<1> QED BY <1>1, <1>4, AnsweredFrom, EnteringFrom DEF d

LEMMA ListingFrom ==
  ASSUME NEW c, Shape(c)
  PROVE  From(c, Listing(c))
<1> DEFINE d == Listing(c)
<1>1. PICK q : d = [c EXCEPT !.at = "doom"] \/ d = [c EXCEPT !.at = "extend"] \/ d = Listed([c EXCEPT !.out.ids = q])
  BY DEF Listing
<1> DEFINE e == [c EXCEPT !.out.ids = q]
<1>2. e.sent = c.sent /\ e.sid = c.sid
  BY DEF Shape, Fields
<1>3. Shape(e)
  BY KeptIds DEF Kept
<1>4. d = [c EXCEPT !.at = "doom"] \/ d = [c EXCEPT !.at = "extend"] \/ d = Listed(e)
  BY <1>1
<1> HIDE DEF d, e
<1>5. From(e, Listed(e))
  BY <1>3, ListedFrom
<1>6. From(c, Listed(e))
  BY <1>2, <1>5 DEF From
<1>7. CASE d = [c EXCEPT !.at = "doom"] \/ d = [c EXCEPT !.at = "extend"]
  <2>1. Same(c, d)
    BY <1>7, SameAt
  <2>2. From(c, d)
    BY <2>1, SameFrom
  <2> QED BY <2>2 DEF d
<1> QED BY <1>4, <1>6, <1>7 DEF d

-----------------------------------------------------------------------------
(* Steps of a request that opens nothing.                                   *)

LEMMA RequestFacts ==
  ASSUME IInv, ListsInv, NEW r \in Requests
  PROVE  /\ TablesOK /\ RequestsOK /\ Shape(req[r]) /\ ReqOK(req[r], sess, parted)
         /\ BaseOK(req[r], sess, parted)
         /\ req[r].at \in Plain \cup {"install_list", "extend", "doom"} => req[r].out.ids = Keep
         /\ req[r].at \notin {"replace", "answer"} => req[r].sid = 0
         /\ req[r].at \in {"act", "save", "sweep"} =>
              (req[r].out.ids # Keep => Covers(req[r], Elements(req[r].out.ids), sess, parted))
<1>1. ReqOK(req[r], sess, parted)
  BY DEF ListsInv, ReqsOK
<1>2. BaseOK(req[r], sess, parted) /\ OutOK(req[r], sess, parted) /\ SidOK(req[r], sess)
  BY <1>1 DEF ReqOK
<1>3. req[r].at \in Plain \cup {"install_list", "extend", "doom"} => req[r].out.ids = Keep
  BY <1>2 DEF OutOK, Plain, Opening, Settled
<1>4. req[r].at \notin {"replace", "answer"} => req[r].sid = 0
  BY <1>2 DEF SidOK
<1>5. req[r].at \in {"act", "save", "sweep"} =>
        (req[r].out.ids # Keep => Covers(req[r], Elements(req[r].out.ids), sess, parted))
  BY <1>2 DEF OutOK, Opening
<1> QED BY <1>1, <1>2, <1>3, <1>4, <1>5, RequestShape DEF IInv

\* Only marks, dues, or what was read of the domains.
LEMMA SameOthers ==
  ASSUME NEW c, Shape(c), NEW x, NEW d,
         \/ d = [c EXCEPT !.due = x] \/ d = [c EXCEPT !.read = x]
         \/ d = [c EXCEPT !.marks = @ \cup x] \/ d = [c EXCEPT !.marks = @ \ x]
  PROVE  Same(c, d) /\ d.at = c.at /\ d.who = c.who
BY DEF Shape, Fields, Same

LEMMA SameSeen ==
  ASSUME NEW c, Shape(c), NEW m, pw[m] \in Nat, newest[m] \in Nat, NEW d, d = Seen(c, m)
  PROVE  Same(c, d) /\ d.at = "domains"
<1>1. Shape(d) /\ d.at = "domains"
  BY SeenDoes
<1>2. /\ d.sent = c.sent /\ d.list = c.list /\ d.rows = c.rows /\ d.shut = c.shut
      /\ d.out = c.out /\ d.sid = c.sid
  BY DEF Seen, Shape, Fields
<1> QED BY <1>1, <1>2 DEF Same

\* The active session is gone, or has expired.
LEMMA SignedOffOK ==
  ASSUME NEW c, Shape(c), NEW S, NEW P, BaseOK(c, S, P), c.out.ids = Keep, c.sid = 0,
         NEW d, d = Answered([c EXCEPT !.out.active = None])
  PROVE  ReqOK(d, S, P) /\ From(c, d)
<1>1. PICK e : e = [c EXCEPT !.out.active = None]
  OBVIOUS
<1>2. Shape(e) /\ e.sent = c.sent /\ e.sid = c.sid /\ BaseOK(e, S, P)
  BY <1>1, ActiveBase
<1>3. e.out.ids = Keep
  <2>1. e.out = [c.out EXCEPT !.active = None]
    BY <1>1 DEF Shape, Fields
  <2> QED BY <2>1 DEF Shape
<1>4. ReqOK(Answered(e), S, P)
  BY <1>2, <1>3, AnsweredOK
<1>5. From(c, Answered(e))
  BY <1>2, AnsweredFrom DEF From
<1>6. d = Answered(e)
  BY <1>1
<1> QED BY <1>4, <1>5, <1>6

LEMMA ReadFollows ==
  ASSUME IInv, ListsInv, NEW r \in Requests, LoadSession(r) \/ DropExpired(r) \/ FindUser(r)
  PROVE  Follows(r)
<1>1. PICK c : c = req[r]
  OBVIOUS
<1>2. Shape(c) /\ BaseOK(c, sess, parted) /\ c.at \in {"session", "expired", "find"} /\ c.sid = 0 /\ c.out.ids = Keep
  BY <1>1, RequestFacts DEF LoadSession, DropExpired, FindUser, Plain
<1>3. ReqOK(Answered(c), sess, parted) /\ From(c, Answered(c))
  BY <1>2, AnsweredOK, AnsweredFrom
<1>4. ASSUME NEW e, Same(c, e), NEW m \in enabled
      PROVE  ReqOK(Seen(e, m), sess, parted) /\ From(c, Seen(e, m))
  <2>1. pw[m] \in Nat /\ newest[m] \in Nat
    BY DEF IInv, TablesOK
  <2>2. PICK d : d = Seen(e, m)
    OBVIOUS
  <2>3. Same(e, d) /\ d.at = "domains"
    BY <1>4, <2>1, <2>2, SameSeen DEF Same
  <2>4. Same(c, d)
    BY <1>4, <2>3 DEF Same
  <2>5. ReqOK(d, sess, parted)
    BY <1>2, <2>3, <2>4, PlainOK DEF Plain
  <2> QED BY <2>2, <2>4, <2>5, SameFrom
<1>5. CASE DropExpired(r)
  BY <1>1, <1>2, <1>5, SignedOffOK DEF DropExpired, Follows
<1>6. CASE FindUser(r)
  <2>1. Become(r, IF c.who \in enabled THEN Seen(c, c.who) ELSE Answered(c))
    BY <1>1, <1>6 DEF FindUser
  <2>2. Same(c, c)
    BY <1>2 DEF Same
  <2> QED BY <1>1, <1>3, <1>4, <2>1, <2>2 DEF Follows
<1>7. CASE LoadSession(r)
  <2>1. PICK s, x : Become(r, IF sess[s].life = "gone" THEN Answered([c EXCEPT !.out.active = None])
                           ELSE IF sess[s].life = "expired" THEN [c EXCEPT !.at = "expired"]
                           ELSE IF sess[s].of \notin enabled THEN Answered(c)
                           ELSE Seen([c EXCEPT !.due = x], sess[s].of))
    BY <1>1, <1>7 DEF LoadSession
  <2>2. Same(c, [c EXCEPT !.due = x])
    BY <1>2, SameOthers
  <2>3. ReqOK([c EXCEPT !.at = "expired"], sess, parted) /\ From(c, [c EXCEPT !.at = "expired"])
    <3>1. PICK d : d = [c EXCEPT !.at = "expired"]
      OBVIOUS
    <3>2. Same(c, d) /\ d.at = "expired"
      BY <1>2, <3>1, SameAt
    <3>3. ReqOK(d, sess, parted)
      BY <1>2, <3>2, PlainOK DEF Plain
    <3> QED BY <3>1, <3>2, <3>3, SameFrom
  <2>4. PICK e : e = [c EXCEPT !.due = x]
    OBVIOUS
  <2>5. CASE sess[s].life = "gone"
    BY <1>1, <1>2, <2>1, <2>5, SignedOffOK DEF Follows
  <2>6. CASE sess[s].life # "gone" /\ sess[s].life = "expired"
    <3>1. Become(r, [c EXCEPT !.at = "expired"])
      BY <2>1, <2>6
    <3> QED BY <1>1, <2>3, <3>1 DEF Follows
  <2>7. CASE sess[s].life # "gone" /\ sess[s].life # "expired" /\ sess[s].of \notin enabled
    BY <1>1, <1>3, <2>1, <2>7 DEF Follows
  <2>8. CASE sess[s].life # "gone" /\ sess[s].life # "expired" /\ sess[s].of \in enabled
    <3>1. Become(r, Seen(e, sess[s].of))
      BY <2>1, <2>4, <2>8
    <3> QED BY <1>1, <1>4, <2>2, <2>4, <2>8, <3>1 DEF Follows
  <2> QED BY <2>5, <2>6, <2>7, <2>8
<1> QED BY <1>5, <1>6, <1>7

\* loadAccounts(), from the rows it read.
LEMMA LoadedOK ==
  ASSUME NEW c, Shape(c), NEW P, BaseOK(c, sess, P), Covers(c, c.rows, sess, {}), c.sid = 0, c.out.ids = Keep, NEW v
  PROVE  ReqOK(Listing(Resolved(c, v)), sess, P) /\ From(c, Listing(Resolved(c, v)))
<1>1. PICK e : e = Resolved(c, v)
  OBVIOUS
<1>2. PICK S : S = sess
  OBVIOUS
<1>3. Shape(e) /\ e.sent = c.sent /\ e.out = c.out /\ e.sid = c.sid /\ BaseOK(e, S, P) /\ Covers(e, Elements(e.list), S, P)
  BY <1>1, <1>2, ResolvedOK
<1>4. ReqOK(Listing(e), S, P)
  BY <1>3, ListingOK
<1>5. From(e, Listing(e))
  BY <1>3, ListingFrom
<1>6. From(c, Listing(e))
  BY <1>3, <1>5 DEF From
<1> QED BY <1>1, <1>2, <1>4, <1>6

LEMMA CachedFollows ==
  ASSUME IInv, ListsInv, NEW r \in Requests, CachedDomains(r)
  PROVE  Follows(r)
<1>1. PICK b : b = req[r]
  OBVIOUS
<1>2. PICK c : c = IF domDrift THEN [b EXCEPT !.marks = @ \cup {"drift"}] ELSE b
  OBVIOUS
<1>3. /\ b.at \in {"domains", "list"}
      /\ Become(r, IF c.at = "domains" THEN Permitted(c, domCache) ELSE Listing(Resolved(Rows(c), domCache)))
  BY <1>1, <1>2 DEF CachedDomains
<1>4. TablesOK /\ Shape(b) /\ BaseOK(b, sess, parted) /\ b.sid = 0 /\ b.out.ids = Keep
  BY <1>1, <1>3, RequestFacts DEF Plain
<1>5. Same(b, c) /\ c.at = b.at
  <2>1. Same(b, b)
    BY <1>4 DEF Same
  <2> QED BY <1>2, <1>4, <2>1, SameOthers
<1>6. Shape(c) /\ BaseOK(c, sess, parted) /\ c.sid = 0 /\ c.out.ids = Keep
  BY <1>4, <1>5, SameBase DEF Same
<1>7. CASE c.at = "domains"
  <2>1. ReqOK(Permitted(c, domCache), sess, parted) /\ From(c, Permitted(c, domCache))
    BY <1>6, PermittedOK, PermittedFrom
  <2>2. From(b, Permitted(c, domCache))
    BY <1>5, <2>1 DEF From, Same
  <2> QED BY <1>1, <1>3, <1>7, <2>1, <2>2 DEF Follows
<1>8. CASE c.at # "domains"
  <2>1. PICK e : e = Rows(c)
    OBVIOUS
  <2>2. /\ Shape(e) /\ e.sent = c.sent /\ e.out = c.out /\ e.sid = c.sid
        /\ BaseOK(e, sess, parted) /\ Covers(e, e.rows, sess, {})
    BY <1>4, <1>6, <2>1, RowsRead
  <2>3. ReqOK(Listing(Resolved(e, domCache)), sess, parted) /\ From(e, Listing(Resolved(e, domCache)))
    BY <1>6, <2>2, LoadedOK
  <2>4. From(b, Listing(Resolved(e, domCache)))
    BY <1>5, <2>2, <2>3 DEF From, Same
  <2> QED BY <1>1, <1>3, <1>8, <2>1, <2>3, <2>4 DEF Follows
<1> QED BY <1>7, <1>8

LEMMA QueryFollows ==
  ASSUME IInv, ListsInv, NEW r \in Requests, QueryDomains(r)
  PROVE  Follows(r)
<1>1. PICK c : c = req[r]
  OBVIOUS
<1>2. PICK e : e = Rows(c)
  OBVIOUS
<1>3. /\ c.at \in {"domains", "list"}
      /\ Become(r, IF c.at = "domains" THEN [c EXCEPT !.at = "install", !.read = domain]
                   ELSE [e EXCEPT !.at = "install_list", !.read = domain])
  BY <1>1, <1>2 DEF QueryDomains
<1>4. TablesOK /\ Shape(c) /\ BaseOK(c, sess, parted) /\ c.sid = 0 /\ c.out.ids = Keep
  BY <1>1, <1>3, RequestFacts DEF Plain
<1>5. CASE c.at = "domains"
  <2>1. PICK d : d = [c EXCEPT !.at = "install", !.read = domain]
    OBVIOUS
  <2>2. Same(c, d) /\ d.at = "install"
    BY <1>4, <2>1 DEF Shape, Fields, Same
  <2>3. ReqOK(d, sess, parted)
    BY <1>4, <2>2, PlainOK DEF Plain
  <2>4. Become(r, d)
    BY <1>3, <1>5, <2>1
  <2> QED BY <1>1, <2>2, <2>3, <2>4, SameFrom DEF Follows
<1>6. CASE c.at # "domains"
  <2>1. PICK d : d = [e EXCEPT !.at = "install_list", !.read = domain]
    OBVIOUS
  <2>2. /\ Shape(e) /\ e.sent = c.sent /\ e.out = c.out /\ e.sid = c.sid
        /\ BaseOK(e, sess, parted) /\ Covers(e, e.rows, sess, {})
    BY <1>2, <1>4, RowsRead
  <2>3. Same(e, d) /\ d.at = "install_list"
    BY <2>1, <2>2 DEF Shape, Fields, Same
  <2>4. BaseOK(d, sess, parted) /\ Covers(d, d.rows, sess, {}) /\ d.out.ids = Keep /\ d.sid = 0
    <3>1. d.rows = e.rows /\ d.out = c.out /\ d.sid = c.sid
      BY <2>2, <2>3 DEF Same
    <3> QED BY <1>4, <2>2, <2>3, <3>1, SameBase, SameCovers
  <2>5. ReqOK(d, sess, parted)
    BY <2>3, <2>4 DEF ReqOK, ReadOK, ListOK, OutOK, SidOK
  <2>6. From(c, d)
    BY <2>2, <2>3 DEF From, Same
  <2>7. Become(r, d)
    BY <1>3, <1>6, <2>1
  <2> QED BY <1>1, <2>5, <2>6, <2>7 DEF Follows
<1> QED BY <1>5, <1>6

LEMMA InstallFollows ==
  ASSUME IInv, ListsInv, NEW r \in Requests, InstallDomains(r)
  PROVE  Follows(r)
<1>1. PICK b : b = req[r]
  OBVIOUS
<1>2. PICK c : c = [b EXCEPT !.read = "on"]
  OBVIOUS
<1>3. /\ b.at \in {"install", "install_list"}
      /\ Become(r, IF c.at = "install" THEN Permitted(c, b.read) ELSE Listing(Resolved(c, b.read)))
  BY <1>1, <1>2 DEF InstallDomains
<1>4. /\ Shape(b) /\ ReqOK(b, sess, parted) /\ BaseOK(b, sess, parted)
      /\ b.sid = 0 /\ b.out.ids = Keep
  BY <1>1, <1>3, RequestFacts DEF Plain
<1>5. Same(b, c) /\ c.at = b.at
  BY <1>2, <1>4, SameOthers
<1>6. Shape(c) /\ BaseOK(c, sess, parted) /\ c.sid = 0 /\ c.out.ids = Keep
  BY <1>4, <1>5, SameBase DEF Same
<1>7. CASE c.at = "install"
  <2>1. ReqOK(Permitted(c, b.read), sess, parted) /\ From(c, Permitted(c, b.read))
    BY <1>6, PermittedOK, PermittedFrom
  <2>2. From(b, Permitted(c, b.read))
    BY <1>5, <2>1 DEF From, Same
  <2> QED BY <1>1, <1>3, <1>7, <2>1, <2>2 DEF Follows
<1>8. CASE c.at # "install"
  <2>1. Covers(b, b.rows, sess, {})
    BY <1>3, <1>4, <1>5, <1>8 DEF ReqOK, ReadOK
  <2>2. Covers(c, c.rows, sess, {})
    <3>1. c.rows = b.rows
      BY <1>5 DEF Same
    <3> QED BY <1>5, <2>1, <3>1, SameCovers
  <2>3. ReqOK(Listing(Resolved(c, b.read)), sess, parted) /\ From(c, Listing(Resolved(c, b.read)))
    BY <1>6, <2>2, LoadedOK
  <2>4. From(b, Listing(Resolved(c, b.read)))
    BY <1>5, <2>3 DEF From, Same
  <2> QED BY <1>1, <1>3, <1>8, <2>3, <2>4 DEF Follows
<1> QED BY <1>7, <1>8

LEMMA RefreshFollows ==
  ASSUME IInv, ListsInv, NEW r \in Requests, Refresh(r)
  PROVE  Follows(r)
<1>1. PICK c : c = req[r]
  OBVIOUS
<1>2. PICK q : q = ReadIds(c.sent)
  OBVIOUS
<1>3. PICK a : a = c.sent.active
  OBVIOUS
<1>4. PICK d : d = [c EXCEPT !.at = "act", !.out = [active |-> a, ids |-> q]]
  OBVIOUS
<1>5. Become(r, d) /\ c.at = "refresh"
  BY <1>1, <1>2, <1>3, <1>4 DEF Refresh
<1>6. Shape(c) /\ BaseOK(c, sess, parted) /\ c.sid = 0
  BY <1>1, <1>5, RequestFacts DEF Plain
<1>7. /\ d.sent = c.sent /\ d.list = c.list /\ d.rows = c.rows /\ d.shut = c.shut /\ d.sid = 0 /\ d.at = "act"
      /\ d.out = [active |-> a, ids |-> q]
  BY <1>4, <1>6 DEF Shape, Fields
<1>8. d.out.ids = q /\ d.out.active = a
  BY <1>7
<1>9. q \in Seq(Ids) /\ Elements(q) = Held(c.sent)
  BY <1>2, <1>6, ReadIdsDoes DEF BaseOK, CarriesOK, Shape
<1>10. CarriesOK(d) /\ BornOK(d, sess)
  <2>1. a \in {None} \cup Mentions(c.sent)
    BY <1>3 DEF Mentions
  <2> QED BY <1>6, <1>7, <1>8, <1>9, <2>1 DEF BaseOK, CarriesOK, BornOK
<1>11. ListsOK(d, sess, parted) /\ RowsOK(d, sess, parted)
  BY <1>2, <1>6, <1>7, <1>8 DEF BaseOK, ListsOK, RowsOK
<1>12. Covers(d, Elements(d.out.ids), sess, parted)
  BY <1>7, <1>8, <1>9 DEF Covers
<1>13. ReqOK(d, sess, parted)
  BY <1>7, <1>10, <1>11, <1>12 DEF ReqOK, BaseOK, ReadOK, ListOK, OutOK, Settled, SidOK
<1> QED BY <1>1, <1>5, <1>6, <1>7, <1>13 DEF Follows, From

LEMMA HandlerFollows ==
  ASSUME IInv, ListsInv, NEW r \in Requests, Act(r) \/ SweepOthers(r)
  PROVE  Follows(r)
<1>1. PICK c : c = req[r]
  OBVIOUS
<1>2. c.at \in {"act", "sweep"} /\ (Become(r, [c EXCEPT !.at = "save"]) \/ Become(r, Answered(c)))
  BY <1>1 DEF Act, SweepOthers
<1>3. /\ Shape(c) /\ BaseOK(c, sess, parted) /\ c.sid = 0
      /\ c.out.ids # Keep => Covers(c, Elements(c.out.ids), sess, parted)
  BY <1>1, <1>2, RequestFacts
<1>4. ReqOK(Answered(c), sess, parted) /\ From(c, Answered(c))
  BY <1>3, AnsweredOK, AnsweredFrom
<1>5. PICK d : d = [c EXCEPT !.at = "save"]
  OBVIOUS
<1>6. Same(c, d) /\ d.at = "save"
  BY <1>3, <1>5, SameAt
<1>7. ReqOK(d, sess, parted) /\ From(c, d)
  BY <1>3, <1>6, PlainOK, SameFrom
<1> QED BY <1>1, <1>2, <1>4, <1>5, <1>7 DEF Follows

LEMMA ExtendFollows ==
  ASSUME IInv, ListsInv, NEW r \in Requests, ExtendListed(r)
  PROVE  Follows(r)
<1>1. PICK c : c = req[r]
  OBVIOUS
<1>2. PICK e : e = [c EXCEPT !.out.ids = c.list]
  OBVIOUS
<1>3. c.at = "extend" /\ Become(r, Listed(e))
  BY <1>1, <1>2 DEF ExtendListed
<1>4. Shape(c) /\ ReqOK(c, sess, parted) /\ BaseOK(c, sess, parted) /\ c.sid = 0
  BY <1>1, <1>3, RequestFacts
<1>5. Covers(c, Elements(c.list), sess, parted)
  BY <1>3, <1>4 DEF ReqOK, ListOK
<1>6. /\ Shape(e) /\ e.sent = c.sent /\ e.shut = c.shut /\ e.sid = c.sid /\ e.out.ids = c.list
      /\ BaseOK(e, sess, parted)
  <2>1. Writes(c, e)
    BY <1>2 DEF Writes
  <2> QED BY <1>4, <2>1, ListBase
<1>7. Covers(e, Elements(e.out.ids), sess, parted)
  BY <1>5, <1>6 DEF Covers
<1>8. ReqOK(Listed(e), sess, parted)
  BY <1>4, <1>6, <1>7, ListedOK
<1>9. From(c, Listed(e))
  <2>1. From(e, Listed(e))
    BY <1>6, ListedFrom
  <2> QED BY <1>6, <2>1 DEF From
<1> QED BY <1>1, <1>3, <1>8, <1>9 DEF Follows

LEMMA RehashFollows ==
  ASSUME IInv, ListsInv, NEW r \in Requests, Rehash(r)
  PROVE  Follows(r)
<1>1. PICK c : c = req[r]
  OBVIOUS
<1>2. PICK d : d = [c EXCEPT !.at = "create"]
  OBVIOUS
<1>3. c.at = "rehash" /\ Become(r, d)
  BY <1>1, <1>2 DEF Rehash, Goto, Become
<1>4. Shape(c) /\ BaseOK(c, sess, parted) /\ c.sid = 0
  BY <1>1, <1>3, RequestFacts
<1>5. Same(c, d) /\ d.at = "create"
  BY <1>2, <1>4, SameAt
<1>6. ReqOK(d, sess, parted)
  BY <1>4, <1>5, PlainOK
<1> QED BY <1>1, <1>3, <1>5, <1>6, SameFrom DEF Follows

\* Reading, deciding, renewing and sweeping.
Quiet(r) ==
  \/ LoadSession(r) \/ DropExpired(r) \/ FindUser(r) \/ CachedDomains(r) \/ QueryDomains(r) \/ InstallDomains(r)
  \/ Refresh(r) \/ Act(r) \/ SweepOthers(r) \/ ExtendListed(r) \/ Rehash(r)

LEMMA QuietHolds ==
  ASSUME IInv, IInv', ListsInv, NEW r \in Requests, Quiet(r)
  PROVE  ListsInv'
<1>1. Follows(r)
  <2>1. CASE LoadSession(r) \/ DropExpired(r) \/ FindUser(r)
    BY <2>1, ReadFollows
  <2>2. CASE CachedDomains(r) \/ QueryDomains(r) \/ InstallDomains(r)
    BY <2>2, CachedFollows, QueryFollows, InstallFollows
  <2>3. CASE Refresh(r) \/ Act(r) \/ SweepOthers(r)
    BY <2>3, RefreshFollows, HandlerFollows
  <2>4. CASE ExtendListed(r) \/ Rehash(r)
    BY <2>4, ExtendFollows, RehashFollows
  <2> QED BY <2>1, <2>2, <2>3, <2>4 DEF Quiet
<1>2. UNCHANGED <<cookie, parted>>
  BY DEF Quiet, kept, LoadSession, DropExpired, FindUser, CachedDomains, QueryDomains, InstallDomains, Refresh,
         Act, SweepOthers, ExtendListed, Rehash
<1>3. Renewed
  <2>1. CASE SweepOthers(r)
    <3>1. \E X : Destroy(X)
      BY <2>1 DEF SweepOthers
    <3> QED BY <3>1, DestroyDoes DEF IInv
  <2>2. CASE Rehash(r)
    <3>1. UNCHANGED sess
      BY <2>2 DEF Rehash
    <3> QED BY <3>1, SameSessions DEF IInv
  <2>3. CASE ~SweepOthers(r) /\ ~Rehash(r)
    BY <2>3, CalmDoes DEF IInv, Quiet, Calm
  <2> QED BY <2>1, <2>2, <2>3
<1> QED BY <1>1, <1>2, <1>3, RenewedWears, FollowsKeeps

\* POST /account/password: the session it came with is as old as the new password.
LEMMA SaveHolds ==
  ASSUME IInv, IInv', ListsInv, NEW r \in Requests, SavePassword(r)
  PROVE  ListsInv'
<1>1. PICK c : c = req[r]
  OBVIOUS
<1>2. PICK n : n = newest'[c.who]
  OBVIOUS
<1>3. PICK d : d = [c EXCEPT !.at = "sweep", !.since = n]
  OBVIOUS
<1>4. /\ c.at = "save" /\ sess' = [sess EXCEPT ![c.sent.active].since = n] /\ Become(r, d)
      /\ UNCHANGED <<cookie, parted>>
  BY <1>1, <1>2, <1>3 DEF SavePassword, kept
<1>5. /\ Shape(c) /\ BaseOK(c, sess, parted) /\ c.sid = 0
      /\ c.out.ids # Keep => Covers(c, Elements(c.out.ids), sess, parted)
  BY <1>1, <1>4, RequestFacts
<1>6. Same(c, d) /\ d.at = "sweep"
  <2>1. req'[r] = d
    BY <1>4, BecomeDoes DEF IInv
  <2>2. Shape(req'[r])
    BY DEF IInv, RequestsOK, AllOK, StepsOK
  <2>3. /\ d.sent = c.sent /\ d.list = c.list /\ d.rows = c.rows /\ d.shut = c.shut
        /\ d.out = c.out /\ d.sid = c.sid /\ d.at = "sweep"
    BY <1>3, <1>5 DEF Shape, Fields
  <2> QED BY <2>1, <2>2, <2>3 DEF Same
<1>7. ReqOK(d, sess, parted) /\ From(c, d)
  BY <1>5, <1>6, PlainOK, SameFrom
<1>8. \A s \in Ids : sess'[s].of = sess[s].of /\ sess'[s].life = sess[s].life
  <2>1. PICK a : a = c.sent.active
    OBVIOUS
  <2>2. sess' = [sess EXCEPT ![a].since = n] /\ sess \in [Ids -> Session]
    BY <1>4, <2>1 DEF IInv, TablesOK
  <2> QED BY <2>2 DEF Session
<1>9. Worn(sess, sess') /\ \A s \in Ids : StoredIn(sess', s) => StoredIn(sess, s)
  BY <1>8 DEF Worn, StoredIn
<1>10. Follows(r)
  BY <1>1, <1>4, <1>7 DEF Follows
<1> QED BY <1>4, <1>9, <1>10, FollowsKeeps

\* destroySession(): the list is written as the sessions go.
LEMMA SignOutHolds ==
  ASSUME IInv, ListsInv, NEW r \in Requests, SignOut(r)
  PROVE  ListsInv'
<1>1. PICK c : c = req[r]
  OBVIOUS
<1>2. PICK D : D = Doomed(c)
  OBVIOUS
<1>3. PICK rest : rest = Keeping(c.list, Ids \ D)
  OBVIOUS
<1>4. PICK e : e = [c EXCEPT !.out = [ids |-> rest, active |-> TakesOver(c.sent.active, rest)]]
  OBVIOUS
<1>5. c.at = "doom" /\ Destroy(D) /\ Become(r, Answered(e)) /\ UNCHANGED <<cookie, parted>>
  BY <1>1, <1>2, <1>3, <1>4 DEF SignOut, kept
<1>6. Renewed /\ \A s \in Ids : Stored(s)' => s \notin D
  BY <1>5, DestroyDoes DEF IInv
<1>7. PICK T : T = sess'
  OBVIOUS
<1>8. Worn(sess, T) /\ \A s \in Ids : StoredIn(T, s) => StoredIn(sess, s)
  BY <1>6, <1>7, RenewedWears
<1>9. \A s \in Ids : StoredIn(T, s) => s \notin D
  <2>1. \A s \in Ids : StoredIn(T, s) => Stored(s)'
    BY <1>7 DEF StoredIn, Stored, Live
  <2> QED BY <1>6, <2>1
<1>10. Shape(c) /\ ReqOK(c, sess, parted) /\ c.sid = 0
  BY <1>1, <1>5, RequestFacts
<1>11. ReqOK(c, T, parted)
  BY <1>8, <1>10, ReqStays
<1>12. BaseOK(c, T, parted) /\ Covers(c, Elements(c.list), T, parted)
  BY <1>5, <1>11 DEF ReqOK, ListOK
<1>13. ReqOK(Answered(e), T, parted)
  BY <1>3, <1>4, <1>9, <1>10, <1>12, SignedOutOK
<1>14. From(c, Answered(e))
  <2>1. e.sent = c.sent /\ e.sid = c.sid
    BY <1>4, <1>10 DEF Shape, Fields
  <2>2. From(e, Answered(e))
    BY AnsweredFrom
  <2> QED BY <2>1, <2>2 DEF From
<1> QED BY <1>1, <1>5, <1>7, <1>8, <1>13, <1>14, OneKeeps

LEMMA SignedFrom ==
  ASSUME NEW c, Shape(c), NEW R
  PROVE  From(c, Signed(c, R))
<1>1. PICK x : Signed(c, R) = Answered([c EXCEPT !.out = x])
  BY DEF Signed
<1> DEFINE e == [c EXCEPT !.out = x]
<1>2. e.sent = c.sent /\ e.sid = c.sid
  BY DEF Shape, Fields
<1> HIDE DEF e
<1>3. From(e, Answered(e))
  BY AnsweredFrom
<1>4. Signed(c, R) = Answered(e)
  BY <1>1 DEF e
<1> QED BY <1>2, <1>3, <1>4 DEF From

\* createSession(): the sessions of the mailbox go, and the new one takes their place.
LEMMA ReplaceHolds ==
  ASSUME IInv, ListsInv, NEW r \in Requests, Replace(r)
  PROVE  ListsInv'
<1>1. PICK c : c = req[r]
  OBVIOUS
<1>2. PICK R : R = Replaced(c)
  OBVIOUS
<1>3. c.at = "replace" /\ Destroy(R) /\ Become(r, Signed(c, R)) /\ UNCHANGED <<cookie, parted>>
  BY <1>1, <1>2 DEF Replace, kept
<1>4. Renewed /\ \A s \in Ids : Stored(s)' => s \notin R
  BY <1>3, DestroyDoes DEF IInv
<1>5. PICK T : T = sess'
  OBVIOUS
<1>6. Worn(sess, T) /\ \A s \in Ids : StoredIn(T, s) => StoredIn(sess, s)
  BY <1>4, <1>5, RenewedWears
<1>7. \A s \in Ids : StoredIn(T, s) => s \notin R
  <2>1. \A s \in Ids : StoredIn(T, s) => Stored(s)'
    BY <1>5 DEF StoredIn, Stored, Live
  <2> QED BY <1>4, <2>1
<1>8. Shape(c) /\ ReqOK(c, sess, parted) /\ BaseOK(c, sess, parted)
  BY <1>1, RequestFacts
<1>9. c.sid \in Ids /\ sess[c.sid].of = c.who
  BY <1>3, <1>8 DEF ReqOK, SidOK
<1>10. c.sid \notin Held(c.sent) /\ Held(c.sent) \subseteq Ids
  <2>1. Held(c.sent) \subseteq Mentions(c.sent) /\ Held(c.sent) \subseteq Ids
    BY <1>8, HeldBorn DEF BaseOK, CarriesOK
  <2>2. c.sid # 0
    BY <1>9, Limits DEF Ids
  <2>3. c.sid \notin Mentions(c.sent)
    BY <1>1, <2>2 DEF ListsInv, FreshOK
  <2> QED BY <2>1, <2>3
<1>11. \A s \in Ids : T[s].of = sess[s].of
  BY <1>4, <1>5 DEF Renewed
<1>12. \A s \in Held(c.sent) : s \in R => ~StoredIn(T, s)
  BY <1>7, <1>10
<1>13. \A s \in Held(c.sent) \ R : StoredIn(T, s) => T[s].of # T[c.sid].of
  <2> SUFFICES ASSUME NEW s \in Held(c.sent) \ R, StoredIn(T, s)
               PROVE  T[s].of # T[c.sid].of
    OBVIOUS
  <2>1. s \in Ids /\ StoredIn(sess, s)
    BY <1>6, <1>10
  <2>2. Stored(s)
    BY <2>1 DEF Stored, Live, StoredIn
  <2>3. sess[s].of # c.who
    BY <1>2, <2>2 DEF Replaced
  <2> QED BY <1>9, <1>11, <2>1, <2>3
<1>14. BaseOK(c, T, parted)
  <2>1. ReqOK(c, T, parted)
    BY <1>6, <1>8, ReqStays
  <2> QED BY <2>1 DEF ReqOK
<1>15. ReqOK(Signed(c, R), T, parted)
  BY <1>8, <1>9, <1>10, <1>12, <1>13, <1>14, SignedOK
<1>16. From(c, Signed(c, R))
  BY <1>8, SignedFrom
<1> QED BY <1>1, <1>3, <1>5, <1>6, <1>15, <1>16, OneKeeps

\* A session is opened that nobody has heard of.
LEMMA CreateHolds ==
  ASSUME IInv, IInv', ListsInv, NEW r \in Requests, Create(r)
  PROVE  ListsInv'
<1>1. PICK b : b = req[r]
  OBVIOUS
<1>2. PICK s \in Ids :
        /\ sess[s].life = "unborn"
        /\ LET c == [b EXCEPT !.sid = s]
           IN  /\ sess' = [sess EXCEPT ![s] = [of |-> c.who, life |-> "fresh", since |-> c.since]]
               /\ Become(r, IF ReadIds(c.sent) = <<>> THEN Signed(c, {}) ELSE [c EXCEPT !.at = "replace"])
  BY <1>1 DEF Create
<1>3. PICK c : c = [b EXCEPT !.sid = s]
  OBVIOUS
<1>4. PICK d : d = IF ReadIds(c.sent) = <<>> THEN Signed(c, {}) ELSE [c EXCEPT !.at = "replace"]
  OBVIOUS
<1>5. /\ Become(r, d) /\ b.at = "create" /\ UNCHANGED <<cookie, parted>>
      /\ sess' = [sess EXCEPT ![s] = [of |-> c.who, life |-> "fresh", since |-> c.since]]
  BY <1>1, <1>2, <1>3, <1>4 DEF Create
<1>6. PICK T : T = sess'
  OBVIOUS
<1>7. T[s].of = c.who /\ T[s].life = "fresh" /\ \A t \in Ids \ {s} : T[t] = sess[t]
  <2>1. PICK new : new = [of |-> c.who, life |-> "fresh", since |-> c.since]
    OBVIOUS
  <2>2. new.of = c.who /\ new.life = "fresh"
    BY <2>1
  <2>3. T = [sess EXCEPT ![s] = new] /\ sess \in [Ids -> Session]
    BY <1>5, <1>6, <2>1 DEF IInv, TablesOK
  <2> QED BY <2>2, <2>3
<1>8. Worn(sess, T) /\ \A t \in Ids : StoredIn(T, t) => t = s \/ StoredIn(sess, t)
  BY <1>2, <1>7 DEF Worn, StoredIn
<1>9. Shape(b) /\ ReqOK(b, sess, parted) /\ b.sid = 0
  BY <1>1, <1>5, RequestFacts
<1>10. ReqOK(b, T, parted) /\ BornOK(b, sess)
  BY <1>8, <1>9, ReqStays DEF ReqOK, BaseOK
<1>11. /\ Shape(c) /\ c.sid = s /\ c.sent = b.sent /\ c.list = b.list /\ c.rows = b.rows /\ c.shut = b.shut
       /\ c.out = b.out
  BY <1>3, <1>9 DEF Shape, Fields
<1>12. 0 \notin Ids
  BY Limits DEF Ids
<1>13. BaseOK(c, T, parted)
  <2>1. CarriesOK(b) /\ BornOK(b, T) /\ ListsOK(b, T, parted) /\ RowsOK(b, T, parted)
    BY <1>10 DEF ReqOK, BaseOK
  <2>2. CarriesOK(c)
    <3>1. b.out.ids # Keep => Elements(b.out.ids) \subseteq Held(b.sent) \cup {s}
      BY <1>9, <1>12, <2>1 DEF CarriesOK, Elements
    <3>2. b.out.active \in {None, Keep, s} \cup Mentions(b.sent)
      BY <1>9, <1>12, <2>1 DEF CarriesOK, Shape
    <3> QED BY <1>11, <2>1, <3>1, <3>2 DEF CarriesOK
  <2>3. BornOK(c, T)
    BY <1>7, <1>11, <2>1 DEF BornOK
  <2> QED BY <1>11, <2>1, <2>2, <2>3 DEF BaseOK, ListsOK, RowsOK
<1>14. s \notin Mentions(b.sent)
  BY <1>2, <1>10 DEF BornOK
<1>15. ReqOK(d, T, parted) /\ From(c, d)
  <2>1. CASE ReadIds(c.sent) = <<>>
    <3>1. Held(c.sent) = {}
      BY <2>1, EmptyLists DEF Held
    <3>2. ReqOK(Signed(c, {}), T, parted)
      BY <1>11, <1>13, <3>1, SignedOK
    <3>3. From(c, Signed(c, {}))
      BY <1>11, SignedFrom
    <3> QED BY <1>4, <2>1, <3>2, <3>3
  <2>2. CASE ReadIds(c.sent) # <<>>
    <3>1. Same(c, d) /\ d.at = "replace" /\ d.who = c.who
      BY <1>4, <1>11, <2>2, SameAt
    <3>2. BaseOK(d, T, parted) /\ d.sid = s /\ d.out = c.out
      BY <1>11, <1>13, <3>1, SameBase DEF Same
    <3>3. ReqOK(d, T, parted)
      BY <1>7, <3>1, <3>2 DEF ReqOK, ReadOK, ListOK, OutOK, Opening, SidOK
    <3> QED BY <3>1, <3>3, SameFrom
  <2> QED BY <2>1, <2>2
<1>16. req'[r] = d /\ \A q \in Requests \ {r} : req'[q] = req[q]
  BY <1>5, BecomeDoes DEF IInv
<1>17. d.sid = s /\ Mentions(d.sent) \subseteq Mentions(b.sent)
  BY <1>11, <1>15 DEF From
<1>18. ReqsOK'
  <2>1. \A q \in Requests : ReqOK(req[q], T, parted)
    BY <1>8, RequestShape, ReqStays DEF ListsInv, ReqsOK
  <2>2. \A q \in Requests : ReqOK(req'[q], sess', parted')
    BY <1>5, <1>6, <1>15, <1>16, <2>1
  <2> QED BY <2>2 DEF ReqsOK
<1>19. CookieOK'
  BY <1>5, <1>6, <1>8, CookieStays DEF ListsInv
<1>20. \A q \in Requests : s \notin Mentions(req[q].sent) /\ s # req[q].sid
  <2> TAKE q \in Requests
  <2>1. BornOK(req[q], sess)
    BY DEF ListsInv, ReqsOK, ReqOK, BaseOK
  <2> QED BY <1>2, <2>1 DEF BornOK
<1>21. s \notin Mentions(cookie)
  BY <1>2 DEF ListsInv, CookieOK
<1>22. FreshOK'
  <2> SUFFICES ASSUME NEW p \in Requests, req'[p].sid # 0
               PROVE  /\ req'[p].sid \notin Mentions(cookie')
                      /\ \A q \in Requests : /\ req'[p].sid \notin Mentions(req'[q].sent)
                                             /\ q # p => req'[p].sid # req'[q].sid
    BY DEF FreshOK
  <2>1. \A q \in Requests : Mentions(req'[q].sent) \subseteq Mentions(req[q].sent)
    BY <1>1, <1>16, <1>17
  <2>2. CASE p = r
    BY <1>5, <1>16, <1>17, <1>20, <1>21, <2>1, <2>2
  <2>3. CASE p # r
    <3>1. req'[p].sid = req[p].sid
      BY <1>16, <2>3
    <3>2. /\ req[p].sid \notin Mentions(cookie)
          /\ \A q \in Requests : req[p].sid \notin Mentions(req[q].sent) /\ (q # p => req[p].sid # req[q].sid)
      BY <3>1 DEF ListsInv, FreshOK
    <3> QED BY <1>5, <1>16, <1>17, <1>20, <2>1, <3>1, <3>2
  <2> QED BY <2>2, <2>3
<1>23. HeldOK'
  <2> SUFFICES ASSUME NEW t \in Ids, StoredIn(sess', t)
               PROVE  t \in Remembered(cookie') \cup parted' \/ \E q \in Requests : req'[q].sid = t
    BY DEF HeldOK
  <2>1. CASE t = s
    BY <1>16, <1>17, <2>1
  <2>2. CASE t # s
    <3>1. StoredIn(sess, t)
      BY <1>6, <1>8, <2>2
    <3>2. t \in Remembered(cookie) \cup parted \/ \E q \in Requests : req[q].sid = t
      BY <3>1 DEF ListsInv, HeldOK
    <3>3. Remembered(cookie') = Remembered(cookie) /\ parted' = parted
      BY <1>5
    <3>4. \A q \in Requests : req[q].sid = t => req'[q].sid = t
      BY <1>1, <1>9, <1>12, <1>16
    <3> QED BY <3>2, <3>3, <3>4
  <2> QED BY <2>1, <2>2
<1> QED BY <1>18, <1>19, <1>22, <1>23 DEF ListsInv

\* The cookies as a request reads them: the active session is in the list, or has been parted with.
LEMMA SentLists ==
  ASSUME IInv, ListsInv
  PROVE  LaterOK(ReadIds(cookie), sess, parted)
<1>1. PICK k : k = cookie
  OBVIOUS
<1>2. PICK q : q = ReadIds(k)
  OBVIOUS
<1>3. k.ids \in Seq(Ids) /\ k.active \in Ids \cup {None} /\ LaterOK(k.ids, sess, parted)
  BY <1>1 DEF ListsInv, CookieOK, IInv, TablesOK
<1>4. /\ q \in Seq(Ids)
      /\ \A i \in DOMAIN q : \/ i \in DOMAIN k.ids /\ q[i] = k.ids[i]
                             \/ q[i] = k.active /\ k.active \notin Elements(k.ids) /\ k.active # None
      /\ \A i, j \in DOMAIN q : i < j => i \in DOMAIN k.ids /\ q[i] = k.ids[i]
  BY <1>2, <1>3, ReadIdsDoes
<1>5. k.active \notin Elements(k.ids) /\ k.active # None /\ StoredIn(sess, k.active) => k.active \in parted
  <2> SUFFICES ASSUME k.active \notin Elements(k.ids), k.active # None, StoredIn(sess, k.active)
               PROVE  k.active \in parted
    OBVIOUS
  <2>1. k.active \in Ids /\ k.active \in Mentions(k)
    BY <1>3 DEF Mentions
  <2>2. k.active \notin Remembered(k)
    BY DEF Remembered, Elements
  <2>3. \A r \in Requests : req[r].sid # k.active
    <3>1. k.active # 0
      BY <2>1, Limits DEF Ids
    <3> QED BY <1>1, <2>1, <3>1 DEF ListsInv, FreshOK
  <2> QED BY <1>1, <2>1, <2>2, <2>3 DEF ListsInv, HeldOK
<1>6. LaterOK(q, sess, parted)
  <2> SUFFICES ASSUME NEW i \in DOMAIN q, NEW j \in DOMAIN q, i < j
               PROVE  /\ q[i] # q[j]
                      /\ StoredIn(sess, q[i]) /\ StoredIn(sess, q[j]) /\ sess[q[i]].of = sess[q[j]].of
                         => q[j] \in parted
    BY DEF LaterOK
  <2>1. i \in DOMAIN k.ids /\ q[i] = k.ids[i]
    BY <1>4
  <2>2. CASE j \in DOMAIN k.ids /\ q[j] = k.ids[j]
    BY <1>3, <2>1, <2>2 DEF LaterOK
  <2>3. CASE q[j] = k.active /\ k.active \notin Elements(k.ids) /\ k.active # None
    <3>1. q[i] \in Elements(k.ids)
      BY <1>3, <2>1, PlacesOf
    <3> QED BY <1>5, <2>3, <3>1
  <2> QED BY <1>4, <2>2, <2>3
<1> QED BY <1>1, <1>2, <1>6

\* A request takes the cookies of that moment with it.
LEMMA SendHolds ==
  ASSUME IInv, IInv', ListsInv, NEW r \in Requests, Send(r)
  PROVE  ListsInv'
<1>1. PICK k : k = cookie
  OBVIOUS
<1>2. PICK d : Become(r, d) /\ d.sent = k /\ d.at \in {"session", "find", "list"} /\ Bare(d)
  BY <1>1, SendFits DEF IInv
<1>4. req[r] = Idle /\ UNCHANGED <<sess, cookie, parted>>
  BY DEF Send, kept
<1>5. /\ d.list = <<>> /\ d.rows = {} /\ d.shut = {} /\ d.sid = 0 /\ d.out = Unchanged /\ Idle.sid = 0
  BY <1>2 DEF Bare, Idle
<1>6. d.out.ids = Keep /\ d.out.active = Keep
  BY <1>5 DEF Unchanged
<1>7. req'[r] = d /\ \A q \in Requests \ {r} : req'[q] = req[q]
  BY <1>2, BecomeDoes DEF IInv
<1>8. Same(d, d)
  <2>1. Shape(req'[r])
    BY DEF IInv, RequestsOK, AllOK, StepsOK
  <2> QED BY <1>7, <2>1 DEF Same
<1>9. BaseOK(d, sess, parted)
  <2>1. k.ids \in Seq(Ids) /\ \A s \in Ids : s \in Mentions(k) => sess[s].life # "unborn"
    BY <1>1 DEF ListsInv, CookieOK
  <2>2. 0 \notin Ids
    BY Limits DEF Ids
  <2>3. CarriesOK(d) /\ BornOK(d, sess)
    BY <1>2, <1>5, <1>6, <2>1, <2>2, EmptyLists DEF CarriesOK, BornOK
  <2>4. ListsOK(d, sess, parted) /\ RowsOK(d, sess, parted)
    BY <1>1, <1>2, <1>5, <1>6, SentLists, EmptyLists DEF ListsOK, RowsOK
  <2> QED BY <2>3, <2>4 DEF BaseOK
<1>10. ReqOK(d, sess, parted)
  BY <1>2, <1>5, <1>6, <1>8, <1>9, PlainOK DEF Plain
<1>11. ReqsOK'
  <2>1. \A q \in Requests : ReqOK(req'[q], sess', parted')
    BY <1>4, <1>7, <1>10 DEF ListsInv, ReqsOK
  <2> QED BY <2>1 DEF ReqsOK
<1>12. CookieOK'
  <2>1. Worn(sess, sess')
    BY <1>4 DEF Worn
  <2> QED BY <1>4, <2>1, CookieStays DEF ListsInv
<1>13. FreshOK'
  <2> SUFFICES ASSUME NEW p1 \in Requests, req'[p1].sid # 0
               PROVE  /\ req'[p1].sid \notin Mentions(cookie')
                      /\ \A q \in Requests : /\ req'[p1].sid \notin Mentions(req'[q].sent)
                                             /\ q # p1 => req'[p1].sid # req'[q].sid
    BY DEF FreshOK
  <2>1. p1 # r /\ req'[p1] = req[p1]
    BY <1>5, <1>7
  <2>2. /\ req[p1].sid \notin Mentions(cookie)
        /\ \A q \in Requests : req[p1].sid \notin Mentions(req[q].sent) /\ (q # p1 => req[p1].sid # req[q].sid)
    BY <2>1 DEF ListsInv, FreshOK
  <2> QED BY <1>1, <1>2, <1>4, <1>5, <1>7, <2>1, <2>2
<1>14. HeldOK'
  <2> SUFFICES ASSUME NEW s \in Ids, StoredIn(sess', s)
               PROVE  s \in Remembered(cookie') \cup parted' \/ \E q \in Requests : req'[q].sid = s
    BY DEF HeldOK
  <2>1. s \in Remembered(cookie) \cup parted \/ \E q \in Requests : req[q].sid = s
    BY <1>4 DEF ListsInv, HeldOK
  <2>2. Remembered(cookie') = Remembered(cookie) /\ parted' = parted
    BY <1>4
  <2>3. \A q \in Requests : req'[q].sid = req[q].sid
    BY <1>4, <1>5, <1>7
  <2> QED BY <2>1, <2>2, <2>3
<1> QED BY <1>11, <1>12, <1>13, <1>14 DEF ListsInv

\* The browser takes the cookies of an answer; what it loses by that is noted.
LEMMA RespondHolds ==
  ASSUME IInv, ListsInv, NEW r \in Requests, Respond(r)
  PROVE  ListsInv'
<1>1. PICK c : c = req[r]
  OBVIOUS
<1>2. PICK k : k = Taken(c.out)
  OBVIOUS
<1>3. PICK Q : Q = parted'
  OBVIOUS
<1> DEFINE dropped == (Remembered(cookie) \cup (Ids \cap {c.sid})) \ Remembered(k)
<1>4. /\ c.at = "answer" /\ cookie' = k /\ Become(r, Idle) /\ UNCHANGED sess
      /\ Q = parted \cup {s \in dropped : Stored(s) /\ Excused(c, s)}
  BY <1>1, <1>2, <1>3 DEF Respond
<1>5. /\ Shape(c) /\ ReqOK(c, sess, parted) /\ BornOK(c, sess)
      /\ CarriesOK(c) /\ ListsOK(c, sess, parted)
  BY <1>1, RequestFacts DEF BaseOK
<1>6. k.active = IF c.out.active = Keep THEN cookie.active ELSE c.out.active
  BY <1>2 DEF Taken
<1>7. k.ids = IF c.out.ids = Keep THEN cookie.ids ELSE c.out.ids
  BY <1>2 DEF Taken
<1>8. Idle.sid = 0 /\ Mentions(Idle.sent) = {}
  BY EmptyLists DEF Idle
<1>9. req'[r] = Idle /\ \A q \in Requests \ {r} : req'[q] = req[q]
  BY <1>4, BecomeDoes DEF IInv
<1>10. Worn(sess, sess) /\ parted \subseteq Q
  BY <1>4 DEF Worn
<1>11. ReqsOK'
  <2>1. \A q \in Requests : ReqOK(req[q], sess, Q)
    BY <1>10, RequestShape, ReqStays DEF ListsInv, ReqsOK
  <2>2. ReqOK(Idle, sess, Q)
    BY IdleOK
  <2>3. \A q \in Requests : ReqOK(req'[q], sess', parted')
    BY <1>3, <1>4, <1>9, <2>1, <2>2
  <2> QED BY <2>3 DEF ReqsOK
<1>12. Mentions(k) \subseteq Mentions(cookie) \cup Mentions(c.sent) \cup {c.sid}
  <2>1. c.out.ids # Keep => Elements(c.out.ids) \subseteq Mentions(c.sent) \cup {c.sid}
    BY <1>5, HeldBorn DEF CarriesOK
  <2>2. Elements(k.ids) \subseteq Mentions(cookie) \cup Mentions(c.sent) \cup {c.sid}
    BY <1>7, <2>1 DEF Mentions
  <2>3. k.active # None => k.active \in Mentions(cookie) \cup Mentions(c.sent) \cup {c.sid}
    <3>1. CASE c.out.active = Keep
      BY <1>6, <3>1 DEF Mentions
    <3>2. CASE c.out.active # Keep
      BY <1>5, <1>6, <3>2 DEF CarriesOK
    <3> QED BY <3>1, <3>2
  <2> QED BY <2>2, <2>3 DEF Mentions
<1>13. CookieOK'
  <2>1. k.ids \in Seq(Ids) /\ LaterOK(k.ids, sess, parted)
    BY <1>5, <1>7 DEF CarriesOK, ListsOK, ListsInv, CookieOK
  <2>2. \A s \in Ids : s \in Mentions(k) => sess[s].life # "unborn"
    BY <1>5, <1>12 DEF ListsInv, CookieOK, BornOK
  <2>3. LaterOK(k.ids, sess, Q)
    BY <1>10, <2>1 DEF LaterOK
  <2>4. cookie'.ids \in Seq(Ids) /\ LaterOK(cookie'.ids, sess', parted')
    BY <1>3, <1>4, <2>1, <2>3
  <2>5. \A s \in Ids : s \in Mentions(cookie') => sess'[s].life # "unborn"
    BY <1>4, <2>2
  <2> QED BY <2>4, <2>5 DEF CookieOK
<1>14. FreshOK'
  <2> SUFFICES ASSUME NEW p \in Requests, req'[p].sid # 0
               PROVE  /\ req'[p].sid \notin Mentions(cookie')
                      /\ \A q \in Requests : /\ req'[p].sid \notin Mentions(req'[q].sent)
                                             /\ q # p => req'[p].sid # req'[q].sid
    BY DEF FreshOK
  <2>1. p # r /\ req'[p] = req[p]
    BY <1>8, <1>9
  <2>2. /\ req[p].sid \notin Mentions(cookie)
        /\ \A q \in Requests : req[p].sid \notin Mentions(req[q].sent) /\ (q # p => req[p].sid # req[q].sid)
    BY <2>1 DEF ListsInv, FreshOK
  <2>3. req[p].sid \notin Mentions(c.sent) /\ req[p].sid # c.sid
    BY <1>1, <2>1, <2>2
  <2>4. req'[p].sid \notin Mentions(cookie')
    BY <1>4, <1>12, <2>1, <2>2, <2>3
  <2>5. \A q \in Requests : req'[p].sid \notin Mentions(req'[q].sent) /\ (q # p => req'[p].sid # req'[q].sid)
    BY <1>8, <1>9, <2>1, <2>2
  <2> QED BY <2>4, <2>5
<1>15. HeldOK'
  <2> SUFFICES ASSUME NEW s \in Ids, StoredIn(sess, s), s \notin Remembered(k), s \notin parted,
                      s \in Remembered(cookie) \/ s = c.sid
               PROVE  s \in Q
    <3>1. \A s \in Ids : StoredIn(sess, s) => \/ s \in Remembered(cookie) \cup parted \/ s = c.sid
                                              \/ \E q \in Requests \ {r} : req[q].sid = s
      BY <1>1 DEF ListsInv, HeldOK
    <3>2. \A s \in Ids : StoredIn(sess, s) => \/ s \in Remembered(k) \cup Q
                                              \/ \E q \in Requests \ {r} : req[q].sid = s
      BY <1>10, <3>1
    <3>3. \A s \in Ids : StoredIn(sess', s) =>
            s \in Remembered(cookie') \cup parted' \/ \E q \in Requests : req'[q].sid = s
      BY <1>3, <1>4, <1>9, <3>2
    <3> QED BY <3>3 DEF HeldOK
  <2>1. s \in dropped /\ Stored(s)
    BY DEF StoredIn, Stored, Live
  <2>2. Excused(c, s)
    <3>1. CASE c.sent # cookie
      BY <3>1 DEF Excused
    <3>2. CASE c.sent = cookie /\ s = c.sid
      <4>1. s # 0
        BY Limits DEF Ids
      <4>2. c.out.ids # Keep /\ s \in Elements(c.out.ids)
        BY <1>4, <1>5, <3>2, <4>1 DEF ReqOK, SidOK
      <4>3. s \in Elements(k.ids)
        BY <1>7, <4>2
      <4> QED BY <1>2, <4>3 DEF Excused
    <3>3. CASE c.sent = cookie /\ s \in Remembered(cookie)
      <4>1. c.out.ids # Keep
        <5>1. c.out.ids = Keep => Remembered(k) = Remembered(cookie)
          BY <1>7 DEF Remembered
        <5> QED BY <3>3, <5>1
      <4>2. Covers(c, Elements(c.out.ids), sess, parted)
        BY <1>4, <1>5, <4>1 DEF ReqOK, OutOK, Opening
      <4>3. s \in Held(c.sent)
        <5>1. Remembered(c.sent) \subseteq Held(c.sent)
          BY <1>5, ReadIdsDoes DEF CarriesOK, Shape
        <5> QED BY <3>3, <5>1
      <4>4. s \in Elements(c.out.ids) \cup c.shut
        BY <4>2, <4>3 DEF Covers
      <4> QED BY <1>2, <1>7, <4>1, <4>4 DEF Excused
    <3> QED BY <3>1, <3>2, <3>3
  <2> QED BY <1>4, <2>1, <2>2
<1> QED BY <1>11, <1>13, <1>14, <1>15 DEF ListsInv

\* The connection breaks, and with it goes the session that was opened.
LEMMA LostHolds ==
  ASSUME IInv, ListsInv, NEW r \in Requests, ResponseLost(r)
  PROVE  ListsInv'
<1>1. PICK c : c = req[r]
  OBVIOUS
<1>2. Become(r, Idle) /\ UNCHANGED <<sess, cookie>> /\ parted' = parted \cup (Ids \cap {c.sid})
  BY <1>1 DEF ResponseLost
<1>3. req'[r] = Idle /\ \A q \in Requests \ {r} : req'[q] = req[q]
  BY <1>2, BecomeDoes DEF IInv
<1>4. Idle.sid = 0 /\ Mentions(Idle.sent) = {}
  BY EmptyLists DEF Idle
<1>5. Worn(sess, sess) /\ parted \subseteq parted'
  BY <1>2 DEF Worn
<1>6. ReqsOK'
  <2>1. PICK Q : Q = parted'
    OBVIOUS
  <2>2. \A q \in Requests : ReqOK(req[q], sess, Q)
    BY <1>5, <2>1, RequestShape, ReqStays DEF ListsInv, ReqsOK
  <2>3. ReqOK(Idle, sess, Q)
    BY IdleOK
  <2>4. \A q \in Requests : ReqOK(req'[q], sess', parted')
    BY <1>2, <1>3, <2>1, <2>2, <2>3
  <2> QED BY <2>4 DEF ReqsOK
<1>7. CookieOK'
  BY <1>2, <1>5, CookieStays DEF ListsInv
<1>8. FreshOK'
  <2> SUFFICES ASSUME NEW p \in Requests, req'[p].sid # 0
               PROVE  /\ req'[p].sid \notin Mentions(cookie')
                      /\ \A q \in Requests : /\ req'[p].sid \notin Mentions(req'[q].sent)
                                             /\ q # p => req'[p].sid # req'[q].sid
    BY DEF FreshOK
  <2>1. p # r /\ req'[p] = req[p]
    BY <1>3, <1>4
  <2>2. /\ req[p].sid \notin Mentions(cookie)
        /\ \A q \in Requests : req[p].sid \notin Mentions(req[q].sent) /\ (q # p => req[p].sid # req[q].sid)
    BY <2>1 DEF ListsInv, FreshOK
  <2> QED BY <1>2, <1>3, <1>4, <2>1, <2>2
<1>9. HeldOK'
  <2> SUFFICES ASSUME NEW s \in Ids, StoredIn(sess', s)
               PROVE  s \in Remembered(cookie') \cup parted' \/ \E q \in Requests : req'[q].sid = s
    BY DEF HeldOK
  <2>1. s \in Remembered(cookie) \cup parted \/ \E q \in Requests : req[q].sid = s
    BY <1>2 DEF ListsInv, HeldOK
  <2>2. Remembered(cookie') = Remembered(cookie)
    BY <1>2
  <2>3. \A q \in Requests : req[q].sid = s => s \in parted' \/ req'[q].sid = s
    BY <1>1, <1>2, <1>3
  <2> QED BY <1>5, <2>1, <2>2, <2>3
<1> QED BY <1>6, <1>7, <1>8, <1>9 DEF ListsInv

\* Steps of others: sessions end or grow old, and requests lose a mark.
LEMMA OthersHold ==
  ASSUME IInv, ListsInv,
         \/ \E m \in Mailboxes : AdminPassword(m) \/ CliPasswd(m) \/ SetMailbox(m)
         \/ CliSweep \/ Revoke \/ SetDomain \/ CacheExpires \/ PurgeExpired
         \/ \E s \in Ids : Ages(s)
         \/ UNCHANGED vars
  PROVE  ListsInv'
<1>1. UNCHANGED <<cookie, parted>>
  BY DEF AdminPassword, CliPasswd, SetMailbox, CliSweep, Revoke, SetDomain, CacheExpires, PurgeExpired, Ages,
         vars, kept
<1>2. Renewed
  <2>1. CASE CliSweep \/ Revoke \/ PurgeExpired
    <3>1. \E X : Destroy(X)
      BY <2>1 DEF CliSweep, Revoke, PurgeExpired
    <3> QED BY <3>1, DestroyDoes DEF IInv
  <2>2. CASE \E s \in Ids : Ages(s)
    BY <2>2, AgesDoes DEF IInv
  <2>3. CASE \/ \E m \in Mailboxes : AdminPassword(m) \/ CliPasswd(m) \/ SetMailbox(m)
             \/ SetDomain \/ CacheExpires \/ UNCHANGED vars
    <3>1. UNCHANGED sess
      BY <2>3 DEF AdminPassword, CliPasswd, SetMailbox, SetDomain, CacheExpires, vars
    <3> QED BY <3>1, SameSessions DEF IInv
  <2> QED BY <2>1, <2>2, <2>3
<1>3. Worn(sess, sess') /\ \A s \in Ids : StoredIn(sess', s) => StoredIn(sess, s)
  BY <1>2, RenewedWears
<1>4. UNCHANGED req \/ \E C : req' = Unbarred(C)
  BY DEF AdminPassword, CliPasswd, SetMailbox, CliSweep, Revoke, SetDomain, CacheExpires, PurgeExpired, Ages, vars
<1>5. ASSUME NEW q \in Requests
      PROVE  Same(req[q], req'[q]) /\ req'[q].at = req[q].at /\ req'[q].who = req[q].who
  <2>1. PICK c : c = req[q]
    OBVIOUS
  <2>2. PICK d : d = req'[q]
    OBVIOUS
  <2>3. Shape(c)
    BY <2>1, RequestShape
  <2>4. d = c \/ d = [c EXCEPT !.marks = @ \ {"barred"}]
    BY <1>4, <2>1, <2>2 DEF Unbarred
  <2>5. Same(c, d) /\ d.at = c.at /\ d.who = c.who
    <3>1. CASE d = c
      BY <2>3, <3>1 DEF Same
    <3>2. CASE d = [c EXCEPT !.marks = @ \ {"barred"}]
      BY <2>3, <3>2, SameOthers
    <3> QED BY <2>4, <3>1, <3>2
  <2> QED BY <2>1, <2>2, <2>5
<1>6. \A q \in Requests : ReqOK(req'[q], sess', parted') /\ From(req[q], req'[q])
  <2> TAKE q \in Requests
  <2>1. PICK c : c = req[q]
    OBVIOUS
  <2>2. PICK d : d = req'[q]
    OBVIOUS
  <2>3. PICK T : T = sess'
    OBVIOUS
  <2>4. Same(c, d) /\ d.at = c.at /\ d.who = c.who
    BY <1>5, <2>1, <2>2
  <2>5. ReqOK(c, T, parted)
    BY <1>3, <2>1, <2>3, RequestShape, ReqStays DEF ListsInv, ReqsOK
  <2>6. BaseOK(d, T, parted)
    BY <2>4, <2>5, SameBase DEF ReqOK
  <2>7. \A X, P : Covers(c, X, T, P) => Covers(d, X, T, P)
    BY <2>4, SameCovers
  <2>8. d.list = c.list /\ d.rows = c.rows /\ d.out = c.out /\ d.sid = c.sid
    BY <2>4 DEF Same
  <2>9. ReadOK(d, T) /\ ListOK(d, T, parted) /\ OutOK(d, T, parted) /\ SidOK(d, T)
    BY <2>4, <2>5, <2>7, <2>8 DEF ReqOK, ReadOK, ListOK, OutOK, SidOK
  <2> QED BY <1>1, <2>1, <2>2, <2>3, <2>4, <2>6, <2>9, SameFrom DEF ReqOK
<1> QED BY <1>1, <1>3, <1>6, AllKeep

LEMMA InitHolds ==
  ASSUME Init
  PROVE  ListsInv
<1> USE DEF Init
<1>1. \A r \in Requests : req[r] = Idle
  OBVIOUS
<1>2. Idle.sid = 0 /\ NoCookie.ids = <<>>
  BY DEF Idle, NoCookie
<1>3. ReqsOK
  BY <1>1, IdleOK DEF ReqsOK
<1>4. CookieOK
  BY <1>2, EmptyLists DEF CookieOK
<1>5. FreshOK
  BY <1>1, <1>2 DEF FreshOK
<1>6. HeldOK
  <2>1. \A s \in Ids : sess[s].life = "unborn"
    OBVIOUS
  <2> QED BY <2>1 DEF HeldOK, StoredIn
<1> QED BY <1>3, <1>4, <1>5, <1>6 DEF ListsInv

LEMMA NextHolds ==
  ASSUME IInv, ListsInv, [Next]_vars
  PROVE  ListsInv'
<1>1. IInv'
  BY NextKeeps
<1>2. ASSUME NEW r \in Requests, Step(r) PROVE ListsInv'
  <2>1. CASE Quiet(r)
    BY <1>1, <2>1, QuietHolds
  <2>2. CASE Send(r) \/ Respond(r) \/ ResponseLost(r)
    BY <1>1, <2>2, SendHolds, RespondHolds, LostHolds
  <2>3. CASE SavePassword(r) \/ SignOut(r)
    BY <1>1, <2>3, SaveHolds, SignOutHolds
  <2>4. CASE Create(r) \/ Replace(r)
    BY <1>1, <2>4, CreateHolds, ReplaceHolds
  <2> QED BY <1>2, <2>1, <2>2, <2>3, <2>4 DEF Step, Quiet
<1>3. CASE \/ \E m \in Mailboxes : AdminPassword(m) \/ CliPasswd(m) \/ SetMailbox(m)
           \/ CliSweep \/ Revoke \/ SetDomain \/ CacheExpires \/ PurgeExpired
           \/ \E s \in Ids : Ages(s)
           \/ UNCHANGED vars
  BY <1>3, OthersHold
<1> QED BY <1>2, <1>3 DEF Next

\* The lists of the cookies and of every request stay as readIds, resolve and createSession leave them,
\* whatever overlaps: nobody is in one twice, and what is still stored is in it, barred, or parted with.
THEOREM ListsInductive == Spec => []ListsInv
<1>1. Init => ListsInv
  BY InitHolds
<1>2. IInv /\ ListsInv /\ [Next]_vars => ListsInv'
  BY NextHolds
<1> QED BY <1>1, <1>2, Inductive, PTL DEF Spec

\* A live session that the browser does not know of was taken from it by responses that overlapped or
\* broke off, by the limit on the cookie (MAX_COOKIE_IDS), or by a bar on its mailbox.
THEOREM BrowserKnows == Spec => []SessionsAreHeld
<1>1. ListsInv => SessionsAreHeld
  BY DEF ListsInv, HeldOK, SessionsAreHeld, Live, StoredIn
<1> QED BY <1>1, ListsInductive, PTL

=============================================================================
