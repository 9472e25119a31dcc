----------------------------- MODULE BansProofs -----------------------------
(***************************************************************************)
(* Proofs about Bans, for any addresses, names, thresholds and numbers of  *)
(* attempts, administrators and rows.                                      *)
(***************************************************************************)
EXTENDS Bans, FiniteSetTheorems, TLAPS

EventRow == [failed : SUBSET Names, count : Nat, ghosts : Nat, good : SUBSET Names, trusted : BOOLEAN]
Steps == {"idle", "ask", "asking", "write", "evaluate", "allow", "allowed", "recheck", "rechecking", "stats",
          "netallow", "netallowed", "netstats", "cover", "count", "insert"}
CallRow == [at : Steps, via : {"web", "dovecot"}, addr : Addrs \cup {None}, name : Names \cup {None},
            ok : BOOLEAN, list : SUBSET Addrs, drift : SUBSET Addrs, ghosts : Nat,
            target : Networks \cup {None}, previous : Nat, from : Nat]
Load == [asked : BOOLEAN, list : SUBSET Networks]

TypeInv ==
  /\ bans \in Seq(Row)
  /\ events \in [Addrs -> EventRow] /\ \A a \in Addrs : IsFiniteSet(events[a].failed)
  /\ allow \in SUBSET Addrs
  /\ banCache \in (SUBSET Networks) \cup {None} /\ allowCache \in (SUBSET Addrs) \cup {None}
  /\ banLoad \in Load \cup {None} /\ allowDrift \in SUBSET Addrs
  /\ call \in [Calls -> CallRow]
  /\ order \in [Admins -> [net : Networks, by : {"app", "cli"}] \cup {None}]

\* A list of banned networks has only networks that were banned once; B is the table of bans.
Once(list, B) == \A n \in list : \E i \in DOMAIN B : B[i].net = n
ListsInv == /\ banCache # None => Once(banCache, bans)
            /\ banLoad # None => Once(banLoad.list, bans)

\* An allowlist in the cache lacks only what it is known to lack.
AllowInv == allowCache # None => allow \ allowCache \subseteq allowDrift

Banning == {"cover", "count", "insert"}
Nearby == {"netallow", "netallowed", "netstats"}
Evaluating == {"evaluate", "allow", "allowed", "recheck", "rechecking", "stats"}

\* Whoever is about to ban found no active ban that covers the target; rows after `from` came since.
CoverOK(c, B) ==
  /\ c.at # "idle" => c.addr \in Addrs
  /\ c.at \in {"ask", "asking", "write"} => c.name \in Names
  /\ c.at \in Banning => c.target \in Networks /\ Covers(c.target, c.addr)
  /\ c.at \in {"count", "insert"} =>
       c.from <= Len(B) /\ \A i \in DOMAIN B : B[i].active /\ i <= c.from => ~CoversNet(B[i].net, c.target)

\* What an evaluation that has looked may ban is not on the allowlist A, or it is known not to have seen it.
SpareOK(c, A) ==
  /\ c.at \in {"recheck", "rechecking", "stats", "netallow", "netallowed"} /\ c.addr \in A => c.addr \in c.drift
  /\ c.at = "netstats" => A \subseteq c.drift
  /\ c.at \in Banning => \A a \in A : Covers(c.target, a) => a \in c.drift

CallOK(c, B, A) == CoverOK(c, B) /\ SpareOK(c, A)
CallsInv == \A p \in Calls : CallOK(call[p], bans, allow)

\* Attempt c is to see to it that a is banned, if it is guilty.
Answers(c, a) == c.addr = a /\ (c.at \in Evaluating \cup Banning \/ (c.at \in Nearby /\ c.ghosts >= Unknown))
Met(a, B) == \E i \in DOMAIN B : Covers(B[i].net, a)
GuiltInv == \A a \in Addrs : Guilty(events[a]) =>
              (\E p \in Calls : Answers(call[p], a)) \/ Met(a, bans) \/ a \in passed

IInv == TypeInv /\ ListsInv /\ AllowInv /\ CallsInv /\ GuiltInv /\ CacheWrongOnlyByRace /\ DoubledOnlyByRace

-----------------------------------------------------------------------------
(* Rows are added and lifted, never removed.                                *)

\* What a change of the table of bans keeps.
Grown ==
  /\ bans' \in Seq(Row) /\ Len(bans) <= Len(bans')
  /\ \A i \in 1..Len(bans) : /\ bans'[i].net = bans[i].net /\ bans'[i].source = bans[i].source
                             /\ bans'[i].from = bans[i].from
                             /\ bans'[i].active => bans[i].active

LEMMA RowsAre ==
  ASSUME TypeInv
  PROVE  /\ Len(bans) \in Nat /\ DOMAIN bans = 1..Len(bans) /\ bans \in [1..Len(bans) -> Row]
         /\ \A i \in 1..Len(bans) : bans[i] \in Row
BY DEF TypeInv

LEMMA SameRows ==
  ASSUME TypeInv, UNCHANGED bans
  PROVE  Grown
<1>1. Len(bans) \in Nat
  BY RowsAre
<1> QED BY <1>1 DEF Grown, TypeInv

LEMMA LiftDoes ==
  ASSUME TypeInv, NEW X, bans' = Lift(X)
  PROVE  /\ Grown /\ Len(bans') = Len(bans)
         /\ \A i \in 1..Len(bans) : bans'[i].active <=> bans[i].active /\ i \notin X
<1> DEFINE n == Len(bans)
           row(i) == [bans[i] EXCEPT !.active = @ /\ i \notin X]
<1>1. n \in Nat /\ DOMAIN bans = 1..n /\ \A i \in 1..n : bans[i] \in Row
  BY RowsAre
<1>2. bans' = [i \in 1..n |-> row(i)]
  BY <1>1 DEF Lift, Rows
<1>3. ASSUME NEW i \in 1..n
      PROVE  /\ row(i) \in Row /\ row(i).net = bans[i].net /\ row(i).source = bans[i].source
             /\ row(i).from = bans[i].from
             /\ row(i).active <=> bans[i].active /\ i \notin X
  <2>1. bans[i] \in Row
    BY <1>1
  <2>2. PICK b \in BOOLEAN : row(i) = [bans[i] EXCEPT !.active = b] /\ (b <=> bans[i].active /\ i \notin X)
    <3> WITNESS (bans[i].active /\ i \notin X) \in BOOLEAN
    <3> QED BY <2>1 DEF Row
  <2> HIDE DEF row
  <2> QED BY <2>1, <2>2 DEF Row
<1> HIDE DEF n, row
<1>4. bans' \in [1..n -> Row]
  BY <1>2, <1>3
<1>5. bans' \in Seq(Row) /\ Len(bans') = n
  BY <1>1, <1>4
<1>6. \A i \in 1..n : bans'[i] = row(i)
  BY <1>2
<1>7. \A i \in 1..n : bans'[i].active <=> bans[i].active /\ i \notin X
  BY <1>3, <1>6, Zenon
<1>8. \A i \in 1..n : bans'[i].net = bans[i].net /\ bans'[i].source = bans[i].source /\ bans'[i].from = bans[i].from
  BY <1>3, <1>6, Zenon
<1>9. n <= n
  BY <1>1
<1> QED BY <1>5, <1>7, <1>8, <1>9, Zenon DEF Grown, n

LEMMA AppendDoes ==
  ASSUME TypeInv, NEW b \in Row, bans' = Append(bans, b)
  PROVE  /\ Grown /\ Len(bans') = Len(bans) + 1 /\ bans'[Len(bans) + 1] = b
         /\ \A i \in 1..Len(bans) : bans'[i] = bans[i]
<1>1. Len(bans) \in Nat
  BY RowsAre
<1>2. /\ bans' \in Seq(Row) /\ Len(bans') = Len(bans) + 1 /\ bans'[Len(bans) + 1] = b
      /\ \A i \in 1..Len(bans) : bans'[i] = bans[i]
  BY DEF TypeInv
<1> QED BY <1>1, <1>2 DEF Grown

\* A network once banned was banned for good; nor does a ban that nobody has yet meet become one.
LEMMA GrownKeeps ==
  ASSUME TypeInv, Grown
  PROVE  /\ \A list : Once(list, bans) => Once(list, bans')
         /\ \A a : Met(a, bans) => Met(a, bans')
         /\ \A c : CoverOK(c, bans) /\ c.from \in Nat => CoverOK(c, bans')
<1>1. /\ Len(bans) \in Nat /\ DOMAIN bans = 1..Len(bans)
      /\ Len(bans') \in Nat /\ DOMAIN bans' = 1..Len(bans')
  BY RowsAre DEF Grown
<1>2. \A i \in DOMAIN bans : i \in DOMAIN bans' /\ bans'[i].net = bans[i].net
  BY <1>1 DEF Grown
<1>3. ASSUME NEW c, CoverOK(c, bans), c.from \in Nat PROVE CoverOK(c, bans')
  <2> SUFFICES ASSUME c.at \in {"count", "insert"}
               PROVE  /\ c.from <= Len(bans')
                      /\ \A i \in DOMAIN bans' :
                           bans'[i].active /\ i <= c.from => ~CoversNet(bans'[i].net, c.target)
    BY <1>3 DEF CoverOK
  <2>1. c.from <= Len(bans) /\ \A i \in DOMAIN bans : bans[i].active /\ i <= c.from => ~CoversNet(bans[i].net, c.target)
    BY <1>3 DEF CoverOK
  <2>2. c.from <= Len(bans')
    BY <1>1, <1>3, <2>1 DEF Grown
  <2>3. ASSUME NEW i \in DOMAIN bans', bans'[i].active, i <= c.from PROVE ~CoversNet(bans'[i].net, c.target)
    <3>1. i \in 1..Len(bans)
      BY <1>1, <1>3, <2>1, <2>3
    <3>2. bans[i].active
      BY <2>3, <3>1, Zenon DEF Grown
    <3>3. bans'[i].net = bans[i].net /\ i \in DOMAIN bans
      BY <1>1, <3>1 DEF Grown
    <3> QED BY <2>1, <2>3, <3>2, <3>3, Zenon
  <2> QED BY <2>2, <2>3
<1>4. \A list : Once(list, bans) => Once(list, bans')
  BY <1>2 DEF Once
<1>5. \A a : Met(a, bans) => Met(a, bans')
  BY <1>2 DEF Met
<1> QED BY <1>3, <1>4, <1>5

-----------------------------------------------------------------------------
(* An attempt moves on.                                                     *)

\* d is a record of the same attempt; what it is to ban, it may have learned.
Kept(c, d) == /\ d \in CallRow /\ d.addr = c.addr /\ d.name = c.name /\ d.ghosts = c.ghosts
              /\ d.drift = c.drift /\ d.target = c.target /\ d.from = c.from

LEMMA IdleIs == Idle \in CallRow /\ Idle.at = "idle"
BY DEF Idle, CallRow, Steps

LEMMA KeptAt ==
  ASSUME NEW c \in CallRow, NEW v \in Steps, NEW d, d = [c EXCEPT !.at = v]
  PROVE  Kept(c, d) /\ d.at = v
BY DEF CallRow, Kept

\* From c, who is to see to a ban, d goes on to see to it, or somebody was banned or passed over.
Onward(c, d) ==
  /\ d \in CallRow /\ CallOK(d, bans', allow')
  /\ \A a \in Addrs : Guilty(events[a]) /\ Answers(c, a) => Answers(d, a) \/ Met(a, bans') \/ a \in passed'

\* What a step of attempts makes of the invariant.
Moved == call' \in [Calls -> CallRow] /\ CallsInv' /\ GuiltInv'

LEMMA MoveAll ==
  ASSUME TypeInv, GuiltInv, Grown,
         call' = [q \in Calls |-> call'[q]], \A q \in Calls : Onward(call[q], call'[q]),
         \A a \in Addrs : a \in passed => a \in passed' \/ \E q \in Calls : Answers(call'[q], a),
         \A a \in Addrs : Guilty(events'[a]) =>
           Guilty(events[a]) \/ a \in passed' \/ \E q \in Calls : Answers(call'[q], a)
  PROVE  Moved
<1>1. \A q \in Calls : call'[q] \in CallRow /\ CallOK(call'[q], bans', allow')
  BY DEF Onward
<1>2. GuiltInv'
  <2> SUFFICES ASSUME NEW a \in Addrs, Guilty(events'[a])
               PROVE  (\E q \in Calls : Answers(call'[q], a)) \/ Met(a, bans') \/ a \in passed'
    BY DEF GuiltInv
  <2>1. CASE a \in passed' \/ \E q \in Calls : Answers(call'[q], a)
    BY <2>1
  <2>2. CASE Guilty(events[a])
    <3>1. Met(a, bans) => Met(a, bans')
      BY GrownKeeps
    <3>2. (\E q \in Calls : Answers(call[q], a)) \/ Met(a, bans) \/ a \in passed
      BY <2>2 DEF GuiltInv
    <3>3. ASSUME NEW q \in Calls, Answers(call[q], a)
          PROVE  Answers(call'[q], a) \/ Met(a, bans') \/ a \in passed'
      BY <2>2, <3>3 DEF Onward
    <3>4. a \in passed => a \in passed' \/ \E q \in Calls : Answers(call'[q], a)
      OBVIOUS
    <3> QED BY <3>1, <3>2, <3>3, <3>4
  <2> QED BY <2>1, <2>2
<1> QED BY <1>1, <1>2 DEF Moved, CallsInv

LEMMA Stays ==
  ASSUME TypeInv, CallsInv, Grown, UNCHANGED allow, NEW q \in Calls
  PROVE  Onward(call[q], call[q])
<1>1. call[q] \in CallRow /\ CallOK(call[q], bans, allow)
  BY DEF TypeInv, CallsInv
<1>2. call[q].from \in Nat
  BY <1>1 DEF CallRow
<1>3. CoverOK(call[q], bans')
  BY <1>1, <1>2, GrownKeeps DEF CallOK
<1> QED BY <1>1, <1>3 DEF Onward, CallOK

\* One attempt moves on, and the others stay.
LEMMA MoveOne ==
  ASSUME TypeInv, CallsInv, GuiltInv, Grown, UNCHANGED allow,
         NEW p \in Calls, NEW d, call' = [call EXCEPT ![p] = d], Onward(call[p], d),
         \A a \in Addrs : a \in passed => a \in passed' \/ Answers(d, a),
         \A a \in Addrs : Guilty(events'[a]) => Guilty(events[a]) \/ Answers(d, a)
  PROVE  Moved
<1>1. call \in [Calls -> CallRow]
  BY DEF TypeInv
<1>2. call' = [q \in Calls |-> call'[q]] /\ call'[p] = d /\ \A q \in Calls \ {p} : call'[q] = call[q]
  BY <1>1
<1>3. \A q \in Calls : Onward(call[q], call'[q])
  BY <1>2, Stays
<1>4. \A a \in Addrs : a \in passed => a \in passed' \/ \E q \in Calls : Answers(call'[q], a)
  BY <1>2
<1>5. \A a \in Addrs : Guilty(events'[a]) => Guilty(events[a]) \/ \E q \in Calls : Answers(call'[q], a)
  BY <1>2
<1> QED BY <1>2, <1>3, <1>4, <1>5, MoveAll

\* An attempt that is over leaves nobody guilty behind.
LEMMA Over ==
  ASSUME NEW c, \A a \in Addrs : Guilty(events[a]) /\ Answers(c, a) => Met(a, bans') \/ a \in passed'
  PROVE  Onward(c, Idle)
<1>1. CallOK(Idle, bans', allow')
  BY IdleIs DEF CallOK, CoverOK, SpareOK, Banning
<1> QED BY <1>1, IdleIs DEF Onward

\* Nothing happens to the table.
LEMMA SameCalls ==
  ASSUME TypeInv, CallsInv, GuiltInv, Grown, UNCHANGED <<allow, call>>, passed \subseteq passed',
         \A a \in Addrs : Guilty(events'[a]) => Guilty(events[a]) \/ a \in passed'
  PROVE  Moved
<1>1. call' = [q \in Calls |-> call'[q]]
  BY DEF TypeInv
<1>2. \A q \in Calls : Onward(call[q], call'[q])
  BY Stays
<1> QED BY <1>1, <1>2, MoveAll

-----------------------------------------------------------------------------
(* The steps of an attempt, up to its evaluation.                           *)

Inv == TypeInv /\ ListsInv /\ AllowInv /\ CallsInv /\ GuiltInv

LEMMA CallIs ==
  ASSUME Inv, NEW p \in Calls
  PROVE  call[p] \in CallRow /\ CallOK(call[p], bans, allow) /\ call[p].from \in Nat
BY DEF Inv, TypeInv, CallsInv, CallRow

\* What the list of bans answers: whoever is on it was banned.
LEMMA AnsweredMoves ==
  ASSUME Inv, UNCHANGED <<bans, allow, passed>>, NEW p \in Calls, NEW list, Once(list, bans),
         call[p].at \in {"ask", "asking", "recheck", "rechecking"}
  PROVE  Onward(call[p], Answered(call[p], list))
<1> DEFINE c == call[p]
           d == Answered(c, list)
           w == [c EXCEPT !.at = "write"]
           s == [c EXCEPT !.at = "stats"]
<1>1. c \in CallRow /\ CallOK(c, bans, allow)
  BY CallIs
<1>2. CASE InList(list, c.addr)
  <2>1. d = Idle
    BY <1>2 DEF Answered
  <2>2. PICK n \in list : Covers(n, c.addr)
    BY <1>2 DEF InList
  <2>3. Met(c.addr, bans')
    BY <2>2 DEF Once, Met
  <2>4. Onward(c, Idle)
    BY <2>3, Over DEF Answers
  <2> QED BY <2>1, <2>4
<1>3. CASE ~InList(list, c.addr)
  <2>1. d = IF c.at \in {"ask", "asking"} THEN w ELSE s
    BY <1>3 DEF Answered
  <2>2. Kept(c, w) /\ w.at = "write" /\ Kept(c, s) /\ s.at = "stats"
    BY <1>1, KeptAt DEF Steps
  <2> HIDE DEF c, d, w, s
  <2>3. CASE c.at \in {"ask", "asking"}
    <3>1. CallOK(w, bans', allow')
      BY <1>1, <2>2, <2>3 DEF Kept, CallOK, CoverOK, SpareOK, Banning
    <3>2. \A a : ~Answers(c, a)
      BY <2>3 DEF Answers, Evaluating, Banning, Nearby
    <3> QED BY <2>1, <2>2, <2>3, <3>1, <3>2 DEF Onward, Kept, c, d
  <2>4. CASE c.at \in {"recheck", "rechecking"}
    <3>1. CallOK(s, bans', allow')
      BY <1>1, <2>2, <2>4 DEF Kept, CallOK, CoverOK, SpareOK, Banning
    <3>2. \A a : Answers(c, a) => Answers(s, a)
      BY <2>2, <2>4 DEF Kept, Answers, Evaluating, Banning, Nearby
    <3> QED BY <2>1, <2>2, <2>4, <3>1, <3>2 DEF Onward, Kept, c, d
  <2> QED BY <2>3, <2>4 DEF c
<1> QED BY <1>2, <1>3

\* All that wait for a list get it.
LEMMA AnswerMoves ==
  ASSUME Inv, UNCHANGED <<bans, allow, passed, events>>, NEW X, NEW list, Once(list, bans),
         \A q \in Calls \cap X : call[q].at \in {"ask", "asking", "recheck", "rechecking"},
         Answer(X, list)
  PROVE  Moved
<1>1. call' = [q \in Calls |-> IF q \in X THEN Answered(call[q], list) ELSE call[q]]
  BY DEF Answer
<1>2. call' = [q \in Calls |-> call'[q]]
  BY <1>1
<1>3. Grown
  BY SameRows DEF Inv
<1>4. ASSUME NEW q \in Calls PROVE Onward(call[q], call'[q])
  <2>1. CASE q \in X
    BY <1>1, <2>1, AnsweredMoves
  <2>2. CASE q \notin X
    BY <1>1, <1>3, <2>2, Stays DEF Inv
  <2> QED BY <2>1, <2>2
<1> QED BY <1>2, <1>3, <1>4, MoveAll DEF Inv

\* An attempt goes to a step that asks no more of it.
LEMMA GoMoves ==
  ASSUME Inv, UNCHANGED <<bans, allow, events>>, passed \subseteq passed', NEW p \in Calls,
         NEW v \in Steps, NEW d, Kept(call[p], d), d.at = v, call' = [call EXCEPT ![p] = d],
         \/ call[p].at = "ask" /\ v = "asking"
         \/ call[p].at = "recheck" /\ v = "rechecking"
         \/ call[p].at = "evaluate" /\ v = "allow"
         \/ call[p].at = "allow" /\ v = "allowed"
         \/ call[p].at = "netallow" /\ v = "netallowed"
         \/ call[p].at = "count" /\ v = "insert"
  PROVE  Moved
<1> DEFINE c == call[p]
<1>1. c \in CallRow /\ CallOK(c, bans, allow)
  BY CallIs
<1> HIDE DEF c
<1>2. CallOK(d, bans', allow')
  BY <1>1 DEF Kept, CallOK, CoverOK, SpareOK, Banning, c
<1>3. \A a : Answers(c, a) => Answers(d, a)
  BY <1>1 DEF Kept, Answers, Evaluating, Banning, Nearby, c
<1>4. Onward(c, d)
  BY <1>2, <1>3 DEF Onward, Kept
<1>5. Grown
  BY SameRows DEF Inv
<1> QED BY <1>4, <1>5, MoveOne DEF c, Inv

LEMMA AskMoves ==
  ASSUME Inv, NEW p \in Calls, AskBans(p)
  PROVE  Moved
<1>1. call[p].at \in {"ask", "recheck"} /\ UNCHANGED <<bans, events, allow, passed>>
  BY DEF AskBans
<1>2. CASE banCache # None
  <2>1. Answer({p}, banCache) /\ Once(banCache, bans)
    BY <1>2 DEF AskBans, Inv, ListsInv
  <2> QED BY <1>1, <2>1, AnswerMoves
<1>3. CASE banCache = None
  <2> DEFINE v == IF call[p].at = "ask" THEN "asking" ELSE "rechecking"
             d == [call[p] EXCEPT !.at = v]
  <2>1. call' = [call EXCEPT ![p].at = v]
    BY <1>3 DEF AskBans, Goto
  <2>2. Kept(call[p], d) /\ d.at = v /\ v \in Steps
    BY CallIs, KeptAt DEF Steps
  <2>3. call' = [call EXCEPT ![p] = d]
    BY <2>1
  <2>4. \/ call[p].at = "ask" /\ v = "asking"
        \/ call[p].at = "recheck" /\ v = "rechecking"
    BY <1>1
  <2> HIDE DEF d, v
  <2> QED BY <1>1, <2>2, <2>3, <2>4, GoMoves
<1> QED BY <1>2, <1>3

LEMMA AttemptMoves ==
  ASSUME Inv, NEW p \in Calls, Attempt(p)
  PROVE  Moved
<1>1. PICK via \in {"web", "dovecot"}, a \in Addrs, n \in Names, ok \in BOOLEAN :
        call' = [call EXCEPT ![p] =
          [Idle EXCEPT !.at = IF via = "dovecot" /\ ok THEN "write" ELSE "ask",
                       !.addr = a, !.name = n, !.ok = ok]]
  BY DEF Attempt
<1>2. call[p].at = "idle" /\ UNCHANGED <<bans, events, allow, passed>>
  BY DEF Attempt
<1> DEFINE v == IF via = "dovecot" /\ ok THEN "write" ELSE "ask"
           d == [Idle EXCEPT !.at = v, !.addr = a, !.name = n, !.ok = ok]
<1>3. call' = [call EXCEPT ![p] = d] /\ v \in {"write", "ask"}
  BY <1>1
<1> HIDE DEF v
<1>4. d \in CallRow /\ d.at = v /\ d.addr = a /\ d.name = n
  BY <1>3, IdleIs DEF CallRow, Steps
<1> HIDE DEF d
<1>5. CallOK(d, bans', allow')
  BY <1>3, <1>4 DEF CallOK, CoverOK, SpareOK, Banning
<1>6. Onward(call[p], d)
  BY <1>2, <1>4, <1>5 DEF Onward, Answers, Evaluating, Banning, Nearby
<1>7. Grown
  BY <1>2, SameRows DEF Inv
<1> QED BY <1>2, <1>3, <1>6, <1>7, MoveOne DEF Inv

\* An address becomes less guilty as it signs in.
LEMMA LessGuilty ==
  ASSUME NEW e \in EventRow, NEW f \in EventRow, IsFiniteSet(e.failed),
         f.failed \ f.good \subseteq e.failed \ e.good, f.count <= e.count,
         f.trusted \/ (~e.trusted /\ f.ghosts = e.ghosts) \/ f.ghosts = 0, Guilty(f)
  PROVE  Guilty(e)
<1>1. e.count \in Nat /\ f.count \in Nat /\ e.ghosts \in Nat /\ f.ghosts \in Nat
  BY DEF EventRow
<1>2. CASE TooMany(f)
  <2> DEFINE S == e.failed \ e.good
             T == f.failed \ f.good
  <2>1. IsFiniteSet(S)
    BY FS_Subset
  <2>2. IsFiniteSet(T) /\ Cardinality(T) <= Cardinality(S)
    BY <2>1, FS_Subset
  <2>3. Cardinality(S) \in Nat /\ Cardinality(T) \in Nat
    BY <2>1, <2>2, FS_CardinalityType
  <2>4. Accounts \in Nat /\ Failures \in Nat
    BY Thresholds
  <2>5. Cardinality(T) >= Accounts \/ f.count >= Failures
    BY <1>2 DEF TooMany
  <2> HIDE DEF S, T
  <2>6. Cardinality(S) >= Accounts \/ e.count >= Failures
    BY <1>1, <2>2, <2>3, <2>4, <2>5
  <2> QED BY <2>6 DEF TooMany, Guilty, S
<1>3. CASE ~f.trusted /\ f.ghosts >= Unknown
  <2>1. Unknown \in Nat \ {0}
    BY Thresholds
  <2>2. ~e.trusted /\ f.ghosts = e.ghosts
    BY <1>1, <1>3, <2>1
  <2> QED BY <1>3, <2>2 DEF Guilty
<1> QED BY <1>2, <1>3 DEF Guilty

LEMMA NotedDoes ==
  ASSUME NEW e \in EventRow, IsFiniteSet(e.failed), NEW c \in CallRow, c.name \in Names, NEW f, f = Noted(e, c)
  PROVE  f \in EventRow /\ IsFiniteSet(f.failed) /\ (c.ok /\ Guilty(f) => Guilty(e))
<1>1. CASE c.ok
  <2>1. f = [e EXCEPT !.good = @ \cup {c.name}, !.trusted = TRUE]
    BY <1>1 DEF Noted
  <2>2. f \in EventRow /\ f.failed = e.failed /\ f.good = e.good \cup {c.name} /\ f.trusted /\ f.count = e.count
    BY <2>1 DEF EventRow
  <2>3. e.count <= e.count /\ f.failed \ f.good \subseteq e.failed \ e.good
    BY <2>2 DEF EventRow
  <2>4. Guilty(f) => Guilty(e)
    BY <2>2, <2>3, LessGuilty
  <2> QED BY <2>2, <2>4
<1>2. CASE ~c.ok
  <2>1. f = [e EXCEPT !.failed = @ \cup {c.name}, !.count = @ + 1,
                      !.ghosts = IF c.name \in Ghosts THEN @ + 1 ELSE @]
    BY <1>2 DEF Noted
  <2>2. f \in EventRow /\ f.failed = e.failed \cup {c.name}
    <3>1. PICK g \in Nat : f = [e EXCEPT !.failed = @ \cup {c.name}, !.count = @ + 1, !.ghosts = g]
      <4>1. e.ghosts \in Nat /\ e.ghosts + 1 \in Nat
        BY DEF EventRow
      <4> QED BY <2>1, <4>1
    <3>2. e.failed \cup {c.name} \in SUBSET Names /\ e.count + 1 \in Nat
      BY DEF EventRow
    <3> QED BY <3>1, <3>2 DEF EventRow
  <2>3. IsFiniteSet(f.failed)
    BY <2>2, FS_AddElement
  <2> QED BY <1>2, <2>2, <2>3
<1> QED BY <1>1, <1>2

LEMMA WriteMoves ==
  ASSUME Inv, NEW p \in Calls, Write(p)
  PROVE  Moved /\ events' \in [Addrs -> EventRow] /\ \A a \in Addrs : IsFiniteSet(events'[a].failed)
<1> DEFINE c == call[p]
           d == AfterWrite(c)
           w == [c EXCEPT !.at = "evaluate"]
<1>1. /\ c.at = "write" /\ UNCHANGED <<bans, allow>>
      /\ passed' = IF c.ok THEN passed ELSE passed \ {c.addr}
      /\ events' = [events EXCEPT ![c.addr] = Noted(@, c)] \/ UNCHANGED events
      /\ call' = [call EXCEPT ![p] = d]
  BY DEF Write
<1>2. c \in CallRow /\ CallOK(c, bans, allow)
  BY CallIs
<1>3. events \in [Addrs -> EventRow] /\ \A a \in Addrs : IsFiniteSet(events[a].failed)
  BY DEF Inv, TypeInv
<1>4. c.addr \in Addrs /\ c.name \in Names
  BY <1>1, <1>2 DEF CallOK, CoverOK
<1>5. Kept(c, w) /\ w.at = "evaluate"
  BY <1>2, KeptAt DEF Steps
<1>6. d = IF c.ok THEN Idle ELSE w
  BY DEF AfterWrite
<1> HIDE DEF c, d, w
<1>7. Onward(c, d)
  <2>1. CallOK(w, bans', allow')
    BY <1>1, <1>2, <1>5 DEF Kept, CallOK, CoverOK, SpareOK, Banning
  <2>2. \A a : ~Answers(c, a)
    BY <1>1 DEF Answers, Evaluating, Banning, Nearby
  <2>3. Onward(c, w)
    BY <1>5, <2>1, <2>2 DEF Onward, Kept
  <2>4. Onward(c, Idle)
    BY <2>2, Over
  <2> QED BY <1>6, <2>3, <2>4
<1>8. /\ events' \in [Addrs -> EventRow] /\ \A a \in Addrs : IsFiniteSet(events'[a].failed)
      /\ \A a \in Addrs : Guilty(events'[a]) => Guilty(events[a]) \/ Answers(d, a)
  <2>1. CASE UNCHANGED events
    BY <1>3, <2>1
  <2>2. CASE events' = [events EXCEPT ![c.addr] = Noted(@, c)]
    <3> DEFINE f == Noted(events[c.addr], c)
    <3>1. f \in EventRow /\ IsFiniteSet(f.failed) /\ (c.ok /\ Guilty(f) => Guilty(events[c.addr]))
      BY <1>2, <1>3, <1>4, NotedDoes
    <3>2. events' = [events EXCEPT ![c.addr] = f]
      BY <2>2
    <3> HIDE DEF f
    <3>3. events' \in [Addrs -> EventRow] /\ events'[c.addr] = f
          /\ \A a \in Addrs \ {c.addr} : events'[a] = events[a]
      BY <1>3, <1>4, <3>1, <3>2
    <3>4. \A a \in Addrs : IsFiniteSet(events'[a].failed)
      BY <1>3, <3>1, <3>3
    <3>5. ~c.ok => Answers(d, c.addr)
      BY <1>5, <1>6 DEF Answers, Kept, Evaluating
    <3>6. \A a \in Addrs : Guilty(events'[a]) => Guilty(events[a]) \/ Answers(d, a)
      BY <3>1, <3>3, <3>5, Zenon
    <3> QED BY <3>3, <3>4, <3>6
  <2> QED BY <1>1, <2>1, <2>2
<1>9. Grown
  BY <1>1, SameRows DEF Inv
<1>10. call' = [call EXCEPT ![p] = d] /\ Onward(call[p], d)
  BY <1>1, <1>7 DEF c
<1>11. \A a \in Addrs : a \in passed => a \in passed' \/ Answers(d, a)
  <2>1. ~c.ok => Answers(d, c.addr)
    BY <1>5, <1>6 DEF Answers, Kept, Evaluating
  <2> QED BY <1>1, <2>1
<1> QED BY <1>1, <1>8, <1>9, <1>10, <1>11, MoveOne DEF Inv

-----------------------------------------------------------------------------
(* The evaluation, from step to step.                                       *)

\* The evaluation ends: there was nobody to ban, or nobody but who is banned or passed over.
LEMMA EndMoves ==
  ASSUME Inv, UNCHANGED <<allow, events>>, Grown, passed \subseteq passed', NEW p \in Calls,
         call' = [call EXCEPT ![p] = Idle],
         \A a \in Addrs : Guilty(events[a]) /\ Answers(call[p], a) => Met(a, bans') \/ a \in passed'
  PROVE  Moved
<1>1. Onward(call[p], Idle)
  BY Over
<1> QED BY <1>1, MoveOne DEF Inv

\* The evaluation goes on with the same address to answer for.
LEMMA EvaluationMoves ==
  ASSUME Inv, UNCHANGED <<bans, allow, events>>, passed \subseteq passed', NEW p \in Calls,
         NEW d \in CallRow, call' = [call EXCEPT ![p] = d], CallOK(d, bans, allow),
         \A a \in Addrs : Guilty(events[a]) /\ Answers(call[p], a) => Answers(d, a)
  PROVE  Moved
<1>1. Onward(call[p], d)
  BY DEF Onward
<1>2. Grown
  BY SameRows DEF Inv
<1> QED BY <1>1, <1>2, MoveOne DEF Inv

LEMMA EvaluateMoves ==
  ASSUME Inv, NEW p \in Calls, Evaluate(p)
  PROVE  Moved
<1> DEFINE d == [call[p] EXCEPT !.at = "allow"]
<1>1. call[p].at = "evaluate" /\ UNCHANGED <<bans, allow, events>>
  BY DEF Evaluate
<1>2. Grown
  BY <1>1, SameRows DEF Inv
<1>3. CASE call[p].addr \in evaluating
  <2>1. call' = [call EXCEPT ![p] = Idle] /\ passed' = passed \cup {call[p].addr}
    BY <1>3 DEF Evaluate
  <2>2. \A a \in Addrs : Answers(call[p], a) => a \in passed'
    BY <2>1 DEF Answers
  <2> QED BY <1>1, <1>2, <2>1, <2>2, EndMoves
<1>4. CASE call[p].addr \notin evaluating
  <2>1. call' = [call EXCEPT ![p].at = "allow"] /\ passed' = passed
    BY <1>4 DEF Evaluate, Goto
  <2>2. call' = [call EXCEPT ![p] = d]
    BY <2>1
  <2>3. Kept(call[p], d) /\ d.at = "allow" /\ "allow" \in Steps
    BY CallIs, KeptAt DEF Steps
  <2> HIDE DEF d
  <2> QED BY <1>1, <2>1, <2>2, <2>3, GoMoves
<1> QED BY <1>3, <1>4

\* autoBan() is called for a network that covers the address.
LEMMA AutoBanMoves ==
  ASSUME Inv, UNCHANGED <<bans, allow, events>>, passed \subseteq passed', NEW p \in Calls,
         NEW n \in Networks, AutoBan(p, n), call[p].at # "idle", Covers(n, call[p].addr),
         \A a \in allow : Covers(n, a) => a \in call[p].drift
  PROVE  Moved
<1> DEFINE c == call[p]
           d == [c EXCEPT !.at = "cover", !.target = n]
<1>1. c \in CallRow /\ CallOK(c, bans, allow)
  BY CallIs
<1>2. call' = [call EXCEPT ![p].at = "cover", ![p].target = n]
  BY DEF AutoBan
<1>3. call' = [call EXCEPT ![p] = d]
  BY <1>2
<1> HIDE DEF c
<1>4. d \in CallRow /\ d.at = "cover" /\ d.addr = c.addr /\ d.drift = c.drift /\ d.target = n
  BY <1>1 DEF CallRow, Steps
<1> HIDE DEF d
<1>5. CallOK(d, bans, allow)
  BY <1>1, <1>4 DEF CallOK, CoverOK, SpareOK, Banning, c
<1>6. \A a \in Addrs : Answers(c, a) => Answers(d, a)
  BY <1>4 DEF Answers, Banning
<1> QED BY <1>3, <1>4, <1>5, <1>6, EvaluationMoves DEF c

\* The last rule bans the address, or ends the evaluation of one that guessed too few names.
LEMMA UnknownMoves ==
  ASSUME Inv, UNCHANGED <<bans, allow, events>>, passed \subseteq passed', NEW p \in Calls,
         NEW g, UnknownRule(p, g), call[p].at # "idle",
         call[p].addr \in allow => call[p].addr \in call[p].drift,
         \A a \in Addrs : Guilty(events[a]) /\ Answers(call[p], a) => g >= Unknown
  PROVE  Moved
<1>1. call[p] \in CallRow /\ CallOK(call[p], bans, allow)
  BY CallIs
<1>2. call[p].addr \in Addrs
  BY <1>1 DEF CallOK, CoverOK
<1>3. CASE g >= Unknown
  <2>1. AutoBan(p, call[p].addr)
    BY <1>3 DEF UnknownRule
  <2>2. call[p].addr \in Networks /\ Covers(call[p].addr, call[p].addr)
        /\ \A a \in allow : Covers(call[p].addr, a) => a \in call[p].drift
    BY <1>2, NetIsNoAddress DEF Networks, Covers
  <2> QED BY <2>1, <2>2, AutoBanMoves
<1>4. CASE ~(g >= Unknown)
  <2>1. call' = [call EXCEPT ![p] = Idle]
    BY <1>4 DEF UnknownRule, End
  <2>2. Grown
    BY SameRows DEF Inv
  <2> QED BY <1>4, <2>1, <2>2, EndMoves
<1> QED BY <1>3, <1>4

\* An allowlist in hand, and what it is known to lack, spare the address or send the evaluation on.
LEMMA SpareMoves ==
  ASSUME Inv, UNCHANGED <<bans, allow, events>>, passed \subseteq passed', NEW p \in Calls,
         call[p].at \in {"allow", "allowed", "netallow", "netallowed"},
         NEW list \in SUBSET Addrs, NEW drift \in SUBSET Addrs, allow \ list \subseteq drift,
         Spare(call[p], p, list, drift)
  PROVE  Moved
<1> DEFINE c == call[p]
           looks == [c EXCEPT !.at = "recheck", !.drift = drift, !.list = {}]
           nets == [c EXCEPT !.at = "netstats", !.list = {}, !.drift = @ \cup drift]
<1>1. c \in CallRow /\ CallOK(c, bans, allow)
  BY CallIs
<1>2. CASE c.at \in {"allow", "allowed"} /\ c.addr \in list
  <2>1. call' = [call EXCEPT ![p] = Idle] /\ passed' = passed \cup {c.addr}
    BY <1>2 DEF Spare, End
  <2>2. Grown
    BY SameRows DEF Inv
  <2>3. \A a \in Addrs : Answers(c, a) => a \in passed'
    BY <2>1 DEF Answers
  <2> QED BY <2>1, <2>2, <2>3, EndMoves
<1>3. CASE c.at \in {"allow", "allowed"} /\ c.addr \notin list
  <2>1. call' = [call EXCEPT ![p] = looks]
    BY <1>3 DEF Spare
  <2> HIDE DEF c
  <2>2. looks \in CallRow /\ looks.at = "recheck" /\ looks.addr = c.addr /\ looks.drift = drift
    BY <1>1 DEF CallRow, Steps
  <2> HIDE DEF looks
  <2>3. CallOK(looks, bans, allow)
    BY <1>1, <1>3, <2>2 DEF CallOK, CoverOK, SpareOK, Banning
  <2>4. \A a \in Addrs : Answers(c, a) => Answers(looks, a)
    BY <2>2 DEF Answers, Evaluating
  <2> QED BY <2>1, <2>2, <2>3, <2>4, EvaluationMoves DEF c
<1>4. CASE c.at \in {"netallow", "netallowed"} /\ Touches(list, c.addr)
  <2>1. UnknownRule(p, c.ghosts)
    BY <1>4 DEF Spare
  <2>2. c.addr \in allow => c.addr \in c.drift
    BY <1>1, <1>4 DEF CallOK, SpareOK
  <2>3. \A a \in Addrs : Answers(c, a) => c.ghosts >= Unknown
    BY <1>4 DEF Answers, Evaluating, Banning
  <2> QED BY <1>4, <2>1, <2>2, <2>3, UnknownMoves
<1>5. CASE c.at \in {"netallow", "netallowed"} /\ ~Touches(list, c.addr)
  <2>1. call' = [call EXCEPT ![p] = nets]
    BY <1>5 DEF Spare
  <2>2. allow \subseteq drift
    BY <1>5 DEF Touches
  <2> HIDE DEF c
  <2>3. nets \in CallRow /\ nets.at = "netstats" /\ nets.addr = c.addr /\ nets.drift = c.drift \cup drift
        /\ nets.ghosts = c.ghosts
    <3>1. c.drift \cup drift \in SUBSET Addrs
      BY <1>1 DEF CallRow
    <3> QED BY <1>1, <3>1 DEF CallRow, Steps
  <2> HIDE DEF nets
  <2>4. CallOK(nets, bans, allow)
    BY <1>1, <1>5, <2>2, <2>3 DEF CallOK, CoverOK, SpareOK, Banning
  <2>5. \A a \in Addrs : Answers(c, a) => Answers(nets, a)
    BY <1>5, <2>3 DEF Answers, Evaluating, Banning, Nearby
  <2> QED BY <2>1, <2>3, <2>4, <2>5, EvaluationMoves DEF c
<1> QED BY <1>2, <1>3, <1>4, <1>5

LEMMA AllowListMoves ==
  ASSUME Inv, NEW p \in Calls, AllowList(p)
  PROVE  Moved
<1>1. call[p].at \in {"allow", "netallow"} /\ UNCHANGED <<bans, allow, events>>
  BY DEF AllowList
<1>2. CASE allowCache # None
  <2>1. Spare(call[p], p, allowCache, allowDrift)
    BY <1>2 DEF AllowList
  <2>2. allowCache \in SUBSET Addrs /\ allowDrift \in SUBSET Addrs /\ allow \ allowCache \subseteq allowDrift
    <3>1. allowCache \in (SUBSET Addrs) \cup {None} /\ allowDrift \in SUBSET Addrs
      BY DEF Inv, TypeInv
    <3>2. allow \ allowCache \subseteq allowDrift
      BY <1>2 DEF Inv, AllowInv
    <3>3. allowCache \in SUBSET Addrs
      BY <1>2, <3>1, Zenon
    <3> QED BY <3>1, <3>2, <3>3
  <2>3. passed \subseteq passed'
    BY <1>1, <2>1 DEF Spare
  <2> QED BY <1>1, <2>1, <2>2, <2>3, SpareMoves
<1>3. CASE allowCache = None
  <2>1. PICK list \in {allow, {}} :
          call' = [call EXCEPT ![p].list = list, ![p].at = IF @ = "allow" THEN "allowed" ELSE "netallowed"]
    BY <1>3 DEF AllowList
  <2> DEFINE v == IF call[p].at = "allow" THEN "allowed" ELSE "netallowed"
             d == [call[p] EXCEPT !.list = list, !.at = v]
  <2>2. call' = [call EXCEPT ![p] = d]
    BY <2>1
  <2>3. \/ call[p].at = "allow" /\ v = "allowed"
        \/ call[p].at = "netallow" /\ v = "netallowed"
    BY <1>1
  <2> HIDE DEF v
  <2>4. v \in Steps /\ list \in SUBSET Addrs /\ call[p] \in CallRow
    BY <2>3, CallIs DEF Steps, Inv, TypeInv
  <2>5. Kept(call[p], d) /\ d.at = v
    BY <2>4 DEF CallRow, Kept
  <2> HIDE DEF d
  <2>6. passed' = passed
    BY <1>3 DEF AllowList
  <2> QED BY <1>1, <2>2, <2>3, <2>4, <2>5, <2>6, GoMoves
<1> QED BY <1>2, <1>3

LEMMA AllowListReadMoves ==
  ASSUME Inv, NEW p \in Calls, AllowListRead(p)
  PROVE  Moved
<1>1. /\ call[p].at \in {"allowed", "netallowed"} /\ UNCHANGED <<bans, allow, events>>
      /\ allowDrift' = allow \ call[p].list /\ Spare(call[p], p, call[p].list, allowDrift')
  BY DEF AllowListRead
<1>2. call[p].list \in SUBSET Addrs /\ allowDrift' \in SUBSET Addrs
  BY <1>1, CallIs DEF CallRow, Inv, TypeInv
<1>3. passed \subseteq passed'
  BY <1>1 DEF Spare
<1>4. allow \ call[p].list \subseteq allowDrift'
  BY <1>1
<1> QED BY <1>1, <1>2, <1>3, <1>4, SpareMoves

LEMMA QueryFailsMoves ==
  ASSUME Inv, NEW p \in Calls, QueryFails(p)
  PROVE  Moved
<1>1. /\ call' = [call EXCEPT ![p] = Idle] /\ passed' = passed \cup {call[p].addr}
      /\ UNCHANGED <<bans, allow, events>>
  BY DEF QueryFails
<1>2. \A a \in Addrs : Answers(call[p], a) => a \in passed'
  BY <1>1 DEF Answers
<1>3. Grown
  BY <1>1, SameRows DEF Inv
<1> QED BY <1>1, <1>2, <1>3, EndMoves

LEMMA StatsMoves ==
  ASSUME Inv, NEW p \in Calls, Stats(p)
  PROVE  Moved
<1> DEFINE c == call[p]
           e == events[c.addr]
           d == [c EXCEPT !.at = "netallow", !.ghosts = e.ghosts]
<1>1. c.at = "stats" /\ UNCHANGED <<bans, allow, events, passed>>
  BY DEF Stats
<1>2. c \in CallRow /\ CallOK(c, bans, allow)
  BY CallIs
<1>3. c.addr \in Addrs /\ (c.addr \in allow => c.addr \in c.drift)
  BY <1>1, <1>2 DEF CallOK, CoverOK, SpareOK
<1>4. e \in EventRow /\ e.ghosts \in Nat
  BY <1>3 DEF Inv, TypeInv, EventRow
<1>5. Grown
  BY <1>1, SameRows DEF Inv
<1>6. CASE TooMany(e)
  <2>1. AutoBan(p, c.addr)
    BY <1>6 DEF Stats
  <2>2. c.addr \in Networks /\ Covers(c.addr, c.addr) /\ \A a \in allow : Covers(c.addr, a) => a \in c.drift
    BY <1>3, NetIsNoAddress DEF Networks, Covers
  <2> QED BY <1>1, <2>1, <2>2, AutoBanMoves
<1>7. CASE ~TooMany(e) /\ e.trusted
  <2>1. call' = [call EXCEPT ![p] = Idle]
    BY <1>7 DEF Stats, End
  <2>2. ~Guilty(e)
    BY <1>7 DEF Guilty
  <2>3. \A a \in Addrs : ~(Guilty(events[a]) /\ Answers(c, a))
    BY <2>2 DEF Answers
  <2> QED BY <1>1, <1>5, <2>1, <2>3, EndMoves
<1>8. CASE ~TooMany(e) /\ ~e.trusted /\ NetAddrs = 0
  <2>1. UnknownRule(p, e.ghosts)
    BY <1>8 DEF Stats
  <2>2. Guilty(e) => e.ghosts >= Unknown
    BY <1>8 DEF Guilty
  <2>3. \A a \in Addrs : Guilty(events[a]) /\ Answers(c, a) => e.ghosts >= Unknown
    BY <2>2 DEF Answers
  <2> QED BY <1>1, <1>3, <2>1, <2>3, UnknownMoves
<1>9. CASE ~TooMany(e) /\ ~e.trusted /\ NetAddrs # 0
  <2>1. call' = [call EXCEPT ![p].at = "netallow", ![p].ghosts = e.ghosts]
    BY <1>9 DEF Stats
  <2>2. call' = [call EXCEPT ![p] = d]
    BY <2>1
  <2>3. Guilty(e) => e.ghosts >= Unknown
    BY <1>9 DEF Guilty
  <2>4. \A a \in Addrs : Guilty(events[a]) /\ Answers(c, a) => Guilty(e)
    BY DEF Answers
  <2> HIDE DEF c, e
  <2>5. d \in CallRow /\ d.at = "netallow" /\ d.addr = c.addr /\ d.drift = c.drift /\ d.ghosts = e.ghosts
    BY <1>2, <1>4 DEF CallRow, Steps
  <2> HIDE DEF d
  <2>6. CallOK(d, bans, allow)
    BY <1>2, <1>3, <2>5 DEF CallOK, CoverOK, SpareOK, Banning
  <2>7. \A a \in Addrs : Guilty(events[a]) /\ Answers(c, a) => Answers(d, a)
    BY <2>3, <2>4, <2>5 DEF Answers, Nearby
  <2> QED BY <1>1, <2>2, <2>5, <2>6, <2>7, EvaluationMoves DEF c
<1> QED BY <1>6, <1>7, <1>8, <1>9

LEMMA NetStatsMoves ==
  ASSUME Inv, NEW p \in Calls, NetStats(p)
  PROVE  Moved
<1>1. call[p].at = "netstats" /\ UNCHANGED <<bans, allow, events, passed>>
  BY DEF NetStats
<1>2. CallOK(call[p], bans, allow)
  BY CallIs
<1>3. allow \subseteq call[p].drift
  BY <1>1, <1>2 DEF CallOK, SpareOK
<1>4. AutoBan(p, Net) \/ UnknownRule(p, call[p].ghosts)
  BY DEF NetStats
<1>5. CASE AutoBan(p, Net)
  <2>1. Net \in Networks /\ Covers(Net, call[p].addr)
    BY DEF Networks, Covers
  <2> QED BY <1>1, <1>3, <1>5, <2>1, AutoBanMoves
<1>6. CASE UnknownRule(p, call[p].ghosts)
  <2>1. \A a \in Addrs : Answers(call[p], a) => call[p].ghosts >= Unknown
    BY <1>1 DEF Answers, Evaluating, Banning
  <2> QED BY <1>1, <1>3, <1>6, <2>1, UnknownMoves
<1> QED BY <1>4, <1>5, <1>6

\* A target is covered by an active ban already, or by none of the rows so far.
LEMMA CoverMoves ==
  ASSUME Inv, NEW p \in Calls, Cover(p)
  PROVE  Moved
<1> DEFINE c == call[p]
           n == Len(bans)
           d == [c EXCEPT !.at = "count", !.from = n]
<1>1. c.at = "cover" /\ UNCHANGED <<bans, allow, events, passed>>
  BY DEF Cover
<1>2. c \in CallRow /\ CallOK(c, bans, allow)
  BY CallIs
<1>3. c.target \in Networks /\ Covers(c.target, c.addr)
  BY <1>1, <1>2 DEF CallOK, CoverOK, Banning
<1>4. Grown
  BY <1>1, SameRows DEF Inv
<1>5. n \in Nat /\ DOMAIN bans = 1..n
  BY RowsAre DEF Inv
<1>6. CASE Covered(c.target)
  <2>1. call' = [call EXCEPT ![p] = Idle]
    BY <1>6 DEF Cover
  <2>2. PICK i \in DOMAIN bans : CoversNet(bans[i].net, c.target)
    BY <1>6 DEF Covered, ActiveNets, Active, Rows
  <2>3. Covers(bans[i].net, c.addr)
    BY <1>3, <2>2 DEF Covers, CoversNet
  <2>4. Met(c.addr, bans')
    BY <1>1, <2>3 DEF Met
  <2>5. \A a \in Addrs : Answers(c, a) => Met(a, bans')
    BY <2>4 DEF Answers
  <2> QED BY <1>1, <1>4, <2>1, <2>5, EndMoves
<1>7. CASE ~Covered(c.target)
  <2>1. call' = [call EXCEPT ![p].at = "count", ![p].from = n]
    BY <1>7 DEF Cover
  <2>2. call' = [call EXCEPT ![p] = d]
    BY <2>1
  <2>3. \A i \in DOMAIN bans : bans[i].active => ~CoversNet(bans[i].net, c.target)
    BY <1>7 DEF Covered, ActiveNets, Active, Rows
  <2> HIDE DEF c, n
  <2>4. d \in CallRow /\ d.at = "count" /\ d.addr = c.addr /\ d.drift = c.drift /\ d.target = c.target
        /\ d.from = n
    BY <1>2, <1>5 DEF CallRow, Steps
  <2> HIDE DEF d
  <2>5. n <= Len(bans)
    BY <1>5 DEF n
  <2>6. CallOK(d, bans, allow)
    BY <1>1, <1>2, <1>3, <2>3, <2>4, <2>5 DEF CallOK, CoverOK, SpareOK, Banning
  <2>7. \A a \in Addrs : Answers(c, a) => Answers(d, a)
    BY <2>4 DEF Answers, Banning
  <2> QED BY <1>1, <2>2, <2>4, <2>6, <2>7, EvaluationMoves DEF c
<1> QED BY <1>6, <1>7

LEMMA PreviousType ==
  ASSUME TypeInv, NEW n
  PROVE  Previous(n) \in Nat
<1>1. Len(bans) \in Nat /\ Rows = 1..Len(bans)
  BY RowsAre DEF Rows
<1>2. IsFiniteSet(Rows)
  BY <1>1, FS_Interval
<1>3. IsFiniteSet(AutoBans(n))
  BY <1>2, FS_Subset DEF AutoBans
<1> QED BY <1>3, FS_CardinalityType DEF Previous

LEMMA CountMoves ==
  ASSUME Inv, NEW p \in Calls, Count(p)
  PROVE  Moved
<1> DEFINE n == Previous(call[p].target)
           d == [call[p] EXCEPT !.at = "insert", !.previous = n]
<1>1. call[p].at = "count" /\ UNCHANGED <<bans, allow, events, passed>>
      /\ call' = [call EXCEPT ![p].at = "insert", ![p].previous = n]
  BY DEF Count
<1>2. call' = [call EXCEPT ![p] = d]
  BY <1>1
<1>3. n \in Nat /\ call[p] \in CallRow /\ "insert" \in Steps
  BY PreviousType, CallIs DEF Inv, Steps
<1> HIDE DEF n
<1>4. Kept(call[p], d) /\ d.at = "insert"
  BY <1>3 DEF CallRow, Kept
<1> HIDE DEF d
<1> QED BY <1>1, <1>2, <1>3, <1>4, GoMoves

LEMMA InsertMoves ==
  ASSUME Inv, NEW p \in Calls, Insert(p)
  PROVE  /\ Moved /\ Grown
         /\ \E b \in Row : /\ bans' = Append(bans, b)
                           /\ \A i \in Active : CoversNet(bans[i].net, b.net) => i > b.from
<1> DEFINE c == call[p]
           b == [net |-> c.target, source |-> "auto", active |-> TRUE, step |-> Step(c.previous), from |-> c.from]
<1>1. /\ c.at = "insert" /\ bans' = Append(bans, b) /\ call' = [call EXCEPT ![p] = Idle]
      /\ UNCHANGED <<allow, events, passed>>
  BY DEF Insert
<1>2. c \in CallRow /\ CallOK(c, bans, allow)
  BY CallIs
<1>3. c.target \in Networks /\ Covers(c.target, c.addr) /\ c.from <= Len(bans)
      /\ \A i \in DOMAIN bans : bans[i].active /\ i <= c.from => ~CoversNet(bans[i].net, c.target)
  BY <1>1, <1>2 DEF CallOK, CoverOK, Banning
<1>4. Step(c.previous) \in 1..3 /\ c.from \in Nat
  BY <1>2 DEF Step, CallRow
<1>5. b \in Row
  BY <1>3, <1>4 DEF Row
<1>6. b.net = c.target /\ b.from = c.from
  OBVIOUS
<1> HIDE DEF b
<1>7. /\ Grown /\ Len(bans') = Len(bans) + 1 /\ bans'[Len(bans) + 1] = b
      /\ \A i \in 1..Len(bans) : bans'[i] = bans[i]
  BY <1>1, <1>5, AppendDoes DEF Inv
<1>8. Len(bans) \in Nat /\ DOMAIN bans = 1..Len(bans)
  BY RowsAre DEF Inv
<1>9. Met(c.addr, bans')
  <2>1. Len(bans) + 1 \in DOMAIN bans'
    BY <1>7, <1>8 DEF Grown
  <2> QED BY <1>3, <1>6, <1>7, <2>1 DEF Met
<1>10. \A a \in Addrs : Answers(c, a) => Met(a, bans')
  BY <1>9 DEF Answers
<1>11. Moved
  BY <1>1, <1>7, <1>10, EndMoves
<1>12. ASSUME NEW i \in Active, CoversNet(bans[i].net, b.net) PROVE i > b.from
  <2>1. i \in DOMAIN bans /\ bans[i].active
    BY DEF Active, Rows
  <2>2. ~(i <= c.from)
    BY <1>3, <1>6, <1>12, <2>1
  <2> QED BY <1>4, <1>6, <1>8, <2>1, <2>2
<1> QED BY <1>1, <1>5, <1>7, <1>11, <1>12

-----------------------------------------------------------------------------
(* By hand, and in time.                                                    *)

\* An administrator changes the allowlist: what has looked is known not to have seen what is new.
LEMMA SetAllowMoves ==
  ASSUME Inv, SetAllow
  PROVE  Moved /\ allow' \in SUBSET Addrs
<1>1. PICK list \in SUBSET Addrs :
        /\ allow' = list
        /\ call' = [q \in Calls |-> IF call[q].at \in Looked
                      THEN [call[q] EXCEPT !.drift = @ \cup (list \ allow)] ELSE call[q]]
  BY DEF SetAllow
<1>2. UNCHANGED <<bans, events, passed>>
  BY DEF SetAllow
<1>3. ASSUME NEW q \in Calls PROVE Onward(call[q], call'[q])
  <2> DEFINE c == call[q]
             x == c.drift \cup (list \ allow)
             d == [c EXCEPT !.drift = x]
  <2>1. c \in CallRow /\ CallOK(c, bans, allow)
    BY CallIs
  <2>2. CASE c.at \in Looked
    <3>1. call'[q] = d
      BY <1>1, <2>2
    <3>2. x \in SUBSET Addrs
      BY <2>1 DEF CallRow
    <3>3. x = c.drift \cup (list \ allow)
      OBVIOUS
    <3> HIDE DEF c, x
    <3>4. d \in CallRow /\ d.at = c.at /\ d.addr = c.addr /\ d.name = c.name /\ d.drift = x /\ d.target = c.target
          /\ d.from = c.from /\ d.ghosts = c.ghosts
      BY <2>1, <3>2 DEF CallRow
    <3> HIDE DEF d
    <3>5. CoverOK(d, bans')
      BY <1>2, <2>1, <3>4 DEF CallOK, CoverOK
    <3>6. SpareOK(d, allow')
      BY <1>1, <2>1, <3>3, <3>4 DEF CallOK, SpareOK
    <3>7. \A a \in Addrs : Answers(c, a) => Answers(d, a)
      BY <3>4 DEF Answers
    <3> QED BY <3>1, <3>4, <3>5, <3>6, <3>7 DEF Onward, CallOK, c
  <2>3. CASE c.at \notin Looked
    <3>1. call'[q] = c
      BY <1>1, <2>3
    <3>2. SpareOK(c, allow')
      BY <2>3 DEF SpareOK, Looked, Banning
    <3> QED BY <1>2, <2>1, <3>1, <3>2 DEF Onward, CallOK
  <2> QED BY <2>2, <2>3
<1>4. call' = [q \in Calls |-> call'[q]]
  BY <1>1
<1>5. Grown
  BY <1>2, SameRows DEF Inv
<1>6. Moved
  BY <1>2, <1>3, <1>4, <1>5, MoveAll DEF Inv
<1> QED BY <1>1, <1>6

LEMMA LeftIs ==
  ASSUME NEW r \in EventRow, NEW e \in Left(r)
  PROVE  e \in EventRow /\ e.failed \subseteq r.failed
<1>1. r.failed \in SUBSET Names /\ r.count \in Nat /\ r.ghosts \in Nat /\ r.good \in SUBSET Names /\ r.trusted \in BOOLEAN
  BY DEF EventRow
<1>2. e \in [failed : SUBSET r.failed, count : 0 .. r.count, ghosts : 0 .. r.ghosts,
              good : SUBSET r.good, trusted : {r.trusted, FALSE}]
  BY DEF Left
<1> HIDE DEF EventRow
<1>3. e.failed \subseteq r.failed /\ e.failed \in SUBSET Names /\ e.good \in SUBSET Names
  BY <1>1, <1>2
<1>4. e.count \in Nat /\ e.ghosts \in Nat
  BY <1>1, <1>2
<1>5. e.trusted \in BOOLEAN
  <2>1. e.trusted \in {r.trusted, FALSE}
    BY <1>2
  <2> QED BY <1>1, <2>1, Zenon
<1>6. e = [failed |-> e.failed, count |-> e.count, ghosts |-> e.ghosts, good |-> e.good, trusted |-> e.trusted]
  BY <1>2
<1> QED BY <1>3, <1>4, <1>5, <1>6 DEF EventRow

\* Whoever time makes guilty is passed over until its next failure.
LEMMA AgeDoes ==
  ASSUME Inv, Age
  PROVE  /\ events' \in [Addrs -> EventRow] /\ \A a \in Addrs : IsFiniteSet(events'[a].failed)
         /\ passed \subseteq passed'
         /\ \A a \in Addrs : Guilty(events'[a]) => Guilty(events[a]) \/ a \in passed'
<1>1. PICK a \in Addrs : \E e \in Left(events[a]) \ {events[a]} :
        /\ events' = [events EXCEPT ![a] = e]
        /\ passed' = IF Guilty(e) /\ ~Guilty(events[a]) THEN passed \cup {a} ELSE passed
  BY DEF Age
<1>2. PICK e \in Left(events[a]) :
        /\ events' = [events EXCEPT ![a] = e]
        /\ passed' = IF Guilty(e) /\ ~Guilty(events[a]) THEN passed \cup {a} ELSE passed
  BY <1>1
<1>3. events \in [Addrs -> EventRow] /\ \A x \in Addrs : IsFiniteSet(events[x].failed)
  BY DEF Inv, TypeInv
<1>4. events[a] \in EventRow
  BY <1>3
<1>5. e \in EventRow /\ e.failed \subseteq events[a].failed
  BY <1>4, LeftIs
<1>6. IsFiniteSet(e.failed)
  BY <1>3, <1>5, FS_Subset
<1>7. events' \in [Addrs -> EventRow] /\ events'[a] = e /\ \A x \in Addrs \ {a} : events'[x] = events[x]
  BY <1>2, <1>3, <1>5
<1>8. \A x \in Addrs : IsFiniteSet(events'[x].failed)
  BY <1>3, <1>6, <1>7
<1>9. passed \subseteq passed' /\ (Guilty(e) => Guilty(events[a]) \/ a \in passed')
  BY <1>2
<1>10. \A x \in Addrs : Guilty(events'[x]) => Guilty(events[x]) \/ x \in passed'
  BY <1>7, <1>9, Zenon
<1> QED BY <1>7, <1>8, <1>9, <1>10

-----------------------------------------------------------------------------
(* What the app caches.                                                     *)

CachesOK ==
  /\ banCache \in (SUBSET Networks) \cup {None} /\ allowCache \in (SUBSET Addrs) \cup {None}
  /\ banLoad \in Load \cup {None} /\ allowDrift \in SUBSET Addrs
  /\ ListsInv /\ AllowInv /\ CacheWrongOnlyByRace

LEMMA CachesAre ==
  ASSUME IInv
  PROVE  CachesOK /\ Inv
BY DEF IInv, TypeInv, CachesOK, Inv

LEMMA ActiveAre ==
  ASSUME TypeInv
  PROVE  ActiveNets \in SUBSET Networks /\ Once(ActiveNets, bans)
BY RowsAre DEF ActiveNets, Active, Rows, Row, Once

\* Lists of networks that were banned once, still were.
LEMMA ListsGrow ==
  ASSUME TypeInv, Grown, ListsInv, UNCHANGED <<banCache, banLoad>>
  PROVE  ListsInv'
BY GrownKeeps DEF ListsInv

LEMMA SameCaches ==
  ASSUME CachesOK, UNCHANGED <<caches, bans, allow>>
  PROVE  CachesOK'
<1> USE DEF caches, banCaches, allowCaches
<1>1. ListsInv' /\ AllowInv'
  BY DEF CachesOK, ListsInv, AllowInv
<1>2. CacheWrongOnlyByRace'
  BY DEF CachesOK, CacheWrongOnlyByRace, ActiveNets, Active, Rows
<1> QED BY <1>1, <1>2 DEF CachesOK

\* The cached bans are forgotten by whoever changes them in the app, or when they are too old.
LEMMA ForgottenCaches ==
  ASSUME IInv, Grown, UNCHANGED <<banLoad, allow, allowCaches>>, banCache' = None
  PROVE  CachesOK'
<1>1. CachesOK /\ TypeInv
  BY CachesAre DEF IInv
<1>2. banLoad # None => Once(banLoad.list, bans')
  BY <1>1, GrownKeeps DEF CachesOK, ListsInv
<1>3. ListsInv' /\ AllowInv' /\ CacheWrongOnlyByRace'
  BY <1>1, <1>2 DEF CachesOK, ListsInv, AllowInv, CacheWrongOnlyByRace, allowCaches
<1>4. banCache' \in (SUBSET Networks) \cup {None}
  BY Zenon
<1> QED BY <1>1, <1>3, <1>4 DEF CachesOK, allowCaches

\* A change made without the app, or in time, is one the cache is behind with.
LEMMA BehindCaches ==
  ASSUME IInv, Grown, UNCHANGED <<banCache, banLoad, allow, allowCaches>>, NEW nets, Behind(nets),
         Differing(ActiveNets, ActiveNets') \subseteq nets
  PROVE  CachesOK'
<1>1. CachesOK /\ TypeInv
  BY CachesAre DEF IInv
<1>2. ListsInv'
  BY <1>1, ListsGrow DEF CachesOK
<1>3. AllowInv'
  BY <1>1 DEF CachesOK, AllowInv, allowCaches
<1>4. CacheWrongOnlyByRace'
  <2> SUFFICES ASSUME banCache # None PROVE Differing(banCache, ActiveNets') \subseteq banDrift'
    BY DEF CacheWrongOnlyByRace
  <2>1. banDrift' = banDrift \cup nets
    BY DEF Behind
  <2>2. Differing(banCache, ActiveNets) \subseteq banDrift
    BY <1>1 DEF CachesOK, CacheWrongOnlyByRace
  <2> QED BY <2>1, <2>2 DEF Differing
<1> QED BY <1>1, <1>2, <1>3, <1>4 DEF CachesOK, allowCaches

\* Lifting rows takes only their networks off the active ones; adding a row adds its own.
LEMMA LiftNets ==
  ASSUME TypeInv, NEW X, bans' = Lift(X)
  PROVE  Differing(ActiveNets, ActiveNets') \subseteq {bans[i].net : i \in Active \cap X}
<1>1. /\ Grown /\ Len(bans') = Len(bans)
      /\ \A i \in 1..Len(bans) : bans'[i].active <=> bans[i].active /\ i \notin X
  BY LiftDoes
<1>2. Rows = 1..Len(bans) /\ Rows' = 1..Len(bans)
  BY <1>1, RowsAre DEF Rows, Grown
<1>3. \A i \in Rows : bans'[i].net = bans[i].net
  BY <1>1, <1>2 DEF Grown
<1>4. Active' = Active \ X
  BY <1>1, <1>2, Zenon DEF Active
<1>5. Active \subseteq Rows
  BY DEF Active
<1>6. ActiveNets' = {bans'[i].net : i \in Active \ X}
  BY <1>4 DEF ActiveNets
<1>7. ActiveNets' = {bans[i].net : i \in Active \ X}
  BY <1>3, <1>5, <1>6
<1> QED BY <1>7 DEF ActiveNets, Differing

LEMMA AppendNets ==
  ASSUME TypeInv, NEW b \in Row, bans' = Append(bans, b)
  PROVE  Differing(ActiveNets, ActiveNets') \subseteq {b.net}
<1>1. /\ Grown /\ Len(bans') = Len(bans) + 1 /\ bans'[Len(bans) + 1] = b
      /\ \A i \in 1..Len(bans) : bans'[i] = bans[i]
  BY AppendDoes
<1>2. Len(bans) \in Nat /\ Rows = 1..Len(bans) /\ Rows' = 1..(Len(bans) + 1)
  BY <1>1, RowsAre DEF Rows, Grown
<1>3. ASSUME NEW n \in ActiveNets PROVE n \in ActiveNets'
  <2>1. PICK i \in Rows : bans[i].active /\ n = bans[i].net
    BY <1>3 DEF ActiveNets, Active
  <2>2. i \in Rows' /\ bans'[i] = bans[i]
    BY <1>1, <1>2
  <2> QED BY <2>1, <2>2 DEF ActiveNets, Active
<1>4. ASSUME NEW n \in ActiveNets' PROVE n \in ActiveNets \cup {b.net}
  <2>1. PICK i \in Rows' : bans'[i].active /\ n = bans'[i].net
    BY <1>4 DEF ActiveNets, Active
  <2>2. CASE i \in Rows
    <3>1. bans'[i] = bans[i]
      BY <1>1, <1>2, <2>2
    <3> QED BY <2>1, <2>2, <3>1 DEF ActiveNets, Active
  <2>3. CASE i \notin Rows
    <3>1. i = Len(bans) + 1
      BY <1>2, <2>3
    <3> QED BY <1>1, <2>1, <3>1
  <2> QED BY <2>2, <2>3
<1> QED BY <1>3, <1>4 DEF Differing

\* Of two active rows neither is made by lifting others, and one that is added comes after the rest.
LEMMA LiftedOnce ==
  ASSUME TypeInv, DoubledOnlyByRace, NEW X, bans' = Lift(X)
  PROVE  DoubledOnlyByRace'
<1>1. /\ Grown /\ Len(bans') = Len(bans)
      /\ \A i \in 1..Len(bans) : bans'[i].active <=> bans[i].active /\ i \notin X
  BY LiftDoes
<1>2. Rows = 1..Len(bans) /\ Rows' = 1..Len(bans)
  BY <1>1, RowsAre DEF Rows, Grown
<1>3. Active' \subseteq Active
  BY <1>1, <1>2, Zenon DEF Active
<1>4. \A i \in Active' : bans'[i].net = bans[i].net /\ bans'[i].source = bans[i].source
                         /\ bans'[i].from = bans[i].from
  BY <1>1, <1>2 DEF Active, Grown
<1> QED BY <1>3, <1>4 DEF DoubledOnlyByRace

LEMMA AppendedOnce ==
  ASSUME TypeInv, DoubledOnlyByRace, NEW b \in Row, bans' = Append(bans, b),
         b.source = "auto" => \A i \in Active : CoversNet(bans[i].net, b.net) => i > b.from
  PROVE  DoubledOnlyByRace'
<1>1. /\ Grown /\ Len(bans') = Len(bans) + 1 /\ bans'[Len(bans) + 1] = b
      /\ \A i \in 1..Len(bans) : bans'[i] = bans[i]
  BY AppendDoes
<1>2. Len(bans) \in Nat /\ Rows = 1..Len(bans) /\ Rows' = 1..(Len(bans) + 1)
  BY <1>1, RowsAre DEF Rows, Grown
<1> SUFFICES ASSUME NEW i \in Active', NEW j \in Active', i < j, bans'[j].source = "auto",
                    CoversNet(bans'[i].net, bans'[j].net)
             PROVE  i > bans'[j].from
  BY DEF DoubledOnlyByRace
<1>3. i \in Rows' /\ j \in Rows' /\ bans'[i].active /\ bans'[j].active
  BY DEF Active
<1>4. i \in Rows
  BY <1>2, <1>3
<1>5. bans'[i] = bans[i] /\ i \in Active
  <2>1. bans'[i] = bans[i]
    BY <1>1, <1>2, <1>4
  <2> QED BY <1>3, <1>4, <2>1 DEF Active
<1>6. CASE j \in Rows
  <2>1. bans'[j] = bans[j]
    BY <1>1, <1>2, <1>6
  <2>2. j \in Active
    BY <1>3, <1>6, <2>1 DEF Active
  <2> QED BY <1>5, <2>1, <2>2 DEF DoubledOnlyByRace
<1>7. CASE j \notin Rows
  <2>1. bans'[j] = b
    BY <1>1, <1>2, <1>3, <1>7
  <2> QED BY <1>5, <2>1
<1> QED BY <1>6, <1>7

-----------------------------------------------------------------------------
(* The invariant, and what follows.                                         *)

EventsOK == events \in [Addrs -> EventRow] /\ \A a \in Addrs : IsFiniteSet(events[a].failed)
OrderOK == order \in [Admins -> [net : Networks, by : {"app", "cli"}] \cup {None}]

\* The parts of the invariant, put together.
LEMMA Together ==
  ASSUME Moved, Grown, EventsOK', OrderOK', allow' \in SUBSET Addrs, CachesOK', DoubledOnlyByRace'
  PROVE  IInv'
BY DEF Moved, Grown, EventsOK, OrderOK, CachesOK, IInv, TypeInv

LEMMA Apart ==
  ASSUME IInv
  PROVE  Inv /\ TypeInv /\ EventsOK /\ OrderOK /\ allow \in SUBSET Addrs /\ CachesOK /\ DoubledOnlyByRace
BY DEF IInv, Inv, TypeInv, EventsOK, OrderOK, CachesOK

\* Nothing changes the bans.
LEMMA CalmTogether ==
  ASSUME IInv, UNCHANGED <<bans, order, allow>>, Moved, EventsOK', CachesOK'
  PROVE  IInv'
<1>1. Grown
  BY SameRows, Apart
<1>2. DoubledOnlyByRace'
  BY Apart DEF DoubledOnlyByRace, Active, Rows
<1>3. OrderOK' /\ allow' \in SUBSET Addrs
  BY Apart DEF OrderOK
<1> QED BY <1>1, <1>2, <1>3, Together

LEMMA StepKeeps ==
  ASSUME IInv, NEW p \in Calls,
         \/ Evaluate(p) \/ AllowList(p) \/ QueryFails(p) \/ Stats(p) \/ NetStats(p) \/ Cover(p) \/ Count(p)
         \/ Attempt(p) \/ Write(p)
  PROVE  IInv'
<1>1. Inv
  BY Apart
<1>2. Moved
  BY <1>1, EvaluateMoves, AllowListMoves, QueryFailsMoves, StatsMoves, NetStatsMoves, CoverMoves, CountMoves,
     AttemptMoves, WriteMoves
<1>3. UNCHANGED <<bans, order, allow, caches>>
  BY DEF Evaluate, AllowList, QueryFails, Stats, NetStats, Cover, Count, Attempt, Write
<1>4. EventsOK'
  <2>1. CASE Write(p)
    BY <1>1, <2>1, WriteMoves DEF EventsOK
  <2>2. CASE ~Write(p)
    <3>1. UNCHANGED events
      BY <2>2 DEF Evaluate, AllowList, QueryFails, Stats, NetStats, Cover, Count, Attempt
    <3> QED BY <3>1, Apart DEF EventsOK
  <2> QED BY <2>1, <2>2
<1>5. CachesOK'
  BY <1>3, Apart, SameCaches
<1> QED BY <1>2, <1>3, <1>4, <1>5, CalmTogether

LEMMA AskKeeps ==
  ASSUME IInv, NEW p \in Calls, AskBans(p)
  PROVE  IInv'
<1>1. Inv /\ CachesOK /\ EventsOK
  BY Apart
<1>2. Moved
  BY <1>1, AskMoves
<1>3. UNCHANGED <<bans, order, allow, events, banCache, banDrift, allowCaches>>
  BY DEF AskBans, caches, banCaches
<1>4. EventsOK'
  BY <1>1, <1>3 DEF EventsOK
<1>5. banLoad' \in {banLoad, Asked}
  BY DEF AskBans, caches, banCaches
<1>6. Asked \in Load /\ Once(Asked.list, bans)
  BY DEF Asked, Load, Once
<1>7. banLoad' \in Load \cup {None} /\ (banLoad' # None => Once(banLoad'.list, bans))
  BY <1>1, <1>5, <1>6 DEF CachesOK, ListsInv
<1>8. CacheWrongOnlyByRace' /\ AllowInv'
  BY <1>1, <1>3 DEF CachesOK, CacheWrongOnlyByRace, AllowInv, ActiveNets, Active, Rows, allowCaches
<1>9. CachesOK'
  BY <1>1, <1>3, <1>7, <1>8 DEF CachesOK, ListsInv, allowCaches
<1> QED BY <1>2, <1>3, <1>4, <1>9, CalmTogether

\* The cache takes a list that was banned when the query read it, and knows what has changed since.
LEMMA LoadKeeps ==
  ASSUME IInv, LoadQuery \/ LoadDone \/ LoadFails
  PROVE  IInv'
<1>1. Inv /\ CachesOK /\ EventsOK /\ TypeInv
  BY Apart
<1>2. UNCHANGED <<bans, order, allow, events, passed, allowCaches>>
  BY DEF LoadQuery, LoadDone, LoadFails
<1>3. EventsOK'
  BY <1>1, <1>2 DEF EventsOK
<1>4. Grown
  BY <1>1, <1>2, SameRows
<1>5. AllowInv'
  BY <1>1, <1>2 DEF CachesOK, AllowInv, allowCaches
<1>6. UNCHANGED ActiveNets
  BY <1>2 DEF ActiveNets, Active, Rows
<1>7. CASE LoadQuery
  <2>1. Moved
    BY <1>1, <1>2, <1>4, <1>7, SameCalls DEF LoadQuery, Inv
  <2>2. banLoad' = [asked |-> FALSE, list |-> ActiveNets] /\ UNCHANGED <<banCache, banDrift>>
    BY <1>7 DEF LoadQuery
  <2>3. ActiveNets \in SUBSET Networks /\ Once(ActiveNets, bans)
    BY <1>1, ActiveAre
  <2>4. banLoad' \in Load \cup {None} /\ Once(banLoad'.list, bans')
    BY <1>2, <2>2, <2>3 DEF Load
  <2>5. ListsInv' /\ CacheWrongOnlyByRace'
    BY <1>1, <1>2, <1>6, <2>2, <2>4 DEF CachesOK, ListsInv, CacheWrongOnlyByRace
  <2>6. CachesOK'
    BY <1>1, <1>2, <1>5, <2>2, <2>4, <2>5 DEF CachesOK, allowCaches
  <2> QED BY <1>2, <1>3, <2>1, <2>6, CalmTogether
<1>8. CASE LoadDone
  <2>1. /\ banLoad # None /\ banCache' = banLoad.list /\ banDrift' = Differing(banLoad.list, ActiveNets)
        /\ banLoad' = None /\ Answer(Waiting, banLoad.list)
    BY <1>8 DEF LoadDone
  <2>2. Once(banLoad.list, bans) /\ banLoad.list \in SUBSET Networks
    <3>1. banLoad \in Load
      BY <1>1, <2>1 DEF CachesOK
    <3> QED BY <1>1, <2>1, <3>1 DEF CachesOK, ListsInv, Load
  <2>3. \A q \in Calls \cap Waiting : call[q].at \in {"ask", "asking", "recheck", "rechecking"}
    BY DEF Waiting
  <2>4. Moved
    BY <1>1, <1>2, <2>1, <2>2, <2>3, AnswerMoves
  <2>5. ListsInv' /\ CacheWrongOnlyByRace'
    BY <1>2, <1>6, <2>1, <2>2 DEF ListsInv, CacheWrongOnlyByRace
  <2>6. banCache' \in (SUBSET Networks) \cup {None} /\ banLoad' \in Load \cup {None}
    BY <2>1, <2>2, Zenon
  <2>7. CachesOK'
    BY <1>1, <1>2, <1>5, <2>5, <2>6 DEF CachesOK, allowCaches
  <2> QED BY <1>2, <1>3, <2>4, <2>7, CalmTogether
<1>9. CASE LoadFails
  <2>1. banLoad' = None /\ Answer(Waiting, {}) /\ UNCHANGED <<banCache, banDrift>>
    BY <1>9 DEF LoadFails
  <2>2. Once({}, bans)
    BY DEF Once
  <2>3. \A q \in Calls \cap Waiting : call[q].at \in {"ask", "asking", "recheck", "rechecking"}
    BY DEF Waiting
  <2>4. Moved
    BY <1>1, <1>2, <2>1, <2>2, <2>3, AnswerMoves
  <2>5. ListsInv' /\ CacheWrongOnlyByRace'
    BY <1>1, <1>2, <1>6, <2>1 DEF CachesOK, ListsInv, CacheWrongOnlyByRace
  <2>6. CachesOK'
    BY <1>1, <1>2, <1>5, <2>1, <2>5 DEF CachesOK, allowCaches
  <2> QED BY <1>2, <1>3, <2>4, <2>6, CalmTogether
<1> QED BY <1>7, <1>8, <1>9

LEMMA AllowListReadKeeps ==
  ASSUME IInv, NEW p \in Calls, AllowListRead(p)
  PROVE  IInv'
<1>1. Inv /\ CachesOK /\ EventsOK /\ allow \in SUBSET Addrs
  BY Apart
<1>2. Moved
  BY <1>1, AllowListReadMoves
<1>3. /\ allowCache' = call[p].list /\ allowDrift' = allow \ call[p].list
      /\ UNCHANGED <<bans, events, allow, banCaches, order>>
  BY DEF AllowListRead
<1>4. call[p].list \in SUBSET Addrs
  BY <1>1, CallIs DEF CallRow
<1>5. EventsOK'
  BY <1>1, <1>3 DEF EventsOK
<1>6. AllowInv' /\ allowDrift' \in SUBSET Addrs
  BY <1>1, <1>3 DEF AllowInv
<1>7. allowCache' \in (SUBSET Addrs) \cup {None}
  BY <1>3, <1>4, Zenon
<1>8. ListsInv' /\ CacheWrongOnlyByRace'
  BY <1>1, <1>3 DEF CachesOK, ListsInv, CacheWrongOnlyByRace, ActiveNets, Active, Rows, banCaches
<1>9. CachesOK'
  BY <1>1, <1>3, <1>6, <1>7, <1>8 DEF CachesOK, banCaches
<1> QED BY <1>2, <1>3, <1>5, <1>9, CalmTogether

LEMMA InsertKeeps ==
  ASSUME IInv, NEW p \in Calls, Insert(p)
  PROVE  IInv'
<1>1. Inv /\ TypeInv /\ EventsOK /\ OrderOK /\ DoubledOnlyByRace /\ allow \in SUBSET Addrs
  BY Apart
<1>2. /\ Moved /\ Grown
      /\ \E b \in Row : /\ bans' = Append(bans, b)
                        /\ \A i \in Active : CoversNet(bans[i].net, b.net) => i > b.from
  BY <1>1, InsertMoves
<1>3. DoubledOnlyByRace'
  BY <1>1, <1>2, AppendedOnce
<1>4. UNCHANGED <<events, allow, allowCaches, order, banLoad>> /\ banCache' = None
  BY DEF Insert, Invalidate
<1>5. CachesOK'
  BY <1>2, <1>4, ForgottenCaches
<1>6. EventsOK' /\ OrderOK'
  BY <1>1, <1>4 DEF EventsOK, OrderOK
<1> QED BY <1>1, <1>2, <1>3, <1>4, <1>5, <1>6, Together

LEMMA InsertByHandKeeps ==
  ASSUME IInv, NEW m \in Admins, InsertByHand(m)
  PROVE  IInv'
<1>1. Inv /\ TypeInv /\ EventsOK /\ OrderOK /\ DoubledOnlyByRace /\ allow \in SUBSET Addrs
  BY Apart
<1> DEFINE b == [net |-> order[m].net, source |-> "manual", active |-> TRUE, step |-> 1, from |-> Len(bans)]
<1>2. /\ order[m] # None /\ bans' = Append(bans, b)
      /\ (Invalidate \/ (Behind({order[m].net}) /\ UNCHANGED <<banCache, banLoad>>))
      /\ order' = [order EXCEPT ![m] = None]
      /\ UNCHANGED <<events, allow, allowCaches, call, passed>>
  BY DEF InsertByHand
<1>3. order[m].net \in Networks
  BY <1>1, <1>2 DEF OrderOK
<1>4. b \in Row /\ b.source = "manual" /\ b.net = order[m].net
  BY <1>1, <1>3, RowsAre DEF Row
<1> HIDE DEF b
<1>5. Grown
  BY <1>1, <1>2, <1>4, AppendDoes
<1>6. DoubledOnlyByRace'
  BY <1>1, <1>2, <1>4, AppendedOnce
<1>7. Moved
  BY <1>1, <1>2, <1>5, SameCalls DEF Inv
<1>8. CachesOK'
  <2>1. CASE Invalidate
    BY <1>2, <1>5, <2>1, ForgottenCaches DEF Invalidate
  <2>2. CASE Behind({order[m].net}) /\ UNCHANGED <<banCache, banLoad>>
    <3>1. Differing(ActiveNets, ActiveNets') \subseteq {order[m].net}
      BY <1>1, <1>2, <1>4, AppendNets
    <3> QED BY <1>2, <1>5, <2>2, <3>1, BehindCaches
  <2> QED BY <1>2, <2>1, <2>2
<1>9. EventsOK' /\ OrderOK'
  BY <1>1, <1>2 DEF EventsOK, OrderOK
<1> QED BY <1>1, <1>2, <1>5, <1>6, <1>7, <1>8, <1>9, Together

\* Rows are lifted, by hand or by time.
LEMMA LiftKeeps ==
  ASSUME IInv, NEW X, bans' = Lift(X), UNCHANGED <<events, allow, banLoad, allowCaches, call, passed>>, OrderOK',
         \/ banCache' = None
         \/ Behind({bans[i].net : i \in Active \cap X}) /\ UNCHANGED banCache
  PROVE  IInv'
<1>1. Inv /\ TypeInv /\ EventsOK /\ DoubledOnlyByRace /\ allow \in SUBSET Addrs
  BY Apart
<1>2. Grown
  BY <1>1, LiftDoes
<1>3. DoubledOnlyByRace'
  BY <1>1, LiftedOnce
<1>4. Moved
  BY <1>1, <1>2, SameCalls DEF Inv
<1>5. CachesOK'
  <2>1. CASE banCache' = None
    BY <1>2, <2>1, ForgottenCaches
  <2>2. CASE Behind({bans[i].net : i \in Active \cap X}) /\ UNCHANGED banCache
    <3>1. Differing(ActiveNets, ActiveNets') \subseteq {bans[i].net : i \in Active \cap X}
      BY <1>1, LiftNets
    <3> QED BY <1>2, <2>2, <3>1, BehindCaches
  <2> QED BY <2>1, <2>2
<1>6. EventsOK'
  BY <1>1 DEF EventsOK
<1> QED BY <1>1, <1>2, <1>3, <1>4, <1>5, <1>6, Together

\* A ban by hand begins by lifting the bans of its network; the caches are counted behind on all of it.
LEMMA ReplaceKeeps ==
  ASSUME IInv, NEW m \in Admins, Replace(m)
  PROVE  IInv'
<1>1. Inv /\ TypeInv /\ EventsOK /\ OrderOK /\ DoubledOnlyByRace /\ allow \in SUBSET Addrs
  BY Apart
<1>2. PICK n \in Networks, by \in {"app", "cli"} :
        /\ order' = [order EXCEPT ![m] = [net |-> n, by |-> by]]
        /\ bans' = Lift({i \in Rows : bans[i].net = n})
        /\ Behind({n})
  BY DEF Replace
<1>3. UNCHANGED <<events, allow, banCache, banLoad, allowCaches, call, passed>>
  BY DEF Replace
<1>4. Grown
  BY <1>1, <1>2, LiftDoes
<1>5. DoubledOnlyByRace'
  BY <1>1, <1>2, LiftedOnce
<1>6. Moved
  BY <1>1, <1>3, <1>4, SameCalls DEF Inv
<1>7. CachesOK'
  <2>1. Differing(ActiveNets, ActiveNets') \subseteq {bans[i].net : i \in Active \cap {j \in Rows : bans[j].net = n}}
    BY <1>1, <1>2, LiftNets
  <2>2. Differing(ActiveNets, ActiveNets') \subseteq {n}
    BY <2>1
  <2> QED BY <1>2, <1>3, <1>4, <2>2, BehindCaches
<1>8. EventsOK'
  BY <1>1, <1>3 DEF EventsOK
<1>9. OrderOK'
  BY <1>1, <1>2 DEF OrderOK
<1> QED BY <1>1, <1>3, <1>4, <1>5, <1>6, <1>7, <1>8, <1>9, Together

LEMMA LiftedKeeps ==
  ASSUME IInv, LiftBan \/ Unban \/ Expire
  PROVE  IInv'
<1>1. OrderOK' /\ UNCHANGED <<events, allow, banLoad, allowCaches, call, passed>>
  BY Apart DEF LiftBan, Unban, Expire, Invalidate, OrderOK
<1>2. CASE LiftBan
  <2>1. PICK i \in Active : bans' = Lift({i})
    BY <1>2 DEF LiftBan
  <2>2. banCache' = None
    BY <1>2 DEF LiftBan, Invalidate
  <2> QED BY <1>1, <2>1, <2>2, LiftKeeps
<1>3. CASE Unban
  <2>1. PICK n \in Networks :
          LET hit == {i \in Active : CoversNet(bans[i].net, n) \/ CoversNet(n, bans[i].net)} IN
          /\ bans' = Lift(hit)
          /\ Behind({bans[i].net : i \in hit})
    BY <1>3 DEF Unban
  <2> DEFINE hit == {i \in Active : CoversNet(bans[i].net, n) \/ CoversNet(n, bans[i].net)}
  <2>2. bans' = Lift(hit) /\ Behind({bans[i].net : i \in hit})
    BY <2>1
  <2>3. Active \cap hit = hit
    OBVIOUS
  <2>4. UNCHANGED banCache
    BY <1>3 DEF Unban
  <2> HIDE DEF hit
  <2>5. Behind({bans[i].net : i \in Active \cap hit})
    BY <2>2, <2>3
  <2> QED BY <1>1, <2>2, <2>4, <2>5, LiftKeeps
<1>4. CASE Expire
  <2>1. PICK i \in Active : bans' = Lift({i}) /\ Behind({bans[i].net})
    BY <1>4 DEF Expire
  <2>2. {bans[j].net : j \in Active \cap {i}} = {bans[i].net}
    OBVIOUS
  <2>3. UNCHANGED banCache
    BY <1>4 DEF Expire
  <2>4. Behind({bans[j].net : j \in Active \cap {i}})
    BY <2>1, <2>2
  <2> QED BY <1>1, <2>1, <2>3, <2>4, LiftKeeps
<1> QED BY <1>2, <1>3, <1>4

LEMMA OtherKeeps ==
  ASSUME IInv, SetAllow \/ Age \/ CacheAges
  PROVE  IInv'
<1>1. Inv /\ TypeInv /\ EventsOK /\ OrderOK /\ CachesOK /\ DoubledOnlyByRace /\ allow \in SUBSET Addrs
  BY Apart
<1>2. UNCHANGED <<bans, order>>
  BY DEF SetAllow, Age, CacheAges
<1>3. Grown /\ DoubledOnlyByRace' /\ OrderOK' /\ UNCHANGED ActiveNets
  BY <1>1, <1>2, SameRows DEF DoubledOnlyByRace, ActiveNets, Active, Rows, OrderOK
<1>4. CASE SetAllow
  <2>1. Moved /\ allow' \in SUBSET Addrs
    BY <1>1, <1>4, SetAllowMoves
  <2>2. allowCache' = None /\ allowDrift' = {} /\ UNCHANGED <<events, banCaches>>
    BY <1>4 DEF SetAllow
  <2>3. EventsOK' /\ AllowInv'
    BY <1>1, <2>2 DEF EventsOK, AllowInv
  <2>4. ListsInv' /\ CacheWrongOnlyByRace'
    BY <1>1, <1>2, <1>3, <2>2 DEF CachesOK, ListsInv, CacheWrongOnlyByRace, banCaches
  <2>5. allowCache' \in (SUBSET Addrs) \cup {None}
    BY <2>2, Zenon
  <2>6. CachesOK'
    BY <1>1, <2>2, <2>3, <2>4, <2>5 DEF CachesOK, banCaches
  <2> QED BY <1>3, <2>1, <2>3, <2>6, Together
<1>5. CASE Age
  <2>1. /\ events' \in [Addrs -> EventRow] /\ \A a \in Addrs : IsFiniteSet(events'[a].failed)
        /\ passed \subseteq passed'
        /\ \A a \in Addrs : Guilty(events'[a]) => Guilty(events[a]) \/ a \in passed'
    BY <1>1, <1>5, AgeDoes
  <2>2. UNCHANGED <<allow, caches, call>>
    BY <1>5 DEF Age
  <2>3. Moved
    BY <1>1, <1>3, <2>1, <2>2, SameCalls DEF Inv
  <2>4. CachesOK'
    BY <1>1, <1>2, <2>2, SameCaches
  <2> QED BY <1>2, <2>1, <2>2, <2>3, <2>4, CalmTogether DEF EventsOK
<1>6. CASE CacheAges
  <2>1. UNCHANGED <<events, allow, call, passed>>
    BY <1>6 DEF CacheAges
  <2>2. Moved /\ EventsOK'
    BY <1>1, <1>3, <2>1, SameCalls DEF Inv, EventsOK
  <2>3. CASE banCache' = None /\ UNCHANGED <<banLoad, allowCaches>>
    <3>1. CachesOK'
      BY <1>3, <2>1, <2>3, ForgottenCaches
    <3> QED BY <1>2, <2>1, <2>2, <3>1, CalmTogether
  <2>4. CASE allowCache' = None /\ allowDrift' = {} /\ UNCHANGED banCaches
    <3>1. ListsInv' /\ CacheWrongOnlyByRace' /\ AllowInv'
      BY <1>1, <1>2, <1>3, <2>4 DEF CachesOK, ListsInv, CacheWrongOnlyByRace, AllowInv, banCaches
    <3>2. allowCache' \in (SUBSET Addrs) \cup {None}
      BY <2>4, Zenon
    <3>3. CachesOK'
      BY <1>1, <2>4, <3>1, <3>2 DEF CachesOK, banCaches
    <3> QED BY <1>2, <2>1, <2>2, <3>3, CalmTogether
  <2> QED BY <1>6, <2>3, <2>4 DEF CacheAges
<1> QED BY <1>4, <1>5, <1>6

LEMMA StutterKeeps ==
  ASSUME IInv, UNCHANGED vars
  PROVE  IInv'
<1>1. Inv /\ TypeInv /\ EventsOK /\ CachesOK
  BY Apart
<1>2. UNCHANGED <<bans, events, allow, caches, call, order, passed>>
  BY DEF vars
<1>3. Grown
  BY <1>1, <1>2, SameRows
<1>4. Moved
  BY <1>1, <1>2, <1>3, SameCalls DEF Inv
<1>5. EventsOK' /\ CachesOK'
  BY <1>1, <1>2, SameCaches DEF EventsOK
<1> QED BY <1>2, <1>4, <1>5, CalmTogether

LEMMA InitInv ==
  ASSUME Init
  PROVE  IInv
<1> USE DEF Init
<1>1. bans \in Seq(Row) /\ DOMAIN bans = {}
  OBVIOUS
<1>2. \A a \in Addrs : events[a] = NoEvents
  OBVIOUS
<1>3. NoEvents \in EventRow /\ NoEvents.failed = {} /\ NoEvents.good = {} /\ NoEvents.count = 0
      /\ NoEvents.ghosts = 0
  BY DEF NoEvents, EventRow
<1>4. IsFiniteSet({}) /\ Cardinality({}) = 0
  BY FS_EmptySet
<1>5. \A p \in Calls : call[p] = Idle
  OBVIOUS
<1>6. TypeInv
  <2>1. events \in [Addrs -> EventRow] /\ \A a \in Addrs : IsFiniteSet(events[a].failed)
    BY <1>2, <1>3, <1>4
  <2>2. call \in [Calls -> CallRow]
    BY <1>5, IdleIs
  <2>3. /\ banCache \in (SUBSET Networks) \cup {None} /\ allowCache \in (SUBSET Addrs) \cup {None}
        /\ banLoad \in Load \cup {None}
        /\ order \in [Admins -> [net : Networks, by : {"app", "cli"}] \cup {None}]
    BY Zenon
  <2> QED BY <1>1, <2>1, <2>2, <2>3 DEF TypeInv
<1>7. ListsInv /\ AllowInv /\ CacheWrongOnlyByRace
  BY DEF ListsInv, AllowInv, CacheWrongOnlyByRace
<1>8. CallsInv
  BY <1>5, IdleIs DEF CallsInv, CallOK, CoverOK, SpareOK, Banning
<1>9. GuiltInv
  <2>1. ~Guilty(NoEvents)
    <3>1. NoEvents.failed \ NoEvents.good = {}
      BY <1>3
    <3>2. Accounts \in Nat \ {0} /\ Failures \in Nat \ {0} /\ Unknown \in Nat \ {0}
      BY Thresholds
    <3> QED BY <1>3, <1>4, <3>1, <3>2 DEF Guilty, TooMany
  <2> QED BY <1>2, <2>1 DEF GuiltInv
<1>10. DoubledOnlyByRace
  BY <1>1 DEF DoubledOnlyByRace, Active, Rows
<1> QED BY <1>6, <1>7, <1>8, <1>9, <1>10 DEF IInv

LEMMA NextKeeps ==
  ASSUME IInv, [Next]_vars
  PROVE  IInv'
<1>1. ASSUME NEW p \in Calls, Attempt(p) \/ CallStep(p) PROVE IInv'
  BY <1>1, StepKeeps, AskKeeps, AllowListReadKeeps, InsertKeeps DEF CallStep
<1>2. CASE LoadQuery \/ LoadDone \/ LoadFails
  BY <1>2, LoadKeeps
<1>3. CASE ByHand
  BY <1>3, ReplaceKeeps, InsertByHandKeeps, LiftedKeeps, OtherKeeps DEF ByHand
<1>4. CASE Expire \/ Age \/ CacheAges
  BY <1>4, LiftedKeeps, OtherKeeps
<1>5. CASE UNCHANGED vars
  BY <1>5, StutterKeeps
<1> QED BY <1>1, <1>2, <1>3, <1>4, <1>5 DEF Next

\* What the others follow from holds in every state, whatever attempts, administrators, the recovery
\* CLI and time do, and in any order.
THEOREM Inductive == Spec => []IInv
<1>1. Init => IInv
  BY InitInv
<1>2. IInv /\ [Next]_vars => IInv'
  BY NextKeeps
<1> QED BY <1>1, <1>2, PTL DEF Spec

\* The app's cached bans (isBanned, invalidateBanCache) are wrong only about networks that time or the
\* CLI changed, that are being replaced, or that changed while the list was loaded.
THEOREM CacheIsRight == Spec => []CacheWrongOnlyByRace
<1>1. IInv => CacheWrongOnlyByRace
  BY DEF IInv
<1> QED BY <1>1, Inductive, PTL

\* Whoever guesses too much (evaluateAutoBan) is banned by the time its attempts are over, or the
\* evaluation of its last failure was skipped, spared or failed, or only time made it guilty since.
THEOREM GuessersMeetBans == Spec => []GuessersAreBanned
<1>1. IInv => GuessersAreBanned
  BY DEF IInv, GuiltInv, GuessersAreBanned, Answers, Met, Rows
<1> QED BY <1>1, Inductive, PTL

\* autoBan() adds no ban to an active one that covers it, but when two evaluations overlap.
THEOREM SeldomDoubled == Spec => []DoubledOnlyByRace
<1>1. IInv => DoubledOnlyByRace
  BY DEF IInv
<1> QED BY <1>1, Inductive, PTL

\* An automatic ban covers an address of the allowlist (networkTouchesAllowlist) only when the
\* evaluation is known not to have seen it there.
THEOREM AllowedAreSpared == Spec => SparedNotBanned
<1>1. IInv => \A p \in Calls : call[p].at = "insert" =>
                \A a \in allow : Covers(call[p].target, a) => a \in call[p].drift
  BY DEF IInv, CallsInv, CallOK, SpareOK, Banning
<1>2. IInv => \A p \in Calls : Inserts(p) => \A a \in allow : Covers(call[p].target, a) => a \in call[p].drift
  BY <1>1 DEF Inserts
<1>3. IInv /\ [Next]_vars =>
        [\A p \in Calls : Inserts(p) => \A a \in allow : Covers(call[p].target, a) => a \in call[p].drift]_vars
  BY <1>2
<1> QED BY <1>3, Inductive, PTL DEF Spec, SparedNotBanned
=============================================================================
