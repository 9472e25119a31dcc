-------------------------- MODULE MailServerProofs --------------------------
(***************************************************************************)
(* Proofs about MailServer, for any folders, messages, requests and        *)
(* connections and any bounds.  StoreInv, CacheInv and ReadInv follow what *)
(* a UID stands for; QueueInv, ClientInv and FreshInv who holds which      *)
(* connection.                                                             *)
(***************************************************************************)
EXTENDS MailServer, FiniteSetTheorems, FunctionTheorems, SequenceTheorems, WellFoundedInduction, TLAPS

Steps == {"idle", "queued", "login", "run", "flags", "parse", "each", "answer", "forget", "skip", "apply"}
Kinds == {"none", "load", "flags", "move", "delete", "thread", "mkdir", "rmdir"}
BodyRow == [key : Refs, body : Messages, seen : BOOLEAN]
FolderRow == [made : BOOLEAN, next : 1..(MaxUid + 1), at : [Uids -> Messages \cup {None}]]
ObjRow == [client : Clients \cup {None}, queue : Seq(Requests), closedBusy : BOOLEAN]
CliRow == [st : {"closed", "login", "open"}, sel : Folders \cup {None}, view : SUBSET Uids, born : Nat]
ReqRow == [pc : Steps, kind : Kinds, todo : Seq(Refs), on : Objects \cup {None}, cli : Clients \cup {None},
           since : Nat, due : SUBSET Refs, turned : SUBSET Messages, found : SUBSET Uids,
           flags : SUBSET BodyRow, got : SUBSET BodyRow]

DataTypes ==
  /\ store \in [Folders -> FolderRow] /\ seen \in [Messages -> BOOLEAN]
  /\ named \in [Refs -> Messages \cup {None}] /\ remade \in SUBSET Folders
  /\ cache \in Seq(BodyRow)
TypeInv ==
  /\ DataTypes
  /\ pool \in Objects \cup {None} /\ obj \in [Objects -> ObjRow] /\ cli \in [Clients -> CliRow]
  /\ req \in [Requests -> ReqRow] /\ evicts \in Nat

\* Which steps a request of each kind takes, and when it has something to do.
ShapeOK(c) ==
  /\ c.pc = "idle" => c = Idle
  /\ c.pc \in {"flags", "parse", "each", "answer"} => c.kind \in {"load", "thread"}
  /\ c.pc = "each" => c.kind = "thread"
  /\ c.pc \in {"apply", "forget", "skip"} => c.kind \notin {"load", "thread"}
  /\ c.pc \notin {"idle", "each", "answer"} => c.todo # <<>>
  /\ c.flags \cup c.got # {} => c.kind \in {"load", "thread"}

-----------------------------------------------------------------------------
(* Who holds which connection.                                              *)

Waits(r) == req[r].pc # "idle"
Works(r) == req[r].pc \notin {"idle", "queued"}
LogsIn(r) == req[r].pc = "login"

\* A request is queued once, on its object, and works when it is the first.
QueueInv ==
  /\ \A o \in Objects : \A i \in DOMAIN obj[o].queue : LET r == obj[o].queue[i] IN Waits(r) /\ req[r].on = o
  /\ \A o \in Objects : \A i, j \in DOMAIN obj[o].queue : obj[o].queue[i] = obj[o].queue[j] => i = j
  /\ \A r \in Requests : Waits(r) => req[r].on \in Objects /\ \E i \in DOMAIN obj[req[r].on].queue : obj[req[r].on].queue[i] = r
  /\ \A r \in Requests : Works(r) => OnHead(r)

\* A connection is signed in for one object and belongs to it from then on, as long as it is open.
ClientInv ==
  /\ \A o \in Objects : obj[o].client # None => cli[obj[o].client].st = "open"
  /\ \A o, p \in Objects : obj[o].client = obj[p].client /\ obj[o].client # None => o = p
  /\ \A c \in Clients : cli[c].st = "open" => \E o \in Objects : obj[o].client = c
  /\ \A r \in Requests : LogsIn(r) => /\ req[r].cli \in Clients /\ cli[req[r].cli].st = "login"
                                      /\ obj[req[r].on].client = None
                                      /\ \A q \in Requests : req[q].cli = req[r].cli => q = r
  /\ \A o \in Objects : pool = o \/ obj[o].closedBusy \/ (obj[o].queue = <<>> /\ obj[o].client = None)
  /\ \A c \in Clients : cli[c].st # "open" => cli[c].sel = None

\* A connection that belongs to an object, or is being made for it, was begun after the last eviction
\* before each request on that object, and after the last of all while the object is in the pool.
FreshInv ==
  /\ \A o \in Objects : obj[o].client # None =>
       /\ pool = o => cli[obj[o].client].born = evicts
       /\ \A r \in Requests : req[r].on = o => cli[obj[o].client].born >= req[r].since
  /\ \A q \in Requests : LogsIn(q) =>
       /\ pool = req[q].on => cli[req[q].cli].born = evicts
       /\ \A r \in Requests : req[r].on = req[q].on => cli[req[q].cli].born >= req[r].since
  /\ FreshAfterEviction
  /\ \A r \in Requests : req[r].since <= evicts

ConnInv == QueueInv /\ ClientInv /\ FreshInv
ShapesInv == \A r \in Requests : ShapeOK(req[r])
BaseInv == TypeInv /\ ShapesInv /\ ConnInv

-----------------------------------------------------------------------------
(* What a UID stands for.                                                   *)

\* A message is the one its UID was given to, and a folder that was not made again gives each UID once.
StoreInv ==
  /\ \A k \in Refs : Message(k) # None => named[k] = Message(k) /\ store[Folder(k)].made
  /\ \A k \in Refs : named[k] # None /\ store[Folder(k)].made /\ Folder(k) \notin remade
                       => Uid(k) < store[Folder(k)].next

\* What was parsed is the message its UID was given to.
BodyOK(e) == Folder(e.key) \notin remade => e.body = named[e.key]

Unique(C) == \A i, j \in DOMAIN C : C[i].key = C[j].key => i = j
CacheInv == (\A i \in DOMAIN cache : BodyOK(cache[i])) /\ Unique(cache) /\ Len(cache) <= CacheSize

\* The flag in e is the message's, or has been changed since request c was made.
FlagOK(e, c) == Folder(e.key) \notin remade => e.seen = seen[e.body] \/ e.body \in c.turned

\* What request c has read of messages.
AnswerOK(c) ==
  /\ \A e \in c.flags \cup c.got : BodyOK(e)
  /\ \A e \in c.got : FlagOK(e, c)
  /\ c.kind = "load" /\ c.pc = "flags" => \A e \in c.flags : e.key = Head(c.todo)
  /\ c.kind = "thread" \/ c.pc = "parse" => \A e \in c.flags : FlagOK(e, c)

\* A message that was there is not any more, or nobody knows.
Lost(k) == Message(k) = None \/ Folder(k) \in remade
Has(S, k) == \E e \in S : e.key = k

\* What a conversation was asked for is on its way into the answer.
ThreadOK(c) == c.kind = "thread" =>
  /\ \A k \in c.due : named[k] # None
  /\ c.pc \in {"queued", "login", "run", "flags"} => \A k \in c.due : Folder(k) = Folder(Head(c.todo))
  /\ c.pc = "flags" => \A k \in c.due : Lost(k) \/ Uid(k) \in c.found
  /\ c.pc \in {"each", "parse"} =>
       /\ \A k \in c.due : Lost(k) \/ Has(c.got, k) \/ \E i \in DOMAIN c.todo : c.todo[i] = k
       /\ \A i \in DOMAIN c.todo : Has(c.flags, c.todo[i])
  /\ c.pc = "answer" => \A k \in c.due : Lost(k) \/ Has(c.got, k)

ReadOK(c) == AnswerOK(c) /\ ThreadOK(c)
ReadInv == \A r \in Requests : ReadOK(req[r])

IInv == BaseInv /\ StoreInv /\ CacheInv /\ ReadInv

-----------------------------------------------------------------------------
(* Numbers, and the UIDs of a folder in order.                              *)

LEMMA LessIsWellFounded ==
  \E R : IsWellFoundedOn(R, Nat) /\ \A x, y \in Nat : y < x => <<y, x>> \in R
<1> DEFINE R == OpToRel(<, Nat)
<1>1. \A x, y \in Nat : y < x => <<y, x>> \in R
  BY Zenon DEF OpToRel
<1>2. IsWellFoundedOn(R, Nat)
  BY NatLessThanWellFounded
<1>3. IsWellFoundedOn(R, Nat) /\ \A x, y \in Nat : y < x => <<y, x>> \in R
  BY <1>1, <1>2
<1> HIDE DEF R
<1> QED BY ONLY <1>3

LEMMA LeastNat ==
  ASSUME NEW T, T \subseteq Nat, T # {}
  PROVE  \E x \in T : \A y \in T : x <= y
<1>1. PICK R : IsWellFoundedOn(R, Nat) /\ \A x, y \in Nat : y < x => <<y, x>> \in R
  BY LessIsWellFounded
<1>2. PICK x \in T : \A y \in T : ~ (<<y, x>> \in R)
  BY <1>1, WFMin
<1>3. \A y \in T : ~(y < x)
  BY <1>1, <1>2
<1> QED BY <1>3

Rising(q) == \A i, j \in DOMAIN q : i < j => q[i] < q[j]
Listed(S) == \E q \in [1..Cardinality(S) -> S] : Rising(q)

LEMMA Finite ==
  ASSUME NEW n \in Nat, NEW S, S \subseteq 1..n
  PROVE  IsFiniteSet(S) /\ Cardinality(S) \in Nat
<1>1. IsFiniteSet(1..n)
  BY FS_Interval
<1>2. IsFiniteSet(S)
  BY <1>1, FS_Subset
<1> QED BY <1>2, FS_CardinalityType

\* One element more at the end of the list.
LEMMA OneMore ==
  ASSUME NEW n \in Nat, NEW S, S \subseteq 1..(n + 1), \A T : T \subseteq 1..n => Listed(T)
  PROVE  Listed(S)
<1>1. CASE n + 1 \notin S
  <2>1. S \subseteq 1..n BY <1>1
  <2> QED BY <2>1
<1>2. CASE n + 1 \in S
  <2> DEFINE T == S \ {n + 1}
             k == Cardinality(T)
  <2>1. T \subseteq 1..n
    OBVIOUS
  <2>2. IsFiniteSet(T) /\ k \in Nat
    BY <2>1, Finite
  <2>3. S = T \cup {n + 1}
    BY <1>2
  <2>4. Cardinality(S) = k + 1
    BY <2>2, <2>3, FS_AddElement
  <2>5. PICK q \in [1..k -> T] : Rising(q)
    BY <2>1 DEF Listed
  <2> HIDE DEF k, T
  <2> DEFINE p == [i \in 1..(k + 1) |-> IF i = k + 1 THEN n + 1 ELSE q[i]]
  <2>6. p \in [1..(k + 1) -> S]
    BY <2>2, <2>3, <2>5
  <2>7. ASSUME NEW i \in 1..(k + 1), NEW j \in 1..(k + 1), i < j PROVE p[i] < p[j]
    <3>4. i \in 1..k
      BY <2>2, <2>7
    <3>5. q[i] \in T
      BY <2>5, <3>4
    <3>6. i # k + 1
      BY <2>2, <3>4
    <3>1. i \in 1..k /\ p[i] = q[i] /\ q[i] \in 1..n
      BY <2>1, <3>4, <3>5, <3>6
    <3>2. CASE j = k + 1 BY <3>1, <3>2
    <3>3. CASE j # k + 1
      <4>1. j \in 1..k /\ p[j] = q[j] BY <3>3, <2>2
      <4> QED BY <4>1, <3>1, <2>5, <2>7 DEF Rising
    <3> QED BY <3>2, <3>3
  <2>8. Rising(p)
    BY <2>7 DEF Rising
  <2> HIDE DEF p
  <2> QED BY <2>4, <2>6, <2>8 DEF Listed
<1> QED BY <1>1, <1>2

LEMMA AllListed ==
  ASSUME NEW n \in Nat
  PROVE  \A S : S \subseteq 1..n => Listed(S)
<1> DEFINE Bad == {m \in Nat : ~ \A S : S \subseteq 1..m => Listed(S)}
<1>1. SUFFICES ASSUME Bad # {} PROVE FALSE
  OBVIOUS
<1>2. PICK m \in Bad : \A k \in Bad : m <= k
  BY <1>1, LeastNat
<1>3. m # 0
  <2>1. ASSUME NEW S, S \subseteq 1..0 PROVE Listed(S)
    <3>1. S = {} BY <2>1
    <3>2. Cardinality(S) = 0 BY <3>1, FS_EmptySet
    <3>3. [i \in 1..0 |-> 0] \in [1..Cardinality(S) -> S] /\ Rising([i \in 1..0 |-> 0])
      BY <3>2 DEF Rising
    <3> QED BY <3>3 DEF Listed
  <2> QED BY <2>1
<1>4. m - 1 \in Nat /\ m - 1 \notin Bad /\ m = (m - 1) + 1
  BY <1>2, <1>3
<1>5. \A S : S \subseteq 1..(m - 1) => Listed(S)
  BY <1>4
<1>6. \A S : S \subseteq 1..((m - 1) + 1) => Listed(S)
  BY <1>4, <1>5, OneMore
<1> QED BY <1>2, <1>4, <1>6

\* The references of a set of UIDs, as In gives them: each of them once.
LEMMA InOrder ==
  ASSUME NEW f \in Folders, NEW S \in SUBSET Uids
  PROVE  /\ In(f, S) \in Seq(Refs) /\ Len(In(f, S)) \in Nat /\ DOMAIN In(f, S) = 1..Len(In(f, S))
         /\ \A i \in 1..Len(In(f, S)) : \E u \in S : In(f, S)[i] = <<f, u>>
         /\ \A u \in S : \E i \in 1..Len(In(f, S)) : In(f, S)[i] = <<f, u>>
         /\ S # {} => In(f, S) # <<>>
<1> DEFINE q == Ordered(S)
           n == Cardinality(S)
<1>1. MaxUid \in Nat /\ S \subseteq 1..MaxUid
  BY Bounds DEF Uids
<1>2. IsFiniteSet(S) /\ n \in Nat
  BY <1>1, Finite
<1>3. q \in [1..n -> S] /\ Rising(q)
  BY <1>1, AllListed DEF Listed, Ordered, Rising
<1> HIDE DEF q
<1>4. \A i, j \in 1..n : q[i] = q[j] => i = j
  <2>1. SUFFICES ASSUME NEW i \in 1..n, NEW j \in 1..n, q[i] = q[j], i # j PROVE FALSE
    OBVIOUS
  <2>2. q[i] \in S /\ q[j] \in S
    BY <1>3
  <2>3. i < j \/ j < i
    BY <2>1, <1>2
  <2>4. q[i] < q[j] \/ q[j] < q[i]
    BY <1>3, <2>3 DEF Rising
  <2>5. q[i] < q[i]
    BY <2>1, <2>4
  <2>6. \A u \in S : u \in Nat
    BY <1>1
  <2> QED BY <2>2, <2>5, <2>6
<1>5. q \in Injection(1..n, S)
  BY <1>3, <1>4 DEF Injection, IsInjective
<1>6. Cardinality(1..n) = n /\ IsFiniteSet(1..n)
  BY <1>2, FS_Interval
<1>7. q \in Surjection(1..n, S)
  BY <1>2, <1>5, <1>6, FS_Injection
<1>8. \A u \in S : \E i \in 1..n : q[i] = u
  BY <1>7 DEF Surjection
<1>9. In(f, S) = [i \in 1..n |-> <<f, q[i]>>]
  BY DEF In, q
<1> HIDE DEF n
<1>10. \A i \in 1..n : <<f, q[i]>> \in Refs
  BY <1>3 DEF Refs
<1>11. In(f, S) \in Seq(Refs) /\ Len(In(f, S)) = n /\ DOMAIN In(f, S) = 1..n
  BY <1>2, <1>9, <1>10
<1>12. S # {} => n # 0
  BY <1>8
<1>13. \A i \in 1..n : In(f, S)[i] = <<f, q[i]>>
  BY <1>9
<1>14. n # 0 => In(f, S) # <<>>
  BY <1>11, <1>2
<1> QED BY <1>2, <1>3, <1>8, <1>11, <1>12, <1>13, <1>14

-----------------------------------------------------------------------------
(* Steps, by what they do to the connections.                               *)

Busy == Steps \ {"idle", "queued", "login"}

\* Request q stays where it is, or goes on with its work.
Keeps(q) ==
  /\ req'[q].on = req[q].on /\ req'[q].cli = req[q].cli /\ req'[q].since = req[q].since
  /\ req'[q].pc = req[q].pc \/ (req[q].pc \in Busy /\ req'[q].pc \in Busy)

\* The connections in C are closed, and forgotten by their objects.
Loses(C) ==
  /\ \A c \in Clients :
       IF c \in C THEN cli'[c].st = "closed" /\ cli'[c].sel = None
       ELSE /\ cli'[c].st = cli[c].st /\ cli'[c].born = cli[c].born
            /\ cli[c].st # "open" => cli'[c].sel = None
  /\ \A o \in Objects : /\ obj'[o].client = IF obj[o].client \in C THEN None ELSE obj[o].client
                        /\ obj'[o].closedBusy = obj[o].closedBusy
  /\ UNCHANGED <<pool, evicts>>

Opened == {c \in Clients : cli[c].st = "open"}

\* Requests go on, and no queue changes.
Goes(C) == Loses(C) /\ (\A q \in Requests : Keeps(q)) /\ \A o \in Objects : obj'[o].queue = obj[o].queue

\* Request r is over, and leaves its queue.
Ends(r, C) ==
  /\ Loses(C)
  /\ req'[r] = Idle /\ \A q \in Requests \ {r} : Keeps(q)
  /\ \A o \in Objects : obj'[o].queue = IF o = req[r].on THEN Tail(obj[o].queue) ELSE obj[o].queue

LEMMA GoesKeeps ==
  ASSUME BaseInv, TypeInv', NEW C \in SUBSET Opened, Goes(C)
  PROVE  ConnInv'
<1> USE DEF BaseInv
<1>1. \A q \in Requests : /\ Waits(q)' <=> Waits(q)
                          /\ Works(q)' <=> Works(q)
                          /\ LogsIn(q)' <=> LogsIn(q)
                          /\ req'[q].on = req[q].on /\ req'[q].cli = req[q].cli /\ req'[q].since = req[q].since
  BY DEF Goes, Keeps, Busy, Waits, Works, LogsIn
<1>2. \A o \in Objects : obj'[o].queue = obj[o].queue
  BY DEF Goes
<1>3. QueueInv'
  <2> USE DEF ConnInv, QueueInv
  <2>1. \A o \in Objects : \A i \in DOMAIN obj[o].queue : obj[o].queue[i] \in Requests
    BY DEF TypeInv, ObjRow
  <2>2. (\A o \in Objects : \A i \in DOMAIN obj[o].queue : LET r == obj[o].queue[i] IN Waits(r) /\ req[r].on = o)'
    BY <1>1, <1>2, <2>1
  <2>3. (\A o \in Objects : \A i, j \in DOMAIN obj[o].queue : obj[o].queue[i] = obj[o].queue[j] => i = j)'
    BY <1>2
  <2>4. (\A r \in Requests : Waits(r) => req[r].on \in Objects /\ \E i \in DOMAIN obj[req[r].on].queue : obj[req[r].on].queue[i] = r)'
    BY <1>1, <1>2
  <2>5. \A r \in Requests : Works(r) => req[r].on \in Objects
    BY DEF Works, Waits
  <2>6. (\A r \in Requests : Works(r) => OnHead(r))'
    BY <1>1, <1>2, <2>5 DEF OnHead
  <2> QED BY <2>2, <2>3, <2>4, <2>6
<1>4. \A o \in Objects : /\ obj'[o].client = IF obj[o].client \in C THEN None ELSE obj[o].client
                         /\ obj'[o].closedBusy = obj[o].closedBusy
  BY DEF Goes, Loses
<1>5. \A c \in Clients : IF c \in C THEN cli[c].st = "open" /\ cli'[c].st = "closed" /\ cli'[c].sel = None
                         ELSE /\ cli'[c].st = cli[c].st /\ cli'[c].born = cli[c].born
                              /\ cli[c].st # "open" => cli'[c].sel = None
  BY DEF Goes, Loses, Opened
<1>6. pool' = pool /\ evicts' = evicts
  BY DEF Goes, Loses
<1>7. \A o \in Objects : obj[o].client \in Clients \cup {None}
  BY DEF TypeInv, ObjRow
<1>8. \A r \in Requests : req[r].cli \in Clients \cup {None} /\ req[r].on \in Objects \cup {None}
  BY DEF TypeInv, ReqRow
<1>9. None \notin Clients /\ None \notin Objects
  BY NoneOutside
<1>10. ClientInv'
  <2> USE DEF ConnInv, ClientInv
  <2>1. (\A o \in Objects : obj[o].client # None => cli[obj[o].client].st = "open")'
    BY <1>4, <1>5, <1>7
  <2>2. (\A o, p \in Objects : obj[o].client = obj[p].client /\ obj[o].client # None => o = p)'
    BY <1>4
  <2>3. (\A c \in Clients : cli[c].st = "open" => \E o \in Objects : obj[o].client = c)'
    BY <1>4, <1>5
  <2>4. (\A r \in Requests : LogsIn(r) => /\ req[r].cli \in Clients /\ cli[req[r].cli].st = "login"
                                          /\ obj[req[r].on].client = None
                                          /\ \A q \in Requests : req[q].cli = req[r].cli => q = r)'
    <3> SUFFICES ASSUME NEW r \in Requests, LogsIn(r)'
                 PROVE  (/\ req[r].cli \in Clients /\ cli[req[r].cli].st = "login"
                         /\ obj[req[r].on].client = None
                         /\ \A q \in Requests : req[q].cli = req[r].cli => q = r)'
      OBVIOUS
    <3>1. req[r].on \in Objects
      BY <1>1 DEF QueueInv, Waits, LogsIn
    <3> QED BY <3>1, <1>1, <1>4, <1>5
  <2>5. (\A o \in Objects : pool = o \/ obj[o].closedBusy \/ (obj[o].queue = <<>> /\ obj[o].client = None))'
    BY <1>2, <1>4, <1>6
  <2>6. (\A c \in Clients : cli[c].st # "open" => cli[c].sel = None)'
    BY <1>5
  <2> QED BY <2>1, <2>2, <2>3, <2>4, <2>5, <2>6
<1>11. FreshInv'
  <2> USE DEF ConnInv, FreshInv
  <2>1. (\A o \in Objects : obj[o].client # None =>
          /\ pool = o => cli[obj[o].client].born = evicts
          /\ \A r \in Requests : req[r].on = o => cli[obj[o].client].born >= req[r].since)'
    BY <1>1, <1>4, <1>5, <1>6, <1>7
  <2>2. (\A q \in Requests : LogsIn(q) =>
          /\ pool = req[q].on => cli[req[q].cli].born = evicts
          /\ \A r \in Requests : req[r].on = req[q].on => cli[req[q].cli].born >= req[r].since)'
    BY <1>1, <1>5, <1>6 DEF ClientInv
  <2>3. FreshAfterEviction'
    BY <1>1, <1>5, <1>8 DEF FreshAfterEviction, Usable
  <2>4. (\A r \in Requests : req[r].since <= evicts)'
    BY <1>1, <1>6
  <2> QED BY <2>1, <2>2, <2>3, <2>4
<1> QED BY <1>3, <1>10, <1>11 DEF ConnInv

LEMMA TailOf ==
  ASSUME NEW S, NEW s \in Seq(S), s # <<>>
  PROVE  /\ Tail(s) \in Seq(S) /\ Head(s) = s[1] /\ 1 \in DOMAIN s
         /\ \A i \in DOMAIN Tail(s) : i + 1 \in DOMAIN s /\ i + 1 # 1 /\ Tail(s)[i] = s[i + 1]
         /\ \A i \in DOMAIN s : i # 1 => i - 1 \in DOMAIN Tail(s) /\ Tail(s)[i - 1] = s[i]
         /\ \A i, j \in DOMAIN Tail(s) : i + 1 = j + 1 => i = j
<1>1. /\ Tail(s) \in Seq(S) /\ Len(Tail(s)) = Len(s) - 1 /\ Len(s) \in Nat /\ Len(s) # 0
      /\ \A i \in 1..Len(Tail(s)) : Tail(s)[i] = s[i + 1]
  BY HeadTailProperties, EmptySeq, LenProperties
<1>2. DOMAIN s = 1..Len(s) /\ DOMAIN Tail(s) = 1..(Len(s) - 1)
  BY <1>1, LenProperties
<1>3. Head(s) = s[1]
  BY <1>1
<1> QED BY <1>1, <1>2, <1>3

\* What is left of the queue when its first request is over.
LEMMA QueueEnds ==
  ASSUME BaseInv, TypeInv', NEW r \in Requests, Works(r), NEW C, Ends(r, C)
  PROVE  /\ QueueInv'
         /\ req[r].on \in Objects /\ obj[req[r].on].queue # <<>>
         /\ \A q \in Requests \ {r} : Works(q) => req[q].on # req[r].on
<1> USE DEF BaseInv, ConnInv
<1> DEFINE a == req[r].on
           s == obj[a].queue
<1>1. a \in Objects /\ OnHead(r) /\ s \in Seq(Requests) /\ s # <<>> /\ Head(s) = r
  BY DEF QueueInv, Works, Waits, OnHead, TypeInv, ObjRow
<1>2. /\ Tail(s) \in Seq(Requests) /\ Head(s) = s[1] /\ 1 \in DOMAIN s
      /\ \A i \in DOMAIN Tail(s) : i + 1 \in DOMAIN s /\ i + 1 # 1 /\ Tail(s)[i] = s[i + 1]
      /\ \A i \in DOMAIN s : i # 1 => i - 1 \in DOMAIN Tail(s) /\ Tail(s)[i - 1] = s[i]
      /\ \A i, j \in DOMAIN Tail(s) : i + 1 = j + 1 => i = j
  BY <1>1, TailOf
<1>3. \A q \in Requests \ {r} : /\ Waits(q)' <=> Waits(q)
                                /\ Works(q)' <=> Works(q)
                                /\ req'[q].on = req[q].on
  BY DEF Ends, Keeps, Busy, Waits, Works
<1>4. ~Waits(r)' /\ ~Works(r)'
  BY DEF Ends, Idle, Waits, Works
<1>5. \A o \in Objects : obj'[o].queue = IF o = a THEN Tail(s) ELSE obj[o].queue
  BY DEF Ends
<1>6. \A o \in Objects : \A i \in DOMAIN obj[o].queue : obj[o].queue[i] \in Requests
  BY DEF TypeInv, ObjRow
<1>7. \A q \in Requests : \A i \in DOMAIN s : s[i] = q => req[q].on = a
  BY <1>1 DEF QueueInv
<1>8. \A q \in Requests \ {r} : Works(q) => req[q].on # a
  BY <1>1 DEF QueueInv, OnHead
<1>9. \A o \in Objects : o # a => \A i \in DOMAIN obj[o].queue : obj[o].queue[i] # r
  BY <1>1 DEF QueueInv
<1>10. \A i \in DOMAIN s : i # 1 => s[i] # r
  BY <1>1, <1>2 DEF QueueInv
<1> HIDE DEF s
<1>11. (\A o \in Objects : \A i \in DOMAIN obj[o].queue : LET q == obj[o].queue[i] IN Waits(q) /\ req[q].on = o)'
  <2>1. ASSUME NEW o \in Objects, NEW i \in DOMAIN obj'[o].queue
        PROVE  \E q \in Requests : obj'[o].queue[i] = q /\ req'[q].pc # "idle" /\ req'[q].on = o
    <3>1. CASE o = a
      <4>1. obj'[o].queue[i] = s[i + 1] /\ i + 1 \in DOMAIN s /\ i + 1 # 1
        BY <1>2, <1>5, <3>1
      <4>2. PICK q \in Requests : q = s[i + 1] /\ q # r
        BY <1>1, <1>6, <1>10, <4>1 DEF s
      <4>3. Waits(q) /\ req[q].on = o
        BY <1>1, <3>1, <4>1, <4>2 DEF QueueInv, s
      <4> QED BY <1>3, <4>1, <4>2, <4>3 DEF Waits
    <3>2. CASE o # a
      <4>1. obj'[o].queue = obj[o].queue
        BY <1>5, <3>2
      <4>2. PICK q \in Requests : q = obj[o].queue[i] /\ q # r
        BY <1>6, <1>9, <3>2, <4>1
      <4>3. Waits(q) /\ req[q].on = o
        BY <4>1, <4>2 DEF QueueInv
      <4> QED BY <1>3, <4>1, <4>2, <4>3 DEF Waits
    <3> QED BY <3>1, <3>2
  <2> QED BY <2>1 DEF Waits
<1>12. (\A o \in Objects : \A i, j \in DOMAIN obj[o].queue : obj[o].queue[i] = obj[o].queue[j] => i = j)'
  <2> SUFFICES ASSUME NEW o \in Objects, NEW i \in DOMAIN obj'[o].queue, NEW j \in DOMAIN obj'[o].queue,
                      obj'[o].queue[i] = obj'[o].queue[j]
               PROVE  i = j
    OBVIOUS
  <2>1. CASE o = a
    <3>1. s[i + 1] = s[j + 1] /\ i + 1 \in DOMAIN s /\ j + 1 \in DOMAIN s
      BY <1>2, <1>5, <2>1
    <3>2. i + 1 = j + 1
      BY <1>1, <3>1 DEF QueueInv, s
    <3> QED BY <1>2, <1>5, <2>1, <3>2
  <2>2. CASE o # a
    BY <1>5, <2>2 DEF QueueInv
  <2> QED BY <2>1, <2>2
<1>13. (\A q \in Requests : Waits(q) => req[q].on \in Objects /\ \E i \in DOMAIN obj[req[q].on].queue : obj[req[q].on].queue[i] = q)'
  <2> SUFFICES ASSUME NEW q \in Requests, Waits(q)'
               PROVE  req'[q].on \in Objects /\ \E i \in DOMAIN obj'[req'[q].on].queue : obj'[req'[q].on].queue[i] = q
    OBVIOUS
  <2>1. q # r /\ Waits(q) /\ req'[q].on = req[q].on
    BY <1>3, <1>4
  <2>2. PICK i \in DOMAIN obj[req[q].on].queue : req[q].on \in Objects /\ obj[req[q].on].queue[i] = q
    BY <2>1 DEF QueueInv
  <2>3. CASE req[q].on = a
    <3>1. i \in DOMAIN s /\ s[i] = q /\ i # 1
      BY <1>1, <1>2, <2>1, <2>2, <2>3 DEF s
    <3>2. i - 1 \in DOMAIN Tail(s) /\ Tail(s)[i - 1] = q
      BY <1>2, <3>1
    <3>3. req'[q].on = a /\ obj'[a].queue = Tail(s)
      BY <1>1, <1>5, <2>1, <2>3
    <3> QED BY <1>1, <3>2, <3>3
  <2>4. CASE req[q].on # a
    BY <1>5, <2>1, <2>2, <2>4
  <2> QED BY <2>3, <2>4
<1>14. (\A q \in Requests : Works(q) => OnHead(q))'
  <2> SUFFICES ASSUME NEW q \in Requests, Works(q)' PROVE OnHead(q)'
    OBVIOUS
  <2>1. q # r /\ Works(q) /\ req'[q].on = req[q].on /\ req[q].on # a
    BY <1>3, <1>4, <1>8
  <2>2. req[q].on \in Objects /\ OnHead(q)
    BY <2>1 DEF QueueInv, Works, Waits
  <2> QED BY <1>5, <2>1, <2>2 DEF OnHead
<1> QED BY <1>1, <1>8, <1>11, <1>12, <1>13, <1>14 DEF QueueInv, s
\* What a request that is over leaves behind, as far as connections go.
LEMMA EndsKeeps ==
  ASSUME BaseInv, TypeInv', NEW r \in Requests, Works(r), NEW C \in SUBSET Clients, Ends(r, C),
         C \subseteq Opened \/ (LogsIn(r) /\ C = {req[r].cli})
  PROVE  ConnInv'
<1> USE DEF BaseInv
<1> DEFINE a == req[r].on
<1>1. QueueInv' /\ a \in Objects /\ obj[a].queue # <<>> /\ \A q \in Requests \ {r} : Works(q) => req[q].on # a
  BY QueueEnds
<1>2. \A q \in Requests \ {r} : /\ LogsIn(q)' <=> LogsIn(q)
                                /\ req'[q].on = req[q].on /\ req'[q].cli = req[q].cli /\ req'[q].since = req[q].since
  BY DEF Ends, Keeps, Busy, LogsIn
<1>3. ~LogsIn(r)' /\ req'[r].cli = None /\ req'[r].on = None /\ req'[r].since = 0
  BY DEF Ends, Idle, LogsIn
<1>4. \A o \in Objects : /\ obj'[o].client = IF obj[o].client \in C THEN None ELSE obj[o].client
                         /\ obj'[o].closedBusy = obj[o].closedBusy
                         /\ obj'[o].queue = IF o = a THEN Tail(obj[o].queue) ELSE obj[o].queue
  BY DEF Ends, Loses
<1>5. \A c \in Clients : IF c \in C THEN cli'[c].st = "closed" /\ cli'[c].sel = None
                         ELSE /\ cli'[c].st = cli[c].st /\ cli'[c].born = cli[c].born
                              /\ cli[c].st # "open" => cli'[c].sel = None
  BY DEF Ends, Loses
<1>6. pool' = pool /\ evicts' = evicts
  BY DEF Ends, Loses
<1>7. \A o \in Objects : obj[o].client \in Clients \cup {None}
  BY DEF TypeInv, ObjRow
<1>8. \A q \in Requests : req[q].cli \in Clients \cup {None} /\ req[q].on \in Objects \cup {None} /\ req[q].since \in Nat
  BY DEF TypeInv, ReqRow
<1>9. None \notin Clients /\ None \notin Objects /\ evicts \in Nat
  BY NoneOutside DEF TypeInv
<1>10. \A q \in Requests \ {r} : LogsIn(q) => req[q].on \in Objects /\ req[q].cli \in Clients /\ req[q].cli \notin C
  BY DEF ConnInv, QueueInv, ClientInv, LogsIn, Waits, Opened
<1>11. \A c \in C : cli[c].st = "open" \/ \A o \in Objects : obj[o].client # c
  BY <1>9 DEF Opened, ConnInv, ClientInv
<1>12. \A c \in C : cli[c].st = "open" \/ \A q \in Requests \ {r} : req[q].cli # c
  BY DEF Opened, ConnInv, ClientInv
<1>13. ClientInv'
  <2> USE DEF ConnInv, ClientInv
  <2>1. (\A o \in Objects : obj[o].client # None => cli[obj[o].client].st = "open")'
    BY <1>4, <1>5, <1>7
  <2>2. (\A o, p \in Objects : obj[o].client = obj[p].client /\ obj[o].client # None => o = p)'
    BY <1>4
  <2>3. (\A c \in Clients : cli[c].st = "open" => \E o \in Objects : obj[o].client = c)'
    BY <1>4, <1>5
  <2>4. (\A q \in Requests : LogsIn(q) => /\ req[q].cli \in Clients /\ cli[req[q].cli].st = "login"
                                          /\ obj[req[q].on].client = None
                                          /\ \A p \in Requests : req[p].cli = req[q].cli => p = q)'
    <3> SUFFICES ASSUME NEW q \in Requests, LogsIn(q)'
                 PROVE  (/\ req[q].cli \in Clients /\ cli[req[q].cli].st = "login"
                         /\ obj[req[q].on].client = None
                         /\ \A p \in Requests : req[p].cli = req[q].cli => p = q)'
      OBVIOUS
    <3>1. q # r /\ LogsIn(q) /\ req[q].on \in Objects /\ req[q].cli \in Clients /\ req[q].cli \notin C
      BY <1>2, <1>3, <1>10
    <3>2. cli'[req[q].cli].st = "login" /\ obj'[req[q].on].client = None
      BY <1>4, <1>5, <3>1
    <3>3. \A p \in Requests : req'[p].cli = req[q].cli => p = q
      BY <1>2, <1>3, <1>9, <3>1
    <3> QED BY <1>2, <3>1, <3>2, <3>3
  <2>5. (\A o \in Objects : pool = o \/ obj[o].closedBusy \/ (obj[o].queue = <<>> /\ obj[o].client = None))'
    BY <1>1, <1>4, <1>6
  <2>6. (\A c \in Clients : cli[c].st # "open" => cli[c].sel = None)'
    BY <1>5
  <2> QED BY <2>1, <2>2, <2>3, <2>4, <2>5, <2>6
<1>14. FreshInv'
  <2> USE DEF ConnInv, FreshInv
  <2>1. (\A o \in Objects : obj[o].client # None =>
          /\ pool = o => cli[obj[o].client].born = evicts
          /\ \A q \in Requests : req[q].on = o => cli[obj[o].client].born >= req[q].since)'
    BY <1>2, <1>3, <1>4, <1>5, <1>6, <1>7, <1>9
  <2>2. (\A q \in Requests : LogsIn(q) =>
          /\ pool = req[q].on => cli[req[q].cli].born = evicts
          /\ \A p \in Requests : req[p].on = req[q].on => cli[req[q].cli].born >= req[p].since)'
    BY <1>2, <1>3, <1>5, <1>6, <1>9, <1>10
  <2>3. FreshAfterEviction'
    BY <1>2, <1>3, <1>5, <1>8 DEF FreshAfterEviction, Usable
  <2>4. (\A q \in Requests : req[q].since <= evicts)'
    BY <1>2, <1>3, <1>6, <1>9
  <2> QED BY <2>1, <2>2, <2>3, <2>4
<1> QED BY <1>1, <1>13, <1>14 DEF ConnInv

SameReq(q) == /\ req'[q].on = req[q].on /\ req'[q].cli = req[q].cli /\ req'[q].since = req[q].since
              /\ req'[q].pc = req[q].pc

\* A new request at the end of the queue of o, which is the pool's object or becomes it.
Joins(r, o) ==
  /\ ~Waits(r)
  /\ req'[r].pc = "queued" /\ req'[r].on = o /\ req'[r].cli = None /\ req'[r].since = evicts
  /\ \A q \in Requests \ {r} : SameReq(q)
  /\ IF pool = None THEN Gone(o) ELSE o = pool
  /\ pool' = o
  /\ obj'[o].queue = Append(obj[o].queue, r) /\ obj'[o].client = obj[o].client
  /\ \A p \in Objects \ {o} : obj'[p] = obj[p]
  /\ UNCHANGED <<cli, evicts>>

LEMMA AppendTo ==
  ASSUME NEW S, NEW s \in Seq(S), NEW e \in S
  PROVE  /\ Append(s, e) \in Seq(S) /\ Append(s, e) # <<>>
         /\ Len(s) + 1 \in DOMAIN Append(s, e) /\ Len(s) + 1 \notin DOMAIN s /\ Append(s, e)[Len(s) + 1] = e
         /\ \A i \in DOMAIN Append(s, e) : i \in DOMAIN s \/ i = Len(s) + 1
         /\ \A i \in DOMAIN s : i \in DOMAIN Append(s, e) /\ Append(s, e)[i] = s[i]
         /\ s # <<>> => Head(Append(s, e)) = Head(s)
<1>1. /\ Append(s, e) \in Seq(S) /\ Append(s, e) # <<>> /\ Len(Append(s, e)) = Len(s) + 1
      /\ \A i \in 1..Len(s) : Append(s, e)[i] = s[i]
      /\ Append(s, e)[Len(s) + 1] = e
  BY AppendProperties
<1>2. Len(s) \in Nat /\ DOMAIN s = 1..Len(s) /\ DOMAIN Append(s, e) = 1..(Len(s) + 1)
  BY <1>1, LenProperties
<1>3. ASSUME s # <<>> PROVE Head(Append(s, e)) = Head(s)
  <2>1. 1 \in 1..Len(s)
    BY <1>2, <1>3, EmptySeq
  <2> QED BY <1>1, <2>1
<1> QED BY <1>1, <1>2, <1>3

LEMMA QueueJoins ==
  ASSUME BaseInv, TypeInv', NEW r \in Requests, NEW o \in Objects, Joins(r, o)
  PROVE  QueueInv'
<1> USE DEF BaseInv, ConnInv
<1> DEFINE s == obj[o].queue
           t == Append(s, r)
           n == Len(s) + 1
<1>1. s \in Seq(Requests)
  BY DEF TypeInv, ObjRow
<1>2. /\ t # <<>> /\ n \in DOMAIN t /\ n \notin DOMAIN s /\ t[n] = r
      /\ \A i \in DOMAIN t : i \in DOMAIN s \/ i = n
      /\ \A i \in DOMAIN s : i \in DOMAIN t /\ t[i] = s[i]
      /\ s # <<>> => Head(t) = Head(s)
  BY <1>1, AppendTo
<1>3. \A q \in Requests \ {r} : /\ Waits(q)' <=> Waits(q)
                                /\ Works(q)' <=> Works(q)
                                /\ req'[q].on = req[q].on
  BY DEF Joins, SameReq, Waits, Works
<1>4. Waits(r)' /\ ~Works(r)' /\ req'[r].on = o
  BY DEF Joins, Waits, Works
<1>5. obj'[o].queue = t /\ \A p \in Objects \ {o} : obj'[p] = obj[p]
  BY DEF Joins
<1>6. \A p \in Objects : \A i \in DOMAIN obj[p].queue : obj[p].queue[i] \in Requests /\ obj[p].queue[i] # r
  BY DEF TypeInv, ObjRow, QueueInv, Joins
<1>7. \A p \in Objects : \A i \in DOMAIN obj[p].queue : \E q \in Requests : q = obj[p].queue[i] /\ req'[q].pc # "idle" /\ req'[q].on = p
  BY <1>3, <1>6 DEF QueueInv, Waits
<1>8. \A i \in DOMAIN s : s[i] # r
  BY <1>6
<1>9. \A i, j \in DOMAIN s : s[i] = s[j] => i = j
  BY DEF QueueInv
<1>10. \A i \in DOMAIN s : \E q \in Requests : q = s[i] /\ req'[q].pc # "idle" /\ req'[q].on = o
  BY <1>7
<1> HIDE DEF s, t, n
<1>11. (\A p \in Objects : \A i \in DOMAIN obj[p].queue : LET q == obj[p].queue[i] IN Waits(q) /\ req[q].on = p)'
  <2>1. ASSUME NEW p \in Objects, NEW i \in DOMAIN obj'[p].queue
        PROVE  \E q \in Requests : obj'[p].queue[i] = q /\ req'[q].pc # "idle" /\ req'[q].on = p
    <3>1. CASE p = o
      BY <1>2, <1>4, <1>5, <1>10, <3>1 DEF Waits
    <3>2. CASE p # o
      BY <1>5, <1>7, <3>2
    <3> QED BY <3>1, <3>2
  <2> QED BY <2>1 DEF Waits
<1>12. (\A p \in Objects : \A i, j \in DOMAIN obj[p].queue : obj[p].queue[i] = obj[p].queue[j] => i = j)'
  <2> SUFFICES ASSUME NEW p \in Objects, NEW i \in DOMAIN obj'[p].queue, NEW j \in DOMAIN obj'[p].queue,
                      obj'[p].queue[i] = obj'[p].queue[j]
               PROVE  i = j
    OBVIOUS
  <2>1. CASE p = o
    <3>1. i \in DOMAIN t /\ j \in DOMAIN t /\ t[i] = t[j]
      BY <1>5, <2>1
    <3> QED BY <1>2, <1>8, <1>9, <3>1
  <2>2. CASE p # o
    BY <1>5, <2>2 DEF QueueInv
  <2> QED BY <2>1, <2>2
<1>13. (\A q \in Requests : Waits(q) => req[q].on \in Objects /\ \E i \in DOMAIN obj[req[q].on].queue : obj[req[q].on].queue[i] = q)'
  <2> SUFFICES ASSUME NEW q \in Requests, Waits(q)'
               PROVE  req'[q].on \in Objects /\ \E i \in DOMAIN obj'[req'[q].on].queue : obj'[req'[q].on].queue[i] = q
    OBVIOUS
  <2>1. CASE q = r
    BY <1>2, <1>4, <1>5, <2>1
  <2>2. CASE q # r
    <3>1. Waits(q) /\ req'[q].on = req[q].on
      BY <1>3, <2>2
    <3>2. PICK i \in DOMAIN obj[req[q].on].queue : req[q].on \in Objects /\ obj[req[q].on].queue[i] = q
      BY <3>1 DEF QueueInv
    <3>3. CASE req[q].on = o
      <4>1. i \in DOMAIN s /\ s[i] = q
        BY <3>2, <3>3 DEF s
      <4>2. i \in DOMAIN t /\ t[i] = q
        BY <1>2, <4>1
      <4> QED BY <1>5, <3>1, <3>3, <4>2
    <3>4. CASE req[q].on # o
      BY <1>5, <3>1, <3>2, <3>4
    <3> QED BY <3>3, <3>4
  <2> QED BY <2>1, <2>2
<1>14. (\A q \in Requests : Works(q) => OnHead(q))'
  <2> SUFFICES ASSUME NEW q \in Requests, Works(q)' PROVE OnHead(q)'
    OBVIOUS
  <2>1. q # r /\ Works(q) /\ req'[q].on = req[q].on
    BY <1>3, <1>4
  <2>2. req[q].on \in Objects /\ OnHead(q)
    BY <2>1 DEF QueueInv, Works, Waits
  <2>3. CASE req[q].on = o
    <3>1. s # <<>> /\ Head(s) = q
      BY <2>2, <2>3 DEF OnHead, s
    <3>2. t # <<>> /\ Head(t) = q
      BY <1>2, <3>1
    <3> QED BY <1>5, <2>1, <2>2, <2>3, <3>2 DEF OnHead
  <2>4. CASE req[q].on # o
    BY <1>5, <2>1, <2>2, <2>4 DEF OnHead
  <2> QED BY <2>3, <2>4
<1> QED BY <1>11, <1>12, <1>13, <1>14 DEF QueueInv

LEMMA JoinsKeeps ==
  ASSUME BaseInv, TypeInv', NEW r \in Requests, NEW o \in Objects, Joins(r, o)
  PROVE  ConnInv'
<1> USE DEF BaseInv
<1>1. QueueInv'
  BY QueueJoins
<1>2. \A q \in Requests \ {r} : /\ LogsIn(q)' <=> LogsIn(q)
                                /\ req'[q].on = req[q].on /\ req'[q].cli = req[q].cli /\ req'[q].since = req[q].since
  BY DEF Joins, SameReq, LogsIn
<1>3. ~LogsIn(r)' /\ req'[r].cli = None /\ req'[r].on = o /\ req'[r].since = evicts
  BY DEF Joins, LogsIn
<1>4. /\ \A p \in Objects : obj'[p].client = obj[p].client
      /\ \A p \in Objects \ {o} : obj'[p] = obj[p]
  BY DEF Joins
<1>5. pool' = o /\ evicts' = evicts /\ cli' = cli
  BY DEF Joins
<1>6. None \notin Clients /\ None \notin Objects /\ evicts \in Nat
  BY NoneOutside DEF TypeInv
<1>7. \A p \in Objects : obj[p].client \in Clients \cup {None}
  BY DEF TypeInv, ObjRow
<1>8. \A q \in Requests : LogsIn(q) => req[q].on \in Objects /\ req[q].cli \in Clients
  BY DEF ConnInv, QueueInv, ClientInv, LogsIn, Waits
<1>9. CASE pool = None
  <2>1. Gone(o)
    BY <1>9 DEF Joins
  <2>2. obj[o].queue = <<>> /\ obj[o].client = None
    BY <1>7, <2>1, <1>6 DEF Gone, Usable, ConnInv, ClientInv
  <2>3. \A q \in Requests : ~(Waits(q) /\ req[q].on = o)
    BY <2>2 DEF ConnInv, QueueInv
  <2>4. \A q \in Requests : LogsIn(q) => req[q].on # o
    BY <2>3 DEF LogsIn, Waits
  <2>5. \A p \in Objects : obj[p].closedBusy \/ (obj[p].queue = <<>> /\ obj[p].client = None)
    BY <1>6, <1>9 DEF ConnInv, ClientInv
  <2>6. ClientInv'
    BY <1>2, <1>3, <1>4, <1>5, <1>6, <1>8, <2>5 DEF ConnInv, ClientInv
  <2>7. FreshInv'
    <3> USE DEF ConnInv, FreshInv
    <3>1. (\A p \in Objects : obj[p].client # None =>
            /\ pool = p => cli[obj[p].client].born = evicts
            /\ \A q \in Requests : req[q].on = p => cli[obj[p].client].born >= req[q].since)'
      BY <1>2, <1>3, <1>4, <1>5, <2>2
    <3>2. (\A q \in Requests : LogsIn(q) =>
            /\ pool = req[q].on => cli[req[q].cli].born = evicts
            /\ \A p \in Requests : req[p].on = req[q].on => cli[req[q].cli].born >= req[p].since)'
      BY <1>2, <1>3, <1>5, <2>4
    <3>3. FreshAfterEviction'
      BY <1>2, <1>3, <1>5 DEF FreshAfterEviction, Usable
    <3>4. (\A q \in Requests : req[q].since <= evicts)'
      BY <1>2, <1>3, <1>5, <1>6
    <3> QED BY <3>1, <3>2, <3>3, <3>4
  <2> QED BY <1>1, <2>6, <2>7 DEF ConnInv
<1>10. CASE pool # None
  <2>1. pool = o
    BY <1>10 DEF Joins
  <2>2. ClientInv'
    BY <1>2, <1>3, <1>4, <1>5, <1>6, <1>8, <2>1 DEF ConnInv, ClientInv
  <2>3. FreshInv'
    <3> USE DEF ConnInv, FreshInv
    <3>5. \A c \in Clients : cli[c].born \in Nat
      BY DEF TypeInv, CliRow
    <3>1. (\A p \in Objects : obj[p].client # None =>
            /\ pool = p => cli[obj[p].client].born = evicts
            /\ \A q \in Requests : req[q].on = p => cli[obj[p].client].born >= req[q].since)'
      BY <1>2, <1>3, <1>4, <1>5, <1>6, <1>7, <2>1, <3>5
    <3>2. (\A q \in Requests : LogsIn(q) =>
            /\ pool = req[q].on => cli[req[q].cli].born = evicts
            /\ \A p \in Requests : req[p].on = req[q].on => cli[req[q].cli].born >= req[p].since)'
      BY <1>2, <1>3, <1>5, <1>6, <1>8, <2>1, <3>5
    <3>3. FreshAfterEviction'
      BY <1>2, <1>3, <1>5 DEF FreshAfterEviction, Usable
    <3>4. (\A q \in Requests : req[q].since <= evicts)'
      BY <1>2, <1>3, <1>5, <1>6
    <3> QED BY <3>1, <3>2, <3>3, <3>4
  <2> QED BY <1>1, <2>2, <2>3 DEF ConnInv
<1> QED BY <1>9, <1>10
\* The request at the head of its queue gets connection c.
Takes(r, c) ==
  /\ req[r].pc = "queued" /\ OnHead(r)
  /\ req'[r].on = req[r].on /\ req'[r].since = req[r].since /\ req'[r].cli = c
  /\ \A q \in Requests \ {r} : SameReq(q)
  /\ UNCHANGED <<pool, obj, evicts>>

Uses(r) ==
  /\ Takes(r, obj[req[r].on].client) /\ Usable(obj[req[r].on].client)
  /\ req'[r].pc = "run"
  /\ UNCHANGED cli

SignsIn(r, c) ==
  /\ Takes(r, c) /\ ~Usable(obj[req[r].on].client)
  /\ req'[r].pc = "login"
  /\ cli[c].st = "closed" /\ \A q \in Requests : req[q].cli # c
  /\ cli'[c].st = "login" /\ cli'[c].sel = None /\ cli'[c].born = evicts
  /\ \A d \in Clients \ {c} : cli'[d] = cli[d]

LEMMA QueueTakes ==
  ASSUME BaseInv, TypeInv', NEW r \in Requests, NEW c, Takes(r, c), req'[r].pc \in {"run", "login"}
  PROVE  /\ QueueInv'
         /\ req[r].on \in Objects
         /\ \A q \in Requests \ {r} : Works(q) => req[q].on # req[r].on
<1> USE DEF BaseInv, ConnInv
<1>1. \A q \in Requests : /\ Waits(q)' <=> Waits(q)
                          /\ req'[q].on = req[q].on
                          /\ q # r => (Works(q)' <=> Works(q))
  BY DEF Takes, SameReq, Waits, Works
<1>2. obj' = obj /\ OnHead(r)
  BY DEF Takes
<1>3. req[r].on \in Objects
  BY DEF QueueInv, Takes, Waits
<1>4. \A q \in Requests \ {r} : Works(q) => req[q].on # req[r].on
  BY <1>2 DEF QueueInv, OnHead
<1>5. \A o \in Objects : \A i \in DOMAIN obj[o].queue : obj[o].queue[i] \in Requests
  BY DEF TypeInv, ObjRow
<1>6. (\A o \in Objects : \A i \in DOMAIN obj[o].queue : LET q == obj[o].queue[i] IN Waits(q) /\ req[q].on = o)'
  BY <1>1, <1>2, <1>5 DEF QueueInv
<1>7. (\A o \in Objects : \A i, j \in DOMAIN obj[o].queue : obj[o].queue[i] = obj[o].queue[j] => i = j)'
  BY <1>2 DEF QueueInv
<1>8. (\A q \in Requests : Waits(q) => req[q].on \in Objects /\ \E i \in DOMAIN obj[req[q].on].queue : obj[req[q].on].queue[i] = q)'
  BY <1>1, <1>2 DEF QueueInv
<1>9. (\A q \in Requests : Works(q) => OnHead(q))'
  BY <1>1, <1>2 DEF QueueInv, OnHead
<1> QED BY <1>3, <1>4, <1>6, <1>7, <1>8, <1>9 DEF QueueInv

LEMMA UsesKeeps ==
  ASSUME BaseInv, TypeInv', NEW r \in Requests, Uses(r)
  PROVE  ConnInv'
<1> USE DEF BaseInv
<1> DEFINE a == req[r].on
           c == obj[a].client
<1>1. Takes(r, c) /\ req'[r].pc = "run" /\ cli' = cli /\ Usable(c)
  BY DEF Uses
<1>2. QueueInv' /\ a \in Objects /\ \A q \in Requests \ {r} : Works(q) => req[q].on # a
  BY <1>1, QueueTakes
<1>3. \A q \in Requests : /\ LogsIn(q)' <=> LogsIn(q)
                          /\ req'[q].on = req[q].on /\ req'[q].since = req[q].since
                          /\ q # r => req'[q].cli = req[q].cli
  BY <1>1 DEF Takes, SameReq, LogsIn
<1>4. ~LogsIn(r) /\ req'[r].cli = c
  BY <1>1 DEF Takes, LogsIn
<1>5. pool' = pool /\ obj' = obj /\ evicts' = evicts
  BY <1>1 DEF Takes
<1>6. c # None /\ cli[c].st = "open"
  BY <1>1 DEF Usable
<1>7. ClientInv'
  <2> USE DEF ConnInv, ClientInv
  <2>1. (\A q \in Requests : LogsIn(q) => /\ req[q].cli \in Clients /\ cli[req[q].cli].st = "login"
                                          /\ obj[req[q].on].client = None
                                          /\ \A p \in Requests : req[p].cli = req[q].cli => p = q)'
    <3> SUFFICES ASSUME NEW q \in Requests, LogsIn(q)'
                 PROVE  (/\ req[q].cli \in Clients /\ cli[req[q].cli].st = "login"
                         /\ obj[req[q].on].client = None
                         /\ \A p \in Requests : req[p].cli = req[q].cli => p = q)'
      OBVIOUS
    <3>1. q # r /\ LogsIn(q)
      BY <1>3, <1>4
    <3>2. cli[req[q].cli].st = "login"
      BY <3>1
    <3>3. req[q].cli # c
      BY <3>2, <1>6
    <3> QED BY <1>1, <1>3, <1>4, <1>5, <3>1, <3>3
  <2> QED BY <1>1, <1>5, <2>1
<1>8. FreshInv'
  <2> USE DEF ConnInv, FreshInv
  <2>1. (\A o \in Objects : obj[o].client # None =>
          /\ pool = o => cli[obj[o].client].born = evicts
          /\ \A q \in Requests : req[q].on = o => cli[obj[o].client].born >= req[q].since)'
    BY <1>1, <1>3, <1>5
  <2>2. (\A q \in Requests : LogsIn(q) =>
          /\ pool = req[q].on => cli[req[q].cli].born = evicts
          /\ \A p \in Requests : req[p].on = req[q].on => cli[req[q].cli].born >= req[p].since)'
    BY <1>1, <1>3, <1>4, <1>5
  <2>3. cli[c].born >= req[r].since
    BY <1>2, <1>6
  <2>4. FreshAfterEviction'
    BY <1>1, <1>3, <1>4, <2>3 DEF FreshAfterEviction, Usable
  <2>5. (\A q \in Requests : req[q].since <= evicts)'
    BY <1>3, <1>5
  <2> QED BY <2>1, <2>2, <2>4, <2>5
<1> QED BY <1>2, <1>7, <1>8 DEF ConnInv

LEMMA SignsInKeeps ==
  ASSUME BaseInv, TypeInv', NEW r \in Requests, NEW c \in Clients, SignsIn(r, c)
  PROVE  ConnInv'
<1> USE DEF BaseInv
<1> DEFINE a == req[r].on
<1>1. Takes(r, c) /\ req'[r].pc = "login" /\ ~Usable(obj[a].client)
  BY DEF SignsIn
<1>2. QueueInv' /\ a \in Objects /\ \A q \in Requests \ {r} : Works(q) => req[q].on # a
  BY <1>1, QueueTakes
<1>3. \A q \in Requests : /\ req'[q].on = req[q].on /\ req'[q].since = req[q].since
                          /\ q # r => (LogsIn(q)' <=> LogsIn(q)) /\ req'[q].cli = req[q].cli
  BY <1>1 DEF Takes, SameReq, LogsIn
<1>4. req'[r].cli = c
  BY <1>1 DEF Takes
<1>5. pool' = pool /\ obj' = obj /\ evicts' = evicts
  BY <1>1 DEF Takes
<1>6. /\ cli[c].st = "closed" /\ \A q \in Requests : req[q].cli # c
      /\ cli'[c].st = "login" /\ cli'[c].sel = None /\ cli'[c].born = evicts
      /\ \A d \in Clients \ {c} : cli'[d] = cli[d]
  BY DEF SignsIn
<1>7. \A o \in Objects : obj[o].client \in Clients \cup {None}
  BY DEF TypeInv, ObjRow
<1>8. \A q \in Requests : req[q].cli \in Clients \cup {None} /\ req[q].on \in Objects \cup {None}
                          /\ req[q].since \in Nat
  BY DEF TypeInv, ReqRow
<1>9. evicts \in Nat /\ None \notin Clients
  BY NoneOutside DEF TypeInv
<1>10. \A o \in Objects : obj[o].client # None => cli[obj[o].client].st = "open" /\ obj[o].client # c
  BY <1>6 DEF ConnInv, ClientInv
<1>11. obj[a].client = None
  BY <1>1, <1>2, <1>10 DEF Usable
<1>12. \A q \in Requests : LogsIn(q) => req[q].on # a \/ q = r
  BY <1>2 DEF LogsIn, Works
<1>13. ClientInv'
  <2> USE DEF ConnInv, ClientInv
  <2>1. (\A o \in Objects : obj[o].client # None => cli[obj[o].client].st = "open")'
    BY <1>5, <1>6, <1>7, <1>10
  <2>2. (\A o, p \in Objects : obj[o].client = obj[p].client /\ obj[o].client # None => o = p)'
    BY <1>5
  <2>3. (\A d \in Clients : cli[d].st = "open" => \E o \in Objects : obj[o].client = d)'
    BY <1>5, <1>6
  <2>4. (\A q \in Requests : LogsIn(q) => /\ req[q].cli \in Clients /\ cli[req[q].cli].st = "login"
                                          /\ obj[req[q].on].client = None
                                          /\ \A p \in Requests : req[p].cli = req[q].cli => p = q)'
    <3> SUFFICES ASSUME NEW q \in Requests, LogsIn(q)'
                 PROVE  (/\ req[q].cli \in Clients /\ cli[req[q].cli].st = "login"
                         /\ obj[req[q].on].client = None
                         /\ \A p \in Requests : req[p].cli = req[q].cli => p = q)'
      OBVIOUS
    <3>1. CASE q = r
      BY <1>3, <1>4, <1>5, <1>6, <1>11, <3>1
    <3>2. CASE q # r
      BY <1>3, <1>4, <1>5, <1>6, <3>2
    <3> QED BY <3>1, <3>2
  <2>5. (\A o \in Objects : pool = o \/ obj[o].closedBusy \/ (obj[o].queue = <<>> /\ obj[o].client = None))'
    BY <1>5
  <2>6. (\A d \in Clients : cli[d].st # "open" => cli[d].sel = None)'
    BY <1>6
  <2> QED BY <2>1, <2>2, <2>3, <2>4, <2>5, <2>6
<1>14. FreshInv'
  <2> USE DEF ConnInv, FreshInv
  <2>1. (\A o \in Objects : obj[o].client # None =>
          /\ pool = o => cli[obj[o].client].born = evicts
          /\ \A q \in Requests : req[q].on = o => cli[obj[o].client].born >= req[q].since)'
    BY <1>3, <1>5, <1>6, <1>7, <1>10
  <2>2. (\A q \in Requests : LogsIn(q) =>
          /\ pool = req[q].on => cli[req[q].cli].born = evicts
          /\ \A p \in Requests : req[p].on = req[q].on => cli[req[q].cli].born >= req[p].since)'
    <3> SUFFICES ASSUME NEW q \in Requests, LogsIn(q)'
                 PROVE  (/\ pool = req[q].on => cli[req[q].cli].born = evicts
                         /\ \A p \in Requests : req[p].on = req[q].on => cli[req[q].cli].born >= req[p].since)'
      OBVIOUS
    <3>1. CASE q = r
      BY <1>3, <1>4, <1>5, <1>6, <1>8, <1>9, <3>1
    <3>2. CASE q # r
      <4>1. LogsIn(q) /\ req[q].cli \in Clients /\ req[q].cli # c
        BY <1>3, <1>6, <3>2 DEF ClientInv
      <4> QED BY <1>3, <1>5, <1>6, <3>2, <4>1
    <3> QED BY <3>1, <3>2
  <2>3. FreshAfterEviction'
    BY <1>3, <1>4, <1>6, <1>8 DEF FreshAfterEviction, Usable
  <2>4. (\A q \in Requests : req[q].since <= evicts)'
    BY <1>3, <1>5
  <2> QED BY <2>1, <2>2, <2>3, <2>4
<1> QED BY <1>2, <1>13, <1>14 DEF ConnInv

\* The connection being made is signed in, and belongs to the object.
SignedIn(r) ==
  /\ LogsIn(r)
  /\ req'[r].on = req[r].on /\ req'[r].since = req[r].since /\ req'[r].cli = req[r].cli /\ req'[r].pc = "run"
  /\ \A q \in Requests \ {r} : SameReq(q)
  /\ cli'[req[r].cli].st = "open" /\ cli'[req[r].cli].born = cli[req[r].cli].born
  /\ \A d \in Clients \ {req[r].cli} : cli'[d] = cli[d]
  /\ obj'[req[r].on].client = req[r].cli /\ obj'[req[r].on].queue = obj[req[r].on].queue
  /\ obj'[req[r].on].closedBusy = obj[req[r].on].closedBusy
  /\ \A o \in Objects \ {req[r].on} : obj'[o] = obj[o]
  /\ UNCHANGED <<pool, evicts>>

LEMMA SignedInKeeps ==
  ASSUME BaseInv, TypeInv', NEW r \in Requests, SignedIn(r)
  PROVE  ConnInv'
<1> USE DEF BaseInv
<1> DEFINE a == req[r].on
           c == req[r].cli
<1>1. LogsIn(r) /\ Works(r) /\ Waits(r)
  BY DEF SignedIn, LogsIn, Works, Waits
<1>2. /\ a \in Objects /\ c \in Clients /\ cli[c].st = "login" /\ obj[a].client = None
      /\ \A q \in Requests : req[q].cli = c => q = r
  BY <1>1 DEF ConnInv, QueueInv, ClientInv
<1>3. \A q \in Requests : /\ Waits(q)' <=> Waits(q)
                          /\ Works(q)' <=> Works(q)
                          /\ req'[q].on = req[q].on /\ req'[q].cli = req[q].cli /\ req'[q].since = req[q].since
                          /\ LogsIn(q)' => LogsIn(q) /\ q # r
  BY <1>1 DEF SignedIn, SameReq, Waits, Works, LogsIn
<1>4. \A o \in Objects : /\ obj'[o].queue = obj[o].queue /\ obj'[o].closedBusy = obj[o].closedBusy
                         /\ obj'[o].client = IF o = a THEN c ELSE obj[o].client
  BY DEF SignedIn
<1>5. /\ cli'[c].st = "open" /\ cli'[c].born = cli[c].born
      /\ \A d \in Clients \ {c} : cli'[d] = cli[d]
      /\ pool' = pool /\ evicts' = evicts
  BY DEF SignedIn
<1>6. \A o \in Objects : obj[o].client \in Clients \cup {None}
  BY DEF TypeInv, ObjRow
<1>7. \A q \in Requests : req[q].cli \in Clients \cup {None} /\ req[q].on \in Objects \cup {None}
  BY DEF TypeInv, ReqRow
<1>8. \A o \in Objects : obj[o].client # None => cli[obj[o].client].st = "open" /\ obj[o].client # c
  BY <1>2 DEF ConnInv, ClientInv
<1>9. \A q \in Requests \ {r} : LogsIn(q) => req[q].on # a /\ req[q].on \in Objects /\ req[q].cli # c
  <2>1. OnHead(r)
    BY <1>1 DEF ConnInv, QueueInv
  <2>2. \A q \in Requests : LogsIn(q) => OnHead(q) /\ req[q].on \in Objects
    BY DEF ConnInv, QueueInv, LogsIn, Works, Waits
  <2> QED BY <1>2, <2>1, <2>2 DEF OnHead
<1>10. QueueInv'
  <2> USE DEF ConnInv, QueueInv
  <2>1. \A o \in Objects : \A i \in DOMAIN obj[o].queue : obj[o].queue[i] \in Requests
    BY DEF TypeInv, ObjRow
  <2>2. (\A o \in Objects : \A i \in DOMAIN obj[o].queue : LET q == obj[o].queue[i] IN Waits(q) /\ req[q].on = o)'
    BY <1>3, <1>4, <2>1
  <2>3. (\A o \in Objects : \A i, j \in DOMAIN obj[o].queue : obj[o].queue[i] = obj[o].queue[j] => i = j)'
    BY <1>4
  <2>4. (\A q \in Requests : Waits(q) => req[q].on \in Objects /\ \E i \in DOMAIN obj[req[q].on].queue : obj[req[q].on].queue[i] = q)'
    BY <1>3, <1>4
  <2>5. \A q \in Requests : Works(q) => req[q].on \in Objects
    BY DEF Works, Waits
  <2>6. (\A q \in Requests : Works(q) => OnHead(q))'
    BY <1>3, <1>4, <2>5 DEF OnHead
  <2> QED BY <2>2, <2>3, <2>4, <2>6
<1>11. ClientInv'
  <2> USE DEF ConnInv, ClientInv
  <2>1. (\A o \in Objects : obj[o].client # None => cli[obj[o].client].st = "open")'
    BY <1>2, <1>4, <1>5, <1>6, <1>8
  <2>2. (\A o, p \in Objects : obj[o].client = obj[p].client /\ obj[o].client # None => o = p)'
    BY <1>4, <1>8
  <2>3. (\A d \in Clients : cli[d].st = "open" => \E o \in Objects : obj[o].client = d)'
    <3> SUFFICES ASSUME NEW d \in Clients, cli'[d].st = "open"
                 PROVE  \E o \in Objects : obj'[o].client = d
      OBVIOUS
    <3>1. CASE d = c
      BY <1>2, <1>4, <3>1
    <3>2. CASE d # c
      <4>1. PICK o \in Objects : obj[o].client = d
        BY <1>5, <3>2
      <4>2. d # None
        BY NoneOutside
      <4> QED BY <1>2, <1>4, <4>1, <4>2
    <3> QED BY <3>1, <3>2
  <2>4. (\A q \in Requests : LogsIn(q) => /\ req[q].cli \in Clients /\ cli[req[q].cli].st = "login"
                                          /\ obj[req[q].on].client = None
                                          /\ \A p \in Requests : req[p].cli = req[q].cli => p = q)'
    <3> SUFFICES ASSUME NEW q \in Requests, LogsIn(q)'
                 PROVE  (/\ req[q].cli \in Clients /\ cli[req[q].cli].st = "login"
                         /\ obj[req[q].on].client = None
                         /\ \A p \in Requests : req[p].cli = req[q].cli => p = q)'
      OBVIOUS
    <3>1. LogsIn(q) /\ q # r
      BY <1>3
    <3>2. /\ req[q].cli \in Clients /\ cli[req[q].cli].st = "login" /\ obj[req[q].on].client = None
          /\ \A p \in Requests : req[p].cli = req[q].cli => p = q
      BY <3>1
    <3> QED BY <1>3, <1>4, <1>5, <1>9, <3>1, <3>2
  <2>5. (\A o \in Objects : pool = o \/ obj[o].closedBusy \/ (obj[o].queue = <<>> /\ obj[o].client = None))'
    <3>1. obj[a].queue # <<>>
      BY <1>1 DEF QueueInv, OnHead
    <3> QED BY <1>4, <1>5, <3>1
  <2>6. (\A d \in Clients : cli[d].st # "open" => cli[d].sel = None)'
    BY <1>5
  <2> QED BY <2>1, <2>2, <2>3, <2>4, <2>5, <2>6
<1>12. FreshInv'
  <2> USE DEF ConnInv, FreshInv
  <2>1. (\A o \in Objects : obj[o].client # None =>
          /\ pool = o => cli[obj[o].client].born = evicts
          /\ \A q \in Requests : req[q].on = o => cli[obj[o].client].born >= req[q].since)'
    BY <1>1, <1>2, <1>3, <1>4, <1>5, <1>6, <1>8
  <2>2. (\A q \in Requests : LogsIn(q) =>
          /\ pool = req[q].on => cli[req[q].cli].born = evicts
          /\ \A p \in Requests : req[p].on = req[q].on => cli[req[q].cli].born >= req[p].since)'
    BY <1>3, <1>5, <1>9 DEF ClientInv
  <2>3. FreshAfterEviction'
    <3> SUFFICES ASSUME NEW q \in Requests, Usable(req[q].cli)'
                 PROVE  cli'[req'[q].cli].born >= req'[q].since
      BY DEF FreshAfterEviction
    <3>1. CASE req[q].cli = c
      BY <1>1, <1>2, <1>3, <1>5, <3>1
    <3>2. CASE req[q].cli # c
      <4>1. Usable(req[q].cli) /\ cli'[req[q].cli] = cli[req[q].cli]
        BY <1>3, <1>5, <1>7, <3>2 DEF Usable
      <4> QED BY <1>3, <4>1 DEF FreshAfterEviction
    <3> QED BY <3>1, <3>2
  <2>4. (\A q \in Requests : req[q].since <= evicts)'
    BY <1>3, <1>5
  <2> QED BY <2>1, <2>2, <2>3, <2>4
<1> QED BY <1>10, <1>11, <1>12 DEF ConnInv

\* The pool's object leaves it, and its connection is closed.
Shuts(o) ==
  /\ pool = o /\ pool' = None
  /\ req' = req /\ evicts' >= evicts /\ evicts' \in Nat
  /\ obj'[o].client = None /\ obj'[o].queue = obj[o].queue
  /\ obj'[o].closedBusy = (obj[o].closedBusy \/ obj[o].queue # <<>>)
  /\ \A p \in Objects \ {o} : obj'[p] = obj[p]
  /\ \A c \in Clients : IF c = obj[o].client THEN cli'[c].st = "closed" /\ cli'[c].sel = None ELSE cli'[c] = cli[c]

LEMMA ShutsKeeps ==
  ASSUME BaseInv, TypeInv', NEW o \in Objects, Shuts(o)
  PROVE  ConnInv'
<1> USE DEF BaseInv
<1>1. \A q \in Requests : (LogsIn(q)' <=> LogsIn(q)) /\ (Waits(q)' <=> Waits(q)) /\ (Works(q)' <=> Works(q))
  BY DEF Shuts, LogsIn, Waits, Works
<1>2. req' = req /\ pool = o /\ pool' = None /\ evicts' >= evicts /\ evicts' \in Nat /\ evicts \in Nat
  BY DEF Shuts, TypeInv
<1>3. /\ \A p \in Objects : obj'[p].queue = obj[p].queue
      /\ \A p \in Objects \ {o} : obj'[p].client = obj[p].client /\ obj'[p].closedBusy = obj[p].closedBusy
      /\ obj'[o].client = None
  BY DEF Shuts
<1>4. obj[o].queue # <<>> => obj'[o].closedBusy
  BY DEF Shuts
<1>5. \A c \in Clients : IF c = obj[o].client THEN cli'[c].st = "closed" /\ cli'[c].sel = None ELSE cli'[c] = cli[c]
  BY DEF Shuts
<1>6. \A p \in Objects : obj[p].client \in Clients \cup {None}
  BY DEF TypeInv, ObjRow
<1>7. /\ \A q \in Requests : req[q].cli \in Clients \cup {None} /\ req[q].on \in Objects \cup {None} /\ req[q].since \in Nat
      /\ None \notin Objects
      /\ None \notin Clients
  BY NoneOutside DEF TypeInv, ReqRow
<1>8. \A q \in Requests : LogsIn(q) => req[q].on \in Objects /\ req[q].cli # obj[o].client
  BY NoneOutside DEF ConnInv, QueueInv, ClientInv, LogsIn, Waits
<1>9. QueueInv'
  <2> USE DEF ConnInv, QueueInv
  <2>1. \A p \in Objects : \A i \in DOMAIN obj[p].queue : obj[p].queue[i] \in Requests
    BY DEF TypeInv, ObjRow
  <2>2. (\A p \in Objects : \A i \in DOMAIN obj[p].queue : LET q == obj[p].queue[i] IN Waits(q) /\ req[q].on = p)'
    BY <1>1, <1>2, <1>3, <2>1
  <2>3. (\A p \in Objects : \A i, j \in DOMAIN obj[p].queue : obj[p].queue[i] = obj[p].queue[j] => i = j)'
    BY <1>3
  <2>4. (\A q \in Requests : Waits(q) => req[q].on \in Objects /\ \E i \in DOMAIN obj[req[q].on].queue : obj[req[q].on].queue[i] = q)'
    BY <1>1, <1>2, <1>3
  <2>5. \A q \in Requests : Works(q) => req[q].on \in Objects
    BY DEF Works, Waits
  <2>6. (\A q \in Requests : Works(q) => OnHead(q))'
    BY <1>1, <1>2, <1>3, <2>5 DEF OnHead
  <2> QED BY <2>2, <2>3, <2>4, <2>6
<1>10. ClientInv'
  <2> USE DEF ConnInv, ClientInv
  <2>1. (\A p \in Objects : obj[p].client # None => cli[obj[p].client].st = "open")'
    BY <1>3, <1>5, <1>6
  <2>2. (\A p, q \in Objects : obj[p].client = obj[q].client /\ obj[p].client # None => p = q)'
    BY <1>3
  <2>3. (\A c \in Clients : cli[c].st = "open" => \E p \in Objects : obj[p].client = c)'
    <3> SUFFICES ASSUME NEW c \in Clients, cli'[c].st = "open"
                 PROVE  \E p \in Objects : obj'[p].client = c
      OBVIOUS
    <3>1. c # obj[o].client /\ cli[c].st = "open"
      BY <1>5
    <3>2. PICK p \in Objects : obj[p].client = c
      BY <3>1
    <3> QED BY <1>3, <3>1, <3>2
  <2>4. (\A r \in Requests : LogsIn(r) => /\ req[r].cli \in Clients /\ cli[req[r].cli].st = "login"
                                          /\ obj[req[r].on].client = None
                                          /\ \A q \in Requests : req[q].cli = req[r].cli => q = r)'
    <3> SUFFICES ASSUME NEW r \in Requests, LogsIn(r)'
                 PROVE  (/\ req[r].cli \in Clients /\ cli[req[r].cli].st = "login"
                         /\ obj[req[r].on].client = None
                         /\ \A q \in Requests : req[q].cli = req[r].cli => q = r)'
      OBVIOUS
    <3>1. LogsIn(r)
      BY <1>1
    <3>2. req[r].on \in Objects /\ obj[req[r].on].client = None /\ req[r].cli # obj[o].client
          /\ req[r].cli \in Clients
      BY <1>8, <3>1
    <3> QED BY <1>2, <1>3, <1>5, <3>1, <3>2
  <2>5. (\A p \in Objects : pool = p \/ obj[p].closedBusy \/ (obj[p].queue = <<>> /\ obj[p].client = None))'
    <3>1. obj'[o].closedBusy \/ (obj'[o].queue = <<>> /\ obj'[o].client = None)
      BY <1>3, <1>4
    <3>2. \A p \in Objects \ {o} : obj'[p].closedBusy \/ (obj'[p].queue = <<>> /\ obj'[p].client = None)
      BY <1>2, <1>3
    <3> QED BY <3>1, <3>2
  <2>6. (\A c \in Clients : cli[c].st # "open" => cli[c].sel = None)'
    BY <1>5
  <2> QED BY <2>1, <2>2, <2>3, <2>4, <2>5, <2>6
<1>11. FreshInv'
  <2> USE DEF ConnInv, FreshInv
  <2>1. (\A p \in Objects : obj[p].client # None =>
          /\ pool = p => cli[obj[p].client].born = evicts
          /\ \A r \in Requests : req[r].on = p => cli[obj[p].client].born >= req[r].since)'
    <3> SUFFICES ASSUME NEW p \in Objects, obj'[p].client # None
                 PROVE  (/\ pool = p => cli[obj[p].client].born = evicts
                         /\ \A r \in Requests : req[r].on = p => cli[obj[p].client].born >= req[r].since)'
      OBVIOUS
    <3>1. p # o /\ obj'[p].client = obj[p].client /\ pool' # p
      BY <1>2, <1>3, <1>7
    <3>2. obj[p].client # obj[o].client
      BY <3>1 DEF ClientInv
    <3>3. cli'[obj[p].client] = cli[obj[p].client]
      BY <1>5, <1>6, <3>1, <3>2
    <3> QED BY <1>2, <3>1, <3>3
  <2>2. (\A q \in Requests : LogsIn(q) =>
          /\ pool = req[q].on => cli[req[q].cli].born = evicts
          /\ \A r \in Requests : req[r].on = req[q].on => cli[req[q].cli].born >= req[r].since)'
    <3> SUFFICES ASSUME NEW q \in Requests, LogsIn(q)'
                 PROVE  (/\ pool = req[q].on => cli[req[q].cli].born = evicts
                         /\ \A r \in Requests : req[r].on = req[q].on => cli[req[q].cli].born >= req[r].since)'
      OBVIOUS
    <3>1. LogsIn(q) /\ pool' # req[q].on /\ req[q].cli # obj[o].client
      BY <1>1, <1>2, <1>7, <1>8
    <3>2. req[q].cli \in Clients
      BY <3>1 DEF ClientInv
    <3>3. cli'[req[q].cli] = cli[req[q].cli]
      BY <1>5, <3>1, <3>2
    <3> QED BY <1>2, <3>1, <3>3
  <2>3. FreshAfterEviction'
    <3> SUFFICES ASSUME NEW q \in Requests, Usable(req[q].cli)'
                 PROVE  cli'[req'[q].cli].born >= req'[q].since
      BY DEF FreshAfterEviction
    <3>1. req[q].cli \in Clients /\ cli'[req[q].cli] = cli[req[q].cli] /\ Usable(req[q].cli)
      BY <1>2, <1>5, <1>7 DEF Usable
    <3> QED BY <1>2, <3>1 DEF FreshAfterEviction
  <2>4. (\A q \in Requests : req[q].since <= evicts)'
    BY <1>2, <1>7
  <2> QED BY <2>1, <2>2, <2>3, <2>4
<1> QED BY <1>9, <1>10, <1>11 DEF ConnInv
-----------------------------------------------------------------------------
(* Steps that leave connections open.                                       *)

\* A folder may be selected, and that is all that happens to connections.
Calm == /\ cli' \in [Clients -> CliRow]
        /\ \A c \in Clients : /\ cli'[c].st = cli[c].st /\ cli'[c].born = cli[c].born
                              /\ cli[c].st # "open" => cli'[c].sel = None

LEMMA StaysCalm ==
  ASSUME BaseInv, UNCHANGED cli
  PROVE  Calm
BY DEF BaseInv, TypeInv, ConnInv, ClientInv, Calm

LEMMA IdleIsRow == Idle \in ReqRow /\ ShapeOK(Idle)
BY NoneOutside DEF Idle, ReqRow, ShapeOK, Steps, Kinds

\* A request does its next step.
LEMMA GoesOn ==
  ASSUME BaseInv, DataTypes', NEW r \in Requests, NEW d \in ReqRow, ShapeOK(d), req' = [req EXCEPT ![r] = d],
         d.on = req[r].on, d.cli = req[r].cli, d.since = req[r].since, req[r].pc \in Busy, d.pc \in Busy,
         Calm, UNCHANGED <<pool, obj, evicts>>
  PROVE  BaseInv'
<1>1. req \in [Requests -> ReqRow]
  BY DEF BaseInv, TypeInv
<1>2. req' \in [Requests -> ReqRow] /\ req'[r] = d /\ \A q \in Requests \ {r} : req'[q] = req[q]
  BY <1>1
<1>3. TypeInv'
  BY <1>2 DEF BaseInv, TypeInv, Calm
<1>4. ShapesInv'
  BY <1>2 DEF BaseInv, ShapesInv
<1>5. \A q \in Requests : Keeps(q)
  BY <1>2 DEF Keeps
<1>6. \A o \in Objects : obj[o].client \in {} => FALSE
  OBVIOUS
<1>7. Loses({})
  BY DEF Calm, Loses
<1>8. Goes({})
  BY <1>5, <1>7 DEF Goes
<1>9. ConnInv'
  BY <1>3, <1>8, GoesKeeps
<1> QED BY <1>3, <1>4, <1>9 DEF BaseInv

\* A request is answered.
LEMMA Finishes ==
  ASSUME BaseInv, DataTypes', NEW r \in Requests, Works(r), Over(r), Calm, UNCHANGED <<pool, evicts>>
  PROVE  BaseInv'
<1> DEFINE a == req[r].on
<1>1. req \in [Requests -> ReqRow] /\ obj \in [Objects -> ObjRow]
  BY DEF BaseInv, TypeInv
<1>2. a \in Objects /\ obj[a].queue # <<>> /\ obj[a].queue \in Seq(Requests)
  BY <1>1 DEF BaseInv, ConnInv, QueueInv, Works, Waits, OnHead, ObjRow
<1>3. Tail(obj[a].queue) \in Seq(Requests)
  BY <1>2, TailOf
<1>4. req' \in [Requests -> ReqRow] /\ req'[r] = Idle /\ \A q \in Requests \ {r} : req'[q] = req[q]
  BY <1>1, IdleIsRow DEF Over
<1>5. obj' = [obj EXCEPT ![a] = [obj[a] EXCEPT !.queue = Tail(obj[a].queue)]]
  BY DEF Over
<1> DEFINE x == [obj[a] EXCEPT !.queue = Tail(obj[a].queue)]
<1>6. x \in ObjRow /\ x.client = obj[a].client /\ x.closedBusy = obj[a].closedBusy /\ x.queue = Tail(obj[a].queue)
  BY <1>1, <1>2, <1>3 DEF ObjRow
<1> HIDE DEF x
<1>7. obj' \in [Objects -> ObjRow] /\ obj'[a] = x /\ \A o \in Objects \ {a} : obj'[o] = obj[o]
  BY <1>1, <1>2, <1>5, <1>6 DEF x
<1>8. TypeInv'
  BY <1>4, <1>7 DEF BaseInv, TypeInv, Calm
<1>9. ShapesInv'
  BY <1>4, IdleIsRow DEF BaseInv, ShapesInv
<1>10. \A q \in Requests \ {r} : Keeps(q)
  BY <1>4 DEF Keeps
<1>11. Loses({})
  BY <1>6, <1>7 DEF Calm, Loses
<1>12. \A o \in Objects : obj'[o].queue = IF o = a THEN Tail(obj[o].queue) ELSE obj[o].queue
  BY <1>6, <1>7
<1>13. Ends(r, {})
  BY <1>4, <1>10, <1>11, <1>12 DEF Ends
<1>14. ConnInv'
  BY <1>8, <1>13, EndsKeeps
<1> QED BY <1>8, <1>9, <1>14 DEF BaseInv

LEMMA OnHeadWorks ==
  ASSUME BaseInv, NEW r \in Requests, Works(r)
  PROVE  OnHead(r) /\ req[r].on \in Objects
BY DEF BaseInv, ConnInv, QueueInv, Works, Waits

\* What a request does next.
LEMMA WhatIs ==
  ASSUME BaseInv, NEW r \in Requests, req[r].todo # <<>>
  PROVE  /\ What(r) \in Refs /\ Folder(What(r)) \in Folders /\ Uid(What(r)) \in Uids
         /\ What(r) = <<Folder(What(r)), Uid(What(r))>>
         /\ req[r].todo \in Seq(Refs) /\ Tail(req[r].todo) \in Seq(Refs) /\ What(r) = req[r].todo[1]
<1> DEFINE s == req[r].todo
<1>1. s \in Seq(Refs) /\ s # <<>>
  BY DEF BaseInv, TypeInv, ReqRow
<1>2. Head(s) \in Refs /\ Tail(s) \in Seq(Refs) /\ Head(s) = s[1]
  BY <1>1, HeadTailProperties, TailOf
<1> QED BY <1>1, <1>2 DEF What, Refs, Folder, Uid

\* A command sees the folder as it is, whatever its connection saw of it before.
LEMMA Commands ==
  ASSUME BaseInv, NEW r \in Requests, NEW f \in Folders, Command(r, f)
  PROVE  /\ Calm /\ Visible(r, f) = Present(f) /\ Present(f) \in SUBSET Uids
         /\ OnHead(r) /\ store[f].made /\ Alive(r)
<1> DEFINE c == req[r].cli
           x == LockFolder(c, f)
<1>1. OnHead(r) /\ store[f].made /\ Alive(r) /\ cli' = [cli EXCEPT ![c] = x]
  BY DEF Command, Alive
<1>2. c \in Clients /\ cli[c].st = "open" /\ cli \in [Clients -> CliRow]
  BY <1>1 DEF Alive, Usable, BaseInv, TypeInv, ReqRow
<1>3. Present(f) \in SUBSET Uids
  BY DEF Present
<1>4. \A d \in CliRow : LET y == [d EXCEPT !.sel = f, !.view = Present(f)]
                        IN y \in CliRow /\ y.st = d.st /\ y.born = d.born /\ y.view = Present(f)
  BY <1>3 DEF CliRow
<1>5. \A d \in CliRow : LET y == [d EXCEPT !.view = Present(f)]
                        IN y \in CliRow /\ y.st = d.st /\ y.born = d.born /\ y.view = Present(f)
  BY <1>3 DEF CliRow
<1>10. x = [cli[c] EXCEPT !.sel = f, !.view = Present(f)] \/ x = [cli[c] EXCEPT !.view = Present(f)]
  BY DEF LockFolder, Select, Noop
<1>6. x \in CliRow /\ x.st = cli[c].st /\ x.born = cli[c].born /\ x.view = Present(f)
  <2>1. PICK d \in CliRow : d = cli[c]
    BY <1>2
  <2>2. CASE x = [cli[c] EXCEPT !.sel = f, !.view = Present(f)]
    <3> HIDE DEF x
    <3> QED BY <1>4, <2>1, <2>2
  <2>3. CASE x = [cli[c] EXCEPT !.view = Present(f)]
    <3> HIDE DEF x
    <3> QED BY <1>5, <2>1, <2>3
  <2> QED BY <1>10, <2>2, <2>3
<1>7. Visible(r, f) = Present(f)
  BY <1>6 DEF Visible
<1> HIDE DEF x
<1>8. cli' \in [Clients -> CliRow] /\ cli'[c] = x /\ \A d \in Clients \ {c} : cli'[d] = cli[d]
  BY <1>1, <1>2, <1>6
<1>9. Calm
  BY <1>2, <1>6, <1>8 DEF Calm, BaseInv, ConnInv, ClientInv
<1> QED BY <1>1, <1>3, <1>7, <1>9

-----------------------------------------------------------------------------
(* The cache.                                                               *)

LEMMA RemoveAtOf ==
  ASSUME NEW S, NEW s \in Seq(S), NEW i \in DOMAIN s
  PROVE  /\ RemoveAt(s, i) \in Seq(S) /\ Len(RemoveAt(s, i)) = Len(s) - 1
         /\ \A j \in 1..(Len(s) - 1) : RemoveAt(s, i)[j] = IF j < i THEN s[j] ELSE s[j + 1]
<1> DEFINE a == SubSeq(s, 1, i - 1)
           b == SubSeq(s, i + 1, Len(s))
<1>1. Len(s) \in Nat /\ DOMAIN s = 1..Len(s) /\ i \in 1..Len(s) /\ \A j \in 1..Len(s) : s[j] \in S
  BY LenProperties
<1>2. a \in Seq(S) /\ Len(a) = i - 1 /\ \A j \in 1..(i - 1) : a[j] = s[j]
  <2>1. i - 1 \in Int /\ 1 \in Int /\ \A j \in 1..(i - 1) : s[j] \in S
    BY <1>1
  <2>2. /\ a \in Seq(S)
        /\ Len(a) = IF 1 <= i - 1 THEN (i - 1) - 1 + 1 ELSE 0
        /\ \A j \in 1 .. (i - 1) - 1 + 1 : a[j] = s[1 + j - 1]
    BY <2>1, SubSeqProperties
  <2> HIDE DEF a
  <2>3. Len(a) = i - 1
    BY <1>1, <2>2
  <2>4. \A j \in 1..(i - 1) : j \in 1 .. (i - 1) - 1 + 1 /\ 1 + j - 1 = j
    BY <1>1
  <2> QED BY <2>2, <2>3, <2>4
<1>3. b \in Seq(S) /\ Len(b) = Len(s) - i /\ \A j \in 1..(Len(s) - i) : b[j] = s[i + j]
  <2>1. i + 1 \in Int /\ Len(s) \in Int /\ \A j \in (i + 1)..Len(s) : s[j] \in S
    BY <1>1
  <2>2. /\ b \in Seq(S)
        /\ Len(b) = IF i + 1 <= Len(s) THEN Len(s) - (i + 1) + 1 ELSE 0
        /\ \A j \in 1 .. Len(s) - (i + 1) + 1 : b[j] = s[(i + 1) + j - 1]
    BY <2>1, SubSeqProperties
  <2> HIDE DEF b
  <2>3. Len(b) = Len(s) - i
    BY <1>1, <2>2
  <2>4. \A j \in 1..(Len(s) - i) : j \in 1 .. Len(s) - (i + 1) + 1 /\ (i + 1) + j - 1 = i + j
    BY <1>1
  <2> QED BY <2>2, <2>3, <2>4
<1> HIDE DEF a, b
<1>4. /\ a \o b \in Seq(S) /\ Len(a \o b) = Len(a) + Len(b)
      /\ \A j \in 1 .. Len(a) + Len(b) : (a \o b)[j] = IF j <= Len(a) THEN a[j] ELSE b[j - Len(a)]
  BY <1>2, <1>3, ConcatProperties
<1>5. Len(a) + Len(b) = Len(s) - 1
  BY <1>1, <1>2, <1>3
<1>6. ASSUME NEW j \in 1..(Len(s) - 1)
      PROVE  (a \o b)[j] = IF j < i THEN s[j] ELSE s[j + 1]
  <2>1. CASE j < i
    <3>1. j <= Len(a) /\ j \in 1..(i - 1)
      BY <1>1, <1>2, <1>6, <2>1
    <3> QED BY <1>2, <1>4, <1>5, <1>6, <2>1, <3>1
  <2>2. CASE ~(j < i)
    <3>1. ~(j <= Len(a)) /\ j - Len(a) \in 1..(Len(s) - i) /\ i + (j - Len(a)) = j + 1
      BY <1>1, <1>2, <1>6, <2>2
    <3> QED BY <1>3, <1>4, <1>5, <1>6, <2>2, <3>1
  <2> QED BY <2>1, <2>2
<1>7. RemoveAt(s, i) = a \o b
  BY DEF RemoveAt, a, b
<1> QED BY <1>4, <1>5, <1>6, <1>7

\* The cache without the body of k.
LEMMA OthersOf ==
  ASSUME cache \in Seq(BodyRow), NEW k
  PROVE  /\ Others(k) \in Seq(BodyRow)
         /\ \A i \in DOMAIN Others(k) : \E j \in DOMAIN cache : Others(k)[i] = cache[j]
         /\ Len(Others(k)) <= Len(cache)
         /\ Hit(k) => Len(Others(k)) = Len(cache) - 1
         /\ Unique(cache) => Unique(Others(k)) /\ \A i \in DOMAIN Others(k) : Others(k)[i].key # k
         /\ Hit(k) => Entry(k) \in BodyRow /\ Entry(k).key = k /\ \E i \in DOMAIN cache : cache[i] = Entry(k)
<1>1. Len(cache) \in Nat /\ DOMAIN cache = 1..Len(cache) /\ \A i \in DOMAIN cache : cache[i] \in BodyRow
  BY LenProperties
<1>2. CASE ~Hit(k)
  <2>1. Others(k) = cache
    BY <1>2 DEF Others
  <2>2. \A i \in DOMAIN cache : cache[i].key # k
    BY <1>2 DEF Hit, Key
  <2>3. Others(k) \in Seq(BodyRow) /\ Len(Others(k)) <= Len(cache)
    BY <1>1, <2>1
  <2>4. Unique(cache) => Unique(Others(k)) /\ \A i \in DOMAIN Others(k) : Others(k)[i].key # k
    BY <2>1, <2>2
  <2>5. \A i \in DOMAIN Others(k) : \E j \in DOMAIN cache : Others(k)[i] = cache[j]
    BY <2>1
  <2> QED BY <1>2, <2>3, <2>4, <2>5
<1>3. CASE Hit(k)
  <2> DEFINE p == Place(k)
             t == Others(k)
  <2>1. p \in DOMAIN cache /\ cache[p].key = k
    BY <1>3 DEF Hit, Place, Key
  <2>2. Entry(k) = cache[p]
    BY DEF Entry
  <2>3. t = RemoveAt(cache, p)
    BY <1>3 DEF Others
  <2> HIDE DEF p, t
  <2>4. /\ t \in Seq(BodyRow) /\ Len(t) = Len(cache) - 1
        /\ \A j \in 1..(Len(cache) - 1) : t[j] = IF j < p THEN cache[j] ELSE cache[j + 1]
    BY <2>1, <2>3, RemoveAtOf
  <2>5. DOMAIN t = 1..(Len(cache) - 1)
    BY <2>4, LenProperties
  <2>6. p \in 1..Len(cache)
    BY <1>1, <2>1
  <2> DEFINE at == [j \in Nat |-> IF j < p THEN j ELSE j + 1]
  <2>12. \A j \in Nat : at[j] = IF j < p THEN j ELSE j + 1
    OBVIOUS
  <2> HIDE DEF at
  <2>13. \A j \in DOMAIN t : j \in Nat /\ j >= 1 /\ j <= Len(cache) - 1
    BY <1>1, <2>5
  <2>16. p \in Int /\ 1 <= p /\ p <= Len(cache) /\ Len(cache) \in Int
    BY <1>1, <2>6
  <2>14. \A j \in DOMAIN t : at[j] \in 1..Len(cache) /\ at[j] # p
    <3>1. SUFFICES ASSUME NEW j \in DOMAIN t PROVE at[j] \in 1..Len(cache) /\ at[j] # p
      OBVIOUS
    <3>2. j \in Nat /\ j >= 1 /\ j <= Len(cache) - 1
      BY <2>13
    <3>3. CASE j < p
      <4>1. at[j] = j BY <2>12, <3>2, <3>3
      <4> QED BY <2>16, <3>2, <3>3, <4>1
    <3>4. CASE ~(j < p)
      <4>1. at[j] = j + 1 BY <2>12, <3>2, <3>4
      <4> QED BY <2>16, <3>2, <3>4, <4>1
    <3> QED BY <3>3, <3>4
  <2>15. \A j \in DOMAIN t : t[j] = cache[at[j]]
    BY <1>1, <2>4, <2>5, <2>12, <2>13
  <2>7. \A j \in DOMAIN t : at[j] \in DOMAIN cache /\ t[j] = cache[at[j]] /\ at[j] # p
    BY <1>1, <2>14, <2>15
  <2>8. \A i, j \in DOMAIN t : at[i] = at[j] => i = j
    <3>1. SUFFICES ASSUME NEW i \in DOMAIN t, NEW j \in DOMAIN t, at[i] = at[j] PROVE i = j
      OBVIOUS
    <3>2. i \in Nat /\ j \in Nat
      BY <2>13
    <3>3. (IF i < p THEN i ELSE i + 1) = (IF j < p THEN j ELSE j + 1)
      BY <2>12, <3>1, <3>2
    <3> QED BY <2>16, <3>2, <3>3
  <2>9. \A i \in DOMAIN t : \E j \in DOMAIN cache : t[i] = cache[j]
    BY <2>7
  <2>10. ASSUME Unique(cache) PROVE Unique(t) /\ \A i \in DOMAIN t : t[i].key # k
    <3>1. \A i, j \in DOMAIN cache : cache[i].key = cache[j].key => i = j
      BY <2>10 DEF Unique
    <3>2. \A i, j \in DOMAIN t : t[i].key = t[j].key => i = j
      BY <2>7, <2>8, <3>1
    <3>3. \A i \in DOMAIN t : t[i].key # k
      BY <2>1, <2>7, <3>1
    <3> QED BY <3>2, <3>3 DEF Unique
  <2>11. Len(t) <= Len(cache)
    BY <1>1, <2>4
  <2> QED BY <1>1, <2>1, <2>2, <2>4, <2>9, <2>10, <2>11 DEF t
<1> QED BY <1>2, <1>3

\* The cache holds e and what it held before, or some of it.
CacheTakes(e) ==
  /\ cache' \in Seq(BodyRow)
  /\ \A i \in DOMAIN cache' : cache'[i] = e \/ \E j \in DOMAIN cache : cache'[i] = cache[j]
  /\ Unique(cache) => Unique(cache')
  /\ Len(cache) <= CacheSize => Len(cache') <= CacheSize

LEMMA EntryBehind ==
  ASSUME cache \in Seq(BodyRow), NEW e \in BodyRow
  PROVE  LET D == Append(Others(e.key), e) IN
         /\ D \in Seq(BodyRow) /\ D # <<>> /\ Len(D) = Len(Others(e.key)) + 1
         /\ \A i \in DOMAIN D : D[i] = e \/ \E j \in DOMAIN cache : D[i] = cache[j]
         /\ Unique(cache) => Unique(D)
<1> DEFINE k == e.key
           t == Others(k)
           D == Append(t, e)
           n == Len(t) + 1
<1>1. /\ t \in Seq(BodyRow)
      /\ \A i \in DOMAIN t : \E j \in DOMAIN cache : t[i] = cache[j]
      /\ Unique(cache) => Unique(t) /\ \A i \in DOMAIN t : t[i].key # k
  BY OthersOf
<1> HIDE DEF t
<1>2. /\ D \in Seq(BodyRow) /\ D # <<>> /\ n \in DOMAIN D /\ n \notin DOMAIN t /\ D[n] = e
      /\ \A i \in DOMAIN D : i \in DOMAIN t \/ i = n
      /\ \A i \in DOMAIN t : i \in DOMAIN D /\ D[i] = t[i]
  BY <1>1, AppendTo
<1>3. Len(D) = n
  BY <1>1, AppendProperties
<1> HIDE DEF D, n
<1>4. \A i \in DOMAIN D : D[i] = e \/ \E j \in DOMAIN cache : D[i] = cache[j]
  BY <1>1, <1>2
<1>5. ASSUME Unique(cache) PROVE Unique(D)
  <2>1. (\A i, j \in DOMAIN t : t[i].key = t[j].key => i = j) /\ \A i \in DOMAIN t : t[i].key # k
    BY <1>1, <1>5 DEF Unique
  <2>2. \A i, j \in DOMAIN D : D[i].key = D[j].key => i = j
    BY <1>2, <2>1
  <2> QED BY <2>2 DEF Unique
<1> QED BY <1>2, <1>3, <1>4, <1>5 DEF D, n, t

LEMMA CacheGets ==
  ASSUME cache \in Seq(BodyRow), NEW k, Hit(k), CacheGet(k)
  PROVE  CacheTakes(Entry(k))
<1>1. Entry(k) \in BodyRow /\ Entry(k).key = k /\ Len(Others(k)) = Len(cache) - 1
  BY OthersOf
<1>2. PICK e \in BodyRow : e = Entry(k)
  BY <1>1
<1> DEFINE D == Append(Others(e.key), e)
<1>3. /\ D \in Seq(BodyRow) /\ D # <<>> /\ Len(D) = Len(Others(e.key)) + 1
      /\ \A i \in DOMAIN D : D[i] = e \/ \E j \in DOMAIN cache : D[i] = cache[j]
      /\ Unique(cache) => Unique(D)
  BY EntryBehind
<1>4. e.key = k
  BY <1>1, <1>2
<1>5. cache' = D
  BY <1>2, <1>4 DEF CacheGet
<1>6. Len(cache) \in Nat
  BY LenProperties
<1> HIDE DEF D
<1>7. Len(cache') = Len(cache)
  BY <1>1, <1>3, <1>4, <1>5, <1>6
<1>8. CacheTakes(e)
  BY <1>3, <1>5, <1>7 DEF CacheTakes
<1> QED BY <1>2, <1>8

LEMMA CacheSets ==
  ASSUME cache \in Seq(BodyRow), NEW k \in Refs, NEW m \in Messages, NEW s \in BOOLEAN, CacheSet(k, m, s)
  PROVE  CacheTakes(Body(k, m, s))
<1> DEFINE e == Body(k, m, s)
           D == Append(Others(e.key), e)
<1>1. e \in BodyRow /\ e.key = k
  BY DEF Body, BodyRow
<1>2. /\ D \in Seq(BodyRow) /\ D # <<>> /\ Len(D) = Len(Others(e.key)) + 1
      /\ \A i \in DOMAIN D : D[i] = e \/ \E j \in DOMAIN cache : D[i] = cache[j]
      /\ Unique(cache) => Unique(D)
  BY <1>1, EntryBehind
<1>3. D = Append(Others(k), [key |-> k, body |-> m, seen |-> s])
  BY <1>1 DEF Body
<1>4. cache' = IF Len(D) > CacheSize THEN Tail(D) ELSE D
  BY <1>3 DEF CacheSet, Key
<1>5. Len(Others(k)) <= Len(cache) /\ Others(k) \in Seq(BodyRow)
  BY OthersOf
<1>6. Len(cache) \in Nat /\ Len(Others(k)) \in Nat /\ CacheSize \in Nat
  BY <1>5, LenProperties, Bounds
<1>9. SUFFICES CacheTakes(e)
  OBVIOUS
<1> HIDE DEF e
<1>7. CASE Len(D) > CacheSize
  <2>1. cache' = Tail(D)
    BY <1>4, <1>7
  <2> HIDE DEF D
  <2>2. /\ Tail(D) \in Seq(BodyRow)
        /\ \A i \in DOMAIN Tail(D) : i + 1 \in DOMAIN D /\ i + 1 # 1 /\ Tail(D)[i] = D[i + 1]
        /\ \A i, j \in DOMAIN Tail(D) : i + 1 = j + 1 => i = j
    BY <1>2, TailOf
  <2>3. Len(Tail(D)) = Len(D) - 1
    BY <1>2, HeadTailProperties
  <2>4. Len(cache') <= Len(cache)
    BY <1>1, <1>2, <1>5, <1>6, <2>1, <2>3
  <2>5. ASSUME Unique(cache) PROVE Unique(Tail(D))
    <3>1. \A i, j \in DOMAIN D : D[i].key = D[j].key => i = j
      BY <1>2, <2>5 DEF Unique
    <3>2. \A i, j \in DOMAIN Tail(D) : Tail(D)[i].key = Tail(D)[j].key => i = j
      BY <2>2, <3>1
    <3> QED BY <3>2 DEF Unique
  <2>6. \A i \in DOMAIN Tail(D) : Tail(D)[i] = e \/ \E j \in DOMAIN cache : Tail(D)[i] = cache[j]
    BY <1>2, <2>2
  <2>7. Len(cache) <= CacheSize => Len(cache') <= CacheSize
    BY <1>6, <2>1, <2>2, <2>4, LenProperties
  <2> QED BY <2>1, <2>2, <2>5, <2>6, <2>7 DEF CacheTakes
<1>8. CASE ~(Len(D) > CacheSize)
  <2>1. cache' = D
    BY <1>4, <1>8
  <2>2. Len(D) \in Nat
    BY <1>2, LenProperties
  <2> HIDE DEF D
  <2>3. Len(D) <= CacheSize
    BY <1>6, <1>8, <2>2
  <2> QED BY <1>2, <2>1, <2>3 DEF CacheTakes
<1> QED BY <1>7, <1>8
-----------------------------------------------------------------------------
(* The mail store.                                                          *)

\* What a UID was given to stays what it stands for, and a message that is gone does not come back.
StoreStep ==
  /\ store' \in [Folders -> FolderRow] /\ named' \in [Refs -> Messages \cup {None}] /\ remade' \in SUBSET Folders
  /\ StoreInv' /\ remade \subseteq remade'
  /\ \A k \in Refs : named[k] # None => /\ named'[k] # None
                                        /\ Folder(k) \notin remade' => named'[k] = named[k]
                                        /\ Lost(k) => Lost(k)'

LEMMA RefIs ==
  ASSUME NEW k \in Refs
  PROVE  Folder(k) \in Folders /\ Uid(k) \in Uids /\ k = <<Folder(k), Uid(k)>>
BY DEF Refs, Folder, Uid

LEMMA StoreStays ==
  ASSUME TypeInv, StoreInv, UNCHANGED <<store, named, remade>>
  PROVE  StoreStep
<1>1. \A k \in Refs : Message(k)' = Message(k) /\ (Lost(k)' <=> Lost(k))
  BY DEF Message, Lost
<1>2. StoreInv'
  BY <1>1 DEF StoreInv
<1> QED BY <1>1, <1>2 DEF StoreStep, TypeInv, DataTypes

\* Some messages are taken out of s.
Thinned(s) ==
  /\ s \in [Folders -> FolderRow]
  /\ \A f \in Folders : /\ s[f].next = store[f].next /\ s[f].made = store[f].made
                        /\ \A u \in Uids : s[f].at[u] = store[f].at[u] \/ s[f].at[u] = None

LEMMA TakenThins ==
  ASSUME TypeInv, NEW k \in Refs
  PROVE  Thinned(Taken(store, k)) /\ Thinned(store)
<1> DEFINE f == Folder(k)
           u == Uid(k)
           x == [store[f] EXCEPT !.at = [store[f].at EXCEPT ![u] = None]]
<1>1. f \in Folders /\ u \in Uids
  BY RefIs
<1>2. store \in [Folders -> FolderRow]
  BY DEF TypeInv, DataTypes
<1>3. store[f].at \in [Uids -> Messages \cup {None}] /\ store[f] \in FolderRow
  BY <1>1, <1>2 DEF FolderRow
<1>4. [store[f].at EXCEPT ![u] = None] \in [Uids -> Messages \cup {None}]
  BY <1>3
<1>5. /\ x \in FolderRow /\ x.next = store[f].next /\ x.made = store[f].made
      /\ x.at = [store[f].at EXCEPT ![u] = None]
  BY <1>3, <1>4 DEF FolderRow
<1>6. Taken(store, k) = [store EXCEPT ![f] = x]
  BY DEF Taken
<1>7. \A v \in Uids : x.at[v] = store[f].at[v] \/ x.at[v] = None
  BY <1>3, <1>5
<1> HIDE DEF x
<1>8. Thinned(Taken(store, k))
  BY <1>1, <1>2, <1>5, <1>6, <1>7 DEF Thinned
<1>9. Thinned(store)
  BY <1>2 DEF Thinned
<1> QED BY <1>8, <1>9

LEMMA ThinsStore ==
  ASSUME TypeInv, StoreInv, NEW s, Thinned(s), store' = s, UNCHANGED <<named, remade>>
  PROVE  StoreStep
<1>1. \A k \in Refs : Message(k)' = Message(k) \/ Message(k)' = None
  BY RefIs DEF Thinned, Message
<1>2. \A f \in Folders : store'[f].next = store[f].next /\ store'[f].made = store[f].made
  BY DEF Thinned
<1>3. StoreInv'
  BY <1>1, <1>2, RefIs DEF StoreInv
<1>4. \A k \in Refs : Lost(k) => Lost(k)'
  BY <1>1 DEF Lost
<1> QED BY <1>3, <1>4 DEF StoreStep, TypeInv, DataTypes, Thinned

\* A message is given the next UID of folder f.
LEMMA PutsStore ==
  ASSUME TypeInv, StoreInv, NEW s, Thinned(s), NEW f \in Folders, NEW m \in Messages,
         store[f].made, Room(f), store' = Put(s, f, m), Name(f, m), UNCHANGED remade
  PROVE  StoreStep
<1>1. store[f].next \in 1..(MaxUid + 1) /\ MaxUid \in Nat /\ store[f].next <= MaxUid
  BY Bounds DEF TypeInv, DataTypes, FolderRow, Room
<1>2. PICK n \in Uids : n = store[f].next
  BY <1>1 DEF Uids
<1>3. /\ s \in [Folders -> FolderRow] /\ s[f] \in FolderRow /\ s[f].next = n /\ s[f].made
      /\ s[f].at \in [Uids -> Messages \cup {None}]
  BY <1>2 DEF Thinned, FolderRow
<1> DEFINE a == [s[f].at EXCEPT ![n] = m]
           t == [s[f] EXCEPT !.at = a, !.next = n + 1]
<1>4. a \in [Uids -> Messages \cup {None}] /\ a[n] = m /\ \A u \in Uids \ {n} : a[u] = s[f].at[u]
  BY <1>3
<1>5. n + 1 \in 1..(MaxUid + 1)
  BY <1>1, <1>2
<1>6. store' = [s EXCEPT ![f] = t]
  BY <1>3 DEF Put
<1> HIDE DEF a
<1>7. t \in FolderRow /\ t.at = a /\ t.next = n + 1 /\ t.made
  BY <1>3, <1>4, <1>5 DEF FolderRow
<1> HIDE DEF t
<1>8. store' \in [Folders -> FolderRow] /\ store'[f] = t /\ \A g \in Folders \ {f} : store'[g] = s[g]
  BY <1>3, <1>6, <1>7
<1> DEFINE b == <<f, n>>
<1>9. b \in Refs /\ Folder(b) = f /\ Uid(b) = n
  BY DEF Refs, Folder, Uid
<1>10. named \in [Refs -> Messages \cup {None}] /\ remade \in SUBSET Folders
  BY DEF TypeInv, DataTypes
<1>11. /\ named' \in [Refs -> Messages \cup {None}] /\ named'[b] = m
       /\ \A k \in Refs \ {b} : named'[k] = named[k]
  BY <1>2, <1>9, <1>10 DEF Name
<1>12. Message(b)' = m
  BY <1>4, <1>7, <1>8, <1>9 DEF Message
<1>13. ASSUME NEW k \in Refs, k # b
       PROVE  Message(k)' = Message(k) \/ Message(k)' = None
  <2>1. Folder(k) \in Folders /\ Uid(k) \in Uids /\ k = <<Folder(k), Uid(k)>>
    BY RefIs
  <2>2. CASE Folder(k) = f
    <3>1. Uid(k) # n
      BY <1>13, <2>1, <2>2
    <3>2. Message(k)' = s[f].at[Uid(k)]
      BY <1>4, <1>7, <1>8, <2>1, <2>2, <3>1 DEF Message
    <3> QED BY <2>1, <2>2, <3>2 DEF Thinned, Message
  <2>3. CASE Folder(k) # f
    <3>1. Message(k)' = s[Folder(k)].at[Uid(k)]
      BY <1>8, <2>1, <2>3 DEF Message
    <3> QED BY <2>1, <3>1 DEF Thinned, Message
  <2> QED BY <2>2, <2>3
<1>14. \A g \in Folders : (store'[g].made <=> store[g].made) /\ (g # f => store'[g].next = store[g].next)
  BY <1>3, <1>7, <1>8 DEF Thinned
<1>15. store'[f].next = n + 1 /\ n \in Nat
  BY <1>7, <1>8 DEF Uids
<1>16. m # None
  BY NoneOutside
<1>17. \A k \in Refs : Uid(k) \in Nat /\ Folder(k) \in Folders
  BY RefIs DEF Uids
<1> HIDE DEF b
<1>18. \A k \in Refs : Message(k)' # None => named'[k] = Message(k)' /\ store'[Folder(k)].made
  BY <1>3, <1>7, <1>8, <1>9, <1>11, <1>12, <1>13, <1>14, <1>17 DEF StoreInv
<1>19. \A k \in Refs : named'[k] # None /\ store'[Folder(k)].made /\ Folder(k) \notin remade'
                        => Uid(k) < store'[Folder(k)].next
  <2> SUFFICES ASSUME NEW k \in Refs, named'[k] # None, store'[Folder(k)].made, Folder(k) \notin remade'
               PROVE  Uid(k) < store'[Folder(k)].next
    OBVIOUS
  <2>1. CASE k = b
    BY <1>9, <1>15, <2>1
  <2>2. CASE k # b
    <3>1. Uid(k) < store[Folder(k)].next
      BY <1>11, <1>14, <1>17, <2>2 DEF StoreInv
    <3>2. CASE Folder(k) = f
      BY <1>2, <1>15, <1>17, <3>1, <3>2
    <3>3. CASE Folder(k) # f
      BY <1>14, <1>17, <3>1, <3>3
    <3> QED BY <3>2, <3>3
  <2> QED BY <2>1, <2>2
<1>20. StoreInv'
  BY <1>18, <1>19 DEF StoreInv
<1>21. \A k \in Refs : named[k] # None /\ Folder(k) \notin remade => k # b
  BY <1>2, <1>9, <1>15 DEF StoreInv
<1>22. ASSUME NEW k \in Refs, named[k] # None
       PROVE  /\ named'[k] # None
              /\ Folder(k) \notin remade' => named'[k] = named[k]
              /\ Lost(k) => Lost(k)'
  <2>1. named'[k] # None /\ (Folder(k) \notin remade => named'[k] = named[k])
    BY <1>11, <1>16, <1>21, <1>22
  <2>2. Lost(k) => Lost(k)'
    BY <1>13, <1>21, <1>22 DEF Lost
  <2> QED BY <2>1, <2>2
<1> QED BY <1>8, <1>10, <1>11, <1>20, <1>22 DEF StoreStep

LEMMA EmptyFolders ==
  /\ NoFolder \in FolderRow /\ NewFolder \in FolderRow /\ ~NoFolder.made /\ NewFolder.made
  /\ \A u \in Uids : NoFolder.at[u] = None /\ NewFolder.at[u] = None
<1>1. MaxUid \in Nat
  BY Bounds
<1>2. 1 \in 1..(MaxUid + 1)
  BY <1>1
<1> QED BY <1>2 DEF NoFolder, NewFolder, FolderRow

\* A folder that is replaced by an empty one, which is not there, or is known to be made again.
LEMMA MakesStore ==
  ASSUME TypeInv, StoreInv, NEW f \in Folders, Make(f), UNCHANGED named
  PROVE  StoreStep
<1>1. CASE store[f].made
  BY <1>1, StoreStays DEF Make
<1>2. CASE ~store[f].made
  <2>1. store' = [store EXCEPT ![f] = NewFolder]
    BY <1>2 DEF Make
  <2>2. remade' = IF \E u \in Uids : named[<<f, u>>] # None THEN remade \cup {f} ELSE remade
    BY <1>2 DEF Make
  <2>3. store \in [Folders -> FolderRow] /\ named \in [Refs -> Messages \cup {None}] /\ remade \in SUBSET Folders
    BY DEF TypeInv, DataTypes
  <2>4. store' \in [Folders -> FolderRow] /\ store'[f] = NewFolder /\ \A g \in Folders \ {f} : store'[g] = store[g]
    BY <2>1, <2>3, EmptyFolders
  <2>5. remade' \in SUBSET Folders /\ remade \subseteq remade'
    BY <2>2, <2>3
  <2>6. \A k \in Refs : Folder(k) = f => Message(k)' = None /\ Message(k) = None
    BY <1>2, <2>4, EmptyFolders, RefIs DEF Message, StoreInv
  <2>7. \A k \in Refs : Folder(k) # f => Message(k)' = Message(k) /\ store'[Folder(k)] = store[Folder(k)]
    BY <2>4, RefIs DEF Message
  <2>8. \A k \in Refs : Folder(k) = f /\ named[k] # None => f \in remade'
    <3> SUFFICES ASSUME NEW k \in Refs, Folder(k) = f, named[k] # None PROVE f \in remade'
      OBVIOUS
    <3>1. Uid(k) \in Uids /\ k = <<f, Uid(k)>>
      BY RefIs
    <3> QED BY <2>2, <3>1
  <2>9. StoreInv'
    BY <2>5, <2>6, <2>7, <2>8 DEF StoreInv
  <2>10. \A k \in Refs : Lost(k) => Lost(k)'
    BY <2>5, <2>6, <2>7 DEF Lost
  <2> QED BY <2>3, <2>4, <2>5, <2>9, <2>10 DEF StoreStep
<1> QED BY <1>1, <1>2

LEMMA DeletesStore ==
  ASSUME TypeInv, StoreInv, NEW f \in Folders, store' = [store EXCEPT ![f] = NoFolder], UNCHANGED <<named, remade>>
  PROVE  StoreStep
<1>1. store \in [Folders -> FolderRow] /\ named \in [Refs -> Messages \cup {None}] /\ remade \in SUBSET Folders
  BY DEF TypeInv, DataTypes
<1>2. store' \in [Folders -> FolderRow] /\ store'[f] = NoFolder /\ \A g \in Folders \ {f} : store'[g] = store[g]
  BY <1>1, EmptyFolders
<1>3. \A k \in Refs : Folder(k) = f => Message(k)' = None /\ ~store'[Folder(k)].made
  BY <1>2, EmptyFolders, RefIs DEF Message
<1>4. \A k \in Refs : Folder(k) # f => Message(k)' = Message(k) /\ store'[Folder(k)] = store[Folder(k)]
  BY <1>2, RefIs DEF Message
<1>5. StoreInv'
  BY <1>3, <1>4 DEF StoreInv
<1>6. \A k \in Refs : Lost(k) => Lost(k)'
  BY <1>3, <1>4 DEF Lost
<1> QED BY <1>1, <1>2, <1>5, <1>6 DEF StoreStep

-----------------------------------------------------------------------------
(* What has been read.                                                      *)

CacheStep == /\ cache' \in Seq(BodyRow) /\ Unique(cache') /\ Len(cache') <= CacheSize
             /\ \A i \in DOMAIN cache' : BodyOK(cache'[i])

LEMMA CacheStays ==
  ASSUME TypeInv, CacheInv, UNCHANGED cache
  PROVE  CacheStep
BY DEF TypeInv, DataTypes, CacheInv, CacheStep

LEMMA CacheTaken ==
  ASSUME TypeInv, CacheInv, NEW e, BodyOK(e), CacheTakes(e)
  PROVE  CacheStep
<1>1. \A i \in DOMAIN cache : BodyOK(cache[i])
  BY DEF CacheInv
<1>2. \A i \in DOMAIN cache' : BodyOK(cache'[i])
  BY <1>1 DEF CacheTakes
<1> QED BY <1>2 DEF CacheTakes, CacheInv, CacheStep

LEMMA CacheDropped ==
  ASSUME TypeInv, CacheInv, NEW k, CacheDelete(k)
  PROVE  CacheStep
<1>1. cache \in Seq(BodyRow) /\ cache' = Others(k)
  BY DEF TypeInv, DataTypes, CacheDelete
<1>2. /\ Others(k) \in Seq(BodyRow)
      /\ \A i \in DOMAIN Others(k) : \E j \in DOMAIN cache : Others(k)[i] = cache[j]
      /\ Len(Others(k)) <= Len(cache)
      /\ Unique(cache) => Unique(Others(k))
  BY <1>1, OthersOf
<1>3. \A i \in DOMAIN cache : BodyOK(cache[i])
  BY DEF CacheInv
<1>4. \A i \in DOMAIN cache' : BodyOK(cache'[i])
  BY <1>1, <1>2, <1>3
<1>5. Len(cache') <= CacheSize
  <2>1. Len(cache) \in Nat /\ Len(Others(k)) \in Nat /\ CacheSize \in Nat /\ Len(cache) <= CacheSize
    BY <1>1, <1>2, LenProperties, Bounds DEF CacheInv
  <2> QED BY <1>1, <1>2, <2>1
<1> QED BY <1>1, <1>2, <1>4, <1>5 DEF CacheInv, CacheStep

LEMMA BodyStays ==
  ASSUME StoreStep, NEW e \in BodyRow, BodyOK(e)
  PROVE  BodyOK(e)'
<1>1. e.key \in Refs /\ e.body \in Messages /\ e.body # None
  BY NoneOutside DEF BodyRow
<1> QED BY <1>1 DEF StoreStep, BodyOK

LEMMA CacheKept ==
  ASSUME StoreStep, CacheStep
  PROVE  CacheInv'
<1>1. \A e \in BodyRow : BodyOK(e) => BodyOK(e)'
  BY BodyStays
<1>2. \A i \in DOMAIN cache' : cache'[i] \in BodyRow /\ BodyOK(cache'[i])
  BY DEF CacheStep
<1>3. \A i \in DOMAIN cache' : \E e \in BodyRow : e = cache'[i] /\ BodyOK(e)'
  BY <1>1, <1>2
<1>4. \A i \in DOMAIN cache' : Folder(cache'[i].key) \notin remade' => cache'[i].body = named'[cache'[i].key]
  BY <1>3 DEF BodyOK
<1> QED BY <1>4 DEF CacheStep, CacheInv, BodyOK, Unique

\* What the turning of a flag adds to what a reading request knows.
Told(c, m) == IF c.kind \in {"load", "thread"} THEN [c EXCEPT !.turned = @ \cup {m}] ELSE c
Turned(m) == seen' = [seen EXCEPT ![m] = ~@]

LEMMA ThreadStays ==
  ASSUME StoreStep, NEW c \in ReqRow, ThreadOK(c)
  PROVE  ThreadOK(c)'
<1>1. \A k \in c.due : k \in Refs
  BY DEF ReqRow
<1>2. CASE c.kind # "thread"
  BY <1>2 DEF ThreadOK
<1>3. CASE c.kind = "thread"
  <2>1. \A k \in c.due : named[k] # None
    BY <1>3 DEF ThreadOK
  <2>2. \A k \in c.due : named'[k] # None /\ (Lost(k) => Lost(k)')
    BY <1>1, <2>1 DEF StoreStep
  <2>3. /\ c.pc \in {"queued", "login", "run", "flags"} => \A k \in c.due : Folder(k) = Folder(Head(c.todo))
        /\ c.pc = "flags" => \A k \in c.due : Lost(k) \/ Uid(k) \in c.found
        /\ c.pc \in {"each", "parse"} =>
             /\ \A k \in c.due : Lost(k) \/ Has(c.got, k) \/ \E i \in DOMAIN c.todo : c.todo[i] = k
             /\ \A i \in DOMAIN c.todo : Has(c.flags, c.todo[i])
        /\ c.pc = "answer" => \A k \in c.due : Lost(k) \/ Has(c.got, k)
    BY <1>3 DEF ThreadOK
  <2> QED BY <2>2, <2>3 DEF ThreadOK
<1> QED BY <1>2, <1>3

LEMMA ReadStays ==
  ASSUME StoreStep, UNCHANGED seen, NEW c \in ReqRow, ReadOK(c)
  PROVE  ReadOK(c)'
<1>1. ThreadOK(c)'
  BY ThreadStays DEF ReadOK
<1>2. \A e \in c.flags \cup c.got : e \in BodyRow
  BY DEF ReqRow
<1>3. \A e \in c.flags \cup c.got : BodyOK(e)'
  BY <1>2, BodyStays DEF ReadOK, AnswerOK
<1>4. \A e \in c.flags \cup c.got : FlagOK(e, c) => FlagOK(e, c)'
  BY DEF StoreStep, FlagOK
<1>5. AnswerOK(c)'
  BY <1>3, <1>4 DEF ReadOK, AnswerOK
<1> QED BY <1>1, <1>5 DEF ReadOK

LEMMA ToldIs ==
  ASSUME NEW c \in ReqRow, NEW m \in Messages
  PROVE  /\ Told(c, m) \in ReqRow
         /\ \A x \in {"pc", "kind", "todo", "on", "cli", "since", "due", "found", "flags", "got"} : Told(c, m)[x] = c[x]
         /\ c.kind \in {"load", "thread"} => Told(c, m).turned = c.turned \cup {m}
         /\ ShapeOK(c) => ShapeOK(Told(c, m))
<1>1. CASE c.kind \in {"load", "thread"}
  <2> DEFINE d == [c EXCEPT !.turned = c.turned \cup {m}]
  <2>1. Told(c, m) = d
    BY <1>1 DEF Told
  <2>2. /\ d \in ReqRow /\ d.turned = c.turned \cup {m}
        /\ d.pc = c.pc /\ d.kind = c.kind /\ d.todo = c.todo /\ d.on = c.on /\ d.cli = c.cli /\ d.since = c.since
        /\ d.due = c.due /\ d.found = c.found /\ d.flags = c.flags /\ d.got = c.got
    BY DEF ReqRow
  <2> HIDE DEF d
  <2>3. ASSUME ShapeOK(c) PROVE ShapeOK(d)
    <3>1. c.pc # "idle"
      BY <1>1, <2>3 DEF ShapeOK, Idle
    <3> QED BY <2>2, <2>3, <3>1 DEF ShapeOK
  <2> QED BY <2>1, <2>2, <2>3
<1>2. CASE c.kind \notin {"load", "thread"}
  BY <1>2 DEF Told
<1> QED BY <1>1, <1>2

LEMMA ReadTold ==
  ASSUME TypeInv, StoreInv, UNCHANGED <<store, named, remade>>, NEW m \in Messages, Turned(m),
         NEW c \in ReqRow, ShapeOK(c), ReadOK(c)
  PROVE  ReadOK(Told(c, m))'
<1>1. PICK d \in ReqRow : d = Told(c, m)
  BY ToldIs
<1>2. /\ \A x \in {"pc", "kind", "todo", "on", "cli", "since", "due", "found", "flags", "got"} : d[x] = c[x]
      /\ c.kind \in {"load", "thread"} => d.turned = c.turned \cup {m}
  BY <1>1, ToldIs
<1>3. /\ d.pc = c.pc /\ d.kind = c.kind /\ d.todo = c.todo /\ d.due = c.due /\ d.found = c.found
      /\ d.flags = c.flags /\ d.got = c.got
  BY <1>2
<1>4. StoreStep
  BY StoreStays
<1>5. ThreadOK(c)'
  BY <1>4, ThreadStays DEF ReadOK
<1>6. ThreadOK(d)'
  BY <1>3, <1>5 DEF ThreadOK
<1>7. \A e \in c.flags \cup c.got : e \in BodyRow
  BY DEF ReqRow
<1>8. \A e \in c.flags \cup c.got : BodyOK(e)'
  BY <1>4, <1>7, BodyStays DEF ReadOK, AnswerOK
<1>9. ASSUME NEW e \in c.flags \cup c.got, FlagOK(e, c)
      PROVE  FlagOK(e, d)'
  <2>1. c.kind \in {"load", "thread"}
    BY DEF ShapeOK
  <2>2. d.turned = c.turned \cup {m}
    BY <1>2, <2>1
  <2>3. seen \in [Messages -> BOOLEAN] /\ e.body \in Messages
    BY <1>7 DEF TypeInv, DataTypes, BodyRow
  <2>4. e.body # m => seen'[e.body] = seen[e.body]
    BY <2>3 DEF Turned
  <2> QED BY <1>9, <2>2, <2>4 DEF FlagOK
<1>10. AnswerOK(d)'
  BY <1>3, <1>8, <1>9 DEF ReadOK, AnswerOK
<1>11. ReadOK(d)'
  BY <1>6, <1>10 DEF ReadOK
<1> QED BY <1>1, <1>11 DEF Told
-----------------------------------------------------------------------------
(* Reading.                                                                 *)

\* What requests have read stays right.
Sound == StoreStep /\ UNCHANGED seen /\ CacheStep

LEMMA SoundTypes ==
  ASSUME TypeInv, Sound
  PROVE  DataTypes' /\ StoreInv' /\ CacheInv'
BY CacheKept DEF Sound, TypeInv, DataTypes, StoreStep, CacheStep

LEMMA Unmoved ==
  ASSUME IInv, UNCHANGED <<mail, cache>>
  PROVE  Sound
BY StoreStays, CacheStays DEF IInv, BaseInv, mail, Sound

\* Request r goes on with its work, as d.
Proceeds(r, d) ==
  /\ d \in ReqRow /\ ShapeOK(d) /\ ReadOK(d) /\ req' = [req EXCEPT ![r] = d]
  /\ d.on = req[r].on /\ d.cli = req[r].cli /\ d.since = req[r].since
  /\ req[r].pc \in Busy /\ d.pc \in Busy /\ Calm /\ UNCHANGED <<pool, obj, evicts>>

LEMMA ProceedsKeeps ==
  ASSUME IInv, NEW r \in Requests, NEW d, Proceeds(r, d), Sound
  PROVE  IInv'
<1>1. DataTypes' /\ StoreInv' /\ CacheInv'
  BY SoundTypes DEF IInv, BaseInv
<1>2. BaseInv'
  BY <1>1, GoesOn DEF Proceeds, IInv
<1>3. \A c \in ReqRow : ReadOK(c) => ReadOK(c)'
  BY ReadStays DEF Sound
<1>4. req \in [Requests -> ReqRow] /\ req' = [req EXCEPT ![r] = d] /\ d \in ReqRow
  BY DEF IInv, BaseInv, TypeInv, Proceeds
<1>5. \A q \in Requests : req'[q] \in ReqRow /\ ReadOK(req'[q])
  BY <1>4 DEF IInv, ReadInv, Proceeds
<1>6. ReadInv'
  BY <1>3, <1>5 DEF ReadInv
<1> QED BY <1>1, <1>2, <1>6 DEF IInv

LEMMA IdleReads == ReadOK(Idle)
BY DEF Idle, ReadOK, AnswerOK, ThreadOK

LEMMA RestKeeps ==
  ASSUME IInv, BaseInv', Sound, \A q \in Requests : ReadOK(req'[q])
  PROVE  IInv'
<1>1. StoreInv' /\ CacheInv'
  BY SoundTypes DEF IInv, BaseInv
<1>2. \A c \in ReqRow : ReadOK(c) => ReadOK(c)'
  BY ReadStays DEF Sound
<1>3. \A q \in Requests : req'[q] \in ReqRow
  BY DEF BaseInv, TypeInv
<1>4. ReadInv'
  BY <1>2, <1>3 DEF ReadInv
<1> QED BY <1>1, <1>4 DEF IInv

\* Request r is answered.
Concludes(r) == Works(r) /\ Over(r) /\ Calm /\ UNCHANGED <<pool, evicts>>

LEMMA ConcludesKeeps ==
  ASSUME IInv, NEW r \in Requests, Concludes(r), Sound
  PROVE  IInv'
<1>1. DataTypes'
  BY SoundTypes DEF IInv, BaseInv
<1>2. BaseInv'
  BY <1>1, Finishes DEF Concludes, IInv
<1>3. \A q \in Requests : req'[q] = IF q = r THEN Idle ELSE req[q]
  BY DEF Concludes, Over, IInv, BaseInv, TypeInv
<1>4. \A q \in Requests : ReadOK(req'[q])
  BY <1>3, IdleReads DEF IInv, ReadInv
<1> QED BY <1>2, <1>4, RestKeeps

LEMMA RowIs ==
  ASSUME IInv, NEW r \in Requests
  PROVE  /\ req[r] \in ReqRow /\ ShapeOK(req[r]) /\ ReadOK(req[r]) /\ cache \in Seq(BodyRow)
         /\ TypeInv /\ BaseInv
BY DEF IInv, BaseInv, TypeInv, DataTypes, ShapesInv, ReadInv

LEMMA EntryIs ==
  ASSUME IInv, NEW k \in Refs, Hit(k)
  PROVE  Entry(k) \in BodyRow /\ Entry(k).key = k /\ BodyOK(Entry(k))
<1>1. cache \in Seq(BodyRow)
  BY DEF IInv, BaseInv, TypeInv, DataTypes
<1>2. Entry(k) \in BodyRow /\ Entry(k).key = k /\ \E i \in DOMAIN cache : cache[i] = Entry(k)
  BY <1>1, OthersOf
<1> QED BY <1>2 DEF IInv, CacheInv

LEMMA CallsCalm ==
  ASSUME IInv, NEW r \in Requests, Works(r), Finished(r)
  PROVE  Concludes(r)
BY StaysCalm DEF IInv, Finished, Concludes

LEMMA LoadHitKeeps ==
  ASSUME IInv, NEW r \in Requests, LoadHit(r)
  PROVE  IInv'
<1> DEFINE k == What(r)
           d == [req[r] EXCEPT !.pc = "flags", !.flags = {Entry(k)}]
<1>1. req[r] \in ReqRow /\ ShapeOK(req[r]) /\ ReadOK(req[r]) /\ cache \in Seq(BodyRow) /\ TypeInv /\ BaseInv
  BY RowIs
<1>2. req[r].kind = "load" /\ req[r].pc = "run" /\ req[r].todo # <<>> /\ Hit(k)
  BY <1>1 DEF LoadHit, At, ShapeOK
<1>3. k \in Refs /\ k = req[r].todo[1]
  BY <1>1, <1>2, WhatIs
<1>4. Entry(k) \in BodyRow /\ Entry(k).key = k /\ BodyOK(Entry(k))
  BY <1>2, <1>3, EntryIs
<1>5. Calm
  BY <1>1, StaysCalm DEF LoadHit, conns
<1>6. CacheTakes(Entry(k))
  BY <1>1, <1>2, CacheGets DEF LoadHit
<1>7. Sound
  BY <1>1, <1>4, <1>6, CacheTaken, StoreStays DEF Sound, IInv, LoadHit, mail
<1>8. req' = [req EXCEPT ![r] = d]
  BY DEF LoadHit
<1>9. /\ d \in ReqRow /\ d.pc = "flags" /\ d.flags = {Entry(k)} /\ d.kind = "load" /\ d.todo = req[r].todo
      /\ d.on = req[r].on /\ d.cli = req[r].cli /\ d.since = req[r].since
      /\ d.got = req[r].got /\ d.turned = req[r].turned
  BY <1>1, <1>2, <1>4 DEF ReqRow, Steps
<1> HIDE DEF d
<1>10. ShapeOK(d)
  BY <1>2, <1>9 DEF ShapeOK
<1>11. AnswerOK(d)
  <2>1. \A e \in d.flags \cup d.got : BodyOK(e)
    BY <1>1, <1>4, <1>9 DEF ReadOK, AnswerOK
  <2>2. \A e \in d.got : FlagOK(e, d)
    BY <1>1, <1>9 DEF ReadOK, AnswerOK, FlagOK
  <2>3. \A e \in d.flags : e.key = Head(d.todo)
    BY <1>4, <1>9 DEF What
  <2> QED BY <1>9, <2>1, <2>2, <2>3 DEF AnswerOK
<1>12. ThreadOK(d)
  BY <1>9 DEF ThreadOK
<1>13. Proceeds(r, d)
  BY <1>2, <1>5, <1>8, <1>9, <1>10, <1>11, <1>12 DEF Proceeds, Busy, Steps, ReadOK, LoadHit, conns
<1> QED BY <1>7, <1>13, ProceedsKeeps

LEMMA LoadFlagsKeeps ==
  ASSUME IInv, NEW r \in Requests, LoadFlags(r)
  PROVE  IInv'
<1> DEFINE k == What(r)
           B == {Body(k, e.body, seen[Message(k)]) : e \in req[r].flags}
           d == [req[r] EXCEPT !.pc = "answer", !.got = B]
<1>1. req[r] \in ReqRow /\ ShapeOK(req[r]) /\ ReadOK(req[r]) /\ cache \in Seq(BodyRow) /\ TypeInv /\ BaseInv
  BY RowIs
<1>2. req[r].kind = "load" /\ req[r].pc = "flags" /\ req[r].todo # <<>> /\ Command(r, Folder(k))
  BY <1>1 DEF LoadFlags, At, ShapeOK
<1>3. k \in Refs /\ Folder(k) \in Folders /\ Uid(k) \in Uids /\ k = Head(req[r].todo)
  BY <1>1, <1>2, WhatIs DEF What
<1>4. Calm /\ Visible(r, Folder(k)) = Present(Folder(k))
  BY <1>1, <1>2, <1>3, Commands
<1>5. CASE Uid(k) \in Visible(r, Folder(k))
  <2>1. req' = [req EXCEPT ![r].pc = "answer", ![r].got = {Body(k, e.body, WithFlags(e, seen[Message(k)])) : e \in req[r].flags}]
        /\ UNCHANGED <<cache, obj>>
    BY <1>5 DEF LoadFlags
  <2>2. req' = [req EXCEPT ![r] = d]
    BY <2>1 DEF WithFlags
  <2>3. Message(k) # None /\ Message(k) \in Messages
    BY <1>1, <1>3, <1>4, <1>5 DEF Present, Message, TypeInv, DataTypes, FolderRow
  <2>4. named[k] = Message(k) /\ seen[Message(k)] \in BOOLEAN
    BY <1>1, <1>3, <2>3 DEF IInv, StoreInv, TypeInv, DataTypes
  <2>5. \A e \in req[r].flags : e \in BodyRow /\ e.key = k /\ BodyOK(e)
    BY <1>1, <1>2, <1>3 DEF ReqRow, ReadOK, AnswerOK
  <2>6. ASSUME NEW b \in B
        PROVE  b \in BodyRow /\ BodyOK(b) /\ (Folder(b.key) \notin remade => b.seen = seen[b.body])
    <3>1. PICK e \in req[r].flags : b = Body(k, e.body, seen[Message(k)])
      OBVIOUS
    <3>2. e \in BodyRow /\ e.key = k /\ BodyOK(e)
      BY <2>5
    <3>3. b \in BodyRow /\ b.key = k /\ b.body = e.body /\ b.seen = seen[Message(k)]
      BY <1>3, <2>4, <3>1, <3>2 DEF Body, BodyRow
    <3>4. Folder(k) \notin remade => e.body = Message(k)
      BY <2>4, <3>2 DEF BodyOK
    <3> QED BY <2>4, <3>3, <3>4 DEF BodyOK
  <2> HIDE DEF B
  <2>7. /\ d \in ReqRow /\ d.pc = "answer" /\ d.got = B /\ d.kind = "load" /\ d.todo = req[r].todo
        /\ d.on = req[r].on /\ d.cli = req[r].cli /\ d.since = req[r].since /\ d.flags = req[r].flags
    BY <1>1, <1>2, <2>6 DEF ReqRow, Steps
  <2> HIDE DEF d
  <2>8. ShapeOK(d)
    BY <2>7 DEF ShapeOK
  <2>9. AnswerOK(d)
    <3>1. \A e \in d.flags \cup d.got : BodyOK(e)
      BY <2>5, <2>6, <2>7
    <3>2. \A e \in d.got : FlagOK(e, d)
      BY <2>6, <2>7 DEF FlagOK
    <3> QED BY <2>7, <3>1, <3>2 DEF AnswerOK
  <2>10. ThreadOK(d)
    BY <2>7 DEF ThreadOK
  <2>11. Proceeds(r, d)
    BY <1>2, <1>4, <2>1, <2>2, <2>7, <2>8, <2>9, <2>10 DEF Proceeds, Busy, Steps, ReadOK, LoadFlags
  <2>12. Sound
    BY <2>1, Unmoved DEF LoadFlags
  <2> QED BY <2>11, <2>12, ProceedsKeeps
<1>6. CASE Uid(k) \notin Visible(r, Folder(k))
  <2>1. Over(r) /\ CacheDelete(k)
    BY <1>6 DEF LoadFlags
  <2>2. Concludes(r)
    BY <1>2, <1>4, <2>1 DEF Concludes, Works, LoadFlags
  <2>3. Sound
    BY <1>1, <2>1, CacheDropped, StoreStays DEF Sound, IInv, LoadFlags, mail
  <2> QED BY <2>2, <2>3, ConcludesKeeps
<1> QED BY <1>5, <1>6

LEMMA LoadMissKeeps ==
  ASSUME IInv, NEW r \in Requests, LoadMiss(r)
  PROVE  IInv'
<1> DEFINE k == What(r)
           b == Body(k, Message(k), seen[Message(k)])
           d == [req[r] EXCEPT !.pc = "parse", !.flags = {b}]
<1>1. req[r] \in ReqRow /\ ShapeOK(req[r]) /\ ReadOK(req[r]) /\ cache \in Seq(BodyRow) /\ TypeInv /\ BaseInv
  BY RowIs
<1>2. req[r].kind = "load" /\ req[r].pc = "run" /\ req[r].todo # <<>> /\ Command(r, Folder(k))
  BY <1>1 DEF LoadMiss, At, ShapeOK
<1>3. k \in Refs /\ Folder(k) \in Folders /\ Uid(k) \in Uids
  BY <1>1, <1>2, WhatIs
<1>4. Calm /\ Visible(r, Folder(k)) = Present(Folder(k))
  BY <1>1, <1>2, <1>3, Commands
<1>5. Sound
  BY Unmoved DEF LoadMiss
<1>6. CASE Uid(k) \in Visible(r, Folder(k))
  <2>1. req' = [req EXCEPT ![r] = d] /\ UNCHANGED obj
    BY <1>6 DEF LoadMiss
  <2>2. Message(k) # None /\ Message(k) \in Messages
    BY <1>1, <1>3, <1>4, <1>6 DEF Present, Message, TypeInv, DataTypes, FolderRow
  <2>3. named[k] = Message(k) /\ seen[Message(k)] \in BOOLEAN
    BY <1>1, <1>3, <2>2 DEF IInv, StoreInv, TypeInv, DataTypes
  <2>4. b \in BodyRow /\ b.key = k /\ b.body = Message(k) /\ b.seen = seen[Message(k)]
    BY <1>3, <2>2, <2>3 DEF Body, BodyRow
  <2> HIDE DEF b
  <2>5. BodyOK(b)
    BY <2>3, <2>4 DEF BodyOK
  <2>6. /\ d \in ReqRow /\ d.pc = "parse" /\ d.flags = {b} /\ d.kind = "load" /\ d.todo = req[r].todo
        /\ d.on = req[r].on /\ d.cli = req[r].cli /\ d.since = req[r].since
        /\ d.got = req[r].got /\ d.turned = req[r].turned
    BY <1>1, <1>2, <2>4 DEF ReqRow, Steps
  <2> HIDE DEF d
  <2>7. ShapeOK(d)
    BY <1>2, <2>6 DEF ShapeOK
  <2>8. AnswerOK(d)
    <3>1. \A e \in d.flags \cup d.got : BodyOK(e)
      BY <1>1, <2>5, <2>6 DEF ReadOK, AnswerOK
    <3>2. \A e \in d.got : FlagOK(e, d)
      BY <1>1, <2>6 DEF ReadOK, AnswerOK, FlagOK
    <3>3. \A e \in d.flags : FlagOK(e, d)
      BY <2>4, <2>6 DEF FlagOK
    <3> QED BY <2>6, <3>1, <3>2, <3>3 DEF AnswerOK
  <2>9. ThreadOK(d)
    BY <2>6 DEF ThreadOK
  <2>10. Proceeds(r, d)
    BY <1>2, <1>4, <2>1, <2>6, <2>7, <2>8, <2>9 DEF Proceeds, Busy, Steps, ReadOK, LoadMiss
  <2> QED BY <1>5, <2>10, ProceedsKeeps
<1>7. CASE Uid(k) \notin Visible(r, Folder(k))
  <2>1. Concludes(r)
    BY <1>2, <1>4, <1>7 DEF Concludes, Works, LoadMiss
  <2> QED BY <1>5, <2>1, ConcludesKeeps
<1> QED BY <1>6, <1>7
\* What is left to read of a conversation after its next message.
LEMMA TodoTail ==
  ASSUME IInv, NEW r \in Requests, req[r].kind = "thread", req[r].pc \in {"each", "parse"}, req[r].todo # <<>>
  PROVE  /\ Has(req[r].flags, What(r))
         /\ \A k \in req[r].due : \/ Lost(k) \/ Has(req[r].got, k) \/ k = What(r)
                                  \/ \E i \in DOMAIN Tail(req[r].todo) : Tail(req[r].todo)[i] = k
         /\ \A i \in DOMAIN Tail(req[r].todo) : Has(req[r].flags, Tail(req[r].todo)[i])
<1> DEFINE s == req[r].todo
<1>1. req[r] \in ReqRow /\ ThreadOK(req[r])
  BY RowIs DEF ReadOK
<1>2. s \in Seq(Refs) /\ s # <<>>
  BY <1>1 DEF ReqRow
<1>3. /\ \A k \in req[r].due : Lost(k) \/ Has(req[r].got, k) \/ \E i \in DOMAIN s : s[i] = k
      /\ \A i \in DOMAIN s : Has(req[r].flags, s[i])
  BY <1>1 DEF ThreadOK
<1>4. /\ Head(s) = s[1] /\ 1 \in DOMAIN s
      /\ \A i \in DOMAIN Tail(s) : i + 1 \in DOMAIN s /\ i + 1 # 1 /\ Tail(s)[i] = s[i + 1]
      /\ \A i \in DOMAIN s : i # 1 => i - 1 \in DOMAIN Tail(s) /\ Tail(s)[i - 1] = s[i]
  BY <1>2, TailOf
<1>5. What(r) = s[1]
  BY <1>4 DEF What
<1> HIDE DEF s
<1>6. \A k : (\E i \in DOMAIN s : s[i] = k) => k = s[1] \/ \E i \in DOMAIN Tail(s) : Tail(s)[i] = k
  BY <1>4
<1>7. \A i \in DOMAIN Tail(s) : Has(req[r].flags, Tail(s)[i])
  BY <1>3, <1>4
<1> QED BY <1>3, <1>4, <1>5, <1>6, <1>7 DEF s

LEMMA NotLost ==
  ASSUME NEW k \in Refs, ~Lost(k)
  PROVE  Uid(k) \in Present(Folder(k))
BY RefIs DEF Lost, Message, Present

LEMMA ParsedKeeps ==
  ASSUME IInv, NEW r \in Requests, Parsed(r)
  PROVE  IInv'
<1>1. req[r] \in ReqRow /\ ShapeOK(req[r]) /\ ReadOK(req[r]) /\ cache \in Seq(BodyRow) /\ TypeInv /\ BaseInv
  BY RowIs
<1>2. req[r].kind \in {"load", "thread"} /\ req[r].pc = "parse" /\ req[r].todo # <<>>
  BY <1>1 DEF Parsed, ShapeOK
<1>3. What(r) \in Refs /\ Tail(req[r].todo) \in Seq(Refs)
  BY <1>1, <1>2, WhatIs
<1>4. \A e \in req[r].flags : e \in BodyRow /\ BodyOK(e) /\ FlagOK(e, req[r])
  BY <1>1, <1>2 DEF ReqRow, ReadOK, AnswerOK
<1>5. PICK x \in req[r].flags : x.key = What(r) /\ CacheSet(x.key, x.body, x.seen)
  BY DEF Parsed
<1> DEFINE b == Body(x.key, x.body, x.seen)
<1>6. x.key \in Refs /\ x.body \in Messages /\ x.seen \in BOOLEAN
  BY <1>4 DEF BodyRow
<1>7. CacheTakes(b)
  BY <1>1, <1>5, <1>6, CacheSets
<1>8. BodyOK(b)
  BY <1>4 DEF BodyOK, Body
<1>9. Sound
  BY <1>1, <1>7, <1>8, CacheTaken, StoreStays DEF Sound, IInv, Parsed, mail
<1>10. Calm /\ UNCHANGED <<pool, obj, evicts>>
  BY <1>1, StaysCalm DEF Parsed, conns
<1>11. CASE req[r].kind = "load"
  <2> DEFINE d == [req[r] EXCEPT !.pc = "answer", !.got = req[r].flags]
  <2>1. req' = [req EXCEPT ![r] = d]
    BY <1>11 DEF Parsed
  <2>2. /\ d \in ReqRow /\ d.pc = "answer" /\ d.got = req[r].flags /\ d.kind = "load" /\ d.todo = req[r].todo
        /\ d.on = req[r].on /\ d.cli = req[r].cli /\ d.since = req[r].since
        /\ d.flags = req[r].flags /\ d.turned = req[r].turned
    BY <1>1, <1>11 DEF ReqRow, Steps
  <2> HIDE DEF d
  <2>3. ShapeOK(d)
    BY <2>2 DEF ShapeOK
  <2>4. AnswerOK(d)
    BY <1>4, <2>2 DEF AnswerOK, FlagOK
  <2>5. ThreadOK(d)
    BY <2>2 DEF ThreadOK
  <2>6. Proceeds(r, d)
    BY <1>2, <1>10, <2>1, <2>2, <2>3, <2>4, <2>5 DEF Proceeds, Busy, Steps, ReadOK
  <2> QED BY <1>9, <2>6, ProceedsKeeps
<1>12. CASE req[r].kind = "thread"
  <2> DEFINE N == {e \in req[r].flags : e.key = What(r)}
             d == [req[r] EXCEPT !.pc = "each", !.todo = Tail(req[r].todo), !.got = req[r].got \cup N]
  <2>1. req' = [req EXCEPT ![r] = d]
    BY <1>12 DEF Parsed
  <2>2. N \subseteq req[r].flags
    OBVIOUS
  <2>3. Has(req[r].flags, What(r)) => \E e \in N : e.key = What(r)
    BY DEF Has
  <2> HIDE DEF N
  <2>4. /\ d \in ReqRow /\ d.pc = "each" /\ d.got = req[r].got \cup N /\ d.kind = "thread"
        /\ d.todo = Tail(req[r].todo) /\ d.due = req[r].due
        /\ d.on = req[r].on /\ d.cli = req[r].cli /\ d.since = req[r].since
        /\ d.flags = req[r].flags /\ d.turned = req[r].turned
    BY <1>1, <1>3, <1>12, <2>2 DEF ReqRow, Steps
  <2> HIDE DEF d
  <2>5. ShapeOK(d)
    BY <2>4 DEF ShapeOK
  <2>6. AnswerOK(d)
    <3>1. \A e \in d.flags \cup d.got : BodyOK(e)
      BY <1>1, <2>2, <2>4 DEF ReadOK, AnswerOK
    <3>2. \A e \in d.flags \cup d.got : FlagOK(e, d)
      BY <1>1, <1>4, <2>2, <2>4 DEF ReadOK, AnswerOK, FlagOK
    <3> QED BY <2>4, <3>1, <3>2 DEF AnswerOK
  <2>7. ThreadOK(d)
    <3>1. /\ Has(req[r].flags, What(r))
          /\ \A k \in req[r].due : \/ Lost(k) \/ Has(req[r].got, k) \/ k = What(r)
                                   \/ \E i \in DOMAIN Tail(req[r].todo) : Tail(req[r].todo)[i] = k
          /\ \A i \in DOMAIN Tail(req[r].todo) : Has(req[r].flags, Tail(req[r].todo)[i])
      BY <1>2, <1>12, TodoTail
    <3>2. Has(d.got, What(r)) /\ \A k : Has(req[r].got, k) => Has(d.got, k)
      BY <2>3, <2>4, <3>1 DEF Has
    <3>3. \A k \in d.due : named[k] # None
      BY <1>1, <1>12, <2>4 DEF ReadOK, ThreadOK
    <3>4. \A k \in d.due : Lost(k) \/ Has(d.got, k) \/ \E i \in DOMAIN d.todo : d.todo[i] = k
      BY <2>4, <3>1, <3>2
    <3>5. \A i \in DOMAIN d.todo : Has(d.flags, d.todo[i])
      BY <2>4, <3>1
    <3>6. d.pc = "each"
      BY <2>4
    <3> QED BY <3>3, <3>4, <3>5, <3>6 DEF ThreadOK
  <2>8. Proceeds(r, d)
    BY <1>2, <1>10, <2>1, <2>4, <2>5, <2>6, <2>7 DEF Proceeds, Busy, Steps, ReadOK
  <2> QED BY <1>9, <2>8, ProceedsKeeps
<1> QED BY <1>2, <1>11, <1>12

LEMMA RepliedKeeps ==
  ASSUME IInv, NEW r \in Requests, Replied(r)
  PROVE  IInv'
<1>1. Works(r) /\ Finished(r)
  BY DEF Replied, Works
<1>2. Sound
  BY Unmoved DEF Replied
<1> QED BY <1>1, <1>2, CallsCalm, ConcludesKeeps

LEMMA CutKeeps ==
  ASSUME IInv, NEW r \in Requests, Cut(r)
  PROVE  IInv'
<1>1. Finished(r) /\ OnHead(r) /\ req[r].pc # "queued" /\ UNCHANGED <<mail, cache>>
  BY DEF Cut
<1>2. req[r].pc # "idle"
  BY RowIs, <1>1 DEF ShapeOK, Idle, OnHead
<1>3. Works(r)
  BY <1>1, <1>2 DEF Works
<1>4. Sound
  BY <1>1, Unmoved
<1> QED BY <1>1, <1>3, <1>4, CallsCalm, ConcludesKeeps

LEMMA NoSuchFolderKeeps ==
  ASSUME IInv, NEW r \in Requests, NoSuchFolder(r)
  PROVE  IInv'
<1>1. Works(r) /\ Finished(r)
  BY DEF NoSuchFolder, Works
<1>2. Sound
  BY Unmoved DEF NoSuchFolder
<1> QED BY <1>1, <1>2, CallsCalm, ConcludesKeeps

LEMMA SearchKeeps ==
  ASSUME IInv, NEW r \in Requests, Search(r)
  PROVE  IInv'
<1> DEFINE f == Folder(What(r))
           V == Visible(r, f)
           s == In(f, V)
           d == [req[r] EXCEPT !.pc = "flags", !.todo = s, !.found = V]
<1>1. req[r] \in ReqRow /\ ShapeOK(req[r]) /\ ReadOK(req[r]) /\ cache \in Seq(BodyRow) /\ TypeInv /\ BaseInv
  BY RowIs
<1>2. req[r].kind = "thread" /\ req[r].pc = "run" /\ req[r].todo # <<>> /\ Command(r, f)
  BY <1>1 DEF Search, At, ShapeOK
<1>3. f \in Folders /\ What(r) = Head(req[r].todo)
  BY <1>1, <1>2, WhatIs DEF What
<1>4. Calm /\ V = Present(f) /\ V \in SUBSET Uids
  BY <1>1, <1>2, <1>3, Commands
<1>5. Sound
  BY Unmoved DEF Search
<1>6. CASE V = {}
  <2>1. Concludes(r)
    BY <1>2, <1>4, <1>6 DEF Concludes, Works, Search
  <2> QED BY <1>5, <2>1, ConcludesKeeps
<1>7. CASE V # {}
  <2>1. req' = [req EXCEPT ![r] = d] /\ UNCHANGED obj
    BY <1>7 DEF Search
  <2>2. /\ s \in Seq(Refs) /\ DOMAIN s = 1..Len(s) /\ s # <<>>
        /\ \A i \in 1..Len(s) : \E u \in V : s[i] = <<f, u>>
    BY <1>3, <1>4, <1>7, InOrder
  <2> HIDE DEF s
  <2>3. Head(s) = s[1] /\ 1 \in DOMAIN s
    BY <2>2, TailOf
  <2>4. Folder(Head(s)) = f
    BY <2>2, <2>3 DEF Folder
  <2>5. V \in SUBSET Uids
    BY <1>4
  <2> HIDE DEF V
  <2>6. /\ d \in ReqRow /\ d.pc = "flags" /\ d.kind = "thread" /\ d.todo = s /\ d.found = V /\ d.due = req[r].due
        /\ d.on = req[r].on /\ d.cli = req[r].cli /\ d.since = req[r].since
        /\ d.got = req[r].got /\ d.turned = req[r].turned /\ d.flags = req[r].flags
    BY <1>1, <1>2, <2>2, <2>5 DEF ReqRow, Steps
  <2> HIDE DEF d
  <2>7. ShapeOK(d)
    BY <2>2, <2>6 DEF ShapeOK
  <2>8. AnswerOK(d)
    BY <1>1, <1>2, <2>6 DEF ReadOK, AnswerOK, FlagOK
  <2>9. ThreadOK(d)
    <3>1. \A k \in req[r].due : named[k] # None /\ Folder(k) = f /\ k \in Refs
      BY <1>1, <1>2, <1>3 DEF ReadOK, ThreadOK, ReqRow
    <3>2. \A k \in req[r].due : Lost(k) \/ Uid(k) \in V
      BY <1>4, <3>1, NotLost
    <3> QED BY <2>4, <2>6, <3>1, <3>2 DEF ThreadOK
  <2>10. Proceeds(r, d)
    BY <1>2, <1>4, <2>1, <2>6, <2>7, <2>8, <2>9 DEF Proceeds, Busy, Steps, ReadOK, Search
  <2> QED BY <1>5, <2>10, ProceedsKeeps
<1> QED BY <1>6, <1>7

LEMMA FetchFlagsKeeps ==
  ASSUME IInv, NEW r \in Requests, FetchFlags(r)
  PROVE  IInv'
<1> DEFINE f == Folder(What(r))
           T == req[r].found \cap Visible(r, f)
           B == {Body(<<f, u>>, Message(<<f, u>>), seen[store[f].at[u]]) : u \in T}
           s == In(f, T)
           d == [req[r] EXCEPT !.pc = "each", !.todo = s, !.flags = B]
<1>1. req[r] \in ReqRow /\ ShapeOK(req[r]) /\ ReadOK(req[r]) /\ cache \in Seq(BodyRow) /\ TypeInv /\ BaseInv
  BY RowIs
<1>2. req[r].kind = "thread" /\ req[r].pc = "flags" /\ req[r].todo # <<>> /\ Command(r, f)
  BY <1>1 DEF FetchFlags, At, ShapeOK
<1>3. f \in Folders /\ What(r) = Head(req[r].todo)
  BY <1>1, <1>2, WhatIs DEF What
<1>4. Calm /\ Visible(r, f) = Present(f)
  BY <1>1, <1>2, <1>3, Commands
<1>5. Sound
  BY Unmoved DEF FetchFlags
<1>6. req' = [req EXCEPT ![r] = d] /\ UNCHANGED <<pool, obj, evicts>>
  BY DEF FetchFlags
<1>7. \A u \in T : u \in Uids /\ u \in Present(f)
  BY <1>4 DEF Present
<1>8. T \in SUBSET Uids
  BY <1>7
<1>9. \A k \in Refs : ~Lost(k) /\ Folder(k) = f /\ Uid(k) \in req[r].found => Uid(k) \in T
  BY <1>4, NotLost
<1> HIDE DEF T
<1>10. ASSUME NEW u \in T
       PROVE  LET b == Body(<<f, u>>, Message(<<f, u>>), seen[store[f].at[u]])
              IN b \in BodyRow /\ b.key = <<f, u>> /\ b.body = named[<<f, u>>] /\ b.seen = seen[b.body]
  <2> DEFINE k == <<f, u>>
             m == Message(k)
             b == Body(k, m, seen[m])
  <2>1. k \in Refs /\ Folder(k) = f /\ Uid(k) = u
    BY <1>3, <1>7 DEF Refs, Folder, Uid
  <2>2. m = store[f].at[u]
    BY <2>1 DEF Message
  <2>3. m # None /\ m \in Messages
    BY <1>1, <1>3, <1>7, <2>2 DEF Present, TypeInv, DataTypes, FolderRow
  <2>4. named[k] = m /\ seen[m] \in BOOLEAN
    BY <1>1, <2>1, <2>3 DEF IInv, StoreInv, TypeInv, DataTypes
  <2> HIDE DEF m, k
  <2>5. b \in BodyRow /\ b.key = k /\ b.body = named[k] /\ b.seen = seen[b.body]
    BY <2>1, <2>3, <2>4 DEF Body, BodyRow
  <2> QED BY <2>2, <2>5 DEF m, k
<1>11. \A b \in B : b \in BodyRow /\ b.body = named[b.key] /\ b.seen = seen[b.body]
  BY <1>10
<1>12. \A u \in T : Has(B, <<f, u>>)
  BY <1>10 DEF Has
<1> HIDE DEF B
<1>13. /\ s \in Seq(Refs) /\ DOMAIN s = 1..Len(s)
       /\ \A i \in 1..Len(s) : \E u \in T : s[i] = <<f, u>>
       /\ \A u \in T : \E i \in 1..Len(s) : s[i] = <<f, u>>
  BY <1>3, <1>8, InOrder
<1> HIDE DEF s
<1>14. /\ d \in ReqRow /\ d.pc = "each" /\ d.kind = "thread" /\ d.todo = s /\ d.flags = B /\ d.due = req[r].due
       /\ d.on = req[r].on /\ d.cli = req[r].cli /\ d.since = req[r].since
       /\ d.got = req[r].got /\ d.turned = req[r].turned
  BY <1>1, <1>2, <1>11, <1>13 DEF ReqRow, Steps
<1> HIDE DEF d
<1>15. ShapeOK(d)
  BY <1>14 DEF ShapeOK
<1>16. AnswerOK(d)
  <2>1. \A e \in d.flags : BodyOK(e) /\ FlagOK(e, d)
    BY <1>11, <1>14 DEF BodyOK, FlagOK
  <2>2. \A e \in d.got : BodyOK(e) /\ FlagOK(e, d)
    BY <1>1, <1>14 DEF ReadOK, AnswerOK, FlagOK
  <2> QED BY <1>14, <2>1, <2>2 DEF AnswerOK
<1>17. ThreadOK(d)
  <2>1. \A k \in req[r].due : k \in Refs /\ named[k] # None /\ Folder(k) = f /\ (Lost(k) \/ Uid(k) \in req[r].found)
    BY <1>1, <1>2, <1>3 DEF ReadOK, ThreadOK, ReqRow
  <2>2. \A k \in req[r].due : Lost(k) \/ (Uid(k) \in T /\ k = <<f, Uid(k)>>)
    BY <1>9, <2>1, RefIs
  <2>3. \A k \in req[r].due : Lost(k) \/ \E i \in DOMAIN s : s[i] = k
    <3>1. \A u \in T : \E i \in DOMAIN s : s[i] = <<f, u>>
      BY <1>13
    <3>2. SUFFICES ASSUME NEW k \in req[r].due, ~Lost(k) PROVE \E i \in DOMAIN s : s[i] = k
      OBVIOUS
    <3>3. PICK u \in T : k = <<f, u>>
      BY <2>2, <3>2
    <3>4. PICK i \in DOMAIN s : s[i] = <<f, u>>
      BY <3>1
    <3> QED BY <3>3, <3>4
  <2>4. \A i \in DOMAIN s : Has(B, s[i])
    BY <1>12, <1>13
  <2> QED BY <1>14, <2>1, <2>3, <2>4 DEF ThreadOK
<1>18. Proceeds(r, d)
  BY <1>2, <1>4, <1>6, <1>14, <1>15, <1>16, <1>17 DEF Proceeds, Busy, Steps, ReadOK
<1> QED BY <1>5, <1>18, ProceedsKeeps

LEMMA FromCacheKeeps ==
  ASSUME IInv, NEW r \in Requests, FromCache(r)
  PROVE  IInv'
<1> DEFINE k == What(r)
           B == {Body(e.key, Entry(e.key).body, e.seen) : e \in {x \in req[r].flags : x.key = k}}
           d == [req[r] EXCEPT !.todo = Tail(req[r].todo), !.got = req[r].got \cup B]
<1>1. req[r] \in ReqRow /\ ShapeOK(req[r]) /\ ReadOK(req[r]) /\ cache \in Seq(BodyRow) /\ TypeInv /\ BaseInv
  BY RowIs
<1>2. req[r].kind = "thread" /\ req[r].pc = "each" /\ req[r].todo # <<>> /\ Hit(k)
  BY DEF FromCache, At
<1>3. k \in Refs /\ Tail(req[r].todo) \in Seq(Refs)
  BY <1>1, <1>2, WhatIs
<1>4. Entry(k) \in BodyRow /\ Entry(k).key = k /\ BodyOK(Entry(k))
  BY <1>2, <1>3, EntryIs
<1>5. Calm /\ UNCHANGED <<pool, obj, evicts>>
  BY <1>1, StaysCalm DEF FromCache, conns
<1>6. CacheTakes(Entry(k))
  BY <1>1, <1>2, CacheGets DEF FromCache
<1>7. Sound
  BY <1>1, <1>4, <1>6, CacheTaken, StoreStays DEF Sound, IInv, FromCache, mail
<1>8. req' = [req EXCEPT ![r] = d]
  BY DEF FromCache, WithFlags
<1>9. \A e \in req[r].flags : e \in BodyRow /\ BodyOK(e) /\ FlagOK(e, req[r])
  BY <1>1, <1>2 DEF ReqRow, ReadOK, AnswerOK
<1>10. ASSUME NEW b \in B
       PROVE  b \in BodyRow /\ BodyOK(b) /\ FlagOK(b, req[r])
  <2>1. PICK e \in req[r].flags : e.key = k /\ b = Body(e.key, Entry(e.key).body, e.seen)
    OBVIOUS
  <2>2. e \in BodyRow /\ BodyOK(e) /\ FlagOK(e, req[r])
    BY <1>9
  <2>3. b \in BodyRow /\ b.key = k /\ b.body = Entry(k).body /\ b.seen = e.seen
    BY <1>3, <1>4, <2>1, <2>2 DEF Body, BodyRow
  <2>4. Folder(k) \notin remade => Entry(k).body = named[k] /\ e.body = named[k]
    BY <1>4, <2>1, <2>2 DEF BodyOK
  <2> QED BY <2>1, <2>2, <2>3, <2>4 DEF BodyOK, FlagOK
<1>11. Has(req[r].flags, k) => Has(B, k)
  <2>1. SUFFICES ASSUME NEW e \in req[r].flags, e.key = k PROVE Has(B, k)
    BY DEF Has
  <2>2. Body(e.key, Entry(e.key).body, e.seen) \in B
    BY <2>1
  <2>3. Body(e.key, Entry(e.key).body, e.seen).key = k
    BY <2>1 DEF Body
  <2> HIDE DEF B
  <2> QED BY <2>2, <2>3 DEF Has
<1> HIDE DEF B
<1>12. /\ d \in ReqRow /\ d.pc = "each" /\ d.kind = "thread" /\ d.todo = Tail(req[r].todo)
       /\ d.got = req[r].got \cup B /\ d.due = req[r].due
       /\ d.on = req[r].on /\ d.cli = req[r].cli /\ d.since = req[r].since
       /\ d.flags = req[r].flags /\ d.turned = req[r].turned
  BY <1>1, <1>2, <1>3, <1>10 DEF ReqRow, Steps
<1> HIDE DEF d
<1>13. ShapeOK(d)
  BY <1>12 DEF ShapeOK
<1>14. AnswerOK(d)
  <2>1. \A e \in d.flags \cup d.got : BodyOK(e)
    BY <1>1, <1>10, <1>12 DEF ReadOK, AnswerOK
  <2>2. \A e \in d.flags \cup d.got : FlagOK(e, d)
    BY <1>1, <1>9, <1>10, <1>12 DEF ReadOK, AnswerOK, FlagOK
  <2> QED BY <1>12, <2>1, <2>2 DEF AnswerOK
<1>15. ThreadOK(d)
  <2>1. /\ Has(req[r].flags, k)
        /\ \A l \in req[r].due : \/ Lost(l) \/ Has(req[r].got, l) \/ l = k
                                 \/ \E i \in DOMAIN Tail(req[r].todo) : Tail(req[r].todo)[i] = l
        /\ \A i \in DOMAIN Tail(req[r].todo) : Has(req[r].flags, Tail(req[r].todo)[i])
    BY <1>2, TodoTail
  <2>2. Has(d.got, k) /\ \A l : Has(req[r].got, l) => Has(d.got, l)
    BY <1>11, <1>12, <2>1 DEF Has
  <2>3. \A l \in d.due : named[l] # None
    BY <1>1, <1>2, <1>12 DEF ReadOK, ThreadOK
  <2>4. \A l \in d.due : Lost(l) \/ Has(d.got, l) \/ \E i \in DOMAIN d.todo : d.todo[i] = l
    BY <1>12, <2>1, <2>2
  <2>5. \A i \in DOMAIN d.todo : Has(d.flags, d.todo[i])
    BY <1>12, <2>1
  <2>6. d.pc = "each"
    BY <1>12
  <2> QED BY <2>3, <2>4, <2>5, <2>6 DEF ThreadOK
<1>16. Proceeds(r, d)
  BY <1>2, <1>5, <1>8, <1>12, <1>13, <1>14, <1>15 DEF Proceeds, Busy, Steps, ReadOK
<1> QED BY <1>7, <1>16, ProceedsKeeps

LEMMA FetchEachKeeps ==
  ASSUME IInv, NEW r \in Requests, FetchEach(r)
  PROVE  IInv'
<1> DEFINE k == What(r)
           s == Tail(req[r].todo)
           c == [req[r] EXCEPT !.pc = "parse"]
           d == [req[r] EXCEPT !.todo = s]
<1>1. req[r] \in ReqRow /\ ShapeOK(req[r]) /\ ReadOK(req[r]) /\ cache \in Seq(BodyRow) /\ TypeInv /\ BaseInv
  BY RowIs
<1>2. req[r].kind = "thread" /\ req[r].pc = "each" /\ req[r].todo # <<>> /\ Command(r, Folder(k))
  BY DEF FetchEach, At
<1>3. k \in Refs /\ Folder(k) \in Folders /\ Uid(k) \in Uids /\ s \in Seq(Refs)
  BY <1>1, <1>2, WhatIs
<1>4. Calm /\ Visible(r, Folder(k)) = Present(Folder(k))
  BY <1>1, <1>2, <1>3, Commands
<1>5. Sound
  BY Unmoved DEF FetchEach
<1>6. UNCHANGED <<pool, obj, evicts>>
  BY DEF FetchEach
<1>7. AnswerOK(req[r]) /\ ThreadOK(req[r])
  BY <1>1 DEF ReadOK
<1>8. CASE Uid(k) \in Visible(r, Folder(k))
  <2>1. req' = [req EXCEPT ![r] = c]
    BY <1>8 DEF FetchEach
  <2>2. /\ c \in ReqRow /\ c.pc = "parse" /\ c.kind = "thread" /\ c.todo = req[r].todo
        /\ c.got = req[r].got /\ c.due = req[r].due
        /\ c.on = req[r].on /\ c.cli = req[r].cli /\ c.since = req[r].since
        /\ c.flags = req[r].flags /\ c.turned = req[r].turned
    BY <1>1, <1>2 DEF ReqRow, Steps
  <2> HIDE DEF c
  <2>3. ShapeOK(c)
    BY <1>2, <2>2 DEF ShapeOK
  <2>4. AnswerOK(c)
    BY <1>2, <1>7, <2>2 DEF AnswerOK, FlagOK
  <2>5. ThreadOK(c)
    BY <1>2, <1>7, <2>2 DEF ThreadOK
  <2>6. Proceeds(r, c)
    BY <1>2, <1>4, <1>6, <2>1, <2>2, <2>3, <2>4, <2>5 DEF Proceeds, Busy, Steps, ReadOK
  <2> QED BY <1>5, <2>6, ProceedsKeeps
<1>9. CASE Uid(k) \notin Visible(r, Folder(k))
  <2>1. req' = [req EXCEPT ![r] = d]
    BY <1>9 DEF FetchEach
  <2>2. Lost(k)
    BY <1>3, <1>4, <1>9, NotLost
  <2>3. /\ Has(req[r].flags, k)
        /\ \A l \in req[r].due : \/ Lost(l) \/ Has(req[r].got, l) \/ l = k
                                 \/ \E i \in DOMAIN s : s[i] = l
        /\ \A i \in DOMAIN s : Has(req[r].flags, s[i])
    BY <1>2, TodoTail
  <2> HIDE DEF s
  <2>4. /\ d \in ReqRow /\ d.pc = "each" /\ d.kind = "thread" /\ d.todo = s
        /\ d.got = req[r].got /\ d.due = req[r].due
        /\ d.on = req[r].on /\ d.cli = req[r].cli /\ d.since = req[r].since
        /\ d.flags = req[r].flags /\ d.turned = req[r].turned
    BY <1>1, <1>2, <1>3 DEF ReqRow, Steps
  <2> HIDE DEF d
  <2>5. ShapeOK(d)
    BY <2>4 DEF ShapeOK
  <2>6. AnswerOK(d)
    BY <1>2, <1>7, <2>4 DEF AnswerOK, FlagOK
  <2>7. ThreadOK(d)
    BY <1>2, <1>7, <2>2, <2>3, <2>4 DEF ThreadOK
  <2>8. Proceeds(r, d)
    BY <1>2, <1>4, <1>6, <2>1, <2>4, <2>5, <2>6, <2>7 DEF Proceeds, Busy, Steps, ReadOK
  <2> QED BY <1>5, <2>8, ProceedsKeeps
<1> QED BY <1>8, <1>9

LEMMA LoadedAllKeeps ==
  ASSUME IInv, NEW r \in Requests, LoadedAll(r)
  PROVE  IInv'
<1> DEFINE d == [req[r] EXCEPT !.pc = "answer"]
<1>1. req[r] \in ReqRow /\ ShapeOK(req[r]) /\ ReadOK(req[r]) /\ cache \in Seq(BodyRow) /\ TypeInv /\ BaseInv
  BY RowIs
<1>2. req[r].kind = "thread" /\ req[r].pc = "each" /\ req[r].todo = <<>>
  BY DEF LoadedAll, At
<1>3. Calm /\ UNCHANGED <<pool, obj, evicts>>
  BY <1>1, StaysCalm DEF LoadedAll, conns
<1>4. Sound
  BY Unmoved DEF LoadedAll
<1>5. req' = [req EXCEPT ![r] = d]
  BY DEF LoadedAll, Move
<1>6. /\ d \in ReqRow /\ d.pc = "answer" /\ d.kind = "thread" /\ d.todo = req[r].todo
      /\ d.got = req[r].got /\ d.due = req[r].due
      /\ d.on = req[r].on /\ d.cli = req[r].cli /\ d.since = req[r].since
      /\ d.flags = req[r].flags /\ d.turned = req[r].turned
  BY <1>1, <1>2 DEF ReqRow, Steps
<1> HIDE DEF d
<1>7. ShapeOK(d)
  BY <1>6 DEF ShapeOK
<1>8. AnswerOK(d)
  BY <1>1, <1>2, <1>6 DEF ReadOK, AnswerOK, FlagOK
<1>9. ThreadOK(d)
  BY <1>1, <1>2, <1>6 DEF ReadOK, ThreadOK
<1>10. Proceeds(r, d)
  BY <1>2, <1>3, <1>5, <1>6, <1>7, <1>8, <1>9 DEF Proceeds, Busy, Steps, ReadOK
<1> QED BY <1>4, <1>10, ProceedsKeeps
-----------------------------------------------------------------------------
(* Writing.                                                                 *)

Writes(c) == c.kind \notin {"load", "thread"} /\ c.pc \in {"run", "apply", "forget", "skip"}

\* A request that writes has read nothing.
LEMMA WriterIs ==
  ASSUME IInv, NEW r \in Requests, Writes(req[r]), NEW d \in ReqRow, Writes(d), d.todo # <<>>,
         d.flags = req[r].flags, d.got = req[r].got
  PROVE  ShapeOK(d) /\ ReadOK(d) /\ req[r].pc \in Busy /\ d.pc \in Busy
<1>1. ShapeOK(req[r])
  BY RowIs
<1>2. d.flags = {} /\ d.got = {}
  BY <1>1 DEF ShapeOK, Writes
<1>3. ShapeOK(d)
  BY <1>2 DEF ShapeOK, Writes
<1>4. AnswerOK(d) /\ ThreadOK(d)
  BY <1>2 DEF AnswerOK, ThreadOK, Writes
<1> QED BY <1>3, <1>4 DEF ReadOK, Writes, Busy, Steps

LEMMA WriterGoes ==
  ASSUME IInv, NEW r \in Requests, Writes(req[r]), NEW p \in {"run", "apply", "forget", "skip"}, Move(r, p),
         Calm, UNCHANGED <<pool, obj, evicts>>
  PROVE  Proceeds(r, [req[r] EXCEPT !.pc = p])
<1> DEFINE d == [req[r] EXCEPT !.pc = p]
<1>1. req[r] \in ReqRow /\ ShapeOK(req[r])
  BY RowIs
<1>2. p \in Steps
  BY DEF Steps
<1>3. /\ d \in ReqRow /\ d.pc = p /\ d.kind = req[r].kind /\ d.todo = req[r].todo
      /\ d.on = req[r].on /\ d.cli = req[r].cli /\ d.since = req[r].since
      /\ d.flags = req[r].flags /\ d.got = req[r].got
  BY <1>1, <1>2 DEF ReqRow
<1>4. req' = [req EXCEPT ![r] = d]
  BY DEF Move
<1> HIDE DEF d
<1>5. Writes(d) /\ d.todo # <<>>
  BY <1>1, <1>3 DEF Writes, ShapeOK
<1>6. ShapeOK(d) /\ ReadOK(d) /\ req[r].pc \in Busy /\ d.pc \in Busy
  BY <1>3, <1>5, WriterIs
<1>7. Proceeds(r, d)
  BY <1>3, <1>4, <1>6 DEF Proceeds
<1> QED BY <1>7 DEF d

\* A flag is turned, and every request that reads is told.
LEMMA TurnsKeeps ==
  ASSUME IInv, NEW m \in Messages, NEW Q \in [Requests -> ReqRow],
         \A q \in Requests : /\ ShapeOK(Q[q]) /\ ReadOK(Q[q])
                             /\ Q[q].on = req[q].on /\ Q[q].cli = req[q].cli /\ Q[q].since = req[q].since
                             /\ Q[q].pc = req[q].pc \/ (Q[q].pc \in Busy /\ req[q].pc \in Busy),
         Turn(m, Q), UNCHANGED <<store, named, remade, cache, pool, obj, evicts>>, Calm
  PROVE  IInv'
<1>1. TypeInv /\ StoreInv /\ CacheInv /\ BaseInv
  BY DEF IInv, BaseInv
<1>2. req' = [q \in Requests |-> Told(Q[q], m)]
  BY DEF Turn, Told
<1>3. Turned(m)
  BY DEF Turn, Turned
<1>4. \A c \in ReqRow : /\ Told(c, m) \in ReqRow
                        /\ Told(c, m).pc = c.pc /\ Told(c, m).on = c.on /\ Told(c, m).cli = c.cli
                        /\ Told(c, m).since = c.since
                        /\ ShapeOK(c) => ShapeOK(Told(c, m))
  BY ToldIs
<1>5. \A q \in Requests : req'[q] = Told(Q[q], m) /\ Q[q] \in ReqRow
  BY <1>2
<1>6. req' \in [Requests -> ReqRow]
  BY <1>2, <1>4
<1>7. seen' \in [Messages -> BOOLEAN]
  BY <1>1, <1>3 DEF Turned, TypeInv, DataTypes
<1>8. TypeInv'
  BY <1>1, <1>6, <1>7 DEF TypeInv, DataTypes, Calm
<1>9. ShapesInv'
  BY <1>4, <1>5 DEF ShapesInv
<1>10. \A q \in Requests : Keeps(q)
  BY <1>4, <1>5 DEF Keeps
<1>11. Loses({})
  BY DEF Calm, Loses
<1>12. Goes({})
  BY <1>10, <1>11 DEF Goes
<1>13. BaseInv'
  BY <1>1, <1>8, <1>9, <1>12, GoesKeeps DEF BaseInv
<1>14. StoreStep /\ CacheStep
  BY <1>1, StoreStays, CacheStays
<1>15. StoreInv' /\ CacheInv'
  BY <1>14, CacheKept DEF StoreStep
<1>16. \A c \in ReqRow : ShapeOK(c) /\ ReadOK(c) => ReadOK(Told(c, m))'
  BY <1>1, <1>3, ReadTold
<1>17. \A d : (\E c \in ReqRow : d = Told(c, m) /\ ShapeOK(c) /\ ReadOK(c)) => ReadOK(d)'
  BY <1>16
<1>18. \A q \in Requests : \E c \in ReqRow : req'[q] = Told(c, m) /\ ShapeOK(c) /\ ReadOK(c)
  BY <1>5
<1>19. ReadInv'
  BY <1>17, <1>18 DEF ReadInv
<1> QED BY <1>13, <1>15, <1>19 DEF IInv

LEMMA SetFlagsKeeps ==
  ASSUME IInv, NEW r \in Requests, SetFlags(r)
  PROVE  IInv'
<1> DEFINE k == What(r)
           d == [req[r] EXCEPT !.pc = "forget"]
           Q == [req EXCEPT ![r] = d]
<1>1. req[r] \in ReqRow /\ ShapeOK(req[r]) /\ ReadOK(req[r]) /\ TypeInv /\ BaseInv
  BY RowIs
<1>2. req[r].kind = "flags" /\ req[r].pc = "run" /\ req[r].todo # <<>> /\ Command(r, Folder(k))
  BY <1>1 DEF SetFlags, At, ShapeOK
<1>3. k \in Refs /\ Folder(k) \in Folders /\ Uid(k) \in Uids
  BY <1>1, <1>2, WhatIs
<1>4. Calm /\ Visible(r, Folder(k)) = Present(Folder(k))
  BY <1>1, <1>2, <1>3, Commands
<1>5. Writes(req[r]) /\ UNCHANGED <<store, named, remade, pool, obj, evicts, cache>>
  BY <1>2 DEF Writes, SetFlags
<1>6. CASE Uid(k) \in Visible(r, Folder(k))
  <2>1. Turn(Message(k), Q)
    BY <1>6 DEF SetFlags
  <2>2. Message(k) \in Messages
    BY <1>1, <1>3, <1>4, <1>6 DEF Present, Message, TypeInv, DataTypes, FolderRow
  <2>3. /\ d \in ReqRow /\ d.pc = "forget" /\ d.kind = "flags" /\ d.todo = req[r].todo
        /\ d.on = req[r].on /\ d.cli = req[r].cli /\ d.since = req[r].since
        /\ d.flags = req[r].flags /\ d.got = req[r].got
    BY <1>1, <1>2 DEF ReqRow, Steps
  <2> HIDE DEF d
  <2>4. ShapeOK(d) /\ ReadOK(d) /\ req[r].pc \in Busy /\ d.pc \in Busy
    BY <1>2, <1>5, <2>3, WriterIs DEF Writes
  <2>5. Q \in [Requests -> ReqRow] /\ Q[r] = d /\ \A q \in Requests \ {r} : Q[q] = req[q]
    BY <1>1, <2>3 DEF TypeInv
  <2> HIDE DEF Q
  <2>6. \A q \in Requests : /\ ShapeOK(Q[q]) /\ ReadOK(Q[q])
                            /\ Q[q].on = req[q].on /\ Q[q].cli = req[q].cli /\ Q[q].since = req[q].since
                            /\ Q[q].pc = req[q].pc \/ (Q[q].pc \in Busy /\ req[q].pc \in Busy)
    BY <2>3, <2>4, <2>5, RowIs
  <2> QED BY <1>4, <1>5, <2>1, <2>2, <2>5, <2>6, TurnsKeeps
<1>7. CASE Uid(k) \notin Visible(r, Folder(k))
  <2>1. Move(r, "forget") /\ UNCHANGED seen
    BY <1>7 DEF SetFlags
  <2>2. Proceeds(r, d)
    BY <1>4, <1>5, <2>1, WriterGoes
  <2>3. Sound
    BY <1>5, <2>1, Unmoved DEF mail
  <2> QED BY <2>2, <2>3, ProceedsKeeps
<1> QED BY <1>6, <1>7

LEMMA MovesStore ==
  ASSUME IInv, NEW r \in Requests, NEW k \in Refs, NEW dest \in Folders,
         Visible(r, Folder(k)) = Present(Folder(k)), MoveTo(r, k, dest), UNCHANGED remade
  PROVE  StoreStep
<1>1. TypeInv /\ StoreInv
  BY DEF IInv, BaseInv
<1>2. Folder(k) \in Folders /\ Uid(k) \in Uids
  BY RefIs
<1>3. CASE store[dest].made /\ Uid(k) \in Visible(r, Folder(k))
  <2>1. PICK m : m = Message(k)
    OBVIOUS
  <2>2. m \in Messages
    BY <1>1, <1>2, <1>3, <2>1 DEF Present, Message, TypeInv, DataTypes, FolderRow
  <2>3. PICK s : s = Taken(store, k)
    OBVIOUS
  <2>4. Thinned(s)
    BY <1>1, <2>3, TakenThins
  <2>5. Room(dest) /\ store' = Put(s, dest, m) /\ Name(dest, m)
    BY <1>3, <2>1, <2>3 DEF MoveTo
  <2> QED BY <1>1, <1>3, <2>2, <2>4, <2>5, PutsStore
<1>4. CASE ~(store[dest].made /\ Uid(k) \in Visible(r, Folder(k)))
  <2>1. UNCHANGED <<store, named>>
    BY <1>4 DEF MoveTo
  <2> QED BY <1>1, <2>1, StoreStays
<1> QED BY <1>3, <1>4

LEMMA MoveMessagesKeeps ==
  ASSUME IInv, NEW r \in Requests, NEW dest \in Folders, MoveMessages(r, dest)
  PROVE  IInv'
<1> DEFINE k == What(r)
<1>1. ShapeOK(req[r]) /\ TypeInv /\ BaseInv /\ CacheInv
  BY RowIs DEF IInv
<1>2. req[r].kind = "move" /\ req[r].pc = "run" /\ req[r].todo # <<>>
  BY <1>1 DEF MoveMessages, At, ShapeOK
<1>3. k \in Refs /\ Folder(k) \in Folders
  BY <1>1, <1>2, WhatIs
<1>4. Writes(req[r]) /\ UNCHANGED <<seen, remade, pool, obj, evicts, cache>>
  BY <1>2 DEF Writes, MoveMessages
<1>5. CacheStep
  BY <1>1, <1>4, CacheStays
<1>6. CASE Folder(k) = dest
  <2>1. Move(r, "skip") /\ UNCHANGED <<cli, store, named>>
    BY <1>6 DEF MoveMessages
  <2>2. Calm
    BY <1>1, <2>1, StaysCalm
  <2>3. Proceeds(r, [req[r] EXCEPT !.pc = "skip"])
    BY <1>4, <2>1, <2>2, WriterGoes
  <2>4. Sound
    BY <1>4, <2>1, Unmoved DEF mail
  <2> QED BY <2>3, <2>4, ProceedsKeeps
<1>7. CASE Folder(k) # dest
  <2>1. Command(r, Folder(k)) /\ MoveTo(r, k, dest) /\ Move(r, "forget")
    BY <1>7 DEF MoveMessages
  <2>2. Calm /\ Visible(r, Folder(k)) = Present(Folder(k))
    BY <1>1, <1>3, <2>1, Commands
  <2>3. Proceeds(r, [req[r] EXCEPT !.pc = "forget"])
    BY <1>4, <2>1, <2>2, WriterGoes
  <2>4. StoreStep
    BY <1>3, <1>4, <2>1, <2>2, MovesStore
  <2>5. Sound
    BY <1>4, <1>5, <2>4 DEF Sound
  <2> QED BY <2>3, <2>5, ProceedsKeeps
<1> QED BY <1>6, <1>7

LEMMA FindTrashKeeps ==
  ASSUME IInv, NEW r \in Requests, FindTrash(r)
  PROVE  IInv'
<1>1. TypeInv /\ BaseInv /\ StoreInv /\ CacheInv
  BY DEF IInv, BaseInv
<1>2. Writes(req[r]) /\ Make(Trash) /\ Move(r, "apply") /\ UNCHANGED <<seen, named, conns, cache>>
  BY DEF FindTrash, At, Writes
<1>3. Calm /\ UNCHANGED <<pool, obj, evicts>>
  BY <1>1, <1>2, StaysCalm DEF conns
<1>4. Proceeds(r, [req[r] EXCEPT !.pc = "apply"])
  BY <1>2, <1>3, WriterGoes
<1>5. StoreStep
  BY <1>1, <1>2, KnownFolders, MakesStore
<1>6. Sound
  BY <1>1, <1>2, <1>5, CacheStays DEF Sound
<1> QED BY <1>4, <1>6, ProceedsKeeps

LEMMA DeleteMessagesKeeps ==
  ASSUME IInv, NEW r \in Requests, NEW permanent \in BOOLEAN, DeleteMessages(r, permanent)
  PROVE  IInv'
<1> DEFINE k == What(r)
<1>1. ShapeOK(req[r]) /\ TypeInv /\ BaseInv /\ StoreInv /\ CacheInv
  BY RowIs DEF IInv
<1>2. req[r].kind = "delete" /\ req[r].pc = "apply" /\ req[r].todo # <<>> /\ Command(r, Folder(k))
  BY <1>1 DEF DeleteMessages, At, ShapeOK
<1>3. k \in Refs /\ Folder(k) \in Folders
  BY <1>1, <1>2, WhatIs
<1>4. Writes(req[r]) /\ Move(r, "forget") /\ UNCHANGED <<seen, remade, pool, obj, evicts, cache>>
  BY <1>2 DEF Writes, DeleteMessages
<1>5. Calm /\ Visible(r, Folder(k)) = Present(Folder(k))
  BY <1>1, <1>2, <1>3, Commands
<1>6. Proceeds(r, [req[r] EXCEPT !.pc = "forget"])
  BY <1>4, <1>5, WriterGoes
<1>7. StoreStep
  <2>1. CASE permanent \/ Folder(k) = Trash
    <3>1. PICK s : s = Taken(store, k)
      OBVIOUS
    <3>2. Thinned(s)
      BY <1>1, <1>3, <3>1, TakenThins
    <3>3. store' = s /\ UNCHANGED named
      BY <2>1, <3>1 DEF DeleteMessages
    <3> QED BY <1>1, <1>4, <3>2, <3>3, ThinsStore
  <2>2. CASE ~(permanent \/ Folder(k) = Trash)
    <3>1. MoveTo(r, k, Trash)
      BY <2>2 DEF DeleteMessages
    <3> QED BY <1>3, <1>4, <1>5, <3>1, KnownFolders, MovesStore
  <2> QED BY <2>1, <2>2
<1>8. Sound
  BY <1>1, <1>4, <1>7, CacheStays DEF Sound
<1> QED BY <1>6, <1>8, ProceedsKeeps

LEMMA TailLeft ==
  ASSUME NEW S, NEW s \in Seq(S), s # <<>>, Len(s) # 1
  PROVE  Tail(s) \in Seq(S) /\ Tail(s) # <<>>
<1>1. Tail(s) \in Seq(S) /\ Len(Tail(s)) = Len(s) - 1
  BY HeadTailProperties
<1>2. Len(Tail(s)) # 0
  BY <1>1, LenProperties
<1> QED BY <1>1, <1>2, EmptySeq

LEMMA InvalidateKeeps ==
  ASSUME IInv, NEW r \in Requests, Invalidate(r)
  PROVE  IInv'
<1>1. req[r] \in ReqRow /\ ShapeOK(req[r]) /\ TypeInv /\ BaseInv /\ StoreInv /\ CacheInv
  BY RowIs DEF IInv
<1>2. req[r].kind \notin {"load", "thread"} /\ req[r].pc \in {"forget", "skip"} /\ req[r].todo # <<>>
  BY <1>1 DEF Invalidate, ShapeOK
<1>3. CacheStep
  <2>1. CASE req[r].pc = "forget"
    BY <1>1, <2>1, CacheDropped DEF Invalidate
  <2>2. CASE req[r].pc # "forget"
    BY <1>1, <2>2, CacheStays DEF Invalidate
  <2> QED BY <2>1, <2>2
<1>4. Sound
  BY <1>1, <1>3, StoreStays DEF Sound, Invalidate, mail
<1>5. CASE Len(req[r].todo) = 1
  <2>1. Finished(r) /\ Works(r)
    BY <1>2, <1>5 DEF Invalidate, Works
  <2> QED BY <1>4, <2>1, CallsCalm, ConcludesKeeps
<1>6. CASE Len(req[r].todo) # 1
  <2> DEFINE p == IF req[r].kind = "delete" THEN "apply" ELSE "run"
             d == [req[r] EXCEPT !.todo = Tail(req[r].todo), !.pc = p]
  <2>1. req' = [req EXCEPT ![r] = d] /\ UNCHANGED conns
    BY <1>6 DEF Invalidate
  <2>2. p \in {"run", "apply"}
    OBVIOUS
  <2> HIDE DEF p
  <2>3. req[r].todo \in Seq(Refs)
    BY <1>1 DEF ReqRow
  <2>4. Tail(req[r].todo) \in Seq(Refs) /\ Tail(req[r].todo) # <<>>
    BY <1>2, <1>6, <2>3, TailLeft
  <2>5. /\ d \in ReqRow /\ d.pc = p /\ d.kind = req[r].kind /\ d.todo = Tail(req[r].todo)
        /\ d.on = req[r].on /\ d.cli = req[r].cli /\ d.since = req[r].since
        /\ d.flags = req[r].flags /\ d.got = req[r].got
    BY <1>1, <2>2, <2>4 DEF ReqRow, Steps
  <2> HIDE DEF d
  <2>6. Writes(req[r]) /\ Writes(d)
    BY <1>2, <2>2, <2>5 DEF Writes
  <2>7. ShapeOK(d) /\ ReadOK(d) /\ req[r].pc \in Busy /\ d.pc \in Busy
    BY <2>4, <2>5, <2>6, WriterIs
  <2>8. Calm /\ UNCHANGED <<pool, obj, evicts>>
    BY <1>1, <2>1, StaysCalm DEF conns
  <2>9. Proceeds(r, d)
    BY <2>1, <2>5, <2>7, <2>8 DEF Proceeds
  <2> QED BY <1>4, <2>9, ProceedsKeeps
<1> QED BY <1>5, <1>6

LEMMA CreateFolderKeeps ==
  ASSUME IInv, NEW r \in Requests, CreateFolder(r)
  PROVE  IInv'
<1> DEFINE f == Folder(What(r))
<1>1. ShapeOK(req[r]) /\ TypeInv /\ BaseInv /\ StoreInv /\ CacheInv
  BY RowIs DEF IInv
<1>2. req[r].kind = "mkdir" /\ req[r].pc = "run" /\ req[r].todo # <<>>
  BY <1>1 DEF CreateFolder, At, ShapeOK
<1>3. f \in Folders
  BY <1>1, <1>2, WhatIs
<1>4. Works(r) /\ Finished(r) /\ UNCHANGED cache
  BY <1>2 DEF CreateFolder, Works
<1>5. Sound
  <2>1. CASE store[f].made
    BY <1>4, <2>1, Unmoved DEF CreateFolder
  <2>2. CASE ~store[f].made
    <3>1. Make(f) /\ UNCHANGED <<seen, named>>
      BY <2>2 DEF CreateFolder
    <3> QED BY <1>1, <1>3, <1>4, <3>1, MakesStore, CacheStays DEF Sound
  <2> QED BY <2>1, <2>2
<1> QED BY <1>4, <1>5, CallsCalm, ConcludesKeeps
-----------------------------------------------------------------------------
(* Connections that are made, and connections that end.                     *)

LEMMA ForgottenIs ==
  ASSUME TypeInv, NEW C
  PROVE  /\ Forgotten(C) \in [Objects -> ObjRow]
         /\ \A o \in Objects : /\ Forgotten(C)[o].client = IF obj[o].client \in C THEN None ELSE obj[o].client
                               /\ Forgotten(C)[o].queue = obj[o].queue
                               /\ Forgotten(C)[o].closedBusy = obj[o].closedBusy
BY DEF TypeInv, ObjRow, Forgotten

LEMMA ClosedIsRow == NoClient \in CliRow /\ NoClient.st = "closed" /\ NoClient.sel = None
BY DEF NoClient, CliRow

LEMMA WithoutIs ==
  ASSUME NEW C, NEW clis \in [Clients -> CliRow]
  PROVE  /\ Without(C, clis) \in [Clients -> CliRow]
         /\ \A c \in Clients : Without(C, clis)[c] = IF c \in C THEN NoClient ELSE clis[c]
BY ClosedIsRow DEF Without

LEMMA DeselectedIs ==
  ASSUME TypeInv, NEW f
  PROVE  /\ Deselected(f) \in [Clients -> CliRow]
         /\ \A c \in Clients : /\ Deselected(f)[c].st = cli[c].st /\ Deselected(f)[c].born = cli[c].born
                               /\ Deselected(f)[c].sel = cli[c].sel \/ Deselected(f)[c].sel = None
<1>1. \A x \in CliRow : LET y == [x EXCEPT !.sel = None, !.view = {}]
                        IN y \in CliRow /\ y.st = x.st /\ y.born = x.born /\ y.sel = None
  BY DEF CliRow
<1>2. cli \in [Clients -> CliRow]
  BY DEF TypeInv
<1>3. \A c \in Clients : Deselected(f)[c] = [cli[c] EXCEPT !.sel = None, !.view = {}] \/ Deselected(f)[c] = cli[c]
  BY DEF Deselected
<1>4. \A c \in Clients : /\ Deselected(f)[c] \in CliRow
                         /\ Deselected(f)[c].st = cli[c].st /\ Deselected(f)[c].born = cli[c].born
                         /\ Deselected(f)[c].sel = cli[c].sel \/ Deselected(f)[c].sel = None
  <2> SUFFICES ASSUME NEW c \in Clients
               PROVE  /\ Deselected(f)[c] \in CliRow
                      /\ Deselected(f)[c].st = cli[c].st /\ Deselected(f)[c].born = cli[c].born
                      /\ Deselected(f)[c].sel = cli[c].sel \/ Deselected(f)[c].sel = None
    OBVIOUS
  <2>1. PICK x \in CliRow : x = cli[c]
    BY <1>2
  <2> QED BY <1>1, <1>3, <2>1
<1> QED BY <1>4 DEF Deselected

LEMMA DisconnectedAreOpen ==
  ASSUME BaseInv, NEW f \in Folders, NEW own
  PROVE  Disconnected(f, own) \in SUBSET Opened
BY NoneOutside DEF BaseInv, ConnInv, ClientInv, Disconnected, Opened

\* A request is over, and the connections in C with it.
LEMMA EndedKeeps ==
  ASSUME IInv, NEW r \in Requests, Works(r), req' = [req EXCEPT ![r] = Idle],
         obj' \in [Objects -> ObjRow], cli' \in [Clients -> CliRow],
         NEW C \in SUBSET Clients, C \subseteq Opened \/ (LogsIn(r) /\ C = {req[r].cli}), Ends(r, C), Sound
  PROVE  IInv'
<1>1. TypeInv /\ BaseInv /\ DataTypes'
  BY SoundTypes DEF IInv, BaseInv
<1>2. req' \in [Requests -> ReqRow] /\ \A q \in Requests : req'[q] = IF q = r THEN Idle ELSE req[q]
  BY <1>1, IdleIsRow DEF TypeInv
<1>3. TypeInv'
  BY <1>1, <1>2 DEF TypeInv, Ends, Loses
<1>4. ShapesInv'
  BY <1>1, <1>2, IdleIsRow DEF BaseInv, ShapesInv
<1>5. ConnInv'
  BY <1>1, <1>3, EndsKeeps
<1>6. \A q \in Requests : ReadOK(req'[q])
  BY <1>2, IdleReads DEF IInv, ReadInv
<1>7. BaseInv'
  BY <1>3, <1>4, <1>5 DEF BaseInv
<1> QED BY <1>6, <1>7, RestKeeps

LEMMA DeleteFolderKeeps ==
  ASSUME IInv, NEW r \in Requests, DeleteFolder(r)
  PROVE  IInv'
<1> DEFINE f == Folder(What(r))
           C == Disconnected(f, req[r].cli)
           a == req[r].on
<1>1. ShapeOK(req[r]) /\ TypeInv /\ BaseInv /\ StoreInv /\ CacheInv
  BY RowIs DEF IInv
<1>2. req[r].kind = "rmdir" /\ req[r].pc = "run" /\ req[r].todo # <<>> /\ Works(r) /\ UNCHANGED cache
  BY <1>1 DEF DeleteFolder, At, ShapeOK, Works
<1>3. f \in Folders
  BY <1>1, <1>2, WhatIs
<1>4. CASE ~store[f].made
  <2>1. Finished(r) /\ UNCHANGED mail
    BY <1>4 DEF DeleteFolder
  <2>2. Sound
    BY <1>2, <2>1, Unmoved
  <2> QED BY <1>2, <2>1, <2>2, CallsCalm, ConcludesKeeps
<1>5. CASE store[f].made
  <2>1. /\ store' = [store EXCEPT ![f] = NoFolder]
        /\ req' = [req EXCEPT ![r] = Idle]
        /\ obj' = [Forgotten(C) EXCEPT ![a].queue = Tail(@)]
        /\ cli' = Without(C, Deselected(f))
        /\ UNCHANGED <<seen, named, remade, pool, evicts>>
    BY <1>5 DEF DeleteFolder
  <2>2. Sound
    BY <1>1, <1>2, <1>3, <2>1, DeletesStore, CacheStays DEF Sound
  <2>3. C \in SUBSET Opened
    BY <1>1, <1>3, DisconnectedAreOpen
  <2> HIDE DEF C
  <2>4. OnHead(r) /\ a \in Objects
    BY <1>1, <1>2, OnHeadWorks
  <2>5. obj[a].queue \in Seq(Requests) /\ obj[a].queue # <<>>
    BY <1>1, <2>4 DEF OnHead, TypeInv, ObjRow
  <2>6. Tail(obj[a].queue) \in Seq(Requests)
    BY <2>5, TailOf
  <2>7. PICK F : F = Forgotten(C)
    OBVIOUS
  <2>8. /\ F \in [Objects -> ObjRow]
        /\ \A o \in Objects : /\ F[o].client = IF obj[o].client \in C THEN None ELSE obj[o].client
                              /\ F[o].queue = obj[o].queue
                              /\ F[o].closedBusy = obj[o].closedBusy
    BY <1>1, <2>7, ForgottenIs
  <2> DEFINE x == [F[a] EXCEPT !.queue = Tail(obj[a].queue)]
  <2>9. obj' = [F EXCEPT ![a] = x]
    BY <2>1, <2>4, <2>7, <2>8
  <2>10. x \in ObjRow /\ x.client = F[a].client /\ x.closedBusy = F[a].closedBusy /\ x.queue = Tail(obj[a].queue)
    BY <2>4, <2>6, <2>8 DEF ObjRow
  <2> HIDE DEF x
  <2>11. obj' \in [Objects -> ObjRow] /\ obj'[a] = x /\ \A o \in Objects \ {a} : obj'[o] = F[o]
    BY <2>4, <2>8, <2>9, <2>10
  <2>12. PICK D : D = Deselected(f)
    OBVIOUS
  <2>13. /\ D \in [Clients -> CliRow]
         /\ \A c \in Clients : /\ D[c].st = cli[c].st /\ D[c].born = cli[c].born
                               /\ D[c].sel = cli[c].sel \/ D[c].sel = None
    BY <1>1, <2>12, DeselectedIs
  <2>14. cli' \in [Clients -> CliRow] /\ \A c \in Clients : cli'[c] = IF c \in C THEN NoClient ELSE D[c]
    BY <2>1, <2>12, <2>13, WithoutIs
  <2>15. \A c \in Clients : IF c \in C THEN cli'[c].st = "closed" /\ cli'[c].sel = None
                            ELSE /\ cli'[c].st = cli[c].st /\ cli'[c].born = cli[c].born
                                 /\ cli[c].st # "open" => cli'[c].sel = None
    BY <1>1, <2>13, <2>14, ClosedIsRow DEF BaseInv, ConnInv, ClientInv
  <2>16. \A o \in Objects : /\ obj'[o].client = IF obj[o].client \in C THEN None ELSE obj[o].client
                            /\ obj'[o].closedBusy = obj[o].closedBusy
                            /\ obj'[o].queue = IF o = a THEN Tail(obj[o].queue) ELSE obj[o].queue
    BY <2>4, <2>8, <2>10, <2>11
  <2>17. Loses(C)
    BY <2>1, <2>15, <2>16 DEF Loses
  <2>18. req'[r] = Idle /\ \A q \in Requests \ {r} : Keeps(q)
    BY <1>1, <2>1 DEF TypeInv, Keeps
  <2>19. Ends(r, C)
    BY <2>16, <2>17, <2>18 DEF Ends
  <2>20. C \in SUBSET Clients
    BY <2>3 DEF Opened
  <2> QED BY <1>2, <2>1, <2>2, <2>3, <2>11, <2>14, <2>19, <2>20, EndedKeeps
<1> QED BY <1>4, <1>5

LEMMA LoginFailsKeeps ==
  ASSUME IInv, NEW r \in Requests, LoginFails(r)
  PROVE  IInv'
<1> DEFINE a == req[r].on
           c == req[r].cli
           x == [obj[a] EXCEPT !.queue = Tail(obj[a].queue)]
<1>1. TypeInv /\ BaseInv
  BY DEF IInv, BaseInv
<1>2. /\ LogsIn(r) /\ Works(r)
      /\ req' = [req EXCEPT ![r] = Idle]
      /\ obj' = [obj EXCEPT ![a] = x]
      /\ cli' = [cli EXCEPT ![c] = NoClient]
      /\ UNCHANGED <<mail, cache, pool, evicts>>
  BY DEF LoginFails, Over, LogsIn, Works
<1>3. Sound
  BY <1>2, Unmoved
<1>4. OnHead(r) /\ a \in Objects
  BY <1>1, <1>2, OnHeadWorks
<1>5. c \in Clients /\ cli[c].st = "login" /\ \A o \in Objects : obj[o].client # c
  BY <1>1, <1>2, NoneOutside DEF BaseInv, ConnInv, ClientInv
<1>6. obj[a] \in ObjRow /\ obj[a].queue \in Seq(Requests) /\ obj[a].queue # <<>>
  BY <1>1, <1>4 DEF OnHead, TypeInv, ObjRow
<1>7. Tail(obj[a].queue) \in Seq(Requests)
  BY <1>6, TailOf
<1>8. x \in ObjRow /\ x.client = obj[a].client /\ x.closedBusy = obj[a].closedBusy /\ x.queue = Tail(obj[a].queue)
  BY <1>6, <1>7 DEF ObjRow
<1> HIDE DEF x
<1>9. obj' \in [Objects -> ObjRow] /\ obj'[a] = x /\ \A o \in Objects \ {a} : obj'[o] = obj[o]
  BY <1>1, <1>2, <1>4, <1>8 DEF TypeInv
<1>10. cli' \in [Clients -> CliRow] /\ cli'[c] = NoClient /\ \A d \in Clients \ {c} : cli'[d] = cli[d]
  BY <1>1, <1>2, <1>5, ClosedIsRow DEF TypeInv
<1>11. \A d \in Clients : IF d \in {c} THEN cli'[d].st = "closed" /\ cli'[d].sel = None
                          ELSE /\ cli'[d].st = cli[d].st /\ cli'[d].born = cli[d].born
                               /\ cli[d].st # "open" => cli'[d].sel = None
  BY <1>1, <1>10, ClosedIsRow DEF BaseInv, ConnInv, ClientInv
<1>12. \A o \in Objects : /\ obj'[o].client = IF obj[o].client \in {c} THEN None ELSE obj[o].client
                          /\ obj'[o].closedBusy = obj[o].closedBusy
                          /\ obj'[o].queue = IF o = a THEN Tail(obj[o].queue) ELSE obj[o].queue
  BY <1>5, <1>8, <1>9
<1>13. Loses({c})
  BY <1>2, <1>11, <1>12 DEF Loses
<1>14. req'[r] = Idle /\ \A q \in Requests \ {r} : Keeps(q)
  BY <1>1, <1>2 DEF TypeInv, Keeps
<1>15. Ends(r, {c})
  BY <1>12, <1>13, <1>14 DEF Ends
<1>16. {c} \in SUBSET Clients
  BY <1>5
<1> QED BY <1>2, <1>3, <1>9, <1>10, <1>15, <1>16, EndedKeeps

\* A request starts its work.
LEMMA StartsKeeps ==
  ASSUME IInv, NEW r \in Requests, req[r].pc \in {"queued", "login"}, NEW d \in ReqRow, d.pc \in {"login", "run"},
         d.kind = req[r].kind, d.todo = req[r].todo, d.due = req[r].due, d.turned = req[r].turned,
         d.flags = req[r].flags, d.got = req[r].got,
         req' = [req EXCEPT ![r] = d], TypeInv', ConnInv', UNCHANGED <<mail, cache>>
  PROVE  IInv'
<1>1. req[r] \in ReqRow /\ ShapeOK(req[r]) /\ ReadOK(req[r]) /\ TypeInv /\ BaseInv
  BY RowIs
<1>2. req'[r] = d /\ \A q \in Requests \ {r} : req'[q] = req[q]
  BY <1>1 DEF TypeInv
<1>3. ShapeOK(d)
  BY <1>1 DEF ShapeOK
<1>4. AnswerOK(d)
  BY <1>1 DEF ReadOK, AnswerOK, FlagOK
<1>5. ThreadOK(d)
  BY <1>1 DEF ReadOK, ThreadOK
<1>6. \A q \in Requests : ReadOK(req'[q])
  BY <1>2, <1>4, <1>5 DEF IInv, ReadInv, ReadOK
<1>7. ShapesInv'
  BY <1>1, <1>2, <1>3 DEF BaseInv, ShapesInv
<1>8. BaseInv'
  BY <1>7 DEF BaseInv
<1>9. Sound
  BY Unmoved
<1> QED BY <1>6, <1>8, <1>9, RestKeeps

LEMMA BeginKeeps ==
  ASSUME IInv, NEW r \in Requests, Begin(r)
  PROVE  IInv'
<1> DEFINE o == req[r].on
<1>1. req[r] \in ReqRow /\ TypeInv /\ BaseInv
  BY RowIs
<1>2. req[r].pc = "queued" /\ OnHead(r) /\ UNCHANGED <<mail, cache, pool, obj, evicts>>
  BY DEF Begin
<1>3. PICK e \in ReqRow : e = req[r]
  BY <1>1
<1>4. o \in Objects
  BY <1>1, <1>2 DEF BaseInv, ConnInv, QueueInv, Waits
<1>5. DataTypes' /\ StoreInv' /\ CacheInv'
  BY <1>1, <1>2, Unmoved, SoundTypes
<1>6. CASE Usable(obj[o].client)
  <2>1. req' = [req EXCEPT ![r].pc = "run", ![r].cli = obj[o].client] /\ UNCHANGED cli
    BY <1>6 DEF Begin
  <2>2. PICK c \in Clients : c = obj[o].client
    BY <1>1, <1>4, <1>6 DEF Usable, TypeInv, ObjRow
  <2>3. PICK d : d = [req[r] EXCEPT !.pc = "run", !.cli = c]
    OBVIOUS
  <2>4. /\ d \in ReqRow /\ d.pc = "run" /\ d.cli = c /\ d.on = req[r].on /\ d.since = req[r].since
        /\ d.kind = req[r].kind /\ d.todo = req[r].todo /\ d.due = req[r].due /\ d.turned = req[r].turned
        /\ d.flags = req[r].flags /\ d.got = req[r].got
    <3>1. d = [e EXCEPT !.pc = "run", !.cli = c]
      BY <1>3, <2>3
    <3>2. d \in ReqRow
      BY <3>1 DEF ReqRow, Steps
    <3>3. /\ d.pc = "run" /\ d.cli = c /\ d.on = e.on /\ d.since = e.since /\ d.kind = e.kind /\ d.todo = e.todo
          /\ d.due = e.due /\ d.turned = e.turned /\ d.flags = e.flags /\ d.got = e.got
      BY <3>1 DEF ReqRow
    <3> QED BY <1>3, <3>2, <3>3
  <2>5. req' = [req EXCEPT ![r] = d]
    BY <2>1, <2>2, <2>3
  <2>6. req' \in [Requests -> ReqRow] /\ req'[r] = d /\ \A q \in Requests \ {r} : req'[q] = req[q]
    BY <1>1, <2>4, <2>5 DEF TypeInv
  <2>7. TypeInv'
    BY <1>1, <1>2, <1>5, <2>1, <2>6 DEF TypeInv
  <2>8. Uses(r)
    BY <1>2, <1>6, <2>1, <2>2, <2>4, <2>6 DEF Uses, Takes, SameReq
  <2>9. ConnInv'
    BY <1>1, <2>7, <2>8, UsesKeeps
  <2> QED BY <1>2, <2>4, <2>5, <2>7, <2>9, StartsKeeps
<1>7. CASE ~Usable(obj[o].client)
  <2>1. PICK c \in Clients :
          /\ cli[c].st = "closed" /\ \A q \in Requests : req[q].cli # c
          /\ cli' = [cli EXCEPT ![c] = [NoClient EXCEPT !.st = "login", !.born = evicts]]
          /\ req' = [req EXCEPT ![r].pc = "login", ![r].cli = c]
    BY <1>7 DEF Begin
  <2>2. PICK d : d = [req[r] EXCEPT !.pc = "login", !.cli = c]
    OBVIOUS
  <2>3. /\ d \in ReqRow /\ d.pc = "login" /\ d.cli = c /\ d.on = req[r].on /\ d.since = req[r].since
        /\ d.kind = req[r].kind /\ d.todo = req[r].todo /\ d.due = req[r].due /\ d.turned = req[r].turned
        /\ d.flags = req[r].flags /\ d.got = req[r].got
    <3>1. d = [e EXCEPT !.pc = "login", !.cli = c]
      BY <1>3, <2>2
    <3>2. d \in ReqRow
      BY <3>1 DEF ReqRow, Steps
    <3>3. /\ d.pc = "login" /\ d.cli = c /\ d.on = e.on /\ d.since = e.since /\ d.kind = e.kind /\ d.todo = e.todo
          /\ d.due = e.due /\ d.turned = e.turned /\ d.flags = e.flags /\ d.got = e.got
      BY <3>1 DEF ReqRow
    <3> QED BY <1>3, <3>2, <3>3
  <2>4. req' = [req EXCEPT ![r] = d]
    BY <2>1, <2>2
  <2>5. req' \in [Requests -> ReqRow] /\ req'[r] = d /\ \A q \in Requests \ {r} : req'[q] = req[q]
    BY <1>1, <2>3, <2>4 DEF TypeInv
  <2> DEFINE n == [NoClient EXCEPT !.st = "login", !.born = evicts]
  <2>6. n \in CliRow /\ n.st = "login" /\ n.sel = None /\ n.born = evicts
    BY <1>1 DEF NoClient, CliRow, TypeInv
  <2> HIDE DEF n
  <2>7. cli' \in [Clients -> CliRow] /\ cli'[c] = n /\ \A k \in Clients \ {c} : cli'[k] = cli[k]
    BY <1>1, <2>1, <2>6 DEF TypeInv, n
  <2>8. TypeInv'
    BY <1>1, <1>2, <1>5, <2>5, <2>7 DEF TypeInv
  <2>9. SignsIn(r, c)
    BY <1>2, <1>7, <2>1, <2>3, <2>5, <2>6, <2>7 DEF SignsIn, Takes, SameReq
  <2>10. ConnInv'
    BY <1>1, <2>8, <2>9, SignsInKeeps
  <2> QED BY <1>2, <2>3, <2>4, <2>8, <2>10, StartsKeeps
<1> QED BY <1>6, <1>7

LEMMA LoginDoneKeeps ==
  ASSUME IInv, NEW r \in Requests, LoginDone(r)
  PROVE  IInv'
<1> DEFINE a == req[r].on
           c == req[r].cli
           d == [req[r] EXCEPT !.pc = "run"]
           x == [obj[a] EXCEPT !.client = c]
           y == [cli[c] EXCEPT !.st = "open"]
<1>1. req[r] \in ReqRow /\ TypeInv /\ BaseInv
  BY RowIs
<1>2. /\ LogsIn(r) /\ Works(r) /\ req[r].pc = "login"
      /\ req' = [req EXCEPT ![r] = d]
      /\ obj' = [obj EXCEPT ![a] = x]
      /\ cli' = [cli EXCEPT ![c] = y]
      /\ UNCHANGED <<mail, cache, pool, evicts>>
  BY DEF LoginDone, Move, LogsIn, Works
<1>3. a \in Objects
  BY <1>1, <1>2, OnHeadWorks
<1>4. c \in Clients
  BY <1>1, <1>2 DEF BaseInv, ConnInv, ClientInv
<1>5. DataTypes'
  BY <1>1, <1>2, Unmoved, SoundTypes
<1>6. /\ d \in ReqRow /\ d.pc = "run" /\ d.cli = c /\ d.on = a /\ d.since = req[r].since
      /\ d.kind = req[r].kind /\ d.todo = req[r].todo /\ d.due = req[r].due /\ d.turned = req[r].turned
      /\ d.flags = req[r].flags /\ d.got = req[r].got
  BY <1>1 DEF ReqRow, Steps
<1>7. x \in ObjRow /\ x.client = c /\ x.queue = obj[a].queue /\ x.closedBusy = obj[a].closedBusy
  BY <1>1, <1>3, <1>4 DEF TypeInv, ObjRow
<1>8. y \in CliRow /\ y.st = "open" /\ y.born = cli[c].born
  BY <1>1, <1>4 DEF TypeInv, CliRow
<1> HIDE DEF d, x, y
<1>9. req' \in [Requests -> ReqRow] /\ req'[r] = d /\ \A q \in Requests \ {r} : req'[q] = req[q]
  BY <1>1, <1>2, <1>6 DEF TypeInv
<1>10. obj' \in [Objects -> ObjRow] /\ obj'[a] = x /\ \A o \in Objects \ {a} : obj'[o] = obj[o]
  BY <1>1, <1>2, <1>3, <1>7 DEF TypeInv
<1>11. cli' \in [Clients -> CliRow] /\ cli'[c] = y /\ \A e \in Clients \ {c} : cli'[e] = cli[e]
  BY <1>1, <1>2, <1>4, <1>8 DEF TypeInv
<1>12. TypeInv'
  BY <1>1, <1>2, <1>5, <1>9, <1>10, <1>11 DEF TypeInv
<1>13. SignedIn(r)
  BY <1>2, <1>6, <1>7, <1>8, <1>9, <1>10, <1>11 DEF SignedIn, SameReq
<1>14. ConnInv'
  BY <1>1, <1>12, <1>13, SignedInKeeps
<1> QED BY <1>2, <1>6, <1>12, <1>14, StartsKeeps

LEMMA WithClientKeeps ==
  ASSUME IInv, NEW r \in Requests, NEW kind \in Kinds, kind # "none", NEW todo \in Seq(Refs), todo # <<>>,
         WithClient(r, kind, todo)
  PROVE  IInv'
<1>1. req[r] \in ReqRow /\ ShapeOK(req[r]) /\ TypeInv /\ BaseInv
  BY RowIs
<1>2. ~Waits(r) /\ UNCHANGED <<mail, cache, cli, evicts>>
  BY DEF WithClient, Waits
<1> DEFINE D == IF kind = "thread" THEN Contents(Folder(todo[1])) ELSE {}
<1>3. PICK o \in Objects :
       /\ IF pool = None THEN Gone(o) ELSE o = pool
       /\ obj' = [obj EXCEPT ![o] = [IF pool = None THEN NoObject ELSE obj[o] EXCEPT !.queue = Append(@, r)]]
       /\ pool' = o
       /\ req' = [req EXCEPT ![r] = [Idle EXCEPT !.pc = "queued", !.kind = kind, !.todo = todo,
             !.on = o, !.since = evicts, !.due = D]]
  BY DEF WithClient
<1>4. todo[1] \in Refs /\ Head(todo) = todo[1]
  BY TailOf
<1>5. \A k \in D : k \in Refs /\ Folder(k) = Folder(Head(todo)) /\ named[k] # None
  <2>1. Folder(todo[1]) \in Folders
    BY <1>4, RefIs
  <2>2. \A k \in Contents(Folder(todo[1])) : /\ k \in Refs /\ Folder(k) = Folder(todo[1])
                                             /\ Message(k) # None
    BY <2>1 DEF Contents, Present, Message, Refs, Folder, Uid
  <2>3. \A k \in Contents(Folder(todo[1])) : named[k] # None
    BY <2>2 DEF IInv, StoreInv
  <2> QED BY <1>4, <2>2, <2>3
<1> HIDE DEF D
<1> DEFINE d == [Idle EXCEPT !.pc = "queued", !.kind = kind, !.todo = todo, !.on = o, !.since = evicts, !.due = D]
<1>6. /\ d \in ReqRow /\ d.pc = "queued" /\ d.kind = kind /\ d.todo = todo /\ d.on = o /\ d.cli = None
      /\ d.since = evicts /\ d.due = D /\ d.flags = {} /\ d.got = {}
  BY <1>1, <1>5 DEF Idle, ReqRow, Steps, TypeInv
<1>7. req' = [req EXCEPT ![r] = d]
  BY <1>3
<1> HIDE DEF d
<1>8. req' \in [Requests -> ReqRow] /\ req'[r] = d /\ \A q \in Requests \ {r} : req'[q] = req[q]
  BY <1>1, <1>6, <1>7 DEF TypeInv
<1>9. obj[o] \in ObjRow
  BY <1>1 DEF TypeInv
<1>10. PICK x : obj' = [obj EXCEPT ![o] = x] /\ x \in ObjRow /\ x.queue = Append(obj[o].queue, r) /\ x.client = obj[o].client
  <2>1. obj[o].queue \in Seq(Requests)
    BY <1>9 DEF ObjRow
  <2>2. Append(obj[o].queue, r) \in Seq(Requests)
    BY <2>1, AppendTo
  <2>3. CASE pool = None
    <3>1. Gone(o) /\ obj' = [obj EXCEPT ![o] = [NoObject EXCEPT !.queue = Append(@, r)]]
      BY <1>3, <2>3
    <3>2. obj[o].queue = <<>> /\ obj[o].client = None
      BY <1>1, <3>1 DEF Gone, Usable, BaseInv, ConnInv, ClientInv
    <3>3. obj' = [obj EXCEPT ![o] = [NoObject EXCEPT !.queue = Append(obj[o].queue, r)]]
      BY <3>1, <3>2 DEF NoObject
    <3> DEFINE x == [NoObject EXCEPT !.queue = Append(obj[o].queue, r)]
    <3>4. x \in ObjRow /\ x.queue = Append(obj[o].queue, r) /\ x.client = None
      BY <2>2 DEF NoObject, ObjRow
    <3> HIDE DEF x
    <3>5. obj' = [obj EXCEPT ![o] = x]
      BY <3>3 DEF x
    <3> QED BY <3>2, <3>4, <3>5
  <2>4. CASE pool # None
    <3>1. obj' = [obj EXCEPT ![o] = [obj[o] EXCEPT !.queue = Append(obj[o].queue, r)]]
      BY <1>3, <2>4
    <3> DEFINE x == [obj[o] EXCEPT !.queue = Append(obj[o].queue, r)]
    <3>2. x \in ObjRow /\ x.queue = Append(obj[o].queue, r) /\ x.client = obj[o].client
      BY <1>9, <2>2 DEF ObjRow
    <3> HIDE DEF x
    <3>3. obj' = [obj EXCEPT ![o] = x]
      BY <3>1 DEF x
    <3> QED BY <3>2, <3>3
  <2> QED BY <2>3, <2>4
<1>11. obj' \in [Objects -> ObjRow] /\ obj'[o] = x /\ \A p \in Objects \ {o} : obj'[p] = obj[p]
  BY <1>1, <1>10 DEF TypeInv
<1>12. Sound
  BY <1>2, Unmoved
<1>13. DataTypes'
  BY <1>1, <1>12, SoundTypes
<1>14. TypeInv'
  BY <1>1, <1>2, <1>3, <1>8, <1>11, <1>13 DEF TypeInv
<1>15. Joins(r, o)
  BY <1>2, <1>3, <1>6, <1>8, <1>10, <1>11 DEF Joins, SameReq
<1>16. ConnInv'
  BY <1>1, <1>14, <1>15, JoinsKeeps
<1>17. ShapeOK(d)
  BY <1>6 DEF ShapeOK
<1>18. ShapesInv'
  BY <1>1, <1>8, <1>17 DEF BaseInv, ShapesInv
<1>19. BaseInv'
  BY <1>14, <1>16, <1>18 DEF BaseInv
<1>20. AnswerOK(d)
  BY <1>6 DEF AnswerOK
<1>21. ThreadOK(d)
  BY <1>5, <1>6 DEF ThreadOK
<1>22. \A q \in Requests : ReadOK(req'[q])
  BY <1>8, <1>20, <1>21 DEF IInv, ReadInv, ReadOK
<1> QED BY <1>12, <1>19, <1>22, RestKeeps

LEMMA CallKeeps ==
  ASSUME IInv, NEW r \in Requests, Call(r)
  PROVE  IInv'
<1>1. \A k \in Refs : <<k>> \in Seq(Refs) /\ <<k>> # <<>>
  OBVIOUS
<1>2. \A k, l \in Refs : <<k, l>> \in Seq(Refs) /\ <<k, l>> # <<>>
  OBVIOUS
<1>3. \A f \in Folders : <<f, 1>> \in Refs
  <2>1. 1 \in Uids
    BY Bounds DEF Uids
  <2> QED BY <2>1 DEF Refs
<1>4. Known \subseteq Refs
  BY DEF Known
<1>5. CASE \E kind \in {"load", "flags", "move", "delete"} : \E k \in Known : WithClient(r, kind, <<k>>)
  <2>1. PICK kind \in {"load", "flags", "move", "delete"}, k \in Known : WithClient(r, kind, <<k>>)
    BY <1>5
  <2>2. kind \in Kinds /\ kind # "none" /\ <<k>> \in Seq(Refs) /\ <<k>> # <<>>
    BY <1>1, <1>4 DEF Kinds
  <2> QED BY <2>1, <2>2, WithClientKeeps
<1>6. CASE \E k, l \in Known : Folder(k) # Folder(l) /\ WithClient(r, "move", <<k, l>>)
  <2>1. PICK k \in Known, l \in Known : WithClient(r, "move", <<k, l>>)
    BY <1>6
  <2>2. "move" \in Kinds /\ <<k, l>> \in Seq(Refs) /\ <<k, l>> # <<>>
    BY <1>2, <1>4 DEF Kinds
  <2> QED BY <2>1, <2>2, WithClientKeeps
<1>7. CASE \E f \in Folders : WithClient(r, "thread", <<<<f, 1>>>>)
  <2>1. PICK f \in Folders : WithClient(r, "thread", <<<<f, 1>>>>)
    BY <1>7
  <2>2. "thread" \in Kinds /\ <<<<f, 1>>>> \in Seq(Refs) /\ <<<<f, 1>>>> # <<>>
    BY <1>1, <1>3 DEF Kinds
  <2> QED BY <2>1, <2>2, WithClientKeeps
<1>8. CASE \E kind \in {"mkdir", "rmdir"} : \E f \in Folders \ {Inbox} : WithClient(r, kind, <<<<f, 1>>>>)
  <2>1. PICK kind \in {"mkdir", "rmdir"}, f \in Folders \ {Inbox} : WithClient(r, kind, <<<<f, 1>>>>)
    BY <1>8
  <2>2. kind \in Kinds /\ kind # "none" /\ <<<<f, 1>>>> \in Seq(Refs) /\ <<<<f, 1>>>> # <<>>
    BY <1>1, <1>3 DEF Kinds
  <2> QED BY <2>1, <2>2, WithClientKeeps
<1> QED BY <1>5, <1>6, <1>7, <1>8 DEF Call
\* The pool's object leaves it: an eviction, or the sweep.
LEMMA ShutKeeps ==
  ASSUME IInv, pool # None, Leaves(pool), Closed(pool), UNCHANGED <<mail, cache, req>>,
         evicts' \in Nat, evicts' >= evicts
  PROVE  IInv'
<1>1. TypeInv /\ BaseInv
  BY DEF IInv, BaseInv
<1>2. PICK o \in Objects : o = pool
  BY <1>1 DEF TypeInv
<1>3. /\ obj' = [obj EXCEPT ![o].client = None, ![o].closedBusy = @ \/ obj[o].queue # <<>>]
      /\ cli' = IF Usable(obj[o].client) THEN [cli EXCEPT ![obj[o].client] = NoClient] ELSE cli
      /\ pool' = None
  BY <1>2 DEF Closed, Leaves
<1> DEFINE x == [obj[o] EXCEPT !.client = None, !.closedBusy = obj[o].closedBusy \/ obj[o].queue # <<>>]
<1>4. obj[o] \in ObjRow
  BY <1>1 DEF TypeInv
<1>5. obj' = [obj EXCEPT ![o] = x]
  BY <1>3
<1>6. x \in ObjRow /\ x.client = None /\ x.queue = obj[o].queue
  BY <1>4 DEF ObjRow
<1>7. x.closedBusy = (obj[o].closedBusy \/ obj[o].queue # <<>>)
  BY <1>4 DEF ObjRow
<1> HIDE DEF x
<1>8. obj' \in [Objects -> ObjRow] /\ obj'[o] = x /\ \A p \in Objects \ {o} : obj'[p] = obj[p]
  BY <1>1, <1>5, <1>6 DEF TypeInv
<1>9. cli' \in [Clients -> CliRow]
  BY <1>1, <1>3, ClosedIsRow DEF TypeInv
<1>10. \A c \in Clients : IF c = obj[o].client THEN cli'[c].st = "closed" /\ cli'[c].sel = None ELSE cli'[c] = cli[c]
  <2> SUFFICES ASSUME NEW c \in Clients
               PROVE  IF c = obj[o].client THEN cli'[c].st = "closed" /\ cli'[c].sel = None ELSE cli'[c] = cli[c]
    OBVIOUS
  <2>1. CASE c = obj[o].client
    <3>1. Usable(obj[o].client)
      BY <1>1, <2>1, NoneOutside DEF Usable, BaseInv, ConnInv, ClientInv
    <3>2. cli' = [cli EXCEPT ![c] = NoClient]
      BY <1>3, <2>1, <3>1
    <3> QED BY <1>1, <2>1, <3>2, ClosedIsRow DEF TypeInv
  <2>2. CASE c # obj[o].client
    BY <1>1, <1>3, <2>2 DEF TypeInv
  <2> QED BY <2>1, <2>2
<1>11. Sound
  BY Unmoved
<1>12. DataTypes'
  BY <1>1, <1>11, SoundTypes
<1>13. TypeInv'
  BY <1>1, <1>3, <1>8, <1>9, <1>12 DEF TypeInv
<1>14. Shuts(o)
  BY <1>2, <1>3, <1>6, <1>7, <1>8, <1>10 DEF Shuts
<1>15. ConnInv'
  BY <1>1, <1>13, <1>14, ShutsKeeps
<1>16. BaseInv'
  BY <1>1, <1>13, <1>15 DEF BaseInv, ShapesInv
<1>17. \A q \in Requests : ReadOK(req'[q])
  BY DEF IInv, ReadInv
<1> QED BY <1>11, <1>16, <1>17, RestKeeps

\* Connections end, and nothing is done to the requests.
LEMMA BreaksKeeps ==
  ASSUME IInv, NEW C \in SUBSET Opened, cli' = Without(C, cli), obj' = Forgotten(C), Sound,
         UNCHANGED <<req, pool, evicts>>
  PROVE  IInv'
<1>1. TypeInv /\ BaseInv /\ DataTypes'
  BY SoundTypes DEF IInv, BaseInv
<1>2. /\ obj' \in [Objects -> ObjRow]
      /\ \A o \in Objects : /\ obj'[o].client = IF obj[o].client \in C THEN None ELSE obj[o].client
                            /\ obj'[o].queue = obj[o].queue
                            /\ obj'[o].closedBusy = obj[o].closedBusy
  BY <1>1, ForgottenIs
<1>3. cli \in [Clients -> CliRow]
  BY <1>1 DEF TypeInv
<1>4. cli' \in [Clients -> CliRow] /\ \A c \in Clients : cli'[c] = IF c \in C THEN NoClient ELSE cli[c]
  BY <1>3, WithoutIs
<1>5. \A c \in Clients : IF c \in C THEN cli'[c].st = "closed" /\ cli'[c].sel = None
                         ELSE /\ cli'[c].st = cli[c].st /\ cli'[c].born = cli[c].born
                              /\ cli[c].st # "open" => cli'[c].sel = None
  BY <1>1, <1>4, ClosedIsRow DEF BaseInv, ConnInv, ClientInv
<1>6. Loses(C)
  BY <1>2, <1>5 DEF Loses
<1>7. \A q \in Requests : Keeps(q)
  BY DEF Keeps
<1>8. Goes(C)
  BY <1>2, <1>6, <1>7 DEF Goes
<1>9. TypeInv'
  BY <1>1, <1>2, <1>4 DEF TypeInv
<1>10. ConnInv'
  BY <1>1, <1>8, <1>9, GoesKeeps
<1>11. BaseInv'
  BY <1>1, <1>9, <1>10 DEF BaseInv, ShapesInv
<1>12. \A q \in Requests : ReadOK(req'[q])
  BY DEF IInv, ReadInv
<1> QED BY <1>11, <1>12, RestKeeps

\* The mail store changes, and nothing else.
LEMMA ApartKeeps ==
  ASSUME IInv, UNCHANGED <<conns, req>>, Sound
  PROVE  IInv'
<1>1. TypeInv /\ BaseInv /\ DataTypes'
  BY SoundTypes DEF IInv, BaseInv
<1>2. UNCHANGED <<pool, obj, cli, evicts, req>>
  BY DEF conns
<1>3. TypeInv'
  BY <1>1, <1>2 DEF TypeInv
<1>4. \A q \in Requests : Keeps(q)
  BY <1>2 DEF Keeps
<1>5. Goes({})
  BY <1>1, <1>2, <1>4 DEF Goes, Loses, BaseInv, ConnInv, ClientInv
<1>6. ConnInv'
  BY <1>1, <1>3, <1>5, GoesKeeps
<1>7. BaseInv'
  BY <1>1, <1>2, <1>3, <1>6 DEF BaseInv, ShapesInv
<1>8. \A q \in Requests : ReadOK(req'[q])
  BY <1>2 DEF IInv, ReadInv
<1> QED BY <1>7, <1>8, RestKeeps

LEMMA OtherAppFlagsKeeps ==
  ASSUME IInv, NEW k \in Refs, OtherAppFlags(k)
  PROVE  IInv'
<1>1. TypeInv /\ BaseInv
  BY DEF IInv, BaseInv
<1>2. Message(k) \in Messages
  BY <1>1, RefIs DEF OtherAppFlags, Message, TypeInv, DataTypes, FolderRow
<1>3. Calm /\ UNCHANGED <<store, named, remade, cache, pool, obj, evicts>> /\ Turn(Message(k), req)
  BY <1>1, StaysCalm DEF OtherAppFlags, conns
<1>4. req \in [Requests -> ReqRow]
  BY <1>1 DEF TypeInv
<1>5. \A q \in Requests : ShapeOK(req[q]) /\ ReadOK(req[q])
  BY RowIs
<1> QED BY <1>2, <1>3, <1>4, <1>5, TurnsKeeps

LEMMA WorldKeeps ==
  ASSUME IInv, World
  PROVE  IInv'
<1>1. TypeInv /\ BaseInv /\ StoreInv /\ CacheInv /\ evicts \in Nat
  BY DEF IInv, BaseInv, TypeInv
<1>2. CASE Evict
  <2>1. evicts' \in Nat /\ evicts' >= evicts
    BY <1>1, <1>2 DEF Evict
  <2> QED BY <1>2, <2>1, ShutKeeps DEF Evict
<1>3. CASE Sweep
  <2>1. evicts' \in Nat /\ evicts' >= evicts
    BY <1>1, <1>3 DEF Sweep
  <2> QED BY <1>3, <2>1, ShutKeeps DEF Sweep
<1>4. ASSUME NEW c \in Clients, ConnectionLost(c) PROVE IInv'
  <2>1. {c} \in SUBSET Opened
    BY <1>4 DEF ConnectionLost, Opened
  <2>2. Sound
    BY <1>4, Unmoved DEF ConnectionLost
  <2> QED BY <1>4, <2>1, <2>2, BreaksKeeps DEF ConnectionLost
<1>5. ASSUME NEW f \in Folders, NEW m \in Messages, Arrive(f, m) PROVE IInv'
  <2>1. Thinned(store)
    BY <1>1 DEF Thinned, TypeInv, DataTypes
  <2>2. StoreStep
    BY <1>1, <1>5, <2>1, PutsStore DEF Arrive
  <2>3. Sound
    BY <1>1, <1>5, <2>2, CacheStays DEF Sound, Arrive
  <2> QED BY <1>5, <2>3, ApartKeeps DEF Arrive
<1>6. ASSUME NEW f \in Folders, OtherAppDeletes(f) PROVE IInv'
  <2>1. Disconnected(f, None) \in SUBSET Opened
    BY <1>1, DisconnectedAreOpen
  <2>2. StoreStep
    BY <1>1, <1>6, DeletesStore DEF OtherAppDeletes
  <2>3. Sound
    BY <1>1, <1>6, <2>2, CacheStays DEF Sound, OtherAppDeletes
  <2> QED BY <1>6, <2>1, <2>3, BreaksKeeps DEF OtherAppDeletes
<1>7. ASSUME NEW f \in Folders, OtherAppCreates(f) PROVE IInv'
  <2>1. StoreStep
    BY <1>1, <1>7, MakesStore DEF OtherAppCreates
  <2>2. Sound
    BY <1>1, <1>7, <2>1, CacheStays DEF Sound, OtherAppCreates
  <2> QED BY <1>7, <2>2, ApartKeeps DEF OtherAppCreates
<1>8. ASSUME NEW k \in Refs, OtherAppExpunges(k) PROVE IInv'
  <2>1. PICK s : s = Taken(store, k)
    OBVIOUS
  <2>2. Thinned(s)
    BY <1>1, <2>1, TakenThins
  <2>3. StoreStep
    BY <1>1, <1>8, <2>1, <2>2, ThinsStore DEF OtherAppExpunges
  <2>4. Sound
    BY <1>1, <1>8, <2>3, CacheStays DEF Sound, OtherAppExpunges
  <2> QED BY <1>8, <2>4, ApartKeeps DEF OtherAppExpunges
<1> QED BY <1>2, <1>3, <1>4, <1>5, <1>6, <1>7, <1>8, OtherAppFlagsKeeps DEF World

LEMMA StepKeeps ==
  ASSUME IInv, NEW r \in Requests, Step(r)
  PROVE  IInv'
<1>1. CASE Begin(r) \/ LoginDone(r) \/ LoginFails(r) \/ Cut(r) \/ NoSuchFolder(r)
  BY <1>1, BeginKeeps, LoginDoneKeeps, LoginFailsKeeps, CutKeeps, NoSuchFolderKeeps
<1>2. CASE LoadHit(r) \/ LoadFlags(r) \/ LoadMiss(r) \/ Parsed(r) \/ Replied(r)
  BY <1>2, LoadHitKeeps, LoadFlagsKeeps, LoadMissKeeps, ParsedKeeps, RepliedKeeps
<1>3. CASE Search(r) \/ FetchFlags(r) \/ FromCache(r) \/ FetchEach(r) \/ LoadedAll(r)
  BY <1>3, SearchKeeps, FetchFlagsKeeps, FromCacheKeeps, FetchEachKeeps, LoadedAllKeeps
<1>4. CASE SetFlags(r) \/ FindTrash(r) \/ Invalidate(r)
  BY <1>4, SetFlagsKeeps, FindTrashKeeps, InvalidateKeeps
<1>5. CASE \E dest \in Folders : MoveMessages(r, dest)
  BY <1>5, MoveMessagesKeeps
<1>6. CASE \E permanent \in BOOLEAN : DeleteMessages(r, permanent)
  BY <1>6, DeleteMessagesKeeps
<1>7. CASE CreateFolder(r) \/ DeleteFolder(r)
  BY <1>7, CreateFolderKeeps, DeleteFolderKeeps
<1> QED BY <1>1, <1>2, <1>3, <1>4, <1>5, <1>6, <1>7 DEF Step

-----------------------------------------------------------------------------
(* The invariant, and what it says.                                         *)

LEMMA InitHolds ==
  ASSUME Init
  PROVE  IInv
<1>1. PICK m \in Messages, f \in {Inbox, Trash} :
        /\ store = [g \in Folders |-> IF g = f THEN [NewFolder EXCEPT !.next = 2, !.at[1] = m]
                                      ELSE IF g \in {Inbox, Trash} THEN NewFolder ELSE NoFolder]
        /\ named = [k \in Refs |-> IF k = <<f, 1>> THEN m ELSE None]
  BY DEF Init
<1>2. /\ seen = [x \in Messages |-> FALSE] /\ cache = <<>> /\ pool = None /\ obj = [o \in Objects |-> NoObject]
      /\ cli = [c \in Clients |-> NoClient] /\ req = [r \in Requests |-> Idle] /\ evicts = 0 /\ remade = {}
  BY DEF Init
<1> DEFINE F == [NewFolder EXCEPT !.next = 2, !.at[1] = m]
<1>3. MaxUid \in Nat /\ MaxUid >= 1 /\ CacheSize \in Nat /\ f \in Folders
  BY Bounds, KnownFolders
<1>4. F \in FolderRow /\ F.made /\ F.next = 2 /\ F.at[1] = m /\ \A u \in Uids \ {1} : F.at[u] = None
  <2>1. 2 \in 1..(MaxUid + 1) /\ 1 \in Uids
    BY <1>3 DEF Uids
  <2> QED BY <2>1 DEF NewFolder, NoFolder, FolderRow
<1> HIDE DEF F
<1>5. store = [g \in Folders |-> IF g = f THEN F ELSE IF g \in {Inbox, Trash} THEN NewFolder ELSE NoFolder]
  BY <1>1 DEF F
<1>6. store \in [Folders -> FolderRow] /\ store[f] = F /\ \A g \in Folders \ {f} : store[g] = NewFolder \/ store[g] = NoFolder
  BY <1>3, <1>4, <1>5, EmptyFolders
<1>7. named \in [Refs -> Messages \cup {None}] /\ \A k \in Refs : named[k] = IF k = <<f, 1>> THEN m ELSE None
  BY <1>1
<1>8. DataTypes
  BY <1>2, <1>6, <1>7 DEF DataTypes
<1>9. TypeInv
  BY <1>2, <1>8, IdleIsRow, ClosedIsRow DEF TypeInv, NoObject, ObjRow
<1>10. StoreInv
  <2>1. \A k \in Refs : Message(k) # None => k = <<f, 1>>
    <3> SUFFICES ASSUME NEW k \in Refs, Message(k) # None PROVE k = <<f, 1>>
      OBVIOUS
    <3>1. Folder(k) \in Folders /\ Uid(k) \in Uids /\ k = <<Folder(k), Uid(k)>>
      BY RefIs
    <3>2. Folder(k) = f
      BY <1>6, <3>1, EmptyFolders DEF Message
    <3>3. Uid(k) = 1
      BY <1>4, <1>6, <3>1, <3>2 DEF Message
    <3> QED BY <3>1, <3>2, <3>3
  <2>2. \A k \in Refs : k = <<f, 1>> => /\ Folder(k) = f /\ Uid(k) = 1
                                        /\ Message(k) = m /\ named[k] = m /\ store[Folder(k)].made
                                        /\ Uid(k) < store[Folder(k)].next
    BY <1>4, <1>6, <1>7 DEF Message, Folder, Uid
  <2>3. \A k \in Refs : named[k] # None => k = <<f, 1>>
    BY <1>7
  <2> QED BY <2>1, <2>2, <2>3 DEF StoreInv
<1>11. CacheInv
  BY <1>2, <1>3 DEF CacheInv, Unique
<1>12. \A r \in Requests : req[r] = Idle
  BY <1>2
<1>13. ReadInv
  BY <1>12, IdleReads DEF ReadInv
<1>14. ShapesInv
  BY <1>12, IdleIsRow DEF ShapesInv
<1>15. \A r \in Requests : ~Waits(r) /\ ~Works(r) /\ ~LogsIn(r) /\ req[r].cli = None /\ req[r].since = 0
  BY <1>12 DEF Idle, Waits, Works, LogsIn
<1>16. /\ \A o \in Objects : obj[o].client = None /\ obj[o].queue = <<>>
       /\ \A c \in Clients : cli[c].st = "closed" /\ cli[c].sel = None
  BY <1>2, ClosedIsRow DEF NoObject
<1>17. QueueInv
  BY <1>15, <1>16 DEF QueueInv
<1>18. ClientInv
  BY <1>15, <1>16 DEF ClientInv
<1>19. FreshInv
  BY <1>2, <1>15, <1>16 DEF FreshInv, FreshAfterEviction, Usable
<1> QED BY <1>9, <1>10, <1>11, <1>13, <1>14, <1>17, <1>18, <1>19 DEF IInv, BaseInv, ConnInv

LEMMA SameKeeps ==
  ASSUME IInv, UNCHANGED vars
  PROVE  IInv'
<1>1. UNCHANGED <<mail, cache, conns, req>>
  BY DEF vars
<1>2. Sound
  BY <1>1, Unmoved
<1> QED BY <1>1, <1>2, ApartKeeps

LEMMA NextKeeps ==
  ASSUME IInv, [Next]_vars
  PROVE  IInv'
<1>1. CASE World
  BY <1>1, WorldKeeps
<1>2. CASE \E r \in Requests : Call(r)
  BY <1>2, CallKeeps
<1>3. CASE \E r \in Requests : Step(r)
  BY <1>3, StepKeeps
<1>4. CASE UNCHANGED vars
  BY <1>4, SameKeeps
<1> QED BY <1>1, <1>2, <1>3, <1>4 DEF Next

\* The inductive invariant holds in every reachable state: what a UID stands for in the store, the
\* cache and the answers being made, and who holds which connection (mail/pool.ts, mail/message.ts).
THEOREM Inductive == Spec => []IInv
<1>1. Init => IInv
  BY InitHolds
<1>2. IInv /\ [Next]_vars => IInv'
  BY NextKeeps
<1> QED BY <1>1, <1>2, PTL DEF Spec

\* The variables have their types, and the cache keeps at most CacheSize bodies, one of each
\* reference, whatever requests set, read and drop (mail/lru.ts).
THEOREM Types == Spec => []TypeOK
<1>1. IInv => TypeOK
  BY DEF IInv, BaseInv, TypeInv, DataTypes, CacheInv, Unique, TypeOK, FolderRow, ObjRow, CliRow
<1> QED BY <1>1, Inductive, PTL

\* Whoever asks for a UID is given the message that has it, and no flag from before the request
\* (mail/message.ts: key, withFlags; mail/routes.ts).
THEOREM Answers == Spec => []AnswersAreTheMessage
<1>1. IInv => AnswersAreTheMessage
  BY DEF IInv, ReadInv, ReadOK, AnswerOK, BodyOK, FlagOK, AnswersAreTheMessage
<1> QED BY <1>1, Inductive, PTL

\* A conversation is answered with every message that was there when it was asked for and still is
\* (mail/routes.ts: GET /threads/:threadId; mail/pool.ts: lockFolder).
THEOREM Conversations == Spec => []ConversationsAreWhole
<1>1. IInv => ConversationsAreWhole
  BY DEF IInv, ReadInv, ReadOK, ThreadOK, Lost, Has, At, ConversationsAreWhole
<1> QED BY <1>1, Inductive, PTL

\* An open connection that neither the pool nor a request can close belongs to an object that was
\* closed while it had work (mail/pool.ts: close).
THEOREM Orphans == Spec => []OrphansOnlyWhenClosedBusy
<1>1. IInv => OrphansOnlyWhenClosedBusy
  BY NoneOutside DEF IInv, BaseInv, ConnInv, ClientInv, OrphansOnlyWhenClosedBusy
<1> QED BY <1>1, Inductive, PTL

\* A request made after an eviction never runs on a connection that signed in before it
\* (mail/pool.ts: evict).
THEOREM Fresh == Spec => []FreshAfterEviction
<1>1. IInv => FreshAfterEviction
  BY DEF IInv, BaseInv, ConnInv, FreshInv
<1> QED BY <1>1, Inductive, PTL
=============================================================================
