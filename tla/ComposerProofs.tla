--------------------------- MODULE ComposerProofs ---------------------------
(***************************************************************************)
(* Proofs about Composer, for any messages and any number of acts and      *)
(* failures.  ActiveInv and SendInv say where a message is: on screen, in  *)
(* a chain of saves, waiting to be sent, on its way or sent.  KeepInv says *)
(* which version of it is there, DraftInv where its draft is known.        *)
(***************************************************************************)
EXTENDS Composer, FiniteSetTheorems, SequenceTheorems, TLAPS

Jobs == {"save", "close", "flush", "send"}
BodyRow == [text : Nat, att : SUBSET Nat, uid : Nat]
MountRow ==
  [key : Nat, m : Messages, text : Nat, att : SUBSET Nat, last : Nat \X SUBSET Nat, uid : Nat, timer : BOOLEAN,
   fin : BOOLEAN, chain : Seq(Jobs), req : Nat, pressed : Nat, sending : BOOLEAN, building : Seq(BodyRow)]
OutRow ==
  [m : Messages, text : Nat, att : SUBSET Nat, uid : Nat, rtext : Nat, ratt : SUBSET Nat,
   at : {"window", "posted", "toast", "undone", "edited", "sent", "gone"}, req : Nat]
ReqRow ==
  [kind : {"save", "send"}, m : Messages, text : Nat, att : SUBSET Nat, uid : Nat,
   at : {"posted", "collected", "handed", "done", "failed"}, result : Nat]
DraftRow == [uid : Nat \ {0}, m : Messages, text : Nat, file : BOOLEAN]
SentRow == [m : Messages, text : Nat]

TypeInv ==
  /\ mounts \in Seq(MountRow) /\ cur \in 0..Len(mounts)
  /\ outbox \in Seq(OutRow) /\ reqs \in Seq(ReqRow) /\ sent \in Seq(SentRow)
  /\ drafts \in SUBSET DraftRow /\ nextUid \in Nat \ {0}
  /\ typed \in [Messages -> Nat] /\ cause \in [Messages -> SUBSET Causes]

\* Where a composer gets its records from: a moved composer has the key and the message of the one it
\* replaced, a save waits for a request of its own message, a posted send for its own.
LinkInv ==
  /\ \A i \in DOMAIN mounts : mounts[i].key \in 1..i
  /\ \A i, j \in DOMAIN mounts : mounts[i].key = mounts[j].key => mounts[i].m = mounts[j].m
  /\ cur # 0 => ~mounts[cur].fin
  /\ \A i \in DOMAIN mounts : mounts[i].req # 0 =>
       /\ mounts[i].chain # <<>> /\ mounts[i].req \in DOMAIN reqs
       /\ reqs[mounts[i].req].kind = "save" /\ reqs[mounts[i].req].m = mounts[i].m
  /\ \A o \in DOMAIN outbox : outbox[o].at = "posted" =>
       /\ outbox[o].req \in DOMAIN reqs /\ reqs[outbox[o].req].kind = "send"
       /\ reqs[outbox[o].req].m = outbox[o].m /\ reqs[outbox[o].req].text = outbox[o].text
  /\ \A r \in DOMAIN reqs : reqs[r].kind = "send" /\ reqs[r].at \in {"handed", "done"} =>
       \E i \in DOMAIN sent : sent[i] = [m |-> reqs[r].m, text |-> reqs[r].text]
  /\ \A r \in DOMAIN reqs : reqs[r].at = "handed" => reqs[r].kind = "send"

\* A message that was never opened is nowhere.
NewInv ==
  \A m \in Messages : (\A i \in DOMAIN mounts : mounts[i].m # m) =>
    /\ typed[m] = 0
    /\ \A o \in DOMAIN outbox : outbox[o].m # m
    /\ \A r \in DOMAIN reqs : reqs[r].m # m
    /\ \A i \in DOMAIN sent : sent[i].m # m

\* What holds the UID of a draft is of the draft's message.
Owned(uid, m) == uid < nextUid /\ \A d \in drafts : d.uid = uid => d.m = m
UidInv ==
  /\ \A d \in drafts : d.uid < nextUid
  /\ \A i \in DOMAIN mounts :
       /\ Owned(mounts[i].uid, mounts[i].m)
       /\ \A b \in DOMAIN mounts[i].building : Owned(mounts[i].building[b].uid, mounts[i].m)
  /\ \A o \in DOMAIN outbox : Owned(outbox[o].uid, outbox[o].m)
  /\ \A r \in DOMAIN reqs : Owned(reqs[r].uid, reqs[r].m) /\ Owned(reqs[r].result, reqs[r].m)

\* No version is newer than the newest.
TextInv ==
  /\ \A i \in DOMAIN mounts :
       /\ mounts[i].text <= typed[mounts[i].m] /\ mounts[i].last[1] <= typed[mounts[i].m]
       /\ \A b \in DOMAIN mounts[i].building : mounts[i].building[b].text <= typed[mounts[i].m]
  /\ \A o \in DOMAIN outbox : outbox[o].text <= typed[outbox[o].m] /\ outbox[o].rtext <= typed[outbox[o].m]
  /\ \A r \in DOMAIN reqs : reqs[r].text <= typed[reqs[r].m]
  /\ \A d \in drafts : d.text <= typed[d.m]

-----------------------------------------------------------------------------
(* Where a message is.                                                      *)

Left(m) == "left" \in cause[m]
Active(i) == i = cur \/ AtWork(mounts[i])
Pending(o) == outbox[o].at \in {"window", "posted", "toast"}
InHand(o) == outbox[o].at = "posted" /\ reqs[outbox[o].req].at \in {"handed", "done"}

\* A message is in one composer or in one call of queueSend(); a composer off the screen only saves.
ActiveInv ==
  /\ \A i, j \in DOMAIN mounts : mounts[i].m = mounts[j].m /\ Active(i) /\ Active(j) => i = j \/ Left(mounts[i].m)
  /\ \A i \in DOMAIN mounts, o \in DOMAIN outbox :
       mounts[i].m = outbox[o].m /\ Active(i) /\ Pending(o) => Left(mounts[i].m)
  /\ \A o, p \in DOMAIN outbox : outbox[o].m = outbox[p].m /\ Pending(o) /\ Pending(p) => o = p \/ Left(outbox[o].m)
  /\ \A i \in DOMAIN mounts : i # cur => \/ Left(mounts[i].m)
                                         \/ /\ mounts[i].pressed = 0 /\ mounts[i].building = <<>>
                                            /\ \A j \in DOMAIN mounts[i].chain : mounts[i].chain[j] = "save"

\* A message that Postfix may get, or got, is nowhere else.
Doubtful(m) == Left(m) \/ "unsure" \in cause[m]
SendInv ==
  /\ \A r \in DOMAIN reqs : reqs[r].kind = "send" /\ reqs[r].at \in {"posted", "collected"} =>
       \/ Doubtful(reqs[r].m)
       \/ \E o \in DOMAIN outbox : outbox[o].at = "posted" /\ outbox[o].req = r
  /\ \A s \in DOMAIN sent, i \in DOMAIN mounts : mounts[i].m = sent[s].m /\ Active(i) => Doubtful(sent[s].m)
  /\ \A s \in DOMAIN sent, o \in DOMAIN outbox :
       outbox[o].m = sent[s].m /\ Pending(o) => InHand(o) \/ Doubtful(sent[s].m)
  /\ \A s, t \in DOMAIN sent : sent[s].m = sent[t].m => s = t \/ Doubtful(sent[s].m)

-----------------------------------------------------------------------------
(* Which version is there, of a message that nothing befell that may lose it. *)

Lost(m) == Befell(m, MayLose)
Safe(m) ==
  \/ typed[m] = 0
  \/ \E d \in drafts : d.m = m /\ d.text = typed[m]
  \/ \E i \in DOMAIN sent : sent[i].m = m /\ sent[i].text = typed[m]

\* A composer that is at work has the newest version, and so has what it builds; when it waits, it waits for
\* the newest to be saved, or saves once more afterwards; what it takes for saved is.
HoldsNewest(i) ==
  LET c == mounts[i]
      t == typed[c.m] IN
  /\ c.text = t
  /\ \A b \in DOMAIN c.building : c.building[b].text = t
  /\ c.last[1] = t => Safe(c.m)
  /\ c.req # 0 => /\ reqs[c.req].text = t \/ (i = cur /\ Head(c.chain) = "save")
                  /\ reqs[c.req].text = t /\ reqs[c.req].at = "done" => Safe(c.m)

KeepInv ==
  /\ \A i \in DOMAIN mounts : Active(i) => Lost(mounts[i].m) \/ HoldsNewest(i)
  /\ \A o \in DOMAIN outbox : Pending(o) =>
       \/ Lost(outbox[o].m)
       \/ outbox[o].text = typed[outbox[o].m] /\ outbox[o].rtext = typed[outbox[o].m]
  /\ \A r \in DOMAIN reqs : reqs[r].at \in {"posted", "collected", "handed"} =>
       Lost(reqs[r].m) \/ \A d \in drafts : d.uid = reqs[r].uid => d.text <= reqs[r].text
  /\ \A m \in Messages \ dropped :
       \/ Lost(m) \/ Safe(m)
       \/ \E i \in DOMAIN mounts : mounts[i].m = m /\ Active(i)
       \/ \E o \in DOMAIN outbox : outbox[o].m = m /\ Pending(o)
  /\ away => /\ \A i \in DOMAIN mounts : Active(i) => Lost(mounts[i].m)
             /\ \A o \in DOMAIN outbox : Pending(o) => Lost(outbox[o].m)

IInv == TypeInv /\ LinkInv /\ NewInv /\ UidInv /\ TextInv /\ ActiveInv /\ SendInv /\ KeepInv

-----------------------------------------------------------------------------
(* Sequences, and what the operators of the tab return.                     *)

LEMMA Put ==
  ASSUME NEW S, NEW s \in Seq(S), NEW i \in DOMAIN s, NEW d \in S
  PROVE  LET t == [s EXCEPT ![i] = d]
         IN  /\ t \in Seq(S) /\ Len(t) = Len(s) /\ DOMAIN t = DOMAIN s /\ t[i] = d
             /\ \A j \in DOMAIN s : j # i => t[j] = s[j]
BY ExceptSeq

LEMMA Added ==
  ASSUME NEW S, NEW s \in Seq(S), NEW d \in S
  PROVE  LET t == Append(s, d)
         IN  /\ t \in Seq(S) /\ Len(t) = Len(s) + 1 /\ t[Len(s) + 1] = d /\ t # <<>>
             /\ DOMAIN t = DOMAIN s \cup {Len(s) + 1} /\ DOMAIN s = 1..Len(s)
             /\ \A j \in DOMAIN s : t[j] = s[j]
             /\ s # <<>> => Head(t) = Head(s)
BY AppendProperties, LenProperties

LEMMA TailIs ==
  ASSUME NEW S, NEW s \in Seq(S), s # <<>>
  PROVE  /\ Tail(s) \in Seq(S) /\ Head(s) = s[1] /\ 1 \in DOMAIN s
         /\ \A j \in DOMAIN Tail(s) : j + 1 \in DOMAIN s /\ Tail(s)[j] = s[j + 1]
BY HeadTailProperties, LenProperties

\* The histories of the messages only grow.
Grows == cause' \in [Messages -> SUBSET Causes] /\ \A m \in Messages : cause[m] \subseteq cause'[m]

LEMMA MarkedIs ==
  ASSUME TypeInv, NEW marks, cause' = Marked(marks)
  PROVE  Grows /\ \A m \in Messages, w \in Causes : <<m, w>> \in marks => w \in cause'[m]
BY DEF TypeInv, Marked, Grows

LEMMA StaysPut ==
  ASSUME TypeInv, cause' = cause
  PROVE  Grows
BY DEF TypeInv, Grows

LEMMA CausesAre == {"left", "remount", "late", "failed", "torn", "unsure", "expired", "abandoned"} = Causes
BY DEF Causes

LEMMA MountIs ==
  ASSUME TypeInv, NEW i \in DOMAIN mounts
  PROVE  mounts[i] \in MountRow /\ i \in 1..Len(mounts) /\ mounts[i].m \in Messages
<1>1. i \in 1..Len(mounts)
  BY LenProperties DEF TypeInv
<1>2. mounts[i] \in MountRow
  BY <1>1, ElementOfSeq DEF TypeInv
<1> QED BY <1>1, <1>2 DEF MountRow

LEMMA CurIs ==
  ASSUME TypeInv, cur # 0
  PROVE  cur \in DOMAIN mounts
BY LenProperties DEF TypeInv

LEMMA OutIs ==
  ASSUME TypeInv, NEW o \in DOMAIN outbox
  PROVE  outbox[o] \in OutRow /\ o \in 1..Len(outbox) /\ outbox[o].m \in Messages
<1>1. o \in 1..Len(outbox)
  BY LenProperties DEF TypeInv
<1>2. outbox[o] \in OutRow
  BY <1>1, ElementOfSeq DEF TypeInv
<1> QED BY <1>1, <1>2 DEF OutRow

LEMMA ReqIs ==
  ASSUME TypeInv, NEW r \in DOMAIN reqs
  PROVE  reqs[r] \in ReqRow /\ r \in 1..Len(reqs) /\ reqs[r].m \in Messages
<1>1. r \in 1..Len(reqs)
  BY LenProperties DEF TypeInv
<1>2. reqs[r] \in ReqRow
  BY <1>1, ElementOfSeq DEF TypeInv
<1> QED BY <1>1, <1>2 DEF ReqRow

LEMMA SentIs ==
  ASSUME TypeInv, NEW s \in DOMAIN sent
  PROVE  sent[s] \in SentRow /\ s \in 1..Len(sent) /\ sent[s].m \in Messages
<1>1. s \in 1..Len(sent)
  BY LenProperties DEF TypeInv
<1>2. sent[s] \in SentRow
  BY <1>1, ElementOfSeq DEF TypeInv
<1> QED BY <1>1, <1>2 DEF SentRow

\* The UID the next save replaces is of the composer's message.
LEMMA DraftUidIs ==
  ASSUME TypeInv, LinkInv, UidInv, NEW i \in DOMAIN mounts
  PROVE  DraftUid(i) \in Nat /\ Owned(DraftUid(i), mounts[i].m)
<1>1. CASE OnScreen(mounts[i].key)
  <2>1. cur \in DOMAIN mounts /\ mounts[cur].key = mounts[i].key
    BY <1>1, CurIs DEF OnScreen
  <2>2. mounts[cur].m = mounts[i].m
    BY <2>1 DEF LinkInv
  <2>3. mounts[cur] \in MountRow
    BY <2>1, MountIs
  <2> QED BY <1>1, <2>1, <2>2, <2>3 DEF DraftUid, UidInv, MountRow
<1>2. CASE ~OnScreen(mounts[i].key)
  <2>1. mounts[i] \in MountRow
    BY MountIs
  <2> QED BY <1>2, <2>1 DEF DraftUid, UidInv, MountRow
<1> QED BY <1>1, <1>2

OnlySaves(c) == c.pressed = 0 /\ c.building = <<>> /\ \A j \in DOMAIN c.chain : c.chain[j] = "save"

\* What a composer that gives way becomes: it saves once more, unless it is over or goes on under its key.
LEMMA UnmountedIs ==
  ASSUME TypeInv, NEW ms \in Seq(MountRow), Len(ms) = Len(mounts), NEW key \in Nat
  PROVE  LET u == Unmounted(ms, key)
         IN  /\ u \in Seq(MountRow) /\ Len(u) = Len(ms)
             /\ \A j \in DOMAIN ms : j # cur => u[j] = ms[j]
             /\ cur # 0 => LET c == ms[cur]
                               d == u[cur]
                           IN  /\ d.key = c.key /\ d.m = c.m /\ d.text = c.text /\ d.att = c.att /\ d.last = c.last
                               /\ d.uid = c.uid /\ d.fin = c.fin /\ d.req = c.req /\ d.pressed = c.pressed
                               /\ d.building = c.building
                               /\ d.chain = IF c.fin \/ c.key = key THEN c.chain ELSE Append(c.chain, "save")
<1>1. CASE cur = 0
  BY <1>1 DEF Unmounted
<1>2. CASE cur # 0
  <2>1. cur \in DOMAIN ms
    BY <1>2, LenProperties DEF TypeInv
  <2>2. PICK c \in MountRow : c = ms[cur]
    BY <2>1, LenProperties, ElementOfSeq
  <2>3. PICK q : q = IF c.fin \/ c.key = key THEN c.chain ELSE Append(c.chain, "save")
    OBVIOUS
  <2>4. q \in Seq(Jobs)
    BY <2>3, Added DEF MountRow, Jobs
  <2>5. PICK d : d = [c EXCEPT !.timer = FALSE, !.chain = q]
    OBVIOUS
  <2>6. d \in MountRow
    BY <2>4, <2>5 DEF MountRow
  <2>7. /\ d.key = c.key /\ d.m = c.m /\ d.text = c.text /\ d.att = c.att /\ d.last = c.last
        /\ d.uid = c.uid /\ d.fin = c.fin /\ d.req = c.req /\ d.pressed = c.pressed
        /\ d.building = c.building /\ d.chain = q
    BY <2>5 DEF MountRow
  <2>8. Unmounted(ms, key) = [ms EXCEPT ![cur] = d]
    BY <1>2, <2>2, <2>3, <2>5 DEF Unmounted
  <2>9. /\ Unmounted(ms, key) \in Seq(MountRow) /\ Len(Unmounted(ms, key)) = Len(ms)
        /\ Unmounted(ms, key)[cur] = d /\ \A j \in DOMAIN ms : j # cur => Unmounted(ms, key)[j] = ms[j]
    BY <2>1, <2>6, <2>8, Put
  <2> QED BY <2>2, <2>3, <2>7, <2>9
<1> QED BY <1>1, <1>2

-----------------------------------------------------------------------------
(* Steps of the tab that ask the server nothing.                            *)

\* A composer, or a call of queueSend(), that the step makes has the message.
Taken(m) ==
  \/ \E j \in DOMAIN mounts' \ DOMAIN mounts : mounts'[j].m = m
  \/ \E o \in DOMAIN outbox' \ DOMAIN outbox : outbox'[o].m = m

\* What such a step leaves of composer j, whatever else it does.
Goes(j) ==
  LET c == mounts[j]
      d == mounts'[j]
      t == typed[c.m]
      works == j = cur' \/ AtWork(d)
      lost == cause'[c.m] \cap MayLose # {}
      left == "left" \in cause'[c.m] IN
  /\ d.key = c.key /\ d.m = c.m /\ d.text = c.text
  /\ Owned(d.uid, c.m) /\ d.last[1] <= t
  /\ \A b \in DOMAIN d.building :
       /\ Owned(d.building[b].uid, c.m)
       /\ d.building[b].text = c.text \/ \E k \in DOMAIN c.building : d.building[b] = c.building[k]
  /\ d.req # 0 => d.req = c.req /\ d.chain # <<>> /\ Head(d.chain) = Head(c.chain)
  /\ works => Active(j) \/ left
  /\ j # cur' => left \/ OnlySaves(d)
  /\ works /\ d.last[1] = t => lost \/ Safe(c.m)
  /\ works /\ d.req # 0 => lost \/ j # cur \/ j = cur'
  /\ Active(j) /\ ~works => lost \/ Safe(c.m) \/ c.m \in dropped' \/ Taken(c.m)

\* What it leaves of a call of queueSend(): it stands, or it is over, or it came to nothing and says so.
OutGoes(o) ==
  LET p == outbox[o]
      q == outbox'[o]
      waits == q.at \in {"window", "posted", "toast"}
      doubtful == "left" \in cause'[p.m] \/ "unsure" \in cause'[p.m] IN
  /\ q.m = p.m /\ q.text = p.text /\ q.uid = p.uid /\ q.rtext = p.rtext /\ q.req = p.req
  /\ q.at = p.at \/ q.at \notin {"window", "posted"}
  /\ waits => Pending(o)
  /\ p.at = "posted" /\ q.at # "posted" => reqs[p.req].at \notin {"posted", "collected"} \/ doubtful
  /\ waits /\ q.at # p.at => doubtful \/ \A s \in DOMAIN sent : sent[s].m # p.m
  /\ Pending(o) /\ ~waits => cause'[p.m] \cap MayLose # {} \/ Safe(p.m) \/ p.m \in dropped' \/ Taken(p.m)

\* Nothing else that goes on has the message of a new composer or call.
Alone(m) ==
  \/ "left" \in cause'[m]
  \/ /\ \A j \in DOMAIN mounts : mounts[j].m = m => ~(j = cur' \/ AtWork(mounts'[j]))
     /\ \A o \in DOMAIN outbox : outbox[o].m = m => outbox'[o].at \notin {"window", "posted", "toast"}
     /\ "unsure" \in cause'[m] \/ \A s \in DOMAIN sent : sent[s].m # m

Comes(j) ==
  LET d == mounts'[j]
      t == typed[d.m] IN
  /\ j = cur' /\ d.chain = <<>> /\ d.req = 0 /\ d.building = <<>>
  /\ d.key = j \/ \E k \in DOMAIN mounts : d.key = mounts[k].key /\ d.m = mounts[k].m
  /\ Owned(d.uid, d.m) /\ d.text <= t /\ d.last[1] <= t
  /\ cause'[d.m] \cap MayLose # {} \/ (d.text = t /\ (d.last[1] = t => Safe(d.m)))
  /\ Alone(d.m)

OutComes(o) ==
  LET q == outbox'[o]
      t == typed[q.m] IN
  /\ q.at = "window" /\ Owned(q.uid, q.m) /\ q.text <= t /\ q.rtext <= t /\ \E k \in DOMAIN mounts : mounts[k].m = q.m
  /\ cause'[q.m] \cap MayLose # {} \/ (q.text = t /\ q.rtext = t)
  /\ Alone(q.m)

\* A step makes one of them at most.
Turn ==
  /\ mounts' \in Seq(MountRow) /\ Len(mounts') \in {Len(mounts), Len(mounts) + 1} /\ cur' \in 0..Len(mounts')
  /\ outbox' \in Seq(OutRow) /\ Len(outbox') \in {Len(outbox), Len(outbox) + 1}
  /\ Len(mounts') = Len(mounts) \/ Len(outbox') = Len(outbox)
  /\ cur' # 0 => ~mounts'[cur'].fin
  /\ \A j \in DOMAIN mounts : Goes(j)
  /\ \A o \in DOMAIN outbox : OutGoes(o)
  /\ Len(mounts') = Len(mounts) + 1 => Comes(Len(mounts) + 1)
  /\ Len(outbox') = Len(outbox) + 1 => OutComes(Len(outbox) + 1)
  /\ Grows /\ dropped \subseteq dropped' /\ ~away
  /\ UNCHANGED <<reqs, folder, sent, away, typed>>

LEMMA LeftIsLost == "left" \in MayLose
BY DEF MayLose

LEMMA GrownCauses ==
  ASSUME Grows, NEW m \in Messages
  PROVE  /\ Left(m) => "left" \in cause'[m]
         /\ Doubtful(m) => "left" \in cause'[m] \/ "unsure" \in cause'[m]
         /\ Lost(m) => cause'[m] \cap MayLose # {}
         /\ "left" \in cause'[m] => cause'[m] \cap MayLose # {}
BY LeftIsLost DEF Grows, Left, Doubtful, Lost, Befell

LEMMA TurnKeeps ==
  ASSUME IInv, Turn
  PROVE  IInv'
<1> DEFINE M(j) == mounts'[j].m
           Works(j) == j = cur' \/ AtWork(mounts'[j])
           Gone(m) == "left" \in cause'[m]
           LostNow(m) == cause'[m] \cap MayLose # {}
           Waits(o) == outbox'[o].at \in {"window", "posted", "toast"}
           n == Len(mounts) + 1
           w == Len(outbox) + 1
<1>1. /\ TypeInv /\ LinkInv /\ NewInv /\ UidInv /\ TextInv /\ ActiveInv /\ SendInv /\ KeepInv
      /\ UNCHANGED <<reqs, drafts, nextUid, sent, away, typed>> /\ Grows /\ ~away
  BY DEF IInv, Turn, folder
<1>2. /\ mounts' \in Seq(MountRow) /\ cur' \in 0..Len(mounts') /\ outbox' \in Seq(OutRow)
      /\ DOMAIN mounts = 1..Len(mounts) /\ DOMAIN outbox = 1..Len(outbox)
      /\ DOMAIN mounts' = DOMAIN mounts \/ DOMAIN mounts' = DOMAIN mounts \cup {n}
      /\ DOMAIN outbox' = DOMAIN outbox \/ DOMAIN outbox' = DOMAIN outbox \cup {w}
      /\ DOMAIN mounts' = DOMAIN mounts \/ DOMAIN outbox' = DOMAIN outbox
      /\ n \notin DOMAIN mounts /\ w \notin DOMAIN outbox
  <2>1. /\ mounts' \in Seq(MountRow) /\ cur' \in 0..Len(mounts') /\ outbox' \in Seq(OutRow)
        /\ Len(mounts') \in {Len(mounts), Len(mounts) + 1} /\ Len(outbox') \in {Len(outbox), Len(outbox) + 1}
        /\ Len(mounts') = Len(mounts) \/ Len(outbox') = Len(outbox)
    BY DEF Turn
  <2>2. /\ DOMAIN mounts = 1..Len(mounts) /\ DOMAIN outbox = 1..Len(outbox)
        /\ Len(mounts) \in Nat /\ Len(outbox) \in Nat
    BY <1>1, LenProperties DEF TypeInv
  <2>3. DOMAIN mounts' = 1..Len(mounts') /\ DOMAIN outbox' = 1..Len(outbox')
    BY <2>1, LenProperties
  <2>4. 1..(Len(mounts) + 1) = 1..Len(mounts) \cup {n} /\ 1..(Len(outbox) + 1) = 1..Len(outbox) \cup {w}
    BY <2>2
  <2>5. n \notin 1..Len(mounts) /\ w \notin 1..Len(outbox)
    BY <2>2
  <2> HIDE DEF n, w
  <2> QED BY <2>1, <2>2, <2>3, <2>4, <2>5
<1>3. /\ \A j \in DOMAIN mounts : Goes(j)
      /\ \A o \in DOMAIN outbox : OutGoes(o)
      /\ n \in DOMAIN mounts' => Comes(n)
      /\ w \in DOMAIN outbox' => OutComes(w)
  BY <1>1, <1>2, LenProperties DEF Turn, TypeInv
<1>4. /\ \A j \in DOMAIN mounts : mounts'[j].key = mounts[j].key /\ mounts[j].m = M(j) /\ mounts'[j].text = mounts[j].text
      /\ \A j \in DOMAIN mounts' : M(j) \in Messages
      /\ \A o \in DOMAIN outbox : outbox'[o].m = outbox[o].m
      /\ \A o \in DOMAIN outbox' : outbox'[o].m \in Messages
  <2>1. \A j \in DOMAIN mounts : mounts'[j].key = mounts[j].key /\ mounts[j].m = M(j) /\ mounts'[j].text = mounts[j].text
    BY <1>3 DEF Goes
  <2>2. \A o \in DOMAIN outbox : outbox'[o].m = outbox[o].m
    BY <1>3 DEF OutGoes
  <2>3. \A j \in DOMAIN mounts' : M(j) \in Messages
    <3>1. \A j \in DOMAIN mounts' : mounts'[j] \in MountRow
      BY <1>2, LenProperties, ElementOfSeq
    <3> QED BY <3>1 DEF MountRow
  <2>4. \A o \in DOMAIN outbox' : outbox'[o].m \in Messages
    <3>1. \A o \in DOMAIN outbox' : outbox'[o] \in OutRow
      BY <1>2, LenProperties, ElementOfSeq
    <3> QED BY <3>1 DEF OutRow
  <2> QED BY <2>1, <2>2, <2>3, <2>4
<1>5. \A m \in Messages : /\ Left(m) => Gone(m)
                          /\ Doubtful(m) => Gone(m) \/ "unsure" \in cause'[m]
                          /\ Lost(m) => LostNow(m)
                          /\ Gone(m) => LostNow(m)
  BY <1>1, GrownCauses
<1>6. /\ \A j \in DOMAIN mounts : Works(j) => Active(j) \/ Gone(M(j))
      /\ \A o \in DOMAIN outbox : Waits(o) => Pending(o)
  <2>1. \A j \in DOMAIN mounts : Works(j) => Active(j) \/ Gone(M(j))
    BY <1>3, <1>4 DEF Goes
  <2>2. \A o \in DOMAIN outbox : Waits(o) => Pending(o)
    BY <1>3 DEF OutGoes
  <2> QED BY <2>1, <2>2
<1>7. /\ n \in DOMAIN mounts' =>
           \/ Gone(M(n))
           \/ /\ \A j \in DOMAIN mounts : M(j) = M(n) => ~Works(j)
              /\ \A o \in DOMAIN outbox' : outbox'[o].m = M(n) => ~Waits(o)
              /\ "unsure" \in cause'[M(n)] \/ \A s \in DOMAIN sent : sent[s].m # M(n)
      /\ w \in DOMAIN outbox' =>
           \/ Gone(outbox'[w].m)
           \/ /\ \A j \in DOMAIN mounts' : M(j) = outbox'[w].m => ~Works(j)
              /\ \A o \in DOMAIN outbox : outbox'[o].m = outbox'[w].m => ~Waits(o)
              /\ "unsure" \in cause'[outbox'[w].m] \/ \A s \in DOMAIN sent : sent[s].m # outbox'[w].m
  <2>1. n \in DOMAIN mounts' => Alone(M(n))
    BY <1>3 DEF Comes
  <2>2. w \in DOMAIN outbox' => Alone(outbox'[w].m)
    BY <1>3 DEF OutComes
  <2> QED BY <1>2, <1>4, <2>1, <2>2 DEF Alone
<1>8. TypeInv'
  BY <1>1, <1>2 DEF TypeInv, Grows
<1>9. LinkInv'
  <2>1. \A j \in DOMAIN mounts : mounts'[j].req # 0 => mounts'[j].req = mounts[j].req /\ mounts'[j].chain # <<>>
    BY <1>3 DEF Goes
  <2>2. cur' # 0 => ~mounts'[cur'].fin
    BY DEF Turn
  <2>3. n \in DOMAIN mounts' => /\ mounts'[n].req = 0
                                /\ mounts'[n].key = n \/ \E k \in DOMAIN mounts : mounts'[n].key = mounts[k].key /\ M(n) = M(k)
    BY <1>3, <1>4 DEF Comes
  <2>4. \A o \in DOMAIN outbox' : outbox'[o].at = "posted" =>
          /\ o \in DOMAIN outbox /\ outbox[o].at = "posted" /\ outbox'[o].req = outbox[o].req
          /\ outbox'[o].text = outbox[o].text /\ outbox'[o].m = outbox[o].m
    BY <1>2, <1>3 DEF OutGoes, OutComes
  <2>5. \A i \in DOMAIN mounts : mounts[i].key \in 1..i
    BY <1>1 DEF LinkInv
  <2>6. \A i \in DOMAIN mounts' : mounts'[i].key \in 1..i
    BY <1>2, <1>4, <2>3, <2>5
  <2>7. \A i, j \in DOMAIN mounts : mounts[i].key = mounts[j].key => M(i) = M(j)
    BY <1>1, <1>4 DEF LinkInv
  <2>8. \A i \in DOMAIN mounts : n \in DOMAIN mounts' /\ mounts[i].key = mounts'[n].key => M(i) = M(n)
    BY <1>2, <2>3, <2>5, <2>7
  <2>9. \A i, j \in DOMAIN mounts' : mounts'[i].key = mounts'[j].key => M(i) = M(j)
    BY <1>2, <1>4, <2>7, <2>8
  <2>10. \A i \in DOMAIN mounts' : mounts'[i].req # 0 =>
           /\ mounts'[i].chain # <<>> /\ mounts'[i].req \in DOMAIN reqs
           /\ reqs[mounts'[i].req].kind = "save" /\ reqs[mounts'[i].req].m = M(i)
    BY <1>1, <1>2, <1>4, <2>1, <2>3 DEF LinkInv
  <2>11. \A o \in DOMAIN outbox' : outbox'[o].at = "posted" =>
           /\ outbox'[o].req \in DOMAIN reqs /\ reqs[outbox'[o].req].kind = "send"
           /\ reqs[outbox'[o].req].m = outbox'[o].m /\ reqs[outbox'[o].req].text = outbox'[o].text
    BY <1>1, <2>4 DEF LinkInv
  <2> QED BY <1>1, <2>2, <2>6, <2>9, <2>10, <2>11 DEF LinkInv
<1>10. NewInv'
  <2>1. w \in DOMAIN outbox' => \E k \in DOMAIN mounts : M(k) = outbox'[w].m
    BY <1>3, <1>4 DEF OutComes
  <2> QED BY <1>1, <1>2, <1>4, <2>1 DEF NewInv
<1>11. UidInv'
  <2>1. \A j \in DOMAIN mounts' : /\ Owned(mounts'[j].uid, M(j))
                                  /\ \A b \in DOMAIN mounts'[j].building : Owned(mounts'[j].building[b].uid, M(j))
    <3>1. \A j \in DOMAIN mounts : /\ Owned(mounts'[j].uid, M(j))
                                   /\ \A b \in DOMAIN mounts'[j].building : Owned(mounts'[j].building[b].uid, M(j))
      BY <1>3, <1>4 DEF Goes
    <3>2. n \in DOMAIN mounts' => Owned(mounts'[n].uid, M(n)) /\ mounts'[n].building = <<>>
      BY <1>3 DEF Comes
    <3> QED BY <1>2, <3>1, <3>2
  <2>2. \A o \in DOMAIN outbox' : Owned(outbox'[o].uid, outbox'[o].m)
    <3>1. \A o \in DOMAIN outbox : Owned(outbox'[o].uid, outbox'[o].m)
      BY <1>1, <1>3 DEF OutGoes, UidInv
    <3>2. w \in DOMAIN outbox' => Owned(outbox'[w].uid, outbox'[w].m)
      BY <1>3 DEF OutComes
    <3> QED BY <1>2, <3>1, <3>2
  <2> QED BY <1>1, <2>1, <2>2 DEF UidInv, Owned
<1>12. TextInv'
  <2>1. \A j \in DOMAIN mounts : mounts'[j].last[1] <= typed[M(j)]
    BY <1>3, <1>4 DEF Goes
  <2>2. n \in DOMAIN mounts' => mounts'[n].last[1] <= typed[M(n)] /\ mounts'[n].text <= typed[M(n)]
    BY <1>3 DEF Comes
  <2>3. \A j \in DOMAIN mounts : mounts'[j].text <= typed[M(j)]
    BY <1>1, <1>4 DEF TextInv
  <2>4. \A j \in DOMAIN mounts' : mounts'[j].text <= typed[M(j)] /\ mounts'[j].last[1] <= typed[M(j)]
    BY <1>2, <2>1, <2>2, <2>3
  <2>5. \A j \in DOMAIN mounts' : \A b \in DOMAIN mounts'[j].building : mounts'[j].building[b].text <= typed[M(j)]
    <3>1. \A j \in DOMAIN mounts : \A b \in DOMAIN mounts'[j].building :
            \/ mounts'[j].building[b].text = mounts[j].text
            \/ \E k \in DOMAIN mounts[j].building : mounts'[j].building[b] = mounts[j].building[k]
      BY <1>3 DEF Goes
    <3>2. \A j \in DOMAIN mounts : \A b \in DOMAIN mounts[j].building : mounts[j].building[b].text <= typed[M(j)]
      BY <1>1, <1>4 DEF TextInv
    <3>3. \A j \in DOMAIN mounts : mounts[j].text <= typed[M(j)]
      BY <1>1, <1>4 DEF TextInv
    <3>4. n \in DOMAIN mounts' => mounts'[n].building = <<>>
      BY <1>3 DEF Comes
    <3>5. \A j \in DOMAIN mounts : \A b \in DOMAIN mounts'[j].building : mounts'[j].building[b].text <= typed[M(j)]
      BY <3>1, <3>2, <3>3
    <3> QED BY <1>2, <3>4, <3>5
  <2>6. \A o \in DOMAIN outbox' : outbox'[o].text <= typed[outbox'[o].m] /\ outbox'[o].rtext <= typed[outbox'[o].m]
    <3>1. \A o \in DOMAIN outbox : outbox'[o].text <= typed[outbox'[o].m] /\ outbox'[o].rtext <= typed[outbox'[o].m]
      BY <1>1, <1>3 DEF OutGoes, TextInv
    <3>2. w \in DOMAIN outbox' => outbox'[w].text <= typed[outbox'[w].m] /\ outbox'[w].rtext <= typed[outbox'[w].m]
      BY <1>3 DEF OutComes
    <3> QED BY <1>2, <3>1, <3>2
  <2> QED BY <1>1, <2>4, <2>5, <2>6 DEF TextInv
<1>13. \A i \in DOMAIN mounts' : (Active(i))' <=> Works(i)
  BY DEF Active
<1>14. \A o \in DOMAIN outbox' : (Pending(o))' <=> Waits(o)
  BY DEF Pending
<1>15. ActiveInv'
  <2>1. \A i, j \in DOMAIN mounts' : M(i) = M(j) /\ Works(i) /\ Works(j) => i = j \/ Gone(M(i))
    <3>1. \A i, j \in DOMAIN mounts : M(i) = M(j) /\ Works(i) /\ Works(j) => i = j \/ Gone(M(i))
      BY <1>1, <1>4, <1>5, <1>6, MountIs DEF ActiveInv
    <3> QED BY <1>2, <1>7, <3>1
  <2>2. \A i \in DOMAIN mounts', o \in DOMAIN outbox' : M(i) = outbox'[o].m /\ Works(i) /\ Waits(o) => Gone(M(i))
    <3>1. \A i \in DOMAIN mounts, o \in DOMAIN outbox : M(i) = outbox'[o].m /\ Works(i) /\ Waits(o) => Gone(M(i))
      BY <1>1, <1>4, <1>5, <1>6, MountIs DEF ActiveInv
    <3> QED BY <1>2, <1>7, <3>1
  <2>3. \A o, p \in DOMAIN outbox' :
          outbox'[o].m = outbox'[p].m /\ Waits(o) /\ Waits(p) => o = p \/ Gone(outbox'[o].m)
    <3>1. \A o, p \in DOMAIN outbox :
            outbox'[o].m = outbox'[p].m /\ Waits(o) /\ Waits(p) => o = p \/ Gone(outbox'[o].m)
      BY <1>1, <1>4, <1>5, <1>6, OutIs DEF ActiveInv
    <3> QED BY <1>2, <1>7, <3>1
  <2>4. \A j \in DOMAIN mounts' : j # cur' => Gone(M(j)) \/ OnlySaves(mounts'[j])
    <3>1. \A j \in DOMAIN mounts : j # cur' => Gone(M(j)) \/ OnlySaves(mounts'[j])
      BY <1>3, <1>4 DEF Goes
    <3>2. n \in DOMAIN mounts' => n = cur'
      BY <1>3 DEF Comes
    <3> QED BY <1>2, <3>1, <3>2
  <2> HIDE DEF Works, Waits
  <2> QED BY <1>13, <1>14, <2>1, <2>2, <2>3, <2>4 DEF ActiveInv, Left, OnlySaves
<1>16. SendInv'
  <2>1. \A r \in DOMAIN reqs : reqs[r].m \in Messages
    BY <1>1, ReqIs
  <2>2. \A s \in DOMAIN sent : sent[s].m \in Messages
    BY <1>1, SentIs
  <2> DEFINE DoubtNow(m) == Gone(m) \/ "unsure" \in cause'[m]
  <2>3. \A m \in Messages : Doubtful(m) => DoubtNow(m)
    BY <1>5
  <2>4. \A r \in DOMAIN reqs : reqs[r].kind = "send" /\ reqs[r].at \in {"posted", "collected"} =>
          \/ DoubtNow(reqs[r].m)
          \/ \E o \in DOMAIN outbox' : outbox'[o].at = "posted" /\ outbox'[o].req = r
    <3>1. SUFFICES ASSUME NEW r \in DOMAIN reqs, reqs[r].kind = "send", reqs[r].at \in {"posted", "collected"},
                          ~DoubtNow(reqs[r].m)
                   PROVE  \E o \in DOMAIN outbox' : outbox'[o].at = "posted" /\ outbox'[o].req = r
      OBVIOUS
    <3>2. PICK o \in DOMAIN outbox : outbox[o].at = "posted" /\ outbox[o].req = r
      BY <1>1, <2>1, <2>3, <3>1 DEF SendInv
    <3>3. reqs[r].m = outbox[o].m
      BY <1>1, <3>2 DEF LinkInv
    <3>4. outbox'[o].at = "posted"
      BY <1>3, <1>4, <2>1, <2>3, <3>1, <3>2, <3>3 DEF OutGoes
    <3>5. outbox'[o].req = r
      BY <1>3, <3>2 DEF OutGoes
    <3> QED BY <1>2, <3>4, <3>5
  <2>5. \A s \in DOMAIN sent, i \in DOMAIN mounts' : M(i) = sent[s].m /\ Works(i) => DoubtNow(sent[s].m)
    <3>1. \A s \in DOMAIN sent, i \in DOMAIN mounts : M(i) = sent[s].m /\ Works(i) => DoubtNow(sent[s].m)
      BY <1>1, <1>4, <1>6, <2>2, <2>3 DEF SendInv
    <3> QED BY <1>2, <1>7, <2>2, <2>3, <3>1
  <2>6. \A s \in DOMAIN sent, o \in DOMAIN outbox' :
          outbox'[o].m = sent[s].m /\ Waits(o) => (InHand(o))' \/ DoubtNow(sent[s].m)
    <3>1. ASSUME NEW s \in DOMAIN sent, NEW o \in DOMAIN outbox, outbox'[o].m = sent[s].m, Waits(o),
                 ~DoubtNow(sent[s].m)
          PROVE  (InHand(o))'
      <4>1. InHand(o)
        BY <1>1, <1>4, <1>6, <2>2, <2>3, <3>1 DEF SendInv
      <4>2. outbox'[o].at = outbox[o].at
        BY <1>3, <1>4, <2>2, <2>3, <3>1 DEF OutGoes
      <4>3. outbox'[o].req = outbox[o].req
        BY <1>3 DEF OutGoes
      <4> QED BY <1>1, <4>1, <4>2, <4>3 DEF InHand
    <3> QED BY <1>2, <1>7, <2>2, <2>3, <3>1
  <2>7. \A s, t \in DOMAIN sent : sent[s].m = sent[t].m => s = t \/ DoubtNow(sent[s].m)
    BY <1>1, <2>2, <2>3 DEF SendInv
  <2> HIDE DEF Works, Waits
  <2> QED BY <1>1, <1>13, <1>14, <2>4, <2>5, <2>6, <2>7 DEF SendInv, Doubtful, Left
<1>17. KeepInv'
  <2>1. \A m \in Messages : (Lost(m))' <=> LostNow(m)
    BY DEF Lost, Befell
  <2>2. \A m \in Messages : (Safe(m))' <=> Safe(m)
    BY <1>1 DEF Safe
  <2>3. \A r \in DOMAIN reqs : reqs[r].m \in Messages
    BY <1>1, ReqIs
  <2>4. ASSUME NEW i \in DOMAIN mounts, Works(i), ~LostNow(M(i))
        PROVE  (HoldsNewest(i))'
    <3>1. Active(i) /\ HoldsNewest(i)
      BY <1>1, <1>2, <1>4, <1>5, <1>6, <2>4, MountIs DEF KeepInv
    <3> DEFINE c == mounts[i]
               d == mounts'[i]
               t == typed[c.m]
    <3>2. /\ d.last[1] = t => Safe(c.m)
          /\ \A b \in DOMAIN d.building :
               d.building[b].text = c.text \/ \E k \in DOMAIN c.building : d.building[b] = c.building[k]
          /\ d.req # 0 => /\ d.req = c.req /\ d.chain # <<>> /\ Head(d.chain) = Head(c.chain)
                          /\ i # cur \/ i = cur'
      BY <1>3, <1>4, <2>4 DEF Goes
    <3>3. c.text = t /\ \A b \in DOMAIN c.building : c.building[b].text = t
      BY <3>1 DEF HoldsNewest
    <3>4. c.req # 0 => /\ reqs[c.req].text = t \/ (i = cur /\ Head(c.chain) = "save")
                       /\ reqs[c.req].text = t /\ reqs[c.req].at = "done" => Safe(c.m)
      BY <3>1 DEF HoldsNewest
    <3>5. d.text = t /\ d.m = c.m /\ c.m \in Messages
      BY <1>1, <1>4, <3>3, MountIs
    <3>6. \A b \in DOMAIN d.building : d.building[b].text = t
      BY <3>2, <3>3
    <3>7. d.req # 0 => /\ reqs[d.req].text = t \/ (i = cur' /\ Head(d.chain) = "save")
                       /\ reqs[d.req].text = t /\ reqs[d.req].at = "done" => Safe(c.m)
      BY <3>2, <3>4
    <3>8. PICK m \in Messages : m = c.m
      BY <3>5
    <3>9. typed'[m] = t /\ reqs' = reqs /\ (Safe(m) => Safe(m)')
      BY <1>1, <2>2, <3>8
    <3> HIDE DEF c, t
    <3>10. /\ d.m = m /\ d.text = t /\ (d.last[1] = t => Safe(m)')
           /\ d.req # 0 => /\ reqs[d.req].text = t \/ (i = cur' /\ Head(d.chain) = "save")
                           /\ reqs[d.req].text = t /\ reqs[d.req].at = "done" => Safe(m)'
      BY <3>2, <3>5, <3>7, <3>8, <3>9
    <3>11. (HoldsNewest(i))' <=>
             /\ d.text = typed'[d.m]
             /\ \A b \in DOMAIN d.building : d.building[b].text = typed'[d.m]
             /\ d.last[1] = typed'[d.m] => (Safe(mounts[i].m))'
             /\ d.req # 0 => /\ reqs'[d.req].text = typed'[d.m] \/ (i = cur' /\ Head(d.chain) = "save")
                             /\ reqs'[d.req].text = typed'[d.m] /\ reqs'[d.req].at = "done" => (Safe(mounts[i].m))'
      BY DEF HoldsNewest
    <3>12. (Safe(mounts[i].m))' <=> (Safe(m))'
      BY <3>10
    <3> HIDE DEF d
    <3> QED BY <3>6, <3>9, <3>10, <3>11, <3>12
  <2>5. ASSUME NEW k \in DOMAIN mounts', k = n, ~LostNow(M(k))
        PROVE  (HoldsNewest(k))'
    <3>1. /\ mounts'[k].text = typed[M(k)] /\ mounts'[k].building = <<>> /\ mounts'[k].req = 0
          /\ mounts'[k].last[1] = typed[M(k)] => Safe(M(k))
      BY <1>3, <2>5 DEF Comes
    <3>2. PICK m \in Messages : m = mounts'[k].m
      BY <1>4, <2>5
    <3>3. (Safe(m))' <=> Safe(m)
      BY <2>2
    <3> DEFINE d == mounts'[k]
    <3>4. (HoldsNewest(k))' <=>
             /\ d.text = typed'[d.m]
             /\ \A b \in DOMAIN d.building : d.building[b].text = typed'[d.m]
             /\ d.last[1] = typed'[d.m] => (Safe(mounts[k].m))'
             /\ d.req # 0 => /\ reqs'[d.req].text = typed'[d.m] \/ (k = cur' /\ Head(d.chain) = "save")
                             /\ reqs'[d.req].text = typed'[d.m] /\ reqs'[d.req].at = "done" => (Safe(mounts[k].m))'
      BY DEF HoldsNewest
    <3>5. (Safe(mounts[k].m))' <=> (Safe(m))'
      BY <3>2 DEF Safe
    <3>6. d.m = m /\ d.text = typed[m] /\ d.building = <<>> /\ d.req = 0 /\ (d.last[1] = typed[m] => Safe(m)) /\ typed' = typed
      BY <1>1, <3>1, <3>2
    <3> HIDE DEF d, n
    <3> QED BY <3>3, <3>4, <3>5, <3>6
  <2>6. \A m \in Messages \ dropped' :
          \/ LostNow(m) \/ Safe(m)
          \/ \E i \in DOMAIN mounts' : M(i) = m /\ Works(i)
          \/ \E o \in DOMAIN outbox' : outbox'[o].m = m /\ Waits(o)
    <3>1. \A j \in DOMAIN mounts : Active(j) /\ ~Works(j) => LostNow(M(j)) \/ Safe(M(j)) \/ M(j) \in dropped' \/ Taken(M(j))
      BY <1>3, <1>4 DEF Goes
    <3>2. \A o \in DOMAIN outbox : Pending(o) /\ ~Waits(o) =>
            LET m == outbox[o].m IN LostNow(m) \/ Safe(m) \/ m \in dropped' \/ Taken(m)
      BY <1>3 DEF OutGoes
    <3>3. dropped \subseteq dropped'
      BY DEF Turn
    <3>4. n \in DOMAIN mounts' => Works(n)
      BY <1>3 DEF Comes
    <3>5. w \in DOMAIN outbox' => Waits(w)
      BY <1>3 DEF OutComes
    <3>6. \A m : Taken(m) => \/ \E i \in DOMAIN mounts' : M(i) = m /\ Works(i)
                             \/ \E o \in DOMAIN outbox' : outbox'[o].m = m /\ Waits(o)
      BY <1>2, <3>4, <3>5 DEF Taken
    <3>7. \A m \in Messages \ dropped :
            \/ Lost(m) \/ Safe(m)
            \/ \E i \in DOMAIN mounts : mounts[i].m = m /\ Active(i)
            \/ \E o \in DOMAIN outbox : outbox[o].m = m /\ Pending(o)
      BY <1>1 DEF KeepInv
    <3> HIDE DEF Works, Waits, LostNow
    <3>8. ASSUME NEW m \in Messages \ dropped'
          PROVE  \/ LostNow(m) \/ Safe(m)
                 \/ \E i \in DOMAIN mounts' : M(i) = m /\ Works(i)
                 \/ \E o \in DOMAIN outbox' : outbox'[o].m = m /\ Waits(o)
      <4>1. CASE Lost(m) \/ Safe(m)
        BY <1>5, <4>1
      <4>2. CASE \E i \in DOMAIN mounts : mounts[i].m = m /\ Active(i)
        <5>1. PICK i \in DOMAIN mounts : M(i) = m /\ Active(i)
          BY <1>4, <4>2
        <5>2. Works(i) \/ LostNow(m) \/ Safe(m) \/ Taken(m)
          BY <3>1, <3>8, <5>1
        <5> QED BY <1>2, <3>6, <5>1, <5>2
      <4>3. CASE \E o \in DOMAIN outbox : outbox[o].m = m /\ Pending(o)
        <5>1. PICK o \in DOMAIN outbox : outbox'[o].m = m /\ outbox[o].m = m /\ Pending(o)
          BY <1>4, <4>3
        <5>2. Waits(o) \/ LostNow(m) \/ Safe(m) \/ Taken(m)
          BY <3>2, <3>8, <5>1
        <5> QED BY <1>2, <3>6, <5>1, <5>2
      <4> QED BY <3>3, <3>7, <3>8, <4>1, <4>2, <4>3
    <3> QED BY <3>8
  <2>7. \A o \in DOMAIN outbox' : Waits(o) =>
          \/ LostNow(outbox'[o].m)
          \/ outbox'[o].text = typed[outbox'[o].m] /\ outbox'[o].rtext = typed[outbox'[o].m]
    <3>1. \A o \in DOMAIN outbox : outbox'[o].text = outbox[o].text /\ outbox'[o].rtext = outbox[o].rtext
      BY <1>3 DEF OutGoes
    <3>2. \A o \in DOMAIN outbox : Pending(o) =>
            LostNow(outbox[o].m) \/ (outbox[o].text = typed[outbox[o].m] /\ outbox[o].rtext = typed[outbox[o].m])
      BY <1>1, <1>5, OutIs DEF KeepInv
    <3>3. w \in DOMAIN outbox' => \/ LostNow(outbox'[w].m)
                                  \/ outbox'[w].text = typed[outbox'[w].m] /\ outbox'[w].rtext = typed[outbox'[w].m]
      BY <1>3 DEF OutComes
    <3> HIDE DEF Waits, LostNow
    <3> QED BY <1>2, <1>4, <1>6, <3>1, <3>2, <3>3
  <2>8. \A r \in DOMAIN reqs : reqs[r].at \in {"posted", "collected", "handed"} =>
          LostNow(reqs[r].m) \/ \A d \in drafts : d.uid = reqs[r].uid => d.text <= reqs[r].text
    BY <1>1, <1>5, <2>3 DEF KeepInv
  <2> HIDE DEF LostNow, Works, Waits
  <2>9. \A i \in DOMAIN mounts' : (Active(i))' => (Lost(mounts[i].m))' \/ (HoldsNewest(i))'
    <3>1. \A i \in DOMAIN mounts' : Works(i) => LostNow(M(i)) \/ (HoldsNewest(i))'
      <4>1. \A i \in DOMAIN mounts : Works(i) => LostNow(M(i)) \/ (HoldsNewest(i))'
        BY <2>4
      <4>2. \A i \in DOMAIN mounts' : i = n => LostNow(M(i)) \/ (HoldsNewest(i))'
        BY <2>5
      <4> QED BY <1>2, <4>1, <4>2
    <3>2. \A i \in DOMAIN mounts' : (Lost(mounts[i].m))' <=> LostNow(M(i))
      BY DEF Lost, Befell, LostNow
    <3> QED BY <1>13, <3>1, <3>2
  <2>10. \A m \in Messages \ dropped' :
           \/ Lost(m)' \/ Safe(m)'
           \/ \E i \in DOMAIN mounts' : mounts'[i].m = m /\ (Active(i))'
           \/ \E o \in DOMAIN outbox' : outbox'[o].m = m /\ (Pending(o))'
    BY <1>13, <1>14, <2>1, <2>2, <2>6
  <2>11. \A o \in DOMAIN outbox' : (Pending(o))' =>
           \/ (Lost(outbox[o].m))'
           \/ outbox'[o].text = typed'[outbox'[o].m] /\ outbox'[o].rtext = typed'[outbox'[o].m]
    BY <1>1, <1>4, <1>14, <2>1, <2>7
  <2> QED BY <1>1, <2>1, <2>3, <2>8, <2>9, <2>10, <2>11 DEF KeepInv
<1> QED BY <1>8, <1>9, <1>10, <1>11, <1>12, <1>15, <1>16, <1>17 DEF IInv

\* Steps that touch no call of queueSend() and mount nothing.
Tab ==
  /\ mounts' \in Seq(MountRow) /\ Len(mounts') = Len(mounts) /\ cur' \in 0..Len(mounts)
  /\ cur' # 0 => ~mounts'[cur'].fin
  /\ \A j \in DOMAIN mounts : Goes(j)
  /\ Grows /\ dropped \subseteq dropped' /\ ~away
  /\ UNCHANGED <<outbox, reqs, folder, sent, away, typed>>

LEMMA TabKeeps ==
  ASSUME IInv, Tab
  PROVE  IInv'
<1>1. \A o \in DOMAIN outbox : OutGoes(o)
  BY DEF Tab, OutGoes, Pending
<1>2. Len(mounts) \in Nat /\ Len(outbox) \in Nat /\ outbox' = outbox /\ outbox \in Seq(OutRow) /\ Len(mounts') = Len(mounts)
  BY LenProperties DEF IInv, TypeInv, Tab
<1>3. /\ Len(mounts') \in {Len(mounts), Len(mounts) + 1} /\ Len(mounts') # Len(mounts) + 1
      /\ Len(outbox') \in {Len(outbox), Len(outbox) + 1} /\ Len(outbox') # Len(outbox) + 1
      /\ outbox' \in Seq(OutRow) /\ cur' \in 0..Len(mounts')
  BY <1>2 DEF Tab
<1>4. Turn
  BY <1>1, <1>2, <1>3 DEF Tab, Turn
<1> QED BY <1>4, TurnKeeps

LEMMA Parts ==
  ASSUME IInv
  PROVE  TypeInv /\ LinkInv /\ NewInv /\ UidInv /\ TextInv /\ ActiveInv /\ SendInv /\ KeepInv
BY DEF IInv

\* What is known of one composer.
LEMMA RowHas ==
  ASSUME IInv, NEW i \in DOMAIN mounts
  PROVE  LET c == mounts[i] IN
         /\ c \in MountRow /\ c.m \in Messages /\ i # 0
         /\ Owned(c.uid, c.m) /\ \A b \in DOMAIN c.building : Owned(c.building[b].uid, c.m)
         /\ c.last[1] <= typed[c.m] /\ c.text <= typed[c.m]
         /\ c.req # 0 => c.chain # <<>> /\ c.req \in DOMAIN reqs /\ reqs[c.req].kind = "save" /\ reqs[c.req].m = c.m
         /\ i # cur => Left(c.m) \/ OnlySaves(c)
         /\ Active(i) => Lost(c.m) \/ HoldsNewest(i)
<1>1. /\ mounts[i] \in MountRow /\ mounts[i].m \in Messages /\ i # 0
  BY Parts, MountIs
<1>2. Owned(mounts[i].uid, mounts[i].m) /\ \A b \in DOMAIN mounts[i].building : Owned(mounts[i].building[b].uid, mounts[i].m)
  BY Parts DEF UidInv
<1>3. mounts[i].last[1] <= typed[mounts[i].m] /\ mounts[i].text <= typed[mounts[i].m]
  BY Parts DEF TextInv
<1>4. mounts[i].req # 0 => /\ mounts[i].chain # <<>> /\ mounts[i].req \in DOMAIN reqs
                           /\ reqs[mounts[i].req].kind = "save" /\ reqs[mounts[i].req].m = mounts[i].m
  BY Parts DEF LinkInv
<1>5. i # cur => Left(mounts[i].m) \/ OnlySaves(mounts[i])
  BY Parts DEF ActiveInv, OnlySaves
<1>6. Active(i) => Lost(mounts[i].m) \/ HoldsNewest(i)
  BY Parts DEF KeepInv
<1> QED BY <1>1, <1>2, <1>3, <1>4, <1>5, <1>6

\* A composer that a step does not touch.
LEMMA Stands ==
  ASSUME IInv, Grows, NEW j \in DOMAIN mounts, mounts'[j] = mounts[j], j = cur <=> j = cur'
  PROVE  Goes(j)
<1> DEFINE c == mounts[j]
<1>1. /\ c.m \in Messages /\ Owned(c.uid, c.m) /\ \A b \in DOMAIN c.building : Owned(c.building[b].uid, c.m)
      /\ c.last[1] <= typed[c.m] /\ (c.req # 0 => c.chain # <<>>)
      /\ j # cur => Left(c.m) \/ OnlySaves(c)
      /\ Active(j) => Lost(c.m) \/ HoldsNewest(j)
  BY RowHas
<1>2. (j = cur' \/ AtWork(c)) <=> Active(j)
  BY DEF Active
<1>3. /\ Left(c.m) => "left" \in cause'[c.m]
      /\ Lost(c.m) => cause'[c.m] \cap MayLose # {}
  BY <1>1, GrownCauses
<1>4. HoldsNewest(j) /\ c.last[1] = typed[c.m] => Safe(c.m)
  BY DEF HoldsNewest
<1> HIDE DEF c
<1>5. mounts'[j] = c /\ mounts[j] = c
  BY DEF c
<1> QED BY <1>1, <1>2, <1>3, <1>4, <1>5 DEF Goes

\* The composer on screen, or one whose message was left behind, goes on with the same text.
LEMMA RowKeeps ==
  ASSUME IInv, NEW i \in DOMAIN mounts, NEW d \in MountRow, mounts' = [mounts EXCEPT ![i] = d], cur' = cur, Grows,
         UNCHANGED <<outbox, reqs, folder, sent, away, typed, dropped>>, ~away,
         i = cur \/ Left(mounts[i].m),
         d.key = mounts[i].key, d.m = mounts[i].m, d.text = mounts[i].text, d.uid = mounts[i].uid,
         d.last = mounts[i].last, d.fin = mounts[i].fin, d.req = mounts[i].req,
         d.req # 0 => d.chain # <<>> /\ Head(d.chain) = Head(mounts[i].chain),
         \A b \in DOMAIN d.building :
           \/ d.building[b].text = d.text /\ d.building[b].uid = DraftUid(i)
           \/ \E k \in DOMAIN mounts[i].building : d.building[b] = mounts[i].building[k]
  PROVE  IInv'
<1>1. /\ mounts' \in Seq(MountRow) /\ Len(mounts') = Len(mounts) /\ mounts'[i] = d
      /\ \A j \in DOMAIN mounts : j # i => mounts'[j] = mounts[j]
  BY Parts, Put DEF TypeInv
<1>2. cur' \in 0..Len(mounts)
  BY Parts DEF TypeInv
<1>3. cur' # 0 => ~mounts'[cur'].fin
  <2>1. cur # 0 => cur \in DOMAIN mounts
    BY Parts, CurIs
  <2>2. cur # 0 => ~mounts[cur].fin
    BY Parts DEF LinkInv
  <2> QED BY <1>1, <2>1, <2>2
<1>4. Goes(i)
  <2> DEFINE c == mounts[i]
  <2>1. /\ c.m \in Messages /\ Owned(c.uid, c.m) /\ \A b \in DOMAIN c.building : Owned(c.building[b].uid, c.m)
        /\ c.last[1] <= typed[c.m] /\ (c.req # 0 => c.chain # <<>>)
        /\ i # cur => Left(c.m) \/ OnlySaves(c)
        /\ Active(i) => Lost(c.m) \/ HoldsNewest(i)
    BY RowHas
  <2>2. Owned(DraftUid(i), c.m)
    BY Parts, DraftUidIs
  <2>3. /\ Left(c.m) => "left" \in cause'[c.m]
        /\ Lost(c.m) => cause'[c.m] \cap MayLose # {}
        /\ "left" \in cause'[c.m] => cause'[c.m] \cap MayLose # {}
    BY <2>1, GrownCauses
  <2>4. HoldsNewest(i) /\ c.last[1] = typed[c.m] => Safe(c.m)
    BY DEF HoldsNewest
  <2>5. i = cur => Active(i)
    BY DEF Active
  <2>6. \A b \in DOMAIN d.building :
          /\ Owned(d.building[b].uid, c.m)
          /\ d.building[b].text = c.text \/ \E k \in DOMAIN c.building : d.building[b] = c.building[k]
    BY <2>1, <2>2
  <2>7. i = cur \/ Left(c.m)
    OBVIOUS
  <2> HIDE DEF c
  <2>8. mounts'[i] = d /\ mounts[i] = c
    BY <1>1 DEF c
  <2> QED BY <2>1, <2>3, <2>4, <2>5, <2>6, <2>7, <2>8 DEF Goes
<1>5. \A j \in DOMAIN mounts : Goes(j)
  BY <1>1, <1>4, Stands
<1>6. Tab
  BY <1>1, <1>2, <1>3, <1>5 DEF Tab
<1> QED BY <1>6, TabKeeps

LEMMA AttachKeeps ==
  ASSUME IInv, Attach
  PROVE  IInv'
<1>1. cur \in DOMAIN mounts
  BY Parts, CurIs DEF Attach
<1>2. PICK c \in MountRow : c = mounts[cur]
  BY <1>1, RowHas
<1>3. PICK d : d = [c EXCEPT !.att = {0}, !.timer = TRUE]
  OBVIOUS
<1>4. d \in MountRow
  <2>1. {0} \in SUBSET Nat
    OBVIOUS
  <2> QED BY <1>3, <2>1 DEF MountRow
<1>5. /\ d.key = c.key /\ d.m = c.m /\ d.text = c.text /\ d.uid = c.uid /\ d.last = c.last /\ d.fin = c.fin
      /\ d.req = c.req /\ d.chain = c.chain /\ d.building = c.building
  BY <1>3 DEF MountRow
<1>6. mounts' = [mounts EXCEPT ![cur] = d]
  BY <1>2, <1>3 DEF Attach
<1>7. Grows
  BY Parts, MarkedIs DEF Attach
<1>8. c.req # 0 => c.chain # <<>>
  BY <1>1, <1>2, RowHas
<1>9. UNCHANGED <<cur, outbox, reqs, folder, sent, away, typed, dropped>> /\ ~away
  BY DEF Attach, Quiet, tab
<1> QED BY <1>1, <1>2, <1>4, <1>5, <1>6, <1>7, <1>8, <1>9, RowKeeps

\* A job joins the chain of the composer on screen.
LEMMA EnqueueKeeps ==
  ASSUME IInv, cur # 0, ~away, NEW job \in Jobs, Enqueue(cur, job)
  PROVE  IInv'
<1>1. cur \in DOMAIN mounts
  BY Parts, CurIs
<1>2. PICK c \in MountRow : c = mounts[cur]
  BY <1>1, RowHas
<1>3. PICK q : q = Append(c.chain, job)
  OBVIOUS
<1>4. q \in Seq(Jobs) /\ q # <<>> /\ (c.chain # <<>> => Head(q) = Head(c.chain))
  BY <1>3, Added DEF MountRow
<1>5. PICK d : d = [c EXCEPT !.timer = FALSE, !.chain = q]
  OBVIOUS
<1>6. d \in MountRow
  BY <1>4, <1>5 DEF MountRow
<1>7. /\ d.key = c.key /\ d.m = c.m /\ d.text = c.text /\ d.uid = c.uid /\ d.last = c.last /\ d.fin = c.fin
      /\ d.req = c.req /\ d.chain = q /\ d.building = c.building
  BY <1>5 DEF MountRow
<1>8. mounts' = [mounts EXCEPT ![cur] = d]
  BY <1>2, <1>3, <1>5 DEF Enqueue
<1>9. Grows
  BY Parts, StaysPut DEF Enqueue
<1>10. c.req # 0 => c.chain # <<>>
  BY <1>1, <1>2, RowHas
<1>11. UNCHANGED <<cur, outbox, reqs, folder, sent, away, typed, dropped>> /\ ~away
  BY DEF Enqueue, tab
<1> QED BY <1>1, <1>2, <1>4, <1>6, <1>7, <1>8, <1>9, <1>10, <1>11, RowKeeps

LEMMA AsksKeep ==
  ASSUME IInv, Autosave \/ AskClose \/ AskFlush
  PROVE  IInv'
<1>1. cur # 0 /\ ~away
  BY DEF Autosave, AskClose, AskFlush, Quiet
<1>2. Enqueue(cur, "save") \/ Enqueue(cur, "close") \/ Enqueue(cur, "flush")
  BY DEF Autosave, AskClose, AskFlush
<1>3. {"save", "close", "flush"} \subseteq Jobs
  BY DEF Jobs
<1> QED BY <1>1, <1>2, <1>3, EnqueueKeeps

LEMMA PressKeeps ==
  ASSUME IInv, Press
  PROVE  IInv'
<1>1. cur \in DOMAIN mounts
  BY Parts, CurIs DEF Press
<1>2. PICK c \in MountRow : c = mounts[cur]
  BY <1>1, RowHas
<1>3. PICK d : d = [c EXCEPT !.pressed = c.pressed + 1]
  OBVIOUS
<1>4. d \in MountRow
  <2>1. c.pressed + 1 \in Nat
    BY DEF MountRow
  <2> QED BY <1>3, <2>1 DEF MountRow
<1>5. /\ d.key = c.key /\ d.m = c.m /\ d.text = c.text /\ d.uid = c.uid /\ d.last = c.last /\ d.fin = c.fin
      /\ d.req = c.req /\ d.chain = c.chain /\ d.building = c.building
  BY <1>3 DEF MountRow
<1>6. mounts' = [mounts EXCEPT ![cur] = d]
  BY <1>2, <1>3 DEF Press
<1>7. Grows
  BY Parts, StaysPut DEF Press
<1>8. c.req # 0 => c.chain # <<>>
  BY <1>1, <1>2, RowHas
<1>9. UNCHANGED <<cur, outbox, reqs, folder, sent, away, typed, dropped>> /\ ~away
  BY DEF Press, Quiet, tab
<1> QED BY <1>1, <1>2, <1>4, <1>5, <1>6, <1>7, <1>8, <1>9, RowKeeps

\* A composer off the screen sends only if it was left behind with a send under way.
LEMMA SendsAreLeft ==
  ASSUME IInv, NEW i \in DOMAIN mounts,
         mounts[i].pressed > 0 \/ mounts[i].building # <<>> \/ \E j \in DOMAIN mounts[i].chain : mounts[i].chain[j] # "save"
  PROVE  i = cur \/ Left(mounts[i].m)
BY RowHas DEF OnlySaves

LEMMA DeliverKeeps ==
  ASSUME IInv, NEW i \in DOMAIN mounts, Deliver(i)
  PROVE  IInv'
<1>1. i = cur \/ Left(mounts[i].m)
  BY SendsAreLeft DEF Deliver
<1>2. PICK c \in MountRow : c = mounts[i]
  BY RowHas
<1>3. PICK q : q = Append(c.chain, "send")
  OBVIOUS
<1>4. q \in Seq(Jobs) /\ q # <<>> /\ (c.chain # <<>> => Head(q) = Head(c.chain))
  BY <1>3, Added DEF MountRow, Jobs
<1>5. PICK d : d = [c EXCEPT !.pressed = c.pressed - 1, !.sending = TRUE, !.timer = FALSE, !.chain = q]
  OBVIOUS
<1>6. d \in MountRow
  <2>1. c.pressed - 1 \in Nat
    BY <1>2 DEF Deliver, MountRow
  <2> QED BY <1>4, <1>5, <2>1 DEF MountRow
<1>7. /\ d.key = c.key /\ d.m = c.m /\ d.text = c.text /\ d.uid = c.uid /\ d.last = c.last /\ d.fin = c.fin
      /\ d.req = c.req /\ d.chain = q /\ d.building = c.building
  BY <1>5 DEF MountRow
<1>8. mounts' = [mounts EXCEPT ![i] = d]
  BY <1>2, <1>3, <1>5 DEF Deliver
<1>9. Grows
  BY Parts, StaysPut DEF Deliver
<1>10. c.req # 0 => c.chain # <<>>
  BY <1>2, RowHas
<1>11. UNCHANGED <<cur, outbox, reqs, folder, sent, away, typed, dropped>> /\ ~away
  BY DEF Deliver, Quiet, tab
<1> QED BY <1>1, <1>2, <1>4, <1>6, <1>7, <1>8, <1>9, <1>10, <1>11, RowKeeps

LEMMA TooLargeKeeps ==
  ASSUME IInv, NEW i \in DOMAIN mounts, TooLarge(i)
  PROVE  IInv'
<1>1. i = cur \/ Left(mounts[i].m)
  BY SendsAreLeft DEF TooLarge
<1>2. PICK c \in MountRow : c = mounts[i]
  BY RowHas
<1>3. PICK q : q = Tail(c.building)
  OBVIOUS
<1>4. q \in Seq(BodyRow) /\ \A b \in DOMAIN q : \E k \in DOMAIN c.building : q[b] = c.building[k]
  BY <1>2, <1>3, TailIs DEF TooLarge, MountRow
<1>5. PICK d : d = [c EXCEPT !.building = q, !.sending = FALSE]
  OBVIOUS
<1>6. d \in MountRow
  BY <1>4, <1>5 DEF MountRow
<1>7. /\ d.key = c.key /\ d.m = c.m /\ d.text = c.text /\ d.uid = c.uid /\ d.last = c.last /\ d.fin = c.fin
      /\ d.req = c.req /\ d.chain = c.chain /\ d.building = q
  BY <1>5 DEF MountRow
<1>8. mounts' = [mounts EXCEPT ![i] = d]
  BY <1>2, <1>3, <1>5 DEF TooLarge
<1>9. Grows
  BY Parts, StaysPut DEF TooLarge
<1>10. c.req # 0 => c.chain # <<>>
  BY <1>2, RowHas
<1>11. UNCHANGED <<cur, outbox, reqs, folder, sent, away, typed, dropped>> /\ ~away
  BY DEF TooLarge, Quiet, tab
<1> QED BY <1>1, <1>2, <1>4, <1>6, <1>7, <1>8, <1>9, <1>10, <1>11, RowKeeps

\* The wait of deliver() is over: the body is built from what the composer has by then.
LEMMA BuildKeeps ==
  ASSUME IInv, NEW i \in DOMAIN mounts, Begin(i), Head(mounts[i].chain) = "send"
  PROVE  IInv'
<1>1. mounts[i].chain # <<>> /\ mounts[i].req = 0 /\ ~away
  BY DEF Begin, Waiting
<1>2. PICK c \in MountRow : c = mounts[i]
  BY RowHas
<1>3. PICK q : q = Tail(c.chain)
  OBVIOUS
<1>4. q \in Seq(Jobs) /\ c.chain[1] = "send" /\ 1 \in DOMAIN c.chain
  BY <1>1, <1>2, <1>3, TailIs DEF MountRow
<1>5. i = cur \/ Left(mounts[i].m)
  BY <1>2, <1>4, SendsAreLeft
<1>6. PICK b : b = [text |-> c.text, att |-> c.att, uid |-> DraftUid(i)]
  OBVIOUS
<1>7. b \in BodyRow
  BY <1>6, Parts, DraftUidIs DEF BodyRow, MountRow
<1>8. PICK p : p = Append(c.building, b)
  OBVIOUS
<1>9. p \in Seq(BodyRow) /\ \A k \in DOMAIN p : p[k] = b \/ (k \in DOMAIN c.building /\ p[k] = c.building[k])
  BY <1>7, <1>8, Added DEF MountRow
<1>10. PICK d : d = [c EXCEPT !.chain = q, !.building = p]
  OBVIOUS
<1>11. d \in MountRow
  BY <1>4, <1>9, <1>10 DEF MountRow
<1>12. /\ d.key = c.key /\ d.m = c.m /\ d.text = c.text /\ d.uid = c.uid /\ d.last = c.last /\ d.fin = c.fin
       /\ d.req = c.req /\ d.building = p
  BY <1>10 DEF MountRow
<1>13. mounts' = [mounts EXCEPT ![i] = d]
  BY <1>2, <1>3, <1>6, <1>8, <1>10 DEF Begin
<1>14. Grows
  BY Parts, StaysPut DEF Begin
<1>15. \A k \in DOMAIN d.building : \/ d.building[k].text = d.text /\ d.building[k].uid = DraftUid(i)
                                   \/ \E l \in DOMAIN c.building : d.building[k] = c.building[l]
  BY <1>6, <1>9, <1>12
<1>16. UNCHANGED <<cur, outbox, reqs, folder, sent, away, typed, dropped>> /\ ~away
  BY DEF Begin, tab
<1> QED BY <1>1, <1>2, <1>5, <1>11, <1>12, <1>13, <1>14, <1>15, <1>16, RowKeeps

-----------------------------------------------------------------------------
(* The head of a chain is done.                                             *)

\* d is composer j, except for what it knows to be saved, its UID and its attachments.
Alike(j, d) ==
  LET c == mounts[j] IN
  /\ d.key = c.key /\ d.m = c.m /\ d.text = c.text /\ d.fin = c.fin /\ d.chain = c.chain /\ d.pressed = c.pressed
  /\ d.building = c.building /\ d.req = c.req
  /\ Owned(d.uid, c.m) /\ d.last[1] <= typed[c.m]
  /\ Active(j) /\ d.last[1] = typed[c.m] => Lost(c.m) \/ Safe(c.m)

LEMMA AlikeStands ==
  ASSUME IInv, Grows, NEW j \in DOMAIN mounts, Alike(j, mounts'[j]), j = cur <=> j = cur'
  PROVE  Goes(j)
<1> DEFINE c == mounts[j]
           d == mounts'[j]
<1>1. /\ c.m \in Messages /\ \A b \in DOMAIN c.building : Owned(c.building[b].uid, c.m)
      /\ (c.req # 0 => c.chain # <<>>) /\ (j # cur => Left(c.m) \/ OnlySaves(c))
  BY RowHas
<1>2. /\ Left(c.m) => "left" \in cause'[c.m]
      /\ Lost(c.m) => cause'[c.m] \cap MayLose # {}
  BY <1>1, GrownCauses
<1>3. /\ d.key = c.key /\ d.m = c.m /\ d.text = c.text /\ d.fin = c.fin /\ d.chain = c.chain /\ d.pressed = c.pressed
      /\ d.building = c.building /\ d.req = c.req
      /\ Owned(d.uid, c.m) /\ d.last[1] <= typed[c.m]
      /\ Active(j) /\ d.last[1] = typed[c.m] => Lost(c.m) \/ Safe(c.m)
  BY DEF Alike
<1>4. (j = cur' \/ AtWork(d)) <=> Active(j)
  BY <1>3 DEF Active, AtWork
<1>5. OnlySaves(c) => OnlySaves(d)
  BY <1>3 DEF OnlySaves
<1> HIDE DEF c, d
<1>6. mounts'[j] = d /\ mounts[j] = c
  BY DEF c, d
<1> QED BY <1>1, <1>2, <1>3, <1>4, <1>5, <1>6 DEF Goes

\* The composer whose head is done: it goes on with the rest of its chain, or is over.
LEMMA HeadGoes ==
  ASSUME IInv, Grows, NEW i \in DOMAIN mounts, NEW e \in MountRow, Alike(i, e), mounts[i].chain # <<>>,
         mounts'[i] \in MountRow,
         mounts'[i].key = e.key, mounts'[i].m = e.m, mounts'[i].text = e.text, mounts'[i].uid = e.uid,
         mounts'[i].last = e.last, mounts'[i].building = e.building, mounts'[i].pressed = e.pressed,
         mounts'[i].chain = Tail(e.chain), mounts'[i].req = 0,
         \/ i # cur /\ i # cur'
         \/ i = cur /\ i = cur'
         \/ i = cur /\ i # cur' /\ (AtWork(mounts'[i]) => "left" \in cause'[mounts[i].m]),
         \/ i = cur /\ i = cur'
         \/ cause'[mounts[i].m] \cap MayLose # {}
         \/ Safe(mounts[i].m)
  PROVE  Goes(i)
<1> DEFINE c == mounts[i]
           d == mounts'[i]
<1>1. /\ c.m \in Messages /\ \A b \in DOMAIN c.building : Owned(c.building[b].uid, c.m)
      /\ c \in MountRow /\ (i # cur => Left(c.m) \/ OnlySaves(c))
  BY RowHas
<1>2. /\ Left(c.m) => "left" \in cause'[c.m]
      /\ Lost(c.m) => cause'[c.m] \cap MayLose # {}
      /\ "left" \in cause'[c.m] => cause'[c.m] \cap MayLose # {}
  BY <1>1, GrownCauses
<1>3. /\ d.key = c.key /\ d.m = c.m /\ d.text = c.text /\ d.pressed = c.pressed
      /\ d.building = c.building /\ d.req = 0 /\ d.chain = Tail(c.chain)
      /\ Owned(d.uid, c.m) /\ d.last[1] <= typed[c.m]
      /\ Active(i) /\ d.last[1] = typed[c.m] => Lost(c.m) \/ Safe(c.m)
  BY DEF Alike
<1>4. Active(i)
  BY DEF Active, AtWork
<1>5. OnlySaves(c) => OnlySaves(d)
  <2>1. c.chain \in Seq(Jobs) /\ c.chain # <<>>
    BY <1>1 DEF MountRow
  <2>2. \A j \in DOMAIN Tail(c.chain) : j + 1 \in DOMAIN c.chain /\ Tail(c.chain)[j] = c.chain[j + 1]
    BY <2>1, TailIs
  <2> QED BY <1>3, <2>2 DEF OnlySaves
<1>6. ~AtWork(d) => OnlySaves(d)
  <2>1. d.chain \in Seq(Jobs) /\ d.pressed \in Nat
    BY DEF MountRow
  <2> QED BY <2>1 DEF AtWork, OnlySaves
<1>7. i # cur' => "left" \in cause'[c.m] \/ OnlySaves(d)
  BY <1>1, <1>2, <1>5, <1>6
<1>8. i = cur' \/ cause'[c.m] \cap MayLose # {} \/ Safe(c.m)
  OBVIOUS
<1> HIDE DEF c, d
<1>9. mounts'[i] = d /\ mounts[i] = c
  BY DEF c, d
<1> QED BY <1>1, <1>2, <1>3, <1>4, <1>7, <1>8, <1>9 DEF Goes

\* The composer on screen closes with another's: they are one message, that was left behind.
LEMMA OtherGoes ==
  ASSUME IInv, Grows, cur # 0, cur' = 0, NEW e \in MountRow, Alike(cur, e), Left(mounts[cur].m),
         mounts'[cur].key = e.key, mounts'[cur].m = e.m, mounts'[cur].text = e.text, mounts'[cur].uid = e.uid,
         mounts'[cur].last = e.last, mounts'[cur].building = e.building, mounts'[cur].req = e.req,
         mounts'[cur].chain = e.chain \/ mounts'[cur].chain = Append(e.chain, "save")
  PROVE  Goes(cur)
<1> DEFINE c == mounts[cur]
           d == mounts'[cur]
<1>1. cur \in DOMAIN mounts
  BY Parts, CurIs
<1>2. /\ c.m \in Messages /\ \A b \in DOMAIN c.building : Owned(c.building[b].uid, c.m)
      /\ c \in MountRow /\ (c.req # 0 => c.chain # <<>>)
  BY <1>1, RowHas
<1>3. "left" \in cause'[c.m] /\ cause'[c.m] \cap MayLose # {}
  BY <1>2, GrownCauses
<1>4. /\ d.key = c.key /\ d.m = c.m /\ d.text = c.text /\ d.building = c.building /\ d.req = c.req
      /\ Owned(d.uid, c.m) /\ d.last[1] <= typed[c.m]
  BY DEF Alike
<1>5. c.chain # <<>> => d.chain # <<>> /\ Head(d.chain) = Head(c.chain)
  <2>1. c.chain \in Seq(Jobs) /\ "save" \in Jobs
    BY <1>2 DEF MountRow, Jobs
  <2>2. c.chain # <<>> => Append(c.chain, "save") # <<>> /\ Head(Append(c.chain, "save")) = Head(c.chain)
    BY <2>1, Added
  <2>3. e.chain = c.chain
    BY DEF Alike
  <2> QED BY <2>2, <2>3
<1> HIDE DEF c, d
<1>6. mounts'[cur] = d /\ mounts[cur] = c
  BY DEF c, d
<1> QED BY <1>2, <1>3, <1>4, <1>5, <1>6 DEF Goes

\* Which composers are which, after the head of i's chain is done.
LEMMA FinishKeeps ==
  ASSUME IInv, NEW i \in DOMAIN mounts, NEW ms \in Seq(MountRow), Len(ms) = Len(mounts),
         \A j \in DOMAIN mounts : Alike(j, ms[j]), mounts[i].chain # <<>>, NEW ok, NEW marks,
         Finish(ms, i, ok, marks), UNCHANGED <<outbox, reqs, folder, sent, away, typed, dropped>>, ~away,
         \/ i = cur /\ Head(mounts[i].chain) = "save"
         \/ cause'[mounts[i].m] \cap MayLose # {}
         \/ Safe(mounts[i].m)
  PROVE  IInv'
<1> DEFINE ends == Head(ms[i].chain) = "close" \/ (Head(ms[i].chain) = "flush" /\ ok)
<1>1. DOMAIN ms = DOMAIN mounts /\ i # 0
  BY LenProperties, Parts, RowHas DEF TypeInv
<1>2. PICK e \in MountRow : e = ms[i]
  BY <1>1, LenProperties, ElementOfSeq
<1>3. Alike(i, e) /\ e.chain = mounts[i].chain /\ e.key = mounts[i].key
  BY <1>2 DEF Alike
<1>4. PICK q : q = Tail(e.chain)
  OBVIOUS
<1>5. q \in Seq(Jobs)
  BY <1>3, <1>4, TailIs DEF MountRow
<1>6. PICK d : d = [e EXCEPT !.chain = q, !.req = 0]
  OBVIOUS
<1>7. d \in MountRow
  BY <1>5, <1>6 DEF MountRow
<1>8. /\ d.key = e.key /\ d.m = e.m /\ d.text = e.text /\ d.uid = e.uid /\ d.last = e.last /\ d.fin = e.fin
      /\ d.building = e.building /\ d.pressed = e.pressed /\ d.chain = q /\ d.req = 0
  BY <1>6 DEF MountRow
<1>9. PICK f : f = [d EXCEPT !.fin = TRUE]
  OBVIOUS
<1>10. f \in MountRow
  BY <1>7, <1>9 DEF MountRow
<1>11. /\ f.key = e.key /\ f.m = e.m /\ f.text = e.text /\ f.uid = e.uid /\ f.last = e.last /\ f.fin = TRUE
       /\ f.building = e.building /\ f.pressed = e.pressed /\ f.chain = q /\ f.req = 0
  BY <1>7, <1>8, <1>9 DEF MountRow
<1>12. PICK p : p = [ms EXCEPT ![i] = d]
  OBVIOUS
<1>13. PICK n : n = [ms EXCEPT ![i] = f]
  OBVIOUS
<1>14. /\ p \in Seq(MountRow) /\ Len(p) = Len(mounts) /\ p[i] = d
       /\ \A j \in DOMAIN mounts : j # i => p[j] = ms[j]
  BY <1>1, <1>7, <1>12, Put
<1>15. /\ n \in Seq(MountRow) /\ Len(n) = Len(mounts) /\ n[i] = f
       /\ \A j \in DOMAIN mounts : j # i => n[j] = ms[j]
  BY <1>1, <1>10, <1>13, Put
<1>16. p = [ms EXCEPT ![i].chain = Tail(@), ![i].req = 0] /\ n = [p EXCEPT ![i].fin = TRUE]
  <2>1. p = [ms EXCEPT ![i].chain = Tail(@), ![i].req = 0]
    BY <1>2, <1>4, <1>6, <1>12
  <2>2. n = [p EXCEPT ![i].fin = TRUE]
    BY <1>1, <1>9, <1>12, <1>13
  <2> QED BY <2>1, <2>2
<1>17. UNCHANGED <<outbox, reqs, folder, sent, away, typed>> /\ dropped \subseteq dropped' /\ ~away
  OBVIOUS
<1>18. cur # 0 => cur \in DOMAIN mounts /\ ~mounts[cur].fin
  BY Parts, CurIs DEF LinkInv
<1>19. 0 \in 0..Len(mounts) /\ cur \in 0..Len(mounts)
  BY Parts, LenProperties DEF TypeInv
<1>20. CASE ~ends
  <2>1. mounts' = p /\ cause' = Marked(marks) /\ cur' = cur
    BY <1>16, <1>20 DEF Finish
  <2>2. Grows
    BY <2>1, Parts, MarkedIs
  <2>3. Goes(i)
    BY <1>2, <1>3, <1>4, <1>7, <1>8, <1>14, <2>1, <2>2, HeadGoes
  <2>4. \A j \in DOMAIN mounts : j # i => Goes(j)
    BY <1>14, <2>1, <2>2, AlikeStands
  <2>5. cur' # 0 => ~mounts'[cur'].fin
    BY <1>3, <1>8, <1>14, <1>18, <2>1 DEF Alike
  <2>6. Tab
    BY <1>14, <1>17, <1>19, <2>1, <2>2, <2>3, <2>4, <2>5 DEF Tab
  <2> QED BY <2>6, TabKeeps
<1>21. CASE ends /\ ~OnScreen(ms[i].key)
  <2>1. mounts' = n /\ cause' = Marked(marks \cup LeftBehind(p)) /\ cur' = cur /\ i # cur
    <3>1. i # cur
      BY <1>1, <1>2, <1>3, <1>21 DEF OnScreen
    <3> QED BY <1>16, <1>21, <3>1 DEF Finish
  <2>2. Grows
    BY <2>1, Parts, MarkedIs
  <2>3. Goes(i)
    BY <1>2, <1>3, <1>4, <1>10, <1>11, <1>15, <2>1, <2>2, HeadGoes
  <2>4. \A j \in DOMAIN mounts : j # i => Goes(j)
    BY <1>15, <2>1, <2>2, AlikeStands
  <2>5. cur' # 0 => ~mounts'[cur'].fin
    BY <1>15, <1>18, <2>1 DEF Alike
  <2>6. Tab
    BY <1>15, <1>17, <1>19, <2>1, <2>2, <2>3, <2>4, <2>5 DEF Tab
  <2> QED BY <2>6, TabKeeps
<1>22. CASE ends /\ OnScreen(ms[i].key)
  <2>1. mounts' = Unmounted(n, 0) /\ cause' = Marked(marks \cup LeftBehind(p)) /\ cur' = 0 /\ cur # 0
    BY <1>16, <1>22 DEF Finish, OnScreen
  <2>2. Grows
    BY <2>1, Parts, MarkedIs
  <2>3. cur \in DOMAIN mounts /\ cur \in DOMAIN n /\ DOMAIN n = DOMAIN mounts
    BY <1>1, <1>15, <1>18, <2>1, LenProperties
  <2>4. /\ mounts' \in Seq(MountRow) /\ Len(mounts') = Len(mounts)
        /\ \A j \in DOMAIN mounts : j # cur => mounts'[j] = n[j]
        /\ mounts'[cur].key = n[cur].key /\ mounts'[cur].m = n[cur].m /\ mounts'[cur].text = n[cur].text
        /\ mounts'[cur].last = n[cur].last /\ mounts'[cur].uid = n[cur].uid /\ mounts'[cur].req = n[cur].req
        /\ mounts'[cur].pressed = n[cur].pressed /\ mounts'[cur].building = n[cur].building
        /\ n[cur].fin => mounts'[cur].chain = n[cur].chain
        /\ mounts'[cur].chain = n[cur].chain \/ mounts'[cur].chain = Append(n[cur].chain, "save")
    <3>1. PICK u : u = Unmounted(n, 0)
      OBVIOUS
    <3>2. 0 \in Nat /\ n \in Seq(MountRow) /\ Len(n) = Len(mounts) /\ TypeInv
      BY <1>15, Parts
    <3>3. /\ u \in Seq(MountRow) /\ Len(u) = Len(n)
          /\ \A j \in DOMAIN n : j # cur => u[j] = n[j]
          /\ cur # 0 => LET c == n[cur]
                            w == u[cur]
                        IN  /\ w.key = c.key /\ w.m = c.m /\ w.text = c.text /\ w.att = c.att /\ w.last = c.last
                            /\ w.uid = c.uid /\ w.fin = c.fin /\ w.req = c.req /\ w.pressed = c.pressed
                            /\ w.building = c.building
                            /\ w.chain = IF c.fin \/ c.key = 0 THEN c.chain ELSE Append(c.chain, "save")
      BY <3>1, <3>2, UnmountedIs
    <3>4. u = mounts'
      BY <2>1, <3>1
    <3> QED BY <2>1, <2>3, <3>3, <3>4, <1>15
  <2>5. \A j \in DOMAIN mounts : mounts'[j] \in MountRow
    BY <2>4, LenProperties, ElementOfSeq, Parts DEF TypeInv
  <2>6. \A j \in DOMAIN mounts : j # i /\ j # cur => Goes(j)
    BY <1>1, <1>15, <2>1, <2>2, <2>4, RowHas, AlikeStands
  <2>7. CASE i = cur
    <3>1. /\ mounts'[i].key = e.key /\ mounts'[i].m = e.m /\ mounts'[i].text = e.text /\ mounts'[i].uid = e.uid
          /\ mounts'[i].last = e.last /\ mounts'[i].building = e.building /\ mounts'[i].pressed = e.pressed
          /\ mounts'[i].chain = Tail(e.chain) /\ mounts'[i].req = 0
      BY <1>4, <1>11, <1>15, <2>4, <2>7
    <3>2. AtWork(mounts'[i]) => "left" \in cause'[mounts[i].m]
      <4>1. AtWork(mounts'[i]) => AtWork(p[cur])
        BY <1>4, <1>8, <1>14, <2>7, <3>1 DEF AtWork
      <4>2. AtWork(p[cur]) => <<p[cur].m, "left">> \in marks \cup LeftBehind(p)
        BY <2>1 DEF LeftBehind
      <4>3. p[cur].m = mounts[i].m /\ mounts[i].m \in Messages
        BY <1>3, <1>8, <1>14, <2>7, RowHas DEF Alike
      <4> QED BY <2>1, <4>1, <4>2, <4>3, Parts, MarkedIs, CausesAre
    <3>3. \/ cause'[mounts[i].m] \cap MayLose # {}
          \/ Safe(mounts[i].m)
      BY <1>2, <1>3, <1>22
    <3>4. Goes(i)
      BY <1>1, <1>3, <2>1, <2>2, <2>5, <2>7, <3>1, <3>2, <3>3, HeadGoes
    <3>5. Tab
      BY <1>17, <1>19, <2>1, <2>2, <2>4, <2>6, <2>7, <3>4 DEF Tab
    <3> QED BY <3>5, TabKeeps
  <2>8. CASE i # cur
    <3>1. mounts'[i] = f
      BY <1>15, <2>4, <2>8
    <3>2. mounts[cur].m = mounts[i].m
      BY <1>2, <1>3, <1>22, <2>3, Parts DEF OnScreen, LinkInv
    <3>3. Left(mounts[i].m)
      <4>1. Active(i) /\ Active(cur)
        BY DEF Active, AtWork
      <4> QED BY <2>3, <2>8, <3>2, <4>1, Parts DEF ActiveInv
    <3>4. Left(mounts[cur].m)
      BY <3>2, <3>3
    <3>5. Goes(i)
      BY <1>1, <1>3, <1>4, <1>10, <1>11, <2>1, <2>2, <2>8, <3>1, <1>2, <1>22, HeadGoes
    <3>6. ms[cur] \in MountRow /\ n[cur] = ms[cur] /\ Alike(cur, ms[cur])
      BY <1>1, <1>15, <2>3, <2>8, LenProperties, ElementOfSeq
    <3>7. Goes(cur)
      BY <2>1, <2>2, <2>4, <3>4, <3>6, OtherGoes
    <3>8. Tab
      BY <1>17, <1>19, <2>1, <2>2, <2>4, <2>6, <3>5, <3>7 DEF Tab
    <3> QED BY <3>8, TabKeeps
  <2> QED BY <2>7, <2>8
<1> QED BY <1>20, <1>21, <1>22

LEMMA FinishGrows ==
  ASSUME TypeInv, NEW ms, NEW i, NEW ok, NEW marks, Finish(ms, i, ok, marks)
  PROVE  Grows /\ \A m \in Messages, w \in Causes : <<m, w>> \in marks => w \in cause'[m]
<1>1. PICK all : cause' = Marked(all) /\ marks \subseteq all
  BY DEF Finish
<1> QED BY <1>1, MarkedIs

LEMMA AlikeItself ==
  ASSUME IInv, NEW j \in DOMAIN mounts
  PROVE  Alike(j, mounts[j])
BY RowHas DEF Alike, HoldsNewest

\* There is nothing to save: what is written is what was saved last.
LEMMA NothingToSaveKeeps ==
  ASSUME IInv, NEW i \in DOMAIN mounts, ~away, mounts[i].chain # <<>>, Snapshot(mounts[i]) = mounts[i].last,
         Finish(mounts, i, TRUE, {}), UNCHANGED <<reqs, outbox, folder, sent, away, typed, dropped>>
  PROVE  IInv'
<1>1. mounts \in Seq(MountRow) /\ mounts[i].m \in Messages
  BY Parts, RowHas DEF TypeInv
<1>2. Grows
  BY Parts, FinishGrows
<1>3. Lost(mounts[i].m) \/ HoldsNewest(i)
  BY RowHas DEF Active, AtWork
<1>4. HoldsNewest(i) => Safe(mounts[i].m)
  BY DEF HoldsNewest, Snapshot
<1>5. Lost(mounts[i].m) => cause'[mounts[i].m] \cap MayLose # {}
  BY <1>1, <1>2, GrownCauses
<1>6. \A j \in DOMAIN mounts : Alike(j, mounts[j])
  BY AlikeItself
<1> QED BY <1>1, <1>3, <1>4, <1>5, <1>6, FinishKeeps

\* A save that fails, or whose answer is lost, is a cause of its own.
LEMMA UnsavedKeeps ==
  ASSUME IInv, NEW i \in DOMAIN mounts, Unsaved(i)
  PROVE  IInv'
<1>1. mounts \in Seq(MountRow) /\ mounts[i].m \in Messages
  BY Parts, RowHas DEF TypeInv
<1>2. mounts[i].chain # <<>>
  BY RowHas DEF Unsaved, Waiting
<1>3. UNCHANGED <<outbox, reqs, folder, sent, away, typed, dropped>> /\ ~away
  BY DEF Unsaved, Quiet
<1>4. PICK marks : <<mounts[i].m, "failed">> \in marks /\ Finish(mounts, i, FALSE, marks)
  BY DEF Unsaved
<1>5. "failed" \in cause'[mounts[i].m]
  BY <1>1, <1>4, Parts, FinishGrows, CausesAre
<1>6. cause'[mounts[i].m] \cap MayLose # {}
  BY <1>5 DEF MayLose
<1>7. \A j \in DOMAIN mounts : Alike(j, mounts[j])
  BY AlikeItself
<1> QED BY <1>1, <1>2, <1>3, <1>4, <1>6, <1>7, FinishKeeps

\* A save is answered: the composer on screen learns the UID, and its chain what is saved.
LEMMA SavedKeeps ==
  ASSUME IInv, NEW i \in DOMAIN mounts, Saved(i)
  PROVE  IInv'
<1>1. PICK c \in MountRow : c = mounts[i]
  BY RowHas
<1>2. c.chain # <<>> /\ c.req \in DOMAIN reqs /\ reqs[c.req].m = c.m /\ c.m \in Messages
  BY <1>1, RowHas DEF Saved, Waiting
<1>3. PICK r \in ReqRow : r = reqs[c.req]
  BY <1>2, Parts, ReqIs
<1>4. PICK att : att = HeldBy(c, r)
  OBVIOUS
<1>5. PICK last : last = IF Snapshot(c) # <<r.text, r.att>> THEN <<r.text, r.att>> ELSE <<c.text, att>>
  OBVIOUS
<1>6. PICK knows : knows = IF OnScreen(c.key) THEN [mounts EXCEPT ![cur].uid = r.result] ELSE mounts
  OBVIOUS
<1>7. PICK ms : ms = IF i = cur THEN [knows EXCEPT ![i].att = att, ![i].last = last, ![i].timer = TRUE]
                                ELSE [knows EXCEPT ![i].last = last]
  OBVIOUS
<1>8. Finish(ms, i, TRUE, {}) /\ r.at = "done" /\ UNCHANGED <<outbox, reqs, folder, sent, away, typed, dropped>> /\ ~away
  BY <1>1, <1>3, <1>4, <1>5, <1>6, <1>7 DEF Saved, Quiet
<1>9. last[1] = r.text /\ last \in Nat \X SUBSET Nat /\ att \in SUBSET Nat
  <2>1. att \in SUBSET Nat
    <3>1. c.att \cap {0} \in SUBSET Nat
      BY DEF MountRow
    <3>2. {r.result} \in SUBSET Nat
      BY DEF ReqRow
    <3> QED BY <1>4, <3>1, <3>2 DEF HeldBy
  <2>2. last[1] = r.text
    BY <1>5 DEF Snapshot
  <2>3. <<r.text, r.att>> \in Nat \X SUBSET Nat /\ <<c.text, att>> \in Nat \X SUBSET Nat
    BY <2>1 DEF ReqRow, MountRow
  <2> QED BY <1>5, <2>1, <2>2, <2>3
<1>10. /\ r.text <= typed[c.m] /\ Owned(r.result, c.m)
       /\ Active(i) /\ r.text = typed[c.m] => Lost(c.m) \/ Safe(c.m)
  <2>1. r.text <= typed[c.m]
    BY <1>2, <1>3, Parts DEF TextInv
  <2>2. Owned(r.result, c.m)
    BY <1>2, <1>3, Parts DEF UidInv
  <2>3. Active(i) => Lost(c.m) \/ HoldsNewest(i)
    BY <1>1, RowHas
  <2>4. HoldsNewest(i) /\ r.text = typed[c.m] => Safe(c.m)
    BY <1>1, <1>3, <1>8 DEF HoldsNewest, Saved, Waiting
  <2> QED BY <2>1, <2>2, <2>3, <2>4
<1>11. /\ knows \in Seq(MountRow) /\ Len(knows) = Len(mounts) /\ DOMAIN knows = DOMAIN mounts
       /\ \A j \in DOMAIN mounts : Alike(j, knows[j]) /\ knows[j].att = mounts[j].att
  <2>1. CASE ~OnScreen(c.key)
    BY <1>6, <2>1, Parts, AlikeItself DEF TypeInv
  <2>2. CASE OnScreen(c.key)
    <3>1. cur \in DOMAIN mounts /\ mounts[cur].key = c.key
      BY <2>2, Parts, CurIs DEF OnScreen
    <3>2. mounts[cur].m = c.m
      BY <1>1, <3>1, Parts DEF LinkInv
    <3>3. PICK b \in MountRow : b = mounts[cur]
      BY <3>1, RowHas
    <3>4. PICK d : d = [b EXCEPT !.uid = r.result]
      OBVIOUS
    <3>5. d \in MountRow
      BY <3>4 DEF MountRow, ReqRow
    <3>6. /\ d.key = b.key /\ d.m = b.m /\ d.text = b.text /\ d.uid = r.result /\ d.last = b.last /\ d.fin = b.fin
          /\ d.building = b.building /\ d.pressed = b.pressed /\ d.chain = b.chain /\ d.req = b.req /\ d.att = b.att
      BY <3>4 DEF MountRow
    <3>7. knows = [mounts EXCEPT ![cur] = d]
      BY <1>6, <2>2, <3>3, <3>4
    <3>8. /\ knows \in Seq(MountRow) /\ Len(knows) = Len(mounts) /\ DOMAIN knows = DOMAIN mounts /\ knows[cur] = d
          /\ \A j \in DOMAIN mounts : j # cur => knows[j] = mounts[j]
      BY <3>1, <3>5, <3>7, Parts, Put DEF TypeInv
    <3>9. Alike(cur, b)
      BY <3>1, <3>3, AlikeItself
    <3>10. Alike(cur, d)
      BY <1>10, <3>2, <3>3, <3>6, <3>9 DEF Alike
    <3> QED BY <3>3, <3>6, <3>8, <3>10, AlikeItself
  <2> QED BY <2>1, <2>2
<1>12. PICK b \in MountRow : b = knows[i]
  BY <1>11, LenProperties, ElementOfSeq
<1>13. PICK d : d = IF i = cur THEN [b EXCEPT !.att = att, !.last = last, !.timer = TRUE] ELSE [b EXCEPT !.last = last]
  OBVIOUS
<1>14. d \in MountRow
  BY <1>9, <1>13 DEF MountRow
<1>15. /\ d.key = b.key /\ d.m = b.m /\ d.text = b.text /\ d.uid = b.uid /\ d.last = last /\ d.fin = b.fin
       /\ d.building = b.building /\ d.pressed = b.pressed /\ d.chain = b.chain /\ d.req = b.req
  BY <1>13 DEF MountRow
<1>16. ms = [knows EXCEPT ![i] = d]
  BY <1>7, <1>12, <1>13
<1>17. /\ ms \in Seq(MountRow) /\ Len(ms) = Len(mounts) /\ ms[i] = d
       /\ \A j \in DOMAIN mounts : j # i => ms[j] = knows[j]
  BY <1>11, <1>14, <1>16, Put
<1>18. Alike(i, d)
  <2>1. Alike(i, b)
    BY <1>11, <1>12
  <2> QED BY <1>1, <1>9, <1>10, <1>15, <2>1 DEF Alike
<1>19. \A j \in DOMAIN mounts : Alike(j, ms[j])
  BY <1>11, <1>17, <1>18
<1>20. \/ i = cur /\ Head(mounts[i].chain) = "save"
       \/ cause'[mounts[i].m] \cap MayLose # {}
       \/ Safe(mounts[i].m)
  <2>1. Active(i)
    BY <1>1, <1>2 DEF Active, AtWork
  <2>2. Lost(c.m) \/ HoldsNewest(i)
    BY <1>1, <2>1, RowHas
  <2>3. Lost(c.m) => cause'[c.m] \cap MayLose # {}
    BY <1>2, <1>8, Parts, FinishGrows, GrownCauses
  <2>4. HoldsNewest(i) => r.text = typed[c.m] \/ (i = cur /\ Head(c.chain) = "save")
    BY <1>1, <1>3 DEF HoldsNewest, Saved, Waiting
  <2> QED BY <1>1, <1>10, <2>1, <2>2, <2>3, <2>4
<1> QED BY <1>1, <1>2, <1>8, <1>17, <1>19, <1>20, FinishKeeps

-----------------------------------------------------------------------------
(* Closing, mounting and queueing.                                          *)

\* The composer on screen gives way, and saves once more unless the message goes on elsewhere or is dropped.
LEMMA GivesWay ==
  ASSUME IInv, Grows, cur # 0, cur' # cur, mounts'[cur] \in MountRow,
         mounts'[cur].key = mounts[cur].key, mounts'[cur].m = mounts[cur].m, mounts'[cur].text = mounts[cur].text,
         mounts'[cur].uid = mounts[cur].uid, mounts'[cur].last = mounts[cur].last, mounts'[cur].req = mounts[cur].req,
         mounts'[cur].pressed = mounts[cur].pressed,
         \A b \in DOMAIN mounts'[cur].building :
           \E k \in DOMAIN mounts[cur].building : mounts'[cur].building[b] = mounts[cur].building[k],
         mounts[cur].chain # <<>> \/ mounts[cur].pressed > 0 \/ mounts'[cur].building # <<>> =>
           "left" \in cause'[mounts[cur].m],
         \/ /\ mounts'[cur].chain = mounts[cur].chain
            /\ mounts[cur].m \in dropped' \/ Taken(mounts[cur].m)
         \/ mounts'[cur].chain = Append(mounts[cur].chain, "save")
  PROVE  Goes(cur)
<1> DEFINE c == mounts[cur]
           d == mounts'[cur]
<1>1. cur \in DOMAIN mounts /\ Active(cur)
  BY Parts, CurIs DEF Active
<1>2. /\ c \in MountRow /\ c.m \in Messages /\ Owned(c.uid, c.m) /\ \A b \in DOMAIN c.building : Owned(c.building[b].uid, c.m)
      /\ c.last[1] <= typed[c.m] /\ (c.req # 0 => c.chain # <<>>) /\ (Lost(c.m) \/ HoldsNewest(cur))
  BY <1>1, RowHas
<1>3. /\ Lost(c.m) => cause'[c.m] \cap MayLose # {}
      /\ "left" \in cause'[c.m] => cause'[c.m] \cap MayLose # {}
  BY <1>2, GrownCauses
<1>4. HoldsNewest(cur) /\ c.last[1] = typed[c.m] => Safe(c.m)
  BY DEF HoldsNewest
<1>5. c.chain \in Seq(Jobs) /\ "save" \in Jobs /\ c.pressed \in Nat
  BY <1>2 DEF MountRow, Jobs
<1>6. /\ Append(c.chain, "save") # <<>>
      /\ c.chain # <<>> => Head(Append(c.chain, "save")) = Head(c.chain)
      /\ c.chain = <<>> => \A j \in DOMAIN Append(c.chain, "save") : Append(c.chain, "save")[j] = "save"
  <2>1. /\ Append(c.chain, "save") # <<>>
        /\ c.chain # <<>> => Head(Append(c.chain, "save")) = Head(c.chain)
    BY <1>5, Added
  <2>2. c.chain = <<>> => Append(c.chain, "save") = <<"save">>
    OBVIOUS
  <2> QED BY <2>1, <2>2
<1>7. "left" \in cause'[c.m] \/ OnlySaves(d)
  BY <1>5, <1>6 DEF OnlySaves
<1>8. AtWork(d) \/ c.m \in dropped' \/ Taken(c.m)
  BY <1>6 DEF AtWork
<1>9. \A b \in DOMAIN d.building : Owned(d.building[b].uid, c.m)
  BY <1>2
<1>10. c.chain # <<>> => d.chain # <<>> /\ Head(d.chain) = Head(c.chain) /\ "left" \in cause'[c.m]
  BY <1>6
<1> HIDE DEF c, d
<1>11. mounts'[cur] = d /\ mounts[cur] = c
  BY DEF c, d
<1> QED BY <1>1, <1>2, <1>3, <1>4, <1>7, <1>8, <1>9, <1>10, <1>11 DEF Goes

\* A composer that was left behind.
LEMMA LeftGoes ==
  ASSUME IInv, Grows, NEW i \in DOMAIN mounts, Left(mounts[i].m),
         mounts'[i].key = mounts[i].key, mounts'[i].m = mounts[i].m, mounts'[i].text = mounts[i].text,
         mounts'[i].uid = mounts[i].uid, mounts'[i].last = mounts[i].last, mounts'[i].req = mounts[i].req,
         \A b \in DOMAIN mounts'[i].building :
           \E k \in DOMAIN mounts[i].building : mounts'[i].building[b] = mounts[i].building[k],
         mounts'[i].chain = mounts[i].chain \/ mounts'[i].chain = Append(mounts[i].chain, "save")
  PROVE  Goes(i)
<1> DEFINE c == mounts[i]
           d == mounts'[i]
<1>1. /\ c \in MountRow /\ c.m \in Messages /\ Owned(c.uid, c.m) /\ \A b \in DOMAIN c.building : Owned(c.building[b].uid, c.m)
      /\ c.last[1] <= typed[c.m] /\ (c.req # 0 => c.chain # <<>>)
  BY RowHas
<1>2. "left" \in cause'[c.m] /\ cause'[c.m] \cap MayLose # {}
  BY <1>1, GrownCauses
<1>3. c.chain # <<>> => d.chain # <<>> /\ Head(d.chain) = Head(c.chain)
  <2>1. c.chain \in Seq(Jobs) /\ "save" \in Jobs
    BY <1>1 DEF MountRow, Jobs
  <2>2. c.chain # <<>> => Append(c.chain, "save") # <<>> /\ Head(Append(c.chain, "save")) = Head(c.chain)
    BY <2>1, Added
  <2> QED BY <2>2
<1>4. \A b \in DOMAIN d.building : Owned(d.building[b].uid, c.m)
  BY <1>1
<1> HIDE DEF c, d
<1>5. mounts'[i] = d /\ mounts[i] = c
  BY DEF c, d
<1> QED BY <1>1, <1>2, <1>3, <1>4, <1>5 DEF Goes

\* What goes on with the message of a composer that is at work is that composer, or it was left behind.
LEMMA AloneIs ==
  ASSUME IInv, Grows, NEW i \in DOMAIN mounts, Active(i),
         \A j \in DOMAIN mounts : mounts'[j].m = mounts[j].m,
         \A j \in DOMAIN mounts : j # i /\ (j = cur' \/ AtWork(mounts'[j])) => Active(j) \/ "left" \in cause'[mounts[j].m],
         i = cur' \/ AtWork(mounts'[i]) => "left" \in cause'[mounts[i].m],
         \A o \in DOMAIN outbox : outbox'[o] = outbox[o]
  PROVE  Alone(mounts[i].m)
<1>1. PICK m \in Messages : m = mounts[i].m
  BY RowHas
<1>2. /\ Left(m) => "left" \in cause'[m]
      /\ Doubtful(m) => "left" \in cause'[m] \/ "unsure" \in cause'[m]
  BY GrownCauses
<1>3. \A j \in DOMAIN mounts : mounts[j].m = m /\ Active(j) => j = i \/ Left(m)
  BY <1>1, Parts DEF ActiveInv
<1>4. \A o \in DOMAIN outbox : outbox[o].m = m /\ Pending(o) => Left(m)
  BY <1>1, Parts DEF ActiveInv
<1>5. \A s \in DOMAIN sent : sent[s].m = m => Doubtful(m)
  BY <1>1, Parts DEF SendInv
<1> QED BY <1>1, <1>2, <1>3, <1>4, <1>5 DEF Alone, Pending

LEMMA DiscardKeeps ==
  ASSUME IInv, Discard
  PROVE  IInv'
<1>1. cur # 0 /\ cur \in DOMAIN mounts /\ cur' = 0 /\ ~away /\ dropped' = dropped \cup {mounts[cur].m}
  BY Parts, CurIs DEF Discard, Quiet
<1>2. PICK c \in MountRow : c = mounts[cur]
  BY <1>1, RowHas
<1>3. PICK d : d = [c EXCEPT !.fin = TRUE]
  OBVIOUS
<1>4. d \in MountRow
  BY <1>3 DEF MountRow
<1>5. /\ d.key = c.key /\ d.m = c.m /\ d.text = c.text /\ d.uid = c.uid /\ d.last = c.last /\ d.fin = TRUE
      /\ d.building = c.building /\ d.pressed = c.pressed /\ d.chain = c.chain /\ d.req = c.req
  BY <1>3 DEF MountRow
<1>6. PICK n : n = [mounts EXCEPT ![cur] = d]
  OBVIOUS
<1>7. /\ n \in Seq(MountRow) /\ Len(n) = Len(mounts) /\ DOMAIN n = DOMAIN mounts /\ n[cur] = d
      /\ \A j \in DOMAIN mounts : j # cur => n[j] = mounts[j]
  BY <1>1, <1>4, <1>6, Parts, Put DEF TypeInv
<1>8. mounts' = Unmounted(n, 0) /\ cause' = Marked(LeftBehind(mounts))
  BY <1>2, <1>3, <1>6 DEF Discard
<1>9. /\ mounts' \in Seq(MountRow) /\ Len(mounts') = Len(mounts)
      /\ \A j \in DOMAIN mounts : j # cur => mounts'[j] = n[j]
      /\ mounts'[cur].key = n[cur].key /\ mounts'[cur].m = n[cur].m /\ mounts'[cur].text = n[cur].text
      /\ mounts'[cur].last = n[cur].last /\ mounts'[cur].uid = n[cur].uid /\ mounts'[cur].req = n[cur].req
      /\ mounts'[cur].pressed = n[cur].pressed /\ mounts'[cur].building = n[cur].building
      /\ mounts'[cur].chain = n[cur].chain
  BY <1>1, <1>5, <1>7, <1>8, Parts, UnmountedIs
<1>10. Grows
  BY <1>8, Parts, MarkedIs
<1>11. \A j \in DOMAIN mounts : j # cur => Goes(j)
  BY <1>1, <1>7, <1>9, <1>10, RowHas, Stands
<1>12. AtWork(c) => "left" \in cause'[c.m]
  <2>1. AtWork(c) => <<c.m, "left">> \in LeftBehind(mounts)
    BY <1>1, <1>2 DEF LeftBehind
  <2>2. c.m \in Messages
    BY DEF MountRow
  <2> QED BY <1>8, <2>1, <2>2, Parts, MarkedIs, CausesAre
<1>13. mounts'[cur] \in MountRow
  BY <1>1, <1>9, LenProperties, ElementOfSeq, Parts DEF TypeInv
<1>14. Goes(cur)
  BY <1>1, <1>2, <1>5, <1>7, <1>9, <1>10, <1>12, <1>13, GivesWay DEF AtWork
<1>15. UNCHANGED <<outbox, reqs, folder, sent, away, typed>>
  BY DEF Discard, tab
<1>16. 0 \in 0..Len(mounts)
  BY Parts, LenProperties DEF TypeInv
<1>17. Tab
  BY <1>1, <1>9, <1>10, <1>11, <1>14, <1>15, <1>16 DEF Tab
<1> QED BY <1>17, TabKeeps

\* The body is built: the composer closes, and the call has its message.
LEMMA QueueSendKeeps ==
  ASSUME IInv, NEW i \in DOMAIN mounts, QueueSend(i)
  PROVE  IInv'
<1>1. PICK c \in MountRow : c = mounts[i]
  BY RowHas
<1>2. /\ c.building # <<>> /\ ~away /\ c.m \in Messages /\ i # 0
      /\ UNCHANGED <<reqs, folder, sent, away, typed, dropped>>
  BY <1>1, RowHas DEF QueueSend, Quiet, tab
<1>3. PICK b : b = Head(c.building)
  OBVIOUS
<1>4. PICK q : q = Tail(c.building)
  OBVIOUS
<1>5. /\ 1 \in DOMAIN c.building /\ b = c.building[1] /\ b \in BodyRow /\ q \in Seq(BodyRow)
      /\ \A k \in DOMAIN q : \E l \in DOMAIN c.building : q[k] = c.building[l]
  <2>1. c.building \in Seq(BodyRow) /\ c.building # <<>>
    BY <1>2 DEF MountRow
  <2>2. /\ q \in Seq(BodyRow) /\ b = c.building[1] /\ 1 \in DOMAIN c.building
        /\ \A j \in DOMAIN q : j + 1 \in DOMAIN c.building /\ q[j] = c.building[j + 1]
    BY <1>3, <1>4, <2>1, TailIs
  <2>3. b \in BodyRow
    BY <2>1, <2>2, LenProperties, ElementOfSeq
  <2> QED BY <2>2, <2>3
<1>6. PICK d : d = [c EXCEPT !.fin = TRUE, !.building = q]
  OBVIOUS
<1>7. d \in MountRow
  BY <1>5, <1>6 DEF MountRow
<1>8. /\ d.key = c.key /\ d.m = c.m /\ d.text = c.text /\ d.uid = c.uid /\ d.last = c.last /\ d.fin = TRUE
      /\ d.building = q /\ d.pressed = c.pressed /\ d.chain = c.chain /\ d.req = c.req
  BY <1>6 DEF MountRow
<1>9. PICK n : n = [mounts EXCEPT ![i] = d]
  OBVIOUS
<1>10. /\ n \in Seq(MountRow) /\ Len(n) = Len(mounts) /\ DOMAIN n = DOMAIN mounts /\ n[i] = d
       /\ \A j \in DOMAIN mounts : j # i => n[j] = mounts[j]
  BY <1>7, <1>9, Parts, Put DEF TypeInv
<1>11. PICK row : row = [m |-> c.m, text |-> b.text, att |-> (b.att \ {0}) \cup (c.att \cap {0}),
                         uid |-> b.uid, rtext |-> c.text, ratt |-> c.att, at |-> "window", req |-> 0]
  OBVIOUS
<1>12. row \in OutRow
  <2>1. (b.att \ {0}) \cup (c.att \cap {0}) \in SUBSET Nat
    BY <1>5 DEF BodyRow, MountRow
  <2> QED BY <1>2, <1>5, <1>11, <2>1 DEF OutRow, BodyRow, MountRow
<1>13. /\ row.m = c.m /\ row.text = b.text /\ row.uid = b.uid /\ row.rtext = c.text /\ row.at = "window"
  BY <1>11
<1>14. outbox' = Append(outbox, row) /\ n = [mounts EXCEPT ![i].fin = TRUE, ![i].building = Tail(@)]
  <2>1. outbox' = Append(outbox, row)
    BY <1>1, <1>3, <1>11 DEF QueueSend
  <2>2. n = [mounts EXCEPT ![i].fin = TRUE, ![i].building = Tail(@)]
    BY <1>1, <1>4, <1>6, <1>9
  <2> QED BY <2>1, <2>2
<1>15. /\ outbox' \in Seq(OutRow) /\ Len(outbox') = Len(outbox) + 1 /\ outbox'[Len(outbox) + 1] = row
       /\ Len(outbox) + 1 \in DOMAIN outbox' \ DOMAIN outbox
       /\ \A o \in DOMAIN outbox : outbox'[o] = outbox[o]
  <2>1. outbox \in Seq(OutRow) /\ Len(outbox) \in Nat /\ DOMAIN outbox = 1..Len(outbox)
    BY Parts, LenProperties DEF TypeInv
  <2> QED BY <1>12, <1>14, <2>1, Added
<1>16. Taken(c.m)
  BY <1>13, <1>15 DEF Taken
<1>17. \A o \in DOMAIN outbox : OutGoes(o)
  BY <1>15 DEF OutGoes, Pending
<1>18. Grows
  <2>1. \E marks : cause' = Marked(marks)
    BY DEF QueueSend
  <2> QED BY <2>1, Parts, MarkedIs
<1>19. Active(i)
  BY <1>1, <1>2 DEF Active, AtWork
<1>20. Alone(c.m) => OutComes(Len(outbox) + 1)
  <2>1. Owned(b.uid, c.m) /\ b.text <= typed[c.m] /\ c.text <= typed[c.m]
    BY <1>1, <1>5, RowHas, Parts DEF TextInv
  <2>2. Lost(c.m) \/ HoldsNewest(i)
    BY <1>1, <1>19, RowHas
  <2>3. HoldsNewest(i) => b.text = typed[c.m] /\ c.text = typed[c.m]
    BY <1>1, <1>5 DEF HoldsNewest
  <2>4. Lost(c.m) => cause'[c.m] \cap MayLose # {}
    BY <1>2, <1>18, GrownCauses
  <2>5. \E k \in DOMAIN mounts : mounts[k].m = c.m
    BY <1>1
  <2> QED BY <1>13, <1>15, <2>1, <2>2, <2>3, <2>4, <2>5 DEF OutComes
<1>21. Left(c.m) => "left" \in cause'[c.m] /\ Alone(c.m)
  BY <1>2, <1>18, GrownCauses DEF Alone
<1>22. i = cur \/ Left(c.m)
  BY <1>1, <1>2, SendsAreLeft
<1>23. /\ Len(mounts) \in Nat /\ Len(outbox) \in Nat /\ 0 \in 0..Len(mounts) /\ cur \in 0..Len(mounts)
       /\ Len(mounts) # Len(mounts) + 1
  BY Parts, LenProperties DEF TypeInv
<1>24. cur # 0 => cur \in DOMAIN mounts /\ ~mounts[cur].fin
  BY Parts, CurIs DEF LinkInv
<1>25. CASE ~OnScreen(c.key)
  <2>1. mounts' = n /\ cur' = cur /\ i # cur /\ Left(c.m)
    <3>1. i # cur
      BY <1>1, <1>2, <1>25 DEF OnScreen
    <3> QED BY <1>1, <1>14, <1>22, <1>25, <3>1 DEF QueueSend
  <2>2. Goes(i)
    BY <1>1, <1>5, <1>8, <1>10, <1>18, <2>1, LeftGoes
  <2>3. \A j \in DOMAIN mounts : j # i => Goes(j)
    BY <1>10, <1>18, <2>1, Stands
  <2>4. cur' # 0 => ~mounts'[cur'].fin
    BY <1>10, <1>24, <2>1
  <2>5. OutComes(Len(outbox) + 1)
    BY <1>20, <1>21, <2>1
  <2>6. Turn
    BY <1>2, <1>10, <1>15, <1>17, <1>18, <1>23, <2>1, <2>2, <2>3, <2>4, <2>5 DEF Turn
  <2> QED BY <2>6, TurnKeeps
<1>26. CASE OnScreen(c.key)
  <2>1. /\ mounts' = Unmounted(n, 0) /\ cur' = 0 /\ cause' = Marked(LeftBehind(n))
        /\ cur # 0 /\ cur \in DOMAIN mounts /\ mounts[cur].key = c.key
    BY <1>1, <1>14, <1>24, <1>26 DEF QueueSend, OnScreen
  <2>2. /\ mounts' \in Seq(MountRow) /\ Len(mounts') = Len(mounts)
        /\ \A j \in DOMAIN mounts : j # cur => mounts'[j] = n[j]
        /\ mounts'[cur].key = n[cur].key /\ mounts'[cur].m = n[cur].m /\ mounts'[cur].text = n[cur].text
        /\ mounts'[cur].last = n[cur].last /\ mounts'[cur].uid = n[cur].uid /\ mounts'[cur].req = n[cur].req
        /\ mounts'[cur].pressed = n[cur].pressed /\ mounts'[cur].building = n[cur].building
        /\ n[cur].fin => mounts'[cur].chain = n[cur].chain
        /\ mounts'[cur].chain = n[cur].chain \/ mounts'[cur].chain = Append(n[cur].chain, "save")
    <3>1. PICK u : u = Unmounted(n, 0)
      OBVIOUS
    <3>2. 0 \in Nat /\ n \in Seq(MountRow) /\ Len(n) = Len(mounts) /\ TypeInv
      BY <1>10, Parts
    <3>3. /\ u \in Seq(MountRow) /\ Len(u) = Len(n)
          /\ \A j \in DOMAIN n : j # cur => u[j] = n[j]
          /\ cur # 0 => LET e == n[cur]
                            f == u[cur]
                        IN  /\ f.key = e.key /\ f.m = e.m /\ f.text = e.text /\ f.att = e.att /\ f.last = e.last
                            /\ f.uid = e.uid /\ f.fin = e.fin /\ f.req = e.req /\ f.pressed = e.pressed
                            /\ f.building = e.building
                            /\ f.chain = IF e.fin \/ e.key = 0 THEN e.chain ELSE Append(e.chain, "save")
      BY <3>1, <3>2, UnmountedIs
    <3>4. u = mounts'
      BY <2>1, <3>1
    <3> QED BY <1>10, <2>1, <3>3, <3>4
  <2>3. \A j \in DOMAIN mounts : j # i /\ j # cur => mounts'[j] = mounts[j] /\ j # 0 /\ Goes(j)
    <3>1. \A j \in DOMAIN mounts : j # i /\ j # cur => mounts'[j] = mounts[j] /\ j # 0
      BY <1>10, <2>2, RowHas
    <3> QED BY <1>18, <2>1, <3>1, Stands
  <2>4. mounts'[cur] \in MountRow
    BY <2>1, <2>2, LenProperties, ElementOfSeq, Parts DEF TypeInv
  <2>5. CASE i = cur
    <3>1. /\ mounts'[cur].key = c.key /\ mounts'[cur].m = c.m /\ mounts'[cur].text = c.text /\ mounts'[cur].uid = c.uid
          /\ mounts'[cur].last = c.last /\ mounts'[cur].building = q /\ mounts'[cur].pressed = c.pressed
          /\ mounts'[cur].chain = c.chain /\ mounts'[cur].req = c.req
      BY <1>8, <1>10, <2>2, <2>5
    <3>2. c.chain # <<>> \/ c.pressed > 0 \/ q # <<>> => "left" \in cause'[c.m]
      <4>1. c.chain # <<>> \/ c.pressed > 0 \/ q # <<>> => <<c.m, "left">> \in LeftBehind(n)
        BY <1>8, <1>10, <2>1, <2>5 DEF LeftBehind, AtWork
      <4> QED BY <1>2, <2>1, <4>1, Parts, MarkedIs, CausesAre
    <3>3. Goes(cur)
      BY <1>1, <1>5, <1>16, <1>18, <2>1, <2>4, <2>5, <3>1, <3>2, GivesWay
    <3>4. \A j \in DOMAIN mounts : mounts'[j].m = mounts[j].m
      BY <1>1, <2>3, <2>5, <3>1
    <3>5. \A j \in DOMAIN mounts : j # i /\ (j = cur' \/ AtWork(mounts'[j])) => Active(j)
      BY <2>1, <2>3, <2>5 DEF Active
    <3>6. i = cur' \/ AtWork(mounts'[i]) => "left" \in cause'[mounts[i].m]
      BY <1>1, <1>2, <2>1, <2>5, <3>1, <3>2 DEF AtWork
    <3>7. Alone(c.m)
      BY <1>1, <1>15, <1>18, <1>19, <3>4, <3>5, <3>6, AloneIs
    <3>8. \A j \in DOMAIN mounts : Goes(j)
      BY <2>3, <2>5, <3>3
    <3>9. OutComes(Len(outbox) + 1)
      BY <1>20, <3>7
    <3>10. Turn
      BY <1>2, <1>15, <1>17, <1>18, <1>23, <2>1, <2>2, <3>8, <3>9 DEF Turn
    <3> QED BY <3>10, TurnKeeps
  <2>6. CASE i # cur
    <3>1. Left(c.m) /\ mounts[cur].m = c.m
      BY <1>1, <1>22, <2>1, <2>6, Parts DEF LinkInv
    <3>2. Goes(i)
      <4>1. mounts'[i] = d
        BY <1>10, <2>2, <2>6
      <4> QED BY <1>1, <1>5, <1>8, <1>18, <3>1, <4>1, LeftGoes
    <3>3. Goes(cur)
      <4>1. n[cur] = mounts[cur]
        BY <1>10, <2>1, <2>6
      <4> QED BY <1>18, <2>1, <2>2, <3>1, <4>1, LeftGoes
    <3>4. \A j \in DOMAIN mounts : Goes(j)
      BY <2>3, <3>2, <3>3
    <3>5. OutComes(Len(outbox) + 1)
      BY <1>20, <1>21, <3>1
    <3>6. Turn
      BY <1>2, <1>15, <1>17, <1>18, <1>23, <2>1, <2>2, <3>4, <3>5 DEF Turn
    <3> QED BY <3>6, TurnKeeps
  <2> QED BY <2>5, <2>6
<1> QED BY <1>25, <1>26

\* Nothing that goes on has the message, of the composers and of the calls of queueSend() after the step.
Free(m) ==
  /\ \A j \in DOMAIN mounts : mounts[j].m = m /\ Active(j) => Left(m)
  /\ \A o \in DOMAIN outbox : outbox[o].m = m /\ outbox'[o].at \in {"window", "posted", "toast"} => Left(m)
  /\ \A s \in DOMAIN sent : sent[s].m = m => Doubtful(m)

Reopened(o, m) ==
  LET p == outbox[o]
      q == outbox'[o] IN
  /\ p.m = m /\ p.at \in {"window", "toast"} /\ q.at \in {"undone", "edited"}
  /\ q.m = p.m /\ q.text = p.text /\ q.uid = p.uid /\ q.rtext = p.rtext /\ q.req = p.req

\* A composer is mounted, with the newest version of its message or one that something befell.
LEMMA MountKeeps ==
  ASSUME IInv, NEW c \in MountRow, Mount(c), ~away,
         c.chain = <<>>, c.req = 0, c.building = <<>>, c.fin = FALSE, c.last[1] = c.text,
         Owned(c.uid, c.m), c.text <= typed[c.m], Lost(c.m) \/ c.text = typed[c.m],
         \/ c.key = Len(mounts) + 1 /\ Free(c.m)
         \/ cur # 0 /\ c.key = mounts[cur].key /\ c.m = mounts[cur].m /\ outbox' = outbox,
         outbox' \in Seq(OutRow), Len(outbox') = Len(outbox),
         \A o \in DOMAIN outbox : outbox'[o] = outbox[o] \/ Reopened(o, c.m),
         UNCHANGED <<reqs, folder, sent, away, typed, dropped>>
  PROVE  IInv'
<1> DEFINE n == Len(mounts) + 1
<1>1. /\ mounts \in Seq(MountRow) /\ Len(mounts) \in Nat /\ DOMAIN mounts = 1..Len(mounts) /\ cur \in 0..Len(mounts)
      /\ n \notin DOMAIN mounts /\ n # cur /\ n # 0 /\ Len(outbox) \in Nat /\ c.m \in Messages /\ c.key \in Nat
  BY Parts, LenProperties DEF TypeInv, MountRow
<1>2. PICK u : u = Unmounted(mounts, c.key)
  OBVIOUS
<1>3. /\ u \in Seq(MountRow) /\ Len(u) = Len(mounts) /\ DOMAIN u = DOMAIN mounts
      /\ \A j \in DOMAIN mounts : j # cur => u[j] = mounts[j]
      /\ cur # 0 => LET e == mounts[cur]
                        f == u[cur]
                    IN  /\ f.key = e.key /\ f.m = e.m /\ f.text = e.text /\ f.att = e.att /\ f.last = e.last
                        /\ f.uid = e.uid /\ f.fin = e.fin /\ f.req = e.req /\ f.pressed = e.pressed
                        /\ f.building = e.building
                        /\ f.chain = IF e.fin \/ e.key = c.key THEN e.chain ELSE Append(e.chain, "save")
  <2>1. /\ u \in Seq(MountRow) /\ Len(u) = Len(mounts)
        /\ \A j \in DOMAIN mounts : j # cur => u[j] = mounts[j]
        /\ cur # 0 => LET e == mounts[cur]
                          f == u[cur]
                      IN  /\ f.key = e.key /\ f.m = e.m /\ f.text = e.text /\ f.att = e.att /\ f.last = e.last
                          /\ f.uid = e.uid /\ f.fin = e.fin /\ f.req = e.req /\ f.pressed = e.pressed
                          /\ f.building = e.building
                          /\ f.chain = IF e.fin \/ e.key = c.key THEN e.chain ELSE Append(e.chain, "save")
    BY <1>1, <1>2, Parts, UnmountedIs
  <2> QED BY <1>1, <2>1, LenProperties
<1>4. /\ mounts' \in Seq(MountRow) /\ Len(mounts') = n /\ mounts'[n] = c /\ DOMAIN mounts' = DOMAIN mounts \cup {n}
      /\ \A j \in DOMAIN mounts : mounts'[j] = u[j]
  <2>1. mounts' = Append(u, c)
    BY <1>2 DEF Mount
  <2> QED BY <1>3, <2>1, Added
<1>5. cur' = n
  BY DEF Mount
<1>6. PICK marks : /\ cause' = Marked(marks) /\ LeftBehind(mounts) \subseteq marks
                   /\ c.text > 0 /\ ~Drafted(c.m, c.text) => <<c.m, "remount">> \in marks
  BY DEF Mount
<1>7. Grows /\ \A m \in Messages, w \in Causes : <<m, w>> \in marks => w \in cause'[m]
  BY <1>6, Parts, MarkedIs
<1>8. cur # 0 => cur \in DOMAIN mounts /\ ~mounts[cur].fin /\ mounts[cur].m \in Messages /\ mounts[cur].key \in 1..cur
  BY Parts, CurIs, MountIs DEF LinkInv
<1>9. cur # 0 /\ AtWork(mounts[cur]) => "left" \in cause'[mounts[cur].m]
  <2>1. cur # 0 /\ AtWork(mounts[cur]) => <<mounts[cur].m, "left">> \in marks
    BY <1>6 DEF LeftBehind
  <2> QED BY <1>7, <1>8, <2>1, CausesAre
<1>10. cur # 0 /\ c.key = mounts[cur].key => c.m = mounts[cur].m /\ Taken(mounts[cur].m)
  <2>1. cur # 0 /\ c.key = mounts[cur].key => c.m = mounts[cur].m
    BY <1>1, <1>8
  <2>2. Taken(c.m)
    BY <1>1, <1>4 DEF Taken
  <2> QED BY <2>1, <2>2
<1> HIDE DEF n
<1>11. \A j \in DOMAIN mounts : j # cur => Goes(j)
  BY <1>1, <1>3, <1>4, <1>5, <1>7, Stands
<1>12. cur # 0 => Goes(cur)
  <2>1. SUFFICES ASSUME cur # 0 PROVE Goes(cur)
    OBVIOUS
  <2>2. mounts'[cur] \in MountRow /\ mounts'[cur] = u[cur]
    BY <1>1, <1>3, <1>4, <1>8, <2>1, LenProperties, ElementOfSeq
  <2>3. \/ u[cur].chain = mounts[cur].chain /\ Taken(mounts[cur].m)
        \/ u[cur].chain = Append(mounts[cur].chain, "save")
    BY <1>3, <1>8, <1>10, <2>1
  <2>4. cur' # cur
    BY <1>1, <1>5
  <2>5. mounts[cur].chain # <<>> \/ mounts[cur].pressed > 0 \/ u[cur].building # <<>> => "left" \in cause'[mounts[cur].m]
    BY <1>3, <1>9, <2>1 DEF AtWork
  <2> QED BY <1>3, <1>7, <2>1, <2>2, <2>3, <2>4, <2>5, GivesWay
<1>13. \A j \in DOMAIN mounts : Goes(j) /\ mounts'[j].m = mounts[j].m
  <2>1. \A j \in DOMAIN mounts : Goes(j)
    BY <1>1, <1>11, <1>12
  <2> QED BY <2>1 DEF Goes
<1>14. \A j \in DOMAIN mounts : j # cur /\ (j = cur' \/ AtWork(mounts'[j])) => Active(j)
  BY <1>1, <1>3, <1>4, <1>5 DEF Active
<1>15. Alone(c.m)
  <2>1. /\ Left(c.m) => "left" \in cause'[c.m]
        /\ Doubtful(c.m) => "left" \in cause'[c.m] \/ "unsure" \in cause'[c.m]
    BY <1>1, <1>7, GrownCauses
  <2>2. CASE Free(c.m)
    <3>1. \A j \in DOMAIN mounts : mounts[j].m = c.m /\ (j = cur' \/ AtWork(mounts'[j])) => "left" \in cause'[c.m]
      BY <1>14, <2>1, <2>2 DEF Free, Active
    <3> QED BY <2>1, <2>2, <3>1 DEF Free, Alone
  <2>3. CASE cur # 0 /\ c.key = mounts[cur].key /\ c.m = mounts[cur].m /\ outbox' = outbox
    <3>1. cur \in DOMAIN mounts /\ Active(cur)
      BY <1>8, <2>3 DEF Active
    <3>2. AtWork(mounts'[cur]) => AtWork(mounts[cur])
      BY <1>3, <1>4, <1>8, <2>3 DEF AtWork
    <3>3. cur = cur' \/ AtWork(mounts'[cur]) => "left" \in cause'[mounts[cur].m]
      BY <1>1, <1>5, <1>9, <2>3, <3>2
    <3> QED BY <1>7, <1>13, <1>14, <2>3, <3>1, <3>3, AloneIs
  <2> QED BY <2>2, <2>3
<1>16. Comes(n)
  <2>1. cause'[c.m] \cap MayLose # {} \/ (c.text = typed[c.m] /\ (c.last[1] = typed[c.m] => Safe(c.m)))
    <3>1. Lost(c.m) => cause'[c.m] \cap MayLose # {}
      BY <1>1, <1>7, GrownCauses
    <3>2. c.text > 0 /\ ~Drafted(c.m, c.text) => "remount" \in cause'[c.m]
      BY <1>1, <1>6, <1>7, CausesAre
    <3>3. "remount" \in cause'[c.m] => cause'[c.m] \cap MayLose # {}
      BY DEF MayLose
    <3>4. c.text \in Nat
      BY DEF MountRow
    <3>5. c.text = typed[c.m] /\ (c.text = 0 \/ Drafted(c.m, c.text)) => Safe(c.m)
      BY DEF Safe, Drafted
    <3> QED BY <3>1, <3>2, <3>3, <3>4, <3>5
  <2>2. c.key = n \/ \E k \in DOMAIN mounts : c.key = mounts[k].key /\ c.m = mounts[k].m
    BY <1>8 DEF n
  <2>3. n = cur'
    BY <1>5
  <2> QED BY <1>4, <1>15, <2>1, <2>2, <2>3 DEF Comes
<1>17. \A o \in DOMAIN outbox : OutGoes(o)
  <2>1. Taken(c.m)
    BY <1>1, <1>4 DEF Taken
  <2> QED BY <2>1 DEF OutGoes, Pending, Reopened
<1>18. cur' \in 0..Len(mounts') /\ ~mounts'[cur'].fin /\ dropped \subseteq dropped'
  BY <1>1, <1>4, <1>5 DEF n
<1>19. Len(outbox) # Len(outbox) + 1 /\ n = Len(mounts) + 1
  BY <1>1 DEF n
<1>20. Turn
  BY <1>4, <1>7, <1>13, <1>16, <1>17, <1>18, <1>19 DEF Turn
<1> QED BY <1>20, TurnKeeps

\* A message is opened for the first time.
LEMMA OpenKeeps ==
  ASSUME IInv, NEW m \in Messages, Open(m)
  PROVE  IInv'
<1>1. PICK c : c = Composed(m, Len(mounts) + 1, 0, {}, 0)
  OBVIOUS
<1>2. Len(mounts) \in Nat
  BY Parts, LenProperties DEF TypeInv
<1>3. /\ c.key = Len(mounts) + 1 /\ c.m = m /\ c.text = 0 /\ c.last = <<0, {}>> /\ c.uid = 0 /\ c.fin = FALSE
      /\ c.chain = <<>> /\ c.req = 0 /\ c.building = <<>>
  BY <1>1 DEF Composed
<1>4. c \in MountRow
  BY <1>1, <1>2 DEF Composed, MountRow
<1>5. typed[m] = 0 /\ (\A o \in DOMAIN outbox : outbox[o].m # m) /\ (\A s \in DOMAIN sent : sent[s].m # m)
  BY Parts DEF Open, NewInv
<1>6. Free(m)
  BY <1>5 DEF Open, Free
<1>7. Owned(c.uid, m)
  BY <1>3, Parts DEF Owned, TypeInv, DraftRow
<1>8. outbox' = outbox /\ outbox \in Seq(OutRow) /\ ~away /\ UNCHANGED <<reqs, folder, sent, away, typed, dropped>>
  BY Parts DEF Open, Quiet, tab, TypeInv
<1>9. Mount(c)
  BY <1>1 DEF Open
<1>10. c.text <= typed[c.m] /\ c.text = typed[c.m] /\ c.last[1] = c.text
  BY <1>3, <1>5
<1> QED BY <1>3, <1>4, <1>6, <1>7, <1>8, <1>9, <1>10, MountKeeps

\* The composer on screen is mounted again elsewhere, under its key.
LEMMA MoveKeeps ==
  ASSUME IInv, Move
  PROVE  IInv'
<1>1. cur # 0 /\ cur \in DOMAIN mounts
  BY Parts, CurIs DEF Move
<1>2. PICK b \in MountRow : b = mounts[cur]
  BY <1>1, RowHas
<1>3. PICK c : c = Composed(b.m, b.key, b.text, b.att, b.uid)
  OBVIOUS
<1>4. /\ c.key = b.key /\ c.m = b.m /\ c.text = b.text /\ c.last = <<b.text, b.att>> /\ c.uid = b.uid /\ c.fin = FALSE
      /\ c.chain = <<>> /\ c.req = 0 /\ c.building = <<>>
  BY <1>3 DEF Composed
<1>5. c \in MountRow
  BY <1>3 DEF Composed, MountRow
<1>6. Owned(b.uid, b.m) /\ b.text <= typed[b.m] /\ (Lost(b.m) \/ b.text = typed[b.m])
  <2>1. Owned(b.uid, b.m) /\ b.text <= typed[b.m]
    BY <1>1, <1>2, RowHas
  <2>2. Lost(b.m) \/ HoldsNewest(cur)
    BY <1>1, <1>2, RowHas DEF Active
  <2>3. HoldsNewest(cur) => b.text = typed[b.m]
    BY <1>2 DEF HoldsNewest
  <2> QED BY <2>1, <2>2, <2>3
<1>7. outbox' = outbox /\ outbox \in Seq(OutRow) /\ ~away /\ UNCHANGED <<reqs, folder, sent, away, typed, dropped>>
  BY Parts DEF Move, Quiet, tab, TypeInv
<1>8. Mount(c)
  BY <1>2, <1>3 DEF Move
<1>9. c.last[1] = c.text
  BY <1>4
<1> QED BY <1>1, <1>2, <1>4, <1>5, <1>6, <1>7, <1>8, <1>9, MountKeeps

\* Undo, and "Edit message" in the toast.
LEMMA ReopenKeeps ==
  ASSUME IInv, NEW o \in DOMAIN outbox, NEW from \in {"window", "toast"}, NEW to \in {"undone", "edited"},
         Reopen(o, from, to)
  PROVE  IInv'
<1>1. PICK p \in OutRow : p = outbox[o]
  BY Parts, OutIs
<1>2. PICK q : q = [p EXCEPT !.at = to]
  OBVIOUS
<1>3. q \in OutRow
  BY <1>2 DEF OutRow
<1>4. q.m = p.m /\ q.text = p.text /\ q.uid = p.uid /\ q.rtext = p.rtext /\ q.req = p.req /\ q.at = to /\ p.at = from
  BY <1>1, <1>2 DEF Reopen, OutRow
<1>5. /\ outbox' \in Seq(OutRow) /\ Len(outbox') = Len(outbox) /\ outbox'[o] = q
      /\ \A x \in DOMAIN outbox : x # o => outbox'[x] = outbox[x]
  <2>1. outbox' = [outbox EXCEPT ![o] = q]
    BY <1>1, <1>2 DEF Reopen
  <2>2. outbox \in Seq(OutRow)
    BY Parts DEF TypeInv
  <2> QED BY <1>3, <2>1, <2>2, Put
<1>6. PICK c : c = Composed(p.m, Len(mounts) + 1, p.rtext, p.ratt, p.uid)
  OBVIOUS
<1>7. Len(mounts) \in Nat
  BY Parts, LenProperties DEF TypeInv
<1>8. /\ c.key = Len(mounts) + 1 /\ c.m = p.m /\ c.text = p.rtext /\ c.last = <<p.rtext, p.ratt>> /\ c.uid = p.uid
      /\ c.fin = FALSE /\ c.chain = <<>> /\ c.req = 0 /\ c.building = <<>>
  BY <1>6 DEF Composed
<1>9. c \in MountRow
  BY <1>6, <1>7 DEF Composed, MountRow, OutRow
<1>10. Owned(p.uid, p.m) /\ p.rtext <= typed[p.m] /\ (Lost(p.m) \/ p.rtext = typed[p.m])
  BY <1>1, <1>4, Parts DEF UidInv, TextInv, KeepInv, Pending
<1>11. Free(p.m)
  <2>1. Pending(o) /\ ~InHand(o)
    BY <1>1, <1>4 DEF Pending, InHand
  <2>2. \A j \in DOMAIN mounts : mounts[j].m = p.m /\ Active(j) => Left(p.m)
    BY <1>1, <2>1, Parts DEF ActiveInv
  <2>3. \A x \in DOMAIN outbox : outbox[x].m = p.m /\ outbox'[x].at \in {"window", "posted", "toast"} => Left(p.m)
    BY <1>1, <1>4, <1>5, <2>1, Parts DEF ActiveInv, Pending
  <2>4. \A s \in DOMAIN sent : sent[s].m = p.m => Doubtful(p.m)
    BY <1>1, <2>1, Parts DEF SendInv
  <2> QED BY <2>2, <2>3, <2>4 DEF Free
<1>12. \A x \in DOMAIN outbox : outbox'[x] = outbox[x] \/ Reopened(x, p.m)
  BY <1>1, <1>4, <1>5 DEF Reopened
<1>13. ~away /\ UNCHANGED <<reqs, folder, sent, away, typed, dropped>>
  BY DEF Reopen, Quiet, tab
<1>14. Mount(c)
  BY <1>1, <1>6 DEF Reopen
<1>15. c.last[1] = c.text
  BY <1>8
<1> QED BY <1>5, <1>8, <1>9, <1>10, <1>11, <1>12, <1>13, <1>14, <1>15, MountKeeps

\* Only one call of queueSend() goes on, to another stage.
LEMMA OutKeeps ==
  ASSUME IInv, NEW o \in DOMAIN outbox, NEW at, outbox' = [outbox EXCEPT ![o].at = at], Grows, ~away,
         at \in {"toast", "sent", "gone"}, Pending(o),
         LET p == outbox[o]
             doubtful == "left" \in cause'[p.m] \/ "unsure" \in cause'[p.m]
         IN  /\ p.at = "posted" => reqs[p.req].at \notin {"posted", "collected"} \/ doubtful
             /\ at = "toast" => doubtful \/ \A s \in DOMAIN sent : sent[s].m # p.m
             /\ at # "toast" => cause'[p.m] \cap MayLose # {} \/ Safe(p.m),
         UNCHANGED <<mounts, cur, reqs, folder, sent, away, typed, dropped>>
  PROVE  IInv'
<1>1. PICK p \in OutRow : p = outbox[o]
  BY Parts, OutIs
<1>2. PICK q : q = [p EXCEPT !.at = at]
  OBVIOUS
<1>3. q \in OutRow
  BY <1>2 DEF OutRow
<1>4. q.m = p.m /\ q.text = p.text /\ q.uid = p.uid /\ q.rtext = p.rtext /\ q.req = p.req /\ q.at = at
  BY <1>2 DEF OutRow
<1>5. /\ outbox' \in Seq(OutRow) /\ Len(outbox') = Len(outbox) /\ outbox'[o] = q
      /\ \A x \in DOMAIN outbox : x # o => outbox'[x] = outbox[x]
  <2>1. outbox' = [outbox EXCEPT ![o] = q]
    BY <1>1, <1>2
  <2>2. outbox \in Seq(OutRow)
    BY Parts DEF TypeInv
  <2> QED BY <1>3, <2>1, <2>2, Put
<1>6. \A x \in DOMAIN outbox : x # o => OutGoes(x)
  BY <1>5 DEF OutGoes, Pending
<1>7. OutGoes(o)
  BY <1>1, <1>4, <1>5 DEF OutGoes
<1>8. \A x \in DOMAIN outbox : OutGoes(x)
  BY <1>6, <1>7
<1>9. \A j \in DOMAIN mounts : Goes(j)
  BY Stands
<1>10. /\ mounts' \in Seq(MountRow) /\ Len(mounts') = Len(mounts) /\ cur' \in 0..Len(mounts')
       /\ Len(mounts) \in Nat /\ Len(outbox) \in Nat
  BY Parts, LenProperties DEF TypeInv
<1>11. cur' # 0 => ~mounts'[cur'].fin
  BY Parts DEF LinkInv
<1>12. Len(mounts') # Len(mounts) + 1 /\ Len(outbox') # Len(outbox) + 1
  <2>1. Len(mounts) # Len(mounts) + 1 /\ Len(outbox) # Len(outbox) + 1
    BY <1>10
  <2> QED BY <1>5, <1>10, <2>1
<1>13. Turn
  BY <1>5, <1>8, <1>9, <1>10, <1>11, <1>12 DEF Turn
<1> QED BY <1>13, TurnKeeps

LEMMA SettleKeeps ==
  ASSUME IInv, NEW o \in DOMAIN outbox, Settle(o)
  PROVE  IInv'
<1>1. PICK p \in OutRow : p = outbox[o]
  BY Parts, OutIs
<1>2. p.m \in Messages /\ p.at = "posted" /\ Pending(o)
  BY <1>1 DEF Settle, OutRow, Pending
<1>3. UNCHANGED <<mounts, cur, reqs, folder, sent, away, typed, dropped>> /\ ~away
  BY DEF Settle, Quiet, tab
<1>4. CASE reqs[p.req].at = "done" /\ outbox' = [outbox EXCEPT ![o].at = "sent"] /\ cause' = cause
  <2>1. Grows
    BY <1>4, Parts, StaysPut
  <2>2. /\ p.req \in DOMAIN reqs /\ reqs[p.req].kind = "send" /\ reqs[p.req].m = p.m /\ reqs[p.req].text = p.text
    BY <1>1, <1>2, Parts DEF LinkInv
  <2>3. \E s \in DOMAIN sent : sent[s] = [m |-> p.m, text |-> p.text]
    BY <1>4, <2>2, Parts DEF LinkInv
  <2>4. Lost(p.m) \/ p.text = typed[p.m]
    BY <1>1, <1>2, Parts DEF KeepInv
  <2>5. Lost(p.m) => cause'[p.m] \cap MayLose # {}
    BY <1>2, <2>1, GrownCauses
  <2>6. p.text = typed[p.m] => Safe(p.m)
    BY <2>3 DEF Safe
  <2> QED BY <1>1, <1>2, <1>3, <1>4, <2>1, <2>4, <2>5, <2>6, OutKeeps
<1>5. CASE reqs[p.req].at = "failed" /\ outbox' = [outbox EXCEPT ![o].at = "toast"] /\ cause' = cause
  <2>1. Grows
    BY <1>5, Parts, StaysPut
  <2>2. ~InHand(o)
    BY <1>1, <1>5 DEF InHand
  <2>3. \A s \in DOMAIN sent : sent[s].m = p.m => Doubtful(p.m)
    BY <1>1, <1>2, <2>2, Parts DEF SendInv
  <2>4. Doubtful(p.m) => "left" \in cause'[p.m] \/ "unsure" \in cause'[p.m]
    BY <1>2, <2>1, GrownCauses
  <2> QED BY <1>1, <1>2, <1>3, <1>5, <2>1, <2>3, <2>4, OutKeeps
<1>6. CASE outbox' = [outbox EXCEPT ![o].at = "toast"] /\ cause' = Marked({<<p.m, "unsure">>})
  <2>1. Grows /\ "unsure" \in cause'[p.m]
    BY <1>2, <1>6, Parts, MarkedIs, CausesAre
  <2> QED BY <1>1, <1>2, <1>3, <1>6, <2>1, OutKeeps
<1> QED BY <1>1, <1>4, <1>5, <1>6 DEF Settle

LEMMA ToastKeeps ==
  ASSUME IInv, NEW o \in DOMAIN outbox, ToastExpires(o)
  PROVE  IInv'
<1>1. PICK p \in OutRow : p = outbox[o]
  BY Parts, OutIs
<1>2. p.m \in Messages /\ p.at = "toast" /\ Pending(o)
  BY <1>1 DEF ToastExpires, OutRow, Pending
<1>3. UNCHANGED <<mounts, cur, reqs, folder, sent, away, typed, dropped>> /\ ~away
  BY DEF ToastExpires, Quiet, tab
<1>4. outbox' = [outbox EXCEPT ![o].at = "gone"] /\ cause' = Marked({<<p.m, "expired">>})
  BY <1>1 DEF ToastExpires
<1>5. Grows /\ "expired" \in cause'[p.m]
  BY <1>2, <1>4, Parts, MarkedIs, CausesAre
<1>6. cause'[p.m] \cap MayLose # {}
  BY <1>5 DEF MayLose
<1> QED BY <1>1, <1>2, <1>3, <1>4, <1>5, <1>6, OutKeeps

-----------------------------------------------------------------------------
(* Requests to the server.                                                  *)

\* A composer, or a call of queueSend(), waits for the request made in its name.
AsksFor(j, row) ==
  LET c == mounts[j]
      d == mounts'[j] IN
  /\ d.key = c.key /\ d.m = c.m /\ d.text = c.text /\ d.uid = c.uid /\ d.last = c.last /\ d.fin = c.fin
  /\ d.building = c.building /\ d.pressed = c.pressed /\ d.chain = c.chain
  /\ \/ d.req = c.req
     \/ d.req = Len(reqs) + 1 /\ c.chain # <<>> /\ row.kind = "save" /\ row.m = c.m /\ row.text = c.text

Sends(o, row) ==
  LET p == outbox[o]
      q == outbox'[o] IN
  /\ q.m = p.m /\ q.text = p.text /\ q.uid = p.uid /\ q.rtext = p.rtext
  /\ \/ q.at = p.at /\ q.req = p.req
     \/ /\ p.at = "window" /\ q.at = "posted" /\ q.req = Len(reqs) + 1
        /\ row.kind = "send" /\ row.m = p.m /\ row.text = p.text

LEMMA RequestKeeps ==
  ASSUME IInv, Grows, ~away, NEW row \in ReqRow, reqs' = Append(reqs, row), row.at = "posted", row.result = 0,
         Owned(row.uid, row.m), row.text <= typed[row.m], Lost(row.m) \/ row.text = typed[row.m],
         \E k \in DOMAIN mounts : mounts[k].m = row.m,
         mounts' \in Seq(MountRow), DOMAIN mounts' = DOMAIN mounts, \A j \in DOMAIN mounts : AsksFor(j, row),
         outbox' \in Seq(OutRow), DOMAIN outbox' = DOMAIN outbox, \A o \in DOMAIN outbox : Sends(o, row),
         row.kind = "send" => \E o \in DOMAIN outbox : outbox'[o].at = "posted" /\ outbox'[o].req = Len(reqs) + 1,
         UNCHANGED <<cur, folder, sent, away, typed, dropped>>
  PROVE  IInv'
<1> DEFINE M(j) == mounts[j].m
           n == Len(reqs) + 1
           Gone(m) == "left" \in cause'[m]
           LostNow(m) == cause'[m] \cap MayLose # {}
           DoubtNow(m) == Gone(m) \/ "unsure" \in cause'[m]
<1>1. /\ TypeInv /\ LinkInv /\ NewInv /\ UidInv /\ TextInv /\ ActiveInv /\ SendInv /\ KeepInv
      /\ UNCHANGED <<cur, drafts, nextUid, sent, away, typed, dropped>>
  BY DEF IInv, folder
<1>2. /\ reqs' \in Seq(ReqRow) /\ reqs'[n] = row /\ DOMAIN reqs' = DOMAIN reqs \cup {n} /\ n \notin DOMAIN reqs
      /\ \A r \in DOMAIN reqs : reqs'[r] = reqs[r]
  <2>1. reqs \in Seq(ReqRow) /\ Len(reqs) \in Nat /\ DOMAIN reqs = 1..Len(reqs)
    BY <1>1, LenProperties DEF TypeInv
  <2>2. n \notin DOMAIN reqs
    BY <2>1
  <2> QED BY <2>1, <2>2, Added
<1>3. \A j \in DOMAIN mounts :
        /\ mounts'[j].key = mounts[j].key /\ mounts'[j].m = M(j) /\ mounts'[j].text = mounts[j].text
        /\ mounts'[j].uid = mounts[j].uid /\ mounts'[j].last = mounts[j].last /\ mounts'[j].fin = mounts[j].fin
        /\ mounts'[j].building = mounts[j].building /\ mounts'[j].pressed = mounts[j].pressed
        /\ mounts'[j].chain = mounts[j].chain /\ M(j) \in Messages
        /\ \/ mounts'[j].req = mounts[j].req
           \/ mounts'[j].req = n /\ mounts[j].chain # <<>> /\ row.kind = "save" /\ row.m = M(j) /\ row.text = mounts[j].text
  BY <1>1, MountIs DEF AsksFor
<1>4. \A o \in DOMAIN outbox :
        /\ outbox'[o].m = outbox[o].m /\ outbox'[o].text = outbox[o].text /\ outbox'[o].uid = outbox[o].uid
        /\ outbox'[o].rtext = outbox[o].rtext /\ outbox[o].m \in Messages
        /\ \/ outbox'[o].at = outbox[o].at /\ outbox'[o].req = outbox[o].req
           \/ /\ outbox[o].at = "window" /\ outbox'[o].at = "posted" /\ outbox'[o].req = n
              /\ row.kind = "send" /\ row.m = outbox[o].m /\ row.text = outbox[o].text
  BY <1>1, OutIs DEF Sends
<1>5. \A m \in Messages : /\ Left(m) => Gone(m)
                          /\ Doubtful(m) => DoubtNow(m)
                          /\ Lost(m) => LostNow(m)
  BY <1>1, GrownCauses
<1>6. row.m \in Messages /\ row.kind \in {"save", "send"} /\ row.text \in Nat /\ row.uid \in Nat
  BY DEF ReqRow
<1>7. /\ \A i \in DOMAIN mounts : (Active(i))' <=> Active(i)
      /\ \A o \in DOMAIN outbox : (Pending(o))' <=> Pending(o)
  <2>1. \A i \in DOMAIN mounts : (Active(i))' <=> Active(i)
    BY <1>1, <1>3 DEF Active, AtWork
  <2>2. \A o \in DOMAIN outbox : (Pending(o))' <=> Pending(o)
    BY <1>4 DEF Pending
  <2> QED BY <2>1, <2>2
<1> HIDE DEF n
<1>8. TypeInv'
  BY <1>1, <1>2 DEF TypeInv, Grows
<1>9. LinkInv'
  <2>1. \A i \in DOMAIN mounts : mounts'[i].key \in 1..i
    BY <1>1, <1>3 DEF LinkInv
  <2>2. \A i, j \in DOMAIN mounts : mounts'[i].key = mounts'[j].key => mounts'[i].m = mounts'[j].m
    BY <1>1, <1>3 DEF LinkInv
  <2>3. cur # 0 => ~mounts'[cur].fin
    BY <1>1, <1>3, CurIs DEF LinkInv
  <2>4. \A i \in DOMAIN mounts : mounts'[i].req # 0 =>
          /\ mounts'[i].chain # <<>> /\ mounts'[i].req \in DOMAIN reqs'
          /\ reqs'[mounts'[i].req].kind = "save" /\ reqs'[mounts'[i].req].m = mounts'[i].m
    <3>1. \A i \in DOMAIN mounts : mounts[i].req # 0 =>
            /\ mounts[i].chain # <<>> /\ mounts[i].req \in DOMAIN reqs
            /\ reqs[mounts[i].req].kind = "save" /\ reqs[mounts[i].req].m = M(i)
      BY <1>1 DEF LinkInv
    <3> QED BY <1>2, <1>3, <3>1
  <2>5. \A o \in DOMAIN outbox : outbox'[o].at = "posted" =>
          /\ outbox'[o].req \in DOMAIN reqs' /\ reqs'[outbox'[o].req].kind = "send"
          /\ reqs'[outbox'[o].req].m = outbox'[o].m /\ reqs'[outbox'[o].req].text = outbox'[o].text
    <3>1. \A o \in DOMAIN outbox : outbox[o].at = "posted" =>
            /\ outbox[o].req \in DOMAIN reqs /\ reqs[outbox[o].req].kind = "send"
            /\ reqs[outbox[o].req].m = outbox[o].m /\ reqs[outbox[o].req].text = outbox[o].text
      BY <1>1 DEF LinkInv
    <3> QED BY <1>2, <1>4, <3>1
  <2>6. \A r \in DOMAIN reqs' : reqs'[r].kind = "send" /\ reqs'[r].at \in {"handed", "done"} =>
          \E i \in DOMAIN sent : sent[i] = [m |-> reqs'[r].m, text |-> reqs'[r].text]
    BY <1>1, <1>2 DEF LinkInv
  <2>7. \A r \in DOMAIN reqs' : reqs'[r].at = "handed" => reqs'[r].kind = "send"
    BY <1>1, <1>2 DEF LinkInv
  <2> QED BY <1>1, <2>1, <2>2, <2>3, <2>4, <2>5, <2>6, <2>7 DEF LinkInv
<1>10. NewInv'
  <2>1. SUFFICES ASSUME NEW m \in Messages, \A i \in DOMAIN mounts' : mounts'[i].m # m
                 PROVE  /\ typed'[m] = 0
                        /\ \A o \in DOMAIN outbox' : outbox'[o].m # m
                        /\ \A r \in DOMAIN reqs' : reqs'[r].m # m
                        /\ \A i \in DOMAIN sent' : sent'[i].m # m
    BY DEF NewInv
  <2>2. \A i \in DOMAIN mounts : M(i) # m
    BY <1>3, <2>1
  <2>3. /\ typed[m] = 0
        /\ \A o \in DOMAIN outbox : outbox[o].m # m
        /\ \A r \in DOMAIN reqs : reqs[r].m # m
        /\ \A i \in DOMAIN sent : sent[i].m # m
    BY <1>1, <2>2 DEF NewInv
  <2>4. row.m # m
    BY <2>2
  <2> QED BY <1>1, <1>2, <1>4, <2>3, <2>4
<1>11. UidInv'
  <2>1. Owned(0, row.m)
    BY <1>1 DEF Owned, TypeInv, DraftRow
  <2>2. \A r \in DOMAIN reqs' : Owned(reqs'[r].uid, reqs'[r].m) /\ Owned(reqs'[r].result, reqs'[r].m)
    BY <1>1, <1>2, <2>1 DEF UidInv
  <2>3. \A o \in DOMAIN outbox : Owned(outbox'[o].uid, outbox'[o].m)
    BY <1>1, <1>4 DEF UidInv
  <2>4. \A i \in DOMAIN mounts :
          /\ Owned(mounts'[i].uid, mounts'[i].m)
          /\ \A b \in DOMAIN mounts'[i].building : Owned(mounts'[i].building[b].uid, mounts'[i].m)
    BY <1>1, <1>3 DEF UidInv
  <2> QED BY <1>1, <2>2, <2>3, <2>4 DEF UidInv, Owned
<1>12. TextInv'
  <2>1. \A r \in DOMAIN reqs' : reqs'[r].text <= typed[reqs'[r].m]
    BY <1>1, <1>2 DEF TextInv
  <2>2. \A o \in DOMAIN outbox : outbox'[o].text <= typed[outbox'[o].m] /\ outbox'[o].rtext <= typed[outbox'[o].m]
    BY <1>1, <1>4 DEF TextInv
  <2>3. \A i \in DOMAIN mounts :
          /\ mounts'[i].text <= typed[mounts'[i].m] /\ mounts'[i].last[1] <= typed[mounts'[i].m]
          /\ \A b \in DOMAIN mounts'[i].building : mounts'[i].building[b].text <= typed[mounts'[i].m]
    BY <1>1, <1>3 DEF TextInv
  <2> QED BY <1>1, <2>1, <2>2, <2>3 DEF TextInv
<1>13. ActiveInv'
  <2>1. \A i, j \in DOMAIN mounts : M(i) = M(j) /\ Active(i) /\ Active(j) => i = j \/ Gone(M(i))
    BY <1>1, <1>3, <1>5 DEF ActiveInv
  <2>2. \A i \in DOMAIN mounts, o \in DOMAIN outbox : M(i) = outbox[o].m /\ Active(i) /\ Pending(o) => Gone(M(i))
    BY <1>1, <1>3, <1>5 DEF ActiveInv
  <2>3. \A o, p \in DOMAIN outbox : outbox[o].m = outbox[p].m /\ Pending(o) /\ Pending(p) => o = p \/ Gone(outbox[o].m)
    BY <1>1, <1>4, <1>5 DEF ActiveInv
  <2>4. \A j \in DOMAIN mounts : j # cur => Gone(M(j)) \/ OnlySaves(mounts'[j])
    BY <1>1, <1>3, <1>5 DEF ActiveInv, OnlySaves
  <2> HIDE DEF Gone
  <2>5. \A i, j \in DOMAIN mounts : mounts'[i].m = mounts'[j].m /\ (Active(i))' /\ (Active(j))' => i = j \/ Gone(mounts'[i].m)
    BY <1>3, <1>7, <2>1
  <2>6. \A i \in DOMAIN mounts, o \in DOMAIN outbox :
          mounts'[i].m = outbox'[o].m /\ (Active(i))' /\ (Pending(o))' => Gone(mounts'[i].m)
    BY <1>3, <1>4, <1>7, <2>2
  <2>7. \A o, p \in DOMAIN outbox :
          outbox'[o].m = outbox'[p].m /\ (Pending(o))' /\ (Pending(p))' => o = p \/ Gone(outbox'[o].m)
    BY <1>4, <1>7, <2>3
  <2>8. \A j \in DOMAIN mounts : j # cur => Gone(mounts'[j].m) \/ OnlySaves(mounts'[j])
    BY <1>3, <2>4
  <2> QED BY <1>1, <2>5, <2>6, <2>7, <2>8 DEF ActiveInv, Left, OnlySaves, Gone
<1>14. SendInv'
  <2>1. \A r \in DOMAIN reqs : reqs[r].m \in Messages
    BY <1>1, ReqIs
  <2>2. \A s \in DOMAIN sent : sent[s].m \in Messages
    BY <1>1, SentIs
  <2>3. \A r \in DOMAIN reqs' : reqs'[r].kind = "send" /\ reqs'[r].at \in {"posted", "collected"} =>
          \/ DoubtNow(reqs'[r].m)
          \/ \E o \in DOMAIN outbox : outbox'[o].at = "posted" /\ outbox'[o].req = r
    <3>1. \A r \in DOMAIN reqs : reqs[r].kind = "send" /\ reqs[r].at \in {"posted", "collected"} =>
            \/ DoubtNow(reqs[r].m)
            \/ \E o \in DOMAIN outbox : outbox[o].at = "posted" /\ outbox[o].req = r
      BY <1>1, <1>5, <2>1 DEF SendInv
    <3>2. \A o \in DOMAIN outbox : outbox[o].at = "posted" => outbox'[o].at = "posted" /\ outbox'[o].req = outbox[o].req
      BY <1>4
    <3>3. row.kind = "send" => \E o \in DOMAIN outbox : outbox'[o].at = "posted" /\ outbox'[o].req = n
      BY DEF n
    <3>4. DOMAIN outbox' = DOMAIN outbox
      OBVIOUS
    <3>5. \A r \in DOMAIN reqs : reqs[r].kind = "send" /\ reqs[r].at \in {"posted", "collected"} =>
            \/ DoubtNow(reqs[r].m)
            \/ \E o \in DOMAIN outbox : outbox'[o].at = "posted" /\ outbox'[o].req = r
      <4> HIDE DEF DoubtNow
      <4>1. SUFFICES ASSUME NEW r \in DOMAIN reqs, reqs[r].kind = "send", reqs[r].at \in {"posted", "collected"},
                            ~DoubtNow(reqs[r].m)
                     PROVE  \E o \in DOMAIN outbox : outbox'[o].at = "posted" /\ outbox'[o].req = r
        OBVIOUS
      <4>2. PICK o \in DOMAIN outbox : outbox[o].at = "posted" /\ outbox[o].req = r
        BY <3>1, <4>1
      <4> QED BY <3>2, <4>2
    <3> HIDE DEF DoubtNow
    <3> QED BY <1>2, <3>3, <3>5
  <2>4. \A s \in DOMAIN sent, i \in DOMAIN mounts : M(i) = sent[s].m /\ Active(i) => DoubtNow(sent[s].m)
    BY <1>1, <1>5, <2>2 DEF SendInv
  <2>5. \A s \in DOMAIN sent, o \in DOMAIN outbox : outbox[o].m = sent[s].m /\ Pending(o) => (InHand(o))' \/ DoubtNow(sent[s].m)
    <3>1. \A s \in DOMAIN sent, o \in DOMAIN outbox : outbox[o].m = sent[s].m /\ Pending(o) => InHand(o) \/ DoubtNow(sent[s].m)
      BY <1>1, <1>5, <2>2 DEF SendInv
    <3>2. \A o \in DOMAIN outbox : InHand(o) => (InHand(o))'
      <4>1. SUFFICES ASSUME NEW o \in DOMAIN outbox, InHand(o) PROVE (InHand(o))'
        OBVIOUS
      <4>2. outbox[o].at = "posted" /\ outbox'[o].at = "posted" /\ outbox'[o].req = outbox[o].req
        BY <1>4, <4>1 DEF InHand
      <4>3. outbox[o].req \in DOMAIN reqs
        BY <1>1, <4>2 DEF LinkInv
      <4> QED BY <1>2, <4>1, <4>2, <4>3 DEF InHand
    <3> QED BY <3>1, <3>2
  <2>6. \A s, t \in DOMAIN sent : sent[s].m = sent[t].m => s = t \/ DoubtNow(sent[s].m)
    BY <1>1, <1>5, <2>2 DEF SendInv
  <2> QED BY <1>1, <1>3, <1>4, <1>7, <2>3, <2>4, <2>5, <2>6 DEF SendInv, Doubtful, Left
<1>15. KeepInv'
  <2>1. \A m \in Messages : (Lost(m))' <=> LostNow(m)
    BY DEF Lost, Befell
  <2>2. \A m \in Messages : (Safe(m))' <=> Safe(m)
    BY <1>1 DEF Safe
  <2>3. ASSUME NEW i \in DOMAIN mounts, Active(i), ~LostNow(M(i))
        PROVE  (HoldsNewest(i))'
    <3>1. HoldsNewest(i)
      BY <1>1, <1>3, <1>5, <2>3 DEF KeepInv
    <3>2. PICK m \in Messages : m = M(i)
      BY <1>3
    <3> DEFINE d == mounts'[i]
    <3>3. (Safe(m))' <=> Safe(m)
      BY <2>2
    <3>4. (HoldsNewest(i))' <=>
             /\ d.text = typed'[d.m]
             /\ \A b \in DOMAIN d.building : d.building[b].text = typed'[d.m]
             /\ d.last[1] = typed'[d.m] => (Safe(mounts[i].m))'
             /\ d.req # 0 => /\ reqs'[d.req].text = typed'[d.m] \/ (i = cur' /\ Head(d.chain) = "save")
                             /\ reqs'[d.req].text = typed'[d.m] /\ reqs'[d.req].at = "done" => (Safe(mounts[i].m))'
      BY DEF HoldsNewest
    <3>5. d.m = m /\ typed'[m] = typed[m] /\ cur' = cur
      BY <1>1, <1>3, <3>2
    <3>6. (Safe(mounts[i].m))' <=> (Safe(m))'
      BY <3>5 DEF Safe
    <3>7. /\ d.text = typed[m] /\ (\A b \in DOMAIN d.building : d.building[b].text = typed[m])
          /\ d.last[1] = typed[m] => Safe(m)
      BY <1>3, <3>1, <3>2 DEF HoldsNewest
    <3>8. d.req # 0 => /\ reqs'[d.req].text = typed[m] \/ (i = cur /\ Head(d.chain) = "save")
                       /\ reqs'[d.req].text = typed[m] /\ reqs'[d.req].at = "done" => Safe(m)
      <4>1. CASE d.req = mounts[i].req
        <5>1. d.req # 0 => d.req \in DOMAIN reqs
          BY <1>1, <4>1 DEF LinkInv
        <5> QED BY <1>2, <1>3, <3>1, <3>2, <4>1, <5>1 DEF HoldsNewest
      <4>2. CASE d.req = n /\ row.text = mounts[i].text
        BY <1>2, <3>1, <3>2, <4>2 DEF HoldsNewest
      <4> QED BY <1>3, <4>1, <4>2
    <3> HIDE DEF d
    <3> QED BY <3>3, <3>4, <3>5, <3>6, <3>7, <3>8
  <2>4. \A r \in DOMAIN reqs' : reqs'[r].at \in {"posted", "collected", "handed"} =>
          LostNow(reqs'[r].m) \/ \A d \in drafts : d.uid = reqs'[r].uid => d.text <= reqs'[r].text
    <3>1. \A r \in DOMAIN reqs : reqs[r].at \in {"posted", "collected", "handed"} =>
            LostNow(reqs[r].m) \/ \A d \in drafts : d.uid = reqs[r].uid => d.text <= reqs[r].text
      BY <1>1, <1>5, ReqIs DEF KeepInv
    <3>2. LostNow(row.m) \/ row.text = typed[row.m]
      BY <1>5, <1>6
    <3>3. \A d \in drafts : d.uid = row.uid => d.text <= typed[row.m]
      BY <1>1 DEF Owned, TextInv
    <3> HIDE DEF LostNow
    <3> QED BY <1>2, <3>1, <3>2, <3>3
  <2>5. \A o \in DOMAIN outbox : Pending(o) =>
          \/ LostNow(outbox[o].m)
          \/ outbox[o].text = typed[outbox[o].m] /\ outbox[o].rtext = typed[outbox[o].m]
    BY <1>1, <1>4, <1>5 DEF KeepInv
  <2>6. \A m \in Messages \ dropped :
          \/ LostNow(m) \/ Safe(m)
          \/ \E i \in DOMAIN mounts : M(i) = m /\ Active(i)
          \/ \E o \in DOMAIN outbox : outbox[o].m = m /\ Pending(o)
    BY <1>1, <1>5 DEF KeepInv
  <2>7. \A r \in DOMAIN reqs' : reqs'[r].m \in Messages
    BY <1>1, <1>2, <1>6, ReqIs
  <2>8. \A i \in DOMAIN mounts : (Lost(mounts[i].m))' <=> LostNow(M(i))
    BY <1>3 DEF Lost, Befell
  <2> HIDE DEF LostNow
  <2>9. \A i \in DOMAIN mounts' : (Active(i))' => (Lost(mounts[i].m))' \/ (HoldsNewest(i))'
    BY <1>7, <2>3, <2>8
  <2>10. \A o \in DOMAIN outbox' : (Pending(o))' =>
           \/ (Lost(outbox[o].m))'
           \/ outbox'[o].text = typed'[outbox'[o].m] /\ outbox'[o].rtext = typed'[outbox'[o].m]
    BY <1>1, <1>4, <1>7, <2>1, <2>5
  <2>11. \A m \in Messages \ dropped' :
           \/ (Lost(m))' \/ (Safe(m))'
           \/ \E i \in DOMAIN mounts' : mounts'[i].m = m /\ (Active(i))'
           \/ \E o \in DOMAIN outbox' : outbox'[o].m = m /\ (Pending(o))'
    <3>1. SUFFICES ASSUME NEW m \in Messages \ dropped
                   PROVE  \/ LostNow(m) \/ Safe(m)
                          \/ \E i \in DOMAIN mounts : mounts'[i].m = m /\ (Active(i))'
                          \/ \E o \in DOMAIN outbox : outbox'[o].m = m /\ (Pending(o))'
      BY <1>1, <2>1, <2>2
    <3>2. CASE \E i \in DOMAIN mounts : M(i) = m /\ Active(i)
      BY <1>3, <1>7, <3>2
    <3>3. CASE \E o \in DOMAIN outbox : outbox[o].m = m /\ Pending(o)
      BY <1>4, <1>7, <3>3
    <3> QED BY <2>6, <3>1, <3>2, <3>3
  <2> QED BY <1>1, <2>1, <2>4, <2>7, <2>9, <2>10, <2>11 DEF KeepInv
<1> QED BY <1>8, <1>9, <1>10, <1>11, <1>12, <1>13, <1>14, <1>15 DEF IInv

\* saveNow() asks for a save of what is written.
LEMMA SaveKeeps ==
  ASSUME IInv, NEW i \in DOMAIN mounts, Begin(i), Head(mounts[i].chain) # "send", Snapshot(mounts[i]) # mounts[i].last
  PROVE  IInv'
<1>1. PICK c \in MountRow : c = mounts[i]
  BY RowHas
<1>2. c.chain # <<>> /\ ~away /\ c.m \in Messages /\ UNCHANGED <<cur, outbox, folder, sent, away, typed, dropped>>
  BY <1>1 DEF Begin, MountRow
<1>3. PICK row : row = [kind |-> "save", m |-> c.m, text |-> c.text, att |-> c.att, uid |-> DraftUid(i),
                        at |-> "posted", result |-> 0]
  OBVIOUS
<1>4. DraftUid(i) \in Nat /\ Owned(DraftUid(i), c.m)
  BY <1>1, Parts, DraftUidIs
<1>5. row \in ReqRow
  BY <1>3, <1>4 DEF ReqRow, MountRow
<1>6. row.kind = "save" /\ row.m = c.m /\ row.text = c.text /\ row.uid = DraftUid(i) /\ row.at = "posted" /\ row.result = 0
  BY <1>3
<1>7. reqs' = Append(reqs, row) /\ mounts' = [mounts EXCEPT ![i].req = Len(reqs) + 1]
  BY <1>1, <1>3 DEF Begin, Post
<1>8. PICK d : d = [c EXCEPT !.req = Len(reqs) + 1]
  OBVIOUS
<1>9. d \in MountRow
  <2>1. Len(reqs) + 1 \in Nat
    BY Parts, LenProperties DEF TypeInv
  <2> QED BY <1>8, <2>1 DEF MountRow
<1>10. /\ d.key = c.key /\ d.m = c.m /\ d.text = c.text /\ d.uid = c.uid /\ d.last = c.last /\ d.fin = c.fin
       /\ d.building = c.building /\ d.pressed = c.pressed /\ d.chain = c.chain /\ d.req = Len(reqs) + 1
  BY <1>8 DEF MountRow
<1>11. /\ mounts' \in Seq(MountRow) /\ DOMAIN mounts' = DOMAIN mounts /\ mounts'[i] = d
       /\ \A j \in DOMAIN mounts : j # i => mounts'[j] = mounts[j]
  <2>1. mounts' = [mounts EXCEPT ![i] = d]
    BY <1>1, <1>7, <1>8
  <2> QED BY <1>9, <2>1, Parts, Put DEF TypeInv
<1>12. \A j \in DOMAIN mounts : AsksFor(j, row)
  <2>1. AsksFor(i, row)
    BY <1>1, <1>2, <1>6, <1>10, <1>11 DEF AsksFor
  <2>2. \A j \in DOMAIN mounts : j # i => AsksFor(j, row)
    BY <1>11 DEF AsksFor
  <2> QED BY <2>1, <2>2
<1>13. Grows
  <2>1. \E marks : cause' = Marked(marks)
    BY DEF Begin
  <2> QED BY <2>1, Parts, MarkedIs
<1>14. outbox' \in Seq(OutRow) /\ DOMAIN outbox' = DOMAIN outbox /\ \A o \in DOMAIN outbox : Sends(o, row)
  <2>1. outbox' = outbox /\ outbox \in Seq(OutRow)
    BY <1>2, Parts DEF TypeInv
  <2> QED BY <2>1 DEF Sends
<1>15. row.text <= typed[row.m] /\ (Lost(row.m) \/ row.text = typed[row.m]) /\ \E k \in DOMAIN mounts : mounts[k].m = row.m
  <2>1. c.text <= typed[c.m] /\ (Lost(c.m) \/ HoldsNewest(i))
    BY <1>1, <1>2, RowHas DEF Active, AtWork
  <2>2. HoldsNewest(i) => c.text = typed[c.m]
    BY <1>1 DEF HoldsNewest
  <2> QED BY <1>1, <1>6, <2>1, <2>2
<1> QED BY <1>2, <1>4, <1>5, <1>6, <1>7, <1>11, <1>12, <1>13, <1>14, <1>15, RequestKeeps

LEMMA BeginKeeps ==
  ASSUME IInv, NEW i \in DOMAIN mounts, Begin(i)
  PROVE  IInv'
<1>1. CASE Head(mounts[i].chain) = "send"
  BY <1>1, BuildKeeps
<1>2. CASE Head(mounts[i].chain) # "send" /\ Snapshot(mounts[i]) # mounts[i].last
  BY <1>2, SaveKeeps
<1>3. CASE Head(mounts[i].chain) # "send" /\ Snapshot(mounts[i]) = mounts[i].last
  <2>1. ~away /\ mounts[i].chain # <<>> /\ UNCHANGED <<reqs, outbox, folder, sent, away, typed, dropped>>
    BY <1>3 DEF Begin
  <2>2. Finish(mounts, i, TRUE, {})
    BY <1>3 DEF Begin
  <2> QED BY <1>3, <2>1, <2>2, NothingToSaveKeeps
<1> QED BY <1>1, <1>2, <1>3

\* The window is over: the message is posted.
LEMMA FireKeeps ==
  ASSUME IInv, NEW o \in DOMAIN outbox, Fire(o)
  PROVE  IInv'
<1>1. PICK p \in OutRow : p = outbox[o]
  BY Parts, OutIs
<1>2. p.at = "window" /\ p.m \in Messages /\ ~away /\ UNCHANGED <<mounts, cur, folder, sent, away, typed, dropped, cause>>
  BY <1>1 DEF Fire, Quiet, tab, OutRow
<1>3. PICK row : row = [kind |-> "send", m |-> p.m, text |-> p.text, att |-> p.att, uid |-> p.uid,
                        at |-> "posted", result |-> 0]
  OBVIOUS
<1>4. row \in ReqRow
  BY <1>3 DEF ReqRow, OutRow
<1>5. row.kind = "send" /\ row.m = p.m /\ row.text = p.text /\ row.uid = p.uid /\ row.at = "posted" /\ row.result = 0
  BY <1>3
<1>6. reqs' = Append(reqs, row) /\ outbox' = [outbox EXCEPT ![o].at = "posted", ![o].req = Len(reqs) + 1]
  BY <1>1, <1>3 DEF Fire, Post
<1>7. PICK q : q = [p EXCEPT !.at = "posted", !.req = Len(reqs) + 1]
  OBVIOUS
<1>8. q \in OutRow
  <2>1. Len(reqs) + 1 \in Nat
    BY Parts, LenProperties DEF TypeInv
  <2> QED BY <1>7, <2>1 DEF OutRow
<1>9. q.m = p.m /\ q.text = p.text /\ q.uid = p.uid /\ q.rtext = p.rtext /\ q.at = "posted" /\ q.req = Len(reqs) + 1
  BY <1>7 DEF OutRow
<1>10. /\ outbox' \in Seq(OutRow) /\ DOMAIN outbox' = DOMAIN outbox /\ outbox'[o] = q
       /\ \A x \in DOMAIN outbox : x # o => outbox'[x] = outbox[x]
  <2>1. outbox' = [outbox EXCEPT ![o] = q]
    BY <1>1, <1>6, <1>7
  <2>2. outbox \in Seq(OutRow)
    BY Parts DEF TypeInv
  <2> QED BY <1>8, <2>1, <2>2, Put
<1>11. \A x \in DOMAIN outbox : Sends(x, row)
  <2>1. Sends(o, row)
    BY <1>1, <1>2, <1>5, <1>9, <1>10 DEF Sends
  <2>2. \A x \in DOMAIN outbox : x # o => Sends(x, row)
    BY <1>10 DEF Sends
  <2> QED BY <2>1, <2>2
<1>12. mounts' \in Seq(MountRow) /\ DOMAIN mounts' = DOMAIN mounts /\ \A j \in DOMAIN mounts : AsksFor(j, row)
  <2>1. mounts' = mounts /\ mounts \in Seq(MountRow)
    BY <1>2, Parts DEF TypeInv
  <2> QED BY <2>1 DEF AsksFor
<1>13. Grows
  BY <1>2, Parts, StaysPut
<1>14. /\ Owned(row.uid, row.m) /\ row.text <= typed[row.m] /\ (Lost(row.m) \/ row.text = typed[row.m])
       /\ \E k \in DOMAIN mounts : mounts[k].m = row.m
  <2>1. Owned(p.uid, p.m) /\ p.text <= typed[p.m] /\ (Lost(p.m) \/ p.text = typed[p.m])
    BY <1>1, <1>2, Parts DEF UidInv, TextInv, KeepInv, Pending
  <2>2. \E k \in DOMAIN mounts : mounts[k].m = p.m
    BY <1>1, <1>2, Parts DEF NewInv
  <2> QED BY <1>5, <2>1, <2>2
<1> QED BY <1>2, <1>4, <1>5, <1>6, <1>9, <1>10, <1>11, <1>12, <1>13, <1>14, RequestKeeps

-----------------------------------------------------------------------------
(* Writing.                                                                 *)

\* A new version is in the composer on screen and nowhere else: what is under way has an older one, and
\* either the composer saves once more, or the version is late.
LEMMA EditKeeps ==
  ASSUME IInv, Edit
  PROVE  IInv'
<1> DEFINE M(j) == mounts[j].m
           Gone(x) == "left" \in cause'[x]
           LostNow(x) == cause'[x] \cap MayLose # {}
           DoubtNow(x) == Gone(x) \/ "unsure" \in cause'[x]
<1>1. /\ TypeInv /\ LinkInv /\ NewInv /\ UidInv /\ TextInv /\ ActiveInv /\ SendInv /\ KeepInv
      /\ UNCHANGED <<cur, outbox, reqs, drafts, nextUid, sent, away, dropped>> /\ ~away
  BY DEF IInv, Edit, folder, tab, Quiet
<1>2. cur # 0 /\ cur \in DOMAIN mounts
  BY <1>1, CurIs DEF Edit
<1>3. PICK c \in MountRow : c = mounts[cur]
  BY <1>2, RowHas
<1>4. PICK m \in Messages : m = c.m
  BY DEF MountRow
<1>5. PICK v : v = typed[m] + 1
  OBVIOUS
<1>6. typed \in [Messages -> Nat] /\ typed[m] \in Nat /\ v \in Nat /\ v > typed[m]
  BY <1>1, <1>5 DEF TypeInv
<1>7. typed' = [typed EXCEPT ![m] = v]
  BY <1>3, <1>4, <1>5 DEF Edit
<1>8. PICK d : d = [c EXCEPT !.text = v, !.timer = TRUE]
  OBVIOUS
<1>9. d \in MountRow
  BY <1>6, <1>8 DEF MountRow
<1>10. /\ d.key = c.key /\ d.m = m /\ d.text = v /\ d.uid = c.uid /\ d.last = c.last /\ d.fin = c.fin
       /\ d.building = c.building /\ d.pressed = c.pressed /\ d.chain = c.chain /\ d.req = c.req
  BY <1>4, <1>8 DEF MountRow
<1>11. /\ mounts' \in Seq(MountRow) /\ DOMAIN mounts' = DOMAIN mounts /\ Len(mounts') = Len(mounts) /\ mounts'[cur] = d
       /\ \A j \in DOMAIN mounts : j # cur => mounts'[j] = mounts[j]
  <2>1. mounts' = [mounts EXCEPT ![cur] = d]
    BY <1>3, <1>4, <1>5, <1>8 DEF Edit
  <2> QED BY <1>1, <1>2, <1>9, <2>1, Put DEF TypeInv
<1>12. \A j \in DOMAIN mounts :
         /\ mounts'[j].key = mounts[j].key /\ mounts'[j].m = M(j)
         /\ mounts'[j].uid = mounts[j].uid /\ mounts'[j].last = mounts[j].last /\ mounts'[j].fin = mounts[j].fin
         /\ mounts'[j].building = mounts[j].building /\ mounts'[j].pressed = mounts[j].pressed
         /\ mounts'[j].chain = mounts[j].chain /\ mounts'[j].req = mounts[j].req /\ M(j) \in Messages
  BY <1>1, <1>3, <1>4, <1>10, <1>11, MountIs
<1>13. /\ cause' = Marked(Late) /\ Grows
       /\ \A x \in Messages, w \in Causes : <<x, w>> \in Late => w \in cause'[x]
  <2>1. cause' = Marked(Late)
    BY DEF Edit
  <2> QED BY <1>1, <2>1, MarkedIs
<1>14. \A x \in Messages : /\ Left(x) => Gone(x)
                           /\ Doubtful(x) => DoubtNow(x)
                           /\ Lost(x) => LostNow(x)
                           /\ Gone(x) => LostNow(x)
  BY <1>1, <1>13, GrownCauses
<1>15. Finishing(c) => LostNow(m)
  <2>1. Finishing(c) => <<m, "late">> \in Late
    BY <1>3, <1>4 DEF Late
  <2>2. "late" \in cause'[m] => LostNow(m)
    BY DEF MayLose
  <2> QED BY <1>13, <2>1, <2>2, CausesAre
<1>16. \A i \in DOMAIN mounts : (Active(i))' <=> Active(i)
  BY <1>1, <1>12 DEF Active, AtWork
<1>17. \A o \in DOMAIN outbox : ((Pending(o))' <=> Pending(o)) /\ outbox[o].m \in Messages
  BY <1>1, OutIs DEF Pending
<1>18. /\ typed'[m] = v /\ \A x \in Messages : x # m => typed'[x] = typed[x]
       /\ \A x \in Messages : typed[x] <= typed'[x] /\ typed[x] \in Nat /\ typed'[x] \in Nat
  BY <1>6, <1>7
<1>19. TypeInv'
  <2>1. typed' \in [Messages -> Nat]
    BY <1>6, <1>7
  <2> QED BY <1>1, <1>11, <1>13, <2>1 DEF TypeInv, Grows
<1>20. LinkInv'
  <2>1. cur # 0 => ~mounts'[cur].fin
    BY <1>1, <1>2, <1>12 DEF LinkInv
  <2> QED BY <1>1, <1>11, <1>12, <2>1 DEF LinkInv
<1>21. NewInv'
  <2>1. SUFFICES ASSUME NEW x \in Messages, \A i \in DOMAIN mounts' : mounts'[i].m # x
                 PROVE  /\ typed'[x] = 0
                        /\ \A o \in DOMAIN outbox' : outbox'[o].m # x
                        /\ \A r \in DOMAIN reqs' : reqs'[r].m # x
                        /\ \A i \in DOMAIN sent' : sent'[i].m # x
    BY DEF NewInv
  <2>2. x # m /\ \A i \in DOMAIN mounts : M(i) # x
    BY <1>2, <1>10, <1>11, <1>12, <2>1
  <2>3. /\ typed[x] = 0
        /\ \A o \in DOMAIN outbox : outbox[o].m # x
        /\ \A r \in DOMAIN reqs : reqs[r].m # x
        /\ \A i \in DOMAIN sent : sent[i].m # x
    BY <1>1, <2>2 DEF NewInv
  <2> QED BY <1>1, <1>18, <2>2, <2>3
<1>22. UidInv'
  <2>1. \A i \in DOMAIN mounts :
          /\ Owned(mounts'[i].uid, mounts'[i].m)
          /\ \A b \in DOMAIN mounts'[i].building : Owned(mounts'[i].building[b].uid, mounts'[i].m)
    BY <1>1, <1>12 DEF UidInv
  <2> QED BY <1>1, <1>11, <2>1 DEF UidInv, Owned
<1>23. TextInv'
  <2>1. \A i \in DOMAIN mounts : mounts'[i].text <= typed'[M(i)]
    <3>1. mounts'[cur].text <= typed'[M(cur)]
      BY <1>3, <1>4, <1>6, <1>10, <1>11, <1>18
    <3>2. \A i \in DOMAIN mounts : mounts[i] \in MountRow /\ mounts[i].text \in Nat /\ mounts[i].text <= typed[M(i)]
      BY <1>1, MountIs DEF TextInv, MountRow
    <3> QED BY <1>11, <1>12, <1>18, <3>1, <3>2
  <2>2. \A i \in DOMAIN mounts : mounts'[i].last[1] <= typed'[M(i)]
    <3>1. \A i \in DOMAIN mounts : mounts[i] \in MountRow /\ mounts[i].last[1] \in Nat /\ mounts[i].last[1] <= typed[M(i)]
      BY <1>1, MountIs DEF TextInv, MountRow
    <3> QED BY <1>12, <1>18, <3>1
  <2>3. \A i \in DOMAIN mounts : \A b \in DOMAIN mounts'[i].building : mounts'[i].building[b].text <= typed'[M(i)]
    <3>1. \A i \in DOMAIN mounts : \A b \in DOMAIN mounts[i].building :
            mounts[i].building[b].text \in Nat /\ mounts[i].building[b].text <= typed[M(i)]
      <4>1. SUFFICES ASSUME NEW i \in DOMAIN mounts, NEW b \in DOMAIN mounts[i].building
                     PROVE  mounts[i].building[b].text \in Nat /\ mounts[i].building[b].text <= typed[M(i)]
        OBVIOUS
      <4>2. mounts[i].building \in Seq(BodyRow)
        BY <1>1, MountIs DEF MountRow
      <4>3. mounts[i].building[b] \in BodyRow
        BY <4>2, LenProperties, ElementOfSeq
      <4> QED BY <1>1, <4>3 DEF TextInv, BodyRow
    <3> QED BY <1>12, <1>18, <3>1
  <2>4. \A o \in DOMAIN outbox : outbox[o].text <= typed'[outbox[o].m] /\ outbox[o].rtext <= typed'[outbox[o].m]
    <3>1. \A o \in DOMAIN outbox :
            /\ outbox[o].m \in Messages /\ outbox[o].text \in Nat /\ outbox[o].rtext \in Nat
            /\ outbox[o].text <= typed[outbox[o].m] /\ outbox[o].rtext <= typed[outbox[o].m]
      BY <1>1, OutIs DEF TextInv, OutRow
    <3> QED BY <1>18, <3>1
  <2>5. \A r \in DOMAIN reqs : reqs[r].text <= typed'[reqs[r].m]
    <3>1. \A r \in DOMAIN reqs : reqs[r].m \in Messages /\ reqs[r].text \in Nat /\ reqs[r].text <= typed[reqs[r].m]
      BY <1>1, ReqIs DEF TextInv, ReqRow
    <3> QED BY <1>18, <3>1
  <2>6. \A e \in drafts : e.text <= typed'[e.m]
    <3>1. \A e \in drafts : e.m \in Messages /\ e.text \in Nat /\ e.text <= typed[e.m]
      BY <1>1 DEF TypeInv, TextInv, DraftRow
    <3> QED BY <1>18, <3>1
  <2>7. \A i \in DOMAIN mounts' :
          /\ mounts'[i].text <= typed'[mounts'[i].m] /\ mounts'[i].last[1] <= typed'[mounts'[i].m]
          /\ \A b \in DOMAIN mounts'[i].building : mounts'[i].building[b].text <= typed'[mounts'[i].m]
    BY <1>11, <1>12, <2>1, <2>2, <2>3
  <2> QED BY <1>1, <2>4, <2>5, <2>6, <2>7 DEF TextInv
<1>24. ActiveInv'
  <2> HIDE DEF Gone
  <2>1. \A i, j \in DOMAIN mounts : mounts'[i].m = mounts'[j].m /\ (Active(i))' /\ (Active(j))' => i = j \/ Gone(mounts'[i].m)
    <3>1. \A i, j \in DOMAIN mounts : M(i) = M(j) /\ Active(i) /\ Active(j) => i = j \/ Gone(M(i))
      BY <1>1, <1>12, <1>14 DEF ActiveInv
    <3> QED BY <1>12, <1>16, <3>1
  <2>2. \A i \in DOMAIN mounts, o \in DOMAIN outbox :
          mounts'[i].m = outbox[o].m /\ (Active(i))' /\ Pending(o) => Gone(mounts'[i].m)
    <3>1. \A i \in DOMAIN mounts, o \in DOMAIN outbox : M(i) = outbox[o].m /\ Active(i) /\ Pending(o) => Gone(M(i))
      BY <1>1, <1>12, <1>14 DEF ActiveInv
    <3> QED BY <1>12, <1>16, <3>1
  <2>3. \A o, p \in DOMAIN outbox : outbox[o].m = outbox[p].m /\ Pending(o) /\ Pending(p) => o = p \/ Gone(outbox[o].m)
    BY <1>1, <1>14, <1>17 DEF ActiveInv
  <2>4. \A j \in DOMAIN mounts : j # cur => Gone(mounts'[j].m) \/ OnlySaves(mounts'[j])
    <3>1. \A j \in DOMAIN mounts : j # cur => Gone(M(j)) \/ OnlySaves(mounts'[j])
      BY <1>1, <1>12, <1>14 DEF ActiveInv, OnlySaves
    <3> QED BY <1>12, <3>1
  <2> QED BY <1>1, <1>11, <1>17, <2>1, <2>2, <2>3, <2>4 DEF ActiveInv, Left, OnlySaves, Gone
<1>25. SendInv'
  <2> HIDE DEF DoubtNow
  <2>1. \A r \in DOMAIN reqs : reqs[r].kind = "send" /\ reqs[r].at \in {"posted", "collected"} =>
          \/ DoubtNow(reqs[r].m)
          \/ \E o \in DOMAIN outbox : outbox[o].at = "posted" /\ outbox[o].req = r
    BY <1>1, <1>14, ReqIs DEF SendInv
  <2>2. \A s \in DOMAIN sent, i \in DOMAIN mounts : mounts'[i].m = sent[s].m /\ (Active(i))' => DoubtNow(sent[s].m)
    <3>1. \A s \in DOMAIN sent, i \in DOMAIN mounts : M(i) = sent[s].m /\ Active(i) => DoubtNow(sent[s].m)
      BY <1>1, <1>14, SentIs DEF SendInv
    <3> QED BY <1>12, <1>16, <3>1
  <2>3. \A s \in DOMAIN sent, o \in DOMAIN outbox : outbox[o].m = sent[s].m /\ Pending(o) => InHand(o) \/ DoubtNow(sent[s].m)
    BY <1>1, <1>14, SentIs DEF SendInv
  <2>4. \A s, t \in DOMAIN sent : sent[s].m = sent[t].m => s = t \/ DoubtNow(sent[s].m)
    BY <1>1, <1>14, SentIs DEF SendInv
  <2>5. \A o \in DOMAIN outbox : (InHand(o))' <=> InHand(o)
    BY <1>1 DEF InHand
  <2> QED BY <1>1, <1>11, <1>17, <2>1, <2>2, <2>3, <2>4, <2>5 DEF SendInv, Doubtful, Left, DoubtNow
<1>26. KeepInv'
  <2>1. \A x \in Messages : (Lost(x))' <=> LostNow(x)
    BY DEF Lost, Befell
  <2>2. \A x \in Messages : x # m => ((Safe(x))' <=> Safe(x))
    BY <1>1, <1>18 DEF Safe
  <2>3. ASSUME NEW i \in DOMAIN mounts, Active(i), ~LostNow(M(i)), M(i) # m
        PROVE  (HoldsNewest(i))'
    <3>1. HoldsNewest(i) /\ i # cur
      BY <1>1, <1>3, <1>4, <1>12, <1>14, <2>3 DEF KeepInv
    <3>2. PICK x \in Messages : x = M(i) /\ x # m
      BY <1>12, <2>3
    <3>3. (Safe(x))' <=> Safe(x)
      BY <2>2, <3>2
    <3>4. mounts'[i] = mounts[i] /\ typed'[x] = typed[x] /\ reqs' = reqs /\ cur' = cur
      BY <1>1, <1>11, <1>18, <3>1, <3>2
    <3>5. (Safe(mounts[i].m))' <=> (Safe(x))'
      BY <3>2, <3>4 DEF Safe
    <3> QED BY <3>1, <3>2, <3>3, <3>4, <3>5 DEF HoldsNewest
  <2>4. ASSUME NEW i \in DOMAIN mounts, Active(i), ~LostNow(M(i)), M(i) = m
        PROVE  (HoldsNewest(i))'
    <3>1. i = cur
      <4>1. Active(cur) /\ M(cur) = m
        BY <1>3, <1>4 DEF Active
      <4>2. i = cur \/ Left(m)
        BY <1>1, <1>2, <2>4, <4>1 DEF ActiveInv
      <4> QED BY <1>14, <2>4, <4>2
    <3>2. ~Finishing(c)
      BY <1>15, <2>4
    <3>3. d.building = <<>> /\ (d.chain # <<>> => Head(d.chain) = "save")
      <4>1. c.building = <<>>
        BY <3>2 DEF Finishing
      <4>2. \A j \in DOMAIN c.chain : c.chain[j] = "save"
        BY <3>2 DEF Finishing
      <4>3. c.chain # <<>> => Head(c.chain) = c.chain[1] /\ 1 \in DOMAIN c.chain
        BY TailIs DEF MountRow
      <4> QED BY <1>10, <4>1, <4>2, <4>3
    <3>4. d.last[1] # v
      <4>1. c.last[1] \in Nat /\ c.last[1] <= typed[m]
        BY <1>1, <1>2, <1>3, <1>4 DEF TextInv, MountRow
      <4> QED BY <1>6, <1>10, <4>1
    <3>5. d.req # 0 => reqs[d.req].text # v /\ d.chain # <<>>
      <4>1. c.req # 0 => c.chain # <<>> /\ c.req \in DOMAIN reqs /\ reqs[c.req].m = m
        BY <1>1, <1>2, <1>3, <1>4 DEF LinkInv
      <4>2. c.req # 0 => reqs[c.req].text \in Nat /\ reqs[c.req].text <= typed[m]
        BY <1>1, <4>1, ReqIs DEF TextInv, ReqRow
      <4> QED BY <1>6, <1>10, <4>1, <4>2
    <3>6. (HoldsNewest(i))' <=>
             /\ d.text = typed'[d.m]
             /\ \A b \in DOMAIN d.building : d.building[b].text = typed'[d.m]
             /\ d.last[1] = typed'[d.m] => (Safe(mounts[i].m))'
             /\ d.req # 0 => /\ reqs'[d.req].text = typed'[d.m] \/ (i = cur' /\ Head(d.chain) = "save")
                             /\ reqs'[d.req].text = typed'[d.m] /\ reqs'[d.req].at = "done" => (Safe(mounts[i].m))'
      BY <1>11, <3>1 DEF HoldsNewest
    <3>7. typed'[d.m] = v /\ d.text = v /\ reqs' = reqs /\ cur' = cur
      BY <1>1, <1>10, <1>18
    <3> QED BY <3>1, <3>3, <3>4, <3>5, <3>6, <3>7
  <2>5. \A r \in DOMAIN reqs : reqs[r].at \in {"posted", "collected", "handed"} =>
          LostNow(reqs[r].m) \/ \A e \in drafts : e.uid = reqs[r].uid => e.text <= reqs[r].text
    BY <1>1, <1>14, ReqIs DEF KeepInv
  <2>6. \A o \in DOMAIN outbox : Pending(o) =>
          \/ LostNow(outbox[o].m)
          \/ outbox[o].text = typed'[outbox[o].m] /\ outbox[o].rtext = typed'[outbox[o].m]
    <3>1. SUFFICES ASSUME NEW o \in DOMAIN outbox, Pending(o), ~LostNow(outbox[o].m)
                   PROVE  outbox[o].text = typed'[outbox[o].m] /\ outbox[o].rtext = typed'[outbox[o].m]
      OBVIOUS
    <3>2. outbox[o].m # m
      <4>1. Active(cur) /\ M(cur) = m
        BY <1>3, <1>4 DEF Active
      <4>2. outbox[o].m = m => Left(m)
        BY <1>1, <1>2, <3>1, <4>1 DEF ActiveInv
      <4> QED BY <1>14, <3>1, <4>2
    <3> QED BY <1>1, <1>14, <1>17, <1>18, <3>1, <3>2 DEF KeepInv
  <2>7. \A x \in Messages \ dropped :
          \/ LostNow(x) \/ (Safe(x))'
          \/ \E i \in DOMAIN mounts : M(i) = x /\ Active(i)
          \/ \E o \in DOMAIN outbox : outbox[o].m = x /\ Pending(o)
    <3>1. SUFFICES ASSUME NEW x \in Messages \ dropped
                   PROVE  \/ LostNow(x) \/ (Safe(x))'
                          \/ \E i \in DOMAIN mounts : M(i) = x /\ Active(i)
                          \/ \E o \in DOMAIN outbox : outbox[o].m = x /\ Pending(o)
      OBVIOUS
    <3>2. CASE x = m
      <4>1. Active(cur) /\ M(cur) = m
        BY <1>3, <1>4 DEF Active
      <4> QED BY <1>2, <3>2, <4>1
    <3>3. CASE x # m
      BY <1>1, <1>14, <2>2, <3>3 DEF KeepInv
    <3> QED BY <3>2, <3>3
  <2>8. \A i \in DOMAIN mounts : (Lost(mounts[i].m))' <=> LostNow(M(i))
    BY <1>12 DEF Lost, Befell
  <2>9. \A r \in DOMAIN reqs : reqs[r].m \in Messages
    BY <1>1, ReqIs
  <2> HIDE DEF LostNow
  <2>10. \A i \in DOMAIN mounts' : (Active(i))' => (Lost(mounts[i].m))' \/ (HoldsNewest(i))'
    BY <1>11, <1>16, <2>3, <2>4, <2>8
  <2>11. \A o \in DOMAIN outbox' : (Pending(o))' =>
           \/ (Lost(outbox[o].m))'
           \/ outbox'[o].text = typed'[outbox'[o].m] /\ outbox'[o].rtext = typed'[outbox'[o].m]
    BY <1>1, <1>17, <2>1, <2>6
  <2>12. \A x \in Messages \ dropped' :
           \/ (Lost(x))' \/ (Safe(x))'
           \/ \E i \in DOMAIN mounts' : mounts'[i].m = x /\ (Active(i))'
           \/ \E o \in DOMAIN outbox' : outbox'[o].m = x /\ (Pending(o))'
    <3>1. SUFFICES ASSUME NEW x \in Messages \ dropped
                   PROVE  \/ LostNow(x) \/ (Safe(x))'
                          \/ \E i \in DOMAIN mounts : mounts'[i].m = x /\ (Active(i))'
                          \/ \E o \in DOMAIN outbox : outbox[o].m = x /\ (Pending(o))'
      BY <1>1, <1>11, <2>1
    <3>2. CASE \E i \in DOMAIN mounts : M(i) = x /\ Active(i)
      BY <1>12, <1>16, <3>2
    <3>3. CASE \E o \in DOMAIN outbox : outbox[o].m = x /\ Pending(o)
      BY <1>17, <3>3
    <3> QED BY <2>7, <3>1, <3>2, <3>3
  <2> QED BY <1>1, <2>1, <2>5, <2>9, <2>10, <2>11, <2>12 DEF KeepInv
<1> QED BY <1>19, <1>20, <1>21, <1>22, <1>23, <1>24, <1>25, <1>26 DEF IInv

-----------------------------------------------------------------------------
(* The server.                                                              *)

\* What the server may do with request r at once, whatever the step.
Serves(r) ==
  LET q == reqs[r]
      z == reqs'[r]
      doubtful == "left" \in cause'[q.m] \/ "unsure" \in cause'[q.m]
      stored == \E e \in drafts' : e.m = q.m /\ e.text = q.text
      accepted == \E s \in DOMAIN sent' : sent'[s].m = q.m /\ sent'[s].text = q.text IN
  /\ z.kind = q.kind /\ z.m = q.m /\ z.text = q.text /\ z.uid = q.uid
  /\ q.at \in {"posted", "collected", "handed"} /\ (z.at \in {"posted", "collected"} => q.at \in {"posted", "collected"})
  /\ z.at = "handed" => q.kind = "send"
  /\ q.kind = "send" /\ z.at \in {"handed", "done"} => accepted
  /\ q.kind = "send" /\ q.at = "handed" => z.at = "done"
  /\ q.kind = "save" /\ z.at = "done" => stored
  /\ z.result = q.result \/ (z.result = nextUid /\ nextUid' = nextUid + 1)
  /\ \A e \in drafts' \ drafts : e.uid = nextUid /\ nextUid' = nextUid + 1 /\ e.m = q.m /\ e.text = q.text
  /\ \A e \in drafts \ drafts' : e.uid = q.uid /\ (stored \/ accepted)
  /\ \/ sent' = sent
     \/ /\ q.kind = "send" /\ q.at = "collected"
        /\ sent' = Append(sent, [m |-> q.m, text |-> q.text])
        /\ z.at = "handed" \/ doubtful

LEMMA ServerKeeps ==
  ASSUME IInv, Grows, NEW r \in DOMAIN reqs, NEW z \in ReqRow, reqs' = [reqs EXCEPT ![r] = z], Serves(r),
         drafts' \in SUBSET DraftRow, nextUid' \in {nextUid, nextUid + 1},
         UNCHANGED <<mounts, cur, outbox, away, typed, dropped>>
  PROVE  IInv'
<1> DEFINE q == reqs[r]
           Gone(x) == "left" \in cause'[x]
           LostNow(x) == cause'[x] \cap MayLose # {}
           DoubtNow(x) == Gone(x) \/ "unsure" \in cause'[x]
           stored == \E e \in drafts' : e.m = q.m /\ e.text = q.text
           accepted == \E s \in DOMAIN sent' : sent'[s].m = q.m /\ sent'[s].text = q.text
<1>1. /\ TypeInv /\ LinkInv /\ NewInv /\ UidInv /\ TextInv /\ ActiveInv /\ SendInv /\ KeepInv
      /\ UNCHANGED <<mounts, cur, outbox, away, typed, dropped>>
  BY DEF IInv
<1>2. q \in ReqRow /\ q.m \in Messages
  BY <1>1, ReqIs
<1>3. /\ reqs' \in Seq(ReqRow) /\ DOMAIN reqs' = DOMAIN reqs /\ reqs'[r] = z
      /\ \A x \in DOMAIN reqs : x # r => reqs'[x] = reqs[x]
  BY <1>1, Put DEF TypeInv
<1>4. /\ z.kind = q.kind /\ z.m = q.m /\ z.text = q.text /\ z.uid = q.uid
      /\ q.at \in {"posted", "collected", "handed"} /\ (z.at \in {"posted", "collected"} => q.at \in {"posted", "collected"})
      /\ z.at = "handed" => q.kind = "send"
      /\ q.kind = "send" /\ z.at \in {"handed", "done"} => accepted
      /\ q.kind = "send" /\ q.at = "handed" => z.at = "done"
      /\ q.kind = "save" /\ z.at = "done" => stored
      /\ z.result = q.result \/ (z.result = nextUid /\ nextUid' = nextUid + 1)
      /\ \A e \in drafts' \ drafts : e.uid = nextUid /\ nextUid' = nextUid + 1 /\ e.m = q.m /\ e.text = q.text
      /\ \A e \in drafts \ drafts' : e.uid = q.uid /\ (stored \/ accepted)
  BY <1>3 DEF Serves
<1>5. PICK new : new = [m |-> q.m, text |-> q.text]
  OBVIOUS
<1>7. /\ sent' \in Seq(SentRow) /\ \A s \in DOMAIN sent : s \in DOMAIN sent' /\ sent'[s] = sent[s]
      /\ \A s \in DOMAIN sent' \ DOMAIN sent :
           /\ s = Len(sent) + 1 /\ sent'[s] = new
           /\ q.kind = "send" /\ q.at = "collected" /\ (z.at = "handed" \/ DoubtNow(q.m))
  <2>1. new \in SentRow
    BY <1>2, <1>5 DEF SentRow, ReqRow
  <2>2. CASE sent' = sent
    BY <1>1, <2>2 DEF TypeInv
  <2>3. CASE /\ q.kind = "send" /\ q.at = "collected" /\ sent' = Append(sent, new)
             /\ z.at = "handed" \/ DoubtNow(q.m)
    <3>1. sent \in Seq(SentRow)
      BY <1>1 DEF TypeInv
    <3> HIDE DEF q
    <3> QED BY <2>1, <2>3, <3>1, Added
  <2>4. \/ sent' = sent
        \/ /\ q.kind = "send" /\ q.at = "collected" /\ sent' = Append(sent, new)
           /\ z.at = "handed" \/ DoubtNow(q.m)
    BY <1>3, <1>5 DEF Serves
  <2> QED BY <2>2, <2>3, <2>4
<1>8. \A m \in Messages : /\ Left(m) => Gone(m)
                          /\ Doubtful(m) => DoubtNow(m)
                          /\ Lost(m) => LostNow(m)
  BY <1>1, GrownCauses
<1>9. /\ \A i \in DOMAIN mounts : ((Active(i))' <=> Active(i)) /\ mounts[i].m \in Messages
      /\ \A o \in DOMAIN outbox : ((Pending(o))' <=> Pending(o)) /\ outbox[o].m \in Messages
  BY <1>1, MountIs, OutIs DEF Active, AtWork, Pending
<1>10. /\ \A m \in Messages : (Left(m))' <=> Gone(m)
       /\ \A m \in Messages : (Doubtful(m))' <=> DoubtNow(m)
       /\ \A m \in Messages : (Lost(m))' <=> LostNow(m)
  BY DEF Left, Doubtful, Lost, Befell
<1>11. nextUid \in Nat \ {0} /\ nextUid' \in Nat \ {0} /\ nextUid <= nextUid'
  BY <1>1 DEF TypeInv
<1>12. \A x \in DOMAIN reqs : reqs[x].m \in Messages /\ reqs'[x].m = reqs[x].m /\ reqs'[x].kind = reqs[x].kind
                              /\ reqs'[x].text = reqs[x].text /\ reqs'[x].uid = reqs[x].uid
  BY <1>1, <1>3, <1>4, ReqIs
<1> HIDE DEF q
<1>13. TypeInv'
  BY <1>1, <1>3, <1>7, <1>11 DEF TypeInv, Grows
<1>14. LinkInv'
  <2>1. \A i \in DOMAIN mounts : mounts[i].req # 0 =>
          /\ mounts[i].chain # <<>> /\ mounts[i].req \in DOMAIN reqs
          /\ reqs'[mounts[i].req].kind = "save" /\ reqs'[mounts[i].req].m = mounts[i].m
    BY <1>1, <1>12 DEF LinkInv
  <2>2. \A o \in DOMAIN outbox : outbox[o].at = "posted" =>
          /\ outbox[o].req \in DOMAIN reqs /\ reqs'[outbox[o].req].kind = "send"
          /\ reqs'[outbox[o].req].m = outbox[o].m /\ reqs'[outbox[o].req].text = outbox[o].text
    BY <1>1, <1>12 DEF LinkInv
  <2>3. \A x \in DOMAIN reqs : reqs'[x].kind = "send" /\ reqs'[x].at \in {"handed", "done"} =>
          \E s \in DOMAIN sent' : sent'[s] = [m |-> reqs'[x].m, text |-> reqs'[x].text]
    <3>1. SUFFICES ASSUME NEW x \in DOMAIN reqs, reqs'[x].kind = "send", reqs'[x].at \in {"handed", "done"}
                   PROVE  \E s \in DOMAIN sent' : sent'[s] = [m |-> reqs'[x].m, text |-> reqs'[x].text]
      OBVIOUS
    <3>2. CASE x # r
      <4>1. PICK s \in DOMAIN sent : sent[s] = [m |-> reqs[x].m, text |-> reqs[x].text]
        BY <1>1, <1>3, <3>1, <3>2 DEF LinkInv
      <4> QED BY <1>3, <1>7, <3>2, <4>1
    <3>3. CASE x = r
      <4>1. PICK s \in DOMAIN sent' : sent'[s].m = q.m /\ sent'[s].text = q.text
        BY <1>3, <1>4, <3>1, <3>3
      <4>2. sent'[s] \in SentRow
        BY <1>7, LenProperties, ElementOfSeq
      <4>3. sent'[s] = [m |-> q.m, text |-> q.text]
        BY <4>1, <4>2 DEF SentRow
      <4> QED BY <1>3, <1>4, <3>3, <4>3
    <3> QED BY <3>2, <3>3
  <2>4. \A x \in DOMAIN reqs : reqs'[x].at = "handed" => reqs'[x].kind = "send"
    BY <1>1, <1>3, <1>4 DEF LinkInv
  <2>5. /\ \A i \in DOMAIN mounts : mounts[i].key \in 1..i
        /\ \A i, j \in DOMAIN mounts : mounts[i].key = mounts[j].key => mounts[i].m = mounts[j].m
        /\ cur # 0 => ~mounts[cur].fin
    BY <1>1 DEF LinkInv
  <2> QED BY <1>1, <1>3, <2>1, <2>2, <2>3, <2>4, <2>5 DEF LinkInv
<1>15. NewInv'
  <2>1. SUFFICES ASSUME NEW m \in Messages, \A i \in DOMAIN mounts : mounts[i].m # m
                 PROVE  /\ typed[m] = 0
                        /\ \A o \in DOMAIN outbox : outbox[o].m # m
                        /\ \A x \in DOMAIN reqs : reqs'[x].m # m
                        /\ \A s \in DOMAIN sent' : sent'[s].m # m
    BY <1>1, <1>3 DEF NewInv
  <2>2. /\ typed[m] = 0
        /\ \A o \in DOMAIN outbox : outbox[o].m # m
        /\ \A x \in DOMAIN reqs : reqs[x].m # m
        /\ \A s \in DOMAIN sent : sent[s].m # m
    BY <1>1, <2>1 DEF NewInv
  <2>3. new.m # m
    BY <1>5, <2>2 DEF q
  <2> QED BY <1>7, <1>12, <2>2, <2>3
<1>16. UidInv'
  <2>1. \A u \in Nat, m \in Messages : Owned(u, m) => (Owned(u, m))'
    <3>1. SUFFICES ASSUME NEW u \in Nat, NEW m \in Messages, Owned(u, m) PROVE (Owned(u, m))'
      OBVIOUS
    <3>2. u < nextUid /\ \A e \in drafts : e.uid = u => e.m = m
      BY <3>1 DEF Owned
    <3>3. \A e \in drafts' : e.uid = u => e.m = m
      <4>1. \A e \in drafts' \ drafts : e.uid = nextUid
        BY <1>4
      <4>2. u # nextUid
        BY <1>11, <3>2
      <4> QED BY <3>2, <4>1, <4>2
    <3>4. u < nextUid'
      BY <1>11, <3>2
    <3> QED BY <3>3, <3>4 DEF Owned
  <2>2. PICK w, k : w = z.result /\ k = q.m
    OBVIOUS
  <2>3. (Owned(w, k))'
    <3>1. CASE w = q.result
      <4>1. Owned(q.result, q.m) /\ q.result \in Nat
        BY <1>1, <1>2 DEF UidInv, q, ReqRow
      <4> QED BY <1>2, <2>1, <2>2, <3>1, <4>1
    <3>2. CASE w = nextUid /\ nextUid' = nextUid + 1
      <4>1. \A e \in drafts : e.uid # nextUid
        BY <1>1, <1>11 DEF UidInv, TypeInv, DraftRow
      <4>2. \A e \in drafts' : e.uid = w => e.m = k
        BY <1>4, <2>2, <3>2, <4>1
      <4>3. w < nextUid'
        BY <1>11, <3>2
      <4> QED BY <4>2, <4>3 DEF Owned
    <3> QED BY <1>4, <2>2, <3>1, <3>2
  <2>4. \A x \in DOMAIN reqs : (Owned(reqs[x].uid, reqs[x].m))' /\ (Owned(reqs[x].result, reqs[x].m))'
    <3>1. SUFFICES ASSUME NEW x \in DOMAIN reqs
                   PROVE  (Owned(reqs[x].uid, reqs[x].m))' /\ (Owned(reqs[x].result, reqs[x].m))'
      OBVIOUS
    <3>2. PICK u, v, m : u = reqs[x].uid /\ v = reqs[x].result /\ m = reqs[x].m
      OBVIOUS
    <3>3. (Owned(u, m))' /\ (Owned(v, m))'
      <4>1. u \in Nat /\ v \in Nat /\ m \in Messages
        BY <1>1, <3>2, ReqIs DEF ReqRow
      <4>2. Owned(u, m) /\ Owned(v, m)
        BY <1>1, <3>2 DEF UidInv
      <4> QED BY <2>1, <4>1, <4>2
    <3>4. u = reqs'[x].uid /\ m = reqs'[x].m
      BY <1>12, <3>2
    <3>5. CASE x # r
      BY <1>3, <3>2, <3>3, <3>4, <3>5
    <3>6. CASE x = r
      BY <1>3, <1>4, <2>2, <2>3, <3>3, <3>4, <3>6
    <3> QED BY <3>5, <3>6
  <2>5. \A i \in DOMAIN mounts :
          /\ (Owned(mounts[i].uid, mounts[i].m))'
          /\ \A b \in DOMAIN mounts[i].building : (Owned(mounts[i].building[b].uid, mounts[i].m))'
    <3>1. SUFFICES ASSUME NEW i \in DOMAIN mounts
                   PROVE  /\ (Owned(mounts[i].uid, mounts[i].m))'
                          /\ \A b \in DOMAIN mounts[i].building : (Owned(mounts[i].building[b].uid, mounts[i].m))'
      OBVIOUS
    <3>2. PICK c : c = mounts[i]
      OBVIOUS
    <3>3. (Owned(c.uid, c.m))' /\ \A b \in DOMAIN c.building : (Owned(c.building[b].uid, c.m))'
      <4>1. c \in MountRow
        BY <1>1, <3>2, MountIs
      <4>2. \A b \in DOMAIN c.building : c.building[b] \in BodyRow
        BY <4>1, LenProperties, ElementOfSeq DEF MountRow
      <4>3. c.uid \in Nat /\ c.m \in Messages /\ \A b \in DOMAIN c.building : c.building[b].uid \in Nat
        BY <4>1, <4>2 DEF MountRow, BodyRow
      <4>4. Owned(c.uid, c.m) /\ \A b \in DOMAIN c.building : Owned(c.building[b].uid, c.m)
        BY <1>1, <3>2 DEF UidInv
      <4> QED BY <2>1, <4>3, <4>4
    <3> QED BY <1>1, <3>2, <3>3
  <2>6. \A o \in DOMAIN outbox : (Owned(outbox[o].uid, outbox[o].m))'
    <3>1. SUFFICES ASSUME NEW o \in DOMAIN outbox
                   PROVE  (Owned(outbox[o].uid, outbox[o].m))'
      OBVIOUS
    <3>2. PICK p : p = outbox[o]
      OBVIOUS
    <3>3. (Owned(p.uid, p.m))'
      <4>1. p.uid \in Nat /\ p.m \in Messages
        BY <1>1, <3>2, OutIs DEF OutRow
      <4> QED BY <1>1, <2>1, <3>2, <4>1 DEF UidInv
    <3> QED BY <1>1, <3>2, <3>3
  <2>7. \A e \in drafts' : e.uid < nextUid'
    <3>1. \A e \in drafts : e.uid < nextUid /\ e.uid \in Nat
      BY <1>1 DEF UidInv, TypeInv, DraftRow
    <3> QED BY <1>4, <1>11, <3>1
  <2> QED BY <1>1, <1>3, <2>4, <2>5, <2>6, <2>7 DEF UidInv
<1>17. TextInv'
  <2>1. \A x \in DOMAIN reqs : reqs'[x].text <= typed[reqs'[x].m]
    BY <1>1, <1>12 DEF TextInv
  <2>2. \A e \in drafts' : e.text <= typed[e.m]
    <3>1. \A e \in drafts' \ drafts : e.m = q.m /\ e.text = q.text
      BY <1>4
    <3>2. q.text <= typed[q.m]
      BY <1>1 DEF TextInv, q
    <3> QED BY <1>1, <3>1, <3>2 DEF TextInv
  <2> QED BY <1>1, <1>3, <2>1, <2>2 DEF TextInv
<1>18. ActiveInv'
  <2> HIDE DEF Gone
  <2>1. \A i, j \in DOMAIN mounts : mounts[i].m = mounts[j].m /\ Active(i) /\ Active(j) => i = j \/ Gone(mounts[i].m)
    BY <1>1, <1>8, <1>9 DEF ActiveInv
  <2>2. \A i \in DOMAIN mounts, o \in DOMAIN outbox :
          mounts[i].m = outbox[o].m /\ Active(i) /\ Pending(o) => Gone(mounts[i].m)
    BY <1>1, <1>8, <1>9 DEF ActiveInv
  <2>3. \A o, p \in DOMAIN outbox :
          outbox[o].m = outbox[p].m /\ Pending(o) /\ Pending(p) => o = p \/ Gone(outbox[o].m)
    BY <1>1, <1>8, <1>9 DEF ActiveInv
  <2>4. \A i \in DOMAIN mounts : i # cur =>
          \/ Gone(mounts[i].m)
          \/ /\ mounts[i].pressed = 0 /\ mounts[i].building = <<>>
             /\ \A j \in DOMAIN mounts[i].chain : mounts[i].chain[j] = "save"
    BY <1>1, <1>8, <1>9 DEF ActiveInv
  <2>5. /\ \A i \in DOMAIN mounts : (Left(mounts[i].m))' <=> Gone(mounts[i].m)
        /\ \A o \in DOMAIN outbox : (Left(outbox[o].m))' <=> Gone(outbox[o].m)
    BY <1>1 DEF Left, Gone
  <2> QED BY <1>1, <1>9, <2>1, <2>2, <2>3, <2>4, <2>5 DEF ActiveInv
<1>19. SendInv'
  <2> HIDE DEF Gone, DoubtNow
  <2>1. q.at = "collected" /\ q.kind = "send" =>
          \/ DoubtNow(q.m)
          \/ \E o \in DOMAIN outbox : outbox[o].at = "posted" /\ outbox[o].req = r /\ outbox[o].m = q.m
    BY <1>1, <1>2, <1>8 DEF SendInv, LinkInv, q
  <2>2. \A m \in Messages : Left(m) => DoubtNow(m)
    BY <1>8 DEF Doubtful
  <2>3. \A o \in DOMAIN outbox : outbox[o].at = "posted" => Pending(o)
    BY DEF Pending
  <2>4. \A x \in DOMAIN reqs : reqs'[x].kind = "send" /\ reqs'[x].at \in {"posted", "collected"} =>
          \/ DoubtNow(reqs'[x].m)
          \/ \E o \in DOMAIN outbox : outbox[o].at = "posted" /\ outbox[o].req = x
    <3>1. \A x \in DOMAIN reqs : reqs'[x].at \in {"posted", "collected"} => reqs[x].at \in {"posted", "collected"}
      BY <1>3, <1>4 DEF q
    <3> QED BY <1>1, <1>8, <1>12, <3>1 DEF SendInv
  <2>5. \A s \in DOMAIN sent', i \in DOMAIN mounts : mounts[i].m = sent'[s].m /\ Active(i) => DoubtNow(sent'[s].m)
    <3>1. SUFFICES ASSUME NEW s \in DOMAIN sent', NEW i \in DOMAIN mounts, mounts[i].m = sent'[s].m, Active(i)
                   PROVE  DoubtNow(sent'[s].m)
      OBVIOUS
    <3>2. CASE s \in DOMAIN sent
      BY <1>1, <1>7, <1>8, <1>9, <3>1, <3>2 DEF SendInv
    <3>3. CASE s \notin DOMAIN sent
      <4>1. sent'[s].m = q.m /\ q.at = "collected" /\ q.kind = "send"
        BY <1>5, <1>7, <3>3
      <4>2. \A o \in DOMAIN outbox : outbox[o].m = q.m /\ Pending(o) => Left(q.m)
        BY <1>1, <3>1, <4>1 DEF ActiveInv
      <4> QED BY <1>2, <2>1, <2>2, <2>3, <4>1, <4>2
    <3> QED BY <3>2, <3>3
  <2>6. \A s \in DOMAIN sent', o \in DOMAIN outbox : outbox[o].m = sent'[s].m /\ Pending(o) =>
          \/ outbox[o].at = "posted" /\ reqs'[outbox[o].req].at \in {"handed", "done"}
          \/ DoubtNow(sent'[s].m)
    <3>1. SUFFICES ASSUME NEW s \in DOMAIN sent', NEW o \in DOMAIN outbox, outbox[o].m = sent'[s].m, Pending(o)
                   PROVE  \/ outbox[o].at = "posted" /\ reqs'[outbox[o].req].at \in {"handed", "done"}
                          \/ DoubtNow(sent'[s].m)
      OBVIOUS
    <3>2. CASE s \in DOMAIN sent
      <4>1. InHand(o) \/ DoubtNow(sent'[s].m)
        BY <1>1, <1>7, <1>8, <1>9, <3>1, <3>2 DEF SendInv
      <4>2. CASE InHand(o)
        <5>1. outbox[o].at = "posted" /\ reqs[outbox[o].req].at \in {"handed", "done"} /\ outbox[o].req \in DOMAIN reqs
          BY <1>1, <4>2 DEF InHand, LinkInv
        <5>2. CASE outbox[o].req # r
          BY <1>3, <5>1, <5>2
        <5>3. CASE outbox[o].req = r
          <6>1. q.at = "handed"
            BY <1>4, <5>1, <5>3 DEF q
          <6>2. q.kind = "send"
            BY <1>1, <6>1 DEF LinkInv, q
          <6> QED BY <1>3, <1>4, <5>1, <5>3, <6>1, <6>2
        <5> QED BY <5>2, <5>3
      <4> QED BY <4>1, <4>2
    <3>3. CASE s \notin DOMAIN sent
      <4>1. sent'[s].m = q.m /\ q.at = "collected" /\ q.kind = "send" /\ (z.at = "handed" \/ DoubtNow(q.m))
        BY <1>5, <1>7, <3>3
      <4>2. \A p \in DOMAIN outbox : outbox[p].m = q.m /\ Pending(p) => p = o \/ Left(q.m)
        BY <1>1, <3>1, <4>1 DEF ActiveInv
      <4> QED BY <1>2, <1>3, <2>1, <2>2, <2>3, <4>1, <4>2
    <3> QED BY <3>2, <3>3
  <2>7. \A s, t \in DOMAIN sent' : sent'[s].m = sent'[t].m => s = t \/ DoubtNow(sent'[s].m)
    <3>1. \A s, t \in DOMAIN sent : sent[s].m = sent[t].m => s = t \/ DoubtNow(sent[s].m)
      BY <1>1, <1>8, SentIs DEF SendInv
    <3>2. ASSUME NEW s \in DOMAIN sent', s \notin DOMAIN sent, NEW t \in DOMAIN sent, sent[t].m = sent'[s].m
          PROVE  DoubtNow(sent'[s].m)
      <4>1. sent'[s].m = q.m /\ q.at = "collected" /\ q.kind = "send"
        BY <1>5, <1>7, <3>2
      <4>2. \A o \in DOMAIN outbox : outbox[o].m = q.m /\ Pending(o) => InHand(o) \/ DoubtNow(q.m)
        BY <1>1, <1>2, <1>8, <3>2, <4>1 DEF SendInv
      <4>3. \A o \in DOMAIN outbox : outbox[o].req = r => ~InHand(o)
        BY <4>1 DEF InHand, q
      <4> QED BY <2>1, <2>3, <4>1, <4>2, <4>3
    <3> QED BY <1>7, <3>1, <3>2
  <2>8. /\ \A x \in DOMAIN reqs : (Doubtful(reqs[x].m))' <=> DoubtNow(reqs'[x].m)
        /\ \A s \in DOMAIN sent' : (Doubtful(sent[s].m))' <=> DoubtNow(sent'[s].m)
    BY DEF Doubtful, Left, DoubtNow, Gone
  <2>9. \A o \in DOMAIN outbox :
          (InHand(o))' <=> outbox[o].at = "posted" /\ reqs'[outbox[o].req].at \in {"handed", "done"}
    BY <1>1 DEF InHand
  <2> QED BY <1>1, <1>3, <1>9, <2>4, <2>5, <2>6, <2>7, <2>8, <2>9 DEF SendInv
<1>20. \A m \in Messages : Safe(m) => LostNow(m) \/ (Safe(m))'
  <2> HIDE DEF LostNow
  <2>1. SUFFICES ASSUME NEW m \in Messages, Safe(m), ~LostNow(m) PROVE (Safe(m))'
    OBVIOUS
  <2>2. CASE typed[m] = 0
    BY <1>1, <2>2 DEF Safe
  <2>3. CASE \E i \in DOMAIN sent : sent[i].m = m /\ sent[i].text = typed[m]
    <3>1. \E i \in DOMAIN sent' : sent'[i].m = m /\ sent'[i].text = typed[m]
      BY <1>7, <2>3
    <3> QED BY <1>1, <3>1 DEF Safe
  <2>4. CASE \E d \in drafts : d.m = m /\ d.text = typed[m]
    <3>1. PICK d \in drafts : d.m = m /\ d.text = typed[m]
      BY <2>4
    <3>2. CASE d \in drafts'
      BY <1>1, <3>1, <3>2 DEF Safe
    <3>3. CASE d \notin drafts'
      <4>1. d.uid = q.uid /\ (stored \/ accepted)
        BY <1>4, <3>3
      <4>2. q.m = m
        BY <1>1, <3>1, <4>1 DEF UidInv, Owned, q
      <4>3. ~Lost(m)
        BY <1>8, <2>1
      <4>4. d.text <= q.text
        BY <1>1, <1>4, <4>1, <4>2, <4>3 DEF KeepInv, q
      <4>5. q.text <= typed[m] /\ q.text \in Nat /\ typed[m] \in Nat
        BY <1>1, <1>2, <4>2 DEF TextInv, TypeInv, ReqRow, q
      <4>6. q.text = typed[m]
        BY <3>1, <4>4, <4>5
      <4> QED BY <1>1, <4>1, <4>2, <4>6 DEF Safe
    <3> QED BY <3>2, <3>3
  <2> QED BY <2>1, <2>2, <2>3, <2>4 DEF Safe
<1>21. KeepInv'
  <2> HIDE DEF LostNow
  <2>1. \A i \in DOMAIN mounts : Active(i) => LostNow(mounts[i].m) \/ (HoldsNewest(i))'
    <3>1. SUFFICES ASSUME NEW i \in DOMAIN mounts, Active(i), ~LostNow(mounts[i].m) PROVE (HoldsNewest(i))'
      OBVIOUS
    <3>2. PICK c : c = mounts[i]
      OBVIOUS
    <3>3. PICK t : t = typed[c.m]
      OBVIOUS
    <3>4. HoldsNewest(i)
      BY <1>1, <1>8, <1>9, <3>1 DEF KeepInv
    <3>5. /\ c.text = t
          /\ \A b \in DOMAIN c.building : c.building[b].text = t
          /\ c.last[1] = t => Safe(c.m)
          /\ c.req # 0 => /\ reqs[c.req].text = t \/ (i = cur /\ Head(c.chain) = "save")
                          /\ reqs[c.req].text = t /\ reqs[c.req].at = "done" => Safe(c.m)
      BY <3>2, <3>3, <3>4 DEF HoldsNewest
    <3>6. Safe(c.m) => (Safe(c.m))'
      BY <1>9, <1>20, <3>1, <3>2
    <3>7. ASSUME c.req # 0, reqs'[c.req].text = t, reqs'[c.req].at = "done" PROVE (Safe(c.m))'
      <4>1. c.req \in DOMAIN reqs /\ reqs[c.req].kind = "save" /\ reqs[c.req].m = c.m
        BY <1>1, <3>2, <3>7 DEF LinkInv
      <4>2. CASE c.req # r
        BY <1>3, <3>5, <3>6, <3>7, <4>1, <4>2
      <4>3. CASE c.req = r
        <5>1. \E e \in drafts' : e.m = c.m /\ e.text = t
          BY <1>3, <1>4, <3>7, <4>1, <4>3 DEF q
        <5> QED BY <1>1, <3>3, <5>1 DEF Safe
      <4> QED BY <4>2, <4>3
    <3>8. c.req # 0 => reqs'[c.req].text = reqs[c.req].text
      BY <1>1, <1>12, <3>2 DEF LinkInv
    <3>9. c = mounts'[i] /\ t = typed'[c.m] /\ cur' = cur
      BY <1>1, <3>2, <3>3
    <3>10. /\ c.last[1] = t => (Safe(c.m))'
           /\ c.req # 0 => /\ reqs'[c.req].text = t \/ (i = cur' /\ Head(c.chain) = "save")
                           /\ reqs'[c.req].text = t /\ reqs'[c.req].at = "done" => (Safe(c.m))'
      BY <3>5, <3>6, <3>7, <3>8, <3>9
    <3>11. /\ mounts'[i].text = typed'[mounts'[i].m]
           /\ \A b \in DOMAIN mounts'[i].building : mounts'[i].building[b].text = typed'[mounts'[i].m]
      BY <3>5, <3>9
    <3>12. (Safe(c.m))' <=> (Safe(mounts[i].m))'
      BY <3>9
    <3> QED BY <3>9, <3>10, <3>11, <3>12 DEF HoldsNewest
  <2>2. \A o \in DOMAIN outbox : Pending(o) =>
          \/ LostNow(outbox[o].m)
          \/ outbox[o].text = typed[outbox[o].m] /\ outbox[o].rtext = typed[outbox[o].m]
    BY <1>1, <1>8, <1>9 DEF KeepInv
  <2>3. \A x \in DOMAIN reqs : reqs'[x].at \in {"posted", "collected", "handed"} =>
          LostNow(reqs'[x].m) \/ \A d \in drafts' : d.uid = reqs'[x].uid => d.text <= reqs'[x].text
    <3>1. SUFFICES ASSUME NEW x \in DOMAIN reqs, reqs'[x].at \in {"posted", "collected", "handed"},
                          ~LostNow(reqs'[x].m), NEW d \in drafts', d.uid = reqs'[x].uid
                   PROVE  d.text <= reqs'[x].text
      OBVIOUS
    <3>2. reqs[x].at \in {"posted", "collected", "handed"}
      BY <1>3, <1>4, <3>1 DEF q
    <3>3. reqs[x].uid < nextUid /\ reqs[x].uid \in Nat
      BY <1>1, ReqIs DEF UidInv, Owned, ReqRow
    <3>4. d \in drafts
      BY <1>4, <1>11, <1>12, <3>1, <3>3
    <3> QED BY <1>1, <1>8, <1>12, <3>1, <3>2, <3>4 DEF KeepInv
  <2>4. \A m \in Messages \ dropped :
          \/ LostNow(m) \/ (Safe(m))'
          \/ \E i \in DOMAIN mounts : mounts[i].m = m /\ Active(i)
          \/ \E o \in DOMAIN outbox : outbox[o].m = m /\ Pending(o)
    BY <1>1, <1>8, <1>20 DEF KeepInv
  <2>5. away => /\ \A i \in DOMAIN mounts : Active(i) => LostNow(mounts[i].m)
                /\ \A o \in DOMAIN outbox : Pending(o) => LostNow(outbox[o].m)
    BY <1>1, <1>8, <1>9 DEF KeepInv
  <2>6. /\ \A i \in DOMAIN mounts : (Lost(mounts[i].m))' <=> LostNow(mounts[i].m)
        /\ \A o \in DOMAIN outbox : (Lost(outbox[o].m))' <=> LostNow(outbox[o].m)
        /\ \A x \in DOMAIN reqs : (Lost(reqs[x].m))' <=> LostNow(reqs'[x].m)
        /\ \A m \in Messages : (Lost(m))' <=> LostNow(m)
    BY <1>1 DEF Lost, LostNow, Befell
  <2> QED BY <1>1, <1>3, <1>9, <2>1, <2>2, <2>3, <2>4, <2>5, <2>6 DEF KeepInv
<1> QED BY <1>13, <1>14, <1>15, <1>16, <1>17, <1>18, <1>19, <1>21 DEF IInv

\* What becomes of a request at a step of the server.
Becomes(r, z, at, v) ==
  /\ reqs' = [reqs EXCEPT ![r] = z] /\ reqs'[r] = z
  /\ z.kind = reqs[r].kind /\ z.m = reqs[r].m /\ z.text = reqs[r].text /\ z.uid = reqs[r].uid
  /\ z.at = at /\ z.result = v

LEMMA StepIs ==
  ASSUME IInv, NEW r \in DOMAIN reqs, NEW at \in {"posted", "collected", "handed", "done", "failed"}, Step(r, at)
  PROVE  \E z \in ReqRow : Becomes(r, z, at, reqs[r].result)
<1>1. PICK q \in ReqRow : q = reqs[r]
  BY Parts, ReqIs
<1>2. PICK z : z = [q EXCEPT !.at = at]
  OBVIOUS
<1>3. z \in ReqRow
  BY <1>2 DEF ReqRow
<1>4. z.kind = q.kind /\ z.m = q.m /\ z.text = q.text /\ z.uid = q.uid /\ z.at = at /\ z.result = q.result
  BY <1>2 DEF ReqRow
<1>5. reqs' = [reqs EXCEPT ![r] = z]
  BY <1>1, <1>2 DEF Step
<1>6. reqs'[r] = z
  BY <1>3, <1>5, Parts, Put DEF TypeInv
<1> QED BY <1>1, <1>3, <1>4, <1>5, <1>6 DEF Becomes

LEMMA DoneIs ==
  ASSUME IInv, NEW r \in DOMAIN reqs, NEW v \in Nat, reqs' = [reqs EXCEPT ![r].at = "done", ![r].result = v]
  PROVE  \E z \in ReqRow : Becomes(r, z, "done", v)
<1>1. PICK q \in ReqRow : q = reqs[r]
  BY Parts, ReqIs
<1>2. PICK z : z = [q EXCEPT !.at = "done", !.result = v]
  OBVIOUS
<1>3. z \in ReqRow
  BY <1>2 DEF ReqRow
<1>4. z.kind = q.kind /\ z.m = q.m /\ z.text = q.text /\ z.uid = q.uid /\ z.at = "done" /\ z.result = v
  BY <1>2 DEF ReqRow
<1>5. reqs' = [reqs EXCEPT ![r] = z]
  BY <1>1, <1>2
<1>6. reqs'[r] = z
  BY <1>3, <1>5, Parts, Put DEF TypeInv
<1> QED BY <1>1, <1>3, <1>4, <1>5, <1>6 DEF Becomes

LEMMA AbortKeeps ==
  ASSUME IInv, NEW r \in DOMAIN reqs, Abort(r)
  PROVE  IInv'
<1>1. /\ UNCHANGED <<mounts, cur, outbox, away, typed, dropped>> /\ UNCHANGED <<drafts, nextUid, sent, cause>>
      /\ reqs[r].at = "posted" /\ Step(r, "failed")
  BY DEF Abort, folder, tab, Step
<1>2. Grows /\ drafts' \in SUBSET DraftRow /\ nextUid' = nextUid
  BY <1>1, Parts, StaysPut DEF TypeInv
<1>3. PICK z \in ReqRow : Becomes(r, z, "failed", reqs[r].result)
  BY <1>1, StepIs
<1>4. Serves(r)
  BY <1>1, <1>3 DEF Serves, Becomes
<1>5. reqs' = [reqs EXCEPT ![r] = z]
  BY <1>3 DEF Becomes
<1> QED BY <1>1, <1>2, <1>4, <1>5, ServerKeeps

LEMMA CollectKeeps ==
  ASSUME IInv, NEW r \in DOMAIN reqs, Collect(r)
  PROVE  IInv'
<1>1. PICK at \in {"collected", "failed"} : Step(r, at)
  BY DEF Collect
<1>2. /\ UNCHANGED <<mounts, cur, outbox, away, typed, dropped>> /\ UNCHANGED <<drafts, nextUid, sent, cause>>
      /\ reqs[r].at = "posted"
  BY DEF Collect, folder, tab
<1>3. Grows /\ drafts' \in SUBSET DraftRow /\ nextUid' = nextUid
  BY <1>2, Parts, StaysPut DEF TypeInv
<1>4. PICK z \in ReqRow : Becomes(r, z, at, reqs[r].result)
  BY <1>1, StepIs
<1>5. Serves(r)
  BY <1>2, <1>4 DEF Serves, Becomes
<1>6. reqs' = [reqs EXCEPT ![r] = z]
  BY <1>4 DEF Becomes
<1> QED BY <1>2, <1>3, <1>5, <1>6, ServerKeeps

\* Postfix takes the message, or not, and the user may not be told.
LEMMA SubmitKeeps ==
  ASSUME IInv, NEW r \in DOMAIN reqs, Submit(r)
  PROVE  IInv'
<1>1. PICK q \in ReqRow : q = reqs[r]
  BY Parts, ReqIs
<1>2. /\ UNCHANGED <<mounts, cur, outbox, away, typed, dropped>> /\ UNCHANGED <<drafts, nextUid>>
      /\ q.kind = "send" /\ q.at = "collected"
  BY <1>1 DEF Submit, folder, tab
<1>3. PICK new : new = [m |-> q.m, text |-> q.text]
  OBVIOUS
<1>4. new \in SentRow /\ drafts' \in SUBSET DraftRow /\ sent \in Seq(SentRow) /\ q.m \in Messages
  BY <1>1, <1>2, <1>3, Parts DEF TypeInv, ReqRow, SentRow
<1>5. PICK at \in {"handed", "failed"} :
        /\ Step(r, at)
        /\ \/ sent' = Append(sent, new) /\ at = "handed" /\ cause' = cause
           \/ sent' = sent /\ cause' = cause
           \/ sent' = Append(sent, new) /\ cause' = Marked({<<q.m, "unsure">>})
  BY <1>1, <1>3 DEF Submit
<1>6. PICK z \in ReqRow : Becomes(r, z, at, q.result)
  BY <1>1, <1>5, StepIs
<1>7. /\ reqs' = [reqs EXCEPT ![r] = z] /\ reqs'[r] = z
      /\ z.kind = q.kind /\ z.m = q.m /\ z.text = q.text /\ z.uid = q.uid /\ z.at = at /\ z.result = q.result
  BY <1>1, <1>6 DEF Becomes
<1>8. Grows /\ (cause' = Marked({<<q.m, "unsure">>}) => "unsure" \in cause'[q.m])
  BY <1>4, <1>5, Parts, StaysPut, MarkedIs, CausesAre
<1>9. sent' = Append(sent, new) => \E s \in DOMAIN sent' : sent'[s].m = q.m /\ sent'[s].text = q.text
  BY <1>3, <1>4, Added
<1>10. at = "handed" => sent' = Append(sent, new)
  <2>1. ASSUME at = "handed" PROVE ~Step(r, "failed")
    <3>1. ASSUME Step(r, "failed") PROVE FALSE
      <4>1. PICK y \in ReqRow : Becomes(r, y, "failed", q.result)
        BY <1>1, <3>1, StepIs
      <4> QED BY <1>7, <2>1, <4>1 DEF Becomes
    <3> QED BY <3>1
  <2> QED BY <1>1, <1>3, <2>1 DEF Submit
<1>11. Serves(r)
  BY <1>1, <1>2, <1>3, <1>5, <1>7, <1>8, <1>9, <1>10 DEF Serves
<1> QED BY <1>2, <1>4, <1>7, <1>8, <1>11, ServerKeeps

\* The draft goes only once Postfix has the message.
LEMMA TidyKeeps ==
  ASSUME IInv, NEW r \in DOMAIN reqs, Tidy(r)
  PROVE  IInv'
<1>1. PICK q \in ReqRow : q = reqs[r]
  BY Parts, ReqIs
<1>2. /\ UNCHANGED <<mounts, cur, outbox, away, typed, dropped>> /\ UNCHANGED <<nextUid, sent>>
      /\ q.at = "handed" /\ Step(r, "done")
  BY <1>1 DEF Tidy, tab
<1>3. PICK z \in ReqRow : Becomes(r, z, "done", q.result)
  BY <1>1, <1>2, StepIs
<1>4. q.kind = "send"
  BY <1>1, <1>2, Parts DEF LinkInv
<1>5. \E s \in DOMAIN sent' : sent'[s].m = q.m /\ sent'[s].text = q.text
  <2>1. PICK s \in DOMAIN sent : sent[s] = [m |-> q.m, text |-> q.text]
    BY <1>1, <1>2, <1>4, Parts DEF LinkInv
  <2> QED BY <1>2, <2>1
<1>6. Grows
  BY Parts, StaysPut, MarkedIs DEF Tidy
<1>7. drafts' \subseteq drafts /\ \A e \in drafts \ drafts' : e.uid = q.uid
  BY <1>1 DEF Tidy, Without
<1>8. drafts' \in SUBSET DraftRow
  BY <1>7, Parts DEF TypeInv
<1>9. Serves(r)
  BY <1>1, <1>2, <1>3, <1>4, <1>5, <1>7 DEF Serves, Becomes
<1>10. reqs' = [reqs EXCEPT ![r] = z]
  BY <1>3 DEF Becomes
<1> QED BY <1>2, <1>6, <1>8, <1>9, <1>10, ServerKeeps

\* The draft before goes only once the new one is there.
LEMMA StoreDraftKeeps ==
  ASSUME IInv, NEW r \in DOMAIN reqs, StoreDraft(r)
  PROVE  IInv'
<1>1. PICK q \in ReqRow : q = reqs[r]
  BY Parts, ReqIs
<1>2. /\ UNCHANGED <<mounts, cur, outbox, away, typed, dropped>> /\ sent' = sent
      /\ q.kind = "save" /\ q.at = "collected"
  BY <1>1 DEF StoreDraft, tab
<1>3. PICK e : e = Stored(r)
  OBVIOUS
<1>4. e \in DraftRow /\ e.uid = nextUid /\ e.m = q.m /\ e.text = q.text /\ nextUid \in Nat
  BY <1>1, <1>3, Parts DEF Stored, DraftRow, ReqRow, TypeInv
<1>5. Grows
  BY Parts, StaysPut, MarkedIs DEF StoreDraft
<1>6. CASE Step(r, "failed") /\ UNCHANGED <<drafts, nextUid>>
  <2>1. PICK z \in ReqRow : Becomes(r, z, "failed", q.result)
    BY <1>1, <1>6, StepIs
  <2>2. Serves(r)
    BY <1>1, <1>2, <1>6, <2>1 DEF Serves, Becomes
  <2>3. drafts' \in SUBSET DraftRow
    BY <1>6, Parts DEF TypeInv
  <2>4. reqs' = [reqs EXCEPT ![r] = z]
    BY <2>1 DEF Becomes
  <2> QED BY <1>2, <1>5, <1>6, <2>2, <2>3, <2>4, ServerKeeps
<1>7. CASE /\ drafts' \in {drafts \cup {e}, Without(q.uid) \cup {e}} /\ nextUid' = nextUid + 1
           /\ \/ reqs' = [reqs EXCEPT ![r].at = "done", ![r].result = nextUid]
              \/ Step(r, "failed")
  <2>1. PICK z \in ReqRow, at \in {"done", "failed"}, v \in {q.result, nextUid} : Becomes(r, z, at, v)
    <3>1. CASE reqs' = [reqs EXCEPT ![r].at = "done", ![r].result = nextUid]
      BY <1>4, <3>1, DoneIs
    <3>2. CASE Step(r, "failed")
      BY <1>1, <3>2, StepIs
    <3> QED BY <1>7, <3>1, <3>2
  <2>2. /\ e \in drafts' /\ \A d \in drafts' \ drafts : d = e
        /\ \A d \in drafts \ drafts' : d.uid = q.uid
    BY <1>7 DEF Without
  <2>3. Serves(r)
    BY <1>1, <1>2, <1>4, <1>7, <2>1, <2>2 DEF Serves, Becomes
  <2>4. drafts' \in SUBSET DraftRow
    BY <1>4, <2>2, Parts DEF TypeInv
  <2>5. reqs' = [reqs EXCEPT ![r] = z]
    BY <2>1 DEF Becomes
  <2> QED BY <1>2, <1>5, <1>7, <2>3, <2>4, <2>5, ServerKeeps
<1> QED BY <1>1, <1>3, <1>6, <1>7 DEF StoreDraft

-----------------------------------------------------------------------------
(* Leaving, and all the steps together.                                     *)

\* Nothing of it changes but what befell the messages, and that the tab is gone.
LEMMA ElsewhereKeeps ==
  ASSUME IInv, Grows, UNCHANGED <<mounts, cur, outbox, reqs, drafts, nextUid, sent, typed, dropped>>,
         away' => /\ \A i \in DOMAIN mounts : Active(i) => cause'[mounts[i].m] \cap MayLose # {}
                  /\ \A o \in DOMAIN outbox : Pending(o) => cause'[outbox[o].m] \cap MayLose # {}
  PROVE  IInv'
<1> DEFINE Gone(x) == "left" \in cause'[x]
           LostNow(x) == cause'[x] \cap MayLose # {}
           DoubtNow(x) == Gone(x) \/ "unsure" \in cause'[x]
<1>1. UNCHANGED <<mounts, cur, outbox, reqs, drafts, nextUid, sent, typed, dropped>>
  OBVIOUS
<1>2. TypeInv' /\ LinkInv' /\ NewInv' /\ UidInv' /\ TextInv'
  <2>1. TypeInv'
    BY <1>1, Parts DEF TypeInv, Grows
  <2>2. LinkInv'
    BY <1>1, Parts DEF LinkInv
  <2>3. NewInv'
    BY <1>1, Parts DEF NewInv
  <2>4. UidInv'
    BY <1>1, Parts DEF UidInv, Owned
  <2>5. TextInv'
    BY <1>1, Parts DEF TextInv
  <2> QED BY <2>1, <2>2, <2>3, <2>4, <2>5
<1>3. \A m \in Messages : /\ Left(m) => Gone(m)
                          /\ Doubtful(m) => DoubtNow(m)
                          /\ Lost(m) => LostNow(m)
  BY GrownCauses
<1>4. /\ \A i \in DOMAIN mounts : ((Active(i))' <=> Active(i)) /\ mounts[i].m \in Messages
      /\ \A o \in DOMAIN outbox : ((Pending(o))' <=> Pending(o)) /\ ((InHand(o))' <=> InHand(o)) /\ outbox[o].m \in Messages
      /\ \A r \in DOMAIN reqs : reqs[r].m \in Messages
      /\ \A s \in DOMAIN sent : sent[s].m \in Messages
  BY <1>1, Parts, MountIs, OutIs, ReqIs, SentIs DEF Active, AtWork, Pending, InHand
<1>5. /\ \A i \in DOMAIN mounts : ((Left(mounts[i].m))' <=> Gone(mounts[i].m)) /\ ((Lost(mounts[i].m))' <=> LostNow(mounts[i].m))
      /\ \A o \in DOMAIN outbox : ((Left(outbox[o].m))' <=> Gone(outbox[o].m)) /\ ((Lost(outbox[o].m))' <=> LostNow(outbox[o].m))
      /\ \A r \in DOMAIN reqs : ((Doubtful(reqs[r].m))' <=> DoubtNow(reqs[r].m)) /\ ((Lost(reqs[r].m))' <=> LostNow(reqs[r].m))
      /\ \A s \in DOMAIN sent : (Doubtful(sent[s].m))' <=> DoubtNow(sent[s].m)
      /\ \A m \in Messages : ((Lost(m))' <=> LostNow(m)) /\ ((Safe(m))' <=> Safe(m))
  BY <1>1 DEF Left, Doubtful, Lost, Befell, Safe
<1>6. away' => /\ \A i \in DOMAIN mounts : Active(i) => LostNow(mounts[i].m)
               /\ \A o \in DOMAIN outbox : Pending(o) => LostNow(outbox[o].m)
  OBVIOUS
<1>7. \A i \in DOMAIN mounts : (HoldsNewest(i))' <=> HoldsNewest(i)
  <2>1. SUFFICES ASSUME NEW i \in DOMAIN mounts PROVE (HoldsNewest(i))' <=> HoldsNewest(i)
    OBVIOUS
  <2>2. (Safe(mounts[i].m))' <=> Safe(mounts[i].m)
    BY <1>1 DEF Safe
  <2> QED BY <1>1, <2>2 DEF HoldsNewest
<1> HIDE DEF Gone, LostNow, DoubtNow
<1>8. ActiveInv'
  <2>1. /\ \A i, j \in DOMAIN mounts : mounts[i].m = mounts[j].m /\ Active(i) /\ Active(j) => i = j \/ Gone(mounts[i].m)
        /\ \A i \in DOMAIN mounts, o \in DOMAIN outbox :
             mounts[i].m = outbox[o].m /\ Active(i) /\ Pending(o) => Gone(mounts[i].m)
        /\ \A o, p \in DOMAIN outbox :
             outbox[o].m = outbox[p].m /\ Pending(o) /\ Pending(p) => o = p \/ Gone(outbox[o].m)
    BY <1>3, <1>4, Parts DEF ActiveInv
  <2>2. \A i \in DOMAIN mounts : i # cur =>
          \/ Gone(mounts[i].m)
          \/ /\ mounts[i].pressed = 0 /\ mounts[i].building = <<>>
             /\ \A j \in DOMAIN mounts[i].chain : mounts[i].chain[j] = "save"
    BY <1>3, <1>4, Parts DEF ActiveInv
  <2> QED BY <1>1, <1>4, <1>5, <2>1, <2>2 DEF ActiveInv
<1>9. SendInv'
  <2>1. \A r \in DOMAIN reqs : reqs[r].kind = "send" /\ reqs[r].at \in {"posted", "collected"} =>
          \/ DoubtNow(reqs[r].m)
          \/ \E o \in DOMAIN outbox : outbox[o].at = "posted" /\ outbox[o].req = r
    BY <1>3, <1>4, Parts DEF SendInv
  <2>2. /\ \A s \in DOMAIN sent, i \in DOMAIN mounts : mounts[i].m = sent[s].m /\ Active(i) => DoubtNow(sent[s].m)
        /\ \A s \in DOMAIN sent, o \in DOMAIN outbox :
             outbox[o].m = sent[s].m /\ Pending(o) => InHand(o) \/ DoubtNow(sent[s].m)
        /\ \A s, t \in DOMAIN sent : sent[s].m = sent[t].m => s = t \/ DoubtNow(sent[s].m)
    BY <1>3, <1>4, Parts DEF SendInv
  <2> QED BY <1>1, <1>4, <1>5, <2>1, <2>2 DEF SendInv
<1>10. KeepInv'
  <2>1. /\ \A i \in DOMAIN mounts : Active(i) => LostNow(mounts[i].m) \/ HoldsNewest(i)
        /\ \A o \in DOMAIN outbox : Pending(o) =>
             \/ LostNow(outbox[o].m)
             \/ outbox[o].text = typed[outbox[o].m] /\ outbox[o].rtext = typed[outbox[o].m]
    BY <1>3, <1>4, Parts DEF KeepInv
  <2>2. \A r \in DOMAIN reqs : reqs[r].at \in {"posted", "collected", "handed"} =>
          LostNow(reqs[r].m) \/ \A d \in drafts : d.uid = reqs[r].uid => d.text <= reqs[r].text
    BY <1>3, <1>4, Parts DEF KeepInv
  <2>3. \A m \in Messages \ dropped :
          \/ LostNow(m) \/ Safe(m)
          \/ \E i \in DOMAIN mounts : mounts[i].m = m /\ Active(i)
          \/ \E o \in DOMAIN outbox : outbox[o].m = m /\ Pending(o)
    BY <1>3, Parts DEF KeepInv
  <2> QED BY <1>1, <1>4, <1>5, <1>6, <1>7, <2>1, <2>2, <2>3 DEF KeepInv
<1> QED BY <1>2, <1>8, <1>9, <1>10 DEF IInv

\* What the tab was doing when it is left is marked as abandoned; no message is on its way then.
LEMMA LeaveKeeps ==
  ASSUME IInv, Leave
  PROVE  IInv'
<1>1. PICK marks :
        /\ cause' = Marked(marks)
        /\ marks = {<<mounts[i].m, "abandoned">> : i \in {j \in DOMAIN mounts : j = cur \/ AtWork(mounts[j])}}
                   \cup {<<outbox[o].m, "abandoned">> : o \in {q \in DOMAIN outbox : outbox[q].at = "toast"}}
  BY DEF Leave
<1>2. Grows /\ \A m \in Messages : <<m, "abandoned">> \in marks => cause'[m] \cap MayLose # {}
  <2>1. Grows /\ \A m \in Messages : <<m, "abandoned">> \in marks => "abandoned" \in cause'[m]
    BY <1>1, Parts, MarkedIs, CausesAre
  <2> QED BY <2>1 DEF MayLose
<1>3. \A i \in DOMAIN mounts : Active(i) => <<mounts[i].m, "abandoned">> \in marks
  BY <1>1 DEF Active
<1>4. \A o \in DOMAIN outbox : Pending(o) => <<outbox[o].m, "abandoned">> \in marks
  BY <1>1 DEF Pending, Leave, HasPendingSends
<1>5. UNCHANGED <<mounts, cur, outbox, reqs, drafts, nextUid, sent, typed, dropped>>
  BY DEF Leave, folder
<1>6. /\ \A i \in DOMAIN mounts : mounts[i].m \in Messages
      /\ \A o \in DOMAIN outbox : outbox[o].m \in Messages
  BY Parts, MountIs, OutIs
<1> QED BY <1>2, <1>3, <1>4, <1>5, <1>6, ElsewhereKeeps

LEMMA StutterKeeps ==
  ASSUME IInv, UNCHANGED vars
  PROVE  IInv'
<1>1. UNCHANGED <<mounts, cur, outbox, reqs, drafts, nextUid, sent, typed, dropped>> /\ cause' = cause /\ away' = away
  BY DEF vars, folder, tab
<1>2. Grows
  BY <1>1, Parts, StaysPut
<1>3. away => /\ \A i \in DOMAIN mounts : Active(i) => cause'[mounts[i].m] \cap MayLose # {}
              /\ \A o \in DOMAIN outbox : Pending(o) => cause'[outbox[o].m] \cap MayLose # {}
  BY <1>1, Parts DEF KeepInv, Lost, Befell
<1> QED BY <1>1, <1>2, <1>3, ElsewhereKeeps

LEMMA InitKeeps ==
  ASSUME Init
  PROVE  IInv
<1>1. /\ mounts = <<>> /\ cur = 0 /\ outbox = <<>> /\ reqs = <<>> /\ drafts = {} /\ nextUid = 1 /\ sent = <<>>
      /\ away = FALSE /\ typed = [m \in Messages |-> 0] /\ cause = [m \in Messages |-> {}]
  BY DEF Init
<1>2. DOMAIN mounts = {} /\ DOMAIN outbox = {} /\ DOMAIN reqs = {} /\ DOMAIN sent = {}
  BY <1>1
<1>3. TypeInv
  BY <1>1 DEF TypeInv
<1>4. LinkInv /\ NewInv /\ UidInv /\ TextInv
  BY <1>1, <1>2 DEF LinkInv, NewInv, UidInv, TextInv
<1>5. ActiveInv /\ SendInv
  BY <1>2 DEF ActiveInv, SendInv
<1>6. KeepInv
  BY <1>1, <1>2 DEF KeepInv, Safe
<1> QED BY <1>3, <1>4, <1>5, <1>6 DEF IInv

LEMMA NextKeeps ==
  ASSUME IInv, [Next]_vars
  PROVE  IInv'
<1>1. ASSUME NEW m \in Messages, Open(m) PROVE IInv'
  BY <1>1, OpenKeeps
<1>2. CASE Edit
  BY <1>2, EditKeeps
<1>3. CASE Attach
  BY <1>3, AttachKeeps
<1>4. CASE Autosave \/ AskClose \/ AskFlush
  BY <1>4, AsksKeep
<1>5. CASE Discard
  BY <1>5, DiscardKeeps
<1>6. CASE Move
  BY <1>6, MoveKeeps
<1>7. CASE Press
  BY <1>7, PressKeeps
<1>8. CASE Leave
  BY <1>8, LeaveKeeps
<1>9. ASSUME NEW i \in DOMAIN mounts,
             Deliver(i) \/ Begin(i) \/ Saved(i) \/ Unsaved(i) \/ QueueSend(i) \/ TooLarge(i)
      PROVE  IInv'
  BY <1>9, DeliverKeeps, BeginKeeps, SavedKeeps, UnsavedKeeps, QueueSendKeeps, TooLargeKeeps
<1>10. ASSUME NEW o \in DOMAIN outbox, Fire(o) \/ Undo(o) \/ EditMessage(o) \/ Settle(o) \/ ToastExpires(o)
       PROVE  IInv'
  <2>1. CASE Fire(o)
    BY <2>1, FireKeeps
  <2>2. CASE Undo(o)
    <3>1. Reopen(o, "window", "undone")
      BY <2>2 DEF Undo
    <3> QED BY <3>1, ReopenKeeps
  <2>3. CASE EditMessage(o)
    <3>1. Reopen(o, "toast", "edited")
      BY <2>3 DEF EditMessage
    <3> QED BY <3>1, ReopenKeeps
  <2>4. CASE Settle(o)
    BY <2>4, SettleKeeps
  <2>5. CASE ToastExpires(o)
    BY <2>5, ToastKeeps
  <2> QED BY <1>10, <2>1, <2>2, <2>3, <2>4, <2>5
<1>11. ASSUME NEW r \in DOMAIN reqs, Abort(r) \/ Collect(r) \/ StoreDraft(r) \/ Submit(r) \/ Tidy(r)
       PROVE  IInv'
  BY <1>11, AbortKeeps, CollectKeeps, StoreDraftKeeps, SubmitKeeps, TidyKeeps
<1>12. CASE UNCHANGED vars
  BY <1>12, StutterKeeps
<1> QED BY <1>1, <1>2, <1>3, <1>4, <1>5, <1>6, <1>7, <1>8, <1>9, <1>10, <1>11, <1>12 DEF Next

-----------------------------------------------------------------------------
(* What follows.                                                            *)

\* Whatever the user, the tab, the server and the failures between them do, a message is in one place:
\* the composer on screen, a chain of saves, a call of queueSend(), a request, or Postfix (Composer.tsx:100-342,
\* pendingSend.ts:35-81, send/routes.ts).
THEOREM Inductive == Spec => []IInv
<1>1. Init => IInv
  BY InitKeeps
<1>2. IInv /\ [Next]_vars => IInv'
  BY NextKeeps
<1> QED BY <1>1, <1>2, PTL DEF Spec

LEMMA OneCopy ==
  ASSUME IInv
  PROVE  RepeatsHaveCause
<1>1. SUFFICES ASSUME NEW m \in Messages, ~Befell(m, MayRepeat)
               PROVE  ~(Copies(m) > 1)
  BY DEF RepeatsHaveCause
<1>2. PICK S : S = {i \in DOMAIN sent : sent[i].m = m}
  OBVIOUS
<1>3. \A s, t \in S : s = t
  <2>1. ~Doubtful(m)
    BY <1>1 DEF Befell, MayRepeat, Doubtful, Left
  <2> QED BY <1>2, <2>1, Parts DEF SendInv
<1>4. CASE S = {}
  BY <1>2, <1>4, FS_EmptySet DEF Copies
<1>5. CASE S # {}
  <2>1. PICK s : S = {s}
    BY <1>3, <1>5
  <2>2. Cardinality(S) = 1
    BY <2>1, FS_Singleton
  <2> QED BY <1>2, <2>2 DEF Copies
<1> QED BY <1>4, <1>5

\* Postfix gets a message at most once, unless its answer or the app's was lost, or the composer was left
\* with its saves, or a second press of Send, under way (pendingSend.ts:35-81, send/routes.ts:118-127).
THEOREM SentOnce == Spec => []RepeatsHaveCause
BY Inductive, OneCopy, PTL

LEMMA Newest ==
  ASSUME IInv
  PROVE  NothingLost
<1>1. SUFFICES ASSUME NEW m \in Messages, m \notin dropped, typed[m] # 0, ~Befell(m, MayLose)
               PROVE  Kept(m)
  BY DEF NothingLost
<1>2. ~Lost(m)
  BY <1>1 DEF Lost
<1>3. CASE Safe(m)
  <2>1. CASE \E d \in drafts : d.m = m /\ d.text = typed[m]
    BY <2>1 DEF Kept, Drafted
  <2>2. CASE \E i \in DOMAIN sent : sent[i].m = m /\ sent[i].text = typed[m]
    <3>1. PICK i \in DOMAIN sent : sent[i].m = m /\ sent[i].text = typed[m]
      BY <2>2
    <3>2. sent[i] = [m |-> m, text |-> typed[m]]
      BY <3>1, Parts, SentIs DEF SentRow
    <3> QED BY <3>2 DEF Kept
  <2> QED BY <1>1, <1>3, <2>1, <2>2 DEF Safe
<1>4. CASE \E i \in DOMAIN mounts : mounts[i].m = m /\ Active(i)
  <2>1. PICK i \in DOMAIN mounts : mounts[i].m = m /\ Active(i)
    BY <1>4
  <2>2. ~away /\ HoldsNewest(i)
    BY <1>2, <2>1, Parts DEF KeepInv
  <2>3. mounts[i].text = typed[m] /\ i \in Mounted
    BY <2>1, <2>2, Parts, MountIs DEF HoldsNewest, Mounted
  <2> QED BY <2>1, <2>2, <2>3 DEF Kept, Active
<1>5. CASE \E o \in DOMAIN outbox : outbox[o].m = m /\ Pending(o)
  <2>1. PICK o \in DOMAIN outbox : outbox[o].m = m /\ Pending(o)
    BY <1>5
  <2>2. ~away /\ outbox[o].text = typed[m]
    BY <1>2, <2>1, Parts DEF KeepInv
  <2> QED BY <2>1, <2>2 DEF Kept, Pending
<1> QED BY <1>1, <1>2, <1>3, <1>4, <1>5, Parts DEF KeepInv

\* The newest version of a message is in Drafts, sent, queued or in a composer, unless it was discarded or one
\* of the named things befell it (Composer.tsx:128-342, pendingSend.ts:35-81, send/routes.ts).
THEOREM NewestKept == Spec => []NothingLost
BY Inductive, Newest, PTL
-----------------------------------------------------------------------------
(* The drafts of a message, and the files its attachments are read from.    *)

Whole(m) == ~Befell(m, MayLeaveDraft)
Clean(m) == ~Befell(m, MayRepeat \cup MayLeaveDraft)
Answered(r) == r # 0 /\ reqs[r].at = "done"
DraftsHave(m, uid) == \A d \in drafts : d.m = m => d.uid = uid

\* A composer knows the UID of its draft, or waits for a request that has the answer.
Knows(c) == DraftsHave(c.m, IF Answered(c.req) THEN reqs[c.req].result ELSE c.uid)
BuildsWith(c) ==
  /\ \A b \in DOMAIN c.building : c.building[b].att = c.att /\ c.building[b].uid = c.uid
  /\ c.building # <<>> => c.req = 0
HoldsFiles(c) ==
  /\ c.att \ {0} \subseteq {c.uid}
  /\ c.att \ {0} # {} => c.uid \in Uids \/ Answered(c.req)
  /\ Answered(c.req) => reqs[c.req].result \in Uids
QueuedFiles(p) ==
  /\ (p.att \cup p.ratt) \ {0} \subseteq {p.uid}
  /\ (p.att \cup p.ratt) \ {0} # {} =>
       p.uid \in Uids \/ (p.at = "posted" /\ reqs[p.req].at \in {"handed", "done"})

\* A message nothing befell that may leave a draft behind has one draft at most. Who has the message knows its
\* UID: a composer (one off the screen saves once more, no oftener), a call of queueSend(), a request. Only a composer
\* has it saved, and once it is sent only its request to send still has a draft to delete.
DraftInv ==
  /\ \A i \in DOMAIN mounts : Whole(mounts[i].m) /\ Active(i) =>
       /\ Knows(mounts[i])
       /\ i # cur => Len(mounts[i].chain) <= 1
  /\ cur # 0 /\ Whole(mounts[cur].m) => BuildsWith(mounts[cur])
  /\ cur # 0 /\ Clean(mounts[cur].m) => HoldsFiles(mounts[cur])
  /\ \A o \in DOMAIN outbox : Pending(o) =>
       /\ Whole(outbox[o].m) => DraftsHave(outbox[o].m, outbox[o].uid)
       /\ Clean(outbox[o].m) => QueuedFiles(outbox[o])
       /\ outbox[o].at = "posted" => reqs[outbox[o].req].uid = outbox[o].uid
  /\ \A r \in DOMAIN reqs : reqs[r].kind = "save" /\ reqs[r].at \in {"posted", "collected"} /\ Whole(reqs[r].m) =>
       (\E i \in DOMAIN mounts : mounts[i].req = r) /\ DraftsHave(reqs[r].m, reqs[r].uid)
  /\ \A r \in DOMAIN reqs :
       reqs[r].kind = "send" /\ reqs[r].at \in {"posted", "collected", "handed"} /\ Clean(reqs[r].m) =>
         DraftsHave(reqs[r].m, reqs[r].uid)
  /\ \A s \in DOMAIN sent, d \in drafts : d.m = sent[s].m /\ Clean(d.m) =>
       \E r \in DOMAIN reqs : reqs[r].kind = "send" /\ reqs[r].m = d.m /\ reqs[r].at = "handed"
  /\ \A d, e \in drafts : d.m = e.m /\ Whole(d.m) => d = e
  /\ \A d \in drafts : \E i \in DOMAIN mounts : mounts[i].m = d.m

WholeNow(m) == cause'[m] \cap MayLeaveDraft = {}
CleanNow(m) == cause'[m] \cap (MayRepeat \cup MayLeaveDraft) = {}

LEMMA GrownExcuses ==
  ASSUME Grows, NEW m \in Messages
  PROVE  /\ WholeNow(m) => Whole(m) /\ "left" \notin cause'[m] /\ "late" \notin cause'[m] /\ "torn" \notin cause'[m]
         /\ WholeNow(m) => ~Left(m)
         /\ CleanNow(m) => Clean(m) /\ WholeNow(m) /\ ~Doubtful(m)
BY DEF Grows, WholeNow, CleanNow, Whole, Clean, Befell, MayRepeat, MayLeaveDraft, Left, Doubtful

\* What a step of the tab leaves of composer j, of the one on screen and of call o.
StaysFiled(j) ==
  LET d == mounts'[j] IN
  WholeNow(d.m) /\ (j = cur' \/ AtWork(d)) => Knows(d) /\ (j # cur' => Len(d.chain) <= 1)
ShowsFiles ==
  cur' # 0 => LET d == mounts'[cur'] IN
              /\ WholeNow(d.m) => BuildsWith(d)
              /\ CleanNow(d.m) => HoldsFiles(d)
QueuesFiles(o) ==
  LET q == outbox'[o] IN
  q.at \in {"window", "posted", "toast"} =>
    /\ WholeNow(q.m) => DraftsHave(q.m, q.uid)
    /\ CleanNow(q.m) => QueuedFiles(q)
    /\ q.at = "posted" => reqs[q.req].uid = q.uid
GoesOn(i) ==
  LET r == mounts[i].req IN
  /\ mounts'[i].m = mounts[i].m
  /\ r # 0 => mounts'[i].req = r \/ reqs[r].at \notin {"posted", "collected"} \/ ~WholeNow(reqs[r].m)

LEMMA FilesTurn ==
  ASSUME IInv, DraftInv, Grows, UNCHANGED <<reqs, drafts, sent>>,
         \A j \in DOMAIN mounts' : StaysFiled(j), ShowsFiles, \A o \in DOMAIN outbox' : QueuesFiles(o),
         \A i \in DOMAIN mounts : i \in DOMAIN mounts' /\ GoesOn(i)
  PROVE  DraftInv'
<1>1. \A m \in Messages : /\ (Whole(m))' => WholeNow(m)
                          /\ (Clean(m))' => CleanNow(m)
                          /\ WholeNow(m) => Whole(m)
                          /\ CleanNow(m) => Clean(m)
  <2>1. \A m \in Messages : ((Whole(m))' => WholeNow(m)) /\ ((Clean(m))' => CleanNow(m))
    BY DEF Whole, Clean, Befell, WholeNow, CleanNow
  <2> QED BY <2>1, GrownExcuses
<1>2. /\ \A j \in DOMAIN mounts' : (Whole(mounts[j].m))' => WholeNow(mounts'[j].m)
      /\ \A j \in DOMAIN mounts' : (Clean(mounts[j].m))' => CleanNow(mounts'[j].m)
      /\ \A o \in DOMAIN outbox' : (Whole(outbox[o].m))' => WholeNow(outbox'[o].m)
      /\ \A o \in DOMAIN outbox' : (Clean(outbox[o].m))' => CleanNow(outbox'[o].m)
  BY DEF Whole, Clean, Befell, WholeNow, CleanNow
<1>3. \A i \in DOMAIN mounts' : (Whole(mounts[i].m))' /\ (Active(i))' =>
        (Knows(mounts[i]))' /\ (i # cur' => Len(mounts'[i].chain) <= 1)
  <2>1. SUFFICES ASSUME NEW i \in DOMAIN mounts', (Whole(mounts[i].m))', (Active(i))'
                 PROVE  (Knows(mounts[i]))' /\ (i # cur' => Len(mounts'[i].chain) <= 1)
    OBVIOUS
  <2>2. i = cur' \/ AtWork(mounts'[i])
    BY <2>1 DEF Active, AtWork
  <2>3. Knows(mounts'[i]) /\ (i # cur' => Len(mounts'[i].chain) <= 1)
    BY <1>2, <2>1, <2>2 DEF StaysFiled
  <2> QED BY <2>3 DEF Knows, DraftsHave, Answered
<1>4. /\ (cur # 0 /\ Whole(mounts[cur].m) => BuildsWith(mounts[cur]))'
      /\ (cur # 0 /\ Clean(mounts[cur].m) => HoldsFiles(mounts[cur]))'
  <2>1. SUFFICES ASSUME cur' # 0
                 PROVE  /\ (Whole(mounts[cur].m))' => (BuildsWith(mounts[cur]))'
                        /\ (Clean(mounts[cur].m))' => (HoldsFiles(mounts[cur]))'
    OBVIOUS
  <2>2. /\ (Whole(mounts[cur].m))' => WholeNow(mounts'[cur'].m)
        /\ (Clean(mounts[cur].m))' => CleanNow(mounts'[cur'].m)
    BY DEF Whole, Clean, Befell, WholeNow, CleanNow
  <2>3. /\ (Whole(mounts[cur].m))' => BuildsWith(mounts'[cur'])
        /\ (Clean(mounts[cur].m))' => HoldsFiles(mounts'[cur'])
    BY <2>1, <2>2 DEF ShowsFiles
  <2> QED BY <2>3 DEF BuildsWith, HoldsFiles, Answered, Uids
<1>5. \A o \in DOMAIN outbox' : (Pending(o))' =>
        /\ (Whole(outbox[o].m))' => (DraftsHave(outbox[o].m, outbox[o].uid))'
        /\ (Clean(outbox[o].m))' => (QueuedFiles(outbox[o]))'
        /\ outbox'[o].at = "posted" => reqs'[outbox'[o].req].uid = outbox'[o].uid
  <2>1. SUFFICES ASSUME NEW o \in DOMAIN outbox', (Pending(o))'
                 PROVE  /\ (Whole(outbox[o].m))' => (DraftsHave(outbox[o].m, outbox[o].uid))'
                        /\ (Clean(outbox[o].m))' => (QueuedFiles(outbox[o]))'
                        /\ outbox'[o].at = "posted" => reqs'[outbox'[o].req].uid = outbox'[o].uid
    OBVIOUS
  <2>2. outbox'[o].at \in {"window", "posted", "toast"}
    BY <2>1 DEF Pending
  <2>3. /\ (Whole(outbox[o].m))' => DraftsHave(outbox'[o].m, outbox'[o].uid)
        /\ (Clean(outbox[o].m))' => QueuedFiles(outbox'[o])
        /\ outbox'[o].at = "posted" => reqs[outbox'[o].req].uid = outbox'[o].uid
    BY <1>2, <2>1, <2>2 DEF QueuesFiles
  <2> QED BY <2>3 DEF DraftsHave, QueuedFiles, Uids
<1>6. \A r \in DOMAIN reqs : reqs[r].m \in Messages
  BY Parts, ReqIs
<1>7. \A r \in DOMAIN reqs : reqs[r].kind = "save" /\ reqs[r].at \in {"posted", "collected"} /\ WholeNow(reqs[r].m) =>
        (\E i \in DOMAIN mounts' : mounts'[i].req = r) /\ DraftsHave(reqs[r].m, reqs[r].uid)
  <2>1. SUFFICES ASSUME NEW r \in DOMAIN reqs, reqs[r].kind = "save", reqs[r].at \in {"posted", "collected"},
                        WholeNow(reqs[r].m)
                 PROVE  (\E i \in DOMAIN mounts' : mounts'[i].req = r) /\ DraftsHave(reqs[r].m, reqs[r].uid)
    OBVIOUS
  <2>2. (\E i \in DOMAIN mounts : mounts[i].req = r) /\ DraftsHave(reqs[r].m, reqs[r].uid)
    BY <1>1, <1>6, <2>1 DEF DraftInv
  <2>3. PICK i \in DOMAIN mounts : mounts[i].req = r
    BY <2>2
  <2>4. r # 0
    BY Parts, ReqIs
  <2>5. mounts'[i].req = r /\ i \in DOMAIN mounts'
    BY <2>1, <2>3, <2>4 DEF GoesOn
  <2> QED BY <2>2, <2>5
<1>8. \A r \in DOMAIN reqs :
        reqs[r].kind = "send" /\ reqs[r].at \in {"posted", "collected", "handed"} /\ CleanNow(reqs[r].m) =>
          DraftsHave(reqs[r].m, reqs[r].uid)
  BY <1>1, <1>6 DEF DraftInv
<1>9. \A s \in DOMAIN sent, d \in drafts : d.m = sent[s].m /\ CleanNow(d.m) =>
        \E r \in DOMAIN reqs : reqs[r].kind = "send" /\ reqs[r].m = d.m /\ reqs[r].at = "handed"
  BY <1>1, Parts, SentIs DEF DraftInv
<1>10. \A d, e \in drafts : d.m = e.m /\ WholeNow(d.m) => d = e
  <2>1. \A d \in drafts : d.m \in Messages
    BY Parts DEF TypeInv, DraftRow
  <2> QED BY <1>1, <2>1 DEF DraftInv
<1>11. /\ \A r \in DOMAIN reqs : ((Whole(reqs[r].m))' <=> WholeNow(reqs[r].m)) /\ ((Clean(reqs[r].m))' <=> CleanNow(reqs[r].m))
       /\ \A d \in drafts : ((Whole(d.m))' <=> WholeNow(d.m)) /\ ((Clean(d.m))' <=> CleanNow(d.m))
  BY DEF Whole, Clean, Befell, WholeNow, CleanNow
<1>12. \A r \in DOMAIN reqs : (DraftsHave(reqs[r].m, reqs[r].uid))' <=> DraftsHave(reqs[r].m, reqs[r].uid)
  BY DEF DraftsHave
<1>13. \A d \in drafts : \E i \in DOMAIN mounts' : mounts'[i].m = d.m
  <2>1. \A i \in DOMAIN mounts : i \in DOMAIN mounts' /\ mounts'[i].m = mounts[i].m
    BY DEF GoesOn
  <2> QED BY <2>1 DEF DraftInv
<1> QED BY <1>3, <1>4, <1>5, <1>7, <1>8, <1>9, <1>10, <1>11, <1>12, <1>13 DEF DraftInv

LEMMA Unmoved ==
  ASSUME IInv, DraftInv, Grows, NEW j \in DOMAIN mounts, mounts'[j] = mounts[j], j = cur' <=> j = cur
  PROVE  StaysFiled(j) /\ GoesOn(j)
<1>1. mounts[j].m \in Messages
  BY Parts, MountIs
<1>2. ASSUME WholeNow(mounts[j].m), j = cur' \/ AtWork(mounts[j])
      PROVE  Knows(mounts[j]) /\ (j # cur' => Len(mounts[j].chain) <= 1)
  <2>1. Whole(mounts[j].m) /\ Active(j)
    BY <1>1, <1>2, GrownExcuses DEF Active
  <2> QED BY <2>1 DEF DraftInv
<1> QED BY <1>2 DEF StaysFiled, GoesOn

LEMMA StillShows ==
  ASSUME IInv, DraftInv, Grows, cur' = cur, cur # 0 => mounts'[cur] = mounts[cur]
  PROVE  ShowsFiles
<1>1. SUFFICES ASSUME cur # 0
               PROVE  /\ WholeNow(mounts[cur].m) => BuildsWith(mounts[cur])
                      /\ CleanNow(mounts[cur].m) => HoldsFiles(mounts[cur])
  BY DEF ShowsFiles
<1>2. mounts[cur].m \in Messages
  BY <1>1, Parts, CurIs, MountIs
<1> QED BY <1>1, <1>2, GrownExcuses DEF DraftInv

LEMMA StillQueues ==
  ASSUME IInv, DraftInv, Grows, NEW o \in DOMAIN outbox, outbox'[o] = outbox[o]
  PROVE  QueuesFiles(o)
<1>1. outbox[o].m \in Messages
  BY Parts, OutIs
<1>2. ASSUME Pending(o)
      PROVE  /\ WholeNow(outbox[o].m) => DraftsHave(outbox[o].m, outbox[o].uid)
             /\ CleanNow(outbox[o].m) => QueuedFiles(outbox[o])
             /\ outbox[o].at = "posted" => reqs[outbox[o].req].uid = outbox[o].uid
  BY <1>1, <1>2, GrownExcuses DEF DraftInv
<1> QED BY <1>2 DEF QueuesFiles, Pending

\* One composer changes, and keeps its message, its UID and its request.
LEMMA RowFiles ==
  ASSUME IInv, DraftInv, Grows, NEW i \in DOMAIN mounts, NEW d \in MountRow, mounts' = [mounts EXCEPT ![i] = d],
         UNCHANGED <<cur, outbox, reqs, drafts, sent>>,
         d.m = mounts[i].m, d.uid = mounts[i].uid, d.req = mounts[i].req, i = cur \/ Left(mounts[i].m),
         i = cur /\ WholeNow(d.m) => BuildsWith(d),
         i = cur /\ CleanNow(d.m) => HoldsFiles(d)
  PROVE  DraftInv'
<1>1. /\ DOMAIN mounts' = DOMAIN mounts /\ mounts'[i] = d
      /\ \A j \in DOMAIN mounts : j # i => mounts'[j] = mounts[j]
  BY Parts, Put DEF TypeInv
<1>2. d.m \in Messages
  BY DEF MountRow
<1>3. StaysFiled(i) /\ GoesOn(i)
  <2>1. ASSUME WholeNow(d.m) PROVE i = cur /\ Knows(d)
    <3>1. i = cur /\ Whole(mounts[i].m)
      BY <1>2, <2>1, GrownExcuses
    <3>2. Knows(mounts[i])
      BY <3>1 DEF DraftInv, Active
    <3> QED BY <3>1, <3>2 DEF Knows
  <2> QED BY <1>1, <2>1 DEF StaysFiled, GoesOn
<1>4. \A j \in DOMAIN mounts : StaysFiled(j) /\ GoesOn(j)
  BY <1>1, <1>3, Unmoved
<1>5. ShowsFiles
  <2>1. CASE i = cur
    BY <1>1, <2>1 DEF ShowsFiles
  <2>2. CASE i # cur
    <3>1. cur # 0 => mounts'[cur] = mounts[cur]
      BY <1>1, <2>2, Parts, CurIs
    <3> QED BY <3>1, StillShows
  <2> QED BY <2>1, <2>2
<1>6. \A o \in DOMAIN outbox' : QueuesFiles(o)
  BY StillQueues
<1> QED BY <1>1, <1>4, <1>5, <1>6, FilesTurn

LEMMA CurHas ==
  ASSUME IInv, DraftInv, Grows, NEW i \in DOMAIN mounts, i = cur
  PROVE  /\ WholeNow(mounts[i].m) => BuildsWith(mounts[i])
         /\ CleanNow(mounts[i].m) => HoldsFiles(mounts[i])
<1>1. mounts[i].m \in Messages /\ cur # 0
  BY Parts, MountIs, RowHas
<1> QED BY <1>1, GrownExcuses DEF DraftInv

LEMMA EditFiles ==
  ASSUME IInv, DraftInv, Edit
  PROVE  DraftInv'
<1>1. cur \in DOMAIN mounts
  BY Parts, CurIs DEF Edit
<1>2. PICK c \in MountRow : c = mounts[cur]
  BY <1>1, RowHas
<1>3. PICK n \in Nat : n = typed[c.m] + 1
  BY Parts DEF TypeInv, MountRow
<1>4. PICK d : d = [c EXCEPT !.text = n, !.timer = TRUE]
  OBVIOUS
<1>5. d \in MountRow
  BY <1>4 DEF MountRow
<1>6. d.m = c.m /\ d.uid = c.uid /\ d.req = c.req /\ d.att = c.att /\ d.building = c.building
  BY <1>4 DEF MountRow
<1>7. mounts' = [mounts EXCEPT ![cur] = d]
  BY <1>2, <1>3, <1>4 DEF Edit
<1>8. Grows
  BY Parts, MarkedIs DEF Edit
<1>9. UNCHANGED <<cur, outbox, reqs, drafts, sent>>
  BY DEF Edit, folder
<1>10. /\ WholeNow(d.m) => BuildsWith(d)
       /\ CleanNow(d.m) => HoldsFiles(d)
  BY <1>1, <1>2, <1>6, <1>8, CurHas DEF BuildsWith, HoldsFiles
<1> QED BY <1>1, <1>2, <1>5, <1>6, <1>7, <1>8, <1>9, <1>10, RowFiles

\* A file attached while a body is built makes it late.
LEMMA AttachFiles ==
  ASSUME IInv, DraftInv, Attach
  PROVE  DraftInv'
<1>1. cur \in DOMAIN mounts
  BY Parts, CurIs DEF Attach
<1>2. PICK c \in MountRow : c = mounts[cur]
  BY <1>1, RowHas
<1>3. PICK d : d = [c EXCEPT !.att = {0}, !.timer = TRUE]
  OBVIOUS
<1>4. d \in MountRow
  <2>1. {0} \in SUBSET Nat
    OBVIOUS
  <2> QED BY <1>3, <2>1 DEF MountRow
<1>5. d.m = c.m /\ d.uid = c.uid /\ d.req = c.req /\ d.att = {0} /\ d.building = c.building
  BY <1>3 DEF MountRow
<1>6. mounts' = [mounts EXCEPT ![cur] = d]
  BY <1>2, <1>3 DEF Attach
<1>7. Grows /\ (c.building # <<>> => "late" \in cause'[c.m])
  <2>1. c.m \in Messages /\ cause' = Marked(Late)
    BY DEF MountRow, Attach
  <2>2. c.building # <<>> => <<c.m, "late">> \in Late
    BY <1>2 DEF Late, Finishing
  <2> QED BY <2>1, <2>2, Parts, MarkedIs, CausesAre
<1>8. UNCHANGED <<cur, outbox, reqs, drafts, sent>>
  BY DEF Attach, folder
<1>9. WholeNow(d.m) => BuildsWith(d)
  <2>1. ASSUME WholeNow(c.m) PROVE c.building = <<>>
    BY <1>7, <2>1 DEF WholeNow, MayLeaveDraft
  <2> QED BY <1>5, <2>1 DEF BuildsWith
<1>10. CleanNow(d.m) => HoldsFiles(d)
  <2>1. CleanNow(c.m) => HoldsFiles(c)
    BY <1>1, <1>2, <1>7, CurHas
  <2> QED BY <1>5, <2>1 DEF HoldsFiles
<1> QED BY <1>1, <1>2, <1>4, <1>5, <1>6, <1>7, <1>8, <1>9, <1>10, RowFiles

LEMMA EnqueueFiles ==
  ASSUME IInv, DraftInv, cur # 0, NEW job \in Jobs, Enqueue(cur, job)
  PROVE  DraftInv'
<1>1. cur \in DOMAIN mounts
  BY Parts, CurIs
<1>2. PICK c \in MountRow : c = mounts[cur]
  BY <1>1, RowHas
<1>3. PICK q : q = Append(c.chain, job)
  OBVIOUS
<1>4. q \in Seq(Jobs)
  BY <1>3, Added DEF MountRow
<1>5. PICK d : d = [c EXCEPT !.timer = FALSE, !.chain = q]
  OBVIOUS
<1>6. d \in MountRow
  BY <1>4, <1>5 DEF MountRow
<1>7. d.m = c.m /\ d.uid = c.uid /\ d.req = c.req /\ d.att = c.att /\ d.building = c.building
  BY <1>5 DEF MountRow
<1>8. mounts' = [mounts EXCEPT ![cur] = d]
  BY <1>2, <1>3, <1>5 DEF Enqueue
<1>9. UNCHANGED <<cur, outbox, reqs, drafts, sent>> /\ Grows
  BY Parts, StaysPut DEF Enqueue, folder
<1>10. /\ WholeNow(d.m) => BuildsWith(d)
       /\ CleanNow(d.m) => HoldsFiles(d)
  BY <1>1, <1>2, <1>7, <1>9, CurHas DEF BuildsWith, HoldsFiles
<1> QED BY <1>1, <1>2, <1>6, <1>7, <1>8, <1>9, <1>10, RowFiles

LEMMA AskFiles ==
  ASSUME IInv, DraftInv, Autosave \/ AskClose \/ AskFlush
  PROVE  DraftInv'
<1>1. cur # 0
  BY DEF Autosave, AskClose, AskFlush
<1>2. PICK job \in Jobs : Enqueue(cur, job)
  BY DEF Autosave, AskClose, AskFlush, Jobs
<1> QED BY <1>1, <1>2, EnqueueFiles

LEMMA PressFiles ==
  ASSUME IInv, DraftInv, Press
  PROVE  DraftInv'
<1>1. cur \in DOMAIN mounts
  BY Parts, CurIs DEF Press
<1>2. PICK c \in MountRow : c = mounts[cur]
  BY <1>1, RowHas
<1>3. PICK d : d = [c EXCEPT !.pressed = c.pressed + 1]
  OBVIOUS
<1>4. d \in MountRow
  <2>1. c.pressed + 1 \in Nat
    BY DEF MountRow
  <2> QED BY <1>3, <2>1 DEF MountRow
<1>5. d.m = c.m /\ d.uid = c.uid /\ d.req = c.req /\ d.att = c.att /\ d.building = c.building
  BY <1>3 DEF MountRow
<1>6. mounts' = [mounts EXCEPT ![cur] = d]
  BY <1>2, <1>3 DEF Press
<1>7. UNCHANGED <<cur, outbox, reqs, drafts, sent>> /\ Grows
  BY Parts, StaysPut DEF Press, folder
<1>8. /\ WholeNow(d.m) => BuildsWith(d)
      /\ CleanNow(d.m) => HoldsFiles(d)
  BY <1>1, <1>2, <1>5, <1>7, CurHas DEF BuildsWith, HoldsFiles
<1> QED BY <1>1, <1>2, <1>4, <1>5, <1>6, <1>7, <1>8, RowFiles

LEMMA DeliverFiles ==
  ASSUME IInv, DraftInv, NEW i \in DOMAIN mounts, Deliver(i)
  PROVE  DraftInv'
<1>1. i = cur \/ Left(mounts[i].m)
  BY SendsAreLeft DEF Deliver
<1>2. PICK c \in MountRow : c = mounts[i]
  BY RowHas
<1>3. PICK q : q = Append(c.chain, "send")
  OBVIOUS
<1>4. q \in Seq(Jobs)
  BY <1>3, Added DEF MountRow, Jobs
<1>5. PICK d : d = [c EXCEPT !.pressed = c.pressed - 1, !.sending = TRUE, !.timer = FALSE, !.chain = q]
  OBVIOUS
<1>6. d \in MountRow
  <2>1. c.pressed - 1 \in Nat
    BY <1>2 DEF Deliver, MountRow
  <2> QED BY <1>4, <1>5, <2>1 DEF MountRow
<1>7. d.m = c.m /\ d.uid = c.uid /\ d.req = c.req /\ d.att = c.att /\ d.building = c.building
  BY <1>5 DEF MountRow
<1>8. mounts' = [mounts EXCEPT ![i] = d]
  BY <1>2, <1>3, <1>5 DEF Deliver
<1>9. UNCHANGED <<cur, outbox, reqs, drafts, sent>> /\ Grows
  BY Parts, StaysPut DEF Deliver, folder
<1>10. /\ i = cur /\ WholeNow(d.m) => BuildsWith(d)
       /\ i = cur /\ CleanNow(d.m) => HoldsFiles(d)
  BY <1>2, <1>7, <1>9, CurHas DEF BuildsWith, HoldsFiles
<1> QED BY <1>1, <1>2, <1>6, <1>7, <1>8, <1>9, <1>10, RowFiles

LEMMA TooLargeFiles ==
  ASSUME IInv, DraftInv, NEW i \in DOMAIN mounts, TooLarge(i)
  PROVE  DraftInv'
<1>1. i = cur \/ Left(mounts[i].m)
  BY SendsAreLeft DEF TooLarge
<1>2. PICK c \in MountRow : c = mounts[i]
  BY RowHas
<1>3. PICK q : q = Tail(c.building)
  OBVIOUS
<1>4. c.building # <<>> /\ q \in Seq(BodyRow) /\ \A b \in DOMAIN q : \E k \in DOMAIN c.building : q[b] = c.building[k]
  BY <1>2, <1>3, TailIs DEF TooLarge, MountRow
<1>5. PICK d : d = [c EXCEPT !.building = q, !.sending = FALSE]
  OBVIOUS
<1>6. d \in MountRow
  BY <1>4, <1>5 DEF MountRow
<1>7. d.m = c.m /\ d.uid = c.uid /\ d.req = c.req /\ d.att = c.att /\ d.building = q
  BY <1>5 DEF MountRow
<1>8. mounts' = [mounts EXCEPT ![i] = d]
  BY <1>2, <1>3, <1>5 DEF TooLarge
<1>9. UNCHANGED <<cur, outbox, reqs, drafts, sent>> /\ Grows
  BY Parts, StaysPut DEF TooLarge, folder
<1>10. /\ i = cur /\ WholeNow(d.m) => BuildsWith(d)
       /\ i = cur /\ CleanNow(d.m) => HoldsFiles(d)
  BY <1>2, <1>4, <1>7, <1>9, CurHas DEF BuildsWith, HoldsFiles
<1> QED BY <1>1, <1>2, <1>6, <1>7, <1>8, <1>9, <1>10, RowFiles

LEMMA BuildFiles ==
  ASSUME IInv, DraftInv, NEW i \in DOMAIN mounts, Begin(i), Head(mounts[i].chain) = "send"
  PROVE  DraftInv'
<1>1. mounts[i].chain # <<>> /\ mounts[i].req = 0
  BY DEF Begin, Waiting
<1>2. PICK c \in MountRow : c = mounts[i]
  BY RowHas
<1>3. PICK q : q = Tail(c.chain)
  OBVIOUS
<1>4. q \in Seq(Jobs) /\ c.chain[1] = "send" /\ 1 \in DOMAIN c.chain
  BY <1>1, <1>2, <1>3, TailIs DEF MountRow
<1>5. i = cur \/ Left(mounts[i].m)
  BY <1>2, <1>4, SendsAreLeft
<1>6. PICK b : b = [text |-> c.text, att |-> c.att, uid |-> DraftUid(i)]
  OBVIOUS
<1>7. b \in BodyRow
  BY <1>6, Parts, DraftUidIs DEF BodyRow, MountRow
<1>8. PICK p : p = Append(c.building, b)
  OBVIOUS
<1>9. p \in Seq(BodyRow) /\ \A k \in DOMAIN p : p[k] = b \/ (k \in DOMAIN c.building /\ p[k] = c.building[k])
  BY <1>7, <1>8, Added DEF MountRow
<1>10. PICK d : d = [c EXCEPT !.chain = q, !.building = p]
  OBVIOUS
<1>11. d \in MountRow
  BY <1>4, <1>9, <1>10 DEF MountRow
<1>12. d.m = c.m /\ d.uid = c.uid /\ d.req = c.req /\ d.att = c.att /\ d.building = p
  BY <1>10 DEF MountRow
<1>13. mounts' = [mounts EXCEPT ![i] = d]
  BY <1>2, <1>3, <1>6, <1>8, <1>10 DEF Begin
<1>14. UNCHANGED <<cur, outbox, reqs, drafts, sent>> /\ Grows
  BY Parts, StaysPut DEF Begin, folder
<1>15. i = cur => b.uid = c.uid /\ b.att = c.att
  BY <1>2, <1>6 DEF DraftUid
<1>16. /\ i = cur /\ WholeNow(d.m) => BuildsWith(d)
       /\ i = cur /\ CleanNow(d.m) => HoldsFiles(d)
  BY <1>1, <1>2, <1>9, <1>12, <1>14, <1>15, CurHas DEF BuildsWith, HoldsFiles
<1> QED BY <1>2, <1>5, <1>11, <1>12, <1>13, <1>14, <1>16, RowFiles

-----------------------------------------------------------------------------
(* The end of a save.                                                       *)

\* What Finish does to the rows, whatever its callers changed in them before.
LEMMA FinishIs ==
  ASSUME IInv, NEW i \in DOMAIN mounts, NEW ms \in Seq(MountRow), Len(ms) = Len(mounts),
         ms[i].chain # <<>>, cur # 0 => ms[cur].key = mounts[cur].key, NEW ok, NEW marks, Finish(ms, i, ok, marks)
  PROVE  /\ DOMAIN mounts' = DOMAIN mounts /\ Grows
         /\ \A j \in DOMAIN mounts : j # i /\ (j # cur \/ cur' = cur) => mounts'[j] = ms[j]
         /\ \A j \in DOMAIN mounts : mounts'[j].m = ms[j].m /\ (j # i => mounts'[j].req = ms[j].req)
         /\ LET d == mounts'[i] IN
            /\ d.uid = ms[i].uid /\ d.att = ms[i].att /\ d.building = ms[i].building /\ d.pressed = ms[i].pressed
            /\ d.req = 0 /\ d.chain = Tail(ms[i].chain)
         /\ cur' # cur => /\ cur' = 0 /\ cur # 0 /\ mounts[cur].key = ms[i].key
                          /\ i = cur /\ AtWork(mounts'[i]) /\ ms[i].m \in Messages => "left" \in cause'[ms[i].m]
<1> DEFINE ends == Head(ms[i].chain) = "close" \/ (Head(ms[i].chain) = "flush" /\ ok)
<1>1. DOMAIN ms = DOMAIN mounts /\ i # 0
  BY LenProperties, Parts, RowHas DEF TypeInv
<1>2. PICK e \in MountRow : e = ms[i]
  BY <1>1, LenProperties, ElementOfSeq
<1>3. PICK q : q = Tail(e.chain)
  OBVIOUS
<1>4. q \in Seq(Jobs)
  BY <1>2, <1>3, TailIs DEF MountRow
<1>5. PICK d : d = [e EXCEPT !.chain = q, !.req = 0]
  OBVIOUS
<1>6. d \in MountRow
  BY <1>4, <1>5 DEF MountRow
<1>7. /\ d.key = e.key /\ d.m = e.m /\ d.uid = e.uid /\ d.att = e.att /\ d.fin = e.fin
      /\ d.building = e.building /\ d.pressed = e.pressed /\ d.chain = q /\ d.req = 0
  BY <1>5 DEF MountRow
<1>8. PICK f : f = [d EXCEPT !.fin = TRUE]
  OBVIOUS
<1>9. f \in MountRow
  BY <1>6, <1>8 DEF MountRow
<1>10. /\ f.key = e.key /\ f.m = e.m /\ f.uid = e.uid /\ f.att = e.att /\ f.fin = TRUE
       /\ f.building = e.building /\ f.pressed = e.pressed /\ f.chain = q /\ f.req = 0
  BY <1>6, <1>7, <1>8 DEF MountRow
<1>11. PICK p : p = [ms EXCEPT ![i] = d]
  OBVIOUS
<1>12. PICK n : n = [ms EXCEPT ![i] = f]
  OBVIOUS
<1>13. /\ p \in Seq(MountRow) /\ Len(p) = Len(mounts) /\ p[i] = d /\ DOMAIN p = DOMAIN mounts
       /\ \A j \in DOMAIN mounts : j # i => p[j] = ms[j]
  BY <1>1, <1>6, <1>11, Put
<1>14. /\ n \in Seq(MountRow) /\ Len(n) = Len(mounts) /\ n[i] = f /\ DOMAIN n = DOMAIN mounts
       /\ \A j \in DOMAIN mounts : j # i => n[j] = ms[j]
  BY <1>1, <1>9, <1>12, Put
<1>15. p = [ms EXCEPT ![i].chain = Tail(@), ![i].req = 0] /\ n = [p EXCEPT ![i].fin = TRUE]
  <2>1. p = [ms EXCEPT ![i].chain = Tail(@), ![i].req = 0]
    BY <1>2, <1>3, <1>5, <1>11
  <2>2. n = [p EXCEPT ![i].fin = TRUE]
    BY <1>1, <1>8, <1>11, <1>12
  <2> QED BY <2>1, <2>2
<1>16. CASE ~ends
  <2>1. mounts' = p /\ cause' = Marked(marks) /\ cur' = cur
    BY <1>15, <1>16 DEF Finish
  <2>2. Grows
    BY <2>1, Parts, MarkedIs
  <2> QED BY <1>2, <1>3, <1>7, <1>13, <2>1, <2>2
<1>17. CASE ends /\ ~OnScreen(ms[i].key)
  <2>1. mounts' = n /\ cause' = Marked(marks \cup LeftBehind(p)) /\ cur' = cur
    BY <1>15, <1>17 DEF Finish
  <2>2. Grows
    BY <2>1, Parts, MarkedIs
  <2> QED BY <1>2, <1>3, <1>10, <1>14, <2>1, <2>2
<1>18. CASE ends /\ OnScreen(ms[i].key)
  <2>1. mounts' = Unmounted(n, 0) /\ cause' = Marked(marks \cup LeftBehind(p)) /\ cur' = 0 /\ cur # 0
    BY <1>15, <1>18 DEF Finish, OnScreen
  <2>2. Grows
    BY <2>1, Parts, MarkedIs
  <2>3. cur \in DOMAIN mounts /\ mounts[cur].key = ms[i].key
    BY <1>18, <2>1, Parts, CurIs DEF OnScreen
  <2>4. PICK u : u = Unmounted(n, 0)
    OBVIOUS
  <2>5. 0 \in Nat /\ n \in Seq(MountRow) /\ Len(n) = Len(mounts) /\ TypeInv
    BY <1>14, Parts
  <2>6. /\ u \in Seq(MountRow) /\ Len(u) = Len(n)
        /\ \A j \in DOMAIN n : j # cur => u[j] = n[j]
        /\ cur # 0 => LET c == n[cur]
                          w == u[cur]
                      IN  /\ w.key = c.key /\ w.m = c.m /\ w.text = c.text /\ w.att = c.att /\ w.last = c.last
                          /\ w.uid = c.uid /\ w.fin = c.fin /\ w.req = c.req /\ w.pressed = c.pressed
                          /\ w.building = c.building
                          /\ w.chain = IF c.fin \/ c.key = 0 THEN c.chain ELSE Append(c.chain, "save")
    BY <2>4, <2>5, UnmountedIs
  <2>7. u = mounts' /\ DOMAIN mounts' = DOMAIN mounts
    BY <1>14, <2>1, <2>4, <2>6, LenProperties, Parts DEF TypeInv
  <2>8. \A j \in DOMAIN mounts : j # cur => mounts'[j] = n[j]
    BY <1>14, <2>6, <2>7
  <2>9. LET w == mounts'[cur]
            c == n[cur] IN
        /\ w.m = c.m /\ w.att = c.att /\ w.uid = c.uid /\ w.req = c.req /\ w.pressed = c.pressed
        /\ w.building = c.building /\ (c.fin => w.chain = c.chain)
    BY <2>1, <2>6, <2>7
  <2>10. /\ \A j \in DOMAIN mounts : j # i /\ j # cur => mounts'[j] = ms[j]
         /\ \A j \in DOMAIN mounts : mounts'[j].m = ms[j].m /\ (j # i => mounts'[j].req = ms[j].req)
    <3>1. \A j \in DOMAIN mounts : mounts'[j].m = n[j].m /\ mounts'[j].req = n[j].req
      BY <2>8, <2>9
    <3> QED BY <1>2, <1>10, <1>14, <2>8, <3>1
  <2>11. LET d_ == mounts'[i] IN
         /\ d_.uid = e.uid /\ d_.att = e.att /\ d_.building = e.building /\ d_.pressed = e.pressed
         /\ d_.req = 0 /\ d_.chain = q
    BY <1>10, <1>14, <2>8, <2>9
  <2>12. ASSUME i = cur, AtWork(mounts'[i]), e.m \in Messages PROVE "left" \in cause'[e.m]
    <3>1. AtWork(p[cur]) /\ p[cur].m = e.m
      BY <1>7, <1>13, <2>11, <2>12 DEF AtWork
    <3>2. <<e.m, "left">> \in marks \cup LeftBehind(p)
      BY <2>1, <3>1 DEF LeftBehind
    <3> QED BY <2>1, <2>12, <3>2, Parts, MarkedIs, CausesAre
  <2> QED BY <1>2, <1>3, <2>1, <2>2, <2>3, <2>7, <2>10, <2>11, <2>12
<1> QED BY <1>16, <1>17, <1>18

LEMMA FinishFiles ==
  ASSUME IInv, DraftInv, NEW i \in DOMAIN mounts, NEW ms \in Seq(MountRow), Len(ms) = Len(mounts),
         \A j \in DOMAIN mounts : /\ ms[j].m = mounts[j].m /\ ms[j].key = mounts[j].key /\ ms[j].req = mounts[j].req
                                  /\ ms[j].chain = mounts[j].chain /\ ms[j].building = mounts[j].building
                                  /\ ms[j].pressed = mounts[j].pressed
                                  /\ j # i => ms[j] = mounts[j] \/ Left(mounts[j].m),
         mounts[i].chain # <<>>, NEW ok, NEW marks,
         Finish(ms, i, ok, marks), UNCHANGED <<outbox, reqs, drafts, sent>>,
         \/ mounts'[i].req = mounts[i].req \/ mounts[i].req = 0
         \/ reqs[mounts[i].req].at \notin {"posted", "collected"} \/ ~WholeNow(mounts[i].m),
         i = cur /\ WholeNow(mounts[i].m) =>
           /\ DraftsHave(mounts[i].m, ms[i].uid)
           /\ \A b \in DOMAIN ms[i].building : ms[i].building[b].att = ms[i].att /\ ms[i].building[b].uid = ms[i].uid,
         i = cur /\ CleanNow(mounts[i].m) => /\ ms[i].att \ {0} \subseteq {ms[i].uid}
                                             /\ ms[i].att \ {0} # {} => ms[i].uid \in Uids
  PROVE  DraftInv'
<1>1. PICK c \in MountRow : c = mounts[i]
  BY RowHas
<1>2. c.m \in Messages /\ ms[i].m = c.m /\ i # 0
  BY <1>1, RowHas DEF MountRow
<1>3. cur # 0 => cur \in DOMAIN mounts
  BY Parts, CurIs
<1>4. /\ DOMAIN mounts' = DOMAIN mounts /\ Grows
      /\ \A j \in DOMAIN mounts : j # i /\ (j # cur \/ cur' = cur) => mounts'[j] = ms[j]
      /\ \A j \in DOMAIN mounts : mounts'[j].m = ms[j].m /\ (j # i => mounts'[j].req = ms[j].req)
      /\ LET d == mounts'[i] IN
         /\ d.uid = ms[i].uid /\ d.att = ms[i].att /\ d.building = ms[i].building /\ d.pressed = ms[i].pressed
         /\ d.req = 0 /\ d.chain = Tail(ms[i].chain)
      /\ cur' # cur => /\ cur' = 0 /\ cur # 0 /\ mounts[cur].key = ms[i].key
                       /\ i = cur /\ AtWork(mounts'[i]) /\ ms[i].m \in Messages => "left" \in cause'[ms[i].m]
  <2>1. ms[i].chain # <<>> /\ (cur # 0 => ms[cur].key = mounts[cur].key)
    BY <1>3
  <2> QED BY <2>1, FinishIs
<1>5. \A j \in DOMAIN mounts : WholeNow(mounts[j].m) => ~Left(mounts[j].m) /\ "left" \notin cause'[mounts[j].m]
  BY <1>4, GrownExcuses, Parts, MountIs
<1>6. ASSUME cur' # cur, i # cur, cur # 0 PROVE Left(mounts[cur].m)
  <2>1. mounts[cur].key = mounts[i].key
    BY <1>4, <1>6
  <2>2. mounts[cur].m = mounts[i].m
    BY <1>3, <1>6, <2>1, Parts DEF LinkInv
  <2>3. Active(i) /\ Active(cur)
    BY DEF Active, AtWork
  <2> QED BY <1>3, <1>6, <2>2, <2>3, Parts DEF ActiveInv
<1>7. StaysFiled(i)
  <2>1. SUFFICES ASSUME WholeNow(c.m), i = cur' \/ AtWork(mounts'[i])
                 PROVE  Knows(mounts'[i]) /\ (i # cur' => Len(mounts'[i].chain) <= 1)
    BY <1>1, <1>2, <1>4 DEF StaysFiled
  <2>2. Whole(c.m) /\ ~Left(c.m)
    BY <1>2, <1>4, <2>1, GrownExcuses
  <2>3. CASE i = cur
    <3>1. cur' = cur
      BY <1>1, <1>2, <1>4, <1>5, <2>1, <2>3
    <3>2. DraftsHave(c.m, ms[i].uid)
      BY <1>1, <2>1, <2>3
    <3> QED BY <1>2, <1>4, <2>3, <3>1, <3>2 DEF Knows, Answered
  <2>4. CASE i # cur
    <3>1. i # cur' /\ Active(i)
      BY <1>2, <1>4, <2>4 DEF Active, AtWork
    <3>2. Len(c.chain) <= 1 /\ c.chain # <<>> /\ c.chain \in Seq(Jobs)
      BY <1>1, <2>2, <2>4, <3>1 DEF DraftInv, MountRow
    <3>3. Tail(c.chain) = <<>>
      BY <3>2, HeadTailProperties, EmptySeq
    <3>4. c.pressed = 0 /\ c.building = <<>>
      BY <1>1, <2>2, <2>4, Parts DEF ActiveInv
    <3>5. ~AtWork(mounts'[i])
      BY <1>1, <1>4, <3>3, <3>4 DEF AtWork
    <3> QED BY <2>1, <3>1, <3>5
  <2> QED BY <2>3, <2>4
<1>8. \A j \in DOMAIN mounts : j # i => StaysFiled(j)
  <2>1. SUFFICES ASSUME NEW j \in DOMAIN mounts, j # i, WholeNow(mounts[j].m) PROVE StaysFiled(j)
    BY <1>4 DEF StaysFiled
  <2>2. ~Left(mounts[j].m)
    BY <1>5, <2>1
  <2>3. mounts'[j] = mounts[j] /\ (j = cur' <=> j = cur)
    <3>1. j = cur => cur' = cur
      BY <1>3, <1>6, <2>1, <2>2, RowHas
    <3>2. j # 0
      BY <2>1, RowHas
    <3> QED BY <1>4, <2>1, <2>2, <3>1, <3>2
  <2> QED BY <1>4, <2>3, Unmoved
<1>9. \A j \in DOMAIN mounts : GoesOn(j)
  <2>1. \A j \in DOMAIN mounts : j # i => GoesOn(j)
    BY <1>4 DEF GoesOn
  <2>2. mounts[i].req # 0 => reqs[mounts[i].req].m = mounts[i].m
    BY Parts DEF LinkInv
  <2> QED BY <1>4, <2>1, <2>2 DEF GoesOn
<1>10. ShowsFiles
  <2>1. CASE cur' # cur
    BY <1>4, <2>1 DEF ShowsFiles
  <2>2. CASE cur' = cur /\ i = cur
    BY <1>1, <1>2, <1>4, <2>2 DEF ShowsFiles, BuildsWith, HoldsFiles, Answered
  <2>3. CASE cur' = cur /\ i # cur
    <3>1. CASE cur = 0
      BY <2>3, <3>1 DEF ShowsFiles
    <3>2. CASE cur # 0
      <4>1. mounts'[cur].m = mounts[cur].m
        BY <1>3, <1>4, <3>2
      <4>2. CASE WholeNow(mounts[cur].m)
        <5>1. mounts'[cur] = mounts[cur]
          BY <1>3, <1>4, <1>5, <2>3, <3>2, <4>2
        <5> QED BY <1>4, <2>3, <5>1, StillShows
      <4>3. CASE ~WholeNow(mounts[cur].m)
        BY <2>3, <4>1, <4>3 DEF ShowsFiles, WholeNow, CleanNow
      <4> QED BY <4>2, <4>3
    <3> QED BY <3>1, <3>2
  <2> QED BY <2>1, <2>2, <2>3
<1>11. \A o \in DOMAIN outbox' : QueuesFiles(o)
  BY <1>4, StillQueues
<1> QED BY <1>4, <1>7, <1>8, <1>9, <1>10, <1>11, FilesTurn

\* A composer that waits for no answer goes on with what it has.
LEMMA StaysSettled ==
  ASSUME IInv, DraftInv, Grows, NEW i \in DOMAIN mounts, i = cur, ~Answered(mounts[i].req)
  PROVE  LET c == mounts[i] IN
         /\ WholeNow(c.m) => /\ DraftsHave(c.m, c.uid)
                             /\ \A b \in DOMAIN c.building : c.building[b].att = c.att /\ c.building[b].uid = c.uid
         /\ CleanNow(c.m) => /\ c.att \ {0} \subseteq {c.uid}
                             /\ c.att \ {0} # {} => c.uid \in Uids
<1>1. mounts[i].m \in Messages /\ Active(i)
  BY RowHas DEF Active
<1>2. WholeNow(mounts[i].m) => Knows(mounts[i])
  BY <1>1, GrownExcuses DEF DraftInv
<1>3. WholeNow(mounts[i].m) => DraftsHave(mounts[i].m, mounts[i].uid)
  BY <1>2 DEF Knows
<1> QED BY <1>3, CurHas DEF BuildsWith, HoldsFiles

LEMMA NothingToSaveFiles ==
  ASSUME IInv, DraftInv, NEW i \in DOMAIN mounts, mounts[i].chain # <<>>, mounts[i].req = 0,
         Finish(mounts, i, TRUE, {}), UNCHANGED <<outbox, reqs, drafts, sent>>
  PROVE  DraftInv'
<1>1. mounts \in Seq(MountRow) /\ Grows
  BY Parts, FinishGrows DEF TypeInv
<1>2. ~Answered(mounts[i].req)
  BY DEF Answered
<1> QED BY <1>1, <1>2, StaysSettled, FinishFiles

LEMMA UnsavedFiles ==
  ASSUME IInv, DraftInv, NEW i \in DOMAIN mounts, Unsaved(i)
  PROVE  DraftInv'
<1>1. mounts \in Seq(MountRow) /\ mounts[i].m \in Messages
  BY Parts, RowHas DEF TypeInv
<1>2. mounts[i].chain # <<>> /\ mounts[i].req # 0
  BY RowHas DEF Unsaved, Waiting
<1>3. UNCHANGED <<outbox, reqs, drafts, sent>>
  BY DEF Unsaved, folder
<1>4. CASE reqs[mounts[i].req].at = "failed" /\ Finish(mounts, i, FALSE, {<<mounts[i].m, "failed">>})
  <2>1. Grows
    BY <1>4, Parts, FinishGrows
  <2>2. ~Answered(mounts[i].req) /\ reqs[mounts[i].req].at \notin {"posted", "collected"}
    BY <1>4 DEF Answered
  <2> QED BY <1>1, <1>2, <1>3, <1>4, <2>1, <2>2, StaysSettled, FinishFiles
<1>5. CASE Finish(mounts, i, FALSE, {<<mounts[i].m, "failed">>, <<mounts[i].m, "torn">>})
  <2>1. PICK marks : marks = {<<mounts[i].m, "failed">>, <<mounts[i].m, "torn">>}
    OBVIOUS
  <2>2. Grows /\ "torn" \in cause'[mounts[i].m]
    <3>1. Finish(mounts, i, FALSE, marks) /\ <<mounts[i].m, "torn">> \in marks
      BY <1>5, <2>1
    <3>2. Grows /\ \A m \in Messages, w \in Causes : <<m, w>> \in marks => w \in cause'[m]
      BY <3>1, Parts, FinishGrows
    <3> QED BY <1>1, <3>1, <3>2, CausesAre
  <2>3. ~WholeNow(mounts[i].m) /\ ~CleanNow(mounts[i].m)
    BY <2>2 DEF WholeNow, CleanNow, MayLeaveDraft
  <2> QED BY <1>1, <1>2, <1>3, <1>5, <2>1, <2>3, FinishFiles
<1> QED BY <1>4, <1>5 DEF Unsaved

\* The composer on screen refers to what the answer says the draft holds.
LEMMA SavedFiles ==
  ASSUME IInv, DraftInv, NEW i \in DOMAIN mounts, Saved(i)
  PROVE  DraftInv'
<1>1. PICK c \in MountRow : c = mounts[i]
  BY RowHas
<1>2. c.chain # <<>> /\ c.req \in DOMAIN reqs /\ reqs[c.req].m = c.m /\ c.m \in Messages /\ c.req # 0
  BY <1>1, RowHas DEF Saved, Waiting
<1>3. PICK r \in ReqRow : r = reqs[c.req]
  BY <1>2, Parts, ReqIs
<1>4. PICK att : att = HeldBy(c, r)
  OBVIOUS
<1>5. PICK last : last = IF Snapshot(c) # <<r.text, r.att>> THEN <<r.text, r.att>> ELSE <<c.text, att>>
  OBVIOUS
<1>6. PICK knows : knows = IF OnScreen(c.key) THEN [mounts EXCEPT ![cur].uid = r.result] ELSE mounts
  OBVIOUS
<1>7. PICK ms : ms = IF i = cur THEN [knows EXCEPT ![i].att = att, ![i].last = last, ![i].timer = TRUE]
                                ELSE [knows EXCEPT ![i].last = last]
  OBVIOUS
<1>8. Finish(ms, i, TRUE, {}) /\ r.at = "done" /\ UNCHANGED <<outbox, reqs, drafts, sent>>
  BY <1>1, <1>3, <1>4, <1>5, <1>6, <1>7 DEF Saved, folder
<1>9. last \in Nat \X SUBSET Nat /\ att \in SUBSET Nat /\ att \ {0} \subseteq {r.result}
  <2>1. att \in SUBSET Nat
    <3>1. c.att \cap {0} \in SUBSET Nat
      BY DEF MountRow
    <3>2. {r.result} \in SUBSET Nat
      BY DEF ReqRow
    <3> QED BY <1>4, <3>1, <3>2 DEF HeldBy
  <2>2. <<r.text, r.att>> \in Nat \X SUBSET Nat /\ <<c.text, att>> \in Nat \X SUBSET Nat
    BY <2>1 DEF ReqRow, MountRow
  <2>3. att \ {0} \subseteq {r.result}
    BY <1>4 DEF HeldBy
  <2> QED BY <1>5, <2>1, <2>2, <2>3
<1>10. /\ knows \in Seq(MountRow) /\ Len(knows) = Len(mounts) /\ DOMAIN knows = DOMAIN mounts
       /\ \A j \in DOMAIN mounts :
            /\ knows[j].m = mounts[j].m /\ knows[j].key = mounts[j].key /\ knows[j].req = mounts[j].req
            /\ knows[j].chain = mounts[j].chain /\ knows[j].building = mounts[j].building
            /\ knows[j].pressed = mounts[j].pressed
            /\ j # i => knows[j] = mounts[j] \/ Left(mounts[j].m)
       /\ i = cur => knows[i].uid = r.result
  <2>1. CASE ~OnScreen(c.key)
    <3>1. i = cur => i = 0
      BY <1>1, <2>1 DEF OnScreen
    <3>2. i # 0
      BY RowHas
    <3> QED BY <1>6, <2>1, <3>1, <3>2, Parts DEF TypeInv
  <2>2. CASE OnScreen(c.key)
    <3>1. cur \in DOMAIN mounts /\ mounts[cur].key = c.key /\ cur # 0
      BY <2>2, Parts, CurIs DEF OnScreen
    <3>2. mounts[cur].m = c.m
      BY <1>1, <3>1, Parts DEF LinkInv
    <3>3. PICK b \in MountRow : b = mounts[cur]
      BY <3>1, RowHas
    <3>4. PICK d : d = [b EXCEPT !.uid = r.result]
      OBVIOUS
    <3>5. d \in MountRow
      BY <3>4 DEF MountRow, ReqRow
    <3>6. /\ d.key = b.key /\ d.m = b.m /\ d.uid = r.result /\ d.building = b.building /\ d.pressed = b.pressed
          /\ d.chain = b.chain /\ d.req = b.req
      BY <3>4 DEF MountRow
    <3>7. knows = [mounts EXCEPT ![cur] = d]
      BY <1>6, <2>2, <3>3, <3>4
    <3>8. /\ knows \in Seq(MountRow) /\ Len(knows) = Len(mounts) /\ DOMAIN knows = DOMAIN mounts /\ knows[cur] = d
          /\ \A j \in DOMAIN mounts : j # cur => knows[j] = mounts[j]
      BY <3>1, <3>5, <3>7, Parts, Put DEF TypeInv
    <3>9. cur # i => Left(mounts[cur].m)
      <4>1. Active(i) /\ Active(cur)
        BY <1>1, <1>2 DEF Active, AtWork
      <4> QED BY <1>1, <3>1, <3>2, <4>1, Parts DEF ActiveInv
    <3> QED BY <3>3, <3>6, <3>8, <3>9
  <2> QED BY <2>1, <2>2
<1>11. PICK b \in MountRow : b = knows[i]
  BY <1>10, LenProperties, ElementOfSeq
<1>12. PICK d : d = IF i = cur THEN [b EXCEPT !.att = att, !.last = last, !.timer = TRUE] ELSE [b EXCEPT !.last = last]
  OBVIOUS
<1>13. d \in MountRow
  BY <1>9, <1>12 DEF MountRow
<1>14. /\ d.key = b.key /\ d.m = b.m /\ d.uid = b.uid /\ d.building = b.building /\ d.pressed = b.pressed
       /\ d.chain = b.chain /\ d.req = b.req /\ (i = cur => d.att = att)
  BY <1>12 DEF MountRow
<1>15. ms = [knows EXCEPT ![i] = d]
  BY <1>7, <1>11, <1>12
<1>16. /\ ms \in Seq(MountRow) /\ Len(ms) = Len(mounts) /\ ms[i] = d
       /\ \A j \in DOMAIN mounts : j # i => ms[j] = knows[j]
  BY <1>10, <1>13, <1>15, Put
<1>17. \A j \in DOMAIN mounts :
         /\ ms[j].m = mounts[j].m /\ ms[j].key = mounts[j].key /\ ms[j].req = mounts[j].req
         /\ ms[j].chain = mounts[j].chain /\ ms[j].building = mounts[j].building /\ ms[j].pressed = mounts[j].pressed
         /\ j # i => ms[j] = mounts[j] \/ Left(mounts[j].m)
  BY <1>10, <1>11, <1>14, <1>16
<1>18. Grows /\ Answered(c.req)
  BY <1>2, <1>3, <1>8, Parts, FinishGrows DEF Answered
<1>19. i = cur /\ WholeNow(c.m) => DraftsHave(c.m, r.result) /\ c.building = <<>>
  <2>1. SUFFICES ASSUME i = cur, WholeNow(c.m) PROVE DraftsHave(c.m, r.result) /\ c.building = <<>>
    OBVIOUS
  <2>2. Whole(c.m) /\ Active(i)
    BY <1>2, <1>18, <2>1, GrownExcuses DEF Active
  <2>3. Knows(c)
    BY <1>1, <2>2 DEF DraftInv
  <2>4. BuildsWith(c)
    BY <1>1, <1>18, <2>1, CurHas
  <2> QED BY <1>2, <1>3, <1>18, <2>3, <2>4 DEF Knows, BuildsWith
<1>20. i = cur /\ CleanNow(c.m) => r.result \in Uids
  BY <1>1, <1>3, <1>18, CurHas DEF HoldsFiles
<1>21. ms[i].building = c.building /\ (i = cur => ms[i].uid = r.result /\ ms[i].att = att)
  BY <1>1, <1>10, <1>11, <1>14, <1>16, <1>17
<1>22. reqs[mounts[i].req].at \notin {"posted", "collected"} /\ mounts[i].chain # <<>>
  BY <1>1, <1>2, <1>3, <1>8
<1>23. i = cur /\ WholeNow(mounts[i].m) =>
         /\ DraftsHave(mounts[i].m, ms[i].uid)
         /\ \A k \in DOMAIN ms[i].building : ms[i].building[k].att = ms[i].att /\ ms[i].building[k].uid = ms[i].uid
  <2>1. i = cur /\ WholeNow(mounts[i].m) => DraftsHave(mounts[i].m, ms[i].uid) /\ ms[i].building = <<>>
    BY <1>1, <1>19, <1>21
  <2>2. DOMAIN <<>> = {}
    OBVIOUS
  <2> QED BY <2>1, <2>2
<1>24. i = cur /\ CleanNow(mounts[i].m) => /\ ms[i].att \ {0} \subseteq {ms[i].uid}
                                           /\ ms[i].att \ {0} # {} => ms[i].uid \in Uids
  BY <1>1, <1>9, <1>20, <1>21
<1> QED BY <1>8, <1>16, <1>17, <1>22, <1>23, <1>24, FinishFiles

-----------------------------------------------------------------------------
(* Closing, mounting and queueing.                                          *)

\* The composer on screen gives way: at rest, it may begin one save.
LEMMA GivesWayFiles ==
  ASSUME IInv, DraftInv, Grows, cur # 0, cur' # cur,
         mounts'[cur].m = mounts[cur].m, mounts'[cur].uid = mounts[cur].uid, mounts'[cur].req = mounts[cur].req,
         mounts'[cur].chain = mounts[cur].chain \/ mounts'[cur].chain = Append(mounts[cur].chain, "save"),
         mounts[cur].chain # <<>> => "left" \in cause'[mounts[cur].m]
  PROVE  StaysFiled(cur) /\ GoesOn(cur)
<1>1. PICK c \in MountRow : c = mounts[cur]
  BY Parts, CurIs, RowHas
<1>2. PICK d : d = mounts'[cur]
  OBVIOUS
<1>3. d.m = c.m /\ d.uid = c.uid /\ d.req = c.req /\ (d.chain = c.chain \/ d.chain = Append(c.chain, "save"))
  BY <1>1, <1>2
<1>4. ASSUME WholeNow(c.m) PROVE Knows(d) /\ Len(d.chain) <= 1
  <2>1. c.chain = <<>>
    BY <1>1, <1>4 DEF WholeNow, MayLeaveDraft
  <2>2. cur \in DOMAIN mounts
    BY Parts, CurIs
  <2>3. c.req = 0
    BY <1>1, <2>1, <2>2, RowHas
  <2>4. DraftsHave(c.m, c.uid)
    BY <1>1, <1>4, <2>2, <2>3, StaysSettled DEF Answered
  <2>5. d.chain = <<>> \/ d.chain = <<"save">>
    BY <1>3, <2>1
  <2>6. Len(<<>>) <= 1 /\ Len(<<"save">>) <= 1
    OBVIOUS
  <2>7. Knows(d)
    BY <1>3, <2>3, <2>4 DEF Knows, Answered
  <2> QED BY <2>5, <2>6, <2>7
<1> QED BY <1>1, <1>2, <1>3, <1>4 DEF StaysFiled, GoesOn

LEMMA DiscardFiles ==
  ASSUME IInv, DraftInv, Discard
  PROVE  DraftInv'
<1>1. cur # 0 /\ cur \in DOMAIN mounts /\ cur' = 0
  BY Parts, CurIs DEF Discard
<1>2. PICK c \in MountRow : c = mounts[cur]
  BY <1>1, RowHas
<1>3. PICK d : d = [c EXCEPT !.fin = TRUE]
  OBVIOUS
<1>4. d \in MountRow
  BY <1>3 DEF MountRow
<1>5. d.m = c.m /\ d.uid = c.uid /\ d.fin = TRUE /\ d.chain = c.chain /\ d.req = c.req
  BY <1>3 DEF MountRow
<1>6. PICK n : n = [mounts EXCEPT ![cur] = d]
  OBVIOUS
<1>7. /\ n \in Seq(MountRow) /\ Len(n) = Len(mounts) /\ DOMAIN n = DOMAIN mounts /\ n[cur] = d
      /\ \A j \in DOMAIN mounts : j # cur => n[j] = mounts[j]
  BY <1>1, <1>4, <1>6, Parts, Put DEF TypeInv
<1>8. mounts' = Unmounted(n, 0) /\ cause' = Marked(LeftBehind(mounts))
  BY <1>2, <1>3, <1>6 DEF Discard
<1>9. /\ mounts' \in Seq(MountRow) /\ Len(mounts') = Len(mounts)
      /\ \A j \in DOMAIN mounts : j # cur => mounts'[j] = n[j]
      /\ mounts'[cur].m = n[cur].m /\ mounts'[cur].uid = n[cur].uid /\ mounts'[cur].req = n[cur].req
      /\ mounts'[cur].chain = n[cur].chain
  BY <1>1, <1>5, <1>7, <1>8, Parts, UnmountedIs
<1>10. Grows
  BY <1>8, Parts, MarkedIs
<1>11. DOMAIN mounts' = DOMAIN mounts /\ UNCHANGED <<outbox, reqs, drafts, sent>>
  BY <1>9, LenProperties, Parts DEF Discard, folder, TypeInv
<1>12. \A j \in DOMAIN mounts : j # cur => StaysFiled(j) /\ GoesOn(j)
  BY <1>1, <1>7, <1>9, <1>10, RowHas, Unmoved
<1>13. c.chain # <<>> => "left" \in cause'[c.m]
  <2>1. c.chain # <<>> => <<c.m, "left">> \in LeftBehind(mounts)
    BY <1>1, <1>2 DEF LeftBehind, AtWork
  <2>2. c.m \in Messages
    BY DEF MountRow
  <2> QED BY <1>8, <2>1, <2>2, Parts, MarkedIs, CausesAre
<1>14. StaysFiled(cur) /\ GoesOn(cur)
  BY <1>1, <1>2, <1>5, <1>7, <1>9, <1>10, <1>13, GivesWayFiles
<1>15. ShowsFiles
  BY <1>1 DEF ShowsFiles
<1>16. \A o \in DOMAIN outbox' : QueuesFiles(o)
  BY <1>10, <1>11, StillQueues
<1>17. \A j \in DOMAIN mounts : StaysFiled(j) /\ GoesOn(j)
  BY <1>12, <1>14
<1> QED BY <1>10, <1>11, <1>15, <1>16, <1>17, FilesTurn

\* A composer is mounted, and has its message's draft.
LEMMA MountFiles ==
  ASSUME IInv, DraftInv, NEW c \in MountRow, Mount(c), c.chain = <<>>, c.req = 0, c.building = <<>>,
         WholeNow(c.m) => DraftsHave(c.m, c.uid), CleanNow(c.m) => HoldsFiles(c),
         \A o \in DOMAIN outbox' : QueuesFiles(o), UNCHANGED <<reqs, drafts, sent>>
  PROVE  DraftInv'
<1> DEFINE n == Len(mounts) + 1
<1>1. /\ mounts \in Seq(MountRow) /\ Len(mounts) \in Nat /\ DOMAIN mounts = 1..Len(mounts) /\ cur \in 0..Len(mounts)
      /\ n \notin DOMAIN mounts /\ n # cur /\ n # 0 /\ c.key \in Nat
  BY Parts, LenProperties DEF TypeInv, MountRow
<1>2. PICK u : u = Unmounted(mounts, c.key)
  OBVIOUS
<1>3. /\ u \in Seq(MountRow) /\ Len(u) = Len(mounts) /\ DOMAIN u = DOMAIN mounts
      /\ \A j \in DOMAIN mounts : j # cur => u[j] = mounts[j]
      /\ cur # 0 => LET e == mounts[cur]
                        f == u[cur]
                    IN  /\ f.m = e.m /\ f.uid = e.uid /\ f.req = e.req
                        /\ f.chain = e.chain \/ f.chain = Append(e.chain, "save")
  <2>1. /\ u \in Seq(MountRow) /\ Len(u) = Len(mounts)
        /\ \A j \in DOMAIN mounts : j # cur => u[j] = mounts[j]
        /\ cur # 0 => LET e == mounts[cur]
                          f == u[cur]
                      IN  /\ f.key = e.key /\ f.m = e.m /\ f.text = e.text /\ f.att = e.att /\ f.last = e.last
                          /\ f.uid = e.uid /\ f.fin = e.fin /\ f.req = e.req /\ f.pressed = e.pressed
                          /\ f.building = e.building
                          /\ f.chain = IF e.fin \/ e.key = c.key THEN e.chain ELSE Append(e.chain, "save")
    BY <1>1, <1>2, Parts, UnmountedIs
  <2> QED BY <1>1, <2>1, LenProperties
<1>4. /\ mounts'[n] = c /\ DOMAIN mounts' = DOMAIN mounts \cup {n}
      /\ \A j \in DOMAIN mounts : mounts'[j] = u[j]
  <2>1. mounts' = Append(u, c)
    BY <1>2 DEF Mount
  <2> QED BY <1>3, <2>1, Added
<1>5. cur' = n
  BY DEF Mount
<1>6. PICK marks : cause' = Marked(marks) /\ LeftBehind(mounts) \subseteq marks
  BY DEF Mount
<1>7. Grows /\ \A m \in Messages, w \in Causes : <<m, w>> \in marks => w \in cause'[m]
  BY <1>6, Parts, MarkedIs
<1>8. cur # 0 => cur \in DOMAIN mounts /\ mounts[cur].m \in Messages
  BY Parts, CurIs, MountIs
<1>9. cur # 0 /\ mounts[cur].chain # <<>> => "left" \in cause'[mounts[cur].m]
  <2>1. cur # 0 /\ mounts[cur].chain # <<>> => <<mounts[cur].m, "left">> \in marks
    BY <1>6 DEF LeftBehind, AtWork
  <2> QED BY <1>7, <1>8, <2>1, CausesAre
<1> HIDE DEF n
<1>10. \A j \in DOMAIN mounts : j # cur => StaysFiled(j) /\ GoesOn(j)
  <2>1. \A j \in DOMAIN mounts : j # cur => mounts'[j] = mounts[j] /\ (j = cur' <=> j = cur)
    BY <1>1, <1>3, <1>4, <1>5
  <2> QED BY <1>7, <2>1, Unmoved
<1>11. cur # 0 => StaysFiled(cur) /\ GoesOn(cur)
  <2>1. SUFFICES ASSUME cur # 0 PROVE StaysFiled(cur) /\ GoesOn(cur)
    OBVIOUS
  <2>2. mounts'[cur] = u[cur] /\ cur' # cur
    BY <1>1, <1>4, <1>5, <1>8, <2>1
  <2>3. /\ mounts'[cur].m = mounts[cur].m /\ mounts'[cur].uid = mounts[cur].uid /\ mounts'[cur].req = mounts[cur].req
        /\ mounts'[cur].chain = mounts[cur].chain \/ mounts'[cur].chain = Append(mounts[cur].chain, "save")
    BY <1>3, <2>1, <2>2
  <2> QED BY <1>7, <1>9, <2>1, <2>2, <2>3, GivesWayFiles
<1>12. StaysFiled(n)
  BY <1>4, <1>5 DEF StaysFiled, Knows, Answered
<1>13. ShowsFiles
  <2>1. WholeNow(c.m) => BuildsWith(c)
    <3>1. DOMAIN <<>> = {}
      OBVIOUS
    <3> QED BY <3>1 DEF BuildsWith
  <2> QED BY <1>4, <1>5, <2>1 DEF ShowsFiles
<1>14. /\ \A j \in DOMAIN mounts' : StaysFiled(j)
       /\ \A j \in DOMAIN mounts : j \in DOMAIN mounts' /\ GoesOn(j)
  <2>1. \A j \in DOMAIN mounts : j # 0
    BY <1>1
  <2> QED BY <1>4, <1>10, <1>11, <1>12, <2>1
<1> QED BY <1>7, <1>13, <1>14, FilesTurn

LEMMA OpenFiles ==
  ASSUME IInv, DraftInv, NEW m \in Messages, Open(m)
  PROVE  DraftInv'
<1>1. PICK c : c = Composed(m, Len(mounts) + 1, 0, {}, 0)
  OBVIOUS
<1>2. Len(mounts) \in Nat
  BY Parts, LenProperties DEF TypeInv
<1>3. c.m = m /\ c.uid = 0 /\ c.att = {} /\ c.chain = <<>> /\ c.req = 0 /\ c.building = <<>>
  BY <1>1 DEF Composed
<1>4. c \in MountRow
  BY <1>1, <1>2 DEF Composed, MountRow
<1>5. Mount(c) /\ UNCHANGED <<outbox, reqs, drafts, sent>>
  BY <1>1 DEF Open, folder
<1>6. DraftsHave(c.m, c.uid)
  BY <1>3 DEF Open, DraftInv, DraftsHave
<1>7. HoldsFiles(c)
  BY <1>3 DEF HoldsFiles, Answered
<1>8. Grows
  <2>1. \E marks : cause' = Marked(marks)
    BY <1>5 DEF Mount
  <2> QED BY <2>1, Parts, MarkedIs
<1>9. \A o \in DOMAIN outbox' : QueuesFiles(o)
  BY <1>5, <1>8, StillQueues
<1> QED BY <1>3, <1>4, <1>5, <1>6, <1>7, <1>9, MountFiles

LEMMA MoveFiles ==
  ASSUME IInv, DraftInv, Move
  PROVE  DraftInv'
<1>1. cur # 0 /\ cur \in DOMAIN mounts
  BY Parts, CurIs DEF Move
<1>2. PICK b \in MountRow : b = mounts[cur]
  BY <1>1, RowHas
<1>3. PICK c : c = Composed(b.m, b.key, b.text, b.att, b.uid)
  OBVIOUS
<1>4. c.m = b.m /\ c.uid = b.uid /\ c.att = b.att /\ c.chain = <<>> /\ c.req = 0 /\ c.building = <<>>
  BY <1>3 DEF Composed
<1>5. c \in MountRow
  BY <1>3 DEF Composed, MountRow
<1>6. Mount(c) /\ UNCHANGED <<outbox, reqs, drafts, sent>>
  BY <1>2, <1>3 DEF Move, folder
<1>7. PICK marks : cause' = Marked(marks) /\ LeftBehind(mounts) \subseteq marks
  BY <1>6 DEF Mount
<1>8. Grows /\ \A m \in Messages, w \in Causes : <<m, w>> \in marks => w \in cause'[m]
  BY <1>7, Parts, MarkedIs
<1>9. b.chain # <<>> => ~WholeNow(b.m) /\ ~CleanNow(b.m)
  <2>1. b.chain # <<>> => <<b.m, "left">> \in marks
    BY <1>1, <1>2, <1>7 DEF LeftBehind, AtWork
  <2>2. b.m \in Messages
    BY DEF MountRow
  <2>3. b.chain # <<>> => "left" \in cause'[b.m]
    BY <1>8, <2>1, <2>2, CausesAre
  <2> QED BY <2>3 DEF WholeNow, CleanNow, MayLeaveDraft
<1>10. b.chain = <<>> => ~Answered(b.req)
  BY <1>1, <1>2, RowHas DEF Answered
<1>11. WholeNow(c.m) => DraftsHave(c.m, c.uid)
  BY <1>1, <1>2, <1>4, <1>8, <1>9, <1>10, StaysSettled
<1>12. CleanNow(c.m) => HoldsFiles(c)
  BY <1>1, <1>2, <1>4, <1>8, <1>9, <1>10, StaysSettled DEF HoldsFiles, Answered
<1>13. \A o \in DOMAIN outbox' : QueuesFiles(o)
  BY <1>6, <1>8, StillQueues
<1> QED BY <1>4, <1>5, <1>6, <1>11, <1>12, <1>13, MountFiles

LEMMA ReopenFiles ==
  ASSUME IInv, DraftInv, NEW o \in DOMAIN outbox, NEW from \in {"window", "toast"}, NEW to \in {"undone", "edited"},
         Reopen(o, from, to)
  PROVE  DraftInv'
<1>1. PICK p \in OutRow : p = outbox[o]
  BY Parts, OutIs
<1>2. PICK q : q = [p EXCEPT !.at = to]
  OBVIOUS
<1>3. q \in OutRow /\ q.at = to /\ p.at = from
  BY <1>1, <1>2 DEF Reopen, OutRow
<1>4. /\ DOMAIN outbox' = DOMAIN outbox /\ outbox'[o] = q
      /\ \A x \in DOMAIN outbox : x # o => outbox'[x] = outbox[x]
  <2>1. outbox' = [outbox EXCEPT ![o] = q]
    BY <1>1, <1>2 DEF Reopen
  <2>2. outbox \in Seq(OutRow)
    BY Parts DEF TypeInv
  <2> QED BY <1>3, <2>1, <2>2, Put
<1>5. PICK c : c = Composed(p.m, Len(mounts) + 1, p.rtext, p.ratt, p.uid)
  OBVIOUS
<1>6. Len(mounts) \in Nat
  BY Parts, LenProperties DEF TypeInv
<1>7. c.m = p.m /\ c.uid = p.uid /\ c.att = p.ratt /\ c.chain = <<>> /\ c.req = 0 /\ c.building = <<>>
  BY <1>5 DEF Composed
<1>8. c \in MountRow
  BY <1>5, <1>6 DEF Composed, MountRow, OutRow
<1>9. Mount(c) /\ UNCHANGED <<reqs, drafts, sent>>
  BY <1>1, <1>5 DEF Reopen, folder
<1>10. Grows
  <2>1. \E marks : cause' = Marked(marks)
    BY <1>9 DEF Mount
  <2> QED BY <2>1, Parts, MarkedIs
<1>11. p.m \in Messages /\ Pending(o)
  BY <1>1, <1>3 DEF OutRow, Pending
<1>12. WholeNow(p.m) => DraftsHave(p.m, p.uid)
  BY <1>1, <1>10, <1>11, GrownExcuses DEF DraftInv
<1>13. CleanNow(p.m) => QueuedFiles(p)
  BY <1>1, <1>10, <1>11, GrownExcuses DEF DraftInv
<1>14. QueuedFiles(p) => HoldsFiles(c)
  BY <1>3, <1>7 DEF QueuedFiles, HoldsFiles, Answered
<1>15. \A x \in DOMAIN outbox' : QueuesFiles(x)
  <2>1. QueuesFiles(o)
    BY <1>3, <1>4 DEF QueuesFiles
  <2> QED BY <1>4, <1>10, <2>1, StillQueues
<1> QED BY <1>7, <1>8, <1>9, <1>12, <1>13, <1>14, <1>15, MountFiles

\* Only one call of queueSend() goes on: its files are still there when the toast offers them.
LEMMA OutFiles ==
  ASSUME IInv, DraftInv, NEW o \in DOMAIN outbox, NEW at, outbox' = [outbox EXCEPT ![o].at = at], Grows,
         at \in {"toast", "sent", "gone"}, Pending(o),
         LET p == outbox[o]
         IN  at = "toast" => ~CleanNow(p.m) \/ (p.at = "posted" => reqs[p.req].at \notin {"handed", "done"}),
         UNCHANGED <<mounts, cur, reqs, drafts, sent>>
  PROVE  DraftInv'
<1>1. PICK p \in OutRow : p = outbox[o]
  BY Parts, OutIs
<1>2. PICK q : q = [p EXCEPT !.at = at]
  OBVIOUS
<1>3. q.m = p.m /\ q.uid = p.uid /\ q.att = p.att /\ q.ratt = p.ratt /\ q.at = at
  BY <1>2 DEF OutRow
<1>4. /\ DOMAIN outbox' = DOMAIN outbox /\ outbox'[o] = q
      /\ \A x \in DOMAIN outbox : x # o => outbox'[x] = outbox[x]
  <2>1. q \in OutRow
    BY <1>2 DEF OutRow
  <2>2. outbox' = [outbox EXCEPT ![o] = q]
    BY <1>1, <1>2
  <2>3. outbox \in Seq(OutRow)
    BY Parts DEF TypeInv
  <2> QED BY <2>1, <2>2, <2>3, Put
<1>5. p.m \in Messages
  BY DEF OutRow
<1>6. WholeNow(p.m) => DraftsHave(p.m, p.uid)
  BY <1>1, <1>5, GrownExcuses DEF DraftInv
<1>7. CleanNow(p.m) => QueuedFiles(p)
  BY <1>1, <1>5, GrownExcuses DEF DraftInv
<1>8. at = "toast" /\ CleanNow(p.m) => QueuedFiles(q)
  BY <1>1, <1>3, <1>7 DEF QueuedFiles
<1>9. QueuesFiles(o)
  BY <1>3, <1>4, <1>6, <1>8 DEF QueuesFiles
<1>10. \A x \in DOMAIN outbox' : QueuesFiles(x)
  BY <1>4, <1>9, StillQueues
<1>11. \A j \in DOMAIN mounts : StaysFiled(j) /\ GoesOn(j)
  BY Unmoved
<1>12. ShowsFiles
  BY StillShows
<1> QED BY <1>10, <1>11, <1>12, FilesTurn

LEMMA SettleFiles ==
  ASSUME IInv, DraftInv, NEW o \in DOMAIN outbox, Settle(o)
  PROVE  DraftInv'
<1>1. PICK p \in OutRow : p = outbox[o]
  BY Parts, OutIs
<1>2. p.m \in Messages /\ p.at = "posted" /\ Pending(o)
  BY <1>1 DEF Settle, OutRow, Pending
<1>3. UNCHANGED <<mounts, cur, reqs, drafts, sent>>
  BY DEF Settle, folder
<1>4. CASE outbox' = [outbox EXCEPT ![o].at = "sent"] /\ cause' = cause
  <2>1. Grows
    BY <1>4, Parts, StaysPut
  <2> QED BY <1>2, <1>3, <1>4, <2>1, OutFiles
<1>5. CASE reqs[p.req].at = "failed" /\ outbox' = [outbox EXCEPT ![o].at = "toast"] /\ cause' = cause
  <2>1. Grows
    BY <1>5, Parts, StaysPut
  <2> QED BY <1>1, <1>2, <1>3, <1>5, <2>1, OutFiles
<1>6. CASE outbox' = [outbox EXCEPT ![o].at = "toast"] /\ cause' = Marked({<<p.m, "unsure">>})
  <2>1. Grows /\ "unsure" \in cause'[p.m]
    BY <1>2, <1>6, Parts, MarkedIs, CausesAre
  <2>2. ~CleanNow(p.m)
    BY <2>1 DEF CleanNow, MayRepeat
  <2> QED BY <1>1, <1>2, <1>3, <1>6, <2>1, <2>2, OutFiles
<1> QED BY <1>1, <1>4, <1>5, <1>6 DEF Settle

LEMMA ToastFiles ==
  ASSUME IInv, DraftInv, NEW o \in DOMAIN outbox, ToastExpires(o)
  PROVE  DraftInv'
<1>1. Pending(o) /\ UNCHANGED <<mounts, cur, reqs, drafts, sent>>
  BY DEF ToastExpires, Pending, folder
<1>2. PICK marks : outbox' = [outbox EXCEPT ![o].at = "gone"] /\ cause' = Marked(marks)
  BY DEF ToastExpires
<1>3. Grows
  BY <1>2, Parts, MarkedIs
<1> QED BY <1>1, <1>2, <1>3, OutFiles

\* The call has the files and the draft of the composer that closes.
LEMMA QueueSendFiles ==
  ASSUME IInv, DraftInv, NEW i \in DOMAIN mounts, QueueSend(i)
  PROVE  DraftInv'
<1>1. PICK c \in MountRow : c = mounts[i]
  BY RowHas
<1>2. c.building # <<>> /\ c.m \in Messages /\ i # 0 /\ UNCHANGED <<reqs, drafts, sent>>
  BY <1>1, RowHas DEF QueueSend, folder
<1>3. PICK b : b = Head(c.building)
  OBVIOUS
<1>4. PICK q : q = Tail(c.building)
  OBVIOUS
<1>5. 1 \in DOMAIN c.building /\ b = c.building[1] /\ b \in BodyRow /\ q \in Seq(BodyRow)
  <2>1. c.building \in Seq(BodyRow) /\ c.building # <<>>
    BY <1>2 DEF MountRow
  <2>2. q \in Seq(BodyRow) /\ b = c.building[1] /\ 1 \in DOMAIN c.building
    BY <1>3, <1>4, <2>1, TailIs
  <2>3. b \in BodyRow
    BY <2>1, <2>2, LenProperties, ElementOfSeq
  <2> QED BY <2>2, <2>3
<1>6. PICK d : d = [c EXCEPT !.fin = TRUE, !.building = q]
  OBVIOUS
<1>7. d \in MountRow
  BY <1>5, <1>6 DEF MountRow
<1>8. d.m = c.m /\ d.uid = c.uid /\ d.chain = c.chain /\ d.req = c.req
  BY <1>6 DEF MountRow
<1>9. PICK n : n = [mounts EXCEPT ![i] = d]
  OBVIOUS
<1>10. /\ n \in Seq(MountRow) /\ Len(n) = Len(mounts) /\ DOMAIN n = DOMAIN mounts /\ n[i] = d
       /\ \A j \in DOMAIN mounts : j # i => n[j] = mounts[j]
  BY <1>7, <1>9, Parts, Put DEF TypeInv
<1>11. PICK row : row = [m |-> c.m, text |-> b.text, att |-> (b.att \ {0}) \cup (c.att \cap {0}),
                         uid |-> b.uid, rtext |-> c.text, ratt |-> c.att, at |-> "window", req |-> 0]
  OBVIOUS
<1>12. row \in OutRow
  <2>1. (b.att \ {0}) \cup (c.att \cap {0}) \in SUBSET Nat
    BY <1>5 DEF BodyRow, MountRow
  <2> QED BY <1>2, <1>5, <1>11, <2>1 DEF OutRow, BodyRow, MountRow
<1>13. /\ row.m = c.m /\ row.uid = b.uid /\ row.ratt = c.att /\ row.at = "window"
       /\ row.att = (b.att \ {0}) \cup (c.att \cap {0})
  BY <1>11
<1>14. outbox' = Append(outbox, row) /\ n = [mounts EXCEPT ![i].fin = TRUE, ![i].building = Tail(@)]
  <2>1. outbox' = Append(outbox, row)
    BY <1>1, <1>3, <1>11 DEF QueueSend
  <2>2. n = [mounts EXCEPT ![i].fin = TRUE, ![i].building = Tail(@)]
    BY <1>1, <1>4, <1>6, <1>9
  <2> QED BY <2>1, <2>2
<1>15. /\ outbox'[Len(outbox) + 1] = row /\ DOMAIN outbox' = DOMAIN outbox \cup {Len(outbox) + 1}
       /\ \A o \in DOMAIN outbox : outbox'[o] = outbox[o]
  BY <1>12, <1>14, Parts, Added DEF TypeInv
<1>16. Grows
  <2>1. \E marks : cause' = Marked(marks)
    BY DEF QueueSend
  <2> QED BY <2>1, Parts, MarkedIs
<1>17. i = cur \/ Left(c.m)
  BY <1>1, <1>2, SendsAreLeft
<1>18. Left(c.m) => ~WholeNow(c.m) /\ ~CleanNow(c.m)
  BY <1>2, <1>16, GrownExcuses
<1>19. \A o \in DOMAIN outbox' : QueuesFiles(o)
  <2>1. CASE Left(c.m)
    <3>1. QueuesFiles(Len(outbox) + 1)
      BY <1>13, <1>15, <1>18, <2>1 DEF QueuesFiles
    <3> QED BY <1>15, <1>16, <3>1, StillQueues
  <2>2. CASE i = cur
    <3>1. WholeNow(c.m) => ~Answered(c.req) /\ b.att = c.att /\ b.uid = c.uid
      BY <1>1, <1>2, <1>5, <1>16, <2>2, CurHas DEF BuildsWith, Answered
    <3>2. WholeNow(c.m) => DraftsHave(c.m, b.uid)
      BY <1>1, <1>16, <2>2, <3>1, StaysSettled
    <3>3. CleanNow(c.m) => c.att \ {0} \subseteq {c.uid} /\ (c.att \ {0} # {} => c.uid \in Uids) /\ WholeNow(c.m)
      BY <1>1, <1>2, <1>16, <2>2, <3>1, StaysSettled, GrownExcuses
    <3>4. CleanNow(c.m) => QueuedFiles(row)
      <4>1. CleanNow(c.m) => (row.att \cup row.ratt) \ {0} = c.att \ {0} /\ row.uid = c.uid
        BY <1>13, <3>1, <3>3
      <4> QED BY <3>3, <4>1 DEF QueuedFiles
    <3>5. QueuesFiles(Len(outbox) + 1)
      BY <1>13, <1>15, <3>2, <3>4 DEF QueuesFiles
    <3> QED BY <1>15, <1>16, <3>5, StillQueues
  <2> QED BY <1>17, <2>1, <2>2
<1>20. cur # 0 => cur \in DOMAIN mounts
  BY Parts, CurIs
<1>21. CASE ~OnScreen(c.key)
  <2>1. i # cur
    BY <1>1, <1>2, <1>21 DEF OnScreen
  <2>2. mounts' = n /\ cur' = cur /\ Left(c.m)
    BY <1>1, <1>14, <1>17, <1>21, <2>1 DEF QueueSend
  <2>3. StaysFiled(i) /\ GoesOn(i)
    BY <1>1, <1>8, <1>10, <1>18, <2>2 DEF StaysFiled, GoesOn
  <2>4. \A j \in DOMAIN mounts : StaysFiled(j) /\ GoesOn(j)
    BY <1>10, <1>16, <2>2, <2>3, Unmoved
  <2>5. ShowsFiles
    BY <1>10, <1>16, <1>20, <2>1, <2>2, StillShows
  <2> QED BY <1>2, <1>10, <1>16, <1>19, <2>2, <2>4, <2>5, FilesTurn
<1>22. CASE OnScreen(c.key)
  <2>1. /\ mounts' = Unmounted(n, 0) /\ cur' = 0 /\ cause' = Marked(LeftBehind(n))
        /\ cur # 0 /\ cur \in DOMAIN mounts /\ mounts[cur].key = c.key
    BY <1>1, <1>14, <1>20, <1>22 DEF QueueSend, OnScreen
  <2>2. /\ mounts' \in Seq(MountRow) /\ DOMAIN mounts' = DOMAIN mounts
        /\ \A j \in DOMAIN mounts : j # cur => mounts'[j] = n[j]
        /\ mounts'[cur].m = n[cur].m /\ mounts'[cur].uid = n[cur].uid /\ mounts'[cur].req = n[cur].req
        /\ mounts'[cur].chain = n[cur].chain \/ mounts'[cur].chain = Append(n[cur].chain, "save")
    <3>1. PICK u : u = Unmounted(n, 0)
      OBVIOUS
    <3>2. 0 \in Nat /\ n \in Seq(MountRow) /\ Len(n) = Len(mounts) /\ TypeInv
      BY <1>10, Parts
    <3>3. /\ u \in Seq(MountRow) /\ Len(u) = Len(n)
          /\ \A j \in DOMAIN n : j # cur => u[j] = n[j]
          /\ cur # 0 => LET e == n[cur]
                            f == u[cur]
                        IN  /\ f.key = e.key /\ f.m = e.m /\ f.text = e.text /\ f.att = e.att /\ f.last = e.last
                            /\ f.uid = e.uid /\ f.fin = e.fin /\ f.req = e.req /\ f.pressed = e.pressed
                            /\ f.building = e.building
                            /\ f.chain = IF e.fin \/ e.key = 0 THEN e.chain ELSE Append(e.chain, "save")
      BY <3>1, <3>2, UnmountedIs
    <3>4. u = mounts' /\ DOMAIN u = DOMAIN n
      BY <1>10, <2>1, <3>1, <3>3, LenProperties
    <3> QED BY <1>10, <2>1, <3>3, <3>4
  <2>3. \A j \in DOMAIN mounts : j # i /\ j # cur => StaysFiled(j) /\ GoesOn(j)
    <3>1. \A j \in DOMAIN mounts : j # i /\ j # cur => mounts'[j] = mounts[j] /\ j # 0
      BY <1>10, <2>2, RowHas
    <3> QED BY <1>16, <2>1, <3>1, Unmoved
  <2>4. ShowsFiles
    BY <2>1 DEF ShowsFiles
  <2>5. StaysFiled(i) /\ GoesOn(i) /\ StaysFiled(cur) /\ GoesOn(cur)
    <3>1. CASE i = cur
      <4>1. c.chain # <<>> => "left" \in cause'[c.m]
        <5>1. c.chain # <<>> => <<c.m, "left">> \in LeftBehind(n)
          BY <1>8, <1>10, <2>1, <3>1 DEF LeftBehind, AtWork
        <5> QED BY <1>2, <2>1, <5>1, Parts, MarkedIs, CausesAre
      <4> QED BY <1>1, <1>8, <1>10, <1>16, <2>1, <2>2, <3>1, <4>1, GivesWayFiles
    <3>2. CASE i # cur
      <4>1. Left(c.m) /\ mounts[cur].m = c.m
        BY <1>1, <1>17, <2>1, <3>2, Parts DEF LinkInv
      <4>2. mounts'[i] = d /\ n[cur] = mounts[cur]
        BY <1>10, <2>1, <2>2, <3>2
      <4>3. /\ mounts'[i].m = c.m /\ mounts'[i].req = mounts[i].req
            /\ mounts'[cur].m = c.m /\ mounts'[cur].req = mounts[cur].req
        BY <1>1, <1>8, <2>2, <4>1, <4>2
      <4> QED BY <1>1, <1>18, <4>1, <4>3 DEF StaysFiled, GoesOn
    <3> QED BY <3>1, <3>2
  <2>6. \A j \in DOMAIN mounts : StaysFiled(j) /\ GoesOn(j)
    BY <2>3, <2>5
  <2> QED BY <1>2, <1>16, <1>19, <2>2, <2>4, <2>6, FilesTurn
<1> QED BY <1>21, <1>22

-----------------------------------------------------------------------------
(* Requests to the server, and the drafts they replace.                     *)

\* A composer, or a call of queueSend(), waits for a request that replaces its draft.
AsksWith(j) ==
  LET c == mounts[j]
      d == mounts'[j] IN
  /\ d.m = c.m /\ d.uid = c.uid /\ d.att = c.att /\ d.building = c.building /\ d.pressed = c.pressed /\ d.chain = c.chain
  /\ \/ d.req = c.req
     \/ d.req = Len(reqs) + 1 /\ c.req = 0 /\ (c.building # <<>> => ~WholeNow(c.m))
SendsWith(o, row) ==
  LET p == outbox[o]
      q == outbox'[o] IN
  /\ q.m = p.m /\ q.uid = p.uid /\ q.att = p.att /\ q.ratt = p.ratt
  /\ \/ q.at = p.at /\ q.req = p.req
     \/ p.at = "window" /\ q.at = "posted" /\ q.req = Len(reqs) + 1 /\ row.uid = p.uid

LEMMA RequestFiles ==
  ASSUME IInv, DraftInv, Grows, NEW row \in ReqRow, reqs' = Append(reqs, row), row.at = "posted",
         DOMAIN mounts' = DOMAIN mounts, \A j \in DOMAIN mounts : AsksWith(j),
         DOMAIN outbox' = DOMAIN outbox, \A o \in DOMAIN outbox : SendsWith(o, row),
         row.kind = "save" => \E i \in DOMAIN mounts : mounts'[i].req = Len(reqs) + 1,
         WholeNow(row.m) => DraftsHave(row.m, row.uid),
         UNCHANGED <<cur, drafts, sent>>
  PROVE  DraftInv'
<1> DEFINE n == Len(reqs) + 1
<1>1. \A m \in Messages : /\ WholeNow(m) => Whole(m)
                          /\ CleanNow(m) => Clean(m) /\ WholeNow(m)
  BY GrownExcuses
<1>2. /\ reqs'[n] = row /\ DOMAIN reqs' = DOMAIN reqs \cup {n} /\ n \notin DOMAIN reqs /\ n # 0
      /\ \A x \in DOMAIN reqs : reqs'[x] = reqs[x] /\ x # 0
  <2>1. reqs \in Seq(ReqRow) /\ Len(reqs) \in Nat /\ DOMAIN reqs = 1..Len(reqs)
    BY Parts, LenProperties DEF TypeInv
  <2>2. n \notin DOMAIN reqs /\ n # 0 /\ \A x \in DOMAIN reqs : x # 0
    BY <2>1
  <2> QED BY <2>1, <2>2, Added
<1>3. \A j \in DOMAIN mounts :
        LET c == mounts[j]
            d == mounts'[j] IN
        /\ c.m \in Messages /\ (c.req # 0 => c.req \in DOMAIN reqs)
        /\ d.m = c.m /\ d.uid = c.uid /\ d.att = c.att /\ d.building = c.building /\ d.pressed = c.pressed /\ d.chain = c.chain
        /\ \/ d.req = c.req
           \/ d.req = n /\ c.req = 0 /\ (c.building # <<>> => ~WholeNow(c.m))
  BY RowHas DEF AsksWith
<1> HIDE DEF n
<1>4. \A j \in DOMAIN mounts : (Answered(mounts[j].req))' <=> Answered(mounts[j].req)
  BY <1>2, <1>3 DEF Answered
<1>5. \A j \in DOMAIN mounts : (Active(j))' <=> Active(j)
  BY <1>3 DEF Active, AtWork
<1>6. /\ \A j \in DOMAIN mounts : (Knows(mounts[j]))' <=> Knows(mounts[j])
      /\ \A j \in DOMAIN mounts : (HoldsFiles(mounts[j]))' <=> HoldsFiles(mounts[j])
  <2>1. SUFFICES ASSUME NEW j \in DOMAIN mounts
                 PROVE  /\ (Knows(mounts[j]))' <=> Knows(mounts[j])
                        /\ (HoldsFiles(mounts[j]))' <=> HoldsFiles(mounts[j])
    OBVIOUS
  <2>2. Answered(mounts[j].req) => mounts'[j].req = mounts[j].req /\ reqs'[mounts[j].req] = reqs[mounts[j].req]
    BY <1>2, <1>3 DEF Answered
  <2>3. (Answered(mounts[j].req))' <=> Answered(mounts[j].req)
    BY <1>4
  <2>4. (Knows(mounts[j]))' <=> Knows(mounts[j])
    BY <1>3, <2>2, <2>3 DEF Knows, DraftsHave
  <2>5. (HoldsFiles(mounts[j]))' <=> HoldsFiles(mounts[j])
    BY <1>3, <2>2, <2>3 DEF HoldsFiles, Uids
  <2> QED BY <2>4, <2>5
<1>7. \A j \in DOMAIN mounts : (Whole(mounts[j].m))' /\ (Active(j))' =>
        (Knows(mounts[j]))' /\ (j # cur' => Len(mounts'[j].chain) <= 1)
  <2>1. \A j \in DOMAIN mounts : (Whole(mounts[j].m))' => WholeNow(mounts[j].m)
    BY <1>3 DEF Whole, Befell, WholeNow
  <2> QED BY <1>1, <1>3, <1>5, <1>6, <2>1 DEF DraftInv
<1>8. /\ (cur # 0 /\ Whole(mounts[cur].m) => BuildsWith(mounts[cur]))'
      /\ (cur # 0 /\ Clean(mounts[cur].m) => HoldsFiles(mounts[cur]))'
  <2>1. SUFFICES ASSUME cur # 0
                 PROVE  /\ (Whole(mounts[cur].m))' => (BuildsWith(mounts[cur]))'
                        /\ (Clean(mounts[cur].m))' => (HoldsFiles(mounts[cur]))'
    OBVIOUS
  <2>2. cur \in DOMAIN mounts /\ cur' = cur
    BY <2>1, Parts, CurIs
  <2>3. PICK k \in DOMAIN mounts : k = cur
    BY <2>2
  <2>4. /\ (Whole(mounts[k].m))' => WholeNow(mounts[k].m)
        /\ (Clean(mounts[k].m))' => CleanNow(mounts[k].m)
    BY <1>3 DEF Whole, Clean, Befell, WholeNow, CleanNow
  <2>5. /\ WholeNow(mounts[k].m) => BuildsWith(mounts[k])
        /\ CleanNow(mounts[k].m) => HoldsFiles(mounts[k])
    BY <2>3, CurHas
  <2>6. WholeNow(mounts[k].m) => (BuildsWith(mounts[k]))'
    BY <1>2, <1>3, <2>5 DEF BuildsWith
  <2>7. CleanNow(mounts[k].m) => (HoldsFiles(mounts[k]))'
    BY <1>6, <2>5
  <2> QED BY <2>2, <2>3, <2>4, <2>6, <2>7
<1>9. \A o \in DOMAIN outbox : (Pending(o))' =>
        /\ (Whole(outbox[o].m))' => (DraftsHave(outbox[o].m, outbox[o].uid))'
        /\ (Clean(outbox[o].m))' => (QueuedFiles(outbox[o]))'
        /\ outbox'[o].at = "posted" => reqs'[outbox'[o].req].uid = outbox'[o].uid
  <2>1. SUFFICES ASSUME NEW o \in DOMAIN outbox, (Pending(o))'
                 PROVE  /\ (Whole(outbox[o].m))' => (DraftsHave(outbox[o].m, outbox[o].uid))'
                        /\ (Clean(outbox[o].m))' => (QueuedFiles(outbox[o]))'
                        /\ outbox'[o].at = "posted" => reqs'[outbox'[o].req].uid = outbox'[o].uid
    OBVIOUS
  <2>2. /\ outbox'[o].m = outbox[o].m /\ outbox'[o].uid = outbox[o].uid
        /\ outbox'[o].att = outbox[o].att /\ outbox'[o].ratt = outbox[o].ratt
        /\ \/ outbox'[o].at = outbox[o].at /\ outbox'[o].req = outbox[o].req
           \/ outbox[o].at = "window" /\ outbox'[o].at = "posted" /\ outbox'[o].req = n /\ row.uid = outbox[o].uid
    BY DEF SendsWith, n
  <2>3. Pending(o) /\ outbox[o].m \in Messages
    BY <2>1, <2>2, Parts, OutIs DEF Pending
  <2>4. outbox[o].at = "posted" => outbox[o].req \in DOMAIN reqs
    BY Parts DEF LinkInv
  <2>5. /\ (Whole(outbox[o].m))' => WholeNow(outbox[o].m)
        /\ (Clean(outbox[o].m))' => CleanNow(outbox[o].m)
    BY <2>2 DEF Whole, Clean, Befell, WholeNow, CleanNow
  <2>6. /\ WholeNow(outbox[o].m) => DraftsHave(outbox[o].m, outbox[o].uid)
        /\ CleanNow(outbox[o].m) => QueuedFiles(outbox[o])
        /\ outbox[o].at = "posted" => reqs[outbox[o].req].uid = outbox[o].uid
    BY <1>1, <2>3 DEF DraftInv
  <2>7. DraftsHave(outbox[o].m, outbox[o].uid) => (DraftsHave(outbox[o].m, outbox[o].uid))'
    BY <2>2 DEF DraftsHave
  <2>8. QueuedFiles(outbox[o]) => (QueuedFiles(outbox[o]))'
    BY <1>2, <2>2, <2>4 DEF QueuedFiles, Uids
  <2>9. outbox'[o].at = "posted" => reqs'[outbox'[o].req].uid = outbox'[o].uid
    BY <1>2, <2>2, <2>4, <2>6
  <2> QED BY <2>5, <2>6, <2>7, <2>8, <2>9
<1>10. \A x \in DOMAIN reqs' : reqs'[x].m \in Messages
  BY <1>2, Parts, ReqIs DEF ReqRow
<1>11. /\ \A x \in DOMAIN reqs' : ((Whole(reqs[x].m))' => WholeNow(reqs'[x].m)) /\ ((Clean(reqs[x].m))' => CleanNow(reqs'[x].m))
       /\ \A d \in drafts : ((Whole(d.m))' => WholeNow(d.m)) /\ ((Clean(d.m))' => CleanNow(d.m))
  BY DEF Whole, Clean, Befell, WholeNow, CleanNow
<1>12. \A x \in DOMAIN reqs' : (DraftsHave(reqs[x].m, reqs[x].uid))' <=> DraftsHave(reqs'[x].m, reqs'[x].uid)
  BY DEF DraftsHave
<1>13. \A x \in DOMAIN reqs' : reqs'[x].kind = "save" /\ reqs'[x].at \in {"posted", "collected"} /\ WholeNow(reqs'[x].m) =>
         (\E i \in DOMAIN mounts : mounts'[i].req = x) /\ DraftsHave(reqs'[x].m, reqs'[x].uid)
  <2>1. \A x \in DOMAIN reqs : reqs[x].kind = "save" /\ reqs[x].at \in {"posted", "collected"} /\ WholeNow(reqs[x].m) =>
          (\E i \in DOMAIN mounts : mounts'[i].req = x) /\ DraftsHave(reqs[x].m, reqs[x].uid)
    <3>1. SUFFICES ASSUME NEW x \in DOMAIN reqs, reqs[x].kind = "save", reqs[x].at \in {"posted", "collected"},
                          WholeNow(reqs[x].m)
                   PROVE  (\E i \in DOMAIN mounts : mounts'[i].req = x) /\ DraftsHave(reqs[x].m, reqs[x].uid)
      OBVIOUS
    <3>2. (\E i \in DOMAIN mounts : mounts[i].req = x) /\ DraftsHave(reqs[x].m, reqs[x].uid)
      BY <1>1, <1>2, <1>10, <3>1 DEF DraftInv
    <3> QED BY <1>2, <1>3, <3>2
  <2>2. row.kind = "save" => \E i \in DOMAIN mounts : mounts'[i].req = n
    BY DEF n
  <2> QED BY <1>2, <2>1, <2>2
<1>14. \A x \in DOMAIN reqs' :
         reqs'[x].kind = "send" /\ reqs'[x].at \in {"posted", "collected", "handed"} /\ CleanNow(reqs'[x].m) =>
           DraftsHave(reqs'[x].m, reqs'[x].uid)
  <2>1. \A x \in DOMAIN reqs :
          reqs[x].kind = "send" /\ reqs[x].at \in {"posted", "collected", "handed"} /\ CleanNow(reqs[x].m) =>
            DraftsHave(reqs[x].m, reqs[x].uid)
    BY <1>1, <1>2, <1>10 DEF DraftInv
  <2> QED BY <1>1, <1>2, <1>10, <2>1
<1>15. \A s \in DOMAIN sent, d \in drafts : d.m = sent[s].m /\ CleanNow(d.m) =>
         \E x \in DOMAIN reqs' : reqs'[x].kind = "send" /\ reqs'[x].m = d.m /\ reqs'[x].at = "handed"
  <2>1. SUFFICES ASSUME NEW s \in DOMAIN sent, NEW d \in drafts, d.m = sent[s].m, CleanNow(d.m)
                 PROVE  \E x \in DOMAIN reqs' : reqs'[x].kind = "send" /\ reqs'[x].m = d.m /\ reqs'[x].at = "handed"
    OBVIOUS
  <2>2. PICK x \in DOMAIN reqs : reqs[x].kind = "send" /\ reqs[x].m = d.m /\ reqs[x].at = "handed"
    BY <1>1, <2>1, Parts, SentIs DEF DraftInv
  <2> QED BY <1>2, <2>2
<1>16. \A d, e \in drafts : d.m = e.m /\ WholeNow(d.m) => d = e
  <2>1. \A d \in drafts : d.m \in Messages
    BY Parts DEF TypeInv, DraftRow
  <2> QED BY <1>1, <2>1 DEF DraftInv
<1>17. \A d \in drafts : \E i \in DOMAIN mounts : mounts'[i].m = d.m
  BY <1>3 DEF DraftInv
<1>18. /\ (\A r \in DOMAIN reqs : reqs[r].kind = "save" /\ reqs[r].at \in {"posted", "collected"} /\ Whole(reqs[r].m) =>
             (\E i \in DOMAIN mounts : mounts[i].req = r) /\ DraftsHave(reqs[r].m, reqs[r].uid))'
       /\ (\A r \in DOMAIN reqs :
             reqs[r].kind = "send" /\ reqs[r].at \in {"posted", "collected", "handed"} /\ Clean(reqs[r].m) =>
               DraftsHave(reqs[r].m, reqs[r].uid))'
  BY <1>11, <1>12, <1>13, <1>14
<1>19. /\ (\A s \in DOMAIN sent, d \in drafts : d.m = sent[s].m /\ Clean(d.m) =>
             \E r \in DOMAIN reqs : reqs[r].kind = "send" /\ reqs[r].m = d.m /\ reqs[r].at = "handed")'
       /\ (\A d, e \in drafts : d.m = e.m /\ Whole(d.m) => d = e)'
       /\ (\A d \in drafts : \E i \in DOMAIN mounts : mounts[i].m = d.m)'
  BY <1>11, <1>15, <1>16, <1>17
<1>20. (\A o \in DOMAIN outbox : Pending(o) =>
          /\ Whole(outbox[o].m) => DraftsHave(outbox[o].m, outbox[o].uid)
          /\ Clean(outbox[o].m) => QueuedFiles(outbox[o])
          /\ outbox[o].at = "posted" => reqs[outbox[o].req].uid = outbox[o].uid)'
  BY <1>9
<1>21. (\A i \in DOMAIN mounts : Whole(mounts[i].m) /\ Active(i) =>
          /\ Knows(mounts[i])
          /\ i # cur => Len(mounts[i].chain) <= 1)'
  BY <1>7
<1> QED BY <1>8, <1>18, <1>19, <1>20, <1>21 DEF DraftInv

LEMMA SaveFiles ==
  ASSUME IInv, DraftInv, NEW i \in DOMAIN mounts, Begin(i), Head(mounts[i].chain) # "send", Snapshot(mounts[i]) # mounts[i].last
  PROVE  DraftInv'
<1>1. PICK c \in MountRow : c = mounts[i]
  BY RowHas
<1>2. c.chain # <<>> /\ c.req = 0 /\ c.m \in Messages /\ i # 0 /\ UNCHANGED <<cur, outbox, drafts, sent>>
  BY <1>1, RowHas DEF Begin, Waiting, folder
<1>3. PICK row : row = [kind |-> "save", m |-> c.m, text |-> c.text, att |-> c.att, uid |-> DraftUid(i),
                        at |-> "posted", result |-> 0]
  OBVIOUS
<1>4. DraftUid(i) \in Nat
  BY Parts, DraftUidIs
<1>5. row \in ReqRow
  BY <1>3, <1>4 DEF ReqRow, MountRow
<1>6. row.kind = "save" /\ row.m = c.m /\ row.uid = DraftUid(i) /\ row.at = "posted"
  BY <1>3
<1>7. /\ reqs' = Append(reqs, row) /\ mounts' = [mounts EXCEPT ![i].req = Len(reqs) + 1]
      /\ cause' = Marked(IF c.building # <<>> THEN {<<c.m, "late">>} ELSE {})
  BY <1>1, <1>3 DEF Begin, Post
<1>8. PICK d : d = [c EXCEPT !.req = Len(reqs) + 1]
  OBVIOUS
<1>9. d \in MountRow
  <2>1. Len(reqs) + 1 \in Nat
    BY Parts, LenProperties DEF TypeInv
  <2> QED BY <1>8, <2>1 DEF MountRow
<1>10. /\ d.m = c.m /\ d.uid = c.uid /\ d.att = c.att /\ d.building = c.building /\ d.pressed = c.pressed
       /\ d.chain = c.chain /\ d.req = Len(reqs) + 1
  BY <1>8 DEF MountRow
<1>11. /\ DOMAIN mounts' = DOMAIN mounts /\ mounts'[i] = d
       /\ \A j \in DOMAIN mounts : j # i => mounts'[j] = mounts[j]
  <2>1. mounts' = [mounts EXCEPT ![i] = d]
    BY <1>1, <1>7, <1>8
  <2> QED BY <1>9, <2>1, Parts, Put DEF TypeInv
<1>12. Grows
  BY <1>7, Parts, MarkedIs
<1>13. c.building # <<>> => ~WholeNow(c.m)
  <2>1. c.building # <<>> => "late" \in cause'[c.m]
    BY <1>2, <1>7, Parts, MarkedIs, CausesAre
  <2> QED BY <2>1 DEF WholeNow, MayLeaveDraft
<1>14. \A j \in DOMAIN mounts : AsksWith(j)
  BY <1>1, <1>2, <1>10, <1>11, <1>13 DEF AsksWith
<1>15. DOMAIN outbox' = DOMAIN outbox /\ \A o \in DOMAIN outbox : SendsWith(o, row)
  BY <1>2 DEF SendsWith
<1>16. WholeNow(c.m) => DraftsHave(c.m, DraftUid(i))
  <2>1. SUFFICES ASSUME WholeNow(c.m) PROVE DraftsHave(c.m, DraftUid(i))
    OBVIOUS
  <2>2. Whole(c.m) /\ ~Left(c.m)
    BY <1>2, <1>12, <2>1, GrownExcuses
  <2>3. Active(i)
    BY <1>1, <1>2 DEF Active, AtWork
  <2>4. DraftsHave(c.m, c.uid)
    BY <1>1, <1>2, <2>2, <2>3 DEF DraftInv, Knows, Answered
  <2>5. DraftUid(i) = c.uid
    <3>1. CASE OnScreen(c.key)
      <4>1. cur \in DOMAIN mounts /\ mounts[cur].m = c.m
        BY <1>1, <3>1, Parts, CurIs DEF OnScreen, LinkInv
      <4>2. Active(cur)
        BY DEF Active
      <4>3. i = cur
        BY <1>1, <2>2, <2>3, <4>1, <4>2, Parts DEF ActiveInv
      <4> QED BY <1>1, <4>3 DEF DraftUid
    <3>2. CASE ~OnScreen(c.key)
      BY <1>1, <3>2 DEF DraftUid
    <3> QED BY <3>1, <3>2
  <2> QED BY <2>4, <2>5
<1>17. mounts'[i].req = Len(reqs) + 1
  BY <1>10, <1>11
<1> QED BY <1>2, <1>5, <1>6, <1>7, <1>11, <1>12, <1>14, <1>15, <1>16, <1>17, RequestFiles

LEMMA BeginFiles ==
  ASSUME IInv, DraftInv, NEW i \in DOMAIN mounts, Begin(i)
  PROVE  DraftInv'
<1>1. CASE Head(mounts[i].chain) = "send"
  BY <1>1, BuildFiles
<1>2. CASE Head(mounts[i].chain) # "send" /\ Snapshot(mounts[i]) # mounts[i].last
  BY <1>2, SaveFiles
<1>3. CASE Head(mounts[i].chain) # "send" /\ Snapshot(mounts[i]) = mounts[i].last
  <2>1. mounts[i].req = 0 /\ mounts[i].chain # <<>> /\ UNCHANGED <<reqs, outbox, drafts, sent>>
    BY <1>3 DEF Begin, Waiting, folder
  <2>2. Finish(mounts, i, TRUE, {})
    BY <1>3 DEF Begin
  <2> QED BY <2>1, <2>2, NothingToSaveFiles
<1> QED BY <1>1, <1>2, <1>3

LEMMA FireFiles ==
  ASSUME IInv, DraftInv, NEW o \in DOMAIN outbox, Fire(o)
  PROVE  DraftInv'
<1>1. PICK p \in OutRow : p = outbox[o]
  BY Parts, OutIs
<1>2. p.at = "window" /\ p.m \in Messages /\ UNCHANGED <<mounts, cur, drafts, sent, cause>>
  BY <1>1 DEF Fire, folder, OutRow
<1>3. PICK row : row = [kind |-> "send", m |-> p.m, text |-> p.text, att |-> p.att, uid |-> p.uid,
                        at |-> "posted", result |-> 0]
  OBVIOUS
<1>4. row \in ReqRow
  BY <1>3 DEF ReqRow, OutRow
<1>5. row.kind = "send" /\ row.m = p.m /\ row.uid = p.uid /\ row.at = "posted"
  BY <1>3
<1>6. reqs' = Append(reqs, row) /\ outbox' = [outbox EXCEPT ![o].at = "posted", ![o].req = Len(reqs) + 1]
  BY <1>1, <1>3 DEF Fire, Post
<1>7. PICK q : q = [p EXCEPT !.at = "posted", !.req = Len(reqs) + 1]
  OBVIOUS
<1>8. q \in OutRow
  <2>1. Len(reqs) + 1 \in Nat
    BY Parts, LenProperties DEF TypeInv
  <2> QED BY <1>7, <2>1 DEF OutRow
<1>9. /\ q.m = p.m /\ q.uid = p.uid /\ q.att = p.att /\ q.ratt = p.ratt /\ q.at = "posted" /\ q.req = Len(reqs) + 1
  BY <1>7 DEF OutRow
<1>10. /\ DOMAIN outbox' = DOMAIN outbox /\ outbox'[o] = q
       /\ \A x \in DOMAIN outbox : x # o => outbox'[x] = outbox[x]
  <2>1. outbox' = [outbox EXCEPT ![o] = q]
    BY <1>1, <1>6, <1>7
  <2>2. outbox \in Seq(OutRow)
    BY Parts DEF TypeInv
  <2> QED BY <1>8, <2>1, <2>2, Put
<1>11. \A x \in DOMAIN outbox : SendsWith(x, row)
  BY <1>1, <1>2, <1>5, <1>9, <1>10 DEF SendsWith
<1>12. \A j \in DOMAIN mounts : AsksWith(j)
  BY <1>2 DEF AsksWith
<1>13. Grows
  BY <1>2, Parts, StaysPut
<1>14. WholeNow(p.m) => DraftsHave(p.m, p.uid)
  BY <1>1, <1>2, <1>13, GrownExcuses DEF DraftInv, Pending
<1> QED BY <1>2, <1>4, <1>5, <1>6, <1>10, <1>11, <1>12, <1>13, <1>14, RequestFiles

-----------------------------------------------------------------------------
(* What the server does to the drafts of one message.                       *)

HaveNow(m, uid) == \A d \in drafts' : d.m = m => d.uid = uid
DoneNow(r) == r # 0 /\ reqs'[r].at = "done"
KnowsNow(c) == HaveNow(c.m, IF DoneNow(c.req) THEN reqs'[c.req].result ELSE c.uid)
HoldsNow(c) ==
  /\ c.att \ {0} \subseteq {c.uid}
  /\ c.att \ {0} # {} => c.uid \in Uids' \/ DoneNow(c.req)
  /\ DoneNow(c.req) => reqs'[c.req].result \in Uids'
QueuedNow(p) ==
  /\ (p.att \cup p.ratt) \ {0} \subseteq {p.uid}
  /\ (p.att \cup p.ratt) \ {0} # {} =>
       p.uid \in Uids' \/ (p.at = "posted" /\ reqs'[p.req].at \in {"handed", "done"})

\* What a step of the server, which changes nothing in the tab, leaves of message m.
FilesNow(m) ==
  /\ \A j \in DOMAIN mounts : mounts[j].m = m /\ Active(j) => KnowsNow(mounts[j])
  /\ cur # 0 /\ mounts[cur].m = m /\ CleanNow(m) => HoldsNow(mounts[cur])
  /\ \A o \in DOMAIN outbox : outbox[o].m = m /\ Pending(o) =>
       HaveNow(m, outbox[o].uid) /\ (CleanNow(m) => QueuedNow(outbox[o]))
  /\ \A x \in DOMAIN reqs : reqs[x].m = m /\ reqs[x].kind = "save" /\ reqs'[x].at \in {"posted", "collected"} =>
       HaveNow(m, reqs[x].uid)
  /\ \A x \in DOMAIN reqs :
       reqs[x].m = m /\ reqs[x].kind = "send" /\ reqs'[x].at \in {"posted", "collected", "handed"} /\ CleanNow(m) =>
         HaveNow(m, reqs[x].uid)
  /\ \A s \in DOMAIN sent', d \in drafts' : sent'[s].m = m /\ d.m = m /\ CleanNow(m) =>
       \E x \in DOMAIN reqs : reqs[x].kind = "send" /\ reqs[x].m = m /\ reqs'[x].at = "handed"
  /\ \A d, e \in drafts' : d.m = m /\ e.m = m => d = e

\* It serves one request, and does nothing to other messages.
ServesOne(r) ==
  LET q == reqs[r]
      z == reqs'[r] IN
  /\ DOMAIN reqs' = DOMAIN reqs /\ \A x \in DOMAIN reqs : x # r => reqs'[x] = reqs[x]
  /\ z.kind = q.kind /\ z.m = q.m /\ z.uid = q.uid /\ q.at \in {"posted", "collected", "handed"}
  /\ z.at \in {"posted", "collected"} => q.at \in {"posted", "collected"}
  /\ \A d \in drafts \cup drafts' : d.m # q.m => d \in drafts /\ d \in drafts'
  /\ \A s \in DOMAIN sent' : sent'[s].m # q.m => s \in DOMAIN sent /\ sent'[s] = sent[s]

LEMMA OthersFiles ==
  ASSUME IInv, DraftInv, Grows, UNCHANGED <<mounts, cur, outbox>>, NEW r \in DOMAIN reqs, ServesOne(r),
         NEW m \in Messages, m # reqs[r].m, WholeNow(m)
  PROVE  FilesNow(m)
<1>1. Whole(m) /\ (CleanNow(m) => Clean(m))
  BY GrownExcuses
<1>2. /\ \A x \in DOMAIN reqs : reqs[x].m = m => reqs'[x] = reqs[x]
      /\ \A d \in drafts \cup drafts' : d.m = m => d \in drafts /\ d \in drafts'
      /\ \A s \in DOMAIN sent' : sent'[s].m = m => s \in DOMAIN sent /\ sent'[s] = sent[s]
  BY DEF ServesOne
<1>3. \A uid : DraftsHave(m, uid) => HaveNow(m, uid)
  BY <1>2 DEF DraftsHave, HaveNow
<1>4. \A uid : Owned(uid, m) /\ uid \in Uids => uid \in Uids'
  <2>1. SUFFICES ASSUME NEW uid, Owned(uid, m), uid \in Uids PROVE uid \in Uids'
    OBVIOUS
  <2>2. PICK d \in drafts : d.uid = uid
    BY <2>1 DEF Uids
  <2>3. d \in drafts'
    BY <1>2, <2>1, <2>2 DEF Owned
  <2> QED BY <2>2, <2>3 DEF Uids
<1>5. \A j \in DOMAIN mounts : mounts[j].m = m =>
        /\ DoneNow(mounts[j].req) <=> Answered(mounts[j].req)
        /\ Owned(mounts[j].uid, m)
        /\ mounts[j].req # 0 => /\ reqs'[mounts[j].req] = reqs[mounts[j].req]
                                /\ Owned(reqs[mounts[j].req].result, m)
  <2>1. \A j \in DOMAIN mounts : mounts[j].m = m =>
          /\ Owned(mounts[j].uid, m)
          /\ mounts[j].req # 0 => mounts[j].req \in DOMAIN reqs /\ reqs[mounts[j].req].m = m
    BY Parts DEF LinkInv, UidInv
  <2>2. \A x \in DOMAIN reqs : reqs[x].m = m => Owned(reqs[x].result, m)
    BY Parts DEF UidInv
  <2> QED BY <1>2, <2>1, <2>2 DEF DoneNow, Answered
<1>6. \A j \in DOMAIN mounts : mounts[j].m = m /\ Active(j) => KnowsNow(mounts[j])
  <2>1. SUFFICES ASSUME NEW j \in DOMAIN mounts, mounts[j].m = m, Active(j) PROVE KnowsNow(mounts[j])
    OBVIOUS
  <2>2. Knows(mounts[j])
    BY <1>1, <2>1 DEF DraftInv
  <2> QED BY <1>3, <1>5, <2>1, <2>2 DEF Knows, KnowsNow, Answered
<1>7. cur # 0 /\ mounts[cur].m = m /\ CleanNow(m) => HoldsNow(mounts[cur])
  <2>1. SUFFICES ASSUME cur # 0, mounts[cur].m = m, CleanNow(m) PROVE HoldsNow(mounts[cur])
    OBVIOUS
  <2>2. cur \in DOMAIN mounts /\ HoldsFiles(mounts[cur])
    BY <1>1, <2>1, Parts, CurIs DEF DraftInv
  <2> QED BY <1>4, <1>5, <2>1, <2>2 DEF HoldsFiles, HoldsNow, Answered
<1>8. \A o \in DOMAIN outbox : outbox[o].m = m /\ Pending(o) =>
        HaveNow(m, outbox[o].uid) /\ (CleanNow(m) => QueuedNow(outbox[o]))
  <2>1. SUFFICES ASSUME NEW o \in DOMAIN outbox, outbox[o].m = m, Pending(o)
                 PROVE  HaveNow(m, outbox[o].uid) /\ (CleanNow(m) => QueuedNow(outbox[o]))
    OBVIOUS
  <2>2. DraftsHave(m, outbox[o].uid) /\ (CleanNow(m) => QueuedFiles(outbox[o]))
    BY <1>1, <2>1 DEF DraftInv
  <2>3. outbox[o].at = "posted" => reqs'[outbox[o].req] = reqs[outbox[o].req]
    BY <1>2, <2>1, Parts DEF LinkInv
  <2>4. Owned(outbox[o].uid, m)
    BY <2>1, Parts DEF UidInv
  <2> QED BY <1>3, <1>4, <2>2, <2>3, <2>4 DEF QueuedFiles, QueuedNow
<1>9. /\ \A x \in DOMAIN reqs : reqs[x].m = m /\ reqs[x].kind = "save" /\ reqs'[x].at \in {"posted", "collected"} =>
           HaveNow(m, reqs[x].uid)
      /\ \A x \in DOMAIN reqs :
           reqs[x].m = m /\ reqs[x].kind = "send" /\ reqs'[x].at \in {"posted", "collected", "handed"} /\ CleanNow(m) =>
             HaveNow(m, reqs[x].uid)
  <2>1. \A x \in DOMAIN reqs : reqs[x].m = m /\ reqs[x].kind = "save" /\ reqs[x].at \in {"posted", "collected"} =>
          DraftsHave(m, reqs[x].uid)
    BY <1>1 DEF DraftInv
  <2>2. \A x \in DOMAIN reqs :
          reqs[x].m = m /\ reqs[x].kind = "send" /\ reqs[x].at \in {"posted", "collected", "handed"} /\ CleanNow(m) =>
            DraftsHave(m, reqs[x].uid)
    BY <1>1 DEF DraftInv
  <2> QED BY <1>2, <1>3, <2>1, <2>2
<1>10. \A s \in DOMAIN sent', d \in drafts' : sent'[s].m = m /\ d.m = m /\ CleanNow(m) =>
         \E x \in DOMAIN reqs : reqs[x].kind = "send" /\ reqs[x].m = m /\ reqs'[x].at = "handed"
  <2>1. SUFFICES ASSUME NEW s \in DOMAIN sent', NEW d \in drafts', sent'[s].m = m, d.m = m, CleanNow(m)
                 PROVE  \E x \in DOMAIN reqs : reqs[x].kind = "send" /\ reqs[x].m = m /\ reqs'[x].at = "handed"
    OBVIOUS
  <2>2. PICK x \in DOMAIN reqs : reqs[x].kind = "send" /\ reqs[x].m = m /\ reqs[x].at = "handed"
    BY <1>1, <1>2, <2>1 DEF DraftInv
  <2> QED BY <1>2, <2>2
<1>11. \A d, e \in drafts' : d.m = m /\ e.m = m => d = e
  BY <1>1, <1>2 DEF DraftInv
<1> QED BY <1>6, <1>7, <1>8, <1>9, <1>10, <1>11 DEF FilesNow

LEMMA ServerFiles ==
  ASSUME IInv, DraftInv, Grows, UNCHANGED <<mounts, cur, outbox>>, NEW r \in DOMAIN reqs, ServesOne(r),
         WholeNow(reqs[r].m) => FilesNow(reqs[r].m),
         drafts' \in SUBSET DraftRow, sent' \in Seq(SentRow)
  PROVE  DraftInv'
<1>1. \A m \in Messages : WholeNow(m) => FilesNow(m)
  BY OthersFiles
<1>2. \A m \in Messages : /\ (Whole(m))' <=> WholeNow(m)
                          /\ (Clean(m))' <=> CleanNow(m)
                          /\ WholeNow(m) => Whole(m)
                          /\ CleanNow(m) => Clean(m) /\ WholeNow(m)
  <2>1. \A m \in Messages : ((Whole(m))' <=> WholeNow(m)) /\ ((Clean(m))' <=> CleanNow(m))
    BY DEF Whole, Clean, Befell, WholeNow, CleanNow
  <2> QED BY <2>1, GrownExcuses
<1>3. /\ \A j \in DOMAIN mounts : mounts[j].m \in Messages
      /\ \A o \in DOMAIN outbox : outbox[o].m \in Messages
      /\ \A x \in DOMAIN reqs : reqs[x].m \in Messages
      /\ \A s \in DOMAIN sent' : sent'[s].m \in Messages
      /\ \A d \in drafts' : d.m \in Messages
  <2>1. \A s \in DOMAIN sent' : sent'[s].m \in Messages
    <3>1. \A s \in DOMAIN sent' : sent'[s] \in SentRow
      BY LenProperties, ElementOfSeq
    <3> QED BY <3>1 DEF SentRow
  <2>2. \A d \in drafts' : d.m \in Messages
    BY DEF DraftRow
  <2> QED BY <2>1, <2>2, Parts, MountIs, OutIs, ReqIs
<1>4. /\ DOMAIN reqs' = DOMAIN reqs
      /\ \A x \in DOMAIN reqs :
           /\ reqs'[x].kind = reqs[x].kind /\ reqs'[x].m = reqs[x].m /\ reqs'[x].uid = reqs[x].uid
           /\ reqs'[x].at \in {"posted", "collected"} => reqs[x].at \in {"posted", "collected"}
  BY DEF ServesOne
<1>5. (\A i \in DOMAIN mounts : Whole(mounts[i].m) /\ Active(i) =>
         /\ Knows(mounts[i])
         /\ i # cur => Len(mounts[i].chain) <= 1)'
  <2>1. SUFFICES ASSUME NEW i \in DOMAIN mounts, (Whole(mounts[i].m))', (Active(i))'
                 PROVE  (Knows(mounts[i]))' /\ (i # cur => Len(mounts[i].chain) <= 1)
    OBVIOUS
  <2>2. WholeNow(mounts[i].m) /\ Whole(mounts[i].m) /\ Active(i)
    BY <1>2, <1>3, <2>1 DEF Active, AtWork
  <2>3. KnowsNow(mounts[i])
    BY <1>1, <1>3, <2>2 DEF FilesNow
  <2>4. (Knows(mounts[i]))'
    BY <2>3 DEF KnowsNow, Knows, HaveNow, DraftsHave, DoneNow, Answered
  <2> QED BY <2>2, <2>4 DEF DraftInv
<1>6. /\ (cur # 0 /\ Whole(mounts[cur].m) => BuildsWith(mounts[cur]))'
      /\ (cur # 0 /\ Clean(mounts[cur].m) => HoldsFiles(mounts[cur]))'
  <2>1. SUFFICES ASSUME cur # 0
                 PROVE  /\ (Whole(mounts[cur].m))' => (BuildsWith(mounts[cur]))'
                        /\ (Clean(mounts[cur].m))' => (HoldsFiles(mounts[cur]))'
    OBVIOUS
  <2>2. cur \in DOMAIN mounts /\ mounts[cur].m \in Messages
    BY <1>3, <2>1, Parts, CurIs
  <2>3. /\ (Whole(mounts[cur].m))' => BuildsWith(mounts[cur])
        /\ (Clean(mounts[cur].m))' => HoldsNow(mounts[cur])
    BY <1>1, <1>2, <2>1, <2>2 DEF FilesNow, DraftInv
  <2>4. BuildsWith(mounts[cur]) => (BuildsWith(mounts[cur]))'
    BY DEF BuildsWith
  <2>5. HoldsNow(mounts[cur]) => (HoldsFiles(mounts[cur]))'
    BY DEF HoldsNow, HoldsFiles, DoneNow, Answered
  <2> QED BY <2>3, <2>4, <2>5
<1>7. (\A o \in DOMAIN outbox : Pending(o) =>
         /\ Whole(outbox[o].m) => DraftsHave(outbox[o].m, outbox[o].uid)
         /\ Clean(outbox[o].m) => QueuedFiles(outbox[o])
         /\ outbox[o].at = "posted" => reqs[outbox[o].req].uid = outbox[o].uid)'
  <2>1. SUFFICES ASSUME NEW o \in DOMAIN outbox, (Pending(o))'
                 PROVE  /\ (Whole(outbox[o].m))' => (DraftsHave(outbox[o].m, outbox[o].uid))'
                        /\ (Clean(outbox[o].m))' => (QueuedFiles(outbox[o]))'
                        /\ outbox[o].at = "posted" => reqs'[outbox[o].req].uid = outbox[o].uid
    OBVIOUS
  <2>2. Pending(o)
    BY <2>1 DEF Pending
  <2>3. /\ WholeNow(outbox[o].m) => HaveNow(outbox[o].m, outbox[o].uid)
        /\ CleanNow(outbox[o].m) => QueuedNow(outbox[o])
    BY <1>1, <1>2, <1>3, <2>2 DEF FilesNow
  <2>4. outbox[o].at = "posted" => reqs'[outbox[o].req].uid = outbox[o].uid
    BY <1>4, <2>2, Parts DEF DraftInv, LinkInv
  <2>5. HaveNow(outbox[o].m, outbox[o].uid) => (DraftsHave(outbox[o].m, outbox[o].uid))'
    BY DEF HaveNow, DraftsHave
  <2>6. QueuedNow(outbox[o]) => (QueuedFiles(outbox[o]))'
    BY DEF QueuedNow, QueuedFiles
  <2>7. /\ (Whole(outbox[o].m))' => WholeNow(outbox[o].m)
        /\ (Clean(outbox[o].m))' => CleanNow(outbox[o].m)
    BY DEF Whole, Clean, Befell, WholeNow, CleanNow
  <2> QED BY <2>3, <2>4, <2>5, <2>6, <2>7
<1>8. /\ \A x \in DOMAIN reqs : ((Whole(reqs[x].m))' => WholeNow(reqs[x].m)) /\ ((Clean(reqs[x].m))' => CleanNow(reqs[x].m))
      /\ \A d \in drafts' : ((Whole(d.m))' => WholeNow(d.m)) /\ ((Clean(d.m))' => CleanNow(d.m))
      /\ \A x \in DOMAIN reqs : HaveNow(reqs[x].m, reqs[x].uid) => (DraftsHave(reqs[x].m, reqs[x].uid))'
  <2>1. /\ \A x \in DOMAIN reqs : ((Whole(reqs[x].m))' => WholeNow(reqs[x].m)) /\ ((Clean(reqs[x].m))' => CleanNow(reqs[x].m))
        /\ \A d \in drafts' : ((Whole(d.m))' => WholeNow(d.m)) /\ ((Clean(d.m))' => CleanNow(d.m))
    BY <1>4 DEF Whole, Clean, Befell, WholeNow, CleanNow
  <2>2. \A x \in DOMAIN reqs : HaveNow(reqs[x].m, reqs[x].uid) => (DraftsHave(reqs[x].m, reqs[x].uid))'
    BY <1>4 DEF HaveNow, DraftsHave
  <2> QED BY <2>1, <2>2
<1>9. (\A x \in DOMAIN reqs : reqs[x].kind = "save" /\ reqs[x].at \in {"posted", "collected"} /\ Whole(reqs[x].m) =>
         (\E i \in DOMAIN mounts : mounts[i].req = x) /\ DraftsHave(reqs[x].m, reqs[x].uid))'
  <2>1. SUFFICES ASSUME NEW x \in DOMAIN reqs, reqs[x].kind = "save", reqs'[x].at \in {"posted", "collected"},
                        (Whole(reqs[x].m))'
                 PROVE  (\E i \in DOMAIN mounts : mounts[i].req = x) /\ (DraftsHave(reqs[x].m, reqs[x].uid))'
    BY <1>4
  <2>2. WholeNow(reqs[x].m) /\ Whole(reqs[x].m)
    BY <1>2, <1>3, <1>8, <2>1
  <2>3. \E i \in DOMAIN mounts : mounts[i].req = x
    BY <1>4, <2>1, <2>2 DEF DraftInv
  <2>4. HaveNow(reqs[x].m, reqs[x].uid)
    BY <1>1, <1>3, <2>1, <2>2 DEF FilesNow
  <2> QED BY <1>8, <2>3, <2>4
<1>10. (\A x \in DOMAIN reqs :
          reqs[x].kind = "send" /\ reqs[x].at \in {"posted", "collected", "handed"} /\ Clean(reqs[x].m) =>
            DraftsHave(reqs[x].m, reqs[x].uid))'
  <2>1. SUFFICES ASSUME NEW x \in DOMAIN reqs, reqs[x].kind = "send", reqs'[x].at \in {"posted", "collected", "handed"},
                        (Clean(reqs[x].m))'
                 PROVE  (DraftsHave(reqs[x].m, reqs[x].uid))'
    BY <1>4
  <2>2. CleanNow(reqs[x].m) /\ WholeNow(reqs[x].m)
    BY <1>2, <1>3, <1>8, <2>1
  <2>3. HaveNow(reqs[x].m, reqs[x].uid)
    BY <1>1, <1>3, <2>1, <2>2 DEF FilesNow
  <2> QED BY <1>8, <2>3
<1>11. (\A s \in DOMAIN sent, d \in drafts : d.m = sent[s].m /\ Clean(d.m) =>
          \E x \in DOMAIN reqs : reqs[x].kind = "send" /\ reqs[x].m = d.m /\ reqs[x].at = "handed")'
  <2>1. SUFFICES ASSUME NEW s \in DOMAIN sent', NEW d \in drafts', d.m = sent'[s].m, CleanNow(d.m)
                 PROVE  \E x \in DOMAIN reqs : reqs[x].kind = "send" /\ reqs[x].m = d.m /\ reqs'[x].at = "handed"
    BY <1>4, <1>8
  <2>2. WholeNow(d.m) /\ d.m \in Messages
    BY <1>2, <1>3, <2>1
  <2>3. PICK m \in Messages : m = d.m
    BY <2>2
  <2>4. FilesNow(m)
    BY <1>1, <2>2, <2>3
  <2> QED BY <2>1, <2>3, <2>4 DEF FilesNow
<1>12. (\A d, e \in drafts : d.m = e.m /\ Whole(d.m) => d = e)'
  <2>1. SUFFICES ASSUME NEW d \in drafts', NEW e \in drafts', d.m = e.m, WholeNow(d.m) PROVE d = e
    BY <1>8
  <2> QED BY <1>1, <1>3, <2>1 DEF FilesNow
<1>13. (\A d \in drafts : \E i \in DOMAIN mounts : mounts[i].m = d.m)'
  <2>1. \A d \in drafts' : d \in drafts \/ d.m = reqs[r].m
    BY DEF ServesOne
  <2>2. \E i \in DOMAIN mounts : mounts[i].m = reqs[r].m
    BY <1>3, Parts DEF NewInv
  <2> QED BY <2>1, <2>2 DEF DraftInv
<1> QED BY <1>5, <1>6, <1>7, <1>9, <1>10, <1>11, <1>12, <1>13 DEF DraftInv

\* Steps that come before a request touches the drafts, and those that fail.
LEMMA SameFiles ==
  ASSUME IInv, DraftInv, Grows, UNCHANGED <<mounts, cur, outbox, drafts>>, NEW r \in DOMAIN reqs, NEW z \in ReqRow,
         NEW at \in {"collected", "failed", "handed"}, Becomes(r, z, at, reqs[r].result),
         reqs[r].at \in {"posted", "collected"}, at = "handed" => reqs[r].kind = "send",
         NEW new \in SentRow, new.m = reqs[r].m,
         \/ sent' = sent
         \/ sent' = Append(sent, new) /\ (at = "handed" \/ ~CleanNow(reqs[r].m))
  PROVE  DraftInv'
<1>1. PICK m \in Messages : m = reqs[r].m
  BY Parts, ReqIs
<1>2. /\ DOMAIN reqs' = DOMAIN reqs /\ \A x \in DOMAIN reqs : x # r => reqs'[x] = reqs[x]
      /\ reqs'[r].kind = reqs[r].kind /\ reqs'[r].m = m /\ reqs'[r].uid = reqs[r].uid /\ reqs'[r].at = at
      /\ reqs'[r].result = reqs[r].result
  <2>1. reqs' = [reqs EXCEPT ![r] = z]
    BY DEF Becomes
  <2>2. DOMAIN reqs' = DOMAIN reqs /\ \A x \in DOMAIN reqs : x # r => reqs'[x] = reqs[x]
    BY <2>1, Parts, Put DEF TypeInv
  <2> QED BY <1>1, <2>2 DEF Becomes
<1>3. /\ sent' \in Seq(SentRow) /\ \A s \in DOMAIN sent' : (s \in DOMAIN sent /\ sent'[s] = sent[s]) \/ sent'[s].m = m
      /\ sent' = sent \/ at = "handed" \/ ~CleanNow(m)
  <2>1. CASE sent' = sent
    BY <2>1, Parts DEF TypeInv
  <2>2. CASE sent' = Append(sent, new) /\ (at = "handed" \/ ~CleanNow(m))
    <3>1. /\ sent' \in Seq(SentRow) /\ DOMAIN sent' = DOMAIN sent \cup {Len(sent) + 1} /\ sent'[Len(sent) + 1] = new
          /\ \A s \in DOMAIN sent : sent'[s] = sent[s]
      BY <2>2, Parts, Added DEF TypeInv
    <3> QED BY <1>1, <2>2, <3>1
  <2> QED BY <1>1, <2>1, <2>2
<1>4. ServesOne(r)
  <2>1. \A s \in DOMAIN sent' : sent'[s].m # m => s \in DOMAIN sent /\ sent'[s] = sent[s]
    BY <1>3
  <2> QED BY <1>1, <1>2, <2>1 DEF ServesOne
<1>5. /\ \A uid : HaveNow(m, uid) <=> DraftsHave(m, uid)
      /\ Uids' = Uids
      /\ \A x \in DOMAIN reqs \cup {0} : DoneNow(x) => Answered(x)
      /\ \A x \in DOMAIN reqs : reqs'[x].result = reqs[x].result
      /\ \A x \in DOMAIN reqs \cup {0} : Answered(x) => DoneNow(x)
  BY <1>2, Parts, ReqIs DEF HaveNow, DraftsHave, Uids, DoneNow, Answered
<1>6. ASSUME WholeNow(m) PROVE FilesNow(m)
  <2>1. Whole(m) /\ (CleanNow(m) => Clean(m))
    BY <1>6, GrownExcuses
  <2>2. \A j \in DOMAIN mounts : mounts[j].req \in DOMAIN reqs \cup {0}
    BY RowHas
  <2>3. \A j \in DOMAIN mounts : mounts[j].m = m /\ Active(j) => KnowsNow(mounts[j])
    <3>1. SUFFICES ASSUME NEW j \in DOMAIN mounts, mounts[j].m = m, Active(j) PROVE KnowsNow(mounts[j])
      OBVIOUS
    <3>2. Knows(mounts[j])
      BY <2>1, <3>1 DEF DraftInv
    <3> QED BY <1>5, <2>2, <3>1, <3>2 DEF Knows, KnowsNow, Answered
  <2>4. cur # 0 /\ mounts[cur].m = m /\ CleanNow(m) => HoldsNow(mounts[cur])
    <3>1. SUFFICES ASSUME cur # 0, mounts[cur].m = m, CleanNow(m) PROVE HoldsNow(mounts[cur])
      OBVIOUS
    <3>2. cur \in DOMAIN mounts /\ HoldsFiles(mounts[cur])
      BY <2>1, <3>1, Parts, CurIs DEF DraftInv
    <3> QED BY <1>5, <2>2, <3>2 DEF HoldsFiles, HoldsNow, Answered
  <2>5. \A o \in DOMAIN outbox : outbox[o].m = m /\ Pending(o) =>
          HaveNow(m, outbox[o].uid) /\ (CleanNow(m) => QueuedNow(outbox[o]))
    <3>1. SUFFICES ASSUME NEW o \in DOMAIN outbox, outbox[o].m = m, Pending(o)
                   PROVE  HaveNow(m, outbox[o].uid) /\ (CleanNow(m) => QueuedNow(outbox[o]))
      OBVIOUS
    <3>2. DraftsHave(m, outbox[o].uid) /\ (CleanNow(m) => QueuedFiles(outbox[o]))
      BY <2>1, <3>1 DEF DraftInv
    <3>3. outbox[o].at = "posted" /\ reqs[outbox[o].req].at \in {"handed", "done"} => reqs'[outbox[o].req] = reqs[outbox[o].req]
      BY <1>2, Parts DEF LinkInv
    <3> QED BY <1>5, <3>2, <3>3 DEF QueuedFiles, QueuedNow
  <2>6. /\ \A x \in DOMAIN reqs : reqs[x].m = m /\ reqs[x].kind = "save" /\ reqs'[x].at \in {"posted", "collected"} =>
             HaveNow(m, reqs[x].uid)
        /\ \A x \in DOMAIN reqs :
             reqs[x].m = m /\ reqs[x].kind = "send" /\ reqs'[x].at \in {"posted", "collected", "handed"} /\ CleanNow(m) =>
               HaveNow(m, reqs[x].uid)
    <3>1. \A x \in DOMAIN reqs : reqs[x].m = m /\ reqs[x].kind = "save" /\ reqs[x].at \in {"posted", "collected"} =>
            DraftsHave(m, reqs[x].uid)
      BY <2>1 DEF DraftInv
    <3>2. \A x \in DOMAIN reqs :
            reqs[x].m = m /\ reqs[x].kind = "send" /\ reqs[x].at \in {"posted", "collected", "handed"} /\ CleanNow(m) =>
              DraftsHave(m, reqs[x].uid)
      BY <2>1 DEF DraftInv
    <3>3. \A x \in DOMAIN reqs : /\ reqs'[x].at \in {"posted", "collected"} => reqs[x].at \in {"posted", "collected"}
                                 /\ reqs'[x].at \in {"posted", "collected", "handed"} =>
                                      reqs[x].at \in {"posted", "collected", "handed"}
      BY <1>2
    <3> QED BY <1>5, <3>1, <3>2, <3>3
  <2>7. \A s \in DOMAIN sent', d \in drafts' : sent'[s].m = m /\ d.m = m /\ CleanNow(m) =>
          \E x \in DOMAIN reqs : reqs[x].kind = "send" /\ reqs[x].m = m /\ reqs'[x].at = "handed"
    <3>1. SUFFICES ASSUME NEW s \in DOMAIN sent', NEW d \in drafts', sent'[s].m = m, d.m = m, CleanNow(m)
                   PROVE  \E x \in DOMAIN reqs : reqs[x].kind = "send" /\ reqs[x].m = m /\ reqs'[x].at = "handed"
      OBVIOUS
    <3>2. CASE at = "handed"
      BY <1>1, <1>2, <3>2
    <3>3. CASE sent' = sent
      <4>1. PICK x \in DOMAIN reqs : reqs[x].kind = "send" /\ reqs[x].m = m /\ reqs[x].at = "handed"
        BY <2>1, <3>1, <3>3 DEF DraftInv
      <4> QED BY <1>2, <4>1
    <3> QED BY <1>3, <3>1, <3>2, <3>3
  <2>8. \A d, e \in drafts' : d.m = m /\ e.m = m => d = e
    BY <2>1 DEF DraftInv
  <2> QED BY <2>3, <2>4, <2>5, <2>6, <2>7, <2>8 DEF FilesNow
<1>7. drafts' \in SUBSET DraftRow
  BY Parts DEF TypeInv
<1> QED BY <1>1, <1>3, <1>4, <1>6, <1>7, ServerFiles

LEMMA AbortFiles ==
  ASSUME IInv, DraftInv, NEW r \in DOMAIN reqs, Abort(r)
  PROVE  DraftInv'
<1>1. UNCHANGED <<mounts, cur, outbox, drafts, sent, cause>> /\ reqs[r].at = "posted" /\ Step(r, "failed")
  BY DEF Abort, folder, Step
<1>2. Grows
  BY <1>1, Parts, StaysPut
<1>3. PICK z \in ReqRow : Becomes(r, z, "failed", reqs[r].result)
  BY <1>1, StepIs
<1>4. PICK new : new = [m |-> reqs[r].m, text |-> 0]
  OBVIOUS
<1>5. new \in SentRow /\ new.m = reqs[r].m
  BY <1>4, Parts, ReqIs DEF SentRow
<1> QED BY <1>1, <1>2, <1>3, <1>5, SameFiles

LEMMA CollectFiles ==
  ASSUME IInv, DraftInv, NEW r \in DOMAIN reqs, Collect(r)
  PROVE  DraftInv'
<1>1. UNCHANGED <<mounts, cur, outbox, drafts, sent, cause>> /\ reqs[r].at = "posted"
  BY DEF Collect, folder
<1>2. Grows
  BY <1>1, Parts, StaysPut
<1>3. PICK at \in {"collected", "failed"} : Step(r, at)
  BY DEF Collect
<1>4. PICK z \in ReqRow : Becomes(r, z, at, reqs[r].result)
  BY <1>3, StepIs
<1>5. PICK new : new = [m |-> reqs[r].m, text |-> 0]
  OBVIOUS
<1>6. new \in SentRow /\ new.m = reqs[r].m
  BY <1>5, Parts, ReqIs DEF SentRow
<1> QED BY <1>1, <1>2, <1>3, <1>4, <1>6, SameFiles

LEMMA SubmitFiles ==
  ASSUME IInv, DraftInv, NEW r \in DOMAIN reqs, Submit(r)
  PROVE  DraftInv'
<1>1. PICK q \in ReqRow : q = reqs[r]
  BY Parts, ReqIs
<1>2. UNCHANGED <<mounts, cur, outbox, drafts>> /\ q.kind = "send" /\ q.at = "collected" /\ q.m \in Messages
  BY <1>1 DEF Submit, folder, ReqRow
<1>3. PICK new : new = [m |-> q.m, text |-> q.text]
  OBVIOUS
<1>4. new \in SentRow /\ new.m = q.m
  BY <1>2, <1>3 DEF ReqRow, SentRow
<1>5. PICK at \in {"handed", "failed"} :
        /\ Step(r, at)
        /\ \/ sent' = Append(sent, new) /\ at = "handed" /\ cause' = cause
           \/ sent' = sent /\ cause' = cause
           \/ sent' = Append(sent, new) /\ cause' = Marked({<<q.m, "unsure">>})
  BY <1>1, <1>3 DEF Submit
<1>6. PICK z \in ReqRow : Becomes(r, z, at, q.result)
  BY <1>1, <1>5, StepIs
<1>7. Grows /\ (cause' = Marked({<<q.m, "unsure">>}) => "unsure" \in cause'[q.m])
  BY <1>2, <1>5, Parts, StaysPut, MarkedIs, CausesAre
<1>8. "unsure" \in cause'[q.m] => ~CleanNow(q.m)
  BY DEF CleanNow, MayRepeat
<1>9. sent' = sent \/ (sent' = Append(sent, new) /\ (at = "handed" \/ ~CleanNow(q.m)))
  BY <1>5, <1>7, <1>8
<1> QED BY <1>1, <1>2, <1>4, <1>6, <1>7, <1>9, SameFiles

\* The composer that waits for a save is all there is of its message.
LEMMA SavesAlone ==
  ASSUME IInv, DraftInv, NEW r \in DOMAIN reqs, NEW m \in Messages, m = reqs[r].m, reqs[r].kind = "save",
         reqs[r].at \in {"posted", "collected"}, Whole(m)
  PROVE  /\ DraftsHave(m, reqs[r].uid)
         /\ \E i \in DOMAIN mounts :
              mounts[i].req = r /\ \A j \in DOMAIN mounts : mounts[j].m = m /\ Active(j) => j = i
         /\ \A o \in DOMAIN outbox : outbox[o].m = m => ~Pending(o)
         /\ \A x \in DOMAIN reqs : reqs[x].m = m /\ reqs[x].kind = "save" /\ reqs[x].at \in {"posted", "collected"} => x = r
         /\ Clean(m) => /\ \A s \in DOMAIN sent : sent[s].m # m
                        /\ \A x \in DOMAIN reqs : reqs[x].m = m /\ reqs[x].kind = "send" =>
                             reqs[x].at \notin {"posted", "collected", "handed"}
<1>1. ~Left(m) /\ (Clean(m) => ~Doubtful(m))
  BY DEF Whole, Clean, Befell, MayRepeat, MayLeaveDraft, Left, Doubtful
<1>2. \A x \in DOMAIN reqs :
        reqs[x].m = m /\ reqs[x].kind = "save" /\ reqs[x].at \in {"posted", "collected"} =>
          \E i \in DOMAIN mounts : mounts[i].req = x /\ mounts[i].m = m /\ Active(i)
  <2>1. SUFFICES ASSUME NEW x \in DOMAIN reqs, reqs[x].m = m, reqs[x].kind = "save",
                        reqs[x].at \in {"posted", "collected"}
                 PROVE  \E i \in DOMAIN mounts : mounts[i].req = x /\ mounts[i].m = m /\ Active(i)
    OBVIOUS
  <2>2. PICK i \in DOMAIN mounts : mounts[i].req = x
    BY <2>1 DEF DraftInv
  <2>3. mounts[i].req # 0
    BY <2>2, Parts, ReqIs
  <2>4. mounts[i].chain # <<>> /\ mounts[i].m = m
    BY <2>1, <2>2, <2>3, Parts DEF LinkInv
  <2> QED BY <2>2, <2>4 DEF Active, AtWork
<1>3. PICK i \in DOMAIN mounts : mounts[i].req = r /\ mounts[i].m = m /\ Active(i)
  BY <1>2
<1>4. \A j \in DOMAIN mounts : mounts[j].m = m /\ Active(j) => j = i
  BY <1>1, <1>3, Parts DEF ActiveInv
<1>5. \A o \in DOMAIN outbox : outbox[o].m = m => ~Pending(o)
  BY <1>1, <1>3, Parts DEF ActiveInv
<1>6. \A x \in DOMAIN reqs : reqs[x].m = m /\ reqs[x].kind = "save" /\ reqs[x].at \in {"posted", "collected"} => x = r
  BY <1>2, <1>3, <1>4
<1>7. ASSUME Clean(m)
      PROVE  /\ \A s \in DOMAIN sent : sent[s].m # m
             /\ \A x \in DOMAIN reqs : reqs[x].m = m /\ reqs[x].kind = "send" =>
                  reqs[x].at \notin {"posted", "collected", "handed"}
  <2>1. \A s \in DOMAIN sent : sent[s].m # m
    BY <1>1, <1>3, <1>7, Parts DEF SendInv
  <2>2. ASSUME NEW x \in DOMAIN reqs, reqs[x].m = m, reqs[x].kind = "send", reqs[x].at \in {"posted", "collected"}
        PROVE  FALSE
    <3>1. PICK o \in DOMAIN outbox : outbox[o].at = "posted" /\ outbox[o].req = x
      BY <1>1, <1>7, <2>2, Parts DEF SendInv
    <3>2. outbox[o].m = m
      BY <2>2, <3>1, Parts DEF LinkInv
    <3> QED BY <1>5, <3>1, <3>2 DEF Pending
  <2>3. ASSUME NEW x \in DOMAIN reqs, reqs[x].m = m, reqs[x].kind = "send", reqs[x].at = "handed"
        PROVE  FALSE
    <3>1. PICK s \in DOMAIN sent : sent[s] = [m |-> reqs[x].m, text |-> reqs[x].text]
      BY <2>3, Parts DEF LinkInv
    <3> QED BY <2>1, <2>3, <3>1
  <2> QED BY <2>1, <2>2, <2>3
<1>8. DraftsHave(m, reqs[r].uid)
  BY DEF DraftInv
<1> QED BY <1>3, <1>4, <1>5, <1>6, <1>7, <1>8

\* The draft before goes with the UID the new one takes the place of; torn, the message may have two.
LEMMA StoreDraftFiles ==
  ASSUME IInv, DraftInv, NEW r \in DOMAIN reqs, StoreDraft(r)
  PROVE  DraftInv'
<1>1. PICK q \in ReqRow : q = reqs[r]
  BY Parts, ReqIs
<1>2. UNCHANGED <<mounts, cur, outbox>> /\ sent' = sent /\ q.kind = "save" /\ q.at = "collected" /\ q.m \in Messages
  BY <1>1 DEF StoreDraft, tab, ReqRow
<1>3. PICK e : e = Stored(r)
  OBVIOUS
<1>4. e \in DraftRow /\ e.uid = nextUid /\ e.m = q.m /\ nextUid \in Nat
  BY <1>1, <1>3, Parts DEF Stored, DraftRow, ReqRow, TypeInv
<1>5. Grows /\ (cause' = Marked({<<q.m, "torn">>}) => ~WholeNow(q.m))
  <2>1. cause' = cause \/ cause' = Marked({<<q.m, "torn">>})
    BY <1>1 DEF StoreDraft
  <2>2. Grows /\ (cause' = Marked({<<q.m, "torn">>}) => "torn" \in cause'[q.m])
    BY <1>2, <2>1, Parts, StaysPut, MarkedIs, CausesAre
  <2> QED BY <2>2 DEF WholeNow, MayLeaveDraft
<1>6. CASE Step(r, "failed") /\ UNCHANGED <<drafts, nextUid>>
  <2>1. PICK z \in ReqRow : Becomes(r, z, "failed", q.result)
    BY <1>1, <1>6, StepIs
  <2>2. PICK new : new = [m |-> q.m, text |-> 0]
    OBVIOUS
  <2>3. new \in SentRow /\ new.m = q.m
    BY <1>2, <2>2 DEF SentRow
  <2> QED BY <1>1, <1>2, <1>5, <1>6, <2>1, <2>3, SameFiles
<1>7. CASE /\ drafts' \in {drafts \cup {e}, Without(q.uid) \cup {e}}
           /\ \/ reqs' = [reqs EXCEPT ![r].at = "done", ![r].result = nextUid]
              \/ Step(r, "failed")
           /\ WholeNow(q.m) => /\ drafts' = Without(q.uid) \cup {e}
                               /\ reqs' = [reqs EXCEPT ![r].at = "done", ![r].result = nextUid]
  <2>1. PICK z \in ReqRow, at \in {"done", "failed"}, v \in {q.result, nextUid} :
          Becomes(r, z, at, v) /\ (WholeNow(q.m) => at = "done" /\ v = nextUid)
    <3>1. CASE reqs' = [reqs EXCEPT ![r].at = "done", ![r].result = nextUid]
      <4>1. PICK z \in ReqRow : Becomes(r, z, "done", nextUid)
        BY <1>4, <3>1, DoneIs
      <4> QED BY <4>1
    <3>2. CASE Step(r, "failed") /\ ~WholeNow(q.m)
      <4>1. PICK z \in ReqRow : Becomes(r, z, "failed", q.result)
        BY <1>1, <3>2, StepIs
      <4> QED BY <3>2, <4>1
    <3> QED BY <1>7, <3>1, <3>2
  <2>2. /\ DOMAIN reqs' = DOMAIN reqs /\ \A x \in DOMAIN reqs : x # r => reqs'[x] = reqs[x]
        /\ reqs'[r].kind = "save" /\ reqs'[r].m = q.m /\ reqs'[r].uid = q.uid /\ reqs'[r].at = at
        /\ reqs'[r].result = v
    <3>1. reqs' = [reqs EXCEPT ![r] = z]
      BY <2>1 DEF Becomes
    <3>2. DOMAIN reqs' = DOMAIN reqs /\ \A x \in DOMAIN reqs : x # r => reqs'[x] = reqs[x]
      BY <3>1, Parts, Put DEF TypeInv
    <3> QED BY <1>1, <1>2, <2>1, <3>2 DEF Becomes
  <2>3. /\ e \in drafts' /\ \A d \in drafts' : d \in drafts \/ d = e
        /\ \A d \in drafts : d \in drafts' \/ d.uid = q.uid
    BY <1>7 DEF Without
  <2>4. \A d \in drafts \cup drafts' : d.m # q.m => d \in drafts /\ d \in drafts'
    <3>1. Owned(q.uid, q.m)
      BY <1>1, Parts DEF UidInv
    <3> QED BY <1>4, <2>3, <3>1 DEF Owned
  <2>5. ServesOne(r)
    BY <1>1, <1>2, <2>2, <2>4 DEF ServesOne
  <2>6. drafts' \in SUBSET DraftRow /\ sent' \in Seq(SentRow)
    BY <1>2, <1>4, <2>3, Parts DEF TypeInv
  <2>7. ASSUME WholeNow(q.m) PROVE FilesNow(q.m)
    <3>1. Whole(q.m) /\ (CleanNow(q.m) => Clean(q.m))
      BY <1>2, <1>5, <2>7, GrownExcuses
    <3>2. at = "done" /\ v = nextUid /\ drafts' = Without(q.uid) \cup {e}
      BY <1>7, <2>1, <2>7
    <3>3. DraftsHave(q.m, q.uid)
      BY <1>1, <1>2, <3>1, SavesAlone
    <3>4. PICK i \in DOMAIN mounts :
            mounts[i].req = r /\ \A j \in DOMAIN mounts : mounts[j].m = q.m /\ Active(j) => j = i
      BY <1>1, <1>2, <3>1, SavesAlone
    <3>5. /\ \A o \in DOMAIN outbox : outbox[o].m = q.m => ~Pending(o)
          /\ \A x \in DOMAIN reqs :
               reqs[x].m = q.m /\ reqs[x].kind = "save" /\ reqs[x].at \in {"posted", "collected"} => x = r
      BY <1>1, <1>2, <3>1, SavesAlone
    <3>6. CleanNow(q.m) => /\ \A s \in DOMAIN sent : sent[s].m # q.m
                           /\ \A x \in DOMAIN reqs : reqs[x].m = q.m /\ reqs[x].kind = "send" =>
                                reqs[x].at \notin {"posted", "collected", "handed"}
      BY <1>1, <1>2, <3>1, SavesAlone
    <3>7. \A d \in drafts' : d.m = q.m => d = e
      BY <3>2, <3>3 DEF DraftsHave, Without
    <3>8. HaveNow(q.m, nextUid) /\ nextUid \in Uids'
      BY <1>4, <2>3, <3>7 DEF HaveNow, Uids
    <3>9. r # 0 /\ DoneNow(r) /\ reqs'[r].result = nextUid
      BY <2>2, <3>2, Parts, ReqIs DEF DoneNow
    <3>10. \A j \in DOMAIN mounts : mounts[j].m = q.m /\ Active(j) => KnowsNow(mounts[j])
      BY <3>4, <3>8, <3>9 DEF KnowsNow
    <3>11. cur # 0 /\ mounts[cur].m = q.m /\ CleanNow(q.m) => HoldsNow(mounts[cur])
      <4>1. SUFFICES ASSUME cur # 0, mounts[cur].m = q.m, CleanNow(q.m) PROVE HoldsNow(mounts[cur])
        OBVIOUS
      <4>2. cur \in DOMAIN mounts /\ HoldsFiles(mounts[cur])
        BY <3>1, <4>1, Parts, CurIs DEF DraftInv
      <4>3. mounts[cur].req = r
        BY <3>4, <4>1, <4>2 DEF Active
      <4> QED BY <3>8, <3>9, <4>2, <4>3 DEF HoldsFiles, HoldsNow
    <3>12. \A x \in DOMAIN reqs :
             ~(reqs[x].m = q.m /\ reqs[x].kind = "save" /\ reqs'[x].at \in {"posted", "collected"})
      BY <2>2, <3>2, <3>5
    <3>13. \A x \in DOMAIN reqs : CleanNow(q.m) =>
             ~(reqs[x].m = q.m /\ reqs[x].kind = "send" /\ reqs'[x].at \in {"posted", "collected", "handed"})
      BY <2>2, <3>2, <3>6
    <3> QED BY <1>2, <3>5, <3>6, <3>7, <3>10, <3>11, <3>12, <3>13 DEF FilesNow
  <2> QED BY <1>1, <1>2, <1>5, <2>5, <2>6, <2>7, ServerFiles
<1> QED BY <1>1, <1>3, <1>5, <1>6, <1>7 DEF StoreDraft

\* A message Postfix has goes from the drafts; only what is left behind for a named reason stays.
LEMMA TidyFiles ==
  ASSUME IInv, DraftInv, NEW r \in DOMAIN reqs, Tidy(r)
  PROVE  DraftInv'
<1>1. PICK q \in ReqRow : q = reqs[r]
  BY Parts, ReqIs
<1>2. /\ UNCHANGED <<mounts, cur, outbox>> /\ sent' = sent /\ q.at = "handed" /\ Step(r, "done") /\ q.m \in Messages
      /\ q.kind = "send"
  BY <1>1, Parts DEF Tidy, tab, ReqRow, LinkInv
<1>3. PICK z \in ReqRow : Becomes(r, z, "done", q.result)
  BY <1>1, <1>2, StepIs
<1>4. /\ Grows /\ drafts' \subseteq drafts /\ \A d \in drafts \ drafts' : d.uid = q.uid
      /\ WholeNow(q.m) => drafts' = Without(q.uid)
  <2>1. \/ drafts' = Without(q.uid) /\ cause' = cause
        \/ drafts' = drafts /\ cause' = Marked({<<q.m, "torn">>})
    BY <1>1 DEF Tidy
  <2>2. Grows /\ (cause' = Marked({<<q.m, "torn">>}) => "torn" \in cause'[q.m])
    BY <1>2, <2>1, Parts, StaysPut, MarkedIs, CausesAre
  <2> QED BY <2>1, <2>2 DEF Without, WholeNow, MayLeaveDraft
<1>5. /\ DOMAIN reqs' = DOMAIN reqs /\ \A x \in DOMAIN reqs : x # r => reqs'[x] = reqs[x]
      /\ reqs'[r].kind = "send" /\ reqs'[r].m = q.m /\ reqs'[r].uid = q.uid /\ reqs'[r].at = "done"
  <2>1. reqs' = [reqs EXCEPT ![r] = z]
    BY <1>3 DEF Becomes
  <2>2. DOMAIN reqs' = DOMAIN reqs /\ \A x \in DOMAIN reqs : x # r => reqs'[x] = reqs[x]
    BY <2>1, Parts, Put DEF TypeInv
  <2> QED BY <1>1, <1>2, <1>3, <2>2 DEF Becomes
<1>6. ServesOne(r)
  <2>1. Owned(q.uid, q.m)
    BY <1>1, Parts DEF UidInv
  <2>2. \A d \in drafts \cup drafts' : d.m # q.m => d \in drafts /\ d \in drafts'
    BY <1>4, <2>1 DEF Owned
  <2> QED BY <1>1, <1>2, <1>5, <2>2 DEF ServesOne
<1>7. drafts' \in SUBSET DraftRow /\ sent' \in Seq(SentRow)
  BY <1>2, <1>4, Parts DEF TypeInv
<1>8. ASSUME WholeNow(q.m) PROVE FilesNow(q.m)
  <2>1. Whole(q.m) /\ (CleanNow(q.m) => Clean(q.m) /\ ~Doubtful(q.m))
    BY <1>2, <1>4, <1>8, GrownExcuses
  <2>2. \A uid : DraftsHave(q.m, uid) => HaveNow(q.m, uid)
    BY <1>4 DEF DraftsHave, HaveNow
  <2>3. CleanNow(q.m) => \A d \in drafts' : d.m # q.m
    <3>1. CleanNow(q.m) => DraftsHave(q.m, q.uid)
      BY <1>1, <1>2, <2>1 DEF DraftInv
    <3> QED BY <1>4, <1>8, <3>1 DEF DraftsHave, Without
  <2>4. \E s \in DOMAIN sent : sent[s].m = q.m
    <3>1. PICK s \in DOMAIN sent : sent[s] = [m |-> q.m, text |-> q.text]
      BY <1>1, <1>2, Parts DEF LinkInv
    <3> QED BY <3>1
  <2>5. \A j \in DOMAIN mounts : mounts[j].m = q.m /\ Active(j) => KnowsNow(mounts[j])
    <3>1. SUFFICES ASSUME NEW j \in DOMAIN mounts, mounts[j].m = q.m, Active(j) PROVE KnowsNow(mounts[j])
      OBVIOUS
    <3>2. Knows(mounts[j])
      BY <2>1, <3>1 DEF DraftInv
    <3>3. mounts[j].req # 0 => reqs'[mounts[j].req] = reqs[mounts[j].req]
      BY <1>1, <1>2, <1>5, Parts DEF LinkInv
    <3> QED BY <2>2, <3>1, <3>2, <3>3 DEF Knows, KnowsNow, Answered, DoneNow
  <2>6. ~(cur # 0 /\ mounts[cur].m = q.m /\ CleanNow(q.m))
    <3>1. SUFFICES ASSUME cur # 0, mounts[cur].m = q.m, CleanNow(q.m) PROVE FALSE
      OBVIOUS
    <3>2. cur \in DOMAIN mounts /\ Active(cur)
      BY <3>1, Parts, CurIs DEF Active
    <3> QED BY <2>1, <2>4, <3>1, <3>2, Parts DEF SendInv
  <2>7. \A o \in DOMAIN outbox : outbox[o].m = q.m /\ Pending(o) =>
          HaveNow(q.m, outbox[o].uid) /\ (CleanNow(q.m) => QueuedNow(outbox[o]))
    <3>1. SUFFICES ASSUME NEW o \in DOMAIN outbox, outbox[o].m = q.m, Pending(o)
                   PROVE  HaveNow(q.m, outbox[o].uid) /\ (CleanNow(q.m) => QueuedNow(outbox[o]))
      OBVIOUS
    <3>2. DraftsHave(q.m, outbox[o].uid) /\ (CleanNow(q.m) => QueuedFiles(outbox[o]))
      BY <2>1, <3>1 DEF DraftInv
    <3>3. ASSUME CleanNow(q.m) PROVE outbox[o].at = "posted" /\ reqs'[outbox[o].req].at \in {"handed", "done"}
      <4>1. InHand(o)
        BY <2>1, <2>4, <3>1, <3>3, Parts DEF SendInv
      <4> QED BY <1>5, <4>1, Parts DEF InHand, LinkInv
    <3> QED BY <2>2, <3>2, <3>3 DEF QueuedFiles, QueuedNow
  <2>8. /\ \A x \in DOMAIN reqs : reqs[x].m = q.m /\ reqs[x].kind = "save" /\ reqs'[x].at \in {"posted", "collected"} =>
             HaveNow(q.m, reqs[x].uid)
        /\ \A x \in DOMAIN reqs :
             reqs[x].m = q.m /\ reqs[x].kind = "send" /\ reqs'[x].at \in {"posted", "collected", "handed"} /\ CleanNow(q.m) =>
               HaveNow(q.m, reqs[x].uid)
    <3>1. \A x \in DOMAIN reqs : reqs[x].m = q.m /\ reqs[x].kind = "save" /\ reqs[x].at \in {"posted", "collected"} =>
            DraftsHave(q.m, reqs[x].uid)
      BY <2>1 DEF DraftInv
    <3>2. \A x \in DOMAIN reqs :
            reqs[x].m = q.m /\ reqs[x].kind = "send" /\ reqs[x].at \in {"posted", "collected", "handed"} /\ CleanNow(q.m) =>
              DraftsHave(q.m, reqs[x].uid)
      BY <2>1 DEF DraftInv
    <3>3. \A x \in DOMAIN reqs : /\ reqs'[x].at \in {"posted", "collected"} => reqs[x].at \in {"posted", "collected"}
                                 /\ reqs'[x].at \in {"posted", "collected", "handed"} =>
                                      reqs[x].at \in {"posted", "collected", "handed"}
      BY <1>5
    <3> QED BY <2>2, <3>1, <3>2, <3>3
  <2>9. \A d, e \in drafts' : d.m = q.m /\ e.m = q.m => d = e
    BY <1>4, <2>1 DEF DraftInv
  <2> QED BY <2>3, <2>5, <2>6, <2>7, <2>8, <2>9 DEF FilesNow
<1> QED BY <1>1, <1>2, <1>4, <1>6, <1>7, <1>8, ServerFiles

-----------------------------------------------------------------------------
(* What stays in the tab, and all the steps together.                       *)

LEMMA ElsewhereFiles ==
  ASSUME IInv, DraftInv, Grows, UNCHANGED <<mounts, cur, outbox, reqs, drafts, sent>>
  PROVE  DraftInv'
<1>1. \A j \in DOMAIN mounts : j \in DOMAIN mounts' /\ mounts'[j] = mounts[j] /\ (j = cur' <=> j = cur)
  OBVIOUS
<1>2. \A j \in DOMAIN mounts : StaysFiled(j) /\ GoesOn(j)
  BY <1>1, Unmoved
<1>3. ShowsFiles
  BY StillShows
<1>4. \A o \in DOMAIN outbox' : QueuesFiles(o)
  BY StillQueues
<1> QED BY <1>1, <1>2, <1>3, <1>4, FilesTurn

LEMMA LeaveFiles ==
  ASSUME IInv, DraftInv, Leave
  PROVE  DraftInv'
<1>1. UNCHANGED <<mounts, cur, outbox, reqs, drafts, sent>>
  BY DEF Leave, folder
<1>2. Grows
  BY Parts, MarkedIs DEF Leave
<1> QED BY <1>1, <1>2, ElsewhereFiles

LEMMA StutterFiles ==
  ASSUME IInv, DraftInv, UNCHANGED vars
  PROVE  DraftInv'
<1>1. UNCHANGED <<mounts, cur, outbox, reqs, drafts, sent>> /\ cause' = cause
  BY DEF vars, folder, tab
<1>2. Grows
  BY <1>1, Parts, StaysPut
<1> QED BY <1>1, <1>2, ElsewhereFiles

LEMMA InitFiles ==
  ASSUME Init
  PROVE  DraftInv
<1>1. mounts = <<>> /\ cur = 0 /\ outbox = <<>> /\ reqs = <<>> /\ drafts = {} /\ sent = <<>>
  BY DEF Init
<1>2. DOMAIN mounts = {} /\ DOMAIN outbox = {} /\ DOMAIN reqs = {} /\ DOMAIN sent = {}
  BY <1>1
<1> QED BY <1>1, <1>2 DEF DraftInv

LEMMA NextFiles ==
  ASSUME IInv, DraftInv, [Next]_vars
  PROVE  DraftInv'
<1>1. ASSUME NEW m \in Messages, Open(m) PROVE DraftInv'
  BY <1>1, OpenFiles
<1>2. CASE Edit
  BY <1>2, EditFiles
<1>3. CASE Attach
  BY <1>3, AttachFiles
<1>4. CASE Autosave \/ AskClose \/ AskFlush
  BY <1>4, AskFiles
<1>5. CASE Discard
  BY <1>5, DiscardFiles
<1>6. CASE Move
  BY <1>6, MoveFiles
<1>7. CASE Press
  BY <1>7, PressFiles
<1>8. CASE Leave
  BY <1>8, LeaveFiles
<1>9. ASSUME NEW i \in DOMAIN mounts,
             Deliver(i) \/ Begin(i) \/ Saved(i) \/ Unsaved(i) \/ QueueSend(i) \/ TooLarge(i)
      PROVE  DraftInv'
  BY <1>9, DeliverFiles, BeginFiles, SavedFiles, UnsavedFiles, QueueSendFiles, TooLargeFiles
<1>10. ASSUME NEW o \in DOMAIN outbox, Fire(o) \/ Undo(o) \/ EditMessage(o) \/ Settle(o) \/ ToastExpires(o)
       PROVE  DraftInv'
  <2>1. CASE Fire(o)
    BY <2>1, FireFiles
  <2>2. CASE Undo(o)
    <3>1. Reopen(o, "window", "undone")
      BY <2>2 DEF Undo
    <3> QED BY <3>1, ReopenFiles
  <2>3. CASE EditMessage(o)
    <3>1. Reopen(o, "toast", "edited")
      BY <2>3 DEF EditMessage
    <3> QED BY <3>1, ReopenFiles
  <2>4. CASE Settle(o)
    BY <2>4, SettleFiles
  <2>5. CASE ToastExpires(o)
    BY <2>5, ToastFiles
  <2> QED BY <1>10, <2>1, <2>2, <2>3, <2>4, <2>5
<1>11. ASSUME NEW r \in DOMAIN reqs, Abort(r) \/ Collect(r) \/ StoreDraft(r) \/ Submit(r) \/ Tidy(r)
       PROVE  DraftInv'
  BY <1>11, AbortFiles, CollectFiles, StoreDraftFiles, SubmitFiles, TidyFiles
<1>12. CASE UNCHANGED vars
  BY <1>12, StutterFiles
<1> QED BY <1>1, <1>2, <1>3, <1>4, <1>5, <1>6, <1>7, <1>8, <1>9, <1>10, <1>11, <1>12 DEF Next

-----------------------------------------------------------------------------
(* What follows for the drafts.                                             *)

\* Whoever holds a message nothing befell knows the UID of its one draft, whatever the order in which saves are
\* answered, composers replaced and sends undone (Composer.tsx:100-342, send/routes.ts:118-186).
THEOREM DraftsInductive == Spec => [](IInv /\ DraftInv)
<1>1. Init => IInv /\ DraftInv
  BY InitKeeps, InitFiles
<1>2. IInv /\ DraftInv /\ [Next]_vars => IInv' /\ DraftInv'
  BY NextKeeps, NextFiles
<1> QED BY <1>1, <1>2, PTL DEF Spec

LEMMA Held ==
  ASSUME IInv, DraftInv
  PROVE  AttachmentsHeld
<1>1. SUFFICES ASSUME NEW m \in Messages, Clean(m),
                      NEW x \in UNION ({mounts[i].att : i \in {j \in Mounted : j = cur /\ mounts[j].m = m /\ ~Waiting(mounts[j])}}
                        \cup {outbox[o].att : o \in {p \in DOMAIN outbox : outbox[p].m = m /\ outbox[p].at = "window"}}),
                      x # 0
               PROVE  x \in Uids
  BY DEF AttachmentsHeld, Clean
<1>2. ASSUME NEW i \in Mounted, i = cur, mounts[i].m = m, ~Waiting(mounts[i]), x \in mounts[i].att
      PROVE  x \in Uids
  <2>1. cur # 0 /\ HoldsFiles(mounts[cur])
    BY <1>1, <1>2, Parts DEF Mounted, DraftInv
  <2> QED BY <1>1, <1>2, <2>1 DEF HoldsFiles, Waiting, Answered
<1>3. ASSUME NEW o \in DOMAIN outbox, outbox[o].m = m, outbox[o].at = "window", x \in outbox[o].att
      PROVE  x \in Uids
  <2>1. QueuedFiles(outbox[o])
    BY <1>1, <1>3 DEF DraftInv, Pending
  <2> QED BY <1>1, <1>3, <2>1 DEF QueuedFiles
<1> QED BY <1>1, <1>2, <1>3

\* The attachments of an open or a queued message can be read, unless one of the named things befell it
\* (Composer.tsx:171-199, send/routes.ts:154-186).
THEOREM FilesHeld == Spec => []AttachmentsHeld
BY DraftsInductive, Held, PTL

LEMMA OneOrNone ==
  ASSUME IInv, DraftInv
  PROVE  OneDraftUntilSent
<1>1. ASSUME NEW m \in Messages, Whole(m)
      PROVE  ~(Cardinality(DraftsOf(m)) > 1)
  <2>1. \A d, e \in DraftsOf(m) : d = e
    BY <1>1 DEF DraftInv, DraftsOf
  <2>2. CASE DraftsOf(m) = {}
    BY <2>2, FS_EmptySet
  <2>3. CASE DraftsOf(m) # {}
    <3>1. PICK d : DraftsOf(m) = {d}
      BY <2>1, <2>3
    <3>2. Cardinality(DraftsOf(m)) = 1
      BY <3>1, FS_Singleton
    <3> QED BY <3>2
  <2> QED BY <2>2, <2>3
<1>2. ASSUME NEW m \in Messages, Clean(m), Copies(m) > 0, DraftsOf(m) # {}
      PROVE  InProgress(m)
  <2>1. PICK s \in DOMAIN sent : sent[s].m = m
    <3>1. SUFFICES ASSUME {i \in DOMAIN sent : sent[i].m = m} = {} PROVE FALSE
      OBVIOUS
    <3> QED BY <1>2, <3>1, FS_EmptySet DEF Copies
  <2>2. PICK d \in drafts : d.m = m
    BY <1>2 DEF DraftsOf
  <2>3. PICK r \in DOMAIN reqs : reqs[r].m = m /\ reqs[r].at = "handed"
    BY <1>2, <2>1, <2>2 DEF DraftInv
  <2> QED BY <2>3 DEF InProgress
<1> QED BY <1>1, <1>2 DEF OneDraftUntilSent, Whole, Clean

\* A message has one draft at most, and none once it is sent and all is done, unless one of the named things
\* befell it (Composer.tsx:171-181,286-289, send/routes.ts:139-147).
THEOREM OneDraft == Spec => []OneDraftUntilSent
BY DraftsInductive, OneOrNone, PTL
=============================================================================
