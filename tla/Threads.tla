------------------------------ MODULE Threads ------------------------------
(***************************************************************************)
(* Conversations of one folder: how the server groups a page of messages   *)
(* (groupThreads and listThreads in mail/threads.ts), how it finds the     *)
(* messages of one conversation (threadUids), and how the mail page folds  *)
(* the pages it has loaded into one list (mergePages in routes/Mail.tsx),  *)
(* while mail comes and goes between two pages.                            *)
(*                                                                         *)
(* Abstracted: every message has the same sender, no subject is part of    *)
(* another, and of a row only what conversations are made of is kept. The  *)
(* date of a message is when it arrived, so messages are numbered in that  *)
(* order; a reply may arrive before the message it answers, and may change *)
(* the subject.                                                            *)
(***************************************************************************)
EXTENDS Naturals, Sequences, FiniteSets, SequencesExt, FiniteSetsExt

CONSTANTS Subjects,
          PageSize,    \* messages in a page of the list
          MaxRounds,   \* MAX_EXPAND_ROUNDS
          Gap,         \* SUBJECT_FALLBACK_GAP_MS, in messages
          MaxWritten,  \* bound: messages
          MaxTurns,    \* bound: moves into or out of the folder, messages that arrive elsewhere or before what they
                       \* answer, answers with another subject
          Changed,     \* a subject that only an answer has
          None

ASSUME Sizes == PageSize \in Nat \ {0} /\ MaxRounds \in Nat /\ Gap \in Nat
ASSUME Bounds == {MaxWritten, MaxTurns} \subseteq Nat
ASSUME NoneOutside == {None, Changed} \cap Subjects = {} /\ None # Changed

VARIABLES
  mail,   \* the messages, in the order of their dates
  uid,    \* uid[d]: the UID of message d in the folder, 0 when it is elsewhere
  next,   \* the next UID
  pages,  \* the pages of the list that are loaded
  turns   \* history: what MaxTurns counts

vars == <<mail, uid, next, pages, turns>>

\* Message d: whether it has a Message-ID, what it says it answers (also what arrives later, or never), its subject.
Dates == 1..Len(mail)
Here == {d \in Dates : uid[d] # 0}

Init == mail = <<>> /\ uid = <<>> /\ next = 1 /\ pages = <<>> /\ turns = 0

-----------------------------------------------------------------------------
(* Envelopes *)

\* toEnvelope: a message without a Message-ID gets a stand-in with its UID.
MessageId(d) == IF mail[d].named THEN <<"id", d>> ELSE <<"uid", uid[d]>>
InReplyTo(d) == IF mail[d].inReplyTo = 0 THEN {} ELSE {<<"id", mail[d].inReplyTo>>}
References(d) == [i \in DOMAIN mail[d].references |-> <<"id", mail[d].references[i]>>]
Cited(d) == ToSet(References(d)) \cup InReplyTo(d)
IsLinked(d) == Cited(d) # {}
SubjectKey(d) == IF IsLinked(d) THEN None ELSE mail[d].subject

\* Ascending by UID or by date.
ByUid(ds) == SetToSortSeq(ds, LAMBDA a, b : uid[a] < uid[b])
ByDate(ds) == SetToSortSeq(ds, LAMBDA a, b : a < b)

-----------------------------------------------------------------------------
(* groupThreads *)

\* A forest over ids, as a function from the ids met so far to their parents.
Find(parent, x) ==
  LET up[n \in 0..Cardinality(DOMAIN parent)] ==
        IF n = 0 THEN x ELSE LET y == up[n - 1] IN IF y \in DOMAIN parent THEN parent[y] ELSE y
  IN up[Cardinality(DOMAIN parent)]
Set(parent, x, y) == [z \in DOMAIN parent \cup {x} |-> IF z = x THEN y ELSE parent[z]]
Known(parent, x) == IF x \in DOMAIN parent THEN parent ELSE Set(parent, x, x)
\* find() leaves every id it was asked about pointing at its root.
Union_Unrooted(parent, a, b) == Set(parent, a, b)
Union(parent, a, b) ==
  LET ra == Find(parent, a)
      rb == Find(parent, b)
      short == Set(Set(parent, a, ra), b, rb)
  IN IF ra = rb THEN short ELSE Set(short, ra, rb)

LinkOne(parent, d) ==
  FoldLeft(LAMBDA p, r : Union(Known(p, r), MessageId(d), r), Known(parent, MessageId(d)),
           References(d) \o SetToSeq(InReplyTo(d)))
Linked(ds) == FoldLeft(LinkOne, <<>>, ByUid(ds))

\* The subject fallback joins a message with the last one before it of the same key, if that is not too long ago.
Previous(ds, d) == {e \in ds : e < d /\ SubjectKey(e) = SubjectKey(d)}
BySubject(ds) ==
  FoldLeft(LAMBDA p, d :
             IF SubjectKey(d) # None /\ Previous(ds, d) # {} /\ d - Max(Previous(ds, d)) <= Gap
             THEN Union(p, MessageId(d), MessageId(Max(Previous(ds, d)))) ELSE p,
           Linked(ds), ByDate(ds))

\* The conversation is named after the first reference of its oldest message, or that message.
RootId(ds) == LET oldest == Min(ds) IN IF References(oldest) = <<>> THEN MessageId(oldest) ELSE References(oldest)[1]
RowOf(ds) == [id |-> RootId(ds), date |-> Max(ds), count |-> Cardinality(ds), uids |-> {uid[d] : d \in ds}]
Groups(ds) == LET forest == BySubject(ds)
                  root == [d \in ds |-> Find(forest, MessageId(d))]
              IN {{e \in ds : root[e] = root[d]} : d \in ds}
GroupThreads(ds) == SetToSortSeq({RowOf(g) : g \in Groups(ds)}, LAMBDA a, b : a.date > b.date)

-----------------------------------------------------------------------------
(* listThreads and mergePages *)

Before_Included(cursor) == {d \in Here : cursor = 0 \/ uid[d] <= cursor}
Before(cursor) == {d \in Here : cursor = 0 \/ uid[d] < cursor}
Newest(ds) == LET s == ByUid(ds) IN ToSet(SubSeq(s, IF Len(s) > PageSize THEN Len(s) - PageSize + 1 ELSE 1, Len(s)))
Page(cursor) ==
  LET page == Newest(Before(cursor)) IN
  [threads |-> GroupThreads(page),
   nextCursor |-> IF Before(cursor) = page THEN 0 ELSE Min({uid[d] : d \in page})]

\* Rows of the same id become one row, where the first of them was.
Folded(a, t) == [a EXCEPT !.uids = @ \cup t.uids, !.count = @ + t.count, !.date = IF t.date > @ THEN t.date ELSE @]
MergeRow(out, t) ==
  IF \E i \in DOMAIN out : out[i].id = t.id
  THEN [i \in DOMAIN out |-> IF out[i].id = t.id THEN Folded(out[i], t) ELSE out[i]]
  ELSE Append(out, t)
MergePages == FoldLeft(MergeRow, <<>>, FlattenSeq([i \in DOMAIN pages |-> pages[i].threads]))

LoadList ==
  /\ pages = <<>>
  /\ pages' = <<Page(0)>>
  /\ UNCHANGED <<mail, uid, next, turns>>
FetchNextPage ==
  /\ pages # <<>> /\ Last(pages).nextCursor # 0
  /\ pages' = Append(pages, Page(Last(pages).nextCursor))
  /\ UNCHANGED <<mail, uid, next, turns>>

-----------------------------------------------------------------------------
(* threadUids *)

\* Opening a row asks for the conversation of its id.  threadOf: the first group with a message that is or cites the root.
Seeds(ds, root) == {uid[d] : d \in {e \in ds : MessageId(e) = root \/ root \in Cited(e)}}
ThreadOf(ds, root) ==
  LET seeds == Seeds(ds, root)
      hits == SelectSeq(GroupThreads(ds), LAMBDA t : t.uids \cap seeds # {})
  IN IF hits = <<>> THEN {} ELSE hits[1].uids

\* One round searches the new ids and subjects; only members of the conversation bring more of them.
Searched(ids, subjects) ==
  {d \in Here : \/ mail[d].named /\ MessageId(d) \in ids
                \/ Cited(d) \cap ids # {}
                \/ mail[d].subject \in subjects}
\* A stand-in id is not in any header: it names its message by UID.
StandIn(root) == {d \in Here : ~mail[d].named /\ MessageId(d) = root}
NewIds_OfMessages(ds) == {MessageId(d) : d \in ds}
NewIds(ds) == UNION {Cited(d) \cup {MessageId(d)} : d \in ds}
NewSubjects(ds) == {SubjectKey(d) : d \in ds} \ {None}
ThreadUids(root) ==
  LET round[n \in 0..MaxRounds] ==
        IF n = 0 THEN [known |-> StandIn(root), ids |-> {root}, subjects |-> {}]
        ELSE LET old == round[n - 1]
                 known == old.known \cup Searched(old.ids, old.subjects)
                 thread == ThreadOf(known, root)
                 members == {d \in known : uid[d] \in thread}
             IN [known |-> known, ids |-> old.ids \cup NewIds(members), subjects |-> old.subjects \cup NewSubjects(members)]
  IN ThreadOf(round[MaxRounds].known, root)

-----------------------------------------------------------------------------
(* Mail *)

Message(named, inReplyTo, references, subject) ==
  [named |-> named, inReplyTo |-> inReplyTo, references |-> references, subject |-> subject]
Cites(m) == ToSet(m.references) \cup ({m.inReplyTo} \ {0})
\* The references of an answer to p: those of p, or one that is here when p did not arrive yet, and p.
ReferencesTo(p) ==
  IF p \notin Dates THEN {<<p>>} \cup {<<q, p>> : q \in Dates}
  ELSE IF mail[p].references = <<>> /\ mail[p].inReplyTo # 0 THEN {<<mail[p].inReplyTo, p>>}
  ELSE {Append(mail[p].references, p)}
\* A mail program answers p with all references, or with In-Reply-To alone; an answer with neither is like a first message.
Answers(p) == {Message(TRUE, p, refs, s) : refs \in {<<>>} \cup ReferencesTo(p), s \in Subjects \cup {Changed}}
Firsts == {Message(named, 0, <<>>, s) : named \in BOOLEAN, s \in Subjects}

\* What m goes back to, as far as it is known.
Forebears(m) ==
  LET back[n \in 0..MaxWritten] ==
        IF n = 0 THEN Cites(m)
        ELSE back[n - 1] \cup UNION {Cites(mail[e]) : e \in back[n - 1] \cap Dates}
  IN back[MaxWritten]
\* No message answers itself in the end, and what is cited has a Message-ID.
CanFollow(m) ==
  LET d == Len(mail) + 1 IN
  /\ d \notin Forebears(m)
  /\ \A c \in Cites(m) \cap Dates : mail[c].named
  /\ m.named \/ \A e \in Dates : d \notin Cites(mail[e])

Count(happens) == IF happens THEN 1 ELSE 0
\* A message arrives in the folder, or elsewhere; it answers one that is there, or one that arrives after it.
Write ==
  /\ Len(mail) < MaxWritten
  /\ \E m \in Firsts \cup UNION {Answers(p) : p \in (1 .. MaxWritten) \ {Len(mail) + 1}}, comes \in BOOLEAN :
       /\ CanFollow(m)
       /\ mail' = Append(mail, m)
       /\ uid' = Append(uid, IF comes THEN next ELSE 0)
       /\ next' = IF comes THEN next + 1 ELSE next
       /\ turns' = turns + Count(~comes) + Count(m.inReplyTo > Len(mail)) + Count(m.subject = Changed)
       /\ turns' <= MaxTurns
  /\ UNCHANGED pages
\* Moved into the folder an old message gets the newest UID and keeps its date.
MoveIn(d) ==
  /\ turns < MaxTurns /\ uid[d] = 0
  /\ uid' = [uid EXCEPT ![d] = next] /\ next' = next + 1 /\ turns' = turns + 1
  /\ UNCHANGED <<mail, pages>>
MoveOut(d) ==
  /\ turns < MaxTurns /\ uid[d] # 0
  /\ uid' = [uid EXCEPT ![d] = 0] /\ turns' = turns + 1
  /\ UNCHANGED <<mail, next, pages>>

Next ==
  \/ Write \/ LoadList \/ FetchNextPage
  \/ \E d \in Dates : MoveIn(d) \/ MoveOut(d)
Spec == Init /\ [][Next]_vars

-----------------------------------------------------------------------------
(* Properties *)

\* What groupThreads is to compute: the finest partition that keeps messages that share an id or follow each other by
\* subject together.
Related(ds, d, e) ==
  \/ ({MessageId(d)} \cup Cited(d)) \cap ({MessageId(e)} \cup Cited(e)) # {}
  \/ SubjectKey(d) # None /\ SubjectKey(e) = SubjectKey(d) /\ \A f \in ds : SubjectKey(f) = SubjectKey(d) => ~(d < f /\ f < e)
     /\ d <= e /\ e - d <= Gap
Component(ds, d) ==
  LET grown[n \in 0..Cardinality(ds)] ==
        IF n = 0 THEN {d}
        ELSE grown[n - 1] \cup {e \in ds : \E f \in grown[n - 1] : Related(ds, e, f) \/ Related(ds, f, e)}
  IN grown[Cardinality(ds)]
\* The union-find with its shortened paths puts messages together that are linked, and no others, in whatever order the
\* page has them (groupThreads).
GroupsAreComponents == pages = <<>> => Groups(Here) = {Component(Here, d) : d \in Here}

\* Opening a row whose messages are all still there shows every one of them, also when its pages were grouped apart, its
\* oldest message came last, a reply came before what it answers or changed the subject, or its first message is
\* elsewhere; what cannot be reached in so many rounds of searches is missing (threadUids): no round is without a new
\* message, so that a row may have as many messages as there are rounds.
OpenShowsRow ==
  \A row \in ToSet(MergePages) :
    row.uids \subseteq {uid[d] : d \in Here} /\ row.count <= MaxRounds => row.uids \subseteq ThreadUids(row.id)

\* Whatever moves between two pages, every message is in one row of the merged list at most, so that an action on rows
\* takes no message twice and no id stands for two rows (listThreads, mergePages).
RowsApart ==
  LET rows == MergePages IN
  \A i, j \in DOMAIN rows : i # j => rows[i].id # rows[j].id /\ rows[i].uids \cap rows[j].uids = {}

=============================================================================
