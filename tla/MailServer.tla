----------------------------- MODULE MailServer -----------------------------
(***************************************************************************)
(* Mail requests of one mailbox on the server (mail/routes.ts): they queue *)
(* on a pooled IMAP connection (mail/pool.ts), and bodies are kept in a    *)
(* cache (mail/message.ts, mail/lru.ts) that other mail apps know nothing  *)
(* of.  An administrator's eviction, the sweep and a broken connection     *)
(* fall between any two commands.                                          *)
(*                                                                         *)
(* Abstracted: a message is one body; its only flag is \Seen; a list of    *)
(* several UIDs in one command is one reference; an IMAP command and the   *)
(* lock around it are one step on the mail store, and the request takes    *)
(* the answer in its next.                                                 *)
(***************************************************************************)
EXTENDS Naturals, SequencesExt

CONSTANTS Folders, Inbox, Trash, Messages, Requests,
          Objects,    \* bound: PooledConnection objects alive at a time
          Clients,    \* bound: IMAP connections open at a time
          MaxUid,     \* bound: UIDs per folder
          MaxCalls,   \* bound: requests
          MaxEvents,  \* bound: deliveries, other apps' changes, evictions, sweeps, lost connections
          CacheSize,  \* how many bodies the cache keeps
          None

ASSUME KnownFolders == {Inbox, Trash} \subseteq Folders /\ Inbox # Trash
ASSUME Bounds == {MaxCalls, MaxEvents} \subseteq Nat /\ {MaxUid, CacheSize} \subseteq Nat \ {0}
ASSUME NoneOutside == None \notin Folders \cup Messages \cup Objects \cup Clients

VARIABLES
  store,   \* store[f]: whether the folder is there, its next UID and its messages
  seen,    \* the \Seen flag of every message
  cache,   \* the bodies kept, the one used last at the end
  pool,    \* the connection object in the pool's map, or None
  obj,     \* obj[o]: its client and the requests queued on it
  cli,     \* cli[c]: one IMAP connection
  req,     \* req[r]: a request
  evicts,  \* history: evictions so far
  named,   \* history: the message that each UID of a folder was given to
  remade,  \* history: folders made again under a name that had been used
  calls,   \* history: requests so far
  events   \* history: events so far

mail == <<store, seen, named, remade>>
conns == <<pool, obj, cli, evicts>>
count == <<calls, events>>
vars == <<mail, conns, cache, req, count>>

Uids == 1..MaxUid
Refs == Folders \X Uids
Folder(k) == k[1]
Uid(k) == k[2]

NoFolder == [made |-> FALSE, next |-> 1, at |-> [u \in Uids |-> None]]
NewFolder == [NoFolder EXCEPT !.made = TRUE]
Present(f) == {u \in Uids : store[f].at[u] # None}
Message(k) == store[Folder(k)].at[Uid(k)]
Contents(f) == {<<f, u>> : u \in Present(f)}

NoObject == [client |-> None, queue |-> <<>>, closedBusy |-> FALSE]
NoClient == [st |-> "closed", sel |-> None, view |-> {}, born |-> 0]
Idle == [pc |-> "idle", kind |-> "none", todo |-> <<>>, on |-> None, cli |-> None, since |-> 0, due |-> {},
         turned |-> {}, found |-> {}, flags |-> {}, got |-> {}]

\* One message is there to begin with.
Init ==
  /\ \E m \in Messages, f \in {Inbox, Trash} :
       /\ store = [g \in Folders |-> IF g = f THEN [NewFolder EXCEPT !.next = 2, !.at[1] = m]
                                    ELSE IF g \in {Inbox, Trash} THEN NewFolder ELSE NoFolder]
       /\ named = [k \in Refs |-> IF k = <<f, 1>> THEN m ELSE None]
  /\ seen = [m \in Messages |-> FALSE]
  /\ cache = <<>>
  /\ pool = None
  /\ obj = [o \in Objects |-> NoObject]
  /\ cli = [c \in Clients |-> NoClient]
  /\ req = [r \in Requests |-> Idle]
  /\ evicts = 0
  /\ remade = {}
  /\ calls = 0 /\ events = 0

-----------------------------------------------------------------------------
(* The cache *)

Key_NoFolder(k) == <<Uid(k)>>
Key(k) == k
Hit(k) == \E i \in DOMAIN cache : cache[i].key = Key(k)
Place(k) == CHOOSE i \in DOMAIN cache : cache[i].key = Key(k)
Entry(k) == cache[Place(k)]
Others(k) == IF Hit(k) THEN RemoveAt(cache, Place(k)) ELSE cache
CacheGet(k) == cache' = Append(Others(k), Entry(k))
CacheSet(k, m, s) ==
  LET kept == Append(Others(k), [key |-> Key(k), body |-> m, seen |-> s])
  IN cache' = IF Len(kept) > CacheSize THEN Tail(kept) ELSE kept
\* withFlags: whatever flags it was parsed with, a message is answered with those just fetched.
WithFlags(e, s) == s
CacheDelete(k) == cache' = Others(k)

-----------------------------------------------------------------------------
(* Requests wait for the one before them on their connection object. *)

OnHead(r) == req[r].on # None /\ obj[req[r].on].queue # <<>> /\ Head(obj[req[r].on].queue) = r
Usable(c) == c # None /\ cli[c].st = "open"
\* The connection a request runs on still takes commands.
Alive(r) == OnHead(r) /\ Usable(req[r].cli)

At(r, kind, pc) == req[r].kind = kind /\ req[r].pc = pc
Move(r, pc) == req' = [req EXCEPT ![r].pc = pc]

\* The chain: the request is answered, with what it got or an error, and the next one is due.
Over(r) ==
  /\ req' = [req EXCEPT ![r] = Idle]
  /\ obj' = [obj EXCEPT ![req[r].on].queue = Tail(@)]
Finished(r) == Over(r) /\ UNCHANGED <<pool, cli, evicts>>

\* An object that is out of the pool and has no work and no connection is garbage.
Gone(o) == pool # o /\ obj[o].queue = <<>> /\ ~Usable(obj[o].client)

WithClient(r, kind, todo) ==
  /\ req[r].pc = "idle"
  /\ \E o \in Objects :
       /\ IF pool = None THEN Gone(o) ELSE o = pool
       /\ obj' = [obj EXCEPT ![o] = [IF pool = None THEN NoObject ELSE obj[o] EXCEPT !.queue = Append(@, r)]]
       /\ pool' = o
       /\ req' = [req EXCEPT ![r] = [Idle EXCEPT !.pc = "queued", !.kind = kind, !.todo = todo,
             !.on = o, !.since = evicts, !.due = IF kind = "thread" THEN Contents(Folder(todo[1])) ELSE {}]]
  /\ UNCHANGED <<mail, cache, cli, evicts>>

\* run() reaches the request: it uses the client the object has, or signs a new one in.
Begin(r) ==
  LET o == req[r].on IN
  /\ req[r].pc = "queued" /\ OnHead(r)
  /\ IF Usable(obj[o].client)
     THEN /\ req' = [req EXCEPT ![r].pc = "run", ![r].cli = obj[o].client]
          /\ UNCHANGED cli
     ELSE \E c \in Clients :
          /\ cli[c].st = "closed" /\ \A q \in Requests : req[q].cli # c
          /\ cli' = [cli EXCEPT ![c] = [NoClient EXCEPT !.st = "login", !.born = evicts]]
          /\ req' = [req EXCEPT ![r].pc = "login", ![r].cli = c]
  /\ UNCHANGED <<mail, cache, pool, obj, evicts>>

\* The client becomes the object's once it is signed in, whatever happened to the object since.
LoginDone(r) ==
  /\ req[r].pc = "login"
  /\ cli' = [cli EXCEPT ![req[r].cli].st = "open"]
  /\ obj' = [obj EXCEPT ![req[r].on].client = req[r].cli]
  /\ Move(r, "run")
  /\ UNCHANGED <<mail, cache, pool, evicts>>

LoginFails(r) ==
  /\ req[r].pc = "login"
  /\ Over(r)
  /\ cli' = [cli EXCEPT ![req[r].cli] = NoClient]
  /\ UNCHANGED <<mail, cache, pool, evicts>>

\* A command on a connection that was closed meanwhile is refused; a message being parsed needs none.
Cut(r) ==
  /\ OnHead(r) /\ req[r].pc \notin {"queued", "login", "parse", "answer"} /\ ~Usable(req[r].cli)
  /\ Finished(r)
  /\ UNCHANGED <<mail, cache>>

\* lockFolder: selecting a folder shows what it holds; one selected already has to be asked to.
Select(c, f) == [cli[c] EXCEPT !.sel = f, !.view = Present(f)]
Noop_Not(c) == cli[c]
Noop(c) == [cli[c] EXCEPT !.view = Present(cli[c].sel)]
LockFolder(c, f) == IF cli[c].sel = f THEN Noop(c) ELSE Select(c, f)
\* A command on folder f by request r, and the UIDs it can see.
Command(r, f) ==
  /\ Alive(r) /\ store[f].made
  /\ cli' = [cli EXCEPT ![req[r].cli] = LockFolder(req[r].cli, f)]
Visible(r, f) == LockFolder(req[r].cli, f).view \cap Present(f)

\* [NONEXISTENT]: the folder a request wants is not there.
NoSuchFolder(r) ==
  /\ Alive(r) /\ req[r].todo # <<>> /\ ~store[Folder(Head(req[r].todo))].made
  /\ \/ req[r].pc = "run" /\ req[r].kind # "delete" /\ ~(req[r].kind = "load" /\ Hit(Head(req[r].todo)))
     \/ req[r].pc \in {"flags", "apply"}
  /\ Finished(r)
  /\ UNCHANGED <<mail, cache>>

-----------------------------------------------------------------------------
(* Reading: GET /messages/:folder/:uid *)

What(r) == Head(req[r].todo)
Body(k, m, s) == [key |-> k, body |-> m, seen |-> s]

LoadHit(r) ==
  /\ Alive(r) /\ At(r, "load", "run") /\ Hit(What(r))
  /\ CacheGet(What(r))
  /\ req' = [req EXCEPT ![r].pc = "flags", ![r].flags = {Entry(What(r))}]
  /\ UNCHANGED <<mail, conns>>

\* The flags of a cached message are read, which also shows whether it is still there.
LoadFlags(r) ==
  LET k == What(r) IN
  /\ At(r, "load", "flags") /\ Command(r, Folder(k))
  /\ IF Uid(k) \in Visible(r, Folder(k))
     THEN req' = [req EXCEPT ![r].pc = "answer", ![r].got = {Body(k, e.body, WithFlags(e, seen[Message(k)])) : e \in req[r].flags}] /\ UNCHANGED <<cache, obj>>
     ELSE Over(r) /\ CacheDelete(k)
  /\ UNCHANGED <<mail, pool, evicts>>

LoadMiss(r) ==
  LET k == What(r) IN
  /\ At(r, "load", "run") /\ ~Hit(k) /\ Command(r, Folder(k))
  /\ IF Uid(k) \in Visible(r, Folder(k))
     THEN req' = [req EXCEPT ![r].pc = "parse", ![r].flags = {Body(k, Message(k), seen[Message(k)])}]
          /\ UNCHANGED obj
     ELSE Over(r)
  /\ UNCHANGED <<mail, pool, evicts, cache>>

\* parseRaw is awaited: the body goes into the cache later, whatever happened to the message.
Parsed(r) ==
  /\ req[r].pc = "parse"
  /\ \E e \in req[r].flags : e.key = What(r) /\ CacheSet(e.key, e.body, e.seen)
  /\ IF req[r].kind = "load"
     THEN req' = [req EXCEPT ![r].pc = "answer", ![r].got = req[r].flags]
     ELSE req' = [req EXCEPT ![r].pc = "each", ![r].todo = Tail(@),
                             ![r].got = @ \cup {e \in req[r].flags : e.key = What(r)}]
  /\ UNCHANGED <<mail, conns>>

Replied(r) ==
  /\ req[r].pc = "answer"
  /\ Finished(r)
  /\ UNCHANGED <<mail, cache>>

-----------------------------------------------------------------------------
(* A conversation: GET /threads/:threadId finds its UIDs, reads all their flags at once and then *)
(* the bodies one after the other.  Here every message of the folder is of one conversation.     *)

Ordered(S) == CHOOSE q \in [1..Cardinality(S) -> S] : \A i, j \in DOMAIN q : i < j => q[i] < q[j]
In(f, S) == [i \in 1..Cardinality(S) |-> <<f, Ordered(S)[i]>>]

Search(r) ==
  LET f == Folder(What(r)) IN
  /\ At(r, "thread", "run") /\ Command(r, f)
  /\ IF Visible(r, f) = {}
     THEN Over(r)
     ELSE /\ req' = [req EXCEPT ![r].pc = "flags", ![r].todo = In(f, Visible(r, f)), ![r].found = Visible(r, f)]
          /\ UNCHANGED obj
  /\ UNCHANGED <<mail, pool, evicts, cache>>

FetchFlags(r) ==
  LET f == Folder(What(r)) IN
  /\ At(r, "thread", "flags") /\ Command(r, f)
  /\ LET there == req[r].found \cap Visible(r, f)
     IN req' = [req EXCEPT ![r].pc = "each", ![r].todo = In(f, there),
                           ![r].flags = {Body(<<f, u>>, Message(<<f, u>>), seen[store[f].at[u]]) : u \in there}]
  /\ UNCHANGED <<mail, pool, obj, evicts, cache>>

FromCache(r) ==
  /\ At(r, "thread", "each") /\ OnHead(r) /\ req[r].todo # <<>> /\ Hit(What(r))
  /\ CacheGet(What(r))
  /\ req' = [req EXCEPT ![r].todo = Tail(@),
        ![r].got = @ \cup {Body(e.key, Entry(e.key).body, WithFlags(Entry(e.key), e.seen)) : e \in {x \in req[r].flags : x.key = What(r)}}]
  /\ UNCHANGED <<mail, conns>>

\* A message that went away meanwhile is left out.
FetchEach(r) ==
  /\ At(r, "thread", "each") /\ req[r].todo # <<>> /\ ~Hit(What(r)) /\ Command(r, Folder(What(r)))
  /\ IF Uid(What(r)) \in Visible(r, Folder(What(r)))
     THEN req' = [req EXCEPT ![r].pc = "parse"]
     ELSE req' = [req EXCEPT ![r].todo = Tail(@)]
  /\ UNCHANGED <<mail, pool, obj, evicts, cache>>

LoadedAll(r) ==
  /\ At(r, "thread", "each") /\ OnHead(r) /\ req[r].todo = <<>>
  /\ Move(r, "answer")
  /\ UNCHANGED <<mail, conns, cache>>

-----------------------------------------------------------------------------
(* Writing: POST /messages/flags, /messages/move and /messages/delete go folder by folder. *)

Put(s, f, m) == [s EXCEPT ![f].at[s[f].next] = m, ![f].next = @ + 1]
Taken(s, k) == [s EXCEPT ![Folder(k)].at[Uid(k)] = None]
Name(f, m) == named' = [named EXCEPT ![<<f, store[f].next>>] = m]
Room(f) == store[f].next <= MaxUid

\* The flag changes; every request learns that it has changed since it was made (history).
Turn(m, q) ==
  /\ seen' = [seen EXCEPT ![m] = ~@]
  /\ req' = [r \in Requests |-> IF q[r].kind \in {"load", "thread"} THEN [q[r] EXCEPT !.turned = @ \cup {m}] ELSE q[r]]

\* MOVE gives the message the next UID of its destination; one that is not there moves nothing.
MoveTo(r, k, dest) ==
  IF store[dest].made /\ Uid(k) \in Visible(r, Folder(k))
  THEN /\ Room(dest)
       /\ store' = Put(Taken(store, k), dest, Message(k))
       /\ Name(dest, Message(k))
  ELSE UNCHANGED <<store, named>>

SetFlags(r) ==
  LET k == What(r) IN
  /\ At(r, "flags", "run") /\ Command(r, Folder(k))
  /\ IF Uid(k) \in Visible(r, Folder(k))
     THEN Turn(Message(k), [req EXCEPT ![r].pc = "forget"])
     ELSE Move(r, "forget") /\ UNCHANGED seen
  /\ UNCHANGED <<store, named, remade, pool, obj, evicts, cache>>

MoveMessages(r, dest) ==
  LET k == What(r) IN
  /\ At(r, "move", "run")
  /\ IF Folder(k) = dest
     THEN Alive(r) /\ Move(r, "skip") /\ UNCHANGED <<cli, store, named>>
     ELSE /\ Command(r, Folder(k)) /\ MoveTo(r, k, dest)
          /\ Move(r, "forget")
  /\ UNCHANGED <<seen, remade, pool, obj, evicts, cache>>

\* A folder made again starts at UID 1.
Make(f) ==
  IF store[f].made THEN UNCHANGED <<store, remade>>
  ELSE /\ store' = [store EXCEPT ![f] = NewFolder]
       /\ remade' = IF \E u \in Uids : named[<<f, u>>] # None THEN remade \cup {f} ELSE remade

\* findSpecialFolder makes a Trash folder when there is none.
FindTrash(r) ==
  /\ At(r, "delete", "run") /\ Alive(r)
  /\ Make(Trash)
  /\ Move(r, "apply")
  /\ UNCHANGED <<seen, named, conns, cache>>

DeleteMessages(r, permanent) ==
  LET k == What(r) IN
  /\ At(r, "delete", "apply") /\ Command(r, Folder(k))
  /\ IF permanent \/ Folder(k) = Trash
     THEN store' = Taken(store, k) /\ UNCHANGED named
     ELSE MoveTo(r, k, Trash)
  /\ Move(r, "forget")
  /\ UNCHANGED <<seen, remade, pool, obj, evicts, cache>>

\* invalidate(), once the answer to the command has come; the next folder, or the response.
Invalidate(r) ==
  /\ Alive(r) /\ req[r].pc \in {"forget", "skip"}
  /\ IF req[r].pc = "forget" THEN CacheDelete(What(r)) ELSE UNCHANGED cache
  /\ IF Len(req[r].todo) = 1
     THEN Finished(r)
     ELSE /\ req' = [req EXCEPT ![r].todo = Tail(@), ![r].pc = IF req[r].kind = "delete" THEN "apply" ELSE "run"]
          /\ UNCHANGED conns
  /\ UNCHANGED mail

-----------------------------------------------------------------------------
(* Folders: POST /folders and DELETE /folders/:path *)

CreateFolder(r) ==
  LET f == Folder(What(r)) IN
  /\ At(r, "mkdir", "run") /\ Alive(r)
  /\ IF store[f].made
     THEN Finished(r) /\ UNCHANGED mail
     ELSE /\ Make(f)
          /\ Finished(r)
          /\ UNCHANGED <<seen, named>>
  /\ UNCHANGED cache

\* The mail store disconnects the sessions that have a deleted folder selected, but the one that deletes it.
Disconnected(f, own) == {c \in Clients \ {own} : cli[c].sel = f}
Deselected(f) == [c \in Clients |-> IF cli[c].sel = f THEN [cli[c] EXCEPT !.sel = None, !.view = {}] ELSE cli[c]]
Without(C, clis) == [c \in Clients |-> IF c \in C THEN NoClient ELSE clis[c]]
\* A connection that closes is forgotten by the object it belongs to.
Forgotten(C) == [o \in Objects |-> IF obj[o].client \in C THEN [obj[o] EXCEPT !.client = None] ELSE obj[o]]

DeleteFolder(r) ==
  LET f == Folder(What(r)) IN
  /\ At(r, "rmdir", "run") /\ Alive(r)
  /\ IF ~store[f].made
     THEN Finished(r) /\ UNCHANGED mail
     ELSE /\ store' = [store EXCEPT ![f] = NoFolder]
          /\ req' = [req EXCEPT ![r] = Idle]
          /\ obj' = [Forgotten(Disconnected(f, req[r].cli)) EXCEPT ![req[r].on].queue = Tail(@)]
          /\ cli' = Without(Disconnected(f, req[r].cli), Deselected(f))
          /\ UNCHANGED <<seen, named, remade, pool, evicts>>
  /\ UNCHANGED cache

-----------------------------------------------------------------------------
(* What ends a connection *)

\* close(): the client the object has at this moment is signed out, and no other.
Closed_NoLogout(o) == obj' = [obj EXCEPT ![o].client = None, ![o].closedBusy = @ \/ obj[o].queue # <<>>] /\ UNCHANGED cli
Closed(o) ==
  /\ obj' = [obj EXCEPT ![o].client = None, ![o].closedBusy = @ \/ obj[o].queue # <<>>]
  /\ cli' = IF Usable(obj[o].client) THEN [cli EXCEPT ![obj[o].client] = NoClient] ELSE cli

\* The object leaves the map before it is closed.
Leaves_Stays(o) == UNCHANGED pool
Leaves(o) == pool' = None

\* A changed quota or a deleted mailbox.
Evict ==
  /\ pool # None
  /\ Leaves(pool) /\ Closed(pool)
  /\ evicts' = evicts + 1
  /\ UNCHANGED <<mail, cache, req>>

\* Every minute an object not used for four is closed; that long may pass between any two steps.
Sweep ==
  /\ pool # None
  /\ Leaves(pool) /\ Closed(pool)
  /\ UNCHANGED <<mail, cache, req, evicts>>

\* The mail store or the network drops a connection; one nobody uses times out.
ConnectionLost(c) ==
  /\ cli[c].st = "open"
  /\ cli' = Without({c}, cli)
  /\ obj' = Forgotten({c})
  /\ UNCHANGED <<mail, cache, req, pool, evicts>>

-----------------------------------------------------------------------------
(* Everything else that changes the mailbox: delivery, and other mail apps *)

Arrive(f, m) ==
  /\ store[f].made /\ Room(f) /\ \A k \in Refs : named[k] # m
  /\ store' = Put(store, f, m)
  /\ Name(f, m)
  /\ UNCHANGED <<seen, remade, conns, cache, req>>

OtherAppFlags(k) ==
  /\ Message(k) # None
  /\ Turn(Message(k), req)
  /\ UNCHANGED <<store, named, remade, conns, cache>>

OtherAppExpunges(k) ==
  /\ Message(k) # None
  /\ store' = Taken(store, k)
  /\ UNCHANGED <<seen, named, remade, conns, cache, req>>

OtherAppDeletes(f) ==
  /\ f # Inbox /\ store[f].made
  /\ store' = [store EXCEPT ![f] = NoFolder]
  /\ cli' = Without(Disconnected(f, None), cli)
  /\ obj' = Forgotten(Disconnected(f, None))
  /\ UNCHANGED <<seen, named, remade, cache, req, pool, evicts>>

OtherAppCreates(f) ==
  /\ ~store[f].made /\ Make(f)
  /\ UNCHANGED <<seen, named, conns, cache, req>>

-----------------------------------------------------------------------------

\* What a request may ask for: a browser knows the UIDs it has been told.  A thread or folder
\* request uses only the folder of its reference.
Known == {k \in Refs : named[k] # None}

Call(r) ==
  \/ \E kind \in {"load", "flags", "move", "delete"} : \E k \in Known : WithClient(r, kind, <<k>>)
  \/ \E k, l \in Known : Folder(k) # Folder(l) /\ WithClient(r, "move", <<k, l>>)
  \/ \E f \in Folders : WithClient(r, "thread", <<<<f, 1>>>>)
  \/ \E kind \in {"mkdir", "rmdir"} : \E f \in Folders \ {Inbox} : WithClient(r, kind, <<<<f, 1>>>>)

Step(r) ==
  \/ Begin(r) \/ LoginDone(r) \/ LoginFails(r) \/ Cut(r) \/ NoSuchFolder(r)
  \/ LoadHit(r) \/ LoadFlags(r) \/ LoadMiss(r) \/ Parsed(r) \/ Replied(r)
  \/ Search(r) \/ FetchFlags(r) \/ FromCache(r) \/ FetchEach(r) \/ LoadedAll(r)
  \/ SetFlags(r) \/ FindTrash(r) \/ Invalidate(r)
  \/ \E dest \in Folders : MoveMessages(r, dest)
  \/ \E permanent \in BOOLEAN : DeleteMessages(r, permanent)
  \/ CreateFolder(r) \/ DeleteFolder(r)

World ==
  \/ Evict \/ Sweep
  \/ \E c \in Clients : ConnectionLost(c)
  \/ \E f \in Folders, m \in Messages : Arrive(f, m)
  \/ \E f \in Folders : OtherAppDeletes(f) \/ OtherAppCreates(f)
  \/ \E k \in Refs : OtherAppFlags(k) \/ OtherAppExpunges(k)

Next ==
  \/ events < MaxEvents /\ events' = events + 1 /\ World /\ UNCHANGED calls
  \/ calls < MaxCalls /\ calls' = calls + 1 /\ (\E r \in Requests : Call(r)) /\ UNCHANGED events
  \/ (\E r \in Requests : Step(r)) /\ UNCHANGED count

Spec == Init /\ [][Next]_vars

-----------------------------------------------------------------------------

\* The variables have their types; the cache keeps at most its size, one entry per key.
TypeOK ==
  /\ store \in [Folders -> [made : BOOLEAN, next : 1..(MaxUid + 1), at : [Uids -> Messages \cup {None}]]]
  /\ seen \in [Messages -> BOOLEAN]
  /\ pool \in Objects \cup {None}
  /\ Len(cache) <= CacheSize /\ \A i, j \in DOMAIN cache : i # j => cache[i].key # cache[j].key
  /\ \A o \in Objects : obj[o].client \in Clients \cup {None}
  /\ \A c \in Clients : cli[c].st \in {"closed", "login", "open"}

\* A cached body outlives its message, other apps' changes, moves and evictions, and is never
\* dropped when those happen: what keeps it from being shown for another message is that its key is
\* never given away again.  So whoever asks for a UID is given the message that has it, except in a
\* folder that was deleted and made again, where the mail store counts from 1 (message.ts: key).
\* And a request that is made after a flag changed, by this app or another, never answers the flag
\* from before, though its message may come from the cache (message.ts: fetchFlags).
AnswersAreTheMessage ==
  \A r \in Requests : \A e \in req[r].got : Folder(e.key) \notin remade =>
    e.body = named[e.key] /\ (e.seen = seen[e.body] \/ e.body \in req[r].turned)

\* A conversation is answered with every message that was there when it was asked for and still
\* is, on a connection that has had the folder selected since long before (pool.ts: lockFolder).
ConversationsAreWhole ==
  \A r \in Requests : At(r, "thread", "answer") =>
    \A k \in req[r].due : Message(k) = None \/ Folder(k) \in remade \/ \E e \in req[r].got : e.key = k

\* No connection stays open that neither the pool nor a request can close, except one that was
\* signed in for work an object still had when it was closed (pool.ts: close).
OrphansOnlyWhenClosedBusy ==
  \A c \in Clients : cli[c].st = "open" =>
    \E o \in Objects : obj[o].client = c /\ (pool = o \/ obj[o].queue # <<>> \/ obj[o].closedBusy)

\* A request made after an eviction never runs on a connection that signed in before it, also when
\* the eviction came while that connection was still signing in (pool.ts: evict).
FreshAfterEviction ==
  \A r \in Requests : Usable(req[r].cli) => cli[req[r].cli].born >= req[r].since
=============================================================================
