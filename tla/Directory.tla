----------------------------- MODULE Directory -----------------------------
(***************************************************************************)
(* The directory of mailboxes and aliases behind the admin API             *)
(* (admin/routes.ts, admin/service.ts): what each handler reads, decides   *)
(* and writes, with every database query a step of its own. Handlers of    *)
(* different requests interleave between their queries; none of them uses  *)
(* a transaction or a lock. The app may stop between any two queries.      *)
(*                                                                         *)
(* Abstracted: a mailbox is its address and its three switches; names,     *)
(* passwords and quotas decide nothing here. A domain is its row, and an   *)
(* address is a pair of a local part and a domain. Which switches a PATCH  *)
(* or a POST may ask for are the constants Bodies and NewFlags.            *)
(***************************************************************************)
EXTENDS Naturals, FiniteSets

CONSTANTS Domains,    \* domain rows
          Locals,     \* local parts
          Ids,        \* ids of mailbox rows
          AliasIds,   \* ids of alias rows
          Requests,   \* requests that can be in progress together
          Bodies,     \* the switches a PATCH sets and clears
          NewFlags,   \* the switches a new mailbox is given, "active" apart
          None

Flags == {"admin", "active", "receives"}

ASSUME BodiesAreBodies ==
  Bodies \subseteq {b \in [on : SUBSET Flags, off : SUBSET Flags] : b.on \cap b.off = {}}
ASSUME NewFlagsAreFlags == NewFlags \subseteq SUBSET {"admin", "receives"}
ASSUME NoneIsNothing ==
  None \notin Domains \cup Locals \cup Ids \cup AliasIds \cup (Locals \X Domains)
ASSUME IdsAreFinite == IsFiniteSet(Ids)

VARIABLES
  domains,   \* the domain rows that exist
  box,       \* box[m]: the mailbox row m, or None
  alias,     \* alias[a]: the alias row a, or None
  call,      \* call[r]: where request r stands, and what it has read
  bereft,    \* history: the requests during which another one took an admin away
  crossed    \* history: the requests during which another one wrote anything

tables == <<domains, box, alias>>
vars == <<tables, call, bereft, crossed>>

Addresses == Locals \X Domains
CatchAll(d) == <<None, d>>
Sources == Addresses \cup {CatchAll(d) : d \in Domains}

MailboxRow == [addr : Addresses, flags : SUBSET Flags]
AliasRow == [source : Sources, dest : Addresses, flags : SUBSET {"active"}]
ASSUME NoneIsNoRow == None \notin MailboxRow /\ None \notin AliasRow

Ops == {"idle", "update", "remove", "dropDomain", "create", "addAlias", "catchAll",
        "editAlias", "removeAlias"}
Steps == {"none", "others", "aliases", "save", "total", "here", "drop", "email",
          "source", "pair", "dest", "clear", "insert"}
\* loaded: the switches of the row as this request read it; row: that row's id.
CallRow == [op : Ops, at : Steps, row : Ids \cup AliasIds \cup Domains \cup {None},
            addr : Sources \cup {None}, dest : Addresses \cup {None},
            loaded : SUBSET Flags, on : SUBSET Flags, off : SUBSET Flags, total : Nat]

Call(op, at, row, addr, dest, loaded, on, off) ==
  [op |-> op, at |-> at, row |-> row, addr |-> addr, dest |-> dest,
   loaded |-> loaded, on |-> on, off |-> off, total |-> 0]
Idle == Call("idle", "none", None, None, None, {}, {}, {})

ActiveAdmins == {m \in Ids : box[m] # None /\ {"admin", "active"} \subseteq box[m].flags}
HasMailbox(s) == \E m \in Ids : box[m] # None /\ box[m].addr = s
HasAlias(s) == \E a \in AliasIds : alias[a] # None /\ alias[a].source = s
HasPair(s, d) == \E a \in AliasIds : alias[a] # None /\ alias[a].source = s /\ alias[a].dest = d
IsSendOnly(s) == \E m \in Ids :
  box[m] # None /\ box[m].addr = s /\ "receives" \notin box[m].flags
DeliversTo(s) == \E a \in AliasIds :
  alias[a] # None /\ alias[a].dest = s /\ "active" \in alias[a].flags
ActiveRequests == {r \in Requests : call[r].op # "idle"}

\* As setup leaves it: one domain, one mailbox, its owner an administrator.
Init ==
  /\ \E d \in Domains, l \in Locals, m \in Ids :
       /\ domains = {d}
       /\ box = [i \in Ids |-> IF i = m THEN [addr |-> <<l, d>>, flags |-> Flags] ELSE None]
  /\ alias = [a \in AliasIds |-> None]
  /\ call = [r \in Requests |-> Idle]
  /\ bereft = {}
  /\ crossed = {}

-----------------------------------------------------------------------------
(* A request starts (an administrator's: requireAdmin), moves on, and ends. *)

Begin(r, c) ==
  /\ call[r].op = "idle"
  /\ ActiveAdmins # {}
  /\ call' = [call EXCEPT ![r] = c]
  /\ UNCHANGED <<tables, bereft, crossed>>

Go(r, step) ==
  /\ call' = [call EXCEPT ![r].at = step]
  /\ UNCHANGED <<tables, bereft, crossed>>

\* An error status: the request ends there.
Refuse(r) ==
  /\ call' = [call EXCEPT ![r] = Idle]
  /\ bereft' = bereft \ {r}
  /\ crossed' = crossed \ {r}
  /\ UNCHANGED tables

\* What r's write means for the others, and that r goes on as c.
Wrote(r, c) ==
  LET others == ActiveRequests \ {r}
      gone == IF c.op = "idle" THEN {r} ELSE {}
  IN  /\ call' = [call EXCEPT ![r] = c]
      /\ crossed' = (crossed \ gone) \cup others
      /\ bereft' = (bereft \ gone) \cup
                   (IF ActiveAdmins \subseteq ActiveAdmins' THEN {} ELSE others)

-----------------------------------------------------------------------------
(* PATCH and DELETE /mailboxes/:id (updateMailbox, deleteMailbox).          *)

\* (As in PostfixCtl, a name with a suffix is a mutation of the definition.)
\* assertNotLastAdmin looks only if the row, as loaded, is an active admin.
GuardsAdmin(loaded) == {"admin", "active"} \subseteq loaded
StepAfterOthers(loaded, off) == IF "receives" \in off \cap loaded THEN "aliases" ELSE "save"
FirstStep_DemotionsOnly(loaded, off) ==
  IF "admin" \in off /\ GuardsAdmin(loaded) THEN "others" ELSE StepAfterOthers(loaded, off)

FirstStep(loaded, off) ==
  IF off \cap {"admin", "active"} # {} /\ GuardsAdmin(loaded) THEN "others"
  ELSE StepAfterOthers(loaded, off)

LoadForUpdate(r, m, b) ==
  /\ box[m] # None
  /\ Begin(r, Call("update", FirstStep(box[m].flags, b.off), m, box[m].addr, None,
                   box[m].flags, b.on, b.off))

LoadForRemove(r, m) ==
  /\ box[m] # None
  /\ Begin(r, Call("remove", IF GuardsAdmin(box[m].flags) THEN "others" ELSE "save",
                   m, None, None, box[m].flags, {}, {}))

\* The other active admins are counted; without one the change is refused.
CountOthers(r) ==
  /\ call[r].at = "others"
  /\ IF ActiveAdmins \ {call[r].row} = {} THEN Refuse(r)
     ELSE Go(r, IF call[r].op = "remove" THEN "save"
                ELSE StepAfterOthers(call[r].loaded, call[r].off))

FindAliases_Sources(r) ==
  /\ call[r].at = "aliases"
  /\ IF HasAlias(call[r].addr) THEN Refuse(r) ELSE Go(r, "save")

\* A mailbox that active aliases deliver to is not made send-only.
FindAliases(r) ==
  /\ call[r].at = "aliases"
  /\ IF DeliversTo(call[r].addr) THEN Refuse(r) ELSE Go(r, "save")

\* m.save() writes the fields that differ from the row as loaded; the row of a
\* mailbox deleted in between is not there to be updated.
SaveMailbox(r) ==
  LET m == call[r].row
      on == call[r].on \ call[r].loaded
      off == call[r].off \cap call[r].loaded
  IN  /\ call[r].op = "update" /\ call[r].at = "save"
      /\ box' = IF box[m] = None THEN box
                ELSE [box EXCEPT ![m].flags = (@ \ off) \cup on]
      /\ UNCHANGED <<domains, alias>>
      /\ Wrote(r, Idle)

DestroyMailbox(r) ==
  /\ call[r].op = "remove" /\ call[r].at = "save"
  /\ box' = [box EXCEPT ![call[r].row] = None]
  /\ UNCHANGED <<domains, alias>>
  /\ Wrote(r, Idle)

-----------------------------------------------------------------------------
(* POST and DELETE /domains, PATCH /domains/:id with a catch-all.           *)

\* createDomain; the key it makes and the files written after it are not here.
CreateDomain(r, d) ==
  /\ call[r].op = "idle" /\ ActiveAdmins # {}
  /\ d \notin domains
  /\ \A q \in Requests : call[q].row # d     \* a new row
  /\ domains' = domains \cup {d}
  /\ UNCHANGED <<box, alias>>
  /\ Wrote(r, Idle)

LoadForDrop(r, d) ==
  /\ d \in domains
  /\ Begin(r, Call("dropDomain", "total", d, None, None, {}, {}, {}))

CountAdmins(r) ==
  /\ call[r].at = "total"
  /\ call' = [call EXCEPT ![r].at = "here", ![r].total = Cardinality(ActiveAdmins)]
  /\ UNCHANGED <<tables, bereft, crossed>>

AdminsOf(d) == {m \in ActiveAdmins : box[m].addr[2] = d}

\* adminsHere > 0 && admins - adminsHere <= 0, the counts of two queries.
CountHere(r) ==
  /\ call[r].at = "here"
  /\ LET here == Cardinality(AdminsOf(call[r].row))
     IN  IF here > 0 /\ call[r].total <= here THEN Refuse(r) ELSE Go(r, "drop")

\* The domain's mailboxes and aliases go with it (ON DELETE CASCADE).
DropDomain(r) ==
  LET d == call[r].row
  IN  /\ call[r].at = "drop"
      /\ domains' = domains \ {d}
      /\ box' = [m \in Ids |-> IF box[m] # None /\ box[m].addr[2] = d THEN None ELSE box[m]]
      /\ alias' = [a \in AliasIds |->
                     IF alias[a] # None /\ alias[a].source[2] = d THEN None ELSE alias[a]]
      /\ Wrote(r, Idle)

LoadForCatchAll(r, d, dest) ==
  /\ d \in domains
  /\ Begin(r, Call("catchAll", IF dest = None THEN "clear" ELSE "dest", d,
                   CatchAll(d), dest, {}, {}, {}))

\* setCatchAll removes what there is, then (a query later) adds the new one.
ClearCatchAll(r) ==
  /\ call[r].at = "clear"
  /\ alias' = [a \in AliasIds |->
                 IF alias[a] # None /\ alias[a].source = call[r].addr THEN None ELSE alias[a]]
  /\ UNCHANGED <<domains, box>>
  /\ Wrote(r, IF call[r].dest = None THEN Idle ELSE [call[r] EXCEPT !.at = "insert"])

-----------------------------------------------------------------------------
(* POST /domains/:id/mailboxes (createMailbox).                             *)

LoadForCreate(r, d, l, flags) ==
  /\ d \in domains
  /\ Begin(r, Call("create", "email", d, <<l, d>>, None, {}, flags, {}))

\* The address must be no mailbox's (409), nor, a query later, an alias's.
CheckEmail(r) ==
  /\ call[r].at = "email"
  /\ IF HasMailbox(call[r].addr) THEN Refuse(r) ELSE Go(r, "source")

CheckSource_DestinationOnly(r) ==
  /\ call[r].at = "source"
  /\ IF call[r].op = "create"
     THEN IF DeliversTo(call[r].addr) THEN Refuse(r) ELSE Go(r, "insert")
     ELSE IF HasMailbox(call[r].addr) THEN Refuse(r) ELSE Go(r, "pair")

CheckSource(r) ==
  /\ call[r].at = "source"
  /\ IF call[r].op = "create"
     THEN IF HasAlias(call[r].addr) THEN Refuse(r) ELSE Go(r, "insert")
     ELSE IF HasMailbox(call[r].addr) THEN Refuse(r) ELSE Go(r, "pair")

FreshId(m) == box[m] = None /\ \A q \in Requests : call[q].row # m

\* The insert fails (500) on a domain that is gone or an address taken since.
InsertMailbox(r) ==
  /\ call[r].op = "create" /\ call[r].at = "insert"
  /\ IF call[r].row \notin domains \/ HasMailbox(call[r].addr) THEN Refuse(r)
     ELSE \E m \in Ids :
            /\ FreshId(m)
            /\ box' = [box EXCEPT ![m] = [addr |-> call[r].addr,
                                          flags |-> call[r].on \cup {"active"}]]
            /\ UNCHANGED <<domains, alias>>
            /\ Wrote(r, Idle)

-----------------------------------------------------------------------------
(* POST /domains/:id/aliases, PATCH and DELETE /aliases/:id.                *)

\* An alias at its own address is refused outright.
LoadForAddAlias(r, d, s, dest) ==
  /\ d \in domains /\ s[2] = d /\ s # dest
  /\ Begin(r, Call("addAlias", IF s = CatchAll(d) THEN "pair" ELSE "source", d,
                   s, dest, {}, {}, {}))

CheckPair(r) ==
  /\ call[r].at = "pair"
  /\ IF HasPair(call[r].addr, call[r].dest) THEN Refuse(r) ELSE Go(r, "dest")

AfterDestination(op) ==
  IF op = "addAlias" THEN "insert" ELSE IF op = "catchAll" THEN "clear" ELSE "save"

\* assertReceivingDestination, on behalf of the three handlers that point an
\* alias somewhere.
CheckDestination(r) ==
  /\ call[r].at = "dest"
  /\ IF IsSendOnly(call[r].dest) THEN Refuse(r)
     ELSE Go(r, AfterDestination(call[r].op))

FreshAlias(a) == alias[a] = None /\ \A q \in Requests : call[q].row # a

\* The insert fails on a domain that is gone or a pair that exists by now.
InsertAlias(r) ==
  /\ call[r].op \in {"addAlias", "catchAll"} /\ call[r].at = "insert"
  /\ IF call[r].row \notin domains \/ HasPair(call[r].addr, call[r].dest) THEN Refuse(r)
     ELSE \E a \in AliasIds :
            /\ FreshAlias(a)
            /\ alias' = [alias EXCEPT ![a] = [source |-> call[r].addr, dest |-> call[r].dest,
                                              flags |-> {"active"}]]
            /\ UNCHANGED <<domains, box>>
            /\ Wrote(r, Idle)

\* The destination is checked only when it changes, not when the alias is
\* switched on; dest = None stands for one that stays as it was.
LoadForEdit(r, a, dest, b) ==
  /\ alias[a] # None
  /\ b.on \cup b.off \subseteq {"active"}
  /\ LET new == IF dest = alias[a].dest THEN None ELSE dest
     IN  Begin(r, Call("editAlias", IF new = None THEN "save" ELSE "dest", a, None, new,
                       alias[a].flags, b.on, b.off))

LoadForRemoveAlias(r, a) ==
  /\ alias[a] # None
  /\ Begin(r, Call("removeAlias", "save", a, None, None, {}, {}, {}))

\* a.save(): the changed fields, unless that would make two rows the same.
SaveAlias(r) ==
  LET a == call[r].row
      dest == IF call[r].dest = None THEN alias[a].dest ELSE call[r].dest
      on == call[r].on \ call[r].loaded
      off == call[r].off \cap call[r].loaded
  IN  /\ call[r].op = "editAlias" /\ call[r].at = "save"
      /\ IF alias[a] = None \/ (dest # alias[a].dest /\ HasPair(alias[a].source, dest))
         THEN Refuse(r)
         ELSE /\ alias' = [alias EXCEPT ![a] = [source |-> alias[a].source, dest |-> dest,
                                                flags |-> (alias[a].flags \ off) \cup on]]
              /\ UNCHANGED <<domains, box>>
              /\ Wrote(r, Idle)

DestroyAlias(r) ==
  /\ call[r].op = "removeAlias" /\ call[r].at = "save"
  /\ alias' = [alias EXCEPT ![call[r].row] = None]
  /\ UNCHANGED <<domains, box>>
  /\ Wrote(r, Idle)

-----------------------------------------------------------------------------
\* The app stops; the requests in progress are gone, what they wrote stays.
AppRestart ==
  /\ ActiveRequests # {}
  /\ call' = [r \in Requests |-> Idle]
  /\ bereft' = {}
  /\ crossed' = {}
  /\ UNCHANGED tables

MailboxRequest(r) == \E m \in Ids : LoadForRemove(r, m) \/ \E b \in Bodies : LoadForUpdate(r, m, b)
DomainRequest(r) == \E d \in Domains :
  \/ CreateDomain(r, d) \/ LoadForDrop(r, d)
  \/ \E dest \in Addresses \cup {None} : LoadForCatchAll(r, d, dest)
  \/ \E l \in Locals, flags \in NewFlags : LoadForCreate(r, d, l, flags)
  \/ \E s \in Sources, dest \in Addresses : LoadForAddAlias(r, d, s, dest)
AliasRequest(r) == \E a \in AliasIds :
  \/ LoadForRemoveAlias(r, a)
  \/ \E dest \in Addresses \cup {None}, b \in Bodies : LoadForEdit(r, a, dest, b)

Start(r) == MailboxRequest(r) \/ DomainRequest(r) \/ AliasRequest(r)
Check(r) == \/ CountOthers(r) \/ FindAliases(r) \/ CountAdmins(r) \/ CountHere(r)
            \/ CheckEmail(r) \/ CheckSource(r) \/ CheckPair(r) \/ CheckDestination(r)
Write(r) == \/ SaveMailbox(r) \/ DestroyMailbox(r) \/ DropDomain(r) \/ ClearCatchAll(r)
            \/ InsertMailbox(r) \/ InsertAlias(r) \/ SaveAlias(r) \/ DestroyAlias(r)

Next == \/ \E r \in Requests : Start(r) \/ Check(r) \/ Write(r)
        \/ AppRestart

Spec == Init /\ [][Next]_vars

-----------------------------------------------------------------------------
TypeOK ==
  /\ domains \in SUBSET Domains
  /\ box \in [Ids -> MailboxRow \cup {None}]
  /\ alias \in [AliasIds -> AliasRow \cup {None}]
  /\ call \in [Requests -> CallRow]
  /\ bereft \in SUBSET Requests
  /\ crossed \in SUBSET Requests

Ends(r) == call[r].op # "idle" /\ call'[r].op = "idle"

\* The last active administrator goes (demoted, disabled, deleted, or with a
\* domain) only in a request during which another request took an admin away
\* too: on their own, assertNotLastAdmin and deleteDomain never let it happen.
LastAdminOnlyByRace == [][ActiveAdmins # {} /\ ActiveAdmins' = {} =>
  \E r \in Requests : Ends(r) /\ r \in bereft]_vars

\* An address becomes both a mailbox and an alias only if two requests crossed:
\* createMailbox refuses an alias's address, createAlias a mailbox's.
Clash == {s \in Addresses : HasMailbox(s) /\ HasAlias(s)}
AddressesClashOnlyByRace == [][Clash' \subseteq Clash \/
  \E r \in Requests : Ends(r) /\ r \in crossed]_vars

\* An active alias comes to deliver to a send-only mailbox, whose mail Postfix
\* skips (service.ts:102, 150), in three ways only: two requests crossed, the
\* mailbox was created at an address an alias delivered to already, or an alias
\* was switched on again. Pointing an alias there, or making the mailbox
\* send-only, is refused.
Skipped == {p \in AliasIds \X Addresses :
  /\ alias[p[1]] # None /\ alias[p[1]].dest = p[2] /\ "active" \in alias[p[1]].flags
  /\ IsSendOnly(p[2])}
SkippedOnlyThrough == [][Skipped' \subseteq Skipped \/ \E r \in Requests :
  /\ Ends(r)
  /\ \/ r \in crossed
     \/ call[r].op = "create"
     \/ call[r].op = "editAlias" /\ call[r].dest = None]_vars

\* Setting a catch-all leaves the domain with that one and no other, whatever
\* catch-alls the alias form had added, unless another request crossed it.
Destinations(s) == {d \in Addresses : HasPair(s, d)}
CatchAllReplaces == [][\A r \in Requests :
  Ends(r) /\ call[r].op = "catchAll" /\ alias' # alias /\ r \notin crossed
  => \A s \in Sources : s = call[r].addr => Destinations(s)' = {call[r].dest} \ {None}]_vars

=============================================================================
