------------------------------ MODULE Install ------------------------------
(***************************************************************************)
(* Setting the server up, and the DKIM files it keeps for rspamd: the      *)
(* wizard (Setup.tsx), its routes and token (setup/routes.ts, token.ts),   *)
(* the requests that make, switch and delete domains (admin/routes.ts,     *)
(* service.ts), the key files and the selector map they rewrite            *)
(* (admin/dkim.ts), and the start of the app (index.ts), which may stop    *)
(* between any two steps of a request.                                     *)
(*                                                                         *)
(* A request's step is one query or one file operation; between two steps  *)
(* of a request any other may run, and any step may fail. Abstracted: of   *)
(* a domain's mailboxes counts whether an administrator is among them, of  *)
(* a key file whether it holds the key of the domain's row; tokens are     *)
(* numbered by the start that printed them. Left out: passwords and        *)
(* sessions (Sessions), a domain's other rows (Directory), and the         *)
(* hostname and DNS checks, which change nothing.                          *)
(***************************************************************************)
EXTENDS Naturals

CONSTANTS Domains,   \* domain names
          Requests,  \* requests in progress at once
          Wizards,   \* browsers with the wizard open
          None,
          MaxBoots,  \* bound: starts of the app
          MaxFaults  \* bound: steps that fail, fresh volumes and starts that fail

ASSUME InstallAssumption ==
  /\ None \notin Domains \cup Requests
  /\ {MaxBoots, MaxFaults} \subseteq Nat

VARIABLES
  up,         \* whether the app listens
  boots,      \* starts so far
  completed,  \* setting setup_completed
  hash,       \* the start whose token setting setup_token_hash accepts, 0 when unset
  domain,     \* domain[d]: its row, or None
  keyed,      \* domains whose key file holds the key of their row
  map,        \* the domains selectors.map lists
  req,        \* req[r]: a request in progress, or Idle
  wizard,     \* wizard[w]: the wizard in a browser
  late,       \* history: requests whose list of domains is older than one written, or than a failure
  behind,     \* history: the map was last written by a late request, or not at all since a failure
  astray,     \* history: domains whose key file was last changed for another row of their name, or never written
  founded,    \* history: an administrator was created
  faults

settings == <<completed, hash>>
files == <<keyed, map>>
blame == <<late, behind, astray>>
vars == <<up, boots, settings, domain, files, req, wizard, blame, founded, faults>>

Idle == [op |-> None, at |-> None, d |-> None, own |-> FALSE, on |-> TRUE, token |-> 0,
         lists |-> {}, older |-> {}]
Setup == {"verify", "create", "finish"}
ASSUME NoneIsNoName ==
  /\ None \notin Setup \cup {"add", "switch", "delete", "gate", "token", "commit", "mark", "save", "count",
                           "destroy", "key", "rm", "select", "open", "put"}
  /\ None \notin [active : BOOLEAN, admin : BOOLEAN]
Away == [step |-> "away", token |-> 0, known |-> FALSE, waits |-> None]

Init ==
  /\ up = FALSE /\ boots = 0
  /\ completed = FALSE /\ hash = 0
  /\ domain = [d \in Domains |-> None]
  /\ keyed = {} /\ map = {}
  /\ req = [r \in Requests |-> Idle]
  /\ wizard = [w \in Wizards |-> Away]
  /\ late = {} /\ behind = FALSE /\ astray = {} /\ founded = FALSE /\ faults = 0

----------------------------------------------------------------------------
(* Requests: how they move on and end.                                     *)

Present == {d \in Domains : domain[d] # None}
Active == {d \in Present : domain[d].active}
Administered == {d \in Present : domain[d].admin}

At(r, ops, steps) == req[r].op \in ops /\ req[r].at \in steps

\* Requests that have changed a row and have not written the map, and those that hold a list for it.
Owing == {r \in Requests : req[r].at \in {"key", "rm", "select", "open", "put"}}
Holding == {r \in Requests : req[r].at \in {"open", "put"}}

Goes(r, to) == req' = [req EXCEPT ![r].at = to] /\ UNCHANGED wizard

\* Where a good answer takes the wizard. A page that was loaded when there was a domain already goes
\* on behind the form; the last page only links to the sign-in.
NextStep(w, op) ==
  CASE op = "verify" -> IF wizard[w].known THEN "steps" ELSE "form"
    [] op = "create" -> "steps"
    [] op = "finish" -> "away"

\* The request is over, and the wizard that waits for it, if any still does, has its answer.
Ends(r, ok) ==
  /\ req' = [s \in Requests |-> IF s = r THEN Idle ELSE [req[s] EXCEPT !.older = @ \ {r}]]
  /\ wizard' = [w \in Wizards |->
       IF wizard[w].waits # r THEN wizard[w]
       ELSE [wizard[w] EXCEPT !.waits = None, !.step = IF ok THEN NextStep(w, req[r].op) ELSE @]]

----------------------------------------------------------------------------
(* The steps of a request.                                                 *)

\* The wizard's requests: the routes are closed once setup has completed, then the token is compared.
Gate(r) ==
  /\ At(r, Setup, {"gate"})
  /\ IF completed THEN Ends(r, FALSE) ELSE Goes(r, "token")
  /\ UNCHANGED <<up, boots, settings, domain, files, blame, founded, faults>>

VerifySetupToken(r) ==
  /\ At(r, Setup, {"token"})
  /\ IF hash = 0 \/ req[r].token # hash THEN Ends(r, FALSE)
     ELSE IF req[r].op = "verify" THEN Ends(r, TRUE)
     ELSE /\ req' = [req EXCEPT ![r].at = IF req[r].op = "create" THEN "commit" ELSE "mark", ![r].token = 0]
          /\ UNCHANGED wizard
  /\ UNCHANGED <<up, boots, settings, domain, files, blame, founded, faults>>

MarkSetupCompleted(r) ==
  /\ At(r, {"finish"}, {"mark"})
  /\ completed' = TRUE
  /\ Ends(r, TRUE)
  /\ UNCHANGED <<up, boots, hash, domain, files, blame, founded, faults>>

\* Mutant: without the transaction; the domain is kept when the administrator cannot be made.
CreateDomain_Alone(r) ==
  /\ At(r, {"create", "add"}, {"commit"})
  /\ req[r].d \notin Present
  /\ domain' = [domain EXCEPT ![req[r].d] = [active |-> TRUE, admin |-> FALSE]]
  /\ keyed' = keyed \ {req[r].d}
  /\ Ends(r, FALSE)
  /\ UNCHANGED <<up, boots, settings, map, blame, founded, faults>>

\* A new domain, of the wizard with its administrator in one transaction, or of an administrator.
CreateDomain(r) ==
  /\ At(r, {"create", "add"}, {"commit"})
  /\ IF req[r].d \in Present
     THEN Ends(r, FALSE) /\ UNCHANGED <<domain, keyed, founded>>
     ELSE /\ domain' = [domain EXCEPT ![req[r].d] = [active |-> TRUE, admin |-> req[r].op = "create"]]
          /\ keyed' = keyed \ {req[r].d}
          /\ founded' = (founded \/ req[r].op = "create")
          /\ req' = [req EXCEPT ![r].at = "key", ![r].own = TRUE]
          /\ UNCHANGED wizard
  /\ UNCHANGED <<up, boots, settings, map, blame, faults>>

\* The row a change or a deletion is about is read first: where the request begins. Saving a row as
\* it is writes nothing.
Load(r, d) ==
  /\ d \in Present
  /\ \/ \E on \in BOOLEAN :
          req' = [req EXCEPT ![r] = [Idle EXCEPT !.op = "switch", !.d = d, !.own = TRUE, !.on = on,
                                       !.at = IF domain[d].active = on THEN "select" ELSE "save"]]
     \/ req' = [req EXCEPT ![r] = [Idle EXCEPT !.op = "delete", !.d = d, !.own = TRUE, !.at = "count"]]

Save(r) ==
  /\ At(r, {"switch"}, {"save"})
  /\ domain' = IF req[r].own
               THEN [domain EXCEPT ![req[r].d].active = req[r].on] ELSE domain
  /\ Goes(r, "select")
  /\ UNCHANGED <<up, boots, settings, files, blame, founded, faults>>

\* A domain with the only administrators stays.
Count(r) ==
  /\ At(r, {"delete"}, {"count"})
  /\ IF req[r].own /\ Administered = {req[r].d} THEN Ends(r, FALSE) ELSE Goes(r, "destroy")
  /\ UNCHANGED <<up, boots, settings, domain, files, blame, founded, faults>>

Destroy(r) ==
  /\ At(r, {"delete"}, {"destroy"})
  /\ IF ~req[r].own THEN Goes(r, "rm") /\ UNCHANGED <<domain, keyed>>
     ELSE /\ domain' = [domain EXCEPT ![req[r].d] = None]
          /\ keyed' = keyed \ {req[r].d}
          /\ req' = [s \in Requests |-> IF s = r THEN [req[s] EXCEPT !.at = "rm", !.own = FALSE]
                                       ELSE [req[s] EXCEPT !.own = @ /\ req[s].d # req[r].d]]
          /\ UNCHANGED wizard
  /\ UNCHANGED <<up, boots, settings, map, blame, founded, faults>>

----------------------------------------------------------------------------
(* The DKIM files, admin/dkim.ts.                                          *)

\* r writes or removes the key file of d, known by d's name alone; d may have another row meanwhile.
Astray(r, d) == IF d \in Present /\ ~req[r].own THEN astray \cup {d} ELSE astray \ {d}

MaterializeDomainKey(r) ==
  /\ At(r, {"create", "add"}, {"key"})
  /\ keyed' = IF req[r].own THEN keyed \cup {req[r].d} ELSE keyed \ {req[r].d}
  /\ astray' = Astray(r, req[r].d)
  /\ Goes(r, "select")
  /\ UNCHANGED <<up, boots, settings, domain, map, late, behind, founded, faults>>

RemoveDomainKey(r) ==
  /\ At(r, {"delete"}, {"rm"})
  /\ keyed' = keyed \ {req[r].d}
  /\ astray' = Astray(r, req[r].d)
  /\ Goes(r, "select")
  /\ UNCHANGED <<up, boots, settings, domain, map, late, behind, founded, faults>>

\* Mutant: the map is written from the list of all domains.
SelectActive_All(r) ==
  /\ At(r, {"create", "add", "switch", "delete"}, {"select"})
  /\ req' = [req EXCEPT ![r] = [Idle EXCEPT !.op = IF req[r].op = "create" THEN "create" ELSE "add",
                                           !.at = "open", !.lists = Present, !.older = Holding]]
  /\ UNCHANGED <<up, boots, settings, domain, files, wizard, blame, founded, faults>>

\* syncSelectorMap: the active domains are read, and the map is emptied and written. What the request
\* was about does not matter any more.
SelectActive(r) ==
  /\ At(r, {"create", "add", "switch", "delete"}, {"select"})
  /\ req' = [req EXCEPT ![r] = [Idle EXCEPT !.op = IF req[r].op = "create" THEN "create" ELSE "add",
                                           !.at = "open", !.lists = Active, !.older = Holding]]
  /\ UNCHANGED <<up, boots, settings, domain, files, wizard, blame, founded, faults>>

OpenMap(r) ==
  /\ At(r, {"create", "add"}, {"open"})
  /\ map' = {}
  /\ Goes(r, "put")
  /\ UNCHANGED <<up, boots, settings, domain, keyed, blame, founded, faults>>

\* What another request wrote since the map was emptied may show behind a shorter list. What is left
\* of the wizard's request, keeping the hostname and signing in, shows in its answer alone.
WriteMap(r) ==
  /\ At(r, {"create", "add"}, {"put"})
  /\ \E rest \in SUBSET map : map' = req[r].lists \cup rest
  /\ behind' = (r \in late)
  /\ late' = (late \ {r}) \cup {s \in Holding \ {r} : s \in req[r].older \/ req[s].at = "put"}
  /\ Ends(r, TRUE)
  /\ UNCHANGED <<up, boots, settings, domain, keyed, astray, founded, faults>>

\* A query or a file operation fails: the answer is an error, what was done before stays.
Fail(r) ==
  /\ req[r] # Idle /\ faults < MaxFaults
  /\ faults' = faults + 1
  /\ Ends(r, FALSE)
  /\ late' = (IF r \in Owing THEN Holding ELSE late) \ {r}
  /\ behind' = (behind \/ r \in Owing)
  /\ astray' = IF req[r].at = "key" /\ req[r].own THEN astray \cup {req[r].d} ELSE astray
  /\ UNCHANGED <<up, boots, settings, domain, files, founded>>

----------------------------------------------------------------------------
(* The app stops and starts.                                               *)

Stop ==
  /\ up /\ boots < MaxBoots
  /\ up' = FALSE
  /\ astray' = astray \cup {d \in Present : \E r \in Requests :
                               req[r].at = "key" /\ req[r].d = d /\ req[r].own}
  /\ req' = [r \in Requests |-> Idle]
  /\ wizard' = [w \in Wizards |-> [wizard[w] EXCEPT !.waits = None]]
  /\ late' = {}
  /\ UNCHANGED <<boots, settings, domain, files, behind, founded, faults>>

\* Every key is written and then the map, on the volume as it was or a fresh one. An error ends it
\* and is only logged.
MaterializeAllKeys == \E fresh, whole \in BOOLEAN, written \in SUBSET Present :
  /\ keyed' = written \cup IF fresh THEN {} ELSE keyed
  /\ IF whole
     THEN written = Present /\ map' = Active /\ behind' = FALSE /\ astray' = {}
     ELSE /\ map' \in {{}, IF fresh THEN {} ELSE map}
          /\ behind' = TRUE
          /\ astray' = (IF fresh THEN Present ELSE astray) \ written
  /\ faults + (IF fresh \/ ~whole THEN 1 ELSE 0) <= MaxFaults
  /\ faults' = faults + IF fresh \/ ~whole THEN 1 ELSE 0

\* Accounts without the flag count as completed; else this start prints a new token.
InitSetupToken ==
  /\ completed' = (completed \/ Administered # {})
  /\ hash' = IF completed' THEN hash ELSE boots + 1

\* Both are over before the app listens.
Boot ==
  /\ ~up /\ boots < MaxBoots
  /\ up' = TRUE /\ boots' = boots + 1
  /\ MaterializeAllKeys
  /\ InitSetupToken
  /\ UNCHANGED <<domain, req, wizard, late, founded>>

----------------------------------------------------------------------------
(* Browsers.                                                               *)

\* The page is loaded, for the first time or again; once setup has completed it is the sign-in page.
OpenWizard(w) ==
  /\ up
  /\ wizard' = [wizard EXCEPT ![w] = IF completed THEN Away
                                     ELSE [step |-> "token", token |-> 0, known |-> Present # {}, waits |-> None]]
  /\ UNCHANGED <<up, boots, settings, domain, files, req, blame, founded, faults>>

Back(w) ==
  /\ wizard[w].step = "form" /\ wizard[w].waits = None
  /\ wizard' = [wizard EXCEPT ![w].step = "token"]
  /\ UNCHANGED <<up, boots, settings, domain, files, req, blame, founded, faults>>

\* The forms of the wizard: a token printed by some start, a domain, the end.
Submit(w) == \E r \in Requests :
  /\ up /\ req[r] = Idle /\ wizard[w].waits = None
  /\ \/ \E t \in 1..boots :
          /\ wizard[w].step = "token"
          /\ wizard' = [wizard EXCEPT ![w].waits = r, ![w].token = t]
          /\ req' = [req EXCEPT ![r] = [Idle EXCEPT !.op = "verify", !.at = "gate", !.token = t]]
     \/ \E d \in Domains :
          /\ wizard[w].step = "form"
          /\ wizard' = [wizard EXCEPT ![w].waits = r]
          /\ req' = [req EXCEPT ![r] = [Idle EXCEPT !.op = "create", !.at = "gate", !.d = d, !.token = wizard[w].token]]
     \/ /\ wizard[w].step = "steps"
        /\ wizard' = [wizard EXCEPT ![w].waits = r]
        /\ req' = [req EXCEPT ![r] = [Idle EXCEPT !.op = "finish", !.at = "gate", !.token = wizard[w].token]]
  /\ UNCHANGED <<up, boots, settings, domain, files, blame, founded, faults>>

\* The answer is lost: the wizard shows an error while the request goes on.
Lose(w) ==
  /\ wizard[w].waits # None
  /\ wizard' = [wizard EXCEPT ![w].waits = None]
  /\ UNCHANGED <<up, boots, settings, domain, files, req, blame, founded, faults>>

\* An administrator makes, switches or deletes a domain.
Administrate == \E r \in Requests, d \in Domains :
  /\ up /\ req[r] = Idle /\ Administered # {}
  /\ \/ req' = [req EXCEPT ![r] = [Idle EXCEPT !.op = "add", !.at = "commit", !.d = d]]
     \/ Load(r, d)
  /\ UNCHANGED <<up, boots, settings, domain, files, wizard, blame, founded, faults>>

Step(r) ==
  \/ Gate(r) \/ VerifySetupToken(r) \/ MarkSetupCompleted(r) \/ CreateDomain(r)
  \/ Save(r) \/ Count(r) \/ Destroy(r)
  \/ MaterializeDomainKey(r) \/ RemoveDomainKey(r) \/ SelectActive(r) \/ OpenMap(r) \/ WriteMap(r)
  \/ Fail(r)

Do == \/ \E r \in Requests : Step(r)
      \/ \E w \in Wizards : OpenWizard(w) \/ Back(w) \/ Submit(w) \/ Lose(w)
      \/ Administrate \/ Stop \/ Boot

Spec == Init /\ [][Do]_vars

----------------------------------------------------------------------------
(* Properties.                                                             *)

\* When no request is rewriting them, the DKIM files are as the domains are, and rspamd signs for the
\* active ones alone (dkim.ts), whatever requests went on at once, failed or were cut off. Except
\* that the map may lag when it was last written by a request that had read the domains before
\* another one that has written it, or when one failed since; and the key of a domain when its file
\* was last touched for an earlier domain of its name. A start that gets through repairs both.
FilesFollowDomains ==
  up /\ Owing = {} => /\ behind \/ map = Active
                     /\ Present \ astray \subseteq keyed

\* Setup never counts as done, and the wizard never gets behind its form, unless an administrator was
\* made, wherever a request or the app stops, and whatever the wizard is told (routes.ts: create and
\* finish, token.ts: initSetupToken): nobody could sign in, and the routes would be closed.
CompletedHasAdmin ==
  completed \/ (\E w \in Wizards : wizard[w].step = "steps") => founded

=============================================================================
