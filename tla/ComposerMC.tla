----------------------------- MODULE ComposerMC -----------------------------
\* Composer for TLC.
EXTENDS Composer

\* Messages are alike, so the one opened first may be taken to be a given one (this costs TLC less
\* than SYMMETRY, for two).
First == CHOOSE m \in Messages : TRUE
FirstFirst == mounts # <<>> => mounts[1].m = First

\* Two states that differ only in what no handler reads again are one state: composers off the screen
\* with nothing left to do, requests that are answered, messages that are sent, undone or gone, which
\* composer was flushed, and which of the causes with the same excuse befell a message.
Excused(m) == <<Befell(m, MayRepeat), Befell(m, MayLeaveDraft), Befell(m, MayLose)>>
Live(c) == AtWork(mounts[c]) \/ c = cur
Awaited(r) ==
  \/ reqs[r].at \notin {"done", "failed"}
  \/ \E i \in DOMAIN mounts : mounts[i].req = r
  \/ \E o \in DOMAIN outbox : outbox[o].req = r /\ outbox[o].at = "posted"
View ==
  <<[i \in DOMAIN mounts |-> IF Live(i) THEN mounts[i] ELSE [m |-> mounts[i].m]],
    [o \in DOMAIN outbox |-> IF outbox[o].at \in {"window", "posted", "toast"} THEN outbox[o] ELSE [at |-> "over"]],
    [r \in DOMAIN reqs |-> IF Awaited(r) THEN reqs[r] ELSE [at |-> "over"]],
    cur, folder, {sent[i] : i \in DOMAIN sent}, [m \in Messages |-> Copies(m)], leaving # 0, away, acts, failures, typed, dropped,
    [m \in Messages |-> Excused(m)]>>
=============================================================================
