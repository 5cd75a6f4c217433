------------------------------- MODULE Keeper -------------------------------
(***************************************************************************)
(* The keeper: it scans a chain on which the vaults go their own way,      *)
(* caches what it read, and reminds owners.  Scan (watch/watcher.go) is    *)
(* cut into the steps between which the chain, the clock, a reader of the  *)
(* cache or the end of the process can come: the fetch, the replacement    *)
(* of the cache, and each vault's turn in the loop.                        *)
(*                                                                         *)
(* The clock of the keeper's host is taken to be the cluster's.  Where the *)
(* RPC endpoint stands for several nodes, one of them may be behind, and   *)
(* two scans in a row may be answered by different ones.                   *)
(***************************************************************************)
EXTENDS Reminder, Sequences

CONSTANTS
    Vaults,         \* the addresses
    Undecodable,    \* addresses whose accounts DecodeVault refuses
    Outcomes,       \* what Notify may do: TRUE it delivers, FALSE it fails
    Persistent,     \* whether the cache is in Postgres, not in memory
    Lagging,        \* whether a node that is behind may answer
    MAX_CLOCK,      \* bound of the model: where the clock stops
    MAX_LIVES       \* bound of the model: how often an address is opened

ASSUME KeeperAssumption ==
    /\ Undecodable \subseteq Vaults
    /\ Outcomes \subseteq BOOLEAN /\ Outcomes # {}
    /\ Persistent \in BOOLEAN
    /\ Lagging \in BOOLEAN
    /\ MAX_CLOCK \in Nat
    /\ MAX_LIVES \in Nat

VARIABLES
    now,        \* the time of day
    chain,      \* what is at each address
    view,       \* what the node that is behind shows
    phase,      \* where the watcher is
    fetched,    \* the vaults of the scan that is running
    cache,      \* the store
    inDoubt,    \* the last commit went through, and its answer was lost
    tracker,    \* the tracker's entries
    scanNow,    \* the time the last loop over the vaults works with
    visited,    \* the cached vaults whose turn in that loop is over
    life,       \* history: how often each address was opened
    viewLife,   \* history: life as of view, of fetched and of cache
    fetchedLife,
    cacheLife,
    sent        \* history: for each vault, the reminders since the start

chainVars   == <<chain, life>>
nodeVars    == <<view, viewLife>>
scanVars    == <<fetched, fetchedLife, scanNow, visited>>
storeVars   == <<cache, cacheLife, inDoubt>>
vars        == <<now, chainVars, nodeVars, phase, scanVars, storeVars, tracker, sent>>

Nothing == [a \in Vaults |-> NoAccount]
NoLives == [a \in Vaults |-> 0]
NoTrack == [a \in Vaults |-> Untracked]
NoneSent == [a \in Vaults |-> << >>]

Phases == {"down", "idle", "fetched", "remind"}

Reminders ==
    [life      : 0..MAX_LIVES,
     deadline  : Nat,
     threshold : Thresholds \cup {expired},
     delivered : BOOLEAN]

Init ==
    /\ now = 0
    /\ chain = Nothing /\ life = NoLives
    /\ phase = "down"
    /\ fetched = Nothing /\ fetchedLife = NoLives
    /\ view = Nothing /\ viewLife = NoLives
    /\ cache = Nothing /\ cacheLife = NoLives
    /\ inDoubt = FALSE
    /\ tracker = NoTrack
    /\ scanNow = 0
    /\ visited = {}
    /\ sent = NoneSent

-----------------------------------------------------------------------------
(* The world outside. *)

Tick ==
    /\ now < MAX_CLOCK
    /\ now' = now + 1
    /\ UNCHANGED <<chainVars, nodeVars, phase, scanVars, storeVars, tracker, sent>>

\* An instruction of the program changes the account at a.
ChainStep(a) ==
    /\ \E v \in Successors(chain[a], now) :
        /\ v # chain[a]
        /\ chain' = [chain EXCEPT ![a] = v]
        /\ IF chain[a].open
           THEN life' = life
           ELSE /\ life[a] < MAX_LIVES
                /\ life' = [life EXCEPT ![a] = @ + 1]
    /\ UNCHANGED <<now, nodeVars, phase, scanVars, storeVars, tracker, sent>>

\* The node that is behind gets to where the chain is.
CatchUp ==
    /\ Lagging
    /\ view' = chain /\ viewLife' = life
    /\ UNCHANGED <<now, chainVars, phase, scanVars, storeVars, tracker, sent>>

\* The states of the chain that a request may be answered from.
Served ==
    {[accounts |-> chain, life |-> life]}
    \cup (IF Lagging THEN {[accounts |-> view, life |-> viewLife]} ELSE {})

-----------------------------------------------------------------------------
(* The process. *)

\* run: a fresh tracker, and the store there is.
Start ==
    /\ phase = "down"
    /\ phase' = "idle"
    /\ UNCHANGED <<now, chainVars, nodeVars, scanVars, storeVars, tracker, sent>>

\* The process ends, at any point.  Only what is in Postgres stays.
Stop ==
    /\ phase # "down"
    /\ phase' = "down"
    /\ fetched' = Nothing /\ fetchedLife' = NoLives
    /\ scanNow' = 0
    /\ visited' = {}
    /\ IF Persistent
       THEN UNCHANGED <<cache, cacheLife>>
       ELSE cache' = Nothing /\ cacheLife' = NoLives
    /\ inDoubt' = FALSE
    /\ tracker' = NoTrack
    /\ sent' = NoneSent
    /\ UNCHANGED <<now, chainVars, nodeVars>>

\* The end of a scan, or of an attempt at one.
EndScan ==
    /\ phase' = "idle"
    /\ fetched' = Nothing /\ fetchedLife' = NoLives

-----------------------------------------------------------------------------
(* A scan. *)

\* DecodeVault.
Decodes(a) == a \notin Undecodable

\* Source.Vaults: every account of the program, or an error.  An error, of the
\* node or of the decoder, ends the scan before it changed anything, and is
\* no step.
Fetch ==
    /\ phase = "idle"
    /\ phase' = "fetched"
    /\ \E s \in Served :
        /\ \A a \in Vaults : s.accounts[a].open => Decodes(a)
        /\ fetched' = s.accounts /\ fetchedLife' = s.life
    /\ UNCHANGED <<now, chainVars, nodeVars, storeVars, tracker, scanNow, visited, sent>>

\* Wrong: closed vaults stay in the tracker.
Forget_BugKept(live) == tracker

\* Forget: entries of addresses that are not in the scan are dropped.
Forget(live) == [a \in Vaults |-> IF a \in live THEN tracker[a] ELSE Untracked]

\* The cache becomes what the scan has read; the loop over it is to come.
Commit ==
    /\ cache' = fetched /\ cacheLife' = fetchedLife
    /\ visited' = {}

\* Store.Replace, then Forget, then the one reading of the clock for all
\* vaults.
Replace ==
    /\ phase = "fetched"
    /\ phase' = "remind"
    /\ Commit
    /\ inDoubt' = FALSE
    /\ tracker' = Forget({a \in Vaults : fetched[a].open})
    /\ scanNow' = now
    /\ UNCHANGED <<now, chainVars, nodeVars, fetched, fetchedLife, sent>>

\* Postgres fails: the transaction is rolled back, the scan given up.
ReplaceFails ==
    /\ Persistent
    /\ phase = "fetched"
    /\ EndScan
    /\ UNCHANGED <<now, chainVars, nodeVars, storeVars, tracker, scanNow, visited, sent>>

\* Postgres has committed, but the connection is lost before it says so: the
\* scan is given up as well, with a cache that is new and a tracker that has
\* not forgotten the vaults it no longer has.
ReplaceInDoubt ==
    /\ Persistent
    /\ phase = "fetched"
    /\ EndScan
    /\ Commit
    /\ inDoubt' = TRUE
    /\ UNCHANGED <<now, chainVars, nodeVars, tracker, scanNow, sent>>

\* Due: the entry it leaves behind, for a vault v read in this scan.
Due(e, v) ==
    IF v.is_claimed THEN Untracked ELSE Fire(Recall(e, v), TimeLeft(v, scanNow))

\* The threshold of the reminder that Due returns, if there is one.
DueNews(e, v) ==
    IF v.is_claimed THEN {} ELSE News(Recall(e, v), TimeLeft(v, scanNow))

\* One vault's turn: Due, then Notify, whose failure is only logged.
Remind(a, delivered) ==
    LET v == fetched[a] IN
    /\ phase = "remind"
    /\ v.open
    /\ a \notin visited
    /\ visited' = visited \cup {a}
    /\ tracker' = [tracker EXCEPT ![a] = Due(@, v)]
    /\ \/ /\ DueNews(tracker[a], v) = {}
          /\ UNCHANGED sent
       \/ \E d \in DueNews(tracker[a], v) :
          sent' = [sent EXCEPT ![a] = Append(@,
            [life      |-> fetchedLife[a],
             deadline  |-> Deadline(v),
             threshold |-> d,
             delivered |-> delivered])]
    /\ UNCHANGED <<now, chainVars, nodeVars, phase, fetched, fetchedLife, scanNow, storeVars>>

Finish ==
    /\ phase = "remind"
    /\ \A a \in Vaults : fetched[a].open => a \in visited
    /\ EndScan
    /\ UNCHANGED <<now, chainVars, nodeVars, storeVars, tracker, scanNow, visited, sent>>

-----------------------------------------------------------------------------

Next ==
    \/ Tick
    \/ \E a \in Vaults : ChainStep(a)
    \/ CatchUp
    \/ Start \/ Stop
    \/ Fetch \/ Replace \/ ReplaceFails \/ ReplaceInDoubt \/ Finish
    \/ \E a \in Vaults, delivered \in Outcomes : Remind(a, delivered)

Spec == Init /\ [][Next]_vars

\* The process is started again when it ended, and however often the node,
\* the store or the process fails, each part of a scan is not always what
\* fails.  Nothing is asked of the channel.
Fairness ==
    /\ WF_vars(Start)
    /\ SF_vars(Fetch)
    /\ SF_vars(Replace)
    /\ \A a \in Vaults : SF_vars(\E delivered \in Outcomes : Remind(a, delivered))
    /\ SF_vars(Finish)

LiveSpec == Spec /\ Fairness

-----------------------------------------------------------------------------
(* Properties. *)

TypeOK ==
    /\ now \in 0..MAX_CLOCK
    /\ chain \in [Vaults -> Accounts]
    /\ view \in [Vaults -> Accounts]
    /\ phase \in Phases
    /\ fetched \in [Vaults -> Accounts]
    /\ cache \in [Vaults -> Accounts]
    /\ inDoubt \in BOOLEAN
    /\ tracker \in [Vaults -> Entries]
    /\ scanNow \in 0..MAX_CLOCK
    /\ visited \subseteq Vaults
    /\ life \in [Vaults -> 0..MAX_LIVES]
    /\ viewLife \in [Vaults -> 0..MAX_LIVES]
    /\ fetchedLife \in [Vaults -> 0..MAX_LIVES]
    /\ cacheLife \in [Vaults -> 0..MAX_LIVES]
    /\ sent \in [Vaults -> Seq(Reminders)]

\* Wrong: the status of the last scan, as if it were stored with the vault.
Shown_BugAtScan(a, t) == Status(cache[a], scanNow)

\* What the API says of a cached vault at the time t, that of the request.
Shown(a, t) == Status(cache[a], t)

\* Reminders and API agree by default (config.go: DueSoon is the widest
\* threshold): once a vault had its turn, the tracker has reminded of its
\* present deadline exactly if the API says that it needs attention, and of
\* the expiry exactly if the API says expired; a claimed vault is dropped.
StatusAgrees ==
    \A a \in visited :
        IF cache[a].is_claimed
        THEN tracker[a] = Untracked
        ELSE /\ tracker[a].tracked
             /\ tracker[a].deadline = Deadline(cache[a])
             /\ tracker[a].fired # {} <=> NeedsAttention(Shown(a, scanNow))
             /\ expired \in tracker[a].fired <=> Shown(a, scanNow) = "expired"

\* The tracker holds nothing about vaults that are not in the cache: "so a
\* long-running keeper does not hold on to closed ones".  Only a commit whose
\* answer was lost leaves more in it, until the next one that is answered.
TrackerBounded ==
    phase # "down" /\ ~inDoubt =>
        \A a \in Vaults : tracker[a].tracked => cache[a].open

\* The keeper's cache is behind the chain, by a whole scan interval or, after
\* a restart, by more; the API still never reassures falsely.  Of a vault that
\* was not closed and opened again since, it says "active" or "due_soon" only
\* if nobody has claimed and the deadline on the chain is ahead.
NoFalseCalm ==
    \A a \in Vaults :
        /\ cache[a].open /\ chain[a].open /\ cacheLife[a] = life[a]
        /\ Shown(a, now) \in {"active", "due_soon"}
        => ~chain[a].is_claimed /\ now < Deadline(chain[a])

\* As long as the process lives, each reminder about the same deadline of a
\* vault is more urgent than the one before: none is repeated, and none comes
\* after a more urgent one.
Escalates ==
    \A a \in Vaults : \A j \in 1..Len(sent[a]) : \A i \in 1..(j - 1) :
        LET r == sent[a][i]
            s == sent[a][j]
        IN  r.life = s.life /\ r.deadline = s.deadline => s.threshold < r.threshold

\* The vault is past the deadline d, and nobody has claimed.
Overdue(a, d) ==
    chain[a].open /\ ~chain[a].is_claimed /\ Deadline(chain[a]) = d /\ now >= d

\* Since it was started the keeper has reported that a passed the deadline d.
Reported(a, d) ==
    \E i \in DOMAIN sent[a] :
        sent[a][i].deadline = d /\ sent[a][i].threshold = expired

ReportedOrOver(a, d) == Reported(a, d) \/ ~Overdue(a, d)

\* An owner whose deadline has passed is reminded of it, whatever fails on the
\* way, unless they check in or close, or an heir claims, before.
OverdueIsReported ==
    \A a \in Vaults, d \in 0..MAX_CLOCK : Overdue(a, d) ~> ReportedOrOver(a, d)

-----------------------------------------------------------------------------
(* What the documentation says and the code does not do. *)

\* Comment in Vaults (dms/client.go): "One malformed account must not blind the
\* keeper to the rest".  So the vaults that decode are still reported.
OneMalformedBlindsNobody ==
    \A a \in Vaults \ Undecodable, d \in 0..MAX_CLOCK :
        Overdue(a, d) ~> ReportedOrOver(a, d)

=============================================================================
