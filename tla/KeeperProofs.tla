---------------------------- MODULE KeeperProofs ----------------------------
(***************************************************************************)
(* What holds in every behaviour of Keeper, for any number of vaults, any  *)
(* thresholds and any timeouts: first what one call of Due does to an      *)
(* entry of the tracker, then the invariant of the process.                *)
(***************************************************************************)
EXTENDS Keeper, WellFoundedInduction, TLAPS

-----------------------------------------------------------------------------
(* The tracker. *)

\* Among any thresholds there is a narrowest one.
LEMMA LeastExists ==
    ASSUME NEW S, S \subseteq Nat, S # {}
    PROVE  \E x \in S : \A y \in S : x <= y
<1>1. PICK x \in S : \A y \in S : ~(<<y, x>> \in OpToRel(<, Nat))
  BY NatLessThanWellFounded, WFMin
<1>2. \A y \in S : ~(y < x)
  BY <1>1 DEF OpToRel
<1> QED
  BY <1>2

\* DueSoon is a threshold, and none is wider.
LEMMA DueSoonWidest ==
    /\ DueSoon \in Thresholds
    /\ \A d \in Thresholds : d <= DueSoon
BY ThresholdAssumption DEF DueSoon, Max

\* The entry is that of a vault looked at at the time t, and before only at
\* earlier times: it has fired just what had been reached by then.
Exact(e, t) ==
    IF e.deadline - t <= 0
    THEN expired \in e.fired
    ELSE e.fired = Reached(e.deadline - t)

\* The entry has nothing on its conscience later than the time t.
Remembers(e, t) ==
    e.fired = {} \/ \E s \in Int : s <= t /\ Exact(e, s)

\* Whatever an entry remembers of the past, Due brings it up to date.
LEMMA FireExact ==
    ASSUME NEW e \in Entries, NEW t \in Int, Remembers(e, t)
    PROVE  Exact(Fire(e, e.deadline - t), t)
<1> DEFINE left == e.deadline - t
           R == Reached(left)
<1>0. /\ e.deadline \in Nat /\ left \in Int
      /\ e.fired \subseteq Thresholds \cup {expired}
      /\ Thresholds \subseteq Nat \ {0}
  BY ThresholdAssumption DEF Entries
<1>1. R \subseteq Nat
  <2>1. CASE left <= 0
    BY <2>1 DEF Reached, expired
  <2>2. CASE ~(left <= 0)
    BY <1>0, <2>2 DEF Reached
  <2> QED
    BY <2>1, <2>2
<1>2. /\ Fire(e, left).deadline = e.deadline
      /\ Fire(e, left).fired
            = IF News(e, left) = {} THEN e.fired ELSE e.fired \cup R
  <2>1. CASE News(e, left) = {}
    BY <2>1 DEF Fire
  <2>2. CASE News(e, left) # {}
    <3>1. Fire(e, left) = [e EXCEPT !.fired = e.fired \cup R]
      BY <2>2 DEF Fire
    <3> HIDE DEF R
    <3> QED
      BY <2>2, <3>1 DEF Entries
  <2> QED
    BY <2>1, <2>2
<1>3. CASE left <= 0
  <2>1. R = {expired}
    BY <1>3 DEF Reached
  <2>2. expired \in Fire(e, left).fired
    BY <1>2, <2>1 DEF News, expired
  <2> QED
    BY <1>2, <1>3, <2>2 DEF Exact
<1>4. CASE left > 0
  <2>1. R = {d \in Thresholds : left <= d}
    BY <1>0, <1>4 DEF Reached
  <2>2. ASSUME e.fired = {}
        PROVE  Fire(e, left).fired = R
    <3>1. CASE R = {}
      BY <1>2, <2>2, <3>1
    <3>2. CASE R # {}
      <4>1. PICK d \in R : \A c \in R : d <= c
        BY <1>1, <3>2, LeastExists
      <4>2. d \in News(e, left)
        BY <2>2, <4>1 DEF News
      <4> QED
        BY <1>2, <2>2, <4>2
    <3> QED
      BY <3>1, <3>2
  <2>3. ASSUME NEW s \in Int, s <= t, Exact(e, s)
        PROVE  Fire(e, left).fired = R
    <3> DEFINE past == e.deadline - s
    <3>1. past \in Int /\ past > 0 /\ past >= left
      BY <1>0, <1>4, <2>3
    <3>2. e.fired = {d \in Thresholds : past <= d}
      BY <3>1, <2>3 DEF Exact, Reached
    <3> HIDE DEF past, left, R
    <3>3. ASSUME NEW c \in e.fired
          PROVE  c \in R
      <4>1. c \in Thresholds /\ c \in Nat /\ past <= c
        BY <1>0, <3>2
      <4>2. left <= c
        BY <1>0, <3>1, <4>1
      <4> QED
        BY <2>1, <4>1, <4>2
    <3>4. CASE R \subseteq e.fired
      <4>1. e.fired = R /\ e.fired \cup R = R
        BY <3>3, <3>4
      <4> QED
        BY <1>2, <4>1
    <3>5. CASE ~(R \subseteq e.fired)
      <4>1. PICK d \in R : \A c \in R : d <= c
        BY <1>1, <3>5, LeastExists
      <4>2. d \notin e.fired
        <5>1. SUFFICES ASSUME d \in e.fired
                       PROVE  R \subseteq e.fired
          BY <3>5
        <5>2. past <= d
          BY <3>2, <5>1
        <5>3. ASSUME NEW c \in R
              PROVE  c \in e.fired
          <6>1. c \in Thresholds /\ c \in Nat /\ d \in Nat /\ d <= c
            BY <1>1, <2>1, <4>1
          <6>2. past <= c
            BY <3>1, <5>2, <6>1
          <6> QED
            BY <3>2, <6>1, <6>2
        <5> QED
          BY <5>3
      <4>3. d \in News(e, left)
        BY <4>1, <4>2 DEF News, R
      <4> QED
        BY <1>2, <3>3, <4>3
    <3> QED
      BY <3>4, <3>5
  <2>4. Fire(e, left).fired = R
    BY <2>2, <2>3 DEF Remembers
  <2> QED
    BY <1>0, <1>2, <1>4, <2>4 DEF Exact
<1> QED
  BY <1>0, <1>3, <1>4

\* Recall yields an entry about the present deadline, and one that remembers
\* no more than the entry it was given.
LEMMA RecallKeeps ==
    ASSUME NEW e \in Entries, NEW v \in Accounts, NEW t \in Int,
           e.tracked => Remembers(e, t)
    PROVE  /\ Recall(e, v) \in Entries
           /\ Recall(e, v).tracked
           /\ Recall(e, v).deadline = Deadline(v)
           /\ Remembers(Recall(e, v), t)
<1>1. CASE e.tracked /\ e.deadline = Deadline(v)
  <2>1. Recall(e, v) = e
    BY <1>1 DEF Recall
  <2> QED
    BY <1>1, <2>1
<1>2. CASE ~(e.tracked /\ e.deadline = Deadline(v))
  <2>1. Recall(e, v) = Armed(v)
    BY <1>2 DEF Recall
  <2>2. Deadline(v) \in Nat
    BY DEF Deadline, Accounts
  <2> QED
    BY <2>1, <2>2 DEF Armed, Entries, Remembers
<1> QED
  BY <1>1, <1>2

\* Fire touches nothing but the fired set, and fires only thresholds.
LEMMA FireKeeps ==
    ASSUME NEW e \in Entries, NEW left \in Int
    PROVE  /\ Fire(e, left) \in Entries
           /\ Fire(e, left).tracked = e.tracked
           /\ Fire(e, left).deadline = e.deadline
<1>1. Reached(left) \subseteq Thresholds \cup {expired}
  BY DEF Reached
<1>2. CASE News(e, left) = {}
  BY <1>2 DEF Fire
<1>3. CASE News(e, left) # {}
  <2>1. Fire(e, left) = [e EXCEPT !.fired = e.fired \cup Reached(left)]
    BY <1>3 DEF Fire
  <2>2. e.fired \cup Reached(left) \in SUBSET (Thresholds \cup {expired})
    BY <1>1 DEF Entries
  <2> QED
    BY <2>1, <2>2 DEF Entries
<1> QED
  BY <1>2, <1>3

\* A vault's turn leaves the entry that its deadline and the time call for,
\* whatever the entry was.
LEMMA DueExact ==
    ASSUME NEW e \in Entries, NEW v \in Accounts, scanNow \in Nat,
           e.tracked => Remembers(e, scanNow)
    PROVE  /\ Due(e, v) \in Entries
           /\ IF v.is_claimed
              THEN Due(e, v) = Untracked
              ELSE /\ Due(e, v).tracked
                   /\ Due(e, v).deadline = Deadline(v)
                   /\ Exact(Due(e, v), scanNow)
<1>1. CASE v.is_claimed
  BY <1>1 DEF Due, Untracked, Entries
<1>2. CASE ~v.is_claimed
  <2> DEFINE r == Recall(e, v)
  <2>1. /\ r \in Entries /\ r.tracked /\ r.deadline = Deadline(v)
        /\ Remembers(r, scanNow)
    BY RecallKeeps
  <2>2. Deadline(v) \in Int /\ TimeLeft(v, scanNow) = r.deadline - scanNow
    BY <2>1 DEF TimeLeft, Deadline, Accounts
  <2>3. Due(e, v) = Fire(r, r.deadline - scanNow)
    BY <1>2, <2>2 DEF Due
  <2> HIDE DEF r
  <2>4. r.deadline - scanNow \in Int
    BY <2>1, <2>2
  <2> QED
    BY <1>2, <2>1, <2>3, <2>4, FireKeeps, FireExact
<1> QED
  BY <1>1, <1>2

\* What a memory covers until t it covers until later.
LEMMA RemembersLonger ==
    ASSUME NEW e \in Entries, NEW t \in Int, NEW u \in Int, t <= u,
           Remembers(e, t)
    PROVE  Remembers(e, u)
BY DEF Remembers

-----------------------------------------------------------------------------
(* Type correctness. *)

\* The chain stays in its type.
LEMMA SuccessorsType ==
    ASSUME NEW v \in Accounts, NEW t \in Nat, NEW w \in Successors(v, t)
    PROVE  w \in Accounts
<1>1. ASSUME NEW s \in Timeouts
      PROVE  [open |-> TRUE, last_checkin |-> t, timeout |-> s, is_claimed |-> FALSE]
                \in Accounts
  BY TimeoutsAssumption DEF Accounts
<1>2. NoAccount \in Accounts
  BY DEF NoAccount, Accounts
<1>3. [v EXCEPT !.last_checkin = t] \in Accounts
  BY DEF Accounts
<1>4. [v EXCEPT !.is_claimed = TRUE] \in Accounts
  BY DEF Accounts
<1> QED
  BY <1>1, <1>2, <1>3, <1>4 DEF Successors, Opened

\* The empty tables are of their types.
LEMMA EmptyTypes ==
    /\ Nothing \in [Vaults -> Accounts]
    /\ NoLives \in [Vaults -> 0..MAX_LIVES]
    /\ NoTrack \in [Vaults -> Entries]
    /\ NoneSent \in [Vaults -> Seq(Reminders)]
BY KeeperAssumption
   DEF Nothing, NoAccount, Accounts, NoLives, NoTrack, Untracked, Entries, NoneSent

\* What is held at the start is of its type.
LEMMA KeeperTypeInit ==
    ASSUME Init
    PROVE  TypeOK
<1>1. /\ now \in 0..MAX_CLOCK /\ scanNow \in 0..MAX_CLOCK
      /\ phase \in Phases /\ visited \subseteq Vaults /\ inDoubt \in BOOLEAN
  <2>1. 0 \in 0..MAX_CLOCK
    BY KeeperAssumption
  <2>2. now = 0 /\ scanNow = 0 /\ phase = "down" /\ visited = {} /\ inDoubt = FALSE
    BY DEF Init
  <2> QED
    BY <2>1, <2>2 DEF Phases
<1>2. /\ chain \in [Vaults -> Accounts] /\ view \in [Vaults -> Accounts]
      /\ fetched \in [Vaults -> Accounts] /\ cache \in [Vaults -> Accounts]
  BY EmptyTypes DEF Init
<1>3. /\ life \in [Vaults -> 0..MAX_LIVES] /\ viewLife \in [Vaults -> 0..MAX_LIVES]
      /\ fetchedLife \in [Vaults -> 0..MAX_LIVES]
      /\ cacheLife \in [Vaults -> 0..MAX_LIVES]
  BY EmptyTypes DEF Init
<1>4. tracker \in [Vaults -> Entries] /\ sent \in [Vaults -> Seq(Reminders)]
  BY EmptyTypes DEF Init
<1> QED
  BY <1>1, <1>2, <1>3, <1>4 DEF TypeOK

\* The parts of TypeOK that only a turn in the loop writes.
LEMMA RemindType ==
    ASSUME TypeOK, NEW a \in Vaults, NEW delivered \in Outcomes,
           Remind(a, delivered)
    PROVE  /\ visited' \subseteq Vaults
           /\ sent' \in [Vaults -> Seq(Reminders)]
<1>1. visited' \subseteq Vaults
  BY DEF Remind, TypeOK
<1>2. sent \in [Vaults -> Seq(Reminders)]
  BY DEF TypeOK
<1>3. CASE UNCHANGED sent
  BY <1>1, <1>2, <1>3
<1>4. ASSUME NEW d \in DueNews(tracker[a], fetched[a]),
             NEW r,
             r = [life      |-> fetchedLife[a],
                  deadline  |-> Deadline(fetched[a]),
                  threshold |-> d,
                  delivered |-> delivered],
             sent' = [sent EXCEPT ![a] = Append(@, r)]
      PROVE  sent' \in [Vaults -> Seq(Reminders)]
  <2>1. d \in Thresholds \cup {expired}
    BY DEF DueNews, News, Reached
  <2>2. Deadline(fetched[a]) \in Nat /\ fetchedLife[a] \in 0..MAX_LIVES
    BY DEF TypeOK, Accounts, Deadline
  <2>3. r \in Reminders
    BY <1>4, <2>1, <2>2, KeeperAssumption DEF Reminders
  <2>4. Append(sent[a], r) \in Seq(Reminders)
    BY <1>2, <2>3
  <2> QED
    BY <1>2, <1>4, <2>4
<1> QED
  BY <1>1, <1>3, <1>4 DEF Remind

\* Every step keeps the types.
LEMMA KeeperTypeStep ==
    ASSUME TypeOK, [Next]_vars, tracker' \in [Vaults -> Entries]
    PROVE  TypeOK'
<1> USE DEF TypeOK, Phases
<1>0. MAX_CLOCK \in Nat /\ MAX_LIVES \in Nat
  BY KeeperAssumption
<1>1. CASE Tick
  BY <1>0, <1>1 DEF Tick, chainVars, nodeVars, scanVars, storeVars
<1>2. ASSUME NEW a \in Vaults, ChainStep(a)
      PROVE  TypeOK'
  <2>1. chain' \in [Vaults -> Accounts]
    BY <1>2, SuccessorsType DEF ChainStep
  <2>2. life' \in [Vaults -> 0..MAX_LIVES]
    <3>1. CASE life' = life
      BY <3>1
    <3>2. CASE life[a] < MAX_LIVES /\ life' = [life EXCEPT ![a] = @ + 1]
      <4>1. life[a] + 1 \in 0..MAX_LIVES
        BY <1>0, <3>2
      <4> QED
        BY <3>2, <4>1
    <3> QED
      BY <1>2, <3>1, <3>2 DEF ChainStep
  <2> QED
    BY <1>2, <2>1, <2>2 DEF ChainStep, nodeVars, scanVars, storeVars
<1>3. CASE Start \/ CatchUp
  BY <1>3 DEF Start, CatchUp, chainVars, nodeVars, scanVars, storeVars
<1>4. CASE Stop
  <2>1. /\ cache' \in [Vaults -> Accounts]
        /\ cacheLife' \in [Vaults -> 0..MAX_LIVES]
    BY <1>4, EmptyTypes DEF Stop
  <2>2. /\ now' \in 0..MAX_CLOCK /\ scanNow' \in 0..MAX_CLOCK
        /\ phase' \in Phases /\ visited' \subseteq Vaults /\ inDoubt' \in BOOLEAN
    <3>1. /\ now' = now /\ scanNow' = 0 /\ phase' = "down" /\ visited' = {}
          /\ inDoubt' = FALSE
      BY <1>4 DEF Stop
    <3>2. now \in 0..MAX_CLOCK /\ 0 \in 0..MAX_CLOCK
      BY <1>0
    <3> QED
      BY <3>1, <3>2
  <2>3. /\ UNCHANGED <<chain, life, view, viewLife>>
        /\ fetched' = Nothing /\ fetchedLife' = NoLives /\ sent' = NoneSent
    BY <1>4 DEF Stop, chainVars, nodeVars
  <2> QED
    BY <2>1, <2>2, <2>3, EmptyTypes
<1>5. CASE Fetch
  <2>1. PICK s \in Served : fetched' = s.accounts /\ fetchedLife' = s.life
    BY <1>5 DEF Fetch
  <2>2. /\ s.accounts \in [Vaults -> Accounts]
        /\ s.life \in [Vaults -> 0..MAX_LIVES]
    BY DEF Served
  <2> QED
    BY <1>5, <2>1, <2>2 DEF Fetch, chainVars, nodeVars, storeVars
<1>6. CASE Replace \/ ReplaceInDoubt
  BY <1>6, EmptyTypes
     DEF Replace, ReplaceInDoubt, Commit, EndScan, chainVars, nodeVars
<1>7. CASE ReplaceFails \/ Finish
  BY <1>7, EmptyTypes
     DEF ReplaceFails, Finish, EndScan, chainVars, nodeVars, storeVars
<1>8. ASSUME NEW a \in Vaults, NEW delivered \in Outcomes, Remind(a, delivered)
      PROVE  TypeOK'
  BY <1>8, RemindType DEF Remind, chainVars, nodeVars, storeVars
<1>9. CASE UNCHANGED vars
  BY <1>9 DEF vars, chainVars, nodeVars, scanVars, storeVars
<1> QED
  BY <1>1, <1>2, <1>3, <1>4, <1>5, <1>6, <1>7, <1>8, <1>9 DEF Next

-----------------------------------------------------------------------------
(* The invariant of the process. *)

\* What the watcher holds fits together.
ScanConsistent ==
    /\ phase = "down" => visited = {} /\ tracker = NoTrack
    /\ phase = "remind" => cache = fetched
    /\ scanNow <= now

\* Every entry remembers only what was before the last loop.
MemoryKept ==
    \A a \in Vaults : tracker[a].tracked => Remembers(tracker[a], scanNow)

\* A vault that had its turn has the entry its cached state calls for.
TurnDone(a) ==
    IF cache[a].is_claimed
    THEN tracker[a] = Untracked
    ELSE /\ tracker[a].tracked
         /\ tracker[a].deadline = Deadline(cache[a])
         /\ Exact(tracker[a], scanNow)

TurnsDone == \A a \in visited : TurnDone(a)

KeeperInv == TypeOK /\ ScanConsistent /\ MemoryKept /\ TurnsDone /\ TrackerBounded

\* A step that leaves the tracker, the cache and the loop alone.
LEMMA QuietScan ==
    ASSUME KeeperInv, TypeOK', UNCHANGED <<tracker, cache, inDoubt, visited, scanNow>>,
           now <= now', phase = "down" <=> phase' = "down",
           phase' = "remind" => phase = "remind" /\ UNCHANGED fetched
    PROVE  KeeperInv'
<1>1. ScanConsistent'
  <2>1. scanNow \in Int /\ now \in Int /\ now' \in Int
    BY KeeperAssumption DEF KeeperInv, TypeOK
  <2> QED
    BY <2>1 DEF KeeperInv, ScanConsistent
<1>2. MemoryKept' /\ TurnsDone'
  BY DEF KeeperInv, MemoryKept, TurnsDone, TurnDone
<1>3. TrackerBounded'
  BY DEF KeeperInv, TrackerBounded
<1> QED
  BY <1>1, <1>2, <1>3 DEF KeeperInv

\* At the start the process is down and remembers nothing.
LEMMA KeeperInvInit ==
    ASSUME Init
    PROVE  KeeperInv
<1>1. TypeOK
  BY KeeperTypeInit
<1>2. ScanConsistent
  BY DEF Init, ScanConsistent
<1>3. MemoryKept /\ TurnsDone /\ TrackerBounded
  BY DEF Init, MemoryKept, TurnsDone, TrackerBounded, NoTrack, Untracked
<1> QED
  BY <1>1, <1>2, <1>3 DEF KeeperInv

\* The end of the process forgets the tracker and the loop.
LEMMA StopKeeps ==
    ASSUME KeeperInv, Stop
    PROVE  KeeperInv'
<1>1. /\ phase' = "down" /\ visited' = {} /\ tracker' = NoTrack
      /\ scanNow' = 0 /\ now' = now
  BY DEF Stop
<1>2. TypeOK'
  BY <1>1, EmptyTypes, KeeperTypeStep DEF Next, KeeperInv
<1>3. ScanConsistent'
  BY <1>1, <1>2 DEF ScanConsistent, TypeOK
<1>4. MemoryKept' /\ TurnsDone' /\ TrackerBounded'
  BY <1>1 DEF MemoryKept, TurnsDone, TrackerBounded, NoTrack, Untracked
<1> QED
  BY <1>2, <1>3, <1>4 DEF KeeperInv

\* A new loop starts with the entries of the vaults that are still there.
LEMMA ReplaceKeeps ==
    ASSUME KeeperInv, Replace
    PROVE  KeeperInv'
<1>0. TypeOK
  BY DEF KeeperInv
<1>1. /\ phase' = "remind" /\ cache' = fetched /\ fetched' = fetched
      /\ scanNow' = now /\ now' = now /\ visited' = {}
  BY DEF Replace, Commit
<1>2. \A a \in Vaults :
        tracker'[a] = IF fetched[a].open THEN tracker[a] ELSE Untracked
  BY DEF Replace, Forget
<1>3. tracker' \in [Vaults -> Entries]
  <2>1. Untracked \in Entries
    BY DEF Untracked, Entries
  <2> QED
    BY <1>0, <2>1 DEF Replace, Forget, TypeOK
<1>4. TypeOK'
  BY <1>0, <1>3, KeeperTypeStep DEF Next
<1>5. ScanConsistent'
  BY <1>1, <1>4 DEF ScanConsistent, TypeOK
<1>6. MemoryKept'
  <2>1. SUFFICES ASSUME NEW a \in Vaults, tracker'[a].tracked
                 PROVE  Remembers(tracker'[a], now)
    BY <1>1 DEF MemoryKept
  <2>2. tracker'[a] = tracker[a]
    BY <1>2, <2>1 DEF Untracked
  <2>3. Remembers(tracker[a], scanNow)
    BY <2>1, <2>2 DEF KeeperInv, MemoryKept
  <2>4. scanNow \in Int /\ now \in Int /\ scanNow <= now /\ tracker[a] \in Entries
    BY <1>0, KeeperAssumption DEF KeeperInv, ScanConsistent, TypeOK
  <2> QED
    BY <2>2, <2>3, <2>4, RemembersLonger
<1>7. TurnsDone' /\ TrackerBounded'
  BY <1>1, <1>2 DEF TurnsDone, TrackerBounded, Untracked
<1> QED
  BY <1>4, <1>5, <1>6, <1>7 DEF KeeperInv

\* A commit whose answer is lost leaves the tracker as it is, and no vault of
\* the new cache had its turn yet.
LEMMA ReplaceInDoubtKeeps ==
    ASSUME KeeperInv, ReplaceInDoubt
    PROVE  KeeperInv'
<1>1. /\ phase' = "idle" /\ inDoubt' = TRUE /\ visited' = {}
      /\ UNCHANGED <<now, scanNow, tracker>>
  BY DEF ReplaceInDoubt, EndScan, Commit
<1>2. TypeOK'
  <2>1. TypeOK /\ tracker' \in [Vaults -> Entries]
    BY <1>1 DEF KeeperInv, TypeOK
  <2> QED
    BY <2>1, KeeperTypeStep DEF Next
<1>3. ScanConsistent' /\ MemoryKept'
  BY <1>1 DEF KeeperInv, ScanConsistent, MemoryKept
<1>4. TurnsDone' /\ TrackerBounded'
  BY <1>1 DEF TurnsDone, TrackerBounded
<1> QED
  BY <1>2, <1>3, <1>4 DEF KeeperInv

\* A vault's turn brings its entry up to date and no other.
LEMMA RemindKeeps ==
    ASSUME KeeperInv, NEW b \in Vaults, NEW delivered \in Outcomes,
           Remind(b, delivered)
    PROVE  KeeperInv'
<1>0. /\ TypeOK
      /\ fetched[b] \in Accounts /\ tracker[b] \in Entries /\ scanNow \in Nat
  BY KeeperAssumption DEF KeeperInv, TypeOK
<1>1. /\ phase = "remind"
      /\ UNCHANGED <<phase, cache, inDoubt, fetched, scanNow, now>>
      /\ visited' = visited \cup {b}
      /\ cache = fetched /\ fetched[b].open
  BY DEF Remind, storeVars, KeeperInv, ScanConsistent
<1>2. /\ tracker'[b] = Due(tracker[b], fetched[b])
      /\ \A a \in Vaults \ {b} : tracker'[a] = tracker[a]
      /\ tracker' = [tracker EXCEPT ![b] = Due(tracker[b], fetched[b])]
  BY <1>0 DEF Remind, TypeOK
<1>3. /\ Due(tracker[b], fetched[b]) \in Entries
      /\ IF cache[b].is_claimed
         THEN tracker'[b] = Untracked
         ELSE /\ tracker'[b].tracked
              /\ tracker'[b].deadline = Deadline(cache[b])
              /\ Exact(tracker'[b], scanNow)
  BY <1>0, <1>1, <1>2, DueExact DEF KeeperInv, MemoryKept
<1>4. TypeOK'
  <2>1. tracker' \in [Vaults -> Entries]
    BY <1>0, <1>2, <1>3 DEF TypeOK
  <2> QED
    BY <1>0, <2>1, KeeperTypeStep DEF Next
<1>5. ScanConsistent'
  BY <1>1 DEF KeeperInv, ScanConsistent
<1>6. MemoryKept'
  <2>1. tracker'[b].tracked => Remembers(tracker'[b], scanNow)
    <3>1. CASE cache[b].is_claimed
      BY <1>3, <3>1 DEF Untracked
    <3>2. CASE ~cache[b].is_claimed
      BY <1>0, <1>3, <3>2 DEF Remembers
    <3> QED
      BY <3>1, <3>2
  <2> QED
    BY <1>1, <1>2, <2>1 DEF KeeperInv, MemoryKept
<1>7. TurnsDone'
  BY <1>0, <1>1, <1>2, <1>3 DEF KeeperInv, TypeOK, TurnsDone, TurnDone
<1>8. TrackerBounded'
  BY <1>1, <1>2 DEF KeeperInv, TrackerBounded
<1> QED
  BY <1>4, <1>5, <1>6, <1>7, <1>8 DEF KeeperInv

\* The invariant is kept by every step.
LEMMA KeeperInvStep ==
    ASSUME KeeperInv, [Next]_vars
    PROVE  KeeperInv'
<1>0. TypeOK /\ now \in Nat
  BY KeeperAssumption DEF KeeperInv, TypeOK
<1>1. ASSUME UNCHANGED tracker
      PROVE  TypeOK'
  BY <1>0, <1>1, KeeperTypeStep DEF TypeOK
<1>2. CASE Tick
  BY <1>0, <1>1, <1>2, QuietScan DEF Tick, scanVars, storeVars
<1>3. ASSUME NEW a \in Vaults, ChainStep(a)
      PROVE  KeeperInv'
  BY <1>0, <1>1, <1>3, QuietScan DEF ChainStep, scanVars, storeVars
<1>4. CASE Start
  <2>1. TypeOK' /\ phase = "down" /\ phase' = "idle"
        /\ UNCHANGED <<tracker, cache, inDoubt, visited, scanNow, now, fetched>>
    BY <1>1, <1>4 DEF Start, scanVars, storeVars
  <2>2. visited = {} /\ tracker = NoTrack
    BY <2>1 DEF KeeperInv, ScanConsistent
  <2>3. ScanConsistent'
    BY <2>1 DEF KeeperInv, ScanConsistent
  <2>4. MemoryKept' /\ TurnsDone' /\ TrackerBounded'
    BY <2>1, <2>2 DEF MemoryKept, TurnsDone, TrackerBounded, NoTrack, Untracked
  <2> QED
    BY <2>1, <2>3, <2>4 DEF KeeperInv
<1>5. CASE Stop
  BY <1>5, StopKeeps
<1>6. CASE Fetch
  BY <1>0, <1>1, <1>6, QuietScan DEF Fetch, storeVars
<1>7. CASE Replace
  BY <1>7, ReplaceKeeps
<1>8. CASE ReplaceFails \/ Finish
  BY <1>0, <1>1, <1>8, QuietScan DEF ReplaceFails, Finish, EndScan, storeVars
<1>9. ASSUME NEW a \in Vaults, NEW delivered \in Outcomes, Remind(a, delivered)
      PROVE  KeeperInv'
  BY <1>9, RemindKeeps
<1>10. CASE UNCHANGED vars
  BY <1>0, <1>1, <1>10, QuietScan DEF vars, scanVars, storeVars
<1>11. CASE ReplaceInDoubt
  BY <1>11, ReplaceInDoubtKeeps
<1>12. CASE CatchUp
  BY <1>0, <1>1, <1>12, QuietScan DEF CatchUp, scanVars, storeVars
<1> QED
  BY <1>2, <1>3, <1>4, <1>5, <1>6, <1>7, <1>8, <1>9, <1>10, <1>11, <1>12 DEF Next

\* The invariant holds throughout.
LEMMA KeeperInvariant == Spec => []KeeperInv
BY KeeperInvInit, KeeperInvStep, PTL DEF Spec

-----------------------------------------------------------------------------
(* What follows from it. *)

\* Everything the keeper holds stays in its type.
THEOREM KeeperTypeCorrect == Spec => []TypeOK
<1>1. KeeperInv => TypeOK
  BY DEF KeeperInv
<1> QED
  BY <1>1, KeeperInvariant, PTL

\* The tracker holds nothing about vaults that the cache does not have.
THEOREM TrackerAlwaysBounded == Spec => []TrackerBounded
<1>1. KeeperInv => TrackerBounded
  BY DEF KeeperInv
<1> QED
  BY <1>1, KeeperInvariant, PTL

\* An entry that is exact agrees with the status.
LEMMA ExactAgrees ==
    ASSUME NEW e \in Entries, NEW v \in Accounts, NEW t \in Nat,
           ~v.is_claimed, e.deadline = Deadline(v), Exact(e, t)
    PROVE  /\ e.fired # {} <=> NeedsAttention(Status(v, t))
           /\ expired \in e.fired <=> Status(v, t) = "expired"
<1> DEFINE left == TimeLeft(v, t)
<1>0. /\ left \in Int /\ e.deadline - t = left
      /\ DueSoon \in Nat
      /\ Thresholds \subseteq Nat \ {0}
  BY DueSoonWidest, ThresholdAssumption DEF TimeLeft, Deadline, Accounts
<1>1. CASE left <= 0
  <2>1. Status(v, t) = "expired"
    BY <1>0, <1>1 DEF Status
  <2>2. expired \in e.fired
    BY <1>0, <1>1 DEF Exact
  <2> QED
    BY <2>1, <2>2 DEF NeedsAttention
<1>2. CASE left > 0
  <2>1. e.fired = {d \in Thresholds : left <= d}
    BY <1>0, <1>2 DEF Exact, Reached
  <2>2. expired \notin e.fired
    BY <1>0, <2>1 DEF expired
  <2>3. CASE left <= DueSoon
    <3>1. Status(v, t) = "due_soon"
      BY <1>0, <1>2, <2>3 DEF Status
    <3>2. DueSoon \in e.fired
      BY <2>1, <2>3, DueSoonWidest
    <3> QED
      BY <2>2, <3>1, <3>2 DEF NeedsAttention
  <2>4. CASE left > DueSoon
    <3>1. Status(v, t) = "active"
      BY <1>0, <1>2, <2>4 DEF Status
    <3>2. e.fired = {}
      <4>1. ASSUME NEW d \in Thresholds, left <= d
            PROVE  FALSE
        BY <1>0, <2>4, <4>1, DueSoonWidest
      <4> QED
        BY <2>1, <4>1
    <3> QED
      BY <2>2, <3>1, <3>2 DEF NeedsAttention
  <2> QED
    BY <1>0, <2>3, <2>4
<1> QED
  BY <1>0, <1>1, <1>2

\* What the API says of a vault and what its owner was told are the same.
THEOREM StatusAlwaysAgrees == Spec => []StatusAgrees
<1>1. KeeperInv => StatusAgrees
  <2>1. SUFFICES ASSUME KeeperInv, NEW a \in visited
                 PROVE  IF cache[a].is_claimed
                        THEN tracker[a] = Untracked
                        ELSE /\ tracker[a].tracked
                             /\ tracker[a].deadline = Deadline(cache[a])
                             /\ tracker[a].fired # {}
                                   <=> NeedsAttention(Shown(a, scanNow))
                             /\ expired \in tracker[a].fired
                                   <=> Shown(a, scanNow) = "expired"
    BY DEF StatusAgrees
  <2>2. /\ cache[a] \in Accounts /\ tracker[a] \in Entries /\ scanNow \in Nat
    BY <2>1, KeeperAssumption DEF KeeperInv, TypeOK
  <2>3. TurnDone(a)
    BY <2>1 DEF KeeperInv, TurnsDone
  <2> QED
    BY <2>2, <2>3, ExactAgrees DEF TurnDone, Shown
<1> QED
  BY <1>1, KeeperInvariant, PTL

-----------------------------------------------------------------------------
(* What the API says of a vault it has not seen for a while. *)

\* The accounts the chain may hold at the time t: nobody checked in later, and
\* nobody claimed before the deadline.
Timely(v, t) ==
    v.open => /\ v.last_checkin <= t
              /\ v.is_claimed => Deadline(v) <= t

\* v, which was read when the addresses had been opened l times, shows nothing
\* that is ahead of the accounts c, of addresses opened n times.
Trails(v, l, c, n) ==
    \A a \in Vaults :
        /\ l[a] <= n[a]
        /\ l[a] = n[a] /\ v[a].open /\ c[a].open => Deadline(v[a]) <= Deadline(c[a])

CalmInv ==
    /\ TypeOK
    /\ \A a \in Vaults : Timely(chain[a], now)
    /\ Trails(view, viewLife, chain, life)
    /\ Trails(fetched, fetchedLife, chain, life)
    /\ Trails(cache, cacheLife, chain, life)

\* An instruction keeps an account timely, and never moves a deadline back.
LEMMA SuccessorsTimely ==
    ASSUME NEW v \in Accounts, NEW t \in Nat, NEW w \in Successors(v, t), Timely(v, t)
    PROVE  /\ Timely(w, t)
           /\ v.open /\ w.open => Deadline(v) <= Deadline(w)
<1>0. v.last_checkin \in Nat /\ v.timeout \in Nat
  BY DEF Accounts
<1>1. CASE w = NoAccount
  BY <1>1 DEF NoAccount, Timely
<1>2. CASE ~v.open /\ w \in Opened(t)
  BY <1>2 DEF Opened, Timely
<1>3. CASE v.open /\ w = [v EXCEPT !.last_checkin = t] /\ ~v.is_claimed
  <2>1. w.last_checkin = t /\ w.timeout = v.timeout /\ w.is_claimed = v.is_claimed
    BY <1>3 DEF Accounts
  <2> QED
    BY <1>0, <1>3, <2>1 DEF Timely, Deadline
<1>4. CASE v.open /\ w = [v EXCEPT !.is_claimed = TRUE] /\ ~(t < Deadline(v))
  <2>1. w.last_checkin = v.last_checkin /\ w.timeout = v.timeout
    BY <1>4 DEF Accounts
  <2>2. Deadline(w) = Deadline(v) /\ Deadline(v) \in Nat
    BY <1>0, <2>1 DEF Deadline
  <2>3. Deadline(v) <= t
    BY <1>4, <2>2
  <2> QED
    BY <1>4, <2>1, <2>2, <2>3 DEF Timely
<1> QED
  BY <1>1, <1>2, <1>3, <1>4 DEF Successors

\* What was read stays behind when an instruction changes the chain: within
\* one life because deadlines only move ahead, and after a new opening because
\* the life is another.
LEMMA TrailsChainStep ==
    ASSUME TypeOK, \A a \in Vaults : Timely(chain[a], now),
           NEW b \in Vaults, ChainStep(b),
           NEW v \in [Vaults -> Accounts], NEW l \in [Vaults -> 0..MAX_LIVES],
           Trails(v, l, chain, life)
    PROVE  Trails(v, l, chain', life')
<1>0. /\ now \in Nat /\ MAX_LIVES \in Nat
      /\ chain \in [Vaults -> Accounts] /\ life \in [Vaults -> 0..MAX_LIVES]
  BY KeeperAssumption DEF TypeOK
<1>1. PICK w \in Successors(chain[b], now) : chain' = [chain EXCEPT ![b] = w]
  BY DEF ChainStep
<1>2. IF chain[b].open THEN life' = life ELSE life' = [life EXCEPT ![b] = @ + 1]
  BY DEF ChainStep
<1>3. SUFFICES ASSUME NEW a \in Vaults
               PROVE  /\ l[a] <= life'[a]
                      /\ l[a] = life'[a] /\ v[a].open /\ chain'[a].open
                            => Deadline(v[a]) <= Deadline(chain'[a])
  BY DEF Trails
<1>4. /\ l[a] \in Nat /\ life[a] \in Nat /\ l[a] <= life[a]
      /\ l[a] = life[a] /\ v[a].open /\ chain[a].open
            => Deadline(v[a]) <= Deadline(chain[a])
  BY <1>0 DEF Trails
<1>5. CASE a # b
  BY <1>0, <1>1, <1>2, <1>4, <1>5
<1>6. CASE a = b /\ ~chain[b].open
  <2>1. life'[a] = life[a] + 1
    BY <1>0, <1>2, <1>6
  <2> QED
    BY <1>4, <2>1
<1>7. CASE a = b /\ chain[b].open
  <2>1. life' = life /\ chain'[a] = w /\ chain[a] \in Accounts
    BY <1>0, <1>1, <1>2, <1>7
  <2>2. w.open => Deadline(chain[a]) <= Deadline(w)
    BY <1>0, <1>1, <1>7, <2>1, SuccessorsTimely
  <2>3. /\ Deadline(v[a]) \in Nat /\ Deadline(chain[a]) \in Nat
        /\ w \in Accounts /\ Deadline(w) \in Nat
    BY <1>0, <1>1, <1>7, <2>1, SuccessorsType DEF Accounts, Deadline
  <2> QED
    BY <1>4, <1>7, <2>1, <2>2, <2>3
<1> QED
  BY <1>5, <1>6, <1>7

\* The present is not ahead of itself, and nothing at all is not either.
LEMMA TrailsAtOnce ==
    ASSUME TypeOK
    PROVE  /\ Trails(chain, life, chain, life)
           /\ Trails(Nothing, NoLives, chain, life)
<1>1. /\ chain \in [Vaults -> Accounts] /\ life \in [Vaults -> 0..MAX_LIVES]
      /\ MAX_LIVES \in Nat
  BY KeeperAssumption DEF TypeOK
<1>2. ASSUME NEW a \in Vaults
      PROVE  life[a] \in Nat /\ Deadline(chain[a]) \in Nat
  BY <1>1 DEF Accounts, Deadline
<1> QED
  BY <1>2 DEF Trails, Nothing, NoAccount, NoLives

\* At the start there is nothing.
LEMMA CalmInvInit ==
    ASSUME Init
    PROVE  CalmInv
<1>1. TypeOK
  BY KeeperTypeInit
<1>2. /\ chain = Nothing /\ view = Nothing /\ fetched = Nothing /\ cache = Nothing
      /\ life = NoLives /\ viewLife = NoLives /\ fetchedLife = NoLives
      /\ cacheLife = NoLives
  BY DEF Init
<1>3. \A a \in Vaults : Timely(chain[a], now)
  BY <1>2 DEF Nothing, NoAccount, Timely
<1> QED
  BY <1>1, <1>2, <1>3, TrailsAtOnce DEF CalmInv

\* Every copy of the chain is the one before, that of another place, the
\* chain itself, or nothing.
LEMMA CopiesTrail ==
    ASSUME CalmInv, [Next]_vars, UNCHANGED chainVars
    PROVE  /\ Trails(view', viewLife', chain, life)
           /\ Trails(fetched', fetchedLife', chain, life)
           /\ Trails(cache', cacheLife', chain, life)
<1>1. /\ Trails(view, viewLife, chain, life)
      /\ Trails(fetched, fetchedLife, chain, life)
      /\ Trails(cache, cacheLife, chain, life)
      /\ Trails(chain, life, chain, life)
      /\ Trails(Nothing, NoLives, chain, life)
  BY TrailsAtOnce DEF CalmInv
<1>2. CASE UNCHANGED <<nodeVars, fetched, fetchedLife, cache, cacheLife>>
  BY <1>1, <1>2 DEF nodeVars
<1>3. CASE CatchUp
  BY <1>1, <1>3 DEF CatchUp, scanVars, storeVars
<1>4. CASE Stop
  <2>1. /\ UNCHANGED nodeVars /\ fetched' = Nothing /\ fetchedLife' = NoLives
        /\ \/ UNCHANGED <<cache, cacheLife>>
           \/ cache' = Nothing /\ cacheLife' = NoLives
    BY <1>4 DEF Stop
  <2> QED
    BY <1>1, <2>1 DEF nodeVars
<1>5. CASE Fetch
  <2>1. PICK s \in Served : fetched' = s.accounts /\ fetchedLife' = s.life
    BY <1>5 DEF Fetch
  <2>2. \/ s.accounts = chain /\ s.life = life
        \/ s.accounts = view /\ s.life = viewLife
    BY DEF Served
  <2> QED
    BY <1>1, <1>5, <2>1, <2>2 DEF Fetch, nodeVars, storeVars
<1>6. CASE Replace \/ ReplaceInDoubt
  <2>1. /\ UNCHANGED nodeVars /\ cache' = fetched /\ cacheLife' = fetchedLife
        /\ \/ UNCHANGED <<fetched, fetchedLife>>
           \/ fetched' = Nothing /\ fetchedLife' = NoLives
    BY <1>6 DEF Replace, ReplaceInDoubt, Commit, EndScan
  <2> QED
    BY <1>1, <2>1 DEF nodeVars
<1>7. CASE ReplaceFails \/ Finish
  BY <1>1, <1>7 DEF ReplaceFails, Finish, EndScan, nodeVars, storeVars
<1>8. CASE Tick \/ Start
  BY <1>2, <1>8 DEF Tick, Start, scanVars, storeVars
<1>9. ASSUME NEW a \in Vaults, ChainStep(a)
      PROVE  UNCHANGED <<nodeVars, fetched, fetchedLife, cache, cacheLife>>
  BY <1>9 DEF ChainStep, scanVars, storeVars
<1>10. ASSUME NEW a \in Vaults, NEW delivered \in Outcomes, Remind(a, delivered)
       PROVE  UNCHANGED <<nodeVars, fetched, fetchedLife, cache, cacheLife>>
  BY <1>10 DEF Remind, storeVars
<1>11. CASE UNCHANGED vars
  BY <1>2, <1>11 DEF vars, scanVars, storeVars
<1> QED
  BY <1>2, <1>3, <1>4, <1>5, <1>6, <1>7, <1>8, <1>9, <1>10, <1>11 DEF Next

\* Every step keeps what is known behind what is.
LEMMA CalmInvStep ==
    ASSUME CalmInv, TypeOK', [Next]_vars
    PROVE  CalmInv'
<1>0. /\ TypeOK /\ \A a \in Vaults : Timely(chain[a], now)
      /\ now \in Nat /\ now' \in Nat /\ chain \in [Vaults -> Accounts]
  BY KeeperAssumption DEF CalmInv, TypeOK
<1>1. ASSUME UNCHANGED chainVars, now <= now'
      PROVE  CalmInv'
  <2>1. chain' = chain /\ life' = life
    BY <1>1 DEF chainVars
  <2>2. ASSUME NEW a \in Vaults
        PROVE  Timely(chain[a], now')
    <3>1. chain[a].last_checkin \in Nat /\ Deadline(chain[a]) \in Nat
      BY <1>0 DEF Accounts, Deadline
    <3> QED
      BY <1>0, <1>1, <3>1 DEF Timely
  <2>3. /\ Trails(view', viewLife', chain', life')
        /\ Trails(fetched', fetchedLife', chain', life')
        /\ Trails(cache', cacheLife', chain', life')
    BY <1>1, <2>1, CopiesTrail
  <2> QED
    BY <2>1, <2>2, <2>3 DEF CalmInv
<1>2. ASSUME NEW a \in Vaults, ChainStep(a)
      PROVE  CalmInv'
  <2>1. /\ UNCHANGED <<view, viewLife, fetched, fetchedLife, cache, cacheLife>>
        /\ now' = now
    BY <1>2 DEF ChainStep, nodeVars, scanVars, storeVars
  <2>2. /\ Trails(view, viewLife, chain', life')
        /\ Trails(fetched, fetchedLife, chain', life')
        /\ Trails(cache, cacheLife, chain', life')
    <3>1. /\ view \in [Vaults -> Accounts] /\ viewLife \in [Vaults -> 0..MAX_LIVES]
          /\ fetched \in [Vaults -> Accounts]
          /\ fetchedLife \in [Vaults -> 0..MAX_LIVES]
          /\ cache \in [Vaults -> Accounts] /\ cacheLife \in [Vaults -> 0..MAX_LIVES]
      BY <1>0 DEF TypeOK
    <3> QED
      BY <1>0, <1>2, <3>1, TrailsChainStep DEF CalmInv
  <2>3. PICK w \in Successors(chain[a], now) : chain' = [chain EXCEPT ![a] = w]
    BY <1>2 DEF ChainStep
  <2>4. Timely(w, now)
    BY <1>0, <2>3, SuccessorsTimely
  <2>5. \A b \in Vaults : Timely(chain'[b], now')
    BY <1>0, <2>1, <2>3, <2>4
  <2> QED
    BY <2>1, <2>2, <2>5 DEF CalmInv
<1>3. ASSUME NEW a \in Vaults, NEW delivered \in Outcomes, Remind(a, delivered)
      PROVE  CalmInv'
  BY <1>0, <1>1, <1>3 DEF Remind
<1>4. CASE Tick
  BY <1>0, <1>1, <1>4 DEF Tick
<1>5. CASE CatchUp \/ Start \/ Stop \/ Fetch
  BY <1>0, <1>1, <1>5 DEF CatchUp, Start, Stop, Fetch
<1>6. CASE Replace \/ ReplaceFails \/ ReplaceInDoubt \/ Finish
  BY <1>0, <1>1, <1>6 DEF Replace, ReplaceFails, ReplaceInDoubt, Finish
<1>7. CASE UNCHANGED vars
  BY <1>0, <1>1, <1>7 DEF vars
<1> QED
  BY <1>2, <1>3, <1>4, <1>5, <1>6, <1>7 DEF Next

\* However old the cache is, and whichever node it was read from, the API
\* calls no vault calm that is not.
THEOREM NeverFalseCalm == Spec => []NoFalseCalm
<1>1. CalmInv => NoFalseCalm
  <2>1. SUFFICES ASSUME CalmInv, NEW a \in Vaults,
                        cache[a].open, chain[a].open, cacheLife[a] = life[a],
                        Shown(a, now) \in {"active", "due_soon"}
                 PROVE  ~chain[a].is_claimed /\ now < Deadline(chain[a])
    BY DEF NoFalseCalm
  <2>2. /\ cache[a] \in Accounts /\ chain[a] \in Accounts /\ now \in Nat
        /\ DueSoon \in Nat
    BY <2>1, KeeperAssumption, DueSoonWidest, ThresholdAssumption DEF CalmInv, TypeOK
  <2>3. /\ Deadline(cache[a]) \in Nat /\ Deadline(chain[a]) \in Nat
        /\ cache[a].is_claimed \in BOOLEAN
    BY <2>2 DEF Accounts, Deadline
  <2>4. now < Deadline(cache[a])
    <3>1. ASSUME cache[a].is_claimed
          PROVE  Shown(a, now) = "triggered"
      BY <3>1 DEF Shown, Status
    <3>2. ASSUME ~cache[a].is_claimed, TimeLeft(cache[a], now) <= 0
          PROVE  Shown(a, now) = "expired"
      BY <2>2, <2>3, <3>2 DEF Shown, Status, TimeLeft
    <3>3. TimeLeft(cache[a], now) > 0
      BY <2>1, <2>2, <2>3, <3>1, <3>2 DEF TimeLeft
    <3> QED
      BY <2>2, <2>3, <3>3 DEF TimeLeft
  <2>5. Deadline(cache[a]) <= Deadline(chain[a])
    BY <2>1 DEF CalmInv, Trails
  <2>6. chain[a].is_claimed => Deadline(chain[a]) <= now
    BY <2>1 DEF CalmInv, Timely
  <2> QED
    BY <2>2, <2>3, <2>4, <2>5, <2>6
<1>2. CalmInv /\ KeeperInv' /\ [Next]_vars => CalmInv'
  BY CalmInvStep DEF KeeperInv
<1> QED
  BY <1>1, <1>2, CalmInvInit, KeeperInvariant, PTL DEF Spec

-----------------------------------------------------------------------------
(* That reminders only get more urgent, when one node answers the keeper.  *)
(*                                                                         *)
(* A reminder that was given of a deadline is either still held against    *)
(* the vault by the tracker, or spent: the vault as the keeper will read   *)
(* it next has left that deadline behind, and never comes back to it.      *)

-----------------------------------------------------------------------------
(* One address, and what was told about it. *)

\* The account c, of an address opened n times, is v, of one opened l times, or
\* what v may have become.
Follows(v, l, c, n) ==
    /\ l <= n
    /\ l = n /\ c.open => /\ v.open
                          /\ v.is_claimed => c.is_claimed
                          /\ Deadline(v) <= Deadline(c)

\* The reminder r is of the account x, opened l times, or of an earlier one.
Known(r, x, l) ==
    /\ r.life <= l
    /\ r.life = l /\ x.open => r.deadline <= Deadline(x)

\* Nothing that x may become is reminded of the deadline of r again.
Spent(r, x, l) == r.life = l /\ x.open => x.is_claimed \/ r.deadline < Deadline(x)

\* The tracker's entry e stands between the owner and the same reminder.
Held(r, e) == e.tracked /\ e.deadline = r.deadline /\ r.threshold \in e.fired

\* What is known at the time t of a reminder that was given.
Told(r, e, x, l, t) ==
    /\ Known(r, x, l)
    /\ r.deadline - t <= r.threshold
    /\ Held(r, e) \/ Spent(r, x, l)

\* The reminders q of one address are in order.
Rising(q) ==
    \A j \in 1..Len(q) : \A i \in 1..(j - 1) :
        q[i].life = q[j].life /\ q[i].deadline = q[j].deadline
            => q[j].threshold < q[i].threshold

AllTold(q, e, x, l, t) == \A i \in 1..Len(q) : Told(q[i], e, x, l, t)

Lives == 0..MAX_LIVES

\* The fields of a reminder and of an account are numbers.
LEMMA ReminderNumbers ==
    ASSUME NEW r \in Reminders
    PROVE  /\ r.life \in Nat /\ r.deadline \in Nat /\ r.threshold \in Nat
           /\ r.threshold \in Thresholds \cup {expired}
<1>1. Thresholds \cup {expired} \subseteq Nat /\ MAX_LIVES \in Nat
  BY ThresholdAssumption, KeeperAssumption DEF expired
<1> QED
  BY <1>1 DEF Reminders

\* Deadlines are numbers.
LEMMA DeadlineNumber == \A v \in Accounts : Deadline(v) \in Nat
BY DEF Accounts, Deadline

\* An instruction follows what it finds.
LEMMA SuccessorFollows ==
    ASSUME NEW v \in Accounts, NEW t \in Nat, Timely(v, t),
           NEW w \in Successors(v, t), NEW l \in Nat
    PROVE  Follows(v, l, w, IF v.open THEN l ELSE l + 1)
<1>0. Deadline(v) \in Nat
  BY DeadlineNumber
<1>1. CASE ~v.open
  BY <1>1 DEF Follows
<1>2. CASE v.open
  <2>1. w.open => Deadline(v) <= Deadline(w)
    BY <1>2, SuccessorsTimely
  <2>2. w.open /\ v.is_claimed => w.is_claimed
    <3>1. SUFFICES ASSUME w.open, v.is_claimed
                   PROVE  w.is_claimed
      OBVIOUS
    <3>2. w = [v EXCEPT !.is_claimed = TRUE]
      BY <1>2, <3>1 DEF Successors, NoAccount
    <3> QED
      BY <3>2 DEF Accounts
  <2> QED
    BY <1>2, <2>1, <2>2 DEF Follows
<1> QED
  BY <1>1, <1>2

\* What is known of a reminder stays true of what follows, and later.
LEMMA ToldLater ==
    ASSUME NEW r \in Reminders, NEW e, NEW x \in Accounts, NEW y \in Accounts,
           NEW l \in Nat, NEW n \in Nat, NEW t \in Int, NEW u \in Int,
           Told(r, e, x, l, t), Follows(x, l, y, n), t <= u
    PROVE  Told(r, e, y, n, u)
<1>0. /\ r.life \in Nat /\ r.deadline \in Nat /\ r.threshold \in Nat
      /\ Deadline(x) \in Nat /\ Deadline(y) \in Nat
  BY ReminderNumbers, DeadlineNumber
<1>1. Known(r, y, n)
  BY <1>0 DEF Told, Known, Follows
<1>2. r.deadline - u <= r.threshold
  BY <1>0 DEF Told
<1>3. Spent(r, x, l) => Spent(r, y, n)
  BY <1>0 DEF Told, Known, Spent, Follows
<1> QED
  BY <1>1, <1>2, <1>3 DEF Told

\* Where nothing is at the address, the entry may go.
LEMMA ToldForgotten ==
    ASSUME NEW r, NEW e, NEW x, NEW l, NEW t, Told(r, e, x, l, t), ~x.open
    PROVE  Told(r, Untracked, x, l, t)
BY DEF Told, Spent

-----------------------------------------------------------------------------
(* A turn in the loop. *)

\* A turn keeps what an entry holds of the same deadline.
LEMMA DueHolds ==
    ASSUME NEW e \in Entries, NEW x \in Accounts, scanNow \in Nat,
           ~x.is_claimed, e.tracked, e.deadline = Deadline(x)
    PROVE  /\ Due(e, x).tracked /\ Due(e, x).deadline = Deadline(x)
           /\ e.fired \subseteq Due(e, x).fired
<1> DEFINE left == TimeLeft(x, scanNow)
<1>1. Recall(e, x) = e
  BY DEF Recall
<1>2. Due(e, x) = Fire(e, left)
  BY <1>1 DEF Due
<1>3. left \in Int
  BY DeadlineNumber DEF TimeLeft
<1> HIDE DEF left
<1>4. Due(e, x).tracked /\ Due(e, x).deadline = Deadline(x)
  BY <1>2, <1>3, FireKeeps
<1>5. e.fired \subseteq Fire(e, left).fired
  <2>1. CASE News(e, left) = {}
    BY <2>1 DEF Fire
  <2>2. CASE News(e, left) # {}
    BY <2>2 DEF Fire, Entries
  <2> QED
    BY <2>1, <2>2
<1> QED
  BY <1>2, <1>4, <1>5

\* So each reminder of before is still held, or is spent: by the claim, or by
\* the deadline that moved.
LEMMA ToldThroughDue ==
    ASSUME NEW r \in Reminders, NEW e \in Entries, NEW x \in Accounts, NEW l \in Nat,
           scanNow \in Nat, Told(r, e, x, l, scanNow)
    PROVE  Told(r, Due(e, x), x, l, scanNow)
<1>0. r.life \in Nat /\ r.deadline \in Nat /\ Deadline(x) \in Nat
  BY ReminderNumbers, DeadlineNumber
<1>1. CASE Spent(r, x, l)
  BY <1>1 DEF Told
<1>2. CASE Held(r, e) /\ ~Spent(r, x, l)
  <2>1. /\ r.life = l /\ x.open /\ ~x.is_claimed
        /\ e.deadline = Deadline(x)
    BY <1>0, <1>2 DEF Told, Held, Known, Spent
  <2>2. Held(r, Due(e, x))
    BY <1>2, <2>1, DueHolds DEF Held
  <2> QED
    BY <2>2 DEF Told
<1> QED
  BY <1>1, <1>2 DEF Told

\* The reminder of a turn: it is held by the entry that the turn leaves, and is
\* more urgent than all that were given of the same deadline.
LEMMA NewsIsUrgent ==
    ASSUME NEW e \in Entries, NEW x \in Accounts, NEW l \in Nat, scanNow \in Nat,
           x.open, NEW d \in DueNews(e, x),
           NEW s \in Reminders, s.life = l, s.deadline = Deadline(x), s.threshold = d
    PROVE  /\ Told(s, Due(e, x), x, l, scanNow)
           /\ \A r \in Reminders :
                Told(r, e, x, l, scanNow) /\ r.life = s.life /\ r.deadline = s.deadline
                    => d < r.threshold
<1> DEFINE left == TimeLeft(x, scanNow)
           h == Recall(e, x)
<1>0. /\ Deadline(x) \in Nat /\ left = Deadline(x) - scanNow /\ left \in Int
      /\ Thresholds \subseteq Nat \ {0}
  BY DeadlineNumber, ThresholdAssumption DEF TimeLeft
<1>1. ~x.is_claimed /\ d \in News(h, left)
  BY DEF DueNews
<1>2. Due(e, x) = Fire(h, left)
  BY <1>1 DEF Due
<1>3. h \in Entries /\ h.tracked /\ h.deadline = Deadline(x)
  <2>1. CASE e.tracked /\ e.deadline = Deadline(x)
    BY <2>1 DEF Recall
  <2>2. CASE ~(e.tracked /\ e.deadline = Deadline(x))
    BY <1>0, <2>2 DEF Recall, Armed, Entries
  <2> QED
    BY <2>1, <2>2
<1> HIDE DEF left, h
<1>4. d \in Reached(left) /\ d \notin h.fired /\ \A c \in Reached(left) : d <= c
  BY <1>1 DEF News
<1>5. d \in Nat /\ left <= d
  BY <1>0, <1>4 DEF Reached, expired
<1>6. Told(s, Due(e, x), x, l, scanNow)
  <2>1. Fire(h, left) = [h EXCEPT !.fired = h.fired \cup Reached(left)]
    BY <1>1 DEF Fire
  <2>2. d \in Fire(h, left).fired
    BY <1>3, <1>4, <2>1 DEF Entries
  <2>3. Fire(h, left).tracked /\ Fire(h, left).deadline = Deadline(x)
    BY <1>0, <1>3, FireKeeps
  <2>4. Held(s, Due(e, x))
    BY <1>2, <2>2, <2>3 DEF Held
  <2>5. Known(s, x, l) /\ s.deadline - scanNow <= s.threshold
    BY <1>0, <1>5 DEF Known
  <2> QED
    BY <2>4, <2>5 DEF Told
<1>7. ASSUME NEW r \in Reminders, Told(r, e, x, l, scanNow),
             r.life = s.life, r.deadline = s.deadline
      PROVE  d < r.threshold
  <2>0. /\ r.threshold \in Nat /\ r.threshold \in Thresholds \cup {expired}
        /\ r.deadline - scanNow <= r.threshold
    BY <1>7, ReminderNumbers DEF Told
  <2>1. Held(r, e)
    BY <1>0, <1>1, <1>7 DEF Told, Spent
  <2>2. h = e
    BY <1>7, <2>1 DEF Held, Recall, h
  <2>3. r.threshold # d
    BY <1>4, <2>1, <2>2 DEF Held
  <2>4. left <= r.threshold
    BY <1>0, <1>7, <2>0
  <2>5. CASE left <= 0
    BY <1>4, <2>0, <2>3, <2>5 DEF Reached, expired
  <2>6. CASE left > 0
    <3>1. r.threshold \in Reached(left)
      BY <1>0, <2>0, <2>4, <2>6 DEF Reached, expired
    <3> QED
      BY <1>4, <1>5, <2>0, <2>3, <3>1
  <2> QED
    BY <1>0, <2>5, <2>6
<1> QED
  BY <1>6, <1>7

-----------------------------------------------------------------------------
(* The process. *)

Scanning == phase \in {"fetched", "remind"}

\* The account that the next reminder will be of, if nothing happens to it
\* before: what the scan has read while there is one, and then the chain.
Base(a)     == IF Scanning THEN fetched[a] ELSE chain[a]
BaseLife(a) == IF Scanning THEN fetchedLife[a] ELSE life[a]

\* What was said about a, as of the account x of an address opened l times.
Said(a, x, l) == AllTold(sent[a], tracker[a], x, l, scanNow) /\ Rising(sent[a])

SaidInv ==
    \A a \in Vaults :
        /\ Scanning => Follows(fetched[a], fetchedLife[a], chain[a], life[a])
        /\ Said(a, Base(a), BaseLife(a))

\* KeeperInv and CalmInv are needed of the state before the step only for the
\* types, the clock and the accounts on the chain.
EscalateInv == KeeperInv /\ CalmInv /\ SaidInv

\* What the steps need to know of the types.
LEMMA SaidTypes ==
    ASSUME TypeOK, NEW a \in Vaults
    PROVE  /\ chain[a] \in Accounts /\ fetched[a] \in Accounts
           /\ life[a] \in Nat /\ fetchedLife[a] \in Nat
           /\ tracker[a] \in Entries /\ sent[a] \in Seq(Reminders)
           /\ now \in Nat /\ scanNow \in Nat
           /\ Base(a) \in Accounts /\ BaseLife(a) \in Nat
<1>1. /\ chain[a] \in Accounts /\ fetched[a] \in Accounts
      /\ life[a] \in Nat /\ fetchedLife[a] \in Nat
      /\ tracker[a] \in Entries /\ sent[a] \in Seq(Reminders)
      /\ now \in Nat /\ scanNow \in Nat
  BY KeeperAssumption DEF TypeOK
<1> QED
  BY <1>1 DEF Base, BaseLife

\* A snapshot follows itself.
LEMMA FollowsItself ==
    ASSUME NEW v \in Accounts, NEW l \in Nat
    PROVE  Follows(v, l, v, l)
BY DeadlineNumber DEF Follows

\* What was said stays right when the account moves on and time passes.
LEMMA SaidLater ==
    ASSUME NEW q \in Seq(Reminders), NEW e, NEW x \in Accounts, NEW y \in Accounts,
           NEW l \in Nat, NEW n \in Nat, NEW t \in Int, NEW u \in Int,
           AllTold(q, e, x, l, t), Follows(x, l, y, n), t <= u
    PROVE  AllTold(q, e, y, n, u)
<1>1. SUFFICES ASSUME NEW i \in 1..Len(q)
               PROVE  Told(q[i], e, y, n, u)
  BY DEF AllTold
<1>2. q[i] \in Reminders /\ Told(q[i], e, x, l, t)
  BY DEF AllTold
<1> QED
  BY <1>2, ToldLater

\* A step that says nothing and lets the tracker and the loop's clock be: what
\* it may do to a is to let its account move on.
LEMMA QuietSaid ==
    ASSUME TypeOK, TypeOK', UNCHANGED <<sent, tracker, scanNow>>,
           NEW a \in Vaults, Said(a, Base(a), BaseLife(a)),
           Follows(Base(a), BaseLife(a), Base(a)', BaseLife(a)')
    PROVE  Said(a, Base(a), BaseLife(a))'
<1>1. /\ Base(a) \in Accounts /\ BaseLife(a) \in Nat
      /\ sent[a] \in Seq(Reminders) /\ scanNow \in Int
  BY SaidTypes
<1>2. Base(a)' \in Accounts /\ BaseLife(a)' \in Nat
  <2>1. /\ chain'[a] \in Accounts /\ fetched'[a] \in Accounts
        /\ life'[a] \in Nat /\ fetchedLife'[a] \in Nat
    BY KeeperAssumption DEF TypeOK
  <2> QED
    BY <2>1 DEF Base, BaseLife, Scanning
<1>3. AllTold(sent[a], tracker[a], Base(a)', BaseLife(a)', scanNow)
  BY <1>1, <1>2, SaidLater DEF Said
<1> QED
  BY <1>3 DEF Said

\* Of what follows something that follows v, v knows as much.
LEMMA FollowsOn ==
    ASSUME NEW v \in Accounts, NEW w \in Accounts, NEW c \in Accounts,
           NEW l \in Nat, NEW m \in Nat, NEW n \in Nat,
           Follows(v, l, w, m), Follows(w, m, c, n)
    PROVE  Follows(v, l, c, n)
<1>1. Deadline(v) \in Nat /\ Deadline(w) \in Nat /\ Deadline(c) \in Nat
  BY DeadlineNumber
<1> QED
  BY <1>1 DEF Follows

\* Where nothing was said, there is nothing to be wrong about.
LEMMA NothingSaid ==
    ASSUME NEW a, NEW x, NEW l, sent[a] = << >>
    PROVE  Said(a, x, l)
BY DEF Said, AllTold, Rising

\* A process that has just been started, or that has ended, said nothing.
LEMMA SaidFresh ==
    ASSUME sent = NoneSent, ~Scanning
    PROVE  SaidInv
BY NothingSaid DEF NoneSent, SaidInv

\* The scan begins with what the one node shows.
LEMMA FetchSaid ==
    ASSUME ~Lagging, EscalateInv, TypeOK', Fetch
    PROVE  SaidInv'
<1>1. /\ ~Scanning /\ Scanning'
      /\ UNCHANGED <<sent, tracker, scanNow, chain, life>>
  BY DEF Fetch, Scanning, chainVars
<1>2. fetched' = chain /\ fetchedLife' = life
  BY DEF Fetch, Served
<1>3. ASSUME NEW a \in Vaults
      PROVE  /\ Follows(fetched[a], fetchedLife[a], chain[a], life[a])'
             /\ Said(a, Base(a), BaseLife(a))'
  <2>1. TypeOK /\ Said(a, Base(a), BaseLife(a))
    BY DEF EscalateInv, KeeperInv, SaidInv
  <2>2. chain[a] \in Accounts /\ life[a] \in Nat
    BY <2>1, SaidTypes
  <2>3. Follows(chain[a], life[a], chain[a], life[a])
    BY <2>2, FollowsItself
  <2>4. /\ Base(a) = chain[a] /\ BaseLife(a) = life[a]
        /\ Base(a)' = chain[a] /\ BaseLife(a)' = life[a]
    BY <1>1, <1>2 DEF Base, BaseLife
  <2>5. Follows(Base(a), BaseLife(a), Base(a)', BaseLife(a)')
    BY <2>3, <2>4
  <2> QED
    BY <1>1, <1>2, <2>1, <2>3, <2>5, QuietSaid
<1> QED
  BY <1>3 DEF SaidInv

\* A scan that ends, or is given up, leaves what was read behind the chain.
LEMMA EndSaid ==
    ASSUME EscalateInv, TypeOK', Scanning, ~Scanning',
           UNCHANGED <<sent, tracker, scanNow, chain, life>>
    PROVE  SaidInv'
<1>1. SUFFICES ASSUME NEW a \in Vaults
               PROVE  Said(a, Base(a), BaseLife(a))'
  BY DEF SaidInv
<1>2. /\ TypeOK /\ Said(a, Base(a), BaseLife(a))
      /\ Follows(fetched[a], fetchedLife[a], chain[a], life[a])
  BY DEF EscalateInv, KeeperInv, SaidInv
<1>3. Follows(Base(a), BaseLife(a), Base(a)', BaseLife(a)')
  BY <1>2 DEF Base, BaseLife
<1> QED
  BY <1>2, <1>3, QuietSaid

\* A step that changes neither the chain nor what was read.
LEMMA StillSaid ==
    ASSUME EscalateInv, TypeOK',
           UNCHANGED <<sent, tracker, scanNow, chain, life, fetched, fetchedLife>>,
           Scanning <=> Scanning'
    PROVE  SaidInv'
<1>1. SUFFICES ASSUME NEW a \in Vaults
               PROVE  /\ Scanning' => Follows(fetched[a], fetchedLife[a], chain[a], life[a])'
                      /\ Said(a, Base(a), BaseLife(a))'
  BY DEF SaidInv
<1>2. /\ TypeOK /\ Said(a, Base(a), BaseLife(a))
      /\ Scanning => Follows(fetched[a], fetchedLife[a], chain[a], life[a])
  BY DEF EscalateInv, KeeperInv, SaidInv
<1>3. Follows(Base(a), BaseLife(a), Base(a)', BaseLife(a)')
  <2>1. Base(a)' = Base(a) /\ BaseLife(a)' = BaseLife(a)
    BY DEF Base, BaseLife
  <2> QED
    BY <1>2, <2>1, SaidTypes, FollowsItself
<1> QED
  BY <1>2, <1>3, QuietSaid

\* An instruction moves the chain on, and what was read stays.
LEMMA ChainSaid ==
    ASSUME EscalateInv, TypeOK', NEW b \in Vaults, ChainStep(b)
    PROVE  SaidInv'
<1>0. TypeOK /\ chain \in [Vaults -> Accounts] /\ life \in [Vaults -> Lives]
  BY DEF EscalateInv, KeeperInv, TypeOK, Lives
<1>1. PICK w \in Successors(chain[b], now) : chain' = [chain EXCEPT ![b] = w]
  BY DEF ChainStep
<1>2. /\ IF chain[b].open THEN life' = life ELSE life' = [life EXCEPT ![b] = @ + 1]
      /\ UNCHANGED <<sent, tracker, scanNow, phase, fetched, fetchedLife>>
  BY DEF ChainStep, scanVars
<1>3. SUFFICES ASSUME NEW a \in Vaults
               PROVE  /\ Scanning' => Follows(fetched[a], fetchedLife[a], chain[a], life[a])'
                      /\ Said(a, Base(a), BaseLife(a))'
  BY DEF SaidInv
<1>4. /\ Said(a, Base(a), BaseLife(a))
      /\ Scanning => Follows(fetched[a], fetchedLife[a], chain[a], life[a])
      /\ Timely(chain[a], now)
  BY DEF EscalateInv, CalmInv, SaidInv
<1>5. /\ chain[a] \in Accounts /\ life[a] \in Nat /\ now \in Nat
      /\ fetched[a] \in Accounts /\ fetchedLife[a] \in Nat
      /\ chain'[a] \in Accounts /\ life'[a] \in Nat
  BY <1>0, SaidTypes, KeeperAssumption DEF TypeOK
<1>6. Follows(chain[a], life[a], chain'[a], life'[a])
  <2>1. CASE a = b
    <3>1. chain'[a] = w /\ life'[a] = IF chain[a].open THEN life[a] ELSE life[a] + 1
      BY <1>0, <1>1, <1>2, <2>1
    <3> QED
      BY <1>1, <1>4, <1>5, <2>1, <3>1, SuccessorFollows
  <2>2. CASE a # b
    <3>1. chain'[a] = chain[a] /\ life'[a] = life[a]
      BY <1>0, <1>1, <1>2, <2>2
    <3> QED
      BY <1>5, <3>1, FollowsItself
  <2> QED
    BY <2>1, <2>2
<1>7. Scanning' <=> Scanning
  BY <1>2 DEF Scanning
<1>8. Scanning => Follows(fetched[a], fetchedLife[a], chain'[a], life'[a])
  BY <1>4, <1>5, <1>6, FollowsOn
<1>9. Follows(Base(a), BaseLife(a), Base(a)', BaseLife(a)')
  <2>1. CASE Scanning
    <3>1. /\ Base(a) = fetched[a] /\ BaseLife(a) = fetchedLife[a]
          /\ Base(a)' = fetched[a] /\ BaseLife(a)' = fetchedLife[a]
      BY <1>2, <1>7, <2>1 DEF Base, BaseLife
    <3> QED
      BY <1>5, <3>1, FollowsItself
  <2>2. CASE ~Scanning
    BY <1>6, <1>7, <2>2 DEF Base, BaseLife
  <2> QED
    BY <2>1, <2>2
<1> QED
  BY <1>0, <1>2, <1>4, <1>7, <1>8, <1>9, QuietSaid

\* The tracker forgets the addresses at which the scan has found nothing, and
\* the loop takes the time.
LEMMA ReplaceSaid ==
    ASSUME EscalateInv, Replace
    PROVE  SaidInv'
<1>1. /\ Scanning /\ Scanning' /\ scanNow' = now
      /\ UNCHANGED <<sent, chain, life, fetched, fetchedLife>>
  BY DEF Replace, Scanning, chainVars
<1>2. SUFFICES ASSUME NEW a \in Vaults
               PROVE  /\ Follows(fetched[a], fetchedLife[a], chain[a], life[a])'
                      /\ Said(a, Base(a), BaseLife(a))'
  BY DEF SaidInv
<1>3. /\ TypeOK /\ scanNow <= now
      /\ Follows(fetched[a], fetchedLife[a], chain[a], life[a])
      /\ Said(a, fetched[a], fetchedLife[a])
  BY <1>1 DEF EscalateInv, KeeperInv, ScanConsistent, SaidInv, Base, BaseLife
<1>4. tracker'[a] = IF fetched[a].open THEN tracker[a] ELSE Untracked
  BY DEF Replace, Forget
<1>5. /\ fetched[a] \in Accounts /\ fetchedLife[a] \in Nat
      /\ sent[a] \in Seq(Reminders) /\ scanNow \in Int /\ now \in Int
  BY <1>3, SaidTypes
<1>6. AllTold(sent[a], tracker[a], fetched[a], fetchedLife[a], now)
  BY <1>3, <1>5, FollowsItself, SaidLater DEF Said
<1>7. AllTold(sent[a], tracker'[a], fetched[a], fetchedLife[a], now)
  <2>1. CASE fetched[a].open
    BY <1>4, <1>6, <2>1
  <2>2. CASE ~fetched[a].open
    BY <1>4, <1>6, <2>2, ToldForgotten DEF AllTold
  <2> QED
    BY <2>1, <2>2
<1>8. Said(a, Base(a), BaseLife(a))'
  BY <1>1, <1>3, <1>7 DEF Said, Base, BaseLife
<1> QED
  BY <1>1, <1>3, <1>8

\* One more reminder, that every other one is more urgent than, keeps the order.
LEMMA RisingAppend ==
    ASSUME NEW q \in Seq(Reminders), NEW s \in Reminders, Rising(q),
           \A i \in 1..Len(q) : q[i].life = s.life /\ q[i].deadline = s.deadline
                                    => s.threshold < q[i].threshold
    PROVE  Rising(Append(q, s))
<1>1. /\ Len(Append(q, s)) = Len(q) + 1 /\ Len(q) \in Nat
      /\ Append(q, s)[Len(q) + 1] = s
      /\ \A i \in 1..Len(q) : Append(q, s)[i] = q[i]
  OBVIOUS
<1>2. SUFFICES ASSUME NEW j \in 1..(Len(q) + 1), NEW i \in 1..(j - 1)
               PROVE  LET p == Append(q, s)
                      IN  p[i].life = p[j].life /\ p[i].deadline = p[j].deadline
                            => p[j].threshold < p[i].threshold
  BY <1>1 DEF Rising
<1>3. i \in 1..Len(q) /\ Append(q, s)[i] = q[i]
  BY <1>1
<1>4. CASE j = Len(q) + 1
  BY <1>1, <1>3, <1>4
<1>5. CASE j # Len(q) + 1
  <2>1. j \in 1..Len(q) /\ Append(q, s)[j] = q[j]
    BY <1>1, <1>5
  <2> QED
    BY <1>3, <2>1 DEF Rising
<1> QED
  BY <1>4, <1>5

\* And adds one to what is told.
LEMMA AllToldAppend ==
    ASSUME NEW q \in Seq(Reminders), NEW s \in Reminders, NEW e, NEW x, NEW l, NEW t,
           AllTold(q, e, x, l, t), Told(s, e, x, l, t)
    PROVE  AllTold(Append(q, s), e, x, l, t)
<1>1. /\ Len(Append(q, s)) = Len(q) + 1 /\ Len(q) \in Nat
      /\ Append(q, s)[Len(q) + 1] = s
      /\ \A i \in 1..Len(q) : Append(q, s)[i] = q[i]
  OBVIOUS
<1>2. SUFFICES ASSUME NEW i \in 1..(Len(q) + 1)
               PROVE  Told(Append(q, s)[i], e, x, l, t)
  BY <1>1 DEF AllTold
<1>3. CASE i = Len(q) + 1
  BY <1>1, <1>3
<1>4. CASE i # Len(q) + 1
  <2>1. i \in 1..Len(q)
    BY <1>1, <1>4
  <2> QED
    BY <1>1, <2>1 DEF AllTold
<1> QED
  BY <1>3, <1>4

\* A turn in the loop changes the entry of its vault, and says what is new.
LEMMA RemindSaid ==
    ASSUME EscalateInv, NEW b \in Vaults, NEW delivered \in Outcomes,
           Remind(b, delivered)
    PROVE  SaidInv'
<1> DEFINE x == fetched[b]
           l == fetchedLife[b]
           e == tracker[b]
<1>0. /\ TypeOK /\ scanNow \in Nat
      /\ x \in Accounts /\ l \in Nat /\ l \in 0..MAX_LIVES
      /\ e \in Entries /\ sent[b] \in Seq(Reminders)
      /\ tracker \in [Vaults -> Entries] /\ sent \in [Vaults -> Seq(Reminders)]
  BY SaidTypes DEF EscalateInv, KeeperInv, TypeOK
<1>1. /\ Scanning /\ Scanning' /\ scanNow' = scanNow /\ x.open
      /\ UNCHANGED <<chain, life, fetched, fetchedLife>>
  BY DEF Remind, Scanning, chainVars
<1>2. \A a \in Vaults :
        /\ Follows(fetched[a], fetchedLife[a], chain[a], life[a])
        /\ Said(a, fetched[a], fetchedLife[a])
  BY <1>1 DEF EscalateInv, SaidInv, Base, BaseLife
<1>3. /\ tracker'[b] = Due(e, x)
      /\ \A a \in Vaults \ {b} : tracker'[a] = tracker[a]
  BY <1>0 DEF Remind
<1>4. AllTold(sent[b], e, x, l, scanNow) /\ Rising(sent[b])
  BY <1>2 DEF Said
<1> HIDE DEF x, l, e
<1>5. AllTold(sent[b], Due(e, x), x, l, scanNow)
  <2>1. ASSUME NEW i \in 1..Len(sent[b])
        PROVE  Told(sent[b][i], Due(e, x), x, l, scanNow)
    <3>1. sent[b][i] \in Reminders /\ Told(sent[b][i], e, x, l, scanNow)
      BY <1>0, <1>4 DEF AllTold
    <3> QED
      BY <1>0, <3>1, ToldThroughDue
  <2> QED
    BY <2>1 DEF AllTold
<1>6. /\ \A a \in Vaults \ {b} : sent'[a] = sent[a]
      /\ AllTold(sent'[b], Due(e, x), x, l, scanNow) /\ Rising(sent'[b])
  <2>1. CASE UNCHANGED sent
    BY <1>4, <1>5, <2>1
  <2>2. ASSUME NEW d \in DueNews(e, x), NEW s,
               s = [life |-> l, deadline |-> Deadline(x), threshold |-> d,
                    delivered |-> delivered],
               sent' = [sent EXCEPT ![b] = Append(@, s)]
        PROVE  /\ \A a \in Vaults \ {b} : sent'[a] = sent[a]
               /\ AllTold(sent'[b], Due(e, x), x, l, scanNow) /\ Rising(sent'[b])
    <3>1. s \in Reminders
      <4>1. d \in Thresholds \cup {expired}
        BY DEF DueNews, News, Reached
      <4> QED
        BY <1>0, <2>2, <4>1, DeadlineNumber, KeeperAssumption DEF Reminders
    <3>2. s.life = l /\ s.deadline = Deadline(x) /\ s.threshold = d
      BY <2>2
    <3>3. /\ Told(s, Due(e, x), x, l, scanNow)
          /\ \A r \in Reminders :
                Told(r, e, x, l, scanNow) /\ r.life = s.life /\ r.deadline = s.deadline
                    => d < r.threshold
      BY <1>0, <1>1, <3>1, <3>2, NewsIsUrgent
    <3>4. \A i \in 1..Len(sent[b]) :
            sent[b][i].life = s.life /\ sent[b][i].deadline = s.deadline
                => s.threshold < sent[b][i].threshold
      BY <1>0, <1>4, <3>2, <3>3 DEF AllTold
    <3>5. /\ sent'[b] = Append(sent[b], s)
          /\ \A a \in Vaults \ {b} : sent'[a] = sent[a]
      BY <1>0, <2>2
    <3> QED
      BY <1>0, <1>4, <1>5, <3>1, <3>3, <3>4, <3>5, RisingAppend, AllToldAppend
  <2> QED
    BY <2>1, <2>2 DEF Remind, x, l, e
<1>7. ASSUME NEW a \in Vaults
      PROVE  /\ Follows(fetched[a], fetchedLife[a], chain[a], life[a])'
             /\ Said(a, Base(a), BaseLife(a))'
  <2>1. Follows(fetched[a], fetchedLife[a], chain[a], life[a])'
    BY <1>1, <1>2
  <2>2. AllTold(sent'[a], tracker'[a], fetched[a], fetchedLife[a], scanNow)
        /\ Rising(sent'[a])
    <3>1. CASE a = b
      BY <1>3, <1>6, <3>1 DEF x, l
    <3>2. CASE a # b
      BY <1>2, <1>3, <1>6, <3>2 DEF Said
    <3> QED
      BY <3>1, <3>2
  <2>3. Said(a, Base(a), BaseLife(a))'
    BY <1>1, <2>2 DEF Said, Base, BaseLife
  <2> QED
    BY <2>1, <2>3
<1> QED
  BY <1>1, <1>7 DEF SaidInv

\* Every step of a keeper that one node answers keeps what was said right.
LEMMA SaidStep ==
    ASSUME ~Lagging, EscalateInv, TypeOK', [Next]_vars
    PROVE  SaidInv'
<1>1. CASE Tick \/ CatchUp \/ UNCHANGED vars
  <2>1. UNCHANGED <<sent, tracker, scanNow, chain, life, fetched, fetchedLife, phase>>
    <3>1. CASE Tick
      BY <3>1 DEF Tick, chainVars, scanVars
    <3>2. CASE CatchUp
      BY <3>2 DEF CatchUp, chainVars, scanVars
    <3>3. CASE UNCHANGED vars
      BY <3>3 DEF vars, chainVars, scanVars
    <3> QED
      BY <1>1, <3>1, <3>2, <3>3
  <2>2. Scanning <=> Scanning'
    BY <2>1 DEF Scanning
  <2> QED
    BY <2>1, <2>2, StillSaid
<1>2. ASSUME NEW a \in Vaults, ChainStep(a)
      PROVE  SaidInv'
  BY <1>2, ChainSaid
<1>3. CASE Start
  <2>1. /\ UNCHANGED <<sent, tracker, scanNow, chain, life, fetched, fetchedLife>>
        /\ ~Scanning /\ ~Scanning'
    BY <1>3 DEF Start, chainVars, scanVars, Scanning
  <2> QED
    BY <2>1, StillSaid
<1>4. CASE Stop
  <2>1. sent' = NoneSent /\ ~Scanning'
    BY <1>4 DEF Stop, Scanning
  <2>2. \A a \in Vaults : Said(a, Base(a), BaseLife(a))'
    BY <2>1 DEF Said, AllTold, Rising, NoneSent
  <2> QED
    BY <2>1, <2>2 DEF SaidInv
<1>5. CASE Fetch
  BY <1>5, FetchSaid
<1>6. CASE Replace
  BY <1>6, ReplaceSaid
<1>7. CASE ReplaceFails \/ ReplaceInDoubt \/ Finish
  BY <1>7, EndSaid
     DEF ReplaceFails, ReplaceInDoubt, Finish, EndScan, chainVars, Scanning
<1>8. ASSUME NEW a \in Vaults, NEW delivered \in Outcomes, Remind(a, delivered)
      PROVE  SaidInv'
  BY <1>8, RemindSaid
<1> QED
  BY <1>1, <1>2, <1>3, <1>4, <1>5, <1>6, <1>7, <1>8 DEF Next

\* The reminders that an owner is sent of one deadline are each more urgent than
\* the one before, whatever fails on the way, as long as one node answers.
THEOREM RemindersEscalate ==
    ASSUME ~Lagging
    PROVE  Spec => []Escalates
<1>1. Init => EscalateInv
  <2>1. Init => sent = NoneSent /\ ~Scanning
    BY DEF Init, Scanning
  <2> QED
    BY <2>1, KeeperInvInit, CalmInvInit, SaidFresh DEF EscalateInv
<1>2. EscalateInv /\ [Next]_vars => EscalateInv'
  <2>1. SUFFICES ASSUME EscalateInv, [Next]_vars
                 PROVE  EscalateInv'
    OBVIOUS
  <2>2. KeeperInv' /\ TypeOK'
    BY <2>1, KeeperInvStep DEF EscalateInv, KeeperInv
  <2>3. CalmInv'
    BY <2>1, <2>2, CalmInvStep DEF EscalateInv
  <2>4. SaidInv'
    BY <2>1, <2>2, SaidStep
  <2> QED
    BY <2>2, <2>3, <2>4 DEF EscalateInv
<1>3. EscalateInv => Escalates
  BY DEF EscalateInv, SaidInv, Said, Rising, Escalates
<1> QED
  BY <1>1, <1>2, <1>3, PTL DEF Spec

=============================================================================
