------------------------ MODULE SchedulerSnapshotProofs ------------------------
(***************************************************************************)
(* Proofs about the snapshot of one bucket: what is shown was loaded since *)
(* the bucket was last retired, and no change of the group is forgotten.   *)
(***************************************************************************)
EXTENDS SchedulerSnapshot, SequenceTheorems, TLAPS

Row == [kind : {"account", "group"}, state : {"open", "keyed", "free", "gone"}]

Places ==
    {"idle", "edited", "flipped", "holding", "joined", "sync", "store", "next", "details",
     "lease", "group", "reopen", "retire", "release", "capture", "lock", "load", "allocate",
     "activate", "registered", "unregistered"}

Types ==
    /\ data \in Nat /\ flips \in Nat /\ log \in Seq(Row) /\ watermark \in Nat
    /\ epoch \in Nat /\ retired \in BOOLEAN /\ closedWith \in Nat /\ lost \in BOOLEAN
    /\ lease \in Workers \cup {None}
    /\ at \in [Actors -> Places] /\ mem \in [Actors -> Nat]
    /\ token \in [Workers -> Nat] /\ strict \in [Workers -> BOOLEAN]
    /\ todo \in [Pollers -> SUBSET Nat] /\ last \in [Pollers -> Nat]
    /\ seen \in [Pollers -> SUBSET {"account", "group"}]

---------------------------------------------------------------------------
(* Snapshots. *)

\* A writer that is not fenced off loaded its accounts since the bucket was retired.
Fresh(w) ==
    /\ token[w] <= epoch
    /\ at[w] \in {"allocate", "activate"} /\ token[w] = epoch => mem[w] >= closedWith

ShownFresh ==
    /\ closedWith <= data
    /\ shown # None => ~retired /\ shown.data \in Nat /\ shown.data >= closedWith
    /\ \A w \in Workers : Fresh(w)

---------------------------------------------------------------------------
(* Changes of the group. *)

Lifecycle == {"group", "reopen", "retire", "release"}

GroupRow(i) == i \in DOMAIN log /\ log[i].kind = "group"

\* A poller will still look at the group because of its batch.
Owes(p) ==
    \/ at[p] \in {"lease", "group"}
    \/ at[p] = "retire" /\ ~Open
    \/ at[p] = "reopen" /\ Open
    \/ /\ at[p] \in {"next", "details", "capture", "lock", "load", "allocate", "activate"}
       /\ ~strict[p] /\ "group" \notin seen[p]
       /\ \E k \in todo[p] : GroupRow(k)

\* A row whose event is not consumed: whoever listed it owes it.
Pending(i) ==
    /\ GroupRow(i) /\ log[i].state # "gone" /\ i > watermark
    /\ \A p \in Pollers : i <= last[p] => Owes(p)

Unsettled ==
    \/ lost
    \/ \E w \in Writers : at[w] = "flipped"
    \/ \E i \in Nat : Pending(i)

\* The status a lifecycle read is no longer that of the group.
Stale(w) == (at[w] = "retire" /\ Open) \/ (at[w] = "reopen" /\ ~Open)

Rows ==
    /\ watermark <= Len(log)
    /\ \A p \in Pollers : last[p] <= Len(log) /\ \A k \in todo[p] : k \in DOMAIN log
    /\ \A i \in Nat : GroupRow(i) => log[i].state # "open"
    /\ \A i \in Nat : GroupRow(i) /\ log[i].state = "keyed" =>
         i > watermark /\ \A p \in Pollers : i > last[p]

\* What a worker keeps between its steps.
Kept(w) ==
    /\ at[w] \in Lifecycle => lease = w
    /\ strict[w] => at[w] \in {"lock", "load", "allocate", "activate"}
    /\ w \in Pollers /\ at[w] = "idle" => last[w] = 0 /\ seen[w] = {} /\ todo[w] = {}
    /\ Stale(w) => Unsettled

GroupSettles ==
    /\ Rows
    /\ \A w \in Workers : Kept(w)
    /\ Unsettled \/ retired = ~Open

SnapInv == Types /\ ShownFresh /\ GroupSettles

---------------------------------------------------------------------------
(* The log. *)

LEMMA LogIs ==
    ASSUME Types
    PROVE  /\ Len(log) \in Nat /\ DOMAIN log = 1..Len(log)
           /\ \A i \in DOMAIN log : i \in Nat /\ i > 0 /\ log[i] \in Row
  BY DEF Types

\* Rows are replaced one by one.
LEMMA LogMapped ==
    ASSUME Types, DOMAIN log' = DOMAIN log, log' = [i \in DOMAIN log |-> log'[i]],
           \A i \in DOMAIN log : log'[i] \in Row
    PROVE  log' \in Seq(Row) /\ Len(log') = Len(log)
  <1>1. Len(log) \in Nat /\ DOMAIN log = 1..Len(log)
    BY LogIs
  <1>2. log' \in [1..Len(log) -> Row]
    BY <1>1
  <1>3. log' \in Seq(Row)
    BY <1>1, <1>2, SeqDef
  <1>4. DOMAIN log' = 1..Len(log') /\ Len(log') \in Nat
    BY <1>3, LenProperties
  <1> QED BY <1>1, <1>3, <1>4

LEMMA LogAppended ==
    ASSUME Types, NEW row \in Row, log' = Append(log, row)
    PROVE  /\ log' \in Seq(Row) /\ Len(log') = Len(log) + 1
           /\ log'[Len(log) + 1] = row
           /\ \A i \in DOMAIN log : i \in DOMAIN log' /\ log'[i] = log[i]
           /\ \A i \in DOMAIN log' : i \in DOMAIN log \/ i = Len(log) + 1
  BY LogIs DEF Types

---------------------------------------------------------------------------
(* What an actor does by itself. *)

LEMMA ActorsAre ==
    /\ Pollers \subseteq Workers /\ Readers \subseteq Workers /\ Rebuilders \subseteq Workers
    /\ Workers \subseteq Actors /\ Writers \subseteq Actors /\ None \notin Workers
    /\ \A w \in Workers : w \notin Writers
    /\ \A w \in Readers \cup Rebuilders : w \notin Pollers
  BY SnapAssumption DEF SnapAssumption, Workers, Actors

Alone(a) ==
    /\ at' \in [Actors -> Places] /\ mem' \in [Actors -> Nat]
    /\ token' \in [Workers -> Nat] /\ strict' \in [Workers -> BOOLEAN]
    /\ todo' \in [Pollers -> SUBSET Nat] /\ last' \in [Pollers -> Nat]
    /\ seen' \in [Pollers -> SUBSET {"account", "group"}]
    /\ \A b \in Actors : b # a => at'[b] = at[b] /\ mem'[b] = mem[b]
    /\ \A w \in Workers : w # a => token'[w] = token[w] /\ strict'[w] = strict[w]
    /\ \A p \in Pollers : p # a => todo'[p] = todo[p] /\ last'[p] = last[p] /\ seen'[p] = seen[p]

LEMMA Gone ==
    ASSUME Types, NEW a \in Actors, NEW place \in Places, Goes(a, place)
    PROVE  /\ at' \in [Actors -> Places] /\ at'[a] = place
           /\ \A b \in Actors : b # a => at'[b] = at[b]
  BY DEF Types, Goes

\* An actor goes, and may load accounts.
LEMMA GoneAlone ==
    ASSUME Types, NEW a \in Actors, NEW place \in Places, Goes(a, place),
           \/ mem' = mem
           \/ Loads(a)
           \/ mem' = [mem EXCEPT ![a] = 0],
           token' = token, strict' = strict, UNCHANGED batchVars
    PROVE  Alone(a) /\ at'[a] = place /\ (Loads(a) => mem'[a] = data)
  <1>1. /\ at' \in [Actors -> Places] /\ at'[a] = place
        /\ \A b \in Actors : b # a => at'[b] = at[b]
    BY Gone
  <1>2. /\ mem' \in [Actors -> Nat] /\ (Loads(a) => mem'[a] = data)
        /\ \A b \in Actors : b # a => mem'[b] = mem[b]
    <2>1. mem \in [Actors -> Nat] /\ data \in Nat
      BY DEF Types
    <2>2. CASE mem' = mem
      <3>1. Loads(a) => mem'[a] = data
        BY <2>1 DEF Loads
      <3> QED BY <2>1, <2>2, <3>1
    <2>3. CASE Loads(a)
      BY <2>1, <2>3 DEF Loads
    <2>4. CASE mem' = [mem EXCEPT ![a] = 0]
      <3>1. Loads(a) => mem'[a] = data
        BY <2>1 DEF Loads
      <3> QED BY <2>1, <2>4, <3>1
    <2> QED BY <2>2, <2>3, <2>4
  <1>3. /\ token' \in [Workers -> Nat] /\ strict' \in [Workers -> BOOLEAN]
        /\ todo' \in [Pollers -> SUBSET Nat] /\ last' \in [Pollers -> Nat]
        /\ seen' \in [Pollers -> SUBSET {"account", "group"}]
        /\ todo' = todo /\ last' = last /\ seen' = seen
    BY DEF Types, batchVars
  <1> QED BY <1>1, <1>2, <1>3 DEF Alone

LEMMA Forgotten ==
    ASSUME Types, NEW w \in Workers, Forgets(w)
    PROVE  /\ mem' \in [Actors -> Nat] /\ token' \in [Workers -> Nat]
           /\ strict' \in [Workers -> BOOLEAN]
           /\ token'[w] = 0 /\ ~strict'[w] /\ mem'[w] = 0
           /\ \A b \in Actors : b # w => mem'[b] = mem[b]
           /\ \A v \in Workers : v # w => token'[v] = token[v] /\ strict'[v] = strict[v]
  BY ActorsAre DEF Types, Forgets

LEMMA StopsAlone ==
    ASSUME Types, NEW w \in Workers, Stops(w)
    PROVE  /\ Alone(w) /\ at'[w] = "idle" /\ token'[w] = 0 /\ ~strict'[w]
           /\ w \in Pollers => todo'[w] = {} /\ last'[w] = 0 /\ seen'[w] = {}
  <1>1. /\ at' \in [Actors -> Places] /\ at'[w] = "idle"
        /\ \A b \in Actors : b # w => at'[b] = at[b]
    BY ActorsAre, Gone DEF Stops, Places
  <1>2. Forgets(w)
    BY DEF Stops
  <1>3. /\ todo' \in [Pollers -> SUBSET Nat] /\ last' \in [Pollers -> Nat]
        /\ seen' \in [Pollers -> SUBSET {"account", "group"}]
        /\ \A p \in Pollers : p # w => todo'[p] = todo[p] /\ last'[p] = last[p] /\ seen'[p] = seen[p]
        /\ w \in Pollers => todo'[w] = {} /\ last'[w] = 0 /\ seen'[w] = {}
    <2>1. CASE w \in Pollers
      <3>1. /\ todo' = [todo EXCEPT ![w] = {}] /\ last' = [last EXCEPT ![w] = 0]
            /\ seen' = [seen EXCEPT ![w] = {}]
        BY <2>1 DEF Stops
      <3>2. /\ todo' \in [Pollers -> SUBSET Nat] /\ todo'[w] = {}
            /\ \A p \in Pollers : p # w => todo'[p] = todo[p]
        BY <2>1, <3>1 DEF Types
      <3>3. /\ last' \in [Pollers -> Nat] /\ last'[w] = 0
            /\ \A p \in Pollers : p # w => last'[p] = last[p]
        BY <2>1, <3>1 DEF Types
      <3>4. /\ seen' \in [Pollers -> SUBSET {"account", "group"}] /\ seen'[w] = {}
            /\ \A p \in Pollers : p # w => seen'[p] = seen[p]
        BY <2>1, <3>1 DEF Types
      <3> QED BY <3>2, <3>3, <3>4
    <2>2. CASE w \notin Pollers
      BY <2>2 DEF Types, Stops, batchVars
    <2> QED BY <2>1, <2>2
  <1> QED BY <1>1, <1>2, <1>3, Forgotten DEF Alone

LEMMA DoneAlone ==
    ASSUME Types, NEW w \in Workers, Done(w)
    PROVE  /\ Alone(w) /\ token'[w] = 0 /\ ~strict'[w]
           /\ at'[w] = IF w \in Pollers THEN "next" ELSE "idle"
           /\ todo' = todo /\ last' = last
           /\ ~strict[w] => seen' = seen
  <1>1. /\ at' \in [Actors -> Places]
        /\ at'[w] = IF w \in Pollers THEN "next" ELSE "idle"
        /\ \A b \in Actors : b # w => at'[b] = at[b]
    BY ActorsAre, Gone DEF Done, Places
  <1>2. Forgets(w) /\ todo' = todo /\ last' = last
    BY DEF Done
  <1>3. /\ seen' \in [Pollers -> SUBSET {"account", "group"}]
        /\ \A p \in Pollers : p # w => seen'[p] = seen[p]
        /\ ~strict[w] => seen' = seen
    <2>1. CASE w \in Pollers /\ strict[w]
      BY <2>1 DEF Types, Done
    <2>2. CASE ~(w \in Pollers /\ strict[w])
      BY <2>2 DEF Types, Done
    <2> QED BY <2>1, <2>2
  <1> QED BY <1>1, <1>2, <1>3, Forgotten DEF Alone, Types

---------------------------------------------------------------------------
(* Steps of one worker that leave the database, the log and the mark alone. *)

Still == /\ data' = data /\ flips' = flips /\ log' = log /\ watermark' = watermark
         /\ epoch' = epoch /\ retired' = retired /\ closedWith' = closedWith /\ lost' = lost

OwesOn(w) ==
    w \in Pollers =>
      /\ todo'[w] \subseteq todo[w]
      /\ last'[w] \in {0, last[w]}
      /\ last'[w] # 0 /\ Owes(w) => Owes(w)'

\* The others keep what they keep, and so does a worker that reads nothing stale.
LEMMA KeptOn ==
    ASSUME SnapInv, NEW w \in Workers, Alone(w), flips' = flips, lost' = lost,
           \A i \in Nat : Pending(i) => Pending(i)',
           at'[w] \in Lifecycle => lease' = w,
           lease' = lease \/ (lease = None /\ lease' = w) \/ (lease = w /\ lease' = None),
           strict'[w] => at'[w] \in {"lock", "load", "allocate", "activate"},
           w \in Pollers /\ at'[w] = "idle" => last'[w] = 0 /\ seen'[w] = {} /\ todo'[w] = {},
           ~Stale(w)'
    PROVE  (Unsettled => Unsettled') /\ \A v \in Workers : Kept(v)'
  <1>1. Unsettled => Unsettled'
    BY ActorsAre DEF Unsettled, Alone
  <1>2. ASSUME NEW v \in Workers PROVE Kept(v)'
    <2>1. CASE v = w
      BY <2>1 DEF Kept
    <2>2. CASE v # w
      <3>1. Kept(v) /\ at'[v] = at[v] /\ strict'[v] = strict[v]
        BY <2>2, ActorsAre DEF SnapInv, GroupSettles, Alone
      <3>2. at'[v] \in Lifecycle => lease' = v
        BY <2>2, <3>1, ActorsAre DEF Kept
      <3>3. v \in Pollers /\ at'[v] = "idle" => last'[v] = 0 /\ seen'[v] = {} /\ todo'[v] = {}
        BY <2>2, <3>1 DEF Kept, Alone
      <3>4. Stale(v)' => Unsettled'
        BY <1>1, <3>1 DEF Kept, Stale, Open
      <3> QED BY <3>1, <3>2, <3>3, <3>4 DEF Kept
    <2> QED BY <2>1, <2>2
  <1> QED BY <1>1, <1>2

LEMMA WorkerWalks ==
    ASSUME SnapInv, NEW w \in Workers, Alone(w), Still,
           shown' # None => ~retired /\ shown'.data \in Nat /\ shown'.data >= closedWith,
           Fresh(w)',
           at'[w] \in Lifecycle => lease' = w,
           lease' = lease \/ (lease = None /\ lease' = w) \/ (lease = w /\ lease' = None),
           strict'[w] => at'[w] \in {"lock", "load", "allocate", "activate"},
           w \in Pollers /\ at'[w] = "idle" => last'[w] = 0 /\ seen'[w] = {} /\ todo'[w] = {},
           ~Stale(w)',
           OwesOn(w)
    PROVE  SnapInv'
  <1> USE DEF SnapInv, Still
  <1>1. Types'
    BY DEF Types, Alone
  <1>2. ShownFresh'
    <2>1. \A v \in Workers : v # w => Fresh(v)'
      BY ActorsAre DEF ShownFresh, Fresh, Alone
    <2> QED BY <2>1 DEF ShownFresh
  <1>3. \A p \in Pollers : p # w => (Owes(p) => Owes(p)')
    BY ActorsAre DEF Owes, Alone, Open, GroupRow
  <1>4. \A i \in Nat : Pending(i) => Pending(i)'
    <2> SUFFICES ASSUME NEW i \in Nat, Pending(i) PROVE Pending(i)'
      OBVIOUS
    <2>1. GroupRow(i)' /\ log'[i].state # "gone" /\ i > watermark' /\ i > 0
      BY LogIs DEF Pending, GroupRow
    <2>2. ASSUME NEW p \in Pollers, i <= last'[p] PROVE Owes(p)'
      <3>1. CASE p = w
        BY <2>1, <2>2, <3>1 DEF OwesOn, Pending, Types
      <3>2. CASE p # w
        BY <1>3, <2>2, <3>2 DEF Alone, Pending
      <3> QED BY <3>1, <3>2
    <2> QED BY <2>1, <2>2 DEF Pending
  <1>5. (Unsettled => Unsettled') /\ \A v \in Workers : Kept(v)'
    BY <1>4, KeptOn
  <1>6. Rows'
    <2>1. ASSUME NEW p \in Pollers
          PROVE  last'[p] \in {0, last[p]} /\ todo'[p] \subseteq todo[p]
      BY DEF Alone, OwesOn
    <2>2. ASSUME NEW p \in Pollers
          PROVE  last'[p] <= Len(log) /\ \A k \in todo'[p] : k \in DOMAIN log
      <3>1. last[p] <= Len(log) /\ \A k \in todo[p] : k \in DOMAIN log
        BY DEF GroupSettles, Rows
      <3> QED BY <2>1, <3>1, LogIs
    <2>3. \A i \in Nat : GroupRow(i) /\ log[i].state = "keyed" =>
            i > watermark /\ \A p \in Pollers : i > last'[p]
      BY <2>1, LogIs DEF GroupSettles, Rows, GroupRow, Types
    <2> QED BY <2>2, <2>3 DEF GroupSettles, Rows, GroupRow
  <1>7. Unsettled' \/ retired' = ~Open'
    BY <1>5 DEF GroupSettles, Open
  <1> QED BY <1>1, <1>2, <1>5, <1>6, <1>7 DEF GroupSettles

---------------------------------------------------------------------------
(* The steps of a worker on its way. *)

Rebuilding == {"capture", "lock", "load", "allocate", "activate"}

\* The list that is shown stays, or goes.
ShowsNoOther == shown' = shown \/ shown' = None

LEMMA ShownStays ==
    ASSUME SnapInv, shown' = shown
    PROVE  shown' # None => ~retired /\ shown'.data \in Nat /\ shown'.data >= closedWith
  BY DEF SnapInv, ShownFresh

LEMMA Tokens ==
    ASSUME SnapInv, NEW w \in Workers
    PROVE  /\ token[w] \in Nat /\ token[w] <= epoch /\ epoch \in Nat /\ mem[w] \in Nat
           /\ strict[w] \in BOOLEAN /\ data \in Nat /\ closedWith \in Nat /\ closedWith <= data
           /\ Kept(w) /\ Fresh(w) /\ w \in Actors
  BY ActorsAre DEF SnapInv, Types, ShownFresh, Fresh, GroupSettles

LEMMA Stopping ==
    ASSUME SnapInv, NEW w \in Workers, Stops(w), Still, shown' = shown,
           lease' = lease \/ (lease = w /\ lease' = None)
    PROVE  SnapInv'
  <1>1. /\ Alone(w) /\ at'[w] = "idle" /\ token'[w] = 0 /\ ~strict'[w]
        /\ w \in Pollers => todo'[w] = {} /\ last'[w] = 0 /\ seen'[w] = {}
    BY StopsAlone DEF SnapInv
  <1>2. Fresh(w)'
    BY <1>1, Tokens DEF Fresh, Still
  <1>3. ~Stale(w)'
    BY <1>1 DEF Stale
  <1>4. OwesOn(w)
    BY <1>1 DEF OwesOn
  <1> QED BY <1>1, <1>2, <1>3, <1>4, ShownStays, WorkerWalks DEF Lifecycle

LEMMA Finishing ==
    ASSUME SnapInv, NEW w \in Workers, at[w] \in Rebuilding, Done(w), Still, lease' = lease,
           shown' # None => ~retired /\ shown'.data \in Nat /\ shown'.data >= closedWith
    PROVE  SnapInv'
  <1>1. /\ Alone(w) /\ token'[w] = 0 /\ ~strict'[w]
        /\ at'[w] = IF w \in Pollers THEN "next" ELSE "idle"
        /\ todo' = todo /\ last' = last
        /\ ~strict[w] => seen' = seen
    BY DoneAlone DEF SnapInv
  <1>2. Fresh(w)'
    BY <1>1, Tokens DEF Fresh, Still
  <1>3. ~Stale(w)'
    BY <1>1 DEF Stale
  <1>4. w \in Pollers => (Owes(w) => Owes(w)')
    <2> SUFFICES ASSUME w \in Pollers, Owes(w) PROVE Owes(w)'
      OBVIOUS
    <2>1. ~strict[w] /\ "group" \notin seen[w] /\ \E k \in todo[w] : GroupRow(k)
      BY DEF Owes, Rebuilding
    <2> QED BY <1>1, <2>1 DEF Owes, GroupRow, Still
  <1>5. OwesOn(w)
    BY <1>1, <1>4 DEF OwesOn
  <1> QED BY <1>1, <1>2, <1>3, <1>5, WorkerWalks DEF Lifecycle

LEMMA BusyEnding ==
    ASSUME SnapInv, NEW w \in Workers, at[w] \in Rebuilding, Busy(w), Still, lease' = lease,
           shown' = shown
    PROVE  SnapInv'
  BY Stopping, Finishing, ShownStays DEF Busy

\* A worker goes on to another place, with the batch it has.
LEMMA GoingOn ==
    ASSUME SnapInv, NEW w \in Workers, NEW place \in Places, Goes(w, place), Still,
           shown' = shown,
           lease' = lease \/ (lease = None /\ lease' = w),
           \/ mem' = mem
           \/ Loads(w)
           \/ mem' = [mem EXCEPT ![w] = 0],
           token' = token, strict' = strict, UNCHANGED batchVars,
           place # "idle",
           place = "allocate" => Loads(w),
           place = "activate" => at[w] = "allocate" /\ mem' = mem,
           place \in Lifecycle => lease' = w,
           strict[w] => place \in {"lock", "load", "allocate", "activate"},
           place = "retire" => ~Open,
           place = "reopen" => Open,
           w \in Pollers /\ Owes(w) =>
             \/ at[w] \in Rebuilding /\ place \in Rebuilding
             \/ place \in {"lease", "group", "retire", "reopen"}
    PROVE  SnapInv'
  <1>1. Alone(w) /\ at'[w] = place /\ (Loads(w) => mem'[w] = data) /\ w \in Actors
    BY GoneAlone, ActorsAre DEF SnapInv
  <1>2. Fresh(w)'
    BY <1>1, Tokens DEF Fresh, Still
  <1>3. ~Stale(w)'
    BY <1>1 DEF Stale, Open, Still
  <1>4. OwesOn(w)
    <2>1. w \in Pollers => todo'[w] = todo[w] /\ last'[w] = last[w] /\ seen'[w] = seen[w]
      BY DEF batchVars
    <2>2. ASSUME w \in Pollers, Owes(w) PROVE Owes(w)'
      <3>1. CASE at[w] \in Rebuilding /\ place \in Rebuilding
        <4>1. ~strict[w] /\ "group" \notin seen[w] /\ \E k \in todo[w] : GroupRow(k)
          BY <2>2, <3>1 DEF Owes, Rebuilding
        <4> QED BY <1>1, <2>1, <2>2, <3>1, <4>1 DEF Owes, GroupRow, Still, Rebuilding
      <3>2. CASE place \in {"lease", "group", "retire", "reopen"}
        BY <1>1, <3>2 DEF Owes, Open, Still
      <3> QED BY <2>2, <3>1, <3>2
    <2> QED BY <2>1, <2>2 DEF OwesOn
  <1> QED BY <1>1, <1>2, <1>3, <1>4, ShownStays, WorkerWalks

\* A step ends, and leaves nothing of a batch behind.
LEMMA GoingIdle ==
    ASSUME SnapInv, NEW w \in Workers, w \notin Pollers, Goes(w, "idle"), Still,
           shown' = shown, lease' = lease, mem' = mem, token' = token, strict' = strict,
           UNCHANGED batchVars, ~strict[w]
    PROVE  SnapInv'
  <1>1. Alone(w) /\ at'[w] = "idle"
    BY GoneAlone, ActorsAre DEF SnapInv, Places
  <1>2. Fresh(w)'
    BY <1>1, Tokens DEF Fresh, Still
  <1>3. ~Stale(w)'
    BY <1>1 DEF Stale
  <1> QED BY <1>1, <1>2, <1>3, ShownStays, WorkerWalks DEF Lifecycle, OwesOn

LEMMA NextEventKeeps ==
    ASSUME SnapInv, NEW p \in Pollers, NextEvent(p)
    PROVE  SnapInv'
  <1>1. PICK i \in todo[p] :
           /\ todo' = [todo EXCEPT ![p] = @ \ {i}]
           /\ IF log[i].kind = "account" THEN Loads(p) /\ Goes(p, "details")
              ELSE /\ UNCHANGED mem
                   /\ Goes(p, IF "group" \in seen[p] THEN "next" ELSE "lease")
    BY DEF NextEvent
  <1>2. /\ at[p] = "next" /\ Still /\ shown' = shown /\ lease' = lease
        /\ token' = token /\ strict' = strict /\ last' = last /\ seen' = seen
    BY DEF NextEvent, dbVars, cacheVars, Still
  <1>3. p \in Workers /\ p \in Actors
    BY ActorsAre
  <1>4. /\ todo' \in [Pollers -> SUBSET Nat] /\ todo'[p] = todo[p] \ {i}
        /\ \A q \in Pollers : q # p => todo'[q] = todo[q]
    BY <1>1 DEF SnapInv, Types
  <1>5. /\ mem' \in [Actors -> Nat]
        /\ \A b \in Actors : b # p => mem'[b] = mem[b]
    <2>1. CASE log[i].kind = "account"
      BY <1>1, <1>3, <2>1 DEF SnapInv, Types, Loads
    <2>2. CASE log[i].kind # "account"
      BY <1>1, <2>2 DEF SnapInv, Types
    <2> QED BY <2>1, <2>2
  <1>6. PICK place \in {"details", "next", "lease"} :
           /\ Goes(p, place)
           /\ log[i].kind = "account" => place = "details"
           /\ log[i].kind # "account" /\ "group" \notin seen[p] => place = "lease"
    BY <1>1
  <1>7. /\ at' \in [Actors -> Places] /\ at'[p] = place
        /\ \A b \in Actors : b # p => at'[b] = at[b]
    BY <1>3, <1>6, Gone DEF SnapInv, Places
  <1>8. Alone(p)
    BY <1>2, <1>4, <1>5, <1>7 DEF Alone, SnapInv, Types
  <1>9. Fresh(p)'
    BY <1>2, <1>3, <1>7, Tokens DEF Fresh, Still
  <1>10. ~Stale(p)' /\ at'[p] \notin Lifecycle /\ at'[p] # "idle"
    BY <1>7 DEF Stale, Lifecycle
  <1>11. ~strict'[p]
    BY <1>2, <1>3, Tokens DEF Kept
  <1>12. ASSUME Owes(p) PROVE Owes(p)'
    <2>1. "group" \notin seen[p] /\ \E k \in todo[p] : GroupRow(k)
      BY <1>2, <1>12 DEF Owes
    <2>2. CASE log[i].kind = "account"
      <3>1. place = "details"
        BY <1>6, <2>2
      <3>2. PICK k \in todo[p] : GroupRow(k)
        BY <2>1
      <3>3. k \in todo'[p] /\ GroupRow(k)'
        BY <1>2, <1>4, <2>2, <3>2 DEF GroupRow, Still
      <3> QED BY <1>2, <1>7, <1>11, <2>1, <3>1, <3>3 DEF Owes
    <2>3. CASE log[i].kind # "account"
      BY <1>6, <1>7, <2>1, <2>3 DEF Owes
    <2> QED BY <2>2, <2>3
  <1>13. OwesOn(p)
    BY <1>2, <1>4, <1>12 DEF OwesOn
  <1> QED BY <1>2, <1>3, <1>8, <1>9, <1>10, <1>11, <1>13, ShownStays, WorkerWalks

LEMMA StoreDetailsKeeps ==
    ASSUME SnapInv, NEW p \in Pollers, StoreDetails(p)
    PROVE  SnapInv'
  <1>1. /\ at[p] = "details" /\ Still /\ shown' = shown /\ lease' = lease
        /\ token' = token /\ strict' = strict /\ last' = last /\ todo' = todo
        /\ mem' = [mem EXCEPT ![p] = 0]
        /\ seen' = [seen EXCEPT ![p] = @ \cup {"account"}]
    BY DEF StoreDetails, dbVars, Still
  <1>2. p \in Workers /\ p \in Actors
    BY ActorsAre
  <1>3. PICK place \in {"next", "capture"} : Goes(p, place)
    BY DEF StoreDetails
  <1>4. /\ at' \in [Actors -> Places] /\ at'[p] = place
        /\ \A b \in Actors : b # p => at'[b] = at[b]
    BY <1>2, <1>3, Gone DEF SnapInv, Places
  <1>5. mem' \in [Actors -> Nat] /\ \A b \in Actors : b # p => mem'[b] = mem[b]
    BY <1>1 DEF SnapInv, Types
  <1>6. /\ seen' \in [Pollers -> SUBSET {"account", "group"}]
        /\ seen'[p] = seen[p] \cup {"account"}
        /\ \A q \in Pollers : q # p => seen'[q] = seen[q]
    BY <1>1 DEF SnapInv, Types
  <1>7. Alone(p)
    BY <1>1, <1>4, <1>5, <1>6 DEF Alone, SnapInv, Types
  <1>8. Fresh(p)'
    BY <1>1, <1>2, <1>4, Tokens DEF Fresh, Still
  <1>9. ~Stale(p)' /\ at'[p] \notin Lifecycle /\ at'[p] # "idle"
    BY <1>4 DEF Stale, Lifecycle
  <1>10. ~strict'[p]
    BY <1>1, <1>2, Tokens DEF Kept
  <1>11. Owes(p) => Owes(p)'
    BY <1>1, <1>4, <1>6, <1>10 DEF Owes, GroupRow, Still
  <1>12. OwesOn(p)
    BY <1>1, <1>11 DEF OwesOn
  <1> QED BY <1>1, <1>2, <1>7, <1>8, <1>9, <1>10, <1>12, ShownStays, WorkerWalks

LEMMA TakeLeaseKeeps ==
    ASSUME SnapInv, NEW w \in Workers, TakeLease(w)
    PROVE  SnapInv'
  <1>1. Still /\ shown' = shown /\ at[w] = "lease" /\ ~strict[w]
    BY Tokens DEF TakeLease, dbVars, Still, Kept
  <1>2. CASE lease # None
    BY <1>1, <1>2, Stopping DEF TakeLease
  <1>3. CASE lease = None
    <2>1. /\ lease' = w /\ Goes(w, "group") /\ mem' = mem /\ token' = token
          /\ strict' = strict /\ UNCHANGED batchVars
      BY <1>3 DEF TakeLease, workVars
    <2> QED BY <1>1, <1>3, <2>1, GoingOn DEF Places
  <1> QED BY <1>2, <1>3

LEMMA ReadGroupKeeps ==
    ASSUME SnapInv, NEW w \in Workers, ReadGroup(w)
    PROVE  SnapInv'
  <1>1. Still /\ shown' = shown /\ lease' = lease /\ at[w] = "group" /\ ~strict[w] /\ lease = w
    BY Tokens DEF ReadGroup, dbVars, cacheVars, Still, Kept, Lifecycle
  <1>2. mem' = mem /\ token' = token /\ strict' = strict /\ UNCHANGED batchVars
    BY DEF ReadGroup, workVars
  <1>3. CASE Open
    <2>1. Goes(w, "reopen")
      BY <1>3 DEF ReadGroup
    <2> QED BY <1>1, <1>2, <1>3, <2>1, GoingOn DEF Places
  <1>4. CASE ~Open
    <2>1. Goes(w, "retire")
      BY <1>4 DEF ReadGroup
    <2> QED BY <1>1, <1>2, <1>4, <2>1, GoingOn DEF Places
  <1> QED BY <1>3, <1>4

LEMMA ReleaseLeaseKeeps ==
    ASSUME SnapInv, NEW w \in Workers, ReleaseLease(w)
    PROVE  SnapInv'
  <1>1. Still /\ shown' = shown /\ at[w] = "release" /\ ~strict[w] /\ lease = w /\ lease' = None
    BY Tokens DEF ReleaseLease, dbVars, Still, Kept, Lifecycle
  <1>2. w \in Actors
    BY ActorsAre
  <1>3. mem' = mem /\ token' = token /\ todo' = todo /\ last' = last
    BY <1>1 DEF ReleaseLease, workVars, batchVars
  <1>4. PICK place \in {"lock", "next", "idle"} :
           /\ Goes(w, place)
           /\ place # "lock" => strict' = strict
           /\ w \in Pollers => place # "idle"
    BY <1>1 DEF ReleaseLease, workVars
  <1>5. /\ at' \in [Actors -> Places] /\ at'[w] = place
        /\ \A b \in Actors : b # w => at'[b] = at[b]
    BY <1>2, <1>4, Gone DEF SnapInv, Places
  <1>6. /\ strict' \in [Workers -> BOOLEAN]
        /\ \A v \in Workers : v # w => strict'[v] = strict[v]
    BY <1>1 DEF ReleaseLease, workVars, SnapInv, Types
  <1>7. /\ seen' \in [Pollers -> SUBSET {"account", "group"}]
        /\ \A q \in Pollers : q # w => seen'[q] = seen[q]
    <2>1. \/ seen' = seen
          \/ w \in Pollers /\ seen' = [seen EXCEPT ![w] = {"account", "group"}]
      BY <1>1 DEF ReleaseLease, batchVars
    <2> QED BY <2>1 DEF SnapInv, Types
  <1>8. Alone(w)
    BY <1>3, <1>5, <1>6, <1>7 DEF Alone, SnapInv, Types
  <1>9. Fresh(w)'
    BY <1>1, <1>3, <1>5, Tokens DEF Fresh, Still
  <1>10. ~Stale(w)' /\ at'[w] \notin Lifecycle
    BY <1>5 DEF Stale, Lifecycle
  <1>11. strict'[w] => at'[w] = "lock"
    BY <1>1, <1>4, <1>5
  <1>12. OwesOn(w)
    BY <1>1, <1>3 DEF OwesOn, Owes
  <1> QED BY <1>1, <1>4, <1>5, <1>8, <1>9, <1>10, <1>11, <1>12, ShownStays, WorkerWalks

LEMMA CaptureTokenKeeps ==
    ASSUME SnapInv, NEW w \in Workers, CaptureToken(w)
    PROVE  SnapInv'
  <1>1. Still /\ shown' = shown /\ lease' = lease /\ at[w] = "capture" /\ ~strict[w]
    BY Tokens DEF CaptureToken, dbVars, cacheVars, Still, Kept
  <1>2. CASE ~retired
    <2>1. /\ token' = [token EXCEPT ![w] = epoch] /\ mem' = mem /\ strict' = strict
          /\ todo' = todo /\ last' = last /\ seen' = seen
      BY <1>2 DEF CaptureToken, batchVars
    <2>2. PICK place \in {"load", "lock"} : Goes(w, place)
      BY <1>2 DEF CaptureToken
    <2>3. /\ at' \in [Actors -> Places] /\ at'[w] = place
          /\ \A b \in Actors : b # w => at'[b] = at[b]
      BY <2>2, ActorsAre, Gone DEF SnapInv, Places
    <2>4. /\ token' \in [Workers -> Nat] /\ token'[w] = epoch
          /\ \A v \in Workers : v # w => token'[v] = token[v]
      BY <2>1 DEF SnapInv, Types
    <2>5. Alone(w)
      BY <2>1, <2>3, <2>4 DEF Alone, SnapInv, Types
    <2>6. Fresh(w)'
      BY <1>1, <2>3, <2>4, Tokens DEF Fresh, Still
    <2>7. ~Stale(w)' /\ at'[w] \notin Lifecycle
      BY <2>3 DEF Stale, Lifecycle
    <2>8. w \in Pollers => (Owes(w) => Owes(w)')
      BY <1>1, <2>1, <2>3 DEF Owes, GroupRow, Still
    <2>9. OwesOn(w)
      BY <2>1, <2>8 DEF OwesOn
    <2> QED BY <1>1, <2>1, <2>3, <2>5, <2>6, <2>7, <2>9, ShownStays, WorkerWalks
  <1>3. CASE retired /\ w \in Rebuilders
    <2>1. /\ Goes(w, "lease") /\ mem' = mem /\ token' = token /\ strict' = strict
          /\ UNCHANGED batchVars
      BY <1>3 DEF CaptureToken, workVars
    <2> QED BY <1>1, <2>1, GoingOn DEF Places, Lifecycle
  <1>4. CASE retired /\ w \notin Rebuilders
    <2>1. Done(w)
      BY <1>4 DEF CaptureToken
    <2> QED BY <1>1, <2>1, ShownStays, Finishing DEF Rebuilding
  <1> QED BY <1>2, <1>3, <1>4

LEMMA LockBucketKeeps ==
    ASSUME SnapInv, NEW w \in Workers, LockBucket(w)
    PROVE  SnapInv'
  <1>1. Still /\ shown' = shown /\ lease' = lease /\ at[w] = "lock"
    BY DEF LockBucket, dbVars, Still
  <1>2. CASE lock # None
    BY <1>1, <1>2, BusyEnding DEF LockBucket, Rebuilding
  <1>3. CASE lock = None
    <2>1. /\ Goes(w, "load") /\ mem' = mem /\ token' = token /\ strict' = strict
          /\ UNCHANGED batchVars
      BY <1>3 DEF LockBucket, workVars
    <2> QED BY <1>1, <2>1, GoingOn DEF Places, Lifecycle, Rebuilding
  <1> QED BY <1>2, <1>3

LEMMA LoadAccountsKeeps ==
    ASSUME SnapInv, NEW w \in Workers, LoadAccounts(w)
    PROVE  SnapInv'
  <1>1. /\ Still /\ shown' = shown /\ lease' = lease /\ at[w] = "load"
        /\ Goes(w, "allocate") /\ Loads(w) /\ token' = token /\ strict' = strict
        /\ UNCHANGED batchVars
    BY DEF LoadAccounts, dbVars, cacheVars, Still
  <1> QED BY <1>1, GoingOn DEF Places, Lifecycle, Rebuilding

LEMMA AllocateVersionKeeps ==
    ASSUME SnapInv, NEW w \in Workers, AllocateVersion(w)
    PROVE  SnapInv'
  <1>1. Still /\ shown' = shown /\ lease' = lease /\ at[w] = "allocate"
    BY DEF AllocateVersion, dbVars, Still
  <1>2. CASE Fenced(w)
    BY <1>1, <1>2, BusyEnding DEF AllocateVersion, Rebuilding
  <1>3. CASE ~Fenced(w)
    <2>1. /\ Goes(w, "activate") /\ mem' = mem /\ token' = token /\ strict' = strict
          /\ UNCHANGED batchVars
      BY <1>3 DEF AllocateVersion, workVars
    <2> QED BY <1>1, <2>1, GoingOn DEF Places, Lifecycle, Rebuilding
  <1> QED BY <1>2, <1>3

\* The check of the epoch is what keeps accounts that were loaded too early away.
LEMMA ActivateSnapshotKeeps ==
    ASSUME SnapInv, NEW w \in Workers, ActivateSnapshot(w)
    PROVE  SnapInv'
  <1>1. Still /\ lease' = lease /\ at[w] = "activate" /\ at[w] \in Rebuilding
    BY DEF ActivateSnapshot, dbVars, Still, Rebuilding
  <1>2. CASE ActivationFenced(w)
    <2>1. shown' = shown /\ Busy(w)
      BY <1>2 DEF ActivateSnapshot
    <2> QED BY <1>1, <2>1, BusyEnding
  <1>3. CASE ~ActivationFenced(w)
    <2>1. Done(w)
      BY <1>3 DEF ActivateSnapshot
    <2>2. ~retired /\ mem[w] \in Nat /\ mem[w] >= closedWith
      BY <1>1, <1>3, Tokens DEF ActivationFenced, Fresh
    <2>3. shown' # None => ~retired /\ shown'.data \in Nat /\ shown'.data >= closedWith
      <3>1. shown' = shown \/ shown' = [data |-> mem[w], epoch |-> token[w]]
        BY DEF ActivateSnapshot
      <3>2. CASE shown' = shown
        BY <3>2, ShownStays
      <3>3. CASE shown' = [data |-> mem[w], epoch |-> token[w]]
        BY <2>2, <3>3
      <3> QED BY <3>1, <3>2, <3>3
    <2> QED BY <1>1, <2>1, <2>3, Finishing
  <1> QED BY <1>2, <1>3

LEMMA StartsKeep ==
    ASSUME SnapInv, NEW w \in Workers,
           \/ w \in Readers /\ MissSnapshot(w)
           \/ w \in Rebuilders /\ RebuildStep(w)
    PROVE  SnapInv'
  <1>1. /\ Still /\ shown' = shown /\ lease' = lease /\ mem' = mem /\ token' = token
        /\ strict' = strict /\ UNCHANGED batchVars /\ w \notin Pollers
    BY ActorsAre DEF MissSnapshot, RebuildStep, StartRebuild, ListGroups, dbVars, cacheVars,
         workVars, Still
  <1>2. /\ at[w] \in {"idle", "registered", "unregistered"}
        /\ \E place \in {"capture", "registered", "unregistered", "lease", "idle"} : Goes(w, place)
    BY DEF MissSnapshot, RebuildStep, StartRebuild, ListGroups
  <1>3. ~strict[w]
    BY <1>2, Tokens DEF Kept
  <1>4. PICK place \in {"capture", "registered", "unregistered", "lease", "idle"} : Goes(w, place)
    BY <1>2
  <1>5. CASE place = "idle"
    BY <1>1, <1>3, <1>4, <1>5, GoingIdle
  <1>6. CASE place # "idle"
    BY <1>1, <1>3, <1>4, <1>6, GoingOn DEF Places, Lifecycle
  <1> QED BY <1>5, <1>6

LEMMA DieKeeps ==
    ASSUME SnapInv, NEW w \in Workers, Die(w)
    PROVE  SnapInv'
  BY Stopping DEF Die, dbVars, Still

---------------------------------------------------------------------------
(* The end of a lifecycle. *)

\* No other lifecycle is under way.  One that acted on what the group no longer is was
\* overtaken by a change whose event is still to come.
LEMMA LifecycleEnds ==
    ASSUME SnapInv, NEW w \in Workers, at[w] \in {"retire", "reopen"}, Goes(w, "release"),
           UNCHANGED <<data, flips, log, watermark, lost, lease, strict, todo, last, seen>>
    PROVE  /\ Rows' /\ \A v \in Workers : Kept(v)'
           /\ Stale(w) => Unsettled'
           /\ at' \in [Actors -> Places] /\ at'[w] = "release"
           /\ \A b \in Actors : b # w => at'[b] = at[b]
  <1> USE DEF SnapInv
  <1>1. /\ at' \in [Actors -> Places] /\ at'[w] = "release"
        /\ \A b \in Actors : b # w => at'[b] = at[b]
    BY Gone, ActorsAre DEF Places
  <1>2. Rows'
    BY DEF GroupSettles, Rows, GroupRow
  <1>3. lease = w /\ ~strict[w]
    BY Tokens DEF Kept, Lifecycle
  <1>4. ASSUME NEW v \in Workers PROVE Kept(v)'
    <2>1. CASE v = w
      BY <1>1, <1>3, <2>1 DEF Kept, Stale
    <2>2. CASE v # w
      <3>1. Kept(v) /\ at'[v] = at[v]
        BY <1>1, <2>2, ActorsAre, Tokens
      <3>2. at'[v] \notin Lifecycle
        BY <1>3, <2>2, <3>1 DEF Kept
      <3> QED BY <3>1, <3>2 DEF Kept, Stale, Lifecycle
    <2> QED BY <2>1, <2>2
  <1>5. ASSUME Stale(w) PROVE Unsettled'
    <2>1. Unsettled /\ ~Owes(w)
      BY <1>5, Tokens DEF Kept, Stale, Owes
    <2>2. \A p \in Pollers : p # w => (Owes(p) => Owes(p)')
      BY <1>1, ActorsAre DEF Owes, Open, GroupRow
    <2>3. \A i \in Nat : Pending(i) => Pending(i)'
      BY <2>1, <2>2 DEF Pending, GroupRow
    <2> QED BY <1>1, <2>1, <2>3, ActorsAre DEF Unsettled
  <1> QED BY <1>1, <1>2, <1>4, <1>5

LEMMA RetireBucketKeeps ==
    ASSUME SnapInv, NEW w \in Workers, RetireBucket(w)
    PROVE  SnapInv'
  <1>1. /\ at[w] = "retire" /\ Goes(w, "release") /\ shown' = None /\ retired' = TRUE
        /\ data' = data /\ flips' = flips /\ log' = log /\ watermark' = watermark /\ lost' = lost
        /\ lease' = lease /\ strict' = strict /\ todo' = todo /\ last' = last /\ seen' = seen
        /\ mem' = mem /\ token' = token
    BY DEF RetireBucket, Hide, dbVars, workVars, batchVars
  <1>2. \/ epoch' = epoch /\ closedWith' = closedWith
        \/ epoch' = epoch + 1 /\ closedWith' = data
    BY DEF RetireBucket
  <1>3. /\ Rows' /\ \A v \in Workers : Kept(v)'
        /\ Stale(w) => Unsettled'
        /\ at' \in [Actors -> Places] /\ at'[w] = "release"
        /\ \A b \in Actors : b # w => at'[b] = at[b]
    BY <1>1, LifecycleEnds
  <1>4. epoch' \in Nat /\ closedWith' \in Nat /\ closedWith' <= data'
    BY <1>1, <1>2 DEF SnapInv, Types, ShownFresh
  <1>5. Types'
    BY <1>1, <1>3, <1>4 DEF SnapInv, Types
  <1>6. ASSUME NEW v \in Workers PROVE Fresh(v)'
    <2>1. /\ token'[v] = token[v] /\ mem'[v] = mem[v] /\ token[v] <= epoch
          /\ token[v] \in Nat /\ epoch \in Nat
          /\ at'[v] \in {"allocate", "activate"} => at'[v] = at[v]
      BY <1>1, <1>3, Tokens
    <2>2. CASE epoch' = epoch /\ closedWith' = closedWith
      BY <2>1, <2>2, Tokens DEF Fresh
    <2>3. CASE epoch' = epoch + 1 /\ closedWith' = data
      BY <2>1, <2>3 DEF Fresh
    <2> QED BY <1>2, <2>2, <2>3
  <1>7. ShownFresh'
    BY <1>1, <1>4, <1>6 DEF ShownFresh
  <1>8. Unsettled' \/ retired' = ~Open'
    BY <1>1, <1>3 DEF Stale, Open
  <1> QED BY <1>3, <1>5, <1>7, <1>8 DEF SnapInv, GroupSettles

LEMMA ReopenBucketKeeps ==
    ASSUME SnapInv, NEW w \in Workers, ReopenBucket(w)
    PROVE  SnapInv'
  <1>1. /\ at[w] = "reopen" /\ Goes(w, "release") /\ retired' = FALSE
        /\ data' = data /\ flips' = flips /\ log' = log /\ watermark' = watermark /\ lost' = lost
        /\ lease' = lease /\ strict' = strict /\ todo' = todo /\ last' = last /\ seen' = seen
        /\ mem' = mem /\ epoch' = epoch /\ closedWith' = closedWith
        /\ token' = [token EXCEPT ![w] = epoch]
    BY DEF ReopenBucket, dbVars, batchVars
  <1>2. /\ Rows' /\ \A v \in Workers : Kept(v)'
        /\ Stale(w) => Unsettled'
        /\ at' \in [Actors -> Places] /\ at'[w] = "release"
        /\ \A b \in Actors : b # w => at'[b] = at[b]
    BY <1>1, LifecycleEnds
  <1>3. /\ token' \in [Workers -> Nat] /\ token'[w] = epoch
        /\ \A v \in Workers : v # w => token'[v] = token[v]
    BY <1>1 DEF SnapInv, Types
  <1>4. Types'
    BY <1>1, <1>2, <1>3 DEF SnapInv, Types
  <1>5. ASSUME NEW v \in Workers PROVE Fresh(v)'
    <2>1. CASE v = w
      BY <1>1, <1>2, <1>3, <2>1, Tokens DEF Fresh
    <2>2. CASE v # w
      BY <1>1, <1>2, <1>3, <2>2, Tokens DEF Fresh
    <2> QED BY <2>1, <2>2
  <1>6. shown' # None => ~retired' /\ shown'.data \in Nat /\ shown'.data >= closedWith
    <2>1. shown' = shown \/ shown' = None
      BY DEF ReopenBucket, Hide
    <2> QED BY <1>1, <2>1 DEF SnapInv, ShownFresh
  <1>7. ShownFresh'
    BY <1>1, <1>5, <1>6 DEF SnapInv, ShownFresh
  <1>8. Unsettled' \/ retired' = ~Open'
    BY <1>1, <1>2 DEF Stale, Open
  <1> QED BY <1>2, <1>4, <1>7, <1>8 DEF SnapInv, GroupSettles

\* A lock or a lease that lapses is nobody's who still acts under it.
LEMMA LapseKeeps ==
    ASSUME SnapInv, LockLapses \/ LeaseLapses
    PROVE  SnapInv'
  <1>1. /\ data' = data /\ flips' = flips /\ log' = log /\ watermark' = watermark
        /\ epoch' = epoch /\ retired' = retired /\ closedWith' = closedWith /\ lost' = lost
        /\ shown' = shown /\ at' = at /\ mem' = mem /\ token' = token /\ strict' = strict
        /\ todo' = todo /\ last' = last /\ seen' = seen
    BY DEF LockLapses, LeaseLapses, dbVars, workVars, batchVars
  <1>2. \/ lease' = lease
        \/ lease' = None /\ at[lease] \notin Lifecycle
    BY DEF LockLapses, LeaseLapses, Lifecycle
  <1>3. Types'
    BY <1>1, <1>2 DEF SnapInv, Types
  <1>4. ShownFresh'
    BY <1>1 DEF SnapInv, ShownFresh, Fresh
  <1>5. Rows' /\ (Unsettled => Unsettled')
    BY <1>1 DEF SnapInv, GroupSettles, Rows, Unsettled, Pending, Owes, Open, GroupRow
  <1>6. ASSUME NEW v \in Workers PROVE Kept(v)'
    <2>1. Kept(v)
      BY Tokens
    <2>2. at'[v] \in Lifecycle => lease' = v
      BY <1>1, <1>2, <2>1 DEF Kept
    <2>3. Stale(v)' => Unsettled'
      BY <1>1, <1>5, <2>1 DEF Kept, Stale, Open
    <2> QED BY <1>1, <2>1, <2>2, <2>3 DEF Kept
  <1>7. Unsettled' \/ retired' = ~Open'
    BY <1>1, <1>5 DEF SnapInv, GroupSettles, Open
  <1> QED BY <1>3, <1>4, <1>5, <1>6, <1>7 DEF SnapInv, GroupSettles

---------------------------------------------------------------------------
(* Changes and their events. *)

\* Rows of the group stay as they are, and new ones carry the key.
LogGrows ==
    /\ log' \in Seq(Row) /\ Len(log) <= Len(log')
    /\ \A i \in DOMAIN log : i \in DOMAIN log' /\ log'[i].kind = log[i].kind
    /\ \A i \in Nat : GroupRow(i) => log'[i].state = log[i].state
    /\ \A i \in DOMAIN log' : i \notin DOMAIN log /\ log'[i].kind = "group" =>
         i > Len(log) /\ log'[i].state = "keyed"

Rest == /\ watermark' = watermark /\ epoch' = epoch /\ retired' = retired
        /\ closedWith' = closedWith /\ shown' = shown /\ lease' = lease
        /\ token' = token /\ strict' = strict /\ UNCHANGED batchVars

LEMMA LogStays ==
    ASSUME SnapInv, log' = log
    PROVE  LogGrows
  <1>1. log \in Seq(Row) /\ Len(log) \in Nat
    BY LogIs DEF SnapInv, Types
  <1> QED BY <1>1 DEF LogGrows

LEMMA WriterWalks ==
    ASSUME SnapInv, NEW w \in Writers, Alone(w), Rest, LogGrows,
           data' \in Nat, data' >= data, flips' \in Nat, lost' \in BOOLEAN,
           Unsettled' \/ (flips' = flips /\ (lost => lost') /\ at[w] # "flipped")
    PROVE  SnapInv'
  <1> USE DEF SnapInv, Rest, batchVars
  <1>1. Types'
    BY DEF Types, Alone, LogGrows
  <1>2. \A v \in Workers : at'[v] = at[v] /\ mem'[v] = mem[v]
    BY ActorsAre DEF Alone
  <1>3. ShownFresh'
    <2>1. closedWith' <= data'
      BY DEF ShownFresh, Types
    <2>2. \A v \in Workers : Fresh(v)'
      BY <1>2 DEF ShownFresh, Fresh
    <2> QED BY <2>1, <2>2 DEF ShownFresh
  <1>4. Len(log) \in Nat /\ Len(log') \in Nat /\ DOMAIN log' = 1..Len(log') /\ DOMAIN log = 1..Len(log)
    BY LogIs, LenProperties DEF LogGrows
  <1>5. ASSUME NEW i \in Nat, GroupRow(i)'
        PROVE  \/ GroupRow(i) /\ log'[i].state = log[i].state
               \/ i > Len(log) /\ log'[i].state = "keyed"
    <2>1. CASE i \in DOMAIN log
      BY <1>5, <2>1 DEF LogGrows, GroupRow
    <2>2. CASE i \notin DOMAIN log
      BY <1>5, <2>2 DEF LogGrows, GroupRow
    <2> QED BY <2>1, <2>2
  <1>6. Rows'
    <2>1. watermark <= Len(log') /\ \A p \in Pollers : last[p] <= Len(log')
      BY <1>4 DEF LogGrows, GroupSettles, Rows, Types
    <2>2. \A p \in Pollers : \A k \in todo[p] : k \in DOMAIN log'
      BY <1>4 DEF LogGrows, GroupSettles, Rows, Types
    <2>3. \A i \in Nat : GroupRow(i)' => log'[i].state # "open"
      BY <1>5 DEF GroupSettles, Rows
    <2>4. ASSUME NEW i \in Nat, GroupRow(i)', log'[i].state = "keyed"
          PROVE  i > watermark /\ \A p \in Pollers : i > last[p]
      <3>1. CASE GroupRow(i) /\ log'[i].state = log[i].state
        BY <2>4, <3>1 DEF GroupSettles, Rows
      <3>2. CASE i > Len(log)
        BY <1>4, <3>2 DEF GroupSettles, Rows, Types
      <3> QED BY <1>5, <2>4, <3>1, <3>2
    <2> QED BY <2>1, <2>2, <2>3, <2>4 DEF Rows
  <1>7. flips' = flips => \A p \in Pollers : Owes(p) => Owes(p)'
    <2> SUFFICES ASSUME flips' = flips, NEW p \in Pollers, Owes(p) PROVE Owes(p)'
      OBVIOUS
    <2>1. at'[p] = at[p] /\ \A k \in todo[p] : GroupRow(k) => GroupRow(k)'
      BY <1>2, ActorsAre DEF LogGrows, GroupRow
    <2> QED BY <2>1 DEF Owes, Open
  <1>8. flips' = flips => \A i \in Nat : Pending(i) => Pending(i)'
    BY <1>7 DEF Pending, LogGrows, GroupRow
  <1>9. \/ Unsettled'
        \/ flips' = flips /\ (Unsettled => Unsettled')
    <2>1. ASSUME flips' = flips, lost => lost', at[w] # "flipped", Unsettled PROVE Unsettled'
      BY <1>8, <2>1, ActorsAre DEF Unsettled, Alone
    <2> QED BY <2>1
  <1>10. ASSUME NEW v \in Workers PROVE Kept(v)'
    <2>1. Kept(v) /\ at'[v] = at[v]
      BY <1>2, Tokens
    <2>2. Stale(v)' => Unsettled'
      BY <1>9, <2>1 DEF Kept, Stale, Open
    <2> QED BY <2>1, <2>2 DEF Kept
  <1>11. Unsettled' \/ retired' = ~Open'
    BY <1>9 DEF GroupSettles, Open
  <1> QED BY <1>1, <1>3, <1>6, <1>10, <1>11 DEF GroupSettles

\* An event that is written waits to be listed, on a row of its own or on an earlier one.
LEMMA Enqueued ==
    ASSUME SnapInv, NEW kind \in {"account", "group"}, NEW state \in {"open", "keyed"},
           kind = "group" => state = "keyed",
           Enqueue(kind, state), Rest
    PROVE  /\ LogGrows
           /\ kind = "group" => \E i \in Nat : Pending(i)'
  <1>1. Len(log) \in Nat /\ DOMAIN log = 1..Len(log) /\ log \in Seq(Row)
    BY LogIs DEF SnapInv, Types
  <1>2. CASE Keyed(kind)
    <2>1. log' = log /\ LogGrows
      BY <1>2, LogStays DEF Enqueue
    <2>2. ASSUME kind = "group" PROVE \E i \in Nat : Pending(i)'
      <3>1. PICK i \in DOMAIN log : log[i] = [kind |-> kind, state |-> "keyed"]
        BY <1>2 DEF Keyed
      <3>2. i \in Nat /\ GroupRow(i) /\ log[i].state = "keyed"
        BY <1>1, <2>2, <3>1 DEF GroupRow
      <3>3. i > watermark /\ \A p \in Pollers : i > last[p]
        BY <3>2 DEF SnapInv, GroupSettles, Rows
      <3>4. \A p \in Pollers : ~(i <= last'[p])
        BY <3>2, <3>3 DEF Rest, batchVars, SnapInv, Types
      <3>5. Pending(i)'
        BY <2>1, <3>2, <3>3, <3>4 DEF Pending, GroupRow, Rest
      <3> QED BY <3>2, <3>5
    <2> QED BY <2>1, <2>2
  <1>3. CASE ~Keyed(kind)
    <2> DEFINE row == [kind |-> kind, state |-> state]
    <2>1. log' = Append(log, row) /\ row \in Row
      BY <1>3 DEF Enqueue, Row
    <2>2. /\ log' \in Seq(Row) /\ Len(log') = Len(log) + 1
          /\ log'[Len(log) + 1] = row
          /\ \A i \in DOMAIN log : i \in DOMAIN log' /\ log'[i] = log[i]
          /\ \A i \in DOMAIN log' : i \in DOMAIN log \/ i = Len(log) + 1
      BY <2>1, LogAppended DEF SnapInv
    <2>3. LogGrows
      BY <1>1, <2>2 DEF LogGrows, GroupRow
    <2>4. PICK i \in Nat : i = Len(log) + 1
      BY <1>1
    <2>5. ASSUME kind = "group" PROVE Pending(i)'
      <3>1. i \in DOMAIN log' /\ log'[i] = row
        BY <1>1, <2>2, <2>4, LenProperties
      <3>2. GroupRow(i)' /\ log'[i].state = "keyed"
        BY <2>5, <3>1 DEF GroupRow
      <3>3. i > watermark' /\ \A p \in Pollers : ~(i <= last'[p])
        BY <1>1, <2>4 DEF SnapInv, GroupSettles, Rows, Types, Rest, batchVars
      <3> QED BY <3>2, <3>3 DEF Pending
    <2> QED BY <2>3, <2>5
  <1> QED BY <1>2, <1>3

LEMMA EditAccountKeeps ==
    ASSUME SnapInv, NEW w \in Writers, EditAccount(w)
    PROVE  SnapInv'
  <1>1. /\ at[w] = "idle" /\ data' = data + 1 /\ Goes(w, "edited") /\ log' = log /\ Rest
        /\ flips' = flips /\ lost' = lost /\ mem' = mem
    BY DEF EditAccount, cacheVars, workVars, Rest
  <1>2. Alone(w)
    BY <1>1, GoneAlone, ActorsAre DEF SnapInv, Places, Rest
  <1>3. data' \in Nat /\ data' >= data /\ flips' \in Nat /\ lost' \in BOOLEAN
    BY <1>1 DEF SnapInv, Types
  <1> QED BY <1>1, <1>2, <1>3, LogStays, WriterWalks

LEMMA SyncKeeps ==
    ASSUME SnapInv, NEW w \in Writers, SyncLoad(w) \/ SyncStore(w)
    PROVE  SnapInv'
  <1>1. /\ at[w] \in {"sync", "store"} /\ data' = data /\ log' = log /\ Rest
        /\ flips' = flips /\ lost' = lost
        /\ \E place \in {"store", "idle"} : Goes(w, place)
        /\ Loads(w) \/ mem' = [mem EXCEPT ![w] = 0]
    BY DEF SyncLoad, SyncStore, dbVars, cacheVars, Rest
  <1>2. Alone(w)
    BY <1>1, GoneAlone, ActorsAre DEF SnapInv, Places, Rest
  <1>3. data' \in Nat /\ data' >= data /\ flips' \in Nat /\ lost' \in BOOLEAN
    BY <1>1 DEF SnapInv, Types
  <1> QED BY <1>1, <1>2, <1>3, LogStays, WriterWalks

LEMMA FlipGroupKeeps ==
    ASSUME SnapInv, NEW w \in Writers, FlipGroup(w)
    PROVE  SnapInv'
  <1>1. /\ data' = data /\ Goes(w, "flipped") /\ log' = log /\ Rest
        /\ flips' = flips + 1 /\ lost' = lost /\ mem' = mem
    BY DEF FlipGroup, cacheVars, workVars, Rest
  <1>2. Alone(w) /\ at'[w] = "flipped"
    BY <1>1, GoneAlone, ActorsAre DEF SnapInv, Places, Rest
  <1>3. data' \in Nat /\ data' >= data /\ flips' \in Nat /\ lost' \in BOOLEAN
    BY <1>1 DEF SnapInv, Types
  <1>4. Unsettled'
    BY <1>2 DEF Unsettled
  <1> QED BY <1>1, <1>2, <1>3, <1>4, LogStays, WriterWalks

LEMMA AnnounceKeeps ==
    ASSUME SnapInv, NEW w \in Writers, Announce(w)
    PROVE  SnapInv'
  <1>1. /\ at[w] \in {"edited", "flipped"} /\ data' = data /\ Rest /\ flips' = flips /\ mem' = mem
        /\ \E place \in {"sync", "idle"} : Goes(w, place)
    BY DEF Announce, dbVars, cacheVars, workVars, Rest
  <1>2. Alone(w)
    BY <1>1, GoneAlone, ActorsAre DEF SnapInv, Places, Rest
  <1>3. data' \in Nat /\ data' >= data /\ flips' \in Nat
    BY <1>1 DEF SnapInv, Types
  <1>4. lost' \in BOOLEAN /\ (lost => lost')
    <2>1. lost \in BOOLEAN
      BY DEF SnapInv, Types
    <2>2. lost' = lost \/ lost' = (lost \/ at[w] = "flipped")
      BY DEF Announce
    <2>3. CASE lost' = lost
      BY <2>1, <2>3
    <2>4. CASE lost' = (lost \/ at[w] = "flipped")
      <3>1. CASE lost \/ at[w] = "flipped"
        BY <2>4, <3>1
      <3>2. CASE ~(lost \/ at[w] = "flipped")
        BY <2>4, <3>2
      <3> QED BY <3>1, <3>2
    <2> QED BY <2>2, <2>3, <2>4
  <1>5. CASE lost' = lost /\ Enqueue(IF at[w] = "edited" THEN "account" ELSE "group", "keyed")
    <2>1. CASE at[w] = "edited"
      BY <1>1, <1>2, <1>3, <1>4, <1>5, <2>1, Enqueued, WriterWalks
    <2>2. CASE at[w] = "flipped"
      <3>1. LogGrows /\ \E i \in Nat : Pending(i)'
        BY <1>1, <1>5, <2>2, Enqueued
      <3>2. Unsettled'
        BY <3>1 DEF Unsettled
      <3> QED BY <1>2, <1>1, <1>3, <1>4, <3>1, <3>2, WriterWalks
    <2> QED BY <1>1, <2>1, <2>2
  <1>6. CASE log' = log /\ lost' = (lost \/ at[w] = "flipped")
    <2>1. LogGrows
      BY <1>6, LogStays
    <2>2. CASE at[w] = "edited"
      BY <1>1, <1>2, <1>3, <1>4, <2>1, <2>2, WriterWalks
    <2>3. CASE at[w] = "flipped"
      <3>1. Unsettled'
        BY <1>6, <2>3 DEF Unsettled
      <3> QED BY <1>2, <1>1, <1>3, <1>4, <2>1, <3>1, WriterWalks
    <2> QED BY <1>1, <2>2, <2>3
  <1> QED BY <1>5, <1>6 DEF Announce

LEMMA BeginEditKeeps ==
    ASSUME SnapInv, NEW w \in Writers, BeginEdit(w)
    PROVE  SnapInv'
  <1>1. /\ at[w] = "idle" /\ data' = data /\ Rest /\ flips' = flips /\ lost' = lost /\ mem' = mem
        /\ \E place \in {"joined", "holding"} : Goes(w, place)
        /\ Enqueue("account", "open")
    BY DEF BeginEdit, dbVars, cacheVars, workVars, Rest
  <1>2. Alone(w)
    BY <1>1, GoneAlone, ActorsAre DEF SnapInv, Places, Rest
  <1>3. data' \in Nat /\ data' >= data /\ flips' \in Nat /\ lost' \in BOOLEAN
    BY <1>1 DEF SnapInv, Types
  <1>4. LogGrows
    BY <1>1, Enqueued
  <1> QED BY <1>1, <1>2, <1>3, <1>4, WriterWalks

LEMMA CommitEditKeeps ==
    ASSUME SnapInv, NEW w \in Writers, CommitEdit(w)
    PROVE  SnapInv'
  <1>1. /\ at[w] \in {"holding", "joined"} /\ data' = data + 1 /\ Rest /\ flips' = flips
        /\ lost' = lost /\ mem' = mem /\ Goes(w, "sync")
    BY DEF CommitEdit, cacheVars, workVars, Rest
  <1>2. Alone(w)
    BY <1>1, GoneAlone, ActorsAre DEF SnapInv, Places, Rest
  <1>3. data' \in Nat /\ data' >= data /\ flips' \in Nat /\ lost' \in BOOLEAN
    BY <1>1 DEF SnapInv, Types
  <1>4. LogGrows
    <2>1. CASE log' = log
      BY <2>1, LogStays
    <2>2. CASE Settle("keyed")
      <3>1. DOMAIN log' = DOMAIN log /\ log' = [i \in DOMAIN log |-> log'[i]]
        BY <2>2 DEF Settle
      <3>2. ASSUME NEW i \in DOMAIN log
            PROVE  /\ log'[i] \in Row /\ log'[i].kind = log[i].kind
                   /\ log[i].state # "open" => log'[i] = log[i]
        <4>1. log[i] \in Row
          BY LogIs DEF SnapInv
        <4>2. log'[i] = IF log[i].state = "open" THEN [log[i] EXCEPT !.state = "keyed"] ELSE log[i]
          BY <2>2 DEF Settle
        <4> QED BY <4>1, <4>2 DEF Row
      <3>3. log' \in Seq(Row) /\ Len(log') = Len(log) /\ Len(log) \in Nat
        BY <3>1, <3>2, LogMapped, LogIs DEF SnapInv
      <3>4. \A i \in Nat : GroupRow(i) => log'[i].state = log[i].state
        BY <3>2 DEF SnapInv, GroupSettles, Rows, GroupRow
      <3> QED BY <3>1, <3>2, <3>3, <3>4 DEF LogGrows
    <2> QED BY <2>1, <2>2 DEF CommitEdit
  <1> QED BY <1>1, <1>2, <1>3, <1>4, WriterWalks

---------------------------------------------------------------------------
(* The batches of the pollers. *)

\* A row listed gives its key back, so that a later event gets a later row.
LEMMA PollKeeps ==
    ASSUME SnapInv, NEW p \in Pollers, Poll(p)
    PROVE  SnapInv'
  <1> DEFINE rows == {i \in DOMAIN log : i > watermark /\ log[i].state \in {"keyed", "free"}}
  <1>1. /\ at[p] = "idle"
        /\ log' = [i \in DOMAIN log |-> IF i > watermark THEN ReleasedRow(log[i]) ELSE log[i]]
        /\ todo' = [todo EXCEPT ![p] = rows]
        /\ \E i \in rows : last' = [last EXCEPT ![p] = i]
        /\ Goes(p, "next")
        /\ data' = data /\ flips' = flips /\ watermark' = watermark /\ epoch' = epoch
        /\ retired' = retired /\ closedWith' = closedWith /\ lost' = lost /\ shown' = shown
        /\ lease' = lease /\ mem' = mem /\ token' = token /\ strict' = strict /\ seen' = seen
    BY DEF Poll, dbVars, cacheVars, workVars
  <1>2. /\ p \in Workers /\ p \in Actors /\ ~strict[p] /\ seen[p] = {}
        /\ Len(log) \in Nat /\ DOMAIN log = 1..Len(log)
    BY <1>1, ActorsAre, Tokens, LogIs DEF Kept, SnapInv
  <1>3. ASSUME NEW i \in DOMAIN log
        PROVE  /\ log'[i] \in Row /\ log'[i].kind = log[i].kind
               /\ log[i].state \in {"open", "gone"} => log'[i].state = log[i].state
               /\ log[i].state \in {"keyed", "free"} => log'[i].state \in {"keyed", "free"}
               /\ log'[i].state = "keyed" => log[i].state = "keyed" /\ ~(i > watermark)
    <2>1. log[i] \in Row
      BY LogIs DEF SnapInv
    <2>2. log'[i] = IF i > watermark THEN ReleasedRow(log[i]) ELSE log[i]
      BY <1>1
    <2> QED BY <2>1, <2>2 DEF ReleasedRow, Row
  <1>4. DOMAIN log' = DOMAIN log /\ log' \in Seq(Row) /\ Len(log') = Len(log)
    <2>1. DOMAIN log' = DOMAIN log /\ log' = [i \in DOMAIN log |-> log'[i]]
      BY <1>1
    <2> QED BY <1>3, <2>1, LogMapped DEF SnapInv
  <1>5. /\ at' \in [Actors -> Places] /\ at'[p] = "next"
        /\ \A b \in Actors : b # p => at'[b] = at[b]
    BY <1>1, <1>2, Gone DEF SnapInv, Places
  <1>6. /\ todo' \in [Pollers -> SUBSET Nat] /\ todo'[p] = rows
        /\ \A q \in Pollers : q # p => todo'[q] = todo[q]
    BY <1>1, <1>2 DEF SnapInv, Types
  <1>7. /\ last' \in [Pollers -> Nat] /\ last'[p] \in rows
        /\ \A q \in Pollers : q # p => last'[q] = last[q]
    BY <1>1, <1>2 DEF SnapInv, Types
  <1>8. Alone(p)
    BY <1>1, <1>5, <1>6, <1>7 DEF Alone, SnapInv, Types
  <1>9. Types'
    BY <1>1, <1>4, <1>8 DEF SnapInv, Types, Alone
  <1>10. ShownFresh'
    <2>1. ASSUME NEW v \in Workers PROVE Fresh(v)'
      BY <1>1, <1>2, <1>5, ActorsAre, Tokens DEF Fresh
    <2> QED BY <1>1, <2>1 DEF SnapInv, ShownFresh
  <1>11. \A i \in Nat : GroupRow(i)' <=> GroupRow(i)
    BY <1>3, <1>4 DEF GroupRow
  <1>12. Rows'
    <2>1. watermark' <= Len(log')
      BY <1>1, <1>4 DEF SnapInv, GroupSettles, Rows
    <2>2. \A q \in Pollers : last'[q] <= Len(log') /\ \A k \in todo'[q] : k \in DOMAIN log'
      BY <1>2, <1>4, <1>6, <1>7 DEF SnapInv, GroupSettles, Rows
    <2>3. \A i \in Nat : GroupRow(i)' => log'[i].state # "open"
      <3> SUFFICES ASSUME NEW i \in Nat, GroupRow(i) PROVE log'[i].state # "open"
        BY <1>11
      <3>1. i \in DOMAIN log /\ log[i].state # "open" /\ log[i] \in Row
        BY LogIs DEF SnapInv, GroupSettles, Rows, GroupRow
      <3> QED BY <1>3, <3>1 DEF Row
    <2>4. \A i \in Nat : ~(GroupRow(i)' /\ log'[i].state = "keyed")
      <3> SUFFICES ASSUME NEW i \in Nat, GroupRow(i), log'[i].state = "keyed" PROVE FALSE
        BY <1>11
      <3>1. i \in DOMAIN log /\ log[i].state = "keyed" /\ ~(i > watermark)
        BY <1>3 DEF GroupRow
      <3> QED BY <3>1 DEF SnapInv, GroupSettles, Rows
    <2> QED BY <2>1, <2>2, <2>3, <2>4 DEF Rows
  <1>13. ASSUME NEW i \in Nat, Pending(i) PROVE Pending(i)'
    <2>1. i \in DOMAIN log /\ GroupRow(i)' /\ i > watermark'
      BY <1>1, <1>11, <1>13 DEF Pending, GroupRow
    <2>2. log[i].state \in {"keyed", "free"}
      <3>1. log[i] \in Row /\ log[i].state # "gone" /\ log[i].state # "open"
        BY <1>13, <2>1, LogIs DEF Pending, SnapInv, GroupSettles, Rows
      <3> QED BY <3>1 DEF Row
    <2>3. log'[i].state # "gone"
      BY <1>3, <2>1, <2>2
    <2>4. Owes(p)'
      <3>1. i \in todo'[p]
        BY <1>1, <1>6, <2>1, <2>2
      <3> QED BY <1>1, <1>2, <1>5, <2>1, <3>1 DEF Owes
    <2>5. ASSUME NEW q \in Pollers, q # p, Owes(q) PROVE Owes(q)'
      <3>1. at'[q] = at[q] /\ todo'[q] = todo[q] /\ strict'[q] = strict[q] /\ seen'[q] = seen[q]
        BY <1>1, <1>5, <1>6, <2>5, ActorsAre
      <3>2. \A k \in todo[q] : k \in Nat
        BY DEF SnapInv, Types
      <3> QED BY <1>1, <1>11, <2>5, <3>1, <3>2 DEF Owes, Open
    <2>6. ASSUME NEW q \in Pollers, i <= last'[q] PROVE Owes(q)'
      BY <1>7, <1>13, <2>4, <2>5, <2>6 DEF Pending
    <2> QED BY <2>1, <2>3, <2>6 DEF Pending
  <1>14. (Unsettled => Unsettled') /\ \A v \in Workers : Kept(v)'
    BY <1>1, <1>2, <1>5, <1>8, <1>13, KeptOn DEF Lifecycle, Stale
  <1>15. Unsettled' \/ retired' = ~Open'
    BY <1>1, <1>14 DEF SnapInv, GroupSettles, Open
  <1> QED BY <1>9, <1>10, <1>12, <1>14, <1>15 DEF SnapInv, GroupSettles

\* A poller that has no rows left saw to every change of the group that it listed.
LEMMA ConsumeKeeps ==
    ASSUME SnapInv, NEW p \in Pollers, Consume(p)
    PROVE  SnapInv'
  <1>1. /\ at[p] = "next" /\ todo[p] = {} /\ watermark' = last[p] /\ Stops(p)
        /\ data' = data /\ flips' = flips /\ epoch' = epoch /\ retired' = retired
        /\ closedWith' = closedWith /\ lost' = lost /\ shown' = shown /\ lease' = lease
    BY DEF Consume, dbVars, cacheVars
  <1>2. PICK n \in 0..last[p] :
           log' = [i \in DOMAIN log |->
                     IF i <= n /\ log[i].state # "open"
                     THEN [log[i] EXCEPT !.state = "gone"] ELSE log[i]]
    BY DEF Consume
  <1>3. /\ p \in Workers /\ p \in Actors /\ last[p] \in Nat /\ last[p] <= Len(log)
        /\ n \in Nat /\ n <= last[p] /\ Len(log) \in Nat /\ DOMAIN log = 1..Len(log)
    BY ActorsAre, LogIs DEF SnapInv, Types, GroupSettles, Rows
  <1>4. ASSUME NEW i \in DOMAIN log
        PROVE  /\ log'[i] \in Row /\ log'[i].kind = log[i].kind
               /\ log'[i].state = log[i].state \/ (log'[i].state = "gone" /\ i <= n)
    <2>1. log[i] \in Row
      BY LogIs DEF SnapInv
    <2>2. log'[i] = IF i <= n /\ log[i].state # "open"
                    THEN [log[i] EXCEPT !.state = "gone"] ELSE log[i]
      BY <1>2
    <2> QED BY <2>1, <2>2 DEF Row
  <1>5. DOMAIN log' = DOMAIN log /\ log' \in Seq(Row) /\ Len(log') = Len(log)
    <2>1. DOMAIN log' = DOMAIN log /\ log' = [i \in DOMAIN log |-> log'[i]]
      BY <1>2
    <2> QED BY <1>4, <2>1, LogMapped DEF SnapInv
  <1>6. /\ Alone(p) /\ at'[p] = "idle" /\ token'[p] = 0 /\ ~strict'[p]
        /\ todo'[p] = {} /\ last'[p] = 0 /\ seen'[p] = {}
    BY <1>1, <1>3, StopsAlone DEF SnapInv
  <1>7. Types'
    BY <1>1, <1>3, <1>5, <1>6 DEF SnapInv, Types, Alone
  <1>8. ShownFresh'
    <2>1. ASSUME NEW v \in Workers PROVE Fresh(v)'
      <3>1. CASE v = p
        BY <1>1, <1>6, <3>1, Tokens DEF Fresh
      <3>2. CASE v # p
        BY <1>1, <1>6, <3>2, ActorsAre, Tokens DEF Fresh, Alone
      <3> QED BY <3>1, <3>2
    <2> QED BY <1>1, <2>1 DEF SnapInv, ShownFresh
  <1>9. \A i \in Nat : GroupRow(i)' <=> GroupRow(i)
    BY <1>4, <1>5 DEF GroupRow
  <1>10. Rows'
    <2>1. watermark' <= Len(log')
      BY <1>1, <1>3, <1>5
    <2>2. ASSUME NEW q \in Pollers
          PROVE  last'[q] <= Len(log') /\ \A k \in todo'[q] : k \in DOMAIN log'
      <3>1. CASE q = p
        BY <1>3, <1>5, <1>6, <3>1
      <3>2. CASE q # p
        BY <1>5, <1>6, <3>2 DEF Alone, SnapInv, GroupSettles, Rows
      <3> QED BY <3>1, <3>2
    <2>3. \A i \in Nat : GroupRow(i)' => log'[i].state # "open"
      BY <1>4, <1>9 DEF SnapInv, GroupSettles, Rows, GroupRow
    <2>4. ASSUME NEW i \in Nat, GroupRow(i)', log'[i].state = "keyed"
          PROVE  i > watermark' /\ \A q \in Pollers : i > last'[q]
      <3>1. GroupRow(i) /\ log[i].state = "keyed"
        BY <1>4, <1>9, <2>4 DEF GroupRow
      <3>2. i > watermark /\ \A q \in Pollers : i > last[q]
        BY <3>1 DEF SnapInv, GroupSettles, Rows
      <3>3. ASSUME NEW q \in Pollers PROVE i > last'[q]
        BY <1>3, <1>6, <3>2 DEF Alone
      <3> QED BY <1>1, <3>2, <3>3
    <2> QED BY <2>1, <2>2, <2>3, <2>4 DEF Rows
  <1>11. ASSUME NEW i \in Nat, Pending(i) PROVE Pending(i)'
    <2>1. ~Owes(p)
      BY <1>1 DEF Owes
    <2>2. i > last[p]
      BY <1>3, <1>11, <2>1 DEF Pending
    <2>3. GroupRow(i)' /\ i > watermark' /\ log'[i].state # "gone"
      BY <1>1, <1>3, <1>4, <1>9, <1>11, <2>2 DEF Pending, GroupRow
    <2>4. ASSUME NEW q \in Pollers, q # p, Owes(q) PROVE Owes(q)'
      <3>1. at'[q] = at[q] /\ todo'[q] = todo[q] /\ strict'[q] = strict[q] /\ seen'[q] = seen[q]
        BY <1>6, <2>4, ActorsAre DEF Alone
      <3>2. \A k \in todo[q] : k \in Nat
        BY DEF SnapInv, Types
      <3> QED BY <1>1, <1>9, <2>4, <3>1, <3>2 DEF Owes, Open
    <2>5. ASSUME NEW q \in Pollers, i <= last'[q] PROVE Owes(q)'
      <3>1. q # p
        BY <1>3, <1>6, <2>2, <2>5
      <3>2. i <= last[q]
        BY <1>6, <2>5, <3>1 DEF Alone
      <3> QED BY <1>11, <2>4, <3>1, <3>2 DEF Pending
    <2> QED BY <2>3, <2>5 DEF Pending
  <1>12. (Unsettled => Unsettled') /\ \A v \in Workers : Kept(v)'
    BY <1>1, <1>3, <1>6, <1>11, KeptOn DEF Lifecycle, Stale
  <1>13. Unsettled' \/ retired' = ~Open'
    BY <1>1, <1>12 DEF SnapInv, GroupSettles, Open
  <1> QED BY <1>7, <1>8, <1>10, <1>12, <1>13 DEF SnapInv, GroupSettles

---------------------------------------------------------------------------
(* The invariant. *)

LEMMA SnapInitially == SnapInit => SnapInv
  <1> SUFFICES ASSUME SnapInit PROVE SnapInv
    OBVIOUS
  <1>1. Types
    <2>1. log \in Seq(Row)
      BY DEF SnapInit
    <2> QED BY <2>1 DEF SnapInit, Types, Places
  <1>2. ShownFresh
    BY ActorsAre DEF SnapInit, ShownFresh, Fresh
  <1>3. Rows
    <2>1. DOMAIN log = {} /\ Len(log) = 0
      BY DEF SnapInit
    <2> QED BY <2>1 DEF SnapInit, Rows, GroupRow
  <1>4. ASSUME NEW w \in Workers PROVE Kept(w)
    BY ActorsAre DEF SnapInit, Kept, Lifecycle, Stale
  <1>5. retired = ~Open
    <2>1. flips = 0 /\ retired = FALSE
      BY DEF SnapInit
    <2>2. Open
      BY <2>1 DEF Open
    <2> QED BY <2>1, <2>2
  <1> QED BY <1>1, <1>2, <1>3, <1>4, <1>5 DEF SnapInv, GroupSettles

LEMMA SnapSteps == SnapInv /\ [SnapNext]_snapVars => SnapInv'
  <1> SUFFICES ASSUME SnapInv, [SnapNext]_snapVars PROVE SnapInv'
    OBVIOUS
  <1>1. ASSUME NEW w \in Writers, EditAccount(w) \/ FlipGroup(w) \/ BeginEdit(w) \/ WriterStep(w)
        PROVE  SnapInv'
    BY <1>1, EditAccountKeeps, FlipGroupKeeps, BeginEditKeeps, AnnounceKeeps, CommitEditKeeps, SyncKeeps
    DEF WriterStep
  <1>2. ASSUME NEW p \in Pollers, PollerStep(p) PROVE SnapInv'
    BY <1>2, PollKeeps, NextEventKeeps, StoreDetailsKeeps, ConsumeKeeps DEF PollerStep
  <1>3. ASSUME NEW r \in Readers, MissSnapshot(r) PROVE SnapInv'
    BY <1>3, StartsKeep, ActorsAre
  <1>4. ASSUME NEW b \in Rebuilders, RebuildStep(b) PROVE SnapInv'
    BY <1>4, StartsKeep, ActorsAre
  <1>5. ASSUME NEW w \in Workers, WriteStep(w) PROVE SnapInv'
    BY <1>5, CaptureTokenKeeps, LockBucketKeeps, LoadAccountsKeeps, AllocateVersionKeeps,
       ActivateSnapshotKeeps DEF WriteStep
  <1>6. ASSUME NEW w \in Pollers \cup Rebuilders, LifecycleStep(w) \/ Die(w) PROVE SnapInv'
    <2>1. w \in Workers
      BY ActorsAre
    <2> QED BY <1>6, <2>1, TakeLeaseKeeps, ReadGroupKeeps, RetireBucketKeeps, ReopenBucketKeeps,
               ReleaseLeaseKeeps, DieKeeps DEF LifecycleStep
  <1>7. CASE LockLapses \/ LeaseLapses
    BY <1>7, LapseKeeps
  <1>8. CASE UNCHANGED snapVars
    <2>1. UNCHANGED <<dbVars, log, watermark, cacheVars, at, workVars, batchVars, lost>>
      BY <1>8 DEF snapVars
    <2>2. /\ data' = data /\ flips' = flips /\ log' = log /\ watermark' = watermark
          /\ epoch' = epoch /\ retired' = retired /\ closedWith' = closedWith /\ lost' = lost
          /\ shown' = shown /\ lease' = lease /\ at' = at /\ mem' = mem /\ token' = token
          /\ strict' = strict /\ todo' = todo /\ last' = last /\ seen' = seen
      BY <2>1 DEF dbVars, cacheVars, workVars, batchVars
    <2>3. Types' /\ ShownFresh'
      BY <2>2 DEF SnapInv, Types, ShownFresh, Fresh
    <2>4. (Unsettled => Unsettled') /\ Rows'
      BY <2>2 DEF SnapInv, GroupSettles, Rows, Unsettled, Pending, Owes, Open, GroupRow
    <2>5. \A v \in Workers : Kept(v)'
      BY <2>2, <2>4 DEF SnapInv, GroupSettles, Kept, Stale, Open
    <2>6. Unsettled' \/ retired' = ~Open'
      BY <2>2, <2>4 DEF SnapInv, GroupSettles, Open
    <2> QED BY <2>3, <2>4, <2>5, <2>6 DEF SnapInv, GroupSettles
  <1> QED BY <1>1, <1>2, <1>3, <1>4, <1>5, <1>6, <1>7, <1>8 DEF SnapNext

\* What a worker writes under the bucket's epoch is never older than the last time the
\* bucket was retired, and the scripts refuse what was captured before.
THEOREM SnapshotFreshSinceRetired == SnapSpec => []FreshSinceRetired
  <1>1. SnapInv => FreshSinceRetired
    BY DEF SnapInv, ShownFresh, FreshSinceRetired
  <1> QED BY <1>1, SnapInitially, SnapSteps, PTL DEF SnapSpec

\* While a change of the group is not in the bucket's mark, its event is on its way: it is
\* still to be written, or waits above the watermark, whoever else lists and consumes.
THEOREM SnapshotGroupFollows == SnapSpec => []GroupFollows
  <1>1. SnapInv => GroupFollows
    BY DEF SnapInv, GroupSettles, Unsettled, Pending, GroupRow, GroupFollows
  <1> QED BY <1>1, SnapInitially, SnapSteps, PTL DEF SnapSpec
=============================================================================
