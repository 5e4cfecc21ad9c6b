------------------------- MODULE ConcurrencySlotsProofs -------------------------
(***************************************************************************)
(* Proofs about the concurrency slots of one user, for any number of       *)
(* requests, calls, processes and failures.  Whoever lost a slot to the    *)
(* start of another process (CleanSlots) or a lease to time (LeaseMissed)  *)
(* is left out of the counts: nothing else takes a count away.             *)
(***************************************************************************)
EXTENDS ConcurrencySlots, FiniteSetTheorems, TLAPS

Places ==
    {"idle", "acquire", "wait", "touch", "count", "uncount", "refresh", "reindex", "hold",
     "release", "lease", "upstream", "talk", "unlease", "end"}

Types ==
    /\ at \in [Clients -> Places]
    /\ replica \in [Replicas -> {"down", "slots", "waits", "index", "up"}]
    /\ granted \subseteq Clients /\ open \subseteq Clients /\ queued \subseteq Clients
    /\ waits \in Nat /\ missed \in Nat
    /\ IsFiniteSet(slots) /\ IsFiniteSet(live) /\ IsFiniteSet(queued)

\* Where a request is says what it was told.
Told(r) ==
    /\ at[r] = "lease" => r \in granted
    /\ at[r] = "release" => r \notin granted
    /\ at[r] = "unlease" => r \notin open
    /\ at[r] \in {"wait", "uncount"} => r \in queued
    /\ at[r] = "touch" => r \in granted \cup queued
    /\ at[r] \in {"idle", "acquire", "count"} => r \notin queued

\* A process that is not up has no requests.
Served(r) ==
    replica[Home[r]] # "up" =>
      at[r] \in {"idle", "end"} /\ r \notin granted /\ r \notin open /\ r \notin queued

Placed == \A r \in Clients : Told(r) /\ Served(r)

\* What counts, those that lost it left aside; an exchange counts once.
Counted == (CurrentSlots \cup CurrentLeases) \ lost

Room == Cardinality(Counted) <= Limit

Queue == waits <= QueueLimit /\ Cardinality(queued) <= waits + missed

SlotInv == Types /\ Placed /\ HeldIsCounted /\ Room /\ Queue

---------------------------------------------------------------------------
(* Sets and the queue. *)

LEMMA Limits == Limit \in Nat /\ QueueLimit \in Nat /\ QueueLimit > 0 /\ Home \in [Clients -> Replicas]
  BY SlotsAssumption DEF SlotsAssumption

LEMMA CurrentFinite ==
    ASSUME Types
    PROVE  /\ IsFiniteSet(CurrentSlots) /\ IsFiniteSet(CurrentLeases)
           /\ Cardinality(CurrentSlots) \in Nat /\ Cardinality(CurrentLeases) \in Nat
           /\ IsFiniteSet(Counted)
           /\ Cardinality(queued) \in Nat
  <1>1. IsFiniteSet(CurrentSlots) /\ IsFiniteSet(CurrentLeases)
    BY FS_Subset DEF Types, CurrentSlots, CurrentLeases
  <1>2. IsFiniteSet(CurrentSlots \cup CurrentLeases)
    BY <1>1, FS_Union
  <1>3. IsFiniteSet(Counted)
    BY <1>2, FS_Subset DEF Counted
  <1> QED BY <1>1, <1>3, FS_CardinalityType DEF Types

\* Nothing more counts.
LEMMA RoomKept ==
    ASSUME Types, Room, Counted' \subseteq Counted
    PROVE  Room'
  <1> DEFINE T == Counted'
  <1>1. IsFiniteSet(Counted)
    BY CurrentFinite
  <1>2. Cardinality(T) <= Cardinality(Counted) /\ IsFiniteSet(T)
    BY <1>1, FS_Subset
  <1>3. Cardinality(T) \in Nat /\ Cardinality(Counted) \in Nat
    BY <1>1, <1>2, FS_CardinalityType
  <1> QED BY <1>2, <1>3, Limits DEF Room

\* One is added while there is a free slot.
LEMMA RoomTaken ==
    ASSUME Types, FreeSlot, NEW r,
           CurrentSlots' = CurrentSlots \cup {r}, CurrentLeases' = CurrentLeases
    PROVE  Room'
  <1> DEFINE C == CurrentSlots
             L == CurrentLeases
             T == C \cup {r}
             K == Counted'
  <1>1. /\ IsFiniteSet(C) /\ IsFiniteSet(L)
        /\ Cardinality(C) \in Nat /\ Cardinality(L) \in Nat
    BY CurrentFinite
  <1>2. IsFiniteSet(T) /\ Cardinality(T) <= Cardinality(C) + 1
    BY <1>1, FS_AddElement
  <1>3. Cardinality(T) \in Nat
    BY <1>2, FS_CardinalityType
  <1>4. /\ IsFiniteSet(T \cup L)
        /\ Cardinality(T \cup L) = Cardinality(T) + Cardinality(L) - Cardinality(T \cap L)
        /\ IsFiniteSet(T \cap L)
    BY <1>1, <1>2, FS_Union, FS_Intersection
  <1>5. Cardinality(T \cap L) \in Nat /\ Cardinality(T \cup L) \in Nat
    BY <1>4, FS_CardinalityType
  <1>6. Cardinality(C) + Cardinality(L) < Limit
    BY DEF FreeSlot
  <1>7. K \subseteq T \cup L
    BY DEF Counted
  <1> HIDE DEF C, L, T, K
  <1>8. IsFiniteSet(K) /\ Cardinality(K) <= Cardinality(T \cup L)
    BY <1>4, <1>7, FS_Subset
  <1>9. Cardinality(K) \in Nat
    BY <1>8, FS_CardinalityType
  <1>10. Cardinality(K) <= Limit
    BY <1>1, <1>2, <1>3, <1>4, <1>5, <1>6, <1>8, <1>9, Limits
  <1> QED BY <1>10 DEF K, Room

\* The queue does not grow, and its counter does not change.
LEMMA QueueKept ==
    ASSUME Types, Queue, missed' = missed, waits' = waits, queued' \subseteq queued
    PROVE  Queue' /\ IsFiniteSet(queued')
  <1>1. IsFiniteSet(queued') /\ Cardinality(queued') <= Cardinality(queued)
    BY FS_Subset DEF Types
  <1>2. Cardinality(queued') \in Nat /\ Cardinality(queued) \in Nat
    BY <1>1, FS_CardinalityType DEF Types
  <1> QED BY <1>1, <1>2 DEF Queue, Types

\* Its counter is deleted, and the queue, if it is not empty, recorded as missed.
LEMMA QueueForgotten ==
    ASSUME Types, Queue, waits' = 0, queued' = queued,
           missed' = missed + Cardinality(queued) \/ (missed' = missed /\ queued = {})
    PROVE  Queue' /\ missed' \in Nat
  <1>1. Cardinality(queued) \in Nat /\ missed \in Nat /\ QueueLimit \in Nat
    BY CurrentFinite, Limits DEF Types
  <1>2. CASE missed' = missed + Cardinality(queued)
    BY <1>1, <1>2 DEF Queue
  <1>3. CASE missed' = missed /\ queued = {}
    BY <1>1, <1>3, FS_EmptySet DEF Queue
  <1> QED BY <1>2, <1>3

---------------------------------------------------------------------------
(* A step of one request. *)

Within(T, r, S) == T = S \/ T = S \cup {r} \/ T = S \ {r}

LEMMA ClientMoves ==
    ASSUME Types, Placed, NEW r \in Clients, NEW place \in Places, Goes(r, place),
           replica' = replica, replica[Home[r]] = "up",
           Within(granted', r, granted), Within(open', r, open), Within(queued', r, queued),
           Told(r)'
    PROVE  /\ Placed'
           /\ at' \in [Clients -> Places] /\ at'[r] = place
           /\ granted' \subseteq Clients /\ open' \subseteq Clients /\ queued' \subseteq Clients
  <1>1. /\ at' \in [Clients -> Places] /\ at'[r] = place
        /\ \A q \in Clients : q # r => at'[q] = at[q]
    BY DEF Types, Goes
  <1>2. \A q \in Clients : q # r => /\ q \in granted' <=> q \in granted
                                    /\ q \in open' <=> q \in open
                                    /\ q \in queued' <=> q \in queued
    BY DEF Within
  <1>3. \A q \in Clients : q # r => Told(q)' /\ Served(q)'
    BY <1>1, <1>2 DEF Placed, Told, Served
  <1>4. Served(r)'
    BY DEF Served
  <1>5. granted' \subseteq Clients /\ open' \subseteq Clients /\ queued' \subseteq Clients
    BY DEF Types, Within
  <1> QED BY <1>1, <1>3, <1>4, <1>5 DEF Placed

\* Who is not idle and has not ended is served.
LEMMA Up ==
    ASSUME Placed, NEW r \in Clients, at[r] \notin {"idle", "end"}
    PROVE  replica[Home[r]] = "up"
  BY DEF Placed, Served

(* A step that leaves the sets of slots and leases alone, but those of the *)
(* requests, and the queue.                                                *)
LEMMA ClientWalks ==
    ASSUME SlotInv, NEW r \in Clients, NEW place \in Places, Goes(r, place),
           replica' = replica, replica[Home[r]] = "up",
           CurrentSlots' \subseteq CurrentSlots, CurrentLeases' \subseteq CurrentLeases,
           IsFiniteSet(slots'), IsFiniteSet(live'), HeldIsCounted',
           Within(granted', r, granted), Within(open', r, open),
           waits' = waits, queued' = queued, missed' = missed, lost' = lost,
           Told(r)'
    PROVE  SlotInv'
  <1> USE DEF SlotInv
  <1>1. Within(queued', r, queued)
    BY DEF Within
  <1>2. /\ Placed' /\ at' \in [Clients -> Places]
        /\ granted' \subseteq Clients /\ open' \subseteq Clients /\ queued' \subseteq Clients
    BY <1>1, ClientMoves
  <1>3. Room'
    BY RoomKept DEF Counted
  <1>4. Queue'
    BY QueueKept
  <1>5. Types'
    BY <1>2 DEF Types
  <1> QED BY <1>2, <1>3, <1>4, <1>5

LEMMA RequestStarts ==
    ASSUME SlotInv, NEW r \in Clients, StartRequest(r) PROVE SlotInv'
  <1>1. /\ at[r] = "idle" /\ replica[Home[r]] = "up" /\ Goes(r, "acquire") /\ replica' = replica
        /\ slots' = slots /\ oldSlots' = oldSlots /\ live' = live /\ oldLeases' = oldLeases
        /\ granted' = granted /\ open' = open /\ waits' = waits /\ queued' = queued
        /\ missed' = missed /\ lost' = lost
    BY DEF StartRequest, redisVars, setVars, OthersOfProcess
  <1>2. Told(r)'
    BY <1>1 DEF SlotInv, Types, Placed, Told, Goes
  <1> QED BY <1>1, <1>2, ClientWalks DEF SlotInv, Types, Places, Within, HeldIsCounted,
                                         CurrentSlots, CurrentLeases

LEMMA Purged ==
    ASSUME Types
    PROVE  /\ \A r : PurgeSlots({r}) => IsFiniteSet(slots') /\ CurrentSlots' = CurrentSlots \cup {r}
           /\ PurgeSlots({}) => IsFiniteSet(slots') /\ CurrentSlots' = CurrentSlots
           /\ \A c : PurgeLeases({c}) => IsFiniteSet(live') /\ CurrentLeases' = CurrentLeases \cup {c}
           /\ PurgeLeases({}) => IsFiniteSet(live') /\ CurrentLeases' = CurrentLeases
  <1>1. IsFiniteSet(CurrentSlots) /\ IsFiniteSet(CurrentLeases)
    BY CurrentFinite
  <1>2. \A r : IsFiniteSet(CurrentSlots \cup {r}) /\ IsFiniteSet(CurrentLeases \cup {r})
    BY <1>1, FS_AddElement
  <1>3. \A r : PurgeSlots({r}) => IsFiniteSet(slots') /\ CurrentSlots' = CurrentSlots \cup {r}
    BY <1>2 DEF PurgeSlots, CurrentSlots
  <1>4. PurgeSlots({}) => IsFiniteSet(slots') /\ CurrentSlots' = CurrentSlots
    BY <1>1 DEF PurgeSlots, CurrentSlots
  <1>5. \A c : PurgeLeases({c}) => IsFiniteSet(live') /\ CurrentLeases' = CurrentLeases \cup {c}
    BY <1>2 DEF PurgeLeases, CurrentLeases
  <1>6. PurgeLeases({}) => IsFiniteSet(live') /\ CurrentLeases' = CurrentLeases
    BY <1>1 DEF PurgeLeases, CurrentLeases
  <1> QED BY <1>3, <1>4, <1>5, <1>6

\* A slot was taken, whether or not the request was told.
LEMMA SlotTaken ==
    ASSUME SlotInv, NEW r \in Clients, NEW place \in Places, Goes(r, place),
           FreeSlot, PurgeSlots({r}), PurgeLeases({}),
           replica' = replica, replica[Home[r]] = "up",
           granted' \in {granted, granted \cup {r}}, open' = open,
           waits' = waits, queued' = queued, missed' = missed, lost' = lost,
           Told(r)'
    PROVE  SlotInv'
  <1> USE DEF SlotInv
  <1>1. /\ Placed' /\ at' \in [Clients -> Places]
        /\ granted' \subseteq Clients /\ open' \subseteq Clients /\ queued' \subseteq Clients
    BY ClientMoves DEF Within
  <1>2. /\ IsFiniteSet(slots') /\ CurrentSlots' = CurrentSlots \cup {r}
        /\ IsFiniteSet(live') /\ CurrentLeases' = CurrentLeases
    BY Purged
  <1>3. Room'
    BY <1>2, RoomTaken
  <1>4. Queue'
    BY QueueKept
  <1>5. Types'
    BY <1>1, <1>2 DEF Types
  <1>6. HeldIsCounted'
    BY <1>2 DEF HeldIsCounted
  <1> QED BY <1>1, <1>3, <1>4, <1>5, <1>6

LEMMA SlotAcquired ==
    ASSUME SlotInv, NEW r \in Clients, AcquireSlot(r) PROVE SlotInv'
  <1>1. /\ at[r] \in {"acquire", "wait"} /\ replica' = replica
        /\ open' = open /\ waits' = waits /\ queued' = queued
        /\ missed' = missed /\ lost' = lost
    BY DEF AcquireSlot, OthersOfProcess
  <1>2. replica[Home[r]] = "up"
    BY <1>1, Up DEF SlotInv
  <1>3. at[r] = "wait" <=> r \in queued
    BY <1>1 DEF SlotInv, Placed, Told
  <1>4. AfterError(r) \in {"uncount", "end"} /\ (AfterError(r) = "uncount" => r \in queued)
    BY DEF AfterError
  <1>5. /\ AfterRefusal(r) \in {"wait", "end", "count"}
        /\ AfterRefusal(r) = "wait" <=> r \in queued
    BY <1>3 DEF AfterRefusal
  <1>6. at \in [Clients -> Places]
    BY DEF SlotInv, Types
  <1>7. CASE /\ FreeSlot /\ PurgeSlots({r}) /\ PurgeLeases({})
             /\ granted' = granted \cup {r} /\ Goes(r, "touch") /\ NoFault
    <2>1. Told(r)'
      BY <1>6, <1>7 DEF Told, Goes
    <2> QED BY <1>1, <1>2, <1>7, <2>1, SlotTaken DEF Places
  <1>8. CASE /\ FreeSlot /\ PurgeSlots({r}) /\ PurgeLeases({})
             /\ granted' = granted /\ Goes(r, AfterError(r)) /\ Fault("answer")
    <2>1. Told(r)'
      BY <1>1, <1>4, <1>6, <1>8 DEF Told, Goes
    <2>2. AfterError(r) \in Places
      BY <1>4 DEF Places
    <2> QED BY <1>1, <1>2, <1>8, <2>1, <2>2, SlotTaken
  <1>9. CASE /\ PurgeSlots({}) /\ PurgeLeases({}) /\ Goes(r, AfterRefusal(r))
             /\ granted' = granted /\ NoFault
    <2>1. Told(r)'
      BY <1>1, <1>5, <1>6, <1>9 DEF Told, Goes
    <2>2. AfterRefusal(r) \in Places
      BY <1>5 DEF Places
    <2>3. /\ CurrentSlots' = CurrentSlots /\ CurrentLeases' = CurrentLeases
          /\ IsFiniteSet(slots') /\ IsFiniteSet(live')
      BY <1>9, Purged DEF SlotInv
    <2>4. HeldIsCounted'
      BY <1>1, <1>9, <2>3 DEF SlotInv, HeldIsCounted
    <2> QED BY <1>1, <1>2, <1>9, <2>1, <2>2, <2>3, <2>4, ClientWalks DEF Within
  <1>10. CASE /\ Goes(r, AfterError(r)) /\ UNCHANGED <<setVars, granted>> /\ Fault("store")
    <2>1. Told(r)'
      BY <1>1, <1>4, <1>6, <1>10 DEF Told, Goes
    <2>2. AfterError(r) \in Places
      BY <1>4 DEF Places
    <2>3. /\ CurrentSlots' = CurrentSlots /\ CurrentLeases' = CurrentLeases
          /\ IsFiniteSet(slots') /\ IsFiniteSet(live')
      BY <1>10 DEF SlotInv, Types, CurrentSlots, CurrentLeases, setVars
    <2>4. HeldIsCounted'
      BY <1>1, <1>10, <2>3 DEF SlotInv, HeldIsCounted
    <2> QED BY <1>1, <1>2, <1>10, <2>1, <2>2, <2>3, <2>4, ClientWalks DEF Within
  <1> QED BY <1>7, <1>8, <1>9, <1>10 DEF AcquireSlot

(* Steps that touch neither the sets nor the counter: the index, the end   *)
(* of a request, of a call, and of the patience of a client.               *)
LEMMA RequestGoes ==
    ASSUME SlotInv, NEW r \in Clients,
           Touch(r) \/ GiveUp(r) \/ Reindex(r) \/ EndRequest(r) \/ CreateCall(r) \/ EndCall(r)
    PROVE  SlotInv'
  <1>1. /\ at[r] \notin {"idle", "end"} /\ replica' = replica
        /\ slots' = slots /\ oldSlots' = oldSlots /\ live' = live /\ oldLeases' = oldLeases
        /\ waits' = waits /\ queued' = queued
        /\ granted' \in {granted, granted \ {r}} /\ open' \in {open, open \ {r}}
    BY DEF Touch, GiveUp, Reindex, EndRequest, CreateCall, EndCall, redisVars, setVars,
           OthersOfProcess, OthersOfCall
  <1>2. replica[Home[r]] = "up"
    BY <1>1, Up DEF SlotInv
  <1>3. missed' = missed /\ lost' = lost
    BY DEF Touch, GiveUp, Reindex, EndRequest, CreateCall, EndCall, OthersOfProcess, OthersOfCall
  <1>4. PICK place \in Places :
          /\ Goes(r, place)
          /\ place = "lease" => r \in granted /\ granted' = granted
          /\ place = "release" => granted' = granted \ {r}
          /\ place = "unlease" => open' = open \ {r}
          /\ place \in {"wait", "uncount"} => r \in queued
          /\ place \notin {"touch", "idle", "acquire", "count"}
    <2>1. CASE Touch(r)
      BY <2>1 DEF Touch, AfterGrant, Places, SlotInv, Placed, Told
    <2>2. CASE GiveUp(r)
      BY <2>2 DEF GiveUp, Places, SlotInv, Placed, Told
    <2>3. CASE Reindex(r)
      BY <2>3 DEF Reindex, AfterRefresh, Places
    <2>4. CASE EndRequest(r) \/ CreateCall(r) \/ EndCall(r)
      BY <2>4 DEF EndRequest, CreateCall, EndCall, Places
    <2> QED BY <2>1, <2>2, <2>3, <2>4
  <1>5. Told(r)'
    BY <1>1, <1>4 DEF SlotInv, Types, Told, Goes
  <1>6. /\ CurrentSlots' = CurrentSlots /\ CurrentLeases' = CurrentLeases
        /\ IsFiniteSet(slots') /\ IsFiniteSet(live')
    BY <1>1 DEF SlotInv, Types, CurrentSlots, CurrentLeases
  <1>7. HeldIsCounted'
    BY <1>1, <1>3, <1>6 DEF SlotInv, HeldIsCounted
  <1> QED BY <1>1, <1>2, <1>3, <1>4, <1>5, <1>6, <1>7, ClientWalks DEF Within

\* A slot, or only what is over, is given back; the leases stay.
LEMMA SlotsGivenBack ==
    ASSUME SlotInv, NEW r \in Clients, ReadLoad(r) \/ ReleaseSlot(r) PROVE SlotInv'
  <1>1. /\ at[r] \notin {"idle", "end"} /\ replica' = replica
        /\ live' = live /\ oldLeases' = oldLeases /\ waits' = waits
        /\ queued' = queued /\ granted' = granted /\ open' = open
    BY DEF ReadLoad, ReleaseSlot, OthersOfProcess
  <1>2. replica[Home[r]] = "up"
    BY <1>1, Up DEF SlotInv
  <1>3. missed' = missed /\ lost' = lost
    BY DEF ReadLoad, ReleaseSlot, OthersOfProcess
  <1>4. PICK place \in {"reindex", "refresh", "hold", "talk", "end"} : Goes(r, place)
    BY DEF ReadLoad, ReleaseSlot, AfterRefresh
  <1>5. Told(r)'
    BY <1>4 DEF SlotInv, Types, Told, Goes
  <1>6. /\ CurrentSlots' \subseteq CurrentSlots /\ IsFiniteSet(slots')
        /\ granted \ lost \subseteq CurrentSlots'
    <2>1. CASE ReadLoad(r) /\ PurgeSlots({})
      BY <2>1, Purged DEF SlotInv, HeldIsCounted
    <2>2. CASE slots' = slots /\ oldSlots' = oldSlots
      BY <2>2 DEF SlotInv, Types, HeldIsCounted, CurrentSlots
    <2>3. CASE ReleaseSlot(r) /\ slots' = slots \ {r} /\ oldSlots' = oldSlots \ {r}
      <3>1. CurrentSlots' = CurrentSlots \ {r}
        BY <2>3 DEF CurrentSlots
      <3>2. r \notin granted
        BY <2>3 DEF ReleaseSlot, SlotInv, Placed, Told
      <3>3. IsFiniteSet(slots \ {r})
        BY FS_RemoveElement DEF SlotInv, Types
      <3> QED BY <2>3, <3>1, <3>2, <3>3 DEF SlotInv, HeldIsCounted
    <2> QED BY <2>1, <2>2, <2>3 DEF ReadLoad, ReleaseSlot
  <1>7. HeldIsCounted' /\ CurrentLeases' = CurrentLeases /\ IsFiniteSet(live')
    BY <1>1, <1>3, <1>6 DEF SlotInv, Types, HeldIsCounted, CurrentLeases
  <1> QED BY <1>1, <1>2, <1>3, <1>4, <1>5, <1>6, <1>7, ClientWalks DEF Within, Places

\* A step of the queue.
LEMMA QueueMoves ==
    ASSUME SlotInv, NEW r \in Clients, NEW place \in Places, Goes(r, place),
           replica' = replica, replica[Home[r]] = "up", UNCHANGED setVars,
           granted' = granted, open' = open, waits' \in Nat, missed' \in Nat, lost' = lost,
           Within(queued', r, queued), IsFiniteSet(queued'), Queue',
           Told(r)'
    PROVE  SlotInv'
  <1> USE DEF SlotInv
  <1>1. /\ Placed' /\ at' \in [Clients -> Places]
        /\ granted' \subseteq Clients /\ open' \subseteq Clients /\ queued' \subseteq Clients
    BY ClientMoves DEF Within
  <1>2. CurrentSlots' = CurrentSlots /\ CurrentLeases' = CurrentLeases
    BY DEF setVars, CurrentSlots, CurrentLeases
  <1>3. Types'
    BY <1>1 DEF Types, setVars
  <1>4. HeldIsCounted' /\ Room'
    BY <1>2 DEF HeldIsCounted, Room, Counted
  <1> QED BY <1>1, <1>3, <1>4

LEMMA RequestCounts ==
    ASSUME SlotInv, NEW r \in Clients, Count(r) PROVE SlotInv'
  <1>1. /\ at[r] = "count" /\ replica' = replica /\ UNCHANGED setVars
        /\ granted' = granted /\ open' = open /\ lost' = lost
    BY DEF Count, OthersOfProcess
  <1>2. replica[Home[r]] = "up"
    BY <1>1, Up DEF SlotInv
  <1>3. /\ waits \in Nat /\ missed \in Nat /\ IsFiniteSet(queued) /\ Cardinality(queued) \in Nat
        /\ waits <= QueueLimit /\ Cardinality(queued) <= waits + missed
    BY CurrentFinite DEF SlotInv, Types, Queue
  <1>4. /\ IsFiniteSet(queued \cup {r})
        /\ Cardinality(queued \cup {r}) \in Nat
        /\ Cardinality(queued \cup {r}) <= Cardinality(queued) + 1
    <2>1. IsFiniteSet(queued) /\ Cardinality(queued) \in Nat
      BY <1>3
    <2>2. /\ IsFiniteSet(queued \cup {r})
          /\ Cardinality(queued \cup {r}) = IF r \in queued THEN Cardinality(queued)
                                            ELSE Cardinality(queued) + 1
      BY <2>1, FS_AddElement
    <2> QED BY <2>1, <2>2
  <1>5. CASE /\ waits < QueueLimit /\ waits' = waits + 1 /\ queued' = queued \cup {r}
             /\ Goes(r, "touch") \/ Goes(r, "wait")
             /\ missed' = missed
    <2>1. Told(r)'
      BY <1>5 DEF SlotInv, Types, Told, Goes
    <2>2. Queue' /\ waits' \in Nat
      BY <1>3, <1>4, <1>5, Limits DEF Queue
    <2> QED BY <1>1, <1>2, <1>3, <1>4, <1>5, <2>1, <2>2, QueueMoves DEF Within, Places
  <1>6. CASE Goes(r, "end") /\ waits' = waits /\ queued' = queued /\ missed' = missed
    <2>1. Told(r)'
      BY <1>6 DEF SlotInv, Types, Told, Goes
    <2>2. Queue'
      BY <1>3, <1>6, QueueKept DEF SlotInv
    <2> QED BY <1>1, <1>2, <1>3, <1>6, <2>1, <2>2, QueueMoves DEF Within, Places
  <1>7. CASE /\ queued' = queued \cup {r} /\ Goes(r, "wait") /\ waits' = waits
             /\ missed' = missed + 1
    <2>1. Told(r)'
      BY <1>7 DEF SlotInv, Types, Told, Goes
    <2>2. Queue' /\ missed' \in Nat
      BY <1>3, <1>4, <1>7 DEF Queue
    <2> QED BY <1>1, <1>2, <1>3, <1>4, <1>7, <2>1, <2>2, QueueMoves DEF Within, Places
  <1> QED BY <1>5, <1>6, <1>7 DEF Count

LEMMA Uncounted ==
    \A m, n, k, x \in Nat : m <= n + x /\ n <= k + 1 => m - 1 <= k + x
  OBVIOUS

LEMMA RequestUncounts ==
    ASSUME SlotInv, NEW r \in Clients, Uncount(r) PROVE SlotInv'
  <1>1. /\ at[r] = "uncount" /\ replica' = replica /\ UNCHANGED setVars
        /\ granted' = granted /\ open' = open /\ queued' = queued \ {r}
        /\ missed' = missed /\ lost' = lost
    BY DEF Uncount, OthersOfProcess
  <1>2. replica[Home[r]] = "up" /\ r \in queued
    BY <1>1, Up DEF SlotInv, Placed, Told
  <1>3. /\ waits \in Nat /\ missed \in Nat /\ IsFiniteSet(queued) /\ Cardinality(queued) \in Nat
        /\ waits <= QueueLimit /\ Cardinality(queued) <= waits + missed
    BY CurrentFinite DEF SlotInv, Types, Queue
  <1>4. /\ IsFiniteSet(queued \ {r}) /\ Cardinality(queued \ {r}) = Cardinality(queued) - 1
        /\ Cardinality(queued \ {r}) \in Nat
    BY <1>2, <1>3, FS_RemoveElement, FS_CardinalityType
  <1>5. PICK place \in {"refresh", "hold", "end"} : Goes(r, place)
    BY DEF Uncount
  <1>6. waits' = waits \/ waits' = (IF waits > 0 THEN waits - 1 ELSE 0)
    BY DEF Uncount
  <1>7. waits' \in Nat /\ waits' <= waits /\ waits <= waits' + 1
    BY <1>3, <1>6
  <1>8. Queue'
    <2>1. Cardinality(queued \ {r}) <= waits' + missed'
      BY <1>1, <1>3, <1>4, <1>7, Uncounted
    <2>2. waits' <= QueueLimit
      BY <1>3, <1>7, Limits
    <2> QED BY <1>1, <2>1, <2>2 DEF Queue
  <1>9. Told(r)'
    BY <1>5 DEF SlotInv, Types, Told, Goes
  <1> QED BY <1>1, <1>2, <1>3, <1>4, <1>5, <1>7, <1>8, <1>9, QueueMoves DEF Within, Places

\* A call exchanges its slot, which it holds or lost, for a lease: the room they take is
\* one.
LEMMA LeaseTaken ==
    ASSUME SlotInv, NEW c \in Clients, TakeLease(c) PROVE SlotInv'
  <1> USE DEF SlotInv
  <1>1. /\ at[c] = "lease" /\ replica' = replica /\ slots' = slots /\ oldSlots' = oldSlots
        /\ waits' = waits /\ queued' = queued
    BY DEF TakeLease, OthersOfCall, OthersOfProcess
  <1>2. replica[Home[c]] = "up" /\ (c \in lost \/ c \in CurrentSlots)
    BY <1>1, Up DEF Placed, Told, HeldIsCounted
  <1>3. missed' = missed /\ lost' = lost
    BY DEF TakeLease, OthersOfCall, OthersOfProcess
  <1>4. \/ open' = open \cup {c} /\ Goes(c, "upstream") /\ granted' = granted /\ PurgeLeases({c})
        \/ /\ open' = open /\ Goes(c, "release") /\ granted' = granted \ {c}
           /\ PurgeLeases({c}) \/ PurgeLeases({}) \/ (live' = live /\ oldLeases' = oldLeases)
    BY DEF TakeLease
  <1>5. CurrentSlots' = CurrentSlots /\ IsFiniteSet(slots')
    BY <1>1 DEF CurrentSlots, Types
  <1>6. /\ CurrentLeases' = CurrentLeases \/ CurrentLeases' = CurrentLeases \cup {c}
        /\ IsFiniteSet(live')
        /\ PurgeLeases({c}) => CurrentLeases' = CurrentLeases \cup {c}
    BY <1>4, Purged DEF Types, CurrentLeases
  <1>7. PICK place \in {"upstream", "release"} :
          Goes(c, place) /\ (place = "release" => c \notin granted')
    BY <1>4
  <1>8. /\ Placed' /\ at' \in [Clients -> Places]
        /\ granted' \subseteq Clients /\ open' \subseteq Clients /\ queued' \subseteq Clients
    <2>1. Told(c)'
      BY <1>7 DEF Types, Told, Goes
    <2>2. Within(granted', c, granted) /\ Within(open', c, open) /\ Within(queued', c, queued)
      BY <1>1, <1>4 DEF Within
    <2> QED BY <1>1, <1>2, <1>7, <2>1, <2>2, ClientMoves DEF Places
  <1>9. Counted' \subseteq Counted
    BY <1>2, <1>3, <1>5, <1>6 DEF Counted
  <1>10. Room'
    BY <1>9, RoomKept
  <1>11. Queue' /\ IsFiniteSet(queued')
    BY <1>1, <1>3, QueueKept
  <1>12. Types'
    BY <1>1, <1>3, <1>5, <1>6, <1>8, <1>11 DEF Types
  <1>13. HeldIsCounted'
    BY <1>3, <1>4, <1>5, <1>6 DEF HeldIsCounted
  <1> QED BY <1>8, <1>10, <1>11, <1>12, <1>13

LEMMA LeaseGivenBack ==
    ASSUME SlotInv, NEW c \in Clients, GiveLeaseBack(c) PROVE SlotInv'
  <1>1. /\ at[c] = "unlease" /\ replica' = replica /\ slots' = slots /\ oldSlots' = oldSlots
        /\ waits' = waits /\ queued' = queued /\ open' = open /\ granted' = granted \ {c}
    BY DEF GiveLeaseBack, OthersOfCall, OthersOfProcess
  <1>2. replica[Home[c]] = "up" /\ c \notin open
    BY <1>1, Up DEF SlotInv, Placed, Told
  <1>3. missed' = missed /\ lost' = lost
    BY DEF GiveLeaseBack, OthersOfCall, OthersOfProcess
  <1>4. PICK place \in {"release", "end"} : Goes(c, place)
    BY DEF GiveLeaseBack
  <1>5. Told(c)'
    BY <1>1, <1>4 DEF SlotInv, Types, Told, Goes
  <1>6. CurrentSlots' = CurrentSlots /\ IsFiniteSet(slots')
    BY <1>1 DEF CurrentSlots, SlotInv, Types
  <1>7. /\ CurrentLeases' \subseteq CurrentLeases /\ IsFiniteSet(live')
        /\ open \ lost \subseteq CurrentLeases'
    <2>1. CASE live' = live /\ oldLeases' = oldLeases
      BY <2>1 DEF SlotInv, Types, HeldIsCounted, CurrentLeases
    <2>2. CASE live' = live \ {c} /\ oldLeases' = oldLeases \ {c}
      <3>1. CurrentLeases' = CurrentLeases \ {c} /\ IsFiniteSet(live \ {c})
        BY <2>2, FS_RemoveElement DEF CurrentLeases, SlotInv, Types
      <3> QED BY <1>2, <2>2, <3>1 DEF SlotInv, HeldIsCounted
    <2> QED BY <2>1, <2>2 DEF GiveLeaseBack
  <1>8. HeldIsCounted'
    BY <1>1, <1>3, <1>6, <1>7 DEF SlotInv, HeldIsCounted
  <1> QED BY <1>1, <1>2, <1>3, <1>4, <1>5, <1>6, <1>7, <1>8, ClientWalks DEF Within, Places

LEMMA ClientKeeps ==
    ASSUME SlotInv, NEW r \in Clients, StartRequest(r) \/ GiveUp(r) \/ ClientStep(r) PROVE SlotInv'
  BY RequestStarts, SlotAcquired, RequestGoes, SlotsGivenBack, RequestCounts, RequestUncounts,
     LeaseTaken, LeaseGivenBack DEF ClientStep

---------------------------------------------------------------------------
(* Processes and time. *)

\* What processes and time do, which leaves the requests where they are.
LEMMA OthersMove ==
    ASSUME SlotInv, UNCHANGED clientVars,
           replica' \in [Replicas -> {"down", "slots", "waits", "index", "up"}],
           \A p \in Replicas : replica[p] = "up" => replica'[p] = "up",
           lost \subseteq lost',
           CurrentSlots' \subseteq CurrentSlots, IsFiniteSet(slots'),
           CurrentLeases' \subseteq CurrentLeases, IsFiniteSet(live'),
           HeldIsCounted',
           \/ waits' = waits /\ missed' = missed
           \/ /\ waits' = 0
              /\ missed' = missed + Cardinality(queued) \/ (missed' = missed /\ queued = {})
    PROVE  SlotInv'
  <1> USE DEF SlotInv
  <1>1. /\ at' = at /\ granted' = granted /\ open' = open /\ queued' = queued
    BY DEF clientVars
  <1>2. Placed'
    BY <1>1, Limits DEF Placed, Told, Served
  <1>3. Room'
    BY RoomKept DEF Counted
  <1>4. Queue' /\ waits' \in Nat /\ missed' \in Nat
    <2>1. CASE waits' = waits /\ missed' = missed
      BY <1>1, <2>1, QueueKept DEF Types
    <2>2. CASE ~(waits' = waits /\ missed' = missed)
      BY <1>1, <2>2, QueueForgotten
    <2> QED BY <2>1, <2>2
  <1>5. Types'
    BY <1>1, <1>4 DEF Types
  <1> QED BY <1>2, <1>3, <1>4, <1>5

LEMMA SetsStay ==
    ASSUME SlotInv, UNCHANGED <<slots, oldSlots>>
    PROVE  CurrentSlots' = CurrentSlots /\ IsFiniteSet(slots')
  BY DEF SlotInv, Types, CurrentSlots

LEMMA LeasesStay ==
    ASSUME SlotInv, UNCHANGED <<live, oldLeases>>
    PROVE  CurrentLeases' = CurrentLeases /\ IsFiniteSet(live')
  BY DEF SlotInv, Types, CurrentLeases

\* The slots that a starting process removes are those of requests it leaves without.
LEMMA ReplicaKeeps ==
    ASSUME SlotInv, NEW p \in Replicas, ReplicaStep(p) PROVE SlotInv'
  <1>1. UNCHANGED clientVars /\ live' = live /\ oldLeases' = oldLeases
    BY DEF ReplicaStep, StartReplica, CleanSlots, CleanWaits, CleanIndex, WorkerReads,
           WorkerWrites, OthersOfClients, redisVars, setVars
  <1>2. \/ lost' = lost
        \/ CleanSlots(p) /\ lost' = lost \cup granted /\ slots' = {} /\ oldSlots' = {}
    BY DEF ReplicaStep, StartReplica, CleanSlots, CleanWaits, CleanIndex, WorkerReads,
           WorkerWrites, NoLoss, historyVars
  <1>3. \/ replica' = replica
        \/ /\ replica[p] # "up"
           /\ \E place \in {"slots", "waits", "index", "up"} : ReplicaGoes(p, place)
    BY DEF ReplicaStep, StartReplica, CleanSlots, CleanWaits, CleanIndex, WorkerReads, WorkerWrites
  <1>4. /\ replica' \in [Replicas -> {"down", "slots", "waits", "index", "up"}]
        /\ \A q \in Replicas : replica[q] = "up" => replica'[q] = "up"
    BY <1>3 DEF SlotInv, Types, ReplicaGoes
  <1>5. \/ waits' = waits /\ missed' = missed
        \/ waits' = 0 /\ missed' = missed + Cardinality(queued)
    BY DEF ReplicaStep, StartReplica, CleanSlots, CleanWaits, CleanIndex, WorkerReads,
           WorkerWrites, redisVars, NoLoss, historyVars
  <1>6. /\ CurrentSlots' \subseteq CurrentSlots /\ IsFiniteSet(slots')
        /\ granted \ lost' \subseteq CurrentSlots'
    <2>1. CASE slots' = slots /\ oldSlots' = oldSlots
      BY <1>2, <2>1, SetsStay DEF SlotInv, HeldIsCounted
    <2>2. CASE slots' = {} /\ oldSlots' = {} /\ lost' = lost \cup granted
      BY <2>2, FS_EmptySet DEF CurrentSlots
    <2>3. CASE WorkerReads(p)
      BY <2>3, Purged DEF WorkerReads, SlotInv, HeldIsCounted, NoLoss, historyVars
    <2> QED BY <1>2, <2>1, <2>2, <2>3 DEF ReplicaStep, StartReplica, CleanSlots, CleanWaits,
                                          CleanIndex, WorkerWrites, redisVars, setVars
  <1>7. CurrentLeases' = CurrentLeases /\ IsFiniteSet(live')
    BY <1>1, LeasesStay
  <1>8. HeldIsCounted'
    BY <1>1, <1>2, <1>6, <1>7 DEF SlotInv, HeldIsCounted, clientVars
  <1> QED BY <1>1, <1>2, <1>4, <1>5, <1>6, <1>7, <1>8, OthersMove

\* The requests of a process end with it.
LEMMA ReplicaDeathKeeps ==
    ASSUME SlotInv, NEW p \in Replicas, ReplicaDies(p) PROVE SlotInv'
  <1> USE DEF SlotInv
  <1> DEFINE gone == {r \in Clients : Home[r] = p}
  <1>1. /\ replica' = [replica EXCEPT ![p] = "down"] /\ missed' = missed /\ lost' = lost
        /\ at' = [r \in Clients |-> IF r \in gone /\ at[r] # "idle" THEN "end" ELSE at[r]]
        /\ granted' = granted \ gone /\ open' = open \ gone /\ queued' = queued \ gone
        /\ UNCHANGED setVars /\ waits' = waits
    BY DEF ReplicaDies, ReplicaGoes, redisVars, NoLoss, historyVars
  <1>2. /\ at' \in [Clients -> Places]
        /\ replica' \in [Replicas -> {"down", "slots", "waits", "index", "up"}]
        /\ \A q \in Replicas : q # p => replica'[q] = replica[q]
    BY <1>1 DEF Types, Places
  <1>3. Placed'
    <2> SUFFICES ASSUME NEW r \in Clients PROVE Told(r)' /\ Served(r)'
      BY DEF Placed
    <2>1. CASE Home[r] = p
      <3>1. /\ at'[r] \in {"idle", "end"}
            /\ r \notin granted' /\ r \notin open' /\ r \notin queued'
        BY <1>1, <2>1
      <3> QED BY <3>1 DEF Told, Served
    <2>2. CASE Home[r] # p
      <3>1. /\ at'[r] = at[r] /\ replica'[Home[r]] = replica[Home[r]]
            /\ r \in granted' <=> r \in granted
            /\ r \in open' <=> r \in open
            /\ r \in queued' <=> r \in queued
        BY <1>1, <1>2, <2>2, Limits
      <3> QED BY <3>1 DEF Placed, Told, Served
    <2> QED BY <2>1, <2>2
  <1>4. CurrentSlots' = CurrentSlots /\ CurrentLeases' = CurrentLeases
    BY <1>1 DEF setVars, CurrentSlots, CurrentLeases
  <1>5. HeldIsCounted' /\ Room'
    BY <1>1, <1>4 DEF HeldIsCounted, Room, Counted
  <1>6. Queue' /\ IsFiniteSet(queued')
    BY <1>1, QueueKept
  <1>7. Types'
    BY <1>1, <1>2, <1>6 DEF Types, setVars
  <1> QED BY <1>3, <1>5, <1>6, <1>7

LEMMA TimeKeeps ==
    ASSUME SlotInv,
           \/ \E r \in Clients : SlotLapses(r)
           \/ \E c \in Calls : LeaseLapses(c) \/ LeaseMissed(c)
           \/ CounterLapses \/ EntryDue
    PROVE  SlotInv'
  <1>1. /\ UNCHANGED clientVars /\ replica' = replica /\ missed' = missed
        /\ slots' = slots /\ live' = live
    BY DEF SlotLapses, LeaseLapses, LeaseMissed, CounterLapses, EntryDue, OthersOfTime, setVars
  <1>2. /\ IsFiniteSet(slots') /\ IsFiniteSet(live') /\ lost \subseteq lost'
        /\ replica' \in [Replicas -> {"down", "slots", "waits", "index", "up"}]
    BY <1>1 DEF SlotInv, Types, SlotLapses, LeaseLapses, LeaseMissed, CounterLapses, EntryDue
  <1>3. CurrentSlots' \subseteq CurrentSlots /\ granted \ lost \subseteq CurrentSlots'
    <2>1. CASE oldSlots' = oldSlots
      BY <1>1, <2>1 DEF CurrentSlots, SlotInv, HeldIsCounted
    <2>2. CASE \E r \in Clients : SlotLapses(r)
      BY <1>1, <2>2 DEF SlotLapses, CurrentSlots, SlotInv, HeldIsCounted
    <2> QED BY <2>1, <2>2 DEF LeaseLapses, LeaseMissed, CounterLapses, EntryDue, setVars
  <1>4. CurrentLeases' \subseteq CurrentLeases /\ open \ lost' \subseteq CurrentLeases'
    <2>1. CASE oldLeases' = oldLeases
      BY <1>1, <1>2, <2>1 DEF CurrentLeases, SlotInv, HeldIsCounted
    <2>2. CASE \E c \in Calls : LeaseLapses(c)
      BY <1>1, <2>2 DEF LeaseLapses, CurrentLeases, SlotInv, HeldIsCounted
    <2>3. CASE \E c \in Calls : LeaseMissed(c)
      BY <1>1, <2>3 DEF LeaseMissed, CurrentLeases, SlotInv, HeldIsCounted
    <2> QED BY <2>1, <2>2, <2>3 DEF SlotLapses, CounterLapses, EntryDue, setVars
  <1>5. HeldIsCounted'
    BY <1>1, <1>2, <1>3, <1>4 DEF HeldIsCounted, clientVars
  <1>6. waits' = waits \/ (waits' = 0 /\ queued = {})
    BY DEF SlotLapses, LeaseLapses, LeaseMissed, CounterLapses, EntryDue
  <1> QED BY <1>1, <1>2, <1>3, <1>4, <1>5, <1>6, OthersMove

---------------------------------------------------------------------------
(* The invariant, and what follows from it. *)

LEMMA SlotInvInit == SlotsInit => SlotInv
  <1> SUFFICES ASSUME SlotsInit PROVE SlotInv
    OBVIOUS
  <1>1. Types /\ Placed /\ HeldIsCounted
    BY FS_EmptySet, Limits DEF SlotsInit, Types, Placed, Told, Served, HeldIsCounted, Places
  <1>2. Counted = {}
    BY DEF SlotsInit, Counted, CurrentSlots, CurrentLeases
  <1>3. Room
    BY <1>2, FS_EmptySet, Limits DEF Room
  <1>4. Queue
    BY FS_EmptySet, Limits DEF SlotsInit, Queue
  <1> QED BY <1>1, <1>3, <1>4 DEF SlotInv

LEMMA SlotInvNext == SlotInv /\ [SlotsNext]_slotVars => SlotInv'
  <1> SUFFICES ASSUME SlotInv, [SlotsNext]_slotVars PROVE SlotInv'
    OBVIOUS
  <1>1. CASE SlotsNext
    BY <1>1, ClientKeeps, ReplicaKeeps, ReplicaDeathKeeps, TimeKeeps DEF SlotsNext
  <1>2. CASE UNCHANGED slotVars
    <2>1. Types' /\ Placed'
      BY <1>2 DEF slotVars, setVars, SlotInv, Types, Placed, Told, Served
    <2>2. HeldIsCounted' /\ Room' /\ Queue'
      BY <1>2 DEF slotVars, setVars, SlotInv, HeldIsCounted, Room, Counted, Queue, CurrentSlots,
                  CurrentLeases
    <2> QED BY <2>1, <2>2 DEF SlotInv
  <1> QED BY <1>1, <1>2

LEMMA SlotInvHolds == SlotsSpec => []SlotInv
  BY SlotInvInit, SlotInvNext, PTL DEF SlotsSpec

(* acquireScript, acquireLiveLeaseScript, the cleanup of the worker: a     *)
(* request or call that goes on is counted, unless the start of another    *)
(* process or a lease that was not refreshed took its count.               *)
THEOREM SlotHeldIsCounted == SlotsSpec => []HeldIsCounted
  <1>1. SlotInv => HeldIsCounted
    BY DEF SlotInv
  <1> QED BY <1>1, SlotInvHolds, PTL

(* maxConcurrency: those that go on and did not lose their count are never *)
(* more, a call counting once while it exchanges its slot for a lease.     *)
THEOREM SlotWithinLimit == SlotsSpec => []WithinLimit
  <1>1. SlotInv => WithinLimit
    <2> SUFFICES ASSUME SlotInv PROVE WithinLimit
      OBVIOUS
    <2>1. (granted \cup open) \ lost \subseteq Counted
      BY DEF SlotInv, HeldIsCounted, Counted
    <2>2. IsFiniteSet(Counted)
      BY CurrentFinite DEF SlotInv
    <2>3. /\ IsFiniteSet((granted \cup open) \ lost)
          /\ Cardinality((granted \cup open) \ lost) <= Cardinality(Counted)
      BY <2>1, <2>2, FS_Subset
    <2>4. /\ Cardinality((granted \cup open) \ lost) \in Nat
          /\ Cardinality(Counted) \in Nat
      BY <2>2, <2>3, FS_CardinalityType
    <2> QED BY <2>3, <2>4, Limits DEF SlotInv, Room, WithinLimit
  <1> QED BY <1>1, SlotInvHolds, PTL

(* IncrementWaitCount, DecrementWaitCount: the counter may count a request *)
(* twice, or take one down that it never counted, yet every failure of its *)
(* lets in at most one more, and a deletion as many as waited.             *)
THEOREM SlotQueueHonoured == SlotsSpec => []QueueHonoured
  <1>1. SlotInv => QueueHonoured
    <2> SUFFICES ASSUME SlotInv PROVE QueueHonoured
      OBVIOUS
    <2>1. Cardinality(queued) \in Nat /\ waits \in Nat /\ missed \in Nat
      BY CurrentFinite DEF SlotInv, Types
    <2> QED BY <2>1, Limits DEF SlotInv, Queue, QueueHonoured
  <1> QED BY <1>1, SlotInvHolds, PTL
=============================================================================
