--------------------------- MODULE DispatchProofs ---------------------------
(***************************************************************************)
(* Proofs about the two ways the server dispatches a command: through the  *)
(* transfer slots (TransferPool), for any set of dispatches and any number *)
(* of slots, and through the durable queue (PushDispatch), for any set of  *)
(* dispatch tasks, an infinite one included, and any number of             *)
(* registrations of the device.                                            *)
(***************************************************************************)
EXTENDS TransferPool, PushDispatch, FiniteSetTheorems, TLAPS

-----------------------------------------------------------------------------
(* The transfer slots (transfer_runtime.py, server.py).                    *)

CountRecord == [queued : Int, transferring : Int, transferred : Int, failed : Int]

Queued == {"idle", "waiting"}
InTransfer == {"announcing", "transferring", "timedout"}
Finished == {"failing", "timedout", "done"}

\* The elements of D that f puts in S.
Those(D, f, S) == {u \in D : f[u] \in S}

\* The dispatches of a job that are at one of the awaits of S.
Standing(j, S) == Those(Of(j), place, S)

\* The counters of a job count its dispatches by where they are; a timed-out
\* dispatch is briefly both in transfer and failed.
Tallied ==
    \A j \in Jobs :
        /\ counts[j].queued = Cardinality(Standing(j, Queued))
        /\ counts[j].transferring = Cardinality(Standing(j, InTransfer))
        /\ counts[j].transferred + counts[j].failed
               = Cardinality(Standing(j, Finished))

\* The terminal message is sent once every dispatch of the job has ended.
EndedWhenDone ==
    \A j \in Jobs : shown[j].done => \A t \in Of(j) : place[t] = "done"

\* A future is pending only while its dispatch waits for it, and a
\* registration is filed under the dispatch's own key.
WaitersSound ==
    /\ \A t \in Dispatches :
           future[t] = "pending" => place[t] \in {"announcing", "transferring"}
    /\ \A k \in Keys : /\ pending[k] # NoDispatch => pending[k].key = k
                       /\ latest[k] # NoDispatch => latest[k].key = k

PoolInv ==
    /\ PoolTypes /\ SlotsConserved /\ Tallied
    /\ EndedWhenDone /\ FinalCounts
    /\ WaitersSound /\ LatestReachable

-----------------------------------------------------------------------------
(* Counting.                                                               *)

In(x, S) == IF x \in S THEN 1 ELSE 0

\* When one element of a finite set moves, the number of elements in S
\* changes by that element alone.
LEMMA CountMove ==
    ASSUME NEW D, IsFiniteSet(D), NEW f, NEW g, NEW S, NEW t \in D,
           \A u \in D : u # t => g[u] = f[u]
    PROVE  /\ Cardinality(Those(D, f, S)) \in Nat
           /\ Cardinality(Those(D, g, S)) \in Nat
           /\ Cardinality(Those(D, g, S))
                  = Cardinality(Those(D, f, S)) + In(g[t], S) - In(f[t], S)
<1> DEFINE F == Those(D, f, S)
           G == Those(D, g, S)
           R == {u \in D : u # t /\ f[u] \in S}
<1>1. IsFiniteSet(R) /\ t \notin R
  BY Zenon, FS_Subset
<1>2. F = IF f[t] \in S THEN R \cup {t} ELSE R
  BY Zenon DEF Those
<1>3. G = IF g[t] \in S THEN R \cup {t} ELSE R
  BY Zenon DEF Those
<1>4. Cardinality(R) \in Nat /\ Cardinality(R \cup {t}) = Cardinality(R) + 1
  BY Zenon, <1>1, FS_CardinalityType, FS_AddElement
<1> HIDE DEF F, G, R
<1>5. Cardinality(F) = Cardinality(R) + In(f[t], S)
  BY <1>2, <1>4 DEF In
<1>6. Cardinality(G) = Cardinality(R) + In(g[t], S)
  BY <1>3, <1>4 DEF In
<1>7. In(f[t], S) \in {0, 1} /\ In(g[t], S) \in {0, 1}
  BY Zenon DEF In
<1>8. /\ Cardinality(F) \in Nat /\ Cardinality(G) \in Nat
      /\ Cardinality(G) = Cardinality(F) + In(g[t], S) - In(f[t], S)
  BY <1>4, <1>5, <1>6, <1>7
<1> QED
  BY Zenon, <1>8 DEF F, G

-----------------------------------------------------------------------------
(* The steps of dispatch_one.                                              *)

\* t goes to the await to, its permit moves with it, and c becomes its job's
\* counters; a progress message, if one is sent, shows c.
Move(t, to, c) ==
    LET from == place[t]
        old == counts[t.job]
    IN  /\ from \notin {"idle", "done"} /\ to \in Awaits
        /\ place' = [place EXCEPT ![t] = to]
        /\ free' \in Nat
        /\ free' = free + In(from, Holding) - In(to, Holding)
        /\ c \in CountRecord
        /\ counts' = [counts EXCEPT ![t.job] = c]
        /\ c.queued = old.queued + In(to, Queued) - In(from, Queued)
        /\ c.transferring = old.transferring + In(to, InTransfer) - In(from, InTransfer)
        /\ c.transferred + c.failed
               = old.transferred + old.failed + In(to, Finished) - In(from, Finished)
        /\ \/ shown' = shown
           \/ shown' = [shown EXCEPT ![t.job] = Message(c, FALSE)]

\* Each step of dispatch_one is a move.
LEMMA StepMoves ==
    ASSUME PoolTypes, NEW t \in Dispatches, Step(t)
    PROVE  \E to \in Awaits, c \in CountRecord : Move(t, to, c)
<1> DEFINE old == counts[t.job]
<1>1. /\ old \in CountRecord /\ t.job \in Jobs
      /\ old.queued \in Int /\ old.transferring \in Int
      /\ old.transferred \in Int /\ old.failed \in Int
      /\ free \in Nat
      /\ counts = [counts EXCEPT ![t.job] = old]
  BY SlotsAssumption DEF PoolTypes, CountRecord, Jobs
<1>2. CASE Acquire(t)
  <2>1. CASE t.key[1] \in online
    <3> DEFINE c == [old EXCEPT !.queued = @ - 1]
    <3>1. c \in CountRecord /\ counts' = [counts EXCEPT ![t.job] = c]
      BY <1>1, <1>2, <2>1 DEF Acquire, CountRecord, PoolTypes
    <3>2. /\ c.queued = old.queued - 1 /\ c.transferring = old.transferring
          /\ c.transferred = old.transferred /\ c.failed = old.failed
      BY Zenon, <1>1 DEF CountRecord
    <3>3. /\ place[t] = "waiting" /\ place' = [place EXCEPT ![t] = "sending"]
          /\ shown' = shown /\ free > 0 /\ free' = free - 1
      BY Zenon, <1>2, <2>1 DEF Acquire
    <3> HIDE DEF c, old
    <3>4. Move(t, "sending", c)
      BY <1>1, <3>1, <3>2, <3>3
      DEF Move, In, Awaits, Holding, Queued, InTransfer, Finished, old
    <3> QED
      BY Zenon, <3>1, <3>4 DEF Awaits
  <2>2. CASE t.key[1] \notin online
    <3> DEFINE c == [old EXCEPT !.queued = @ - 1, !.failed = @ + 1]
    <3>1. c \in CountRecord /\ counts' = [counts EXCEPT ![t.job] = c]
      BY <1>1, <1>2, <2>2 DEF Acquire, CountRecord, PoolTypes
    <3>2. /\ c.queued = old.queued - 1 /\ c.transferring = old.transferring
          /\ c.transferred = old.transferred /\ c.failed = old.failed + 1
      BY Zenon, <1>1 DEF CountRecord
    <3>3. /\ place[t] = "waiting" /\ place' = [place EXCEPT ![t] = "failing"]
          /\ shown' = shown /\ free > 0 /\ free' = free - 1
      BY Zenon, <1>2, <2>2 DEF Acquire
    <3> HIDE DEF c, old
    <3>4. Move(t, "failing", c)
      BY <1>1, <3>1, <3>2, <3>3
      DEF Move, In, Awaits, Holding, Queued, InTransfer, Finished, old
    <3> QED
      BY Zenon, <3>1, <3>4 DEF Awaits
  <2> QED
    BY Zenon, <2>1, <2>2
<1>3. CASE Sent(t)
  <2> DEFINE c == [old EXCEPT !.transferring = @ + 1]
  <2>1. c \in CountRecord /\ counts' = [counts EXCEPT ![t.job] = c]
    BY <1>1, <1>3 DEF Sent, CountRecord, PoolTypes
  <2>2. /\ c.queued = old.queued /\ c.transferring = old.transferring + 1
        /\ c.transferred = old.transferred /\ c.failed = old.failed
    BY Zenon, <1>1 DEF CountRecord
  <2>3. /\ place[t] = "sending" /\ place' = [place EXCEPT ![t] = "announcing"]
        /\ shown' = shown /\ free' = free
    BY Zenon, <1>3 DEF Sent
  <2> HIDE DEF c, old
  <2>4. Move(t, "announcing", c)
    BY <1>1, <2>1, <2>2, <2>3
    DEF Move, In, Awaits, Holding, Queued, InTransfer, Finished, old
  <2> QED
    BY Zenon, <2>1, <2>4 DEF Awaits
<1>4. CASE SendError(t)
  <2> DEFINE c == [old EXCEPT !.failed = @ + 1]
  <2>1. c \in CountRecord /\ counts' = [counts EXCEPT ![t.job] = c]
    BY <1>1, <1>4 DEF SendError, CountRecord, PoolTypes
  <2>2. /\ c.queued = old.queued /\ c.transferring = old.transferring
        /\ c.transferred = old.transferred /\ c.failed = old.failed + 1
    BY Zenon, <1>1 DEF CountRecord
  <2>3. /\ place[t] = "sending" /\ place' = [place EXCEPT ![t] = "failing"]
        /\ shown' = shown /\ free' = free
    BY Zenon, <1>4 DEF SendError
  <2> HIDE DEF c, old
  <2>4. Move(t, "failing", c)
    BY <1>1, <2>1, <2>2, <2>3
    DEF Move, In, Awaits, Holding, Queued, InTransfer, Finished, old
  <2> QED
    BY Zenon, <2>1, <2>4 DEF Awaits
<1>5. CASE Failed(t)
  <2>1. /\ place[t] = "failing" /\ place' = [place EXCEPT ![t] = "done"]
        /\ free' = free + 1 /\ counts' = counts
        /\ shown' = [shown EXCEPT ![t.job] = Message(old, FALSE)]
    BY Zenon, <1>5 DEF Failed
  <2> HIDE DEF old
  <2>2. Move(t, "done", old)
    BY <1>1, <2>1
    DEF Move, In, Awaits, Holding, Queued, InTransfer, Finished, old
  <2> QED
    BY Zenon, <1>1, <2>2 DEF Awaits
<1>6. CASE Announced(t)
  <2>1. /\ place[t] = "announcing" /\ place' = [place EXCEPT ![t] = "transferring"]
        /\ free' = free /\ counts' = counts
        /\ shown' = [shown EXCEPT ![t.job] = Message(old, FALSE)]
    BY Zenon, <1>6 DEF Announced
  <2> HIDE DEF old
  <2>2. Move(t, "transferring", old)
    BY <1>1, <2>1
    DEF Move, In, Awaits, Holding, Queued, InTransfer, Finished, old
  <2> QED
    BY Zenon, <1>1, <2>2 DEF Awaits
<1>7. CASE Transferred(t)
  <2> DEFINE c == [old EXCEPT !.transferred = @ + 1, !.transferring = @ - 1]
  <2>1. c \in CountRecord /\ counts' = [counts EXCEPT ![t.job] = c]
    <3>1. c \in CountRecord
      <4> DEFINE half == [old EXCEPT !.transferred = @ + 1]
      <4>1. half \in CountRecord /\ half.transferring = old.transferring
        BY <1>1 DEF CountRecord
      <4>2. c = [half EXCEPT !.transferring = old.transferring - 1]
        BY Zenon, <1>1 DEF CountRecord
      <4> HIDE DEF half, c
      <4> QED
        BY <1>1, <4>1, <4>2 DEF CountRecord
    <3>2. counts' = [counts EXCEPT ![t.job] = c]
      BY Zenon, <1>7 DEF Transferred, Close
    <3> QED
      BY Zenon, <3>1, <3>2
  <2>2. /\ c.queued = old.queued /\ c.transferring = old.transferring - 1
        /\ c.transferred = old.transferred + 1 /\ c.failed = old.failed
    BY Zenon, <1>1 DEF CountRecord
  <2>3. /\ place[t] = "transferring" /\ place' = [place EXCEPT ![t] = "done"]
        /\ shown' = [shown EXCEPT ![t.job] = Message(c, FALSE)] /\ free' = free + 1
    BY Zenon, <1>7 DEF Transferred, Close
  <2> HIDE DEF c, old
  <2>4. Move(t, "done", c)
    BY <1>1, <2>1, <2>2, <2>3
    DEF Move, In, Awaits, Holding, Queued, InTransfer, Finished, old
  <2> QED
    BY Zenon, <2>1, <2>4 DEF Awaits
<1>8. CASE GaveUp(t)
  <2> DEFINE c == [old EXCEPT !.failed = @ + 1]
  <2>1. c \in CountRecord /\ counts' = [counts EXCEPT ![t.job] = c]
    BY <1>1, <1>8 DEF GaveUp, CountRecord, PoolTypes
  <2>2. /\ c.queued = old.queued /\ c.transferring = old.transferring
        /\ c.transferred = old.transferred /\ c.failed = old.failed + 1
    BY Zenon, <1>1 DEF CountRecord
  <2>3. /\ place[t] = "transferring" /\ place' = [place EXCEPT ![t] = "timedout"]
        /\ shown' = shown /\ free' = free
    BY Zenon, <1>8 DEF GaveUp
  <2> HIDE DEF c, old
  <2>4. Move(t, "timedout", c)
    BY <1>1, <2>1, <2>2, <2>3
    DEF Move, In, Awaits, Holding, Queued, InTransfer, Finished, old
  <2> QED
    BY Zenon, <2>1, <2>4 DEF Awaits
<1>9. CASE WrittenOff(t)
  <2> DEFINE c == [old EXCEPT !.transferring = @ - 1]
  <2>1. c \in CountRecord /\ counts' = [counts EXCEPT ![t.job] = c]
    BY <1>1, <1>9 DEF WrittenOff, Close, CountRecord, PoolTypes
  <2>2. /\ c.queued = old.queued /\ c.transferring = old.transferring - 1
        /\ c.transferred = old.transferred /\ c.failed = old.failed
    BY Zenon, <1>1 DEF CountRecord
  <2>3. /\ place[t] = "timedout" /\ place' = [place EXCEPT ![t] = "done"]
        /\ shown' = [shown EXCEPT ![t.job] = Message(c, FALSE)] /\ free' = free + 1
    BY Zenon, <1>9 DEF WrittenOff, Close
  <2> HIDE DEF c, old
  <2>4. Move(t, "done", c)
    BY <1>1, <2>1, <2>2, <2>3
    DEF Move, In, Awaits, Holding, Queued, InTransfer, Finished, old
  <2> QED
    BY Zenon, <2>1, <2>4 DEF Awaits
<1> QED
  BY Zenon, <1>2, <1>3, <1>4, <1>5, <1>6, <1>7, <1>8, <1>9 DEF Step

-----------------------------------------------------------------------------
(* What a move preserves.                                                  *)

\* The sets counted are finite, as a job has finitely many targets.
LEMMA JobsFinite ==
    ASSUME NEW j
    PROVE  IsFiniteSet(Of(j)) /\ Of(j) \in SUBSET Dispatches
<1>1. Of(j) \in SUBSET Dispatches
  BY Zenon DEF Of
<1> QED
  BY Zenon, <1>1, DispatchesAssumption, FS_Subset

\* A move keeps the permits: what t holds and what is free add up.
LEMMA MoveSlots ==
    ASSUME PoolTypes, SlotsConserved, NEW t \in Dispatches, NEW to, NEW c,
           Move(t, to, c)
    PROVE  SlotsConserved' /\ free' \in 0 .. Slots
<1> DEFINE holders == Cardinality(Those(Dispatches, place, Holding))
           after == Cardinality(Those(Dispatches, place', Holding))
<1>1. place'[t] = to /\ \A u \in Dispatches : u # t => place'[u] = place[u]
  BY Zenon DEF Move, PoolTypes
<1>2. /\ holders \in Nat /\ after \in Nat
      /\ after = holders + In(place'[t], Holding) - In(place[t], Holding)
  BY <1>1, DispatchesAssumption, CountMove
<1>4. free' \in Nat /\ free' = free + In(place[t], Holding) - In(to, Holding)
  BY Zenon DEF Move
<1>5. free \in Nat /\ free + holders = Slots /\ Slots \in Nat
  BY SlotsAssumption DEF PoolTypes, SlotsConserved, Those
<1>6. In(place[t], Holding) \in {0, 1} /\ In(to, Holding) \in {0, 1}
  BY Zenon DEF In
<1> HIDE DEF holders, after
<1>7. free' + after = Slots
  BY <1>1, <1>2, <1>4, <1>5, <1>6
<1>8. free' \in 0 .. Slots
  BY <1>2, <1>4, <1>5, <1>7
<1> QED
  BY Zenon, <1>7, <1>8 DEF SlotsConserved, after, Those

\* A move keeps the tallies of every job.
LEMMA MoveTallies ==
    ASSUME PoolTypes, Tallied, NEW t \in Dispatches, NEW to, NEW c, Move(t, to, c)
    PROVE  Tallied'
<1>1. place'[t] = to /\ \A u \in Dispatches : u # t => place'[u] = place[u]
  BY Zenon DEF Move, PoolTypes
<1>2. t.job \in Jobs /\ t \in Of(t.job)
  BY Zenon DEF Jobs, Of
<1> SUFFICES ASSUME NEW j \in Jobs
             PROVE  /\ counts'[j].queued = Cardinality(Standing(j, Queued)')
                    /\ counts'[j].transferring = Cardinality(Standing(j, InTransfer)')
                    /\ counts'[j].transferred + counts'[j].failed
                           = Cardinality(Standing(j, Finished)')
  BY Zenon DEF Tallied, Standing
<1>3. CASE j # t.job
  <2>1. \A u \in Of(j) : place'[u] = place[u]
    BY Zenon, <1>1, <1>3 DEF Of
  <2>2. \A S : Standing(j, S)' = Standing(j, S)
    BY Zenon, <2>1 DEF Standing, Those, Of
  <2>3. counts'[j] = counts[j]
    BY Zenon, <1>3 DEF Move, PoolTypes
  <2> QED
    BY Zenon, <2>2, <2>3 DEF Tallied
<1>4. CASE j = t.job
  <2>1. \A u \in Of(j) : u # t => place'[u] = place[u]
    BY Zenon, <1>1, JobsFinite
  <2>2. ASSUME NEW S
        PROVE  /\ Cardinality(Standing(j, S)) \in Nat
               /\ Cardinality(Standing(j, S)')
                      = Cardinality(Standing(j, S)) + In(to, S) - In(place[t], S)
    <3>1. /\ Cardinality(Those(Of(j), place, S)) \in Nat
          /\ Cardinality(Those(Of(j), place', S))
                 = Cardinality(Those(Of(j), place, S)) + In(place'[t], S) - In(place[t], S)
      BY <1>2, <1>4, <2>1, JobsFinite, CountMove
    <3> QED
      BY Zenon, <1>1, <3>1 DEF Standing, Of
  <2>3. counts'[j] = c
    BY Zenon, <1>2, <1>4 DEF Move, PoolTypes
  <2>4. /\ c.queued = counts[j].queued + In(to, Queued) - In(place[t], Queued)
        /\ c.transferring
               = counts[j].transferring + In(to, InTransfer) - In(place[t], InTransfer)
        /\ c.transferred + c.failed
               = counts[j].transferred + counts[j].failed
                     + In(to, Finished) - In(place[t], Finished)
    BY Zenon, <1>4 DEF Move
  <2> QED
    BY Zenon, <2>2, <2>3, <2>4 DEF Tallied
<1> QED
  BY Zenon, <1>3, <1>4

\* A job whose terminal message is out has no dispatch left to move.
LEMMA MoveFinal ==
    ASSUME PoolTypes, EndedWhenDone, FinalCounts,
           NEW t \in Dispatches, NEW to, NEW c, Move(t, to, c)
    PROVE  /\ EndedWhenDone' /\ FinalCounts'
           /\ shown' \in [Jobs -> [queued : Int, transferring : Int,
                                   transferred : Int, failed : Int,
                                   done : BOOLEAN]]
<1>1. t.job \in Jobs /\ t \in Of(t.job) /\ place[t] # "done"
  BY Zenon DEF Jobs, Of, Move
<1>2. /\ Message(c, FALSE) \in [queued : Int, transferring : Int, transferred : Int,
                                failed : Int, done : BOOLEAN]
      /\ Message(c, FALSE).done = FALSE
  BY Zenon DEF Move, CountRecord, Message
<1>3. ASSUME NEW j \in Jobs, shown'[j].done
      PROVE  j # t.job /\ shown'[j] = shown[j]
  BY Zenon, <1>1, <1>2, <1>3 DEF Move, EndedWhenDone, PoolTypes
<1>4. \A j \in Jobs : j # t.job => \A u \in Of(j) : place'[u] = place[u]
  BY Zenon DEF Move, PoolTypes, Of
<1>5. EndedWhenDone'
  BY Zenon, <1>3, <1>4 DEF EndedWhenDone
<1>6. FinalCounts'
  BY Zenon, <1>3 DEF FinalCounts
<1>7. \/ shown' = shown
      \/ shown' = [shown EXCEPT ![t.job] = Message(c, FALSE)]
  BY Zenon DEF Move
<1>8. shown' \in [Jobs -> [queued : Int, transferring : Int, transferred : Int,
                           failed : Int, done : BOOLEAN]]
  BY Zenon, <1>2, <1>7 DEF PoolTypes
<1> QED
  BY Zenon, <1>5, <1>6, <1>8

-----------------------------------------------------------------------------
(* The waiters.                                                            *)

\* A step of dispatch_one keeps the registrations sound and the newest waiter
\* reachable: a dispatch that ends takes only its own registration away, and
\* only once its future is no longer pending.
LEMMA StepWaiters ==
    ASSUME PoolTypes, WaitersSound, LatestReachable, NEW t \in Dispatches, Step(t)
    PROVE  /\ WaitersSound' /\ LatestReachable'
           /\ future' \in [Dispatches -> {"none", "pending", "resolved", "cancelled"}]
           /\ pending' \in [Keys -> Dispatches \cup {NoDispatch}]
           /\ latest' \in [Keys -> Dispatches \cup {NoDispatch}]
           /\ display' \in [Keys -> {"none", "queued", "transferring", "applying",
                                 "fail", "result"}]
           /\ online' = online
<1> t.key \in Keys
  BY Zenon DEF Keys
<1> t # NoDispatch
  BY Zenon, NoDispatchAssumption
<1>1. CASE Acquire(t)
  BY Zenon, <1>1 DEF Acquire, Show, PoolTypes, WaitersSound, LatestReachable
<1>2. CASE Sent(t)
  BY <1>2 DEF Sent, Show, Registered, PoolTypes, WaitersSound, LatestReachable
<1>3. CASE SendError(t)
  BY Zenon, <1>3 DEF SendError, Show, PoolTypes, WaitersSound, LatestReachable
<1>4. CASE Failed(t)
  BY Zenon, <1>4 DEF Failed, PoolTypes, WaitersSound, LatestReachable
<1>5. CASE Announced(t)
  BY Zenon, <1>5 DEF Announced, PoolTypes, WaitersSound, LatestReachable
<1>6. ASSUME future[t] # "pending", place' = [place EXCEPT ![t] = "done"],
             pending' = Unregistered(t), UNCHANGED <<future, display, online, latest>>
      PROVE  /\ WaitersSound' /\ LatestReachable'
             /\ pending' \in [Keys -> Dispatches \cup {NoDispatch}]
  BY <1>6 DEF Unregistered, PoolTypes, WaitersSound, LatestReachable
<1>7. CASE Transferred(t)
  BY Zenon, <1>6, <1>7 DEF Transferred, Close, PoolTypes
<1>8. CASE GaveUp(t)
  BY Zenon, <1>8 DEF GaveUp, Show, PoolTypes, WaitersSound, LatestReachable
<1>9. CASE WrittenOff(t)
  <2>1. future[t] # "pending"
    BY Zenon, <1>9 DEF WrittenOff, WaitersSound
  <2> QED
    BY Zenon, <1>6, <1>9, <2>1 DEF WrittenOff, Close, PoolTypes
<1> QED
  BY Zenon, <1>1, <1>2, <1>3, <1>4, <1>5, <1>7, <1>8, <1>9 DEF Step

\* What the device does resolves pending futures and touches nothing else
\* that the invariant reads.
LEMMA DeviceSteps ==
    ASSUME PoolInv,
           \/ \E k \in Keys : DownloadComplete(k) \/ ResultMessage(k)
           \/ \E d \in Devices : Disconnect(d) \/ Reconnect(d)
    PROVE  PoolInv'
<1>1. /\ UNCHANGED <<place, free, pending, counts, shown, latest>>
      /\ future' \in [Dispatches -> {"none", "pending", "resolved", "cancelled"}]
      /\ \A t \in Dispatches : future'[t] = "pending" => future[t] = "pending"
  BY Zenon
  DEF DownloadComplete, ResultMessage, Disconnect, Reconnect, Release, PoolInv,
      PoolTypes
<1>2. online' \subseteq Devices
  BY Zenon
  DEF DownloadComplete, ResultMessage, Disconnect, Reconnect, PoolInv,
      PoolTypes
<1>3. display' \in [Keys -> {"none", "queued", "transferring", "applying",
                         "fail", "result"}]
  BY Zenon
  DEF DownloadComplete, ResultMessage, Disconnect, Reconnect, Show, PoolInv,
      PoolTypes
<1>4. PoolTypes'
  BY Zenon, <1>1, <1>2, <1>3 DEF PoolInv, PoolTypes
<1>5. SlotsConserved' /\ EndedWhenDone' /\ FinalCounts'
  BY Zenon, <1>1 DEF PoolInv, SlotsConserved, EndedWhenDone, FinalCounts
<1>6. Tallied'
  BY Zenon, <1>1 DEF PoolInv, Tallied, Standing
<1>7. WaitersSound' /\ LatestReachable'
  BY <1>1 DEF PoolInv, PoolTypes, WaitersSound, LatestReachable
<1> QED
  BY Zenon, <1>4, <1>5, <1>6, <1>7 DEF PoolInv

-----------------------------------------------------------------------------
(* The jobs.                                                               *)

\* Starting a job moves its dispatches between two awaits that are counted
\* alike, neither of which holds a permit.
LEMMA StartStep ==
    ASSUME PoolInv, NEW j \in Jobs, StartJob(j)
    PROVE  PoolInv'
<1>1. \A t \in Of(j) : place[t] = "idle"
  BY Zenon DEF StartJob
<1>2. /\ UNCHANGED <<free, future, pending, counts, shown, online, latest>>
      /\ place' = [t \in Dispatches |-> IF t.job = j THEN "waiting" ELSE place[t]]
      /\ \A t \in Dispatches :
             place'[t] = place[t] \/ (place[t] = "idle" /\ place'[t] = "waiting" /\ t \in Of(j))
  BY Zenon, <1>1 DEF StartJob, Of
<1>3. PoolTypes'
  <2>1. place' \in [Dispatches -> Awaits]
    BY Zenon, <1>2 DEF PoolInv, PoolTypes, Awaits
  <2>2. display' \in [Keys -> {"none", "queued", "transferring", "applying",
                           "fail", "result"}]
    BY Zenon DEF StartJob, PoolInv, PoolTypes
  <2> QED
    BY Zenon, <1>2, <2>1, <2>2 DEF PoolInv, PoolTypes
<1>4. SlotsConserved'
  <2>1. {t \in Dispatches : place'[t] \in Holding} = {t \in Dispatches : place[t] \in Holding}
    BY Zenon, <1>2 DEF Holding
  <2> QED
    BY Zenon, <1>2, <2>1 DEF PoolInv, SlotsConserved
<1>5. Tallied'
  <2>1. \A i \in Jobs : /\ Standing(i, Queued)' = Standing(i, Queued)
                        /\ Standing(i, InTransfer)' = Standing(i, InTransfer)
                        /\ Standing(i, Finished)' = Standing(i, Finished)
    BY Zenon, <1>2 DEF Standing, Those, Of, Queued, InTransfer, Finished
  <2> QED
    BY Zenon, <1>2, <2>1 DEF PoolInv, Tallied
<1>6. EndedWhenDone' /\ FinalCounts'
  BY <1>2 DEF PoolInv, EndedWhenDone, FinalCounts, Of
<1>7. WaitersSound' /\ LatestReachable'
  BY Zenon, <1>2 DEF PoolInv, WaitersSound, LatestReachable
<1> QED
  BY Zenon, <1>3, <1>4, <1>5, <1>6, <1>7 DEF PoolInv

\* The terminal message is sent when the tallies leave nothing in the queue
\* or in transfer.
LEMMA FinishStep ==
    ASSUME PoolInv, NEW j \in Jobs, FinishJob(j)
    PROVE  PoolInv'
<1> DEFINE c == counts[j]
<1>1. /\ \A t \in Of(j) : place[t] = "done"
      /\ shown' = [shown EXCEPT ![j] = Message(c, TRUE)]
      /\ UNCHANGED <<place, free, future, pending, counts, display, online, latest>>
  BY Zenon DEF FinishJob
<1>2. /\ c \in CountRecord
      /\ Message(c, TRUE) \in [queued : Int, transferring : Int, transferred : Int,
                               failed : Int, done : BOOLEAN]
      /\ Message(c, TRUE).queued = c.queued
      /\ Message(c, TRUE).transferring = c.transferring
      /\ Message(c, TRUE).transferred = c.transferred
      /\ Message(c, TRUE).failed = c.failed
  BY Zenon DEF PoolInv, PoolTypes, CountRecord, Message
<1>3. /\ Standing(j, Queued) = {} /\ Standing(j, InTransfer) = {} /\ Standing(j, Finished) = Of(j)
  BY Zenon, <1>1 DEF Standing, Those, Queued, InTransfer, Finished
<1>4. /\ c.queued = 0 /\ c.transferring = 0
      /\ c.transferred + c.failed = Cardinality(Of(j))
  BY Zenon, <1>3, FS_EmptySet DEF PoolInv, Tallied
<1> HIDE DEF c
<1>5. PoolTypes'
  BY Zenon, <1>1, <1>2 DEF PoolInv, PoolTypes
<1>6. /\ shown'[j] = Message(c, TRUE)
      /\ \A i \in Jobs : i # j => shown'[i] = shown[i]
  BY Zenon, <1>1 DEF PoolInv, PoolTypes
<1>7. EndedWhenDone'
  BY Zenon, <1>1, <1>6 DEF PoolInv, EndedWhenDone
<1>8. FinalCounts'
  BY Zenon, <1>2, <1>4, <1>6 DEF PoolInv, FinalCounts
<1>9. SlotsConserved' /\ Tallied'
  BY Zenon, <1>1 DEF PoolInv, SlotsConserved, Tallied, Standing
<1>10. WaitersSound' /\ LatestReachable'
  BY Zenon, <1>1 DEF PoolInv, WaitersSound, LatestReachable
<1> QED
  BY Zenon, <1>5, <1>7, <1>8, <1>9, <1>10 DEF PoolInv

\* A step of dispatch_one keeps the invariant: it is a move.
LEMMA DispatchStep ==
    ASSUME PoolInv, NEW t \in Dispatches, Step(t)
    PROVE  PoolInv'
<1>1. PICK to \in Awaits, c \in CountRecord : Move(t, to, c)
  BY Zenon, StepMoves DEF PoolInv
<1>2. SlotsConserved' /\ free' \in 0 .. Slots
  BY Zenon, <1>1, MoveSlots DEF PoolInv
<1>3. Tallied'
  BY Zenon, <1>1, MoveTallies DEF PoolInv
<1>4. /\ EndedWhenDone' /\ FinalCounts'
      /\ shown' \in [Jobs -> [queued : Int, transferring : Int, transferred : Int,
                              failed : Int, done : BOOLEAN]]
  BY Zenon, <1>1, MoveFinal DEF PoolInv
<1>5. /\ WaitersSound' /\ LatestReachable'
      /\ future' \in [Dispatches -> {"none", "pending", "resolved", "cancelled"}]
      /\ pending' \in [Keys -> Dispatches \cup {NoDispatch}]
      /\ latest' \in [Keys -> Dispatches \cup {NoDispatch}]
      /\ display' \in [Keys -> {"none", "queued", "transferring", "applying",
                            "fail", "result"}]
      /\ online' = online
  BY Zenon, StepWaiters DEF PoolInv
<1>6. place' \in [Dispatches -> Awaits]
  BY Zenon, <1>1 DEF Move, PoolInv, PoolTypes
<1>7. counts' \in [Jobs -> [queued : Int, transferring : Int,
                            transferred : Int, failed : Int]]
  BY Zenon, <1>1 DEF Move, PoolInv, PoolTypes, CountRecord
<1>8. PoolTypes'
  BY Zenon, <1>2, <1>4, <1>5, <1>6, <1>7 DEF PoolInv, PoolTypes
<1> QED
  BY Zenon, <1>2, <1>3, <1>4, <1>5, <1>8 DEF PoolInv

\* The invariant holds initially: every dispatch is idle.
LEMMA PoolStarts == PoolInit => PoolInv
<1> SUFFICES ASSUME PoolInit PROVE PoolInv
  BY Zenon
<1>1. \A j : /\ IsFiniteSet(Of(j)) /\ Cardinality(Of(j)) \in Nat
  BY Zenon, JobsFinite, FS_CardinalityType
<1>2. PoolTypes
  <2>1. \A j \in Jobs :
            /\ Counters(Cardinality(Of(j)))
                   \in [queued : Int, transferring : Int, transferred : Int, failed : Int]
            /\ Message(Counters(Cardinality(Of(j))), FALSE)
                   \in [queued : Int, transferring : Int, transferred : Int,
                        failed : Int, done : BOOLEAN]
    BY <1>1 DEF Counters, Message
  <2>2. /\ counts \in [Jobs -> [queued : Int, transferring : Int,
                                transferred : Int, failed : Int]]
        /\ shown \in [Jobs -> [queued : Int, transferring : Int,
                               transferred : Int, failed : Int, done : BOOLEAN]]
    BY Zenon, <2>1 DEF PoolInit
  <2>3. free \in 0 .. Slots
    BY SlotsAssumption DEF PoolInit
  <2> QED
    BY Zenon, <2>2, <2>3 DEF PoolInit, PoolTypes, Awaits
<1>3. SlotsConserved
  <2>1. {t \in Dispatches : place[t] \in Holding} = {}
    BY Zenon DEF PoolInit, Holding
  <2> QED
    <3>1. Cardinality({t \in Dispatches : place[t] \in Holding}) = 0
      BY Zenon, <2>1, FS_EmptySet
    <3> QED
      BY <3>1, SlotsAssumption DEF PoolInit, SlotsConserved
<1>4. Tallied
  <2> SUFFICES ASSUME NEW j \in Jobs
               PROVE  /\ counts[j].queued = Cardinality(Standing(j, Queued))
                      /\ counts[j].transferring = Cardinality(Standing(j, InTransfer))
                      /\ counts[j].transferred + counts[j].failed
                             = Cardinality(Standing(j, Finished))
    BY Zenon DEF Tallied
  <2>1. Standing(j, Queued) = Of(j) /\ Standing(j, InTransfer) = {} /\ Standing(j, Finished) = {}
    BY Zenon DEF PoolInit, Standing, Those, Of, Queued, InTransfer, Finished
  <2>2. /\ counts[j].queued = Cardinality(Of(j)) /\ counts[j].transferring = 0
        /\ counts[j].transferred = 0 /\ counts[j].failed = 0
    BY Zenon DEF PoolInit, Counters
  <2> QED
    BY <2>1, <2>2, FS_EmptySet
<1>5. \A j \in Jobs : ~shown[j].done
  BY Zenon DEF PoolInit, Message
<1>6. EndedWhenDone /\ FinalCounts
  BY Zenon, <1>5 DEF EndedWhenDone, FinalCounts
<1>7. WaitersSound /\ LatestReachable
  BY Zenon DEF PoolInit, WaitersSound, LatestReachable
<1> QED
  BY Zenon, <1>2, <1>3, <1>4, <1>6, <1>7 DEF PoolInv

-----------------------------------------------------------------------------
(* The theorems.                                                           *)

\* The invariant holds whatever the jobs, the devices and the number of slots.
THEOREM PoolInvariance == PoolSpec => []PoolInv
<1>1. PoolInv /\ [PoolNext]_poolVars => PoolInv'
  <2> SUFFICES ASSUME PoolInv, [PoolNext]_poolVars PROVE PoolInv'
    BY Zenon
  <2>1. CASE UNCHANGED poolVars
    BY Zenon, <2>1
    DEF poolVars, PoolInv, PoolTypes, SlotsConserved, Tallied, Standing,
        EndedWhenDone, FinalCounts, WaitersSound, LatestReachable
  <2>2. CASE PoolNext
    BY Zenon, <2>2, StartStep, FinishStep, DispatchStep, DeviceSteps
    DEF PoolNext
  <2> QED
    BY Zenon, <2>1, <2>2
<1> QED
  BY PoolStarts, <1>1, PTL DEF PoolSpec

\* SlotsConserved: the semaphore's permits and their holders always add up to
\* MAX_CONCURRENT_TRANSFERS, so the cap holds and no permit is lost.
THEOREM PermitsConserved == PoolSpec => []SlotsConserved
BY PoolInvariance, PTL DEF PoolInv

\* LatestReachable: the newest waiter of a device and task stays in
\* pending_transfers while it is pending.
THEOREM NewestWaiterReachable == PoolSpec => []LatestReachable
BY PoolInvariance, PTL DEF PoolInv

\* FinalCounts: a job's terminal progress message accounts for every device.
THEOREM TerminalMessageAccounts == PoolSpec => []FinalCounts
BY PoolInvariance, PTL DEF PoolInv

\* NoResurrection: a late DOWNLOAD_COMPLETE does not turn a row to installing
\* when no dispatch of that device and task is in its transfer.
THEOREM LateCompletionIgnored == PoolSpec => NoResurrection
<1>1. PoolInv /\ [PoolNext]_poolVars =>
          [\A k \in Keys : display'[k] = "applying" /\ display[k] # "applying" =>
               \E t \in Dispatches :
                   /\ t.key = k
                   /\ place[t] \in {"announcing", "transferring"}]_poolVars
  <2> SUFFICES ASSUME PoolInv, PoolNext, NEW k \in Keys,
                      display'[k] = "applying", display[k] # "applying"
               PROVE  \E t \in Dispatches :
                          /\ t.key = k
                          /\ place[t] \in {"announcing", "transferring"}
    BY Zenon DEF poolVars
  <2> display \in [Keys -> {"none", "queued", "transferring", "applying",
                        "fail", "result"}]
    BY Zenon DEF PoolInv, PoolTypes
  <2>1. DownloadComplete(k)
    BY Zenon
    DEF PoolNext, StartJob, FinishJob, Step, Acquire, Sent, SendError, Failed,
        Announced, Transferred, GaveUp, WrittenOff, Close, Show,
        DownloadComplete, ResultMessage, Disconnect, Reconnect
  <2>2. /\ pending[k] \in Dispatches /\ pending[k].key = k
        /\ future[pending[k]] = "pending"
    BY Zenon, <2>1 DEF DownloadComplete, Live, PoolInv, PoolTypes, WaitersSound
  <2> QED
    BY Zenon, <2>2 DEF PoolInv, WaitersSound
<1> QED
  BY PoolInvariance, <1>1, PTL DEF PoolSpec, NoResurrection

\* OwnSlotOnly: a waiter is resolved by a message about its own device and
\* task or by the device's disconnect.
THEOREM SlotsReleasedByOwner == PoolSpec => OwnSlotOnly
<1>1. PoolInv /\ [PoolNext]_poolVars =>
          [\A t \in Dispatches :
               future[t] = "pending" /\ future'[t] = "resolved" =>
                   \/ t.key[1] \notin online'
                   \/ display'[t.key] \in {"applying", "result"}]_poolVars
  <2> SUFFICES ASSUME PoolInv, PoolNext, NEW t \in Dispatches,
                      future[t] = "pending", future'[t] = "resolved"
               PROVE  \/ t.key[1] \notin online'
                      \/ display'[t.key] \in {"applying", "result"}
    BY Zenon DEF poolVars
  <2>1. t.key \in Keys
    BY Zenon DEF Keys
  <2>2. \/ \E k \in Keys : DownloadComplete(k) \/ ResultMessage(k)
        \/ \E d \in Devices : Disconnect(d)
    BY Zenon
    DEF PoolInv, PoolTypes, PoolNext, StartJob, FinishJob, Step, Acquire, Sent,
        SendError, Failed, Announced, Transferred, GaveUp, WrittenOff,
        Reconnect
  <2>3. CASE \E k \in Keys : DownloadComplete(k) \/ ResultMessage(k)
    BY <2>1, <2>3
    DEF DownloadComplete, ResultMessage, Release, Show, PoolInv, PoolTypes
  <2>4. CASE \E d \in Devices : Disconnect(d)
    BY Zenon, <2>4 DEF Disconnect, Release, PoolInv, PoolTypes
  <2> QED
    BY Zenon, <2>2, <2>3, <2>4
<1> QED
  BY PoolInvariance, <1>1, PTL DEF PoolSpec, OwnSlotOnly

-----------------------------------------------------------------------------
(* The dispatch tasks (push_scheduler.py, push_runtime.py).                *)

\* Between the two halves of a disconnection the lock stays with the socket
\* that leaves or joins: no task and no frame runs in between.
LockKept ==
    closing # "no" => queue # <<>> /\ Head(queue).kind \in {"leave", "join"}

\* The tasks that hold a committed dispatch and wait for the lock to send it.
Sending == {t \in Tasks : pc[t] = "send"}

\* The row can be claimed, or is claimed, and no command of that claim is
\* committed.
Unclaimed == IF row.state \in {"queued", "waiting_transfer"} THEN 1 ELSE 0

\* Commands are conserved: a send, a prepared dispatch and a row that is still
\* to be dispatched draw on the same allowance of one command and one replay.
Budget ==
    /\ IsFiniteSet(Sending)
    /\ sent + Cardinality(Sending) + Unclaimed <= 1 + row.replays

IInv ==
    TypeOK /\ LockKept /\ LiveWaiterRegistered /\ ClaimHasTask /\ Budget

-----------------------------------------------------------------------------
(* The operators the steps are built from.                                 *)

\* What Moved and Uncertain do to a row: the state and the reason change and
\* the replay count stays.
LEMMA RowOps ==
    ASSUME row \in Rows
    PROVE  /\ \A s \in States :
                 /\ Moved(s) \in Rows
                 /\ Moved(s).state = s /\ Moved(s).replays = row.replays
                 /\ [Moved(s) EXCEPT !.accepted = TRUE] \in Rows
                 /\ [Moved(s) EXCEPT !.accepted = TRUE].state = s
                 /\ [Moved(s) EXCEPT !.accepted = TRUE].replays = row.replays
           /\ \A r \in Reasons :
                 /\ Uncertain(r) \in Rows
                 /\ Uncertain(r).state = "reconciling"
                 /\ Uncertain(r).replays = row.replays
<1>1. "reconciling" \in States /\ "none" \in Reasons
  BY Zenon DEF States, Reasons
<1> QED
  BY Zenon, <1>1 DEF Rows, Moved, Uncertain

\* A replay counted by ReportAbsent keeps the row's type.
LEMMA ReplayOps ==
    ASSUME row \in Rows, row.replays < 1
    PROVE  /\ [Moved("queued") EXCEPT !.replays = @ + 1] \in Rows
           /\ [Moved("queued") EXCEPT !.replays = @ + 1].state = "queued"
           /\ [Moved("queued") EXCEPT !.replays = @ + 1].replays = row.replays + 1
<1>1. "queued" \in States
  BY Zenon DEF States
<1>2. row.replays + 1 \in 0 .. 1
  BY DEF Rows
<1> QED
  BY Zenon, <1>1, <1>2 DEF Rows, Moved, Reasons

\* The lock's queue keeps its entries when its holder leaves it.
LEMMA QueueOps ==
    ASSUME queue \in Seq(Entries), queue # <<>>
    PROVE  Tail(queue) \in Seq(Entries) /\ Head(queue) \in Entries
OBVIOUS

\* A task that waits for the lock is appended behind its holder.
LEMMA AppendOps ==
    ASSUME queue \in Seq(Entries), NEW e \in Entries
    PROVE  /\ Append(queue, e) \in Seq(Entries)
           /\ Append(queue, e) # <<>>
           /\ queue # <<>> => Head(Append(queue, e)) = Head(queue)
<1>1. /\ Append(queue, e) \in Seq(Entries) /\ Len(Append(queue, e)) = Len(queue) + 1
      /\ Len(queue) \in Nat
  OBVIOUS
<1>2. Append(queue, e) # <<>>
  BY <1>1
<1>3. ASSUME queue # <<>>
      PROVE  Head(Append(queue, e)) = Head(queue)
  <2>1. 1 \in 1 .. Len(queue) /\ Append(queue, e)[1] = queue[1]
    BY <1>3
  <2> QED
    BY <1>1, <1>2, <1>3, <2>1
<1> QED
  BY Zenon, <1>1, <1>2, <1>3

\* release_exact and _clear_dispatch_waiters keep the types of the futures.
LEMMA WaiterOps ==
    ASSUME TypeOK
    PROVE  /\ Released \in [Tasks -> {"none", "pending", "done"}]
           /\ \A t \in Tasks, f \in [Tasks -> {"none", "pending", "done"}] :
                 Clear(t, f) =>
                     /\ transfer' \in [Tasks -> {"none", "pending", "done"}]
                     /\ accept' \in [Tasks -> {"none", "pending", "accepted",
                                               "same", "refused", "done"}]
                     /\ registry' \in Tasks \cup {None}
                     /\ waiter' \in Tasks \cup {None}
BY Zenon DEF TypeOK, Released, Clear

\* A task's next await is one of the awaits.
LEMMA GotoOps ==
    ASSUME TypeOK, NEW t \in Tasks, NEW s \in Steps, Goto(t, s)
    PROVE  pc' \in [Tasks -> Steps] /\ on' \in [Tasks -> 0 .. MaxSessions]
<1> USE BoundAssumption
<1> QED
  BY DEF TypeOK, Goto

-----------------------------------------------------------------------------
(* Types, and the lock.                                                    *)

\* The runner's steps keep the types.
LEMMA RunnerTyped ==
    ASSUME TypeOK, Runner
    PROVE  TypeOK'
<1>1. CASE Look \/ ClaimNothing
  BY Zenon, <1>1 DEF TypeOK, Look, ClaimNothing, connection, tasks
<1>2. ASSUME NEW t \in Tasks, Claim(t)
      PROVE  TypeOK'
  <2>1. row' \in Rows
    BY Zenon, <1>2 DEF TypeOK, Claim, Rows, States
  <2>2. pc' \in [Tasks -> Steps] /\ on' \in [Tasks -> 0 .. MaxSessions]
    BY Zenon, <1>2, GotoOps DEF Claim, Steps
  <2> QED
    BY Zenon, <1>2, <2>1, <2>2 DEF TypeOK, Claim, connection, KeepWaiters
<1> QED
  BY Zenon, <1>1, <1>2 DEF Runner

\* The steps of a dispatch task keep the types.
LEMMA TaskTyped ==
    ASSUME TypeOK, NEW t \in Tasks, TaskStep(t)
    PROVE  TypeOK'
<1>1. /\ pc' \in [Tasks -> Steps]
      /\ on' \in [Tasks -> 0 .. MaxSessions]
  <2>1. PICK s \in Steps : Goto(t, s)
    BY Zenon
    DEF TaskStep, GotSlot, Prepare, SendRace, Send, SendFailed, Answered,
        AcceptTimeout, Probe, TransferReleased, TransferTimeout,
        MarkReconciling, Recover, Steps
  <2> QED
    BY Zenon, <2>1, GotoOps
<1>2. row' \in Rows
  <2> USE DEF TypeOK
  <2>1. CASE GotSlot(t) \/ SendRace(t) \/ SendFailed(t) \/ Recover(t)
    <3>1. /\ "failed" \in States /\ "queued" \in States
          /\ "unexpected_dispatch_failure" \in Reasons
      BY Zenon DEF States, Settled, Reasons
    <3>2. row' \in {row, Moved("failed"), Moved("queued"),
                    Uncertain("unexpected_dispatch_failure")}
      BY Zenon, <2>1 DEF GotSlot, SendRace, SendFailed, Recover, FailFrom
    <3>3. Moved("failed") \in Rows /\ Moved("queued") \in Rows
      BY Zenon, <3>1, RowOps
    <3>4. Uncertain("unexpected_dispatch_failure") \in Rows
      BY Zenon, <3>1, RowOps
    <3> QED
      BY Zenon, <3>2, <3>3, <3>4
  <2>2. CASE Prepare(t)
    BY Zenon, <2>2 DEF Prepare, Rows, States, Phases
  <2>3. CASE Answered(t)
    <3>1. "failed" \in States /\ "downloading" \in States
      BY Zenon DEF States, Settled, Phases
    <3> QED
      BY Zenon, <2>3, <3>1, RowOps DEF Answered, FailFrom
  <2>4. CASE AcceptTimeout(t)
    BY Zenon, <2>4 DEF AcceptTimeout, Rows, States, Reasons
  <2>5. CASE MarkReconciling(t)
    <3>1. "transfer_timeout" \in Reasons
      BY Zenon DEF Reasons
    <3> QED
      BY Zenon, <2>5, <3>1, RowOps DEF MarkReconciling
  <2>6. CASE Send(t) \/ Probe(t) \/ TransferReleased(t) \/ TransferTimeout(t)
    BY Zenon, <2>6 DEF Send, Probe, TransferReleased, TransferTimeout
  <2> QED
    BY Zenon, <2>1, <2>2, <2>3, <2>4, <2>5, <2>6 DEF TaskStep
<1>3. queue' \in Seq(Entries)
  <2>1. Entry("task", t) \in Entries
    BY Zenon DEF Entry, Entries
  <2>2. queue' \in {queue, Append(queue, Entry("task", t))}
        \/ (queue # <<>> /\ queue' = Tail(queue))
    BY Zenon
    DEF TaskStep, GotSlot, Prepare, SendRace, Send, SendFailed, Answered,
        AcceptTimeout, Probe, TransferReleased, TransferTimeout,
        MarkReconciling, Recover, Holds, connection
  <2>3. queue \in Seq(Entries)
    BY Zenon DEF TypeOK
  <2> QED
    BY Zenon, <2>1, <2>2, <2>3, QueueOps, AppendOps
<1>4. /\ transfer' \in [Tasks -> {"none", "pending", "done"}]
      /\ accept' \in [Tasks -> {"none", "pending", "accepted", "same",
                                "refused", "done"}]
      /\ registry' \in Tasks \cup {None} /\ waiter' \in Tasks \cup {None}
  <2>1. CASE Clear(t, transfer) \/ Clear(t, Released)
    BY Zenon, <2>1, WaiterOps DEF TypeOK
  <2>2. CASE KeepWaiters
    BY Zenon, <2>2 DEF KeepWaiters, TypeOK
  <2>3. CASE /\ transfer' = [transfer EXCEPT ![t] = "pending"]
             /\ accept' = [accept EXCEPT ![t] = "pending"]
             /\ registry' = t /\ waiter' = t
    BY Zenon, <2>3 DEF TypeOK
  <2>4. CASE /\ accept' = [accept EXCEPT ![t] = "done"]
             /\ UNCHANGED <<transfer, registry, waiter>>
    BY Zenon, <2>4 DEF TypeOK
  <2>5. CASE /\ transfer' = [transfer EXCEPT ![t] = "done"]
             /\ UNCHANGED <<accept, registry, waiter>>
    BY Zenon, <2>5 DEF TypeOK
  <2> QED
    BY Zenon, <2>1, <2>2, <2>3, <2>4, <2>5
    DEF TaskStep, GotSlot, Prepare, SendRace, Send, SendFailed, Answered,
        AcceptTimeout, Probe, TransferReleased, TransferTimeout,
        MarkReconciling, Recover
<1>5. seen' \in [Tasks -> Phases \cup {"no"}] /\ sent' \in Nat
  BY DEF TypeOK, TaskStep, GotSlot, Prepare, SendRace, Send, SendFailed,
      Answered, AcceptTimeout, Probe, TransferReleased, TransferTimeout,
      MarkReconciling, Recover
<1>6. UNCHANGED <<session, opened, closing, looked>>
  BY Zenon
  DEF TaskStep, GotSlot, Prepare, SendRace, Send, SendFailed, Answered,
      AcceptTimeout, Probe, TransferReleased, TransferTimeout, MarkReconciling,
      Recover, connection
<1> QED
  BY Zenon, <1>1, <1>2, <1>3, <1>4, <1>5, <1>6 DEF TypeOK

\* The steps of the lock's other holders keep the types.
LEMMA LockTyped ==
    ASSUME TypeOK, LockKept, LockStep
    PROVE  TypeOK'
<1> USE DEF TypeOK
<1>1. CASE DropSession
  <2>1. transfer' \in [Tasks -> {"none", "pending", "done"}]
    BY Zenon, <1>1, WaiterOps DEF DropSession
  <2>2. session' \in 0 .. MaxSessions
    BY <1>1, BoundAssumption DEF DropSession
  <2>3. closing' \in States
    BY Zenon, <1>1 DEF DropSession, Rows
  <2> QED
    BY Zenon, <1>1, <2>1, <2>2, <2>3 DEF DropSession
<1>2. CASE FinishDrop
  <2>1. row' \in Rows
    <3>1. /\ "queued" \in States
          /\ "disconnect_before_accept" \in Reasons
          /\ "device_disconnect" \in Reasons
      BY Zenon DEF States, Reasons
    <3> QED
      BY Zenon, <1>2, <3>1, RowOps DEF FinishDrop, GiveBack
  <2>2. queue' \in Seq(Entries)
    BY Zenon, <1>2, QueueOps DEF FinishDrop, LockKept
  <2> QED
    BY Zenon, <1>2, <2>1, <2>2 DEF FinishDrop, tasks
<1>3. CASE Join \/ Stale
  <2>1. queue' \in Seq(Entries)
    BY Zenon, <1>3, QueueOps DEF Join, Stale, Holds
  <2> QED
    BY Zenon, <1>3, <2>1 DEF Join, Stale, tasks
<1>4. CASE HandleFrame
  <2>1. queue' \in Seq(Entries)
    BY Zenon, <1>4, QueueOps DEF HandleFrame, Handling, Holds
  <2>2. transfer' \in [Tasks -> {"none", "pending", "done"}]
    BY Zenon, <1>4, WaiterOps DEF HandleFrame, CommandResponse, LateAnswer,
        TransferComplete, PhaseApplying, Result, ReportActive, ReportAbsent,
        Ignored
  <2>3. accept' \in [Tasks -> {"none", "pending", "accepted", "same",
                               "refused", "done"}]
    BY Zenon, <1>4, NoneAssumption
    DEF HandleFrame, CommandResponse, LateAnswer, TransferComplete,
        PhaseApplying, Result, ReportActive, ReportAbsent, Ignored, AckWaits
  <2>4. row' \in Rows
    <3>1. /\ "downloading" \in States /\ "validating" \in States
          /\ "applying" \in States /\ "succeeded" \in States
          /\ "failed" \in States /\ "interrupted" \in States
      BY Zenon DEF States, Phases, Settled
    <3>2. ASSUME NEW a \in {"accepted", "same", "refused"},
                 NEW p \in {"downloading", "validating", "applying"},
                 LateAnswer(a, p)
          PROVE  row' \in Rows
      <4>1. row' \in {[Moved(p) EXCEPT !.accepted = TRUE],
                      [Moved("downloading") EXCEPT !.accepted = TRUE],
                      Moved("failed")}
        BY Zenon, <3>2 DEF LateAnswer
      <4>2. /\ [Moved(p) EXCEPT !.accepted = TRUE] \in Rows
            /\ [Moved("downloading") EXCEPT !.accepted = TRUE] \in Rows
            /\ Moved("failed") \in Rows
        BY Zenon, <3>1, RowOps
      <4> QED
        BY Zenon, <4>1, <4>2
    <3>3. CASE PhaseApplying
      BY Zenon, <3>1, <3>3 DEF PhaseApplying, Rows, Reasons
    <3>4. CASE ReportAbsent
      BY Zenon, <3>1, <3>4, RowOps, ReplayOps DEF ReportAbsent
    <3>5. ASSUME NEW p \in {"downloading", "validating", "applying"},
                 ReportActive(p)
          PROVE  row' \in Rows
      BY Zenon, <3>1, <3>5, RowOps DEF ReportActive
    <3>6. CASE TransferComplete \/ \E s \in {"succeeded", "failed"} : Result(s)
      <4>1. CASE TransferComplete
        BY Zenon, <3>1, <4>1, RowOps DEF TransferComplete
      <4>2. ASSUME NEW s \in {"succeeded", "failed"}, Result(s)
            PROVE  row' \in Rows
        BY Zenon, <3>1, <4>2, RowOps DEF Result
      <4> QED
        BY Zenon, <3>6, <4>1, <4>2
    <3>7. CASE Ignored \/ \E a \in {"accepted", "same", "refused"} :
                             CommandResponse(a)
      BY Zenon, <3>7 DEF Ignored, CommandResponse
    <3> QED
      BY Zenon, <1>4, <3>2, <3>3, <3>4, <3>5, <3>6, <3>7 DEF HandleFrame
  <2> QED
    BY Zenon, <1>4, <2>1, <2>2, <2>3, <2>4 DEF HandleFrame, HandlerKeeps
<1> QED
  BY Zenon, <1>1, <1>2, <1>3, <1>4 DEF LockStep

\* Sockets and housekeeping keep the types.
LEMMA OthersTyped ==
    ASSUME TypeOK,
           Housekeeping \/ FrameArrives \/ SocketCloses \/ SocketRegisters
    PROVE  TypeOK'
<1> USE DEF TypeOK
<1>1. CASE ExpireAcceptance
  <2>1. row' \in Rows
    BY Zenon, <1>1 DEF ExpireAcceptance, Rows, States, Reasons
  <2> QED
    BY Zenon, <1>1, <2>1 DEF ExpireAcceptance, connection, tasks
<1>2. CASE ExpireReconciliation
  <2>1. "unconfirmed" \in States
    BY Zenon DEF States, Settled
  <2> QED
    BY Zenon, <1>2, <2>1, RowOps, WaiterOps
    DEF ExpireReconciliation, connection
<1>3. CASE FrameArrives \/ SocketCloses
  <2>1. Entry("frame", session) \in Entries /\ Entry("leave", session) \in Entries
    BY Zenon DEF Entry, Entries
  <2> QED
    BY Zenon, <1>3, <2>1, AppendOps DEF FrameArrives, SocketCloses, Wait, tasks
<1>4. CASE SocketRegisters
  <2>1. opened + 1 \in 0 .. MaxSessions
    BY <1>4, BoundAssumption DEF SocketRegisters
  <2>2. Entry("join", opened + 1) \in Entries
    BY Zenon, <2>1 DEF Entry, Entries
  <2> QED
    BY Zenon, <1>4, <2>1, <2>2, AppendOps DEF SocketRegisters, tasks
<1> QED
  BY Zenon, <1>1, <1>2, <1>3, <1>4 DEF Housekeeping

\* What a dispatch task may do to the queue: nothing, wait behind the others,
\* or give up the lock it holds.
LEMMA TaskQueue ==
    ASSUME NEW t \in Tasks, TaskStep(t)
    PROVE  /\ closing' = closing
           /\ \/ queue' = queue
              \/ queue' = Append(queue, Entry("task", t))
              \/ Holds("task", t) /\ queue' = Tail(queue)
BY Zenon DEF TaskStep, GotSlot, Prepare, SendRace, Send, SendFailed, Answered,
    AcceptTimeout, Probe, TransferReleased, TransferTimeout,
    MarkReconciling, Recover, connection

\* Nobody takes the lock between the halves of a disconnection.
LEMMA LockStays ==
    ASSUME TypeOK, LockKept, [Next]_vars
    PROVE  LockKept'
<1>1. ASSUME UNCHANGED <<queue, closing>>
      PROVE  LockKept'
  BY Zenon, <1>1 DEF LockKept
<1>2. ASSUME NEW e \in Entries, queue' = Append(queue, e), closing' = closing
      PROVE  LockKept'
  BY Zenon, <1>2, AppendOps DEF LockKept, TypeOK
<1>3. ASSUME NEW t \in Tasks, TaskStep(t)
      PROVE  LockKept'
  <2>1. Entry("task", t) \in Entries
    BY Zenon DEF Entry, Entries
  <2>2. /\ closing' = closing
        /\ \/ queue' = queue
           \/ queue' = Append(queue, Entry("task", t))
           \/ Holds("task", t) /\ queue' = Tail(queue)
    BY Zenon, <1>3, TaskQueue
  <2>3. CASE Holds("task", t)
    BY <2>2, <2>3 DEF LockKept, Holds, Entry
  <2>4. CASE queue' = Append(queue, Entry("task", t))
    BY Zenon, <1>2, <2>1, <2>2, <2>4
  <2> QED
    BY Zenon, <1>1, <2>2, <2>3, <2>4
<1>4. CASE DropSession
  BY <1>4 DEF DropSession, LockKept, Holds, Entry
<1>5. CASE FinishDrop \/ Join \/ Stale
  BY Zenon, <1>5 DEF FinishDrop, Join, Stale, LockKept
<1>6. CASE HandleFrame
  BY <1>6 DEF HandleFrame, Handling, HandlerKeeps, Holds, Entry, LockKept
<1>7. CASE FrameArrives \/ SocketCloses
  <2>1. Entry("frame", session) \in Entries /\ Entry("leave", session) \in Entries
    BY Zenon DEF Entry, Entries, TypeOK
  <2> QED
    BY Zenon, <1>2, <1>7, <2>1 DEF FrameArrives, SocketCloses, Wait
<1>8. CASE SocketRegisters
  <2>1. Entry("join", opened + 1) \in Entries
    BY <1>8, BoundAssumption DEF SocketRegisters, Entry, Entries, TypeOK
  <2> QED
    BY Zenon, <1>2, <1>8, <2>1 DEF SocketRegisters
<1>9. CASE Runner \/ Housekeeping \/ UNCHANGED vars
  BY Zenon, <1>1, <1>9 DEF Runner, Look, Claim, ClaimNothing, Housekeeping,
      ExpireAcceptance, ExpireReconciliation, connection, vars
<1> QED
  BY Zenon, <1>3, <1>4, <1>5, <1>6, <1>7, <1>8, <1>9 DEF Next, LockStep

-----------------------------------------------------------------------------
(* The waiters.                                                            *)

\* Whoever ends a wait leaves the other tasks' registrations alone.
LEMMA WaitersStay ==
    ASSUME TypeOK, LiveWaiterRegistered, [Next]_vars
    PROVE  LiveWaiterRegistered'
<1> USE DEF LiveWaiterRegistered
<1>0. transfer \in [Tasks -> {"none", "pending", "done"}]
  BY Zenon DEF TypeOK
<1>1. ASSUME \/ transfer' = transfer
             \/ transfer' = Released
             \/ \E t \in Tasks : transfer' = [transfer EXCEPT ![t] = "done"],
             registry' = registry
      PROVE  LiveWaiterRegistered'
  BY Zenon, <1>0, <1>1 DEF Released
<1>2. ASSUME NEW t \in Tasks, Clear(t, transfer) \/ Clear(t, Released)
      PROVE  LiveWaiterRegistered'
  BY Zenon, <1>0, <1>2, NoneAssumption DEF Clear, Released
<1>3. ASSUME NEW t \in Tasks, GotSlot(t)
      PROVE  LiveWaiterRegistered'
  BY Zenon, <1>0, <1>1, <1>3, NoneAssumption DEF GotSlot, Occupied, KeepWaiters
<1>4. ASSUME NEW t \in Tasks, TaskStep(t), ~GotSlot(t)
      PROVE  LiveWaiterRegistered'
  <2>1. \/ Clear(t, transfer) \/ Clear(t, Released) \/ KeepWaiters
        \/ transfer' = transfer /\ registry' = registry
        \/ transfer' = [transfer EXCEPT ![t] = "done"] /\ registry' = registry
    BY Zenon, <1>4 DEF TaskStep, Prepare, SendRace, Send, SendFailed, Answered,
        AcceptTimeout, Probe, TransferReleased, TransferTimeout,
        MarkReconciling, Recover
  <2> QED
    BY Zenon, <1>1, <1>2, <2>1 DEF KeepWaiters
<1>5. CASE LockStep
  BY Zenon, <1>1, <1>5 DEF LockStep, DropSession, FinishDrop, Join, Stale,
      HandleFrame, HandlerKeeps, CommandResponse, LateAnswer, TransferComplete,
      PhaseApplying, Result, ReportActive, ReportAbsent, Ignored, tasks
<1>6. CASE Runner \/ Housekeeping \/ FrameArrives \/ SocketCloses
           \/ SocketRegisters \/ UNCHANGED vars
  BY Zenon, <1>1, <1>6 DEF Runner, Look, Claim, ClaimNothing, KeepWaiters,
      Housekeeping, ExpireAcceptance, ExpireReconciliation, FrameArrives,
      SocketCloses, SocketRegisters, Wait, tasks, vars
<1> QED
  BY Zenon, <1>3, <1>4, <1>5, <1>6 DEF Next

-----------------------------------------------------------------------------
(* The claim.                                                              *)

\* A task that has the claim keeps it or moves the row on.
LEMMA ClaimStays ==
    ASSUME TypeOK, ClaimHasTask, [Next]_vars
    PROVE  ClaimHasTask'
<1> USE DEF ClaimHasTask
<1>0. pc \in [Tasks -> Steps] /\ row \in Rows
  BY Zenon DEF TypeOK
<1>1. ASSUME NEW t \in Tasks, TaskStep(t)
      PROVE  ClaimHasTask'
  <2>1. CASE GotSlot(t)
    BY Zenon, <1>0, <2>1 DEF GotSlot, Goto, FailFrom, Moved, Rows
  <2>2. CASE Prepare(t)
    BY Zenon, <1>0, <2>2 DEF Prepare, Goto, Rows
  <2>3. CASE Recover(t)
    BY Zenon, <1>0, <2>3 DEF Recover, Goto, Moved, Uncertain, Phases, Rows
  <2>4. CASE ~(GotSlot(t) \/ Prepare(t) \/ Recover(t))
    <3>1. /\ row'.state = "waiting_transfer" => row.state = "waiting_transfer"
          /\ pc[t] \notin {"slot", "prepare", "recover"}
          /\ \E s \in Steps : pc' = [pc EXCEPT ![t] = s]
      <4>1. pc[t] \notin {"slot", "prepare", "recover"}
        BY Zenon, <1>1, <2>4
        DEF TaskStep, SendRace, Send, SendFailed, Answered, AcceptTimeout,
            Probe, TransferReleased, TransferTimeout, MarkReconciling
      <4>2. \E s \in Steps : pc' = [pc EXCEPT ![t] = s]
        BY Zenon, <1>1, <2>4
        DEF TaskStep, SendRace, Send, SendFailed, Answered, AcceptTimeout,
            Probe, TransferReleased, TransferTimeout, MarkReconciling, Goto,
            Steps
      <4>3. row' = row \/ row'.state \in {"queued", "failed", "downloading",
                                           "reconciling"}
        BY Zenon, <1>0, <1>1, <2>4
        DEF TaskStep, SendRace, Send, SendFailed, Answered, AcceptTimeout,
            Probe, TransferReleased, TransferTimeout, MarkReconciling,
            FailFrom, Moved, Uncertain, Rows
      <4> QED
        BY Zenon, <4>1, <4>2, <4>3
    <3> QED
      BY Zenon, <1>0, <3>1
  <2> QED
    BY Zenon, <2>1, <2>2, <2>3, <2>4
<1>2. ASSUME NEW t \in Tasks, Claim(t)
      PROVE  ClaimHasTask'
  BY Zenon, <1>0, <1>2 DEF Claim, Goto
<1>3. ASSUME pc' = pc,
             row'.state = "waiting_transfer" => row.state = "waiting_transfer"
      PROVE  ClaimHasTask'
  BY Zenon, <1>3
<1>4. CASE HandleFrame
  <2>1. row' = row \/ row'.state # "waiting_transfer"
    BY Zenon, <1>0, <1>4 DEF HandleFrame, CommandResponse, LateAnswer,
        TransferComplete, PhaseApplying, Result, ReportActive, ReportAbsent,
        Ignored, Moved, Rows
  <2> QED
    BY Zenon, <1>3, <1>4, <2>1 DEF HandleFrame, HandlerKeeps
<1>5. CASE DropSession \/ FinishDrop \/ Join \/ Stale
  <2>1. row' = row \/ row'.state # "waiting_transfer"
    BY Zenon, <1>0, <1>5
    DEF DropSession, FinishDrop, GiveBack, Join, Stale, Moved, Uncertain, Rows
  <2> QED
    BY Zenon, <1>3, <1>5, <2>1 DEF DropSession, FinishDrop, Join, Stale, tasks
<1>6. CASE Look \/ ClaimNothing \/ FrameArrives \/ SocketCloses
           \/ SocketRegisters \/ UNCHANGED vars
  BY Zenon, <1>3, <1>6 DEF Look, ClaimNothing, FrameArrives, SocketCloses,
      SocketRegisters, Wait, tasks, vars
<1>7. CASE Housekeeping
  <2>1. row'.state # "waiting_transfer" /\ pc' = pc
    BY Zenon, <1>0, <1>7
    DEF Housekeeping, ExpireAcceptance, ExpireReconciliation, Moved, Rows,
        tasks
  <2> QED
    BY Zenon, <1>3, <2>1
<1> QED
  BY Zenon, <1>1, <1>2, <1>4, <1>5, <1>6, <1>7 DEF Next, Runner, LockStep

-----------------------------------------------------------------------------
(* The commands.                                                           *)

\* What the other steps leave to the budget: they send nothing, prepare
\* nothing, and reopen the row only against a counted replay.
Untouched ==
    /\ sent' = sent /\ Sending' = Sending
    /\ row'.replays \in 0 .. 1
    /\ row'.replays + Unclaimed >= row.replays + Unclaimed'

\* Such a step keeps the budget.
LEMMA BudgetUntouched ==
    ASSUME TypeOK, Budget, Untouched
    PROVE  Budget'
<1>1. Cardinality(Sending) \in Nat
  BY Zenon, FS_CardinalityType DEF Budget
<1>2. Unclaimed \in {0, 1} /\ Unclaimed' \in {0, 1}
  BY Zenon DEF Unclaimed
<1>3. row.replays \in 0 .. 1 /\ sent \in Nat
  BY Zenon DEF TypeOK, Rows
<1> QED
  BY <1>1, <1>2, <1>3 DEF Budget, Untouched

\* A task that leaves the lock has its dispatch accounted for: it was sent, or
\* at most the row is open again.
LEMMA BudgetLeave ==
    ASSUME TypeOK, Budget, NEW t \in Tasks, pc[t] = "send",
           Sending' = Sending \ {t}, row'.replays = row.replays,
           sent' + Unclaimed' <= sent + Unclaimed + 1, sent' \in Nat
    PROVE  Budget'
<1>1. Cardinality(Sending) \in Nat /\ t \in Sending /\ IsFiniteSet(Sending)
  BY Zenon, FS_CardinalityType DEF Budget, Sending
<1>2. /\ IsFiniteSet(Sending \ {t})
      /\ Cardinality(Sending \ {t}) = Cardinality(Sending) - 1
  BY Zenon, <1>1, FS_RemoveElement
<1>3. Unclaimed \in {0, 1} /\ Unclaimed' \in {0, 1}
  BY Zenon DEF Unclaimed
<1>4. row.replays \in 0 .. 1 /\ sent \in Nat
  BY Zenon DEF TypeOK, Rows
<1>5. sent + Cardinality(Sending) + Unclaimed <= 1 + row.replays
  BY Zenon DEF Budget
<1>6. sent' + (Cardinality(Sending) - 1) + Unclaimed' <= 1 + row'.replays
  <2>1. \A a, b, c, u, v, n \in Nat :
            a + c + u <= 1 + n /\ b + v <= a + u + 1 => b + (c - 1) + v <= 1 + n
    OBVIOUS
  <2>2. Unclaimed \in Nat /\ Unclaimed' \in Nat /\ row.replays \in Nat
    BY <1>3, <1>4
  <2>3. sent' + (Cardinality(Sending) - 1) + Unclaimed' <= 1 + row.replays
    BY Zenon, <1>1, <1>4, <1>5, <2>1, <2>2
  <2> QED
    BY Zenon, <2>3
<1> QED
  BY Zenon, <1>2, <1>6 DEF Budget

\* A prepared dispatch takes over what its claim held.
LEMMA BudgetPrepare ==
    ASSUME TypeOK, Budget, NEW t \in Tasks, pc[t] = "prepare",
           Sending' = Sending \cup {t}, sent' = sent,
           row'.replays = row.replays, Unclaimed = 1, Unclaimed' = 0
    PROVE  Budget'
<1>1. Cardinality(Sending) \in Nat /\ t \notin Sending /\ IsFiniteSet(Sending)
  BY Zenon, FS_CardinalityType DEF Budget, Sending
<1>2. /\ IsFiniteSet(Sending \cup {t})
      /\ Cardinality(Sending \cup {t}) = Cardinality(Sending) + 1
  BY Zenon, <1>1, FS_AddElement
<1>3. row.replays \in 0 .. 1 /\ sent \in Nat
  BY Zenon DEF TypeOK, Rows
<1>4. sent + Cardinality(Sending) + 1 <= 1 + row.replays
  BY Zenon DEF Budget
<1>5. sent + (Cardinality(Sending) + 1) + 0 <= 1 + row.replays
  BY <1>1, <1>3, <1>4
<1> QED
  BY Zenon, <1>2, <1>5 DEF Budget

\* Neither a claim, nor a disconnection, nor a frame, nor a late recovery lets
\* a command be sent that the budget does not hold.
LEMMA BudgetStays ==
    ASSUME TypeOK, Budget, [Next]_vars
    PROVE  Budget'
<1>0. pc \in [Tasks -> Steps] /\ row \in Rows /\ sent \in Nat
  BY Zenon DEF TypeOK
<1> DEFINE Open == {"queued", "waiting_transfer"}
<1>1. ASSUME sent' = sent, Sending' = Sending, row'.replays = row.replays,
             row'.state \in Open => row.state \in Open
      PROVE  Budget'
  <2>1. row.replays \in 0 .. 1
    BY Zenon, <1>0 DEF Rows
  <2>2. Untouched
    BY <1>1, <2>1 DEF Untouched, Unclaimed
  <2> QED
    BY Zenon, <2>2, BudgetUntouched
<1>2. ASSUME NEW t \in Tasks, SendRace(t) \/ Send(t) \/ SendFailed(t)
      PROVE  Budget'
  <2>1. pc[t] = "send" /\ Sending' = Sending \ {t}
    BY Zenon, <1>0, <1>2 DEF SendRace, Send, SendFailed, Goto, Sending
  <2>2. row'.replays = row.replays
    BY Zenon, <1>0, <1>2 DEF SendRace, Send, SendFailed, FailFrom, Moved, Rows
  <2>3. sent' \in Nat /\ sent' + Unclaimed' <= sent + Unclaimed + 1
    <3>1. CASE SendRace(t)
      BY <1>0, <3>1 DEF SendRace, Unclaimed
    <3>2. CASE Send(t)
      BY <1>0, <3>2 DEF Send, Unclaimed
    <3>3. CASE SendFailed(t)
      <4>1. row' = row \/ row'.state = "failed"
        BY Zenon, <1>0, <3>3 DEF SendFailed, FailFrom, Moved, Rows
      <4>2. Unclaimed' \in 0 .. 1 /\ Unclaimed \in 0 .. 1 /\ Unclaimed' <= Unclaimed
        BY <4>1 DEF Unclaimed
      <4>3. sent' = sent \/ sent' = sent + 1
        BY Zenon, <3>3 DEF SendFailed
      <4> QED
        BY <1>0, <4>2, <4>3
    <3> QED
      BY Zenon, <1>2, <3>1, <3>2, <3>3
  <2> QED
    BY Zenon, <2>1, <2>2, <2>3, BudgetLeave
<1>3. ASSUME NEW t \in Tasks, Prepare(t)
      PROVE  Budget'
  <2>1. CASE row.state = "waiting_transfer"
    <3>1. Sending' = Sending \cup {t}
      BY Zenon, <1>0, <1>3, <2>1 DEF Prepare, Goto, Sending
    <3>2. row'.replays = row.replays /\ Unclaimed = 1 /\ Unclaimed' = 0
      BY Zenon, <1>0, <1>3, <2>1 DEF Prepare, Unclaimed, Rows
    <3> QED
      BY Zenon, <1>3, <3>1, <3>2, BudgetPrepare DEF Prepare
  <2>2. CASE row.state # "waiting_transfer"
    <3>1. Sending' = Sending
      BY Zenon, <1>0, <1>3, <2>2 DEF Prepare, Goto, Sending
    <3> QED
      BY Zenon, <1>1, <1>3, <2>2, <3>1 DEF Prepare
  <2> QED
    BY Zenon, <2>1, <2>2
<1>4. ASSUME NEW t \in Tasks, TaskStep(t),
             ~(SendRace(t) \/ Send(t) \/ SendFailed(t) \/ Prepare(t))
      PROVE  Budget'
  <2>1. PICK s \in Steps \ {"send"} : pc' = [pc EXCEPT ![t] = s]
    BY Zenon, <1>4
    DEF TaskStep, GotSlot, Answered, AcceptTimeout, Probe, TransferReleased,
        TransferTimeout, MarkReconciling, Recover, Goto, Steps
  <2>2. pc[t] # "send"
    BY Zenon, <1>4 DEF TaskStep, GotSlot, Answered, AcceptTimeout, Probe,
        TransferReleased, TransferTimeout, MarkReconciling, Recover
  <2>3. Sending' = Sending
    BY Zenon, <1>0, <2>1, <2>2 DEF Sending
  <2>4. /\ row'.replays = row.replays
        /\ row'.state \in Open => row.state \in Open
    BY Zenon, <1>0, <1>4 DEF TaskStep, GotSlot, Answered, AcceptTimeout, Probe,
        TransferReleased, TransferTimeout, MarkReconciling, Recover, FailFrom,
        Moved, Uncertain, Rows
  <2>5. sent' = sent
    BY Zenon, <1>4 DEF TaskStep, GotSlot, Answered, AcceptTimeout, Probe,
        TransferReleased, TransferTimeout, MarkReconciling, Recover
  <2> QED
    BY Zenon, <1>1, <2>3, <2>4, <2>5
<1>5. ASSUME NEW t \in Tasks, Claim(t)
      PROVE  Budget'
  <2>1. Sending' = Sending
    BY Zenon, <1>0, <1>5 DEF Claim, Goto, Sending
  <2>2. row'.replays = row.replays
    BY Zenon, <1>0, <1>5 DEF Claim, Rows
  <2> QED
    BY Zenon, <1>1, <1>5, <2>1, <2>2 DEF Claim
<1>6. CASE HandleFrame
  <2>1. sent' = sent /\ Sending' = Sending
    BY Zenon, <1>6 DEF HandleFrame, HandlerKeeps, Sending
  <2>2. CASE ReportAbsent
    <3>1. \/ row'.replays = row.replays /\ row'.state = "interrupted"
          \/ /\ row.replays < 1 /\ row'.replays = row.replays + 1
             /\ row.state = "reconciling"
      BY Zenon, <1>0, <2>2, ReplayOps DEF ReportAbsent, Moved, Rows
    <3>2. row.replays \in 0 .. 1
      BY Zenon, <1>0 DEF Rows
    <3>3. Untouched
      BY <2>1, <3>1, <3>2 DEF Untouched, Unclaimed
    <3> QED
      BY Zenon, <3>3, BudgetUntouched
  <2>3. CASE ~ReportAbsent
    <3>1. row'.replays = row.replays /\ (row'.state \in Open => row' = row)
      BY Zenon, <1>0, <1>6, <2>3 DEF HandleFrame, CommandResponse, LateAnswer,
          TransferComplete, PhaseApplying, Result, ReportActive, Ignored,
          Moved, Rows
    <3> QED
      BY Zenon, <1>1, <2>1, <3>1
  <2> QED
    BY Zenon, <2>2, <2>3
<1>7. CASE DropSession \/ FinishDrop \/ Join \/ Stale
  <2>1. sent' = sent /\ Sending' = Sending
    BY Zenon, <1>7 DEF DropSession, FinishDrop, Join, Stale, Sending, tasks
  <2>2. /\ row'.replays = row.replays
        /\ row'.state \in Open => row.state \in Open
    BY Zenon, <1>0, <1>7
    DEF DropSession, FinishDrop, GiveBack, Join, Stale, Moved, Uncertain, Rows
  <2> QED
    BY Zenon, <1>1, <2>1, <2>2
<1>8. CASE Look \/ ClaimNothing \/ FrameArrives \/ SocketCloses
           \/ SocketRegisters \/ UNCHANGED vars
  <2>1. sent' = sent /\ Sending' = Sending /\ row' = row
    BY Zenon, <1>8 DEF Look, ClaimNothing, FrameArrives, SocketCloses,
        SocketRegisters, Wait, Sending, tasks, vars
  <2> QED
    BY Zenon, <1>1, <2>1
<1>9. CASE Housekeeping
  <2>1. sent' = sent /\ Sending' = Sending
    BY Zenon, <1>9 DEF Housekeeping, ExpireAcceptance, ExpireReconciliation,
        Sending, tasks
  <2>2. row'.replays = row.replays /\ row'.state \notin Open
    BY Zenon, <1>0, <1>9
    DEF Housekeeping, ExpireAcceptance, ExpireReconciliation, Moved, Rows
  <2> QED
    BY Zenon, <1>1, <2>1, <2>2
<1> QED
  BY Zenon, <1>2, <1>3, <1>4, <1>5, <1>6, <1>7, <1>8, <1>9
  DEF Next, Runner, LockStep

-----------------------------------------------------------------------------

\* The inductive invariant holds in every reachable state.
THEOREM Invariance == Spec => []IInv
<1>1. Init => IInv
  <2> SUFFICES ASSUME Init PROVE IInv
    BY Zenon
  <2>1. TypeOK
    <3>1. row \in Rows
      BY DEF Init, Rows, States, Reasons
    <3>2. queue \in Seq(Entries) /\ 0 \in 0 .. MaxSessions
      BY BoundAssumption DEF Init
    <3> QED
      BY Zenon, <3>1, <3>2 DEF Init, TypeOK, Steps
  <2>2. LockKept /\ LiveWaiterRegistered /\ ClaimHasTask
    BY Zenon DEF Init, LockKept, LiveWaiterRegistered, ClaimHasTask
  <2>3. Sending = {} /\ Unclaimed = 1 /\ sent = 0 /\ row.replays = 0
    BY Zenon DEF Init, Sending, Unclaimed
  <2>4. Budget
    BY <2>3, FS_EmptySet DEF Budget
  <2> QED
    BY Zenon, <2>1, <2>2, <2>4 DEF IInv
<1>2. IInv /\ [Next]_vars => IInv'
  <2> SUFFICES ASSUME IInv, [Next]_vars PROVE IInv'
    BY Zenon
  <2>1. TypeOK'
    <3>1. CASE UNCHANGED vars
      BY Zenon, <3>1 DEF IInv, TypeOK, vars, connection, tasks
    <3> QED
      BY Zenon, <3>1, RunnerTyped, TaskTyped, LockTyped, OthersTyped
      DEF IInv, Next
  <2> QED
    BY Zenon, <2>1, LockStays, WaitersStay, ClaimStays, BudgetStays DEF IInv
<1> QED
  BY <1>1, <1>2, PTL DEF Spec

\* Every column, future and queue entry keeps its range; the replay counter of
\* the row never passes one.
THEOREM TypeCorrect == Spec => []TypeOK
BY Invariance, PTL DEF IInv

\* TransferRegistry.register refuses a key with a live waiter, so that the
\* waiter a task is suspended on is always the one release_exact finds.
THEOREM WaiterReachable == Spec => []LiveWaiterRegistered
BY Invariance, PTL DEF IInv

\* A row in waiting_transfer is always carried by some dispatch task, however
\* often the claim was given back and made again.
THEOREM ClaimCarried == Spec => []ClaimHasTask
BY Invariance, PTL DEF IInv

\* However many tasks, sessions and send races there are, at most one command
\* is sent per allowed replay and one more.
THEOREM CommandsConserved == Spec => []CommandsBounded
<1>1. IInv => CommandsBounded
  <2> SUFFICES ASSUME IInv PROVE CommandsBounded
    BY Zenon
  <2>1. Cardinality(Sending) \in Nat /\ Unclaimed \in Nat
    BY Zenon, FS_CardinalityType DEF IInv, Budget, Unclaimed
  <2>2. sent \in Nat /\ row.replays \in 0 .. 1
    BY Zenon DEF IInv, TypeOK, Rows
  <2>3. sent + Cardinality(Sending) + Unclaimed <= 1 + row.replays
    BY Zenon DEF IInv, Budget
  <2> QED
    BY <2>1, <2>2, <2>3 DEF CommandsBounded
<1> QED
  BY <1>1, Invariance, PTL

=============================================================================
