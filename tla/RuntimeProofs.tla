--------------------------- MODULE RuntimeProofs ---------------------------
(***************************************************************************)
(* The safety of the two components of the server's runtime that live in   *)
(* its memory: the sessions of a device (DeviceSession), for any number of *)
(* sockets, announcements and restarts, and the upload of a job (Upload),  *)
(* for any number of requests and restarts.                                *)
(***************************************************************************)
EXTENDS DeviceSession, Upload, TLAPS

\* The device lock is held exactly while a handler is between its check of the
\* candidate and the end of the REGISTERED send, and nobody else replaces the
\* session in that time.
LockSound ==
    \A s \in Sockets :
        /\ pc[s] \in {"store", "ack"} <=> lock = s
        /\ pc[s] = "ack" => session = s

\* An owner that is still registering is not commanded.
NotReadyYet ==
    \A s \in Sockets : pc[s] \in {"lock", "store", "ack"} /\ owner = s => ~ready

\* Who holds an entry object, and in which phase it is: an entry being hashed
\* for is not in the table yet, nobody else holds it, and it is new.
EntriesSound ==
    /\ update <= announced
    /\ \A c \in Ids : c > announced => phase[c] = "updating"
    /\ \A c \in Ids : timer[c] = "update" => phase[c] = "updating"
    /\ \A c \in Ids : timer[c] = "verify" => phase[c] = "verifying"
    /\ \A s \in Sockets :
          /\ pc[s] \in {"settled", "verify", "hash"} =>
                 held[s] \in Ids /\ held[s] <= announced
          /\ pc[s] = "verify" => phase[held[s]] = "verifying"
          /\ pc[s] = "hash" => phase[held[s]] = "updating" /\ held[s] # update
    /\ \A s, t \in Sockets :
          /\ s # t /\ pc[s] = "hash" /\ pc[t] \in {"settled", "verify", "hash"}
          => held[s] # held[t]

IInv ==
    /\ TypeOK
    /\ LockSound
    /\ NotReadyYet
    /\ EntriesSound
    /\ ConnectedIsListed
    /\ ReadyHasSession
    /\ UpdateIsWatched

-----------------------------------------------------------------------------
(* Types.                                                                  *)

\* What the handlers do keeps the types.
LEMMA HandlerTypes ==
    ASSUME TypeOK, NEW s \in Sockets, Handler(s)
    PROVE  TypeOK'
<1> USE DEF Resume, Goto, At, Steps, directory, runtime, pending, history, handlers
<1>1. CASE EnterLock(s)
  BY <1>1 DEF EnterLock, TypeOK
<1>2. CASE StoreAnswered(s)
  BY <1>2 DEF StoreAnswered, TypeOK
<1>3. CASE Acknowledged(s)
  BY Zenon, <1>3 DEF Acknowledged, TypeOK
<1>4. CASE AckFailed(s)
  BY Zenon, <1>4 DEF AckFailed, TypeOK
<1>5. CASE Settle(s)
  BY <1>5 DEF Settle, ResolveUpdate, TypeOK
<1>6. CASE RetireReported(s)
  BY <1>6 DEF RetireReported, ResolveUpdate, TypeOK
<1>7. CASE ResultReported(s)
  BY <1>7 DEF ResultReported, DropUpdate, TypeOK
<1>8. CASE VerifySent(s)
  BY Zenon, <1>8 DEF VerifySent, TypeOK
<1>9. CASE VerifyNotSent(s)
  BY Zenon, <1>9 DEF VerifyNotSent, DropUpdate, TypeOK
<1>10. CASE SelfUpdateHashed(s)
  BY Zenon, <1>10 DEF SelfUpdateHashed, TypeOK
<1>11. CASE Leave(s)
  BY Zenon, <1>11 DEF Leave, TypeOK
<1>12. CASE Finally(s)
  <2>1. CASE owner = s /\ update # 0 /\ phase[update] = "verifying"
    <3>1. /\ pc' = [pc EXCEPT ![s] = "verified"] /\ update' = 0
          /\ timer' = [timer EXCEPT ![update] = "none"]
          /\ UNCHANGED <<held, success, directory, runtime, phase, retire, history>>
      BY Zenon, <1>12, <2>1 DEF Finally, CancelTimer
    <3> QED
      BY Zenon, <3>1 DEF TypeOK
  <2>2. CASE ~(owner = s /\ update # 0 /\ phase[update] = "verifying")
    <3>1. /\ pc' = [pc EXCEPT ![s] = "closed"] /\ owner' \in {owner, NoSocket}
          /\ ready' = (ready /\ owner # s)
          /\ UNCHANGED <<held, success, record, runtime, pending, history>>
      BY Zenon, <1>12, <2>2 DEF Finally
    <3>2. ready' \in BOOLEAN
      BY Zenon, <3>1
    <3> QED
      BY <3>1, <3>2 DEF TypeOK
  <2> QED
    BY Zenon, <2>1, <2>2
<1>13. CASE FinallyVerified(s)
  BY Zenon, <1>13 DEF FinallyVerified, TypeOK
<1> QED
  BY Zenon, <1>1, <1>2, <1>3, <1>4, <1>5, <1>6, <1>7, <1>8, <1>9, <1>10, <1>11,
      <1>12,
     <1>13 DEF Handler

\* So does what comes from the device and the network.
LEMMA OutsideTypes ==
    ASSUME TypeOK, NEW s \in Sockets, Outside(s)
    PROVE  TypeOK'
<1> USE DEF Resume, Goto, At, Steps, directory, runtime, pending, history, handlers
<1>1. CASE Connect(s)
  BY Zenon, <1>1 DEF Connect, TypeOK
<1>2. CASE Register(s)
  BY Zenon, <1>2 DEF Register, TypeOK
<1>3. CASE Drop(s)
  BY Zenon, <1>3 DEF Drop, TypeOK
<1>4. announced < MaxAnnounced => announced + 1 \in Ids
  BY BoundsAssumption DEF Ids, TypeOK
<1>5. CASE SelfUpdateStarting(s)
  BY Zenon, <1>4, <1>5 DEF SelfUpdateStarting, TypeOK
<1>6. CASE SelfUpdateHashing(s)
  BY Zenon, <1>4, <1>6 DEF SelfUpdateHashing, CancelTimer, TypeOK
<1>7. CASE InstallResult(s)
  BY Zenon, <1>7 DEF InstallResult, CancelTimer, TypeOK
<1>8. CASE VerifyResult(s)
  BY Zenon, <1>8 DEF VerifyResult, CancelTimer, TypeOK
<1>9. CASE SelfUninstallStarting(s)
  BY Zenon, <1>4, <1>9 DEF SelfUninstallStarting, CancelTimer, TypeOK
<1>10. CASE SelfUninstallResult(s)
  BY Zenon, <1>10 DEF SelfUninstallResult, TypeOK
<1> QED
  BY Zenon, <1>1, <1>2, <1>3, <1>5, <1>6, <1>7, <1>8, <1>9, <1>10 DEF Outside

\* Every step keeps the types.
LEMMA StepTypes ==
    ASSUME TypeOK, [Next]_vars
    PROVE  TypeOK'
<1> USE DEF directory, runtime, pending, history, handlers
<1>1. CASE RetireTimeout
  BY Zenon, <1>1 DEF RetireTimeout, TypeOK
<1>2. ASSUME NEW c \in Ids, UpdateTimeout(c)
      PROVE  TypeOK'
  BY Zenon, <1>2 DEF UpdateTimeout, TypeOK
<1>3. CASE Forget
  BY Zenon, <1>3 DEF Forget, TypeOK
<1>4. CASE Restart
  <2>1. restarts' \in 0 .. MaxRestarts
    BY <1>4, BoundsAssumption DEF Restart, TypeOK
  <2> QED
    BY Zenon, <1>4, <2>1 DEF Restart, At, Steps, TypeOK
<1>5. CASE UNCHANGED vars
  BY Zenon, <1>5 DEF vars, TypeOK
<1> QED
  BY Zenon, <1>1, <1>2, <1>3, <1>4, <1>5, HandlerTypes, OutsideTypes
  DEF Next, Timers

-----------------------------------------------------------------------------
(* Registration.                                                           *)

Registration == LockSound /\ NotReadyYet /\ ConnectedIsListed /\ ReadyHasSession

\* A step that leaves the directory and the Push session alone, and in which
\* no handler enters or leaves register_device.
LEMMA NotRegistering ==
    ASSUME Registration, UNCHANGED <<directory, runtime>>,
           \A t \in Sockets :
               \/ pc'[t] = pc[t]
               \/ pc[t] \notin {"lock", "store", "ack"}
                      /\ pc'[t] \notin {"lock", "store", "ack"}
    PROVE  Registration'
BY Zenon
DEF Registration, LockSound, NotReadyYet, ConnectedIsListed, ReadyHasSession,
    directory, runtime

\* Every step keeps the registration sound.
LEMMA RegistrationStep ==
    ASSUME TypeOK, Registration, [Next]_vars
    PROVE  Registration'
<1> USE NoSocketAssumption
    DEF Registration, LockSound, NotReadyYet, ConnectedIsListed,
        ReadyHasSession, Resume, Goto, At, directory, runtime
<1> /\ pc \in [Sockets -> Steps] /\ ready \in BOOLEAN
    /\ {owner, candidate, session, lock} \subseteq Sockets \cup {NoSocket}
  BY Zenon DEF TypeOK
<1>1. ASSUME NEW s \in Sockets, Register(s)
      PROVE  Registration'
  BY Zenon, <1>1 DEF Register
<1>2. ASSUME NEW s \in Sockets, EnterLock(s)
      PROVE  Registration'
  BY Zenon, <1>2 DEF EnterLock, StillNewest
<1>3. ASSUME NEW s \in Sockets, StoreAnswered(s)
      PROVE  Registration'
  BY Zenon, <1>3 DEF StoreAnswered, StillNewest
<1>4. ASSUME NEW s \in Sockets, Acknowledged(s)
      PROVE  Registration'
  BY Zenon, <1>4 DEF Acknowledged, StillNewest
<1>5. ASSUME NEW s \in Sockets, AckFailed(s)
      PROVE  Registration'
  BY Zenon, <1>5 DEF AckFailed
<1>6. ASSUME NEW s \in Sockets, Leave(s)
      PROVE  Registration'
  BY Zenon, <1>6 DEF Leave
<1>7. ASSUME NEW s \in Sockets, Finally(s)
      PROVE  Registration'
  BY Zenon, <1>7 DEF Finally
<1>8. ASSUME NEW s \in Sockets, FinallyVerified(s)
      PROVE  Registration'
  BY Zenon, <1>8 DEF FinallyVerified
<1>9. CASE RetireTimeout \/ Forget
  BY <1>9 DEF RetireTimeout, Forget, handlers
<1>10. CASE Restart
  BY Zenon, <1>10 DEF Restart
<1>11. ASSUME NEW s \in Sockets,
              \/ Settle(s) \/ RetireReported(s) \/ ResultReported(s)
              \/ VerifySent(s) \/ VerifyNotSent(s) \/ SelfUpdateHashed(s)
       PROVE  Registration'
  BY Zenon, <1>11, NotRegistering
  DEF Settle, RetireReported, ResolveUpdate, ResultReported, DropUpdate,
      VerifySent, VerifyNotSent, SelfUpdateHashed
<1>12. ASSUME NEW s \in Sockets,
              \/ Connect(s) \/ Drop(s)
              \/ SelfUpdateStarting(s) \/ SelfUpdateHashing(s) \/ InstallResult(s)
              \/ VerifyResult(s) \/ SelfUninstallStarting(s) \/ SelfUninstallResult(s)
       PROVE  Registration'
  BY Zenon, <1>12, NotRegistering
  DEF Connect, Drop, SelfUpdateStarting, SelfUpdateHashing, InstallResult,
      VerifyResult, SelfUninstallStarting, SelfUninstallResult, Receives,
      handlers
<1>13. ASSUME NEW c \in Ids, UpdateTimeout(c)
       PROVE  Registration'
  BY Zenon, <1>13, NotRegistering DEF UpdateTimeout, handlers
<1>14. CASE UNCHANGED vars
  BY Zenon, <1>14, NotRegistering DEF vars, handlers
<1> QED
  BY Zenon, <1>1, <1>2, <1>3, <1>4, <1>5, <1>6, <1>7, <1>8, <1>9, <1>10, <1>11,
      <1>12,
     <1>13, <1>14 DEF Next, Handler, Outside, Timers

-----------------------------------------------------------------------------
(* Pending self-updates.                                                   *)

Entries == EntriesSound /\ UpdateIsWatched

\* A step that leaves the entries and their timers alone, and in which no
\* handler takes or gives up an entry.
LEMMA NotHolding ==
    ASSUME Entries, UNCHANGED <<held, update, phase, timer, announced>>,
           \A t \in Sockets :
               \/ pc'[t] = pc[t]
               \/ pc[t] \notin {"settled", "verify", "hash"}
                      /\ pc'[t] \notin {"settled", "verify", "hash"}
    PROVE  Entries'
BY DEF Entries, EntriesSound, UpdateIsWatched, At

\* A step that removes the entry from the table, with its timer or without.
LEMMA Removed ==
    ASSUME TypeOK, Entries, update' = 0, UNCHANGED <<held, phase>>,
           announced' \in Nat, announced <= announced',
           \A c \in Ids : timer'[c] \in {timer[c], "none"},
           \A t \in Sockets :
               \/ pc'[t] = pc[t]
               \/ pc'[t] \notin {"settled", "verify", "hash"}
    PROVE  Entries'
<1>1. UpdateIsWatched'
  BY Zenon DEF UpdateIsWatched
<1>2. announced \in Nat /\ \A s \in Sockets : held[s] \in Nat
  BY BoundsAssumption DEF TypeOK, Ids
<1>3. \A c \in Ids : c \in Nat /\ c # 0
  BY BoundsAssumption DEF Ids
<1>4. EntriesSound'
  BY <1>2, <1>3 DEF Entries, EntriesSound
<1> QED
  BY Zenon, <1>1, <1>4 DEF Entries

\* ResolveUpdate takes the entry from its timer.
LEMMA ResolveEntries ==
    ASSUME TypeOK, Entries, NEW s \in Sockets, pc[s] \in {"settle", "retired"},
           ResolveUpdate(s), UNCHANGED announced
    PROVE  Entries'
<1>1. CASE update # 0 /\ phase[update] = "updating"
  <2>1. /\ pc' = [pc EXCEPT ![s] = "settled"] /\ held' = [held EXCEPT ![s] = update]
        /\ timer' = [timer EXCEPT ![update] = "none"] /\ update \in Ids
        /\ UNCHANGED <<update, phase>>
    BY Zenon, <1>1 DEF ResolveUpdate, Goto, TypeOK
  <2>2. /\ pc \in [Sockets -> Steps] /\ held \in [Sockets -> Ids \cup {0}]
        /\ timer \in [Ids -> {"none", "update", "verify"}]
    BY Zenon DEF TypeOK
  <2>3. UpdateIsWatched'
    BY Zenon, <2>1, <2>2 DEF UpdateIsWatched
  <2>4. EntriesSound'
    BY <2>1, <2>2 DEF Entries, EntriesSound
  <2> QED
    BY Zenon, <2>3, <2>4 DEF Entries
<1>2. CASE ~(update # 0 /\ phase[update] = "updating")
  BY Zenon, <1>2, NotHolding DEF ResolveUpdate, Resume, Goto, TypeOK
<1> QED
  BY Zenon, <1>1, <1>2

\* The next correlation id: nothing in the table, in a handler or in a timer
\* uses it or a later one.
Unused(n) ==
    /\ n \in Ids /\ n <= n /\ update <= n /\ update # n /\ phase[n] = "updating"
    /\ \A c \in Ids : c > n => phase[c] = "updating"
    /\ \A s \in Sockets : pc[s] \in {"settled", "verify", "hash"} =>
           held[s] \in Ids /\ held[s] <= n /\ held[s] # n

\* _announce_device_self_update numbers updates one after the other, so the
\* number it takes next is unused.
LEMMA NextIsUnused ==
    ASSUME TypeOK, Entries, announced < MaxAnnounced
    PROVE  Unused(announced + 1)
<1>1. /\ announced \in Nat /\ announced + 1 \in Ids /\ update \in Nat
      /\ \A c \in Ids : c \in Nat
  BY BoundsAssumption DEF TypeOK, Ids
<1>2. update <= announced + 1 /\ update # announced + 1
  BY <1>1 DEF Entries, EntriesSound
<1>3. ASSUME NEW c \in Ids, c >= announced + 1
      PROVE  phase[c] = "updating"
  <2>1. c > announced
    BY <1>1, <1>3
  <2> QED
    BY Zenon, <2>1 DEF Entries, EntriesSound
<1>4. ASSUME NEW s \in Sockets, pc[s] \in {"settled", "verify", "hash"}
      PROVE  held[s] \in Ids /\ held[s] <= announced + 1 /\ held[s] # announced + 1
  <2>1. held[s] \in Ids /\ held[s] <= announced
    BY Zenon, <1>4 DEF Entries, EntriesSound
  <2> QED
    BY <1>1, <2>1
<1>5. \A c \in Ids : c > announced + 1 => c >= announced + 1
  BY <1>1
<1>6. announced + 1 <= announced + 1 /\ announced + 1 >= announced + 1
  BY <1>1
<1> QED
  BY Zenon, <1>1, <1>2, <1>3, <1>4, <1>5, <1>6 DEF Unused

\* Every step keeps the entries sound and watched.
LEMMA EntriesStep ==
    ASSUME TypeOK, Entries, [Next]_vars
    PROVE  Entries'
<1> USE DEF Resume, Goto, At
<1>0. /\ pc \in [Sockets -> Steps] /\ held \in [Sockets -> Ids \cup {0}]
      /\ phase \in [Ids -> {"updating", "verifying"}]
      /\ timer \in [Ids -> {"none", "update", "verify"}]
      /\ update \in Ids \cup {0} /\ announced \in Ids \cup {0}
  BY Zenon DEF TypeOK
<1>1. announced \in Nat /\ update \in Nat /\ \A c \in Ids : c \in Nat /\ c # 0
  BY <1>0, BoundsAssumption DEF Ids
<1>2. announced < MaxAnnounced => announced + 1 \in Ids
  BY <1>0, BoundsAssumption DEF Ids
<1>3. ASSUME NEW s \in Sockets, Settle(s)
      PROVE  Entries'
  <2>1. CASE owner # s \/ retire # 0
    BY Zenon, <1>0, <1>3, <2>1, NotHolding DEF Settle, pending, history
  <2>2. CASE owner = s /\ retire = 0
    BY Zenon, <1>3, <2>2, ResolveEntries DEF Settle, history
  <2> QED
    BY Zenon, <2>1, <2>2
<1>4. ASSUME NEW s \in Sockets, RetireReported(s)
      PROVE  Entries'
  BY Zenon, <1>4, ResolveEntries DEF RetireReported, history
<1>5. ASSUME NEW s \in Sockets, DropUpdate(s), UNCHANGED <<phase, timer, announced>>
      PROVE  Entries'
  BY <1>0, <1>1, <1>5, Removed DEF DropUpdate
<1>6. ASSUME NEW s \in Sockets, ResultReported(s)
      PROVE  Entries'
  <2>1. CASE DropUpdate(s) /\ UNCHANGED <<phase, timer>>
    BY Zenon, <1>5, <1>6, <2>1 DEF ResultReported, history
  <2>2. CASE /\ pc[s] = "settled" /\ pc' = [pc EXCEPT ![s] = "verify"]
             /\ phase' = [phase EXCEPT ![held[s]] = "verifying"]
             /\ timer' = [timer EXCEPT ![held[s]] = "none"]
             /\ UNCHANGED <<held, update, announced>>
    <3>1. UpdateIsWatched'
      BY Zenon, <1>0, <2>2 DEF Entries, UpdateIsWatched
    <3>2. EntriesSound'
      BY <1>0, <1>1, <2>2 DEF Entries, EntriesSound
    <3> QED
      BY Zenon, <3>1, <3>2 DEF Entries
  <2> QED
    BY Zenon, <1>6, <2>1, <2>2 DEF ResultReported, history
<1>7. ASSUME NEW s \in Sockets, VerifySent(s)
      PROVE  Entries'
  <2>1. /\ pc[s] = "verify" /\ pc' = [pc EXCEPT ![s] = "loop"]
        /\ timer' = [timer EXCEPT ![held[s]] = "verify"]
        /\ UNCHANGED <<held, update, phase, announced>>
    BY Zenon, <1>7 DEF VerifySent, history
  <2>2. UpdateIsWatched'
    BY Zenon, <1>0, <2>1 DEF Entries, UpdateIsWatched
  <2>3. EntriesSound'
    BY <1>0, <1>1, <2>1 DEF Entries, EntriesSound
  <2> QED
    BY Zenon, <2>2, <2>3 DEF Entries
<1>8. ASSUME NEW s \in Sockets, VerifyNotSent(s)
      PROVE  Entries'
  BY Zenon, <1>5, <1>8 DEF VerifyNotSent, history
<1>9. ASSUME NEW s \in Sockets, SelfUpdateStarting(s)
      PROVE  Entries'
  <2>0. announced < MaxAnnounced
    BY Zenon, <1>9 DEF SelfUpdateStarting
  <2>1. /\ announced + 1 \in Ids /\ announced' = announced + 1
        /\ update' = announced + 1
        /\ timer' = [c \in Ids |-> IF c = announced + 1 THEN "update"
                                   ELSE IF c = update THEN "none" ELSE timer[c]]
        /\ UNCHANGED <<pc, held, phase>>
    BY Zenon, <1>2, <1>9 DEF SelfUpdateStarting, handlers
  <2>2. UpdateIsWatched'
    BY Zenon, <2>1 DEF UpdateIsWatched
  <2>3. EntriesSound'
    <3> DEFINE n == announced + 1
    <3>1. /\ Unused(n) /\ n \in Nat /\ announced' = n /\ update' = n
          /\ timer' = [c \in Ids |-> IF c = n THEN "update"
                                     ELSE IF c = update THEN "none" ELSE timer[c]]
      BY Zenon, <1>1, <2>0, <2>1, NextIsUnused
    <3> HIDE DEF n
    <3>2. \A c \in Ids : /\ timer'[c] = "update" => phase[c] = "updating"
                         /\ timer'[c] = "verify" => phase[c] = "verifying"
      BY Zenon, <3>1 DEF Unused, Entries, EntriesSound
    <3>3. /\ pc' = pc /\ held' = held /\ phase' = phase /\ announced' = n
          /\ update' = n
      BY Zenon, <2>1, <3>1
    <3>4. \A t \in Sockets : pc[t] = "hash" => held[t] # n
      BY Zenon, <3>1 DEF Unused
    <3> QED
      BY Zenon, <3>1, <3>2, <3>3, <3>4 DEF Unused, Entries, EntriesSound
  <2> QED
    BY Zenon, <2>2, <2>3 DEF Entries
<1>10. ASSUME NEW s \in Sockets, SelfUpdateHashing(s)
       PROVE  Entries'
  <2>0. announced < MaxAnnounced
    BY Zenon, <1>10 DEF SelfUpdateHashing
  <2>1. /\ announced + 1 \in Ids /\ announced' = announced + 1
        /\ pc[s] = "loop" /\ pc' = [pc EXCEPT ![s] = "hash"]
        /\ held' = [held EXCEPT ![s] = announced + 1]
        /\ \A c \in Ids : timer'[c] \in {timer[c], "none"}
        /\ UNCHANGED <<update, phase>>
    BY Zenon, <1>0, <1>2, <1>10 DEF SelfUpdateHashing, Receives, CancelTimer
  <2>2. UpdateIsWatched'
    BY Zenon, <1>0, <2>1 DEF UpdateIsWatched
  <2>3. EntriesSound'
    <3> DEFINE n == announced + 1
    <3>1. /\ Unused(n) /\ n \in Nat /\ announced' = n
          /\ held' = [held EXCEPT ![s] = n]
      BY Zenon, <1>1, <2>0, <2>1, NextIsUnused
    <3> HIDE DEF n
    <3>2. \A c \in Ids : /\ timer'[c] = "update" => phase[c] = "updating"
                         /\ timer'[c] = "verify" => phase[c] = "verifying"
      BY Zenon, <2>1 DEF Entries, EntriesSound
    <3>3. /\ \A t \in Sockets : t # s => pc'[t] = pc[t] /\ held'[t] = held[t]
          /\ pc'[s] = "hash" /\ held'[s] = n
      BY Zenon, <1>0, <2>1, <3>1
    <3> QED
      BY <2>1, <3>1, <3>2, <3>3 DEF Unused, Entries, EntriesSound
  <2> QED
    BY Zenon, <2>2, <2>3 DEF Entries
<1>11. ASSUME NEW s \in Sockets, SelfUpdateHashed(s)
       PROVE  Entries'
  <2>1. /\ pc[s] = "hash" /\ pc' = [pc EXCEPT ![s] = "loop"] /\ update' = held[s]
        /\ timer' = [timer EXCEPT ![held[s]] = "update"]
        /\ UNCHANGED <<held, phase, announced>>
    BY Zenon, <1>11 DEF SelfUpdateHashed, history
  <2>2. held[s] \in Ids
    BY Zenon, <2>1 DEF Entries, EntriesSound
  <2>3. UpdateIsWatched'
    BY Zenon, <1>0, <2>1, <2>2 DEF UpdateIsWatched
  <2>4. EntriesSound'
    BY <1>0, <1>1, <2>1 DEF Entries, EntriesSound
  <2> QED
    BY Zenon, <2>3, <2>4 DEF Entries
<1>12. ASSUME NEW s \in Sockets,
              InstallResult(s) \/ VerifyResult(s) \/ SelfUninstallStarting(s)
       PROVE  Entries'
  <2>1. /\ update' = 0 /\ UNCHANGED <<pc, held, phase>>
        /\ announced' \in Nat /\ announced <= announced'
        /\ CancelTimer
    BY <1>1, <1>12
    DEF InstallResult, VerifyResult, SelfUninstallStarting, handlers, history
  <2>2. \A c \in Ids : timer'[c] \in {timer[c], "none"}
    BY Zenon, <1>0, <2>1 DEF CancelTimer
  <2> QED
    BY Zenon, <2>1, <2>2, Removed
<1>13. ASSUME NEW c \in Ids, UpdateTimeout(c)
       PROVE  Entries'
  <2>1. /\ timer[c] # "none" /\ timer' = [timer EXCEPT ![c] = "none"]
        /\ update' = IF update = c /\ phase[c] = (IF timer[c] = "update"
                            THEN "updating" ELSE "verifying") THEN 0 ELSE update
        /\ UNCHANGED <<pc, held, phase, announced>>
    BY Zenon, <1>13 DEF UpdateTimeout, handlers, history
  <2>2. phase[c] = IF timer[c] = "update" THEN "updating" ELSE "verifying"
    BY Zenon, <1>0, <2>1 DEF Entries, EntriesSound
  <2>3. CASE update = c
    BY <1>0, <1>1, <2>1, <2>2, <2>3, Removed
  <2>4. CASE update # c
    <3>1. UpdateIsWatched'
      BY Zenon, <1>0, <2>1, <2>4 DEF Entries, UpdateIsWatched
    <3>2. EntriesSound'
      BY <1>0, <2>1, <2>4 DEF Entries, EntriesSound
    <3> QED
      BY Zenon, <3>1, <3>2 DEF Entries
  <2> QED
    BY Zenon, <2>3, <2>4
<1>14. ASSUME NEW s \in Sockets, Finally(s)
       PROVE  Entries'
  <2>1. CASE owner = s /\ update # 0 /\ phase[update] = "verifying"
    <3>1. /\ update' = 0 /\ pc' = [pc EXCEPT ![s] = "verified"] /\ CancelTimer
          /\ UNCHANGED <<held, phase, announced>>
      BY Zenon, <1>14, <2>1 DEF Finally, history
    <3>2. \A c \in Ids : timer'[c] \in {timer[c], "none"}
      BY Zenon, <1>0, <3>1 DEF CancelTimer
    <3> QED
      BY <1>0, <1>1, <3>1, <3>2, Removed
  <2>2. CASE ~(owner = s /\ update # 0 /\ phase[update] = "verifying")
    BY Zenon, <1>0, <1>14, <2>2, NotHolding DEF Finally, history
  <2> QED
    BY Zenon, <2>1, <2>2
<1>15. CASE Restart
  BY <1>0, <1>1, <1>15, Removed DEF Restart
<1>16. ASSUME NEW s \in Sockets,
              \/ EnterLock(s) \/ StoreAnswered(s) \/ Acknowledged(s) \/ AckFailed(s)
              \/ Leave(s) \/ FinallyVerified(s)
              \/ Connect(s) \/ Register(s) \/ Drop(s) \/ SelfUninstallResult(s)
       PROVE  Entries'
  BY Zenon, <1>0, <1>16, NotHolding
  DEF EnterLock, StoreAnswered, Acknowledged, AckFailed, Leave,
      FinallyVerified, Connect, Register, Drop, SelfUninstallResult, pending,
      history, handlers
<1>17. CASE RetireTimeout \/ Forget \/ UNCHANGED vars
  BY Zenon, <1>17, NotHolding
  DEF RetireTimeout, Forget, vars, pending, history, handlers
<1> QED
  BY Zenon, <1>3, <1>4, <1>6, <1>7, <1>8, <1>9, <1>10, <1>11, <1>12, <1>13,
      <1>14,
      <1>15,
     <1>16, <1>17 DEF Next, Handler, Outside, Timers

-----------------------------------------------------------------------------
(* The theorems.                                                           *)

\* The inductive invariant holds in every reachable state.
THEOREM Invariance == Spec => []IInv
<1>1. Init => IInv
  <2> SUFFICES ASSUME Init
               PROVE  IInv
    BY Zenon
  <2>1. TypeOK
    <3>1. 0 \in 0 .. MaxRestarts
      BY BoundsAssumption
    <3> QED
      BY Zenon, <3>1 DEF Init, TypeOK, Steps
  <2>2. LockSound /\ NotReadyYet /\ ConnectedIsListed /\ ReadyHasSession
    BY Zenon, NoSocketAssumption
    DEF Init, LockSound, NotReadyYet, ConnectedIsListed, ReadyHasSession
  <2>3. EntriesSound /\ UpdateIsWatched
    BY DEF Init, EntriesSound, UpdateIsWatched
  <2> QED
    BY Zenon, <2>1, <2>2, <2>3 DEF IInv
<1>2. IInv /\ [Next]_vars => IInv'
  BY Zenon, StepTypes, RegistrationStep, EntriesStep
  DEF IInv, Registration, Entries
<1> QED
  BY <1>1, <1>2, PTL DEF Spec

\* A connected device is listed in the registry and not flagged retired, for
\* any number of overlapping connections, retires and restarts.
THEOREM ConnectedListed == Spec => []ConnectedIsListed
BY Invariance, PTL DEF IInv

\* Commands are let through only while the Push session and the devices entry
\* name the same socket, however REGISTERs, acknowledgements and disconnects
\* of several sockets interleave.
THEOREM ReadyImpliesSession == Spec => []ReadyHasSession
BY Invariance, PTL DEF IInv

\* No interleaving of announcements, results, timers and sockets leaves a
\* pending self-update without a timer or a handler that will end it.
THEOREM UpdatesWatched == Spec => []UpdateIsWatched
BY Invariance, PTL DEF IInv

-----------------------------------------------------------------------------
(* The upload of a job.                                                    *)

\* The awaits of a request that start_upload let through.
Owning == {"reading", "read", "packaging", "cleaning", "failing", "tidying"}

\* A packaging thread that has moved its file has left it there, and the
\* threads and handlers of the old process are gone at startup.
ThreadsSound ==
    /\ \A r \in Requests : thread[r] = "moved" => r \in files
    /\ process = "starting" =>
           /\ loop = "off"
           /\ \A r \in Requests : handler[r] \in {"none", "done"} /\ thread[r] = "none"

\* A job gets its artifact and its owner once.
OnceSound ==
    /\ state \in {"missing", "created", "uploading", "packaging"} =>
           artifact = NoRequest
    /\ state \in {"missing", "created"} => uploader = NoRequest
    /\ \A r \in Requests :
           handler[r] = "failing" => failure[r] \in {"interrupted", "failed"}

\* While the server serves, only the owner has passed start_upload, and the
\* job's state is the one its handler left; who found the job expired does so
\* with the job interrupted for good.
OwnerSound ==
    /\ process = "serving" => \A r \in Requests :
           /\ handler[r] \in Owning => r = uploader
           /\ handler[r] \in {"reading", "read"} => state = "uploading"
           /\ handler[r] = "packaging" => state = "packaging"
           /\ handler[r] = "expired" => state = "interrupted"
    /\ loop = "clean" => state = "interrupted"

UploadInv ==
    /\ UploadTypes /\ ThreadsSound /\ OnceSound /\ OwnerSound
    /\ ReadyHasArtifact /\ OrphansAreRecent /\ WorkIsKept

\* Every step of the handlers, the threads, the deadline loop and the server's
\* life cycle keeps the invariant.
LEMMA UploadPreserved ==
    ASSUME UploadInv, UploadNext
    PROVE  UploadInv'
<1> USE NoRequestAssumption
<1>1. CASE CreateJob \/ EnableDispatch \/ DeadlinePasses
  <2>1. CASE CreateJob
    BY Zenon, <2>1
    DEF UploadInv, UploadTypes, ThreadsSound, OnceSound, OwnerSound,
        ReadyHasArtifact, OrphansAreRecent, WorkIsKept,
        CreateJob, job, disk, requests,
        deadline, server
  <2>2. CASE EnableDispatch
    BY <2>2
    DEF UploadInv, UploadTypes, ThreadsSound, OnceSound, OwnerSound,
        ReadyHasArtifact, OrphansAreRecent, WorkIsKept,
        EnableDispatch, job, disk, requests,
        deadline, server
  <2>3. CASE DeadlinePasses
    BY <2>3
    DEF UploadInv, UploadTypes, ThreadsSound, OnceSound, OwnerSound,
        ReadyHasArtifact, OrphansAreRecent, WorkIsKept,
        DeadlinePasses, job, disk, requests,
        deadline, server
  <2> QED
    BY Zenon, <1>1, <2>1, <2>2, <2>3
<1>2. ASSUME NEW r \in Requests, Request(r)
      PROVE  UploadInv'
  BY <1>2
  DEF UploadInv, UploadTypes, ThreadsSound, OnceSound, OwnerSound,
      ReadyHasArtifact, OrphansAreRecent, WorkIsKept,
      Request, Proceed, Owning, Trying, Recording,
      job, disk, requests, deadline,
      server
<1>3. ASSUME NEW r \in Requests, StartUpload(r)
      PROVE  UploadInv'
  <2>1. UploadTypes'
    <3>1. wake' \in BOOLEAN
      BY Zenon, <1>3 DEF UploadInv, UploadTypes, StartUpload
    <3> QED
      <4>1. handler' \in [Requests -> {"none", "done"} \cup Trying \cup Recording]
        BY Zenon, <1>3
        DEF UploadInv, UploadTypes, Trying, Recording,
            StartUpload, Proceed
      <4> QED
        BY <1>3, <3>1, <4>1
        DEF UploadInv, UploadTypes, StartUpload, job,
            disk, requests, deadline, server
  <2>2. ThreadsSound'
    BY Zenon, <1>3
    DEF UploadInv, UploadTypes, ThreadsSound, StartUpload,
        Proceed, job, disk, requests,
        deadline, server
  <2>3. OnceSound'
    BY Zenon, <1>3
    DEF UploadInv, UploadTypes, OnceSound, StartUpload,
        Proceed, job, disk, requests,
        deadline, server
  <2>4. OwnerSound'
    BY <1>3
    DEF UploadInv, UploadTypes, OnceSound, OwnerSound, Owning,
        StartUpload, Proceed, job, disk,
        requests, deadline, server
  <2>5. ReadyHasArtifact' /\ OrphansAreRecent'
    BY Zenon, <1>3
    DEF UploadInv, UploadTypes, ReadyHasArtifact,
        OrphansAreRecent, StartUpload, Proceed,
        job, disk, requests, deadline,
        server
  <2>6. WorkIsKept'
    BY Zenon, <1>3
    DEF UploadInv, UploadTypes, OwnerSound, Owning, WorkIsKept,
        StartUpload, Proceed, job, disk,
        requests, deadline, server
  <2> QED
    BY Zenon, <2>1, <2>2, <2>3, <2>4, <2>5, <2>6 DEF UploadInv
<1>4. ASSUME NEW r \in Requests, ReadParts(r)
      PROVE  UploadInv'
  BY <1>4
  DEF UploadInv, UploadTypes, ThreadsSound, OnceSound, OwnerSound,
      ReadyHasArtifact, OrphansAreRecent, WorkIsKept,
      ReadParts, Proceed, Owning, Trying,
      Recording, job, disk, requests,
      deadline, server
<1>5. ASSUME NEW r \in Requests, ReadFails(r)
      PROVE  UploadInv'
  BY <1>5
  DEF UploadInv, UploadTypes, ThreadsSound, OnceSound, OwnerSound,
      ReadyHasArtifact, OrphansAreRecent, WorkIsKept,
      ReadFails, Fail, Proceed, Owning, Trying,
      Recording, job, disk, requests,
      deadline, server
<1>6. ASSUME NEW r \in Requests, MarkPackaging(r)
      PROVE  UploadInv'
  BY <1>6
  DEF UploadInv, UploadTypes, ThreadsSound, OnceSound, OwnerSound,
      ReadyHasArtifact, OrphansAreRecent, WorkIsKept,
      MarkPackaging, Proceed, Owning, Trying,
      Recording, job, disk, requests,
      deadline, server
<1>7. ASSUME NEW r \in Requests, PublishArtifact(r)
      PROVE  UploadInv'
  BY <1>7
  DEF UploadInv, UploadTypes, ThreadsSound, OnceSound, OwnerSound,
      ReadyHasArtifact, OrphansAreRecent, WorkIsKept,
      PublishArtifact, Proceed, Owning, Trying,
      Recording, job, disk, requests,
      deadline, server
<1>8. ASSUME NEW r \in Requests, PackagingRaises(r)
      PROVE  UploadInv'
  BY <1>8
  DEF UploadInv, UploadTypes, ThreadsSound, OnceSound, OwnerSound,
      ReadyHasArtifact, OrphansAreRecent, WorkIsKept,
      PackagingRaises, Fail, Proceed, Owning,
      Trying, Recording, job, disk,
      requests, deadline, server
<1>9. ASSUME NEW r \in Requests, RecordFailure(r)
      PROVE  UploadInv'
  BY <1>9
  DEF UploadInv, UploadTypes, ThreadsSound, OnceSound, OwnerSound,
      ReadyHasArtifact, OrphansAreRecent, WorkIsKept,
      RecordFailure, MayFail, Proceed, Owning,
      Trying, Recording, job, disk,
      requests, deadline, server
<1>10. ASSUME NEW r \in Requests, Cleanup(r)
      PROVE  UploadInv'
  <2>1. UploadTypes'
    <3>1. wake' \in BOOLEAN
      BY Zenon, <1>10 DEF UploadInv, UploadTypes, Cleanup
    <3> QED
      <4>1. handler' \in [Requests -> {"none", "done"} \cup Trying \cup Recording]
        BY Zenon, <1>10
        DEF UploadInv, UploadTypes, Trying, Recording,
            Cleanup, Proceed
      <4> QED
        <5>1. /\ work' \in BOOLEAN
              /\ UNCHANGED <<state, artifact, files, failure, thread, loop, late, process,
                             cleanup, recoveries, uploader, born>>
          BY Zenon, <1>10 DEF Cleanup, job, server
        <5> QED
          BY <3>1, <4>1, <5>1 DEF UploadInv, UploadTypes
  <2>2. ThreadsSound'
    BY Zenon, <1>10
    DEF UploadInv, UploadTypes, ThreadsSound, Cleanup, Proceed,
        job, disk, requests, deadline,
        server
  <2>3. OnceSound'
    BY Zenon, <1>10
    DEF UploadInv, UploadTypes, OnceSound, Cleanup, Proceed,
        job, disk, requests, deadline,
        server
  <2>4. OwnerSound'
    BY Zenon, <1>10
    DEF UploadInv, UploadTypes, OnceSound, OwnerSound, Owning,
        Cleanup, Proceed, job, disk,
        requests, deadline, server
  <2>5. ReadyHasArtifact' /\ OrphansAreRecent'
    BY Zenon, <1>10
    DEF UploadInv, UploadTypes, ReadyHasArtifact,
        OrphansAreRecent, Cleanup, Proceed, job,
        disk, requests, deadline, server
  <2>6. WorkIsKept'
    BY Zenon, <1>10
    DEF UploadInv, UploadTypes, OwnerSound, Owning, WorkIsKept,
        Cleanup, Proceed, job, disk,
        requests, deadline, server
  <2> QED
    BY Zenon, <2>1, <2>2, <2>3, <2>4, <2>5, <2>6 DEF UploadInv
<1>11. ASSUME NEW r \in Requests, Thread(r)
      PROVE  UploadInv'
  BY <1>11
  DEF UploadInv, UploadTypes, ThreadsSound, OnceSound, OwnerSound,
      ReadyHasArtifact, OrphansAreRecent, WorkIsKept,
      Thread, Package, PackageFails, job,
      disk, requests, deadline, server
<1>12. ASSUME NEW r \in Requests, Cancel(r)
      PROVE  UploadInv'
  BY <1>12
  DEF UploadInv, UploadTypes, ThreadsSound, OnceSound, OwnerSound,
      ReadyHasArtifact, OrphansAreRecent, WorkIsKept,
      Cancel, Fail, Proceed, Owning, Trying,
      Recording, job, disk, requests,
      deadline, server
<1>13. CASE \/ NextCreatedDeadline \/ Woken \/ TimedOut \/ ExpireCreated
            \/ CleanExpired \/ LoopRaises \/ Retry
  <2>1. /\ UNCHANGED <<artifact, files, handler, failure, thread, late, process, cleanup,
                       recoveries, uploader, born>>
        /\ loop # "off" /\ loop' \in {"query", "sleep", "timed", "expire", "clean", "retry"}
        /\ state' = state \/ (state = "created" /\ state' = "interrupted")
        /\ loop' = "clean" => state' = "interrupted"
    BY Zenon, <1>13
    DEF NextCreatedDeadline, Woken, TimedOut,
        ExpireCreated, CleanExpired, LoopRaises,
        Retry, Again, job, disk,
        requests, server
  <2>2. /\ work' = work \/ (loop = "clean" /\ work' = FALSE)
        /\ wake' = wake \/ wake' = FALSE
    BY Zenon, <1>13
    DEF NextCreatedDeadline, Woken, TimedOut,
        ExpireCreated, CleanExpired, LoopRaises,
        Retry, Again, disk
  <2>3. UploadTypes'
    <3>1. wake' \in BOOLEAN /\ work' \in BOOLEAN /\ late' \in BOOLEAN /\ cleanup' \in BOOLEAN
      BY Zenon, <2>1, <2>2 DEF UploadInv, UploadTypes
    <3>2. state' \in {"missing", "created", "uploading", "packaging", "ready",
                      "running", "interrupted", "failed"}
      BY Zenon, <2>1 DEF UploadInv, UploadTypes
    <3> QED
      BY Zenon, <2>1, <3>1, <3>2 DEF UploadInv, UploadTypes
  <2>4. ThreadsSound' /\ OnceSound' /\ ReadyHasArtifact' /\ OrphansAreRecent'
    BY Zenon, <2>1
    DEF UploadInv, ThreadsSound, OnceSound, ReadyHasArtifact,
        OrphansAreRecent
  <2>5. OwnerSound'
    BY Zenon, <2>1 DEF UploadInv, OnceSound, OwnerSound
  <2>6. WorkIsKept'
    BY <2>1, <2>2 DEF UploadInv, OwnerSound, WorkIsKept
  <2> QED
    BY Zenon, <2>3, <2>4, <2>5, <2>6 DEF UploadInv
<1>14. CASE Shutdown \/ OnCleanup \/ OnStartup
  <2>1. CASE Shutdown
    BY <2>1
    DEF UploadInv, UploadTypes, ThreadsSound, OnceSound, OwnerSound,
        ReadyHasArtifact, OrphansAreRecent, WorkIsKept,
        Shutdown, Owning, job, disk, requests,
        deadline, server
  <2>2. CASE OnCleanup
    BY <2>2
    DEF UploadInv, UploadTypes, ThreadsSound, OnceSound, OwnerSound,
        ReadyHasArtifact, OrphansAreRecent, WorkIsKept,
        OnCleanup, Owning, job, disk, requests,
        deadline, server
  <2>3. CASE OnStartup
    BY Zenon, <2>3
    DEF UploadInv, UploadTypes, ThreadsSound, OnceSound, OwnerSound,
        ReadyHasArtifact, OrphansAreRecent, WorkIsKept,
        OnStartup, Owning, job, disk, requests,
        deadline, server
  <2> QED
    BY Zenon, <1>14, <2>1, <2>2, <2>3
<1>15. ASSUME NEW lost \in SUBSET {artifact}, Recover(lost)
       PROVE  UploadInv'
  <2>1. UploadTypes'
    <3>1. cleanup' \in BOOLEAN
      BY Zenon, <1>15 DEF Recover
    <3>2. recoveries' \in 0 .. MaxRecoveries
      BY <1>15, RecoveriesAssumption DEF UploadInv, UploadTypes, Recover
    <3>3. state' \in {"missing", "created", "uploading", "packaging", "ready",
                      "running", "interrupted", "failed"}
      BY Zenon, <1>15 DEF UploadInv, UploadTypes, Recover
    <3>4. handler' \in [Requests -> {"none", "done"} \cup Trying \cup Recording]
      BY Zenon, <1>15 DEF UploadInv, UploadTypes, Recover
    <3>5. thread' \in [Requests -> {"none", "zip", "moved", "failed"}]
      BY Zenon, <1>15 DEF Recover
    <3>6. files' \subseteq Requests
      BY Zenon, <1>15 DEF UploadInv, UploadTypes, Recover
    <3>7. /\ loop' = "off" /\ wake' = FALSE /\ process' = "starting"
          /\ UNCHANGED <<artifact, work, failure, late, uploader, born>>
      BY Zenon, <1>15 DEF Recover
    <3> QED
      BY Zenon, <3>1, <3>2, <3>3, <3>4, <3>5, <3>6, <3>7
      DEF UploadInv, UploadTypes
  <2>2. ThreadsSound'
    BY Zenon, <1>15
    DEF UploadInv, UploadTypes, ThreadsSound, Recover, job,
        disk, requests, deadline, server
  <2>3. OnceSound'
    BY Zenon, <1>15
    DEF UploadInv, UploadTypes, OnceSound, Recover, job,
        disk, requests, deadline, server
  <2>4. OwnerSound'
    BY Zenon, <1>15
    DEF UploadInv, UploadTypes, OnceSound, OwnerSound, Owning,
        Recover, job, disk, requests,
        deadline, server
  <2>5. ReadyHasArtifact' /\ OrphansAreRecent'
    BY Zenon, <1>15
    DEF UploadInv, UploadTypes, ReadyHasArtifact,
        OrphansAreRecent, Recover, job, disk,
        requests, deadline, server
  <2>6. WorkIsKept'
    BY Zenon, <1>15
    DEF UploadInv, UploadTypes, OwnerSound, Owning, WorkIsKept,
        Recover, job, disk, requests,
        deadline, server
  <2> QED
    BY Zenon, <2>1, <2>2, <2>3, <2>4, <2>5, <2>6 DEF UploadInv
<1> QED
  BY Zenon, <1>1, <1>2, <1>3, <1>4, <1>5, <1>6, <1>7, <1>8, <1>9, <1>10, <1>11,
      <1>12,
     <1>13, <1>14, <1>15 DEF UploadNext, UploadHandler

\* The invariant holds whatever requests, crashes and restarts there are.
THEOREM UploadInvariance == UploadSpec => []UploadInv
<1>1. UploadInit => UploadInv
  <2> SUFFICES ASSUME UploadInit PROVE UploadInv
    BY Zenon
  <2>1. UploadTypes
    <3>1. recoveries \in 0 .. MaxRecoveries
      BY RecoveriesAssumption DEF UploadInit
    <3>2. /\ handler \in [Requests -> {"none", "done"} \cup Trying \cup Recording]
          /\ failure \in [Requests -> {"none", "interrupted", "failed"}]
          /\ thread \in [Requests -> {"none", "zip", "moved", "failed"}]
      BY Zenon DEF UploadInit
    <3> QED
      BY Zenon, <3>1, <3>2 DEF UploadInit, UploadTypes
  <2>2. ThreadsSound /\ OnceSound /\ OwnerSound
    BY Zenon DEF UploadInit, ThreadsSound, OnceSound, OwnerSound, Owning
  <2>3. ReadyHasArtifact /\ OrphansAreRecent /\ WorkIsKept
    BY Zenon
    DEF UploadInit, ReadyHasArtifact, OrphansAreRecent,
        WorkIsKept
  <2> QED
    BY Zenon, <2>1, <2>2, <2>3 DEF UploadInv
<1>2. UploadInv /\ UNCHANGED uploadVars => UploadInv'
  BY 
  DEF uploadVars, job, disk, requests,
      deadline, server, UploadInv, UploadTypes,
      ThreadsSound, OnceSound, OwnerSound, ReadyHasArtifact,
      OrphansAreRecent, WorkIsKept
<1>3. UploadInv /\ [UploadNext]_uploadVars => UploadInv'
  BY Zenon, <1>2, UploadPreserved
<1> QED
  BY <1>1, <1>3, PTL DEF UploadSpec

\* ReadyHasArtifact: a job that may be dispatched has its file, whatever
\* cancellations, crashes and lost files came before.
THEOREM ReadyJobsHaveFiles == UploadSpec => []ReadyHasArtifact
BY UploadInvariance, PTL DEF UploadInv

\* OrphansAreRecent: a file without an artifact row is younger than the last
\* startup.
THEOREM OrphansDoNotOutliveStartup == UploadSpec => []OrphansAreRecent
BY UploadInvariance, PTL DEF UploadInv

\* WorkIsKept: while the server serves, the work tree of an upload in progress
\* is there.
THEOREM WorkTreeKept == UploadSpec => []WorkIsKept
BY UploadInvariance, PTL DEF UploadInv

\* OwnerMoves: while the server serves, only the owning request moves an
\* upload in progress.
THEOREM OnlyOwnerMoves == UploadSpec => OwnerMoves
<1>1. UploadInv /\ [UploadNext]_uploadVars =>
          [ /\ state \in {"uploading", "packaging"}
            /\ process = "serving"
            /\ process' = "serving"
            /\ state' # state
            => handler'[uploader] # handler[uploader] ]_uploadVars
  <2> SUFFICES ASSUME UploadInv, UploadNext, state \in {"uploading", "packaging"},
                      process = "serving", process' = "serving", state' # state
               PROVE  handler'[uploader] # handler[uploader]
    BY Zenon DEF uploadVars, job
  <2>1. PICK r \in Requests : MarkPackaging(r) \/ PublishArtifact(r) \/ RecordFailure(r)
    BY Zenon
    DEF UploadNext, UploadHandler, Thread, CreateJob,
        EnableDispatch, DeadlinePasses, Request,
        StartUpload, ReadParts, ReadFails,
        PackagingRaises, Cleanup, Package,
        PackageFails, Cancel, NextCreatedDeadline,
        Woken, TimedOut, ExpireCreated,
        CleanExpired, LoopRaises, Retry,
        Shutdown, OnCleanup, OnStartup,
        Recover, job
  <2>2. r = uploader
    BY Zenon, <2>1
    DEF UploadInv, OwnerSound, Owning, MarkPackaging,
        PublishArtifact, RecordFailure
  <2> QED
    BY Zenon, <2>1, <2>2
    DEF MarkPackaging, PublishArtifact, RecordFailure,
        Proceed, UploadInv, UploadTypes
<1> QED
  BY UploadInvariance, <1>1, PTL DEF UploadSpec, OwnerMoves

=============================================================================
