--------------------------- MODULE ExecutorProofs ---------------------------
(***************************************************************************)
(* Proofs about the Push/Sync executor of the client (PushJobCoordinator), *)
(* for any jobs, commands, failed saves, process deaths and receipts that  *)
(* grow too old.                                                           *)
(***************************************************************************)
EXTENDS PushJobCoordinator, FiniteSetTheorems, TLAPS

-----------------------------------------------------------------------------
(* Queues.                                                                 *)

\* What the empty queue is: here the tasks and the callbacks.
LEMMA NoQueue ==
    ASSUME NEW S
    PROVE  <<>> \in Seq(S) /\ Len(<<>>) = 0
OBVIOUS

\* An element added to a queue is the last one, behind what is there.
LEMMA Enqueue ==
    ASSUME NEW S, NEW q \in Seq(S), NEW e \in S
    PROVE  /\ Append(q, e) \in Seq(S) /\ Len(Append(q, e)) = Len(q) + 1
           /\ \A i \in 1 .. Len(q) : Append(q, e)[i] = q[i]
           /\ Append(q, e)[Len(q) + 1] = e
OBVIOUS

\* Taking the first element moves every other one place up.
LEMMA Dequeue ==
    ASSUME NEW S, NEW q \in Seq(S), q # <<>>
    PROVE  /\ Head(q) \in S /\ Tail(q) \in Seq(S)
           /\ Len(Tail(q)) = Len(q) - 1
           /\ \A i \in 1 .. Len(Tail(q)) : Tail(q)[i] = q[i + 1]
OBVIOUS

-----------------------------------------------------------------------------
(* The Push/Sync executor (PushJobCoordinator.kt, PushExecutionGate.kt).   *)

Task == [kind : {"run", "clean"}, cmd : Command]
Callbacks ==
    [kind : {"transferred", "validated", "applying"}, cmd : Command, status : {None}]
        \cup [kind : {"terminal"}, cmd : Command, status : {"success", "fail"}]
Active == [cmd : Command, phase : Phases] \cup {NoActive}

\* A saved state: what is active is typed, the receipts may be any.
Saved(s) ==
    /\ s = [active |-> s.active, pending |-> s.pending,
            completed |-> s.completed]
    /\ s.active \in Active

CoordinatorTypes ==
    /\ up \in BOOLEAN /\ durable \in BOOLEAN
    /\ tasks \in Seq(Task) /\ inbox \in Seq(Callbacks)
    /\ stage \in 0 .. 3 /\ gate \in Command \cup {None}
    /\ Saved(state) /\ (disk # Corrupt => Saved(disk))

\* The execution that was submitted last is the only one, and everything that
\* is queued of it belongs to the command that holds the gate.
OneExecution ==
    /\ \A i \in Runs : tasks[i].cmd = gate /\ i = Len(tasks)
    /\ \A i \in 1 .. Len(inbox) : inbox[i].cmd = gate
    /\ \A i \in Ends : i = Len(inbox)
    /\ Runs = {} \/ Ends = {}

CoordinatorInv ==
    /\ CoordinatorTypes /\ OneExecution
    /\ gate = state.active.cmd
    /\ gate # None \/ durable => disk = state
    /\ ~up => /\ ~durable /\ gate = None /\ state = EmptyState
              /\ tasks = <<>> /\ inbox = <<>>


\* normalizePushState bounds the receipts and leaves the active record alone.
LEMMA Normalized ==
    ASSUME NEW s, Saved(s)
    PROVE  /\ Saved(normalizePushState(s))
           /\ normalizePushState(s).active = s.active
<1> DEFINE p == Bounded(s.pending)
           c == Bounded(Without(s.completed, expired))
<1>1. normalizePushState(s) = [s EXCEPT !.pending = p, !.completed = c]
  BY Zenon DEF normalizePushState
<1> HIDE DEF p, c
<1>2. s = [active |-> s.active, pending |-> s.pending,
           completed |-> s.completed]
  BY Zenon DEF Saved
<1>3. normalizePushState(s) =
          [active |-> s.active, pending |-> p, completed |-> c]
  BY Zenon, <1>1, <1>2
<1> QED
  BY <1>3 DEF Saved

\* A save writes file and memory alike, or neither.
LEMMA Persisted ==
    ASSUME CoordinatorTypes, NEW s, Saved(s), NEW ok \in BOOLEAN, persist(s, ok)
    PROVE  /\ durable' = ok /\ Saved(state') /\ (disk' # Corrupt => Saved(disk'))
           /\ ok => disk' = state' /\ state'.active = s.active
           /\ ~ok => disk' = disk /\ state' = state
<1>1. CASE ok
  <2>1. state' = normalizePushState(s) /\ disk' = normalizePushState(s)
        /\ durable' = ok
    BY Zenon, <1>1 DEF persist
  <2> QED
    BY Zenon, <1>1, <2>1, Normalized
<1>2. CASE ~ok
  BY Zenon, <1>2 DEF persist, CoordinatorTypes
<1> QED
  BY Zenon, <1>1, <1>2

\* The empty state is a state.
LEMMA EmptySaved == Saved(EmptyState) /\ EmptyState.active = NoActive
  BY Zenon DEF Saved, EmptyState, Active

\* The state that is active is never the null command.
LEMMA ActiveCommand ==
    ASSUME NEW s, Saved(s)
    PROVE  /\ s.active = NoActive <=> s.active.cmd = None
           /\ s.active # NoActive => s.active.cmd \in Command
  BY NullAssumption DEF Saved, Active, NoActive

\* The step leaves the executor alone.
LEMMA StillExecuting ==
    ASSUME CoordinatorInv, UNCHANGED <<up, disk, state, durable, gate, tasks, stage, inbox>>
    PROVE  CoordinatorInv'
  BY Zenon
  DEF CoordinatorInv, CoordinatorTypes, OneExecution, Runs, Ends, Saved

\* The callback at the head of the actor's queue.
LEMMA Received ==
    ASSUME CoordinatorTypes, OneExecution, NEW kind, Receive(kind)
    PROVE  /\ Head(inbox) \in Callbacks /\ Head(inbox).kind = kind
           /\ Head(inbox).cmd = gate /\ gate \in Command
           /\ inbox' \in Seq(Callbacks)
           /\ kind = "terminal" => Runs = {} /\ inbox' = <<>>
<1>1. inbox \in Seq(Callbacks) /\ inbox # <<>> /\ inbox' = Tail(inbox)
      /\ Head(inbox).kind = kind
  BY Zenon DEF CoordinatorTypes, Receive
<1>2. /\ Head(inbox) = inbox[1] /\ Head(inbox) \in Callbacks
      /\ inbox' \in Seq(Callbacks)
      /\ Len(inbox) \in Nat /\ 1 \in 1 .. Len(inbox)
      /\ Len(inbox') = Len(inbox) - 1
  BY <1>1, NoQueue, Dequeue
<1>3. Head(inbox).cmd = gate /\ Head(inbox).cmd \in Command
  BY Zenon, <1>2 DEF OneExecution, Callbacks
<1>4. ASSUME kind = "terminal" PROVE Runs = {} /\ inbox' = <<>>
  <2>1. 1 \in Ends
    BY Zenon, <1>1, <1>2, <1>4 DEF Ends
  <2>2. Len(inbox) = 1 /\ Runs = {}
    BY Zenon, <2>1 DEF OneExecution
  <2> QED
    BY <1>2, <2>2, NoQueue
<1> QED
  BY Zenon, <1>1, <1>2, <1>3, <1>4

\* Handling a callback leaves one execution.
LEMMA ReceiveKeeps ==
    ASSUME CoordinatorTypes, OneExecution, NEW kind, Receive(kind),
           UNCHANGED <<tasks, gate>>
    PROVE  OneExecution'
<1>1. inbox \in Seq(Callbacks) /\ inbox # <<>> /\ inbox' = Tail(inbox)
  BY Zenon DEF CoordinatorTypes, Receive
<1>2. /\ Len(inbox) \in Nat /\ Len(inbox') = Len(inbox) - 1
      /\ \A i \in 1 .. Len(inbox') : inbox'[i] = inbox[i + 1]
  BY <1>1, NoQueue, Dequeue
<1>3. Runs' = Runs
  BY Zenon DEF Runs
<1>4. \A i \in Ends' : i \in Nat /\ i + 1 \in Ends
  BY <1>2 DEF Ends
<1>5. \A i \in 1 .. Len(inbox') : inbox'[i].cmd = gate
  BY <1>2 DEF OneExecution
<1>6. \A i \in Ends' : i = Len(inbox')
  BY <1>2, <1>4 DEF OneExecution
<1> QED
  BY Zenon, <1>3, <1>4, <1>5, <1>6 DEF OneExecution

\* Without a lease nothing is queued that would use it.
LEMMA NothingRuns ==
    ASSUME CoordinatorInv, gate = None
    PROVE  Runs = {} /\ inbox = <<>>
<1>1. CoordinatorTypes /\ OneExecution
  BY Zenon DEF CoordinatorInv
<1>2. ASSUME NEW i \in Runs PROVE FALSE
  <2>1. i \in 1 .. Len(tasks) /\ tasks[i].cmd = None
    BY Zenon, <1>1 DEF Runs, OneExecution
  <2>2. tasks[i] \in Task
    BY <1>1, <2>1 DEF CoordinatorTypes
  <2> QED
    BY Zenon, <2>1, <2>2, NullAssumption DEF Task
<1>3. inbox = <<>>
  <2>1. SUFFICES ASSUME inbox # <<>> PROVE FALSE
    BY Zenon
  <2>2. inbox \in Seq(Callbacks) /\ Len(inbox) \in Nat /\ Len(inbox) # 0
    BY <1>1, <2>1, NoQueue DEF CoordinatorTypes
  <2>3. inbox[1] \in Callbacks /\ inbox[1].cmd = None
    BY <1>1, <2>2 DEF OneExecution
  <2> QED
    BY Zenon, <2>3, NullAssumption DEF Callbacks
<1> QED
  BY Zenon, <1>2, <1>3

\* A task at the end of the worker's queue.
LEMMA Submitted ==
    ASSUME tasks \in Seq(Task), NEW t \in Task, tasks' = Append(tasks, t),
           Runs = {}
    PROVE  /\ tasks' \in Seq(Task)
           /\ \A i \in Runs' : t.kind = "run" /\ tasks'[i] = t /\ i = Len(tasks')
<1>1. /\ tasks' \in Seq(Task) /\ Len(tasks) \in Nat
      /\ Len(tasks') = Len(tasks) + 1 /\ tasks'[Len(tasks')] = t
      /\ \A i \in 1 .. Len(tasks) : tasks'[i] = tasks[i]
  BY Enqueue
<1> QED
  BY <1>1 DEF Runs

\* The task at the head is done.
LEMMA Worked ==
    ASSUME tasks \in Seq(Task), tasks # <<>>, tasks' = Tail(tasks)
    PROVE  /\ tasks' \in Seq(Task) /\ Head(tasks) = tasks[1]
           /\ Head(tasks) \in Task /\ 1 \in 1 .. Len(tasks)
           /\ Len(tasks) \in Nat /\ Len(tasks') = Len(tasks) - 1
           /\ \A i \in Runs' :
                  i \in Nat /\ i # 0 /\ i + 1 \in Runs /\ tasks'[i] = tasks[i + 1]
<1>1. /\ tasks' \in Seq(Task) /\ Len(tasks) \in Nat /\ Len(tasks) # 0
      /\ Len(tasks') = Len(tasks) - 1
      /\ Head(tasks) = tasks[1] /\ Head(tasks) \in Task
      /\ \A i \in 1 .. Len(tasks') : tasks'[i] = tasks[i + 1]
  BY NoQueue, Dequeue
<1> QED
  BY <1>1 DEF Runs


\* A callback at the end of the actor's queue.
LEMMA CalledBack ==
    ASSUME inbox \in Seq(Callbacks), NEW m \in Callbacks, inbox' = Append(inbox, m)
    PROVE  /\ inbox' \in Seq(Callbacks)
           /\ \A i \in 1 .. Len(inbox') :
                  inbox'[i] = m \/ (i \in 1 .. Len(inbox) /\ inbox'[i] = inbox[i])
           /\ \A i \in Ends' :
                  i \in Ends \/ (i = Len(inbox') /\ m.kind = "terminal")
<1>1. /\ inbox' \in Seq(Callbacks) /\ Len(inbox) \in Nat
      /\ Len(inbox') = Len(inbox) + 1 /\ inbox'[Len(inbox')] = m
      /\ \A i \in 1 .. Len(inbox) : inbox'[i] = inbox[i]
  BY Enqueue
<1> QED
  BY <1>1 DEF Ends

\* Every step keeps the executor's invariant.
LEMMA ExecutorStep == CoordinatorInv /\ [Next]_vars => CoordinatorInv'
<1> SUFFICES ASSUME CoordinatorInv, [Next]_vars PROVE CoordinatorInv'
  BY Zenon
<1>0. CoordinatorTypes /\ OneExecution /\ gate = state.active.cmd
      /\ (gate # None \/ durable => disk = state)
  BY Zenon DEF CoordinatorInv
<1>t. tasks \in Seq(Task) /\ inbox \in Seq(Callbacks) /\ Saved(state)
      /\ up \in BOOLEAN /\ durable \in BOOLEAN /\ stage \in 0 .. 3
  BY Zenon, <1>0 DEF CoordinatorTypes
<1>k. ASSUME Keep, UNCHANGED <<up, gate, work>> PROVE CoordinatorInv'
  BY Zenon, <1>k, StillExecuting DEF Keep, work
<1>a. ASSUME NEW messages, Answer(messages) PROVE CoordinatorInv'
  BY Zenon, <1>a, <1>k DEF Answer, process
<1>1. ASSUME NEW ok \in BOOLEAN, Start(ok) PROVE CoordinatorInv'
  <2>1. /\ ~up /\ up' = TRUE /\ persist(recover(load), ok)
        /\ UNCHANGED <<gate, stage, inbox>>
        /\ tasks' = IF ok /\ load.active # NoActive
                    THEN <<[kind |-> "clean", cmd |-> load.active.cmd]>>
                    ELSE <<>>
    BY Zenon, <1>1 DEF Start
  <2>2. gate = None /\ state = EmptyState /\ inbox = <<>>
    BY Zenon, <2>1 DEF CoordinatorInv
  <2>3. Saved(load)
    BY Zenon, <1>0, EmptySaved, Normalized DEF load, CoordinatorTypes
  <2>4. Saved(recover(load)) /\ recover(load).active = NoActive
    <3>1. CASE load.active = NoActive
      BY Zenon, <2>3, <3>1 DEF recover
    <3>2. CASE load.active # NoActive
      <4> DEFINE r == [cmd |-> load.active.cmd, status |-> "fail"]
                 p == IF isJobV1(r.cmd) THEN Append(load.pending, r)
                      ELSE load.pending
                 c == Bounded(Append(load.completed, r))
      <4>1. recover(load) =
                [active |-> NoActive, pending |-> p, completed |-> c]
        BY Zenon, <3>2 DEF recover
      <4> HIDE DEF p, c
      <4> QED
        BY <4>1 DEF Saved, Active
    <3> QED
      BY Zenon, <3>1, <3>2
  <2>5. /\ durable' = ok /\ Saved(state') /\ (disk' # Corrupt => Saved(disk'))
        /\ (ok => disk' = state' /\ state'.active = NoActive)
        /\ (~ok => state' = state)
    BY Zenon, <1>0, <2>1, <2>4, Persisted
  <2>6. state'.active = NoActive /\ gate' = None
    BY Zenon, <2>1, <2>2, <2>5, EmptySaved
  <2>7. tasks' \in Seq(Task) /\ Runs' = {}
    <3>1. CASE ok /\ load.active # NoActive
      <4> DEFINE t == [kind |-> "clean", cmd |-> load.active.cmd]
      <4>1. t \in Task /\ t.kind = "clean"
        BY Zenon, <2>3, <3>1, ActiveCommand DEF Task
      <4>2. tasks' = <<t>>
        BY Zenon, <2>1, <3>1
      <4> HIDE DEF t
      <4> QED
        BY <4>1, <4>2 DEF Runs
    <3>2. CASE ~(ok /\ load.active # NoActive)
      BY <2>1, <3>2 DEF Runs
    <3> QED
      BY Zenon, <3>1, <3>2
  <2>8. OneExecution'
    BY <2>1, <2>2, <2>7 DEF OneExecution, Ends
  <2>9. CoordinatorTypes'
    BY Zenon, <1>t, <2>1, <2>5, <2>6, <2>7 DEF CoordinatorTypes
  <2>10. gate' = state'.active.cmd
    BY <2>6 DEF NoActive
  <2> QED
    BY Zenon, <2>1, <2>5, <2>6, <2>8, <2>9, <2>10 DEF CoordinatorInv
<1>2. CASE Crash
  <2>1. /\ up' = FALSE /\ state' = EmptyState /\ durable' = FALSE
        /\ gate' = None /\ tasks' = <<>> /\ inbox' = <<>> /\ disk' = disk
        /\ stage' = 0
    BY Zenon, <1>2 DEF Crash
  <2>2. CoordinatorTypes'
    <3>1. <<>> \in Seq(Task) /\ <<>> \in Seq(Callbacks)
      OBVIOUS
    <3>2. tasks' \in Seq(Task) /\ inbox' \in Seq(Callbacks) /\ stage' \in 0 .. 3
      BY <2>1, <3>1
    <3>3. Saved(state') /\ (disk' # Corrupt => Saved(disk'))
      BY Zenon, <1>0, <2>1, EmptySaved DEF CoordinatorTypes
    <3> QED
      BY Zenon, <2>1, <3>2, <3>3 DEF CoordinatorTypes
  <2>3. OneExecution'
    BY <2>1 DEF OneExecution, Runs, Ends
  <2> QED
    BY <2>1, <2>2, <2>3, EmptySaved DEF CoordinatorInv, NoActive
<1>3. ASSUME NEW c \in Command, NEW ok \in BOOLEAN, accept(c, ok)
      PROVE  CoordinatorInv'
  <2> DEFINE s == [state EXCEPT !.active = [cmd |-> c, phase |-> "downloading"]]
  <2>1. /\ up /\ durable /\ gate = None /\ persist(s, ok)
        /\ UNCHANGED <<up, stage, inbox>>
        /\ ok => /\ gate' = c
                 /\ tasks' = Append(tasks, [kind |-> "run", cmd |-> c])
        /\ ~ok => UNCHANGED <<gate, tasks>>
    BY Zenon, <1>3 DEF accept, process
  <2>2. Saved(s) /\ s.active = [cmd |-> c, phase |-> "downloading"]
    BY <1>t DEF Saved, Active, Phases
  <2> HIDE DEF s
  <2>3. /\ durable' = ok /\ Saved(state') /\ (disk' # Corrupt => Saved(disk'))
        /\ (ok => disk' = state' /\ state'.active = s.active)
        /\ (~ok => state' = state /\ disk' = disk)
    BY Zenon, <1>0, <2>1, <2>2, Persisted
  <2>4. Runs = {} /\ inbox = <<>>
    BY Zenon, <2>1, NothingRuns
  <2>5. CASE ok
    <3> DEFINE t == [kind |-> "run", cmd |-> c]
    <3>1. t \in Task /\ t.cmd = c
      BY Zenon DEF Task
    <3>2. tasks' = Append(tasks, t)
      BY Zenon, <2>1, <2>5
    <3> HIDE DEF t
    <3>3. /\ tasks' \in Seq(Task)
          /\ \A i \in Runs' : tasks'[i] = t /\ i = Len(tasks')
      BY Zenon, <1>t, <2>4, <3>1, <3>2, Submitted
    <3>4. gate' = c /\ inbox' = <<>>
      BY Zenon, <2>1, <2>4, <2>5
    <3>5. OneExecution'
      <4>1. Ends' = {} /\ \A i \in 1 .. Len(inbox') : inbox'[i].cmd = gate'
        BY <3>4 DEF Ends
      <4>2. \A i \in Runs' : tasks'[i].cmd = gate' /\ i = Len(tasks')
        BY Zenon, <3>1, <3>3, <3>4
      <4> QED
        BY Zenon, <4>1, <4>2 DEF OneExecution
    <3>6. CoordinatorTypes'
      BY Zenon, <1>t, <2>1, <2>3, <3>3, <3>4 DEF CoordinatorTypes
    <3>7. gate' = state'.active.cmd
      <4>1. state'.active = [cmd |-> c, phase |-> "downloading"]
        BY Zenon, <2>2, <2>3, <2>5
      <4> QED
        BY <3>4, <4>1
    <3> QED
      BY Zenon, <2>1, <2>3, <2>5, <3>5, <3>6, <3>7 DEF CoordinatorInv
  <2>6. CASE ~ok
    <3>1. UNCHANGED <<gate, tasks, stage, inbox, state, disk, up>> /\ durable' = FALSE
      BY Zenon, <2>1, <2>3, <2>6
    <3>2. OneExecution' /\ CoordinatorTypes'
      BY Zenon, <1>0, <3>1
      DEF OneExecution, Runs, Ends, CoordinatorTypes, Saved
    <3> QED
      BY <2>1, <3>1, <3>2, <1>0 DEF CoordinatorInv
  <2> QED
    BY Zenon, <2>5, <2>6
<1>4. ASSUME NEW c \in Command, handleCommand(c) PROVE CoordinatorInv'
  BY Zenon, <1>4, <1>a, <1>3
  DEF handleCommand, AnswerFinished, RefuseUndurable, OfferHeld
<1>5. CASE WorkerAdvance
  <2>1. /\ up /\ tasks # <<>> /\ Head(tasks).kind = "run"
        /\ stage < Len(Steps)
        /\ inbox' = Append(inbox,
                           Callback(Steps[stage + 1], Head(tasks).cmd, None))
        /\ Keep /\ UNCHANGED <<up, gate, tasks>>
    BY Zenon, <1>5 DEF WorkerAdvance, Running, process
  <2>2. Head(tasks) = tasks[1] /\ Head(tasks) \in Task /\ 1 \in Runs
    BY <1>t, <2>1, NoQueue, Dequeue DEF Runs
  <2>3. Head(tasks).cmd = gate /\ gate \in Command /\ Ends = {}
    BY Zenon, <1>0, <2>2 DEF OneExecution, Task
  <2> DEFINE m == Callback(Steps[stage + 1], Head(tasks).cmd, None)
  <2>4. stage' \in 0 .. 3
        /\ Steps[stage + 1] \in {"transferred", "validated", "applying"}
    BY <1>t, <1>5, <2>1 DEF Steps, WorkerAdvance
  <2>5. m \in Callbacks /\ m.cmd = gate /\ m.kind # "terminal"
    BY Zenon, <2>3, <2>4 DEF Callback, Callbacks
  <2>6. inbox' = Append(inbox, m)
    BY Zenon, <2>1
  <2> HIDE DEF m
  <2>7. /\ inbox' \in Seq(Callbacks) /\ Ends' = {}
        /\ \A i \in 1 .. Len(inbox') : inbox'[i].cmd = gate
    BY Zenon, <1>0, <1>t, <2>3, <2>5, <2>6, CalledBack DEF OneExecution
  <2>8. OneExecution'
    BY Zenon, <1>0, <2>1, <2>7 DEF OneExecution, Runs
  <2>9. CoordinatorTypes'
    BY Zenon, <1>0, <2>1, <2>4, <2>7 DEF CoordinatorTypes, Keep, Saved
  <2> QED
    BY Zenon, <1>0, <2>1, <2>8, <2>9 DEF CoordinatorInv, Keep
<1>6. ASSUME NEW outcome \in {"success", "fail"}, WorkerFinish(outcome)
      PROVE  CoordinatorInv'
  <2> DEFINE m == Callback("terminal", Head(tasks).cmd, outcome)
  <2>1. /\ up /\ tasks # <<>> /\ Head(tasks).kind = "run" /\ stage' = 0
        /\ inbox' = Append(inbox, m) /\ tasks' = Tail(tasks)
        /\ Keep /\ UNCHANGED <<up, gate>>
    BY Zenon, <1>6 DEF WorkerFinish, Running, process
  <2>2. /\ tasks' \in Seq(Task) /\ Head(tasks) \in Task /\ 1 \in Runs
        /\ \A i \in Runs' : i \in Nat /\ i # 0 /\ i + 1 \in Runs
    BY Zenon, <1>t, <2>1, Worked DEF Runs
  <2>3. Head(tasks).cmd = gate /\ gate \in Command /\ Ends = {} /\ Len(tasks) = 1
    BY Zenon, <1>0, <1>t, <2>1, <2>2, Worked DEF OneExecution, Task
  <2>4. Runs' = {}
    BY <1>0, <2>2, <2>3 DEF OneExecution
  <2>5. m \in Callbacks /\ m.cmd = gate
    BY Zenon, <2>3 DEF Callback, Callbacks
  <2>6. inbox' = Append(inbox, m)
    BY Zenon, <2>1
  <2> HIDE DEF m
  <2>7. /\ inbox' \in Seq(Callbacks) /\ \A i \in Ends' : i = Len(inbox')
        /\ \A i \in 1 .. Len(inbox') : inbox'[i].cmd = gate
    BY Zenon, <1>0, <1>t, <2>3, <2>5, <2>6, CalledBack DEF OneExecution
  <2>8. OneExecution'
    BY Zenon, <2>1, <2>4, <2>7 DEF OneExecution
  <2>9. CoordinatorTypes'
    BY <1>0, <2>1, <2>2, <2>7 DEF CoordinatorTypes, Keep, Saved
  <2> QED
    BY Zenon, <1>0, <2>1, <2>8, <2>9 DEF CoordinatorInv, Keep
<1>7. CASE WorkerClean
  <2>1. /\ up /\ tasks # <<>> /\ tasks' = Tail(tasks)
        /\ Keep /\ UNCHANGED <<up, gate, stage, inbox>>
    BY Zenon, <1>7 DEF WorkerClean, process
  <2>2. /\ tasks' \in Seq(Task) /\ Len(tasks) \in Nat
        /\ Len(tasks') = Len(tasks) - 1
        /\ \A i \in Runs' :
               i \in Nat /\ i + 1 \in Runs /\ tasks'[i] = tasks[i + 1]
    BY Zenon, <1>t, <2>1, Worked
  <2>3. ASSUME NEW i \in Runs'
        PROVE  tasks'[i].cmd = gate /\ i = Len(tasks')
    <3>1. tasks'[i].cmd = gate /\ i + 1 = Len(tasks) /\ i \in Nat
      BY Zenon, <1>0, <2>2 DEF OneExecution
    <3> QED
      BY <2>2, <3>1
  <2>4. Ends' = Ends /\ (Runs = {} => Runs' = {})
    BY Zenon, <2>1, <2>2 DEF Ends
  <2>5. OneExecution'
    BY Zenon, <1>0, <2>1, <2>3, <2>4 DEF OneExecution
  <2>6. CoordinatorTypes'
    BY Zenon, <1>0, <2>1, <2>2 DEF CoordinatorTypes, Keep, Saved
  <2> QED
    BY Zenon, <1>0, <2>1, <2>5, <2>6 DEF CoordinatorInv, Keep
<1>c. ASSUME NEW kind, Receive(kind) PROVE isCurrent(Head(inbox).cmd) /\ up
  <2>1. Head(inbox).cmd = gate /\ gate \in Command /\ up
    BY Zenon, <1>0, <1>c, Received DEF Receive
  <2>2. state.active # NoActive
    BY Zenon, <1>0, <1>t, <2>1, ActiveCommand, NullAssumption
  <2> QED
    BY Zenon, <1>0, <2>1, <2>2 DEF isCurrent
<1>8. ASSUME NEW kind, NEW phase \in Phases, NEW ok \in BOOLEAN,
             setPhase(kind, phase, ok)
      PROVE  CoordinatorInv'
  <2> DEFINE s == [state EXCEPT !.active.phase = phase]
  <2>1. /\ Receive(kind) /\ UNCHANGED <<up, gate, tasks, stage>>
        /\ isCurrent(Head(inbox).cmd) => persist(s, ok)
    BY Zenon, <1>8 DEF setPhase, process
  <2>2. isCurrent(Head(inbox).cmd) /\ up
    BY Zenon, <1>c, <2>1
  <2>3. state.active \in [cmd : Command, phase : Phases]
    BY Zenon, <1>t, <2>2 DEF isCurrent, Saved, Active
  <2>4. Saved(s) /\ s.active.cmd = state.active.cmd
    BY <1>t, <2>3 DEF Saved, Active
  <2>5. persist(s, ok)
    BY Zenon, <2>1, <2>2
  <2> HIDE DEF s
  <2>6. /\ durable' = ok /\ Saved(state') /\ (disk' # Corrupt => Saved(disk'))
        /\ (ok => disk' = state' /\ state'.active = s.active)
        /\ (~ok => disk' = disk /\ state' = state)
    BY Zenon, <1>0, <2>4, <2>5, Persisted
  <2>7. OneExecution' /\ inbox' \in Seq(Callbacks)
    BY Zenon, <1>0, <2>1, ReceiveKeeps, Received
  <2>8. CoordinatorTypes'
    BY Zenon, <1>0, <2>1, <2>6, <2>7 DEF CoordinatorTypes
  <2>9. gate' = state'.active.cmd
    BY Zenon, <1>0, <2>1, <2>4, <2>6
  <2>10. gate' # None \/ durable' => disk' = state'
    BY Zenon, <1>0, <2>1, <2>6
  <2> QED
    BY Zenon, <2>1, <2>2, <2>7, <2>8, <2>9, <2>10 DEF CoordinatorInv
<1>9. CASE onValidated
  <2>1. Receive("validated") /\ Keep /\ UNCHANGED <<up, gate, tasks, stage>>
    BY Zenon, <1>9 DEF onValidated, process
  <2>2. OneExecution' /\ inbox' \in Seq(Callbacks) /\ up
    BY Zenon, <1>0, <1>c, <2>1, ReceiveKeeps, Received
  <2>3. CoordinatorTypes'
    BY Zenon, <1>0, <2>1, <2>2 DEF CoordinatorTypes, Keep, Saved
  <2> QED
    BY Zenon, <1>0, <2>1, <2>2, <2>3 DEF CoordinatorInv, Keep
<1>10. ASSUME NEW ok \in BOOLEAN, onTerminal(ok) PROVE CoordinatorInv'
  <2> DEFINE c == Head(inbox).cmd
             r == [cmd |-> c, status |-> Head(inbox).status]
             t == [kind |-> "clean", cmd |-> c]
  <2>1. Receive("terminal") /\ UNCHANGED <<up, stage>>
    BY Zenon, <1>10 DEF onTerminal, process
  <2>2. /\ c = gate /\ gate \in Command /\ Runs = {} /\ inbox' = <<>>
        /\ isCurrent(c) /\ up
    BY Zenon, <1>0, <1>c, <2>1, Received
  <2>3. /\ persist(Filed(r), ok)
        /\ gate' = IF ok /\ gate # None /\ gate.id = c.id THEN None ELSE gate
        /\ tasks' = IF ok THEN Append(tasks, t) ELSE tasks
    BY Zenon, <1>10, <2>2 DEF onTerminal
  <2>4. Saved(Filed(r)) /\ Filed(r).active = NoActive
    <3> DEFINE p == IF isJobV1(r.cmd) THEN Append(state.pending, r)
                    ELSE state.pending
               d == Bounded(Append(state.completed, r))
    <3>1. Filed(r) = [active |-> NoActive, pending |-> p, completed |-> d]
      BY Zenon DEF Filed
    <3> HIDE DEF p, d
    <3> QED
      BY <3>1 DEF Saved, Active
  <2>5. t \in Task /\ t.kind = "clean"
    BY Zenon, <2>2 DEF Task
  <2> HIDE DEF c, r, t
  <2>6. /\ durable' = ok /\ Saved(state') /\ (disk' # Corrupt => Saved(disk'))
        /\ (ok => disk' = state' /\ state'.active = NoActive)
        /\ (~ok => disk' = disk /\ state' = state)
    BY Zenon, <1>0, <2>3, <2>4, Persisted
  <2>7. tasks' \in Seq(Task) /\ Runs' = {}
    <3>1. CASE ok
      BY Zenon, <1>t, <2>2, <2>3, <2>5, <3>1, Submitted
    <3>2. CASE ~ok
      BY Zenon, <1>t, <2>2, <2>3, <3>2 DEF Runs
    <3> QED
      BY Zenon, <3>1, <3>2
  <2>8. IF ok THEN gate' = None ELSE gate' = gate
    BY Zenon, <2>2, <2>3, NullAssumption
  <2>9. OneExecution'
    BY <2>2, <2>7 DEF OneExecution, Ends
  <2>10. CoordinatorTypes'
    BY <1>t, <2>1, <2>2, <2>6, <2>7, <2>8 DEF CoordinatorTypes
  <2>11. gate' = state'.active.cmd
    BY <1>0, <2>6, <2>8 DEF NoActive
  <2>12. gate' # None \/ durable' => disk' = state'
    BY Zenon, <1>0, <2>6, <2>8
  <2> QED
    BY Zenon, <2>1, <2>2, <2>9, <2>10, <2>11, <2>12 DEF CoordinatorInv
<1>11. ASSUME NEW id \in Ids, NEW ok \in BOOLEAN, handleResultAck(id, ok)
       PROVE  CoordinatorInv'
  <2> DEFINE s == applyPushResultAck(id)
  <2>1. /\ up /\ persist(s, ok) /\ UNCHANGED <<up, gate, tasks, stage, inbox>>
    BY Zenon, <1>11 DEF handleResultAck, process, work
  <2>2. Saved(s) /\ s.active = state.active
    <3> DEFINE last == CHOOSE i \in PendingOf(id) :
                           \A j \in PendingOf(id) : j <= i
               p == Without(state.pending, {id})
               d == Bounded(Append(Without(state.completed, {id}),
                                   state.pending[last]))
    <3>1. s = [state EXCEPT !.pending = p, !.completed = d]
      BY Zenon DEF applyPushResultAck
    <3> HIDE DEF p, d, s
    <3> QED
      BY Zenon, <1>t, <3>1 DEF Saved
  <2> HIDE DEF s
  <2>3. /\ durable' = ok /\ Saved(state') /\ (disk' # Corrupt => Saved(disk'))
        /\ (ok => disk' = state' /\ state'.active = state.active)
        /\ (~ok => disk' = disk /\ state' = state)
    BY Zenon, <1>0, <2>1, <2>2, Persisted
  <2>4. OneExecution'
    BY Zenon, <1>0, <2>1 DEF OneExecution, Runs, Ends
  <2>5. CoordinatorTypes'
    BY Zenon, <1>t, <1>0, <2>1, <2>3 DEF CoordinatorTypes
  <2> QED
    BY Zenon, <1>0, <2>1, <2>3, <2>4, <2>5 DEF CoordinatorInv
<1>12. CASE Rot
  <2>1. ~up /\ disk' = Corrupt
        /\ UNCHANGED <<up, state, durable, gate, tasks, stage, inbox>>
    BY Zenon, <1>12 DEF Rot, process, work
  <2>2. OneExecution'
    BY Zenon, <1>0, <2>1 DEF OneExecution, Runs, Ends
  <2>3. CoordinatorTypes'
    BY Zenon, <1>0, <2>1 DEF CoordinatorTypes, Saved
  <2> QED
    BY Zenon, <2>1, <2>2, <2>3 DEF CoordinatorInv
<1>13. ASSUME NEW id \in Ids, Age(id) PROVE CoordinatorInv'
  BY Zenon, <1>13, <1>k DEF Age, process
<1>14. CASE Server
  <2>1. ASSUME NEW t \in Sockets,
               attachTransport(t) \/ detachTransport(t) \/ onRegistered(t)
        PROVE  CoordinatorInv'
    BY Zenon, <2>1, <1>a, <1>k
    DEF attachTransport, detachTransport, onRegistered
  <2>2. ASSUME NEW id \in Ids, handleReconcileRequest(id) PROVE CoordinatorInv'
    BY Zenon, <2>2, <1>a DEF handleReconcileRequest
  <2>3. CASE registrationFields
    BY Zenon, <2>3, <1>a DEF registrationFields
  <2> QED
    BY Zenon, <1>14, <1>4, <1>11, <2>1, <2>2, <2>3 DEF Server
<1>15. CASE Worker
  BY Zenon, <1>15, <1>5, <1>6, <1>7 DEF Worker
<1>16. ASSUME NEW ok \in BOOLEAN, Actor(ok) PROVE CoordinatorInv'
  BY Zenon, <1>16, <1>8, <1>9, <1>10
  DEF Actor, onTransferComplete, onApplying, Phases
<1>17. CASE UNCHANGED vars
  BY Zenon, <1>17, StillExecuting DEF vars
<1> QED
  BY Zenon, <1>1, <1>2, <1>12, <1>13, <1>14, <1>15, <1>16, <1>17 DEF Next


\* The executor's inductive invariant holds in every reachable state: one
\* execution at a time, everything queued of it belongs to the command that
\* holds the gate, and while one is held, or saves succeed, memory and file
\* agree.
THEOREM ExecutorInvariance == Spec => []CoordinatorInv
<1>1. Init => CoordinatorInv
  <2> SUFFICES ASSUME Init PROVE CoordinatorInv
    BY Zenon
  <2>1. /\ up = FALSE /\ durable = FALSE /\ gate = None /\ stage = 0
        /\ tasks = <<>> /\ inbox = <<>> /\ state = EmptyState /\ disk = EmptyState
    BY Zenon DEF Init
  <2>2. tasks \in Seq(Task) /\ inbox \in Seq(Callbacks)
    BY <2>1
  <2>3. CoordinatorTypes
    <3>1. Saved(state) /\ Saved(disk)
      BY Zenon, <2>1, EmptySaved
    <3>2. up \in BOOLEAN /\ durable \in BOOLEAN
          /\ gate \in Command \cup {None}
      BY Zenon, <2>1
    <3>3. stage \in 0 .. 3
      BY <2>1
    <3> QED
      BY Zenon, <2>2, <3>1, <3>2, <3>3 DEF CoordinatorTypes
  <2>4. OneExecution
    BY <2>1 DEF OneExecution, Runs, Ends
  <2> QED
    BY <2>1, <2>3, <2>4, EmptySaved DEF CoordinatorInv, NoActive
<1> QED
  BY <1>1, ExecutorStep, PTL DEF Spec

\* In every reachable state at most one execution is between its submission to
\* the worker and the handling of its end (PushExecutionGate.offer, accept and
\* onTerminal), for any jobs, failed saves, late callbacks and restarts.
THEOREM ExecutionIsSingle == Spec => []SingleExecution
<1>1. CoordinatorInv => SingleExecution
  <2> SUFFICES ASSUME CoordinatorInv PROVE SingleExecution
    BY Zenon
  <2>1. OneExecution
    BY Zenon DEF CoordinatorInv
  <2>2. /\ \A i \in Runs : i = Len(tasks)
        /\ \A i \in Ends : i = Len(inbox)
        /\ Runs = {} \/ Ends = {}
    BY Zenon, <2>1 DEF OneExecution
  <2> QED
    BY Zenon, <2>1, <2>2 DEF CoordinatorInv, OneExecution, SingleExecution
<1> QED
  BY <1>1, ExecutorInvariance, PTL

\* Only the answer to a reconcile request reports a job absent.
LEMMA AbsentAnswers ==
    ASSUME CoordinatorInv, Next, NEW m \in sent', m.type = "absent"
    PROVE  \E id \in Ids : /\ handleReconcileRequest(id) /\ m.id = id
                           /\ ~(state.active # NoActive /\ state.active.cmd.id = id)
                           /\ id \notin KnownIds(state)
<1>r. \A r : ResultMsg(r).type = "result"
  BY Zenon DEF ResultMsg, Msg
<1>m. \A t, c, i : Msg(t, c, i).type = t
  BY Zenon DEF Msg
<1>s. ASSUME NEW messages, send(messages) PROVE m \in messages
  BY Zenon, <1>s DEF send
<1>1. ASSUME NEW id \in Ids, handleReconcileRequest(id)
      PROVE  /\ m.id = id
             /\ ~(state.active # NoActive /\ state.active.cmd.id = id)
             /\ id \notin KnownIds(state)
  <2> DEFINE known == {r \in ReceiptsOf(state) : r.cmd.id = id}
             now == state.active # NoActive /\ state.active.cmd.id = id
  <2>1. send(IF now THEN {Msg("active", state.active.cmd, state.active.phase)}
             ELSE IF known # {} THEN {ResultMsg(CHOOSE r \in known : TRUE)}
             ELSE {[type |-> "absent", id |-> id, info |-> None]})
    BY Zenon, <1>1 DEF handleReconcileRequest, Answer
  <2> HIDE DEF known, now
  <2>2. ~now /\ known = {} /\ m = [type |-> "absent", id |-> id, info |-> None]
    BY <1>r, <1>m, <1>s, <2>1
  <2>3. m.id = id
    BY Zenon, <2>2
  <2> QED
    BY Zenon, <2>2, <2>3 DEF known, now, KnownIds
<1>2. ~(\E t \in Sockets :
            attachTransport(t) \/ detachTransport(t) \/ onRegistered(t))
  BY Zenon, <1>r, <1>s
  DEF attachTransport, detachTransport, onRegistered, Answer
<1>3. ASSUME NEW c \in Command, handleCommand(c) PROVE FALSE
  <2>1. ~AnswerFinished(c)
    <3>1. SUFFICES ASSUME AnswerFinished(c) PROVE FALSE
      BY Zenon
    <3>2. PICK r \in Finished(c) :
              send({IF r.cmd = c THEN ResultMsg(r)
                    ELSE Msg("rejected", c, "artifact_identity_mismatch")})
      BY Zenon, <3>1 DEF AnswerFinished, Answer
    <3>3. m \in {IF r.cmd = c THEN ResultMsg(r)
                 ELSE Msg("rejected", c, "artifact_identity_mismatch")}
      BY Zenon, <1>s, <3>2
    <3> QED
      BY <1>r, <1>m, <3>3
  <2>2. ~RefuseUndurable(c)
    BY <1>m, <1>s DEF RefuseUndurable, Answer
  <2>3. ~OfferHeld(c)
    <3>1. SUFFICES ASSUME OfferHeld(c) PROVE FALSE
      BY Zenon
    <3>2. \/ send({Msg("rejected", c, "device_busy")})
          \/ send({Msg("rejected", c, "artifact_identity_mismatch")})
          \/ send({Msg("accepted", c, state.active.phase)})
      BY Zenon, <3>1 DEF OfferHeld, Answer
    <3>3. m.type \in {"rejected", "accepted"}
      BY Zenon, <1>m, <1>s, <3>2
    <3> QED
      BY Zenon, <3>3
  <2>4. \A ok \in BOOLEAN : ~accept(c, ok)
    BY <1>m, <1>s DEF accept
  <2> QED
    BY Zenon, <1>3, <2>1, <2>2, <2>3, <2>4 DEF handleCommand
<1>4. ~registrationFields /\ ~Crash /\ ~Rot /\ ~Worker
  BY <1>m, <1>s
  DEF registrationFields, Answer, Crash, Rot, Worker, WorkerAdvance,
      WorkerClean, WorkerFinish
<1>5. \A id \in Ids, ok \in BOOLEAN : ~handleResultAck(id, ok)
  BY Zenon DEF handleResultAck
<1>6. \A ok \in BOOLEAN : ~Start(ok)
  BY Zenon DEF Start
<1>7. ASSUME NEW kind, NEW phase, NEW ok \in BOOLEAN, setPhase(kind, phase, ok)
      PROVE  FALSE
  BY <1>7, <1>m, <1>s DEF setPhase
<1>8. ~onValidated
  <2>1. SUFFICES ASSUME onValidated PROVE FALSE
    BY Zenon
  <2>2. PICK c : send({}) \/ send({Msg("phase", c, "validating")})
    BY Zenon, <2>1 DEF onValidated
  <2>3. m = Msg("phase", c, "validating")
    BY Zenon, <1>s, <2>2
  <2> QED
    BY <1>m, <2>3
<1>9. \A ok \in BOOLEAN : ~onTerminal(ok)
  BY Zenon, <1>r, <1>s DEF onTerminal
<1>10. \A ok \in BOOLEAN : ~Actor(ok)
  BY Zenon, <1>7, <1>8, <1>9 DEF Actor, onTransferComplete, onApplying
<1>11. \A id \in Ids : ~Age(id)
  BY Zenon DEF Age
<1> QED
  BY Zenon, <1>1, <1>2, <1>3, <1>4, <1>5, <1>6, <1>10, <1>11 DEF Next, Server

\* A job is reported absent only when neither the saved state nor the worker
\* holds anything of it, unless the state could not be saved
\* (handleReconcileRequest): the memory that is looked up is the file, and
\* the execution that runs is the active one.
THEOREM AbsentMeansUnknown == Spec => AbsentIsUnknown
<1> DEFINE Truly ==
        \A m \in sent' : (m.type = "absent" /\ durable') =>
           /\ m.id \notin KnownIds(disk')
           /\ disk'.active # NoActive => disk'.active.cmd.id # m.id
           /\ \A i \in Runs : tasks[i].cmd.id # m.id
<1>1. CoordinatorInv /\ [Next]_vars => [Truly]_vars
  <2> SUFFICES ASSUME CoordinatorInv, Next,
                      NEW m \in sent', m.type = "absent", durable'
               PROVE  /\ m.id \notin KnownIds(disk')
                      /\ disk'.active # NoActive => disk'.active.cmd.id # m.id
                      /\ \A i \in Runs : tasks[i].cmd.id # m.id
    BY Zenon
  <2>1. PICK id \in Ids :
            /\ handleReconcileRequest(id) /\ m.id = id
            /\ ~(state.active # NoActive /\ state.active.cmd.id = id)
            /\ id \notin KnownIds(state)
    BY Zenon, AbsentAnswers
  <2>2. durable' = durable /\ disk' = disk
    BY Zenon, <2>1 DEF handleReconcileRequest, Answer, Keep
  <2>3. disk = state /\ gate = state.active.cmd /\ CoordinatorTypes /\ OneExecution
    BY Zenon, <2>2 DEF CoordinatorInv
  <2>4. ASSUME NEW i \in Runs PROVE tasks[i].cmd.id # m.id
    <3>1. tasks[i].cmd = gate /\ tasks[i] \in Task
      <4>1. i \in 1 .. Len(tasks) /\ tasks \in Seq(Task)
        BY Zenon, <2>3 DEF Runs, CoordinatorTypes
      <4>2. tasks[i].cmd = gate
        BY Zenon, <2>3 DEF OneExecution
      <4> QED
        BY <4>1, <4>2
    <3>2. gate \in Command
      BY Zenon, <3>1 DEF Task
    <3>3. state.active # NoActive
      BY <2>3, <3>2, NullAssumption DEF NoActive
    <3> QED
      BY Zenon, <2>1, <2>3, <3>1, <3>3
  <2> QED
    BY Zenon, <2>1, <2>2, <2>3, <2>4 DEF KnownIds, ReceiptsOf
<1> QED
  BY <1>1, ExecutorInvariance, PTL DEF Spec, AbsentIsUnknown
-----------------------------------------------------------------------------
(* Lists of receipts.                                                      *)

\* The receipts in s are of different jobs.
Distinct(s) == \A i, j \in 1 .. Len(s) : s[i].cmd.id = s[j].cmd.id => i = j

\* A set of numbers that is not empty has a least one: the induction principle
\* of the lemmas on lists, as the library states it for the order of Nat.
LEMMA Least ==
    ASSUME NEW T, T \subseteq Nat, T # {}
    PROVE  \E m \in T : \A k \in T : m <= k
<1> DEFINE R == {p \in Nat \X Nat : p[1] < p[2]}
<1>1. IsWellFoundedOn(R, Nat)
  BY Zenon, NatLessThanWellFounded DEF OpToRel
<1>2. \A k, m \in Nat : <<k, m>> \notin R => m <= k
  OBVIOUS
<1> HIDE DEF R
<1>3. PICK m \in T : \A k \in T : ~(<<k, m>> \in R)
  BY Zenon, <1>1, WFMin
<1> QED
  BY Zenon, <1>2, <1>3

\* filterNot is defined on every list: the prefixes it keeps exist.
LEMMA Filtered ==
    ASSUME NEW S, NEW s \in Seq(S), NEW ids
    PROVE  \E F :
               /\ F = [i \in 0 .. Len(s) |->
                          IF i = 0 THEN <<>>
                          ELSE IF s[i].cmd.id \in ids THEN F[i - 1]
                               ELSE Append(F[i - 1], s[i])]
               /\ Without(s, ids) = F[Len(s)]
<1> DEFINE Is(n, F) == F = [i \in 0 .. n |->
                               IF i = 0 THEN <<>>
                               ELSE IF s[i].cmd.id \in ids THEN F[i - 1]
                                    ELSE Append(F[i - 1], s[i])]
           T == {n \in Nat : ~\E F : Is(n, F)}
<1>0. /\ T \subseteq Nat
      /\ \A n \in Nat : n \notin T <=> \E F : Is(n, F)
  BY Zenon
<1>a. \A n \in Nat : \A F :
          (/\ F = [i \in 0 .. n |-> F[i]]
           /\ \A i \in 0 .. n :
                  F[i] = IF i = 0 THEN <<>>
                         ELSE IF s[i].cmd.id \in ids THEN F[i - 1]
                              ELSE Append(F[i - 1], s[i]))
          => Is(n, F)
  BY SMTT(20)
<1>b. \A n \in Nat : \A F : Is(n, F) =>
          \A i \in 0 .. n :
              F[i] = IF i = 0 THEN <<>>
                     ELSE IF s[i].cmd.id \in ids THEN F[i - 1]
                          ELSE Append(F[i - 1], s[i])
  BY Zenon
<1> HIDE DEF Is, T
<1>1. T = {}
  <2>1. SUFFICES ASSUME T # {} PROVE FALSE
    BY Zenon
  <2>2. PICK m \in T : \A k \in T : m <= k
    BY Zenon, <1>0, <2>1, Least
  <2>3. m # 0
    <3> DEFINE G == [i \in 0 .. 0 |-> <<>>]
    <3>1. Is(0, G)
      BY <1>a
    <3> QED
      BY Zenon, <1>0, <2>2, <3>1
  <2>4. m \in Nat /\ m - 1 \in Nat /\ m - 1 \notin T
    BY <1>0, <2>2, <2>3
  <2>5. PICK F : Is(m - 1, F)
    BY Zenon, <1>0, <2>4
  <2> DEFINE G == [i \in 0 .. m |->
                      IF i < m THEN F[i]
                      ELSE IF s[m].cmd.id \in ids THEN F[m - 1]
                           ELSE Append(F[m - 1], s[m])]
  <2>6. ASSUME NEW i \in 0 .. m
        PROVE  G[i] = IF i = 0 THEN <<>>
                      ELSE IF s[i].cmd.id \in ids THEN G[i - 1]
                           ELSE Append(G[i - 1], s[i])
    <3>1. \A k \in 0 .. m - 1 : k \in 0 .. m /\ k < m /\ G[k] = F[k]
      BY <2>4
    <3>2. CASE i < m
      <4>1. i \in 0 .. m - 1 /\ (i # 0 => i - 1 \in 0 .. m - 1)
        BY <2>4, <3>2
      <4> HIDE DEF G
      <4> QED
        BY <1>b, <2>4, <2>5, <3>1, <4>1
    <3>3. CASE i = m
      <4>1. m - 1 \in 0 .. m - 1 /\ m \in 0 .. m /\ ~(m < m)
        BY <2>4
      <4>2. G[m] = IF s[m].cmd.id \in ids THEN F[m - 1]
                   ELSE Append(F[m - 1], s[m])
        BY Zenon, <4>1
      <4>3. G[m - 1] = F[m - 1]
        BY Zenon, <3>1, <4>1
      <4> HIDE DEF G
      <4> QED
        BY Zenon, <2>3, <3>3, <4>2, <4>3
    <3> QED
      BY <2>4, <3>2, <3>3
  <2>7. G = [i \in 0 .. m |-> G[i]]
    BY Zenon
  <2> HIDE DEF G
  <2>8. Is(m, G)
    BY Zenon, <1>a, <2>4, <2>6, <2>7
  <2> QED
    BY Zenon, <1>0, <2>2, <2>4, <2>8
<1>2. \E F : Is(Len(s), F)
  <2>1. Len(s) \in Nat
    OBVIOUS
  <2> QED
    BY Zenon, <1>0, <1>1, <2>1
<1>3. Without(s, ids) = (CHOOSE F : Is(Len(s), F))[Len(s)]
  BY Zenon DEF Without, Is
<1> QED
  BY Zenon, <1>2, <1>3 DEF Is

\* filterNot keeps exactly the receipts of other jobs, each as often as it was
\* there and a last one as the last.
LEMMA WithoutFacts ==
    ASSUME NEW S, NEW s \in Seq(S), NEW ids
    PROVE  LET w == Without(s, ids)
           IN  /\ w \in Seq(S) /\ Len(w) <= Len(s)
               /\ \A k \in 1 .. Len(w) : w[k].cmd.id \notin ids
                      /\ \E j \in 1 .. Len(s) : w[k] = s[j]
               /\ \A j \in 1 .. Len(s) : s[j].cmd.id \notin ids =>
                      \E k \in 1 .. Len(w) : w[k] = s[j]
               /\ Distinct(s) => Distinct(w)
               /\ (Len(s) > 0 /\ s[Len(s)].cmd.id \notin ids) =>
                      Len(w) > 0 /\ w[Len(w)] = s[Len(s)]
<1> DEFINE Step(F, i) == IF i = 0 THEN <<>>
                         ELSE IF s[i].cmd.id \in ids THEN F[i - 1]
                              ELSE Append(F[i - 1], s[i])
<1>1. PICK F : /\ F = [i \in 0 .. Len(s) |-> Step(F, i)]
               /\ Without(s, ids) = F[Len(s)]
  BY Zenon, Filtered
<1>2. Len(s) \in Nat
  OBVIOUS
<1>3. /\ F[0] = <<>>
      /\ \A i \in 1 .. Len(s) :
             F[i] = IF s[i].cmd.id \in ids THEN F[i - 1] ELSE Append(F[i - 1], s[i])
  <2>1. \A i \in 0 .. Len(s) : F[i] = Step(F, i)
    BY Zenon, <1>1
  <2>2. 0 \in 0 .. Len(s) /\ \A i \in 1 .. Len(s) : i \in 0 .. Len(s) /\ i # 0
    BY <1>2
  <2> QED
    BY Zenon, <2>1, <2>2
<1> HIDE DEF Step
<1> DEFINE Kept(n, w) ==
              /\ w \in Seq(S) /\ Len(w) <= n
              /\ \A k \in 1 .. Len(w) : w[k].cmd.id \notin ids
                     /\ \E j \in 1 .. n : w[k] = s[j]
              /\ \A j \in 1 .. n : s[j].cmd.id \notin ids =>
                     \E k \in 1 .. Len(w) : w[k] = s[j]
              /\ Distinct(s) => Distinct(w)
           T == {n \in Nat : n <= Len(s) /\ ~Kept(n, F[n])}
<1>0. T \subseteq Nat
      /\ \A n \in Nat : n \in T <=> n <= Len(s) /\ ~Kept(n, F[n])
  BY Zenon
<1> HIDE DEF T
<1>4. Kept(0, F[0])
  BY <1>3, NoQueue DEF Distinct
<1>5. ASSUME NEW n \in 1 .. Len(s), Kept(n - 1, F[n - 1])
      PROVE  Kept(n, F[n])
  <2> DEFINE v == F[n - 1]
             w == F[n]
  <2>0. /\ v \in Seq(S) /\ Len(v) \in Nat /\ Len(v) <= n - 1
        /\ \A k \in 1 .. Len(v) : v[k].cmd.id \notin ids
               /\ \E j \in 1 .. n - 1 : v[k] = s[j]
        /\ \A j \in 1 .. n - 1 : s[j].cmd.id \notin ids =>
               \E k \in 1 .. Len(v) : v[k] = s[j]
        /\ Distinct(s) => Distinct(v)
        /\ s[n] \in S
    <3>1. s[n] \in S
      BY <1>2
    <3>2. v \in Seq(S)
      BY Zenon, <1>5
    <3>3. Len(v) \in Nat
      BY <3>2
    <3> QED
      BY Zenon, <1>5, <3>1, <3>2, <3>3
  <2>1. CASE s[n].cmd.id \in ids
    <3>1. w = v
      BY Zenon, <1>3, <2>1
    <3> HIDE DEF v, w
    <3>2. Len(v) <= n
      BY <1>2, <2>0
    <3>3. \A j \in 1 .. n : j \in 1 .. n - 1 \/ j = n
      BY <1>2
    <3>4. \A j \in 1 .. n - 1 : j \in 1 .. n
      BY <1>2
    <3> QED
      BY Zenon, <2>0, <2>1, <3>1, <3>2, <3>3, <3>4 DEF w
  <2>2. CASE s[n].cmd.id \notin ids
    <3>1. w = Append(v, s[n])
      BY Zenon, <1>3, <2>2
    <3> HIDE DEF v, w
    <3>2. /\ w \in Seq(S) /\ Len(w) = Len(v) + 1
          /\ \A k \in 1 .. Len(v) : w[k] = v[k]
          /\ w[Len(v) + 1] = s[n]
      BY <2>0, <3>1, Enqueue
    <3>3. Len(w) <= n
      BY <2>0, <3>2
    <3>4. ASSUME NEW k \in 1 .. Len(w)
          PROVE  w[k].cmd.id \notin ids /\ \E j \in 1 .. n : w[k] = s[j]
      <4>1. k \in 1 .. Len(v) \/ k = Len(v) + 1
        BY <2>0, <3>2
      <4>2. n \in 1 .. n /\ \A j \in 1 .. n - 1 : j \in 1 .. n
        BY <1>2
      <4> QED
        BY Zenon, <2>0, <2>2, <3>2, <4>1, <4>2
    <3>5. ASSUME NEW j \in 1 .. n, s[j].cmd.id \notin ids
          PROVE  \E k \in 1 .. Len(w) : w[k] = s[j]
      <4>1. j \in 1 .. n - 1 \/ j = n
        BY <1>2
      <4>2. /\ Len(v) + 1 \in 1 .. Len(w)
            /\ \A k \in 1 .. Len(v) : k \in 1 .. Len(w)
        BY <2>0, <3>2
      <4> QED
        BY Zenon, <2>0, <3>2, <3>5, <4>1, <4>2
    <3>6. ASSUME Distinct(s) PROVE Distinct(w)
      <4>1. ASSUME NEW k \in 1 .. Len(v), v[k].cmd.id = s[n].cmd.id PROVE FALSE
        <5>1. PICK j \in 1 .. n - 1 : v[k] = s[j]
          BY Zenon, <2>0
        <5>2. j = n
          BY <1>2, <3>6, <4>1, <5>1 DEF Distinct
        <5> QED
          BY <5>2
      <4>2. Distinct(v)
        BY Zenon, <2>0, <3>6
      <4>3. SUFFICES ASSUME NEW i \in 1 .. Len(w), NEW j \in 1 .. Len(w),
                            w[i].cmd.id = w[j].cmd.id
                     PROVE  i = j
        BY Zenon DEF Distinct
      <4>4. /\ i \in 1 .. Len(v) \/ i = Len(v) + 1
            /\ j \in 1 .. Len(v) \/ j = Len(v) + 1
        BY <2>0, <3>2
      <4> QED
        BY Zenon, <3>2, <4>1, <4>2, <4>3, <4>4 DEF Distinct
    <3> QED
      BY Zenon, <3>2, <3>3, <3>4, <3>5, <3>6 DEF w
  <2> QED
    BY Zenon, <2>1, <2>2
<1> HIDE DEF Kept
<1>6. T = {}
  <2>1. SUFFICES ASSUME T # {} PROVE FALSE
    BY Zenon
  <2>2. PICK m \in T : \A k \in T : m <= k
    BY Zenon, <1>0, <2>1, Least
  <2>3. m \in Nat /\ m <= Len(s) /\ ~Kept(m, F[m])
    BY Zenon, <1>0, <2>2
  <2>4. m # 0
    BY Zenon, <1>4, <2>3
  <2>5. m \in 1 .. Len(s) /\ m - 1 \in Nat /\ m - 1 <= Len(s) /\ m - 1 \notin T
    BY <1>2, <2>2, <2>3, <2>4
  <2>6. Kept(m - 1, F[m - 1])
    BY Zenon, <1>0, <2>5
  <2> QED
    BY Zenon, <1>5, <2>3, <2>5, <2>6
<1>7. Kept(Len(s), Without(s, ids))
  <2>1. Len(s) <= Len(s)
    BY <1>2
  <2> QED
    BY Zenon, <1>0, <1>1, <1>2, <1>6, <2>1
<1>8. ASSUME Len(s) > 0, s[Len(s)].cmd.id \notin ids
      PROVE  LET w == Without(s, ids) IN Len(w) > 0 /\ w[Len(w)] = s[Len(s)]
  <2> DEFINE n == Len(s)
             v == F[n - 1]
  <2>1. n \in 1 .. n /\ n - 1 \in Nat /\ n - 1 <= n
    BY <1>2, <1>8
  <2>2. Without(s, ids) = Append(v, s[n])
    BY Zenon, <1>1, <1>3, <1>8, <2>1
  <2>3. v \in Seq(S)
    BY Zenon, <1>0, <1>6, <2>1 DEF Kept
  <2>4. s[n] \in S
    BY <2>1
  <2> HIDE DEF v, n
  <2> QED
    BY <2>2, <2>3, <2>4, Enqueue DEF n
<1> QED
  BY Zenon, <1>7, <1>8 DEF Kept

\* takeLast keeps the last receipts, all of them while there is room.
LEMMA BoundedFacts ==
    ASSUME NEW S, NEW s \in Seq(S)
    PROVE  LET b == Bounded(s)
           IN  /\ b \in Seq(S)
               /\ Len(s) <= MaxReceipts => b = s
               /\ Len(s) > MaxReceipts => Len(b) = MaxReceipts
               /\ \A k \in 1 .. Len(b) : \E j \in 1 .. Len(s) : b[k] = s[j]
               /\ Distinct(s) => Distinct(b)
               /\ Len(s) > 0 => Len(b) > 0 /\ b[Len(b)] = s[Len(s)]
<1>0. Len(s) \in Nat /\ MaxReceipts \in Nat /\ MaxReceipts # 0
  BY ReceiptsAssumption
<1>1. CASE Len(s) <= MaxReceipts
  <2>1. Bounded(s) = s
    BY <1>0, <1>1 DEF Bounded
  <2> QED
    BY <1>0, <1>1, <2>1
<1>2. CASE Len(s) > MaxReceipts
  <2> DEFINE d == Len(s) - MaxReceipts
             b == Bounded(s)
  <2>1. b = SubSeq(s, d + 1, Len(s))
    BY Zenon, <1>0, <1>2 DEF Bounded, TakeLast
  <2>2. d \in Nat /\ d + MaxReceipts = Len(s)
    BY <1>0, <1>2
  <2> HIDE DEF d, b
  <2>3. b \in Seq(S) /\ Len(b) = MaxReceipts
    BY <1>0, <2>1, <2>2
  <2>4. \A k \in 1 .. MaxReceipts : b[k] = s[k + d] /\ k + d \in 1 .. Len(s)
    BY <1>0, <2>1, <2>2
  <2>5. Distinct(s) => Distinct(b)
    BY <1>0, <2>2, <2>3, <2>4 DEF Distinct
  <2> QED
    BY <1>0, <1>2, <2>2, <2>3, <2>4, <2>5 DEF b
<1> QED
  BY <1>0, <1>1, <1>2

\* The receipts of a list.
LEMMA RangeIs ==
    ASSUME NEW S, NEW q \in Seq(S)
    PROVE  /\ Range(q) \subseteq S
           /\ \A r : r \in Range(q) <=> \E i \in 1 .. Len(q) : q[i] = r
<1>1. \A r : r \in Range(q) <=> \E i \in 1 .. Len(q) : q[i] = r
  <2>1. DOMAIN q = 1 .. Len(q)
    OBVIOUS
  <2> QED
    BY Zenon, <2>1 DEF Range
<1>2. \A i \in 1 .. Len(q) : q[i] \in S
  OBVIOUS
<1> QED
  BY Zenon, <1>1, <1>2

\* The receipts filterNot keeps.
LEMMA WithoutRange ==
    ASSUME NEW S, NEW s \in Seq(S), NEW ids
    PROVE  Range(Without(s, ids)) = {r \in Range(s) : r.cmd.id \notin ids}
<1> DEFINE w == Without(s, ids)
<1>1. /\ w \in Seq(S)
      /\ \A k \in 1 .. Len(w) : w[k].cmd.id \notin ids
             /\ \E j \in 1 .. Len(s) : w[k] = s[j]
      /\ \A j \in 1 .. Len(s) : s[j].cmd.id \notin ids =>
             \E k \in 1 .. Len(w) : w[k] = s[j]
  BY WithoutFacts
<1> HIDE DEF w
<1>2. \A r : r \in Range(w) <=> \E i \in 1 .. Len(w) : w[i] = r
  BY Zenon, <1>1, RangeIs
<1>3. \A r : r \in Range(s) <=> \E i \in 1 .. Len(s) : s[i] = r
  BY Zenon, RangeIs
<1>4. \A r : r \in Range(w) <=> r \in Range(s) /\ r.cmd.id \notin ids
  BY Zenon, <1>1, <1>2, <1>3
<1> QED
  BY Zenon, <1>4 DEF w

\* The receipts takeLast keeps: the last one always.
LEMMA BoundedRange ==
    ASSUME NEW S, NEW s \in Seq(S)
    PROVE  /\ Range(Bounded(s)) \subseteq Range(s)
           /\ Len(s) > 0 => s[Len(s)] \in Range(Bounded(s))
<1> DEFINE b == Bounded(s)
<1>1. /\ b \in Seq(S)
      /\ \A k \in 1 .. Len(b) : \E j \in 1 .. Len(s) : b[k] = s[j]
      /\ Len(s) > 0 => Len(b) > 0 /\ b[Len(b)] = s[Len(s)]
  BY Zenon, BoundedFacts
<1> HIDE DEF b
<1>2. \A r : r \in Range(b) <=> \E i \in 1 .. Len(b) : b[i] = r
  BY Zenon, <1>1, RangeIs
<1>3. \A r : r \in Range(s) <=> \E i \in 1 .. Len(s) : s[i] = r
  BY Zenon, RangeIs
<1>4. Len(b) > 0 => Len(b) \in 1 .. Len(b)
  BY <1>1
<1>5. Range(b) \subseteq Range(s)
  BY Zenon, <1>1, <1>2, <1>3
<1>6. Len(s) > 0 => s[Len(s)] \in Range(b)
  BY Zenon, <1>1, <1>2, <1>4
<1> QED
  BY Zenon, <1>5, <1>6 DEF b

\* A receipt added at the end of a list.
LEMMA Appended ==
    ASSUME NEW S, NEW q \in Seq(S), NEW e \in S
    PROVE  /\ Append(q, e) \in Seq(S) /\ Len(Append(q, e)) = Len(q) + 1
           /\ Append(q, e)[Len(Append(q, e))] = e
           /\ Range(Append(q, e)) = Range(q) \cup {e}
           /\ (Distinct(q) /\ \A r \in Range(q) : r.cmd.id # e.cmd.id)
                  => Distinct(Append(q, e))
<1> DEFINE a == Append(q, e)
<1>1. /\ a \in Seq(S) /\ Len(a) = Len(q) + 1
      /\ \A i \in 1 .. Len(q) : a[i] = q[i]
      /\ a[Len(q) + 1] = e
  BY Zenon, Enqueue
<1> HIDE DEF a
<1>2. \A r : r \in Range(a) <=> \E i \in 1 .. Len(a) : a[i] = r
  BY Zenon, <1>1, RangeIs
<1>3. \A r : r \in Range(q) <=> \E i \in 1 .. Len(q) : q[i] = r
  BY Zenon, RangeIs
<1>4. /\ \A i \in 1 .. Len(a) : i \in 1 .. Len(q) \/ i = Len(q) + 1
      /\ \A i \in 1 .. Len(q) : i \in 1 .. Len(a)
      /\ Len(q) + 1 \in 1 .. Len(a)
  BY <1>1
<1>5. \A r : r \in Range(a) <=> r \in Range(q) \/ r = e
  BY Zenon, <1>1, <1>2, <1>3, <1>4
<1>6. ASSUME Distinct(q), \A r \in Range(q) : r.cmd.id # e.cmd.id
      PROVE  Distinct(a)
  <2>1. \A i \in 1 .. Len(q) : a[i] = q[i] /\ q[i].cmd.id # e.cmd.id
    BY Zenon, <1>1, <1>3, <1>6
  <2>2. ASSUME NEW i \in 1 .. Len(a), NEW j \in 1 .. Len(a),
               a[i].cmd.id = a[j].cmd.id
        PROVE  i = j
    <3>1. CASE i \in 1 .. Len(q) /\ j \in 1 .. Len(q)
      BY Zenon, <1>6, <2>1, <2>2, <3>1 DEF Distinct
    <3>2. CASE i = Len(q) + 1 /\ j \in 1 .. Len(q)
      BY Zenon, <1>1, <2>1, <2>2, <3>2
    <3>3. CASE i \in 1 .. Len(q) /\ j = Len(q) + 1
      BY Zenon, <1>1, <2>1, <2>2, <3>3
    <3> QED
      BY Zenon, <1>4, <3>1, <3>2, <3>3
  <2> QED
    BY Zenon, <2>2 DEF Distinct
<1>7. Range(a) = Range(q) \cup {e}
  BY Zenon, <1>5
<1> QED
  BY Zenon, <1>1, <1>6, <1>7 DEF a

-----------------------------------------------------------------------------
(* The receipts (PushJobStore.kt, applyPushResultAckToState).              *)

\* A state that may be saved: the outbox holds at most one receipt of a job,
\* and none of the job that is active.
Stored(s) ==
    /\ s \in State
    /\ Distinct(s.pending)
    /\ \A r \in Range(s.pending) : r.cmd.id \in Ids
    /\ (s.active # NoActive /\ isJobV1(s.active.cmd)) =>
           s.active.cmd.id \notin KnownIds(s)

\* The job is the active one, or its result is in the outbox.
ActiveIs(s, id) == s.active.cmd # None /\ s.active.cmd.id = id
PendingIs(s, id) == \E r \in Range(s.pending) : r.cmd.id = id

\* A job of d that s does not know is too old, or there is no room for it.
Retained(d, s) ==
    \A id \in KnownIds(d) \ KnownIds(s) :
        \/ id \in expired
        \/ Len(s.pending) >= MaxReceipts \/ Len(s.completed) >= MaxReceipts

\* The parts of a state.
LEMMA StoredParts ==
    ASSUME NEW s, Stored(s)
    PROVE  /\ s = [active |-> s.active, pending |-> s.pending,
                   completed |-> s.completed]
           /\ s.active \in Active /\ Saved(s)
           /\ s.pending \in Seq(Receipt) /\ s.completed \in Seq(Receipt)
           /\ Range(s.pending) \subseteq Receipt
           /\ Range(s.completed) \subseteq Receipt
<1>1. /\ s = [active |-> s.active, pending |-> s.pending,
              completed |-> s.completed]
      /\ s.active \in Active
      /\ s.pending \in Seq(Receipt) /\ s.completed \in Seq(Receipt)
  <2>1. s \in State
    BY Zenon DEF Stored
  <2> QED
    BY Zenon, <2>1 DEF State, Active
<1> QED
  BY Zenon, <1>1, RangeIs DEF Saved

\* What makes a state of its parts.
LEMMA StoredRecord ==
    ASSUME NEW a \in Active, NEW p \in Seq(Receipt), NEW c \in Seq(Receipt),
           Distinct(p), \A r \in Range(p) : r.cmd.id \in Ids,
           (a # NoActive /\ isJobV1(a.cmd)) =>
               \A r \in Range(p) \cup Range(c) : r.cmd.id # a.cmd.id
    PROVE  Stored([active |-> a, pending |-> p, completed |-> c])
<1> DEFINE s == [active |-> a, pending |-> p, completed |-> c]
<1>1. s.active = a /\ s.pending = p /\ s.completed = c
  BY Zenon
<1>2. s \in State
  BY Zenon DEF State, Active
<1> HIDE DEF s
<1>3. Stored(s)
  BY Zenon, <1>1, <1>2 DEF Stored, KnownIds, ReceiptsOf
<1> QED
  BY Zenon, <1>3 DEF s

\* normalizePushState: the active record stays, the last receipt of the outbox
\* stays, and the last of the others unless it is too old; a job goes only
\* when it is too old or there is no room.
LEMMA NormalFacts ==
    ASSUME NEW s, Stored(s)
    PROVE  LET n == normalizePushState(s)
           IN  /\ Stored(n) /\ n.active = s.active
               /\ Range(n.pending) \subseteq Range(s.pending)
               /\ Range(n.completed) \subseteq Range(s.completed)
               /\ Len(s.pending) <= MaxReceipts => n.pending = s.pending
               /\ Len(n.pending) <= Len(s.pending)
               /\ Len(n.completed) <= Len(s.completed)
               /\ Len(s.pending) > 0 =>
                      s.pending[Len(s.pending)] \in Range(n.pending)
               /\ (/\ Len(s.completed) > 0
                   /\ s.completed[Len(s.completed)].cmd.id \notin expired) =>
                      s.completed[Len(s.completed)] \in Range(n.completed)
               /\ Retained(s, n)
<1> DEFINE p == Bounded(s.pending)
           w == Without(s.completed, expired)
           c == Bounded(w)
           n == normalizePushState(s)
<1>0. /\ s = [active |-> s.active, pending |-> s.pending,
              completed |-> s.completed]
      /\ s.active \in Active
      /\ s.pending \in Seq(Receipt) /\ s.completed \in Seq(Receipt)
  BY Zenon, StoredParts
<1>1. n = [s EXCEPT !.pending = p, !.completed = c]
  BY Zenon DEF normalizePushState
<1>2. /\ p \in Seq(Receipt)
      /\ Len(s.pending) <= MaxReceipts => p = s.pending
      /\ Len(s.pending) > MaxReceipts => Len(p) = MaxReceipts
      /\ Distinct(s.pending) => Distinct(p)
      /\ Range(p) \subseteq Range(s.pending)
      /\ Len(s.pending) > 0 => s.pending[Len(s.pending)] \in Range(p)
  BY Zenon, <1>0, BoundedFacts, BoundedRange
<1>3. /\ w \in Seq(Receipt) /\ Len(w) <= Len(s.completed)
      /\ (/\ Len(s.completed) > 0
          /\ s.completed[Len(s.completed)].cmd.id \notin expired) =>
             Len(w) > 0 /\ w[Len(w)] = s.completed[Len(s.completed)]
  BY <1>0, WithoutFacts
<1>4. Range(w) = {r \in Range(s.completed) : r.cmd.id \notin expired}
  BY Zenon, <1>0, WithoutRange
<1> HIDE DEF p, w
<1>5. /\ c \in Seq(Receipt)
      /\ Len(w) <= MaxReceipts => c = w
      /\ Len(w) > MaxReceipts => Len(c) = MaxReceipts
      /\ Range(c) \subseteq Range(w)
      /\ Len(w) > 0 => w[Len(w)] \in Range(c)
  BY Zenon, <1>3, BoundedFacts, BoundedRange
<1> HIDE DEF c, n
<1>6. n = [active |-> s.active, pending |-> p, completed |-> c]
  BY Zenon, <1>0, <1>1
<1>7. n.active = s.active /\ n.pending = p /\ n.completed = c
  BY Zenon, <1>6
<1>8. /\ Len(s.pending) \in Nat /\ Len(s.completed) \in Nat /\ Len(w) \in Nat
      /\ MaxReceipts \in Nat
  BY <1>0, <1>3, ReceiptsAssumption
<1>9. Len(p) <= Len(s.pending) /\ Len(c) <= Len(s.completed)
  BY <1>2, <1>3, <1>5, <1>8
<1>10. Stored(n)
  <2>1. Distinct(p) /\ \A r \in Range(p) : r.cmd.id \in Ids
    BY Zenon, <1>2 DEF Stored
  <2>2. ASSUME s.active # NoActive, isJobV1(s.active.cmd),
               NEW r \in Range(p) \cup Range(c)
        PROVE  r.cmd.id # s.active.cmd.id
    <3>1. r \in ReceiptsOf(s)
      BY Zenon, <1>2, <1>4, <1>5 DEF ReceiptsOf
    <3> QED
      BY Zenon, <2>2, <3>1 DEF Stored, KnownIds
  <2> QED
    BY Zenon, <1>0, <1>2, <1>5, <1>6, <2>1, <2>2, StoredRecord
<1>11. Retained(s, n)
  <2>1. SUFFICES ASSUME NEW r \in ReceiptsOf(s), r.cmd.id \notin KnownIds(n),
                        r.cmd.id \notin expired
                 PROVE  Len(p) >= MaxReceipts \/ Len(c) >= MaxReceipts
    BY Zenon, <1>7 DEF Retained, KnownIds
  <2>2. r \notin Range(p) /\ r \notin Range(c)
    BY Zenon, <1>7, <2>1 DEF KnownIds, ReceiptsOf
  <2>3. CASE r \in Range(s.pending)
    BY <1>2, <1>8, <2>2, <2>3
  <2>4. CASE r \in Range(s.completed)
    <3>1. r \in Range(w)
      BY Zenon, <1>4, <2>1, <2>4
    <3> QED
      BY <1>5, <1>8, <2>2, <3>1
  <2> QED
    BY Zenon, <2>1, <2>3, <2>4 DEF ReceiptsOf
<1>12. Range(c) \subseteq Range(s.completed)
  BY Zenon, <1>4, <1>5
<1>13. (/\ Len(s.completed) > 0
        /\ s.completed[Len(s.completed)].cmd.id \notin expired) =>
           s.completed[Len(s.completed)] \in Range(c)
  BY Zenon, <1>3, <1>5
<1> QED
  BY Zenon, <1>2, <1>7, <1>9, <1>10, <1>11, <1>12, <1>13 DEF n

\* The state s with the receipt r of its active execution filed.
FiledIn(s, r) ==
    [active |-> NoActive,
     pending |-> IF isJobV1(r.cmd) THEN Append(s.pending, r) ELSE s.pending,
     completed |-> Bounded(Append(s.completed, r))]

\* Filing a receipt (onTerminal, recover) leaves the outbox with it at the end,
\* and a job that goes makes room for it.
LEMMA FiledFacts ==
    ASSUME NEW s, Stored(s), s.active # NoActive,
           NEW r \in Receipt, r.cmd = s.active.cmd
    PROVE  LET f == FiledIn(s, r)
           IN  /\ Stored(f) /\ f.active = NoActive
               /\ Range(s.pending) \subseteq Range(f.pending)
               /\ isJobV1(r.cmd) => /\ r \in Range(f.pending) /\ Len(f.pending) > 0
                                    /\ f.pending[Len(f.pending)] = r
               /\ Len(f.completed) > 0 /\ f.completed[Len(f.completed)] = r
               /\ Len(s.pending) >= MaxReceipts => Len(f.pending) >= MaxReceipts
               /\ Len(s.completed) >= MaxReceipts => Len(f.completed) >= MaxReceipts
               /\ Retained(s, f)
<1> DEFINE ap == Append(s.pending, r)
           p == IF isJobV1(r.cmd) THEN ap ELSE s.pending
           ac == Append(s.completed, r)
           c == Bounded(ac)
           f == FiledIn(s, r)
<1>0. /\ s.active \in Active
      /\ s.pending \in Seq(Receipt) /\ s.completed \in Seq(Receipt)
  BY Zenon, StoredParts
<1>1. f = [active |-> NoActive, pending |-> p, completed |-> c]
  BY Zenon DEF FiledIn
<1>2. /\ ap \in Seq(Receipt) /\ Len(ap) = Len(s.pending) + 1 /\ ap[Len(ap)] = r
      /\ Range(ap) = Range(s.pending) \cup {r}
      /\ (Distinct(s.pending) /\ \A x \in Range(s.pending) : x.cmd.id # r.cmd.id)
             => Distinct(ap)
  BY <1>0, Appended
<1>3. /\ ac \in Seq(Receipt) /\ Len(ac) = Len(s.completed) + 1
      /\ ac[Len(ac)] = r
      /\ Range(ac) = Range(s.completed) \cup {r}
  BY <1>0, Appended
<1>4. /\ Len(s.pending) \in Nat /\ Len(s.completed) \in Nat
      /\ MaxReceipts \in Nat
  BY <1>0, ReceiptsAssumption
<1> HIDE DEF ap, ac
<1>5. /\ c \in Seq(Receipt)
      /\ Len(ac) <= MaxReceipts => c = ac
      /\ Len(ac) > MaxReceipts => Len(c) = MaxReceipts
      /\ Len(ac) > 0 => Len(c) > 0 /\ c[Len(c)] = ac[Len(ac)]
  BY Zenon, <1>3, BoundedFacts
<1>6. Range(c) \subseteq Range(ac)
  BY Zenon, <1>3, BoundedRange
<1>7. Len(c) > 0 /\ c[Len(c)] = r
  BY <1>3, <1>4, <1>5
<1>8. Len(s.completed) >= MaxReceipts => Len(c) >= MaxReceipts
  BY <1>3, <1>4, <1>5
<1>9. Len(s.pending) >= MaxReceipts => Len(p) >= MaxReceipts
  BY <1>2, <1>4
<1>10. Range(s.pending) \subseteq Range(p) /\ p \in Seq(Receipt)
  BY Zenon, <1>0, <1>2
<1>11. isJobV1(r.cmd) => r \in Range(p) /\ Len(p) > 0 /\ p[Len(p)] = r
  BY <1>2, <1>4
<1>12. Distinct(p) /\ \A x \in Range(p) : x.cmd.id \in Ids
  <2>0. Distinct(s.pending) /\ \A x \in Range(s.pending) : x.cmd.id \in Ids
    BY Zenon DEF Stored
  <2>1. CASE isJobV1(r.cmd)
    <3>1. \A x \in Range(s.pending) : x.cmd.id # r.cmd.id
      BY Zenon, <2>1 DEF Stored, KnownIds, ReceiptsOf
    <3>2. r.cmd.id \in Ids
      BY Zenon, <2>1 DEF Receipt, Command, isJobV1
    <3> QED
      BY Zenon, <1>2, <2>0, <2>1, <3>1, <3>2
  <2>2. CASE ~isJobV1(r.cmd)
    BY Zenon, <2>0, <2>2
  <2> QED
    BY Zenon, <2>1, <2>2
<1> HIDE DEF p, c, f
<1>13. f.active = NoActive /\ f.pending = p /\ f.completed = c
  BY <1>1
<1>14. Stored(f)
  <2>1. NoActive \in Active
    BY Zenon DEF Active
  <2> QED
    BY Zenon, <1>1, <1>5, <1>10, <1>12, <2>1, StoredRecord
<1>15. Retained(s, f)
  <2>1. SUFFICES ASSUME NEW x \in ReceiptsOf(s), x.cmd.id \notin KnownIds(f)
                 PROVE  Len(c) >= MaxReceipts
    BY Zenon, <1>13 DEF Retained, KnownIds
  <2>2. x \notin Range(p) /\ x \notin Range(c)
    BY Zenon, <1>13, <2>1 DEF KnownIds, ReceiptsOf
  <2>3. x \in Range(ac)
    BY Zenon, <1>3, <1>10, <2>1, <2>2 DEF ReceiptsOf
  <2> QED
    BY <1>3, <1>4, <1>5, <2>2, <2>3
<1> QED
  BY Zenon, <1>7, <1>8, <1>9, <1>10, <1>11, <1>13, <1>14, <1>15 DEF f

\* applyPushResultAckToState moves the receipt of the job from the outbox to
\* the end of the others, and a job that goes makes room for it.
LEMMA AckFacts ==
    ASSUME Stored(state), NEW id \in Ids, PendingOf(id) # {}
    PROVE  LET a == applyPushResultAck(id)
           IN  /\ Stored(a) /\ a.active = state.active
               /\ \A r \in Range(state.pending) :
                      r.cmd.id # id => r \in Range(a.pending)
               /\ Retained(state, a)
<1> DEFINE last == CHOOSE i \in PendingOf(id) : \A j \in PendingOf(id) : j <= i
           r == state.pending[last]
           p == Without(state.pending, {id})
           w == Without(state.completed, {id})
           aw == Append(w, r)
           c == Bounded(aw)
           a == applyPushResultAck(id)
<1>0. /\ state = [active |-> state.active, pending |-> state.pending,
                  completed |-> state.completed]
      /\ state.active \in Active
      /\ state.pending \in Seq(Receipt) /\ state.completed \in Seq(Receipt)
      /\ Range(state.pending) \subseteq Receipt
  BY Zenon, StoredParts
<1>1. a = [state EXCEPT !.pending = p, !.completed = c]
  BY Zenon DEF applyPushResultAck
<1>2. /\ r \in Range(state.pending) /\ r.cmd.id = id /\ r \in Receipt
  <2>1. PICK i \in PendingOf(id) : TRUE
    BY Zenon
  <2>2. /\ \A j \in PendingOf(id) : /\ j \in 1 .. Len(state.pending)
                                    /\ state.pending[j].cmd.id = id
    BY <1>0 DEF PendingOf
  <2>3. \A j \in PendingOf(id) : j = i
    BY Zenon, <2>2 DEF Stored, Distinct
  <2>4. i <= i
    BY <1>0, <2>2
  <2>5. last \in PendingOf(id)
    BY Zenon, <2>3, <2>4
  <2> QED
    BY Zenon, <1>0, <2>2, <2>5, RangeIs
<1> HIDE DEF last, r
<1>3. p \in Seq(Receipt) /\ (Distinct(state.pending) => Distinct(p))
  BY Zenon, <1>0, WithoutFacts
<1>4. w \in Seq(Receipt)
  BY Zenon, <1>0, WithoutFacts
<1>5. /\ Range(p) = {x \in Range(state.pending) : x.cmd.id \notin {id}}
      /\ Range(w) = {x \in Range(state.completed) : x.cmd.id \notin {id}}
  BY Zenon, <1>0, WithoutRange
<1> HIDE DEF p, w
<1>6. /\ aw \in Seq(Receipt) /\ Len(aw) = Len(w) + 1 /\ aw[Len(aw)] = r
      /\ Range(aw) = Range(w) \cup {r}
  BY <1>2, <1>4, Appended
<1>7. Len(w) \in Nat /\ MaxReceipts \in Nat
  BY <1>4, ReceiptsAssumption
<1> HIDE DEF aw
<1>8. /\ c \in Seq(Receipt)
      /\ Len(aw) <= MaxReceipts => c = aw
      /\ Len(aw) > MaxReceipts => Len(c) = MaxReceipts
  BY Zenon, <1>6, BoundedFacts
<1>9. /\ Range(c) \subseteq Range(aw)
      /\ Len(aw) > 0 => aw[Len(aw)] \in Range(c)
  BY Zenon, <1>6, BoundedRange
<1>10. r \in Range(c)
  BY <1>6, <1>7, <1>9
<1> HIDE DEF c, a
<1>11. a = [active |-> state.active, pending |-> p, completed |-> c]
  BY Zenon, <1>0, <1>1
<1>12. a.active = state.active /\ a.pending = p /\ a.completed = c
  BY Zenon, <1>11
<1>13. Stored(a)
  <2>1. Distinct(p) /\ \A x \in Range(p) : x.cmd.id \in Ids
    BY Zenon, <1>3, <1>5 DEF Stored
  <2>2. ASSUME state.active # NoActive, isJobV1(state.active.cmd),
               NEW x \in Range(p) \cup Range(c)
        PROVE  x.cmd.id # state.active.cmd.id
    <3>1. x \in ReceiptsOf(state)
      BY Zenon, <1>2, <1>5, <1>6, <1>9 DEF ReceiptsOf
    <3> QED
      BY Zenon, <2>2, <3>1 DEF Stored, KnownIds
  <2> QED
    BY Zenon, <1>0, <1>3, <1>8, <1>11, <2>1, <2>2, StoredRecord
<1>14. Retained(state, a)
  <2>1. SUFFICES ASSUME NEW x \in ReceiptsOf(state), x.cmd.id \notin KnownIds(a)
                 PROVE  Len(c) >= MaxReceipts
    BY Zenon, <1>12 DEF Retained, KnownIds
  <2>2. x \notin Range(p) /\ x \notin Range(c) /\ x.cmd.id # id
    BY Zenon, <1>2, <1>10, <1>12, <2>1 DEF KnownIds, ReceiptsOf
  <2>3. x \in Range(aw)
    BY Zenon, <1>5, <1>6, <2>1, <2>2 DEF ReceiptsOf
  <2> QED
    BY <1>6, <1>7, <1>8, <2>2, <2>3
<1>15. \A x \in Range(state.pending) : x.cmd.id # id => x \in Range(a.pending)
  BY Zenon, <1>5, <1>12
<1> QED
  BY Zenon, <1>12, <1>13, <1>14, <1>15 DEF a

\* The outbox has room for every job.
Room == IsFiniteSet(Ids) /\ Cardinality(Ids) <= MaxReceipts

\* What the reports and the executions rest on: memory is the file or, after a
\* failed start, empty; a job that is not forgotten was submitted at most once,
\* and then the file still knows it.
ReceiptInv ==
    /\ starts \in [Ids -> Nat] /\ expired \subseteq Ids
    /\ Stored(state) /\ (disk # Corrupt => Stored(disk))
    /\ state = EmptyState \/ state = disk
    /\ disk = Corrupt => Ids \subseteq forgotten
    /\ \A id \in Ids \ forgotten :
           \/ starts[id] = 0
           \/ starts[id] = 1 /\ (ActiveIs(disk, id) \/ id \in KnownIds(disk))
    /\ Room => \A id \in Ids \ forgotten :
                   (starts[id] > 0 /\ id \notin settled) =>
                       ActiveIs(disk, id) \/ PendingIs(disk, id)

\* An outbox with one receipt for each job is never bounded.
LEMMA RoomFits ==
    ASSUME Room, NEW s, Stored(s)
    PROVE  Len(s.pending) <= MaxReceipts
<1> DEFINE n == Len(s.pending)
           f == [i \in 1 .. n |-> s.pending[i].cmd.id]
<1>1. s.pending \in Seq(Receipt)
  BY Zenon, StoredParts
<1>2. n \in Nat
  BY <1>1
<1>3. \A i \in 1 .. n : s.pending[i].cmd.id \in Ids
  BY Zenon, <1>1, RangeIs DEF Stored
<1>4. f \in [1 .. n -> Ids]
  BY Zenon, <1>3
<1>5. \A i, j \in 1 .. n : f[i] = f[j] => i = j
  BY Zenon DEF Stored, Distinct
<1> DEFINE D == 1 .. n
<1>6. IsFiniteSet(D) /\ Cardinality(D) = n
  BY <1>2, FS_Interval
<1>7. Cardinality(Ids) \in Nat /\ IsFiniteSet(Ids)
  BY Zenon, FS_CardinalityType DEF Room
<1>8. f \in [D -> Ids] /\ \A i, j \in D : f[i] = f[j] => i = j
  BY Zenon, <1>4, <1>5
<1> HIDE DEF f, n, D
<1>9. ~(Cardinality(Ids) < Cardinality(D))
  BY <1>6, <1>7, <1>8, FS_PigeonHole
<1> QED
  BY <1>2, <1>6, <1>7, <1>9, ReceiptsAssumption DEF Room, n

\* The state s may be saved in place of the file: the active job is active in
\* it or at the end of its outbox, and the outbox loses only settled jobs.
Succeeds(s) ==
    /\ Stored(s)
    /\ disk # Corrupt =>
           /\ Retained(disk, s)
           /\ \A id \in Ids : ActiveIs(disk, id) =>
                  \/ ActiveIs(s, id)
                  \/ /\ Len(s.pending) > 0
                     /\ s.pending[Len(s.pending)].cmd.id = id
           /\ Room => \A id \in Ids : PendingIs(disk, id) =>
                          PendingIs(s, id) \/ id \in settled'

\* A file that was written is readable.
LEMMA StoredIsReadable ==
    ASSUME NEW s, Stored(s)
    PROVE  s # Corrupt
  BY Zenon, FileAssumption DEF Stored

\* persist keeps what the file says of every job that it does not forget.
LEMMA SaveKeeps ==
    ASSUME ReceiptInv, NEW s, Succeeds(s), NEW ok \in BOOLEAN, persist(s, ok)
    PROVE  /\ Stored(state') /\ (disk' # Corrupt => Stored(disk'))
           /\ state' = EmptyState \/ state' = disk'
           /\ disk' = Corrupt => Ids \subseteq forgotten'
           /\ forgotten \subseteq forgotten'
           /\ ok => disk' = state' /\ state'.active = s.active
           /\ \A id \in Ids \ forgotten' :
                  (ActiveIs(disk, id) \/ id \in KnownIds(disk)) =>
                      ActiveIs(disk', id) \/ id \in KnownIds(disk')
           /\ Room => \A id \in Ids \ forgotten' : id \notin settled' =>
                  ((ActiveIs(disk, id) \/ PendingIs(disk, id)) =>
                       ActiveIs(disk', id) \/ PendingIs(disk', id))
<1>1. CASE ~ok
  <2>1. disk' = disk /\ state' = state /\ forgotten' = forgotten
    BY Zenon, <1>1 DEF persist
  <2> QED
    BY Zenon, <1>1, <2>1
    DEF ReceiptInv, ActiveIs, PendingIs, KnownIds, ReceiptsOf
<1>2. CASE ok
  <2> DEFINE n == normalizePushState(s)
  <2>1. disk' = n /\ state' = n /\ forgotten' = forgotten \cup Evicted(s)
    BY Zenon, <1>2 DEF persist
  <2>2. Stored(s)
    BY Zenon DEF Succeeds
  <2>3. /\ Stored(n) /\ n.active = s.active
        /\ Range(n.pending) \subseteq Range(s.pending)
        /\ Len(s.pending) <= MaxReceipts => n.pending = s.pending
        /\ Len(n.pending) <= Len(s.pending)
        /\ Len(n.completed) <= Len(s.completed)
        /\ Len(s.pending) > 0 => s.pending[Len(s.pending)] \in Range(n.pending)
        /\ Retained(s, n)
    BY Zenon, <2>2, NormalFacts
  <2> HIDE DEF n
  <2>4. n # Corrupt
    BY Zenon, <2>3, StoredIsReadable
  <2>5. /\ s.pending \in Seq(Receipt) /\ n.pending \in Seq(Receipt)
        /\ s.completed \in Seq(Receipt) /\ n.completed \in Seq(Receipt)
    BY Zenon, <2>2, <2>3, StoredParts
  <2>6. /\ Len(n.pending) >= MaxReceipts => Len(s.pending) >= MaxReceipts
        /\ Len(n.completed) >= MaxReceipts => Len(s.completed) >= MaxReceipts
    BY <2>3, <2>5, ReceiptsAssumption
  <2>7. ASSUME disk # Corrupt, NEW id \in KnownIds(disk), id \notin KnownIds(n)
        PROVE  id \in forgotten'
    <3>1. \/ id \in expired
          \/ Len(s.pending) >= MaxReceipts \/ Len(s.completed) >= MaxReceipts
      BY Zenon, <2>3, <2>6, <2>7 DEF Retained, Succeeds
    <3>2. id \in Evicted(s)
      BY Zenon, <2>7, <3>1 DEF Evicted, n
    <3> QED
      BY Zenon, <2>1, <3>2
  <2>8. ASSUME disk # Corrupt, NEW id \in Ids, ActiveIs(disk, id)
        PROVE  ActiveIs(n, id) \/ (PendingIs(n, id) /\ id \in KnownIds(n))
    BY Zenon, <2>3, <2>8
    DEF Succeeds, ActiveIs, PendingIs, KnownIds, ReceiptsOf
  <2>9. ASSUME Room, disk # Corrupt, NEW id \in Ids, id \notin settled',
               PendingIs(disk, id)
        PROVE  PendingIs(n, id)
    <3>1. n.pending = s.pending
      BY Zenon, <2>2, <2>3, <2>9, RoomFits
    <3> QED
      BY Zenon, <2>9, <3>1 DEF Succeeds, PendingIs
  <2>10. disk = Corrupt => Ids \subseteq forgotten'
    BY Zenon, <2>1 DEF ReceiptInv
  <2>11. state'.active = s.active /\ Stored(state') /\ Stored(disk')
    BY Zenon, <2>1, <2>3
  <2>12. \A id : /\ ActiveIs(disk', id) <=> ActiveIs(n, id)
                 /\ PendingIs(disk', id) <=> PendingIs(n, id)
                 /\ id \in KnownIds(disk') <=> id \in KnownIds(n)
    BY Zenon, <2>1 DEF ActiveIs, PendingIs, KnownIds, ReceiptsOf
  <2>13. \A id \in Ids \ forgotten' :
             (ActiveIs(disk, id) \/ id \in KnownIds(disk)) =>
                 ActiveIs(disk', id) \/ id \in KnownIds(disk')
    BY Zenon, <2>7, <2>8, <2>10, <2>12
  <2>14. Room => \A id \in Ids \ forgotten' : id \notin settled' =>
             ((ActiveIs(disk, id) \/ PendingIs(disk, id)) =>
                  ActiveIs(disk', id) \/ PendingIs(disk', id))
    BY Zenon, <2>8, <2>9, <2>10, <2>12
  <2> QED
    BY Zenon, <2>1, <2>4, <2>11, <2>13, <2>14
<1> QED
  BY Zenon, <1>1, <1>2

\* A handler that saves such a state and submits nothing keeps the invariant.
LEMMA SaveInv ==
    ASSUME ReceiptInv, NEW s, Succeeds(s), NEW ok \in BOOLEAN, persist(s, ok),
           starts' = starts, expired' = expired, settled \subseteq settled'
    PROVE  ReceiptInv'
<1>1. /\ Stored(state') /\ (disk' # Corrupt => Stored(disk'))
      /\ state' = EmptyState \/ state' = disk'
      /\ disk' = Corrupt => Ids \subseteq forgotten'
      /\ forgotten \subseteq forgotten'
      /\ \A id \in Ids \ forgotten' :
             (ActiveIs(disk, id) \/ id \in KnownIds(disk)) =>
                 ActiveIs(disk', id) \/ id \in KnownIds(disk')
      /\ Room => \A id \in Ids \ forgotten' : id \notin settled' =>
             ((ActiveIs(disk, id) \/ PendingIs(disk, id)) =>
                  ActiveIs(disk', id) \/ PendingIs(disk', id))
  BY Zenon, SaveKeeps
<1>2. /\ starts' \in [Ids -> Nat] /\ expired' \subseteq Ids
  BY Zenon DEF ReceiptInv
<1>3. \A id \in Ids \ forgotten' :
          \/ starts'[id] = 0
          \/ starts'[id] = 1 /\ (ActiveIs(disk', id) \/ id \in KnownIds(disk'))
  BY Zenon, <1>1 DEF ReceiptInv
<1>4. ASSUME Room
      PROVE  \A id \in Ids \ forgotten' :
                 (starts'[id] > 0 /\ id \notin settled') =>
                     ActiveIs(disk', id) \/ PendingIs(disk', id)
  BY Zenon, <1>1, <1>4 DEF ReceiptInv
<1> QED
  BY Zenon, <1>1, <1>2, <1>3, <1>4
  DEF ReceiptInv, Stored, ActiveIs, PendingIs, KnownIds, ReceiptsOf, Room

\* The empty state may be saved.
LEMMA EmptyStored == Stored(EmptyState)
<1>1. /\ <<>> \in Seq(Receipt) /\ NoActive \in Active
      /\ Distinct(<<>>) /\ Range(<<>>) = {}
  BY NoQueue DEF Distinct, Range, Active
<1> QED
  BY Zenon, <1>1, StoredRecord DEF EmptyState

\* A step that saves nothing and submits nothing keeps the invariant.
LEMMA StillKept ==
    ASSUME ReceiptInv, UNCHANGED <<disk, starts, forgotten>>,
           state' = state \/ state' = EmptyState,
           expired' \subseteq Ids, settled' = settled
    PROVE  ReceiptInv'
<1>1. Stored(EmptyState)
  BY Zenon, EmptyStored
<1>2. Stored(state') /\ (disk' # Corrupt => Stored(disk'))
  BY Zenon, <1>1 DEF ReceiptInv
<1>3. state' = EmptyState \/ state' = disk'
  BY Zenon DEF ReceiptInv
<1> QED
  BY Zenon, <1>2, <1>3
  DEF ReceiptInv, Stored, ActiveIs, PendingIs, KnownIds, ReceiptsOf, Room

\* The state in memory, when something is active or pending in it or saves
\* succeed, is the file.
LEMMA MemoryIsFile ==
    ASSUME CoordinatorInv, ReceiptInv,
           durable \/ state.active # NoActive \/ state.pending # <<>>
    PROVE  disk = state /\ disk # Corrupt /\ Stored(state)
<1>1. Stored(state) /\ (state = EmptyState \/ state = disk)
  BY Zenon DEF ReceiptInv
<1>2. EmptyState.active = NoActive /\ EmptyState.pending = <<>>
  BY Zenon DEF EmptyState
<1>3. durable => disk = state
  BY Zenon DEF CoordinatorInv
<1>4. disk = state
  BY Zenon, <1>1, <1>2, <1>3
<1> QED
  BY Zenon, <1>1, <1>4, StoredIsReadable

\* Another active record for the same receipts: acceptance and phases.
LEMMA Reactivated ==
    ASSUME Stored(state), NEW a \in Active, disk = state, disk # Corrupt,
           (a # NoActive /\ isJobV1(a.cmd)) => a.cmd.id \notin KnownIds(state),
           state.active # NoActive => a.cmd = state.active.cmd
    PROVE  Succeeds([state EXCEPT !.active = a])
<1> DEFINE s == [state EXCEPT !.active = a]
<1>1. /\ state = [active |-> state.active, pending |-> state.pending,
                  completed |-> state.completed]
      /\ state.pending \in Seq(Receipt) /\ state.completed \in Seq(Receipt)
      /\ Saved(state)
  BY Zenon, StoredParts
<1>2. s = [active |-> a, pending |-> state.pending, completed |-> state.completed]
  BY <1>1
<1> HIDE DEF s
<1>3. s.active = a /\ s.pending = state.pending /\ s.completed = state.completed
  BY Zenon, <1>2
<1>4. Stored(s)
  BY Zenon, <1>1, <1>2, StoredRecord DEF Stored, KnownIds, ReceiptsOf
<1>5. KnownIds(s) = KnownIds(state)
  BY Zenon, <1>3 DEF KnownIds, ReceiptsOf
<1>6. Retained(disk, s)
  BY Zenon, <1>5 DEF Retained
<1>7. \A id \in Ids : ActiveIs(disk, id) => ActiveIs(s, id)
  BY Zenon, <1>1, <1>3, ActiveCommand DEF ActiveIs
<1>8. \A id \in Ids : PendingIs(disk, id) => PendingIs(s, id)
  BY Zenon, <1>3 DEF PendingIs
<1> QED
  BY Zenon, <1>4, <1>6, <1>7, <1>8 DEF Succeeds, s

\* The end of the active execution may be saved.
LEMMA FiledSucceeds ==
    ASSUME NEW s, Stored(s), s.active # NoActive,
           NEW r \in Receipt, r.cmd = s.active.cmd,
           disk # Corrupt =>
               /\ Retained(disk, s) /\ disk.active = s.active
               /\ Room => \A id \in Ids : PendingIs(disk, id) => PendingIs(s, id)
    PROVE  Succeeds(FiledIn(s, r))
<1> DEFINE f == FiledIn(s, r)
<1>1. /\ Stored(f) /\ f.active = NoActive
      /\ Range(s.pending) \subseteq Range(f.pending)
      /\ isJobV1(r.cmd) => /\ Len(f.pending) > 0
                           /\ f.pending[Len(f.pending)] = r
      /\ Len(s.pending) >= MaxReceipts => Len(f.pending) >= MaxReceipts
      /\ Len(s.completed) >= MaxReceipts => Len(f.completed) >= MaxReceipts
      /\ Retained(s, f)
  BY Zenon, FiledFacts
<1> HIDE DEF f
<1>2. ASSUME disk # Corrupt PROVE Retained(disk, f)
  BY Zenon, <1>1, <1>2 DEF Retained
<1>3. ASSUME disk # Corrupt, NEW id \in Ids, ActiveIs(disk, id)
      PROVE  Len(f.pending) > 0 /\ f.pending[Len(f.pending)].cmd.id = id
  <2>1. r.cmd.id = id
    BY Zenon, <1>3 DEF ActiveIs
  <2>2. isJobV1(r.cmd)
    BY Zenon, <2>1, <1>3, IdentityAssumption DEF isJobV1
  <2> QED
    BY Zenon, <1>1, <2>1, <2>2
<1>4. ASSUME Room, disk # Corrupt, NEW id \in Ids, PendingIs(disk, id)
      PROVE  PendingIs(f, id)
  BY Zenon, <1>1, <1>4 DEF PendingIs
<1> QED
  BY Zenon, <1>1, <1>2, <1>3, <1>4 DEF Succeeds, f

\* The state that a restart recovers may be saved.
LEMMA RecoveredSucceeds ==
    ASSUME ReceiptInv
    PROVE  Succeeds(recover(load))
<1>1. disk # Corrupt => Stored(disk)
  BY Zenon DEF ReceiptInv
<1>2. /\ Stored(load)
      /\ disk # Corrupt =>
             /\ Retained(disk, load) /\ disk.active = load.active
             /\ Len(disk.pending) <= MaxReceipts => load.pending = disk.pending
  BY Zenon, <1>1, EmptyStored, NormalFacts DEF load
<1>3. ASSUME disk # Corrupt, Room
      PROVE  \A id \in Ids : PendingIs(disk, id) => PendingIs(load, id)
  BY Zenon, <1>1, <1>2, <1>3, RoomFits DEF PendingIs
<1>4. CASE load.active = NoActive
  <2>1. recover(load) = load
    BY Zenon, <1>4 DEF recover
  <2>2. ASSUME disk # Corrupt, NEW id \in Ids PROVE ~ActiveIs(disk, id)
    BY <1>2, <1>4, <2>2 DEF ActiveIs, NoActive
  <2>3. Succeeds(load)
    BY Zenon, <1>2, <1>3, <2>2 DEF Succeeds
  <2> QED
    BY Zenon, <2>1, <2>3
<1>5. CASE load.active # NoActive
  <2> DEFINE r == [cmd |-> load.active.cmd, status |-> "fail"]
  <2>1. recover(load) = FiledIn(load, r)
    BY Zenon, <1>5 DEF recover, FiledIn
  <2>2. load.active.cmd \in Command
    BY Zenon, <1>2, <1>5, StoredParts, ActiveCommand
  <2>3. r \in Receipt /\ r.cmd = load.active.cmd
    BY Zenon, <2>2 DEF Receipt
  <2> HIDE DEF r
  <2>4. Succeeds(FiledIn(load, r))
    BY Zenon, <1>2, <1>3, <1>5, <2>3, FiledSucceeds
  <2> QED
    BY Zenon, <2>1, <2>4
<1> QED
  BY Zenon, <1>4, <1>5

\* Every step keeps what the file says of the jobs.
LEMMA ReceiptStep == CoordinatorInv /\ ReceiptInv /\ [Next]_vars => ReceiptInv'
<1> SUFFICES ASSUME CoordinatorInv, ReceiptInv, [Next]_vars PROVE ReceiptInv'
  BY Zenon
<1>0. /\ starts \in [Ids -> Nat] /\ expired \subseteq Ids
      /\ Stored(state) /\ Saved(state) /\ gate = state.active.cmd
      /\ CoordinatorTypes /\ OneExecution
  BY Zenon, StoredParts DEF ReceiptInv, CoordinatorInv
<1>k. ASSUME Keep, UNCHANGED <<starts, history>> PROVE ReceiptInv'
  BY Zenon, <1>0, <1>k, StillKept DEF Keep, history
<1>a. ASSUME NEW messages, Answer(messages) PROVE ReceiptInv'
  BY Zenon, <1>a, <1>k DEF Answer
<1>1. ASSUME NEW ok \in BOOLEAN, Start(ok) PROVE ReceiptInv'
  <2>1. persist(recover(load), ok) /\ UNCHANGED <<starts, history>>
    BY Zenon, <1>1 DEF Start
  <2> QED
    BY Zenon, <2>1, RecoveredSucceeds, SaveInv DEF history
<1>2. CASE Crash
  BY Zenon, <1>0, <1>2, StillKept DEF Crash
<1>3. CASE Rot
  <2>1. /\ disk' = Corrupt /\ forgotten' = Ids
        /\ UNCHANGED <<state, starts, settled, expired>> /\ ~up
    BY Zenon, <1>3 DEF Rot, history
  <2>2. state' = EmptyState
    BY Zenon, <2>1 DEF CoordinatorInv
  <2>3. Stored(state') /\ starts' \in [Ids -> Nat] /\ expired' \subseteq Ids
    BY Zenon, <1>0, <2>1
  <2> QED
    BY Zenon, <2>1, <2>2, <2>3
    DEF ReceiptInv, Stored, KnownIds, ReceiptsOf, Room
<1>4. ASSUME NEW t \in Sockets,
             attachTransport(t) \/ detachTransport(t) \/ onRegistered(t)
      PROVE  ReceiptInv'
  BY Zenon, <1>4, <1>a, <1>k DEF attachTransport, detachTransport, onRegistered
<1>5. ASSUME NEW c \in Command, handleCommand(c) PROVE ReceiptInv'
  <2>1. CASE AnswerFinished(c) \/ RefuseUndurable(c) \/ OfferHeld(c)
    BY Zenon, <1>a, <2>1 DEF AnswerFinished, RefuseUndurable, OfferHeld
  <2>2. ASSUME NEW ok \in BOOLEAN, accept(c, ok) PROVE ReceiptInv'
    <3> DEFINE a == [cmd |-> c, phase |-> "downloading"]
               s == [state EXCEPT !.active = a]
    <3>1. /\ Finished(c) = {} /\ durable /\ gate = None /\ persist(s, ok)
      BY Zenon, <2>2 DEF accept
    <3>2. a \in Active /\ a.cmd = c
      BY Zenon DEF Active, Phases
    <3> HIDE DEF a
    <3>3. disk = state /\ disk # Corrupt
      BY Zenon, <3>1, MemoryIsFile
    <3>4. state.active = NoActive
      BY Zenon, <1>0, <3>1, ActiveCommand
    <3>5. isJobV1(c) => c.id \notin KnownIds(state)
      BY Zenon, <3>1 DEF Finished, KnownIds
    <3>6. Succeeds(s)
      BY Zenon, <1>0, <3>2, <3>3, <3>4, <3>5, Reactivated
    <3> HIDE DEF s
    <3>7. CASE ~ok
      <4>1. UNCHANGED <<starts, settled, expired>>
        BY Zenon, <2>2, <3>7 DEF accept
      <4> QED
        BY Zenon, <3>1, <3>6, <4>1, SaveInv
    <3>8. CASE ok
      <4>1. /\ starts' = [i \in Ids |-> starts[i] + (IF c.id = i THEN 1 ELSE 0)]
            /\ settled' = settled \ {c.id} /\ expired' = expired \ {c.id}
        BY Zenon, <2>2, <3>8 DEF accept
      <4>2. /\ Stored(state') /\ (disk' # Corrupt => Stored(disk'))
            /\ state' = EmptyState \/ state' = disk'
            /\ disk' = Corrupt => Ids \subseteq forgotten'
            /\ forgotten \subseteq forgotten'
            /\ disk' = state' /\ state'.active = s.active
            /\ \A id \in Ids \ forgotten' :
                   (ActiveIs(disk, id) \/ id \in KnownIds(disk)) =>
                       ActiveIs(disk', id) \/ id \in KnownIds(disk')
            /\ Room => \A id \in Ids \ forgotten' : id \notin settled' =>
                   ((ActiveIs(disk, id) \/ PendingIs(disk, id)) =>
                        ActiveIs(disk', id) \/ PendingIs(disk', id))
        BY Zenon, <3>1, <3>6, <3>8, SaveKeeps
      <4>3. ActiveIs(disk', c.id)
        <5>1. s.active = a
          BY Zenon, <1>0 DEF s, Saved
        <5>2. c # None
          BY Zenon, NullAssumption
        <5> QED
          BY Zenon, <3>2, <4>2, <5>1, <5>2 DEF ActiveIs
      <4>4. ASSUME NEW id \in Ids
            PROVE  /\ starts'[id] \in Nat
                   /\ id # c.id => starts'[id] = starts[id]
                   /\ id = c.id => starts'[id] = starts[id] + 1
        BY <1>0, <4>1
      <4>5. ASSUME c.id \in Ids \ forgotten' PROVE starts[c.id] = 0
        <5>1. isJobV1(c)
          BY Zenon, <4>5, IdentityAssumption DEF isJobV1
        <5>2. ~ActiveIs(disk, c.id)
          BY <3>3, <3>4 DEF ActiveIs, NoActive
        <5>3. c.id \notin KnownIds(disk)
          BY Zenon, <3>3, <3>5, <5>1
        <5> QED
          BY Zenon, <4>2, <4>5, <5>2, <5>3 DEF ReceiptInv
      <4>6. ASSUME NEW id \in Ids \ forgotten'
            PROVE  \/ starts'[id] = 0
                   \/ /\ starts'[id] = 1
                      /\ ActiveIs(disk', id) \/ id \in KnownIds(disk')
        <5>1. CASE id = c.id
          BY <4>3, <4>4, <4>5, <5>1
        <5>2. CASE id # c.id
          BY Zenon, <4>2, <4>4, <5>2 DEF ReceiptInv
        <5> QED
          BY Zenon, <5>1, <5>2
      <4>7. ASSUME Room, NEW id \in Ids \ forgotten',
                   starts'[id] > 0, id \notin settled'
            PROVE  ActiveIs(disk', id) \/ PendingIs(disk', id)
        <5>1. CASE id = c.id
          BY Zenon, <4>3, <5>1
        <5>2. CASE id # c.id
          <6>1. starts[id] > 0 /\ id \notin settled /\ id \in Ids \ forgotten
            BY Zenon, <4>1, <4>2, <4>4, <4>7, <5>2
          <6>2. ActiveIs(disk, id) \/ PendingIs(disk, id)
            BY Zenon, <4>7, <6>1 DEF ReceiptInv
          <6> QED
            BY Zenon, <4>2, <4>7, <6>2
        <5> QED
          BY Zenon, <5>1, <5>2
      <4>8. starts' \in [Ids -> Nat] /\ expired' \subseteq Ids
        BY <1>0, <4>1
      <4> QED
        BY Zenon, <4>2, <4>6, <4>7, <4>8
        DEF ReceiptInv, Stored, ActiveIs, PendingIs, KnownIds, ReceiptsOf, Room
    <3> QED
      BY Zenon, <3>7, <3>8
  <2> QED
    BY Zenon, <1>5, <2>1, <2>2 DEF handleCommand
<1>6. CASE Worker
  BY Zenon, <1>6, <1>k DEF Worker, WorkerAdvance, WorkerClean, WorkerFinish
<1>7. ASSUME NEW kind, NEW phase \in Phases, NEW ok \in BOOLEAN,
             setPhase(kind, phase, ok)
      PROVE  ReceiptInv'
  <2> DEFINE c == Head(inbox).cmd
             s == [state EXCEPT !.active.phase = phase]
             a == [cmd |-> state.active.cmd, phase |-> phase]
  <2>1. UNCHANGED <<starts, history>>
    BY Zenon, <1>7 DEF setPhase
  <2>2. CASE ~isCurrent(c)
    BY Zenon, <1>7, <1>k, <2>1, <2>2 DEF setPhase
  <2>3. CASE isCurrent(c)
    <3>1. persist(s, ok) /\ state.active # NoActive
      BY Zenon, <1>7, <2>3 DEF setPhase, isCurrent
    <3>2. state.active.cmd \in Command /\ disk = state /\ disk # Corrupt
      BY Zenon, <1>0, <3>1, ActiveCommand, MemoryIsFile
    <3>3. a \in Active /\ a.cmd = state.active.cmd
      BY Zenon, <3>2 DEF Active
    <3>4. s = [state EXCEPT !.active = a]
      <4>1. /\ state = [active |-> state.active, pending |-> state.pending,
                        completed |-> state.completed]
            /\ state.active \in [cmd : Command, phase : Phases]
        BY Zenon, <1>0, <3>1 DEF Saved, Active
      <4> QED
        BY <4>1
    <3> HIDE DEF a, s
    <3>5. Succeeds(s)
      <4>1. isJobV1(a.cmd) => a.cmd.id \notin KnownIds(state)
        BY Zenon, <1>0, <3>1, <3>3 DEF Stored
      <4> QED
        BY Zenon, <1>0, <3>2, <3>3, <3>4, <4>1, Reactivated
    <3> QED
      BY Zenon, <2>1, <3>1, <3>5, SaveInv DEF history
  <2> QED
    BY Zenon, <2>2, <2>3
<1>8. CASE onValidated
  BY Zenon, <1>8, <1>k DEF onValidated
<1>9. ASSUME NEW ok \in BOOLEAN, onTerminal(ok) PROVE ReceiptInv'
  <2> DEFINE c == Head(inbox).cmd
             r == [cmd |-> c, status |-> Head(inbox).status]
  <2>1. UNCHANGED <<starts, history>> /\ Receive("terminal")
    BY Zenon, <1>9 DEF onTerminal
  <2>2. CASE ~isCurrent(c)
    BY Zenon, <1>9, <1>k, <2>1, <2>2 DEF onTerminal
  <2>3. CASE isCurrent(c)
    <3>1. persist(Filed(r), ok) /\ state.active # NoActive
      BY Zenon, <1>9, <2>3 DEF onTerminal, isCurrent
    <3>2. /\ Head(inbox) \in Callbacks /\ Head(inbox).kind = "terminal"
          /\ c = gate /\ gate \in Command
      BY Zenon, <1>0, <2>1, Received
    <3>3. r \in Receipt /\ r.cmd = state.active.cmd
      <4>1. Head(inbox).status \in {"success", "fail"}
        BY <3>2 DEF Callbacks
      <4>2. c \in Command /\ c = state.active.cmd
        BY Zenon, <1>0, <3>2
      <4> HIDE DEF c
      <4> QED
        BY Zenon, <4>1, <4>2 DEF Receipt
    <3>4. disk = state /\ disk # Corrupt
      BY Zenon, <3>1, MemoryIsFile
    <3>5. Filed(r) = FiledIn(state, r)
      BY Zenon DEF Filed, FiledIn
    <3> HIDE DEF r
    <3>6. Retained(disk, state)
      BY Zenon, <3>4 DEF Retained
    <3>7. Succeeds(FiledIn(state, r))
      BY Zenon, <1>0, <3>1, <3>3, <3>4, <3>6, FiledSucceeds
    <3> QED
      BY Zenon, <2>1, <3>1, <3>5, <3>7, SaveInv DEF history
  <2> QED
    BY Zenon, <2>2, <2>3
<1>10. ASSUME NEW id \in Ids, NEW ok \in BOOLEAN, handleResultAck(id, ok)
       PROVE  ReceiptInv'
  <2> DEFINE a == applyPushResultAck(id)
  <2>1. /\ PendingOf(id) # {} /\ persist(a, ok)
        /\ settled' = settled \cup {id} /\ UNCHANGED <<starts, expired>>
    BY Zenon, <1>10 DEF handleResultAck
  <2>2. state.pending # <<>>
    BY <2>1 DEF PendingOf
  <2>3. disk = state /\ disk # Corrupt
    BY Zenon, <2>2, MemoryIsFile
  <2>4. /\ Stored(a) /\ a.active = state.active
        /\ \A r \in Range(state.pending) : r.cmd.id # id => r \in Range(a.pending)
        /\ Retained(state, a)
    BY Zenon, <1>0, <2>1, AckFacts
  <2> HIDE DEF a
  <2>5. Succeeds(a)
    <3>1. \A j \in Ids : ActiveIs(disk, j) => ActiveIs(a, j)
      BY Zenon, <2>3, <2>4 DEF ActiveIs
    <3>2. \A j \in Ids : PendingIs(disk, j) => PendingIs(a, j) \/ j \in settled'
      BY Zenon, <2>1, <2>3, <2>4 DEF PendingIs
    <3> QED
      BY Zenon, <2>3, <2>4, <3>1, <3>2 DEF Succeeds
  <2>6. settled \subseteq settled'
    BY Zenon, <2>1
  <2> QED
    BY Zenon, <2>1, <2>5, <2>6, SaveInv
<1>11. ASSUME NEW id \in Ids, handleReconcileRequest(id) PROVE ReceiptInv'
  BY Zenon, <1>11, <1>a DEF handleReconcileRequest
<1>12. CASE registrationFields
  BY Zenon, <1>12, <1>a DEF registrationFields
<1>13. ASSUME NEW id \in Ids, Age(id) PROVE ReceiptInv'
  <2>1. Keep /\ expired' = expired \cup {id} /\ UNCHANGED <<starts, settled>>
    BY Zenon, <1>13 DEF Age
  <2>2. expired' \subseteq Ids
    BY Zenon, <1>0, <2>1
  <2> QED
    BY Zenon, <2>1, <2>2, StillKept DEF Keep
<1>14. CASE UNCHANGED vars
  BY Zenon, <1>14, <1>k DEF vars, Keep, history
<1>15. ASSUME NEW ok \in BOOLEAN, Actor(ok) PROVE ReceiptInv'
  <2>1. "validating" \in Phases /\ "applying" \in Phases
    BY DEF Phases
  <2> QED
    BY Zenon, <1>7, <1>8, <1>9, <1>15, <2>1
    DEF Actor, onTransferComplete, onApplying
<1>16. CASE Server
  BY Zenon, <1>4, <1>5, <1>10, <1>11, <1>12, <1>16 DEF Server
<1> QED
  BY Zenon, <1>1, <1>2, <1>3, <1>6, <1>13, <1>14, <1>15, <1>16 DEF Next

\* The invariant of the receipts, for any jobs, failed saves, lost files, late
\* acknowledgements, retention limits and process deaths.
THEOREM ReceiptInvariance == Spec => []ReceiptInv
<1>1. Init => ReceiptInv
  <2> SUFFICES ASSUME Init PROVE ReceiptInv
    BY Zenon
  <2>1. /\ disk = EmptyState /\ state = EmptyState /\ expired = {}
        /\ starts = [i \in Ids |-> 0]
    BY Zenon DEF Init
  <2>2. starts \in [Ids -> Nat]
        /\ \A id \in Ids : starts[id] = 0 /\ ~(starts[id] > 0)
    BY <2>1
  <2>3. Stored(disk) /\ disk # Corrupt
    BY Zenon, <2>1, EmptyStored, StoredIsReadable
  <2> QED
    BY Zenon, <2>1, <2>2, <2>3 DEF ReceiptInv
<1> QED
  BY <1>1, ReceiptStep, ExecutorInvariance, PTL DEF Spec

\* The result of a job that was submitted is kept in the state file until the
\* server has settled it (accept, onTerminal, recover, handleResultAck), for
\* every set of jobs that the outbox has room for.
THEOREM ResultsAreKept == Spec => []UnsettledIsKept
<1>1. ReceiptInv => UnsettledIsKept
  BY Zenon DEF ReceiptInv, UnsettledIsKept, Room, ActiveIs, PendingIs
<1> QED
  BY <1>1, ReceiptInvariance, PTL

\* A job that was executed is accepted again only after the retention limits,
\* or a lost file, removed its receipts (handleCommand, normalizePushState),
\* for any limit and however the receipts age, are acknowledged or overflow.
THEOREM ExecutedAtMostOnce == Spec => []RerunOnlyForgotten
<1>1. ReceiptInv => RerunOnlyForgotten
  <2> SUFFICES ASSUME ReceiptInv, NEW id \in Ids, starts[id] > 1,
                      id \notin forgotten
               PROVE  FALSE
    BY Zenon DEF RerunOnlyForgotten
  <2>1. starts[id] = 0 \/ starts[id] = 1
    BY Zenon DEF ReceiptInv
  <2> QED
    BY <2>1
<1> QED
  BY <1>1, ReceiptInvariance, PTL

\* When a message says what the file holds.
LEMMA BackedBy ==
    ASSUME NEW d, NEW c
    PROVE  /\ \A r \in ReceiptsOf(d) : Backed(ResultMsg(r), d)
           /\ \A t \in {"accepted", "active", "phase"} :
                  (d.active.cmd # None /\ d.active.cmd.id = c.id) =>
                      Backed(Msg(t, c, d.active.phase), d)
           /\ \A info : Backed(Msg("rejected", c, info), d)
           /\ \A id : Backed([type |-> "absent", id |-> id, info |-> None], d)
<1>1. ASSUME NEW r \in ReceiptsOf(d) PROVE Backed(ResultMsg(r), d)
  BY Zenon DEF Backed, ResultMsg, Msg
<1>2. ASSUME NEW t \in {"accepted", "active", "phase"},
             d.active.cmd # None, d.active.cmd.id = c.id
      PROVE  Backed(Msg(t, c, d.active.phase), d)
  BY Zenon, <1>2 DEF Backed, Msg
<1>3. ASSUME NEW info PROVE Backed(Msg("rejected", c, info), d)
  BY Zenon DEF Backed, Msg
<1>4. ASSUME NEW id PROVE Backed([type |-> "absent", id |-> id, info |-> None], d)
  BY Zenon DEF Backed
<1> QED
  BY Zenon, <1>1, <1>2, <1>3, <1>4

\* Every message a step sends is backed by the file it leaves.
LEMMA SentBacked ==
    ASSUME CoordinatorInv, ReceiptInv, Next, NEW m \in sent'
    PROVE  Backed(m, disk')
<1>0. /\ Stored(state) /\ Saved(state) /\ gate = state.active.cmd
      /\ CoordinatorTypes /\ OneExecution /\ expired \subseteq Ids
      /\ state = EmptyState \/ state = disk
  BY Zenon, StoredParts DEF ReceiptInv, CoordinatorInv
<1>s. ASSUME NEW messages, send(messages) PROVE m \in messages
  BY Zenon, <1>s DEF send
<1>r. ASSUME NEW r \in ReceiptsOf(state), disk' = disk
      PROVE  Backed(ResultMsg(r), disk')
  <2>1. ReceiptsOf(EmptyState) = {}
    BY DEF ReceiptsOf, EmptyState, Range
  <2>2. disk' = state
    BY Zenon, <1>0, <1>r, <2>1
  <2> QED
    BY Zenon, <2>2, BackedBy
<1>c. ASSUME NEW t \in {"accepted", "active", "phase"}, NEW c, disk' = disk,
             state.active # NoActive, state.active.cmd.id = c.id
      PROVE  Backed(Msg(t, c, state.active.phase), disk')
  <2>1. disk' = state /\ state.active.cmd # None
    BY Zenon, <1>0, <1>c, MemoryIsFile, ActiveCommand
  <2> QED
    BY Zenon, <1>c, <2>1, BackedBy
<1>1. ASSUME NEW t \in Sockets,
             attachTransport(t) \/ detachTransport(t) \/ onRegistered(t)
      PROVE  Backed(m, disk')
  <2>1. ~attachTransport(t) /\ ~detachTransport(t)
    BY Zenon DEF attachTransport, detachTransport
  <2>2. send({ResultMsg(r) : r \in Range(state.pending)}) /\ disk' = disk
    BY Zenon, <1>1, <2>1 DEF onRegistered, Answer, Keep
  <2>3. PICK r \in Range(state.pending) : m = ResultMsg(r)
    BY Zenon, <1>s, <2>2
  <2> QED
    BY Zenon, <1>r, <2>2, <2>3 DEF ReceiptsOf
<1>2. ASSUME NEW c \in Command, handleCommand(c) PROVE Backed(m, disk')
  <2>1. CASE AnswerFinished(c)
    <3>1. PICK r \in Finished(c) :
              /\ send({IF r.cmd = c THEN ResultMsg(r)
                       ELSE Msg("rejected", c, "artifact_identity_mismatch")})
              /\ disk' = disk
      BY Zenon, <2>1 DEF AnswerFinished, Answer, Keep
    <3>2. m = ResultMsg(r) \/ m = Msg("rejected", c, "artifact_identity_mismatch")
      BY Zenon, <1>s, <3>1
    <3>3. r \in ReceiptsOf(state)
      BY Zenon DEF Finished
    <3> QED
      BY Zenon, <1>r, <3>1, <3>2, <3>3, BackedBy
  <2>2. CASE RefuseUndurable(c)
    <3>1. m = Msg("rejected", c, "client_persistence_unavailable")
      BY Zenon, <1>s, <2>2 DEF RefuseUndurable, Answer
    <3> QED
      BY Zenon, <3>1, BackedBy
  <2>3. CASE OfferHeld(c)
    <3>1. /\ gate # None /\ disk' = disk
          /\ \/ send({Msg("rejected", c, "device_busy")})
             \/ send({Msg("rejected", c, "artifact_identity_mismatch")})
             \/ gate = c /\ send({Msg("accepted", c, state.active.phase)})
      BY Zenon, <2>3 DEF OfferHeld, Answer, Keep
    <3>2. \/ m = Msg("rejected", c, "device_busy")
          \/ m = Msg("rejected", c, "artifact_identity_mismatch")
          \/ gate = c /\ m = Msg("accepted", c, state.active.phase)
      BY Zenon, <1>s, <3>1
    <3>3. state.active # NoActive
      BY Zenon, <1>0, <3>1, ActiveCommand
    <3> QED
      BY Zenon, <1>0, <1>c, <3>1, <3>2, <3>3, BackedBy
  <2>4. ASSUME NEW ok \in BOOLEAN, accept(c, ok) PROVE Backed(m, disk')
    <3> DEFINE a == [cmd |-> c, phase |-> "downloading"]
               s == [state EXCEPT !.active = a]
    <3>1. CASE ~ok
      <4>1. m = Msg("rejected", c, "client_persistence_unavailable")
        BY Zenon, <1>s, <2>4, <3>1 DEF accept
      <4> QED
        BY Zenon, <4>1, BackedBy
    <3>2. CASE ok
      <4>1. persist(s, ok) /\ send(IF isJobV1(c) THEN {Msg("accepted", c, "downloading")}
                                   ELSE {})
        BY Zenon, <2>4, <3>2 DEF accept
      <4>2. m = Msg("accepted", c, "downloading")
        BY Zenon, <1>s, <4>1
      <4>3. Saved(s) /\ s.active = a
        BY <1>0 DEF Saved, Active, Phases
      <4>4. a.cmd = c /\ a.phase = "downloading" /\ c # None
        BY Zenon, NullAssumption
      <4> HIDE DEF s, a
      <4>5. disk'.active = a
        BY Zenon, <1>0, <3>2, <4>1, <4>3, Persisted
      <4> QED
        BY Zenon, <4>2, <4>4, <4>5, BackedBy
    <3> QED
      BY Zenon, <3>1, <3>2
  <2> QED
    BY Zenon, <1>2, <2>1, <2>2, <2>3, <2>4 DEF handleCommand
<1>3. ASSUME NEW kind, NEW phase \in Phases, NEW ok \in BOOLEAN,
             setPhase(kind, phase, ok)
      PROVE  Backed(m, disk')
  <2> DEFINE c == Head(inbox).cmd
             s == [state EXCEPT !.active.phase = phase]
  <2>1. isCurrent(c)
    BY Zenon, <1>3 DEF setPhase
  <2>2. /\ persist(s, ok) /\ state.active # NoActive /\ state.active.cmd.id = c.id
        /\ send(IF ok /\ (isJobV1(c) \/ kind = "transferred")
                THEN {Msg("phase", c, phase)} ELSE {})
    BY Zenon, <1>3, <2>1 DEF setPhase, isCurrent
  <2>3. ok /\ m = Msg("phase", c, phase)
    BY Zenon, <1>s, <2>2
  <2>4. state.active.cmd \in Command /\ state.active.cmd # None
    BY Zenon, <1>0, <2>2, ActiveCommand, NullAssumption
  <2>5. /\ Saved(s) /\ s.active.cmd = state.active.cmd
        /\ s.active.phase = phase
    <3>1. /\ state = [active |-> state.active, pending |-> state.pending,
                      completed |-> state.completed]
          /\ state.active \in [cmd : Command, phase : Phases]
      BY Zenon, <1>0, <2>2 DEF Saved, Active
    <3> QED
      BY <3>1 DEF Saved, Active
  <2> HIDE DEF s, c
  <2>6. disk'.active = s.active
    BY Zenon, <1>0, <2>2, <2>3, <2>5, Persisted
  <2> QED
    BY Zenon, <2>2, <2>3, <2>4, <2>5, <2>6, BackedBy
<1>4. CASE onValidated
  <2> DEFINE c == Head(inbox).cmd
  <2>1. /\ disk' = disk
        /\ send(IF isCurrent(c) /\ state.active.phase = "validating" /\ isJobV1(c)
                THEN {Msg("phase", c, "validating")} ELSE {})
    BY Zenon, <1>4 DEF onValidated, Keep
  <2>2. /\ isCurrent(c) /\ state.active.phase = "validating"
        /\ m = Msg("phase", c, "validating")
    BY Zenon, <1>s, <2>1
  <2> HIDE DEF c
  <2> QED
    BY Zenon, <1>c, <2>1, <2>2 DEF isCurrent
<1>5. ASSUME NEW ok \in BOOLEAN, onTerminal(ok) PROVE Backed(m, disk')
  <2> DEFINE c == Head(inbox).cmd
             r == [cmd |-> c, status |-> Head(inbox).status]
  <2>1. isCurrent(c) /\ Receive("terminal")
    BY Zenon, <1>5 DEF onTerminal
  <2>2. /\ persist(Filed(r), ok) /\ state.active # NoActive
        /\ send(IF ok THEN {ResultMsg(r)} ELSE {})
    BY Zenon, <1>5, <2>1 DEF onTerminal, isCurrent
  <2>3. ok /\ m = ResultMsg(r)
    BY Zenon, <1>s, <2>2
  <2>4. /\ Head(inbox) \in Callbacks /\ Head(inbox).kind = "terminal"
        /\ c = gate /\ gate \in Command
    BY Zenon, <1>0, <2>1, Received
  <2>5. r \in Receipt /\ r.cmd = state.active.cmd
    <3>1. Head(inbox).status \in {"success", "fail"}
      BY Zenon, <2>4 DEF Callbacks
    <3>2. c \in Command /\ c = state.active.cmd
      BY Zenon, <1>0, <2>4
    <3> HIDE DEF c
    <3> QED
      BY Zenon, <3>1, <3>2 DEF Receipt
  <2> DEFINE f == FiledIn(state, r)
             n == normalizePushState(f)
  <2>6. disk' = n
    BY Zenon, <2>2, <2>3 DEF persist, Filed, FiledIn
  <2> HIDE DEF r
  <2>7. /\ Stored(f)
        /\ isJobV1(r.cmd) => Len(f.pending) > 0 /\ f.pending[Len(f.pending)] = r
        /\ Len(f.completed) > 0 /\ f.completed[Len(f.completed)] = r
    BY Zenon, <1>0, <2>2, <2>5, FiledFacts
  <2> HIDE DEF f
  <2>8. /\ Len(f.pending) > 0 => f.pending[Len(f.pending)] \in Range(n.pending)
        /\ (/\ Len(f.completed) > 0
            /\ f.completed[Len(f.completed)].cmd.id \notin expired) =>
               f.completed[Len(f.completed)] \in Range(n.completed)
    BY Zenon, <2>7, NormalFacts
  <2> HIDE DEF n
  <2>9. ~isJobV1(r.cmd) => r.cmd.id \notin expired
    BY Zenon, <1>0, IdentityAssumption DEF isJobV1
  <2>10. r \in ReceiptsOf(n)
    BY Zenon, <2>7, <2>8, <2>9 DEF ReceiptsOf
  <2> QED
    BY Zenon, <2>3, <2>6, <2>10, BackedBy
<1>6. ASSUME NEW id \in Ids, handleReconcileRequest(id) PROVE Backed(m, disk')
  <2> DEFINE known == {r \in ReceiptsOf(state) : r.cmd.id = id}
             now == state.active # NoActive /\ state.active.cmd.id = id
  <2>1. /\ disk' = disk
        /\ send(IF now THEN {Msg("active", state.active.cmd, state.active.phase)}
                ELSE IF known # {} THEN {ResultMsg(CHOOSE r \in known : TRUE)}
                ELSE {[type |-> "absent", id |-> id, info |-> None]})
    BY Zenon, <1>6 DEF handleReconcileRequest, Answer, Keep
  <2>2. CASE now
    <3>1. m = Msg("active", state.active.cmd, state.active.phase)
      BY Zenon, <1>s, <2>1, <2>2
    <3> QED
      BY Zenon, <1>c, <2>1, <2>2, <3>1
  <2>3. CASE ~now /\ known # {}
    <3>1. PICK r \in known : m = ResultMsg(r)
      BY Zenon, <1>s, <2>1, <2>3
    <3> QED
      BY Zenon, <1>r, <2>1, <3>1
  <2>4. CASE ~now /\ known = {}
    <3>1. m = [type |-> "absent", id |-> id, info |-> None]
      BY Zenon, <1>s, <2>1, <2>4
    <3> QED
      BY Zenon, <3>1, BackedBy
  <2> QED
    BY Zenon, <2>2, <2>3, <2>4
<1>7. CASE registrationFields
  <2>1. /\ disk' = disk /\ state.active # NoActive
        /\ send({Msg("active", state.active.cmd, state.active.phase)})
    BY Zenon, <1>7 DEF registrationFields, Answer, Keep
  <2>2. m = Msg("active", state.active.cmd, state.active.phase)
    BY Zenon, <1>s, <2>1
  <2> QED
    BY Zenon, <1>c, <2>1, <2>2
<1>8. ~Crash /\ ~Rot /\ ~Worker
  BY Zenon DEF Crash, Rot, Worker, WorkerAdvance, WorkerClean, WorkerFinish
<1>9. /\ \A ok \in BOOLEAN : ~Start(ok)
      /\ \A id \in Ids : ~Age(id)
      /\ \A id \in Ids, ok \in BOOLEAN : ~handleResultAck(id, ok)
  BY Zenon DEF Start, Age, handleResultAck
<1>10. ASSUME NEW ok \in BOOLEAN, Actor(ok) PROVE Backed(m, disk')
  <2>1. "validating" \in Phases /\ "applying" \in Phases
    BY Zenon DEF Phases
  <2> QED
    BY Zenon, <1>3, <1>4, <1>5, <1>10, <2>1
    DEF Actor, onTransferComplete, onApplying
<1>11. CASE Server
  BY Zenon, <1>1, <1>2, <1>6, <1>7, <1>9, <1>11 DEF Server
<1> QED
  BY Zenon, <1>8, <1>9, <1>10, <1>11 DEF Next

\* Nothing is published before it is saved: an acceptance, a phase, an active
\* execution or a result that goes to the server is in the state file by then
\* (accept, setPhase, onTerminal, replayPendingResults), whatever fails.
THEOREM SavedBeforeSent == Spec => SentIsSaved
<1> DEFINE Truly == \A m \in sent' : Backed(m, disk')
<1>1. CoordinatorInv /\ ReceiptInv /\ [Next]_vars => [Truly]_vars
  BY Zenon, SentBacked
<1> QED
  BY <1>1, ExecutorInvariance, ReceiptInvariance, PTL DEF Spec, SentIsSaved
=============================================================================
