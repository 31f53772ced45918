---------------------------- MODULE StartupProofs ----------------------------
(***************************************************************************)
(* Proofs about StartupApp, the startup app and the uninstalls of a        *)
(* client, for any packages and any number of commands.                    *)
(***************************************************************************)
EXTENDS StartupApp, TLAPS

-----------------------------------------------------------------------------
(* Mailboxes.                                                              *)

\* A message offered to a mailbox is the last one, behind what is there.
LEMMA Enqueue ==
    ASSUME NEW S, NEW q \in Seq(S), NEW e \in S
    PROVE  /\ Append(q, e) \in Seq(S) /\ Len(Append(q, e)) = Len(q) + 1
           /\ \A i \in 1 .. Len(q) : Append(q, e)[i] = q[i]
           /\ Append(q, e)[Len(q) + 1] = e
OBVIOUS

\* Taking the first message moves every other one place up.
LEMMA Dequeue ==
    ASSUME NEW S, NEW q \in Seq(S), q # <<>>
    PROVE  /\ Head(q) \in S /\ Tail(q) \in Seq(S)
           /\ Len(Tail(q)) = Len(q) - 1
           /\ \A i \in 1 .. Len(Tail(q)) : Tail(q)[i] = q[i + 1]
OBVIOUS

-----------------------------------------------------------------------------
(* The startup app and the uninstalls (MdmClientService.kt).               *)

\* An agent that is about to report has an outcome.
Concluded ==
    \A g \in Agents :
        pc[g] \in {"called", "restore", "write", "finish"} => status[g] # "none"

\* What the claims rest on: the ops are numbered in order, an op whose agents
\* run has its package, and the owner of a package is the op that was started
\* for it and has not reported.
ClaimsSound ==
    /\ \A g \in Agents :
           pc[g] # "none" => g[1] <= ops /\ package[g[1]] \in Apps
    /\ \A op \in Ops : op > ops => answers[op] = 0
    /\ \A a \in Apps :
           /\ inFlight[a] <= ops
           /\ inFlight[a] # 0 =>
                  package[inFlight[a]] = a /\ answers[inFlight[a]] = 0

StartupInv == StartupTypes /\ Concluded /\ ClaimsSound /\ OneResult

\* An agent moves between awaits of an uninstall that was started.
AgentsMove ==
    /\ \A g \in Agents : pc'[g] # "none" =>
           \E h \in Agents : h[1] = g[1] /\ pc[h] # "none"
    /\ UNCHANGED <<package, answers, inFlight, ops>>

\* The steps that neither start an uninstall nor report one.
LEMMA ClaimsUntouched ==
    ASSUME StartupInv, AgentsMove
    PROVE  ClaimsSound' /\ OneResult'
BY Zenon DEF StartupInv, AgentsMove, ClaimsSound, OneResult, Ops, Agents

\* The server's steps keep the types.
LEMMA StartupServerTyped ==
    ASSUME StartupTypes,
           \/ \E app \in Settings : ChangeStartupApp(app)
           \/ \E app \in Apps : DeleteApp(app)
           \/ \E w \in writes :
                  StartupAppSent(w) \/ StartupAppNotSent(w)
           \/ DeleteAppResult \/ Register \/ Reconnect
    PROVE  StartupTypes' /\ UNCHANGED client
<1>0. /\ down \in Seq(StartupCommands) /\ replies \in Seq(StartupMessages)
      /\ NoApp \in Settings
  BY Zenon DEF StartupTypes, Settings
<1>1. ASSUME NEW app \in Settings, ChangeStartupApp(app)
      PROVE  StartupTypes' /\ UNCHANGED client
  <2>1. [type |-> "set", app |-> app] \in StartupCommands
    BY Zenon DEF StartupCommands
  <2>2. down' \in Seq(StartupCommands)
    BY Zenon, <1>0, <1>1, <2>1, Enqueue
    DEF ChangeStartupApp, Transmit
  <2>3. [id |-> changes, app |-> app, fresh |-> TRUE] \in
            [id : 0 .. MaxChanges, app : Settings, fresh : BOOLEAN]
    BY Zenon, StartupBoundsAssumption DEF StartupTypes
  <2>4. changes' \in 0 .. MaxChanges
    BY <1>1, StartupBoundsAssumption DEF ChangeStartupApp, StartupTypes
  <2> QED
    BY Zenon, <1>1, <2>2, <2>3, <2>4 DEF ChangeStartupApp, StartupTypes, client
<1>2. ASSUME NEW app \in Apps, DeleteApp(app)
      PROVE  StartupTypes' /\ UNCHANGED client
  <2>1. [type |-> "uninstall", app |-> app] \in StartupCommands
    BY Zenon DEF StartupCommands
  <2>2. down' \in Seq(StartupCommands)
    BY Zenon, <1>0, <1>2, <2>1, Enqueue DEF DeleteApp, Transmit
  <2> QED
    BY <1>2, <2>2, StartupBoundsAssumption
    DEF DeleteApp, StartupTypes, client, server
<1>3. ASSUME NEW w \in writes,
             StartupAppSent(w) \/ StartupAppNotSent(w)
      PROVE  StartupTypes' /\ UNCHANGED client
  BY Zenon, <1>3 DEF StartupAppSent, StartupAppNotSent, StartupTypes,
      client, startupBounds
<1>4. CASE DeleteAppResult \/ Register
  <2>1. /\ replies' \in Seq(StartupMessages)
        /\ Head(replies) \in StartupMessages
    BY Zenon, <1>0, <1>4, Dequeue
    DEF DeleteAppResult, Register, FromDevice
  <2>2. Head(replies).app \in Settings
    BY Zenon, <2>1 DEF StartupMessages, Settings
  <2>3. writes' \subseteq [id : 0 .. MaxChanges, app : Settings,
                           fresh : BOOLEAN]
    <3>1. \A w \in [id : 0 .. MaxChanges, app : Settings, fresh : BOOLEAN] :
              [w EXCEPT !.fresh = FALSE] \in
                  [id : 0 .. MaxChanges, app : Settings, fresh : BOOLEAN]
      BY Zenon
    <3> QED
      BY <1>4, <3>1 DEF DeleteAppResult, Register, StartupTypes
  <2>4. entry' \in Settings /\ record' \in Settings
        /\ linked' \in BOOLEAN
    BY Zenon, <1>0, <1>4, <2>2 DEF DeleteAppResult, Register, StartupTypes
  <2> QED
    BY Zenon, <1>4, <2>1, <2>3, <2>4 DEF DeleteAppResult, Register,
        StartupTypes, client, startupBounds
<1>5. CASE Reconnect
  <2>1. [type |-> "register", app |-> prefs] \in StartupMessages
    BY Zenon DEF StartupMessages, StartupTypes
  <2>2. replies' \in Seq(StartupMessages) /\ down' \in Seq(StartupCommands)
    BY <1>5, <2>1 DEF Reconnect
  <2>3. reconnects' \in 0 .. MaxReconnects
    BY <1>5, StartupBoundsAssumption DEF Reconnect, StartupTypes
  <2> QED
    BY Zenon, <1>5, <2>2, <2>3 DEF Reconnect, StartupTypes, client
<1> QED
  BY Zenon, <1>1, <1>2, <1>3, <1>4, <1>5

\* The moves of a worker thread, of the system's callback and of an agent that
\* restores the setting.
AgentStep ==
    \/ \E op \in Ops : UninstallWorker(op) \/ UninstallCallback(op)
    \/ \E op \in Ops, result \in {"success", "fail"} :
           ServiceUninstalls(op, result)
    \/ \E g \in Agents : RestoreChecks(g) \/ RestoreWrites(g)

\* What such a move may do to an uninstall.
AgentEffect ==
    /\ prefs' \in Settings /\ cleared' \in [Ops -> Settings]
    /\ installed' \subseteq Apps
    /\ status' \in [Agents -> {"none", "success", "fail"}]
    /\ pc' \in [Agents -> AgentSteps]
    /\ UNCHANGED <<server, down, startupBounds, package, ops, replies,
                   inFlight, answers>>
    /\ Concluded' /\ AgentsMove

\* They keep the types and the outcomes, and only agents of a started
\* uninstall take them.
LEMMA AgentsTyped ==
    ASSUME StartupTypes, Concluded, AgentStep
    PROVE  AgentEffect
<1>0. /\ NoApp \in Settings
      /\ \A op \in Ops : /\ <<op, "worker">> \in Agents
                         /\ <<op, "callback">> \in Agents
                         /\ <<op, "worker">>[1] = op
                         /\ <<op, "callback">>[1] = op
                         /\ <<op, "worker">> # <<op, "callback">>
      /\ \A g \in Agents : g[1] \in Ops
  BY Zenon DEF Settings, Agents
<1>1. ASSUME NEW op \in Ops, Refused(op) \/ CallThrows(op) \/ CallbackTimeout(op)
      PROVE  AgentEffect
  <2> DEFINE g == <<op, "worker">>
  <2>1. /\ pc[g] # "none"
        /\ UNCHANGED <<prefs, installed, cleared, replies, inFlight, answers>>
        /\ OnClient
    BY Zenon, <1>1 DEF Refused, CallThrows, CallbackTimeout
  <2>2. PICK s \in {"finish", "restore"}, result \in {"success", "fail"} :
            Conclude(g, s, result)
    BY Zenon, <1>1 DEF Refused, CallThrows, CallbackTimeout
  <2> HIDE DEF g
  <2>3. g \in Agents
    BY Zenon, <1>0 DEF g
  <2>4. /\ status' \in [Agents -> {"none", "success", "fail"}]
        /\ pc' \in [Agents -> AgentSteps]
    BY Zenon, <2>2, <2>3 DEF Conclude, StartupTypes, AgentSteps
  <2>5. Concluded' /\ AgentsMove
    BY Zenon, <2>1, <2>2, <2>3
    DEF Conclude, StartupTypes, Concluded, AgentsMove, OnClient
  <2> QED
    BY Zenon, <2>1, <2>4, <2>5 DEF OnClient, AgentEffect, StartupTypes
<1>2. ASSUME NEW op \in Ops, ReadStartupApp(op) \/ ClearStartupApp(op)
      PROVE  AgentEffect
  <2> DEFINE g == <<op, "worker">>
  <2>1. /\ pc[g] # "none"
        /\ UNCHANGED <<installed, replies, inFlight, status, answers>>
        /\ OnClient
    BY Zenon, <1>2 DEF ReadStartupApp, ClearStartupApp
  <2>2. PICK s \in {"clear", "call"} : Goto(g, s)
    BY Zenon, <1>2 DEF ReadStartupApp, ClearStartupApp
  <2>3. prefs' \in Settings /\ cleared' \in [Ops -> Settings]
    <3>1. CASE ReadStartupApp(op)
      BY Zenon, <3>1 DEF ReadStartupApp, StartupTypes
    <3>2. CASE ClearStartupApp(op)
      BY Zenon, <1>0, <3>2 DEF ClearStartupApp, StartupTypes
    <3> QED
      BY Zenon, <1>2, <3>1, <3>2
  <2> HIDE DEF g
  <2>4. g \in Agents
    BY Zenon, <1>0 DEF g
  <2>5. pc' \in [Agents -> AgentSteps] /\ Concluded' /\ AgentsMove
    BY Zenon, <2>1, <2>2, <2>4
    DEF Goto, StartupTypes, AgentSteps, Concluded, AgentsMove, OnClient
  <2> QED
    BY Zenon, <2>1, <2>3, <2>5 DEF OnClient, AgentEffect, StartupTypes
<1>3. ASSUME NEW op \in Ops, CallService(op)
      PROVE  AgentEffect
  <2>1. /\ pc[<<op, "worker">>] = "call"
        /\ UNCHANGED <<replies, prefs, installed, inFlight, cleared, status,
                       answers>>
        /\ OnClient
    BY Zenon, <1>3 DEF CallService
  <2>2. /\ pc' \in [Agents -> AgentSteps]
        /\ \A g \in Agents :
               pc'[g] = CASE g = <<op, "worker">> -> "waiting"
                          [] g = <<op, "callback">> -> "running"
                          [] OTHER -> pc[g]
    BY Zenon, <1>0, <1>3 DEF CallService, StartupTypes, AgentSteps
  <2>3. Concluded'
    BY Zenon, <2>1, <2>2 DEF Concluded
  <2>4. \A g \in Agents : pc'[g] # "none" =>
            \E h \in Agents : h[1] = g[1] /\ pc[h] # "none"
    BY <1>0, <2>1, <2>2
  <2> QED
    BY Zenon, <2>1, <2>2, <2>3, <2>4
    DEF OnClient, AgentEffect, AgentsMove, StartupTypes
<1>4. ASSUME NEW op \in Ops, UninstallCallback(op)
      PROVE  AgentEffect
  <2>1. /\ prefs' \in Settings /\ cleared' \in [Ops -> Settings]
        /\ installed' \subseteq Apps
        /\ status' \in [Agents -> {"none", "success", "fail"}]
    BY Zenon, <1>0, <1>4 DEF UninstallCallback, StartupTypes
  <2>2. pc' \in [Agents -> AgentSteps] /\ AgentsMove
    BY Zenon, <1>0, <1>4
    DEF UninstallCallback, OnClient, StartupTypes, AgentsMove, AgentSteps
  <2>3. Concluded'
    BY Zenon, <1>0, <1>4 DEF UninstallCallback, StartupTypes, Concluded
  <2> QED
    BY Zenon, <1>4, <2>1, <2>2, <2>3
    DEF UninstallCallback, OnClient, AgentEffect
<1>5. ASSUME NEW op \in Ops, NEW result \in {"success", "fail"},
             ServiceUninstalls(op, result)
      PROVE  AgentEffect
  <2>1. /\ prefs' \in Settings /\ cleared' \in [Ops -> Settings]
        /\ installed' \subseteq Apps
        /\ status' \in [Agents -> {"none", "success", "fail"}]
    BY Zenon, <1>0, <1>5 DEF ServiceUninstalls, Conclude, StartupTypes
  <2>2. pc' \in [Agents -> AgentSteps] /\ AgentsMove
    BY Zenon, <1>0, <1>5
    DEF ServiceUninstalls, Conclude, OnClient, StartupTypes, AgentsMove,
        AgentSteps
  <2>3. Concluded'
    BY Zenon, <1>0, <1>5
    DEF ServiceUninstalls, Conclude, StartupTypes, Concluded
  <2> QED
    BY Zenon, <1>5, <2>1, <2>2, <2>3
    DEF ServiceUninstalls, Conclude, OnClient, AgentEffect
<1>6. ASSUME NEW g \in Agents, RestoreChecks(g)
      PROVE  AgentEffect
  <2>1. /\ prefs' \in Settings /\ cleared' \in [Ops -> Settings]
        /\ installed' \subseteq Apps
        /\ status' \in [Agents -> {"none", "success", "fail"}]
    BY Zenon, <1>0, <1>6 DEF RestoreChecks, Goto, StartupTypes
  <2>2. pc' \in [Agents -> AgentSteps] /\ AgentsMove
    BY Zenon, <1>0, <1>6
    DEF RestoreChecks, Goto, OnClient, StartupTypes, AgentsMove, AgentSteps
  <2>3. Concluded'
    BY Zenon, <1>0, <1>6 DEF RestoreChecks, Goto, StartupTypes, Concluded
  <2> QED
    BY Zenon, <1>6, <2>1, <2>2, <2>3
    DEF RestoreChecks, Goto, OnClient, AgentEffect
<1>7. ASSUME NEW g \in Agents, RestoreWrites(g)
      PROVE  AgentEffect
  <2>1. /\ prefs' \in Settings /\ cleared' \in [Ops -> Settings]
        /\ installed' \subseteq Apps
        /\ status' \in [Agents -> {"none", "success", "fail"}]
    BY Zenon, <1>0, <1>7 DEF RestoreWrites, Goto, StartupTypes
  <2>2. pc' \in [Agents -> AgentSteps] /\ AgentsMove
    BY Zenon, <1>0, <1>7
    DEF RestoreWrites, Goto, OnClient, StartupTypes, AgentsMove, AgentSteps
  <2>3. Concluded'
    BY Zenon, <1>0, <1>7 DEF RestoreWrites, Goto, StartupTypes, Concluded
  <2> QED
    BY Zenon, <1>7, <2>1, <2>2, <2>3
    DEF RestoreWrites, Goto, OnClient, AgentEffect
<1> QED
  BY Zenon, <1>1, <1>2, <1>3, <1>4, <1>5, <1>6, <1>7
  DEF AgentStep, UninstallWorker

\* executeUninstall claims a free package for a new op or reports it at once.
LEMMA UninstallClaims ==
    ASSUME StartupInv, ExecuteUninstall
    PROVE  StartupInv'
<1> DEFINE app == Head(down).app
           op == ops + 1
<1>a. /\ down \in Seq(StartupCommands) /\ replies \in Seq(StartupMessages)
      /\ package \in [Ops -> Settings] /\ answers \in [Ops -> Nat]
      /\ inFlight \in [Apps -> 0 .. MaxUninstalls]
      /\ pc \in [Agents -> AgentSteps]
  BY Zenon DEF StartupInv, StartupTypes
<1>b. ops \in 0 .. MaxUninstalls /\ ops < MaxUninstalls
  BY Zenon DEF StartupInv, StartupTypes, ExecuteUninstall
<1>c. ops \in Nat /\ op \in Ops /\ \A o \in Ops : o \in Nat /\ o # 0
  BY <1>b, StartupBoundsAssumption DEF Ops
<1>0. /\ down \in Seq(StartupCommands) /\ replies \in Seq(StartupMessages)
      /\ ops \in Nat /\ op \in Ops /\ \A o \in Ops : o \in Nat /\ o # 0
      /\ package \in [Ops -> Settings] /\ answers \in [Ops -> Nat]
      /\ inFlight \in [Apps -> 0 .. MaxUninstalls]
      /\ pc \in [Agents -> AgentSteps]
  BY Zenon, <1>a, <1>c
<1>1. down' \in Seq(StartupCommands) /\ Head(down) \in StartupCommands
  BY Zenon, <1>0, Dequeue DEF ExecuteUninstall, FromServer
<1>2. app \in Apps
  BY Zenon, <1>1 DEF ExecuteUninstall, FromServer, StartupCommands
<1>3. /\ ops' = op /\ package' = [package EXCEPT ![op] = app]
      /\ UNCHANGED <<server, prefs, installed, cleared, status, startupBounds>>
  BY Zenon DEF ExecuteUninstall
<1>4. \/ /\ inFlight[app] = 0
         /\ inFlight' = [inFlight EXCEPT ![app] = op]
         /\ pc' = [pc EXCEPT ![<<op, "worker">>] = "start"]
         /\ UNCHANGED <<replies, answers>>
      \/ /\ Report(op, app, "fail")
         /\ UNCHANGED <<inFlight, pc>>
  BY Zenon DEF ExecuteUninstall
<1>5. op > ops /\ \A o \in Ops : /\ o <= ops => o # op /\ o <= op
                                 /\ o > op => o > ops
  BY <1>0
<1>6. \A g \in Agents : g[1] \in Ops
  BY Zenon DEF Agents
<1>7. <<op, "worker">> \in Agents /\ <<op, "worker">>[1] = op
  BY Zenon, <1>0 DEF Agents
<1>8. answers[op] = 0
  BY Zenon, <1>0, <1>5 DEF StartupInv, ClaimsSound
<1>9. ops' \in 0 .. MaxUninstalls /\ op \in 0 .. MaxUninstalls
  BY <1>0, <1>3 DEF Ops
<1>10. package' \in [Ops -> Settings]
  BY Zenon, <1>0, <1>2, <1>3 DEF Settings
<1>11. \A o \in Ops : package'[o] = IF o = op THEN app ELSE package[o]
  BY Zenon, <1>0, <1>3
<1> HIDE DEF app, op
<1>12. CASE /\ inFlight[app] = 0
            /\ inFlight' = [inFlight EXCEPT ![app] = op]
            /\ pc' = [pc EXCEPT ![<<op, "worker">>] = "start"]
            /\ UNCHANGED <<replies, answers>>
  <2>1. /\ pc' \in [Agents -> AgentSteps]
        /\ \A g \in Agents :
               pc'[g] = IF g = <<op, "worker">> THEN "start" ELSE pc[g]
    BY Zenon, <1>0, <1>7, <1>12 DEF AgentSteps
  <2>2. /\ inFlight' \in [Apps -> 0 .. MaxUninstalls]
        /\ \A a \in Apps : inFlight'[a] = IF a = app THEN op ELSE inFlight[a]
    BY Zenon, <1>0, <1>2, <1>9, <1>12
  <2>3. StartupTypes'
    BY Zenon, <1>1, <1>3, <1>9, <1>10, <1>12, <2>1, <2>2
    DEF StartupInv, StartupTypes, server, startupBounds
  <2>4. Concluded'
    BY Zenon, <1>3, <2>1 DEF StartupInv, Concluded
  <2>5. ASSUME NEW g \in Agents, pc'[g] # "none"
        PROVE  g[1] <= ops' /\ package'[g[1]] \in Apps
    <3>1. CASE g = <<op, "worker">>
      BY <1>0, <1>2, <1>3, <1>7, <1>11, <3>1
    <3>2. CASE g # <<op, "worker">>
      <4>1. g[1] <= ops /\ package[g[1]] \in Apps
        BY Zenon, <2>1, <2>5, <3>2 DEF StartupInv, ClaimsSound
      <4> QED
        BY <1>3, <1>5, <1>6, <1>11, <4>1
    <3> QED
      BY Zenon, <3>1, <3>2
  <2>6. \A o \in Ops : o > ops' => answers'[o] = 0
    BY Zenon, <1>3, <1>5, <1>12 DEF StartupInv, ClaimsSound
  <2>7. ASSUME NEW a \in Apps
        PROVE  /\ inFlight'[a] <= ops'
               /\ inFlight'[a] # 0 => /\ package'[inFlight'[a]] = a
                                      /\ answers'[inFlight'[a]] = 0
    <3>1. CASE a = app
      BY <1>0, <1>3, <1>8, <1>11, <1>12, <2>2, <3>1
    <3>2. CASE a # app
      <4>1. inFlight'[a] = inFlight[a] /\ inFlight[a] <= ops
        BY Zenon, <2>2, <3>2 DEF StartupInv, ClaimsSound
      <4>2. inFlight[a] \in Nat /\ (inFlight[a] # 0 => inFlight[a] \in Ops)
        BY <1>0, StartupBoundsAssumption DEF Ops
      <4>3. inFlight'[a] <= ops'
        BY <1>0, <1>3, <1>5, <4>1, <4>2
      <4>4. inFlight[a] # 0 => /\ package'[inFlight[a]] = package[inFlight[a]]
                               /\ package[inFlight[a]] = a
                               /\ answers'[inFlight[a]] = 0
        BY Zenon, <1>5, <1>11, <1>12, <4>1, <4>2 DEF StartupInv, ClaimsSound
      <4> QED
        BY Zenon, <4>1, <4>3, <4>4
    <3> QED
      BY Zenon, <3>1, <3>2
  <2> QED
    BY Zenon, <1>12, <2>3, <2>4, <2>5, <2>6, <2>7
    DEF StartupInv, ClaimsSound, OneResult
<1>13. CASE Report(op, app, "fail") /\ UNCHANGED <<inFlight, pc>>
  <2>1. /\ answers' \in [Ops -> Nat]
        /\ \A o \in Ops : answers'[o] = IF o = op THEN 1 ELSE answers[o]
    BY <1>0, <1>8, <1>13 DEF Report
  <2>2. replies' \in Seq(StartupMessages)
    <3>1. [type |-> "result", app |-> app, status |-> "fail"] \in StartupMessages
      BY Zenon, <1>2 DEF StartupMessages
    <3> QED
      BY Zenon, <1>0, <1>13, <3>1, Enqueue DEF Report
  <2>3. StartupTypes'
    BY Zenon, <1>1, <1>3, <1>9, <1>10, <1>13, <2>1, <2>2
    DEF StartupInv, StartupTypes, server, startupBounds
  <2>4. Concluded'
    BY Zenon, <1>3, <1>13 DEF StartupInv, Concluded
  <2>5. ASSUME NEW g \in Agents, pc'[g] # "none"
        PROVE  g[1] <= ops' /\ package'[g[1]] \in Apps
    <3>1. g[1] <= ops /\ package[g[1]] \in Apps
      BY Zenon, <1>13, <2>5 DEF StartupInv, ClaimsSound
    <3> QED
      BY <1>3, <1>5, <1>6, <1>11, <3>1
  <2>6. \A o \in Ops : o > ops' => answers'[o] = 0
    BY <1>0, <1>3, <1>5, <2>1 DEF StartupInv, ClaimsSound
  <2>7. ASSUME NEW a \in Apps
        PROVE  /\ inFlight'[a] <= ops'
               /\ inFlight'[a] # 0 => /\ package'[inFlight'[a]] = a
                                      /\ answers'[inFlight'[a]] = 0
    <3>1. inFlight'[a] = inFlight[a] /\ inFlight[a] <= ops
      BY Zenon, <1>13 DEF StartupInv, ClaimsSound
    <3>2. inFlight[a] \in Nat /\ (inFlight[a] # 0 => inFlight[a] \in Ops)
      BY <1>0, StartupBoundsAssumption DEF Ops
    <3>3. inFlight'[a] <= ops'
      BY <1>0, <1>3, <1>5, <3>1, <3>2
    <3>4. inFlight[a] # 0 => /\ package'[inFlight[a]] = package[inFlight[a]]
                             /\ package[inFlight[a]] = a
                             /\ answers'[inFlight[a]] = 0
      BY Zenon, <1>5, <1>11, <2>1, <3>1, <3>2 DEF StartupInv, ClaimsSound
    <3> QED
      BY Zenon, <3>1, <3>3, <3>4
  <2>8. OneResult'
    BY <1>0, <2>1 DEF StartupInv, OneResult
  <2> QED
    BY Zenon, <2>3, <2>4, <2>5, <2>6, <2>7, <2>8 DEF StartupInv, ClaimsSound
<1> QED
  BY Zenon, <1>4, <1>12, <1>13

\* finishUninstall frees the package together with its report, and only for
\* the op that owns it; any other agent just ends.
LEMMA FinishReleases ==
    ASSUME StartupInv, NEW g \in Agents, FinishUninstall(g)
    PROVE  StartupInv'
<1> DEFINE app == package[g[1]]
<1>0. /\ replies \in Seq(StartupMessages)
      /\ answers \in [Ops -> Nat] /\ inFlight \in [Apps -> 0 .. MaxUninstalls]
      /\ pc \in [Agents -> AgentSteps]
      /\ status \in [Agents -> {"none", "success", "fail"}]
  BY Zenon DEF StartupInv, StartupTypes
<1>1. g[1] \in Ops /\ g[1] # 0 /\ app \in Apps
  BY DEF StartupInv, ClaimsSound, FinishUninstall, Agents, Ops
<1>2. /\ pc[g] = "finish" /\ pc' = [pc EXCEPT ![g] = "done"]
      /\ UNCHANGED <<prefs, installed, cleared, status, server, down,
                     startupBounds, package, ops>>
  BY Zenon DEF FinishUninstall, Goto, OnClient
<1>3. /\ pc' \in [Agents -> AgentSteps]
      /\ \A h \in Agents : pc'[h] = IF h = g THEN "done" ELSE pc[h]
  BY Zenon, <1>0, <1>2 DEF AgentSteps
<1>4. Concluded'
  BY Zenon, <1>2, <1>3 DEF StartupInv, Concluded
<1>5. \A h \in Agents :
          pc'[h] # "none" => h[1] <= ops' /\ package'[h[1]] \in Apps
  BY Zenon, <1>2, <1>3 DEF StartupInv, ClaimsSound
<1>6. CASE inFlight[app] # g[1]
  <2>1. UNCHANGED <<inFlight, replies, answers>>
    BY Zenon, <1>6 DEF FinishUninstall
  <2> QED
    BY SMTT(20), <1>2, <1>3, <1>4, <1>5, <2>1
    DEF StartupInv, StartupTypes, ClaimsSound, OneResult, server, startupBounds
<1>7. CASE inFlight[app] = g[1]
  <2>1. /\ inFlight' = [inFlight EXCEPT ![app] = 0]
        /\ Report(g[1], app, status[g])
    BY Zenon, <1>7 DEF FinishUninstall
  <2>2. answers[g[1]] = 0
    BY Zenon, <1>1, <1>7 DEF StartupInv, ClaimsSound
  <2>3. /\ answers' \in [Ops -> Nat]
        /\ \A o \in Ops : answers'[o] = IF o = g[1] THEN 1 ELSE answers[o]
    BY <1>0, <1>1, <2>1, <2>2 DEF Report
  <2>4. /\ inFlight' \in [Apps -> 0 .. MaxUninstalls]
        /\ \A a \in Apps : inFlight'[a] = IF a = app THEN 0 ELSE inFlight[a]
    BY <1>0, <1>1, <2>1, StartupBoundsAssumption
  <2>5. replies' \in Seq(StartupMessages)
    <3>1. status[g] \in {"success", "fail"}
      BY Zenon, <1>0, <1>2 DEF StartupInv, Concluded
    <3>2. [type |-> "result", app |-> app, status |-> status[g]]
              \in StartupMessages
      BY Zenon, <1>1, <3>1 DEF StartupMessages
    <3> QED
      BY Zenon, <1>0, <2>1, <3>2, Enqueue DEF Report
  <2>6. StartupTypes'
    BY Zenon, <1>2, <1>3, <2>3, <2>4, <2>5
    DEF StartupInv, StartupTypes, server, startupBounds
  <2>7. \A o \in Ops : o > ops' => answers'[o] = 0
    <3>1. g[1] <= ops
      BY Zenon, <1>2 DEF StartupInv, ClaimsSound
    <3>2. ops \in Nat /\ \A o \in Ops : o \in Nat
      BY StartupBoundsAssumption DEF StartupInv, StartupTypes, Ops
    <3> QED
      BY <1>1, <1>2, <2>3, <3>1, <3>2 DEF StartupInv, ClaimsSound
  <2>8. ASSUME NEW a \in Apps
        PROVE  /\ inFlight'[a] <= ops'
               /\ inFlight'[a] # 0 => /\ package'[inFlight'[a]] = a
                                      /\ answers'[inFlight'[a]] = 0
    <3>1. CASE a = app
      BY <1>2, <2>4, <3>1 DEF StartupInv, StartupTypes
    <3>2. CASE a # app
      <4>1. inFlight'[a] = inFlight[a] /\ inFlight[a] <= ops
        BY Zenon, <2>4, <3>2 DEF StartupInv, ClaimsSound
      <4>2. inFlight[a] # 0 => inFlight[a] \in Ops /\ inFlight[a] # g[1]
        BY <1>0, <3>2, StartupBoundsAssumption DEF Ops, StartupInv, ClaimsSound
      <4> QED
        BY Zenon, <1>2, <2>3, <4>1, <4>2 DEF StartupInv, ClaimsSound
    <3> QED
      BY Zenon, <3>1, <3>2
  <2>9. OneResult'
    BY <2>3 DEF StartupInv, OneResult
  <2> QED
    BY Zenon, <1>4, <1>5, <2>6, <2>7, <2>8, <2>9 DEF StartupInv, ClaimsSound
<1> QED
  BY Zenon, <1>6, <1>7

\* Every step keeps the invariant.
LEMMA StartupStep ==
    ASSUME StartupInv, StartupNext
    PROVE  StartupInv'
<1>1. CASE \/ \E app \in Settings : ChangeStartupApp(app)
           \/ \E app \in Apps : DeleteApp(app)
           \/ \E w \in writes : StartupAppSent(w) \/ StartupAppNotSent(w)
           \/ DeleteAppResult \/ Register \/ Reconnect
  <2>1. StartupTypes' /\ UNCHANGED client
    BY Zenon, <1>1, StartupServerTyped DEF StartupInv
  <2> QED
    BY Zenon, <2>1 DEF StartupInv, client, Concluded, ClaimsSound, OneResult
<1>2. CASE HandleStartupApp
  <2>1. down \in Seq(StartupCommands)
    BY Zenon DEF StartupInv, StartupTypes
  <2>2. down' \in Seq(StartupCommands) /\ Head(down) \in StartupCommands
    BY Zenon, <1>2, <2>1, Dequeue DEF HandleStartupApp, FromServer
  <2>3. prefs' \in Settings
    BY Zenon, <1>2, <2>2 DEF HandleStartupApp, StartupCommands, Settings
  <2> QED
    BY Zenon, <1>2, <2>2, <2>3 DEF HandleStartupApp, StartupInv, StartupTypes,
        Concluded, ClaimsSound, OneResult, server, startupBounds
<1>3. CASE ExecuteUninstall
  BY Zenon, <1>3, UninstallClaims
<1>4. CASE AgentStep
  <2>1. AgentEffect
    BY Zenon, <1>4, AgentsTyped DEF StartupInv
  <2>2. ClaimsSound' /\ OneResult'
    BY Zenon, <2>1, ClaimsUntouched DEF AgentEffect
  <2> QED
    BY Zenon, <2>1, <2>2 DEF AgentEffect, StartupInv, StartupTypes, server,
        startupBounds
<1>5. CASE \E g \in Agents : FinishUninstall(g)
  BY Zenon, <1>5, FinishReleases
<1> QED
  BY Zenon, <1>1, <1>2, <1>3, <1>4, <1>5
  DEF StartupNext, Reader, AgentStep, Agent

\* The invariant of the uninstalls, for any packages and any number of
\* DELETE_APPs, setting changes and reconnections.
THEOREM StartupInvariance == StartupSpec => []StartupInv
<1>1. StartupInit => StartupInv
  <2> SUFFICES ASSUME StartupInit PROVE StartupInv
    BY Zenon
  <2>1. StartupTypes
    BY StartupBoundsAssumption
    DEF StartupInit, StartupTypes, Settings, Ops, Agents, AgentSteps
  <2> QED
    BY <2>1 DEF StartupInit, StartupInv, Concluded, ClaimsSound, OneResult
<1>2. StartupInv /\ UNCHANGED startupVars => StartupInv'
  BY DEF StartupInv, StartupTypes, Concluded, ClaimsSound, OneResult,
      startupVars, server, client, startupBounds
<1> QED
  BY <1>1, <1>2, StartupStep, PTL DEF StartupSpec

\* Every EXECUTE_UNINSTALL is reported at most once, although its worker's
\* timeout and its callback may both be about to report it.
THEOREM UninstallReportedOnce == StartupSpec => []OneResult
BY StartupInvariance, PTL DEF StartupInv

\* A package is freed only together with the report of the attempt that owns
\* it, never by a late callback of an attempt that timed out.
THEOREM ClaimReleasedByOwner == StartupSpec => OwnerReleases
<1> DEFINE A == \A a \in Apps : inFlight[a] # 0 /\ inFlight'[a] # inFlight[a] =>
                    answers'[inFlight[a]] = answers[inFlight[a]] + 1
<1>1. StartupInv /\ [StartupNext]_startupVars => [A]_startupVars
  <2> SUFFICES ASSUME StartupInv, StartupNext, NEW a \in Apps,
                      inFlight[a] # 0, inFlight'[a] # inFlight[a]
               PROVE  answers'[inFlight[a]] = answers[inFlight[a]] + 1
    BY Zenon
  <2>0. inFlight \in [Apps -> 0 .. MaxUninstalls] /\ answers \in [Ops -> Nat]
    BY Zenon DEF StartupInv, StartupTypes
  <2>1. CASE ExecuteUninstall
    BY Zenon, <2>0, <2>1 DEF ExecuteUninstall
  <2>2. CASE \E g \in Agents : FinishUninstall(g)
    <3>1. PICK g \in Agents : FinishUninstall(g)
      BY Zenon, <2>2
    <3>2. /\ inFlight[package[g[1]]] = g[1]
          /\ inFlight' = [inFlight EXCEPT ![package[g[1]]] = 0]
          /\ answers' = [answers EXCEPT ![g[1]] = @ + 1]
      BY Zenon, <3>1 DEF FinishUninstall, Report
    <3>3. a = package[g[1]] /\ g[1] \in Ops
      BY Zenon, <2>0, <3>2 DEF Agents
    <3> QED
      BY Zenon, <2>0, <3>2, <3>3
  <2>3. CASE ~ExecuteUninstall /\ ~(\E g \in Agents : FinishUninstall(g))
    <3>1. AgentStep => UNCHANGED inFlight
      BY Zenon, AgentsTyped DEF StartupInv, AgentEffect
    <3>2. ~AgentStep => UNCHANGED inFlight
      BY Zenon, <2>3
      DEF StartupNext, AgentStep, Agent, Reader, HandleStartupApp,
          ChangeStartupApp, DeleteApp, StartupAppSent, StartupAppNotSent,
          DeleteAppResult, Register, Reconnect, client
    <3> QED
      BY Zenon, <3>1, <3>2
  <2> QED
    BY Zenon, <2>1, <2>2, <2>3
<1> QED
  BY <1>1, StartupInvariance, PTL DEF StartupSpec, OwnerReleases


=============================================================================
