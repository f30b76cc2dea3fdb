---------------------- MODULE SwarmOrchestrationProofs ----------------------
(***************************************************************************)
(* Theorems about SwarmOrchestration, for any number of tasks, agents,     *)
(* starts and pauses: SwarmInvariant is inductive, and with it one loop    *)
(* drives the session, does not get lost, and leaves agents and board in   *)
(* agreement.                                                              *)
(***************************************************************************)
EXTENDS SwarmOrchestration, FiniteSetTheorems, FunctionTheorems, TLAPS

-----------------------------------------------------------------------------
(* Agents and their number *)

LEMMA Injects ==
    ASSUME NEW S, NEW T, IsFiniteSet(S), IsFiniteSet(T), Cardinality(S) <= Cardinality(T)
    PROVE  \E f \in [S -> T] : \A x, y \in S : f[x] = f[y] => x = y
  <1>1. /\ Cardinality(S) \in Nat /\ ExistsBijection(1 .. Cardinality(S), S)
        /\ Cardinality(T) \in Nat /\ ExistsBijection(1 .. Cardinality(T), T)
    BY FS_CardinalityType
  <1>2. ExistsInjection(S, 1 .. Cardinality(S)) BY <1>1, Fun_ExistsBijEquiv
  <1>3. ExistsInjection(1 .. Cardinality(S), 1 .. Cardinality(T)) BY <1>1, Fun_NatInjLeq
  <1>4. ExistsInjection(1 .. Cardinality(T), T) BY <1>1, Fun_ExistsBijEquiv
  <1>5. ExistsInjection(S, 1 .. Cardinality(T)) BY <1>2, <1>3, Fun_ExistsInjTransitive
  <1>6. ExistsInjection(S, T) BY <1>4, <1>5, Fun_ExistsInjTransitive
  <1>7. PICK f : f \in Injection(S, T) BY <1>6, Fun_ExistsInj
  <1>8. f \in [S -> T] /\ \A x, y \in S : f[x] = f[y] => x = y BY <1>7, Fun_InjectionProperties
  <1> QED BY <1>8

\* A function has at most as many values as arguments.
LEMMA FewValues ==
    ASSUME NEW S, NEW f, DOMAIN f = S, IsFiniteSet(S), f = [x \in S |-> f[x]]
    PROVE  /\ IsFiniteSet({f[x] : x \in S})
           /\ Cardinality({f[x] : x \in S}) <= Cardinality(S)
  <1> DEFINE T == {f[x] : x \in S}
  <1>1. f \in [S -> T] /\ \A y \in T : \E x \in S : f[x] = y OBVIOUS
  <1>2. f \in Surjection(S, T) BY <1>1, Fun_IsSurj
  <1> QED BY <1>2, FS_Surjection

\* The types of the agents, which the steps of tasks and agents keep.
AgentsFit ==
    /\ DOMAIN agents \subseteq Agent /\ Cardinality(DOMAIN agents) <= MaxAgents
    /\ agents \in [DOMAIN agents -> AgentRecord]

AgentsInvariant == Board!TypeOK /\ AgentsFit /\ UsedInOrder /\ WorkingAgentHasItsTask

LEMMA FewAgents ==
    ASSUME AgentsFit
    PROVE  IsFiniteSet(DOMAIN agents) /\ Room \in Nat /\ Room = MaxAgents - Cardinality(DOMAIN agents)
  <1>1. IsFiniteSet(DOMAIN agents) BY BoardAssumption, FS_Subset DEF AgentsFit
  <1>2. Cardinality(DOMAIN agents) \in Nat BY <1>1, FS_CardinalityType
  <1> QED BY <1>1, <1>2, SwarmAssumption DEF AgentsFit, Room

LEMMA FewTasks ==
    ASSUME Board!TypeOK
    PROVE  IsFiniteSet(DOMAIN tasks) /\ Cardinality(DOMAIN tasks) <= MaxTasks
  <1>1. IsFiniteSet(Task) /\ Cardinality(Task) = MaxTasks
    BY FS_Interval, SwarmAssumption DEF Task
  <1>2. DOMAIN tasks \subseteq Task BY DEF Board!TypeOK
  <1> QED BY <1>1, <1>2, FS_Subset

\* There are ids left for as many agents as there is room for.
LEMMA UnusedForRoom ==
    ASSUME Board!TypeOK, AgentsFit
    PROVE  IsFiniteSet(Unused) /\ Room <= Cardinality(Unused)
  <1> DEFINE assigned == [t \in DOMAIN tasks |-> tasks[t].assignedTo]
  <1> DEFINE owners == {assigned[t] : t \in DOMAIN tasks}
  <1>1. IsFiniteSet(DOMAIN agents) /\ Room = MaxAgents - Cardinality(DOMAIN agents) BY FewAgents
  <1>2. IsFiniteSet(DOMAIN tasks) /\ Cardinality(DOMAIN tasks) <= MaxTasks BY FewTasks
  <1>3. IsFiniteSet(owners) /\ Cardinality(owners) <= Cardinality(DOMAIN tasks)
    BY <1>2, FewValues
  <1>4. IsFiniteSet(Unused)
    <2>1. Unused \in SUBSET Agent BY DEF Unused
    <2> QED BY <2>1, BoardAssumption, FS_Subset
  <1>5. Agent \subseteq (Unused \union DOMAIN agents) \union owners BY DEF Unused, Exists
  <1> HIDE DEF owners
  <1>6. /\ IsFiniteSet(Unused \union DOMAIN agents)
        /\ Cardinality(Unused \union DOMAIN agents)
             = Cardinality(Unused) + Cardinality(DOMAIN agents) - Cardinality(Unused \intersect DOMAIN agents)
    BY <1>1, <1>4, FS_Union
  <1>7. /\ IsFiniteSet((Unused \union DOMAIN agents) \union owners)
        /\ Cardinality((Unused \union DOMAIN agents) \union owners)
             = Cardinality(Unused \union DOMAIN agents) + Cardinality(owners)
                 - Cardinality((Unused \union DOMAIN agents) \intersect owners)
    BY <1>3, <1>6, FS_Union
  <1>8. Cardinality(Agent) <= Cardinality((Unused \union DOMAIN agents) \union owners)
    BY <1>5, <1>7, FS_Subset
  <1>9. IsFiniteSet(Unused \intersect DOMAIN agents) /\ IsFiniteSet((Unused \union DOMAIN agents) \intersect owners)
    <2>1. Unused \intersect DOMAIN agents \in SUBSET Unused OBVIOUS
    <2>2. (Unused \union DOMAIN agents) \intersect owners \in SUBSET owners OBVIOUS
    <2> QED BY <1>3, <1>4, <2>1, <2>2, FS_Subset
  <1>10. /\ Cardinality(Unused \intersect DOMAIN agents) \in Nat
         /\ Cardinality((Unused \union DOMAIN agents) \intersect owners) \in Nat
         /\ Cardinality(Unused) \in Nat /\ Cardinality(DOMAIN agents) \in Nat
         /\ Cardinality(owners) \in Nat /\ Cardinality(DOMAIN tasks) \in Nat
         /\ Cardinality(Agent) \in Nat
    BY <1>1, <1>2, <1>3, <1>4, <1>9, BoardAssumption, FS_CardinalityType
  <1>11. Cardinality(Agent) <= Cardinality(Unused) + Cardinality(DOMAIN agents) + Cardinality(owners)
    BY <1>6, <1>7, <1>8, <1>10
  <1> QED BY <1>1, <1>2, <1>3, <1>4, <1>10, <1>11, SwarmAssumption

LEMMA AnUnusedIsUnused == ASSUME Board!TypeOK, AgentsFit, Room > 0 PROVE AnUnused \in Unused
  <1>1. Cardinality(Unused) # 0 /\ IsFiniteSet(Unused)
    <2>1. Room \in Nat BY FewAgents
    <2>2. IsFiniteSet(Unused) /\ Room <= Cardinality(Unused) BY UnusedForRoom
    <2>3. Cardinality(Unused) \in Nat BY <2>2, FS_CardinalityType
    <2> QED BY <2>1, <2>2, <2>3
  <1>2. Unused # {} BY <1>1, FS_EmptySet
  <1> QED BY <1>2 DEF AnUnused

-----------------------------------------------------------------------------
(* Tasks and the agents that work on them *)

LEMMA StatusGiven ==
    ASSUME NEW r \in Board!TaskRecord, NEW s \in Board!Status
    PROVE  /\ Board!WithStatus(r, s) \in Board!TaskRecord
           /\ Board!WithStatus(r, s).assignedTo = r.assignedTo
  <1>1. Board!ColumnForStatus(s) \in Board!Column
    BY DEF Board!ColumnForStatus, Board!Status, Board!Column
  <1> QED BY <1>1 DEF Board!WithStatus, Board!TaskRecord

\* Tasks that stay and keep their types.
LEMMA BecomesTypes ==
    ASSUME Board!TypeOK, NEW ts \in [DOMAIN tasks -> Board!TaskRecord], Board!Becomes(ts), UNCHANGED used
    PROVE  Board!TypeOK' /\ tasks' = ts
  <1>1. tasks' = ts /\ DOMAIN tasks' = DOMAIN tasks BY DEF Board!Becomes
  <1>2. columns' \in [Board!Column -> SUBSET Task] BY DEF Board!Becomes, Board!TypeOK
  <1> QED BY <1>1, <1>2 DEF Board!TypeOK

\* Agents that stay keep their task or are freed of it.
AgentsKeepTasks ==
    /\ DOMAIN agents' \subseteq DOMAIN agents
    /\ agents' \in [DOMAIN agents' -> AgentRecord]
    /\ \A a \in DOMAIN agents' : agents'[a].task \in {agents[a].task, NoTask}

\* No step takes its task from an agent that goes on with it.
LEMMA AgentsStay ==
    ASSUME AgentsInvariant, Board!TypeOK', UsedInOrder', AgentsKeepTasks,
           \A a \in DOMAIN agents', t \in DOMAIN tasks :
             agents'[a].task = t /\ tasks[t].assignedTo = a => t \in DOMAIN tasks' /\ tasks'[t].assignedTo = a
    PROVE  AgentsInvariant'
  <1>1. IsFiniteSet(DOMAIN agents) BY FewAgents DEF AgentsInvariant
  <1>2. DOMAIN agents' \subseteq DOMAIN agents BY DEF AgentsKeepTasks
  <1>3. Cardinality(DOMAIN agents') <= Cardinality(DOMAIN agents) BY <1>1, <1>2, FS_Subset
  <1>4. Cardinality(DOMAIN agents') \in Nat /\ Cardinality(DOMAIN agents) \in Nat
    BY <1>1, <1>2, FS_Subset, FS_CardinalityType
  <1>5. Cardinality(DOMAIN agents') <= MaxAgents
    BY <1>3, <1>4, SwarmAssumption DEF AgentsInvariant, AgentsFit
  <1>6. AgentsFit' BY <1>2, <1>5 DEF AgentsInvariant, AgentsFit, AgentsKeepTasks
  <1>7. WorkingAgentHasItsTask'
    <2> SUFFICES ASSUME NEW a \in DOMAIN agents', agents'[a].task # NoTask
                 PROVE  agents'[a].task \in DOMAIN tasks' /\ tasks'[agents'[a].task].assignedTo = a
      BY DEF WorkingAgentHasItsTask, Idle, Exists
    <2>1. a \in DOMAIN agents /\ agents'[a].task = agents[a].task BY DEF AgentsKeepTasks
    <2>2. agents[a].task \in DOMAIN tasks /\ tasks[agents[a].task].assignedTo = a
      BY <2>1 DEF AgentsInvariant, WorkingAgentHasItsTask, Idle, Exists
    <2> QED BY <2>1, <2>2
  <1> QED BY <1>6, <1>7 DEF AgentsInvariant

\* Agents are added, each with a task of its own or with none.
LEMMA AgentsSpawned ==
    ASSUME Board!TypeOK, AgentsFit, NEW A \in SUBSET Unused, IsFiniteSet(A), Cardinality(A) <= Room,
           NEW task, NEW reviewer \in BOOLEAN, \A a \in A : task[a] \in Task \union {NoTask},
           agents' = Spawned(A, task, reviewer)
    PROVE  AgentsFit'
  <1>1. IsFiniteSet(DOMAIN agents) /\ Room = MaxAgents - Cardinality(DOMAIN agents) BY FewAgents
  <1>2. DOMAIN agents' = DOMAIN agents \union A BY DEF Spawned
  <1>3. A \subseteq Agent BY DEF Unused
  <1>4. agents' \in [DOMAIN agents' -> AgentRecord]
    <2>1. \A a \in A : [task |-> task[a], reviewer |-> reviewer] \in AgentRecord BY DEF AgentRecord
    <2> QED BY <1>2, <2>1 DEF Spawned, AgentsFit
  <1>5. Cardinality(DOMAIN agents') <= MaxAgents
    <2>1. Cardinality(DOMAIN agents \union A)
            = Cardinality(DOMAIN agents) + Cardinality(A) - Cardinality(DOMAIN agents \intersect A)
      BY <1>1, FS_Union
    <2>2. Cardinality(DOMAIN agents \intersect A) \in Nat
      <3>1. DOMAIN agents \intersect A \in SUBSET A OBVIOUS
      <3> QED BY <3>1, FS_Subset, FS_CardinalityType
    <2>3. Cardinality(DOMAIN agents) \in Nat /\ Cardinality(A) \in Nat BY <1>1, FS_CardinalityType
    <2> QED BY <1>1, <1>2, <2>1, <2>2, <2>3, SwarmAssumption
  <1> QED BY <1>2, <1>3, <1>4, <1>5 DEF AgentsFit

\* An agent that is spawned without a task.
LEMMA IdleSpawned ==
    ASSUME AgentsInvariant, Room > 0, NEW reviewer \in BOOLEAN, UNCHANGED board,
           agents' = Spawned({AnUnused}, [a \in {AnUnused} |-> NoTask], reviewer)
    PROVE  AgentsInvariant'
  <1> USE DEF AgentsInvariant
  <1>1. AnUnused \in Unused BY AnUnusedIsUnused
  <1>2. IsFiniteSet({AnUnused}) /\ Cardinality({AnUnused}) = 1 BY FS_Singleton
  <1>3. Room \in Nat BY FewAgents
  <1>4. AgentsFit'
    <2>1. \A a \in {AnUnused} : [x \in {AnUnused} |-> NoTask][a] \in Task \union {NoTask} OBVIOUS
    <2> QED BY <1>1, <1>2, <1>3, <2>1, AgentsSpawned
  <1>5. Board!TypeOK' /\ UsedInOrder' BY DEF board, Board!TypeOK, UsedInOrder, LastTask
  <1>6. WorkingAgentHasItsTask'
    BY DEF WorkingAgentHasItsTask, Idle, Exists, Spawned, board
  <1> QED BY <1>4, <1>5, <1>6

LEMMA AllAgentsGone ==
    ASSUME AgentsInvariant, agents' = NoAgents, Board!TypeOK', UsedInOrder'
    PROVE  AgentsInvariant'
  <1>1. DOMAIN agents' = {} /\ agents' \in [{} -> AgentRecord] BY DEF NoAgents
  <1>2. Cardinality(DOMAIN agents') <= MaxAgents BY <1>1, FS_EmptySet, SwarmAssumption
  <1> QED BY <1>1, <1>2 DEF AgentsInvariant, AgentsFit, WorkingAgentHasItsTask

LEMMA BoardUnchanged ==
    ASSUME AgentsInvariant, UNCHANGED board PROVE Board!TypeOK' /\ UsedInOrder'
  BY DEF AgentsInvariant, board, Board!TypeOK, UsedInOrder, LastTask

LEMMA AgentsUnchanged ==
    ASSUME AgentsInvariant, UNCHANGED <<board, agents>> PROVE AgentsInvariant'
  BY BoardUnchanged DEF AgentsInvariant, board, AgentsFit, WorkingAgentHasItsTask, Idle, Exists

\* assignedTo of the tasks that stay, and which they are, decides the rest.
LEMMA TasksStay ==
    ASSUME AgentsInvariant, UNCHANGED agents, Board!TypeOK', UsedInOrder',
           DOMAIN tasks \subseteq DOMAIN tasks',
           \A t \in DOMAIN tasks : tasks[t].assignedTo \in {tasks'[t].assignedTo, Board!Nobody}
    PROVE  AgentsInvariant'
  <1>1. AgentsKeepTasks BY DEF AgentsInvariant, AgentsFit, AgentsKeepTasks
  <1>2. Board!Nobody \notin DOMAIN agents BY BoardAssumption DEF AgentsInvariant, AgentsFit
  <1> QED BY <1>1, <1>2, AgentsStay

\* One task gets a new record.
LEMMA UpdateTypes ==
    ASSUME Board!TypeOK, UsedInOrder, NEW t \in DOMAIN tasks, NEW r \in Board!TaskRecord,
           Board!Update(t, r), UNCHANGED used
    PROVE  /\ Board!TypeOK' /\ UsedInOrder' /\ DOMAIN tasks' = DOMAIN tasks
           /\ \A x \in DOMAIN tasks : tasks'[x] = IF x = t THEN r ELSE tasks[x]
  <1>1. [tasks EXCEPT ![t] = r] \in [DOMAIN tasks -> Board!TaskRecord] BY DEF Board!TypeOK
  <1>2. Board!TypeOK' /\ tasks' = [tasks EXCEPT ![t] = r] BY <1>1, BecomesTypes DEF Board!Update
  <1>3. UsedInOrder' BY DEF UsedInOrder, LastTask
  <1>4. tasks = [x \in DOMAIN tasks |-> tasks[x]] BY DEF Board!TypeOK
  <1> QED BY <1>2, <1>3, <1>4

LEMMA UpdateTaskAgents ==
    ASSUME AgentsInvariant, NEW t \in Task, NEW s \in ManualStatus, UpdateTask(t, s)
    PROVE  AgentsInvariant'
  <1>1. /\ t \in DOMAIN tasks /\ Board!Update(t, Board!WithStatus(tasks[t], s))
        /\ UNCHANGED used /\ UNCHANGED agents
    BY DEF UpdateTask, Board!UpdateTask, Board!Exists
  <1>2. tasks[t] \in Board!TaskRecord /\ s \in Board!Status
    BY <1>1, BoardAssumption DEF AgentsInvariant, Board!TypeOK
  <1>3. /\ Board!WithStatus(tasks[t], s) \in Board!TaskRecord
        /\ Board!WithStatus(tasks[t], s).assignedTo = tasks[t].assignedTo
    BY <1>2, StatusGiven
  <1>4. /\ Board!TypeOK' /\ UsedInOrder' /\ DOMAIN tasks' = DOMAIN tasks
        /\ \A x \in DOMAIN tasks : tasks'[x] = IF x = t THEN Board!WithStatus(tasks[t], s) ELSE tasks[x]
    BY <1>1, <1>3, UpdateTypes DEF AgentsInvariant
  <1> QED BY <1>1, <1>3, <1>4, TasksStay

LEMMA AssignTaskAgents ==
    ASSUME AgentsInvariant, NEW t \in Task,
           NEW a \in DOMAIN agents \union {x \in Unused : x = AnUnused}, AssignTask(t, a)
    PROVE  AgentsInvariant'
  <1> DEFINE r == [Board!WithStatus(tasks[t], "assigned") EXCEPT !.assignedTo = a]
  <1>1. /\ t \in DOMAIN tasks /\ tasks[t].assignedTo = Board!Nobody
        /\ Board!Update(t, r) /\ UNCHANGED used
        /\ agents' = IF Exists(a) THEN [agents EXCEPT ![a].task = t] ELSE agents
    BY DEF AssignTask, Board!AssignTask, Board!Exists
  <1>2. tasks[t] \in Board!TaskRecord /\ "assigned" \in Board!Status /\ a \in Agent
    BY <1>1 DEF AgentsInvariant, AgentsFit, Board!TypeOK, Unused, Board!Status
  <1>3. r \in Board!TaskRecord /\ r.assignedTo = a
    <2>1. Board!WithStatus(tasks[t], "assigned") \in Board!TaskRecord BY <1>2, StatusGiven
    <2> QED BY <1>2, <2>1 DEF Board!TaskRecord
  <1> HIDE DEF r
  <1>4. /\ Board!TypeOK' /\ UsedInOrder' /\ DOMAIN tasks' = DOMAIN tasks
        /\ \A x \in DOMAIN tasks : tasks'[x] = IF x = t THEN r ELSE tasks[x]
    BY <1>1, <1>3, UpdateTypes DEF AgentsInvariant
  <1>5. CASE ~ Exists(a) BY <1>1, <1>3, <1>4, <1>5, TasksStay
  <1>6. CASE Exists(a)
    <2>1. /\ DOMAIN agents' = DOMAIN agents /\ agents'[a].task = t
          /\ \A b \in DOMAIN agents : b # a => agents'[b] = agents[b]
      BY <1>1, <1>6 DEF Exists, AgentsInvariant, AgentsFit, AgentRecord
    <2>2. agents' \in [DOMAIN agents -> AgentRecord]
      BY <1>1, <1>6 DEF Exists, AgentsInvariant, AgentsFit, AgentRecord
    <2>3. AgentsFit' BY <2>1, <2>2 DEF AgentsInvariant, AgentsFit
    <2>4. WorkingAgentHasItsTask'
      <3> SUFFICES ASSUME NEW b \in DOMAIN agents, agents'[b].task # NoTask
                   PROVE  agents'[b].task \in DOMAIN tasks /\ tasks'[agents'[b].task].assignedTo = b
        BY <1>4, <2>1 DEF WorkingAgentHasItsTask, Idle, Exists
      <3>1. CASE b = a BY <1>1, <1>3, <1>4, <2>1, <3>1
      <3>2. CASE b # a
        <4>1. agents[b].task \in DOMAIN tasks /\ tasks[agents[b].task].assignedTo = b
          BY <2>1, <3>2 DEF AgentsInvariant, WorkingAgentHasItsTask, Idle, Exists
        <4>2. b # Board!Nobody BY BoardAssumption DEF AgentsInvariant, AgentsFit
        <4> QED BY <1>1, <1>4, <2>1, <3>2, <4>1, <4>2
      <3> QED BY <3>1, <3>2
    <2> QED BY <1>4, <2>3, <2>4 DEF AgentsInvariant
  <1> QED BY <1>5, <1>6

\* The agent of a task that is completed or failed is freed of whatever it works on.
LEMMA FreedAgent ==
    ASSUME AgentsInvariant, NEW t \in DOMAIN tasks, FreesAgent(t)
    PROVE  /\ AgentsKeepTasks /\ DOMAIN agents' = DOMAIN agents
           /\ \A a \in DOMAIN agents : tasks[t].assignedTo = a => agents'[a].task = NoTask
  <1>1. CASE tasks[t].assignedTo = Board!Nobody
    <2>1. UNCHANGED agents BY <1>1 DEF FreesAgent
    <2>2. Board!Nobody \notin DOMAIN agents BY BoardAssumption DEF AgentsInvariant, AgentsFit
    <2> QED BY <1>1, <2>1, <2>2 DEF AgentsKeepTasks, AgentsInvariant, AgentsFit
  <1>2. CASE tasks[t].assignedTo # Board!Nobody
    <2>1. /\ tasks[t].assignedTo \in DOMAIN agents
          /\ agents' = [agents EXCEPT ![tasks[t].assignedTo].task = NoTask]
      BY <1>2 DEF FreesAgent, Freed, Exists
    <2> QED BY <2>1 DEF AgentsKeepTasks, AgentsInvariant, AgentsFit, AgentRecord
  <1> QED BY <1>1, <1>2

LEMMA CompleteTaskAgents ==
    ASSUME AgentsInvariant, NEW t \in Task, CompleteTask(t) PROVE AgentsInvariant'
  <1> DEFINE ts == [x \in DOMAIN tasks |->
                      IF x = t THEN Board!WithStatus(tasks[t], "complete")
                      ELSE IF x \in Board!Released(t) THEN Board!WithStatus(tasks[x], "ready")
                      ELSE tasks[x]]
  <1>1. t \in DOMAIN tasks /\ Board!Becomes(ts) /\ UNCHANGED used /\ FreesAgent(t)
    BY DEF CompleteTask, Board!CompleteTask, Board!Exists
  <1>2. ASSUME NEW x \in DOMAIN tasks
        PROVE  ts[x] \in Board!TaskRecord /\ ts[x].assignedTo = tasks[x].assignedTo
    <2>1. tasks[x] \in Board!TaskRecord BY DEF AgentsInvariant, Board!TypeOK
    <2>2. "complete" \in Board!Status /\ "ready" \in Board!Status BY DEF Board!Status
    <2>3. \A s \in Board!Status : /\ Board!WithStatus(tasks[x], s) \in Board!TaskRecord
                                  /\ Board!WithStatus(tasks[x], s).assignedTo = tasks[x].assignedTo
      BY <2>1, StatusGiven
    <2> QED BY <2>1, <2>2, <2>3
  <1>3. ts \in [DOMAIN tasks -> Board!TaskRecord] BY <1>2
  <1> HIDE DEF ts
  <1>4. Board!TypeOK' /\ tasks' = ts BY <1>1, <1>3, BecomesTypes DEF AgentsInvariant
  <1>5. UsedInOrder' BY <1>1 DEF AgentsInvariant, UsedInOrder, LastTask
  <1>6. AgentsKeepTasks BY <1>1, FreedAgent
  <1>7. \A x \in DOMAIN tasks : x \in DOMAIN tasks' /\ tasks'[x].assignedTo = tasks[x].assignedTo
    BY <1>2, <1>3, <1>4
  <1> QED BY <1>4, <1>5, <1>6, <1>7, AgentsStay

LEMMA FailTaskAgents ==
    ASSUME AgentsInvariant, NEW t \in Task, FailTask(t) PROVE AgentsInvariant'
  <1> DEFINE r == IF tasks[t].attempts + 1 >= MaxAttempts
                    THEN [Board!WithStatus(tasks[t], "failed") EXCEPT !.attempts = MaxAttempts]
                    ELSE Board!Retry(t)
  <1>1. t \in DOMAIN tasks /\ Board!Update(t, r) /\ UNCHANGED used /\ FreesAgent(t)
    BY DEF FailTask, Board!FailTask, Board!Exists
  <1>2. tasks[t] \in Board!TaskRecord BY <1>1 DEF AgentsInvariant, Board!TypeOK
  <1>3. r \in Board!TaskRecord
    <2>1. "failed" \in Board!Status /\ "ready" \in Board!Status BY DEF Board!Status
    <2>2. /\ Board!WithStatus(tasks[t], "failed") \in Board!TaskRecord
          /\ Board!WithStatus(tasks[t], "ready") \in Board!TaskRecord
      BY <1>2, <2>1, StatusGiven
    <2>3. tasks[t].attempts \in 0 .. MaxAttempts BY <1>2 DEF Board!TaskRecord
    <2>4. CASE tasks[t].attempts + 1 >= MaxAttempts
      BY <2>2, <2>4, BoardAssumption DEF Board!TaskRecord
    <2>5. CASE ~ tasks[t].attempts + 1 >= MaxAttempts
      <3>1. Board!WithStatus(tasks[t], "ready").attempts = tasks[t].attempts
        BY <1>2 DEF Board!WithStatus, Board!TaskRecord
      <3>2. tasks[t].attempts + 1 \in 0 .. MaxAttempts BY <2>3, <2>5, BoardAssumption
      <3> QED BY <2>2, <2>5, <3>1, <3>2 DEF Board!TaskRecord, Board!Retry
    <2> QED BY <2>4, <2>5
  <1> HIDE DEF r
  <1>4. /\ Board!TypeOK' /\ UsedInOrder' /\ DOMAIN tasks' = DOMAIN tasks
        /\ \A x \in DOMAIN tasks : tasks'[x] = IF x = t THEN r ELSE tasks[x]
    BY <1>1, <1>3, UpdateTypes DEF AgentsInvariant
  <1>5. AgentsKeepTasks /\ DOMAIN agents' = DOMAIN agents
        /\ \A a \in DOMAIN agents : tasks[t].assignedTo = a => agents'[a].task = NoTask
    BY <1>1, FreedAgent
  <1>6. ASSUME NEW a \in DOMAIN agents', NEW x \in DOMAIN tasks,
               agents'[a].task = x, tasks[x].assignedTo = a
        PROVE  x \in DOMAIN tasks' /\ tasks'[x].assignedTo = a
    <2>1. x # NoTask BY DEF AgentsInvariant, Board!TypeOK, Task, NoTask
    <2>2. x # t BY <1>5, <1>6, <2>1
    <2> QED BY <1>4, <1>6, <2>2
  <1> QED BY <1>4, <1>5, <1>6, AgentsStay

\* The tasks 1 .. n are taken once those up to n have been created.
LEMMA NewIds ==
    ASSUME Board!TypeOK, UsedInOrder
    PROVE  /\ LastTask \in 0 .. MaxTasks /\ used = 1 .. LastTask
           /\ \A n \in LastTask .. MaxTasks :
                /\ used \union ((LastTask + 1) .. n) = 1 .. n
                /\ Cardinality(1 .. n) = n /\ 1 .. n \subseteq Task
  <1>1. IsFiniteSet(Task) /\ Cardinality(Task) = MaxTasks BY FS_Interval, SwarmAssumption DEF Task
  <1>2. IsFiniteSet(used) /\ Cardinality(used) <= Cardinality(Task)
    BY <1>1, FS_Subset DEF Board!TypeOK
  <1>3. LastTask \in 0 .. MaxTasks
    <2>1. Cardinality(used) \in Nat BY <1>2, FS_CardinalityType
    <2> QED BY <1>1, <1>2, <2>1, SwarmAssumption DEF LastTask
  <1>4. \A n \in 0 .. MaxTasks : Cardinality(1 .. n) = n BY FS_Interval, SwarmAssumption
  <1> QED BY <1>3, <1>4, SwarmAssumption DEF UsedInOrder, Task

\* Tasks are added to the board, whose others keep their agents.
LEMMA TasksAdded ==
    ASSUME AgentsInvariant, UNCHANGED agents, NEW n \in LastTask .. MaxTasks,
           NEW new \in [(LastTask + 1) .. n -> Board!TaskRecord], NEW ts \in [DOMAIN tasks -> Board!TaskRecord],
           \A t \in DOMAIN tasks : ts[t].assignedTo = tasks[t].assignedTo,
           tasks' = [t \in DOMAIN tasks \union ((LastTask + 1) .. n) |->
                       IF t \in (LastTask + 1) .. n THEN new[t] ELSE ts[t]],
           columns' \in [Board!Column -> SUBSET Task],
           used' = used \union ((LastTask + 1) .. n)
    PROVE  AgentsInvariant'
  <1>1. /\ LastTask \in 0 .. MaxTasks /\ used = 1 .. LastTask
        /\ used' = 1 .. n /\ Cardinality(1 .. n) = n /\ 1 .. n \subseteq Task
    BY NewIds DEF AgentsInvariant
  <1>2. DOMAIN tasks \subseteq 1 .. LastTask BY <1>1 DEF AgentsInvariant, Board!TypeOK
  <1>3. DOMAIN tasks' = DOMAIN tasks \union ((LastTask + 1) .. n) /\ DOMAIN tasks' \subseteq used'
    BY <1>1, <1>2, SwarmAssumption
  <1>4. tasks' \in [DOMAIN tasks' -> Board!TaskRecord] OBVIOUS
  <1>5. Board!TypeOK' BY <1>1, <1>3, <1>4 DEF Board!TypeOK
  <1>6. UsedInOrder' BY <1>1 DEF UsedInOrder, LastTask
  <1>7. \A t \in DOMAIN tasks : t \in DOMAIN tasks' /\ tasks'[t].assignedTo = tasks[t].assignedTo
    BY <1>1, <1>2, <1>3
  <1> QED BY <1>5, <1>6, <1>7, TasksStay

LEMMA CreateTaskAgents ==
    ASSUME AgentsInvariant, NEW deps \in SUBSET Task, CreateTask(deps) PROVE AgentsInvariant'
  <1> DEFINE n == LastTask + 1
  <1> DEFINE s == IF Board!AllComplete(deps) THEN "ready" ELSE "pending"
  <1> DEFINE column == Board!ColumnForStatus(s)
  <1> DEFINE record == [status |-> s, column |-> column, assignedTo |-> Board!Nobody,
                        attempts |-> 0, blockedBy |-> deps, blocks |-> {}]
  <1> DEFINE new == [x \in (LastTask + 1) .. n |-> record]
  <1> DEFINE ts == [x \in DOMAIN tasks |->
                      IF x \in deps THEN [tasks[x] EXCEPT !.blocks = @ \union {n}] ELSE tasks[x]]
  <1>1. /\ n \in Task \ used /\ used' = used \union {n} /\ UNCHANGED agents
        /\ columns' = [columns EXCEPT ![column] = @ \union {n}]
        /\ tasks' = [x \in DOMAIN tasks \union {n} |->
                       IF x = n THEN record
                       ELSE IF x \in deps THEN [tasks[x] EXCEPT !.blocks = @ \union {n}] ELSE tasks[x]]
    BY DEF CreateTask, Board!CreateTask
  <1>2. LastTask \in 0 .. MaxTasks BY NewIds DEF AgentsInvariant
  <1>3. n \in LastTask .. MaxTasks /\ (LastTask + 1) .. n = {n} BY <1>1, <1>2, SwarmAssumption DEF Task
  <1>4. column \in Board!Column /\ record \in Board!TaskRecord
    <2>1. s \in Board!Status BY DEF Board!Status
    <2>2. column \in Board!Column BY DEF Board!ColumnForStatus, Board!Column
    <2> QED BY <2>1, <2>2, BoardAssumption DEF Board!TaskRecord
  <1>5. ASSUME NEW x \in DOMAIN tasks
        PROVE  ts[x] \in Board!TaskRecord /\ ts[x].assignedTo = tasks[x].assignedTo
    <2>1. tasks[x] \in Board!TaskRecord BY DEF AgentsInvariant, Board!TypeOK
    <2> QED BY <1>1, <2>1 DEF Board!TaskRecord
  <1> HIDE DEF column, record, s
  <1>6. tasks' = [x \in DOMAIN tasks \union ((LastTask + 1) .. n) |->
                    IF x \in (LastTask + 1) .. n THEN new[x] ELSE ts[x]]
    BY <1>1, <1>3
  <1>7. columns' \in [Board!Column -> SUBSET Task] BY <1>1, <1>4 DEF AgentsInvariant, Board!TypeOK
  <1>8. new \in [(LastTask + 1) .. n -> Board!TaskRecord] BY <1>4
  <1>9. ts \in [DOMAIN tasks -> Board!TaskRecord] BY <1>5
  <1>10. used' = used \union ((LastTask + 1) .. n) /\ UNCHANGED agents BY <1>1, <1>3
  <1>11. \A x \in DOMAIN tasks : ts[x].assignedTo = tasks[x].assignedTo BY <1>5
  <1>12. n \in LastTask .. MaxTasks BY <1>3
  <1> HIDE DEF new, ts, n
  <1> QED BY <1>6, <1>7, <1>8, <1>9, <1>10, <1>11, <1>12, TasksAdded

LEMMA CreateAllAgents ==
    ASSUME AgentsInvariant, NEW n \in 0 .. MaxTasks, LastTask <= n,
           CreateAll((LastTask + 1) .. n), UNCHANGED agents
    PROVE  AgentsInvariant'
  <1> DEFINE S == (LastTask + 1) .. n
  <1> DEFINE record == [status |-> "ready", column |-> "ready", assignedTo |-> Board!Nobody,
                        attempts |-> 0, blockedBy |-> {}, blocks |-> {}]
  <1> DEFINE new == [t \in S |-> record]
  <1>1. /\ used' = used \union S /\ columns' = [columns EXCEPT !["ready"] = @ \union S]
        /\ tasks' = [t \in DOMAIN tasks \union S |-> IF t \in S THEN new[t] ELSE tasks[t]]
    BY DEF CreateAll
  <1>2. LastTask \in 0 .. MaxTasks BY NewIds DEF AgentsInvariant
  <1>3. n \in LastTask .. MaxTasks /\ S \subseteq Task BY <1>2, SwarmAssumption DEF Task
  <1>4. record \in Board!TaskRecord
    BY BoardAssumption DEF Board!TaskRecord, Board!Status, Board!Column
  <1>5. new \in [S -> Board!TaskRecord] /\ tasks \in [DOMAIN tasks -> Board!TaskRecord]
    BY <1>4 DEF AgentsInvariant, Board!TypeOK
  <1>6. columns' \in [Board!Column -> SUBSET Task]
    BY <1>1, <1>3 DEF AgentsInvariant, Board!TypeOK
  <1> HIDE DEF new
  <1> QED BY <1>1, <1>3, <1>5, <1>6, TasksAdded

LEMMA SpawnAgentAgents ==
    ASSUME AgentsInvariant, NEW r \in BOOLEAN, SpawnAgent(r) PROVE AgentsInvariant'
  BY IdleSpawned DEF SpawnAgent

LEMMA TerminateAgentAgents ==
    ASSUME AgentsInvariant, NEW a \in Agent, TerminateAgent(a) PROVE AgentsInvariant'
  <1>1. agents' = [x \in DOMAIN agents \ {a} |-> agents[x]] /\ UNCHANGED board
    BY DEF TerminateAgent
  <1>2. AgentsKeepTasks BY <1>1 DEF AgentsKeepTasks, AgentsInvariant, AgentsFit
  <1> QED BY <1>1, <1>2, BoardUnchanged, AgentsStay DEF board

LEMMA DeleteSessionAgents ==
    ASSUME AgentsInvariant, DeleteSession PROVE AgentsInvariant'
  <1>1. /\ tasks' = [t \in {} |-> {}] /\ columns' = [c \in Board!Column |-> {}]
        /\ agents' = NoAgents /\ UNCHANGED used
    BY DEF DeleteSession
  <1>2. DOMAIN tasks' = {} /\ tasks' \in [{} -> Board!TaskRecord] BY <1>1
  <1>3. Board!TypeOK' BY <1>1, <1>2 DEF AgentsInvariant, Board!TypeOK
  <1>4. UsedInOrder' BY <1>1 DEF AgentsInvariant, UsedInOrder, LastTask
  <1> QED BY <1>1, <1>3, <1>4, AllAgentsGone

LEMMA CancelSwarmAgents == ASSUME AgentsInvariant, CancelSwarm PROVE AgentsInvariant'
  BY BoardUnchanged, AllAgentsGone DEF CancelSwarm

-----------------------------------------------------------------------------
(* What an iteration does to tasks and agents *)

\* The tasks S go to the agents agentOf, one each.
Delegates(S, agentOf) ==
    LET A == {agentOf[t] : t \in S}
    IN /\ Board!Becomes([t \in DOMAIN tasks |->
            IF t \in S THEN [Board!WithStatus(tasks[t], "assigned") EXCEPT !.assignedTo = agentOf[t]]
            ELSE tasks[t]])
       /\ agents' = Spawned(A, [a \in A |-> CHOOSE t \in S : agentOf[t] = a], FALSE)
       /\ UNCHANGED used

LEMMA Delegated ==
    ASSUME AgentsInvariant, NEW objs, NEW o, NEW s, DelegatingPhase(objs, o, s)
    PROVE  \E S \in SUBSET ReadyUnassigned : \E agentOf \in [S -> Unused] :
             /\ IsFiniteSet(S) /\ Cardinality(S) <= Room
             /\ \A t, u \in S : agentOf[t] = agentOf[u] => t = u
             /\ Delegates(S, agentOf)
  <1>1. PICK S \in SUBSET ReadyUnassigned :
          /\ Cardinality(S) = IF Cardinality(ReadyUnassigned) < Room
                                THEN Cardinality(ReadyUnassigned) ELSE Room
          /\ LET agentOf == CHOOSE f \in [S -> Unused] : \A t, u \in S : f[t] = f[u] => t = u
             IN Delegates(S, agentOf)
    BY DEF DelegatingPhase, Delegates
  <1> DEFINE agentOf == CHOOSE f \in [S -> Unused] : \A t, u \in S : f[t] = f[u] => t = u
  <1>2. IsFiniteSet(S) /\ Cardinality(S) <= Room
    <2>1. IsFiniteSet(ReadyUnassigned)
      <3>1. ReadyUnassigned \in SUBSET DOMAIN tasks BY DEF ReadyUnassigned
      <3> QED BY <3>1, FewTasks, FS_Subset DEF AgentsInvariant
    <2>2. IsFiniteSet(S) BY <2>1, FS_Subset
    <2>3. Cardinality(ReadyUnassigned) \in Nat BY <2>1, FS_CardinalityType
    <2>4. Room \in Nat BY FewAgents DEF AgentsInvariant
    <2> QED BY <1>1, <2>2, <2>3, <2>4
  <1>3. agentOf \in [S -> Unused] /\ \A t, u \in S : agentOf[t] = agentOf[u] => t = u
    <2>1. IsFiniteSet(Unused) /\ Room <= Cardinality(Unused) /\ Room \in Nat
      BY UnusedForRoom, FewAgents DEF AgentsInvariant
    <2>2. Cardinality(S) <= Cardinality(Unused)
      <3>1. Cardinality(S) \in Nat /\ Cardinality(Unused) \in Nat BY <1>2, <2>1, FS_CardinalityType
      <3> QED BY <1>2, <2>1, <3>1
    <2>3. \E f \in [S -> Unused] : \A t, u \in S : f[t] = f[u] => t = u
      BY <1>2, <2>1, <2>2, Injects
    <2> QED BY <2>3
  <1>4. Delegates(S, agentOf) BY <1>1
  <1> HIDE DEF agentOf
  <1> QED BY <1>2, <1>3, <1>4

LEMMA DelegatingAgents ==
    ASSUME AgentsInvariant, NEW objs, NEW o, NEW s, DelegatingPhase(objs, o, s)
    PROVE  AgentsInvariant'
  <1>1. PICK S \in SUBSET ReadyUnassigned : \E agentOf \in [S -> Unused] :
          /\ IsFiniteSet(S) /\ Cardinality(S) <= Room
          /\ \A t, u \in S : agentOf[t] = agentOf[u] => t = u
          /\ Delegates(S, agentOf)
    BY Delegated
  <1>2. PICK agentOf \in [S -> Unused] :
          /\ IsFiniteSet(S) /\ Cardinality(S) <= Room
          /\ \A t, u \in S : agentOf[t] = agentOf[u] => t = u
          /\ Delegates(S, agentOf)
    BY <1>1
  <1>3. IsFiniteSet(S) /\ Cardinality(S) <= Room BY <1>2
  <1> DEFINE A == {agentOf[t] : t \in S}
  <1> DEFINE task == [a \in A |-> CHOOSE t \in S : agentOf[t] = a]
  <1> DEFINE ts == [t \in DOMAIN tasks |->
                     IF t \in S THEN [Board!WithStatus(tasks[t], "assigned")
                                        EXCEPT !.assignedTo = agentOf[t]]
                     ELSE tasks[t]]
  <1>4. S \subseteq DOMAIN tasks /\ \A t \in S : tasks[t].assignedTo = Board!Nobody
    BY DEF ReadyUnassigned
  <1>5. Board!Becomes(ts) /\ agents' = Spawned(A, task, FALSE) /\ UNCHANGED used BY <1>2 DEF Delegates
  <1>6. A \in SUBSET Unused BY <1>2
  <1>7. IsFiniteSet(A) /\ Cardinality(A) <= Room
    <2>1. agentOf = [t \in S |-> agentOf[t]] /\ DOMAIN agentOf = S BY <1>2
    <2>2. IsFiniteSet(A) /\ Cardinality(A) <= Cardinality(S) BY <1>3, <2>1, FewValues
    <2>3. Cardinality(A) \in Nat /\ Cardinality(S) \in Nat /\ Room \in Nat
      BY <1>3, <2>2, FS_CardinalityType, FewAgents DEF AgentsInvariant
    <2> QED BY <1>3, <2>2, <2>3
  <1>8. \A a \in A : task[a] \in S /\ agentOf[task[a]] = a OBVIOUS
  <1>9. ASSUME NEW t \in DOMAIN tasks
        PROVE  /\ ts[t] \in Board!TaskRecord
               /\ ts[t].assignedTo = IF t \in S THEN agentOf[t] ELSE tasks[t].assignedTo
    <2>1. tasks[t] \in Board!TaskRecord BY DEF AgentsInvariant, Board!TypeOK
    <2>2. "assigned" \in Board!Status BY DEF Board!Status
    <2>3. Board!WithStatus(tasks[t], "assigned") \in Board!TaskRecord BY <2>1, <2>2, StatusGiven
    <2>4. t \in S => agentOf[t] \in Agent BY <1>2 DEF Unused
    <2> QED BY <2>1, <2>3, <2>4 DEF Board!TaskRecord
  <1>10. ts \in [DOMAIN tasks -> Board!TaskRecord] BY <1>9
  <1> HIDE DEF ts, task, A
  <1>11. Board!TypeOK' /\ tasks' = ts BY <1>5, <1>10, BecomesTypes DEF AgentsInvariant
  <1>12. UsedInOrder' BY <1>5 DEF AgentsInvariant, UsedInOrder, LastTask
  <1>13. AgentsFit'
    <2>1. \A a \in A : task[a] \in Task \union {NoTask} BY <1>4, <1>8 DEF AgentsInvariant, Board!TypeOK
    <2> QED BY <1>5, <1>6, <1>7, <2>1, AgentsSpawned DEF AgentsInvariant
  <1>14. WorkingAgentHasItsTask'
    <2> SUFFICES ASSUME NEW a \in DOMAIN agents', agents'[a].task # NoTask
                 PROVE  agents'[a].task \in DOMAIN tasks' /\ tasks'[agents'[a].task].assignedTo = a
      BY DEF WorkingAgentHasItsTask, Idle, Exists
    <2>1. CASE a \in A
      <3>1. agents'[a].task = task[a] BY <1>5, <2>1 DEF Spawned
      <3> QED BY <1>4, <1>8, <1>9, <1>10, <1>11, <2>1, <3>1
    <2>2. CASE a \notin A
      <3>1. a \in DOMAIN agents /\ agents'[a] = agents[a] BY <1>5, <2>2 DEF Spawned
      <3>2. agents[a].task \in DOMAIN tasks /\ tasks[agents[a].task].assignedTo = a
        BY <3>1 DEF AgentsInvariant, WorkingAgentHasItsTask, Idle, Exists
      <3>3. a # Board!Nobody BY <3>1, BoardAssumption DEF AgentsInvariant, AgentsFit
      <3>4. agents[a].task \notin S BY <1>4, <3>2, <3>3
      <3> QED BY <1>9, <1>10, <1>11, <3>1, <3>2, <3>4
    <2> QED BY <2>1, <2>2
  <1> QED BY <1>11, <1>12, <1>13, <1>14 DEF AgentsInvariant

LEMMA ReviewingAgents ==
    ASSUME AgentsInvariant, NEW objs, NEW o, NEW s, ReviewingPhase(objs, o, s)
    PROVE  AgentsInvariant'
  <1>1. CASE UNCHANGED agents BY <1>1, AgentsUnchanged DEF ReviewingPhase
  <1>2. CASE Room > 0 /\ agents' = Spawned({AnUnused}, [a \in {AnUnused} |-> NoTask], TRUE)
    BY <1>2, IdleSpawned DEF ReviewingPhase
  <1> QED BY <1>1, <1>2 DEF ReviewingPhase

LEMMA LoopAgents ==
    ASSUME AgentsInvariant, NEW objs, NEW o, NEW s, Loop(objs, o, s)
    PROVE  AgentsInvariant'
  <1>1. \/ DelegatingPhase(objs, o, s) \/ ReviewingPhase(objs, o, s)
        \/ SynthesizingPhase(objs, o, s) \/ UNCHANGED <<board, agents>>
    BY DEF Loop, PlanningPhase, ExecutionPhase
  <1>2. CASE SynthesizingPhase(objs, o, s)
    BY <1>2, BoardUnchanged, AllAgentsGone DEF SynthesizingPhase
  <1> QED BY <1>1, <1>2, DelegatingAgents, ReviewingAgents, AgentsUnchanged

LEMMA AgentsStep == ASSUME AgentsInvariant, [Next]_vars PROVE AgentsInvariant'
  <1>1. ASSUME NEW o \in DOMAIN objects, OrchestrationTimer(o) PROVE AgentsInvariant'
    BY <1>1, LoopAgents DEF OrchestrationTimer
  <1>2. ASSUME NEW o \in DOMAIN objects, NEW n \in 0 .. MaxTasks, PlanningAnswered(o, n)
        PROVE  AgentsInvariant'
    <2>1. CASE UNCHANGED board BY <1>2, <2>1, AgentsUnchanged DEF PlanningAnswered
    <2>2. CASE ~ UNCHANGED board BY <1>2, <2>2, CreateAllAgents DEF PlanningAnswered
    <2> QED BY <2>1, <2>2
  <1>3. CASE StartSwarm BY <1>3, LoopAgents DEF StartSwarm
  <1>4. CASE PauseSwarm BY <1>4, AgentsUnchanged DEF PauseSwarm
  <1>5. CASE ResumeSwarm BY <1>5, LoopAgents, AgentsUnchanged DEF ResumeSwarm
  <1>6. CASE UNCHANGED vars BY <1>6, AgentsUnchanged DEF vars
  <1> QED BY <1>1, <1>2, <1>3, <1>4, <1>5, <1>6, CancelSwarmAgents, DeleteSessionAgents,
             CreateTaskAgents, UpdateTaskAgents, AssignTaskAgents, CompleteTaskAgents,
             FailTaskAgents, SpawnAgentAgents, TerminateAgentAgents DEF Next

-----------------------------------------------------------------------------
(* The loop of the lead agent *)

LEMMA Transits ==
    /\ DOMAIN Transitions =
         {"initializing", "planning", "delegating", "executing", "reviewing",
          "synthesizing", "paused", "complete", "failed", "cancelled", "deleted"}
    /\ \A s \in DOMAIN Transitions :
         /\ Transitions[s] \subseteq DOMAIN Transitions
         /\ "planning" \in Transitions[s] <=> s \in {"initializing", "paused"}
         /\ "delegating" \in Transitions[s] <=> s \in {"planning", "paused"}
         /\ "executing" \in Transitions[s] <=> s \in {"delegating", "reviewing", "paused"}
         /\ "paused" \in Transitions[s] <=> s \in Driven
         /\ "failed" \in Transitions[s] <=> s \in Driven \union {"initializing"}
  BY DEF Transitions, Driven

\* One object is changed.
LEMMA ObjectChanged ==
    ASSUME NEW q \in Seq(OrchestrationState), NEW o \in DOMAIN q, NEW r \in OrchestrationState
    PROVE  /\ [q EXCEPT ![o] = r] \in Seq(OrchestrationState)
           /\ Len([q EXCEPT ![o] = r]) = Len(q) /\ DOMAIN [q EXCEPT ![o] = r] = DOMAIN q
           /\ \A p \in DOMAIN q : [q EXCEPT ![o] = r][p] = IF p = o THEN r ELSE q[p]
  OBVIOUS

\* The fields of an object, and what is left of them when one of them changes.
LEMMA ObjectFields ==
    ASSUME NEW r \in OrchestrationState
    PROVE  r.running \in BOOLEAN /\ r.paused \in BOOLEAN /\ r.timers \in Nat /\ r.planning \in Nat
  BY DEF OrchestrationState

LEMMA NumberChanged ==
    ASSUME NEW r \in OrchestrationState, NEW n \in Nat
    PROVE  /\ [r EXCEPT !.timers = n] \in OrchestrationState
           /\ [r EXCEPT !.timers = n].timers = n
           /\ [r EXCEPT !.timers = n].planning = r.planning
           /\ [r EXCEPT !.timers = n].running = r.running
           /\ [r EXCEPT !.timers = n].paused = r.paused
           /\ [r EXCEPT !.planning = n] \in OrchestrationState
           /\ [r EXCEPT !.planning = n].planning = n
           /\ [r EXCEPT !.planning = n].timers = r.timers
           /\ [r EXCEPT !.planning = n].running = r.running
           /\ [r EXCEPT !.planning = n].paused = r.paused
  BY DEF OrchestrationState

LEMMA FlagChanged ==
    ASSUME NEW r \in OrchestrationState, NEW b \in BOOLEAN
    PROVE  /\ [r EXCEPT !.running = b] \in OrchestrationState
           /\ [r EXCEPT !.running = b].timers = r.timers
           /\ [r EXCEPT !.running = b].planning = r.planning
           /\ [r EXCEPT !.running = b].running = b
           /\ [r EXCEPT !.running = b].paused = r.paused
           /\ [r EXCEPT !.paused = b] \in OrchestrationState
           /\ [r EXCEPT !.paused = b].timers = r.timers
           /\ [r EXCEPT !.paused = b].planning = r.planning
           /\ [r EXCEPT !.paused = b].running = r.running
           /\ [r EXCEPT !.paused = b].paused = b
  BY DEF OrchestrationState

LoopTypes ==
    /\ status \in DOMAIN Transitions
    /\ objects \in Seq(OrchestrationState) /\ current \in 0 .. Len(objects)

LoopInvariant ==
    /\ LoopTypes
    /\ OthersStopped /\ OneIteration /\ StatusMatches
    /\ ResumeAnytime \/ (IsStarted /\ LoopIsAlive)

\* How an iteration ends.
Schedules(objs, o) == objects' = [objs EXCEPT ![o].timers = @ + 1]

LoopEnds(objs, o, s) ==
    \/ ~ Runs(objs, o) /\ status' = s /\ objects' = objs
    \/ /\ Runs(objs, o)
       /\ \/ s = "planning" /\ status' = s /\ objects' = [objs EXCEPT ![o].planning = @ + 1]
          \/ s # "planning" /\ s \notin Ended \union {"deleted"} /\ status' = s /\ Schedules(objs, o)
          \/ /\ s \in Driven
             /\ status' \in {"delegating", "executing", "reviewing", "synthesizing", "complete"}
             /\ Schedules(objs, o)
          \/ s \in Driven /\ status' = "failed" /\ objects' = objs
          \/ s \in Ended /\ status' = s /\ objects' = [objs EXCEPT ![o].running = FALSE]
          \/ s = "deleted" /\ status' = s /\ objects' = objs

LEMMA PhaseMoves ==
    ASSUME NEW objs, NEW o, Runs(objs, o), NEW s \in Driven,
           NEW to \in {"delegating", "executing", "reviewing", "synthesizing", "complete"},
           MovesTo(objs, o, s, to)
    PROVE  \/ status' = to /\ Schedules(objs, o)
           \/ status' = "failed" /\ objects' = objs
  <1>1. "failed" \in Transitions[s] BY Transits DEF Driven
  <1> QED BY <1>1 DEF MovesTo, Throws, Scheduled, Schedules

LEMMA LoopOutcome ==
    ASSUME NEW objs, NEW o, NEW s \in DOMAIN Transitions, Loop(objs, o, s) PROVE LoopEnds(objs, o, s)
  <1>1. CASE ~ Runs(objs, o) BY <1>1 DEF Loop, LoopEnds
  <1>2. CASE Runs(objs, o)
    <2> USE <1>2
    <2> DEFINE Moved == /\ status' \in {"delegating", "executing", "reviewing", "synthesizing", "complete"}
                        /\ Schedules(objs, o)
    <2> DEFINE Failed == status' = "failed" /\ objects' = objs
    <2> DEFINE Stayed == status' = s /\ Schedules(objs, o)
    <2>1. CASE s = "planning"
      <3>1. PlanningPhase(objs, o, s) BY <2>1 DEF Loop, Ended
      <3>2. CASE DOMAIN tasks = {} BY <2>1, <3>1, <3>2 DEF PlanningPhase, LoopEnds
      <3>3. CASE DOMAIN tasks # {}
        <4>1. MovesTo(objs, o, s, "delegating") BY <3>1, <3>3 DEF PlanningPhase
        <4>2. Moved \/ Failed BY <2>1, <4>1, PhaseMoves DEF Driven
        <4> QED BY <2>1, <4>2 DEF LoopEnds, Driven
      <3> QED BY <3>2, <3>3
    <2>2. CASE s = "delegating"
      <3>0. DelegatingPhase(objs, o, s) BY <2>2 DEF Loop, Ended
      <3>1. MovesTo(objs, o, s, "executing") \/ StaysIn(objs, o, s)
        BY <3>0 DEF DelegatingPhase
      <3>2. Moved \/ Failed \/ Stayed
        BY <2>2, <3>1, PhaseMoves DEF Driven, StaysIn, Scheduled, Schedules
      <3> QED BY <2>2, <3>2 DEF LoopEnds, Driven, Ended
    <2>3. CASE s = "executing"
      <3>1. ExecutionPhase(objs, o, s) BY <2>3 DEF Loop, Ended
      <3>2. \/ MovesTo(objs, o, s, "delegating") \/ MovesTo(objs, o, s, "reviewing")
            \/ MovesTo(objs, o, s, "synthesizing") \/ StaysIn(objs, o, s)
        BY <3>1 DEF ExecutionPhase
      <3>3. Moved \/ Failed \/ Stayed
        BY <2>3, <3>2, PhaseMoves DEF Driven, StaysIn, Scheduled, Schedules
      <3> QED BY <2>3, <3>3 DEF LoopEnds, Driven, Ended
    <2>4. CASE s = "reviewing"
      <3>1. MovesTo(objs, o, s, "executing") \/ StaysIn(objs, o, s)
        BY <2>4 DEF Loop, ReviewingPhase, Ended
      <3>2. Moved \/ Failed \/ Stayed
        BY <2>4, <3>1, PhaseMoves DEF Driven, StaysIn, Scheduled, Schedules
      <3> QED BY <2>4, <3>2 DEF LoopEnds, Driven, Ended
    <2>5. CASE s = "synthesizing"
      <3>1. MovesTo(objs, o, s, "complete") BY <2>5 DEF Loop, SynthesizingPhase, Ended
      <3>2. Moved \/ Failed BY <2>5, <3>1, PhaseMoves DEF Driven
      <3> QED BY <2>5, <3>2 DEF LoopEnds, Driven
    <2>6. CASE s \in Ended BY <2>6 DEF Loop, LoopEnds, Ended
    <2>7. CASE s = "deleted"
      <3>1. Throws(objs, s) BY <2>7 DEF Loop, Ended
      <3> QED BY <2>7, <3>1, Transits DEF Throws, LoopEnds, Driven
    <2>8. CASE s \in {"initializing", "paused"}
      <3>1. StaysIn(objs, o, s) BY <2>8 DEF Loop, Ended
      <3> QED BY <2>8, <3>1 DEF LoopEnds, Ended, StaysIn, Scheduled, Schedules
    <2> QED BY <2>1, <2>2, <2>3, <2>4, <2>5, <2>6, <2>7, <2>8, Transits DEF Ended
  <1> QED BY <1>1, <1>2

-----------------------------------------------------------------------------
(* The steps of the loop and of the calls that start and stop it *)

\* What the object of an unpaused session may be once its iteration has ended.
GoesOn(r, s) ==
    /\ r \in OrchestrationState /\ ~ r.paused /\ r.timers <= 1
    /\ s \in DOMAIN Transitions \ {"initializing", "paused"}
    /\ s = "planning" => r.timers = 0
    /\ ResumeAnytime \/ (s \in Driven => r.running /\ (r.timers > 0 \/ r.planning > 0))

LEMMA AfterIteration ==
    ASSUME NEW objs \in Seq(OrchestrationState), NEW o \in DOMAIN objs, objs[o].timers = 0, ~ objs[o].paused,
           NEW s \in DOMAIN Transitions \ {"initializing", "paused"},
           ResumeAnytime \/ (s \in Driven => objs[o].running), LoopEnds(objs, o, s)
    PROVE  \E r \in OrchestrationState : objects' = [objs EXCEPT ![o] = r] /\ GoesOn(r, status')
  <1>1. objs[o] \in OrchestrationState /\ objs = [objs EXCEPT ![o] = objs[o]] /\ o # 0 OBVIOUS
  <1>2. objs[o].planning \in Nat /\ objs[o].planning + 1 \in Nat BY <1>1, ObjectFields
  <1>3. CASE status' = s /\ objects' = objs /\ ~ Runs(objs, o)
    <2>1. ResumeAnytime \/ s \notin Driven BY <1>1, <1>3 DEF Runs
    <2> QED BY <1>1, <1>3, <2>1 DEF GoesOn
  <1>4. CASE s = "planning" /\ status' = s /\ objects' = [objs EXCEPT ![o].planning = @ + 1]
    <2> DEFINE r == [objs[o] EXCEPT !.planning = objs[o].planning + 1]
    <2>1. /\ r \in OrchestrationState /\ r.planning = objs[o].planning + 1 /\ r.timers = objs[o].timers
          /\ r.paused = objs[o].paused /\ r.running = objs[o].running
      BY <1>1, <1>2, NumberChanged
    <2>2. objects' = [objs EXCEPT ![o] = r] BY <1>4
    <2> HIDE DEF r
    <2>3. r.planning > 0 /\ r.timers = 0 /\ r.timers <= 1 BY <1>2, <2>1
    <2>4. GoesOn(r, status') BY <1>4, <2>1, <2>3 DEF GoesOn
    <2> QED BY <2>1, <2>2, <2>4
  <1>5. CASE Schedules(objs, o) /\ status' \in DOMAIN Transitions \ {"initializing", "planning", "paused"}
             /\ Runs(objs, o)
    <2> DEFINE r == [objs[o] EXCEPT !.timers = 1]
    <2>1. /\ r \in OrchestrationState /\ r.timers = 1
          /\ r.paused = objs[o].paused /\ r.running = objs[o].running
      BY <1>1, NumberChanged
    <2>2. objects' = [objs EXCEPT ![o] = r] BY <1>5 DEF Schedules
    <2> HIDE DEF r
    <2>3. r.running BY <1>5, <2>1 DEF Runs
    <2>4. GoesOn(r, status') BY <1>5, <2>1, <2>3 DEF GoesOn
    <2> QED BY <2>1, <2>2, <2>4
  <1>6. CASE status' \in Ended \union {"deleted"} /\ objects' = objs
    BY <1>1, <1>6, Transits DEF GoesOn, Ended, Driven
  <1>7. CASE status' = s /\ s \in Ended /\ objects' = [objs EXCEPT ![o].running = FALSE]
    <2> DEFINE r == [objs[o] EXCEPT !.running = FALSE]
    <2>1. r \in OrchestrationState /\ r.timers = objs[o].timers /\ r.paused = objs[o].paused
      BY <1>1, FlagChanged
    <2>2. objects' = [objs EXCEPT ![o] = r] BY <1>7
    <2> HIDE DEF r
    <2>3. GoesOn(r, status') BY <1>7, <2>1 DEF GoesOn, Ended, Driven
    <2> QED BY <2>1, <2>2, <2>3
  <1> QED BY <1>3, <1>4, <1>5, <1>6, <1>7, Transits DEF LoopEnds, Ended

LEMMA AfterLoop ==
    ASSUME NEW objs \in Seq(OrchestrationState), NEW o \in DOMAIN objs, objs[o].timers = 0, ~ objs[o].paused,
           \A p \in DOMAIN objs : p # o => objs[p].timers = 0 /\ ~ Runs(objs, p),
           NEW s \in DOMAIN Transitions \ {"initializing", "paused"},
           ResumeAnytime \/ (s \in Driven => objs[o].running),
           Loop(objs, o, s), current' = o
    PROVE  LoopInvariant'
  <1>1. PICK r \in OrchestrationState : objects' = [objs EXCEPT ![o] = r] /\ GoesOn(r, status')
    BY LoopOutcome, AfterIteration
  <1>2. /\ objects' \in Seq(OrchestrationState) /\ DOMAIN objects' = DOMAIN objs /\ Len(objects') = Len(objs)
        /\ objects'[o] = r /\ \A p \in DOMAIN objs : p # o => objects'[p] = objs[p]
    BY <1>1, ObjectChanged
  <1>3. LoopTypes' BY <1>1, <1>2 DEF LoopTypes, GoesOn
  <1>4. OthersStopped' BY <1>2 DEF OthersStopped, Runs
  <1>5. OneIteration' BY <1>1, <1>2 DEF OneIteration, GoesOn
  <1>6. StatusMatches' BY <1>1 DEF StatusMatches, GoesOn
  <1>7. o # 0 OBVIOUS
  <1>8. ResumeAnytime \/ (IsStarted' /\ LoopIsAlive')
    BY <1>1, <1>2, <1>7 DEF GoesOn, IsStarted, LoopIsAlive, Driven
  <1> QED BY <1>3, <1>4, <1>5, <1>6, <1>8 DEF LoopInvariant

LEMMA TimerLoop ==
    ASSUME LoopInvariant, NEW o \in DOMAIN objects, OrchestrationTimer(o) PROVE LoopInvariant'
  <1> DEFINE r == [objects[o] EXCEPT !.timers = @ - 1]
  <1> DEFINE objs == [objects EXCEPT ![o] = r]
  <1>1. objects[o].timers > 0 /\ Loop(objs, current, status) /\ current' = current
    BY DEF OrchestrationTimer
  <1>2. objects \in Seq(OrchestrationState) /\ objects[o] \in OrchestrationState
    BY DEF LoopInvariant, LoopTypes
  <1>3. current = o /\ o # 0 /\ objects[o].timers \in Nat
    BY <1>1, <1>2, ObjectFields DEF LoopInvariant, OthersStopped
  <1>4. objects[o].timers = 1 /\ ~ objects[o].paused /\ status \notin {"planning", "paused", "initializing"}
    BY <1>1, <1>2, <1>3 DEF LoopInvariant, OneIteration, StatusMatches
  <1>5. r \in OrchestrationState /\ r.timers = 0 /\ r.running = objects[o].running /\ ~ r.paused
    <2>1. objects[o].timers - 1 = 0 /\ 0 \in Nat BY <1>4
    <2>2. r = [objects[o] EXCEPT !.timers = 0] BY <2>1
    <2> HIDE DEF r
    <2>3. /\ [objects[o] EXCEPT !.timers = 0] \in OrchestrationState
          /\ [objects[o] EXCEPT !.timers = 0].timers = 0
          /\ [objects[o] EXCEPT !.timers = 0].running = objects[o].running
          /\ [objects[o] EXCEPT !.timers = 0].paused = objects[o].paused
      BY <1>2, NumberChanged
    <2>4. ~ objects[o].paused BY <1>4
    <2> QED BY <2>2, <2>3, <2>4
  <1> HIDE DEF r
  <1>6. /\ objs \in Seq(OrchestrationState) /\ DOMAIN objs = DOMAIN objects
        /\ objs[o] = r /\ \A p \in DOMAIN objs : p # o => objs[p] = objects[p]
    BY <1>2, <1>5, ObjectChanged
  <1> HIDE DEF objs
  <1>7. \A p \in DOMAIN objs : p # o => objs[p].timers = 0 /\ ~ Runs(objs, p)
    BY <1>3, <1>6 DEF LoopInvariant, OthersStopped, Runs
  <1>8. ResumeAnytime \/ (status \in Driven => objs[o].running)
    BY <1>3, <1>5, <1>6 DEF LoopInvariant, IsStarted
  <1>9. status \in DOMAIN Transitions \ {"initializing", "paused"} BY <1>4 DEF LoopInvariant, LoopTypes
  <1> QED BY <1>1, <1>3, <1>5, <1>6, <1>7, <1>8, <1>9, AfterLoop

LEMMA StartLoop == ASSUME LoopInvariant, StartSwarm PROVE LoopInvariant'
  <1> DEFINE objs == Append(objects, NewObject)
  <1> DEFINE o == Len(objects) + 1
  <1>1. Loop(objs, o, "planning") /\ current' = o /\ "planning" \in Transitions[status]
    BY DEF StartSwarm
  <1>2. objects \in Seq(OrchestrationState) /\ NewObject \in OrchestrationState
    BY DEF LoopInvariant, LoopTypes, OrchestrationState, NewObject
  <1>3. /\ objs \in Seq(OrchestrationState) /\ o \in DOMAIN objs /\ objs[o] = NewObject
        /\ \A p \in DOMAIN objs : p # o => p \in DOMAIN objects /\ objs[p] = objects[p]
    BY <1>2
  <1>4. status \in {"initializing", "paused"} BY <1>1, Transits DEF LoopInvariant, LoopTypes
  <1>5. ASSUME NEW p \in DOMAIN objects PROVE objects[p].timers = 0 /\ ~ Runs(objects, p)
    <2>1. CASE p # current BY <2>1 DEF LoopInvariant, OthersStopped
    <2>2. CASE p = current
      <3>1. current # 0 /\ objects[current].paused BY <1>2, <1>4, <2>2 DEF LoopInvariant, StatusMatches
      <3> QED BY <2>2, <3>1 DEF LoopInvariant, OneIteration, Runs
    <2> QED BY <2>1, <2>2
  <1>6. \A p \in DOMAIN objs : p # o => objs[p].timers = 0 /\ ~ Runs(objs, p)
    BY <1>3, <1>5 DEF Runs
  <1>7. objs[o].timers = 0 /\ ~ objs[o].paused /\ objs[o].running BY <1>3 DEF NewObject
  <1>8. "planning" \in DOMAIN Transitions \ {"initializing", "paused"} BY Transits
  <1> HIDE DEF objs, o
  <1> QED BY <1>1, <1>3, <1>6, <1>7, <1>8, AfterLoop

LEMMA ResumeLoop == ASSUME LoopInvariant, ResumeSwarm PROVE LoopInvariant'
  <1>1. /\ ResumeAnytime \/ status = "paused"
        /\ ResumedStatus \in Transitions[status] /\ current' = current
    BY DEF ResumeSwarm
  <1>2. ResumedStatus \in {"executing", "planning"} BY DEF ResumedStatus
  <1>3. objects \in Seq(OrchestrationState) BY DEF LoopInvariant, LoopTypes
  <1>4. CASE current # 0 /\ objects[current].paused
    <2> DEFINE r == [objects[current] EXCEPT !.paused = FALSE]
    <2> DEFINE objs == [objects EXCEPT ![current] = r]
    <2>1. Loop(objs, current, ResumedStatus) BY <1>4 DEF ResumeSwarm
    <2>2. current \in DOMAIN objects BY <1>3, <1>4 DEF LoopInvariant, LoopTypes
    <2>3. objects[current] \in OrchestrationState /\ objects[current].timers = 0
      BY <1>3, <1>4, <2>2 DEF LoopInvariant, OneIteration
    <2>4. /\ r \in OrchestrationState /\ ~ r.paused /\ r.timers = 0
          /\ r.running = objects[current].running
      BY <2>3, FlagChanged
    <2> HIDE DEF r
    <2>5. /\ objs \in Seq(OrchestrationState) /\ DOMAIN objs = DOMAIN objects
          /\ objs[current] = r /\ \A p \in DOMAIN objs : p # current => objs[p] = objects[p]
      BY <1>3, <2>2, <2>4, ObjectChanged
    <2> HIDE DEF objs
    <2>6. \A p \in DOMAIN objs : p # current => objs[p].timers = 0 /\ ~ Runs(objs, p)
      BY <2>5 DEF LoopInvariant, OthersStopped, Runs
    <2>7. ResumeAnytime \/ objs[current].running
      BY <1>1, <2>4, <2>5 DEF LoopInvariant, IsStarted
    <2>8. ResumedStatus \in DOMAIN Transitions \ {"initializing", "paused"} BY <1>2, Transits
    <2> QED BY <1>1, <2>1, <2>2, <2>4, <2>5, <2>6, <2>7, <2>8, AfterLoop
  <1>5. CASE ~ (current # 0 /\ objects[current].paused)
    <2>1. status' = ResumedStatus /\ objects' = objects BY <1>5 DEF ResumeSwarm
    <2>2. status' = "planning" => current = 0
      BY <1>1, <1>5, <2>1, Transits DEF LoopInvariant, LoopTypes, StatusMatches
    <2>3. ResumeAnytime BY <1>1, <1>5 DEF LoopInvariant, StatusMatches, IsStarted
    <2>4. LoopTypes' BY <1>1, <1>2, <2>1, Transits DEF LoopInvariant, LoopTypes
    <2>5. OthersStopped' BY <1>1, <2>1 DEF LoopInvariant, OthersStopped, Runs
    <2>6. OneIteration' BY <1>1, <2>1, <2>2 DEF LoopInvariant, OneIteration
    <2>7. StatusMatches' BY <1>2, <2>1 DEF StatusMatches
    <2> QED BY <2>3, <2>4, <2>5, <2>6, <2>7 DEF LoopInvariant
  <1> QED BY <1>4, <1>5

\* An answer finds the session as it was left or changed meanwhile: it moves on a
\* session that plans or is paused, and a session in another phase fails.
LEMMA AnsweredLoop ==
    ASSUME LoopInvariant, NEW o \in DOMAIN objects, NEW n \in 0 .. MaxTasks, PlanningAnswered(o, n)
    PROVE  LoopInvariant'
  <1> DEFINE r == [objects[o] EXCEPT !.planning = @ - 1]
  <1> DEFINE objs == [objects EXCEPT ![o] = r]
  <1>1. /\ objects[o].planning > 0 /\ current' = current
        /\ \/ status = "deleted" /\ Throws(objs, status)
           \/ status # "deleted" /\ MovesTo(objs, o, status, "delegating")
    BY DEF PlanningAnswered
  <1>2. /\ objects \in Seq(OrchestrationState) /\ objects[o] \in OrchestrationState /\ o # 0
        /\ status \in DOMAIN Transitions /\ current \in 0 .. Len(objects)
    BY DEF LoopInvariant, LoopTypes
  <1>3. /\ r \in OrchestrationState /\ r.timers = objects[o].timers
        /\ r.running = objects[o].running /\ r.paused = objects[o].paused
    <2>1. objects[o].planning \in Nat BY <1>2, ObjectFields
    <2>2. objects[o].planning - 1 \in Nat BY <1>1, <2>1
    <2> QED BY <1>2, <2>2, NumberChanged
  <1> HIDE DEF r
  <1>4. /\ objs \in Seq(OrchestrationState) /\ DOMAIN objs = DOMAIN objects /\ Len(objs) = Len(objects)
        /\ objs[o] = r /\ \A p \in DOMAIN objects : p # o => objs[p] = objects[p]
    BY <1>2, <1>3, ObjectChanged
  <1> HIDE DEF objs
  <1>5. CASE status \in {"planning", "paused"}
    <2>1. status' = "delegating" /\ objects' = Scheduled(objs, o)
      BY <1>1, <1>2, <1>5, Transits DEF MovesTo
    <2>2. CASE o = current /\ Runs(objs, o)
      <3> DEFINE q == [r EXCEPT !.timers = @ + 1]
      <3>1. objects' = [objs EXCEPT ![o] = q] BY <1>4, <2>1, <2>2 DEF Scheduled
      <3>2. status = "planning" /\ objects[o].timers = 0
        BY <1>2, <1>3, <1>4, <1>5, <2>2 DEF LoopInvariant, StatusMatches, OneIteration, Runs
      <3>3. q \in OrchestrationState /\ q.timers = 1 /\ q.running /\ ~ q.paused
        BY <1>3, <1>4, <2>2, <3>2 DEF OrchestrationState, Runs
      <3> HIDE DEF q
      <3>4. /\ objects' \in Seq(OrchestrationState) /\ DOMAIN objects' = DOMAIN objects
            /\ Len(objects') = Len(objects) /\ objects'[o] = q
            /\ \A p \in DOMAIN objects : p # o => objects'[p] = objects[p]
        BY <1>4, <3>1, <3>3, ObjectChanged
      <3>5. LoopTypes' BY <1>1, <1>2, <2>1, <3>4, Transits DEF LoopTypes
      <3>6. OthersStopped' BY <1>1, <2>2, <3>4 DEF LoopInvariant, OthersStopped, Runs
      <3>7. OneIteration' BY <1>1, <2>1, <2>2, <3>3, <3>4 DEF OneIteration
      <3>8. StatusMatches' BY <2>1 DEF StatusMatches
      <3>9. IsStarted' /\ LoopIsAlive'
        BY <1>1, <1>2, <2>2, <3>3, <3>4 DEF IsStarted, LoopIsAlive
      <3> QED BY <3>5, <3>6, <3>7, <3>8, <3>9 DEF LoopInvariant
    <2>3. CASE ~ (o = current /\ Runs(objs, o))
      <3>1. ~ Runs(objs, o)
        <4>1. CASE o # current
          BY <1>2, <1>3, <1>4, <4>1 DEF LoopInvariant, OthersStopped, Runs
        <4> QED BY <2>3, <4>1
      <3>2. objects' = objs BY <2>1, <3>1 DEF Scheduled
      <3>3. LoopTypes' BY <1>1, <1>2, <1>4, <2>1, <3>2, Transits DEF LoopTypes
      <3>4. OthersStopped' BY <1>1, <1>3, <1>4, <3>2 DEF LoopInvariant, OthersStopped, Runs
      <3>5. OneIteration'
        <4> SUFFICES ASSUME current # 0
                     PROVE  /\ objects'[current].timers <= 1
                            /\ objects'[current].paused => objects'[current].timers = 0
          BY <1>1, <2>1 DEF OneIteration
        <4>1. current \in DOMAIN objects BY <1>2
        <4>2. /\ objects'[current].timers = objects[current].timers
              /\ objects'[current].paused = objects[current].paused
          BY <1>3, <1>4, <3>2, <4>1
        <4> QED BY <4>2 DEF LoopInvariant, OneIteration
      <3>6. StatusMatches' BY <2>1 DEF StatusMatches
      <3>7. CASE ~ ResumeAnytime
        <4>1. current # 0 /\ objects[current].running
          BY <1>5, <3>7 DEF LoopInvariant, IsStarted, Driven
        <4>2. current \in DOMAIN objects BY <1>2, <4>1
        <4>3. /\ objects'[current].running /\ objects'[current].paused = objects[current].paused
              /\ o # current => objects'[current] = objects[current]
          BY <1>3, <1>4, <3>2, <4>1, <4>2
        <4>4. IsStarted' BY <1>1, <4>1, <4>3 DEF IsStarted
        <4>5. CASE objects[current].paused
          BY <1>1, <4>1, <4>3, <4>4, <4>5, <3>3, <3>4, <3>5, <3>6
          DEF LoopInvariant, LoopIsAlive, OrchestrationPaused
        <4>6. CASE ~ objects[current].paused
          <5>1. status = "planning" /\ o # current
            <6>1. status # "paused" BY <4>1, <4>6 DEF LoopInvariant, StatusMatches
            <6>2. o # current BY <1>2, <1>3, <1>4, <3>1, <4>1, <4>6 DEF Runs
            <6> QED BY <1>5, <6>1, <6>2
          <5>2. objects[current].planning > 0 \/ \E p \in DOMAIN objects : objects[p].timers > 0
            BY <3>7, <4>6, <5>1 DEF LoopInvariant, LoopIsAlive, OrchestrationPaused, Driven
          <5>3. \A p \in DOMAIN objects : p \in DOMAIN objects' /\ objects'[p].timers = objects[p].timers
            BY <1>3, <1>4, <3>2
          <5>4. LoopIsAlive' BY <1>1, <4>1, <4>3, <5>1, <5>2, <5>3 DEF LoopIsAlive
          <5> QED BY <3>3, <3>4, <3>5, <3>6, <4>4, <5>4 DEF LoopInvariant
        <4> QED BY <4>5, <4>6
      <3> QED BY <3>3, <3>4, <3>5, <3>6, <3>7 DEF LoopInvariant
    <2> QED BY <2>2, <2>3
  <1>6. CASE status \notin {"planning", "paused"}
    <2>1. Throws(objs, status) BY <1>1, <1>2, <1>6, Transits DEF MovesTo
    <2>2. /\ objects' = objs
          /\ status' \in DOMAIN Transitions \ (Driven \union {"paused"})
          /\ status' = "initializing" => status = "initializing"
      BY <1>2, <1>6, <2>1, Transits DEF Throws, Driven
    <2>3. LoopTypes' BY <1>1, <1>2, <1>4, <2>2 DEF LoopTypes
    <2>4. OthersStopped' BY <1>1, <1>3, <1>4, <2>2 DEF LoopInvariant, OthersStopped, Runs
    <2>5. OneIteration'
      <3> SUFFICES ASSUME current # 0
                   PROVE  /\ objects'[current].timers <= 1
                          /\ objects'[current].paused => objects'[current].timers = 0
        BY <1>1, <2>2 DEF OneIteration, Driven
      <3>1. current \in DOMAIN objects BY <1>2
      <3>2. /\ objects'[current].timers = objects[current].timers
            /\ objects'[current].paused = objects[current].paused
        BY <1>3, <1>4, <2>2, <3>1
      <3> QED BY <3>2 DEF LoopInvariant, OneIteration
    <2>6. StatusMatches' BY <1>1, <2>2 DEF LoopInvariant, StatusMatches
    <2>7. IsStarted' /\ LoopIsAlive' BY <2>2 DEF IsStarted, LoopIsAlive
    <2> QED BY <2>3, <2>4, <2>5, <2>6, <2>7 DEF LoopInvariant
  <1> QED BY <1>5, <1>6

\* pauseOrchestration and stopOrchestration leave nothing scheduled.
LEMMA NothingLeft ==
    ASSUME LoopInvariant, NEW q, q = Paused \/ q = Stopped
    PROVE  /\ q \in Seq(OrchestrationState) /\ Len(q) = Len(objects)
           /\ \A o \in DOMAIN q : q[o].timers = 0 /\ ~ Runs(q, o)
           /\ current # 0 => /\ q = Paused => q[current].paused
                             /\ q = Paused => q[current].running = objects[current].running
  <1>1. objects \in Seq(OrchestrationState) /\ current \in 0 .. Len(objects)
    BY DEF LoopInvariant, LoopTypes
  <1>2. ASSUME NEW o \in DOMAIN objects
        PROVE  /\ Paused[o] \in OrchestrationState /\ Stopped[o] \in OrchestrationState
               /\ Paused[o].timers = 0 /\ Stopped[o].timers = 0
               /\ ~ (Paused[o].running /\ ~ Paused[o].paused)
               /\ ~ (Stopped[o].running /\ ~ Stopped[o].paused)
               /\ o = current => Paused[o].paused /\ Paused[o].running = objects[o].running
    <2>1. objects[o] \in OrchestrationState /\ o # 0 BY <1>1
    <2>2. CASE o # current
      <3>1. Paused[o] = objects[o] /\ Stopped[o] = objects[o] BY <2>2 DEF Paused, Stopped
      <3> QED BY <2>1, <2>2, <3>1 DEF LoopInvariant, OthersStopped, Runs
    <2>3. CASE o = current
      <3>1. objects[o].timers \in {0, 1}
        BY <2>1, <2>3 DEF LoopInvariant, OneIteration, OrchestrationState
      <3>2. Cleared(objects[o].timers) = 0 BY <3>1 DEF Cleared
      <3> DEFINE halted == [objects[o] EXCEPT !.paused = TRUE]
      <3> DEFINE ended == [[objects[o] EXCEPT !.running = FALSE] EXCEPT !.paused = FALSE]
      <3>3. Paused[o] = [halted EXCEPT !.timers = 0] /\ Stopped[o] = [ended EXCEPT !.timers = 0]
        BY <2>1, <2>3, <3>2 DEF Paused, Stopped, OrchestrationState
      <3>4. halted \in OrchestrationState /\ halted.paused = TRUE /\ halted.running = objects[o].running
        BY <2>1, FlagChanged
      <3>5. ended \in OrchestrationState /\ ended.running = FALSE
        <4> DEFINE r == [objects[o] EXCEPT !.running = FALSE]
        <4>1. r \in OrchestrationState /\ r.running = FALSE BY <2>1, FlagChanged
        <4> HIDE DEF r
        <4>2. [r EXCEPT !.paused = FALSE] \in OrchestrationState /\ [r EXCEPT !.paused = FALSE].running = r.running
          BY <4>1, FlagChanged
        <4> QED BY <4>1, <4>2 DEF r
      <3> HIDE DEF halted, ended
      <3>6. /\ [halted EXCEPT !.timers = 0] \in OrchestrationState
            /\ [halted EXCEPT !.timers = 0].timers = 0
            /\ [halted EXCEPT !.timers = 0].paused = halted.paused
            /\ [halted EXCEPT !.timers = 0].running = halted.running
        <4>1. halted \in OrchestrationState /\ 0 \in Nat BY <3>4
        <4> QED BY <4>1, NumberChanged
      <3>7. /\ [ended EXCEPT !.timers = 0] \in OrchestrationState
            /\ [ended EXCEPT !.timers = 0].timers = 0
            /\ [ended EXCEPT !.timers = 0].running = ended.running
        BY <3>5, NumberChanged
      <3> QED BY <2>3, <3>3, <3>4, <3>5, <3>6, <3>7
    <2> QED BY <2>2, <2>3
  <1>3. DOMAIN Paused = DOMAIN objects /\ DOMAIN Stopped = DOMAIN objects BY DEF Paused, Stopped
  <1>4. Paused = [o \in DOMAIN objects |-> Paused[o]] /\ Stopped = [o \in DOMAIN objects |-> Stopped[o]]
    BY DEF Paused, Stopped
  <1>5. DOMAIN objects = 1 .. Len(objects) /\ Len(objects) \in Nat BY <1>1
  <1>6. Paused \in [1 .. Len(objects) -> OrchestrationState]
    BY <1>2, <1>4, <1>5
  <1>7. Stopped \in [1 .. Len(objects) -> OrchestrationState]
    BY <1>2, <1>4, <1>5
  <1>8. q \in [1 .. Len(objects) -> OrchestrationState] BY <1>6, <1>7
  <1>9. q \in Seq(OrchestrationState) /\ Len(q) = Len(objects) BY <1>5, <1>8
  <1>10. \A o \in DOMAIN q : q[o].timers = 0 /\ ~ Runs(q, o)
    BY <1>2, <1>3 DEF Runs
  <1>11. current # 0 => current \in DOMAIN objects BY <1>1, <1>5
  <1> QED BY <1>2, <1>9, <1>10, <1>11

LEMMA PauseLoop == ASSUME LoopInvariant, PauseSwarm PROVE LoopInvariant'
  <1>1. /\ "paused" \in Transitions[status] /\ status' = "paused"
        /\ objects' = Paused /\ current' = current
    BY DEF PauseSwarm
  <1>2. status \in Driven BY <1>1, Transits DEF LoopInvariant, LoopTypes
  <1>3. /\ objects' \in Seq(OrchestrationState) /\ Len(objects') = Len(objects)
        /\ \A o \in DOMAIN objects' : objects'[o].timers = 0 /\ ~ Runs(objects', o)
        /\ current # 0 => objects'[current].paused /\ objects'[current].running = objects[current].running
    BY <1>1, NothingLeft
  <1>4. LoopTypes' BY <1>1, <1>3, Transits DEF LoopInvariant, LoopTypes
  <1>5. OthersStopped' BY <1>3 DEF OthersStopped
  <1>6. OneIteration'
    <2>1. current # 0 => current \in DOMAIN objects' BY <1>3 DEF LoopInvariant, LoopTypes
    <2> QED BY <1>1, <1>3, <2>1 DEF OneIteration
  <1>7. StatusMatches' BY <1>1, <1>3 DEF StatusMatches
  <1>8. ResumeAnytime \/ IsStarted' BY <1>1, <1>2, <1>3 DEF LoopInvariant, IsStarted
  <1>9. LoopIsAlive' BY <1>1 DEF LoopIsAlive, Driven
  <1> QED BY <1>4, <1>5, <1>6, <1>7, <1>8, <1>9 DEF LoopInvariant

LEMMA CancelLoop == ASSUME LoopInvariant, CancelSwarm PROVE LoopInvariant'
  <1>1. status' = "cancelled" /\ objects' = Stopped /\ current' = 0 BY DEF CancelSwarm
  <1>2. /\ objects' \in Seq(OrchestrationState)
        /\ \A o \in DOMAIN objects' : objects'[o].timers = 0 /\ ~ Runs(objects', o)
    BY <1>1, NothingLeft
  <1>3. LoopTypes' BY <1>1, <1>2, Transits DEF LoopTypes
  <1>4. OthersStopped' BY <1>2 DEF OthersStopped
  <1> QED BY <1>1, <1>3, <1>4
      DEF LoopInvariant, OneIteration, StatusMatches, IsStarted, LoopIsAlive, Driven

LEMMA DeleteLoop == ASSUME LoopInvariant, DeleteSession PROVE LoopInvariant'
  <1>1. status' = "deleted" /\ UNCHANGED <<objects, current>> BY DEF DeleteSession
  <1>2. LoopTypes' BY <1>1, Transits DEF LoopInvariant, LoopTypes
  <1>3. OthersStopped' BY <1>1 DEF LoopInvariant, OthersStopped, Runs
  <1>4. OneIteration' BY <1>1 DEF LoopInvariant, OneIteration
  <1> QED BY <1>1, <1>2, <1>3, <1>4
      DEF LoopInvariant, StatusMatches, IsStarted, LoopIsAlive, Driven

LEMMA LoopUnchanged ==
    ASSUME LoopInvariant, UNCHANGED <<status, objects, current>> PROVE LoopInvariant'
  BY DEF LoopInvariant, LoopTypes, OthersStopped, OneIteration, StatusMatches, IsStarted,
         LoopIsAlive, Runs, OrchestrationPaused

LEMMA LoopStep == ASSUME LoopInvariant, [Next]_vars PROVE LoopInvariant'
  <1>1. ASSUME OrchestrationUnchanged PROVE LoopInvariant'
    BY <1>1, LoopUnchanged DEF OrchestrationUnchanged
  <1>2. CASE UNCHANGED vars BY <1>2, LoopUnchanged DEF vars
  <1>3. \/ \E o \in DOMAIN objects : OrchestrationTimer(o)
        \/ \E o \in DOMAIN objects, n \in 0 .. MaxTasks : PlanningAnswered(o, n)
        \/ StartSwarm \/ PauseSwarm \/ ResumeSwarm \/ CancelSwarm \/ DeleteSession
        \/ OrchestrationUnchanged \/ UNCHANGED vars
    BY DEF Next, CreateTask, UpdateTask, AssignTask, CompleteTask, FailTask, SpawnAgent, TerminateAgent
  <1> QED BY <1>1, <1>2, <1>3, TimerLoop, AnsweredLoop, StartLoop, PauseLoop, ResumeLoop,
             CancelLoop, DeleteLoop

-----------------------------------------------------------------------------
(* The board.  What TaskBoardProofs proves of one call holds of the calls made *)
(* here; the loop makes several in one step, and a deleted session none.       *)

BoardProofs == INSTANCE TaskBoardProofs WITH SameTurn <- FALSE, checked <- {}

BoardHolds ==
    /\ Board!BoardInvariant /\ NoTaskIsGone
    /\ ManualStatus \intersect Waiting = {} => WaitingIsUnassigned
    /\ ManualStatus \intersect {"pending", "complete"} = {} => NobodyWaitsForNothing

\* TaskBoard's assumptions.
LEMMA BoardConstants ==
    /\ MaxAttempts \in Nat \ {0}
    /\ ManualStatus \subseteq BoardProofs!Status
    /\ FALSE \in BOOLEAN
    /\ BoardProofs!Nobody \notin Agent
  BY BoardAssumption DEF Board!Status, BoardProofs!Status, Board!Nobody, BoardProofs!Nobody

\* The board of the proofs is the board.
LEMMA SameBoard ==
    /\ Board!BoardInvariant <=> BoardProofs!BoardInvariant
    /\ WaitingIsUnassigned <=> BoardProofs!WaitingIsUnassigned
    /\ Waiting = BoardProofs!Waiting /\ {"pending", "complete"} = BoardProofs!Deciding
    /\ NobodyWaitsForNothing <=> \A t \in Task : ~ BoardProofs!WaitsForNothing(t)
  <1>1. Board!BoardInvariant <=> BoardProofs!BoardInvariant
    BY DEF Board!BoardInvariant, Board!TypeOK, Board!BoardAgrees, Board!DependenciesMirror,
           Board!DependenciesAreUsed, Board!CheckHolds, Board!Acyclic, Board!TaskRecord,
           Board!Status, Board!Column, Board!Nobody, Board!ColumnForStatus,
           BoardProofs!BoardInvariant, BoardProofs!TypeOK, BoardProofs!BoardAgrees,
           BoardProofs!DependenciesMirror, BoardProofs!DependenciesAreUsed,
           BoardProofs!CheckHolds, BoardProofs!Acyclic, BoardProofs!TaskRecord,
           BoardProofs!Status, BoardProofs!Column, BoardProofs!Nobody, BoardProofs!ColumnForStatus
  <1>2. WaitingIsUnassigned <=> BoardProofs!WaitingIsUnassigned
    BY DEF WaitingIsUnassigned, Waiting, Board!Nobody, BoardProofs!WaitingIsUnassigned,
           BoardProofs!Unassigned, BoardProofs!Waiting, BoardProofs!Nobody
  <1>3. Waiting = BoardProofs!Waiting /\ {"pending", "complete"} = BoardProofs!Deciding
    BY DEF Waiting, BoardProofs!Waiting, BoardProofs!Deciding
  <1>4. NobodyWaitsForNothing <=> \A t \in Task : ~ BoardProofs!WaitsForNothing(t)
    BY DEF NobodyWaitsForNothing, Board!WaitsForNothing, Board!AllComplete, Board!Exists,
           BoardProofs!WaitsForNothing, BoardProofs!AllComplete, BoardProofs!Exists
  <1> QED BY <1>1, <1>2, <1>3, <1>4

\* The parts of BoardHolds but for the tasks that are gone.
LEMMA BoardKept ==
    ASSUME BoardHolds, NoTaskIsGone',
           BoardProofs!BoardInvariant => BoardProofs!BoardInvariant',
           ManualStatus \intersect Waiting = {} /\ BoardProofs!BoardInvariant /\ BoardProofs!WaitingIsUnassigned
             => BoardProofs!WaitingIsUnassigned',
           ManualStatus \intersect {"pending", "complete"} = {} /\ BoardProofs!BoardInvariant
             => BoardProofs!NobodyForgotten
    PROVE  BoardHolds'
  <1>1. (Board!BoardInvariant <=> BoardProofs!BoardInvariant)'
        /\ (WaitingIsUnassigned <=> BoardProofs!WaitingIsUnassigned)'
        /\ (NobodyWaitsForNothing <=> \A t \in Task : ~ BoardProofs!WaitsForNothing(t))'
    BY SameBoard, PTL
  <1> QED BY <1>1, SameBoard DEF BoardHolds, BoardProofs!NobodyForgotten

\* A session stays deleted, and only deleteSession deletes it.
LEMMA GoneStays ==
    ASSUME NoTaskIsGone, DOMAIN tasks' = DOMAIN tasks, UNCHANGED used,
           status' = "deleted" <=> status = "deleted"
    PROVE  NoTaskIsGone'
  BY DEF NoTaskIsGone

LEMMA BoardStays ==
    ASSUME BoardHolds, UNCHANGED board, status' = "deleted" <=> status = "deleted"
    PROVE  BoardHolds'
  <1>1. UNCHANGED <<tasks, columns, used>> BY DEF board
  <1>2. NoTaskIsGone' BY <1>1, GoneStays DEF BoardHolds
  <1>3. BoardProofs!BoardInvariant => BoardProofs!BoardInvariant'
    BY <1>1 DEF BoardProofs!BoardInvariant, BoardProofs!TypeOK, BoardProofs!BoardAgrees,
           BoardProofs!DependenciesMirror, BoardProofs!DependenciesAreUsed,
           BoardProofs!CheckHolds, BoardProofs!Acyclic
  <1>4. BoardProofs!WaitingIsUnassigned => BoardProofs!WaitingIsUnassigned'
    BY <1>1 DEF BoardProofs!WaitingIsUnassigned, BoardProofs!Unassigned
  <1>5. BoardProofs!NobodyForgotten
    BY <1>1 DEF BoardProofs!NobodyForgotten, BoardProofs!WaitsForNothing, BoardProofs!AllComplete,
                BoardProofs!Exists
  <1> QED BY <1>2, <1>3, <1>4, <1>5, BoardKept

\* Calls that leave the dependencies alone.
LEMMA RecordCallBoard ==
    ASSUME BoardHolds, BoardProofs!RecordCall, UNCHANGED status PROVE BoardHolds'
  <1>1. DOMAIN tasks' = DOMAIN tasks /\ UNCHANGED used
    BY DEF BoardProofs!RecordCall, BoardProofs!UpdateTask, BoardProofs!AssignTask,
           BoardProofs!UnassignTask, BoardProofs!CompleteTask, BoardProofs!FailTask,
           BoardProofs!Update, BoardProofs!Becomes
  <1>2. NoTaskIsGone' BY <1>1, GoneStays DEF BoardHolds
  <1>3. BoardProofs!BoardInvariant => BoardProofs!BoardInvariant'
    BY BoardConstants, BoardProofs!RecordCallStep
  <1>4. ManualStatus \intersect Waiting = {} /\ BoardProofs!BoardInvariant /\ BoardProofs!WaitingIsUnassigned
          => BoardProofs!WaitingIsUnassigned'
    BY BoardConstants, SameBoard, BoardProofs!RecordCallUnassigned
  <1>5. ManualStatus \intersect {"pending", "complete"} = {} /\ BoardProofs!BoardInvariant
          => BoardProofs!NobodyForgotten
    BY BoardConstants, SameBoard, BoardProofs!RecordCallWaits
  <1> QED BY <1>2, <1>3, <1>4, <1>5, BoardKept

\* Records and moves are written alike.
LEMMA SameMoves ==
    /\ Board!Nobody = BoardProofs!Nobody
    /\ \A r, s : Board!WithStatus(r, s) = BoardProofs!WithStatus(r, s)
    /\ \A ts : Board!Becomes(ts) <=> BoardProofs!Becomes(ts)
    /\ \A t, r : Board!Update(t, r) <=> BoardProofs!Update(t, r)
    /\ \A t : Board!Released(t) = BoardProofs!Released(t)
    /\ \A t : Board!Retry(t) = BoardProofs!Retry(t)
  <1>1. Board!Nobody = BoardProofs!Nobody BY DEF Board!Nobody, BoardProofs!Nobody
  <1>2. \A r, s : Board!WithStatus(r, s) = BoardProofs!WithStatus(r, s)
    BY DEF Board!WithStatus, Board!ColumnForStatus, BoardProofs!WithStatus, BoardProofs!ColumnForStatus
  <1>3. \A ts : Board!Becomes(ts) <=> BoardProofs!Becomes(ts)
    BY DEF Board!Becomes, Board!Column, Board!Exists, BoardProofs!Becomes, BoardProofs!Column,
           BoardProofs!Exists
  <1>4. \A t, r : Board!Update(t, r) <=> BoardProofs!Update(t, r)
    BY <1>3 DEF Board!Update, BoardProofs!Update
  <1>5. \A t : Board!Released(t) = BoardProofs!Released(t)
    BY DEF Board!Released, Board!AllComplete, Board!Exists,
           BoardProofs!Released, BoardProofs!AllComplete, BoardProofs!Exists
  <1>6. \A t : Board!Retry(t) = BoardProofs!Retry(t)
    BY <1>1, <1>2 DEF Board!Retry, BoardProofs!Retry
  <1> QED BY <1>1, <1>2, <1>3, <1>4, <1>5, <1>6

\* The calls of clients are calls on the board.
LEMMA ClientCalls ==
    ASSUME \/ \E t \in Task, s \in ManualStatus : UpdateTask(t, s)
           \/ \E t \in Task, a \in Agent : AssignTask(t, a)
           \/ \E t \in Task : CompleteTask(t) \/ FailTask(t)
    PROVE  BoardProofs!RecordCall /\ UNCHANGED status
  <1>1. BoardProofs!Settled BY DEF BoardProofs!Settled
  <1>2. ASSUME NEW t \in Task, NEW s \in ManualStatus, UpdateTask(t, s)
        PROVE  BoardProofs!UpdateTask(t, s) /\ UNCHANGED status
    BY <1>1, <1>2, SameMoves DEF UpdateTask, OrchestrationUnchanged, Board!UpdateTask, Board!Exists,
                            BoardProofs!UpdateTask, BoardProofs!Exists
  <1>3. ASSUME NEW t \in Task, NEW a \in Agent, AssignTask(t, a)
        PROVE  BoardProofs!AssignTask(t, a) /\ UNCHANGED status
    BY <1>1, <1>3, SameMoves DEF AssignTask, OrchestrationUnchanged, Board!AssignTask, Board!Exists,
                            BoardProofs!AssignTask, BoardProofs!Exists
  <1>4. ASSUME NEW t \in Task, CompleteTask(t) PROVE BoardProofs!CompleteTask(t) /\ UNCHANGED status
    <2> DEFINE ts == [x \in DOMAIN tasks |->
                        IF x = t THEN Board!WithStatus(tasks[t], "complete")
                        ELSE IF x \in Board!Released(t) THEN Board!WithStatus(tasks[x], "ready")
                        ELSE tasks[x]]
    <2> DEFINE us == [x \in DOMAIN tasks |->
                        IF x = t THEN BoardProofs!WithStatus(tasks[t], "complete")
                        ELSE IF x \in BoardProofs!Released(t) THEN BoardProofs!WithStatus(tasks[x], "ready")
                        ELSE tasks[x]]
    <2>1. t \in DOMAIN tasks /\ Board!Becomes(ts) /\ UNCHANGED <<used, status>>
      BY <1>4 DEF CompleteTask, OrchestrationUnchanged, Board!CompleteTask, Board!Exists
    <2>2. ts = us BY SameMoves
    <2> HIDE DEF ts
    <2>3. BoardProofs!Becomes(us) BY <2>1, <2>2, SameMoves
    <2> QED BY <1>1, <2>1, <2>3 DEF BoardProofs!CompleteTask, BoardProofs!Exists
  <1>5. ASSUME NEW t \in Task, FailTask(t) PROVE BoardProofs!FailTask(t) /\ UNCHANGED status
    <2>1. t \in DOMAIN tasks /\ UNCHANGED <<used, status>>
      BY <1>5 DEF FailTask, OrchestrationUnchanged, Board!FailTask, Board!Exists
    <2>2. CASE tasks[t].attempts + 1 >= MaxAttempts
      <3>1. Board!Update(t, [Board!WithStatus(tasks[t], "failed") EXCEPT !.attempts = MaxAttempts])
        BY <1>5, <2>2 DEF FailTask, Board!FailTask
      <3> QED BY <1>1, <2>1, <2>2, <3>1, SameMoves DEF BoardProofs!FailTask, BoardProofs!Exists
    <2>3. CASE ~ (tasks[t].attempts + 1 >= MaxAttempts)
      <3>1. Board!Update(t, Board!Retry(t)) BY <1>5, <2>3 DEF FailTask, Board!FailTask
      <3> QED BY <1>1, <2>1, <2>3, <3>1, SameMoves DEF BoardProofs!FailTask, BoardProofs!Exists
    <2> QED BY <2>2, <2>3
  <1> QED BY <1>2, <1>3, <1>4, <1>5 DEF BoardProofs!RecordCall

LEMMA CreateTaskBoard ==
    ASSUME BoardHolds, NEW deps \in SUBSET Task, CreateTask(deps) PROVE BoardHolds'
  <1> DEFINE t == LastTask + 1
  <1>1. BoardProofs!CreateTask(t, deps) /\ UNCHANGED status /\ status # "deleted"
    BY DEF CreateTask, OrchestrationUnchanged, SessionLives, Board!CreateTask, Board!Settled,
           Board!AllComplete, Board!Exists, Board!ColumnForStatus, Board!Nobody,
           BoardProofs!CreateTask, BoardProofs!Settled, BoardProofs!AllComplete,
           BoardProofs!Exists, BoardProofs!ColumnForStatus, BoardProofs!Nobody
  <1>2. t \in Task /\ DOMAIN tasks' = DOMAIN tasks \union {t} /\ used' = used \union {t}
    BY <1>1 DEF BoardProofs!CreateTask
  <1> HIDE DEF t
  <1>3. NoTaskIsGone' BY <1>1, <1>2 DEF BoardHolds, NoTaskIsGone
  <1>4. BoardProofs!BoardInvariant => BoardProofs!BoardInvariant'
    BY <1>1, <1>2, BoardConstants, BoardProofs!CreateTaskStep
  <1>5. BoardProofs!BoardInvariant /\ BoardProofs!WaitingIsUnassigned => BoardProofs!WaitingIsUnassigned'
    BY <1>1, <1>2, BoardConstants, BoardProofs!OtherCallUnassigned
  <1>6. BoardProofs!BoardInvariant => BoardProofs!NobodyForgotten
    BY <1>1, <1>2, BoardConstants, BoardProofs!CreateWaits
  <1> QED BY <1>3, <1>4, <1>5, <1>6, BoardKept

\* The delegating phase assigns several ready tasks at once.
LEMMA DelegatingBoard ==
    ASSUME AgentsInvariant, BoardHolds, NEW objs, NEW o, NEW s, DelegatingPhase(objs, o, s),
           status' = "deleted" <=> status = "deleted"
    PROVE  BoardHolds'
  <1>1. PICK S \in SUBSET ReadyUnassigned : \E agentOf \in [S -> Unused] : Delegates(S, agentOf)
    BY Delegated
  <1>2. PICK agentOf \in [S -> Unused] : Delegates(S, agentOf) BY <1>1
  <1> DEFINE r(t) == [BoardProofs!WithStatus(tasks[t], "assigned") EXCEPT !.assignedTo = agentOf[t]]
  <1> DEFINE ts == [t \in DOMAIN tasks |-> IF t \in S THEN r(t) ELSE tasks[t]]
  <1>3. BoardProofs!Becomes(ts) /\ UNCHANGED used
    <2> DEFINE us == [t \in DOMAIN tasks |->
             IF t \in S THEN [Board!WithStatus(tasks[t], "assigned") EXCEPT !.assignedTo = agentOf[t]]
             ELSE tasks[t]]
    <2>1. Board!Becomes(us) /\ UNCHANGED used BY <1>2 DEF Delegates
    <2>2. us = ts BY SameMoves
    <2> HIDE DEF us, ts
    <2> QED BY <2>1, <2>2, SameMoves
  <1>4. BoardProofs!BoardInvariant /\ BoardProofs!TypeOK /\ BoardProofs!BoardAgrees
    BY SameBoard DEF BoardHolds, BoardProofs!BoardInvariant
  <1>5. \A t \in DOMAIN tasks : tasks[t] \in BoardProofs!InItsColumn
    BY <1>4, BoardConstants, BoardProofs!EachInItsColumn
  <1>6. S \subseteq DOMAIN tasks /\ \A t \in S : agentOf[t] \in Agent /\ tasks[t].status = "ready"
    BY DEF ReadyUnassigned, Unused
  <1>7. ASSUME NEW t \in S
        PROVE  /\ r(t) \in BoardProofs!InItsColumn /\ r(t).status = "assigned"
               /\ r(t).blockedBy = tasks[t].blockedBy /\ r(t).blocks = tasks[t].blocks
    <2> DEFINE w == BoardProofs!WithStatus(tasks[t], "assigned")
    <2>1. tasks[t] \in BoardProofs!InItsColumn /\ "assigned" \in BoardProofs!Status
      BY <1>5, <1>6 DEF BoardProofs!Status
    <2>2. /\ w \in BoardProofs!InItsColumn /\ w.status = "assigned"
          /\ w.blockedBy = tasks[t].blockedBy /\ w.blocks = tasks[t].blocks
      BY <2>1, BoardConstants, BoardProofs!StatusSet
    <2> HIDE DEF w
    <2>3. [w EXCEPT !.assignedTo = agentOf[t]] = r(t) BY DEF w
    <2> HIDE DEF r
    <2> QED BY <1>6, <2>2, <2>3 DEF BoardProofs!InItsColumn, BoardProofs!TaskRecord
  <1> HIDE DEF r
  <1>8. /\ ts \in [DOMAIN tasks -> BoardProofs!InItsColumn]
        /\ \A t \in DOMAIN tasks :
             /\ ts[t].blockedBy = tasks[t].blockedBy /\ ts[t].blocks = tasks[t].blocks
             /\ t \in S => ts[t].status = "assigned"
             /\ t \notin S => ts[t] = tasks[t]
    BY <1>5, <1>7
  <1> HIDE DEF ts
  <1>9. BoardProofs!SameDependencies(ts) BY <1>8 DEF BoardProofs!SameDependencies
  <1>10. BoardProofs!BoardInvariant' BY <1>3, <1>4, <1>8, <1>9, BoardConstants, BoardProofs!MovedStep
  <1>11. tasks' = ts /\ DOMAIN tasks' = DOMAIN tasks BY <1>3, <1>8 DEF BoardProofs!Becomes
  <1>12. NoTaskIsGone' BY <1>3, <1>11, GoneStays DEF BoardHolds
  <1>13. BoardProofs!WaitingIsUnassigned => BoardProofs!WaitingIsUnassigned'
    BY <1>8, <1>11 DEF BoardProofs!WaitingIsUnassigned, BoardProofs!Unassigned, BoardProofs!Waiting
  <1>14. BoardProofs!NobodyForgotten
    <2>1. \A t \in DOMAIN tasks : \A x \in {"pending", "complete"} :
            tasks'[t].status = x => tasks[t].status = x
      BY <1>8, <1>11
    <2>2. \A t \in DOMAIN tasks : tasks'[t].blockedBy = tasks[t].blockedBy BY <1>8, <1>11
    <2> QED BY <1>11, <2>1, <2>2 DEF BoardProofs!NobodyForgotten, BoardProofs!WaitsForNothing,
                                     BoardProofs!AllComplete, BoardProofs!Exists
  <1> QED BY <1>10, <1>12, <1>13, <1>14, BoardKept

\* The planning phase creates several tasks at once, without dependencies.
LEMMA CreateAllBoard ==
    ASSUME BoardHolds, NEW S \in SUBSET Task, S \intersect used = {}, CreateAll(S),
           status # "deleted", status' # "deleted"
    PROVE  BoardHolds'
  <1> DEFINE new == [status |-> "ready", column |-> "ready", assignedTo |-> Board!Nobody,
                     attempts |-> 0, blockedBy |-> {}, blocks |-> {}]
  <1>1. /\ tasks' = [t \in DOMAIN tasks \union S |-> IF t \in S THEN new ELSE tasks[t]]
        /\ columns' = [columns EXCEPT !["ready"] = @ \union S]
        /\ used' = used \union S
    BY DEF CreateAll
  <1>2. /\ new \in BoardProofs!TaskRecord /\ new.column = "ready" /\ new.status = "ready"
        /\ new.blockedBy = {} /\ new.blocks = {} /\ new.assignedTo = BoardProofs!Nobody
        /\ BoardProofs!ColumnForStatus("ready") = "ready" /\ "ready" \in BoardProofs!Column
    BY BoardConstants, SameMoves
      DEF BoardProofs!TaskRecord, BoardProofs!Status, BoardProofs!Column, BoardProofs!ColumnForStatus
  <1> HIDE DEF new
  <1>3. BoardProofs!BoardInvariant BY SameBoard DEF BoardHolds
  <1>4. DOMAIN tasks \subseteq used /\ S \intersect DOMAIN tasks = {}
    BY <1>3 DEF BoardProofs!BoardInvariant, BoardProofs!TypeOK
  <1>5. /\ DOMAIN tasks' = DOMAIN tasks \union S
        /\ \A t \in S : tasks'[t] = new
        /\ \A t \in DOMAIN tasks : tasks'[t] = tasks[t]
    BY <1>1, <1>4
  <1>6. NoTaskIsGone' BY <1>1, <1>5 DEF BoardHolds, NoTaskIsGone
  <1>7. \A t \in DOMAIN tasks : tasks[t].blockedBy \subseteq used /\ tasks[t].blockedBy \intersect S = {}
    BY <1>3 DEF BoardProofs!BoardInvariant, BoardProofs!DependenciesAreUsed
  <1>8. BoardProofs!TypeOK'
    <2>1. columns' \in [BoardProofs!Column -> SUBSET Task]
      BY <1>1, <1>3 DEF BoardProofs!BoardInvariant, BoardProofs!TypeOK
    <2>2. tasks' \in [DOMAIN tasks' -> BoardProofs!TaskRecord]
      BY <1>1, <1>2, <1>3, <1>5 DEF BoardProofs!BoardInvariant, BoardProofs!TypeOK
    <2> QED BY <1>1, <1>3, <1>5, <2>1, <2>2 DEF BoardProofs!BoardInvariant, BoardProofs!TypeOK
  <1>9. BoardProofs!BoardAgrees'
    <2>1. /\ \A t \in DOMAIN tasks : tasks[t].column = BoardProofs!ColumnForStatus(tasks[t].status)
          /\ \A c \in BoardProofs!Column : columns[c] = {t \in DOMAIN tasks : tasks[t].column = c}
      BY <1>3 DEF BoardProofs!BoardInvariant, BoardProofs!BoardAgrees
    <2>2. \A t \in DOMAIN tasks' : tasks'[t].column = BoardProofs!ColumnForStatus(tasks'[t].status)
      BY <1>2, <1>5, <2>1
    <2>3. ASSUME NEW c \in BoardProofs!Column
          PROVE  columns'[c] = {t \in DOMAIN tasks' : tasks'[t].column = c}
      <3>1. columns'[c] = IF c = "ready" THEN columns[c] \union S ELSE columns[c]
        BY <1>1, <1>3 DEF BoardProofs!BoardInvariant, BoardProofs!TypeOK
      <3> QED BY <1>2, <1>5, <2>1, <3>1
    <2> QED BY <2>2, <2>3 DEF BoardProofs!BoardAgrees
  <1>10. BoardProofs!DependenciesMirror'
    <2> SUFFICES ASSUME NEW d \in DOMAIN tasks'
                 PROVE  tasks'[d].blocks = {t \in DOMAIN tasks' : d \in tasks'[t].blockedBy}
      BY DEF BoardProofs!DependenciesMirror
    <2>1. CASE d \in S BY <1>2, <1>5, <1>7, <2>1
    <2>2. CASE d \in DOMAIN tasks
      <3>1. tasks[d].blocks = {t \in DOMAIN tasks : d \in tasks[t].blockedBy}
        BY <1>3, <2>2 DEF BoardProofs!BoardInvariant, BoardProofs!DependenciesMirror
      <3> QED BY <1>2, <1>5, <2>2, <3>1
    <2> QED BY <1>5, <2>1, <2>2
  <1>11. BoardProofs!DependenciesAreUsed'
    BY <1>1, <1>2, <1>5, <1>7 DEF BoardProofs!DependenciesAreUsed
  <1>12. BoardProofs!Acyclic'
    <2> SUFFICES ASSUME NEW T \in (SUBSET DOMAIN tasks') \ {{}}
                 PROVE  \E t \in T : tasks'[t].blockedBy \intersect T = {}
      BY DEF BoardProofs!Acyclic
    <2>1. CASE T \intersect S # {} BY <1>2, <1>5, <2>1
    <2>2. CASE T \intersect S = {}
      <3>1. PICK t \in T : tasks[t].blockedBy \intersect T = {}
        BY <1>3, <1>5, <2>2 DEF BoardProofs!BoardInvariant, BoardProofs!Acyclic
      <3> QED BY <1>5, <2>2, <3>1
    <2> QED BY <2>1, <2>2
  <1>13. BoardProofs!CheckHolds' BY DEF BoardProofs!CheckHolds
  <1>14. BoardProofs!BoardInvariant'
    BY <1>8, <1>9, <1>10, <1>11, <1>12, <1>13 DEF BoardProofs!BoardInvariant
  <1>15. BoardProofs!WaitingIsUnassigned => BoardProofs!WaitingIsUnassigned'
    BY <1>2, <1>5 DEF BoardProofs!WaitingIsUnassigned, BoardProofs!Unassigned
  <1>16. BoardProofs!NobodyForgotten
    BY <1>2, <1>5, <1>7 DEF BoardProofs!NobodyForgotten, BoardProofs!WaitsForNothing,
                            BoardProofs!AllComplete, BoardProofs!Exists
  <1> QED BY <1>6, <1>14, <1>15, <1>16, BoardKept

\* An empty board.
LEMMA EmptyBoard ==
    ASSUME tasks' = [t \in {} |-> {}], columns' = [c \in Board!Column |-> {}], used' \subseteq Task
    PROVE  /\ BoardProofs!BoardInvariant' /\ BoardProofs!WaitingIsUnassigned'
           /\ \A t \in Task : ~ BoardProofs!WaitsForNothing(t)'
  <1>1. DOMAIN tasks' = {} /\ tasks' \in [{} -> BoardProofs!TaskRecord] OBVIOUS
  <1>2. BoardProofs!TypeOK' BY <1>1 DEF BoardProofs!TypeOK, BoardProofs!Column, Board!Column
  <1>3. BoardProofs!BoardInvariant'
    BY <1>1, <1>2 DEF BoardProofs!BoardInvariant, BoardProofs!BoardAgrees, BoardProofs!DependenciesMirror,
           BoardProofs!DependenciesAreUsed, BoardProofs!CheckHolds, BoardProofs!Acyclic,
           BoardProofs!Column, Board!Column
  <1> QED BY <1>1, <1>3 DEF BoardProofs!WaitingIsUnassigned, BoardProofs!WaitsForNothing,
                            BoardProofs!Exists

LEMMA DeleteSessionBoard == ASSUME BoardHolds, DeleteSession PROVE BoardHolds'
  <1>1. /\ tasks' = [t \in {} |-> {}] /\ columns' = [c \in Board!Column |-> {}]
        /\ UNCHANGED used /\ status' = "deleted"
    BY DEF DeleteSession
  <1>2. used' \subseteq Task BY <1>1 DEF BoardHolds, Board!BoardInvariant, Board!TypeOK
  <1>3. /\ BoardProofs!BoardInvariant' /\ BoardProofs!WaitingIsUnassigned'
        /\ \A t \in Task : ~ BoardProofs!WaitsForNothing(t)'
    BY <1>1, <1>2, EmptyBoard
  <1>4. NoTaskIsGone' BY <1>1 DEF NoTaskIsGone
  <1> QED BY <1>3, <1>4, BoardKept DEF BoardProofs!NobodyForgotten

\* An iteration does not delete a session.
LEMMA LoopBoard ==
    ASSUME AgentsInvariant, BoardHolds, NEW objs, NEW o, NEW s \in DOMAIN Transitions, Loop(objs, o, s),
           s = "deleted" <=> status = "deleted"
    PROVE  BoardHolds'
  <1>1. LoopEnds(objs, o, s) BY LoopOutcome
  <1>2. status' = "deleted" <=> s = "deleted" BY <1>1 DEF LoopEnds, Driven, Ended
  <1>3. DelegatingPhase(objs, o, s) \/ UNCHANGED board
    BY DEF Loop, PlanningPhase, ExecutionPhase, ReviewingPhase, SynthesizingPhase
  <1> QED BY <1>2, <1>3, DelegatingBoard, BoardStays

LEMMA AnsweredBoard ==
    ASSUME AgentsInvariant, LoopInvariant, BoardHolds, NEW o, NEW n \in 0 .. MaxTasks, PlanningAnswered(o, n)
    PROVE  BoardHolds'
  <1>1. status \in DOMAIN Transitions BY DEF LoopInvariant, LoopTypes
  <1>2. CASE status = "deleted"
    <2>1. UNCHANGED board /\ status' = "deleted"
      BY <1>2, Transits DEF PlanningAnswered, Throws, Driven
    <2> QED BY <1>2, <2>1, BoardStays
  <1>3. CASE status # "deleted"
    <2>1. CreateAll((LastTask + 1) .. n) /\ status' # "deleted"
      BY <1>3 DEF PlanningAnswered, MovesTo, Throws
    <2>2. LastTask \in 0 .. MaxTasks /\ used = 1 .. LastTask BY NewIds DEF AgentsInvariant
    <2> DEFINE S == (LastTask + 1) .. n
    <2>3. S \in SUBSET Task /\ S \intersect used = {} BY <2>2, SwarmAssumption DEF Task
    <2>4. CreateAll(S) BY <2>1
    <2> HIDE DEF S
    <2> QED BY <1>3, <2>1, <2>3, <2>4, CreateAllBoard
  <1> QED BY <1>2, <1>3

LEMMA BoardStep ==
    ASSUME AgentsInvariant, LoopInvariant, BoardHolds, [Next]_vars PROVE BoardHolds'
  <1>0. status \in DOMAIN Transitions BY DEF LoopInvariant, LoopTypes
  <1>1. ASSUME NEW o \in DOMAIN objects, OrchestrationTimer(o) PROVE BoardHolds'
    BY <1>0, <1>1, LoopBoard DEF OrchestrationTimer
  <1>2. ASSUME NEW o \in DOMAIN objects, NEW n \in 0 .. MaxTasks, PlanningAnswered(o, n) PROVE BoardHolds'
    BY <1>2, AnsweredBoard
  <1>3. CASE StartSwarm
    <2>1. status # "deleted" BY <1>0, <1>3, Transits DEF StartSwarm
    <2> QED BY <1>3, <2>1, LoopBoard, Transits DEF StartSwarm
  <1>4. CASE PauseSwarm
    <2>1. status # "deleted" BY <1>0, <1>4, Transits DEF PauseSwarm, Driven
    <2> QED BY <1>4, <2>1, BoardStays DEF PauseSwarm
  <1>5. CASE ResumeSwarm
    <2>1. ResumedStatus \in {"executing", "planning"} BY DEF ResumedStatus
    <2>2. status # "deleted" /\ ResumedStatus # "deleted" /\ ResumedStatus \in DOMAIN Transitions
      BY <1>0, <1>5, <2>1, Transits DEF ResumeSwarm
    <2>3. CASE UNCHANGED board /\ status' = ResumedStatus BY <2>2, <2>3, BoardStays
    <2>4. CASE Loop([objects EXCEPT ![current].paused = FALSE], current, ResumedStatus)
      BY <2>2, <2>4, LoopBoard
    <2> QED BY <1>5, <2>3, <2>4 DEF ResumeSwarm, board
  <1>6. CASE CancelSwarm
    <2>1. status # "deleted"
      BY <1>0, <1>6 DEF CancelSwarm, Transitions
    <2> QED BY <1>6, <2>1, BoardStays DEF CancelSwarm
  <1>7. CASE \/ \E t \in Task, s \in ManualStatus : UpdateTask(t, s)
             \/ \E t \in Task, a \in Agent : AssignTask(t, a)
             \/ \E t \in Task : CompleteTask(t) \/ FailTask(t)
    BY <1>7, ClientCalls, RecordCallBoard
  <1>8. ASSUME NEW t \in Task, NEW a \in DOMAIN agents \union {x \in Unused : x = AnUnused}, AssignTask(t, a)
        PROVE  BoardHolds'
    <2>1. a \in Agent BY DEF AgentsInvariant, AgentsFit, Unused
    <2> QED BY <1>7, <1>8, <2>1
  <1>9. ASSUME UNCHANGED board, UNCHANGED status PROVE BoardHolds' BY <1>9, BoardStays
  <1>10. CASE \/ \E r \in BOOLEAN : SpawnAgent(r)
              \/ \E a \in Agent : TerminateAgent(a)
              \/ UNCHANGED vars
    BY <1>9, <1>10 DEF SpawnAgent, TerminateAgent, OrchestrationUnchanged, vars
  <1> QED BY <1>1, <1>2, <1>3, <1>4, <1>5, <1>6, <1>7, <1>8, <1>10, DeleteSessionBoard, CreateTaskBoard
      DEF Next

\* While tasks wait, not all wait for one another.
LEMMA SomeTaskGoesOn ==
    ASSUME BoardHolds, NobodyWaitsForNothing PROVE SomethingGoesOn
  <1> SUFFICES ASSUME WithStatus("pending") # {},
                      DOMAIN tasks = WithStatus("pending") \union WithStatus("complete")
               PROVE  FALSE
    BY DEF SomethingGoesOn
  <1> DEFINE S == WithStatus("pending")
  <1>1. S \in (SUBSET DOMAIN tasks) \ {{}} BY DEF WithStatus
  <1>2. PICK t \in S : tasks[t].blockedBy \intersect S = {}
    BY <1>1 DEF BoardHolds, Board!BoardInvariant, Board!Acyclic
  <1>3. t \in Task /\ tasks[t].blockedBy \subseteq DOMAIN tasks
    BY <1>1 DEF BoardHolds, NoTaskIsGone, Board!BoardInvariant, Board!TypeOK, Board!DependenciesAreUsed
  <1>4. \A d \in tasks[t].blockedBy : d \in DOMAIN tasks /\ tasks[d].status = "complete"
    BY <1>2, <1>3 DEF WithStatus
  <1>5. t \in DOMAIN tasks /\ tasks[t].status = "pending" BY DEF WithStatus
  <1> QED BY <1>3, <1>4, <1>5 DEF NobodyWaitsForNothing, Board!WaitsForNothing, Board!AllComplete, Board!Exists

-----------------------------------------------------------------------------
(* The theorems *)

LEMMA InvariantParts ==
    SwarmInvariant <=> AgentsInvariant /\ LoopInvariant /\ BoardHolds /\ pauses \in 0 .. MaxPauses
  BY DEF SwarmInvariant, BoardHolds, TypeOK, AgentsInvariant, AgentsFit, LoopInvariant, LoopTypes

LEMMA SwarmInit == Init => SwarmInvariant
  <1> SUFFICES ASSUME Init PROVE SwarmInvariant OBVIOUS
  <1>1. AgentsInvariant
    <2>1. DOMAIN agents = {} /\ agents \in [{} -> AgentRecord] BY DEF Init
    <2>2. AgentsFit BY <2>1, FS_EmptySet, SwarmAssumption DEF AgentsFit
    <2>3. Board!TypeOK
      <3>1. DOMAIN tasks = {} /\ tasks \in [{} -> Board!TaskRecord] BY DEF Init, Board!Init
      <3> QED BY <3>1 DEF Init, Board!Init, Board!TypeOK
    <2>4. UsedInOrder BY FS_EmptySet DEF Init, Board!Init, UsedInOrder, LastTask
    <2> QED BY <2>1, <2>2, <2>3, <2>4 DEF AgentsInvariant, WorkingAgentHasItsTask
  <1>2. LoopInvariant
    <2>1. objects \in Seq(OrchestrationState) /\ Len(objects) = 0 /\ DOMAIN objects = {} BY DEF Init
    <2>2. LoopTypes BY <2>1, Transits DEF Init, LoopTypes
    <2> QED BY <2>1, <2>2 DEF Init, LoopInvariant, OthersStopped, OneIteration, StatusMatches,
                              IsStarted, LoopIsAlive, Driven
  <1>3. BoardHolds
    <2>1. tasks = [t \in {} |-> {}] /\ columns = [c \in Board!Column |-> {}] /\ used = {} /\ status = "initializing"
      BY DEF Init, Board!Init
    <2>2. DOMAIN tasks = {} BY <2>1
    <2>3. Board!TypeOK BY <1>1 DEF AgentsInvariant
    <2>4. Board!BoardInvariant
      BY <2>1, <2>2, <2>3 DEF Board!BoardInvariant, Board!BoardAgrees, Board!DependenciesMirror,
                         Board!DependenciesAreUsed, Board!CheckHolds, Board!Acyclic
    <2> QED BY <2>1, <2>2, <2>4 DEF BoardHolds, NoTaskIsGone, WaitingIsUnassigned, NobodyWaitsForNothing,
                               Board!WaitsForNothing
  <1>4. pauses \in 0 .. MaxPauses BY SwarmAssumption DEF Init
  <1> QED BY <1>1, <1>2, <1>3, <1>4, InvariantParts

LEMMA SwarmStep == SwarmInvariant /\ [Next]_vars => SwarmInvariant'
  <1> SUFFICES ASSUME SwarmInvariant, [Next]_vars PROVE SwarmInvariant' OBVIOUS
  <1>1. AgentsInvariant' /\ LoopInvariant' /\ BoardHolds'
    BY InvariantParts, AgentsStep, LoopStep, BoardStep
  <1>2. pauses' \in 0 .. MaxPauses
    <2>1. pauses \in 0 .. MaxPauses BY InvariantParts
    <2>2. pauses' = pauses \/ (pauses < MaxPauses /\ pauses' = pauses + 1)
      BY DEF Next, vars, OrchestrationTimer, PlanningAnswered, StartSwarm, PauseSwarm, ResumeSwarm,
             CancelSwarm, DeleteSession, OrchestrationUnchanged, CreateTask, UpdateTask, AssignTask,
             CompleteTask, FailTask, SpawnAgent, TerminateAgent
    <2> QED BY <2>1, <2>2, SwarmAssumption
  <1>3. (AgentsInvariant /\ LoopInvariant /\ BoardHolds /\ pauses \in 0 .. MaxPauses)'
          <=> SwarmInvariant'
    BY InvariantParts, PTL
  <1> QED BY <1>1, <1>2, <1>3

\* Board, agents and orchestration stay consistent, whatever calls come in whatever
\* order, for any number of tasks, agents, starts and pauses.
THEOREM SwarmInvariantHolds == Spec => []SwarmInvariant
  <1> QED BY SwarmInit, SwarmStep, PTL DEF Spec

\* Every variable stays in its type.
THEOREM SwarmTypeCorrect == Spec => []TypeOK
  <1>1. SwarmInvariant => TypeOK BY DEF SwarmInvariant
  <1> QED BY <1>1, SwarmInvariantHolds, PTL

\* The agent an agent service holds to be working on a task is the one the board
\* shows the task assigned to.
THEOREM WorkingAgentsHaveTheirTasks == Spec => []WorkingAgentHasItsTask
  <1>1. SwarmInvariant => WorkingAgentHasItsTask BY DEF SwarmInvariant
  <1> QED BY <1>1, SwarmInvariantHolds, PTL

\* pauseSwarm, resumeSwarm and startSwarm leave one loop, also when they are called
\* while the planning phase awaits the language model, and resumeSwarm at any time.
THEOREM OneLoopOnly == Spec => []OneLoop
  <1>1. ASSUME SwarmInvariant PROVE OneLoop
    <2> SUFFICES ASSUME NEW o \in DOMAIN objects, NEW p \in DOMAIN objects,
                        objects[o].timers > 0, objects[p].timers > 0
                 PROVE  o = p /\ objects[o].timers = 1
      BY DEF OneLoop
    <2>1. o = current /\ p = current BY <1>1 DEF SwarmInvariant, OthersStopped
    <2>2. objects \in Seq(OrchestrationState) /\ o # 0 BY <1>1 DEF SwarmInvariant, TypeOK
    <2>3. objects[o].timers \in Nat BY <2>2, ObjectFields
    <2> QED BY <1>1, <2>1, <2>2, <2>3 DEF SwarmInvariant, OneIteration
  <1> QED BY <1>1, SwarmInvariantHolds, PTL

\* A session in one of its phases is driven by a loop, when only paused sessions
\* are resumed.
THEOREM LoopStaysAlive == ASSUME ~ ResumeAnytime PROVE Spec => []LoopIsAlive
  <1>1. SwarmInvariant => LoopIsAlive BY DEF SwarmInvariant
  <1> QED BY <1>1, SwarmInvariantHolds, PTL

\* The board of a session shows every task in the column of its status, has both
\* records of each dependency and no cycle, also when the loop and the answer of the
\* language model change several tasks in one step.
THEOREM BoardStaysSound ==
    Spec => [](Board!BoardAgrees /\ Board!DependenciesMirror /\ Board!Acyclic)
  <1>1. SwarmInvariant => Board!BoardAgrees /\ Board!DependenciesMirror /\ Board!Acyclic
    BY DEF SwarmInvariant, Board!BoardInvariant
  <1> QED BY <1>1, SwarmInvariantHolds, PTL

\* No ready task has an agent that the delegating phase would pass it over for, as long
\* as callers of updateTask do not themselves make tasks pending, ready or blocked.
THEOREM DelegatingSeesEveryReadyTask ==
    ASSUME ManualStatus \intersect Waiting = {} PROVE Spec => []NoReadyTaskIsPassedOver
  <1>1. SwarmInvariant => NoReadyTaskIsPassedOver
    BY DEF SwarmInvariant, WaitingIsUnassigned, Waiting, NoReadyTaskIsPassedOver, ReadyUnassigned, WithStatus
  <1> QED BY <1>1, SwarmInvariantHolds, PTL

\* Dependencies alone never bring a session to a stop: while tasks are pending, some
\* task is neither pending nor complete, as long as callers of updateTask do not
\* themselves make tasks pending or complete.
THEOREM SomeTaskAlwaysGoesOn ==
    ASSUME ManualStatus \intersect {"pending", "complete"} = {} PROVE Spec => []SomethingGoesOn
  <1>1. SwarmInvariant => SomethingGoesOn
    BY SomeTaskGoesOn DEF SwarmInvariant, BoardHolds
  <1> QED BY <1>1, SwarmInvariantHolds, PTL
=============================================================================
