------------------------- MODULE SwarmOrchestration -------------------------
(***************************************************************************)
(* One swarm session: its status (packages/ai-swarm/src/node/              *)
(* swarm-session-manager.ts), the loop of the lead agent                   *)
(* (lead-agent-orchestrator.ts), its sub-agents (sub-agent-manager.ts) and *)
(* the calls of clients (swarm-service-impl.ts), over the task board of    *)
(* TaskBoard.                                                              *)
(*                                                                         *)
(* Calls and iterations of the loop settle in the turn they begin in and   *)
(* are one step each, but for the planning phase, which awaits the answer  *)
(* of a language model: Loop is an iteration up to that await and          *)
(* PlanningAnswered what follows it.  Mailbox and metrics are left out.    *)
(***************************************************************************)
EXTENDS Naturals, FiniteSets, Sequences

CONSTANTS
    MaxTasks,       \* bound: the tasks created in the session
    Agent,          \* bound: the ids of agents; one that nothing refers to is used again
    MaxAttempts,
    ManualStatus,
    MaxAgents,      \* DEFAULT_SWARM_CONFIGURATION.maxConcurrentAgents
    MaxStarts,      \* bound: calls of startSwarm that succeed
    MaxPauses,      \* bound: calls of pauseSwarm that succeed
    ResumeAnytime   \* clients call resumeSwarm of sessions that are not paused

ASSUME SwarmAssumption ==
    /\ MaxTasks \in Nat
    /\ MaxAgents \in Nat \ {0}
    /\ MaxStarts \in Nat /\ MaxPauses \in Nat
    /\ ResumeAnytime \in BOOLEAN
    /\ Cardinality(Agent) >= MaxAgents + MaxTasks

\* uuid(): ids are new and alike, so that tasks can as well be numbered.
Task == 1 .. MaxTasks
NoTask == 0

VARIABLES
    tasks, columns, used,   \* the task board
    status,     \* SwarmSession.status, "deleted" once the session is gone
    agents,     \* SwarmSession.subAgents
    objects,    \* the OrchestrationStates made so far
    current,    \* the one in orchestrationStates, 0 for none
    pauses      \* pauses so far

board == <<tasks, columns, used>>
vars == <<board, status, agents, objects, current, pauses>>

\* The service exposes no addDependency: no call is between check and writes.
Board == INSTANCE TaskBoard WITH SameTurn <- FALSE, checked <- {}

ASSUME BoardAssumption ==
    /\ MaxAttempts \in Nat \ {0}
    /\ ManualStatus \subseteq Board!Status
    /\ IsFiniteSet(Agent) /\ Board!Nobody \notin Agent

Driven == {"planning", "delegating", "executing", "reviewing", "synthesizing"}
Ended == {"complete", "failed", "cancelled"}

\* isValidTransition
Transitions ==
    [initializing |-> {"planning", "cancelled", "failed"},
     planning     |-> {"delegating", "paused", "cancelled", "failed"},
     delegating   |-> {"executing", "paused", "cancelled", "failed"},
     executing    |-> {"reviewing", "synthesizing", "paused", "cancelled", "failed"},
     reviewing    |-> {"executing", "synthesizing", "paused", "cancelled", "failed"},
     synthesizing |-> {"complete", "paused", "cancelled", "failed"},
     paused       |-> (Driven \union {"cancelled"}),
     complete |-> {}, failed |-> {}, cancelled |-> {}, deleted |-> {}]

\* An agent is working exactly while it has a current task.  timers counts the
\* iterations that are scheduled, the last of them held by loopHandle; planning
\* counts those that await the language model.
AgentRecord == [task : Task \union {NoTask}, reviewer : BOOLEAN]
OrchestrationState == [running : BOOLEAN, paused : BOOLEAN, timers : Nat, planning : Nat]

TypeOK ==
    /\ Board!TypeOK
    /\ status \in DOMAIN Transitions
    /\ DOMAIN agents \subseteq Agent /\ Cardinality(DOMAIN agents) <= MaxAgents
    /\ agents \in [DOMAIN agents -> AgentRecord]
    /\ objects \in Seq(OrchestrationState)
    /\ current \in 0 .. Len(objects)
    /\ pauses \in 0 .. MaxPauses

Init ==
    /\ Board!Init
    /\ status = "initializing"
    /\ agents = [a \in {} |-> {}]
    /\ objects = <<>>
    /\ current = 0
    /\ pauses = 0

-----------------------------------------------------------------------------
(* Tasks and sub-agents *)

LastTask == Cardinality(used)

Exists(a) == a \in DOMAIN agents
Idle(a) == Exists(a) /\ agents[a].task = NoTask

\* Mutant: idle agents are not counted.
RoomForWorking == MaxAgents - Cardinality({a \in DOMAIN agents : ~ Idle(a)})
Room == MaxAgents - Cardinality(DOMAIN agents)

\* uuid(): an id nothing refers to stands for one that is new.
Unused == {a \in Agent : ~ Exists(a) /\ \A t \in DOMAIN tasks : tasks[t].assignedTo # a}

AnUnused == CHOOSE a \in Unused : TRUE

\* spawnAgent for each of A, with the tasks assigned to them.
Spawned(A, task, reviewer) ==
    [a \in DOMAIN agents \union A |->
       IF a \in A THEN [task |-> task[a], reviewer |-> reviewer] ELSE agents[a]]

\* Mutant: the agent keeps its task.
KeepsTask(a) == agents

\* completeAgentTask and failAgentTask: whatever task the agent works on.
Freed(a) == [agents EXCEPT ![a].task = NoTask]

\* terminateAllAgents
NoAgents == [a \in {} |-> {}]

-----------------------------------------------------------------------------
(* The orchestration loop.  Each phase is given the OrchestrationStates objs *)
(* and the status s it begins with and its own state object o.               *)

Runs(objs, o) == o # 0 /\ objs[o].running /\ ~ objs[o].paused

\* The setTimeout at the end of an iteration.
Scheduled(objs, o) ==
    IF Runs(objs, o) THEN [objs EXCEPT ![o].timers = @ + 1] ELSE objs

\* clearTimeout of loopHandle
Cleared(n) == IF n = 0 THEN 0 ELSE n - 1

\* Mutant: the session is left in its phase.
ThrowsOnly(objs, s) == status' = s /\ objects' = objs

\* The catch of an iteration: nothing is scheduled.
Throws(objs, s) ==
    /\ status' = IF "failed" \in Transitions[s] THEN "failed" ELSE s
    /\ objects' = objs

\* A phase that ends with transitionStatus, which throws what is not valid.
MovesTo(objs, o, s, to) ==
    IF to \in Transitions[s]
      THEN status' = to /\ objects' = Scheduled(objs, o)
      ELSE Throws(objs, s)

\* A phase that ends without a transition.
StaysIn(objs, o, s) == status' = s /\ objects' = Scheduled(objs, o)

PlanningPhase(objs, o, s) ==
    /\ IF DOMAIN tasks = {}
         THEN status' = s /\ objects' = [objs EXCEPT ![o].planning = @ + 1]
         ELSE MovesTo(objs, o, s, "delegating")
    /\ UNCHANGED <<board, agents>>

ReadyUnassigned ==
    {t \in DOMAIN tasks : tasks[t].status = "ready" /\ tasks[t].assignedTo = Board!Nobody}

\* Each ready task gets an agent of its own while there is room: assignedRole is
\* never set, so that no idle agent has the role of a task.
DelegatingPhase(objs, o, s) ==
    \E S \in SUBSET ReadyUnassigned :
      /\ Cardinality(S) = IF Cardinality(ReadyUnassigned) < Room
                            THEN Cardinality(ReadyUnassigned) ELSE Room
      /\ LET agentOf == CHOOSE f \in [S -> Unused] : \A t, u \in S : f[t] = f[u] => t = u
             A == {agentOf[t] : t \in S}
             left == {t \in DOMAIN tasks \ S :
                        /\ tasks[t].assignedTo = Board!Nobody
                        /\ tasks[t].status \notin {"complete", "failed"}}
         IN /\ Board!Becomes([t \in DOMAIN tasks |->
                 IF t \in S THEN [Board!WithStatus(tasks[t], "assigned")
                                    EXCEPT !.assignedTo = agentOf[t]]
                 ELSE tasks[t]])
            /\ agents' = Spawned(A, [a \in A |-> CHOOSE t \in S : agentOf[t] = a], FALSE)
            /\ IF left = {} \/ ~ \E a \in Agent : Idle(a)
                 THEN MovesTo(objs, o, s, "executing")
                 ELSE StaysIn(objs, o, s)
      /\ UNCHANGED used

WithStatus(s) == {t \in DOMAIN tasks : tasks[t].status = s}

\* Mutant: a failed task is waited for.
AllTasksComplete == DOMAIN tasks = WithStatus("complete")

AllTasksEnded == DOMAIN tasks = WithStatus("complete") \union WithStatus("failed")

ExecutionPhase(objs, o, s) ==
    /\ CASE ReadyUnassigned # {} -> MovesTo(objs, o, s, "delegating")
         [] ReadyUnassigned = {} /\ WithStatus("review") # {} -> MovesTo(objs, o, s, "reviewing")
         [] OTHER ->
              IF AllTasksEnded THEN MovesTo(objs, o, s, "synthesizing") ELSE StaysIn(objs, o, s)
    /\ UNCHANGED <<board, agents>>

\* One reviewer at most is spawned: nobody gives it a task, so that it stays idle.
ReviewingPhase(objs, o, s) ==
    /\ agents' = IF /\ WithStatus("review") # {} /\ Room > 0
                    /\ ~ \E a \in Agent : Idle(a) /\ agents[a].reviewer
                   THEN Spawned({AnUnused}, [a \in {AnUnused} |-> NoTask], TRUE)
                   ELSE agents
    /\ IF WithStatus("review") = {}
         THEN MovesTo(objs, o, s, "executing")
         ELSE StaysIn(objs, o, s)
    /\ UNCHANGED board

SynthesizingPhase(objs, o, s) ==
    /\ agents' = NoAgents
    /\ MovesTo(objs, o, s, "complete")
    /\ UNCHANGED board

\* runOrchestrationLoop: a session that is deleted is not found, which throws.
Loop(objs, o, s) ==
    IF ~ Runs(objs, o)
      THEN status' = s /\ objects' = objs /\ UNCHANGED <<board, agents>>
      ELSE CASE s = "planning" -> PlanningPhase(objs, o, s)
             [] s = "delegating" -> DelegatingPhase(objs, o, s)
             [] s = "executing" -> ExecutionPhase(objs, o, s)
             [] s = "reviewing" -> ReviewingPhase(objs, o, s)
             [] s = "synthesizing" -> SynthesizingPhase(objs, o, s)
             [] s \in Ended -> /\ status' = s
                               /\ objects' = [objs EXCEPT ![o].running = FALSE]
                               /\ UNCHANGED <<board, agents>>
             [] s = "deleted" -> Throws(objs, s) /\ UNCHANGED <<board, agents>>
             [] OTHER -> StaysIn(objs, o, s) /\ UNCHANGED <<board, agents>>

\* The timer of a loop fires: it looks up the state object of the session anew.
OrchestrationTimer(o) ==
    /\ objects[o].timers > 0
    /\ Loop([objects EXCEPT ![o].timers = @ - 1], current, status)
    /\ UNCHANGED <<current, pauses>>

\* createTask for each of S, none of which depends on another: the ids resolved
\* for dependencies are not what createTask reads.
CreateAll(S) ==
    /\ tasks' = [t \in DOMAIN tasks \union S |->
         IF t \in S THEN [status |-> "ready", column |-> "ready", assignedTo |-> Board!Nobody,
                          attempts |-> 0, blockedBy |-> {}, blocks |-> {}]
         ELSE tasks[t]]
    /\ columns' = [columns EXCEPT !["ready"] = @ \union S]
    /\ used' = used \union S

\* The rest of the planning phase and of its iteration, after the await: what
\* happened to the session meanwhile is not looked at.  Past the bound on tasks
\* none is created.
PlanningAnswered(o, n) ==
    /\ objects[o].planning > 0
    /\ LastTask <= n /\ (n = LastTask => n = MaxTasks)
    /\ LET objs == [objects EXCEPT ![o].planning = @ - 1]
       IN IF status = "deleted"
            THEN Throws(objs, status) /\ UNCHANGED board
            ELSE MovesTo(objs, o, status, "delegating") /\ CreateAll(LastTask + 1 .. n)
    /\ UNCHANGED <<agents, current, pauses>>

-----------------------------------------------------------------------------
(* The life cycle calls of clients *)

NewObject == [running |-> TRUE, paused |-> FALSE, timers |-> 0, planning |-> 0]

\* startSwarm: of a session that is new or paused.
StartSwarm ==
    /\ Len(objects) < MaxStarts
    /\ "planning" \in Transitions[status]
    /\ current' = Len(objects) + 1
    /\ Loop(Append(objects, NewObject), Len(objects) + 1, "planning")
    /\ UNCHANGED pauses

\* Mutant: the scheduled iteration is left.
PausedOnly == [o \in DOMAIN objects |->
    IF o = current THEN [objects[o] EXCEPT !.paused = TRUE] ELSE objects[o]]

\* What pauseOrchestration and stopOrchestration do to the state object, if any.
Paused == [o \in DOMAIN objects |->
    IF o = current THEN [objects[o] EXCEPT !.paused = TRUE, !.timers = Cleared(@)] ELSE objects[o]]
Stopped == [o \in DOMAIN objects |->
    IF o = current THEN [objects[o] EXCEPT !.running = FALSE, !.paused = FALSE, !.timers = Cleared(@)]
    ELSE objects[o]]

PauseSwarm ==
    /\ pauses < MaxPauses
    /\ "paused" \in Transitions[status]
    /\ status' = "paused"
    /\ objects' = Paused
    /\ pauses' = pauses + 1
    /\ UNCHANGED <<board, agents, current>>

\* The status resumeSwarm goes back to.
ResumedStatus == IF WithStatus("in_progress") \union WithStatus("review") # {}
                   THEN "executing" ELSE "planning"

ResumeSwarm ==
    /\ ResumeAnytime \/ status = "paused"
    /\ ResumedStatus \in Transitions[status]
    /\ IF current # 0 /\ objects[current].paused
         THEN Loop([objects EXCEPT ![current].paused = FALSE], current, ResumedStatus)
         ELSE status' = ResumedStatus /\ UNCHANGED <<objects, board, agents>>
    /\ UNCHANGED <<current, pauses>>

CancelSwarm ==
    /\ "cancelled" \in Transitions[status]
    /\ status' = "cancelled"
    /\ objects' = Stopped
    /\ current' = 0
    /\ agents' = NoAgents
    /\ UNCHANGED <<board, pauses>>

\* deleteSession: the board and the agents go with the session, the state object
\* of the orchestrator stays.
DeleteSession ==
    /\ status \in Ended \union {"initializing"}
    /\ status' = "deleted"
    /\ tasks' = [t \in {} |-> {}]
    /\ columns' = [c \in Board!Column |-> {}]
    /\ agents' = NoAgents
    /\ UNCHANGED <<used, objects, current, pauses>>

-----------------------------------------------------------------------------
(* The calls of clients about tasks and agents.  Those made of a session that *)
(* has ended change what clients alone read from then on, and are left out.   *)

OrchestrationUnchanged == UNCHANGED <<status, objects, current, pauses>>
SessionLives == status \notin Ended \union {"deleted"}

CreateTask(deps) ==
    /\ SessionLives /\ Board!CreateTask(LastTask + 1, deps)
    /\ OrchestrationUnchanged /\ UNCHANGED agents

UpdateTask(t, s) ==
    /\ SessionLives /\ Board!UpdateTask(t, s)
    /\ OrchestrationUnchanged /\ UNCHANGED agents

\* assignTask: the board first; an agent that is not there, because it has been
\* terminated, leaves it at that.
AssignTask(t, a) ==
    /\ SessionLives /\ Board!AssignTask(t, a)
    /\ agents' = IF Exists(a) THEN [agents EXCEPT ![a].task = t] ELSE agents
    /\ OrchestrationUnchanged

\* completeTask and failTask: the agent first, which throws when it is not there.
FreesAgent(t) ==
    LET a == tasks[t].assignedTo
    IN IF a = Board!Nobody THEN UNCHANGED agents ELSE Exists(a) /\ agents' = Freed(a)

CompleteTask(t) ==
    /\ SessionLives /\ Board!CompleteTask(t)
    /\ FreesAgent(t)
    /\ OrchestrationUnchanged

FailTask(t) ==
    /\ SessionLives /\ Board!FailTask(t)
    /\ FreesAgent(t)
    /\ OrchestrationUnchanged

SpawnAgent(reviewer) ==
    /\ SessionLives /\ Room > 0
    /\ agents' = Spawned({AnUnused}, [a \in {AnUnused} |-> NoTask], reviewer)
    /\ OrchestrationUnchanged /\ UNCHANGED board

\* terminateAgent: its tasks keep it as the agent they are assigned to.
TerminateAgent(a) ==
    /\ SessionLives /\ Exists(a)
    /\ agents' = [x \in DOMAIN agents \ {a} |-> agents[x]]
    /\ OrchestrationUnchanged /\ UNCHANGED board

-----------------------------------------------------------------------------
Next ==
    \/ \E o \in DOMAIN objects : OrchestrationTimer(o)
    \/ \E o \in DOMAIN objects, n \in 0 .. MaxTasks : PlanningAnswered(o, n)
    \/ StartSwarm \/ PauseSwarm \/ ResumeSwarm \/ CancelSwarm \/ DeleteSession
    \/ \E deps \in SUBSET Task : CreateTask(deps)
    \/ \E t \in Task, s \in ManualStatus : UpdateTask(t, s)
    \/ \E t \in Task, a \in DOMAIN agents \union {x \in Unused : x = AnUnused} : AssignTask(t, a)
    \/ \E t \in Task : CompleteTask(t) \/ FailTask(t)
    \/ \E r \in BOOLEAN : SpawnAgent(r)
    \/ \E a \in Agent : TerminateAgent(a)

Spec == Init /\ [][Next]_vars

\* Timers fire, and the language model answers or its request fails.
Fairness ==
    \A o \in 1 .. MaxStarts :
      /\ WF_vars(o \in DOMAIN objects /\ OrchestrationTimer(o))
      /\ WF_vars(o \in DOMAIN objects /\ \E n \in 0 .. MaxTasks : PlanningAnswered(o, n))

FairSpec == Spec /\ Fairness

-----------------------------------------------------------------------------
(* Properties *)

OrchestrationPaused == current # 0 /\ objects[current].paused

\* pause, resume and a second start leave at most one iteration scheduled: two
\* loops would each delegate and spawn agents.
OneLoop ==
    \A o, p \in DOMAIN objects :
      objects[o].timers > 0 /\ objects[p].timers > 0 => o = p /\ objects[o].timers = 1

\* A session that is in one of the phases has a loop that goes on with it, unless
\* its orchestration is paused: nothing but the loop starts its next iteration.
LoopIsAlive ==
    status \in Driven /\ ~ OrchestrationPaused =>
      /\ current # 0
      /\ \/ objects[current].planning > 0
         \/ \E o \in DOMAIN objects : objects[o].timers > 0

\* The agent's record of what it works on and the board's record of who works on
\* what are kept by different services: the task an agent works on is its own.
WorkingAgentHasItsTask ==
    \A a \in DOMAIN agents :
      ~ Idle(a) => agents[a].task \in DOMAIN tasks /\ tasks[agents[a].task].assignedTo = a

\* The delegating phase passes over a ready task that has an agent: there is none.
NoReadyTaskIsPassedOver == WithStatus("ready") = ReadyUnassigned

\* Pending tasks do not keep one another, or complete ones, waiting: while some are
\* pending, another is there to be worked on, or is what they wait for in vain.
SomethingGoesOn ==
    WithStatus("pending") # {} => DOMAIN tasks # WithStatus("pending") \union WithStatus("complete")

TasksEnded == \A t \in DOMAIN tasks : tasks[t].status \in {"complete", "failed"}
\* A session the tasks of which have all ended, ends, unless work is added or it
\* is paused.
EndsWhenTasksEnd ==
    (status \in Driven /\ TasksEnded) ~>
      (status \notin Driven \/ OrchestrationPaused \/ ~ TasksEnded)

\* "If there are ready tasks that need assignment, go back to delegating"
GoesBackToDelegating ==
    [][status = "executing" /\ ReadyUnassigned # {} => status' # "failed"]_vars

-----------------------------------------------------------------------------
(* Why the invariants hold. *)

UsedInOrder == used = 1 .. LastTask

\* An object that was replaced or stopped runs no more and has nothing scheduled.
OthersStopped ==
    \A o \in DOMAIN objects : o # current => objects[o].timers = 0 /\ ~ Runs(objects, o)

\* One iteration is scheduled at most, and none while the current object is paused
\* or awaits a plan.
OneIteration ==
    current # 0 =>
      /\ objects[current].timers <= 1
      /\ objects[current].paused \/ status = "planning" => objects[current].timers = 0

\* The status of the session and the state of its orchestration are kept by
\* different services.
StatusMatches ==
    /\ status = "initializing" => current = 0
    /\ status = "paused" /\ current # 0 => objects[current].paused

\* Starting a session is then all that makes it go on, and only its end stops the
\* object that runs.
IsStarted ==
    status \in Driven \union {"paused"} => current # 0 /\ objects[current].running

\* Tasks are deleted with their session only, so that none waits for one that is gone.
NoTaskIsGone == DOMAIN tasks = IF status = "deleted" THEN {} ELSE used

\* A task that could be given to an agent has none, and a pending task has something to
\* wait for, as long as callers of updateTask do not set these statuses themselves.
Waiting == {"pending", "ready", "blocked"}
WaitingIsUnassigned ==
    \A t \in DOMAIN tasks : tasks[t].status \in Waiting => tasks[t].assignedTo = Board!Nobody
NobodyWaitsForNothing == \A t \in Task : ~ Board!WaitsForNothing(t)

SwarmInvariant ==
    /\ TypeOK /\ UsedInOrder /\ WorkingAgentHasItsTask
    /\ Board!BoardInvariant /\ NoTaskIsGone
    /\ ManualStatus \intersect Waiting = {} => WaitingIsUnassigned
    /\ ManualStatus \intersect {"pending", "complete"} = {} => NobodyWaitsForNothing
    /\ OthersStopped /\ OneIteration /\ StatusMatches
    /\ ResumeAnytime \/ (IsStarted /\ LoopIsAlive)
=============================================================================
