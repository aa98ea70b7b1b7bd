------------------------------ MODULE Discovery ------------------------------
(***************************************************************************)
(* Start-up of atmd-server: how the server finds its agents.               *)
(*                                                                         *)
(* control_task broadcasts a BRD packet and listens for HELLO answers      *)
(* until none came for a second, again and again until every agent of the  *)
(* configuration file has answered.  It then waits until both data tasks   *)
(* have suspended themselves, resumes them and begins to serve commands.   *)
(* An agent waits for the BRD of a server of its own version, and from     *)
(* then on answers every BRD of that server, which may have restarted.     *)
(*                                                                         *)
(* An agent is identified by its address: 0..NAgents-1 are the addresses   *)
(* of the configuration file in their order, higher ones are agents that   *)
(* the file does not name.  Packets are on an RTnet segment that loses     *)
(* none; a packet to a program that is not running is lost.                *)
(***************************************************************************)
EXTENDS Naturals, Sequences

CONSTANTS
  NAgents,      \* number of agents in the configuration file
  NStrangers,   \* agents on the network that the file does not name
  Version,      \* versions of the programs that may meet on the network
  MaxRestarts,  \* bound: restarts of the server
  MaxInFlight,  \* bound: BRD packets waiting at an agent
  Prompt        \* TRUE: an agent answers within the timeout of a second

ASSUME DiscoveryAssumption ==
  /\ NAgents \in Nat \ {0}
  /\ NStrangers \in Nat
  /\ Version # {}
  /\ MaxRestarts \in Nat
  /\ MaxInFlight \in Nat
  /\ Prompt \in BOOLEAN

Configured == 0 .. NAgents - 1
Address == 0 .. NAgents + NStrangers - 1
DataTasks == {"rt_data_task", "data_task"}

VARIABLES
  control,         \* server: what control_task is doing
  board_status,    \* server: _status of the VirtualBoard
  agents,          \* server: _agents, addresses in the order they were added
  ag_count,        \* server: agents that control_task has counted
  task,            \* server: what each of the data tasks is doing
  server_version,  \* server: its version
  agent,           \* agents: what each of them is doing
  agent_version,   \* agents: their versions
  brds,            \* network: BRD packets waiting at every agent, their versions
  hellos,          \* network: HELLO packets waiting at the server
  restarts         \* restarts of the server so far

vars == <<control, board_status, agents, ag_count, task, server_version, agent,
          agent_version, brds, hellos, restarts>>

Init ==
  /\ control = "broadcast"
  /\ board_status = "BOOT"
  /\ agents = <<>>
  /\ ag_count = 0
  /\ task = [t \in DataTasks |-> "starting"]
  /\ server_version \in Version
  /\ agent = [a \in Address |-> "off"]
  /\ agent_version \in [Address -> Version]
  /\ brds = [a \in Address |-> <<>>]
  /\ hellos = <<>>
  /\ restarts = 0
-----------------------------------------------------------------------------
(* Server. *)

(* control_task: some agent is missing, so a BRD is sent to all. *)
Broadcast ==
  /\ control = "broadcast"
  /\ ag_count < NAgents
  /\ \A a \in Address : Len(brds[a]) < MaxInFlight
  /\ brds' = [a \in Address |-> IF agent[a] = "off" THEN <<>>
                              ELSE Append(brds[a], server_version)]
  /\ control' = "listen"
  /\ UNCHANGED <<board_status, agents, ag_count, task, server_version, agent,
                 agent_version, hellos, restarts>>

Known(a) == \E i \in DOMAIN agents : agents[i] = a

(* A bug to catch: a second answer of an agent adds it again. *)
AddsAgain(a) == agent_version[a] = server_version /\ a \in Configured


(* The answers that add an agent: of the server's version, from an address *)
(* of the configuration file that has not answered before.                 *)
Adds(a) == agent_version[a] = server_version /\ a \in Configured /\ ~Known(a)

(* control_task: one HELLO. *)
TakeHello ==
  /\ control = "listen"
  /\ hellos # <<>>
  /\ \/ /\ Adds(Head(hellos))
        /\ agents' = Append(agents, Head(hellos))
        /\ ag_count' = ag_count + 1
     \/ /\ ~Adds(Head(hellos))
        /\ UNCHANGED <<agents, ag_count>>
  /\ hellos' = Tail(hellos)
  /\ UNCHANGED <<control, board_status, task, server_version, agent,
                 agent_version, brds, restarts>>

(* A bug to catch: listening ends with the last agent that was missing.    *)
QuietOrComplete == hellos = <<>> \/ ag_count = NAgents

(* Nothing was heard for a second.  An agent that answers promptly has     *)
(* answered by then.                                                       *)
Quiet ==
  /\ hellos = <<>>
  /\ Prompt => \A a \in Address : brds[a] = <<>>

(* control_task: the timeout.  Listening goes on until it, even when all   *)
(* agents have been found; clear_config then makes the board IDLE.         *)
ListenTimeout ==
  /\ control = "listen"
  /\ Quiet
  /\ \/ /\ ag_count < NAgents
        /\ control' = "broadcast"
        /\ UNCHANGED board_status
     \/ /\ ag_count >= NAgents
        /\ control' = "wait_tasks"
        /\ board_status' = "IDLE"
  /\ UNCHANGED <<agents, ag_count, task, server_version, agent, agent_version,
                 brds, hellos, restarts>>

(* rt_data_task, data_task: suspended until the agents are known. *)
SuspendTask(t) ==
  /\ task[t] = "starting"
  /\ task' = [task EXCEPT ![t] = "suspended"]
  /\ UNCHANGED <<control, board_status, agents, ag_count, server_version, agent,
                 agent_version, brds, hellos, restarts>>

(* A bug to catch: only rt_data_task is waited for. *)
FirstSuspended == task["rt_data_task"] = "suspended"

(* wait_for_datatask. *)
TasksSuspended == \A t \in DataTasks : task[t] = "suspended"

(* control_task: the data tasks are resumed and commands are served.  To   *)
(* resume a task that is not suspended does nothing.                       *)
UnlockThreads ==
  /\ control = "wait_tasks"
  /\ TasksSuspended
  /\ task' = [t \in DataTasks |-> IF task[t] = "suspended" THEN "running" ELSE task[t]]
  /\ board_status' = "IDLE"
  /\ control' = "serving"
  /\ UNCHANGED <<agents, ag_count, server_version, agent, agent_version, brds,
                 hellos, restarts>>

(* The server process ends, for whatever reason, and is started again,     *)
(* perhaps in another version.  Its sockets are new.                       *)
Restart ==
  /\ restarts < MaxRestarts
  /\ restarts' = restarts + 1
  /\ control' = "broadcast"
  /\ board_status' = "BOOT"
  /\ agents' = <<>>
  /\ ag_count' = 0
  /\ task' = [t \in DataTasks |-> "starting"]
  /\ server_version' \in Version
  /\ hellos' = <<>>
  /\ UNCHANGED <<agent, agent_version, brds>>
-----------------------------------------------------------------------------
(* Agents. *)

(* The program is started and waits for a BRD. *)
StartAgent(a) ==
  /\ agent[a] = "off"
  /\ agent' = [agent EXCEPT ![a] = "waiting"]
  /\ UNCHANGED <<control, board_status, agents, ag_count, task, server_version,
                 agent_version, brds, hellos, restarts>>

TakesBrd(a) ==
  /\ brds[a] # <<>>
  /\ brds' = [brds EXCEPT ![a] = Tail(@)]
  /\ UNCHANGED <<control, board_status, agents, ag_count, task, server_version,
                 agent_version, restarts>>

(* A BRD of another version is ignored. *)
IgnoreBrd(a) ==
  /\ agent[a] = "waiting"
  /\ TakesBrd(a)
  /\ agent_version[a] # Head(brds[a])
  /\ UNCHANGED <<agent, hellos>>

(* The first BRD: it is answered, and the measurement thread is started. *)
AnswerBrd(a) ==
  /\ agent[a] = "waiting"
  /\ TakesBrd(a)
  /\ agent_version[a] = Head(brds[a])
  /\ agent' = [agent EXCEPT ![a] = "serving"]
  /\ hellos' = Append(hellos, a)

(* A bug to catch: a serving agent ignores a server that has restarted. *)
AnswersNoMore(a) == UNCHANGED hellos

AnswersAgain(a) == hellos' = Append(hellos, a)

(* Every later BRD is answered, whatever its version. *)
AnswerBrdAgain(a) ==
  /\ agent[a] = "serving"
  /\ TakesBrd(a)
  /\ AnswersAgain(a)
  /\ UNCHANGED agent
-----------------------------------------------------------------------------
ControlTask == Broadcast \/ TakeHello \/ ListenTimeout \/ UnlockThreads
AgentMain(a) == IgnoreBrd(a) \/ AnswerBrd(a) \/ AnswerBrdAgain(a)

(* With all agents found nothing is left to do here: control_task serves   *)
(* commands (module Control).                                              *)
Serve == control = "serving" /\ UNCHANGED vars

Next ==
  \/ ControlTask
  \/ \E t \in DataTasks : SuspendTask(t)
  \/ Restart
  \/ \E a \in Address : StartAgent(a) \/ AgentMain(a)
  \/ Serve

Spec == Init /\ [][Next]_vars

(* Every task and program keeps running, and every agent of the            *)
(* configuration file is switched on at some time.                         *)
Fairness ==
  /\ WF_vars(ControlTask)
  /\ \A t \in DataTasks : WF_vars(SuspendTask(t))
  /\ \A a \in Configured : WF_vars(StartAgent(a))
  /\ \A a \in Address : WF_vars(AgentMain(a))

FairSpec == Spec /\ Fairness
-----------------------------------------------------------------------------
TypeOK ==
  /\ control \in {"broadcast", "listen", "wait_tasks", "serving"}
  /\ board_status \in {"BOOT", "IDLE"}
  /\ agents \in Seq(Configured)
  /\ ag_count \in 0 .. NAgents
  /\ task \in [DataTasks -> {"starting", "suspended", "running"}]
  /\ server_version \in Version
  /\ agent \in [Address -> {"off", "waiting", "serving"}]
  /\ agent_version \in [Address -> Version]
  /\ brds \in [Address -> Seq(Version)]
  /\ hellos \in Seq(Address)
  /\ restarts \in Nat


(* No HELLO reaches the server while it serves commands: control_task does *)
(* not look at the type of what it receives then, and would take a late    *)
(* HELLO for the answer to a command.                                      *)
NoLateHello ==
  control = "serving" => hellos = <<>> /\ \A a \in Address : brds[a] = <<>>

(* The wake-up of neither data task is lost: once commands are served both *)
(* tasks run.                                                              *)
DataTasksRun == control = "serving" => \A t \in DataTasks : task[t] = "running"

(* A server whose version the configured agents have serves in the end,    *)
(* in whatever order the agents are switched on, and also when it has      *)
(* restarted and finds some agents waiting and others serving.             *)
DiscoveryCompletes ==
  <>[](\A a \in Configured : agent_version[a] = server_version)
    => <>[](control = "serving")
-----------------------------------------------------------------------------
(* What the configuration file says, and the code does not do. *)

(* start_measure sends the masks of the i-th eight channels to the i-th of *)
(* _agents; rt_data_task gives the events of an agent the channels of its  *)
(* place in the configuration file.                                        *)
MaskSentTo(i) == agents[i + 1]
ChannelsOf(a) == a

(* "the first agent will be assigned channels 1-8, the second 9-16": the   *)
(* masks a client sets for some channels reach the agent these channels    *)
(* are recorded from.                                                      *)
ChannelsFollowConfig ==
  control = "serving" => \A i \in Configured : ChannelsOf(MaskSentTo(i)) = i
=============================================================================
