------------------------------- MODULE Control -------------------------------
(***************************************************************************)
(* Control of the measurements of atmd-server.                             *)
(*                                                                         *)
(* A client's command runs in the main thread of the server, which hands   *)
(* control packets to the real-time control_task and waits for its reply.  *)
(* control_task sends the packet over RTnet, to one agent (MEAS_SET) or to *)
(* all of them (MEAS_CTR), and waits without a timeout for their answers.  *)
(* On an agent the main thread answers; for a START it first hands the     *)
(* command over to the measurement thread and waits for that one.  When a  *)
(* measurement thread ends it sends TERM, and the TERM of the last agent   *)
(* makes the server IDLE (module DataTask tells what the data tasks do     *)
(* with the packets in between, which do not matter here).                 *)
(***************************************************************************)
EXTENDS Naturals, Sequences, FiniteSets

CONSTANTS
  NAgents,        \* number of agents, identified by 0..NAgents-1
  MaxStarts,      \* bound: measurements the clients ask for
  MaxStops,       \* bound: stops the clients ask for
  ClientQuits,    \* TRUE: a client may send EXT
  ConfigMayFail,  \* TRUE: the PLL of a board may fail to lock
  SyncMayFail     \* TRUE: an agent may fail to wait for its TDMA cycle

ASSUME ControlAssumption ==
  /\ NAgents \in Nat \ {0}
  /\ MaxStarts \in Nat
  /\ MaxStops \in Nat
  /\ {ClientQuits, ConfigMayFail, SyncMayFail} \subseteq BOOLEAN

VARIABLES
  board_status,  \* server: _status of the VirtualBoard
  cmd,           \* server: command control_task is serving, and for which agent
  quitting,      \* server: the command is the stop of an EXT
  deserted,      \* a client has left a measurement that was running
  answers,       \* server: answers taken by control_task for the command
  reply,         \* server: last reply of control_task to the main thread
  agent_end,     \* server: agents whose TERM data_task has seen
  to_agent,      \* network: control packets on their way to every agent
  to_server,     \* network: answers on their way to the server
  terms,         \* network: TERM packets of every agent on their way
  main,          \* agent: what the main thread is doing
  thread,        \* agent: what the measurement thread is doing
  ag_status,     \* agent: _status of the ATMDboard
  stop,          \* agent: _stop of the ATMDboard
  starts,        \* commands START sent so far
  stops          \* commands STOP sent so far

server == <<board_status, cmd, quitting, deserted, answers, reply>>
network == <<to_agent, to_server>>
data == <<agent_end, terms>>
agents == <<main, thread, ag_status, stop>>
bounds == <<starts, stops>>
vars == <<server, network, data, agents, bounds>>

Agent == 0 .. NAgents - 1

Command == {"SET", "START", "STOP"}
Answer == {"ACK", "BUSY", "ERROR"}
NoAnswer == "none"

Init ==
  /\ board_status = "IDLE"
  /\ cmd = [kind |-> "none", to |-> 0]
  /\ quitting = FALSE
  /\ deserted = FALSE
  /\ answers = [a \in Agent |-> NoAnswer]
  /\ reply = NoAnswer
  /\ agent_end = {}
  /\ to_agent = [a \in Agent |-> <<>>]
  /\ to_server = <<>>
  /\ terms = [a \in Agent |-> 0]
  /\ main = [a \in Agent |-> "recv"]
  /\ thread = [a \in Agent |-> "wait"]
  /\ ag_status = [a \in Agent |-> "IDLE"]
  /\ stop = [a \in Agent |-> FALSE]
  /\ starts = 0
  /\ stops = 0
-----------------------------------------------------------------------------
(* Server: main thread and control_task.  The main thread is free to serve *)
(* a client while there is no command; send_command and the receipt by     *)
(* control_task are one step, because the sender is suspended until then.  *)

Idle == cmd.kind = "none"

SendTo(a, kind) == to_agent' = [to_agent EXCEPT ![a] = Append(@, kind)]
Broadcast(kind) == to_agent' = [a \in Agent |-> Append(to_agent[a], kind)]

(* MSR START, start_measure: the board is RUNNING, and the agents are      *)
(* configured one after the other.                                         *)
MsrStart ==
  /\ Idle
  /\ board_status = "IDLE"
  /\ starts < MaxStarts
  /\ starts' = starts + 1
  /\ board_status' = "RUNNING"
  /\ cmd' = [kind |-> "SET", to |-> 0]
  /\ answers' = [a \in Agent |-> NoAnswer]
  /\ SendTo(0, "SET")
  /\ UNCHANGED <<quitting, deserted, reply, to_server, data, agents, stops>>

(* control_task: MEAS_SET is answered by the agent it was sent to, and the *)
(* answer goes to the main thread, which sends the next MEAS_SET or, after *)
(* the last one, START.  Answers of other agents are dropped.              *)
SetAnswered ==
  /\ cmd.kind = "SET"
  /\ to_server # <<>>
  /\ LET m == Head(to_server) IN
     IF m.from = cmd.to
     THEN /\ reply' = m.type
          /\ \/ /\ m.type # "ACK"
                /\ board_status' = "ERR"
                /\ cmd' = [kind |-> "none", to |-> 0]
                /\ UNCHANGED to_agent
             \/ /\ m.type = "ACK"
                /\ cmd.to < NAgents - 1
                /\ cmd' = [kind |-> "SET", to |-> cmd.to + 1]
                /\ SendTo(cmd.to + 1, "SET")
                /\ UNCHANGED board_status
             \/ /\ m.type = "ACK"
                /\ cmd.to = NAgents - 1
                /\ cmd' = [kind |-> "START", to |-> 0]
                /\ Broadcast("START")
                /\ UNCHANGED board_status
     ELSE UNCHANGED <<reply, board_status, cmd, to_agent>>
  /\ to_server' = Tail(to_server)
  /\ UNCHANGED <<quitting, deserted, answers, data, agents, bounds>>

(* MSR STOP, stop_measure. *)
MsrStop ==
  /\ Idle
  /\ board_status = "RUNNING"
  /\ stops < MaxStops
  /\ stops' = stops + 1
  /\ cmd' = [kind |-> "STOP", to |-> 0]
  /\ answers' = [a \in Agent |-> NoAnswer]
  /\ Broadcast("STOP")
  /\ UNCHANGED <<board_status, quitting, deserted, reply, to_server, data, agents, starts>>

(* EXT: a running measurement is stopped first; clear_config then makes    *)
(* the board IDLE.                                                         *)
Quit ==
  /\ ClientQuits
  /\ Idle
  /\ \/ /\ board_status = "RUNNING"
        /\ stops < MaxStops
        /\ stops' = stops + 1
        /\ quitting' = TRUE
        /\ deserted' = TRUE
        /\ cmd' = [kind |-> "STOP", to |-> 0]
        /\ answers' = [a \in Agent |-> NoAnswer]
        /\ Broadcast("STOP")
        /\ UNCHANGED board_status
     \/ /\ board_status # "RUNNING"
        /\ board_status' = "IDLE"
        /\ UNCHANGED <<quitting, deserted, cmd, answers, to_agent, stops>>
  /\ UNCHANGED <<reply, to_server, data, agents, starts>>

(* MSR STATUS: an error is forgotten once it was reported. *)
MsrStatus ==
  /\ Idle
  /\ board_status = "ERR"
  /\ board_status' = "IDLE"
  /\ UNCHANGED <<cmd, quitting, deserted, answers, reply, network, data, agents, bounds>>

(* control_task, MEAS_CTR: the first answer of every agent is recorded.    *)
(* "answers" holds what the agent sent.                                    *)
TakeAnswer ==
  /\ cmd.kind \in {"START", "STOP"}
  /\ to_server # <<>>
  /\ \E a \in Agent : answers[a] = NoAnswer
  /\ LET m == Head(to_server) IN
     answers' = [answers EXCEPT ![m.from] = IF @ = NoAnswer THEN m.type ELSE @]
  /\ to_server' = Tail(to_server)
  /\ UNCHANGED <<board_status, cmd, quitting, deserted, reply, to_agent, data, agents, bounds>>

(* A change to be wary of: the packet is decoded, and nothing else. *)
Decoded(type) == type

(* What control_task sees of an answer: the packet is not decoded, so its  *)
(* type is the one RTnet::recv left in it.                                 *)
Recorded(type) == "BADTYPE"

Count(type) == {a \in Agent : Recorded(answers[a]) = type}

(* A bug to catch: the type of an answer is passed on as it is. *)
UncheckedVerdict == Recorded("ACK")

(* The analysis of the answers: any ERROR, then any BUSY, or ACK. *)
Verdict ==
  CASE Count("ERROR") # {} -> "ERROR"
    [] Count("ERROR") = {} /\ Count("BUSY") # {} -> "BUSY"
    [] OTHER -> "ACK"

SomeButNotAllFailed == Count("ERROR") \notin {{}, Agent}

(* What start_measure, stop_measure and the EXT command make of the reply. *)
StatusAfter(kind, verdict) ==
  IF quitting THEN "IDLE" ELSE IF verdict = "ACK" THEN board_status ELSE "ERR"

(* All agents have answered: if only some failed they are all sent a STOP, *)
(* whose answers nobody waits for.                                         *)
Conclude ==
  /\ cmd.kind \in {"START", "STOP"}
  /\ \A a \in Agent : answers[a] # NoAnswer
  /\ reply' = Verdict
  /\ IF SomeButNotAllFailed THEN Broadcast("STOP") ELSE UNCHANGED to_agent
  /\ board_status' = StatusAfter(cmd.kind, Verdict)
  /\ cmd' = [kind |-> "none", to |-> 0]
  /\ quitting' = FALSE
  /\ UNCHANGED <<deserted, answers, to_server, data, agents, bounds>>

(* A bug to catch: the first TERM ends the measurement. *)
AnyTerm(a) == TRUE

LastTerm(a) == agent_end \cup {a} = Agent /\ a \notin agent_end

(* A bug to catch: the end flags are not reset. *)
EndsKept(a) == agent_end \cup {a}

EndsReset(a) == {}

(* data_task: a TERM.  The last one ends the measurement. *)
TermArrives(a) ==
  /\ terms[a] > 0
  /\ terms' = [terms EXCEPT ![a] = @ - 1]
  /\ IF LastTerm(a)
     THEN agent_end' = EndsReset(a) /\ board_status' = "IDLE"
     ELSE agent_end' = agent_end \cup {a} /\ UNCHANGED board_status
  /\ UNCHANGED <<cmd, quitting, deserted, answers, reply, network, agents, bounds>>
-----------------------------------------------------------------------------
(* Agent: main thread. *)

Answers(a, type) == to_server' = Append(to_server, [from |-> a, type |-> type])

Receives(a, kind) ==
  /\ main[a] = "recv"
  /\ to_agent[a] # <<>>
  /\ Head(to_agent[a]) = kind
  /\ to_agent' = [to_agent EXCEPT ![a] = Tail(@)]

(* MEAS_SET: the board is configured whatever its status is. *)
AgentSet(a) ==
  /\ Receives(a, "SET")
  /\ \/ /\ Answers(a, "ACK")
        /\ UNCHANGED ag_status
     \/ /\ ConfigMayFail
        /\ Answers(a, "ERROR")
        /\ ag_status' = [ag_status EXCEPT ![a] = "ERR"]
  /\ UNCHANGED <<server, data, main, thread, stop, bounds>>

(* START: handed to the measurement thread, or refused. *)
AgentStart(a) ==
  /\ Receives(a, "START")
  /\ IF ag_status[a] = "IDLE"
     THEN main' = [main EXCEPT ![a] = "handover"] /\ UNCHANGED to_server
     ELSE /\ Answers(a, IF ag_status[a] = "ERR" THEN "ERROR" ELSE "BUSY")
          /\ UNCHANGED main
  /\ UNCHANGED <<server, data, thread, ag_status, stop, bounds>>

(* The measurement thread has replied: its answer goes to the server. *)
AgentStarted(a) ==
  /\ main[a] = "started"
  /\ Answers(a, "ACK")
  /\ main' = [main EXCEPT ![a] = "recv"]
  /\ UNCHANGED <<server, to_agent, data, thread, ag_status, stop, bounds>>

StopFlag(a) == [stop EXCEPT ![a] = TRUE]

(* A bug to catch: a STOP that changes nothing is not answered. *)
SilentRefusal(a) == UNCHANGED to_server

StopRefusal(a) == Answers(a, "ERROR")

(* STOP: the flag is raised only while the board is RUNNING. *)
AgentStop(a) ==
  /\ Receives(a, "STOP")
  /\ IF ag_status[a] = "RUNNING"
     THEN stop' = StopFlag(a) /\ Answers(a, "ACK")
     ELSE UNCHANGED stop /\ StopRefusal(a)
  /\ UNCHANGED <<server, data, main, thread, ag_status, bounds>>
-----------------------------------------------------------------------------
(* Agent: measurement thread (atmd_measure). *)

(* Top of the loop, also after waiting 10 ms in vain: the flag is lowered. *)
ThreadReset(a) ==
  /\ thread[a] \in {"top", "wait"}
  /\ thread' = [thread EXCEPT ![a] = "wait"]
  /\ stop' = [stop EXCEPT ![a] = FALSE]
  /\ UNCHANGED <<server, network, data, main, ag_status, bounds>>

(* A bug to catch: the status is left as it is. *)
StatusKept(a) == ag_status

StatusRunning(a) == [ag_status EXCEPT ![a] = "RUNNING"]

(* A start command is taken: RUNNING, then the reply to the main thread. *)
ThreadStart(a) ==
  /\ thread[a] = "wait"
  /\ main[a] = "handover"
  /\ thread' = [thread EXCEPT ![a] = "sync"]
  /\ ag_status' = StatusRunning(a)
  /\ main' = [main EXCEPT ![a] = "started"]
  /\ UNCHANGED <<server, network, data, stop, bounds>>


StopAfterSync(a) == stop

(* wait_tdma: the measurement begins, or fails without a TERM. *)
ThreadSync(a) ==
  /\ thread[a] = "sync"
  /\ \/ /\ thread' = [thread EXCEPT ![a] = "measure"]
        /\ UNCHANGED ag_status
     \/ /\ SyncMayFail
        /\ thread' = [thread EXCEPT ![a] = "top"]
        /\ ag_status' = [ag_status EXCEPT ![a] = "ERR"]
  /\ stop' = StopAfterSync(a)
  /\ UNCHANGED <<server, network, data, main, bounds>>

(* The measurement loop is left, because of the stop flag or because the   *)
(* time is over or no start pulse came, and TERM is sent.                  *)
ThreadTerm(a) ==
  /\ thread[a] = "measure"
  /\ thread' = [thread EXCEPT ![a] = "ended"]
  /\ terms' = [terms EXCEPT ![a] = @ + 1]
  /\ UNCHANGED <<server, network, agent_end, main, ag_status, stop, bounds>>

ThreadStopped(a) == stop[a] /\ ThreadTerm(a)

(* Only after TERM was sent is the board IDLE again. *)
ThreadIdle(a) ==
  /\ thread[a] = "ended"
  /\ thread' = [thread EXCEPT ![a] = "top"]
  /\ ag_status' = [ag_status EXCEPT ![a] = "IDLE"]
  /\ UNCHANGED <<server, network, data, main, stop, bounds>>
-----------------------------------------------------------------------------
AgentMain(a) == AgentSet(a) \/ AgentStart(a) \/ AgentStarted(a) \/ AgentStop(a)

ControlTask == SetAnswered \/ TakeAnswer \/ Conclude

Next ==
  \/ MsrStart \/ MsrStop \/ Quit \/ MsrStatus
  \/ ControlTask
  \/ \E a \in Agent :
       \/ TermArrives(a)
       \/ AgentMain(a)
       \/ ThreadReset(a) \/ ThreadStart(a) \/ ThreadSync(a)
       \/ ThreadTerm(a) \/ ThreadIdle(a)

Spec == Init /\ [][Next]_vars

(* Every thread keeps running.  A measurement that is not stopped may last *)
(* as long as the client asked for, so only a raised stop flag obliges the *)
(* measurement thread to end.                                              *)
Fairness ==
  /\ WF_vars(ControlTask)
  /\ \A a \in Agent :
       /\ WF_vars(TermArrives(a))
       /\ WF_vars(AgentMain(a))
       /\ WF_vars(ThreadReset(a))
       /\ WF_vars(ThreadStart(a))
       /\ WF_vars(ThreadSync(a))
       /\ WF_vars(ThreadStopped(a))
       /\ WF_vars(ThreadIdle(a))

FairSpec == Spec /\ Fairness
-----------------------------------------------------------------------------
TypeOK ==
  /\ board_status \in {"IDLE", "RUNNING", "ERR"}
  /\ cmd \in [kind : Command \cup {"none"}, to : Agent]
  /\ {quitting, deserted} \subseteq BOOLEAN
  /\ answers \in [Agent -> Answer \cup {NoAnswer}]
  /\ reply \in Answer \cup {NoAnswer}
  /\ agent_end \subseteq Agent
  /\ to_agent \in [Agent -> Seq(Command)]
  /\ to_server \in Seq([from : Agent, type : Answer])
  /\ terms \in [Agent -> Nat]
  /\ main \in [Agent -> {"recv", "handover", "started"}]
  /\ thread \in [Agent -> {"top", "wait", "sync", "measure", "ended"}]
  /\ ag_status \in [Agent -> {"IDLE", "RUNNING", "ERR"}]
  /\ stop \in [Agent -> BOOLEAN]
  /\ starts \in Nat
  /\ stops \in Nat
-----------------------------------------------------------------------------
(* An agent takes part in a measurement until it has sent its TERM. *)
Measuring(a) == thread[a] \in {"sync", "measure"}

(* Answers that are still to come from an agent, and the ones the command  *)
(* still waits for.                                                        *)
Outstanding(a) ==
  Len(to_agent[a])
    + (IF main[a] = "recv" THEN 0 ELSE 1)
    + Cardinality({i \in DOMAIN to_server : to_server[i].from = a})

Expected(a) ==
  CASE cmd.kind = "SET" -> IF cmd.to = a THEN 1 ELSE 0
    [] cmd.kind \in {"START", "STOP"} -> IF answers[a] = NoAnswer THEN 1 ELSE 0
    [] cmd.kind = "none" -> 0

(* Every answer on its way belongs to the command control_task is serving: *)
(* a late answer is never taken for that of a later command, which         *)
(* control_task could not tell since answers carry no number.              *)
AnswersPaired == \A a \in Agent : Outstanding(a) = Expected(a)

(* The status on which an agent decides about START and STOP tells what    *)
(* its other thread is doing: a measuring agent is RUNNING, so that it     *)
(* refuses a START and obeys a STOP, and RUNNING lasts until shortly after *)
(* the TERM.  (A client that leaves a running measurement to the next one  *)
(* makes a MEAS_SET possible that marks a measuring agent ERR.)            *)
StatusTellsThread ==
  ~deserted => \A a \in Agent :
    /\ Measuring(a) => ag_status[a] = "RUNNING"
    /\ ag_status[a] = "RUNNING" => Measuring(a) \/ thread[a] = "ended"

(* As long as no client leaves a running measurement, an agent owes the    *)
(* server at most one TERM, so that data_task never sees a packet of an    *)
(* agent whose TERM it is still holding against it.                        *)
OneTermOwed ==
  ~deserted => \A a \in Agent :
    terms[a] + (IF a \in agent_end THEN 1 ELSE 0) + (IF Measuring(a) THEN 1 ELSE 0) <= 1

(* The server is ready for another measurement only when no agent is       *)
(* measuring any more, unless a client has left a running measurement:     *)
(* EXT makes the board IDLE without waiting for the agents.                *)
IdleMeansNotMeasuring ==
  (~deserted /\ Idle /\ board_status = "IDLE") => \A a \in Agent : ~Measuring(a)

(* The board of an agent is never configured while it is measuring: the    *)
(* agent does not check, the order of the server's commands must see to it.*)
NeverConfiguredWhileMeasuring ==
  ~deserted => \A a \in Agent : Measuring(a) => \A i \in DOMAIN to_agent[a] : to_agent[a][i] # "SET"


(* Every command of a client returns, though each of the three hand-overs  *)
(* it goes through waits without a timeout.                                *)
CommandReturns == cmd.kind # "none" ~> cmd.kind = "none"

-----------------------------------------------------------------------------
(* What comments of the repository say, and the code does not do. *)

(* "got positive answer from all agents": START is acknowledged only when  *)
(* every agent has accepted it.                                            *)
AckMeansStarted ==
  [][(cmd.kind = "START" /\ cmd'.kind = "none" /\ reply' = "ACK") =>
       \A a \in Agent : answers[a] = "ACK"]_vars
=============================================================================
