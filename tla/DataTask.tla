------------------------------ MODULE DataTask ------------------------------
(***************************************************************************)
(* Assembly of measurements on the server of atmd-server.                  *)
(*                                                                         *)
(* Every agent sends the starts of a measurement as packets of its own     *)
(* RTnet stream, followed by one TERM packet.  The real-time thread        *)
(* rt_data_task moves packets from the socket into the data queue, and     *)
(* data_task takes them from there: it collects the packets of one start   *)
(* of every agent, merges them into a start of the current measure, and    *)
(* publishes the measure once every agent has sent its TERM.               *)
(*                                                                         *)
(* A pointer to a StartData is modelled by the sequence of packets that    *)
(* were added to it, so the empty sequence is the NULL pointer.  Packets   *)
(* carry two tags that the code does not have, the measurement they were   *)
(* taken in ("run") and their place in their start ("part"): they are what *)
(* the properties compare, and no action reads them.                       *)
(***************************************************************************)
EXTENDS Monitor, SequencesExt

CONSTANTS
  NAgents,      \* number of agents, identified by 0..NAgents-1
  MaxStarts,    \* bound: starts an agent sends in one measurement
  MaxPackets,   \* bound: packets of one start
  MaxRuns,      \* bound: measurements started by clients
  QueueCap,     \* packets the pool of the data queue can hold
  AutosaveSet,  \* values clients give to SET AUTOSAVE
  MonitorSet,   \* values of n clients give to SET MONITOR n m file
  Paced,        \* TRUE: pulses reach all agents and deadtime drains RTnet
  ClientQuits,  \* TRUE: a client may send EXT
  SendMayFail,  \* TRUE: an agent may fail to send a packet of a start
  SaveMayFail,  \* TRUE: writing an autosave file may fail
  NULL          \* the NULL pointer

ASSUME DataTaskAssumption ==
  /\ NAgents \in Nat \ {0}
  /\ MaxStarts \in Nat
  /\ MaxPackets \in Nat \ {0}
  /\ MaxRuns \in Nat
  /\ QueueCap \in Nat
  /\ AutosaveSet \subseteq Nat
  /\ MonitorSet \subseteq Nat
  /\ {Paced, ClientQuits, SendMayFail, SaveMayFail} \subseteq BOOLEAN

VARIABLES
  status,         \* _status of the VirtualBoard
  terminate,      \* terminate_interrupt
  config,         \* _autosave and _monitor_n of the VirtualBoard
  run,            \* measurements started so far
  goal,           \* start pulses of the measurement (used when Paced)
  agent,          \* measurement thread of every agent
  wire,           \* packets of every agent waiting in the data socket
  queue,          \* data queue between rt_data_task and data_task
  curr_measure,   \* data_task: current measure
  curr_start,     \* data_task: start being collected, per agent
  curr_start_id,  \* data_task: its ID, per agent
  agent_done,     \* data_task: last packet of the start received
  agent_end,      \* data_task: TERM received
  mon,            \* data_task: monitor
  monitor_file,   \* contents of the file the monitor writes
  measures,       \* _measures: measures in the server's memory
  saved           \* measures written to disk by autosave

board == <<status, terminate, config>>
agents == <<run, goal, agent>>
local == <<curr_measure, curr_start, curr_start_id, agent_done, agent_end>>
monitoring == <<mon, monitor_file>>
store == <<measures, saved>>
vars == <<board, agents, wire, queue, local, monitoring, store>>
-----------------------------------------------------------------------------
(* Packets and measures. *)

Agent == 0 .. NAgents - 1

PacketType == {"FIRST", "ONLY", "DATA", "LAST", "TERM"}
Packet == [type : PacketType, id : Nat, run : Nat, part : Nat]

(* DataMsg::encode: the k-th of the n packets of a start. *)
PacketTypeOf(k, n) ==
  CASE n = 1         -> "ONLY"
    [] n > 1 /\ k = 1 -> "FIRST"
    [] n > 1 /\ k = n -> "LAST"
    [] OTHER         -> "DATA"

StartPackets(r, id, n) ==
  [k \in 1 .. n |-> [type |-> PacketTypeOf(k, n), id |-> id, run |-> r, part |-> k]]

(* The ID of a TERM packet is not written: the buffer was cleared. *)
TermPacket(r) == [type |-> "TERM", id |-> 0, run |-> r, part |-> 0]

(* A measure holds merged starts (the packets of every agent) and the      *)
(* measure times, each labelled with the agent and the measurement it      *)
(* tells the time of.                                                      *)
TimeTag == [agent : Agent, run : Nat]
Measure == [starts : Seq([Agent -> Seq(Packet)]), times : Seq(TimeTag)]
NewMeasure == [starts |-> <<>>, times |-> <<>>]

ASSUME NullAssumption == NULL \notin Measure

NoStart == [a \in Agent |-> <<>>]

Init ==
  /\ status = "IDLE"
  /\ terminate = FALSE
  /\ config = [autosave |-> 0, monitor_n |-> 0]
  /\ run = 0
  /\ goal = 0
  /\ agent = [a \in Agent |-> [on |-> FALSE, run |-> 0, index |-> 0]]
  /\ wire = [a \in Agent |-> <<>>]
  /\ queue = <<>>
  /\ curr_measure = NULL
  /\ curr_start = NoStart
  /\ curr_start_id = [a \in Agent |-> 0]
  /\ agent_done = [a \in Agent |-> FALSE]
  /\ agent_end = [a \in Agent |-> FALSE]
  /\ mon = NewMonitor
  /\ monitor_file = <<>>
  /\ measures = <<>>
  /\ saved = <<>>
-----------------------------------------------------------------------------
(* Environment: the client's commands and the agents' measurement threads. *)

(* SET AUTOSAVE and SET MONITOR, refused while a measurement is running.   *)
SetConfig ==
  /\ ~terminate
  /\ status # "RUNNING"
  /\ \E s \in AutosaveSet, n \in MonitorSet :
       config' = [autosave |-> s, monitor_n |-> n]
  /\ UNCHANGED <<status, terminate, agents, wire, queue, local, monitoring, store>>

(* MSR START.  The board is marked RUNNING and the START reaches every     *)
(* agent; an agent that is still measuring refuses it and goes on with     *)
(* what it was doing (module Control has the handshake itself).            *)
StartMeasure ==
  /\ ~terminate
  /\ status = "IDLE"
  /\ run < MaxRuns
  /\ status' = "RUNNING"
  /\ run' = run + 1
  /\ goal' \in IF Paced THEN 0 .. MaxStarts ELSE {MaxStarts}
  /\ agent' = [a \in Agent |->
                 IF agent[a].on THEN agent[a]
                 ELSE [on |-> TRUE, run |-> run + 1, index |-> 0]]
  /\ UNCHANGED <<terminate, config, wire, queue, local, monitoring, store>>

(* EXT: the client leaves.  A running measurement is told to stop, which   *)
(* only makes the agents end sooner; the measures are discarded and the    *)
(* configuration and the status are reset, without waiting for the agents. *)
Quit ==
  /\ ClientQuits
  /\ ~terminate
  /\ status' = "IDLE"
  /\ config' = [autosave |-> 0, monitor_n |-> 0]
  /\ measures' = <<>>
  /\ UNCHANGED <<terminate, agents, wire, queue, local, monitoring, saved>>

InFlight(a) == {wire[a][i] : i \in DOMAIN wire[a]}
Queued == {queue[i].packet : i \in DOMAIN queue}

(* What deadtime is for ("Sleep to let RTnet to transfer the data"): when  *)
(* it is long enough, no agent sends a start before every agent has sent   *)
(* the one before it and the server has taken it.                          *)
DeadtimeOver(a) ==
  /\ agent[a].index < goal
  /\ \A b \in Agent : agent[b].index >= agent[a].index
  /\ \A p \in Queued \cup UNION {InFlight(b) : b \in Agent} : p.id >= agent[a].index

(* One turn of the measurement loop: the packets of a start enter the      *)
(* stream.  If sending fails the start is cut short and the loop is left   *)
(* for the TERM packet.                                                    *)
SendStart(a) ==
  /\ agent[a].on
  /\ agent[a].index < MaxStarts
  /\ Paced => DeadtimeOver(a)
  /\ \E n \in 1 .. MaxPackets :
       LET packets == StartPackets(agent[a].run, agent[a].index, n) IN
       \/ /\ wire' = [wire EXCEPT ![a] = @ \o packets]
          /\ agent' = [agent EXCEPT ![a].index = @ + 1]
       \/ /\ SendMayFail
          /\ \E k \in 0 .. n - 1 :
               wire' = [wire EXCEPT ![a] =
                          Append(@ \o SubSeq(packets, 1, k), TermPacket(agent[a].run))]
          /\ agent' = [agent EXCEPT ![a].on = FALSE]
  /\ UNCHANGED <<board, run, goal, queue, local, monitoring, store>>

(* The measurement time is over, the agent was told to stop, or no start   *)
(* pulse came in time: the loop ends and TERM is sent.                     *)
EndAgent(a) ==
  /\ agent[a].on
  /\ Paced => agent[a].index = goal
  /\ wire' = [wire EXCEPT ![a] = Append(@, TermPacket(agent[a].run))]
  /\ agent' = [agent EXCEPT ![a].on = FALSE]
  /\ UNCHANGED <<board, run, goal, queue, local, monitoring, store>>
-----------------------------------------------------------------------------
(* rt_data_task: one packet from the socket to the data queue.  A queue    *)
(* whose pool is exhausted terminates the server.                          *)
Forward(a) ==
  /\ ~terminate
  /\ wire[a] # <<>>
  /\ wire' = [wire EXCEPT ![a] = Tail(@)]
  /\ \/ /\ Len(queue) < QueueCap
        /\ queue' = Append(queue, [agent |-> a, packet |-> Head(wire[a])])
        /\ UNCHANGED terminate
     \/ /\ Len(queue) >= QueueCap
        /\ terminate' = TRUE
        /\ UNCHANGED queue
  /\ UNCHANGED <<status, config, agents, local, monitoring, store>>
-----------------------------------------------------------------------------
(* data_task: what a packet does before its type is looked at.  The first  *)
(* packet after a published measure creates the next one and sets the      *)
(* monitor up, with n given twice.                                         *)
OpenMeasure == IF curr_measure = NULL THEN NewMeasure ELSE curr_measure

OpenIds == IF curr_measure = NULL THEN [a \in Agent |-> 0] ELSE curr_start_id

OpenMonitor ==
  IF curr_measure = NULL
  THEN SetupMonitor(mon, config.monitor_n, config.monitor_n)
  ELSE mon


(* Autosave: a measure is saved when it has exactly the number of starts   *)
(* asked for, or at the end if it has any.                                 *)
SaveDue(m, last) ==
  /\ config.autosave > 0
  /\ Len(m.starts) > 0
  /\ Len(m.starts) = config.autosave \/ last


(* The times of an autosaved measure are read off its first and last start,*)
(* agent by agent.                                                         *)
WithTimes(m) ==
  LET timeOf(a) == [agent |-> a, run |-> Head(Head(m.starts)[a]).run]
  IN  [m EXCEPT !.times = @ \o [i \in 1 .. NAgents |-> timeOf(i - 1)]]

(* The measure is added to the store, written to its file and deleted from *)
(* the store again, whether or not the file could be written.              *)
Autosave(m) ==
  \/ saved' = Append(saved, WithTimes(m))
  \/ SaveMayFail /\ UNCHANGED saved

(* The rest of the handler works on this measure. *)
AfterSave(m) == IF SaveDue(m, FALSE) THEN NewMeasure ELSE m
SaveIfDue(m) == IF SaveDue(m, FALSE) THEN Autosave(m) ELSE UNCHANGED saved
-----------------------------------------------------------------------------
(* A packet of an agent that has already sent its TERM is dropped. *)
DropFromEnded(a, p) ==
  /\ agent_end[a]
  /\ UNCHANGED <<status, local, monitoring, store>>

(* A bug to catch: the first TERM ends the measurement. *)
AnyEnds(a) == TRUE

(* measure_end, once the flag of this agent is set. *)
OthersEnded(a) == \A b \in Agent \ {a} : agent_end[b]

(* TERM of an agent, with others still measuring. *)
TermOfOne(a, p) ==
  /\ p.type = "TERM"
  /\ ~agent_end[a]
  /\ ~OthersEnded(a)
  /\ LET m == IF config.autosave = 0
              THEN [OpenMeasure EXCEPT !.times = Append(@, [agent |-> a, run |-> p.run])]
              ELSE OpenMeasure
     IN  curr_measure' = AfterSave(m) /\ SaveIfDue(m)
  /\ agent_end' = [agent_end EXCEPT ![a] = TRUE]
  /\ curr_start_id' = OpenIds
  /\ mon' = OpenMonitor
  /\ UNCHANGED <<status, curr_start, agent_done, monitor_file, measures>>

(* A bug to catch: the loop resetting the flags leaves them as they are. *)
EndFlagsKept(a) == [agent_end EXCEPT ![a] = TRUE]

EndFlagsReset(a) == [b \in Agent |-> FALSE]

(* A bug to catch: the published measure stays the current one. *)
StillCurrent(m) == m

MeasureAfterEnd(m) == IF m.starts # <<>> THEN NULL ELSE m

(* TERM of the last agent: the measure, unless it is empty, goes to the    *)
(* store or to its autosave file, and the board is IDLE again.  An empty   *)
(* measure is kept, with its times, as the measure of the next run.        *)
TermOfLast(a, p) ==
  /\ p.type = "TERM"
  /\ ~agent_end[a]
  /\ OthersEnded(a)
  /\ \/ /\ config.autosave = 0
        /\ LET m == [OpenMeasure EXCEPT !.times = Append(@, [agent |-> a, run |-> p.run])]
           IN  /\ measures' = IF m.starts # <<>> THEN Append(measures, m) ELSE measures
               /\ curr_measure' = MeasureAfterEnd(m)
        /\ UNCHANGED saved
     \/ /\ SaveDue(OpenMeasure, TRUE)
        /\ Autosave(OpenMeasure)
        /\ curr_measure' = MeasureAfterEnd(OpenMeasure)
        /\ UNCHANGED measures
  /\ agent_end' = EndFlagsReset(a)
  /\ mon' = IF MonitorEnabled(OpenMonitor) THEN ClearMonitor(OpenMonitor) ELSE OpenMonitor
  /\ status' = "IDLE"
  /\ curr_start_id' = OpenIds
  /\ UNCHANGED <<curr_start, agent_done, monitor_file>>

(* TERM of the last agent when autosave has nothing to save: the handler   *)
(* falls through, and neither the flags nor the status are reset.          *)
TermWithNothingToSave(a, p) ==
  /\ p.type = "TERM"
  /\ ~agent_end[a]
  /\ OthersEnded(a)
  /\ config.autosave > 0
  /\ ~SaveDue(OpenMeasure, TRUE)
  /\ agent_end' = [agent_end EXCEPT ![a] = TRUE]
  /\ curr_measure' = OpenMeasure
  /\ curr_start_id' = OpenIds
  /\ mon' = OpenMonitor
  /\ UNCHANGED <<status, curr_start, agent_done, monitor_file, store>>
-----------------------------------------------------------------------------
(* A data packet.  With no start open for the agent only a first packet    *)
(* opens one; with one open, only packets with its ID are added to it.     *)


Opens(p) == p.type \in {"FIRST", "ONLY"}
Closes(p) == p.type \in {"LAST", "ONLY"}


Belongs(a, p) ==
  IF curr_start[a] = <<>> THEN Opens(p) ELSE OpenIds[a] = p.id

(* "missed the first packet" and "packet out of sequence": discarded. *)
Discard(a, p) ==
  /\ p.type # "TERM"
  /\ ~agent_end[a]
  /\ ~Belongs(a, p)
  /\ curr_measure' = AfterSave(OpenMeasure)
  /\ SaveIfDue(OpenMeasure)
  /\ curr_start_id' = OpenIds
  /\ mon' = OpenMonitor
  /\ UNCHANGED <<status, curr_start, agent_done, agent_end, monitor_file, measures>>

Collected(a, p) == [curr_start EXCEPT ![a] = Append(@, p)]
IdsWith(a, p) ==
  IF curr_start[a] = <<>> THEN [OpenIds EXCEPT ![a] = p.id] ELSE OpenIds

DoneAfter(a, p) == [agent_done EXCEPT ![a] = @ \/ Closes(p)]

(* A bug to catch: a start is merged as soon as one agent is done. *)
AnyDone(done) == \E b \in Agent : done[b]

AllDone(done) == \A b \in Agent : done[b]

(* A bug to catch: the done flags are not reset with the start. *)
DoneKept(a, p) == DoneAfter(a, p)

(* A bug to catch: the loop over the flags skips the first agent. *)
DoneSkipsFirst(a, p) == [b \in 1 .. NAgents - 1 |-> FALSE]

DoneReset(a, p) == [b \in Agent |-> FALSE]

(* A bug to catch: the pointers are not set to NULL after the merge. *)
StartsKept(a, p) == Collected(a, p)

StartsReset(a, p) == NoStart

(* The packet belongs to the start, and another agent's part is missing. *)
Collect(a, p) ==
  /\ p.type # "TERM"
  /\ ~agent_end[a]
  /\ Belongs(a, p)
  /\ ~AllDone(DoneAfter(a, p))
  /\ curr_measure' = AfterSave(OpenMeasure)
  /\ SaveIfDue(OpenMeasure)
  /\ curr_start' = Collected(a, p)
  /\ curr_start_id' = IdsWith(a, p)
  /\ agent_done' = DoneAfter(a, p)
  /\ mon' = OpenMonitor
  /\ UNCHANGED <<status, agent_end, monitor_file, measures>>

(* The packet completes the start: the parts of all agents are merged,     *)
(* shown to the monitor and added to the measure.                          *)
Complete(a, p) ==
  /\ p.type # "TERM"
  /\ ~agent_end[a]
  /\ Belongs(a, p)
  /\ AllDone(DoneAfter(a, p))
  /\ LET start == Collected(a, p)
         shown == AddToMonitor(OpenMonitor, start)
     IN  /\ curr_measure' = [AfterSave(OpenMeasure) EXCEPT !.starts = Append(@, start)]
         /\ IF MonitorEnabled(OpenMonitor)
            THEN /\ mon' = CountInMonitor(shown, config.monitor_n)
                 /\ monitor_file' = IF MonitorSaveDue(shown, config.monitor_n)
                                    THEN shown.data ELSE monitor_file
            ELSE mon' = OpenMonitor /\ UNCHANGED monitor_file
  /\ SaveIfDue(OpenMeasure)
  /\ curr_start' = StartsReset(a, p)
  /\ curr_start_id' = IdsWith(a, p)
  /\ agent_done' = DoneReset(a, p)
  /\ UNCHANGED <<status, agent_end, measures>>

(* data_task: one packet from the data queue. *)
Receive ==
  /\ ~terminate
  /\ queue # <<>>
  /\ queue' = Tail(queue)
  /\ LET a == Head(queue).agent
         p == Head(queue).packet
     IN  \/ DropFromEnded(a, p)
         \/ TermOfOne(a, p)
         \/ TermOfLast(a, p)
         \/ TermWithNothingToSave(a, p)
         \/ Discard(a, p)
         \/ Collect(a, p)
         \/ Complete(a, p)
  /\ UNCHANGED <<terminate, config, agents, wire>>

(* Nothing to receive: both tasks wait with a timeout and try again, until *)
(* the server terminates.                                                  *)
Poll == UNCHANGED vars

Next ==
  \/ SetConfig
  \/ StartMeasure
  \/ Quit
  \/ \E a \in Agent : SendStart(a) \/ EndAgent(a) \/ Forward(a)
  \/ Receive
  \/ Poll

Spec == Init /\ [][Next]_vars

(* The threads run: data_task and rt_data_task poll without end, and every *)
(* measurement loop ends because its measurement time does.                *)
Fairness ==
  /\ WF_vars(Receive)
  /\ \A a \in Agent : WF_vars(Forward(a)) /\ WF_vars(EndAgent(a))

FairSpec == Spec /\ Fairness
-----------------------------------------------------------------------------
TypeOK ==
  /\ status \in {"IDLE", "RUNNING"}
  /\ terminate \in BOOLEAN
  /\ config \in [autosave : Nat, monitor_n : Nat]
  /\ run \in Nat
  /\ goal \in Nat
  /\ agent \in [Agent -> [on : BOOLEAN, run : Nat, index : Nat]]
  /\ wire \in [Agent -> Seq(Packet)]
  /\ queue \in Seq([agent : Agent, packet : Packet])
  /\ curr_measure \in Measure \cup {NULL}
  /\ curr_start \in [Agent -> Seq(Packet)]
  /\ curr_start_id \in [Agent -> Nat]
  /\ agent_done \in [Agent -> BOOLEAN]
  /\ agent_end \in [Agent -> BOOLEAN]
  /\ mon \in [n : Nat, m : Nat, data : Seq([Agent -> Seq(Packet)]), count : Nat]
  /\ monitor_file \in Seq([Agent -> Seq(Packet)])
  /\ measures \in Seq(Measure)
  /\ saved \in Seq(Measure)
-----------------------------------------------------------------------------
(* What the properties look at: every start assembled so far, oldest       *)
(* first (in memory or on disk, then in the current measure).              *)

OpenStarts == IF curr_measure = NULL THEN <<>> ELSE curr_measure.starts
Starts == FlattenSeq([i \in DOMAIN (measures \o saved) |-> (measures \o saved)[i].starts])
            \o OpenStarts

(* Order in which an agent sent two of its packets. *)
SentBefore(p, q) ==
  \/ p.run < q.run
  \/ p.run = q.run /\ p.id < q.id
  \/ p.run = q.run /\ p.id = q.id /\ p.part < q.part

Increasing(packets) ==
  \A i \in 1 .. Len(packets) - 1 : SentBefore(packets[i], packets[i + 1])

IsWholeStart(part) ==
  part # <<>> /\ part = StartPackets(Head(part).run, Head(part).id, Len(part))

(* When the handler marks an agent as done its start is open, and the      *)
(* handler never leaves all agents marked: merging the starts dereferences *)
(* no NULL pointer, and a start is merged in the same step that completes  *)
(* it (the loops over agent_done and curr_start at the end of data_task).  *)
DoneImpliesOpen ==
  /\ \A a \in Agent : agent_done[a] => curr_start[a] # <<>>
  /\ \E a \in Agent : ~agent_done[a]

(* Whatever was discarded, lost or cut short, what is kept of an agent's   *)
(* stream is in the order it was sent and no packet is kept twice, across  *)
(* starts, measures and autosave files.                                    *)
PacketsInOrder ==
  \A a \in Agent :
    Increasing(FlattenSeq([i \in DOMAIN Starts |-> Starts[i][a]]) \o curr_start[a])


(* When the board is IDLE no agent is measuring and no packet is on its    *)
(* way, so that the next measurement starts clean.                         *)
IdleMeansDrained ==
  status = "IDLE" =>
    /\ queue = <<>>
    /\ \A a \in Agent : ~agent[a].on /\ wire[a] = <<>> /\ ~agent_end[a]



(* The monitor window is the latest n starts of the measurement, or all of *)
(* them while there are fewer.                                             *)
MonitorShowsLatest ==
  (curr_measure # NULL /\ MonitorEnabled(mon)) =>
    LET k == Len(OpenStarts)
        n == IF k < mon.n THEN k ELSE mon.n
    IN  mon.data = SubSeq(OpenStarts, k - n + 1, k)

(* With deadtime long enough, the parts of a merged start are the answers  *)
(* of all agents to one start pulse.                                       *)
StartsAligned ==
  \A i \in DOMAIN Starts : \A a, b \in Agent :
    /\ Starts[i][a] # <<>> /\ Starts[i][b] # <<>>
    /\ Starts[i][a][1].run = Starts[i][b][1].run
    /\ Starts[i][a][1].id = Starts[i][b][1].id


(* A measurement ends: the board does not stay RUNNING. *)
RunningEnds == status = "RUNNING" ~> (status = "IDLE" \/ terminate)

(* Without autosave and as long as no client leaves early, the data tasks  *)
(* implement the measurement cycle of module MeasureCycle.                 *)
Cycle == INSTANCE MeasureCycle WITH
  phase <- status,
  ended <- {a \in Agent : agent_end[a]},
  pending <- Len(OpenStarts),
  published <- [i \in DOMAIN measures |-> Len(measures[i].starts)]

ImplementsCycle == Cycle!Spec
-----------------------------------------------------------------------------
(* What comments of the repository say, and the code does not do. *)

(* "This class manages the starts of one measure": a published measure has *)
(* packets of one measurement only.                                        *)
MeasureOfOneRun ==
  \A i \in DOMAIN measures : \A j, k \in DOMAIN measures[i].starts : \A a, b \in Agent :
    \A p \in Range(measures[i].starts[j][a]), q \in Range(measures[i].starts[k][b]) :
      p.run = q.run
=============================================================================
