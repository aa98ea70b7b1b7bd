--------------------------- MODULE DataTask_proofs ---------------------------
(***************************************************************************)
(* Proofs about module DataTask, for any number of agents and any bounds.  *)
(*                                                                         *)
(* TypeOK is not inductive: an autosaved measure gets its times from the   *)
(* first packet of every part of its first start, which is a packet only   *)
(* if no merged start has an empty part.  That in turn rests on            *)
(* DoneImpliesOpen: when all agents are done none has an empty start.      *)
(***************************************************************************)
EXTENDS DataTask, SequenceTheorems, TLAPS

Part == Seq(Packet)
Start == [Agent -> Part]
MonitorState == [n : Nat, m : Nat, data : Seq(Start), count : Nat]

(* Every start of a measure has packets of every agent. *)
NoEmptyPart(m) == \A i \in DOMAIN m.starts : \A a \in Agent : m.starts[i][a] # <<>>

CurrentHasNoEmptyPart == curr_measure # NULL => NoEmptyPart(curr_measure)

IInv == TypeOK /\ DoneImpliesOpen /\ CurrentHasNoEmptyPart
-----------------------------------------------------------------------------
(* The packets an agent sends. *)

LEMMA StartPacketsType ==
  ASSUME NEW r \in Nat, NEW id \in Nat, NEW n \in Nat
  PROVE  StartPackets(r, id, n) \in Part /\ Len(StartPackets(r, id, n)) = n
<1>1. \A k \in 1 .. n : PacketTypeOf(k, n) \in PacketType
  BY DEF PacketTypeOf, PacketType
<1>2. StartPackets(r, id, n) \in [1 .. n -> Packet]
  BY <1>1 DEF StartPackets, Packet
<1> QED  BY <1>2 DEF Part, StartPackets

LEMMA TermPacketType == ASSUME NEW r \in Nat PROVE TermPacket(r) \in Packet
BY DEF TermPacket, Packet, PacketType
-----------------------------------------------------------------------------
(* The operators of data_task keep the types they are used with. *)

LEMMA NewMeasureType == NewMeasure \in Measure /\ NoEmptyPart(NewMeasure)
BY DEF NewMeasure, Measure, NoEmptyPart

LEMMA OpenTypes ==
  ASSUME TypeOK, CurrentHasNoEmptyPart
  PROVE  /\ OpenMeasure \in Measure
         /\ NoEmptyPart(OpenMeasure)
         /\ OpenIds \in [Agent -> Nat]
         /\ OpenMonitor \in MonitorState
<1>1. OpenMeasure \in Measure /\ NoEmptyPart(OpenMeasure)
  BY NewMeasureType DEF OpenMeasure, TypeOK, CurrentHasNoEmptyPart
<1>2. OpenIds \in [Agent -> Nat]
  BY DEF OpenIds, TypeOK
<1>3. OpenMonitor \in MonitorState
  <2>1. mon \in MonitorState /\ config.monitor_n \in Nat
    BY DEF TypeOK, MonitorState, Start, Part
  <2> QED  BY <2>1 DEF OpenMonitor, SetupMonitor, MonitorState
<1> QED  BY <1>1, <1>2, <1>3

(* A time added to a measure leaves its starts alone. *)
LEMMA TimedMeasure ==
  ASSUME NEW m \in Measure, NEW t \in TimeTag, NoEmptyPart(m)
  PROVE  LET timed == [m EXCEPT !.times = Append(@, t)]
         IN  timed \in Measure /\ NoEmptyPart(timed) /\ timed.starts = m.starts
BY AppendProperties DEF Measure, NoEmptyPart

(* The times of an autosaved measure are of packets that exist. *)
LEMMA WithTimesType ==
  ASSUME NEW m \in Measure, NoEmptyPart(m), m.starts # <<>>
  PROVE  WithTimes(m) \in Measure
<1> DEFINE timeOf(a) == [agent |-> a, run |-> Head(Head(m.starts)[a]).run]
           times == [i \in 1 .. NAgents |-> timeOf(i - 1)]
<1>1. m.starts \in Seq(Start)
  BY DEF Measure, Start, Part
<1>2. Head(m.starts) = m.starts[1] /\ 1 \in DOMAIN m.starts
  BY <1>1
<1>3. Head(m.starts) \in Start
  BY <1>1
<1>4. \A a \in Agent : Head(m.starts)[a] \in Seq(Packet) /\ Head(m.starts)[a] # <<>>
  BY <1>2, <1>3 DEF NoEmptyPart, Start, Part
<1>5. \A a \in Agent : Head(Head(m.starts)[a]) \in Packet
  BY <1>4, HeadTailProperties
<1>6. \A a \in Agent : timeOf(a) \in TimeTag
  BY <1>5 DEF Packet, TimeTag
<1>7. \A i \in 1 .. NAgents : i - 1 \in Agent
  BY DataTaskAssumption DEF Agent
<1>8. times \in [1 .. NAgents -> TimeTag]
  BY <1>6, <1>7
<1>9. times \in Seq(TimeTag)
  BY <1>8, DataTaskAssumption
<1>10. m.times \o times \in Seq(TimeTag)
  BY <1>9, ConcatProperties DEF Measure
<1>11. WithTimes(m) = [m EXCEPT !.times = @ \o times]
  BY DEF WithTimes
<1> QED  BY <1>10, <1>11 DEF Measure

(* Saving a measure that is due keeps the types, and what is left of it    *)
(* has no empty part.                                                      *)
LEMMA SavingTypes ==
  ASSUME NEW m \in Measure, NoEmptyPart(m), TypeOK, SaveIfDue(m)
  PROVE  /\ saved' \in Seq(Measure)
         /\ AfterSave(m) \in Measure
         /\ NoEmptyPart(AfterSave(m))
<1>1. AfterSave(m) \in Measure /\ NoEmptyPart(AfterSave(m))
  BY NewMeasureType DEF AfterSave
<1>2. saved \in Seq(Measure)
  BY DEF TypeOK
<1>3. CASE ~SaveDue(m, FALSE)
  BY <1>1, <1>2, <1>3 DEF SaveIfDue
<1>4. CASE SaveDue(m, FALSE)
  <2>1. m.starts # <<>>
    BY <1>4 DEF SaveDue, Measure
  <2>2. WithTimes(m) \in Measure
    BY <2>1, WithTimesType
  <2>3. saved' \in Seq(Measure)
    BY <1>2, <1>4, <2>2, AppendProperties DEF SaveIfDue, Autosave
  <2> QED  BY <1>1, <2>3
<1> QED  BY <1>3, <1>4

(* The monitor keeps its type when a start is shown, counted or cleared. *)
LEMMA MonitorTypes ==
  ASSUME NEW o \in MonitorState, NEW start \in Start, NEW n \in Nat
  PROVE  /\ AddToMonitor(o, start) \in MonitorState
         /\ CountInMonitor(AddToMonitor(o, start), n) \in MonitorState
         /\ ClearMonitor(o) \in MonitorState
<1>1. Append(o.data, start) \in Seq(Start) /\ Append(o.data, start) # <<>>
  BY AppendProperties DEF MonitorState
<1>2. Tail(Append(o.data, start)) \in Seq(Start)
  BY <1>1, HeadTailProperties
<1>3. AddToMonitor(o, start) \in MonitorState
  BY <1>1, <1>2 DEF AddToMonitor, MonitorState
<1>4. CountInMonitor(AddToMonitor(o, start), n) \in MonitorState
  BY <1>3 DEF CountInMonitor, MonitorState
<1>5. ClearMonitor(o) \in MonitorState
  BY EmptySeq DEF ClearMonitor, MonitorState
<1> QED  BY <1>3, <1>4, <1>5
-----------------------------------------------------------------------------
(* The starts being collected, after a packet that belongs to one of them. *)

LEMMA CollectedType ==
  ASSUME TypeOK, NEW a \in Agent, NEW p \in Packet
  PROVE  /\ Collected(a, p) \in Start
         /\ IdsWith(a, p) \in [Agent -> Nat]
         /\ DoneAfter(a, p) \in [Agent -> BOOLEAN]
         /\ Collected(a, p)[a] # <<>>
         /\ \A b \in Agent : curr_start[b] # <<>> => Collected(a, p)[b] # <<>>
<1>1. curr_start \in Start /\ curr_start[a] \in Seq(Packet)
  BY DEF TypeOK, Start, Part
<1>2. Append(curr_start[a], p) \in Part /\ Append(curr_start[a], p) # <<>>
  BY <1>1, AppendProperties DEF Part
<1>3. OpenIds \in [Agent -> Nat]
  BY DEF OpenIds, TypeOK
<1>4. IdsWith(a, p) \in [Agent -> Nat]
  BY <1>3 DEF IdsWith, Packet
<1>5. DoneAfter(a, p) \in [Agent -> BOOLEAN]
  BY DEF DoneAfter, TypeOK, Closes
<1> QED  BY <1>1, <1>2, <1>4, <1>5 DEF Collected, Start

LEMMA ResetTypes ==
  ASSUME NEW a, NEW p
  PROVE  /\ StartsReset(a, p) \in Start
         /\ DoneReset(a, p) \in [Agent -> BOOLEAN]
         /\ EndFlagsReset(a) \in [Agent -> BOOLEAN]
         /\ \A b \in Agent : ~DoneReset(a, p)[b]
BY EmptySeq DEF StartsReset, NoStart, Start, Part, DoneReset, EndFlagsReset

(* A start all of whose agents are done has no empty part, and adding it   *)
(* to a measure keeps it free of empty parts.                              *)
LEMMA MergedStart ==
  ASSUME NEW m \in Measure, NoEmptyPart(m), NEW start \in Start,
         \A b \in Agent : start[b] # <<>>
  PROVE  LET merged == [m EXCEPT !.starts = Append(@, start)]
         IN  merged \in Measure /\ NoEmptyPart(merged)
<1> DEFINE merged == [m EXCEPT !.starts = Append(@, start)]
<1>1. m.starts \in Seq(Start)
  BY DEF Measure, Start, Part
<1>2. Append(m.starts, start) \in Seq(Start)
  BY <1>1, AppendProperties
<1>3. merged \in Measure /\ merged.starts = Append(m.starts, start)
  BY <1>2 DEF Measure, Start, Part
<1>4. ASSUME NEW i \in DOMAIN Append(m.starts, start), NEW b \in Agent
      PROVE  Append(m.starts, start)[i][b] # <<>>
  <2>1. CASE i = Len(m.starts) + 1
    BY <1>1, <2>1, AppendProperties
  <2>2. CASE i # Len(m.starts) + 1
    <3>1. i \in 1 .. Len(m.starts) /\ Append(m.starts, start)[i] = m.starts[i]
      BY <1>1, <1>2, <2>2, AppendProperties
    <3> QED  BY <1>1, <3>1 DEF NoEmptyPart
  <2> QED  BY <2>1, <2>2
<1> QED  BY <1>3, <1>4 DEF NoEmptyPart
-----------------------------------------------------------------------------
(* The invariant holds initially and is kept by every action. *)

LEMMA InitInvariant == Init => IInv
<1> SUFFICES ASSUME Init PROVE IInv
  OBVIOUS
<1>1. 0 \in Agent /\ Agent # {}
  BY DataTaskAssumption DEF Agent
<1>2. TypeOK
  BY EmptySeq DEF Init, TypeOK, NoStart, NewMonitor
<1>3. DoneImpliesOpen
  BY <1>1 DEF Init, DoneImpliesOpen
<1>4. CurrentHasNoEmptyPart
  BY DEF Init, CurrentHasNoEmptyPart
<1> QED  BY <1>2, <1>3, <1>4 DEF IInv

(* What DoneImpliesOpen and CurrentHasNoEmptyPart speak of. *)
LEMMA UnchangedAssembly ==
  ASSUME DoneImpliesOpen, CurrentHasNoEmptyPart,
         UNCHANGED <<curr_measure, curr_start, agent_done>>
  PROVE  DoneImpliesOpen' /\ CurrentHasNoEmptyPart'
BY DEF DoneImpliesOpen, CurrentHasNoEmptyPart, NoEmptyPart

LEMMA SetConfigInvariant == IInv /\ SetConfig => IInv'
<1> SUFFICES ASSUME IInv, SetConfig PROVE IInv'
  OBVIOUS
<1>1. DoneImpliesOpen' /\ CurrentHasNoEmptyPart'
  BY UnchangedAssembly DEF IInv, SetConfig, local
<1>2. config' \in [autosave : Nat, monitor_n : Nat]
  BY DataTaskAssumption DEF SetConfig
<1>3. TypeOK'
  BY <1>2 DEF IInv, TypeOK, SetConfig, agents, local, monitoring, store
<1> QED  BY <1>1, <1>3 DEF IInv

LEMMA StartMeasureInvariant == IInv /\ StartMeasure => IInv'
<1> SUFFICES ASSUME IInv, StartMeasure PROVE IInv'
  OBVIOUS
<1>1. DoneImpliesOpen' /\ CurrentHasNoEmptyPart'
  BY UnchangedAssembly DEF IInv, StartMeasure, local
<1>2. run' \in Nat /\ goal' \in Nat
  BY DataTaskAssumption DEF IInv, TypeOK, StartMeasure
<1>3. agent' \in [Agent -> [on : BOOLEAN, run : Nat, index : Nat]]
  BY DEF IInv, TypeOK, StartMeasure
<1>4. TypeOK'
  BY <1>2, <1>3 DEF IInv, TypeOK, StartMeasure, local, monitoring, store
<1> QED  BY <1>1, <1>4 DEF IInv

LEMMA QuitInvariant == IInv /\ Quit => IInv'
<1> SUFFICES ASSUME IInv, Quit PROVE IInv'
  OBVIOUS
<1>1. DoneImpliesOpen' /\ CurrentHasNoEmptyPart'
  BY UnchangedAssembly DEF IInv, Quit, local
<1>2. TypeOK'
  BY EmptySeq DEF IInv, TypeOK, Quit, agents, local, monitoring
<1> QED  BY <1>1, <1>2 DEF IInv

LEMMA SendStartInvariant ==
  ASSUME IInv, NEW a \in Agent, SendStart(a) PROVE IInv'
<1>1. DoneImpliesOpen' /\ CurrentHasNoEmptyPart'
  BY UnchangedAssembly DEF IInv, SendStart, local
<1>2. wire[a] \in Seq(Packet) /\ agent[a].run \in Nat /\ agent[a].index \in Nat
  BY DEF IInv, TypeOK
<1>3. agent' \in [Agent -> [on : BOOLEAN, run : Nat, index : Nat]]
  <2>1. \/ agent' = [agent EXCEPT ![a].index = @ + 1]
        \/ agent' = [agent EXCEPT ![a].on = FALSE]
    BY DEF SendStart
  <2>2. agent \in [Agent -> [on : BOOLEAN, run : Nat, index : Nat]]
    BY DEF IInv, TypeOK
  <2>3. agent[a] \in [on : BOOLEAN, run : Nat, index : Nat]
    BY <2>2
  <2>4. [agent[a] EXCEPT !.index = @ + 1] \in [on : BOOLEAN, run : Nat, index : Nat]
    BY <2>3
  <2>5. [agent[a] EXCEPT !.on = FALSE] \in [on : BOOLEAN, run : Nat, index : Nat]
    BY <2>3
  <2> QED  BY <2>1, <2>2, <2>4, <2>5
<1>4. wire' \in [Agent -> Seq(Packet)]
  <2>1. PICK n \in 1 .. MaxPackets :
          LET packets == StartPackets(agent[a].run, agent[a].index, n) IN
          \/ wire' = [wire EXCEPT ![a] = @ \o packets]
          \/ \E k \in 0 .. n - 1 :
               wire' = [wire EXCEPT ![a] =
                          Append(@ \o SubSeq(packets, 1, k), TermPacket(agent[a].run))]
    BY DEF SendStart
  <2> DEFINE packets == StartPackets(agent[a].run, agent[a].index, n)
  <2>2. n \in Nat
    BY DataTaskAssumption
  <2>3. packets \in Seq(Packet) /\ Len(packets) = n
    BY <1>2, <2>2, StartPacketsType DEF Part
  <2> HIDE DEF packets
  <2>4. CASE wire' = [wire EXCEPT ![a] = @ \o packets]
    BY <1>2, <2>3, <2>4, ConcatProperties DEF IInv, TypeOK
  <2>5. ASSUME NEW k \in 0 .. n - 1,
               wire' = [wire EXCEPT ![a] =
                          Append(@ \o SubSeq(packets, 1, k), TermPacket(agent[a].run))]
        PROVE  wire' \in [Agent -> Seq(Packet)]
    <3>1. SubSeq(packets, 1, k) \in Seq(Packet)
      <4>1. \A i \in 1 .. k : packets[i] \in Packet
        BY <2>2, <2>3, ElementOfSeq
      <4> QED  BY <2>2, <4>1, SubSeqProperties
    <3>2. wire[a] \o SubSeq(packets, 1, k) \in Seq(Packet)
      BY <1>2, <3>1, ConcatProperties
    <3>3. Append(wire[a] \o SubSeq(packets, 1, k), TermPacket(agent[a].run)) \in Seq(Packet)
      BY <1>2, <3>2, TermPacketType, AppendProperties
    <3> QED  BY <2>5, <3>3 DEF IInv, TypeOK
  <2> QED  BY <2>1, <2>4, <2>5 DEF packets
<1>5. TypeOK'
  BY <1>3, <1>4 DEF IInv, TypeOK, SendStart, board, local, monitoring, store
<1> QED  BY <1>1, <1>5 DEF IInv

LEMMA EndAgentInvariant ==
  ASSUME IInv, NEW a \in Agent, EndAgent(a) PROVE IInv'
<1>1. DoneImpliesOpen' /\ CurrentHasNoEmptyPart'
  BY UnchangedAssembly DEF IInv, EndAgent, local
<1>2. agent' \in [Agent -> [on : BOOLEAN, run : Nat, index : Nat]]
  BY DEF IInv, TypeOK, EndAgent
<1>3. Append(wire[a], TermPacket(agent[a].run)) \in Seq(Packet)
  BY TermPacketType, AppendProperties DEF IInv, TypeOK
<1>4. wire' \in [Agent -> Seq(Packet)]
  BY <1>3 DEF IInv, TypeOK, EndAgent
<1>5. TypeOK'
  BY <1>2, <1>4 DEF IInv, TypeOK, EndAgent, board, local, monitoring, store
<1> QED  BY <1>1, <1>5 DEF IInv

LEMMA ForwardInvariant ==
  ASSUME IInv, NEW a \in Agent, Forward(a) PROVE IInv'
<1>1. DoneImpliesOpen' /\ CurrentHasNoEmptyPart'
  BY UnchangedAssembly DEF IInv, Forward, local
<1>2. Head(wire[a]) \in Packet /\ Tail(wire[a]) \in Seq(Packet)
  BY HeadTailProperties DEF IInv, TypeOK, Forward
<1>3. wire' \in [Agent -> Seq(Packet)]
  BY <1>2 DEF IInv, TypeOK, Forward
<1>4. queue' \in Seq([agent : Agent, packet : Packet])
  <2>1. [agent |-> a, packet |-> Head(wire[a])] \in [agent : Agent, packet : Packet]
    BY <1>2
  <2>2. Append(queue, [agent |-> a, packet |-> Head(wire[a])])
          \in Seq([agent : Agent, packet : Packet])
    BY <2>1, AppendProperties DEF IInv, TypeOK
  <2> QED  BY <2>2 DEF IInv, TypeOK, Forward
<1>5. TypeOK'
  BY <1>3, <1>4 DEF IInv, TypeOK, Forward, agents, local, monitoring, store
<1> QED  BY <1>1, <1>5 DEF IInv
-----------------------------------------------------------------------------
(* Receive: one lemma per way data_task handles a packet.                  *)

LocalTypeOK ==
  /\ status \in {"IDLE", "RUNNING"}
  /\ curr_measure \in Measure \cup {NULL}
  /\ curr_start \in Start
  /\ curr_start_id \in [Agent -> Nat]
  /\ agent_done \in [Agent -> BOOLEAN]
  /\ agent_end \in [Agent -> BOOLEAN]
  /\ mon \in MonitorState
  /\ monitor_file \in Seq(Start)
  /\ measures \in Seq(Measure)
  /\ saved \in Seq(Measure)

LEMMA LocalTypes == TypeOK => LocalTypeOK
BY DEF TypeOK, LocalTypeOK, Start, Part, MonitorState

(* A step that leaves the starts alone keeps DoneImpliesOpen. *)
LEMMA UnchangedStarts ==
  ASSUME DoneImpliesOpen, UNCHANGED <<curr_start, agent_done>>
  PROVE  DoneImpliesOpen'
BY DEF DoneImpliesOpen

LEMMA DropFromEndedInvariant ==
  ASSUME IInv, NEW a \in Agent, NEW p \in Packet, DropFromEnded(a, p)
  PROVE  LocalTypeOK' /\ DoneImpliesOpen' /\ CurrentHasNoEmptyPart'
<1>1. DoneImpliesOpen' /\ CurrentHasNoEmptyPart'
  BY UnchangedAssembly DEF IInv, DropFromEnded, local
<1> QED
  BY <1>1, LocalTypes DEF IInv, LocalTypeOK, DropFromEnded, local, monitoring, store

LEMMA TermOfOneInvariant ==
  ASSUME IInv, NEW a \in Agent, NEW p \in Packet, TermOfOne(a, p)
  PROVE  LocalTypeOK' /\ DoneImpliesOpen' /\ CurrentHasNoEmptyPart'
<1> DEFINE t == [agent |-> a, run |-> p.run]
           m == IF config.autosave = 0
                THEN [OpenMeasure EXCEPT !.times = Append(@, t)]
                ELSE OpenMeasure
<1>1. /\ OpenMeasure \in Measure /\ NoEmptyPart(OpenMeasure)
      /\ OpenIds \in [Agent -> Nat]
      /\ OpenMonitor \in MonitorState
  BY OpenTypes DEF IInv
<1>2. t \in TimeTag
  BY DEF TimeTag, Packet
<1>3. m \in Measure /\ NoEmptyPart(m)
  BY <1>1, <1>2, TimedMeasure
<1>4. curr_measure' = AfterSave(m) /\ SaveIfDue(m)
  BY DEF TermOfOne
<1> HIDE DEF m
<1>5. /\ saved' \in Seq(Measure)
      /\ AfterSave(m) \in Measure /\ NoEmptyPart(AfterSave(m))
  BY <1>3, <1>4, SavingTypes DEF IInv
<1>6. DoneImpliesOpen'
  BY UnchangedStarts DEF IInv, TermOfOne
<1>7. CurrentHasNoEmptyPart'
  BY <1>4, <1>5 DEF CurrentHasNoEmptyPart, NoEmptyPart
<1>8. agent_end' \in [Agent -> BOOLEAN]
  BY DEF IInv, TypeOK, TermOfOne
<1>9. LocalTypeOK'
  BY <1>1, <1>4, <1>5, <1>8, LocalTypes DEF IInv, LocalTypeOK, TermOfOne
<1> QED  BY <1>6, <1>7, <1>9

(* What is left of a measure that has ended. *)
LEMMA MeasureAfterEndType ==
  ASSUME NEW m \in Measure, NoEmptyPart(m)
  PROVE  /\ MeasureAfterEnd(m) \in Measure \cup {NULL}
         /\ MeasureAfterEnd(m) # NULL => NoEmptyPart(MeasureAfterEnd(m))
BY DEF MeasureAfterEnd

LEMMA TermOfLastInvariant ==
  ASSUME IInv, NEW a \in Agent, NEW p \in Packet, TermOfLast(a, p)
  PROVE  LocalTypeOK' /\ DoneImpliesOpen' /\ CurrentHasNoEmptyPart'
<1> DEFINE t == [agent |-> a, run |-> p.run]
           m == [OpenMeasure EXCEPT !.times = Append(@, t)]
<1>1. /\ OpenMeasure \in Measure /\ NoEmptyPart(OpenMeasure)
      /\ OpenIds \in [Agent -> Nat]
      /\ OpenMonitor \in MonitorState
  BY OpenTypes DEF IInv
<1>2. t \in TimeTag
  BY DEF TimeTag, Packet
<1>3. m \in Measure /\ NoEmptyPart(m)
  BY <1>1, <1>2, TimedMeasure
<1>4. \/ /\ measures' = IF m.starts # <<>> THEN Append(measures, m) ELSE measures
         /\ curr_measure' = MeasureAfterEnd(m)
         /\ UNCHANGED saved
      \/ /\ SaveDue(OpenMeasure, TRUE)
         /\ Autosave(OpenMeasure)
         /\ curr_measure' = MeasureAfterEnd(OpenMeasure)
         /\ UNCHANGED measures
  BY DEF TermOfLast
<1> HIDE DEF m
<1>5. measures \in Seq(Measure) /\ saved \in Seq(Measure)
  BY DEF IInv, TypeOK
<1>6. measures' \in Seq(Measure)
  <2>1. Append(measures, m) \in Seq(Measure)
    BY <1>3, <1>5, AppendProperties
  <2> QED  BY <1>4, <1>5, <2>1
<1>7. saved' \in Seq(Measure)
  <2>1. ASSUME SaveDue(OpenMeasure, TRUE), Autosave(OpenMeasure)
        PROVE  saved' \in Seq(Measure)
    <3>1. OpenMeasure.starts # <<>>
      BY <1>1, <2>1 DEF SaveDue, Measure
    <3>2. WithTimes(OpenMeasure) \in Measure
      BY <1>1, <3>1, WithTimesType
    <3> QED  BY <1>5, <2>1, <3>2, AppendProperties DEF Autosave
  <2> QED  BY <1>4, <1>5, <2>1
<1>8. /\ curr_measure' \in Measure \cup {NULL}
      /\ curr_measure' # NULL => NoEmptyPart(curr_measure)'
  <2>1. PICK e \in {m, OpenMeasure} : curr_measure' = MeasureAfterEnd(e)
    BY <1>4
  <2>2. e \in Measure /\ NoEmptyPart(e)
    BY <1>1, <1>3
  <2> QED  BY <2>1, <2>2, MeasureAfterEndType DEF NoEmptyPart
<1>9. DoneImpliesOpen'
  BY UnchangedStarts DEF IInv, TermOfLast
<1>10. CurrentHasNoEmptyPart'
  BY <1>8 DEF CurrentHasNoEmptyPart
<1>11. mon' \in MonitorState
  <2>1. ClearMonitor(OpenMonitor) \in MonitorState
    BY <1>1, EmptySeq DEF ClearMonitor, MonitorState
  <2> QED  BY <1>1, <2>1 DEF TermOfLast
<1>12. agent_end' \in [Agent -> BOOLEAN]
  BY DEF TermOfLast, EndFlagsReset
<1>13. LocalTypeOK'
  BY <1>1, <1>6, <1>7, <1>8, <1>11, <1>12, LocalTypes DEF IInv, LocalTypeOK, TermOfLast
<1> QED  BY <1>9, <1>10, <1>13

LEMMA TermWithNothingToSaveInvariant ==
  ASSUME IInv, NEW a \in Agent, NEW p \in Packet, TermWithNothingToSave(a, p)
  PROVE  LocalTypeOK' /\ DoneImpliesOpen' /\ CurrentHasNoEmptyPart'
<1>1. /\ OpenMeasure \in Measure /\ NoEmptyPart(OpenMeasure)
      /\ OpenIds \in [Agent -> Nat]
      /\ OpenMonitor \in MonitorState
  BY OpenTypes DEF IInv
<1>2. DoneImpliesOpen'
  BY UnchangedStarts DEF IInv, TermWithNothingToSave
<1>3. CurrentHasNoEmptyPart'
  BY <1>1 DEF CurrentHasNoEmptyPart, NoEmptyPart, TermWithNothingToSave
<1>4. agent_end' \in [Agent -> BOOLEAN]
  BY DEF IInv, TypeOK, TermWithNothingToSave
<1>5. LocalTypeOK'
  BY <1>1, <1>4, LocalTypes DEF IInv, LocalTypeOK, TermWithNothingToSave, store
<1> QED  BY <1>2, <1>3, <1>5

LEMMA DiscardInvariant ==
  ASSUME IInv, NEW a \in Agent, NEW p \in Packet, Discard(a, p)
  PROVE  LocalTypeOK' /\ DoneImpliesOpen' /\ CurrentHasNoEmptyPart'
<1>1. /\ OpenMeasure \in Measure /\ NoEmptyPart(OpenMeasure)
      /\ OpenIds \in [Agent -> Nat]
      /\ OpenMonitor \in MonitorState
  BY OpenTypes DEF IInv
<1>2. /\ saved' \in Seq(Measure)
      /\ AfterSave(OpenMeasure) \in Measure /\ NoEmptyPart(AfterSave(OpenMeasure))
  BY <1>1, SavingTypes DEF IInv, Discard
<1>3. DoneImpliesOpen'
  BY UnchangedStarts DEF IInv, Discard
<1>4. CurrentHasNoEmptyPart'
  BY <1>2 DEF CurrentHasNoEmptyPart, NoEmptyPart, Discard
<1>5. LocalTypeOK'
  BY <1>1, <1>2, LocalTypes DEF IInv, LocalTypeOK, Discard
<1> QED  BY <1>3, <1>4, <1>5

LEMMA CollectInvariant ==
  ASSUME IInv, NEW a \in Agent, NEW p \in Packet, Collect(a, p)
  PROVE  LocalTypeOK' /\ DoneImpliesOpen' /\ CurrentHasNoEmptyPart'
<1>1. /\ OpenMeasure \in Measure /\ NoEmptyPart(OpenMeasure)
      /\ OpenMonitor \in MonitorState
  BY OpenTypes DEF IInv
<1>2. /\ saved' \in Seq(Measure)
      /\ AfterSave(OpenMeasure) \in Measure /\ NoEmptyPart(AfterSave(OpenMeasure))
  BY <1>1, SavingTypes DEF IInv, Collect
<1>3. /\ Collected(a, p) \in Start
      /\ IdsWith(a, p) \in [Agent -> Nat]
      /\ DoneAfter(a, p) \in [Agent -> BOOLEAN]
      /\ Collected(a, p)[a] # <<>>
      /\ \A b \in Agent : curr_start[b] # <<>> => Collected(a, p)[b] # <<>>
  BY CollectedType DEF IInv
<1>4. DoneImpliesOpen'
  <2>1. ASSUME NEW b \in Agent, agent_done'[b] PROVE curr_start'[b] # <<>>
    <3>1. CASE b = a
      BY <1>3, <3>1 DEF Collect
    <3>2. CASE b # a
      <4>1. agent_done[b]
        BY <2>1, <3>2 DEF Collect, DoneAfter, IInv, TypeOK
      <4> QED  BY <1>3, <4>1 DEF Collect, IInv, DoneImpliesOpen
    <3> QED  BY <3>1, <3>2
  <2>2. \E b \in Agent : ~agent_done'[b]
    BY DEF Collect, AllDone
  <2> QED  BY <2>1, <2>2 DEF DoneImpliesOpen
<1>5. CurrentHasNoEmptyPart'
  BY <1>2 DEF CurrentHasNoEmptyPart, NoEmptyPart, Collect
<1>6. LocalTypeOK'
  BY <1>1, <1>2, <1>3, LocalTypes DEF IInv, LocalTypeOK, Collect
<1> QED  BY <1>4, <1>5, <1>6

LEMMA CompleteInvariant ==
  ASSUME IInv, NEW a \in Agent, NEW p \in Packet, Complete(a, p)
  PROVE  LocalTypeOK' /\ DoneImpliesOpen' /\ CurrentHasNoEmptyPart'
<1> DEFINE start == Collected(a, p)
           shown == AddToMonitor(OpenMonitor, start)
<1>1. /\ OpenMeasure \in Measure /\ NoEmptyPart(OpenMeasure)
      /\ OpenMonitor \in MonitorState
  BY OpenTypes DEF IInv
<1>2. /\ saved' \in Seq(Measure)
      /\ AfterSave(OpenMeasure) \in Measure /\ NoEmptyPart(AfterSave(OpenMeasure))
  BY <1>1, SavingTypes DEF IInv, Complete
<1>3. /\ start \in Start
      /\ IdsWith(a, p) \in [Agent -> Nat]
      /\ start[a] # <<>>
      /\ \A b \in Agent : curr_start[b] # <<>> => start[b] # <<>>
  BY CollectedType DEF IInv
<1>4. \A b \in Agent : start[b] # <<>>
  <2> SUFFICES ASSUME NEW b \in Agent, b # a PROVE curr_start[b] # <<>>
    BY <1>3
  <2>1. agent_done[b]
    BY DEF Complete, AllDone, DoneAfter, IInv, TypeOK
  <2> QED  BY <2>1 DEF IInv, DoneImpliesOpen
<1>5. /\ curr_measure' = [AfterSave(OpenMeasure) EXCEPT !.starts = Append(@, start)]
      /\ curr_start' = StartsReset(a, p)
      /\ curr_start_id' = IdsWith(a, p)
      /\ agent_done' = DoneReset(a, p)
      /\ UNCHANGED <<status, agent_end, measures>>
  BY DEF Complete
<1>6. /\ mon' \in {CountInMonitor(shown, config.monitor_n), OpenMonitor}
      /\ monitor_file' \in {shown.data, monitor_file}
  BY DEF Complete
<1> HIDE DEF start
<1>7. curr_measure' \in Measure /\ NoEmptyPart(curr_measure)'
  BY <1>2, <1>3, <1>4, <1>5, MergedStart DEF NoEmptyPart
<1>8. config.monitor_n \in Nat
  BY DEF IInv, TypeOK
<1>9. shown \in MonitorState /\ CountInMonitor(shown, config.monitor_n) \in MonitorState
  BY <1>1, <1>3, <1>8, MonitorTypes
<1>10. mon' \in MonitorState /\ monitor_file' \in Seq(Start)
  <2>1. shown.data \in Seq(Start)
    BY <1>9 DEF MonitorState
  <2> QED  BY <1>1, <1>6, <1>9, <2>1, LocalTypes DEF IInv, LocalTypeOK
<1>11. DoneImpliesOpen'
  <2>1. \E b \in Agent : TRUE
    BY DataTaskAssumption DEF Agent
  <2> QED  BY <1>5, <2>1, ResetTypes DEF DoneImpliesOpen
<1>12. CurrentHasNoEmptyPart'
  BY <1>7 DEF CurrentHasNoEmptyPart
<1>13. LocalTypeOK'
  BY <1>2, <1>3, <1>5, <1>7, <1>10, ResetTypes, LocalTypes DEF IInv, LocalTypeOK
<1> QED  BY <1>11, <1>12, <1>13

LEMMA ReceiveInvariant == IInv /\ Receive => IInv'
<1> SUFFICES ASSUME IInv, Receive PROVE IInv'
  OBVIOUS
<1> DEFINE a == Head(queue).agent
           p == Head(queue).packet
<1>1. queue # <<>> /\ queue' = Tail(queue)
  BY DEF Receive
<1>2. queue \in Seq([agent : Agent, packet : Packet])
  BY DEF IInv, TypeOK
<1>3. Head(queue) \in [agent : Agent, packet : Packet]
  BY <1>1, <1>2, HeadTailProperties
<1>4. a \in Agent /\ p \in Packet
  BY <1>3
<1>5. queue' \in Seq([agent : Agent, packet : Packet])
  BY <1>1, <1>2, HeadTailProperties
<1>6. \/ DropFromEnded(a, p)
      \/ TermOfOne(a, p)
      \/ TermOfLast(a, p)
      \/ TermWithNothingToSave(a, p)
      \/ Discard(a, p)
      \/ Collect(a, p)
      \/ Complete(a, p)
  BY DEF Receive
<1> HIDE DEF a, p
<1>7. LocalTypeOK' /\ DoneImpliesOpen' /\ CurrentHasNoEmptyPart'
  <2>1. CASE DropFromEnded(a, p)
    BY <1>4, <2>1, DropFromEndedInvariant
  <2>2. CASE TermOfOne(a, p)
    BY <1>4, <2>2, TermOfOneInvariant
  <2>3. CASE TermOfLast(a, p)
    BY <1>4, <2>3, TermOfLastInvariant
  <2>4. CASE TermWithNothingToSave(a, p)
    BY <1>4, <2>4, TermWithNothingToSaveInvariant
  <2>5. CASE Discard(a, p)
    BY <1>4, <2>5, DiscardInvariant
  <2>6. CASE Collect(a, p)
    BY <1>4, <2>6, CollectInvariant
  <2>7. CASE Complete(a, p)
    BY <1>4, <2>7, CompleteInvariant
  <2> QED  BY <1>6, <2>1, <2>2, <2>3, <2>4, <2>5, <2>6, <2>7
<1>8. UNCHANGED <<terminate, config, run, goal, agent, wire>>
  BY DEF Receive, agents
<1>9. TypeOK'
  BY <1>5, <1>7, <1>8 DEF IInv, TypeOK, LocalTypeOK, Start, Part, MonitorState
<1> QED  BY <1>7, <1>9 DEF IInv

LEMMA StutterInvariant == IInv /\ UNCHANGED vars => IInv'
<1> SUFFICES ASSUME IInv, UNCHANGED vars PROVE IInv'
  OBVIOUS
<1>1. DoneImpliesOpen' /\ CurrentHasNoEmptyPart'
  BY UnchangedAssembly DEF IInv, vars, local
<1>2. TypeOK'
  BY DEF IInv, TypeOK, vars, board, agents, local, monitoring, store
<1> QED  BY <1>1, <1>2 DEF IInv

LEMMA NextInvariant == IInv /\ [Next]_vars => IInv'
<1> SUFFICES ASSUME IInv, [Next]_vars PROVE IInv'
  OBVIOUS
<1>1. CASE SetConfig
  BY <1>1, SetConfigInvariant
<1>2. CASE StartMeasure
  BY <1>2, StartMeasureInvariant
<1>3. CASE Quit
  BY <1>3, QuitInvariant
<1>4. ASSUME NEW a \in Agent, SendStart(a) \/ EndAgent(a) \/ Forward(a) PROVE IInv'
  BY <1>4, SendStartInvariant, EndAgentInvariant, ForwardInvariant
<1>5. CASE Receive
  BY <1>5, ReceiveInvariant
<1>6. CASE Poll \/ UNCHANGED vars
  BY <1>6, StutterInvariant DEF Poll
<1> QED  BY <1>1, <1>2, <1>3, <1>4, <1>5, <1>6 DEF Next

THEOREM SpecInvariant == Spec => []IInv
BY InitInvariant, NextInvariant, PTL DEF Spec
-----------------------------------------------------------------------------
(* Every variable of the data tasks keeps its type for any number of       *)
(* agents, starts and packets; in particular the times an autosaved        *)
(* measure gets are taken from packets that exist (add_time in data_task). *)
THEOREM TypeCorrect == Spec => []TypeOK
<1>1. IInv => TypeOK
  BY DEF IInv
<1> QED  BY <1>1, SpecInvariant, PTL

(* An agent marked done has an open start, and not all agents are left     *)
(* marked: the merge at the end of data_task dereferences no NULL pointer, *)
(* whatever packets arrive in whatever order from any number of agents.    *)
THEOREM MergeIsSafe == Spec => []DoneImpliesOpen
<1>1. IInv => DoneImpliesOpen
  BY DEF IInv
<1> QED  BY <1>1, SpecInvariant, PTL
=============================================================================
