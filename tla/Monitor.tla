------------------------------- MODULE Monitor -------------------------------
(***************************************************************************)
(* The live monitor of the server (class Monitor and                       *)
(* VirtualBoard::save_monitor): a window of the most recent starts that    *)
(* data_task writes to a file every so many starts.  A monitor is a value  *)
(* that DataTask keeps in one of its variables; the operators below are    *)
(* the methods the data task calls on it.                                  *)
(***************************************************************************)
EXTENDS Naturals, Sequences

NewMonitor == [n |-> 0, m |-> 0, data |-> <<>>, count |-> 0]

SetupMonitor(mon, n, m) == [mon EXCEPT !.n = n, !.m = m]

MonitorEnabled(mon) == mon.m # 0 /\ mon.n # 0

(* A bug to catch: the oldest start is dropped one start too late. *)
LateEviction(mon, start) ==
  LET data == Append(mon.data, start)
  IN  [mon EXCEPT !.data = IF Len(data) > mon.m + 1 THEN Tail(data) ELSE data]

(* The circular buffer: append, then drop the oldest start when more than  *)
(* m of them are held.                                                     *)
AddToMonitor(mon, start) ==
  LET data == Append(mon.data, start)
  IN  [mon EXCEPT !.data = IF Len(data) > mon.m THEN Tail(data) ELSE data]

ClearMonitor(mon) == [mon EXCEPT !.data = <<>>, !.count = 0]

(* save_monitor compares the count with the board's current _monitor_n,    *)
(* not with the value the monitor was set up with.                         *)
MonitorSaveDue(mon, monitor_n) == mon.count >= monitor_n

CountInMonitor(mon, monitor_n) ==
  [mon EXCEPT !.count = IF MonitorSaveDue(mon, monitor_n) THEN 0 ELSE @ + 1]
=============================================================================
