----------------------------- MODULE ReportCycle ----------------------------
(***************************************************************************)
(* What the Teleinfo mote promises, without interrupts, threads or queues: *)
(* a cycle opens a window per meter, in order; a window yields at most one *)
(* report, labelled with its meter; when the windows are over the reports  *)
(* are transmitted in the order of their meters, and the next cycle only   *)
(* begins when none is left.  TeleinfoNode implements this specification.  *)
(***************************************************************************)
EXTENDS Integers, Sequences

CONSTANT NumMeters      \* meters, one window each; at least one

VARIABLES
    window,     \* the meter listened to, 0 outside the windows
    outbox      \* labels of the reports to transmit, oldest first

cycleVars == <<window, outbox>>

CycleInit == window = 0 /\ outbox = <<>>

OpenWindow ==
    /\ window < NumMeters
    /\ window = 0 => outbox = <<>>
    /\ window' = window + 1
    /\ UNCHANGED outbox

Compose ==
    /\ window > 0
    /\ \A i \in 1 .. Len(outbox) : outbox[i] < window
    /\ outbox' = Append(outbox, window)
    /\ UNCHANGED window

CloseWindows ==
    /\ window = NumMeters
    /\ window' = 0
    /\ UNCHANGED outbox

Transmit ==
    /\ window = 0 /\ outbox # <<>>
    /\ outbox' = Tail(outbox)
    /\ UNCHANGED window

CycleNext == OpenWindow \/ Compose \/ CloseWindows \/ Transmit

CycleSpec == CycleInit /\ [][CycleNext]_cycleVars
=============================================================================
