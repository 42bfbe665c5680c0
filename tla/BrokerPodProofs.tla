---------------------------- MODULE BrokerPodProofs ----------------------------
(***************************************************************************)
(* The safety properties of a broker pod, with and without a Vector agent  *)
(* and for any number of crashes.                                          *)
(***************************************************************************)
EXTENDS BrokerPod, TLAPS

\* The shutdown file is there only between the end of one script and the first line of
\* the next.
FileBetweenScripts == shutdownFile => script \in {"removeFile", "exited"}

\* Nothing but the grace period cuts a broker off.
NeverCut == broker = "cut" => phase = "killed" /\ left \in Alive

\* Nothing stops before SIGTERM.
NotStoppedEarly == phase = "running" => script # "waitAgain" /\ broker # "stopping" /\ ~termNeeded

\* Once SIGTERM has found a broker, everything else in the pod is on its way to its end.
SignalForwarded ==
    found \in Alive =>
        /\ phase # "running"
        /\ prober = "ended"
        /\ script \notin {"removeFile", "handlers", "start"}
        /\ phase = "terminating" =>
            /\ script = "adopt" /\ broker = "running" => termNeeded
            /\ script \in {"wait", "waitAgain"} => broker # "running"
            /\ script = "exited" => vector # "running"
        /\ phase = "killed" => left = "stopping"

PodInv == TypeOK /\ FileBetweenScripts /\ NeverCut /\ NotStoppedEarly /\ SignalForwarded

\* The steps of the pod's own processes keep the invariant.
LEMMA ProcessesInv ==
    ASSUME PodInv, phase \in {"running", "terminating"},
           Script \/ BrokerStops \/ BrokerCrashes \/ VectorEnds
    PROVE  PodInv'
<1> USE DEF PodInv, TypeOK, FileBetweenScripts, NeverCut, NotStoppedEarly, SignalForwarded, Alive, history
<1>1. CASE RemoveShutdownFile
  BY <1>1 DEF RemoveShutdownFile, Lines
<1>2. CASE PrepareSignalHandlers
  BY <1>2 DEF PrepareSignalHandlers, Lines
<1>3. CASE StartBroker
  BY <1>3 DEF StartBroker, Lines
<1>4. CASE AdoptBroker
  BY <1>4 DEF AdoptBroker, Lines
<1>5. CASE WaitReturns
  BY <1>5 DEF WaitReturns, Lines
<1>6. CASE CreateShutdownFile
  BY <1>6 DEF CreateShutdownFile, Lines
<1>7. CASE BrokerStops
  BY <1>7 DEF BrokerStops, Lines
<1>8. CASE BrokerCrashes
  BY <1>8, MaxCrashesAssumption DEF BrokerCrashes, Lines
<1>9. CASE VectorEnds
  BY <1>9 DEF VectorEnds, Lines
<1> QED
  BY <1>1, <1>2, <1>3, <1>4, <1>5, <1>6, <1>7, <1>8, <1>9 DEF Script

\* So do those of the kubelet.
LEMMA KubeletInv ==
    ASSUME PodInv, RestartKafka \/ RestartVector \/ Terminate \/ PodGone \/ GracePeriodOver
    PROVE  PodInv'
<1> USE DEF PodInv, TypeOK, FileBetweenScripts, NeverCut, NotStoppedEarly, SignalForwarded, Alive, history
<1>1. CASE RestartKafka
  BY <1>1 DEF RestartKafka, Lines
<1>2. CASE RestartVector
  BY <1>2 DEF RestartVector, Lines
<1>3. CASE Terminate
  <2>1. prober' = "ended"
    BY <1>3 DEF Terminate, ProberOnSigterm, SharedProcessNamespace
  <2>2. CASE TrapsSet /\ script # "wait"
    BY <1>3, <2>1, <2>2 DEF Terminate, ScriptOnSigterm, TrapsSet, Lines
  <2>3. CASE TrapsSet /\ script = "wait"
    BY <1>3, <2>1, <2>3 DEF Terminate, ScriptOnSigterm, TrapsSet, Lines
  <2>4. CASE ~TrapsSet
    BY <1>3, <2>1, <2>4 DEF Terminate, ScriptOnSigterm, TrapsSet, Lines
  <2> QED
    BY <2>2, <2>3, <2>4
<1>4. CASE PodGone
  BY <1>4 DEF PodGone, AllEnded, Lines
<1>5. CASE GracePeriodOver
  BY <1>5 DEF GracePeriodOver, AllEnded, OnlyBrokerBusy, Lines
<1> QED
  BY <1>1, <1>2, <1>3, <1>4, <1>5

\* The invariant holds in every reachable state.
THEOREM PodInvariance == Spec => []PodInv
<1>1. ASSUME Init PROVE PodInv
  <2>1. vector \in {"off", "running"}
    BY <1>1, Zenon DEF Init
  <2>2. crashes \in 0 .. MaxCrashes
    BY <1>1, MaxCrashesAssumption DEF Init
  <2> QED
    BY <1>1, <2>1, <2>2
       DEF Init, PodInv, TypeOK, FileBetweenScripts, NeverCut, NotStoppedEarly, SignalForwarded,
           Alive, Lines
<1>2. PodInv /\ [Next]_vars => PodInv'
  <2>1. PodInv /\ UNCHANGED vars => PodInv'
    BY DEF PodInv, TypeOK, FileBetweenScripts, NeverCut, NotStoppedEarly, SignalForwarded, vars
  <2> QED
    BY <2>1, ProcessesInv, KubeletInv DEF Next
<1> QED
  BY <1>1, <1>2, PTL DEF Spec

\* Every variable has its type, and no broker lives without its script.
THEOREM PodTypeCorrect == Spec => []TypeOK
  BY PodInvariance, PTL DEF PodInv

\* The file that stops Vector never stands beside a running broker.
THEOREM FileNeverBesideBroker == Spec => []NoShutdownFileBesideBroker
<1>1. PodInv => NoShutdownFileBesideBroker
  BY DEF PodInv, TypeOK, FileBetweenScripts, NoShutdownFileBesideBroker
<1> QED
  BY <1>1, PodInvariance, PTL

\* Whenever SIGTERM comes, a broker is not cut off before its grace period is over.
THEOREM BrokersStopByThemselves == Spec => []CutOffOnlyByKill
<1>1. PodInv => CutOffOnlyByKill
  BY DEF PodInv, NeverCut, CutOffOnlyByKill
<1> QED
  BY <1>1, PodInvariance, PTL

\* A pod in which SIGTERM found a broker outlives its grace period only with that broker.
THEOREM OnlyBrokersOverrun == Spec => []KilledOnlyIfBrokerOverruns
<1>1. PodInv => KilledOnlyIfBrokerOverruns
  BY DEF PodInv, SignalForwarded, KilledOnlyIfBrokerOverruns
<1> QED
  BY <1>1, PodInvariance, PTL
=============================================================================
