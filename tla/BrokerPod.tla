------------------------------- MODULE BrokerPod -------------------------------
(***************************************************************************)
(* The life of one broker pod as the operator lays it out: the script of   *)
(* the kafka container with its traps and its background broker, the kcat  *)
(* prober, the Vector agent that is stopped by a file on a shared volume,  *)
(* SIGTERM at any moment, and SIGKILL when the grace period is over.       *)
(*                                                                         *)
(* Time is modelled by one assumption: only a broker takes long to stop.   *)
(* The grace period ends when the pod waits for nothing else.              *)
(***************************************************************************)
EXTENDS Naturals

CONSTANTS
    VectorAgent,    \* logging.enableVectorAgent
    MaxCrashes      \* bound: brokers that end by themselves

ASSUME VectorAgentAssumption == VectorAgent \in BOOLEAN
ASSUME MaxCrashesAssumption == MaxCrashes \in Nat

\* The lines of the script, in order.  At "adopt" the broker runs in the background
\* and wait_for_termination does not know of it yet.
Lines == {"removeFile", "handlers", "start", "adopt", "wait", "waitAgain", "createFile", "exited"}

VARIABLES
    phase,          \* the pod: "running", "terminating", "gone" or "killed"
    script,         \* the line the kafka container's script is at
    termNeeded,     \* term_kill_needed: a SIGTERM came before the broker was known
    broker,         \* "none", "running", "stopping", "ended", or "cut" off by its container
    vector,         \* "off", "running", "triggered" (has seen the file) or "ended"
    prober,         \* "running" or "ended"
    shutdownFile,   \* the Vector shutdown file, on the pod's log volume
    found, left,    \* history: the broker when SIGTERM came and when SIGKILL came
    crashes         \* bound

vars == <<phase, script, termNeeded, broker, vector, prober, shutdownFile, found, left, crashes>>
history == <<found, left>>

Alive == {"running", "stopping"}

-----------------------------------------------------------------------------
(* The script of the kafka container *)

\* Mutant: a file that an earlier container left behind is not removed.
RemoveNoShutdownFile ==
    /\ script = "removeFile"
    /\ script' = "handlers"
    /\ UNCHANGED <<phase, termNeeded, broker, vector, prober, shutdownFile, history, crashes>>

RemoveShutdownFile ==
    /\ script = "removeFile"
    /\ shutdownFile' = FALSE
    /\ script' = "handlers"
    /\ UNCHANGED <<phase, termNeeded, broker, vector, prober, history, crashes>>

PrepareSignalHandlers ==
    /\ script = "handlers"
    /\ termNeeded' = FALSE
    /\ script' = "start"
    /\ UNCHANGED <<phase, broker, vector, prober, shutdownFile, history, crashes>>

\* kafka-server-start.sh, in the background
StartBroker ==
    /\ script = "start"
    /\ broker' = "running"
    /\ script' = "adopt"
    /\ UNCHANGED <<phase, termNeeded, vector, prober, shutdownFile, history, crashes>>

\* Mutant: a SIGTERM that came before the broker was known is forgotten.
AdoptForgetful ==
    /\ script = "adopt"
    /\ script' = "wait"
    /\ UNCHANGED <<phase, termNeeded, broker, vector, prober, shutdownFile, history, crashes>>

\* wait_for_termination learns the broker's pid and forwards a SIGTERM that came before.
AdoptBroker ==
    /\ script = "adopt"
    /\ broker' = IF termNeeded /\ broker = "running" THEN "stopping" ELSE broker
    /\ script' = "wait"
    /\ UNCHANGED <<phase, termNeeded, vector, prober, shutdownFile, history, crashes>>

\* Mutant: a single wait, from which the trap of the SIGTERM returns.
WaitReturnsOnSignal ==
    /\ \/ script = "wait" /\ broker \notin Alive
       \/ script = "waitAgain"
    /\ script' = "createFile"
    /\ UNCHANGED <<phase, termNeeded, broker, vector, prober, shutdownFile, history, crashes>>

\* The broker has ended.  A first wait is interrupted by the trap of a SIGTERM, after
\* which the traps are removed and the script waits again.
WaitReturns ==
    /\ script \in {"wait", "waitAgain"} /\ broker \notin Alive
    /\ script' = "createFile"
    /\ UNCHANGED <<phase, termNeeded, broker, vector, prober, shutdownFile, history, crashes>>

\* The last line: the file appears, Vector sees it, and the container ends.
CreateShutdownFile ==
    /\ script = "createFile"
    /\ shutdownFile' = TRUE
    /\ vector' = IF vector = "running" THEN "triggered" ELSE vector
    /\ script' = "exited"
    /\ UNCHANGED <<phase, termNeeded, broker, prober, history, crashes>>

-----------------------------------------------------------------------------
(* The other processes *)

\* The broker has shut down as it was told to.
BrokerStops ==
    /\ broker = "stopping"
    /\ broker' = "ended"
    /\ UNCHANGED <<phase, script, termNeeded, vector, prober, shutdownFile, history, crashes>>

BrokerCrashes ==
    /\ broker \in Alive
    /\ crashes < MaxCrashes /\ crashes' = crashes + 1
    /\ broker' = "ended"
    /\ UNCHANGED <<phase, script, termNeeded, vector, prober, shutdownFile, history>>

VectorEnds ==
    /\ vector = "triggered"
    /\ vector' = "ended"
    /\ UNCHANGED <<phase, script, termNeeded, broker, prober, shutdownFile, history, crashes>>

-----------------------------------------------------------------------------
(* The kubelet *)

\* restartPolicy Always; the log volume outlives the containers.
RestartKafka ==
    /\ phase = "running" /\ script = "exited"
    /\ script' = "removeFile" /\ broker' = "none" /\ termNeeded' = FALSE
    /\ UNCHANGED <<phase, vector, prober, shutdownFile, history, crashes>>

RestartVector ==
    /\ phase = "running" /\ vector = "ended"
    /\ vector' = IF shutdownFile THEN "triggered" ELSE "running"
    /\ UNCHANGED <<phase, script, termNeeded, broker, prober, shutdownFile, history, crashes>>

\* Mutant: each container has a process namespace of its own.
NamespacePerContainer == FALSE

SharedProcessNamespace == TRUE

\* A process without handler ends by SIGTERM, unless it is PID 1 of its namespace.
ProberOnSigterm == IF SharedProcessNamespace THEN "ended" ELSE prober

\* Mutant: the traps are set after the broker is started.
TrapsSetLate == script = "wait"

\* Lines at which the script's traps are set.
TrapsSet == script \in {"start", "adopt", "wait"}

\* SIGTERM to the script: remembered while the broker is not known, forwarded when it
\* is; with no trap set the container ends, and with it whatever runs in it.
ScriptOnSigterm ==
    \/ /\ TrapsSet /\ script # "wait"
       /\ termNeeded' = TRUE
       /\ UNCHANGED <<script, broker>>
    \/ /\ TrapsSet /\ script = "wait"
       /\ script' = "waitAgain"
       /\ broker' = IF broker = "running" THEN "stopping" ELSE broker
       /\ UNCHANGED termNeeded
    \/ /\ ~TrapsSet
       /\ script' = "exited"
       /\ broker' = IF broker \in Alive THEN "cut" ELSE broker
       /\ UNCHANGED termNeeded

\* The pod is deleted: by a rolling update, a drain, a smaller number of replicas.
\* Vector may end by the signal or wait for its file.
Terminate ==
    /\ phase = "running"
    /\ phase' = "terminating"
    /\ found' = broker
    /\ prober' = ProberOnSigterm
    /\ ScriptOnSigterm
    /\ vector' \in IF vector = "off" THEN {"off"} ELSE {vector, "ended"}
    /\ UNCHANGED <<shutdownFile, left, crashes>>

AllEnded == script = "exited" /\ prober = "ended" /\ vector \in {"off", "ended"}

PodGone ==
    /\ phase = "terminating" /\ AllEnded
    /\ phase' = "gone"
    /\ UNCHANGED <<script, termNeeded, broker, vector, prober, shutdownFile, history, crashes>>

\* Nothing in the pod goes on but perhaps a broker that is running or stopping.
OnlyBrokerBusy ==
    /\ \/ script = "exited"
       \/ script \in {"wait", "waitAgain"} /\ broker \in Alive
    /\ vector # "triggered"

\* terminationGracePeriodSeconds is over.
GracePeriodOver ==
    /\ phase = "terminating" /\ ~AllEnded /\ OnlyBrokerBusy
    /\ phase' = "killed"
    /\ left' = broker
    /\ script' = "exited" /\ prober' = "ended"
    /\ vector' = IF vector = "off" THEN "off" ELSE "ended"
    /\ broker' = IF broker \in Alive THEN "cut" ELSE broker
    /\ UNCHANGED <<termNeeded, shutdownFile, found, crashes>>

-----------------------------------------------------------------------------
Init ==
    /\ phase = "running"
    /\ script = "removeFile" /\ termNeeded = FALSE /\ broker = "none"
    /\ vector = IF VectorAgent THEN "running" ELSE "off"
    /\ prober = "running"
    /\ shutdownFile = FALSE
    /\ found = "none" /\ left = "none"
    /\ crashes = 0

Script ==
    \/ RemoveShutdownFile \/ PrepareSignalHandlers \/ StartBroker \/ AdoptBroker
    \/ WaitReturns \/ CreateShutdownFile

Next ==
    \/ phase \in {"running", "terminating"} /\ (Script \/ BrokerStops \/ BrokerCrashes \/ VectorEnds)
    \/ RestartKafka \/ RestartVector
    \/ Terminate \/ PodGone \/ GracePeriodOver

Spec == Init /\ [][Next]_vars

\* Processes run and the kubelet does its work.  A broker may take forever to stop,
\* and nobody has to delete the pod.
Fairness ==
    /\ WF_vars(phase \in {"running", "terminating"} /\ Script)
    /\ WF_vars(phase \in {"running", "terminating"} /\ VectorEnds)
    /\ WF_vars(RestartKafka) /\ WF_vars(RestartVector)
    /\ WF_vars(PodGone) /\ WF_vars(GracePeriodOver)

FairSpec == Spec /\ Fairness

-----------------------------------------------------------------------------
(* Properties *)

\* Every variable has its type; a broker is alive only while its script knows of it.
TypeOK ==
    /\ phase \in {"running", "terminating", "gone", "killed"}
    /\ script \in Lines
    /\ termNeeded \in BOOLEAN
    /\ broker \in {"none", "running", "stopping", "ended", "cut"}
    /\ vector \in {"off", "running", "triggered", "ended"}
    /\ prober \in {"running", "ended"}
    /\ shutdownFile \in BOOLEAN
    /\ found \in {"none", "running", "stopping", "ended", "cut"}
    /\ left \in {"none", "running", "stopping", "ended", "cut"}
    /\ crashes \in 0 .. MaxCrashes
    /\ broker \in Alive => script \in {"adopt", "wait", "waitAgain"}

\* No broker runs while the file that stops Vector is there, neither the one whose
\* end it announces nor one of a later container of the same pod: a Vector that
\* starts beside a broker stays (kafka_container_commands: remove first, create last).
NoShutdownFileBesideBroker == broker \in Alive => ~shutdownFile

\* A broker that has been started is never cut off but by the end of the grace period,
\* at whichever line of its script the SIGTERM comes: traps are set before the broker
\* starts and removed after it has ended.
CutOffOnlyByKill == broker = "cut" => phase = "killed" /\ left \in Alive

\* If SIGTERM finds a broker running, the pod is killed only because that broker did
\* not stop in time: the signal reaches it wherever the script is, and neither prober
\* nor Vector hold up the end of the pod.
KilledOnlyIfBrokerOverruns == phase = "killed" /\ found \in Alive => left = "stopping"

\* A pod that stays gets its broker back after crashes, and with it a Vector agent that
\* is not stopped again, although both containers share the file and restart in any order.
LogsFlowAgain ==
    <>[](phase = "running") =>
        <>[](broker = "running" /\ vector = IF VectorAgent THEN "running" ELSE "off")
=============================================================================
