----------------------------- MODULE VectorAgent -----------------------------
(***************************************************************************)
(* A pod whose product container runs the script that the operators build  *)
(* from COMMON_BASH_TRAP_FUNCTIONS (utils/bash.rs) and the two commands    *)
(* for Vector's shutdown file, beside the container of vector_container    *)
(* (product_logging/framework.rs and its copy in v2).  The two share the   *)
(* log volume and nothing else.  git-sync runs the same functions without  *)
(* the shutdown file.                                                      *)
(* Bash runs a trap between two commands, or by ending a "wait".  A shell  *)
(* that is the first process of its container ignores a signal it has no   *)
(* trap for.                                                               *)
(***************************************************************************)
EXTENDS Integers

CONSTANTS
    MaxExits,     \* bound: how often the product ends without being told to
    MaxUnshipped  \* bound: log lines that Vector has not read yet

ASSUME PodAssumption == MaxExits \in Nat /\ MaxUnshipped \in Nat

VARIABLES
    pod,          \* [restart_policy, nounset, deleted]: the pod, and the shell's options
    script,       \* [at, trap, pid, kill_needed]: the script of the product container
    product,      \* the process it starts: "none", "running", "stopping", "ended"
    term,         \* SIGTERM sent to the script and not handled yet
    exits,        \* how often the product ended on its own
    shutdown_file,
    agent,        \* where the script of the Vector container is
    missed,       \* the file appeared between the agent's test and its watch
    unshipped     \* log lines on the volume that Vector has not sent

podVars == <<pod, script, product, term, exits, shutdown_file, agent, missed, unshipped>>

NewScript == [at |-> "remove", trap |-> FALSE, pid |-> FALSE, kill_needed |-> FALSE]

Goes(from, to) == script.at = from /\ script' = [script EXCEPT !.at = to]

Signalled == IF product = "running" THEN "stopping" ELSE product

------------------------------------------------------------------------------
(* The script of the product container *)

remove_vector_shutdown_file_Never == UNCHANGED shutdown_file

remove_vector_shutdown_file == shutdown_file' = FALSE

RemoveFile ==
    /\ Goes("remove", "prepare")
    /\ remove_vector_shutdown_file
    /\ UNCHANGED <<pod, product, term, exits, agent, missed, unshipped>>

prepare_signal_handlers ==
    /\ script.at = "prepare"
    /\ script' = [at |-> "start", trap |-> TRUE, pid |-> FALSE, kill_needed |-> FALSE]
    /\ UNCHANGED <<pod, product, term, exits, shutdown_file, agent, missed, unshipped>>

StartProduct ==
    /\ Goes("start", "assign")
    /\ product' = "running"
    /\ UNCHANGED <<pod, term, exits, shutdown_file, agent, missed, unshipped>>

\* with "set -u" the unset ${term_child_pid} ends the shell, and with it the container
handle_term_signal ==
    IF script.pid
    THEN /\ product' = Signalled
         /\ script' = [script EXCEPT !.at = IF @ = "wait" THEN "untrap" ELSE @]
    ELSE IF pod.nounset
    THEN /\ product' = IF product = "none" THEN "none" ELSE "ended"
         /\ script' = [script EXCEPT !.at = "aborted"]
    ELSE /\ script' = [script EXCEPT !.kill_needed = TRUE]
         /\ UNCHANGED product

Trap ==
    /\ term /\ script.trap /\ script.at \notin {"exited", "aborted"}
    /\ handle_term_signal
    /\ term' = FALSE
    /\ UNCHANGED <<pod, exits, shutdown_file, agent, missed, unshipped>>

\* wait_for_termination, one action per command
AssignPid ==
    /\ script.at = "assign"
    /\ script' = [script EXCEPT !.at = "check", !.pid = TRUE]
    /\ UNCHANGED <<pod, product, term, exits, shutdown_file, agent, missed, unshipped>>

CheckKillNeeded ==
    /\ Goes("check", "wait")
    /\ product' = IF script.kill_needed THEN Signalled ELSE product
    /\ UNCHANGED <<pod, term, exits, shutdown_file, agent, missed, unshipped>>

\* the first wait also ends when the trap has run
Wait ==
    /\ Goes("wait", "untrap") /\ product = "ended"
    /\ UNCHANGED <<pod, product, term, exits, shutdown_file, agent, missed, unshipped>>

Untrap ==
    /\ script.at = "untrap"
    /\ script' = [script EXCEPT !.at = "wait_again", !.trap = FALSE]
    /\ UNCHANGED <<pod, product, term, exits, shutdown_file, agent, missed, unshipped>>

WaitAgain_Skipped == TRUE

WaitAgain == product = "ended"

FinishWaiting ==
    /\ Goes("wait_again", "create") /\ WaitAgain
    /\ UNCHANGED <<pod, product, term, exits, shutdown_file, agent, missed, unshipped>>

\* the agent hears of a file that is new, when it watches
create_vector_shutdown_file ==
    /\ shutdown_file' = TRUE
    /\ agent' = IF agent = "watching" /\ ~shutdown_file THEN "sleep" ELSE agent
    /\ missed' = (missed \/ agent = "watch")

CreateFile ==
    /\ Goes("create", "exited")
    /\ create_vector_shutdown_file
    /\ UNCHANGED <<pod, product, term, exits, unshipped>>

------------------------------------------------------------------------------
(* The product *)

WriteLog ==
    /\ product \in {"running", "stopping"} /\ unshipped < MaxUnshipped
    /\ unshipped' = unshipped + 1
    /\ UNCHANGED <<pod, script, product, term, exits, shutdown_file, agent, missed>>

Stop ==
    /\ product = "stopping"
    /\ product' = "ended"
    /\ UNCHANGED <<pod, script, term, exits, shutdown_file, agent, missed, unshipped>>

Exit ==
    /\ product = "running" /\ exits < MaxExits
    /\ product' = "ended" /\ exits' = exits + 1
    /\ UNCHANGED <<pod, script, term, shutdown_file, agent, missed, unshipped>>

------------------------------------------------------------------------------
(* The script of vector_container *)

AgentRuns == agent \in {"test", "watch", "watching", "sleep"}

StartVector ==
    /\ agent = "start"
    /\ agent' = "test"
    /\ UNCHANGED <<pod, script, product, term, exits, shutdown_file, missed, unshipped>>

\* if [ ! -f .../shutdown ]
TestFile ==
    /\ agent = "test"
    /\ agent' = IF shutdown_file THEN "sleep" ELSE "watch"
    /\ UNCHANGED <<pod, script, product, term, exits, shutdown_file, missed, unshipped>>

\* inotifywait: the watch is established after the test
WatchDirectory ==
    /\ agent = "watch"
    /\ agent' = "watching"
    /\ UNCHANGED <<pod, script, product, term, exits, shutdown_file, missed, unshipped>>

Ship ==
    /\ AgentRuns /\ unshipped > 0
    /\ unshipped' = unshipped - 1
    /\ UNCHANGED <<pod, script, product, term, exits, shutdown_file, agent, missed>>

\* "sleep 1" is taken to be long enough for what a product wrote that has ended
KillVector ==
    /\ agent = "sleep" /\ (product \in {"none", "ended"} => unshipped = 0)
    /\ agent' = "exited"
    /\ UNCHANGED <<pod, script, product, term, exits, shutdown_file, missed, unshipped>>

------------------------------------------------------------------------------
(* The kubelet.  That it kills the containers when the grace period is over  *)
(* is left out: the properties say what happens without it.                  *)

DeletePod ==
    /\ ~pod.deleted
    /\ pod' = [pod EXCEPT !.deleted = TRUE]
    /\ term' = script.trap
    /\ UNCHANGED <<script, product, exits, shutdown_file, agent, missed, unshipped>>

Restarts == pod.restart_policy = "Always" /\ ~pod.deleted

RestartProduct ==
    /\ Restarts /\ script.at \in {"exited", "aborted"}
    /\ script' = NewScript /\ product' = "none" /\ term' = FALSE
    /\ UNCHANGED <<pod, exits, shutdown_file, agent, missed, unshipped>>

RestartVector ==
    /\ Restarts /\ agent = "exited"
    /\ agent' = "start" /\ missed' = FALSE
    /\ UNCHANGED <<pod, script, product, term, exits, shutdown_file, unshipped>>

------------------------------------------------------------------------------
PodInit ==
    /\ pod \in [restart_policy : {"Always", "Never"}, nounset : BOOLEAN, deleted : {FALSE}]
    /\ script = NewScript /\ product = "none" /\ term = FALSE /\ exits = 0
    /\ shutdown_file = FALSE /\ agent = "start" /\ missed = FALSE /\ unshipped = 0

ScriptStep ==
    \/ RemoveFile \/ prepare_signal_handlers \/ StartProduct \/ AssignPid
    \/ CheckKillNeeded \/ Wait \/ Untrap \/ FinishWaiting \/ CreateFile

AgentStep == StartVector \/ TestFile \/ WatchDirectory \/ KillVector

PodNext ==
    \/ ScriptStep \/ Trap \/ AgentStep
    \/ WriteLog \/ Stop \/ Exit \/ Ship
    \/ DeletePod \/ RestartProduct \/ RestartVector

\* Nothing obliges the product to end or to write, or anybody to delete the
\* pod; each container goes on (its script, its trap, the product that was told
\* to stop, and its restart), and Vector sends what it finds.
PodFairness ==
    /\ WF_podVars(ScriptStep \/ Trap \/ Stop \/ RestartProduct)
    /\ WF_podVars(AgentStep \/ RestartVector) /\ WF_podVars(Ship)

PodSpec == PodInit /\ [][PodNext]_podVars /\ PodFairness

------------------------------------------------------------------------------
\* In a pod that is not restarted Vector is the last to end, and everything
\* the product wrote has been sent by then, wherever SIGTERM interrupts the
\* script: "logs from the products will always be shipped".
VectorOutlivesProduct ==
    (agent = "exited" /\ pod.restart_policy = "Never") =>
        product = "ended" /\ unshipped = 0

\* A SIGTERM that arrives once the handlers are prepared reaches the product,
\* also when the product is not started yet or its pid is not recorded.
TermReachesProduct ==
    (term /\ script.trap) ~> (product = "ended" \/ script.at = "aborted")

\* The product may fail and be restarted: as long as it runs from then on in a
\* pod that is not deleted, Vector runs again, because the script removes the file of its last run.
VectorComesBack ==
    <>[](product = "running" /\ Restarts) => <>[]AgentRuns

\* When the product's script is through and nothing is restarted, Vector ends
\* too, unless the file was created in the moment between test and watch.
VectorFollowsProduct ==
    (script.at = "exited" /\ ~Restarts /\ ~missed) ~> (agent = "exited" \/ missed)

\* "the vector process can be shut down by creating a file": at any time.
VectorCanBeShutDown ==
    (script.at = "exited" /\ ~Restarts) ~> (agent = "exited")

\* A pod starts and stops as a whole: a signal ends the product, the end of the
\* product ends Vector, and a product that is restarted has its Vector again.
PodStopsAndRestarts == TermReachesProduct /\ VectorFollowsProduct /\ VectorComesBack

==============================================================================
