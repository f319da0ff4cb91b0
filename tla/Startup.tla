------------------------------- MODULE Startup -------------------------------
(***************************************************************************)
(* main of autobahn-router: the order in which it spawns its tasks and     *)
(* subscribes them to the exit broadcast, the SIGINT task, what ends a     *)
(* task, and the loop that watches them.  The exit message is sent once,   *)
(* to those subscribed at that moment.                                     *)
(***************************************************************************)
EXTENDS Naturals, Sequences, FiniteSets

CONSTANT Dexs  \* the enabled dexes: one updater each

(* A dex stands for its updater's task. *)
Updaters == Dexs

(* What main spawns, in its order: a stage is a stretch without an await.  *)
(* The first two are one such stretch, kept apart because the SIGINT task, *)
(* on another thread, can send between their subscriptions.                *)
Stages ==
    << {"chain_data", "metadata"},
       {"price_feed", "price_cache"},
       {"slot", "liquidity"} \cup Updaters,   \* after the dexes' initialize
       {"server"},                            \* after the server's bind
       {"geyser", "tx_sender", "tx_watcher", "mango", "path_warmer"} >>

Jobs == UNION {Stages[i] : i \in DOMAIN Stages}

(* The tasks given a receiver of the exit channel. *)
Receivers == Jobs \ {"metadata", "slot", "mango", "path_warmer"}

(* The join handles main waits for; the chain data task's is dropped. *)
Watched == Jobs \ {"chain_data"}

VARIABLES
    absent,   \* optional tasks this run has not: mango data missing, no path warming
    stage,    \* how many stages main has been through
    spawned,  \* the tasks running or ended
    ended,    \* the tasks that have returned
    heard,    \* the tasks the exit message was delivered to
    exit_flag,
    sigint,   \* the SIGINT task: "waiting", "flagged" or "sent"
    process   \* "running", "failed" (main returned an error), "aborted", "panicked"

startupVars == <<absent, stage, spawned, ended, heard, exit_flag, sigint, process>>

StartupInit ==
    /\ absent \in SUBSET {"mango", "path_warmer"}
    /\ stage = 0 /\ spawned = {} /\ ended = {} /\ heard = {}
    /\ exit_flag = FALSE /\ sigint = "waiting"
    /\ process = "running"

Alive(j) == process = "running" /\ j \in spawned \ ended

(* The end of the process is the end of its tasks. *)
Stop(how) ==
    /\ process' = how
    /\ spawned' = {} /\ ended' = {} /\ heard' = {} /\ exit_flag' = FALSE
    /\ UNCHANGED <<absent, stage>>

-----------------------------------------------------------------------------
(* main. *)

SpawnStage ==
    /\ process = "running" /\ stage < Len(Stages)
    /\ stage' = stage + 1
    /\ spawned' = spawned \cup (Stages[stage + 1] \ absent)
    /\ UNCHANGED <<absent, ended, heard, exit_flag, sigint, process>>

(* `?` on a dex's initialize, or on the server's bind. *)
StartFails ==
    /\ process = "running" /\ stage \in {2, 3}
    /\ Stop("failed")
    /\ UNCHANGED sigint

(* The final loop: jobs.next() yields as soon as one watched task ended,   *)
(* also when that was during the start.                                    *)
CriticalJobExited ==
    /\ process = "running" /\ stage = Len(Stages)
    /\ Watched \cap ended # {}
    /\ Stop("aborted")
    /\ UNCHANGED sigint

-----------------------------------------------------------------------------
(* The SIGINT task. *)

(* Variant of SetExitFlag: the path warmer is never told. *)
FlagUnset ==
    /\ process = "running" /\ sigint = "waiting"
    /\ sigint' = "flagged"
    /\ UNCHANGED <<absent, stage, spawned, ended, heard, exit_flag, process>>

SetExitFlag ==
    /\ process = "running" /\ sigint = "waiting"
    /\ exit_flag' = TRUE /\ sigint' = "flagged"
    /\ UNCHANGED <<absent, stage, spawned, ended, heard, process>>

(* exit_sender.send(()).unwrap() panics when nobody listens, and the panic *)
(* hook ends the process.                                                  *)
SendExit ==
    /\ process = "running" /\ sigint = "flagged"
    /\ sigint' = "sent"
    /\ \E listening \in {(spawned \cap Receivers) \ ended} :
         \/ listening = {} /\ Stop("panicked")
         \/ /\ listening # {} /\ heard' = listening
            /\ UNCHANGED <<absent, stage, spawned, ended, exit_flag, process>>

-----------------------------------------------------------------------------
(* The tasks. *)

End(j) ==
    /\ ended' = ended \cup {j}
    /\ UNCHANGED <<absent, stage, spawned, heard, exit_flag, sigint, process>>

(* The exit arm of a task's select; for the server the graceful shutdown.  *)
HearExit(j) ==
    /\ Alive(j) /\ j \in heard
    /\ End(j)

(* The path warmer looks at the flag between two searches. *)
WarmerSeesFlag ==
    /\ Alive("path_warmer") /\ exit_flag
    /\ End("path_warmer")

(* A task whose channel was closed by the end of the other side: the       *)
(* transaction watcher behind the transaction feed, the metadata relay     *)
(* behind the geyser feed or in front of the last updater.                 *)
ChannelClosed(j) ==
    /\ Alive(j)
    /\ \/ j = "tx_watcher" /\ "tx_sender" \in ended
       \/ j = "metadata" /\ "geyser" \in ended
       \/ j = "metadata" /\ Alive("geyser") /\ Updaters \subseteq ended
    /\ End(j)

(* A task that gives up: a feed after too many errors, an updater that     *)
(* lagged, timed out or met a failed snapshot.                             *)
GivesUp(j) ==
    /\ Alive(j) /\ j \in {"geyser", "tx_sender"} \cup Updaters
    /\ End(j)

(* The mango watcher ends the run when mango lists a new token or market,  *)
(* for the next start to take it up.                                       *)
NewMangoTokens ==
    /\ Alive("mango")
    /\ End("mango")

MainStep == SpawnStage \/ StartFails \/ CriticalJobExited

StartupNext ==
    \/ MainStep \/ SetExitFlag \/ SendExit \/ WarmerSeesFlag \/ NewMangoTokens
    \/ \E j \in Jobs : HearExit(j) \/ ChannelClosed(j) \/ GivesUp(j)

(* main's awaits return, and the runtime polls every task that can run.    *)
StartupFairness ==
    /\ WF_startupVars(MainStep) /\ WF_startupVars(SendExit) /\ WF_startupVars(WarmerSeesFlag)
    /\ \A j \in Jobs : WF_startupVars(HearExit(j))

StartupSpec == StartupInit /\ [][StartupNext]_startupVars /\ StartupFairness

-----------------------------------------------------------------------------
(* The process ends once one of the tasks main watches has, whether the    *)
(* start was over or not, and once the exit message has gone out, however  *)
(* early.  The one exception: the message went to the chain data task      *)
(* alone (SIGINT between its subscription and the price feed's), and no    *)
(* path warmer looks at the flag.                                          *)
RunEndsWithItsJobs ==
    /\ (Watched \cap ended # {}) ~> (process # "running")
    /\ (sigint = "sent" /\ ("path_warmer" \notin absent \/ heard \cap Watched # {})) ~> (process # "running")
==============================================================================
