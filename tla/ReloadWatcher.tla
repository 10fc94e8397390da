---------------------------- MODULE ReloadWatcher ----------------------------
(***************************************************************************)
(* The --reload mode of the command line (run_with_reload_watcher in       *)
(* src/jararaca/cli.py): the observer's thread restarts the child process  *)
(* when a Python file changes, while the main thread waits for Ctrl-C.     *)
(* Children are numbered in the order in which they are started.  A child  *)
(* loads the code when it is started.                                      *)
(***************************************************************************)
EXTENDS Integers

CONSTANT
  Changes  \* how many times a file changes

ASSUME ReloadAssumption == Changes \in Nat

VARIABLES
  version,  \* the version of the files
  events,   \* changes the observer has not handled
  quiet,    \* a second has passed since last_modified_time
  restart,  \* where on_modified stands: "idle", "terminate", "join", "start"
  children, \* the processes that are alive
  born,     \* how many were started: the last one is active_process
  loaded,   \* the version that one has loaded
  missed,   \* a change was dropped, or not noticed, since
  mainpc    \* the main thread: "watching", "join", "observer", "exit"

reloadVars == <<version, events, quiet, restart, children, born, loaded, missed, mainpc>>

ReloadInit ==
  /\ version = 0 /\ events = 0
  /\ quiet = FALSE
  /\ restart = "idle"
  /\ children = {1} /\ born = 1 /\ loaded = 0
  /\ missed = FALSE
  /\ mainpc = "watching"

ReloadTypeOK ==
  /\ version \in 0..Changes /\ events \in 0..Changes /\ loaded \in 0..version
  /\ quiet \in BOOLEAN /\ missed \in BOOLEAN
  /\ restart \in {"idle", "terminate", "join", "start"}
  /\ born \in 1..(Changes + 1) /\ children \subseteq 1..born
  /\ mainpc \in {"watching", "join", "observer", "exit"}

FileChanges ==
  /\ version < Changes
  /\ version' = version + 1
  /\ events' = events + 1
  /\ UNCHANGED <<quiet, restart, children, born, loaded, missed, mainpc>>

\* A file is renamed, replaced by a rename or removed: the handler overrides on_modified
\* only, and the observer has nothing to call.
FileMoves ==
  /\ version < Changes
  /\ version' = version + 1
  /\ missed' = TRUE
  /\ UNCHANGED <<events, quiet, restart, children, born, loaded, mainpc>>

SecondPasses ==
  /\ ~quiet
  /\ quiet' = TRUE
  /\ UNCHANGED <<version, events, restart, children, born, loaded, missed, mainpc>>

\* on_modified: a change within a second of the last one handled is dropped.  The
\* observer dispatches an event it took from its queue before it was stopped.
OnModified ==
  /\ events > 0 /\ restart = "idle"
  /\ mainpc # "exit"
  /\ events' = events - 1
  /\ quiet' = FALSE
  /\ IF quiet
       THEN restart' = "terminate" /\ UNCHANGED missed
       ELSE restart' = "idle" /\ missed' = TRUE
  /\ UNCHANGED <<version, children, born, loaded, mainpc>>

\* active_process is terminated, if it is alive.
Terminate ==
  /\ restart = "terminate"
  /\ restart' = IF born \in children THEN "join" ELSE "start"
  /\ UNCHANGED <<version, events, quiet, children, born, loaded, missed, mainpc>>

\* Mutation of Joined: the join's timeout is taken for the end of the process.
JoinedOrNot ==
  /\ restart = "join"
  /\ restart' = "start"
  /\ UNCHANGED <<version, events, quiet, children, born, loaded, missed, mainpc>>

\* It has ended within the grace period, or is killed and joined.
Joined ==
  /\ restart = "join"
  /\ children' = children \ {born}
  /\ restart' = "start"
  /\ UNCHANGED <<version, events, quiet, born, loaded, missed, mainpc>>

StartChild ==
  /\ restart = "start"
  /\ born' = born + 1
  /\ children' = children \cup {born + 1}
  /\ loaded' = version
  /\ missed' = FALSE
  /\ restart' = "idle"
  /\ UNCHANGED <<version, events, quiet, mainpc>>

\* A process ends: it fails, or it got the Ctrl-C as well, or it obeys the SIGTERM.
ChildEnds ==
  /\ \E p \in children : children' = children \ {p}
  /\ UNCHANGED <<version, events, quiet, restart, born, loaded, missed, mainpc>>

\* KeyboardInterrupt: the observer is told to stop, and the first process is terminated.
Interrupt ==
  /\ mainpc = "watching"
  /\ mainpc' = IF 1 \in children THEN "join" ELSE "observer"
  /\ UNCHANGED <<version, events, quiet, restart, children, born, loaded, missed>>

FirstJoined ==
  /\ mainpc = "join"
  /\ children' = children \ {1}
  /\ mainpc' = "observer"
  /\ UNCHANGED <<version, events, quiet, restart, born, loaded, missed>>

\* observer.join() waits for the handler in progress, and the interpreter's exit for the
\* children, none of which is a daemon.
ObserverJoined ==
  /\ mainpc = "observer" /\ restart = "idle" /\ children = {}
  /\ mainpc' = "exit"
  /\ UNCHANGED <<version, events, quiet, restart, children, born, loaded, missed>>

RestartStep == OnModified \/ Terminate \/ Joined \/ StartChild
MainStep == FirstJoined \/ ObserverJoined

ReloadNext ==
  FileChanges \/ FileMoves \/ SecondPasses \/ RestartStep \/ ChildEnds \/ Interrupt \/ MainStep

ReloadSpec == ReloadInit /\ [][ReloadNext]_reloadVars

-----------------------------------------------------------------------------
\* Two generations of the process never run at the same time, whatever the main thread
\* does while the observer's thread restarts it: two workers, or two schedulers, would.
OneChild == \A p, q \in children : p = q

\* The code that runs is the code on disk once the changes are handled, unless since it
\* was started a change fell within the debounce second of an earlier one, or a file was
\* renamed or removed.
StaleOnlyIfMissed ==
  (events = 0 /\ restart = "idle" /\ ~missed /\ mainpc = "watching") => loaded = version

\* One process runs, and the newest code.
RunsLatestAlone == ReloadTypeOK /\ OneChild /\ StaleOnlyIfMissed
=============================================================================
