----------------------------- MODULE FileWatcher ----------------------------
(***************************************************************************)
(* legacy/filewatcher.go around the consumer of LegacyHollow: Start polls  *)
(* a watched directory and refreshes the consumer when a file in it is new *)
(* or newer, WatchDirectory does so once, with fw.mu held, and Stop closes *)
(* a channel that Start may or may not be looking at.                      *)
(*                                                                         *)
(* One directory, in which the files are those whose names and size the    *)
(* watcher accepts: matchesPatterns, shouldIgnoreFile and MaxFileSize only *)
(* decide which those are.  A scan is one step: what it finds of one file  *)
(* does not depend on the others.  Poll interval and debounce delay are    *)
(* any length of time.                                                     *)
(***************************************************************************)
EXTENDS LegacyHollow

CONSTANTS
  Files,
  MaxTime,            \* bound on modification times
  Loop, Api,          \* the refreshers: the goroutine that runs Start, and
                      \* the one that calls WatchDirectory
  WatchWhileRunning,  \* whether directories are added while Start runs
  CanStop             \* whether Stop is called

ASSUME WatcherAssumption ==
  /\ Files # {}
  /\ Loop # Api /\ {Loop, Api} \subseteq Refreshers \ DeltaRefreshers
  /\ MaxTime \in Nat /\ WatchWhileRunning \in BOOLEAN /\ CanStop \in BOOLEAN

VARIABLES
  modTime,     \* of each file on disk, 0 if there is none
  watched,     \* WatchedDirectory.Files of the directory, or NotWatched
  adding,      \* the same, of one WatchDirectory has yet to put in place;
               \* then it holds fw.mu
  held,        \* the directory checkForChanges is to scan: its Files, and
               \* whether it is still the one in watchedDirs
  loop,        \* where Start stands
  isRunning,
  stopSignal,  \* the channel Start is looking at is closed
  stopCalled,  \* Stop was called since Start was
  ctxDone

watchVars == <<watched, adding, held>>
loopVars == <<loop, isRunning, stopSignal, stopCalled, ctxDone>>
vars == <<legacyVars, modTime, watchVars, loopVars>>

NotWatched == <<>>      \* differs from every map of Files, which is not empty
NoFiles == [f \in Files |-> 0]
NotHeld == [files |-> NotWatched, current |-> FALSE]
Unlocked == adding = NotWatched     \* nobody holds fw.mu for long

(* New or newer than when it was seen last.                                *)
Changed(files) == {f \in Files : modTime[f] > files[f]}

Init ==
  /\ LegacyInit
  /\ modTime \in [Files -> 0..1]
  /\ watched = NotWatched /\ adding = NotWatched /\ held = NotHeld
  /\ loop = "off" /\ isRunning = FALSE /\ ctxDone = FALSE
  /\ stopSignal = FALSE /\ stopCalled = FALSE

(***************************************************************************)
(* The directory                                                           *)
(***************************************************************************)

(* A file is written, or written for the first time after it was removed.  *)
Touch(f) ==
  /\ \E t \in 1..MaxTime : t > modTime[f] /\ modTime' = [modTime EXCEPT ![f] = t]
  /\ UNCHANGED <<legacyVars, watchVars, loopVars>>

Remove(f) ==
  /\ modTime[f] # 0
  /\ modTime' = [modTime EXCEPT ![f] = 0]
  /\ UNCHANGED <<legacyVars, watchVars, loopVars>>

(***************************************************************************)
(* Adding and removing the directory                                       *)
(***************************************************************************)

Debounces(r) == To(r, "debounce") /\ UNCHANGED <<state, consumerVersion, overlapped, failures>>

(* WatchDirectory: to a new WatchedDirectory every file is new.  A scan    *)
(* that fails changes nothing.                                             *)
WatchDirectory ==
  /\ Unlocked /\ Quiet(Api)
  /\ isRunning => WatchWhileRunning
  /\ adding' = modTime
  /\ IF Changed(NoFiles) # {}
     THEN Debounces(Api) /\ RefreshOnly
     ELSE UNCHANGED legacyVars
  /\ UNCHANGED <<modTime, watched, held, loopVars>>

(* Its end, once its scan has refreshed the consumer, or failed to.        *)
DirectoryWatched ==
  /\ ~Unlocked /\ Quiet(Api)
  /\ watched' = adding
  /\ adding' = NotWatched
  /\ held' = [held EXCEPT !.current = FALSE]
  /\ UNCHANGED <<legacyVars, modTime, loopVars>>

UnwatchDirectory ==
  /\ Unlocked /\ watched # NotWatched
  /\ watched' = NotWatched
  /\ held' = [held EXCEPT !.current = FALSE]
  /\ UNCHANGED <<legacyVars, modTime, adding, loopVars>>

(***************************************************************************)
(* Start, Stop and the scans                                               *)
(***************************************************************************)

LoopOnly == UNCHANGED <<legacyVars, modTime, watchVars>>

Start ==
  /\ Unlocked /\ ~isRunning /\ loop = "off"
  /\ isRunning' = TRUE /\ loop' = "loop"
  /\ stopSignal' = FALSE /\ stopCalled' = FALSE /\ ctxDone' = FALSE
  /\ LoopOnly

(* The select looks at the channel that is in fw.stopChan when it starts.  *)
(* Stop leaves an open one there.                                          *)
Select ==
  /\ loop = "loop"
  /\ loop' = "select" /\ stopSignal' = FALSE
  /\ UNCHANGED <<isRunning, stopCalled, ctxDone>> /\ LoopOnly

(* Only a Start that waits in its select sees its channel closed.          *)
Stop ==
  /\ Unlocked /\ isRunning /\ CanStop
  /\ stopSignal' = (stopSignal \/ loop = "select")
  /\ stopCalled' = TRUE
  /\ UNCHANGED <<loop, isRunning, ctxDone>> /\ LoopOnly

CancelContext ==
  /\ isRunning /\ ~ctxDone
  /\ ctxDone' = TRUE
  /\ UNCHANGED <<loop, isRunning, stopSignal, stopCalled>> /\ LoopOnly

(* Slip: the context is not among the cases.                               *)
SeesStop ==
  /\ loop = "select" /\ stopSignal
  /\ loop' = "ending"
  /\ UNCHANGED <<isRunning, stopSignal, stopCalled, ctxDone>> /\ LoopOnly

(* Of several cases that are ready, select takes any.                      *)
SeesEnd ==
  /\ loop = "select" /\ (stopSignal \/ ctxDone)
  /\ loop' = "ending"
  /\ UNCHANGED <<isRunning, stopSignal, stopCalled, ctxDone>> /\ LoopOnly

Ends ==
  /\ loop = "ending" /\ Unlocked
  /\ loop' = "off" /\ isRunning' = FALSE
  /\ UNCHANGED <<stopSignal, stopCalled, ctxDone>> /\ LoopOnly

Tick ==
  /\ loop = "select"
  /\ loop' = "check"
  /\ UNCHANGED <<isRunning, stopSignal, stopCalled, ctxDone>> /\ LoopOnly

(* checkForChanges copies watchedDirs, whose values are pointers.          *)
CheckForChanges ==
  /\ loop = "check" /\ Unlocked
  /\ IF watched = NotWatched
     THEN loop' = "loop" /\ UNCHANGED held
     ELSE loop' = "scan" /\ held' = [files |-> watched, current |-> TRUE]
  /\ UNCHANGED <<legacyVars, modTime, watched, adding, isRunning, stopSignal, stopCalled, ctxDone>>

(* Slip: what was seen is noted, and the consumer is not refreshed.        *)
ScanForgets ==
  /\ loop = "scan"
  /\ watched' = IF held.current THEN modTime ELSE watched
  /\ held' = NotHeld
  /\ loop' = "loop"
  /\ UNCHANGED <<legacyVars, modTime, adding, isRunning, stopSignal, stopCalled, ctxDone>>

(* scanDirectory notes what it saw, then has the consumer refreshed.       *)
ScanDirectory ==
  /\ loop = "scan"
  /\ watched' = IF held.current THEN modTime ELSE watched
  /\ held' = NotHeld
  /\ IF Changed(held.files) # {}
     THEN loop' = "refresh" /\ Debounces(Loop) /\ RefreshOnly
     ELSE loop' = "loop" /\ UNCHANGED legacyVars
  /\ UNCHANGED <<modTime, adding, isRunning, stopSignal, stopCalled, ctxDone>>

ScanFails ==
  /\ loop = "scan"
  /\ CanFail
  /\ held' = NotHeld /\ loop' = "loop"
  /\ UNCHANGED <<producerVars, storeVars, consumerVars, restarts>>
  /\ UNCHANGED <<modTime, watched, adding, isRunning, stopSignal, stopCalled, ctxDone>>

(* handleFileChanges has slept and calls Refresh.                          *)
Debounced(r) ==
  /\ refresh[r].at = "debounce"
  /\ To(r, "ask")
  /\ Overlaps(r)
  /\ UNCHANGED <<state, consumerVersion, failures>> /\ RefreshOnly

LoopRefreshed ==
  /\ loop = "refresh" /\ Quiet(Loop)
  /\ loop' = "loop"
  /\ UNCHANGED <<isRunning, stopSignal, stopCalled, ctxDone>> /\ LoopOnly

(***************************************************************************)
(* Specifications                                                          *)
(***************************************************************************)

Callers == Refreshers \ {Loop, Api}

(* The producer, and whoever else refreshes the consumer.                  *)
Others ==
  /\ \/ ProducerNext
     \/ \E r \in Callers : CallRefresh(r)
     \/ \E r \in DeltaRefreshers : CallRefreshWithDelta(r)
     \/ \E r \in Refreshers : RefreshFails(r)
  /\ UNCHANGED <<modTime, watchVars, loopVars>>

Refreshing(r) ==
  (Debounced(r) \/ RefreshStep(r)) /\ UNCHANGED <<modTime, watchVars, loopVars>>

WatcherNext ==
  \/ WatchDirectory \/ DirectoryWatched \/ UnwatchDirectory
  \/ Start \/ Select \/ Stop \/ CancelContext \/ SeesEnd \/ Ends
  \/ Tick \/ CheckForChanges \/ ScanDirectory \/ ScanFails \/ LoopRefreshed
  \/ \E r \in Refreshers : Refreshing(r)
  \/ \E f \in Files : Touch(f) \/ Remove(f)

Next == Others \/ WatcherNext

Spec == Init /\ [][Next]_vars

(* Goroutines run, the ticker ticks, select is not always blind to a case  *)
(* that is ready again and again, and RWMutex starves nobody.  Nobody has  *)
(* to call anything, to touch a file, or to run a cycle.                   *)
Fairness ==
  /\ \A r \in Refreshers : WF_vars(Refreshing(r))
  /\ WF_vars(Select \/ ScanDirectory \/ LoopRefreshed)
  /\ WF_vars(DirectoryWatched)
  /\ WF_vars(Tick)
  /\ SF_vars(SeesEnd) /\ SF_vars(Ends) /\ SF_vars(CheckForChanges)

FairSpec == Spec /\ Fairness

(***************************************************************************)
(* Properties                                                              *)
(***************************************************************************)

(* A file in a watched directory changes while version v is the latest:    *)
(* the consumer reaches v or a newer version, unless the directory or the  *)
(* file is removed, the watcher ends, or a scan or refresh fails           *)
(* (scanDirectory, which notes the change before it refreshes).  A         *)
(* WatchDirectory under way is excepted: it may have seen the change, but  *)
(* asked for the latest version before v was it, and in the end replaces   *)
(* what the watcher has seen.                                              *)
ChangeReachesConsumer ==
  \A f \in Files, v \in Versions :
    ( /\ isRunning /\ watched # NotWatched /\ Unlocked
      /\ f \in Changed(watched)
      /\ latest = v )
      ~> ( \/ consumerVersion >= v
           \/ ~isRunning \/ watched = NotWatched \/ modTime[f] = 0
           \/ failures > 0 )

(* Once its context is done Start ends, whatever it is doing (Start's      *)
(* select, against scans, debouncing and callers that hold fw.mu).         *)
CancelEndsStart == ctxDone ~> ~isRunning

(* The same for Stop (TestFileWatcher_StartStop: "Expected file watcher to *)
(* not be running after stop").                                            *)
StopEndsStart == stopCalled ~> ~isRunning
=============================================================================
