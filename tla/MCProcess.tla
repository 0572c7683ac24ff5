------------------------------- MODULE MCProcess -------------------------------
(* The circuit breaker with the three clients of one Python process (the       *)
(* batcher's thread, a foreground flush() and the control receiver), the       *)
(* process's two file watchers, with either backend, and the threads that      *)
(* start() and stop() of a control receiver leave behind.  They share no state *)
(* but the engine, of which each watcher sets its own part, so the behaviours  *)
(* explored are those in which one of the four moves.  Two writes of the       *)
(* policy file and its removal, one write with an old mtime, let two polls     *)
(* overtake each other; four creations and removals of the sentinel reach      *)
(* every gap of a poll; one call of the engine fails, and the control receiver *)
(* sets the switch once.                                                       *)
EXTENDS CircuitBreaker

CONSTANTS worker, flusher, receiver,
          Backends, MaxWrites, MaxBackdated, NoFile, MaxChanges, MaxFailures, MaxRemote,
          MaxStarts, MaxStops, MaxForks

VARIABLES
    moving,  \* what moves: "breaker", "policy", "switch" or "threads"
    policy_backend, policy_file, policy_writes, policy_backdated, policy_wellformed,
    policy_in_force, policy_installer, policy_last_mtime, policy_pc, policy_current,
    policy_content, policy_settled, policy_overtaken, policy_events, policy_unsafe,
    switch_backend, switch_file, switch_pc, switch_events,
    kill_switch, last_present, present, changes, failures, remote,
    stop_flag, thread, at, joining, starts, stops, forks, outlived, late

MCClients == {worker, flusher, receiver}
MCReceivers == {receiver}
Both == {"poll", "watchdog"}

Policy == INSTANCE PolicyFileWatcher WITH
    backend <- policy_backend, file <- policy_file, writes <- policy_writes,
    backdated <- policy_backdated, wellformed <- policy_wellformed,
    in_force <- policy_in_force, installer <- policy_installer,
    last_mtime <- policy_last_mtime, pc <- policy_pc, current_mtime <- policy_current,
    content <- policy_content, settled_mtime <- policy_settled, overtaken <- policy_overtaken,
    events <- policy_events, unsafe <- policy_unsafe

Switch == INSTANCE KillSwitchFileWatcher WITH
    backend <- switch_backend, file <- switch_file, pc <- switch_pc, events <- switch_events

Loops == INSTANCE ReceiverThreads

ASSUME PolicyWatcherAssumed == Policy!WatcherAssumption
ASSUME SwitchWatcherAssumed == Switch!SentinelAssumption
ASSUME ThreadsAssumed == Loops!ReceiverThreadsAssumption

policyVars == <<policy_backend, policy_file, policy_writes, policy_backdated,
                policy_wellformed, policy_in_force, policy_installer, policy_last_mtime,
                policy_pc, policy_current, policy_content, policy_settled,
                policy_overtaken, policy_events, policy_unsafe>>
switchVars == <<switch_backend, switch_file, switch_pc, switch_events,
                kill_switch, last_present, present, changes, failures, remote>>
loopVars == <<stop_flag, thread, at, joining, starts, stops, forks, outlived, late>>
allVars == <<moving, vars, policyVars, switchVars, loopVars>>

BreakerMoves(A) ==
    moving = "breaker" /\ A /\ UNCHANGED <<moving, policyVars, switchVars, loopVars>>
PolicyMoves(A) == moving = "policy" /\ A /\ UNCHANGED <<moving, vars, switchVars, loopVars>>
SwitchMoves(A) == moving = "switch" /\ A /\ UNCHANGED <<moving, vars, policyVars, loopVars>>
LoopMoves(A) == moving = "threads" /\ A /\ UNCHANGED <<moving, vars, policyVars, switchVars>>

\* What those that stay put start with makes no difference.
AllInit ==
    /\ moving \in {"breaker", "policy", "switch", "threads"}
    /\ Init /\ Policy!Init /\ Switch!Init /\ Loops!Init
    /\ moving # "breaker" => reachable = [c \in Clients |-> TRUE]
    /\ moving # "policy" => policy_backend = "poll" /\ policy_wellformed = Policy!Contents
    /\ moving # "switch" => switch_backend = "poll" /\ switch_file = "off"

AllNext ==
    \/ BreakerMoves(Next) \/ PolicyMoves(Policy!Next) \/ SwitchMoves(Switch!Next)
    \/ LoopMoves(Loops!Next)

\* Clocks advance, clients come back and report, the watchers' and the receiver's
\* threads run, and no request of the receiver's lasts for ever.
AllFairness ==
    /\ WF_allVars(BreakerMoves(Tick))
    /\ \A c \in Clients :
          WF_allVars(BreakerMoves(Allow(c))) /\ WF_allVars(BreakerMoves(Report(c)))
    /\ WF_allVars(PolicyMoves(Policy!Construct)) /\ WF_allVars(SwitchMoves(Switch!Construct))
    /\ WF_allVars(PolicyMoves(Policy!Start)) /\ WF_allVars(SwitchMoves(Switch!Start))
    /\ WF_allVars(PolicyMoves(Policy!Wake)) /\ WF_allVars(SwitchMoves(Switch!Wake))
    /\ \A t \in Policy!Threads :
          WF_allVars(PolicyMoves(Policy!Step(t))) /\ WF_allVars(SwitchMoves(Switch!Step(t)))
    /\ \A t \in Loops!Threads : WF_allVars(LoopMoves(Loops!Step(t)))
    /\ WF_allVars(LoopMoves(Loops!Joined))

AllSpec == AllInit /\ [][AllNext]_allVars /\ AllFairness

\* Every variable of the breaker, the watchers and the receiver's threads has its type.
AllTypeOK == TypeOK /\ Policy!TypeOK /\ Switch!TypeOK /\ Loops!TypeOK

\* A malformed policy file never takes effect, no poll hides a later change of the
\* file unless the two threads of a watchdog overtook each other, and the polling watcher
\* of the sentinel knows what it has applied (_poll).  A receiver that is started is
\* served, by one thread unless a stop() gave up on another, and one that is stopped
\* applies little more (start, stop, _run_loop).
ThreadsSafe ==
    /\ [](Policy!AlwaysWellformed /\ Policy!NothingHidden /\ Switch!KnowsSwitch)
    /\ [](Loops!Served /\ Loops!OneServes /\ Loops!LateOnce)

\* Besides, a well-formed change of the policy file is put in force and the switch comes
\* to agree with the sentinel, by polling or by file events, under the conditions each
\* watcher's module states (_poll, _run_watchdog); and a stopped receiver comes to rest.
ThreadsFollow ==
    /\ ThreadsSafe
    /\ Policy!ChangesApplied
    /\ moving = "switch" => Switch!FollowsFile /\ Switch!ObserverFollows
    /\ []<>Loops!StoppedEnd

\* Once every endpoint stays reachable, the circuit closes for good, unless
\* every client is gone (record_success, allow).
BreakerRecovers == moving = "breaker" => Recovers
=================================================================================
