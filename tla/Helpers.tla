--------------------------------- MODULE Helpers ---------------------------------
(***************************************************************************)
(* The parts of the library that work on their own: the timers of a        *)
(* client, the discovery of the daemon, the searches, the freezing of a    *)
(* configuration and the delivery of a message.  They share no state.      *)
(***************************************************************************)
EXTENDS Timers, Discovery, Searches, DeepFreeze, Delivery

CONSTANTS
    Files,          \* what reading daemon.json may yield
    Ages            \* ages of the heartbeat's timestamp

\* The numbers in a file are numbers.
ASSUME HelpersAssumption ==
    \A file \in Files : file.kind = "object" =>
        \A f \in {"pid", "port", "startedAt"} : file.fields[f].n \in Int

VARIABLE call       \* what is called; for a discovery, what it was asked and said

helpersVars == <<timerVars, searchVars, freezeVars, deliveryVars, call>>

Call(what) == [of |-> what]
NoCall == Call("nothing")

\* What kill(pid, 0) does, and what the heartbeat file holds.
Machines == [file : Files, kill : {"done", "EPERM", "ESRCH", "other error"},
             heartbeat : {Number(age) : age \in Ages} \cup {Text, Undefined}]

HelpersInit == TimersInit /\ SearchesInit /\ FreezeInit /\ DeliveryInit /\ call = NoCall

\* Bound: the timers run, or one helper once, since they share nothing.
Idle == HelpersInit

\* ensureDaemonRunning() looks for the daemon, then connectToTransport() does.
Discovers ==
    /\ Idle
    /\ \E machine \in Machines, newer \in BOOLEAN :
           call' = [of |-> "daemon", machine |-> machine, newer |-> newer,
                    sync |-> DiscoverDaemon(machine, newer),
                    async |-> Discover(machine, "a directory")]
    /\ UNCHANGED <<timerVars, searchVars, freezeVars, deliveryVars>>

TimersStep ==
    /\ call = NoCall /\ TimersNext
    /\ UNCHANGED <<searchVars, freezeVars, deliveryVars, call>>

SearchesStep ==
    /\ \/ Idle /\ call' = Call("search") /\ (FindProjectRoot \/ ResolveServerPath)
       \/ (WalkUp \/ TryEntry) /\ UNCHANGED call
    /\ UNCHANGED <<timerVars, freezeVars, deliveryVars>>

FreezeStep ==
    /\ \/ Idle /\ call' = Call("freeze") /\ DeepFreeze
       \/ (Visit \/ Freeze) /\ UNCHANGED call
    /\ UNCHANGED <<timerVars, searchVars, deliveryVars>>

DeliveryStep ==
    /\ \/ Idle /\ call' = Call("message") /\ MessageArrives
       \/ DeliveryNext /\ UNCHANGED call
    /\ UNCHANGED <<timerVars, searchVars, freezeVars>>

HelpersNext == Discovers \/ TimersStep \/ SearchesStep \/ FreezeStep \/ DeliveryStep

HelpersSpec == HelpersInit /\ [][HelpersNext]_helpersVars

-----------------------------------------------------------------------------
(* Properties; those of the timers and of a delivery are with their modules *)

\* The daemon that ensureDaemonRunning() finds is the one connect() finds: the two
\* readers of daemon.json, with a schema and a validator of their own, agree on
\* every file and machine, except that connect() does not ask for the version; the
\* status and the error tell the same reason; and a daemon that is found has a URL
\* that connect() accepts.
DiscoveriesAgree ==
    call.of = "daemon" =>
        LET said == call.sync
            found == call.async
            error == ConnectThrows(found)
        IN  /\ found.found <=> said \in {"healthy", "daemon_outdated"}
            /\ error = CASE said = "no_instance" -> "NoInstanceRunningError"
                           [] said = "pid_dead" -> "InstanceCrashedError"
                           [] said = "heartbeat_stale" -> "InstanceStaleError"
                           [] OTHER -> "nothing"
            /\ ToServerStatus(found).running <=> error = "nothing"
            /\ found.found => ValidateTransportUrl(GetTransportUrl(found.instance))

\* The searches of the library end where they should: those for the project root
\* and the daemon's entry point at the nearest and the first (findProjectRoot,
\* resolveServerPath), and deepFreeze when all that can be reached from the
\* configuration is frozen, whatever cycles it has and whatever was frozen before.
SearchesEndRight == NearestFound /\ FrozenDeeply

=============================================================================
