-------------------------------- MODULE Searches --------------------------------
(***************************************************************************)
(* The two searches of the library, place by place: the walk up to the     *)
(* project root (findProjectRoot, infra/utils) and the way through PATH to *)
(* the daemon's entry point (resolveServerPath, infra/daemon).             *)
(***************************************************************************)
EXTENDS Integers, Sequences

CONSTANT MaxPlaces      \* bound: levels of a directory, entries of PATH

ASSUME SearchesAssumption == MaxPlaces \in Nat

VARIABLES
    search,     \* for the "root" of the project, the "entry" of the daemon; "none"
    places,     \* what the levels from the file system's root down, or the entries, hold
    place,      \* the place looked at
    outcome     \* "looking", "found" at this place, "nothing"; "given" by the caller

searchVars == <<search, places, place, outcome>>

Levels == {"config", "bare", "nothing"}
Entries == {"absent", "alone", "server"}

SearchesInit == search = "none" /\ places = <<>> /\ place = 0 /\ outcome = "nothing"

Ends(how) == outcome' = how /\ UNCHANGED <<search, places, place>>
Goes(to) == place' = to /\ UNCHANGED <<search, places, outcome>>

-----------------------------------------------------------------------------

\* findProjectRoot(startDir): from the deepest level up.
FindProjectRoot ==
    /\ search = "none" /\ search' = "root"
    /\ \E depth \in 1 .. MaxPlaces : places' \in [1 .. depth -> Levels] /\ place' = depth
    /\ outcome' = "looking"

\* access(.brv/config.json): a bare .brv directory is no project.
IsProjectRoot(level) == places[level] = "config"

WalkUp ==
    /\ search = "root" /\ outcome = "looking"
    /\ \/ IsProjectRoot(place) /\ Ends("found")
       \/ ~IsProjectRoot(place) /\ place = 1 /\ Ends("nothing")
       \/ ~IsProjectRoot(place) /\ place > 1 /\ Goes(place - 1)

\* resolveServerPath: an explicit path and BRV_SERVER_MAIN are taken unchecked.
ResolveServerPath ==
    /\ search = "none" /\ search' = "entry"
    /\ \E entries \in 1 .. MaxPlaces : places' \in [1 .. entries -> Entries]
    /\ place' = 1
    /\ outcome' \in {"given", "looking"}

\* autoResolveFromPath: a brv whose server is missing is passed by.
TryEntry ==
    /\ search = "entry" /\ outcome = "looking"
    /\ \/ place > Len(places) /\ Ends("nothing")
       \/ place <= Len(places) /\ places[place] = "server" /\ Ends("found")
       \/ place <= Len(places) /\ places[place] # "server" /\ Goes(place + 1)

-----------------------------------------------------------------------------

\* The searches end where they should: the project root is the nearest directory on
\* the way up with a .brv/config.json, whatever bare .brv directories lie in between;
\* a brv in PATH without its server does not hide a later one.
NearestFound ==
    LET roots == {level \in DOMAIN places : places[level] = "config"}
        servers == {entry \in DOMAIN places : places[entry] = "server"}
    IN  /\ search = "root" /\ outcome = "found" =>
               place \in roots /\ \A level \in roots : level <= place
        /\ search = "root" /\ outcome = "nothing" => roots = {}
        /\ search = "entry" /\ outcome = "found" =>
               place \in servers /\ \A entry \in servers : place <= entry
        /\ search = "entry" /\ outcome = "nothing" => servers = {}

=============================================================================
