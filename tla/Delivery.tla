-------------------------------- MODULE Delivery --------------------------------
(***************************************************************************)
(* One message on its way through the dispatch listener of an event        *)
(* (infra/event-dispatcher.ts): the handlers run one after the other while *)
(* the Set they are taken from is live, for a handler and the callbacks of *)
(* the client may call on(), unsubscribe closures and disconnect(), and    *)
(* each of them may throw.                                                 *)
(*                                                                         *)
(* on() wraps every handler in a closure of its own, so that an entry of   *)
(* the Set is one subscription; entries are numbered as they come.         *)
(***************************************************************************)
EXTENDS Integers

CONSTANT MaxEntries     \* bound: entries the Set has had

ASSUME DeliveryAssumption == MaxEntries \in Nat

VARIABLES
    subscribed,     \* the entries the Set has had: 1 .. subscribed
    gone,           \* those that were deleted from it
    inUse,          \* the event's Set is still this one
    at,             \* the entry the iterator is at
    turn,           \* who runs: "handler", a callback, the "loop"; "none" before
    callbacks,      \* the callbacks the client was given
    called,         \* history: who was called at which entry
    thrown          \* history: who threw at which entry

setVars == <<subscribed, gone, inUse>>
deliveryVars == <<setVars, at, turn, callbacks, called, thrown>>

Callbacks == {"onHandlerError", "onCallbackError"}

\* What the program wrote.
Programs == {"handler"} \cup Callbacks

DeliveryInit ==
    /\ subscribed = 0 /\ gone = {} /\ inUse = TRUE /\ at = 0 /\ turn = "none"
    /\ callbacks = {} /\ called = {} /\ thrown = {}

-----------------------------------------------------------------------------

Calls(who, entry) == turn' = who /\ called' = called \cup {<<who, entry>>}

MessageArrives ==
    /\ turn = "none" /\ turn' = "loop"
    /\ subscribed' \in 1 .. MaxEntries
    /\ callbacks' \in SUBSET Callbacks
    /\ UNCHANGED <<gone, inUse, at, called, thrown>>

\* The iterator takes what was added behind it, and not what was deleted.
Rest == {entry \in at + 1 .. subscribed : entry \notin gone}

NextTurn ==
    /\ turn = "loop"
    /\ \E entry \in Rest :
          /\ \A other \in Rest : entry <= other
          /\ at' = entry /\ Calls("handler", entry)
    /\ UNCHANGED <<setVars, callbacks, thrown>>

DispatchEnds ==
    /\ turn = "loop" /\ Rest = {} /\ turn' = "ended"
    /\ UNCHANGED <<setVars, at, callbacks, called, thrown>>

\* on(), while the Set is the event's; later ones go to another Set.
Subscribes ==
    /\ turn \in Programs /\ inUse /\ subscribed < MaxEntries
    /\ subscribed' = subscribed + 1
    /\ UNCHANGED <<gone, inUse, at, turn, callbacks, called, thrown>>

\* A closure of on(): the event gives up a Set that is empty.
Unsubscribes ==
    /\ turn \in Programs
    /\ \E entry \in 1 .. subscribed : gone' = gone \cup {entry}
    /\ inUse' = (inUse /\ gone' # 1 .. subscribed)
    /\ UNCHANGED <<subscribed, at, turn, callbacks, called, thrown>>

\* disconnect() clears the Map, and not the Set of the loop.
ClearAllHandlers ==
    /\ turn \in Programs /\ inUse' = FALSE
    /\ UNCHANGED <<subscribed, gone, at, turn, callbacks, called, thrown>>

Returns ==
    /\ turn \in Programs /\ turn' = "loop"
    /\ UNCHANGED <<setVars, at, callbacks, called, thrown>>

ToldOf(who) ==
    CASE who = "handler" -> "onHandlerError"
      [] who = "onHandlerError" -> "onCallbackError"
      [] OTHER -> "log"

MutThrows ==
    /\ turn \in Programs /\ thrown' = thrown \cup {<<turn, at>>}
    /\ IF ToldOf(turn) \in callbacks THEN Calls(ToldOf(turn), at)
       ELSE turn' = "ended" /\ UNCHANGED called
    /\ UNCHANGED <<setVars, at, callbacks>>

\* handleHandlerError: an error goes to a callback, and that of a callback to the
\* next; after the last, or where there is none, the loop goes on.
Throws ==
    /\ turn \in Programs /\ thrown' = thrown \cup {<<turn, at>>}
    /\ IF ToldOf(turn) \in callbacks THEN Calls(ToldOf(turn), at)
       ELSE turn' = "loop" /\ UNCHANGED called
    /\ UNCHANGED <<setVars, at, callbacks>>

DeliveryNext ==
    \/ NextTurn \/ DispatchEnds
    \/ Subscribes \/ Unsubscribes \/ ClearAllHandlers
    \/ Returns \/ Throws

-----------------------------------------------------------------------------
(* Properties *)

\* The error of each in `who` was told to the callback it is for, and nothing else.
Told(who) ==
    ToldOf(who) \in callbacks =>
        \A entry \in 1 .. subscribed :
            <<ToldOf(who), entry>> \in called <=> <<who, entry>> \in thrown

\* A message reaches the handlers of its event once each, in the order they were
\* subscribed, whatever handlers and callbacks do meanwhile (the live Set of the
\* dispatch listener): no handler is called a second time or after it was
\* unsubscribed; and the dispatch does not end before all that were subscribed when
\* it began or since, to the same Set, were called or unsubscribed.  Neither a
\* handler that throws nor disconnect() takes the message from the others, and an
\* error was told to onHandlerError, and one that this threw to onCallbackError.
DeliveredOnce ==
    [][/\ at' # at =>
              /\ at' \notin gone /\ <<"handler", at'>> \notin called
              /\ \A entry \in 1 .. at' - 1 : entry \in gone \/ <<"handler", entry>> \in called
       /\ turn' = "ended" =>
              /\ \A entry \in 1 .. subscribed :
                    entry \in gone \/ <<"handler", entry>> \in called
              /\ Told("handler") /\ Told("onHandlerError")]_deliveryVars

=============================================================================
