--------------------------- MODULE SignalBroadcast ---------------------------
(***************************************************************************)
(* What SignalWatcher promises (utils/signal.rs): one signal, multiplied   *)
(* to every handle.  A handle completes once the signal has been sent, it  *)
(* does not matter whether it was acquired before or after; before that    *)
(* no handle completes.                                                    *)
(***************************************************************************)
CONSTANT Handles

VARIABLES sent, waiting, completed

broadcastVars == <<sent, waiting, completed>>

BroadcastInit == sent = FALSE /\ waiting = {} /\ completed = {}

Send == ~sent /\ sent' = TRUE /\ UNCHANGED <<waiting, completed>>

Acquire(h) ==
    /\ h \notin waiting \cup completed
    /\ waiting' = waiting \cup {h}
    /\ UNCHANGED <<sent, completed>>

Complete(h) ==
    /\ sent /\ h \in waiting
    /\ waiting' = waiting \ {h}
    /\ completed' = completed \cup {h}
    /\ UNCHANGED sent

BroadcastNext == Send \/ \E h \in Handles : Acquire(h) \/ Complete(h)

BroadcastSafety == BroadcastInit /\ [][BroadcastNext]_broadcastVars

BroadcastSpec ==
    /\ BroadcastSafety
    /\ \A h \in Handles : WF_broadcastVars(Complete(h))

==============================================================================
