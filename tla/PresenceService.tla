--------------------------- MODULE PresenceService ---------------------------
(***************************************************************************)
(* What the presence daemon promises to its clients on the system bus: a   *)
(* state that GetState answers, and a PresenceChanged after every change   *)
(* of it.  Agent.tla is driven by this module; Daemon.tla implements it.   *)
(* The two checks together stand for the product of the two programs.      *)
(***************************************************************************)

VARIABLE
  service   \* the service as its clients see it

\* `told`: the last PresenceChanged carried the state GetState answers now.
Service  == [up : BOOLEAN, available : BOOLEAN, present : BOOLEAN,
             told : BOOLEAN]
NoDaemon == [up |-> FALSE, available |-> FALSE, present |-> FALSE,
             told |-> FALSE]

Init == service = NoDaemon

\* The name is taken with a first state that nobody has been told yet.
Start ==
  /\ ~service.up
  /\ \E available, present \in BOOLEAN :
       /\ present => available
       /\ service' = [up |-> TRUE, available |-> available,
                      present |-> present, told |-> FALSE]

\* A sample changes the state.  A state is told before the next one is made.
Write ==
  /\ service.up /\ service.told
  /\ \E present \in BOOLEAN :
       service' = [up |-> TRUE, available |-> TRUE, present |-> present,
                   told |-> FALSE]

\* PresenceChanged is sent.
Announce ==
  /\ service.up /\ ~service.told
  /\ service' = [up |-> TRUE, available |-> service.available,
                 present |-> service.present, told |-> TRUE]

\* The name is gone: shutdown, an error or a crash.
Stop ==
  /\ service.up
  /\ service' = NoDaemon

Next == Start \/ Write \/ Announce \/ Stop

Spec == Init /\ [][Next]_service

\* A state is told to the clients unless the daemon ends first.
FairSpec == Spec /\ WF_service(Announce)
=============================================================================
