----------------------------- MODULE PolicyStore -----------------------------
(***************************************************************************)
(* What the `settings` commands promise about the saved policy, however    *)
(* many run at once: it is one value.  A command that is not refused       *)
(* replaces it in one step of its own, with the policy it was given and no *)
(* other; one that fails, or is killed before that step, has changed       *)
(* nothing.  After a power failure the value is one it had before, whole.  *)
(***************************************************************************)

CONSTANTS
  Clients,    \* the callers, each with one command at a time
  Policies,   \* the policies that are accepted
  Offers,     \* what a command may be given
  Absent      \* no policy: what a reset is given

VARIABLES
  value,      \* the policy saved last
  durable,    \* the value after a power failure
  command,    \* the command of each caller
  given       \* what it was given

vars == <<value, durable, command, given>>

Init ==
  /\ value = Absent /\ durable = Absent
  /\ command = [c \in Clients |-> "idle"]
  /\ given = [c \in Clients |-> Absent]

Ask(c, offer) ==
  /\ command[c] = "idle"
  /\ command' = [command EXCEPT ![c] = "asked"]
  /\ given' = [given EXCEPT ![c] = offer]
  /\ UNCHANGED <<value, durable>>

\* The disk may take the new value at once.
TakesEffect(c) ==
  /\ command[c] = "asked" /\ given[c] \in Policies \cup {Absent}
  /\ value' = given[c]
  /\ durable' \in {durable, value'}
  /\ command' = [command EXCEPT ![c] = "done"]
  /\ UNCHANGED given

Fails(c) ==
  /\ command[c] = "asked"
  /\ command' = [command EXCEPT ![c] = "failed"]
  /\ UNCHANGED <<value, durable, given>>

\* The caller sees the end of the command, or kills it.
Ends(c) ==
  /\ command[c] # "idle"
  /\ command' = [command EXCEPT ![c] = "idle"]
  /\ given' = [given EXCEPT ![c] = Absent]
  /\ UNCHANGED <<value, durable>>

WriteBack ==
  /\ durable' = value
  /\ UNCHANGED <<value, command, given>>

PowerFails ==
  /\ value' = durable
  /\ command' = [c \in Clients |-> "idle"]
  /\ given' = [c \in Clients |-> Absent]
  /\ UNCHANGED durable

Next ==
  \/ \E c \in Clients :
       \/ \E offer \in Offers : Ask(c, offer)
       \/ TakesEffect(c) \/ Fails(c) \/ Ends(c)
  \/ WriteBack \/ PowerFails

Spec == Init /\ [][Next]_vars
=============================================================================
