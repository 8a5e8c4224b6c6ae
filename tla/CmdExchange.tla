----------------------------- MODULE CmdExchange -----------------------------
(***************************************************************************)
(* What executing commands over a link promises its callers: a command     *)
(* that was sent is taken by one executor, answered once, and the call     *)
(* returns with success only when its own command was answered.  A call    *)
(* that is refused or gives up says so.                                    *)
(***************************************************************************)
CONSTANT Callers   \* the threads that execute commands

VARIABLES phase,   \* phase[t]: where the command of the call that t is in has come to
          outcome  \* outcome[t]: how t's last call ended

xvars == <<phase, outcome>>

Init ==
    /\ phase = [t \in Callers |-> "idle"]
    /\ outcome = [t \in Callers |-> "none"]

Move(t, from, to) == phase[t] = from /\ phase' = [phase EXCEPT ![t] = to]
Ends(t, code) == outcome' = [outcome EXCEPT ![t] = code]

Begin(t)  == Move(t, "idle", "begun") /\ Ends(t, "none")
Send(t)   == Move(t, "begun", "sent") /\ UNCHANGED outcome
Take(t)   == Move(t, "sent", "taken") /\ UNCHANGED outcome
Answer(t) == Move(t, "taken", "answered") /\ UNCHANGED outcome
Return(t) == Move(t, "answered", "idle") /\ Ends(t, "answered")
Refuse(t) == Move(t, "begun", "idle") /\ Ends(t, "refused")
(* A caller that waits with a timeout gives up; the answer may have come too late. *)
GiveUp(t) == (\E p \in {"sent", "taken", "answered"} : Move(t, p, "idle")) /\ Ends(t, "timeout")

Next == \E t \in Callers : Begin(t) \/ Send(t) \/ Take(t) \/ Answer(t) \/ Return(t) \/ Refuse(t) \/ GiveUp(t)

Spec == Init /\ [][Next]_xvars
=============================================================================
