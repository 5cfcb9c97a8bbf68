---------------------------- MODULE JobLifecycle ----------------------------
(***************************************************************************)
(* What the outbox promises about one outbound job, without saying how: no *)
(* dispatcher, no policy, no database statements. A job is queued once, it *)
(* is claimed, each try is written to a log before the message can reach   *)
(* the recipient, a new try is made only when every earlier one has been   *)
(* logged as failed, and a job that is sent or blocked stays so.           *)
(* Outbox implements this specification when one dispatcher runs.          *)
(***************************************************************************)
EXTENDS Naturals, Sequences

CONSTANT Jobs

VARIABLES phase,    \* the job's state, "absent" before it is queued
          log,      \* the outcomes of its tries, in order
          reached   \* the tries whose message reached the recipient

lifecycleVars == <<phase, log, reached>>

Pending == {"queued", "failed"}

\* Every try before the next one has been logged as failed.
NoTryOpen(j) == \A k \in DOMAIN log[j] : log[j][k] = "failed"

LastTryOpen(j) == log[j] # <<>> /\ log[j][Len(log[j])] = "started"

Init ==
    /\ phase = [j \in Jobs |-> "absent"]
    /\ log = [j \in Jobs |-> <<>>]
    /\ reached = [j \in Jobs |-> {}]

\* The job moves from one of the states "from" to "to".
Move(j, from, to) ==
    /\ phase[j] \in from
    /\ phase' = [phase EXCEPT ![j] = to]

Queue(j) == Move(j, {"absent"}, "queued") /\ UNCHANGED <<log, reached>>

Block(j) == Move(j, Pending, "blocked") /\ UNCHANGED <<log, reached>>

Claim(j) ==
    /\ Move(j, Pending, "sending")
    /\ NoTryOpen(j)
    /\ UNCHANGED <<log, reached>>

Try(j) ==
    /\ phase[j] = "sending"
    /\ NoTryOpen(j)
    /\ log' = [log EXCEPT ![j] = Append(@, "started")]
    /\ UNCHANGED <<phase, reached>>

Reach(j) ==
    /\ phase[j] = "sending"
    /\ LastTryOpen(j)
    /\ reached' = [reached EXCEPT ![j] = @ \cup {Len(log[j])}]
    /\ UNCHANGED <<phase, log>>

LogFailure(j) ==
    /\ phase[j] = "sending"
    /\ LastTryOpen(j)
    /\ log' = [log EXCEPT ![j][Len(log[j])] = "failed"]
    /\ UNCHANGED <<phase, reached>>

GiveBack(j) ==
    /\ Move(j, {"sending"}, "failed")
    /\ NoTryOpen(j)
    /\ UNCHANGED <<log, reached>>

Complete(j) ==
    /\ Move(j, {"sending"}, "sent")
    /\ LastTryOpen(j)
    /\ Len(log[j]) \in reached[j]
    /\ log' = [log EXCEPT ![j][Len(log[j])] = "succeeded"]
    /\ UNCHANGED reached

Next ==
    \E j \in Jobs :
        \/ Queue(j) \/ Block(j) \/ Claim(j) \/ Try(j)
        \/ Reach(j) \/ LogFailure(j) \/ GiveBack(j) \/ Complete(j)

Spec == Init /\ [][Next]_lifecycleVars
=============================================================================
